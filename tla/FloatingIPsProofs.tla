------------------------- MODULE FloatingIPsProofs --------------------------
(***************************************************************************)
(* Two claims never hand out the same address, no NAT rule outlives its    *)
(* floating IP, and no two FloatingIP objects carry the same address, for  *)
(* any providers, claims, pods, nodes and addresses, across failing calls, *)
(* changing nodes and restarts.                                            *)
(***************************************************************************)
EXTENDS FloatingIPs, FiniteSetTheorems, WellFoundedInduction, TLAPS

-----------------------------------------------------------------------------
(* Types. *)

ClaimRec   == [ips : SUBSET Nat, phase : {"none", "new", "Ready", "NotReady"}, assigned : BOOLEAN]
Fip        == [id : Ids, claim : Claims, pod : Pods, ip : Nat, node : Nodes]
Alloc      == [has : SUBSET Nat, used : SUBSET Nat, nil : BOOLEAN]
ClaimEvent == {"first", "add", "update", "delete"} \X Claims \X ClaimRec \X ClaimRec
FipEvent   == {"add", "delete"} \X Fip
Job        == [pc : {"list", "clean", "alloc", "create", "release", "status"}, claim : Claims,
               read : ClaimRec, phase : {"Ready", "NotReady"}, err : BOOLEAN, on : SUBSET Fip,
               seen : SUBSET Pods, todo : SUBSET Pods, assigned : BOOLEAN, pod : SUBSET Pods,
               ip : SUBSET Nat, node : SUBSET Nodes, held : SUBSET ((SUBSET Nat) \X (SUBSET Nodes))]

\* What the API server gives the controllers: finitely many providers and
\* claims, natural numbers as addresses, no empty range in a provider.
WellFormed ==
  /\ IsFiniteSet(Providers) /\ IsFiniteSet(Claims)
  /\ RangeOf \in [Providers -> SUBSET Nat] /\ \A p \in Providers : {} \notin PairsOf[p]
  /\ ProviderOf \in [Claims -> Providers]
  /\ Specs \in [Claims -> SUBSET SUBSET Nat] /\ MaxFips \in Nat
  /\ \A w \in Worlds : /\ w.providers \subseteq Providers
                       /\ w.claims \in [Claims -> ClaimRec] /\ w.ready \subseteq Nodes
                       /\ w.pods \in [Pods -> {"none", "noip", "ip"}]

ApiTypes ==
  /\ providers \subseteq Providers /\ claims \in [Claims -> ClaimRec]
  /\ fips \subseteq Fip /\ IsFiniteSet(fips)
  /\ pods \in [Pods -> {"none", "noip", "ip"}] /\ ready \subseteq Nodes
EvTypes ==
  /\ providerEv \in Seq({"add", "delete"} \X Providers)
  /\ claimEv \in Seq(ClaimEvent) /\ fipEv \in Seq(FipEvent)
  /\ nodeEv \in [Nodes -> Seq({"add", "delete", "sync"})] /\ podEv \subseteq Pods
CtlTypes ==
  /\ boot \in BOOLEAN /\ deaf \in BOOLEAN
  /\ allocators \in [Providers -> Alloc] /\ suballocators \in [Claims -> Alloc]
  /\ fiOnNodes = [n \in Nodes |-> fiOnNodes[n]]
  /\ watching \subseteq Claims /\ queue \subseteq Claims
  /\ sync = Idle \/ sync \in Job
DbTypes == policy \subseteq Ids /\ nat \subseteq Ids
Types == ApiTypes /\ EvTypes /\ CtlTypes /\ DbTypes

-----------------------------------------------------------------------------
(* Claims and their ranges. *)

\* The deletion of c is among the events lo .. hi of q.
Del(q, c, lo, hi) == \E m \in lo .. hi : q[m][1] = "delete" /\ q[m][2] = c
\* What HandleClaim works on.
CtlState == [alloc : [Providers -> Alloc], sub : [Claims -> Alloc], watch : SUBSET Claims]
Now == [alloc |-> allocators, sub |-> suballocators, watch |-> watching]
\* c has a range that its provider's allocator holds for it alone.
Good(a, c) ==
  LET p == ProviderOf[c]
  IN /\ a.alloc[p] # NoAlloc /\ a.sub[c].has \subseteq a.alloc[p].used
     /\ \A d \in Claims : d # c /\ ProviderOf[d] = p => a.sub[c].has \cap a.sub[d].has = {}
\* The events up to cut concern claims that are deleted before it; they are the
\* only ones whose range may be that of another claim.
Doomed(a, q, p, cut) ==
  /\ \A k \in 1 .. cut : ProviderOf[q[k][2]] = p /\ q[k][1] # "delete" => Del(q, q[k][2], k + 1, cut)
  /\ \A c \in Claims : ProviderOf[c] = p /\ a.sub[c].has # {} /\ ~ Good(a, c) => Del(q, c, 1, cut)
\* A claim that is gone leaves no event and no range without a later deletion.
Gone(a, q, c) ==
  /\ a.sub[c].has # {} => Del(q, c, 1, Len(q))
  /\ \A k \in 1 .. Len(q) : q[k][2] = c /\ q[k][1] # "delete" => Del(q, c, k + 1, Len(q))
\* The allocators are those of the providers' and the claims' ranges.
Sound(a) ==
  /\ \A p \in Providers :
       a.alloc[p] = NoAlloc \/ (a.alloc[p].nil = FALSE /\ a.alloc[p].has = RangeOf[p])
  /\ \A c \in Claims : a.sub[c].has \subseteq RangeOf[ProviderOf[c]]

Cut(a, q, p) == \E cut \in 0 .. Len(q) : Doomed(a, q, p, cut)

Ranges ==
  /\ Sound(Now)
  /\ boot => claimEv = <<>> /\ \A c \in Claims : suballocators[c].has = {}
  /\ \A c \in Claims : claims[c] = NoClaim => Gone(Now, claimEv, c)
  /\ "orphan" \in disturbed \/ \A p \in Providers : Cut(Now, claimEv, p)

-----------------------------------------------------------------------------
(* NAT rules and reroute policies. *)

Rules == policy \cup nat
\* A row belongs to a floating IP, or its deletion is still to be handled.
Owned(i) == \/ \E f \in fips : f.id = i
            \/ \E k \in 1 .. Len(fipEv) : fipEv[k][1] = "delete" /\ fipEv[k][2].id = i
\* The floating IP of an event is there, or its deletion is a later event.
Announced(k) == \/ fipEv[k][2] \in fips
                \/ \E m \in k + 1 .. Len(fipEv) : fipEv[m] = <<"delete", fipEv[k][2]>>
Rows ==
  /\ deaf => Rules = {} /\ fipEv = <<>>
  /\ \A i \in Rules : Owned(i)
  /\ \A k \in 1 .. Len(fipEv) : fipEv[k][1] = "add" => Announced(k)

Inv == Types /\ Ranges /\ (disturbed \cap {"restart", "ovn"} = {} => Rows)

-----------------------------------------------------------------------------
(* Sequences. *)

\* SetToSeq and SetToSeqs list every element of a finite set, each one once.
Lists(s, S) == /\ s \in Seq(S)
               /\ \A x \in S : \E i \in 1 .. Len(s) : s[i] = x
               /\ \A i, j \in 1 .. Len(s) : s[i] = s[j] => i = j

LEMMA ListsInjection ==
  ASSUME NEW S, IsFiniteSet(S), NEW f \in [1 .. Cardinality(S) -> S], IsInjective(f)
  PROVE  Lists(f, S)
<1> DEFINE n == Cardinality(S)
<1>1. n \in Nat
  BY FS_CardinalityType
<1>2. f \in Injection(1 .. n, S)
  BY DEF Injection
<1>3. Cardinality(1 .. n) = n
  BY <1>1, FS_Interval
<1>4. f \in Surjection(1 .. n, S)
  BY <1>2, <1>3, FS_Injection, Zenon
<1>5. f \in Seq(S) /\ Len(f) = n /\ DOMAIN f = 1 .. n
  BY <1>1
<1> QED BY <1>4, <1>5 DEF Lists, Surjection, IsInjective

LEMMA SetToSeqLists == ASSUME NEW S, IsFiniteSet(S) PROVE Lists(SetToSeq(S), S)
<1>1. PICK g : g \in Bijection(1 .. Cardinality(S), S)
  BY FS_CardinalityType DEF ExistsBijection
<1>2. g \in [1 .. Cardinality(S) -> S] /\ IsInjective(g)
  BY <1>1 DEF Bijection, Injection
<1>3. /\ SetToSeq(S) \in [1 .. Cardinality(S) -> S] /\ IsInjective(SetToSeq(S))
  BY <1>2 DEF SetToSeq
<1> QED BY <1>3, ListsInjection

LEMMA SetToSeqsLists == ASSUME NEW S, IsFiniteSet(S), NEW s \in SetToSeqs(S) PROVE Lists(s, S)
<1>1. s \in [1 .. Cardinality(S) -> S] /\ IsInjective(s)
  BY DEF SetToSeqs, IsInjective
<1> QED BY <1>1, ListsInjection

\* What is queued behind the events of q: nothing while nobody watches.
Queued(quiet, q, r, es) ==
  /\ quiet => r = q
  /\ ~ quiet => /\ Len(r) = Len(q) + Len(es) /\ Len(r) \in Nat
                /\ \A k \in 1 .. Len(q) : r[k] = q[k]
                /\ \A k \in 1 .. Len(es) : r[Len(q) + k] = es[k]

LEMMA EventsQueued ==
  ASSUME NEW T, NEW q \in Seq(T), NEW es \in Seq(T), NEW quiet \in BOOLEAN
  PROVE  Events(quiet, q, es) \in Seq(T) /\ Queued(quiet, q, Events(quiet, q, es), es)
<1>1. CASE quiet
  BY <1>1 DEF Events, Queued
<1>2. CASE ~ quiet
  <2> DEFINE r == q \o es
  <2>1. /\ r \in Seq(T) /\ Len(r) = Len(q) + Len(es) /\ Len(r) \in Nat
        /\ Len(q) \in Nat /\ Len(es) \in Nat
        /\ \A k \in 1 .. Len(q) : r[k] = q[k]
        /\ \A k \in 1 .. Len(es) : r[Len(q) + k] = es[k]
    OBVIOUS
  <2>2. Events(quiet, q, es) = r
    BY <1>2 DEF Events
  <2> HIDE DEF r
  <2> QED BY <1>2, <2>1, <2>2 DEF Queued
<1> QED BY <1>1, <1>2

LEMMA TailTaken ==
  ASSUME NEW T, NEW q \in Seq(T), q # <<>>
  PROVE  /\ Tail(q) \in Seq(T) /\ Len(q) \in Nat \ {0} /\ Len(Tail(q)) = Len(q) - 1
         /\ Head(q) = q[1] /\ Head(q) \in T
         /\ \A k \in 1 .. Len(q) - 1 : Tail(q)[k] = q[k + 1]
  OBVIOUS

\* A set of natural numbers that is not empty has a least one.
LEMMA LowestIn ==
  ASSUME NEW S \in SUBSET Nat, S # {} PROVE Lowest(S) \in S
<1> DEFINE R == {ss \in Nat \X Nat : ss[1] < ss[2]}
<1>1. IsWellFoundedOn(R, Nat)
  BY NatLessThanWellFounded, Zenon DEF OpToRel
<1>2. PICK x \in S : \A y \in S : ~ (<<y, x>> \in R)
  <2> HIDE DEF R
  <2> QED BY <1>1, WFMin, Zenon
<1>3. \A y \in S : ~ (y < x)
  BY <1>2
<1>4. x \in S /\ \A y \in S : x <= y
  BY <1>3
<1> QED BY <1>4 DEF Lowest

-----------------------------------------------------------------------------
(* The types are kept. *)

USE DEF ApiTypes, EvTypes, CtlTypes, DbTypes

LEMMA NoneTypes == NoAlloc \in Alloc /\ NoClaim \in ClaimRec /\ Idle \notin Job
<1>1. ASSUME Idle \in Job PROVE FALSE
  <2>1. Idle.pc # "idle"
    BY <1>1 DEF Job
  <2> QED BY <2>1 DEF Idle
<1> QED BY <1>1 DEF NoAlloc, NoClaim, Alloc, ClaimRec

LEMMA FiniteImage ==
  ASSUME NEW S, IsFiniteSet(S), NEW f, f = [x \in S |-> f[x]]
  PROVE  IsFiniteSet({f[x] : x \in S})
<1> DEFINE T == {f[x] : x \in S}
<1>1. f \in Surjection(S, T)
  BY DEF Surjection
<1> HIDE DEF T
<1> QED BY <1>1, FS_Surjection DEF T

LEMMA AddEvents ==
  ASSUME NEW S, IsFiniteSet(S), NEW s,
         s = SetToSeq({<<"add", p>> : p \in S}) \/ s \in SetToSeqs({<<"add", p>> : p \in S})
  PROVE  Lists(s, {<<"add", p>> : p \in S})
<1> DEFINE T == {<<"add", p>> : p \in S}
           f == [p \in S |-> <<"add", p>>]
<1>1. T = {f[p] : p \in S} /\ f = [x \in S |-> f[x]]
  OBVIOUS
<1>2. IsFiniteSet(T)
  <2> HIDE DEF T, f
  <2> QED BY <1>1, FiniteImage
<1> HIDE DEF T
<1> QED BY <1>2, SetToSeqLists, SetToSeqsLists DEF T

LEMMA DeleteEvents ==
  ASSUME NEW S, IsFiniteSet(S)
  PROVE  Lists(SetToSeq({<<"delete", f>> : f \in S}), {<<"delete", f>> : f \in S})
<1> DEFINE T == {<<"delete", p>> : p \in S}
           f == [p \in S |-> <<"delete", p>>]
<1>1. T = {f[p] : p \in S} /\ f = [x \in S |-> f[x]]
  OBVIOUS
<1>2. IsFiniteSet(T)
  <2> HIDE DEF T, f
  <2> QED BY <1>1, FiniteImage
<1> HIDE DEF T
<1> QED BY <1>2, SetToSeqLists DEF T

LEMMA ClaimAdds ==
  ASSUME NEW S, IsFiniteSet(S), NEW s, s \in SetToSeqs({<<"first", c, NoClaim, claims[c]>> : c \in S})
  PROVE  Lists(s, {<<"first", c, NoClaim, claims[c]>> : c \in S})
<1> DEFINE T == {<<"first", c, NoClaim, claims[c]>> : c \in S}
           f == [c \in S |-> <<"first", c, NoClaim, claims[c]>>]
<1>1. T = {f[c] : c \in S} /\ f = [x \in S |-> f[x]]
  OBVIOUS
<1>2. IsFiniteSet(T)
  <2> HIDE DEF T, f
  <2> QED BY <1>1, FiniteImage
<1> HIDE DEF T
<1> QED BY <1>2, SetToSeqsLists DEF T

LEMMA ClaimDeletes ==
  ASSUME NEW S, IsFiniteSet(S)
  PROVE  Lists(SetToSeq({<<"delete", c, claims[c], NoClaim>> : c \in S}),
               {<<"delete", c, claims[c], NoClaim>> : c \in S})
<1> DEFINE T == {<<"delete", c, claims[c], NoClaim>> : c \in S}
           f == [c \in S |-> <<"delete", c, claims[c], NoClaim>>]
<1>1. T = {f[c] : c \in S} /\ f = [x \in S |-> f[x]]
  OBVIOUS
<1>2. IsFiniteSet(T)
  <2> HIDE DEF T, f
  <2> QED BY <1>1, FiniteImage
<1> HIDE DEF T
<1> QED BY <1>2, SetToSeqLists DEF T

LEMMA WiderSeq == ASSUME NEW S, NEW T, S \subseteq T, NEW s \in Seq(S) PROVE s \in Seq(T)
  OBVIOUS

\* DropFips: the objects go, and the deletion of each one is queued.
LEMMA Dropped ==
  ASSUME Types, NEW S, S \subseteq fips, DropFips(S)
  PROVE  /\ fips' \subseteq Fip /\ IsFiniteSet(fips') /\ fips' = fips \ S
         /\ fipEv' \in Seq(FipEvent)
         /\ \E es \in Seq({<<"delete", f>> : f \in S}) :
              /\ Lists(es, {<<"delete", f>> : f \in S}) /\ Queued(deaf, fipEv, fipEv', es)
<1> DEFINE T  == {<<"delete", f>> : f \in S}
           es == SetToSeq(T)
<1>1. IsFiniteSet(S) /\ IsFiniteSet(fips \ S)
  BY FS_Subset DEF Types
<1>2. Lists(es, T)
  BY <1>1, DeleteEvents
<1>3. T \subseteq FipEvent
  BY DEF Types, FipEvent
<1>4. es \in Seq(T) /\ es \in Seq(FipEvent)
  BY <1>2, <1>3, WiderSeq DEF Lists
<1>5. fips' = fips \ S /\ fipEv' = Events(deaf, fipEv, es)
  BY DEF DropFips
<1> HIDE DEF es, T
<1>6. fipEv' \in Seq(FipEvent) /\ Queued(deaf, fipEv, fipEv', es)
  BY <1>4, <1>5, EventsQueued DEF Types
<1> QED BY <1>1, <1>2, <1>4, <1>5, <1>6 DEF Types, T

LEMMA TypesInit == ASSUME WellFormed PROVE Init => Types
<1> SUFFICES ASSUME Init PROVE Types
  OBVIOUS
<1>1. /\ providers \subseteq Providers /\ claims \in [Claims -> ClaimRec] /\ ready \subseteq Nodes
      /\ pods \in [Pods -> {"none", "noip", "ip"}]
  BY DEF Init, WellFormed
<1>2. providerEv \in Seq({"add", "delete"} \X Providers)
  <2>1. Lists(providerEv, {<<"add", p>> : p \in providers})
    <3>1. IsFiniteSet(providers)
      BY <1>1, FS_Subset DEF WellFormed
    <3> QED BY <3>1, AddEvents DEF Init
  <2>2. {<<"add", p>> : p \in providers} \subseteq {"add", "delete"} \X Providers
    BY <1>1
  <2> QED BY <2>1, <2>2, WiderSeq DEF Lists
<1>3. nodeEv \in [Nodes -> Seq({"add", "delete", "sync"})]
  <2>1. <<>> \in Seq({"add", "delete", "sync"}) /\ <<"add">> \in Seq({"add", "delete", "sync"})
    OBVIOUS
  <2> QED BY <2>1 DEF Init
<1>4. allocators \in [Providers -> Alloc] /\ suballocators \in [Claims -> Alloc]
  BY NoneTypes DEF Init
<1>5. IsFiniteSet(fips)
  BY FS_EmptySet DEF Init
<1> QED BY <1>1, <1>2, <1>3, <1>4, <1>5 DEF Types, Init, Absent

LEMMA TypesProviders ==
  ASSUME WellFormed, Types, NEW p \in Providers, CreateProvider(p) \/ DeleteProvider(p)
  PROVE  Types'
<1>1. providers' \subseteq Providers /\ providerEv' \in Seq({"add", "delete"} \X Providers)
  <2>1. \E e \in {"add", "delete"} \X Providers : providerEv' = Append(providerEv, e)
    BY DEF CreateProvider, DeleteProvider
  <2>2. providerEv' \in Seq({"add", "delete"} \X Providers)
    BY <2>1 DEF Types
  <2> QED BY <2>2 DEF Types, CreateProvider, DeleteProvider
<1>2. UNCHANGED <<claims, fips, pods, ready, claimEv, fipEv, nodeEv, podEv, ctlVars, dbVars>>
  BY DEF CreateProvider, DeleteProvider
<1> QED BY <1>1, <1>2 DEF Types, ctlVars, dbVars

\* A claim is created, changed or deleted by a user: the event tells.
ClaimStep(c, kind) ==
  /\ claims' = [claims EXCEPT ![c] = claims'[c]] /\ claims'[c] \in ClaimRec
  /\ claimEv' = Events(boot, claimEv, << <<kind, c, IF kind = "add" THEN NoClaim ELSE claims[c], claims'[c]>> >>)
  /\ claims'[c] = NoClaim => kind = "delete"
  /\ UNCHANGED <<providers, fips, pods, ready, providerEv, fipEv, nodeEv, podEv, ctlVars, dbVars>>

LEMMA UserClaims ==
  ASSUME WellFormed, Types, NEW c \in Claims,
         \/ \E ips \in Specs[c] : CreateClaim(c, ips)
         \/ \E ips \in Specs[c] \cup {{}} : ChangeClaim(c, ips)
  PROVE  \E kind \in {"add", "update", "delete"} : ClaimStep(c, kind)
<1>1. CASE \E ips \in Specs[c] : CreateClaim(c, ips)
  <2>1. PICK ips \in Specs[c] : CreateClaim(c, ips)
    BY <1>1
  <2> DEFINE r == [ips |-> ips, phase |-> "new", assigned |-> FALSE]
  <2>2. r \in ClaimRec /\ r # NoClaim
    <3>1. r.phase # NoClaim.phase
      BY DEF NoClaim
    <3> QED BY <3>1 DEF ClaimRec, WellFormed
  <2>3. claims' = [claims EXCEPT ![c] = r] /\ claims'[c] = r
    BY <2>1 DEF CreateClaim, Types
  <2> HIDE DEF r
  <2> QED BY <2>1, <2>2, <2>3 DEF CreateClaim, ClaimStep
<1>2. CASE \E ips \in Specs[c] \cup {{}} : ChangeClaim(c, ips)
  <2>1. PICK ips \in Specs[c] \cup {{}} : ChangeClaim(c, ips)
    BY <1>2
  <2> DEFINE r == IF ips = {} THEN NoClaim ELSE [claims[c] EXCEPT !.ips = ips]
             kind == IF ips = {} THEN "delete" ELSE "update"
  <2>2. r \in ClaimRec
    BY NoneTypes DEF ClaimRec, WellFormed, Types
  <2>3. r = NoClaim => kind = "delete"
    <3>1. ips # {} => r.ips = ips
      BY DEF Types, ClaimRec
    <3> QED BY <3>1 DEF NoClaim
  <2>4. claims' = [claims EXCEPT ![c] = r] /\ claims'[c] = r
    BY <2>1 DEF ChangeClaim, Types
  <2>5. claimEv' = Events(boot, claimEv, << <<kind, c, claims[c], claims'[c]>> >>)
    BY <2>1 DEF ChangeClaim
  <2>6. kind \in {"update", "delete"}
    OBVIOUS
  <2>7. UNCHANGED <<providers, fips, pods, ready, providerEv, fipEv, nodeEv, podEv, ctlVars, dbVars>>
    BY <2>1 DEF ChangeClaim
  <2> HIDE DEF r, kind
  <2>8. ClaimStep(c, kind)
    BY <2>2, <2>3, <2>4, <2>5, <2>6, <2>7 DEF ClaimStep
  <2> QED BY <2>6, <2>8
<1> QED BY <1>1, <1>2

LEMMA TypesClaims ==
  ASSUME WellFormed, Types, NEW c \in Claims, NEW kind \in {"add", "update", "delete"}, ClaimStep(c, kind)
  PROVE  Types'
<1> DEFINE e == <<kind, c, IF kind = "add" THEN NoClaim ELSE claims[c], claims'[c]>>
<1>1. e \in ClaimEvent /\ e[1] = kind /\ e[2] = c
  BY NoneTypes DEF Types, ClaimStep, ClaimEvent
<1>2. claimEv' = Events(boot, claimEv, <<e>>)
  BY DEF ClaimStep
<1> HIDE DEF e
<1>3. <<e>> \in Seq(ClaimEvent)
  BY <1>1
<1>4. claimEv' \in Seq(ClaimEvent) /\ Queued(boot, claimEv, claimEv', <<e>>)
  <2>1. claimEv \in Seq(ClaimEvent) /\ boot \in BOOLEAN
    BY DEF Types
  <2> QED BY <1>2, <1>3, <2>1, EventsQueued, Zenon
<1>5. claims' \in [Claims -> ClaimRec]
  BY DEF ClaimStep, Types
<1> QED BY <1>4, <1>5 DEF Types, ClaimStep, ctlVars, dbVars

LEMMA TypesEnvironment ==
  ASSUME WellFormed, Types,
         \/ \E f \in fips : CollectGarbage(f)
         \/ \E p \in Pods : ChangePod(p)
         \/ \E n \in Nodes : ChangeNode(n)
  PROVE  Types'
<1>1. ASSUME NEW f \in fips, CollectGarbage(f) PROVE Types'
  <2>1. fips' \subseteq Fip /\ IsFiniteSet(fips') /\ fipEv' \in Seq(FipEvent)
    BY <1>1, Dropped DEF CollectGarbage
  <2> QED BY <1>1, <2>1 DEF CollectGarbage, Types, ctlVars, dbVars
<1>2. ASSUME NEW p \in Pods, ChangePod(p) PROVE Types'
  <2>1. pods' \in [Pods -> {"none", "noip", "ip"}]
    BY <1>2 DEF ChangePod, Types
  <2> QED BY <1>2, <2>1 DEF ChangePod, Types, ctlVars, dbVars
<1>3. ASSUME NEW n \in Nodes, ChangeNode(n) PROVE Types'
  <2>1. nodeEv' \in [Nodes -> Seq({"add", "delete", "sync"})]
    <3>1. \E k \in {"add", "delete"} : nodeEv' = [nodeEv EXCEPT ![n] = Append(nodeEv[n], k)]
      BY <1>3 DEF ChangeNode
    <3> QED BY <3>1 DEF Types
  <2>2. ready' \subseteq Nodes
    BY <1>3 DEF ChangeNode, Types
  <2> QED BY <1>3, <2>1, <2>2 DEF ChangeNode, Types, ctlVars, dbVars
<1> QED BY <1>1, <1>2, <1>3

\* The claims of a provider that is deleted are deleted, all but the orphans.
LEMMA ProviderDeleted ==
  ASSUME WellFormed, Types, NEW p \in Providers, DeleteFloatingIPProvider(p)
  PROVE  /\ claims' \in [Claims -> ClaimRec] /\ claimEv' \in Seq(ClaimEvent)
         /\ allocators' = [allocators EXCEPT ![p] = NoAlloc]
         /\ \E done \in SUBSET Claims, es \in Seq(ClaimEvent) :
              /\ \A c \in Claims : claims'[c] = IF c \in done THEN NoClaim ELSE claims[c]
              /\ \A i \in 1 .. Len(es) : es[i][1] = "delete" /\ es[i][2] \in done
              /\ \A c \in done : \E i \in 1 .. Len(es) : es[i][1] = "delete" /\ es[i][2] = c
              /\ Queued(boot, claimEv, claimEv', es)
              /\ "orphan" \in disturbed' \/ \A c \in Claims : ProviderOf[c] = p => claims'[c] = NoClaim
<1> DEFINE mine == {c \in Claims : claims[c] # NoClaim /\ ProviderOf[c] = p}
<1>1. PICK done \in SUBSET mine :
        /\ allocators' = [allocators EXCEPT ![p] = NoAlloc]
        /\ claims' = [c \in Claims |-> IF c \in done THEN NoClaim ELSE claims[c]]
        /\ claimEv' = Events(boot, claimEv, SetToSeq({<<"delete", c, claims[c], NoClaim>> : c \in done}))
        /\ IF done = mine THEN UNCHANGED histVars
           ELSE Spend("fault") /\ disturbed' = disturbed \cup {"orphan"}
  BY DEF DeleteFloatingIPProvider
<1> DEFINE T  == {<<"delete", c, claims[c], NoClaim>> : c \in done}
           es == SetToSeq(T)
<1>2. IsFiniteSet(done) /\ done \in SUBSET Claims
  BY FS_Subset DEF WellFormed
<1>3. Lists(es, T)
  BY <1>2, ClaimDeletes
<1>4. T \subseteq ClaimEvent
  BY <1>2, NoneTypes DEF Types, ClaimEvent
<1>5. /\ \A t \in T : t[1] = "delete" /\ t[2] \in done
      /\ \A c \in done : \E t \in T : t[1] = "delete" /\ t[2] = c
  <2>1. ASSUME NEW c \in done
        PROVE  LET t == <<"delete", c, claims[c], NoClaim>> IN t \in T /\ t[1] = "delete" /\ t[2] = c
    OBVIOUS
  <2>2. ASSUME NEW t \in T PROVE t[1] = "delete" /\ t[2] \in done
    <3>1. PICK c \in done : t = <<"delete", c, claims[c], NoClaim>>
      OBVIOUS
    <3> QED BY <3>1
  <2> QED BY <2>1, <2>2
<1>6. claimEv' = Events(boot, claimEv, es)
  BY <1>1
<1> HIDE DEF es, T
<1>7. /\ es \in Seq(ClaimEvent)
      /\ \A i \in 1 .. Len(es) : es[i] \in T
      /\ \A t \in T : \E i \in 1 .. Len(es) : es[i] = t
  BY <1>3, <1>4, WiderSeq DEF Lists
<1>8. claimEv' \in Seq(ClaimEvent) /\ Queued(boot, claimEv, claimEv', es)
  BY <1>6, <1>7, EventsQueued DEF Types
<1>9. \A c \in Claims : claims'[c] = IF c \in done THEN NoClaim ELSE claims[c]
  BY <1>1
<1>10. "orphan" \in disturbed' \/ \A c \in Claims : ProviderOf[c] = p => claims'[c] = NoClaim
  <2>1. CASE done = mine
    BY <1>9, <2>1
  <2>2. CASE done # mine
    BY <1>1, <2>2
  <2> QED BY <2>1, <2>2
<1>11. claims' \in [Claims -> ClaimRec]
  BY <1>1, NoneTypes DEF Types
<1>12. /\ \A i \in 1 .. Len(es) : es[i][1] = "delete" /\ es[i][2] \in done
       /\ \A c \in done : \E i \in 1 .. Len(es) : es[i][1] = "delete" /\ es[i][2] = c
  BY <1>5, <1>7
<1>13. \E gone \in SUBSET Claims, evs \in Seq(ClaimEvent) :
         /\ \A c \in Claims : claims'[c] = IF c \in gone THEN NoClaim ELSE claims[c]
         /\ \A i \in 1 .. Len(evs) : evs[i][1] = "delete" /\ evs[i][2] \in gone
         /\ \A c \in gone : \E i \in 1 .. Len(evs) : evs[i][1] = "delete" /\ evs[i][2] = c
         /\ Queued(boot, claimEv, claimEv', evs)
         /\ "orphan" \in disturbed' \/ \A c \in Claims : ProviderOf[c] = p => claims'[c] = NoClaim
  <2> done \in SUBSET Claims /\ es \in Seq(ClaimEvent)
    BY <1>2, <1>7
  <2> WITNESS done \in SUBSET Claims, es \in Seq(ClaimEvent)
  <2> QED BY <1>8, <1>9, <1>10, <1>12
<1> QED BY <1>1, <1>8, <1>11, <1>13

LEMMA TypesProviderHandler == ASSUME WellFormed, Types, HandleProvider PROVE Types'
<1> DEFINE e == Head(providerEv)
<1>1. /\ providerEv' \in Seq({"add", "delete"} \X Providers)
      /\ e \in {"add", "delete"} \X Providers
  BY TailTaken DEF HandleProvider, Types
<1>2. /\ UNCHANGED <<providers, fips, pods, ready, fipEv, nodeEv, podEv, boot, deaf,
                     suballocators, fiOnNodes, watching, queue, sync, dbVars>>
      /\ \/ AddFloatingIPProvider(e[2])
         \/ DeleteFloatingIPProvider(e[2])
  BY DEF HandleProvider
<1>3. e[2] \in Providers
  BY <1>1
<1> HIDE DEF e
<1>4. CASE AddFloatingIPProvider(e[2])
  <2>1. New(RangeOf[e[2]]) \in Alloc
    BY <1>3 DEF New, NewAllocationMap, Alloc, WellFormed
  <2>2. allocators' \in [Providers -> Alloc]
    BY <1>3, <1>4, <2>1 DEF AddFloatingIPProvider, Types
  <2>3. UNCHANGED <<claims, claimEv>>
    BY <1>4 DEF AddFloatingIPProvider
  <2> QED BY <1>1, <1>2, <2>2, <2>3 DEF Types, dbVars
<1>5. CASE DeleteFloatingIPProvider(e[2])
  <2>1. /\ claims' \in [Claims -> ClaimRec] /\ claimEv' \in Seq(ClaimEvent)
        /\ allocators' = [allocators EXCEPT ![e[2]] = NoAlloc]
    BY <1>3, <1>5, ProviderDeleted
  <2>2. allocators' \in [Providers -> Alloc]
    BY <1>3, <2>1, NoneTypes DEF Types
  <2> QED BY <1>1, <1>2, <2>1, <2>2 DEF Types, dbVars
<1> QED BY <1>2, <1>4, <1>5

-----------------------------------------------------------------------------
(* The claims' handler. *)

\* From a to b the claim c takes the free addresses ips of its provider.
TakesRange(a, b, c, ips) ==
  LET p == ProviderOf[c]
  IN /\ a.alloc[p] # NoAlloc /\ ips \subseteq a.alloc[p].has \ a.alloc[p].used
     /\ b.alloc = [a.alloc EXCEPT ![p] = With(a.alloc[p], ips)]
     /\ b.sub = [a.sub EXCEPT ![c] = New(ips)]

LEMMA Reserved ==
  ASSUME WellFormed, NEW a \in CtlState, NEW c \in Claims, NEW ips \in SUBSET Nat
  PROVE  LET b == Reserve(a, c, ips) IN b \in CtlState /\ (b = a \/ TakesRange(a, b, c, ips))
<1> DEFINE p == ProviderOf[c]
           b == Reserve(a, c, ips)
           pool == AllocatePool(a.alloc[p], ips)
<1>1. /\ p \in Providers /\ a.alloc \in [Providers -> Alloc] /\ a.sub \in [Claims -> Alloc]
      /\ a.watch \in SUBSET Claims /\ a.alloc[p] \in Alloc
  BY DEF WellFormed, CtlState
<1>2. CASE a.alloc[p] = NoAlloc \/ pool = a.alloc[p]
  <2>1. b = a
    BY <1>2 DEF Reserve
  <2> QED BY <2>1
<1>3. CASE ~ (a.alloc[p] = NoAlloc \/ pool = a.alloc[p])
  <2>1. ips \subseteq a.alloc[p].has \ a.alloc[p].used /\ pool = With(a.alloc[p], ips)
    BY <1>3 DEF AllocatePool, PoolIsAvailable, Free
  <2>2. With(a.alloc[p], ips) \in Alloc /\ New(ips) \in Alloc
    BY <1>1 DEF With, New, NewAllocationMap, Alloc
  <2>3. b = [alloc |-> [a.alloc EXCEPT ![p] = pool], sub |-> [a.sub EXCEPT ![c] = New(ips)],
             watch |-> a.watch \cup {c}]
    BY <1>3 DEF Reserve
  <2>4. /\ b.alloc = [a.alloc EXCEPT ![p] = With(a.alloc[p], ips)]
        /\ b.sub = [a.sub EXCEPT ![c] = New(ips)] /\ b.watch = a.watch \cup {c}
        /\ b = [alloc |-> b.alloc, sub |-> b.sub, watch |-> b.watch]
    BY <2>1, <2>3
  <2>5. b.alloc \in [Providers -> Alloc] /\ b.sub \in [Claims -> Alloc] /\ b.watch \in SUBSET Claims
    BY <1>1, <2>2, <2>4
  <2>6. b \in CtlState
    <3> HIDE DEF b
    <3> QED BY <2>4, <2>5 DEF CtlState
  <2> QED BY <1>3, <2>1, <2>4, <2>6 DEF TakesRange
<1> QED BY <1>2, <1>3

LEMMA Unreserved ==
  ASSUME WellFormed, NEW a \in CtlState, NEW c \in Claims
  PROVE  LET p == ProviderOf[c]
             b == Unreserve(a, c)
         IN /\ b \in CtlState
            /\ b.alloc = [a.alloc EXCEPT ![p] = IF @ = NoAlloc THEN @ ELSE Without(@, a.sub[c].has)]
            /\ b.sub = [a.sub EXCEPT ![c] = NoAlloc]
<1> DEFINE p == ProviderOf[c]
           b == Unreserve(a, c)
           al == [a.alloc EXCEPT ![p] = IF @ = NoAlloc THEN @ ELSE Without(@, a.sub[c].has)]
<1>1. /\ p \in Providers /\ a.alloc \in [Providers -> Alloc] /\ a.sub \in [Claims -> Alloc]
      /\ a.watch \in SUBSET Claims /\ a.alloc[p] \in Alloc /\ a.sub[c] \in Alloc
  BY DEF WellFormed, CtlState
<1>2. Without(a.alloc[p], a.sub[c].has) \in Alloc
  BY <1>1 DEF Without, Alloc
<1>3. al \in [Providers -> Alloc] /\ [a.sub EXCEPT ![c] = NoAlloc] \in [Claims -> Alloc]
  BY <1>1, <1>2, NoneTypes
<1>4. CASE a.sub[c] = NoAlloc
  <2>1. b = [a EXCEPT !.watch = @ \ {c}]
    BY <1>4 DEF Unreserve
  <2>2. b \in CtlState /\ b.alloc = a.alloc /\ b.sub = a.sub
    BY <2>1 DEF CtlState
  <2>3. Without(a.alloc[p], {}) = a.alloc[p]
    BY <1>1 DEF Without, Alloc
  <2>4. a.sub[c].has = {}
    BY <1>4 DEF NoAlloc
  <2>5. a.alloc = al /\ a.sub = [a.sub EXCEPT ![c] = NoAlloc]
    BY <1>1, <1>4, <2>3, <2>4
  <2> QED BY <2>2, <2>5
<1>5. CASE a.sub[c] # NoAlloc
  <2>1. b = [alloc |-> IF a.alloc[p] = NoAlloc THEN a.alloc
                       ELSE [a.alloc EXCEPT ![p] = ReleasePool(@, a.sub[c].has)],
             sub |-> [a.sub EXCEPT ![c] = NoAlloc], watch |-> a.watch \ {c}]
    BY <1>5 DEF Unreserve
  <2>2. (IF a.alloc[p] = NoAlloc THEN a.alloc
         ELSE [a.alloc EXCEPT ![p] = ReleasePool(@, a.sub[c].has)]) = al
    BY <1>1 DEF ReleasePool
  <2>3. b = [alloc |-> al, sub |-> [a.sub EXCEPT ![c] = NoAlloc], watch |-> a.watch \ {c}]
    BY <2>1, <2>2
  <2> HIDE DEF al, b
  <2>4. b \in CtlState
    BY <1>1, <1>3, <2>3 DEF CtlState
  <2> QED BY <2>3, <2>4 DEF al, b
<1> QED BY <1>4, <1>5

\* Every claim of the provider p that has a range has it for itself.
AllGood(a, p) == \A d \in Claims : ProviderOf[d] = p /\ a.sub[d].has # {} => Good(a, d)
\* What the handling of an event of c does to the others.
Kept(a, b, c) ==
  /\ \A d \in Claims : d # c => b.sub[d] = a.sub[d] /\ (Good(a, d) => Good(b, d))
  /\ \A q \in Providers : AllGood(a, q) => AllGood(b, q)

LEMMA KeptTwice ==
  ASSUME NEW a, NEW b, NEW d, NEW c \in Claims, Kept(a, b, c), Kept(b, d, c) PROVE Kept(a, d, c)
  BY DEF Kept

LEMMA WithNew ==
  ASSUME NEW a \in Alloc, NEW ips \in SUBSET Nat
  PROVE  /\ New(ips).has = ips /\ New(ips).nil = FALSE
         /\ With(a, ips).has = a.has /\ With(a, ips).nil = a.nil /\ With(a, ips).used = a.used \cup ips
         /\ Without(a, ips).has = a.has /\ Without(a, ips).nil = a.nil
         /\ Without(a, ips).used = a.used \ ips
         /\ NoAlloc.nil = TRUE /\ NoAlloc.has = {}
  BY DEF New, NewAllocationMap, With, Without, Alloc, NoAlloc

LEMMA ReserveKeeps ==
  ASSUME WellFormed, NEW a \in CtlState, Sound(a), NEW c \in Claims, NEW ips \in SUBSET Nat
  PROVE  LET b == Reserve(a, c, ips) IN b \in CtlState /\ Sound(b) /\ Kept(a, b, c)
<1> DEFINE b == Reserve(a, c, ips)
           p == ProviderOf[c]
<1>1. /\ p \in Providers /\ a.alloc \in [Providers -> Alloc] /\ a.sub \in [Claims -> Alloc]
      /\ ProviderOf \in [Claims -> Providers]
  BY DEF WellFormed, CtlState
<1>2. b \in CtlState /\ (b = a \/ TakesRange(a, b, c, ips))
  BY Reserved
<1> HIDE DEF b, p
<1>3. CASE b = a
  BY <1>2, <1>3 DEF Kept, b
<1>4. CASE b # a
  <2>1. /\ a.alloc[p] # NoAlloc /\ ips \subseteq a.alloc[p].has \ a.alloc[p].used
        /\ b.alloc[p] = With(a.alloc[p], ips) /\ b.sub[c] = New(ips)
        /\ \A q \in Providers : q # p => b.alloc[q] = a.alloc[q]
        /\ \A d \in Claims : d # c => b.sub[d] = a.sub[d]
    BY <1>1, <1>2, <1>4 DEF TakesRange, p
  <2>2. /\ b.alloc[p].has = a.alloc[p].has /\ b.alloc[p].used = a.alloc[p].used \cup ips
        /\ b.alloc[p].nil = a.alloc[p].nil /\ b.sub[c].has = ips
        /\ a.alloc[p].nil = FALSE /\ a.alloc[p].has = RangeOf[p]
    <3>1. a.alloc[p] \in Alloc
      BY <1>1
    <3>2. a.alloc[p].nil = FALSE /\ a.alloc[p].has = RangeOf[p]
      BY <1>1, <2>1 DEF Sound
    <3> QED BY <2>1, <3>1, <3>2 DEF With, New, NewAllocationMap, Alloc
  <2>3. b.alloc[p] # NoAlloc
    BY <2>2, WithNew DEF NoAlloc
  <2>4. Sound(b)
    <3>1. \A q \in Providers :
            b.alloc[q] = NoAlloc \/ (b.alloc[q].nil = FALSE /\ b.alloc[q].has = RangeOf[q])
      BY <2>1, <2>2 DEF Sound
    <3>2. \A d \in Claims : b.sub[d].has \subseteq RangeOf[ProviderOf[d]]
      BY <2>1, <2>2 DEF Sound, p
    <3> QED BY <3>1, <3>2 DEF Sound
  <2>5. ASSUME NEW d \in Claims, d # c, Good(a, d) PROVE Good(b, d)
    <3>1. CASE ProviderOf[d] = p
      <4>1. a.sub[d].has \subseteq a.alloc[p].used /\ b.sub[d] = a.sub[d]
        BY <2>1, <2>5, <3>1 DEF Good
      <4>2. b.sub[d].has \cap b.sub[c].has = {}
        BY <2>1, <2>2, <4>1
      <4>3. b.sub[d].has \subseteq b.alloc[p].used
        BY <2>2, <4>1
      <4> QED BY <2>1, <2>3, <2>5, <3>1, <4>1, <4>2, <4>3 DEF Good
    <3>2. CASE ProviderOf[d] # p
      BY <1>1, <2>1, <2>5, <3>2 DEF Good, p
    <3> QED BY <3>1, <3>2
  <2>6. ASSUME NEW q \in Providers, AllGood(a, q) PROVE AllGood(b, q)
    <3>1. ASSUME NEW d \in Claims, ProviderOf[d] = q, b.sub[d].has # {} PROVE Good(b, d)
      <4>1. CASE d # c
        BY <2>1, <2>5, <2>6, <3>1, <4>1 DEF AllGood
      <4>2. CASE d = c
        <5>1. \A e \in Claims : e # c /\ ProviderOf[e] = p => a.sub[e].has \subseteq a.alloc[p].used
          BY <2>6, <3>1, <4>2 DEF AllGood, Good, p
        <5>2. \A e \in Claims : e # c /\ ProviderOf[e] = p => b.sub[c].has \cap b.sub[e].has = {}
          BY <2>1, <2>2, <5>1
        <5> QED BY <2>2, <2>3, <4>2, <5>2 DEF Good, p
      <4> QED BY <4>1, <4>2
    <3> QED BY <3>1 DEF AllGood
  <2> QED BY <1>2, <2>1, <2>4, <2>5, <2>6 DEF Kept, b
<1> QED BY <1>3, <1>4

LEMMA UnreserveKeeps ==
  ASSUME WellFormed, NEW a \in CtlState, Sound(a), NEW c \in Claims
  PROVE  LET b == Unreserve(a, c)
         IN b \in CtlState /\ Sound(b) /\ Kept(a, b, c) /\ b.sub[c].has = {}
<1> DEFINE b == Unreserve(a, c)
           p == ProviderOf[c]
<1>1. /\ p \in Providers /\ a.alloc \in [Providers -> Alloc] /\ a.sub \in [Claims -> Alloc]
      /\ ProviderOf \in [Claims -> Providers] /\ a.sub[c].has \in SUBSET Nat
  BY DEF WellFormed, CtlState, Alloc
<1>2. /\ b \in CtlState
      /\ b.alloc = [a.alloc EXCEPT ![p] = IF @ = NoAlloc THEN @ ELSE Without(@, a.sub[c].has)]
      /\ b.sub = [a.sub EXCEPT ![c] = NoAlloc]
  BY Unreserved
<1> HIDE DEF b, p
<1>3. /\ b.alloc[p] = IF a.alloc[p] = NoAlloc THEN NoAlloc ELSE Without(a.alloc[p], a.sub[c].has)
      /\ b.sub[c] = NoAlloc /\ b.sub[c].has = {}
      /\ \A q \in Providers : q # p => b.alloc[q] = a.alloc[q]
      /\ \A d \in Claims : d # c => b.sub[d] = a.sub[d]
  BY <1>1, <1>2 DEF NoAlloc
<1>4. ASSUME a.alloc[p] # NoAlloc
      PROVE  /\ b.alloc[p].has = RangeOf[p] /\ b.alloc[p].nil = FALSE /\ b.alloc[p] # NoAlloc
             /\ b.alloc[p].used = a.alloc[p].used \ a.sub[c].has
  <2>1. a.alloc[p] \in Alloc
    BY <1>1
  <2>2. a.alloc[p].nil = FALSE /\ a.alloc[p].has = RangeOf[p]
    BY <1>1, <1>4 DEF Sound
  <2>3. b.alloc[p] = Without(a.alloc[p], a.sub[c].has)
    BY <1>3, <1>4
  <2>4. /\ b.alloc[p].has = RangeOf[p] /\ b.alloc[p].nil = FALSE /\ NoAlloc.nil = TRUE
        /\ b.alloc[p].used = a.alloc[p].used \ a.sub[c].has
    BY <1>1, <2>1, <2>2, <2>3 DEF Without, Alloc, NoAlloc
  <2> QED BY <2>4
<1>5. Sound(b)
  <2>1. \A q \in Providers :
          b.alloc[q] = NoAlloc \/ (b.alloc[q].nil = FALSE /\ b.alloc[q].has = RangeOf[q])
    BY <1>3, <1>4 DEF Sound
  <2>2. \A d \in Claims : b.sub[d].has \subseteq RangeOf[ProviderOf[d]]
    BY <1>3 DEF Sound
  <2> QED BY <2>1, <2>2 DEF Sound
<1>6. ASSUME NEW d \in Claims, d # c, Good(a, d) PROVE Good(b, d)
  <2>1. CASE ProviderOf[d] = p
    <3>1. /\ a.alloc[p] # NoAlloc /\ a.sub[d].has \subseteq a.alloc[p].used /\ b.sub[d] = a.sub[d]
          /\ a.sub[d].has \cap a.sub[c].has = {}
      BY <1>3, <1>6, <2>1 DEF Good, p
    <3>2. b.sub[d].has \subseteq b.alloc[p].used
      BY <1>4, <3>1
    <3>3. \A e \in Claims : e # d /\ ProviderOf[e] = p => b.sub[d].has \cap b.sub[e].has = {}
      BY <1>3, <1>6, <2>1, <3>1 DEF Good
    <3> QED BY <1>4, <2>1, <3>1, <3>2, <3>3 DEF Good
  <2>2. CASE ProviderOf[d] # p
    BY <1>1, <1>3, <1>6, <2>2 DEF Good, p
  <2> QED BY <2>1, <2>2
<1>7. ASSUME NEW q \in Providers, AllGood(a, q) PROVE AllGood(b, q)
  BY <1>3, <1>6, <1>7 DEF AllGood
<1> QED BY <1>2, <1>3, <1>5, <1>6, <1>7 DEF Kept, b

LEMMA NowState == ASSUME Types PROVE Now \in CtlState
  BY DEF Types, Now, CtlState

\* The queue after the first half of an update: the addition is still to come.
Announcing == [claimEv EXCEPT ![1] = <<"add", claimEv[1][2], claimEv[1][3], claimEv[1][4]>>]

LEMMA ClaimHandled ==
  ASSUME WellFormed, Types, Sound(Now), HandleClaim
  PROVE  /\ claimEv # <<>> /\ claimEv[1] \in ClaimEvent
         /\ claimEv' = IF Replaced(claimEv[1]) THEN Announcing ELSE Tail(claimEv)
         /\ Now' \in CtlState /\ Sound(Now') /\ Kept(Now, Now', claimEv[1][2])
         /\ claimEv[1][1] = "delete" \/ Replaced(claimEv[1]) => Now'.sub[claimEv[1][2]].has = {}
         /\ queue' = queue \cup {claimEv[1][2]}
         /\ UNCHANGED <<apiVars, providerEv, fipEv, nodeEv, podEv, boot, deaf, fiOnNodes, sync, dbVars, histVars>>
<1> DEFINE e == Head(claimEv)
           c == e[2]
           b == IF e[1] = "delete" \/ Replaced(e) THEN Unreserve(Now, c) ELSE Reserve(Now, c, e[4].ips)
<1>1. /\ claimEv # <<>>
      /\ claimEv' = IF Replaced(e) THEN [claimEv EXCEPT ![1] = <<"add", c, e[3], e[4]>>] ELSE Tail(claimEv)
      /\ allocators' = b.alloc /\ suballocators' = b.sub /\ watching' = b.watch
      /\ queue' = queue \cup {c}
      /\ UNCHANGED <<apiVars, providerEv, fipEv, nodeEv, podEv, boot, deaf, fiOnNodes, sync, dbVars, histVars>>
  BY DEF HandleClaim, Now
<1>2. e = claimEv[1] /\ e \in ClaimEvent
  BY <1>1, TailTaken DEF Types
<1>3. /\ c \in Claims /\ e[1] \in {"first", "add", "update", "delete"} /\ e[4].ips \in SUBSET Nat
  BY <1>2 DEF ClaimEvent, ClaimRec
<1>4. Now \in CtlState
  BY NowState
<1> HIDE DEF e
<1>5. /\ b \in CtlState /\ Sound(b) /\ Kept(Now, b, c)
      /\ e[1] = "delete" \/ Replaced(e) => b.sub[c].has = {}
  <2> HIDE DEF c
  <2>1. CASE e[1] = "delete" \/ Replaced(e)
    <3>1. b = Unreserve(Now, c)
      BY <2>1
    <3> QED BY <1>3, <1>4, <3>1, UnreserveKeeps
  <2>2. CASE ~ (e[1] = "delete" \/ Replaced(e))
    <3>1. b = Reserve(Now, c, e[4].ips)
      BY <2>2
    <3> QED BY <1>3, <1>4, <2>2, <3>1, ReserveKeeps
  <2> QED BY <2>1, <2>2
<1> HIDE DEF b
<1>6. Now' = b
  <2>1. b = [alloc |-> b.alloc, sub |-> b.sub, watch |-> b.watch]
    BY <1>5 DEF CtlState
  <2> QED BY <1>1, <2>1 DEF Now
<1> QED BY <1>1, <1>2, <1>5, <1>6 DEF Announcing

LEMMA TypesClaimHandler == ASSUME WellFormed, Types, Sound(Now), HandleClaim PROVE Types'
<1>1. /\ claimEv # <<>> /\ claimEv[1] \in ClaimEvent
      /\ claimEv' = IF Replaced(claimEv[1]) THEN Announcing ELSE Tail(claimEv)
      /\ Now' \in CtlState /\ queue' = queue \cup {claimEv[1][2]}
      /\ UNCHANGED <<apiVars, providerEv, fipEv, nodeEv, podEv, boot, deaf, fiOnNodes, sync, dbVars, histVars>>
  BY ClaimHandled
<1>2. claimEv' \in Seq(ClaimEvent)
  <2> DEFINE e == <<"add", claimEv[1][2], claimEv[1][3], claimEv[1][4]>>
  <2>1. e \in ClaimEvent
    BY <1>1 DEF ClaimEvent
  <2> HIDE DEF e
  <2>2. [claimEv EXCEPT ![1] = e] \in Seq(ClaimEvent)
    BY <1>1, <2>1 DEF Types
  <2> QED BY <1>1, <2>2, TailTaken DEF Types, Announcing, e
<1>3. /\ allocators' \in [Providers -> Alloc] /\ suballocators' \in [Claims -> Alloc]
      /\ watching' \subseteq Claims
  BY <1>1 DEF CtlState, Now
<1>4. queue' \subseteq Claims
  BY <1>1 DEF Types, ClaimEvent
<1> QED BY <1>1, <1>2, <1>3, <1>4 DEF Types, apiVars, dbVars

-----------------------------------------------------------------------------
(* The other handlers. *)

\* A floating IP event is handled: its rows follow it.
LEMMA TypesFipHandler == ASSUME WellFormed, Types, HandleFip PROVE Types'
<1> DEFINE e == Head(fipEv)
           f == e[2]
<1>1. /\ fipEv # <<>> /\ fipEv' = Tail(fipEv)
      /\ \/ /\ e[1] = "add" /\ AddFloatingIP(f)
            /\ UNCHANGED <<suballocators, fiOnNodes, queue>>
         \/ e[1] = "delete" /\ DeleteFloatingIP(f) /\ ClaimReleases(f)
      /\ UNCHANGED <<apiVars, providerEv, claimEv, nodeEv, podEv, boot, deaf, allocators, watching, sync>>
  BY DEF HandleFip
<1>2. fipEv' \in Seq(FipEvent) /\ e \in FipEvent
  BY <1>1, TailTaken DEF Types
<1>3. f \in Fip /\ f.id \in Ids /\ f.claim \in Claims /\ f.node \in Nodes
  BY <1>2 DEF FipEvent, Fip
<1> HIDE DEF e, f
<1>4. DbTypes'
  BY <1>1, <1>3 DEF Types, AddFloatingIP, AddPodFloatingIP, CreateReroutePolicy, CreateNATRule,
        DeleteFloatingIP, DeletePodFloatingIP, DeleteReroutePolicy, DeleteNATRule
<1>5. suballocators' \in [Claims -> Alloc] /\ fiOnNodes' = [n \in Nodes |-> fiOnNodes'[n]] /\ queue' \subseteq Claims
  <2>1. CASE UNCHANGED <<suballocators, fiOnNodes, queue>>
    BY <2>1 DEF Types
  <2>2. CASE ClaimReleases(f) /\ suballocators[f.claim] # NoAlloc
    <3>1. Release(suballocators[f.claim], f.ip) \in Alloc
      BY <1>3 DEF Types, Release, Without, Alloc
    <3>2. suballocators' = [suballocators EXCEPT ![f.claim] = Release(suballocators[f.claim], f.ip)]
      BY <2>2 DEF ClaimReleases
    <3>3. fiOnNodes' = [n \in Nodes |-> fiOnNodes'[n]] /\ queue' \subseteq Claims
      BY <1>3, <2>2 DEF ClaimReleases, ReleaseNode, Types
    <3> QED BY <3>1, <3>2, <3>3 DEF Types
  <2> QED BY <1>1, <2>1, <2>2 DEF ClaimReleases
<1> QED BY <1>1, <1>2, <1>4, <1>5 DEF Types, apiVars

LEMMA TypesNodeHandler ==
  ASSUME WellFormed, Types, NEW n \in Nodes, HandleNode(n)
  PROVE  /\ Types'
         /\ UNCHANGED <<providers, claims, pods, ready, providerEv, claimEv, podEv, boot, deaf, allocators,
                        suballocators, watching, sync, dbVars>>
         /\ UNCHANGED <<fips, fipEv>> \/ \E S \in SUBSET fips : DropFips(S)
<1>1. /\ nodeEv[n] # <<>>
      /\ AddFloatingIPNode(n) \/ DeleteFloatingIPNode(n) \/ SyncNode(n)
      /\ UNCHANGED <<providers, claims, pods, ready, providerEv, claimEv, podEv, boot, deaf, allocators,
                     suballocators, watching, sync, dbVars>>
  BY DEF HandleNode
<1>2. nodeEv' \in [Nodes -> Seq({"add", "delete", "sync"})]
  <2> DEFINE t == Tail(nodeEv[n])
  <2>1. t \in Seq({"add", "delete", "sync"}) /\ Append(t, "sync") \in Seq({"add", "delete", "sync"})
    BY <1>1 DEF Types
  <2>2. nodeEv' = [nodeEv EXCEPT ![n] = t] \/ nodeEv' = [nodeEv EXCEPT ![n] = Append(t, "sync")]
    BY <1>1 DEF AddFloatingIPNode, DeleteFloatingIPNode, SyncNode
  <2> HIDE DEF t
  <2> QED BY <2>1, <2>2 DEF Types
<1>3. CASE AddFloatingIPNode(n) \/ SyncNode(n)
  <2>1. fiOnNodes' = [m \in Nodes |-> fiOnNodes'[m]] /\ queue' \subseteq Claims
    BY <1>3 DEF AddFloatingIPNode, SyncNode, AddNode, Unassigned, Types
  <2>2. UNCHANGED <<fips, fipEv>>
    BY <1>3 DEF AddFloatingIPNode, SyncNode
  <2>3. Types'
    BY <1>1, <1>2, <2>1, <2>2 DEF Types, dbVars
  <2> QED BY <1>1, <2>2, <2>3
<1>4. CASE DeleteFloatingIPNode(n)
  <2>1. PICK done \in SUBSET {f \in fips : f.node = n} :
          DropFips(done) /\ queue' = queue \cup {f.claim : f \in done}
    BY <1>4 DEF DeleteFloatingIPNode
  <2>2. fiOnNodes' = [m \in Nodes |-> fiOnNodes'[m]] /\ queue' \subseteq Claims
    <3>1. fiOnNodes' = [fiOnNodes EXCEPT ![n] = Absent]
      BY <1>4 DEF DeleteFloatingIPNode, DeleteNode
    <3>2. \A f \in done : f.claim \in Claims
      BY DEF Types, Fip
    <3>3. queue' \subseteq Claims
      BY <2>1, <3>2 DEF Types
    <3>4. fiOnNodes' = [m \in Nodes |-> fiOnNodes'[m]]
      BY <3>1 DEF Types
    <3> QED BY <3>3, <3>4
  <2>3. done \in SUBSET fips
    OBVIOUS
  <2>4. fips' \subseteq Fip /\ IsFiniteSet(fips') /\ fipEv' \in Seq(FipEvent)
    BY <2>1, <2>3, Dropped
  <2>5. Types'
    BY <1>1, <1>2, <2>2, <2>4 DEF Types, dbVars
  <2> QED BY <1>1, <2>1, <2>3, <2>5
<1> QED BY <1>1, <1>3, <1>4

LEMMA TypesRestart == ASSUME WellFormed, Types, Restart PROVE Types'
<1>1. providerEv' \in Seq({"add", "delete"} \X Providers)
  <2>1. IsFiniteSet(providers)
    BY FS_Subset DEF WellFormed, Types
  <2>2. Lists(providerEv', {<<"add", p>> : p \in providers})
    BY <2>1, AddEvents DEF Restart
  <2>3. {<<"add", p>> : p \in providers} \subseteq {"add", "delete"} \X Providers
    BY DEF Types
  <2> QED BY <2>2, <2>3, WiderSeq DEF Lists
<1>2. nodeEv' \in [Nodes -> Seq({"add", "delete", "sync"})]
  <2>1. <<>> \in Seq({"add", "delete", "sync"}) /\ <<"add">> \in Seq({"add", "delete", "sync"})
    OBVIOUS
  <2> QED BY <2>1 DEF Restart
<1>3. /\ allocators' \in [Providers -> Alloc] /\ suballocators' \in [Claims -> Alloc]
  BY NoneTypes DEF Restart
<1> QED BY <1>1, <1>2, <1>3 DEF Types, Restart, apiVars, dbVars, Absent

LEMMA TypesWatchClaims ==
  ASSUME WellFormed, Types, WatchClaims
  PROVE  /\ Types'
         /\ Lists(claimEv', {<<"first", c, NoClaim, claims[c]>> : c \in {d \in Claims : claims[d] # NoClaim}})
<1> DEFINE S == {d \in Claims : claims[d] # NoClaim}
           T == {<<"first", c, NoClaim, claims[c]>> : c \in S}
<1>1. IsFiniteSet(S)
  BY FS_Subset DEF WellFormed
<1>2. Lists(claimEv', T)
  BY <1>1, ClaimAdds DEF WatchClaims
<1>3. T \subseteq ClaimEvent
  BY NoneTypes DEF Types, ClaimEvent
<1>4. claimEv' \in Seq(ClaimEvent)
  <2> HIDE DEF T
  <2> QED BY <1>2, <1>3, WiderSeq DEF Lists
<1>5. Types'
  BY <1>4 DEF Types, WatchClaims, apiVars, dbVars
<1> QED BY <1>2, <1>5

LEMMA TypesWatchFips ==
  ASSUME WellFormed, Types, WatchFips
  PROVE  Types' /\ Lists(fipEv', {<<"add", f>> : f \in fips})
<1> DEFINE F == {<<"add", f>> : f \in fips}
<1>1. Lists(fipEv', F)
  BY AddEvents DEF WatchFips, Types
<1>2. F \subseteq FipEvent
  BY DEF Types, FipEvent
<1>3. fipEv' \in Seq(FipEvent)
  <2> HIDE DEF F
  <2> QED BY <1>1, <1>2, WiderSeq DEF Lists
<1>4. Types'
  BY <1>3 DEF Types, WatchFips, apiVars, dbVars
<1> QED BY <1>1, <1>4

-----------------------------------------------------------------------------
(* The worker. *)

\* The objects are left alone, some are deleted, or one is created.
FipsStep ==
  \/ UNCHANGED <<fips, fipEv>>
  \/ \E S \in SUBSET fips : DropFips(S)
  \/ \E f \in Fip : fips' = fips \cup {f} /\ fipEv' = Events(deaf, fipEv, << <<"add", f>> >>)

\* What a step of the worker does to claims and their ranges: nothing.
WorkerStep ==
  /\ UNCHANGED <<claimEv, allocators, boot, deaf, policy, nat, disturbed>>
  /\ \A c \in Claims : suballocators'[c].has = suballocators[c].has
  /\ \A c \in Claims : claims'[c] = NoClaim => claims[c] = NoClaim
  /\ FipsStep

LEMMA Created ==
  ASSUME Types, NEW f \in Fip, fips' = fips \cup {f}, fipEv' = Events(deaf, fipEv, << <<"add", f>> >>)
  PROVE  /\ fips' \subseteq Fip /\ IsFiniteSet(fips') /\ fipEv' \in Seq(FipEvent)
         /\ Queued(deaf, fipEv, fipEv', << <<"add", f>> >>)
<1> DEFINE e == <<"add", f>>
<1>1. e \in FipEvent
  BY DEF FipEvent
<1> HIDE DEF e
<1>2. <<e>> \in Seq(FipEvent)
  BY <1>1
<1>3. fipEv' \in Seq(FipEvent) /\ Queued(deaf, fipEv, fipEv', <<e>>)
  <2>1. fipEv \in Seq(FipEvent) /\ deaf \in BOOLEAN /\ fipEv' = Events(deaf, fipEv, <<e>>)
    BY DEF Types, e
  <2> QED BY <1>2, <2>1, EventsQueued, Zenon
<1>4. IsFiniteSet(fips')
  BY FS_AddElement DEF Types
<1> QED BY <1>3, <1>4 DEF Types, e

LEMMA FipsTypes ==
  ASSUME Types, FipsStep PROVE fips' \subseteq Fip /\ IsFiniteSet(fips') /\ fipEv' \in Seq(FipEvent)
<1>1. CASE UNCHANGED <<fips, fipEv>>
  BY <1>1 DEF Types
<1>2. ASSUME NEW S \in SUBSET fips, DropFips(S)
      PROVE  fips' \subseteq Fip /\ IsFiniteSet(fips') /\ fipEv' \in Seq(FipEvent)
  BY <1>2, Dropped
<1>3. ASSUME NEW f \in Fip, fips' = fips \cup {f}, fipEv' = Events(deaf, fipEv, << <<"add", f>> >>)
      PROVE  fips' \subseteq Fip /\ IsFiniteSet(fips') /\ fipEv' \in Seq(FipEvent)
  BY <1>3, Created
<1> QED BY <1>1, <1>2, <1>3 DEF FipsStep

LEMMA SyncJob == ASSUME Types, sync.pc # "idle" PROVE sync \in Job
  BY DEF Types, Idle

LEMMA DeletedSome ==
  ASSUME NEW S, NEW s \in Job, DeleteSome(S, s)
  PROVE  /\ sync' \in Job /\ \E T \in SUBSET fips : DropFips(T)
         /\ sync' = s \/ sync' = [s EXCEPT !.pc = "status", !.err = TRUE]
<1>1. PICK done \in SUBSET S :
        /\ DropFips(done \cap fips)
        /\ IF done = S THEN sync' = s /\ UNCHANGED budget
           ELSE Spend("fault") /\ sync' = [s EXCEPT !.pc = "status", !.err = TRUE]
  BY DEF DeleteSome
<1>2. [s EXCEPT !.pc = "status", !.err = TRUE] \in Job
  BY DEF Job
<1> QED BY <1>1, <1>2

LEMMA WorkerGet ==
  ASSUME WellFormed, Types, NEW c \in Claims, SyncGet(c) PROVE Types' /\ WorkerStep
<1>1. sync' = Idle \/ sync' \in Job
  BY DEF SyncGet, Job, Types
<1>2. UNCHANGED <<apiVars, evVars, boot, deaf, allocators, suballocators, fiOnNodes, watching, dbVars, histVars>>
      /\ queue' \subseteq Claims
  BY DEF SyncGet, Types
<1>3. Types'
  BY <1>1, <1>2 DEF Types, apiVars, evVars, dbVars
<1> QED BY <1>2, <1>3 DEF WorkerStep, FipsStep, apiVars, evVars, dbVars, histVars

LEMMA WorkerList == ASSUME WellFormed, Types, SyncList PROVE Types' /\ WorkerStep
<1>1. sync \in Job
  BY SyncJob DEF SyncList
<1>2. sync' \in Job /\ FipsStep
  <2>1. CASE suballocators[sync.claim] = NoAlloc
    <3> DEFINE s == [sync EXCEPT !.pc = "status", !.phase = "NotReady"]
    <3>1. s \in Job
      BY <1>1 DEF Job
    <3>2. DeleteSome(Mine, s)
      BY <2>1 DEF SyncList
    <3> HIDE DEF s
    <3> QED BY <3>1, <3>2, DeletedSome DEF FipsStep
  <2>2. CASE suballocators[sync.claim] # NoAlloc
    <3>1. sync' = [sync EXCEPT !.pc = "clean", !.on = Mine] /\ UNCHANGED <<fips, fipEv>>
      BY <2>2 DEF SyncList
    <3>2. Mine \subseteq Fip
      BY DEF Mine, Types
    <3> QED BY <1>1, <3>1, <3>2 DEF Job, FipsStep
  <2> QED BY <2>1, <2>2
<1>3. UNCHANGED <<providers, claims, pods, ready, providerEv, claimEv, nodeEv, podEv, boot, deaf, allocators,
                  suballocators, fiOnNodes, watching, queue, dbVars, disturbed>>
  BY DEF SyncList
<1>4. Types'
  BY <1>2, <1>3, FipsTypes DEF Types, dbVars
<1> QED BY <1>2, <1>3, <1>4 DEF WorkerStep, dbVars

\* sync(key) cleans up: the FloatingIPs that are kept, and what becomes of the
\* others.
Cleaning(keep) ==
  LET live == {p \in Pods : pods[p] # "none"}
  IN [sync EXCEPT !.pc = "alloc", !.assigned = keep # {}, !.seen = {p \in live : pods[p] = "ip"},
                  !.todo = live \ {f.pod : f \in keep}]

LEMMA CleaningJob ==
  ASSUME Types, sync \in Job, NEW keep
  PROVE  /\ Cleaning(keep) \in Job /\ [Cleaning(keep) EXCEPT !.pc = "status", !.err = TRUE] \in Job
         /\ Cleaning(keep).pc = "alloc" /\ Cleaning(keep).claim = sync.claim /\ Cleaning(keep).held = sync.held
         /\ Cleaning(keep).read = sync.read
  BY DEF Cleaning, Job

LEMMA CleanCases ==
  ASSUME SyncClean
  PROVE  \/ /\ suballocators[sync.claim].used # {} /\ UNCHANGED suballocators
            /\ DeleteSome(sync.on \ Current(sync.on), Cleaning(Current(sync.on)))
         \/ /\ suballocators[sync.claim].used = {}
            /\ \E met \in SUBSET sync.on : \E keep \in Refill(suballocators[sync.claim], met) :
                 /\ suballocators' = [suballocators EXCEPT ![sync.claim] =
                                        With(suballocators[sync.claim], {f.ip : f \in keep})]
                 /\ \/ /\ met = sync.on /\ sync' = Cleaning(keep)
                       /\ DropFips((met \ keep) \cap fips)
                    \/ \E f \in met \ keep :
                         /\ sync' = [Cleaning(keep) EXCEPT !.pc = "status", !.err = TRUE]
                         /\ DropFips((met \ (keep \cup {f})) \cap fips)
  BY Zenon DEF SyncClean, Cleaning

LEMMA WorkerClean == ASSUME WellFormed, Types, SyncClean PROVE Types' /\ WorkerStep
<1> DEFINE c == sync.claim
           a == suballocators[c]
<1>1. sync \in Job /\ c \in Claims /\ a \in Alloc /\ sync.on \subseteq Fip
  <2>1. sync \in Job
    BY SyncJob DEF SyncClean
  <2> QED BY <2>1 DEF Job, Types
<1>2. /\ suballocators' \in [Claims -> Alloc]
      /\ \A d \in Claims : suballocators'[d].has = suballocators[d].has
      /\ sync' \in Job /\ FipsStep
  <2>1. CASE UNCHANGED suballocators /\ DeleteSome(sync.on \ Current(sync.on), Cleaning(Current(sync.on)))
    <3>1. Cleaning(Current(sync.on)) \in Job
      BY <1>1, CleaningJob
    <3> QED BY <2>1, <3>1, DeletedSome DEF FipsStep, Types
  <2>2. ASSUME NEW met \in SUBSET sync.on, NEW keep \in Refill(a, met),
               suballocators' = [suballocators EXCEPT ![c] = With(a, {f.ip : f \in keep})],
               \/ sync' = Cleaning(keep)
               \/ sync' = [Cleaning(keep) EXCEPT !.pc = "status", !.err = TRUE],
               \E S \in SUBSET fips : DropFips(S)
        PROVE  /\ suballocators' \in [Claims -> Alloc]
               /\ \A d \in Claims : suballocators'[d].has = suballocators[d].has
               /\ sync' \in Job /\ FipsStep
    <3>1. {f.ip : f \in keep} \in SUBSET Nat
      BY <1>1 DEF Fip, Refill
    <3>2. With(a, {f.ip : f \in keep}) \in Alloc /\ With(a, {f.ip : f \in keep}).has = a.has
      <4> HIDE DEF a
      <4> QED BY <1>1, <3>1 DEF With, Alloc
    <3>3. /\ suballocators' \in [Claims -> Alloc]
          /\ \A d \in Claims : suballocators'[d].has = suballocators[d].has
      BY <1>1, <2>2, <3>2 DEF Types
    <3>4. sync' \in Job
      BY <1>1, <2>2, CleaningJob
    <3> QED BY <2>2, <3>3, <3>4 DEF FipsStep
  <2>3. \A S : S \cap fips \in SUBSET fips
    OBVIOUS
  <2> HIDE DEF a, c
  <2> QED BY <2>1, <2>2, <2>3, CleanCases, Zenon DEF a, c
<1>3. UNCHANGED <<providers, claims, pods, ready, providerEv, claimEv, nodeEv, podEv, boot, deaf, allocators,
                  fiOnNodes, watching, queue, dbVars, disturbed>>
  BY DEF SyncClean
<1>4. Types'
  BY <1>2, <1>3, FipsTypes DEF Types, dbVars
<1> QED BY <1>2, <1>3, <1>4 DEF WorkerStep, dbVars

LEMMA WorkerAllocate == ASSUME WellFormed, Types, SyncAllocate PROVE Types' /\ WorkerStep
<1> DEFINE c == sync.claim
           a == suballocators[c]
<1>1. sync \in Job /\ c \in Claims /\ a \in Alloc /\ sync.todo \subseteq Pods
  <2>1. sync \in Job
    BY SyncJob DEF SyncAllocate
  <2> QED BY <2>1 DEF Job, Types
<1>2. UNCHANGED <<apiVars, evVars, boot, deaf, allocators, watching, queue, dbVars, histVars>>
  BY DEF SyncAllocate
<1>3. /\ suballocators' \in [Claims -> Alloc] /\ fiOnNodes' = [n \in Nodes |-> fiOnNodes'[n]] /\ sync' \in Job
      /\ \A d \in Claims : suballocators'[d].has = suballocators[d].has
  <2>1. CASE sync.todo = {} \/ Free(a) = {}
    <3>1. sync' = [sync EXCEPT !.pc = "release"] /\ UNCHANGED <<suballocators, fiOnNodes>>
      BY <2>1 DEF SyncAllocate
    <3> QED BY <1>1, <3>1 DEF Job, Types
  <2>2. CASE ~ (sync.todo = {} \/ Free(a) = {})
    <3> DEFINE ip == NextAddress(a)
    <3>1. PICK p \in sync.todo, node \in NodeChoices :
            /\ suballocators' = [suballocators EXCEPT ![c] = With(a, ip)]
            /\ fiOnNodes' = [n \in Nodes |-> fiOnNodes[n] + (IF n \in node THEN 1 ELSE 0)]
            /\ sync' = IF node # {} /\ p \in sync.seen
                       THEN [sync EXCEPT !.pc = "create", !.pod = {p}, !.ip = ip, !.node = node]
                       ELSE [sync EXCEPT !.pc = IF node = {} THEN "release" ELSE "alloc",
                                         !.todo = @ \ {p}, !.held = @ \cup {<<ip, node>>}]
      BY <2>2 DEF SyncAllocate
    <3>2. ip \in SUBSET Nat
      <4>1. Free(a) \in SUBSET Nat
        BY <1>1 DEF Free, Alloc
      <4>2. Lowest(Free(a)) \in Nat
        BY <2>2, <4>1, LowestIn
      <4> QED BY <4>2 DEF NextAddress
    <3>3. node \in SUBSET Nodes
      BY DEF NodeChoices
    <3> HIDE DEF a, ip
    <3>4. With(a, ip) \in Alloc /\ With(a, ip).has = a.has
      BY <1>1, <3>2 DEF With, Alloc
    <3>5. suballocators' \in [Claims -> Alloc] /\ \A d \in Claims : suballocators'[d].has = suballocators[d].has
      BY <1>1, <3>1, <3>4 DEF Types, a
    <3>6. fiOnNodes' = [n \in Nodes |-> fiOnNodes'[n]]
      BY <3>1 DEF Types
    <3>7. sync' \in Job
      <4>1. CASE node # {} /\ p \in sync.seen
        <5>1. sync' = [sync EXCEPT !.pc = "create", !.pod = {p}, !.ip = ip, !.node = node]
          BY <3>1, <4>1
        <5> QED BY <1>1, <3>2, <3>3, <5>1 DEF Job
      <4>2. CASE ~ (node # {} /\ p \in sync.seen)
        <5>1. PICK pc \in {"release", "alloc"} :
                sync' = [sync EXCEPT !.pc = pc, !.todo = @ \ {p}, !.held = @ \cup {<<ip, node>>}]
          BY <3>1, <4>2
        <5>2. <<ip, node>> \in (SUBSET Nat) \X (SUBSET Nodes)
          BY <3>2, <3>3
        <5> QED BY <1>1, <5>1, <5>2 DEF Job
      <4> QED BY <4>1, <4>2
    <3> QED BY <3>5, <3>6, <3>7
  <2> QED BY <2>1, <2>2
<1>4. Types'
  BY <1>2, <1>3 DEF Types, apiVars, evVars, dbVars
<1> QED BY <1>2, <1>3, <1>4 DEF WorkerStep, FipsStep, apiVars, evVars, dbVars, histVars

LEMMA WorkerCreate == ASSUME WellFormed, Types, SyncCreate PROVE Types' /\ WorkerStep
<1> DEFINE done == [sync EXCEPT !.pc = "alloc", !.todo = @ \ sync.pod, !.pod = {}, !.ip = {}, !.node = {}]
<1>1. sync \in Job
  BY SyncJob DEF SyncCreate
<1>2. UNCHANGED <<providers, claims, pods, ready, providerEv, claimEv, nodeEv, podEv, boot, deaf, allocators,
                  suballocators, fiOnNodes, watching, dbVars, disturbed>>
  BY DEF SyncCreate
<1>3. done \in Job
  BY <1>1 DEF Job
<1>4. sync' \in Job /\ FipsStep /\ queue' \subseteq Claims
  <2>1. CASE \E p \in sync.pod, ip \in sync.ip, n \in sync.node :
               LET f == [id |-> Lowest(FreshIds), claim |-> sync.claim, pod |-> p, ip |-> ip, node |-> n]
               IN /\ FreshIds # {}
                  /\ fips' = fips \cup {f}
                  /\ fipEv' = Events(deaf, fipEv, << <<"add", f>> >>)
                  /\ sync' = [done EXCEPT !.assigned = TRUE]
                  /\ UNCHANGED <<queue, budget>>
    <3>1. PICK p \in sync.pod, ip \in sync.ip, n \in sync.node :
            LET f == [id |-> Lowest(FreshIds), claim |-> sync.claim, pod |-> p, ip |-> ip, node |-> n]
            IN /\ FreshIds # {}
               /\ fips' = fips \cup {f}
               /\ fipEv' = Events(deaf, fipEv, << <<"add", f>> >>)
               /\ sync' = [done EXCEPT !.assigned = TRUE]
               /\ UNCHANGED <<queue, budget>>
      BY <2>1
    <3> DEFINE f == [id |-> Lowest(FreshIds), claim |-> sync.claim, pod |-> p, ip |-> ip, node |-> n]
    <3>2. FreshIds \in SUBSET Nat /\ FreshIds \subseteq Ids
      BY DEF FreshIds, Ids, WellFormed
    <3>3. Lowest(FreshIds) \in Ids
      BY <3>1, <3>2, LowestIn
    <3>4. f \in Fip
      BY <1>1, <3>3 DEF Fip, Job
    <3>5. fips' = fips \cup {f} /\ fipEv' = Events(deaf, fipEv, << <<"add", f>> >>)
      BY <3>1
    <3> HIDE DEF f
    <3>6. FipsStep
      BY <3>4, <3>5 DEF FipsStep
    <3>7. sync' \in Job
      <4> HIDE DEF done
      <4> QED BY <1>3, <3>1 DEF Job
    <3> QED BY <3>1, <3>6, <3>7 DEF Types
  <2>2. CASE /\ sync' = [done EXCEPT !.held = @ \cup {<<sync.ip, sync.node>>}]
             /\ queue' = queue \cup {sync.claim}
             /\ UNCHANGED <<fips, fipEv>>
    <3>1. <<sync.ip, sync.node>> \in (SUBSET Nat) \X (SUBSET Nodes) /\ sync.claim \in Claims
      BY <1>1 DEF Job
    <3>2. sync' \in Job
      <4> HIDE DEF done
      <4> QED BY <1>3, <2>2, <3>1 DEF Job
    <3> QED BY <2>2, <3>1, <3>2 DEF FipsStep, Types
  <2> QED BY <2>1, <2>2 DEF SyncCreate
<1>5. Types'
  BY <1>2, <1>4, FipsTypes DEF Types, dbVars
<1> QED BY <1>2, <1>4, <1>5 DEF WorkerStep, dbVars

LEMMA WorkerRelease == ASSUME WellFormed, Types, SyncRelease PROVE Types' /\ WorkerStep
<1> DEFINE c == sync.claim
           a == suballocators[c]
           S == UNION {h[1] : h \in sync.held}
<1>1. sync \in Job
  BY SyncJob DEF SyncRelease
<1>2. c \in Claims /\ a \in Alloc /\ S \in SUBSET Nat
  BY <1>1 DEF Job, Types
<1>3. UNCHANGED <<apiVars, evVars, boot, deaf, allocators, watching, queue, dbVars, histVars>>
  BY DEF SyncRelease
<1>4. suballocators' = [suballocators EXCEPT ![c] = Without(a, S)]
  BY DEF SyncRelease
<1>5. Without(a, S) \in Alloc /\ Without(a, S).has = a.has
  <2> HIDE DEF a, S
  <2> QED BY <1>2 DEF Without, Alloc
<1>6. suballocators' \in [Claims -> Alloc] /\ \A d \in Claims : suballocators'[d].has = suballocators[d].has
  <2> HIDE DEF S
  <2> QED BY <1>2, <1>4, <1>5 DEF Types
<1>7. fiOnNodes' = [n \in Nodes |-> fiOnNodes'[n]]
  BY DEF SyncRelease
<1>8. sync' \in Job
  BY <1>1 DEF SyncRelease, Job
<1>9. Types'
  BY <1>3, <1>6, <1>7, <1>8 DEF Types, apiVars, evVars, dbVars
<1> QED BY <1>3, <1>6, <1>9 DEF WorkerStep, FipsStep, apiVars, evVars, dbVars, histVars

LEMMA WorkerStatus == ASSUME WellFormed, Types, SyncStatus PROVE Types' /\ WorkerStep
<1> DEFINE c == sync.claim
<1>1. sync \in Job
  BY SyncJob DEF SyncStatus
<1>2. c \in Claims /\ sync.phase \in {"Ready", "NotReady"} /\ sync.assigned \in BOOLEAN
  BY <1>1 DEF Job
<1>3. UNCHANGED <<providers, fips, pods, ready, evVars, boot, deaf, allocators, suballocators, fiOnNodes,
                  watching, dbVars, disturbed>> /\ sync' = Idle
  BY DEF SyncStatus
<1>4. queue' \subseteq Claims
  BY <1>2 DEF SyncStatus, Types
<1>5. claims' \in [Claims -> ClaimRec] /\ \A d \in Claims : claims'[d] = NoClaim => claims[d] = NoClaim
  <2>1. CASE claims' = [claims EXCEPT ![c].phase = sync.phase, ![c].assigned = sync.assigned]
    <3> DEFINE r == [claims[c] EXCEPT !.phase = sync.phase, !.assigned = sync.assigned]
    <3>1. claims[c] \in ClaimRec
      BY <1>2 DEF Types
    <3>2. r \in ClaimRec /\ r.phase # "none"
      BY <1>2, <3>1 DEF ClaimRec
    <3>3. claims' = [claims EXCEPT ![c] = r]
      BY <1>2, <2>1, <3>1 DEF Types, ClaimRec
    <3>4. r # NoClaim
      BY <3>2 DEF NoClaim
    <3> HIDE DEF r
    <3> QED BY <1>2, <3>2, <3>3, <3>4 DEF Types
  <2>2. CASE UNCHANGED claims
    BY <2>2 DEF Types
  <2> QED BY <2>1, <2>2 DEF SyncStatus
<1>6. Types'
  BY <1>3, <1>4, <1>5 DEF Types, evVars, dbVars
<1> QED BY <1>3, <1>5, <1>6 DEF WorkerStep, FipsStep, evVars, dbVars

-----------------------------------------------------------------------------
(* The ranges of the claims: steps that leave them alone. *)

Orphaned == "orphan" \in disturbed => "orphan" \in disturbed'

LEMMA NowFields ==
  /\ Now.alloc = allocators /\ Now.sub = suballocators
  /\ Now'.alloc = allocators' /\ Now'.sub = suballocators'
  BY DEF Now

\* Nothing that the invariant says depends on more than the ranges.
SameRanges(a, b) == a.alloc = b.alloc /\ \A c \in Claims : a.sub[c].has = b.sub[c].has

LEMMA RangesDecide ==
  ASSUME NEW a, NEW b, SameRanges(a, b), NEW q
  PROVE  /\ Sound(a) => Sound(b)
         /\ \A c \in Claims : Gone(a, q, c) => Gone(b, q, c)
         /\ \A p \in Providers : Cut(a, q, p) => Cut(b, q, p)
<1>1. Sound(a) => Sound(b)
  BY DEF Sound, SameRanges
<1>2. \A c \in Claims : Good(a, c) <=> Good(b, c)
  BY DEF Good, SameRanges
<1>3. \A c \in Claims : Gone(a, q, c) => Gone(b, q, c)
  BY DEF Gone, SameRanges
<1>4. \A p, cut : Doomed(a, q, p, cut) => Doomed(b, q, p, cut)
  BY <1>2 DEF Doomed, SameRanges
<1> QED BY <1>1, <1>3, <1>4 DEF Cut

\* The queue r goes on where q ends.
Longer(q, r) == /\ Len(q) \in Nat /\ Len(r) \in Nat /\ Len(q) <= Len(r)
                /\ \A k \in 1 .. Len(q) : r[k] = q[k]

LEMMA DelLonger ==
  ASSUME NEW q, NEW r, Longer(q, r), NEW c, NEW lo \in Nat \ {0}
  PROVE  /\ \A hi \in 0 .. Len(q) : Del(q, c, lo, hi) <=> Del(r, c, lo, hi)
         /\ Del(q, c, lo, Len(q)) => Del(r, c, lo, Len(r))
<1>1. ASSUME NEW hi \in 0 .. Len(q) PROVE Del(q, c, lo, hi) <=> Del(r, c, lo, hi)
  <2>1. \A m \in lo .. hi : m \in 1 .. Len(q)
    BY DEF Longer
  <2> QED BY <2>1 DEF Longer, Del
<1>2. ASSUME Del(q, c, lo, Len(q)) PROVE Del(r, c, lo, Len(r))
  <2>1. PICK m \in lo .. Len(q) : q[m][1] = "delete" /\ q[m][2] = c
    BY <1>2 DEF Del
  <2>2. m \in 1 .. Len(q) /\ m \in lo .. Len(r)
    BY DEF Longer
  <2> QED BY <2>1, <2>2 DEF Del, Longer
<1> QED BY <1>1, <1>2

LEMMA CutLonger ==
  ASSUME NEW q, NEW r, Longer(q, r), NEW a, NEW p \in Providers, Cut(a, q, p) PROVE Cut(a, r, p)
<1>1. PICK cut \in 0 .. Len(q) : Doomed(a, q, p, cut)
  BY DEF Cut
<1>2. cut \in 0 .. Len(r)
  BY DEF Longer
<1>3. ASSUME NEW k \in 1 .. cut, ProviderOf[r[k][2]] = p, r[k][1] # "delete"
      PROVE  Del(r, r[k][2], k + 1, cut)
  <2>1. k \in 1 .. Len(q) /\ k + 1 \in Nat \ {0}
    BY DEF Longer
  <2>2. r[k] = q[k]
    BY <2>1 DEF Longer
  <2>3. Del(q, q[k][2], k + 1, cut)
    BY <1>1, <1>3, <2>2 DEF Doomed
  <2> QED BY <2>1, <2>2, <2>3, DelLonger
<1>4. ASSUME NEW c \in Claims, ProviderOf[c] = p, a.sub[c].has # {}, ~ Good(a, c)
      PROVE  Del(r, c, 1, cut)
  <2>1. Del(q, c, 1, cut)
    BY <1>1, <1>4 DEF Doomed
  <2> QED BY <2>1, DelLonger
<1>5. Doomed(a, r, p, cut)
  BY <1>3, <1>4 DEF Doomed
<1> QED BY <1>2, <1>5 DEF Cut

LEMMA GoneLonger ==
  ASSUME NEW q, NEW r, Longer(q, r), NEW a, NEW c,
         \A k \in Len(q) + 1 .. Len(r) : r[k][2] = c => r[k][1] = "delete",
         Gone(a, q, c) \/ \E k \in Len(q) + 1 .. Len(r) : r[k][2] = c
  PROVE  Gone(a, r, c)
<1>1. CASE Gone(a, q, c)
  <2>1. a.sub[c].has # {} => Del(r, c, 1, Len(r))
    BY <1>1, DelLonger DEF Gone
  <2>2. ASSUME NEW k \in 1 .. Len(r), r[k][2] = c, r[k][1] # "delete" PROVE Del(r, c, k + 1, Len(r))
    <3>1. k \in 1 .. Len(q) /\ k + 1 \in Nat \ {0}
      BY <2>2 DEF Longer
    <3>2. Del(q, c, k + 1, Len(q))
      BY <1>1, <2>2, <3>1 DEF Gone, Longer
    <3> QED BY <3>1, <3>2, DelLonger
  <2> QED BY <2>1, <2>2 DEF Gone
<1>2. CASE \E k \in Len(q) + 1 .. Len(r) : r[k][2] = c
  <2>1. PICK m \in Len(q) + 1 .. Len(r) : r[m][2] = c
    BY <1>2
  <2>2. \A lo \in 1 .. Len(q) + 1 : Del(r, c, lo, Len(r))
    BY <2>1 DEF Del, Longer
  <2>3. ASSUME NEW k \in 1 .. Len(r), r[k][2] = c, r[k][1] # "delete" PROVE Del(r, c, k + 1, Len(r))
    <3>1. k + 1 \in 1 .. Len(q) + 1
      BY <2>3 DEF Longer
    <3> QED BY <2>2, <3>1
  <2>4. 1 \in 1 .. Len(q) + 1
    BY DEF Longer
  <2> QED BY <2>2, <2>3, <2>4 DEF Gone
<1> QED BY <1>1, <1>2

LEMMA RangesSame ==
  ASSUME Types, Ranges, Orphaned, UNCHANGED <<claimEv, allocators, boot>>,
         \A c \in Claims : suballocators'[c].has = suballocators[c].has,
         \A c \in Claims : claims'[c] = NoClaim => claims[c] = NoClaim
  PROVE  Ranges'
<1>1. SameRanges(Now, Now')
  BY NowFields DEF SameRanges
<1> QED BY <1>1, RangesDecide DEF Ranges, Orphaned

\* During the start there is nothing to say.
LEMMA RangesBoot ==
  ASSUME claimEv' = <<>>, \A c \in Claims : suballocators'[c].has = {}, Sound(Now') PROVE Ranges'
<1>1. Len(claimEv') = 0
  OBVIOUS
<1>2. \A c \in Claims : Gone(Now', claimEv', c)
  BY <1>1, NowFields DEF Gone
<1>3. ASSUME NEW p \in Providers PROVE Cut(Now', claimEv', p)
  <2>1. Doomed(Now', claimEv', p, 0)
    BY NowFields DEF Doomed
  <2> QED BY <1>1, <2>1 DEF Cut
<1> QED BY <1>2, <1>3 DEF Ranges

LEMMA RangesClaims ==
  ASSUME WellFormed, Types, Ranges, Orphaned,
         NEW c \in Claims, NEW kind \in {"add", "update", "delete"}, ClaimStep(c, kind)
  PROVE  Ranges'
<1> DEFINE e == <<kind, c, IF kind = "add" THEN NoClaim ELSE claims[c], claims'[c]>>
<1>1. e[1] = kind /\ e[2] = c /\ Queued(boot, claimEv, claimEv', <<e>>)
  <2>1. e \in ClaimEvent /\ e[1] = kind /\ e[2] = c
    BY NoneTypes DEF Types, ClaimStep, ClaimEvent
  <2>2. claimEv' = Events(boot, claimEv, <<e>>)
    BY DEF ClaimStep
  <2> HIDE DEF e
  <2>3. <<e>> \in Seq(ClaimEvent)
    BY <2>1
  <2>4. claimEv \in Seq(ClaimEvent) /\ boot \in BOOLEAN
    BY DEF Types
  <2>5. Queued(boot, claimEv, Events(boot, claimEv, <<e>>), <<e>>)
    BY <2>3, <2>4, EventsQueued, Zenon
  <2> QED BY <2>1, <2>2, <2>5, Zenon
<1> HIDE DEF e
<1>2. UNCHANGED <<allocators, suballocators, boot, deaf>>
  BY DEF ClaimStep, ctlVars
<1>3. \A d \in Claims : d # c => claims'[d] = claims[d]
  BY DEF ClaimStep, Types
<1>4. claims'[c] = NoClaim => kind = "delete"
  BY DEF ClaimStep
<1>5. SameRanges(Now, Now')
  BY <1>2, NowFields DEF SameRanges
<1>6. CASE boot
  <2>1. claimEv' = <<>> /\ \A d \in Claims : suballocators'[d].has = {}
    BY <1>1, <1>2, <1>6 DEF Queued, Ranges
  <2> QED BY <1>5, <2>1, RangesDecide, RangesBoot DEF Ranges
<1>7. CASE ~ boot
  <2>1. /\ Longer(claimEv, claimEv') /\ Len(claimEv') = Len(claimEv) + 1
        /\ claimEv'[Len(claimEv) + 1] = e
    <3>1. Len(<<e>>) = 1 /\ <<e>>[1] = e /\ Len(claimEv) \in Nat
      BY DEF Types
    <3> QED BY <1>1, <1>7, <3>1 DEF Queued, Longer
  <2>2. ASSUME NEW k \in Len(claimEv) + 1 .. Len(claimEv') PROVE claimEv'[k] = e
    BY <2>1 DEF Longer
  <2>3. ASSUME NEW d \in Claims, claims'[d] = NoClaim PROVE Gone(Now, claimEv', d)
    <3>1. CASE d # c
      <4>1. Gone(Now, claimEv, d)
        BY <1>3, <2>3, <3>1 DEF Ranges
      <4> QED BY <1>1, <2>1, <2>2, <3>1, <4>1, GoneLonger
    <3>2. CASE d = c
      <4>1. Len(claimEv) + 1 \in Len(claimEv) + 1 .. Len(claimEv')
        BY <2>1 DEF Longer
      <4> QED BY <1>1, <1>4, <2>1, <2>2, <2>3, <3>2, <4>1, GoneLonger
    <3> QED BY <3>1, <3>2
  <2>4. "orphan" \notin disturbed => \A p \in Providers : Cut(Now, claimEv', p)
    BY <2>1, CutLonger DEF Ranges
  <2> QED BY <1>2, <1>5, <1>7, <2>3, <2>4, RangesDecide DEF Ranges, Orphaned
<1> QED BY <1>6, <1>7 DEF Types

-----------------------------------------------------------------------------
(* The ranges of the claims: a provider comes or goes. *)

\* A claim that has its range for itself keeps it: the same deletions do.
LEMMA CutGood ==
  ASSUME NEW a, NEW b, NEW q, NEW p \in Providers, Cut(a, q, p),
         \A c \in Claims : a.sub[c].has = b.sub[c].has,
         \A c \in Claims : ProviderOf[c] = p /\ Good(a, c) => Good(b, c)
  PROVE  Cut(b, q, p)
<1>1. PICK cut \in 0 .. Len(q) : Doomed(a, q, p, cut)
  BY DEF Cut
<1>2. Doomed(b, q, p, cut)
  BY <1>1 DEF Doomed
<1> QED BY <1>2 DEF Cut

LEMMA RangesProviderAdded ==
  ASSUME WellFormed, Types, Ranges, NEW p \in Providers, AddFloatingIPProvider(p),
         UNCHANGED <<boot, deaf, suballocators>>
  PROVE  Ranges'
<1>1. UNCHANGED <<claims, claimEv>> /\ Orphaned
  BY DEF AddFloatingIPProvider, Orphaned
<1>2. CASE Conflict(p)
  BY <1>1, <1>2, RangesSame DEF AddFloatingIPProvider
<1>3. CASE ~ Conflict(p)
  <2>1. /\ \A q \in Providers : q # p => allocators'[q] = allocators[q]
        /\ allocators'[p] = New(RangeOf[p])
    BY <1>3 DEF AddFloatingIPProvider, Types
  <2>2. allocators[p] = NoAlloc \/ RangeOf[p] = {}
    <3> SUFFICES ASSUME allocators[p] # NoAlloc, NEW pair \in PairsOf[p] PROVE FALSE
      BY DEF RangeOf
    <3>1. allocators[p].has = RangeOf[p]
      BY NowFields DEF Ranges, Sound
    <3>2. pair \subseteq RangeOf[p]
      BY DEF RangeOf
    <3> QED BY <1>3, <3>1, <3>2 DEF Conflict, HasPool
  <2>3. Sound(Now')
    <3>1. allocators'[p].nil = FALSE /\ allocators'[p].has = RangeOf[p]
      BY <2>1 DEF New, NewAllocationMap
    <3> QED BY <2>1, <3>1, NowFields DEF Ranges, Sound
  <2>4. \A c \in Claims : Now.sub[c].has = Now'.sub[c].has
    BY NowFields
  <2>5. ASSUME NEW c \in Claims, Good(Now, c) PROVE Good(Now', c)
    <3>1. ProviderOf[c] \in Providers /\ Now'.sub = Now.sub
      BY NowFields DEF WellFormed
    <3>2. CASE ProviderOf[c] # p
      <4>1. Now'.alloc[ProviderOf[c]] = Now.alloc[ProviderOf[c]]
        BY <2>1, <3>1, <3>2, NowFields
      <4> QED BY <2>5, <3>1, <4>1 DEF Good
    <3>3. CASE ProviderOf[c] = p
      <4>1. RangeOf[p] = {}
        BY <2>2, <2>5, <3>3, NowFields DEF Good
      <4>2. Now.sub[c].has = {}
        BY <3>3, <4>1 DEF Ranges, Sound
      <4>3. Now'.alloc[p] # NoAlloc
        <5>1. New(RangeOf[p]).nil = FALSE /\ NoAlloc.nil = TRUE
          BY DEF New, NewAllocationMap, NoAlloc
        <5> HIDE DEF New
        <5> QED BY <2>1, <5>1, NowFields
      <4> QED BY <3>1, <3>3, <4>2, <4>3 DEF Good
    <3> QED BY <3>2, <3>3
  <2>6. \A q \in Providers : Cut(Now, claimEv, q) => Cut(Now', claimEv, q)
    BY <2>4, <2>5, CutGood
  <2>7. \A c \in Claims : Gone(Now, claimEv, c) => Gone(Now', claimEv, c)
    BY <2>4 DEF Gone
  <2>8. /\ \A c \in Claims : claims'[c] = NoClaim => Gone(Now', claimEv', c)
        /\ "orphan" \in disturbed' \/ \A q \in Providers : Cut(Now', claimEv', q)
    BY <1>1, <2>6, <2>7 DEF Ranges, Orphaned
  <2> QED BY <1>1, <2>3, <2>8 DEF Ranges
<1> QED BY <1>2, <1>3

LEMMA RangesProviderDeleted ==
  ASSUME WellFormed, Types, Ranges, NEW p \in Providers, DeleteFloatingIPProvider(p),
         UNCHANGED <<boot, deaf, suballocators>>, Orphaned
  PROVE  Ranges'
<1>1. /\ claimEv' \in Seq(ClaimEvent) /\ allocators' = [allocators EXCEPT ![p] = NoAlloc]
      /\ \E done \in SUBSET Claims, es \in Seq(ClaimEvent) :
           /\ \A c \in Claims : claims'[c] = IF c \in done THEN NoClaim ELSE claims[c]
           /\ \A i \in 1 .. Len(es) : es[i][1] = "delete" /\ es[i][2] \in done
           /\ \A c \in done : \E i \in 1 .. Len(es) : es[i][1] = "delete" /\ es[i][2] = c
           /\ Queued(boot, claimEv, claimEv', es)
           /\ "orphan" \in disturbed' \/ \A c \in Claims : ProviderOf[c] = p => claims'[c] = NoClaim
  BY ProviderDeleted
<1>2. PICK done \in SUBSET Claims, es \in Seq(ClaimEvent) :
        /\ \A c \in Claims : claims'[c] = IF c \in done THEN NoClaim ELSE claims[c]
        /\ \A i \in 1 .. Len(es) : es[i][1] = "delete" /\ es[i][2] \in done
        /\ \A c \in done : \E i \in 1 .. Len(es) : es[i][1] = "delete" /\ es[i][2] = c
        /\ Queued(boot, claimEv, claimEv', es)
        /\ "orphan" \in disturbed' \/ \A c \in Claims : ProviderOf[c] = p => claims'[c] = NoClaim
  BY <1>1
<1>3. /\ allocators'[p] = NoAlloc /\ \A q \in Providers : q # p => allocators'[q] = allocators[q]
  BY <1>1 DEF Types
<1>4. Sound(Now')
  BY <1>3, NowFields DEF Ranges, Sound
<1>5. CASE boot
  <2>1. claimEv' = <<>> /\ \A c \in Claims : suballocators'[c].has = {}
    BY <1>2, <1>5 DEF Queued, Ranges
  <2> QED BY <1>4, <2>1, RangesBoot
<1>6. CASE ~ boot
  <2>1. /\ Len(claimEv) \in Nat /\ Len(es) \in Nat /\ Len(claimEv') = Len(claimEv) + Len(es)
        /\ \A k \in 1 .. Len(es) : claimEv'[Len(claimEv) + k] = es[k]
        /\ Longer(claimEv, claimEv')
    <3>1. Len(claimEv) \in Nat /\ Len(es) \in Nat
      BY DEF Types
    <3>2. /\ Len(claimEv') = Len(claimEv) + Len(es)
          /\ \A k \in 1 .. Len(claimEv) : claimEv'[k] = claimEv[k]
          /\ \A k \in 1 .. Len(es) : claimEv'[Len(claimEv) + k] = es[k]
      BY <1>2, <1>6 DEF Queued
    <3> QED BY <3>1, <3>2 DEF Longer
  <2>2. ASSUME NEW k \in Len(claimEv) + 1 .. Len(claimEv') PROVE claimEv'[k][1] = "delete"
    <3>1. k - Len(claimEv) \in 1 .. Len(es) /\ Len(claimEv) + (k - Len(claimEv)) = k
      BY <2>1
    <3>2. claimEv'[k] = es[k - Len(claimEv)]
      BY <2>1, <3>1
    <3> QED BY <1>2, <3>1, <3>2
  <2>3. ASSUME NEW c \in Claims, claims'[c] = NoClaim PROVE Gone(Now', claimEv', c)
    <3>1. Gone(Now, claimEv, c) \/ \E k \in Len(claimEv) + 1 .. Len(claimEv') : claimEv'[k][2] = c
      <4>1. CASE c \in done
        <5>1. PICK i \in 1 .. Len(es) : es[i][2] = c
          BY <1>2, <4>1
        <5>2. Len(claimEv) + i \in Len(claimEv) + 1 .. Len(claimEv') /\ claimEv'[Len(claimEv) + i][2] = c
          BY <2>1, <5>1
        <5> QED BY <5>2
      <4>2. CASE c \notin done
        BY <1>2, <2>3, <4>2 DEF Ranges
      <4> QED BY <4>1, <4>2
    <3>2. Gone(Now, claimEv', c)
      BY <2>1, <2>2, <3>1, GoneLonger
    <3> QED BY <3>2, NowFields DEF Gone
  <2>4. ASSUME "orphan" \notin disturbed', NEW q \in Providers PROVE Cut(Now', claimEv', q)
    <3>1. CASE q # p
      <4>1. Cut(Now, claimEv', q)
        BY <2>1, <2>4, CutLonger DEF Ranges, Orphaned
      <4>2. \A c \in Claims : ProviderOf[c] = q /\ Good(Now, c) => Good(Now', c)
        BY <1>3, <3>1, NowFields DEF Good
      <4>3. \A c \in Claims : Now.sub[c].has = Now'.sub[c].has
        BY NowFields
      <4> QED BY <4>1, <4>2, <4>3, CutGood
    <3>2. CASE q = p
      <4>1. \A c \in Claims : ProviderOf[c] = p => Gone(Now', claimEv', c)
        BY <1>2, <2>3, <2>4
      <4>2. \A k \in 1 .. Len(claimEv') : claimEv'[k][2] \in Claims
        BY <1>1 DEF ClaimEvent
      <4>3. Doomed(Now', claimEv', p, Len(claimEv'))
        BY <4>1, <4>2 DEF Doomed, Gone
      <4>4. Len(claimEv') \in 0 .. Len(claimEv')
        BY <1>1
      <4> QED BY <3>2, <4>3, <4>4 DEF Cut
    <3> QED BY <3>1, <3>2
  <2> QED BY <1>4, <1>6, <2>3, <2>4 DEF Ranges
<1> QED BY <1>5, <1>6 DEF Types

LEMMA RangesProviderHandler ==
  ASSUME WellFormed, Types, Ranges, HandleProvider PROVE Ranges' /\ Orphaned
<1> DEFINE e == Head(providerEv)
<1>1. e \in {"add", "delete"} \X Providers
  BY TailTaken DEF HandleProvider, Types
<1>2. /\ UNCHANGED <<boot, deaf, suballocators>>
      /\ AddFloatingIPProvider(e[2]) \/ DeleteFloatingIPProvider(e[2])
  BY DEF HandleProvider
<1>3. e[2] \in Providers
  BY <1>1
<1> HIDE DEF e
<1>4. Orphaned
  BY <1>2 DEF Orphaned, AddFloatingIPProvider, DeleteFloatingIPProvider, histVars
<1> QED BY <1>2, <1>3, <1>4, RangesProviderAdded, RangesProviderDeleted

-----------------------------------------------------------------------------
(* The ranges of the claims: an event of a claim is handled. *)

\* The first event is gone, the others move up.
LEMMA DelTail ==
  ASSUME NEW q \in Seq(ClaimEvent), q # <<>>, NEW c, NEW lo \in Nat \ {0}, NEW hi \in 1 .. Len(q)
  PROVE  /\ Del(q, c, lo + 1, hi) => Del(Tail(q), c, lo, hi - 1)
         /\ Del(q, c, 1, hi) /\ q[1][2] # c => Del(Tail(q), c, 1, hi - 1)
<1>1. /\ Len(q) \in Nat \ {0} /\ \A k \in 1 .. Len(q) - 1 : Tail(q)[k] = q[k + 1]
  BY TailTaken
<1>2. ASSUME NEW l \in Nat \ {0}, Del(q, c, l + 1, hi) PROVE Del(Tail(q), c, l, hi - 1)
  <2>1. PICK m \in l + 1 .. hi : q[m][1] = "delete" /\ q[m][2] = c
    BY <1>2 DEF Del
  <2>2. m - 1 \in l .. hi - 1 /\ m - 1 \in 1 .. Len(q) - 1 /\ (m - 1) + 1 = m
    BY <1>1
  <2>3. Tail(q)[m - 1] = q[m]
    BY <1>1, <2>2
  <2> QED BY <2>1, <2>2, <2>3 DEF Del
<1>3. ASSUME Del(q, c, 1, hi), q[1][2] # c PROVE Del(q, c, 1 + 1, hi)
  <2>1. PICK m \in 1 .. hi : q[m][1] = "delete" /\ q[m][2] = c
    BY <1>3 DEF Del
  <2>2. m \in 1 + 1 .. hi
    BY <1>3, <2>1
  <2> QED BY <2>1, <2>2 DEF Del
<1> QED BY <1>2, <1>3

\* The first half of an update: the claim has no range, and its event stays.
LEMMA RangesClaimReplaced ==
  ASSUME WellFormed, Types, Ranges, HandleClaim, Replaced(claimEv[1]) PROVE Ranges'
<1> DEFINE q == claimEv
           r == claimEv'
           c == claimEv[1][2]
<1>1. /\ q # <<>> /\ r = Announcing /\ q[1] \in ClaimEvent /\ Kept(Now, Now', c) /\ Sound(Now')
      /\ Now'.sub[c].has = {}
      /\ UNCHANGED <<apiVars, boot, deaf, histVars>>
  BY ClaimHandled DEF Ranges
<1>2. /\ Len(q) \in Nat \ {0} /\ Len(r) = Len(q) /\ q[1][1] # "delete"
      /\ \A k \in 1 .. Len(q) : r[k][2] = q[k][2] /\ (r[k][1] = "delete" <=> q[k][1] = "delete")
  BY <1>1 DEF Types, Announcing, Replaced
<1>3. ~ boot
  BY <1>1 DEF Ranges
<1>4. \A d \in Claims : d # c => Now'.sub[d] = Now.sub[d] /\ (Good(Now, d) => Good(Now', d))
  BY <1>1 DEF Kept
<1> HIDE DEF q, r, c
<1>5. ASSUME NEW d, NEW lo \in Nat \ {0}, NEW hi \in 0 .. Len(q) PROVE Del(q, d, lo, hi) => Del(r, d, lo, hi)
  <2>1. \A k \in lo .. hi : k \in 1 .. Len(q)
    BY <1>2
  <2> QED BY <1>2, <2>1 DEF Del
<1>6. ASSUME NEW d \in Claims, claims'[d] = NoClaim PROVE Gone(Now', r, d)
  <2>1. Gone(Now, q, d)
    BY <1>1, <1>6 DEF Ranges, apiVars, q
  <2>2. Len(q) \in 0 .. Len(q)
    BY <1>2
  <2>3. ASSUME Now'.sub[d].has # {} PROVE Del(r, d, 1, Len(r))
    <3>1. Del(q, d, 1, Len(q))
      BY <1>1, <1>4, <2>1, <2>3 DEF Gone
    <3> QED BY <1>2, <1>5, <2>2, <3>1
  <2>4. ASSUME NEW k \in 1 .. Len(r), r[k][2] = d, r[k][1] # "delete" PROVE Del(r, d, k + 1, Len(r))
    <3>1. k \in 1 .. Len(q) /\ k + 1 \in Nat \ {0} /\ q[k][2] = d /\ q[k][1] # "delete"
      BY <1>2, <2>4
    <3>2. Del(q, d, k + 1, Len(q))
      BY <2>1, <3>1 DEF Gone
    <3> QED BY <1>2, <1>5, <2>2, <3>1, <3>2
  <2> QED BY <2>3, <2>4 DEF Gone
<1>7. ASSUME NEW p \in Providers, Cut(Now, q, p) PROVE Cut(Now', r, p)
  <2>1. PICK cut \in 0 .. Len(q) : Doomed(Now, q, p, cut)
    BY <1>7 DEF Cut
  <2>2. ASSUME NEW k \in 1 .. cut, ProviderOf[r[k][2]] = p, r[k][1] # "delete"
        PROVE  Del(r, r[k][2], k + 1, cut)
    <3>1. k \in 1 .. Len(q) /\ k + 1 \in Nat \ {0}
      BY <1>2, <2>1
    <3>2. Del(q, r[k][2], k + 1, cut)
      BY <1>2, <2>1, <2>2, <3>1 DEF Doomed
    <3> QED BY <1>5, <2>1, <3>1, <3>2
  <2>3. ASSUME NEW d \in Claims, ProviderOf[d] = p, Now'.sub[d].has # {}, ~ Good(Now', d)
        PROVE  Del(r, d, 1, cut)
    <3>1. Del(q, d, 1, cut)
      BY <1>1, <1>4, <2>1, <2>3 DEF Doomed
    <3> QED BY <1>5, <2>1, <3>1
  <2>4. Doomed(Now', r, p, cut)
    BY <2>2, <2>3 DEF Doomed
  <2> QED BY <1>2, <2>1, <2>4 DEF Cut
<1> QED BY <1>1, <1>3, <1>6, <1>7 DEF Ranges, histVars, q, r

LEMMA RangesClaimTaken ==
  ASSUME WellFormed, Types, Ranges, HandleClaim, ~ Replaced(claimEv[1]) PROVE Ranges'
<1> DEFINE q == claimEv
           r == claimEv'
           c == claimEv[1][2]
<1>1. /\ q # <<>> /\ r = Tail(q) /\ q[1] \in ClaimEvent /\ Kept(Now, Now', c) /\ Sound(Now')
      /\ q[1][1] = "delete" => Now'.sub[c].has = {}
      /\ UNCHANGED <<apiVars, boot, deaf, histVars>>
  BY ClaimHandled DEF Ranges
<1>2. /\ Len(q) \in Nat \ {0} /\ Len(r) = Len(q) - 1 /\ \A k \in 1 .. Len(r) : r[k] = q[k + 1]
      /\ q \in Seq(ClaimEvent) /\ c \in Claims
  BY <1>1, TailTaken DEF Types, ClaimEvent
<1>3. ~ boot
  BY <1>1 DEF Ranges
<1>4. ASSUME NEW d, NEW lo \in Nat \ {0}, NEW hi \in 1 .. Len(q)
      PROVE  /\ Del(q, d, lo + 1, hi) => Del(r, d, lo, hi - 1)
             /\ Del(q, d, 1, hi) /\ d # c => Del(r, d, 1, hi - 1)
  BY <1>1, <1>2, DelTail
<1>5. \A d \in Claims : d # c => Now'.sub[d] = Now.sub[d] /\ (Good(Now, d) => Good(Now', d))
  BY <1>1 DEF Kept
<1> HIDE DEF q, r, c
<1>6. ASSUME NEW d \in Claims, claims'[d] = NoClaim PROVE Gone(Now', r, d)
  <2>1. Gone(Now, q, d)
    BY <1>1, <1>6 DEF Ranges, apiVars, q
  <2>2. Len(q) \in 1 .. Len(q) /\ 1 \in 1 .. Len(q)
    BY <1>2
  <2>3. ASSUME NEW k \in 1 .. Len(r), r[k][2] = d, r[k][1] # "delete" PROVE Del(r, d, k + 1, Len(r))
    <3>1. k + 1 \in 1 .. Len(q) /\ k + 1 \in Nat \ {0} /\ r[k] = q[k + 1]
      BY <1>2
    <3>2. Del(q, d, (k + 1) + 1, Len(q))
      BY <2>1, <2>3, <3>1 DEF Gone
    <3> QED BY <1>2, <1>4, <2>2, <3>1, <3>2
  <2>4. ASSUME Now'.sub[d].has # {} PROVE Del(r, d, 1, Len(r))
    <3>1. CASE d # c
      <4>1. Del(q, d, 1, Len(q))
        BY <1>5, <2>1, <2>4, <3>1 DEF Gone
      <4> QED BY <1>2, <1>4, <2>2, <3>1, <4>1
    <3>2. CASE d = c
      <4>1. q[1][1] # "delete" /\ q[1][2] = d
        BY <1>1, <2>4, <3>2 DEF c, q
      <4>2. Del(q, d, 1 + 1, Len(q))
        BY <2>1, <2>2, <4>1 DEF Gone
      <4> QED BY <1>2, <1>4, <2>2, <4>2
    <3> QED BY <3>1, <3>2
  <2> QED BY <2>3, <2>4 DEF Gone
<1>7. ASSUME NEW p \in Providers, Cut(Now, q, p) PROVE Cut(Now', r, p)
  <2>1. PICK cut \in 0 .. Len(q) : Doomed(Now, q, p, cut)
    BY <1>7 DEF Cut
  <2>2. CASE cut = 0
    <3>1. \A d, k : ~ Del(q, d, 1, 0)
      BY DEF Del
    <3>2. AllGood(Now, p)
      BY <2>1, <2>2, <3>1 DEF Doomed, AllGood
    <3>3. AllGood(Now', p)
      BY <1>1, <3>2 DEF Kept
    <3>4. Doomed(Now', r, p, 0)
      BY <3>3 DEF Doomed, AllGood
    <3>5. 0 \in 0 .. Len(r)
      BY <1>2
    <3> QED BY <3>4, <3>5 DEF Cut
  <2>3. CASE cut # 0
    <3>1. cut \in 1 .. Len(q) /\ cut - 1 \in 0 .. Len(r) /\ 1 \in 1 .. cut
      BY <1>2, <2>3
    <3>2. ASSUME NEW k \in 1 .. cut - 1, ProviderOf[r[k][2]] = p, r[k][1] # "delete"
          PROVE  Del(r, r[k][2], k + 1, cut - 1)
      <4>1. k + 1 \in 1 .. cut /\ k + 1 \in Nat \ {0} /\ r[k] = q[k + 1]
        BY <1>2, <3>1
      <4>2. Del(q, r[k][2], (k + 1) + 1, cut)
        BY <2>1, <3>2, <4>1 DEF Doomed
      <4> QED BY <1>4, <3>1, <4>1, <4>2
    <3>3. ASSUME NEW d \in Claims, ProviderOf[d] = p, Now'.sub[d].has # {}, ~ Good(Now', d)
          PROVE  Del(r, d, 1, cut - 1)
      <4>1. CASE d # c
        <5>1. Del(q, d, 1, cut)
          BY <1>5, <2>1, <3>3, <4>1 DEF Doomed
        <5> QED BY <1>4, <3>1, <4>1, <5>1
      <4>2. CASE d = c
        <5>1. q[1][1] # "delete" /\ q[1][2] = d
          BY <1>1, <3>3, <4>2 DEF c, q
        <5>2. Del(q, d, 1 + 1, cut)
          BY <2>1, <3>1, <3>3, <5>1 DEF Doomed
        <5> QED BY <1>4, <3>1, <5>2
      <4> QED BY <4>1, <4>2
    <3>4. Doomed(Now', r, p, cut - 1)
      BY <3>2, <3>3 DEF Doomed
    <3> QED BY <3>1, <3>4 DEF Cut
  <2> QED BY <2>2, <2>3
<1> QED BY <1>1, <1>3, <1>6, <1>7 DEF Ranges, histVars, q, r

LEMMA RangesClaimHandler == ASSUME WellFormed, Types, Ranges, HandleClaim PROVE Ranges'
  BY RangesClaimReplaced, RangesClaimTaken

-----------------------------------------------------------------------------
(* The ranges of the claims: the master starts. *)

LEMMA NoneSound ==
  ASSUME NEW a, \A p \in Providers : a.alloc[p] = NoAlloc, \A c \in Claims : a.sub[c].has = {}
  PROVE  Sound(a)
  BY DEF Sound

LEMMA RangesInit == Init => Ranges
<1> SUFFICES ASSUME Init PROVE Ranges
  OBVIOUS
<1>1. /\ claimEv = <<>> /\ \A c \in Claims : suballocators[c].has = {}
      /\ \A p \in Providers : allocators[p] = NoAlloc
  BY DEF Init, NoAlloc
<1>2. Sound(Now)
  BY <1>1, NoneSound, NowFields
<1>3. Len(claimEv) = 0
  BY <1>1
<1>4. \A c \in Claims : Gone(Now, claimEv, c)
  BY <1>1, <1>3, NowFields DEF Gone
<1>5. ASSUME NEW p \in Providers PROVE Cut(Now, claimEv, p)
  <2>1. Doomed(Now, claimEv, p, 0)
    BY <1>1, NowFields DEF Doomed
  <2> QED BY <1>3, <2>1 DEF Cut
<1> QED BY <1>1, <1>2, <1>4, <1>5 DEF Ranges

LEMMA RangesRestart == ASSUME Restart PROVE Ranges'
<1>1. /\ claimEv' = <<>> /\ \A c \in Claims : suballocators'[c].has = {}
      /\ \A p \in Providers : allocators'[p] = NoAlloc
  BY DEF Restart, NoAlloc
<1>2. Sound(Now')
  BY <1>1, NoneSound, NowFields
<1> QED BY <1>1, <1>2, RangesBoot

LEMMA RangesWatchClaims ==
  ASSUME WellFormed, Types, Ranges, WatchClaims PROVE Ranges'
<1> DEFINE S == {<<"first", c, NoClaim, claims[c]>> : c \in {d \in Claims : claims[d] # NoClaim}}
<1>1. claimEv' \in Seq(S) /\ Len(claimEv') \in Nat
  <2>1. Lists(claimEv', S)
    BY TypesWatchClaims
  <2> QED BY <2>1 DEF Lists
<1>2. \A k \in 1 .. Len(claimEv') : claims[claimEv'[k][2]] # NoClaim
  <2>1. \A k \in 1 .. Len(claimEv') : claimEv'[k] \in S
    BY <1>1
  <2> QED BY <2>1
<1>3. /\ UNCHANGED <<claims, allocators, suballocators>> /\ ~ boot'
      /\ \A c \in Claims : suballocators[c].has = {}
  BY DEF WatchClaims, apiVars, Ranges
<1>4. Sound(Now')
  BY <1>3, NowFields DEF Ranges, Sound
<1>5. \A c \in Claims : claims'[c] = NoClaim => Gone(Now', claimEv', c)
  BY <1>2, <1>3, NowFields DEF Gone
<1>6. ASSUME NEW p \in Providers PROVE Cut(Now', claimEv', p)
  <2>1. Doomed(Now', claimEv', p, 0)
    BY <1>3, NowFields DEF Doomed
  <2> QED BY <1>1, <2>1 DEF Cut
<1> QED BY <1>3, <1>4, <1>5, <1>6 DEF Ranges

-----------------------------------------------------------------------------
(* The rows of the floating IPs. *)

Calm == disturbed \cap {"restart", "ovn"} = {}

LEMMA RowsSame ==
  ASSUME Rows, UNCHANGED <<fips, fipEv, policy, nat, deaf>> PROVE Rows'
<1>1. /\ Rules' = Rules /\ \A i \in Rules : Owned(i) => Owned(i)'
      /\ \A k \in 1 .. Len(fipEv) : Announced(k) => Announced(k)'
  BY DEF Rules, Owned, Announced
<1> QED BY <1>1 DEF Rows

\* Objects that go leave their deletion behind, one that comes announces itself.
LEMMA RowsFips ==
  ASSUME Types, Rows, FipsStep, UNCHANGED <<policy, nat, deaf>> PROVE Rows'
<1>1. CASE UNCHANGED <<fips, fipEv>>
  BY <1>1, RowsSame
<1>2. CASE deaf
  <2>1. fipEv' = <<>>
    <3>1. fipEv = <<>>
      BY <1>2 DEF Rows
    <3> QED BY <1>2, <3>1 DEF FipsStep, DropFips, Events
  <2>2. Len(fipEv') = 0
    BY <2>1
  <2> QED BY <1>2, <2>1, <2>2 DEF Rows, Rules
<1>3. ASSUME ~ deaf, NEW S \in SUBSET fips, DropFips(S) PROVE Rows'
  <2>1. PICK es \in Seq({<<"delete", f>> : f \in S}) :
          Lists(es, {<<"delete", f>> : f \in S}) /\ Queued(deaf, fipEv, fipEv', es)
    BY <1>3, Dropped
  <2>2. fips' = fips \ S
    BY <1>3 DEF DropFips
  <2>3. /\ Len(fipEv) \in Nat /\ Len(es) \in Nat /\ Len(fipEv') = Len(fipEv) + Len(es)
        /\ \A k \in 1 .. Len(fipEv) : fipEv'[k] = fipEv[k]
        /\ \A k \in 1 .. Len(es) : fipEv'[Len(fipEv) + k] = es[k]
    BY <1>3, <2>1 DEF Queued, Types
  <2>4. ASSUME NEW f \in S
        PROVE  \E k \in Len(fipEv) + 1 .. Len(fipEv') : fipEv'[k] = <<"delete", f>>
    <3>1. PICK i \in 1 .. Len(es) : es[i] = <<"delete", f>>
      BY <2>1 DEF Lists
    <3>2. Len(fipEv) + i \in Len(fipEv) + 1 .. Len(fipEv') /\ fipEv'[Len(fipEv) + i] = <<"delete", f>>
      BY <2>3, <3>1
    <3> QED BY <3>2
  <2>5. ASSUME NEW k \in Len(fipEv) + 1 .. Len(fipEv') PROVE fipEv'[k][1] = "delete"
    <3>1. k - Len(fipEv) \in 1 .. Len(es) /\ Len(fipEv) + (k - Len(fipEv)) = k
      BY <2>3
    <3>2. fipEv'[k] = es[k - Len(fipEv)]
      BY <2>3, <3>1
    <3>3. es[k - Len(fipEv)] \in {<<"delete", f>> : f \in S}
      BY <3>1
    <3> QED BY <3>2, <3>3
  <2>6. ASSUME NEW i \in Rules PROVE Owned(i)'
    <3>1. CASE \E f \in fips : f.id = i
      <4>1. PICK f \in fips : f.id = i
        BY <3>1
      <4>2. CASE f \in S
        <5>1. PICK k \in Len(fipEv) + 1 .. Len(fipEv') : fipEv'[k] = <<"delete", f>>
          BY <2>4, <4>2
        <5>2. k \in 1 .. Len(fipEv') /\ fipEv'[k][1] = "delete" /\ fipEv'[k][2].id = i
          BY <2>3, <4>1, <5>1
        <5> QED BY <5>2 DEF Owned
      <4>3. CASE f \notin S
        BY <2>2, <4>1, <4>3 DEF Owned
      <4> QED BY <4>2, <4>3
    <3>2. CASE \E k \in 1 .. Len(fipEv) : fipEv[k][1] = "delete" /\ fipEv[k][2].id = i
      <4>1. PICK k \in 1 .. Len(fipEv) : fipEv[k][1] = "delete" /\ fipEv[k][2].id = i
        BY <3>2
      <4>2. k \in 1 .. Len(fipEv') /\ fipEv'[k] = fipEv[k]
        BY <2>3
      <4> QED BY <4>1, <4>2 DEF Owned
    <3> QED BY <3>1, <3>2 DEF Rows, Owned
  <2>7. ASSUME NEW k \in 1 .. Len(fipEv'), fipEv'[k][1] = "add" PROVE Announced(k)'
    <3>1. k \in 1 .. Len(fipEv)
      BY <2>3, <2>5, <2>7
    <3>2. fipEv'[k] = fipEv[k] /\ Announced(k)
      BY <2>3, <2>7, <3>1 DEF Rows
    <3>3. CASE fipEv[k][2] \in fips
      <4>1. CASE fipEv[k][2] \in S
        <5>1. PICK m \in Len(fipEv) + 1 .. Len(fipEv') : fipEv'[m] = <<"delete", fipEv[k][2]>>
          BY <2>4, <4>1
        <5>2. m \in k + 1 .. Len(fipEv')
          BY <2>3, <3>1
        <5> QED BY <3>2, <5>1, <5>2 DEF Announced
      <4>2. CASE fipEv[k][2] \notin S
        BY <2>2, <3>2, <3>3, <4>2 DEF Announced
      <4> QED BY <4>1, <4>2
    <3>4. CASE \E m \in k + 1 .. Len(fipEv) : fipEv[m] = <<"delete", fipEv[k][2]>>
      <4>1. PICK m \in k + 1 .. Len(fipEv) : fipEv[m] = <<"delete", fipEv[k][2]>>
        BY <3>4
      <4>2. m \in 1 .. Len(fipEv) /\ m \in k + 1 .. Len(fipEv')
        BY <2>3, <3>1
      <4>3. fipEv'[m] = <<"delete", fipEv'[k][2]>>
        BY <2>3, <3>2, <4>1, <4>2
      <4> QED BY <4>2, <4>3 DEF Announced
    <3> QED BY <3>2, <3>3, <3>4 DEF Announced
  <2> QED BY <1>3, <2>6, <2>7 DEF Rows, Rules
<1>4. ASSUME ~ deaf, NEW f \in Fip, fips' = fips \cup {f}, fipEv' = Events(deaf, fipEv, << <<"add", f>> >>)
      PROVE  Rows'
  <2>1. Queued(deaf, fipEv, fipEv', << <<"add", f>> >>)
    BY <1>4, Created
  <2>2. /\ Len(fipEv) \in Nat /\ Len(fipEv') = Len(fipEv) + 1
        /\ \A k \in 1 .. Len(fipEv) : fipEv'[k] = fipEv[k]
        /\ fipEv'[Len(fipEv) + 1] = <<"add", f>>
    <3> DEFINE es == << <<"add", f>> >>
    <3>1. Len(es) = 1 /\ es[1] = <<"add", f>> /\ Len(fipEv) \in Nat
      BY DEF Types
    <3> HIDE DEF es
    <3>2. /\ Len(fipEv') = Len(fipEv) + Len(es)
          /\ \A k \in 1 .. Len(fipEv) : fipEv'[k] = fipEv[k]
          /\ \A k \in 1 .. Len(es) : fipEv'[Len(fipEv) + k] = es[k]
      BY <1>4, <2>1 DEF Queued, es
    <3> QED BY <3>1, <3>2
  <2>3. ASSUME NEW i \in Rules PROVE Owned(i)'
    <3>1. 1 .. Len(fipEv) \subseteq 1 .. Len(fipEv')
      BY <2>2
    <3> QED BY <1>4, <2>2, <3>1 DEF Rows, Owned
  <2>4. ASSUME NEW k \in 1 .. Len(fipEv'), fipEv'[k][1] = "add" PROVE Announced(k)'
    <3>1. CASE k = Len(fipEv) + 1
      BY <1>4, <2>2, <3>1 DEF Announced
    <3>2. CASE k # Len(fipEv) + 1
      <4>1. k \in 1 .. Len(fipEv)
        BY <2>2, <3>2
      <4>2. fipEv'[k] = fipEv[k] /\ Announced(k)
        BY <2>2, <2>4, <4>1 DEF Rows
      <4>3. \A m \in k + 1 .. Len(fipEv) : m \in k + 1 .. Len(fipEv') /\ fipEv'[m] = fipEv[m]
        BY <2>2, <4>1
      <4> QED BY <1>4, <4>2, <4>3 DEF Announced
    <3> QED BY <3>1, <3>2
  <2> QED BY <1>4, <2>3, <2>4 DEF Rows, Rules
<1> QED BY <1>1, <1>2, <1>3, <1>4 DEF FipsStep, Types

\* The rows of an event's floating IP are written or deleted.
LEMMA RowsFipHandler ==
  ASSUME WellFormed, Types, Calm => Rows, HandleFip PROVE Calm' => Rows'
<1> SUFFICES ASSUME Calm' PROVE Rows'
  OBVIOUS
<1> DEFINE e == fipEv[1]
           f == e[2]
<1>1. /\ fipEv # <<>> /\ fipEv' = Tail(fipEv) /\ UNCHANGED <<boot, deaf, fips>>
      /\ \/ e[1] = "add" /\ AddFloatingIP(f)
         \/ e[1] = "delete" /\ DeletePodFloatingIP(f)
  <2>1. fipEv # <<>> => Head(fipEv) = fipEv[1]
    BY TailTaken DEF Types
  <2> QED BY <2>1 DEF HandleFip, apiVars, DeleteFloatingIP
<1>2. /\ Len(fipEv) \in Nat \ {0} /\ Len(fipEv') = Len(fipEv) - 1
      /\ \A k \in 1 .. Len(fipEv') : fipEv'[k] = fipEv[k + 1]
  BY <1>1, TailTaken DEF Types
<1>3. Calm /\ (\/ e[1] = "add" /\ Rules' \subseteq Rules \cup {f.id}
               \/ e[1] = "delete" /\ Rules' \subseteq Rules \ {f.id})
  BY <1>1 DEF AddFloatingIP, AddPodFloatingIP, DeletePodFloatingIP, CreateReroutePolicy, CreateNATRule,
        DeleteReroutePolicy, DeleteNATRule, FindReroutePolicyIDs, FindOneToOneNatIDs, Rules, Calm, histVars
<1>4. Rows /\ ~ deaf
  BY <1>1, <1>3 DEF Rows
<1> HIDE DEF e, f
<1>5. ASSUME NEW m \in 2 .. Len(fipEv) PROVE m - 1 \in 1 .. Len(fipEv') /\ fipEv'[m - 1] = fipEv[m]
  <2>1. m - 1 \in 1 .. Len(fipEv') /\ (m - 1) + 1 = m
    BY <1>2
  <2> QED BY <1>2, <2>1
<1>6. ASSUME NEW i \in Rules' PROVE Owned(i)'
  <2>1. (\E g \in fips : g.id = i)
        \/ \E m \in 2 .. Len(fipEv) : fipEv[m][1] = "delete" /\ fipEv[m][2].id = i
    <3>1. CASE i \in Rules /\ (e[1] = "delete" => i # f.id)
      <4>1. Owned(i)
        BY <1>4, <3>1 DEF Rows
      <4>2. \A k \in 1 .. Len(fipEv) : fipEv[k][1] = "delete" /\ fipEv[k][2].id = i => k # 1
        BY <1>3, <3>1 DEF e, f
      <4>3. \A k \in 1 .. Len(fipEv) : k # 1 => k \in 2 .. Len(fipEv)
        BY <1>2
      <4> QED BY <4>1, <4>2, <4>3 DEF Owned
    <3>2. CASE i = f.id /\ e[1] = "add"
      <4>1. 1 \in 1 .. Len(fipEv)
        BY <1>2
      <4>2. Announced(1)
        BY <1>4, <3>2, <4>1 DEF Rows, e
      <4>3. CASE f \in fips
        BY <3>2, <4>3
      <4>4. CASE \E m \in 1 + 1 .. Len(fipEv) : fipEv[m] = <<"delete", f>>
        BY <3>2, <4>4
      <4> QED BY <4>2, <4>3, <4>4 DEF Announced, e, f
    <3> QED BY <1>3, <3>1, <3>2
  <2> QED BY <1>1, <1>5, <2>1 DEF Owned
<1>7. ASSUME NEW k \in 1 .. Len(fipEv'), fipEv'[k][1] = "add" PROVE Announced(k)'
  <2>1. k + 1 \in 1 .. Len(fipEv) /\ fipEv'[k] = fipEv[k + 1]
    BY <1>2
  <2>2. Announced(k + 1)
    BY <1>4, <1>7, <2>1 DEF Rows
  <2>3. CASE \E m \in (k + 1) + 1 .. Len(fipEv) : fipEv[m] = <<"delete", fipEv[k + 1][2]>>
    <3>1. PICK m \in (k + 1) + 1 .. Len(fipEv) : fipEv[m] = <<"delete", fipEv[k + 1][2]>>
      BY <2>3
    <3>2. m \in 2 .. Len(fipEv) /\ m - 1 \in k + 1 .. Len(fipEv')
      BY <1>2
    <3>3. fipEv'[m - 1] = <<"delete", fipEv'[k][2]>>
      BY <1>5, <2>1, <3>1, <3>2
    <3> QED BY <3>2, <3>3 DEF Announced
  <2> QED BY <1>1, <2>1, <2>2, <2>3 DEF Announced
<1> QED BY <1>1, <1>4, <1>6, <1>7 DEF Rows

LEMMA RowsWatchFips ==
  ASSUME WellFormed, Types, Rows, WatchFips PROVE Rows'
<1>1. Lists(fipEv', {<<"add", f>> : f \in fips})
  BY TypesWatchFips
<1>2. \A k \in 1 .. Len(fipEv') : fipEv'[k][2] \in fips
  <2>1. \A k \in 1 .. Len(fipEv') : fipEv'[k] \in {<<"add", f>> : f \in fips}
    BY <1>1 DEF Lists
  <2> QED BY <2>1
<1>3. ~ deaf' /\ Rules' = {} /\ fips' = fips
  BY DEF WatchFips, Rows, Rules, dbVars, apiVars
<1> QED BY <1>2, <1>3 DEF Rows, Announced

LEMMA RowsInit == Init => Rows
<1> SUFFICES ASSUME Init PROVE Rows
  OBVIOUS
<1>1. fipEv = <<>> /\ Len(fipEv) = 0 /\ Rules = {}
  BY DEF Init, Rules
<1> QED BY <1>1 DEF Rows

-----------------------------------------------------------------------------
(* Every step. *)

\* What is recorded stays recorded.
Recorded == disturbed \subseteq disturbed'

LEMMA InvEnvironment == ASSUME WellFormed, Inv, Environment PROVE Inv'
<1>1. ASSUME NEW p \in Providers, CreateProvider(p) \/ DeleteProvider(p) PROVE Inv'
  <2>1. Types'
    BY <1>1, TypesProviders DEF Inv
  <2>2. UNCHANGED <<claims, fips, claimEv, fipEv, ctlVars, dbVars>> /\ Recorded
    BY <1>1 DEF CreateProvider, DeleteProvider, Recorded
  <2>3. Ranges'
    BY <2>2, RangesSame DEF Inv, Orphaned, Recorded, ctlVars
  <2>4. Calm' => Rows'
    BY <2>2, RowsSame DEF Inv, Calm, Recorded, ctlVars, dbVars
  <2> QED BY <2>1, <2>3, <2>4 DEF Inv, Calm
<1>2. ASSUME NEW c \in Claims,
             \/ \E ips \in Specs[c] : CreateClaim(c, ips)
             \/ \E ips \in Specs[c] \cup {{}} : ChangeClaim(c, ips)
      PROVE  Inv'
  <2>1. PICK kind \in {"add", "update", "delete"} : ClaimStep(c, kind)
    BY <1>2, UserClaims DEF Inv
  <2>2. Recorded
    BY <1>2 DEF CreateClaim, ChangeClaim, Recorded
  <2>3. Types'
    BY <2>1, TypesClaims DEF Inv
  <2>4. Ranges'
    BY <2>1, <2>2, RangesClaims DEF Inv, Orphaned, Recorded
  <2>5. Calm' => Rows'
    BY <2>1, <2>2, RowsSame DEF Inv, Calm, Recorded, ClaimStep, ctlVars, dbVars
  <2> QED BY <2>3, <2>4, <2>5 DEF Inv, Calm
<1>3. ASSUME NEW f \in fips, CollectGarbage(f) PROVE Inv'
  <2>1. Types'
    BY <1>3, TypesEnvironment DEF Inv
  <2>2. UNCHANGED <<claims, claimEv, ctlVars, dbVars, histVars>> /\ FipsStep
    BY <1>3 DEF CollectGarbage, FipsStep
  <2>3. Ranges'
    BY <2>2, RangesSame DEF Inv, Orphaned, ctlVars, histVars
  <2>4. Calm' => Rows'
    BY <2>2, RowsFips DEF Inv, Calm, ctlVars, dbVars, histVars
  <2> QED BY <2>1, <2>3, <2>4 DEF Inv, Calm
<1>4. ASSUME \/ \E p \in Pods : ChangePod(p)
             \/ \E n \in Nodes : ChangeNode(n)
      PROVE  Inv'
  <2>1. Types'
    BY <1>4, TypesEnvironment DEF Inv
  <2>2. UNCHANGED <<claims, fips, claimEv, fipEv, ctlVars, dbVars, disturbed>>
    BY <1>4 DEF ChangePod, ChangeNode
  <2>3. Ranges'
    BY <2>2, RangesSame DEF Inv, Orphaned, ctlVars
  <2>4. Calm' => Rows'
    BY <2>2, RowsSame DEF Inv, Calm, ctlVars, dbVars
  <2> QED BY <2>1, <2>3, <2>4 DEF Inv, Calm
<1> QED BY <1>1, <1>2, <1>3, <1>4 DEF Environment

LEMMA InvProviderHandler == ASSUME WellFormed, Inv, HandleProvider PROVE Inv'
<1>1. Types'
  BY TypesProviderHandler DEF Inv
<1>2. Ranges'
  BY RangesProviderHandler DEF Inv
<1>3. UNCHANGED <<fips, fipEv, boot, deaf, dbVars>>
  BY DEF HandleProvider
<1>4. Recorded
  BY DEF HandleProvider, AddFloatingIPProvider, DeleteFloatingIPProvider, Recorded, histVars
<1>5. Calm' => Rows'
  BY <1>3, <1>4, RowsSame DEF Inv, Calm, Recorded, dbVars
<1> QED BY <1>1, <1>2, <1>5 DEF Inv, Calm

LEMMA InvClaimHandler == ASSUME WellFormed, Inv, HandleClaim PROVE Inv'
<1>1. Types'
  BY TypesClaimHandler DEF Inv, Ranges
<1>2. Ranges'
  BY RangesClaimHandler DEF Inv
<1>3. UNCHANGED <<apiVars, fipEv, boot, deaf, dbVars, histVars>>
  BY DEF HandleClaim
<1>4. Calm' => Rows'
  BY <1>3, RowsSame DEF Inv, Calm, apiVars, dbVars, histVars
<1> QED BY <1>1, <1>2, <1>4 DEF Inv, Calm

LEMMA InvFipHandler == ASSUME WellFormed, Inv, HandleFip PROVE Inv'
<1> DEFINE f == Head(fipEv)[2]
<1>1. Types'
  BY TypesFipHandler DEF Inv
<1>2. UNCHANGED <<apiVars, claimEv, allocators, boot, deaf>> /\ Recorded
  BY DEF HandleFip, AddFloatingIP, AddPodFloatingIP, DeleteFloatingIP, DeletePodFloatingIP, Recorded, histVars
<1>3. UNCHANGED suballocators \/ ClaimReleases(f)
  BY DEF HandleFip
<1>4. f.claim \in Claims /\ f.ip \in Nat
  BY TailTaken DEF HandleFip, Inv, Types, FipEvent, Fip
<1> HIDE DEF f
<1>5. \A c \in Claims : suballocators'[c].has = suballocators[c].has
  <2>1. Release(suballocators[f.claim], f.ip).has = suballocators[f.claim].has
    BY <1>4 DEF Release, Without, Inv, Types, Alloc
  <2> QED BY <1>3, <1>4, <2>1 DEF ClaimReleases, Inv, Types
<1>6. Ranges'
  BY <1>2, <1>5, RangesSame DEF Inv, Orphaned, Recorded, apiVars
<1>7. Calm' => Rows'
  BY RowsFipHandler DEF Inv, Calm
<1> QED BY <1>1, <1>6, <1>7 DEF Inv, Calm

LEMMA InvPodHandler == ASSUME WellFormed, Inv, NEW p \in Pods, HandlePod(p) PROVE Inv'
<1>1. UNCHANGED <<apiVars, providerEv, claimEv, fipEv, nodeEv, boot, deaf, allocators, suballocators,
                  fiOnNodes, watching, sync, dbVars, histVars>>
  BY DEF HandlePod
<1>2. podEv' \subseteq Pods /\ queue' \subseteq Claims
  BY DEF HandlePod, Inv, Types
<1>3. Types'
  BY <1>1, <1>2 DEF Inv, Types, apiVars, dbVars
<1>4. Ranges'
  BY <1>1, RangesSame DEF Inv, Orphaned, apiVars, histVars
<1>5. Calm' => Rows'
  BY <1>1, RowsSame DEF Inv, Calm, apiVars, dbVars, histVars
<1> QED BY <1>3, <1>4, <1>5 DEF Inv, Calm

LEMMA InvNodeHandler == ASSUME WellFormed, Inv, NEW n \in Nodes, HandleNode(n) PROVE Inv'
<1>1. /\ Types'
      /\ UNCHANGED <<providers, claims, pods, ready, providerEv, claimEv, podEv, boot, deaf, allocators,
                     suballocators, watching, sync, dbVars>>
      /\ UNCHANGED <<fips, fipEv>> \/ \E S \in SUBSET fips : DropFips(S)
  BY TypesNodeHandler DEF Inv
<1>2. Recorded
  BY DEF HandleNode, Recorded
<1>3. Ranges'
  BY <1>1, <1>2, RangesSame DEF Inv, Orphaned, Recorded
<1>4. FipsStep
  BY <1>1 DEF FipsStep
<1>5. Calm' => Rows'
  BY <1>1, <1>2, <1>4, RowsFips DEF Inv, Calm, Recorded, dbVars
<1> QED BY <1>1, <1>3, <1>5 DEF Inv, Calm

LEMMA InvStart == ASSUME WellFormed, Inv, WatchClaims \/ WatchFips \/ Restart PROVE Inv'
<1>1. CASE WatchClaims
  <2>1. Types'
    BY <1>1, TypesWatchClaims DEF Inv
  <2>2. Ranges'
    BY <1>1, RangesWatchClaims DEF Inv
  <2>3. Recorded
    BY <1>1 DEF WatchClaims, Recorded
  <2>4. Calm' => Rows'
    BY <1>1, <2>3, RowsSame DEF Inv, Calm, Recorded, WatchClaims, apiVars, dbVars
  <2> QED BY <2>1, <2>2, <2>4 DEF Inv, Calm
<1>2. CASE Restart
  <2>1. Types'
    BY <1>2, TypesRestart DEF Inv
  <2>2. Ranges'
    BY <1>2, RangesRestart
  <2>3. ~ Calm'
    BY <1>2 DEF Restart, Calm
  <2> QED BY <2>1, <2>2, <2>3 DEF Inv, Calm
<1>3. CASE WatchFips
  <2>1. Types'
    BY <1>3, TypesWatchFips DEF Inv
  <2>2. UNCHANGED <<apiVars, claimEv, boot, allocators, suballocators>> /\ Recorded
    BY <1>3 DEF WatchFips, Recorded
  <2>3. Ranges'
    BY <2>2, RangesSame DEF Inv, Orphaned, Recorded, apiVars
  <2>4. Calm' => Rows'
    BY <1>3, <2>2, RowsWatchFips DEF Inv, Calm, Recorded
  <2> QED BY <2>1, <2>3, <2>4 DEF Inv, Calm
<1> QED BY <1>1, <1>2, <1>3

LEMMA InvWorker == ASSUME WellFormed, Inv, Worker PROVE Inv'
<1>1. Types' /\ WorkerStep
  BY WorkerGet, WorkerList, WorkerClean, WorkerAllocate, WorkerCreate, WorkerRelease, WorkerStatus
     DEF Worker, Inv
<1>2. Ranges'
  BY <1>1, RangesSame DEF Inv, WorkerStep, Orphaned
<1>3. Calm' => Rows'
  BY <1>1, RowsFips DEF Inv, WorkerStep, Calm
<1> QED BY <1>1, <1>2, <1>3 DEF Inv, Calm

LEMMA InvStutter == ASSUME Inv, UNCHANGED vars PROVE Inv'
<1>1. UNCHANGED <<apiVars, evVars, ctlVars, dbVars, histVars>>
  BY DEF vars
<1>2. Types'
  BY <1>1 DEF Inv, Types, apiVars, evVars, ctlVars, dbVars
<1>3. Ranges'
  BY <1>1, RangesSame DEF Inv, Orphaned, apiVars, evVars, ctlVars, histVars
<1>4. Calm' => Rows'
  BY <1>1, RowsSame DEF Inv, Calm, apiVars, evVars, ctlVars, dbVars, histVars
<1> QED BY <1>2, <1>3, <1>4 DEF Inv, Calm

\* The types, the ranges and the rows, in every state of every behaviour.
THEOREM FloatingIPsInvariant == ASSUME WellFormed PROVE Spec => []Inv
<1>1. Init => Inv
  BY TypesInit, RangesInit, RowsInit DEF Inv
<1>2. Inv /\ [Next]_vars => Inv'
  <2> SUFFICES ASSUME Inv, [Next]_vars PROVE Inv'
    OBVIOUS
  <2>1. CASE Environment
    BY <2>1, InvEnvironment
  <2>2. CASE Handlers
    BY <2>2, InvProviderHandler, InvClaimHandler, InvFipHandler, InvPodHandler, InvNodeHandler,
       InvStart DEF Handlers
  <2>3. CASE Worker
    BY <2>3, InvWorker
  <2>4. CASE Restart
    BY <2>4, InvStart
  <2>5. CASE UNCHANGED vars
    BY <2>5, InvStutter
  <2> QED BY <2>1, <2>2, <2>3, <2>4, <2>5 DEF Next
<1> QED BY <1>1, <1>2, PTL DEF Spec

LEMMA GoodNow ==
  ASSUME WellFormed, Inv, "orphan" \notin disturbed, NEW c \in Claims, ~ Deleting(c),
         suballocators[c].has # {}
  PROVE  Good(Now, c)
<1>1. PICK cut \in 0 .. Len(claimEv) : Doomed(Now, claimEv, ProviderOf[c], cut)
  BY DEF Inv, Ranges, Cut, WellFormed
<1>2. ~ Del(claimEv, c, 1, cut)
  <2>1. DOMAIN claimEv = 1 .. Len(claimEv) /\ Len(claimEv) \in Nat
    BY DEF Inv, Types
  <2>2. 1 .. cut \subseteq DOMAIN claimEv
    BY <2>1
  <2> QED BY <2>2 DEF Deleting, Del
<1> QED BY <1>1, <1>2, NowFields DEF Doomed

LEMMA RangesDisjoint == ASSUME WellFormed, Inv PROVE ClaimRangesDisjoint
<1> SUFFICES ASSUME "orphan" \notin disturbed, NEW c \in Claims, NEW d \in Claims, c # d,
                    ~ Deleting(c), suballocators[c].has \cap suballocators[d].has # {},
                    \/ ProviderOf[c] = ProviderOf[d]
                    \/ RangeOf[ProviderOf[c]] \cap RangeOf[ProviderOf[d]] = {}
             PROVE  FALSE
  BY DEF ClaimRangesDisjoint
<1>1. ProviderOf[c] = ProviderOf[d] /\ ProviderOf[c] \in Providers
  <2>1. /\ suballocators[c].has \subseteq RangeOf[ProviderOf[c]]
        /\ suballocators[d].has \subseteq RangeOf[ProviderOf[d]]
    BY NowFields DEF Inv, Ranges, Sound
  <2> QED BY <2>1 DEF WellFormed
<1>2. Good(Now, c)
  BY GoodNow
<1> QED BY <1>1, <1>2, NowFields DEF Good

\* Two claims of one provider, or of providers without a common address, never
\* hand out the same address, whatever is done to claims, providers and the
\* master (addFloatingIPClaim, deleteFloatingIPClaim,
\* deleteFloatingIPProvider): AllocatePool refuses what another claim has, and
\* the claims that a deleted provider left behind give up their range before
\* the events of a provider that comes back reserve it again.
THEOREM ClaimRangesStayDisjoint ==
  ASSUME WellFormed PROVE Spec => []ClaimRangesDisjoint
  BY RangesDisjoint, FloatingIPsInvariant, PTL

\* Once the events are handled no reroute policy and no NAT rule is left of a
\* FloatingIP that is gone (addPodFloatingIP, deletePodFloatingIP), unless a
\* command failed or the master restarted.
THEOREM NoStaleRows == ASSUME WellFormed PROVE Spec => []NoStaleNat
<1>1. ASSUME Inv PROVE NoStaleNat
  <2> SUFFICES ASSUME fipEv = <<>>, disturbed \cap {"restart", "ovn"} = {}, NEW i \in Rules
               PROVE  \E f \in fips : f.id = i
    BY DEF NoStaleNat, Rules
  <2>1. Len(fipEv) = 0
    OBVIOUS
  <2>2. Owned(i)
    BY <1>1 DEF Inv, Rows
  <2> QED BY <2>1, <2>2 DEF Owned
<1> QED BY <1>1, FloatingIPsInvariant, PTL


-----------------------------------------------------------------------------
(* What is left alone. *)

\* Nothing has happened for which the property makes an exception.
Quiet == disturbed \cap {"claim", "status", "overlap", "early", "mixed"} = {}

\* Deletions of FloatingIPs that the claims have yet to hear of, and all the
\* FloatingIPs whose address somebody may still give back.
Pend == {fipEv[k][2] : k \in {m \in 1 .. Len(fipEv) : fipEv[m][1] = "delete"}}
Pool == fips \cup Pend
Once == \A k, m \in 1 .. Len(fipEv) : fipEv[k][1] = "delete" /\ fipEv[m] = fipEv[k] => k = m

\* Nobody deletes a provider, and each one gets its allocator before claims
\* are watched; it holds the ranges of its claims and nothing else, and no
\* address of another provider.
Provided ==
  /\ "orphan" \notin disturbed
  /\ \A k \in 1 .. Len(providerEv) : providerEv[k][1] = "add" /\ providerEv[k][2] \in providers
  /\ \A p \in Providers : allocators[p] # NoAlloc => p \in providers
  /\ boot => \A p \in providers : \/ allocators[p] # NoAlloc
                                  \/ \E k \in 1 .. Len(providerEv) : providerEv[k] = <<"add", p>>
  /\ \A c \in Claims : suballocators[c] # NoAlloc => allocators[ProviderOf[c]] # NoAlloc
  /\ \A p \in Providers : \A i \in allocators[p].used :
       \E c \in Claims : ProviderOf[c] = p /\ i \in suballocators[c].has
  /\ \A p, q \in Providers : p # q /\ allocators[p] # NoAlloc /\ allocators[q] # NoAlloc =>
       RangeOf[p] \cap RangeOf[q] = {}

\* A claim is announced once, and has its range from then on or never.
Told ==
  /\ \A k \in 1 .. Len(claimEv) :
       LET c == claimEv[k][2]
       IN /\ claimEv[k][1] \in {"first", "add"} /\ claimEv[k][4].ips = claims[c].ips
          /\ claims[c] # NoClaim /\ suballocators[c] = NoAlloc
          /\ \A m \in 1 .. Len(claimEv) : claimEv[m][2] = c => m = k
  /\ \A c \in Claims : suballocators[c] # NoAlloc =>
       /\ claims[c] # NoClaim /\ suballocators[c].has = claims[c].ips
       /\ suballocators[c].nil = FALSE
  /\ \A c \in watching : suballocators[c] # NoAlloc
  /\ deaf => fipEv = <<>>
  /\ boot => deaf /\ claimEv = <<>> /\ \A c \in Claims : suballocators[c] = NoAlloc
  /\ boot /\ "restart" \notin disturbed => fips = {}

-----------------------------------------------------------------------------
(* Whose address it is. *)

\* An address is of the claim's range and of no other claim's, and only one
\* FloatingIP has it; a deletion is told once.
Placed ==
  /\ \A f \in Pool : /\ f.ip \in claims[f.claim].ips
                     /\ claims[f.claim].ips \subseteq RangeOf[ProviderOf[f.claim]]
                     /\ \A c \in Claims : c # f.claim => f.ip \notin suballocators[c].has
  /\ \A f, g \in Pool : f.ip = g.ip => f = g
  /\ fips \cap Pend = {} /\ Once

\* The allocator of c knows the addresses in use, or it is new: then it is
\* filled before it hands one out, and nothing is given back to it.
Known(c)   == \A f \in Pool : f.claim = c => f.ip \in suballocators[c].used
Waiting(c) == suballocators[c].used = {} /\ \A f \in Pend : f.claim # c
Booked     == \A c \in Claims : Known(c) \/ Waiting(c)

\* A claim that has FloatingIPs and no allocator yet is about to be announced,
\* before any claim that could take its range, and nobody works on it.
First(c) ==
  \E k \in 1 .. Len(claimEv) :
    /\ claimEv[k][2] = c
    /\ \A d \in Claims : (/\ d # c /\ ProviderOf[d] = ProviderOf[c]
                          /\ claims[d].ips \cap claims[c].ips # {})
                         => suballocators[d] = NoAlloc /\ \A m \in 1 .. k : claimEv[m][2] # d
Resumed ==
  \A f \in fips : suballocators[f.claim] = NoAlloc =>
    /\ claims[f.claim].assigned /\ f.claim \notin queue
    /\ sync.pc = "idle" \/ sync.claim # f.claim
    /\ ProviderOf[f.claim] \in providers
    /\ boot \/ (First(f.claim) /\ allocators[ProviderOf[f.claim]] # NoAlloc)

\* Addresses that the worker has taken and not used so far.
Held  == UNION {h[1] : h \in sync.held}
Taken == IF sync.pc = "create" THEN Held \cup sync.ip ELSE Held
Working ==
  /\ sync.pc # "idle" => sync.read # NoClaim
  /\ sync.pc \in {"list", "clean"} => sync.held = {}
  /\ sync.pc \in {"clean", "alloc", "create", "release"} => suballocators[sync.claim] # NoAlloc
  /\ sync.pc = "clean" =>
       /\ {f \in fips : f.claim = sync.claim} \subseteq sync.on
       /\ \A f \in sync.on : f.claim = sync.claim /\ (suballocators[sync.claim].used = {} => f \in Pool)
  /\ sync.pc \in {"alloc", "create", "release"} =>
       /\ Known(sync.claim)
       /\ Taken \subseteq suballocators[sync.claim].used \cap suballocators[sync.claim].has
       /\ \A f \in Pool : f.ip \notin Taken
  /\ sync.pc = "create" => sync.ip \cap Held = {}

Unshared == Provided /\ Told /\ Placed /\ Booked /\ Resumed /\ Working

-----------------------------------------------------------------------------
(* FloatingIPs that go. *)

USE DEF ApiTypes, EvTypes, CtlTypes, DbTypes

LEMMA PendIs ==
  \A f : f \in Pend <=> \E k \in 1 .. Len(fipEv) : fipEv[k][1] = "delete" /\ fipEv[k][2] = f
  BY DEF Pend

LEMMA FipEvents ==
  ASSUME Types
  PROVE  /\ Len(fipEv) \in Nat
         /\ \A k \in 1 .. Len(fipEv) : /\ fipEv[k] = <<fipEv[k][1], fipEv[k][2]>> /\ fipEv[k][2] \in Fip
                                       /\ fipEv[k][1] \in {"add", "delete"}
  BY DEF Types, FipEvent

LEMMA PoolTypes == ASSUME Types PROVE Pool \subseteq Fip /\ \A f \in Pool : f.claim \in Claims /\ f.ip \in Nat
<1>1. Pend \subseteq Fip
  BY FipEvents, PendIs
<1>2. Pool \subseteq Fip
  BY <1>1 DEF Pool, Types
<1> QED BY <1>2 DEF Fip

LEMMA PoolDropped ==
  ASSUME Types, NEW S \in SUBSET fips, DropFips(S), fips \cap Pend = {}, Once
  PROVE  /\ fips' = fips \ S /\ Pend \subseteq Pend' /\ Pend' \subseteq Pend \cup S /\ Pool' \subseteq Pool
         /\ Once' /\ fips' \cap Pend' = {}
<1> DEFINE T == {<<"delete", f>> : f \in S}
<1>1. PICK es \in Seq(T) : Lists(es, T) /\ Queued(deaf, fipEv, fipEv', es)
  BY Dropped
<1>2. fips' = fips \ S /\ fipEv' \in Seq(FipEvent)
  BY Dropped
<1>3. CASE deaf
  <2>1. fipEv' = fipEv
    BY <1>1, <1>3 DEF Queued
  <2>2. Pend' = Pend /\ (Once => Once')
    BY <2>1 DEF Pend, Once
  <2> QED BY <1>2, <2>2 DEF Pool
<1>4. CASE ~ deaf
  <2>1. /\ Len(fipEv) \in Nat /\ Len(es) \in Nat /\ Len(fipEv') = Len(fipEv) + Len(es)
        /\ \A k \in 1 .. Len(fipEv) : fipEv'[k] = fipEv[k]
        /\ \A k \in 1 .. Len(es) : fipEv'[Len(fipEv) + k] = es[k]
    <3> HIDE DEF T
    <3> QED BY <1>1, <1>4 DEF Queued, Types
  <2>2. ASSUME NEW k \in 1 .. Len(fipEv') \ 1 .. Len(fipEv)
        PROVE  /\ k - Len(fipEv) \in 1 .. Len(es) /\ fipEv'[k] = es[k - Len(fipEv)]
               /\ fipEv'[k][1] = "delete" /\ fipEv'[k][2] \in S
    <3>1. k - Len(fipEv) \in 1 .. Len(es) /\ Len(fipEv) + (k - Len(fipEv)) = k
      BY <2>1
    <3>2. fipEv'[k] = es[k - Len(fipEv)]
      BY <2>1, <3>1
    <3>3. es[k - Len(fipEv)] \in T
      BY <3>1
    <3> QED BY <3>1, <3>2, <3>3
  <2>3. ASSUME NEW f \in S PROVE f \in Pend'
    <3>1. <<"delete", f>> \in T
      OBVIOUS
    <3>2. PICK i \in 1 .. Len(es) : es[i] = <<"delete", f>>
      BY <1>1, <3>1 DEF Lists
    <3>3. Len(fipEv) + i \in 1 .. Len(fipEv') /\ fipEv'[Len(fipEv) + i] = <<"delete", f>>
      BY <2>1, <3>2
    <3>4. fipEv'[Len(fipEv) + i][1] = "delete" /\ fipEv'[Len(fipEv) + i][2] = f
      BY <3>3
    <3> QED BY <3>3, <3>4 DEF Pend
  <2>4. Pend \subseteq Pend'
    <3>1. 1 .. Len(fipEv) \subseteq 1 .. Len(fipEv')
      BY <2>1
    <3> QED BY <2>1, <3>1 DEF Pend
  <2>5. Pend' \subseteq Pend \cup S
    <3>1. ASSUME NEW k \in 1 .. Len(fipEv'), fipEv'[k][1] = "delete" PROVE fipEv'[k][2] \in Pend \cup S
      <4>1. CASE k \in 1 .. Len(fipEv)
        BY <2>1, <3>1, <4>1 DEF Pend
      <4>2. CASE k \notin 1 .. Len(fipEv)
        BY <2>2, <4>2
      <4> QED BY <4>1, <4>2
    <3> QED BY <3>1 DEF Pend
  <2>6. Once'
    <3> SUFFICES ASSUME NEW k \in 1 .. Len(fipEv'), NEW m \in 1 .. Len(fipEv'),
                        fipEv'[k][1] = "delete", fipEv'[m] = fipEv'[k]
                 PROVE  k = m
      BY DEF Once
    <3>1. CASE k \in 1 .. Len(fipEv) /\ m \in 1 .. Len(fipEv)
      BY <2>1, <3>1 DEF Once
    <3>2. CASE k \notin 1 .. Len(fipEv) /\ m \notin 1 .. Len(fipEv)
      <4>1. es[k - Len(fipEv)] = es[m - Len(fipEv)]
        BY <2>2, <3>2
      <4>2. k - Len(fipEv) = m - Len(fipEv)
        <5> HIDE DEF T
        <5> QED BY <1>1, <2>2, <3>2, <4>1 DEF Lists
      <4> QED BY <2>1, <4>2
    <3>3. CASE k \in 1 .. Len(fipEv) /\ m \notin 1 .. Len(fipEv)
      BY <2>1, <2>2, <3>3 DEF Pend
    <3>4. CASE k \notin 1 .. Len(fipEv) /\ m \in 1 .. Len(fipEv)
      BY <2>1, <2>2, <3>4 DEF Pend
    <3> QED BY <3>1, <3>2, <3>3, <3>4
  <2> HIDE DEF T
  <2> QED BY <1>2, <2>3, <2>4, <2>5, <2>6 DEF Pool
<1> QED BY <1>3, <1>4 DEF Types

-----------------------------------------------------------------------------
(* Steps that leave claims and their ranges alone. *)

Frame ==
  /\ UNCHANGED <<providers, providerEv, boot, deaf, allocators, claimEv, watching>>
  /\ \A s \in {"restart", "orphan"} : s \in disturbed' <=> s \in disturbed
  /\ \A c \in Claims :
       /\ suballocators'[c].has = suballocators[c].has /\ suballocators'[c].nil = suballocators[c].nil
       /\ suballocators'[c] = NoAlloc <=> suballocators[c] = NoAlloc
       /\ claims'[c].ips = claims[c].ips /\ (claims'[c] = NoClaim <=> claims[c] = NoClaim)

LEMMA ProvidedSame ==
  ASSUME Provided, UNCHANGED <<providers, providerEv, boot, allocators>>,
         "orphan" \in disturbed' => "orphan" \in disturbed,
         \A c \in Claims : /\ suballocators'[c].has = suballocators[c].has
                           /\ suballocators'[c] # NoAlloc => suballocators[c] # NoAlloc
  PROVE  Provided'
<1>1. /\ providers' = providers /\ providerEv' = providerEv /\ boot' = boot /\ allocators' = allocators
      /\ "orphan" \notin disturbed'
  BY DEF Provided
<1>2. \A p \in Providers : \A i \in allocators[p].used :
        \E c \in Claims : ProviderOf[c] = p /\ i \in suballocators'[c].has
  BY <1>1 DEF Provided
<1>3. \A c \in Claims : suballocators'[c] # NoAlloc => allocators[ProviderOf[c]] # NoAlloc
  BY DEF Provided
<1>4. \A p \in Providers : allocators[p] # NoAlloc => p \in providers
  BY DEF Provided
<1> QED BY <1>1, <1>2, <1>3, <1>4, SMTT(30) DEF Provided

LEMMA ProvidedFrame == ASSUME Provided, Frame PROVE Provided'
<1>1. /\ UNCHANGED <<providers, providerEv, boot, allocators>>
      /\ "orphan" \in disturbed' => "orphan" \in disturbed
      /\ \A c \in Claims : /\ suballocators'[c].has = suballocators[c].has
                           /\ suballocators'[c] # NoAlloc => suballocators[c] # NoAlloc
  BY DEF Frame
<1> QED BY <1>1, ProvidedSame

LEMMA ClaimEvents ==
  ASSUME Types
  PROVE  /\ Len(claimEv) \in Nat
         /\ \A k \in 1 .. Len(claimEv) : claimEv[k] \in ClaimEvent /\ claimEv[k][2] \in Claims
  BY DEF Types, ClaimEvent

LEMMA ToldFrame ==
  ASSUME Types, Told, Frame, boot => fips' \subseteq fips, deaf => fipEv' = fipEv PROVE Told'
<1>1. \A k \in 1 .. Len(claimEv) : claimEv[k][2] \in Claims
  BY ClaimEvents
<1>2. /\ \A k \in 1 .. Len(claimEv) :
           LET c == claimEv[k][2]
           IN /\ claimEv[k][1] \in {"first", "add"} /\ claimEv[k][4].ips = claims'[c].ips
              /\ claims'[c] # NoClaim /\ suballocators'[c] = NoAlloc
              /\ \A m \in 1 .. Len(claimEv) : claimEv[m][2] = c => m = k
      /\ claimEv' = claimEv
  BY <1>1 DEF Told, Frame
<1>3. \A c \in Claims : suballocators'[c] # NoAlloc =>
        /\ claims'[c] # NoClaim /\ suballocators'[c].has = claims'[c].ips
        /\ suballocators'[c].nil = FALSE
  BY DEF Told, Frame
<1>4. \A c \in watching' : suballocators'[c] # NoAlloc
  BY DEF Told, Frame, Types
<1>5. /\ deaf' => fipEv' = <<>>
      /\ boot' => deaf' /\ claimEv' = <<>> /\ \A c \in Claims : suballocators'[c] = NoAlloc
  BY DEF Told, Frame
<1>6. boot' /\ "restart" \notin disturbed' => fips' = {}
  BY DEF Told, Frame
<1> QED BY <1>2, <1>3, <1>4, <1>5, <1>6 DEF Told

LEMMA PlacedFrame ==
  ASSUME Types, Placed, Pool' \subseteq Pool, fips' \cap Pend' = {}, Once',
         \A c \in Claims : suballocators'[c].has = suballocators[c].has,
         \A f \in Pool : claims'[f.claim].ips = claims[f.claim].ips
  PROVE  Placed'
<1>1. \A f \in Pool' : f \in Pool /\ f.claim \in Claims
  BY PoolTypes
<1>2. \A f \in Pool' : /\ f.ip \in claims'[f.claim].ips
                       /\ claims'[f.claim].ips \subseteq RangeOf[ProviderOf[f.claim]]
                       /\ \A c \in Claims : c # f.claim => f.ip \notin suballocators'[c].has
  BY <1>1 DEF Placed
<1>3. \A f, g \in Pool' : f.ip = g.ip => f = g
  BY <1>1 DEF Placed
<1> QED BY <1>2, <1>3 DEF Placed

LEMMA FirstFrame ==
  ASSUME Types, Frame, NEW c \in Claims, First(c) PROVE First(c)'
<1>1. \A d \in Claims : /\ claims'[d].ips = claims[d].ips
                        /\ suballocators[d] = NoAlloc => suballocators'[d] = NoAlloc
  BY DEF Frame
<1>2. claimEv' = claimEv
  BY DEF Frame
<1> QED BY <1>1, <1>2 DEF First

LEMMA ResumedFrame ==
  ASSUME Types, Resumed, Frame,
         \A f \in fips' : f.claim \in Claims /\ (suballocators[f.claim] = NoAlloc => f \in fips),
         \A f \in fips : suballocators[f.claim] = NoAlloc =>
           /\ claims[f.claim].assigned => claims'[f.claim].assigned
           /\ f.claim \notin queue'
           /\ sync' = sync \/ sync'.pc = "idle" \/ sync'.claim # f.claim
  PROVE  Resumed'
<1> SUFFICES ASSUME NEW f \in fips', suballocators'[f.claim] = NoAlloc
             PROVE  /\ claims'[f.claim].assigned /\ f.claim \notin queue'
                    /\ sync'.pc = "idle" \/ sync'.claim # f.claim
                    /\ ProviderOf[f.claim] \in providers'
                    /\ boot' \/ (First(f.claim)' /\ allocators'[ProviderOf[f.claim]] # NoAlloc)
  BY DEF Resumed
<1>1. f \in fips /\ suballocators[f.claim] = NoAlloc /\ f.claim \in Claims
  BY DEF Frame
<1>2. /\ claims[f.claim].assigned /\ ProviderOf[f.claim] \in providers
      /\ boot \/ (First(f.claim) /\ allocators[ProviderOf[f.claim]] # NoAlloc)
      /\ sync.pc = "idle" \/ sync.claim # f.claim
  BY <1>1 DEF Resumed
<1>3. /\ ProviderOf[f.claim] \in providers'
      /\ boot' \/ (First(f.claim)' /\ allocators'[ProviderOf[f.claim]] # NoAlloc)
  BY <1>1, <1>2, FirstFrame DEF Frame
<1> QED BY <1>1, <1>2, <1>3

\* No FloatingIP is created, and a claim without allocator is let alone.
LEMMA UnsharedFrame ==
  ASSUME Types, Unshared, Frame, fips' \subseteq fips, Pool' \subseteq Pool, fips' \cap Pend' = {}, Once',
         deaf => fipEv' = fipEv,
         \A f \in fips : suballocators[f.claim] = NoAlloc =>
           /\ claims[f.claim].assigned => claims'[f.claim].assigned
           /\ f.claim \notin queue'
           /\ sync' = sync \/ sync'.pc = "idle" \/ sync'.claim # f.claim,
         Booked', Working'
  PROVE  Unshared'
<1>1. Provided' /\ Told'
  BY ProvidedFrame, ToldFrame DEF Unshared
<1>2. Placed'
  <2>1. /\ \A f \in Pool : claims'[f.claim].ips = claims[f.claim].ips
        /\ \A c \in Claims : suballocators'[c].has = suballocators[c].has
    BY PoolTypes DEF Frame
  <2> QED BY <2>1, PlacedFrame DEF Unshared
<1>3. Resumed'
  <2>1. \A f \in fips' : f.claim \in Claims /\ f \in fips
    BY DEF Types, Fip
  <2> QED BY <2>1, ResumedFrame DEF Unshared
<1> QED BY <1>1, <1>2, <1>3 DEF Unshared

LEMMA WorkingSame ==
  ASSUME Working, UNCHANGED <<suballocators, sync>>, fips' \subseteq fips, Pool' \subseteq Pool,
         \A f \in Pool \ Pool' : f.ip \in suballocators[f.claim].used
  PROVE  Working'
<1>1. sync.pc = "clean" => \A f \in sync.on : suballocators[sync.claim].used = {} => f \in Pool'
  BY DEF Working
<1> QED BY <1>1 DEF Working, Known, Taken, Held

\* FloatingIPs and their addresses are left alone.
LEMMA UnsharedKept ==
  ASSUME Types, Unshared, Frame, UNCHANGED <<suballocators, fips, fipEv>>,
         \A f \in fips : suballocators[f.claim] = NoAlloc =>
           /\ claims[f.claim].assigned => claims'[f.claim].assigned
           /\ f.claim \notin queue'
           /\ sync' = sync \/ sync'.pc = "idle" \/ sync'.claim # f.claim,
         sync' = sync \/ Working'
  PROVE  Unshared'
<1>1. Pool' = Pool /\ Pend' = Pend /\ (Once => Once')
  BY DEF Pool, Pend, Once
<1>2. Booked'
  BY <1>1 DEF Unshared, Booked, Known, Waiting
<1>3. Working'
  BY <1>1, WorkingSame DEF Unshared
<1>4. fips' \cap Pend' = {} /\ Once'
  BY <1>1 DEF Unshared, Placed
<1> QED BY <1>1, <1>2, <1>3, <1>4, UnsharedFrame

\* FloatingIPs go whose address the allocator of their claim knows.
LEMMA UnsharedDropped ==
  ASSUME Types, Unshared, Frame, UNCHANGED suballocators, NEW S \in SUBSET fips, DropFips(S),
         \A f \in S : Known(f.claim),
         \A f \in fips : suballocators[f.claim] = NoAlloc =>
           /\ claims[f.claim].assigned => claims'[f.claim].assigned
           /\ f.claim \notin queue'
           /\ sync' = sync \/ sync'.pc = "idle" \/ sync'.claim # f.claim,
         sync' = sync \/ (fips' = fips \ S /\ Pool' \subseteq Pool => Working')
  PROVE  Unshared'
<1>1. /\ fips' = fips \ S /\ Pend \subseteq Pend' /\ Pend' \subseteq Pend \cup S /\ Pool' \subseteq Pool
      /\ Once' /\ fips' \cap Pend' = {}
  BY PoolDropped DEF Unshared, Placed
<1>2. deaf => fipEv' = fipEv
  BY DEF DropFips, Events
<1>3. Booked'
  <2> SUFFICES ASSUME NEW c \in Claims, ~ Known(c)' PROVE Waiting(c)'
    BY DEF Booked
  <2>1. ~ Known(c)
    BY <1>1 DEF Known
  <2>2. Waiting(c)
    BY <2>1 DEF Unshared, Booked
  <2>3. \A f \in S : f.claim # c
    BY <2>1
  <2> QED BY <1>1, <2>2, <2>3 DEF Waiting
<1>4. Working'
  <2>1. \A f \in Pool \ Pool' : f \in S
    BY <1>1 DEF Pool
  <2>2. \A f \in Pool \ Pool' : f.ip \in suballocators[f.claim].used
    BY <2>1 DEF Known
  <2> QED BY <1>1, <2>2, WorkingSame DEF Unshared
<1> QED BY <1>1, <1>2, <1>3, <1>4, UnsharedFrame

-----------------------------------------------------------------------------
(* Users: a claim is created. *)

LEMMA UnsharedClaim ==
  ASSUME WellFormed, Types, Unshared, NEW c \in Claims, NEW ips \in Specs[c], CreateClaim(c, ips)
  PROVE  Unshared'
<1> DEFINE r == [ips |-> ips, phase |-> "new", assigned |-> FALSE]
           e == <<"add", c, NoClaim, r>>
<1>1. claims[c] = NoClaim /\ NoClaim.ips = {}
  BY DEF CreateClaim, NoClaim
<1>2. UNCHANGED <<providers, fips, providerEv, fipEv, boot, deaf, allocators, suballocators, watching,
                  queue, sync, disturbed>>
  BY DEF CreateClaim, ctlVars
<1>3. /\ claims'[c] = r /\ \A d \in Claims : d # c => claims'[d] = claims[d]
      /\ claimEv' = Events(boot, claimEv, <<e>>)
  BY DEF CreateClaim, Types
<1>4. r # NoClaim /\ r.ips = ips
  <2>1. r.phase # NoClaim.phase
    BY DEF NoClaim
  <2> QED BY <2>1
<1>5. Queued(boot, claimEv, claimEv', <<e>>)
  <2>1. e \in ClaimEvent
    BY NoneTypes DEF ClaimEvent, ClaimRec, WellFormed
  <2> HIDE DEF e
  <2>2. <<e>> \in Seq(ClaimEvent) /\ claimEv \in Seq(ClaimEvent) /\ boot \in BOOLEAN
    BY <2>1 DEF Types
  <2>3. claimEv' = Events(boot, claimEv, <<e>>)
    BY <1>3
  <2> QED BY <2>2, <2>3, EventsQueued, Zenon
<1>6. e[1] = "add" /\ e[2] = c /\ e[4].ips = ips
  OBVIOUS
<1> HIDE DEF r, e
<1>7. Pool' = Pool /\ Pend' = Pend /\ (Once => Once')
  BY <1>2 DEF Pool, Pend, Once
<1>8. \A f \in Pool : f.claim \in Claims /\ f.claim # c
  BY <1>1, PoolTypes DEF Unshared, Placed
<1>9. Provided'
  BY <1>2, ProvidedSame DEF Unshared
<1>10. Placed'
  BY <1>2, <1>3, <1>7, <1>8, PlacedFrame DEF Unshared, Placed
<1>11. Booked'
  BY <1>2, <1>7 DEF Unshared, Booked, Known, Waiting
<1>12. Working'
  BY <1>2, <1>7 DEF Unshared, Working, Known, Taken, Held
<1>13. /\ \A k \in 1 .. Len(claimEv) : claimEv[k][2] # c /\ claimEv[k][2] \in Claims
       /\ suballocators[c] = NoAlloc /\ Len(claimEv) \in Nat
  BY <1>1, ClaimEvents DEF Unshared, Told
<1>14. /\ boot => claimEv' = claimEv
       /\ ~ boot => /\ Len(claimEv') = Len(claimEv) + 1 /\ claimEv'[Len(claimEv) + 1] = e
                    /\ \A k \in 1 .. Len(claimEv) : claimEv'[k] = claimEv[k]
  <2>1. Len(<<e>>) = 1 /\ <<e>>[1] = e
    OBVIOUS
  <2> QED BY <1>5, <1>13, <2>1 DEF Queued
<1>15. Told'
  <2>1. ASSUME NEW k \in 1 .. Len(claimEv')
        PROVE  LET d == claimEv'[k][2]
               IN /\ claimEv'[k][1] \in {"first", "add"} /\ claimEv'[k][4].ips = claims'[d].ips
                  /\ claims'[d] # NoClaim /\ suballocators'[d] = NoAlloc
                  /\ \A m \in 1 .. Len(claimEv') : claimEv'[m][2] = d => m = k
    <3>1. boot => Len(claimEv) = 0
      BY DEF Unshared, Told
    <3>2. ~ boot
      BY <1>14, <3>1
    <3>3. CASE k \in 1 .. Len(claimEv)
      <4>1. claimEv'[k] = claimEv[k] /\ claimEv[k][2] # c /\ claimEv[k][2] \in Claims
        BY <1>13, <1>14, <3>2, <3>3
      <4>2. ASSUME NEW m \in 1 .. Len(claimEv'), claimEv'[m][2] = claimEv[k][2] PROVE m = k
        <5>1. m # Len(claimEv) + 1
          BY <1>6, <1>14, <3>2, <4>1, <4>2
        <5>2. m \in 1 .. Len(claimEv)
          BY <1>13, <1>14, <3>2, <5>1
        <5> QED BY <1>14, <3>2, <3>3, <4>2, <5>2 DEF Unshared, Told
      <4> QED BY <1>2, <1>3, <3>3, <4>1, <4>2 DEF Unshared, Told
    <3>4. CASE k \notin 1 .. Len(claimEv)
      <4>1. k = Len(claimEv) + 1 /\ claimEv'[k] = e
        BY <1>13, <1>14, <3>2, <3>4
      <4>2. ASSUME NEW m \in 1 .. Len(claimEv'), claimEv'[m][2] = c PROVE m = k
        <5>1. m \notin 1 .. Len(claimEv)
          BY <1>13, <1>14, <3>2, <4>2
        <5> QED BY <1>13, <1>14, <3>2, <4>1, <5>1
      <4> QED BY <1>2, <1>3, <1>4, <1>6, <1>13, <4>1, <4>2
    <3> QED BY <3>3, <3>4
  <2>2. \A d \in Claims : suballocators'[d] # NoAlloc =>
          /\ claims'[d] # NoClaim /\ suballocators'[d].has = claims'[d].ips
          /\ suballocators'[d].nil = FALSE
    BY <1>2, <1>3, <1>13 DEF Unshared, Told
  <2> QED BY <1>2, <1>14, <2>1, <2>2 DEF Unshared, Told
<1>16. Resumed'
  <2> SUFFICES ASSUME NEW f \in fips, suballocators[f.claim] = NoAlloc
               PROVE  /\ claims'[f.claim].assigned /\ f.claim \notin queue
                      /\ sync.pc = "idle" \/ sync.claim # f.claim
                      /\ ProviderOf[f.claim] \in providers
                      /\ boot \/ (First(f.claim)' /\ allocators[ProviderOf[f.claim]] # NoAlloc)
    BY <1>2 DEF Resumed
  <2>1. f.claim \in Claims /\ f.claim # c
    BY <1>8 DEF Pool
  <2>2. /\ claims[f.claim].assigned /\ f.claim \notin queue /\ ProviderOf[f.claim] \in providers
        /\ boot \/ (First(f.claim) /\ allocators[ProviderOf[f.claim]] # NoAlloc)
        /\ sync.pc = "idle" \/ sync.claim # f.claim
    BY DEF Unshared, Resumed
  <2>3. claims'[f.claim] = claims[f.claim]
    BY <1>3, <2>1
  <2>4. ASSUME ~ boot PROVE First(f.claim)'
    <3>1. PICK k \in 1 .. Len(claimEv) :
            /\ claimEv[k][2] = f.claim
            /\ \A d \in Claims : (/\ d # f.claim /\ ProviderOf[d] = ProviderOf[f.claim]
                                  /\ claims[d].ips \cap claims[f.claim].ips # {})
                                 => suballocators[d] = NoAlloc /\ \A m \in 1 .. k : claimEv[m][2] # d
      BY <2>2, <2>4 DEF First
    <3>2. k \in 1 .. Len(claimEv') /\ \A m \in 1 .. k : m \in 1 .. Len(claimEv) /\ claimEv'[m] = claimEv[m]
      BY <1>13, <1>14, <2>4
    <3>3. ASSUME NEW d \in Claims, d # f.claim, ProviderOf[d] = ProviderOf[f.claim],
                 claims'[d].ips \cap claims'[f.claim].ips # {}
          PROVE  suballocators[d] = NoAlloc /\ \A m \in 1 .. k : claimEv[m][2] # d
      <4>1. CASE d = c
        BY <1>13, <3>2, <4>1
      <4>2. CASE d # c
        BY <1>3, <2>3, <3>1, <3>3, <4>2
      <4> QED BY <4>1, <4>2
    <3>4. claimEv'[k][2] = f.claim
      BY <3>1, <3>2
    <3> QED BY <1>2, <3>2, <3>3, <3>4 DEF First
  <2> QED BY <2>2, <2>3, <2>4
<1> QED BY <1>9, <1>10, <1>11, <1>12, <1>15, <1>16 DEF Unshared

-----------------------------------------------------------------------------
(* The worker: what it reads and writes. *)

LEMMA FrameSame ==
  ASSUME UNCHANGED <<providers, providerEv, boot, deaf, allocators, claimEv, watching, suballocators, claims>>,
         \A s \in {"restart", "orphan"} : s \in disturbed' <=> s \in disturbed
  PROVE  Frame
  BY DEF Frame

\* A pod's event reaches claims that have an allocator.
LEMMA UnsharedPod ==
  ASSUME Types, Unshared, NEW p \in Pods, HandlePod(p) PROVE Unshared'
<1>1. /\ UNCHANGED <<providers, providerEv, boot, deaf, allocators, claimEv, watching, suballocators, claims,
                     fips, fipEv, sync, disturbed>>
      /\ queue' = queue \cup watching
  BY DEF HandlePod, apiVars, histVars
<1>2. \A f \in fips : suballocators[f.claim] = NoAlloc => f.claim \notin queue'
  BY <1>1 DEF Unshared, Resumed, Told
<1> QED BY <1>1, <1>2, FrameSame, UnsharedKept

LEMMA UnsharedGet ==
  ASSUME Types, Unshared, NEW c \in Claims, SyncGet(c) PROVE Unshared'
<1>1. /\ UNCHANGED <<providers, providerEv, boot, deaf, allocators, claimEv, watching, suballocators, claims,
                     fips, fipEv, disturbed>>
      /\ c \in queue /\ queue' = queue \ {c}
      /\ \/ sync' = Idle
         \/ sync'.pc = "list" /\ sync'.claim = c /\ sync'.held = {} /\ sync'.read # NoClaim
  BY DEF SyncGet, apiVars, evVars, histVars
<1>2. \A f \in fips : suballocators[f.claim] = NoAlloc =>
        f.claim \notin queue' /\ (sync'.pc = "idle" \/ sync'.claim # f.claim)
  BY <1>1 DEF Unshared, Resumed, Idle
<1>3. Working'
  BY <1>1 DEF Working, Idle
<1> QED BY <1>1, <1>2, <1>3, FrameSame, UnsharedKept

LEMMA UnsharedStatus == ASSUME Types, Unshared, SyncStatus PROVE Unshared'
<1> DEFINE c == sync.claim
<1>1. sync \in Job /\ sync.pc = "status"
  BY SyncJob DEF SyncStatus
<1>2. c \in Claims /\ sync.phase \in {"Ready", "NotReady"} /\ sync.assigned \in BOOLEAN
  BY <1>1 DEF Job
<1>3. /\ UNCHANGED <<providers, providerEv, boot, deaf, allocators, claimEv, watching, suballocators,
                     fips, fipEv, disturbed>>
      /\ sync' = Idle /\ queue' \subseteq queue \cup {c}
  BY DEF SyncStatus, evVars
<1>4. /\ \A d \in Claims : claims'[d].ips = claims[d].ips /\ (d # c => claims'[d] = claims[d])
      /\ claims'[c] = NoClaim <=> claims[c] = NoClaim
  <2>1. CASE claims' = [claims EXCEPT ![c].phase = sync.phase, ![c].assigned = sync.assigned] /\ claims[c] = sync.read
    <3> DEFINE r == [claims[c] EXCEPT !.phase = sync.phase, !.assigned = sync.assigned]
    <3>1. claims[c] \in ClaimRec
      BY <1>2 DEF Types
    <3>2. r.phase # "none" /\ r.ips = claims[c].ips
      BY <1>2, <3>1 DEF ClaimRec
    <3>3. claims' = [claims EXCEPT ![c] = r]
      BY <1>2, <2>1, <3>1 DEF Types, ClaimRec
    <3>4. r # NoClaim
      BY <3>2 DEF NoClaim
    <3>5. claims[c] # NoClaim
      BY <1>1, <2>1 DEF Unshared, Working
    <3> HIDE DEF r
    <3> QED BY <1>2, <3>2, <3>3, <3>4, <3>5 DEF Types
  <2>2. CASE UNCHANGED claims
    BY <2>2
  <2> QED BY <2>1, <2>2 DEF SyncStatus
<1>5. Frame
  BY <1>3, <1>4 DEF Frame
<1>6. ASSUME NEW f \in fips, suballocators[f.claim] = NoAlloc
      PROVE  /\ claims[f.claim].assigned => claims'[f.claim].assigned
             /\ f.claim \notin queue' /\ sync'.pc = "idle"
  <2>1. f.claim # c /\ f.claim \notin queue /\ f.claim \in Claims
    BY <1>1, <1>6 DEF Unshared, Resumed, Types, Fip
  <2> QED BY <1>3, <1>4, <2>1 DEF Idle
<1>7. Working'
  BY <1>3 DEF Working, Idle
<1> QED BY <1>3, <1>5, <1>6, <1>7, UnsharedKept

LEMMA UnsharedList == ASSUME Types, Unshared, SyncList PROVE Unshared'
<1> DEFINE c == sync.claim
<1>1. sync \in Job /\ sync.pc = "list" /\ sync.held = {} /\ sync.read # NoClaim
  BY SyncJob DEF SyncList, Unshared, Working
<1>2. UNCHANGED <<providers, providerEv, boot, deaf, allocators, claimEv, watching, suballocators, claims,
                  queue, disturbed>>
  BY DEF SyncList
<1>3. Frame
  BY <1>2, FrameSame
<1>4. ASSUME NEW f \in fips, suballocators[f.claim] = NoAlloc PROVE f.claim # c /\ f.claim \notin queue'
  BY <1>1, <1>2, <1>4 DEF Unshared, Resumed
<1>5. CASE suballocators[c] = NoAlloc
  <2> DEFINE s == [sync EXCEPT !.pc = "status", !.phase = "NotReady"]
  <2>1. Mine = {} /\ DeleteSome(Mine, s)
    BY <1>4, <1>5 DEF SyncList, Mine
  <2>2. DropFips({}) /\ sync' = s
    BY <2>1 DEF DeleteSome
  <2>3. sync'.pc = "status" /\ sync'.claim = c /\ sync'.read = sync.read
    BY <1>1, <2>2 DEF Job
  <2>4. Working'
    BY <1>1, <2>3 DEF Working
  <2> QED BY <1>2, <1>3, <1>4, <2>2, <2>3, <2>4, UnsharedDropped
<1>6. CASE suballocators[c] # NoAlloc
  <2>1. UNCHANGED <<fips, fipEv>> /\ sync' = [sync EXCEPT !.pc = "clean", !.on = Mine]
    BY <1>6 DEF SyncList
  <2>2. sync'.pc = "clean" /\ sync'.claim = c /\ sync'.on = Mine /\ sync'.held = {}
        /\ sync'.read = sync.read
    BY <1>1, <2>1 DEF Job
  <2>3. Working'
    BY <1>1, <1>2, <1>6, <2>1, <2>2 DEF Working, Mine, Pool
  <2> QED BY <1>2, <1>3, <1>4, <2>1, <2>2, <2>3, UnsharedKept
<1> QED BY <1>5, <1>6

-----------------------------------------------------------------------------
(* The worker: addresses taken and given back. *)

\* The worker has the lock: its claim has an allocator.
LEMMA Locked ==
  ASSUME Types, Unshared, sync.pc \in {"clean", "alloc", "create", "release"}
  PROVE  LET c == sync.claim
             a == suballocators[c]
         IN /\ sync \in Job /\ c \in Claims /\ a \in Alloc /\ a # NoAlloc /\ a.nil = FALSE
            /\ a.has = claims[c].ips /\ ~ boot /\ sync.read # NoClaim
<1>1. sync \in Job
  BY SyncJob
<1>2. sync.claim \in Claims
  BY <1>1 DEF Job
<1>3. suballocators[sync.claim] # NoAlloc /\ sync.read # NoClaim
  BY DEF Unshared, Working
<1> QED BY <1>1, <1>2, <1>3 DEF Unshared, Told, Types

LEMMA FrameSub ==
  ASSUME Types, Told, NEW c \in Claims, suballocators[c] # NoAlloc, NEW a,
         suballocators' = [suballocators EXCEPT ![c] = a],
         a.has = suballocators[c].has, a.nil = suballocators[c].nil,
         UNCHANGED <<providers, providerEv, boot, deaf, allocators, claimEv, watching, claims>>,
         \A s \in {"restart", "orphan"} : s \in disturbed' <=> s \in disturbed
  PROVE  Frame /\ suballocators'[c] = a /\ \A d \in Claims : d # c => suballocators'[d] = suballocators[d]
<1>1. suballocators'[c] = a /\ \A d \in Claims : d # c => suballocators'[d] = suballocators[d]
  BY DEF Types
<1>2. suballocators[c].nil = FALSE /\ NoAlloc.nil = TRUE
  BY DEF Told, NoAlloc
<1>3. a # NoAlloc
  BY <1>2
<1> QED BY <1>1, <1>3 DEF Frame

LEMMA UnsharedClean == ASSUME WellFormed, Types, Unshared, SyncClean PROVE Unshared'
<1>0. PICK c : c = sync.claim
  OBVIOUS
<1> DEFINE a == suballocators[c]
<1>1. /\ sync.pc = "clean" /\ sync.held = {}
      /\ \A f \in fips : f.claim = c => f \in sync.on
      /\ \A f \in sync.on : f.claim = c /\ (a.used = {} => f \in Pool)
  BY <1>0 DEF SyncClean, Unshared, Working
<1>2. /\ sync \in Job /\ c \in Claims /\ a \in Alloc /\ a # NoAlloc
      /\ a.has = claims[c].ips /\ ~ boot /\ sync.read # NoClaim
  BY <1>0, <1>1, Locked
<1>3. \A keep : /\ Cleaning(keep).pc = "alloc" /\ Cleaning(keep).claim = c /\ Cleaning(keep).held = {}
                /\ Cleaning(keep).read = sync.read /\ Cleaning(keep) \in Job
  BY <1>0, <1>1, <1>2, CleaningJob
<1> HIDE DEF a
<1>4. UNCHANGED <<providers, claims, providerEv, claimEv, boot, deaf, allocators, watching, queue, disturbed>>
  BY DEF SyncClean
<1>5. ASSUME NEW f \in fips, suballocators[f.claim] = NoAlloc PROVE f.claim # c /\ f.claim \notin queue'
  BY <1>2, <1>4, <1>5 DEF Unshared, Resumed, a
<1>6. ASSUME NEW keep, \/ sync' = Cleaning(keep)
                       \/ sync' = [Cleaning(keep) EXCEPT !.pc = "status", !.err = TRUE]
      PROVE  /\ sync'.claim = c /\ sync'.held = {} /\ sync'.read # NoClaim
             /\ sync'.pc \in {"alloc", "status"}
  <2>1. PICK s : s = Cleaning(keep)
    OBVIOUS
  <2>2. /\ s.pc = "alloc" /\ s.claim = c /\ s.held = {} /\ s.read = sync.read /\ s \in Job
        /\ sync' = s \/ sync' = [s EXCEPT !.pc = "status", !.err = TRUE]
    BY <1>3, <1>6, <2>1
  <2> QED BY <1>2, <2>2 DEF Job
<1>7. ASSUME Known(c)', suballocators'[c] # NoAlloc, sync'.claim = c, sync'.held = {}, sync'.read # NoClaim,
             sync'.pc \in {"alloc", "status"}
      PROVE  Working'
  <2>1. Taken' = {}
    BY <1>7 DEF Taken, Held
  <2> QED BY <1>7, <2>1 DEF Working
<1>8. CASE a.used = {}
  <2>1. ASSUME NEW f \in Pool, f.claim = c PROVE f \in sync.on
    <3>1. f \notin Pend
      BY <1>2, <1>8, <2>1 DEF Unshared, Booked, Known, Waiting, a, Pool
    <3> QED BY <1>1, <2>1, <3>1 DEF Pool
  <2>2. PICK met \in SUBSET sync.on : \E keep \in Refill(a, met) :
          /\ suballocators' = [suballocators EXCEPT ![c] = With(a, {f.ip : f \in keep})]
          /\ \/ /\ met = sync.on /\ sync' = Cleaning(keep)
                /\ DropFips((met \ keep) \cap fips)
             \/ \E f \in met \ keep : sync' = [Cleaning(keep) EXCEPT !.pc = "status", !.err = TRUE]
    BY <1>0, <1>8, CleanCases, Zenon DEF a
  <2>20. PICK keep \in Refill(a, met) :
          /\ suballocators' = [suballocators EXCEPT ![c] = With(a, {f.ip : f \in keep})]
          /\ \/ /\ met = sync.on /\ sync' = Cleaning(keep)
                /\ DropFips((met \ keep) \cap fips)
             \/ \E f \in met \ keep : sync' = [Cleaning(keep) EXCEPT !.pc = "status", !.err = TRUE]
    BY <2>2
  <2>3. keep = met
    <3>1. \A f \in sync.on : f.ip \in a.has /\ \A g \in sync.on : f.ip = g.ip => f = g
      BY <1>1, <1>2, <1>8 DEF Unshared, Placed
    <3>2. keep \in SUBSET met
      BY <2>20 DEF Refill
    <3>3. ASSUME NEW f \in met \ keep PROVE FALSE
      <4>1. ~ (\A h \in keep \cup {f} : h.ip \in a.has /\ \A g \in keep \cup {f} : h.ip = g.ip => h = g)
        BY <2>20, <3>3 DEF Refill
      <4> QED BY <3>1, <3>2, <3>3, <4>1
    <3> QED BY <3>2, <3>3
  <2>4. keep = sync.on /\ sync' = Cleaning(keep) /\ DropFips({})
    <3>1. met \ keep = {}
      BY <2>3
    <3>2. met = sync.on /\ sync' = Cleaning(keep) /\ DropFips((met \ keep) \cap fips)
      BY <2>20, <3>1
    <3>3. (met \ keep) \cap fips = {}
      BY <3>1
    <3> QED BY <2>3, <3>2, <3>3
  <2> DEFINE b == With(a, {f.ip : f \in sync.on})
  <2>5. suballocators' = [suballocators EXCEPT ![c] = b]
    BY <2>20, <2>4
  <2>6. b.has = a.has /\ b.nil = a.nil /\ b.used = {f.ip : f \in sync.on}
    BY <1>2, <1>8 DEF With, Alloc
  <2> HIDE DEF b
  <2>7. Frame /\ suballocators'[c] = b /\ \A d \in Claims : d # c => suballocators'[d] = suballocators[d]
    BY <1>2, <1>4, <2>5, <2>6, FrameSub DEF Unshared, a
  <2>8. fips' = fips /\ Pend' = Pend /\ Pool' = Pool /\ Once' /\ fips' \cap Pend' = {}
    <3>1. /\ fips' = fips \ {} /\ Pend \subseteq Pend' /\ Pend' \subseteq Pend \cup {}
          /\ Once' /\ fips' \cap Pend' = {}
      BY <2>4, PoolDropped DEF Unshared, Placed
    <3> QED BY <3>1 DEF Pool
  <2>9. Known(c)'
    BY <2>1, <2>6, <2>7, <2>8 DEF Known
  <2>10. Booked'
    BY <2>7, <2>8, <2>9 DEF Unshared, Booked, Known, Waiting
  <2>11. suballocators'[c] # NoAlloc
    BY <1>2, <2>7 DEF Frame, a
  <2>12. /\ sync'.claim = c /\ sync'.held = {} /\ sync'.read # NoClaim
         /\ sync'.pc \in {"alloc", "status"}
    BY <1>6, <2>4
  <2>13. Working'
    BY <1>7, <2>9, <2>11, <2>12
  <2>14. fipEv' = fipEv \/ ~ deaf
    BY <2>4 DEF DropFips, Events
  <2> QED BY <1>2, <1>4, <1>5, <2>7, <2>8, <2>10, <2>12, <2>13, <2>14, UnsharedFrame
<1>9. CASE a.used # {}
  <2>0. PICK keep : keep = Current(sync.on)
    OBVIOUS
  <2>1. /\ UNCHANGED suballocators /\ DeleteSome(sync.on \ keep, Cleaning(keep))
    BY <1>0, <1>9, <2>0, CleanCases, Zenon DEF a
  <2>2. PICK done \in SUBSET (sync.on \ keep) :
          /\ DropFips(done \cap fips)
          /\ \/ sync' = Cleaning(keep)
             \/ sync' = [Cleaning(keep) EXCEPT !.pc = "status", !.err = TRUE]
    BY <2>1 DEF DeleteSome
  <2>3. Known(c)
    BY <1>2, <1>9 DEF Unshared, Booked, Waiting, a
  <2>4. Frame
    BY <1>4, <2>1, FrameSame
  <2>5. done \cap fips \in SUBSET fips /\ \A f \in done \cap fips : f.claim = c
    BY <1>1, <2>2
  <2>6. /\ sync'.claim = c /\ sync'.held = {} /\ sync'.read # NoClaim
        /\ sync'.pc \in {"alloc", "status"}
    BY <1>6, <2>2
  <2>7. ASSUME Pool' \subseteq Pool PROVE Working'
    <3>1. Known(c)'
      BY <2>1, <2>3, <2>7 DEF Known
    <3> QED BY <1>2, <1>7, <2>1, <2>6, <3>1 DEF a
  <2> QED BY <1>2, <1>4, <1>5, <2>1, <2>2, <2>3, <2>4, <2>5, <2>6, <2>7, UnsharedDropped
<1> QED BY <1>8, <1>9

LEMMA HeldGrows ==
  ASSUME NEW ips, NEW nodes, sync'.held = sync.held \cup {<<ips, nodes>>} PROVE Held' = Held \cup ips
<1>1. \A x : x \in Held <=> \E h \in sync.held : x \in h[1]
  BY DEF Held
<1>2. \A x : x \in Held' <=> \E h \in sync'.held : x \in h[1]
  BY DEF Held
<1>3. PICK t : t = <<ips, nodes>>
  OBVIOUS
<1>4. t[1] = ips /\ sync'.held = sync.held \cup {t}
  BY <1>3
<1>5. \A x : x \in Held' <=> x \in Held \cup ips
  BY <1>1, <1>2, <1>4
<1> QED BY <1>5

\* What the worker has taken of the allocator is nobody's address.
LEMMA Takes ==
  ASSUME Types, Unshared, sync.pc \in {"alloc", "create", "release"}
  PROVE  /\ Known(sync.claim) /\ \A f \in Pool : f.ip \notin Taken
         /\ Taken \subseteq suballocators[sync.claim].used /\ Taken \subseteq suballocators[sync.claim].has
  BY DEF Unshared, Working

LEMMA UnsharedAllocate == ASSUME WellFormed, Types, Unshared, SyncAllocate PROVE Unshared'
<1>0. PICK c : c = sync.claim
  OBVIOUS
<1>1. PICK a : a = suballocators[c]
  OBVIOUS
<1>2. sync.pc = "alloc"
  BY DEF SyncAllocate
<1>3. sync \in Job /\ c \in Claims /\ a \in Alloc /\ a # NoAlloc /\ ~ boot /\ sync.read # NoClaim
  BY <1>0, <1>1, <1>2, Locked
<1>4. /\ Known(c) /\ Taken = Held /\ Taken \subseteq a.used \cap a.has
      /\ \A f \in Pool : f.ip \notin Taken
  BY <1>0, <1>1, <1>2, Takes DEF Taken
<1>5. /\ UNCHANGED <<providers, providerEv, boot, deaf, allocators, claimEv, watching, claims, queue, disturbed>>
      /\ UNCHANGED <<fips, fipEv>>
  BY DEF SyncAllocate, apiVars, evVars, histVars
<1>6. ASSUME NEW f \in fips, suballocators[f.claim] = NoAlloc PROVE f.claim # c /\ f.claim \notin queue'
  BY <1>1, <1>3, <1>5, <1>6 DEF Unshared, Resumed
<1>7. CASE sync.todo = {} \/ Free(a) = {}
  <2>1. sync' = [sync EXCEPT !.pc = "release"] /\ UNCHANGED suballocators
    BY <1>0, <1>1, <1>7 DEF SyncAllocate
  <2>2. sync'.pc = "release" /\ sync'.claim = c /\ sync'.held = sync.held /\ sync'.read = sync.read
    BY <1>0, <1>3, <2>1 DEF Job
  <2>3. Taken' = Taken /\ Pool' = Pool
    BY <1>4, <1>5, <2>2 DEF Taken, Held, Pool, Pend
  <2>4. Working'
    BY <1>1, <1>3, <1>4, <2>1, <2>2, <2>3 DEF Working, Known
  <2> QED BY <1>5, <1>6, <2>1, <2>2, <2>4, FrameSame, UnsharedKept
<1>8. CASE ~ (sync.todo = {} \/ Free(a) = {})
  <2>1. PICK i : i = Lowest(Free(a))
    OBVIOUS
  <2>2. PICK p \in sync.todo, node \in NodeChoices :
          /\ suballocators' = [suballocators EXCEPT ![c] = With(a, {i})]
          /\ sync' = IF node # {} /\ p \in sync.seen
                     THEN [sync EXCEPT !.pc = "create", !.pod = {p}, !.ip = {i}, !.node = node]
                     ELSE [sync EXCEPT !.pc = IF node = {} THEN "release" ELSE "alloc",
                                       !.todo = @ \ {p}, !.held = @ \cup {<<{i}, node>>}]
    BY <1>0, <1>1, <1>8, <2>1 DEF SyncAllocate, NextAddress
  <2>3. i \in a.has /\ i \notin a.used /\ i \in Nat
    <3>1. Free(a) \in SUBSET Nat
      BY <1>3 DEF Free, Alloc
    <3>2. i \in Free(a)
      BY <1>8, <2>1, <3>1, LowestIn
    <3> QED BY <3>1, <3>2 DEF Free
  <2>4. \A f \in Pool : f.ip # i
    BY <1>1, <1>3, <1>4, <2>3 DEF Known, Unshared, Placed
  <2>5. PICK b : b = With(a, {i})
    OBVIOUS
  <2>6. b.has = a.has /\ b.nil = a.nil /\ b.used = a.used \cup {i}
    BY <1>3, <2>3, <2>5 DEF With, Alloc
  <2>7. Frame /\ suballocators'[c] = b /\ \A d \in Claims : d # c => suballocators'[d] = suballocators[d]
    BY <1>1, <1>3, <1>5, <2>2, <2>5, <2>6, FrameSub DEF Unshared
  <2>8. Pool' = Pool /\ Pend' = Pend /\ fips' \cap Pend' = {} /\ Once'
    BY <1>5 DEF Pool, Pend, Once, Unshared, Placed
  <2>9. Known(c)' /\ suballocators'[c] # NoAlloc
    BY <1>1, <1>3, <1>4, <2>6, <2>7, <2>8 DEF Known, Frame
  <2>10. Booked'
    BY <2>7, <2>8, <2>9 DEF Unshared, Booked, Known, Waiting
  <2>11. /\ sync'.claim = c /\ sync'.read = sync.read /\ sync'.pc \in {"alloc", "create", "release"}
         /\ sync'.pc = "create" => sync'.ip = {i} /\ Held' = Held
         /\ sync'.pc # "create" => Held' = Taken \cup {i}
    <3>1. CASE node # {} /\ p \in sync.seen
      BY <1>0, <1>3, <2>2, <3>1 DEF Job, Held
    <3>2. CASE ~ (node # {} /\ p \in sync.seen)
      <4>1. /\ sync'.claim = c /\ sync'.read = sync.read /\ sync'.pc \in {"alloc", "release"}
            /\ sync'.held = sync.held \cup {<<{i}, node>>}
        BY <1>0, <1>3, <2>2, <3>2 DEF Job
      <4> QED BY <1>4, <4>1, HeldGrows
    <3> QED BY <3>1, <3>2
  <2>12. Taken' = Taken \cup {i}
    <3>1. Taken = Held
      BY <1>4
    <3> QED BY <2>11, <3>1 DEF Taken
  <2>13. Working'
    <3>1. Taken' \subseteq suballocators'[c].used \cap suballocators'[c].has
      BY <1>4, <2>3, <2>6, <2>7, <2>12
    <3>2. \A f \in Pool' : f.ip \notin Taken'
      BY <1>4, <2>4, <2>8, <2>12
    <3>3. sync'.pc = "create" => sync'.ip \cap Held' = {}
      BY <1>4, <2>3, <2>11
    <3> QED BY <1>3, <2>9, <2>11, <3>1, <3>2, <3>3 DEF Working
  <2> QED BY <1>3, <1>5, <1>6, <2>7, <2>8, <2>10, <2>11, <2>13, UnsharedFrame
<1> QED BY <1>7, <1>8

LEMMA UnsharedRelease == ASSUME WellFormed, Types, Unshared, SyncRelease PROVE Unshared'
<1>0. PICK c : c = sync.claim
  OBVIOUS
<1>1. PICK a : a = suballocators[c]
  OBVIOUS
<1>2. sync.pc = "release"
  BY DEF SyncRelease
<1>3. sync \in Job /\ c \in Claims /\ a \in Alloc /\ a # NoAlloc /\ ~ boot /\ sync.read # NoClaim
  BY <1>0, <1>1, <1>2, Locked
<1>4. /\ Known(c) /\ Taken = Held
      /\ \A f \in Pool : f.ip \notin Taken
  BY <1>0, <1>1, <1>2, Takes DEF Taken
<1>5. UNCHANGED <<providers, providerEv, boot, deaf, allocators, claimEv, watching, claims, queue, disturbed,
                  fips, fipEv>>
  BY DEF SyncRelease, apiVars, evVars, histVars
<1>6. PICK b : b = Without(a, Taken)
  OBVIOUS
<1>7. suballocators' = [suballocators EXCEPT ![c] = b]
  BY <1>0, <1>1, <1>4, <1>6 DEF SyncRelease, Held
<1>8. b.has = a.has /\ b.nil = a.nil /\ b.used = a.used \ Taken
  BY <1>3, <1>6 DEF Without, Alloc
<1>9. Frame /\ suballocators'[c] = b /\ \A d \in Claims : d # c => suballocators'[d] = suballocators[d]
  BY <1>1, <1>3, <1>5, <1>7, <1>8, FrameSub DEF Unshared
<1>10. Pool' = Pool /\ Pend' = Pend /\ fips' \cap Pend' = {} /\ Once'
  BY <1>5 DEF Pool, Pend, Once, Unshared, Placed
<1>11. Known(c)'
  BY <1>1, <1>4, <1>8, <1>9, <1>10 DEF Known
<1>12. Booked'
  BY <1>9, <1>10, <1>11 DEF Unshared, Booked, Known, Waiting
<1>13. sync'.pc = "status" /\ sync'.claim = c /\ sync'.read = sync.read
  BY <1>0, <1>3 DEF SyncRelease, Job
<1>14. Working'
  BY <1>3, <1>13 DEF Working
<1>15. ASSUME NEW f \in fips, suballocators[f.claim] = NoAlloc PROVE f.claim # c /\ f.claim \notin queue'
  BY <1>1, <1>3, <1>5, <1>15 DEF Unshared, Resumed
<1> QED BY <1>3, <1>5, <1>9, <1>10, <1>12, <1>13, <1>14, <1>15, UnsharedFrame

\* Ranges of two claims: nobody deletes a claim or a provider.
LEMMA NobodyElses ==
  ASSUME WellFormed, Inv, Provided, Told, NEW c \in Claims, NEW d \in Claims, c # d
  PROVE  suballocators[c].has \cap suballocators[d].has = {}
<1>1. ClaimRangesDisjoint /\ "orphan" \notin disturbed
  BY RangesDisjoint DEF Provided
<1>2. \A e \in Claims : ~ Deleting(e)
  <2>1. DOMAIN claimEv = 1 .. Len(claimEv)
    BY DEF Inv, Types
  <2> QED BY <2>1 DEF Deleting, Told
<1>3. ASSUME suballocators[c] # NoAlloc, suballocators[d] # NoAlloc, ProviderOf[c] # ProviderOf[d]
      PROVE  RangeOf[ProviderOf[c]] \cap RangeOf[ProviderOf[d]] = {}
  <2>1. /\ ProviderOf[c] \in Providers /\ ProviderOf[d] \in Providers
        /\ allocators[ProviderOf[c]] # NoAlloc /\ allocators[ProviderOf[d]] # NoAlloc
    BY <1>3 DEF Provided, WellFormed
  <2> QED BY <1>3, <2>1 DEF Provided
<1>4. NoAlloc.has = {}
  BY DEF NoAlloc
<1> QED BY <1>1, <1>2, <1>3, <1>4 DEF ClaimRangesDisjoint

LEMMA AddTold ==
  ASSUME fipEv \in Seq(FipEvent), NEW e, e[1] = "add", Queued(deaf, fipEv, fipEv', <<e>>)
  PROVE  Pend' = Pend /\ (Once => Once')
<1>0. CASE deaf
  <2>1. fipEv' = fipEv
    BY <1>0 DEF Queued
  <2> QED BY <2>1 DEF Pend, Once
<1> SUFFICES ASSUME ~ deaf PROVE Pend' = Pend /\ (Once => Once')
  BY <1>0
<1>1. Len(<<e>>) = 1 /\ <<e>>[1] = e /\ Len(fipEv) \in Nat
  OBVIOUS
<1>2. /\ Len(fipEv') = Len(fipEv) + 1 /\ fipEv'[Len(fipEv) + 1] = e
      /\ \A k \in 1 .. Len(fipEv) : fipEv'[k] = fipEv[k]
  BY <1>1 DEF Queued
<1>3. \A k \in 1 .. Len(fipEv') : fipEv'[k][1] = "delete" => k \in 1 .. Len(fipEv)
  BY <1>1, <1>2
<1>4. 1 .. Len(fipEv) \subseteq 1 .. Len(fipEv')
  BY <1>1, <1>2
<1>5. Pend' = Pend
  BY <1>2, <1>3, <1>4 DEF Pend
<1>6. ASSUME Once, NEW k \in 1 .. Len(fipEv'), NEW m \in 1 .. Len(fipEv'),
             fipEv'[k][1] = "delete", fipEv'[m] = fipEv'[k]
      PROVE  k = m
  <2>1. k \in 1 .. Len(fipEv) /\ m \in 1 .. Len(fipEv)
    BY <1>3, <1>6
  <2> QED BY <1>2, <1>6, <2>1 DEF Once
<1> QED BY <1>5, <1>6 DEF Once

\* A new FloatingIP has an address that was taken for it.
LEMMA UnsharedCreated ==
  ASSUME WellFormed, Inv, Unshared, sync.pc = "create",
         NEW f \in Fip, f.claim = sync.claim, f.ip \in sync.ip,
         fips' = fips \cup {f}, fipEv' = Events(deaf, fipEv, << <<"add", f>> >>),
         sync'.pc = "alloc", sync'.claim = sync.claim, sync'.held = sync.held, sync'.read = sync.read,
         UNCHANGED <<providers, claims, providerEv, claimEv, boot, deaf, allocators, suballocators, watching,
                     queue, disturbed>>
  PROVE  Unshared'
<1> USE DEF Inv
<1>0. PICK c : c = sync.claim
  OBVIOUS
<1>1. PICK a : a = suballocators[c]
  OBVIOUS
<1>2. /\ c \in Claims /\ a \in Alloc /\ a # NoAlloc /\ a.has = claims[c].ips /\ ~ boot
      /\ sync.read # NoClaim
  BY <1>0, <1>1, Locked
<1>3. /\ Known(c) /\ Taken = Held \cup sync.ip /\ Taken \subseteq a.used /\ Taken \subseteq a.has
      /\ \A g \in Pool : g.ip \notin Taken
      /\ sync.ip \cap Held = {}
  <2>1. /\ Known(c) /\ Taken \subseteq a.used /\ Taken \subseteq a.has
        /\ \A g \in Pool : g.ip \notin Taken
    BY <1>0, <1>1, Takes
  <2> QED BY <2>1 DEF Taken, Unshared, Working
<1>4. f.ip \in a.used /\ f.ip \in a.has /\ \A g \in Pool : g.ip # f.ip
  BY <1>3
<1>5. Pend' = Pend /\ Pool' = Pool \cup {f} /\ Once' /\ fips' \cap Pend' = {}
  <2>1. Queued(deaf, fipEv, fipEv', << <<"add", f>> >>) /\ fipEv' \in Seq(FipEvent)
    BY Created
  <2> DEFINE e == <<"add", f>>
  <2>2. e[1] = "add" /\ Len(<<e>>) = 1 /\ <<e>>[1] = e
    OBVIOUS
  <2>3. Queued(deaf, fipEv, fipEv', <<e>>)
    BY <2>1
  <2> HIDE DEF e
  <2>4. Pend' = Pend /\ (Once => Once')
    BY <1>2, <2>2, <2>3, AddTold DEF Types
  <2>9. f \notin Pend /\ fips \cap Pend = {}
    BY <1>4 DEF Pool, Unshared, Placed
  <2> QED BY <2>4, <2>9 DEF Pool, Unshared, Placed
<1>6. Frame
  BY FrameSame
<1>7. Provided' /\ Told'
  <2>1. deaf => fipEv' = fipEv
    BY DEF Events
  <2> QED BY <1>2, <1>6, <2>1, ProvidedFrame, ToldFrame DEF Unshared
<1>8. Placed'
  <2>1. /\ f.ip \in claims[c].ips /\ claims[c].ips \subseteq RangeOf[ProviderOf[c]]
        /\ \A d \in Claims : d # c => f.ip \notin suballocators[d].has
    <3>1. a.has \subseteq RangeOf[ProviderOf[c]]
      BY <1>1, <1>2, NowFields DEF Ranges, Sound
    <3>2. \A d \in Claims : d # c => f.ip \notin suballocators[d].has
      BY <1>1, <1>2, <1>4, NobodyElses DEF Unshared
    <3> QED BY <1>2, <1>4, <3>1, <3>2
  <2>2. ASSUME NEW g \in Pool'
        PROVE  /\ g.ip \in claims[g.claim].ips
               /\ claims[g.claim].ips \subseteq RangeOf[ProviderOf[g.claim]]
               /\ \A d \in Claims : d # g.claim => g.ip \notin suballocators[d].has
    <3>1. CASE g = f
      BY <1>0, <2>1, <3>1
    <3>2. CASE g \in Pool
      BY <3>2 DEF Unshared, Placed
    <3> QED BY <1>5, <3>1, <3>2
  <2>3. \A g, h \in Pool' : g.ip = h.ip => g = h
    BY <1>4, <1>5 DEF Unshared, Placed
  <2> QED BY <1>5, <2>2, <2>3 DEF Placed
<1>9. Known(c)'
  BY <1>0, <1>1, <1>3, <1>4, <1>5 DEF Known
<1>10. Booked'
  <2>1. ASSUME NEW d \in Claims, d # c PROVE Known(d)' \/ Waiting(d)'
    BY <1>0, <1>5, <2>1 DEF Unshared, Booked, Known, Waiting
  <2> QED BY <1>9, <2>1 DEF Booked
<1>11. Resumed'
  <2>1. ASSUME NEW g \in fips, suballocators[g.claim] = NoAlloc PROVE g.claim \notin queue' /\ g.claim # c
    BY <1>1, <1>2, <2>1 DEF Unshared, Resumed
  <2>2. \A g \in fips' : g.claim \in Claims /\ (suballocators[g.claim] = NoAlloc => g \in fips)
    BY <1>0, <1>1, <1>2 DEF Types, Fip
  <2> QED BY <1>0, <1>6, <2>1, <2>2, ResumedFrame DEF Unshared
<1>12. Working'
  <2>1. Taken' = Held
    BY DEF Taken, Held
  <2>2. \A g \in Pool' : g.ip \notin Held
    BY <1>3, <1>5
  <2> QED BY <1>0, <1>1, <1>2, <1>3, <1>9, <2>1, <2>2 DEF Working
<1> QED BY <1>7, <1>8, <1>10, <1>11, <1>12 DEF Unshared

LEMMA UnsharedCreate == ASSUME WellFormed, Inv, Unshared, SyncCreate PROVE Unshared'
<1> DEFINE done == [sync EXCEPT !.pc = "alloc", !.todo = @ \ sync.pod, !.pod = {}, !.ip = {}, !.node = {}]
<1>0. PICK c : c = sync.claim
  OBVIOUS
<1>1. sync.pc = "create"
  BY DEF SyncCreate
<1>2. /\ sync \in Job /\ c \in Claims /\ suballocators[c] # NoAlloc /\ ~ boot /\ sync.read # NoClaim
  BY <1>0, <1>1, Locked DEF Inv
<1>3. UNCHANGED <<providers, claims, providerEv, claimEv, boot, deaf, allocators, suballocators, watching,
                  disturbed>>
  BY DEF SyncCreate
<1>4. done \in Job /\ done.pc = "alloc" /\ done.claim = c /\ done.held = sync.held /\ done.read = sync.read
  BY <1>0, <1>2 DEF Job
<1>5. CASE \E p \in sync.pod, ip \in sync.ip, n \in sync.node :
             LET f == [id |-> Lowest(FreshIds), claim |-> sync.claim, pod |-> p, ip |-> ip, node |-> n]
             IN /\ FreshIds # {}
                /\ fips' = fips \cup {f}
                /\ fipEv' = Events(deaf, fipEv, << <<"add", f>> >>)
                /\ sync' = [done EXCEPT !.assigned = TRUE]
                /\ UNCHANGED <<queue, budget>>
  <2>1. PICK p \in sync.pod, ip \in sync.ip, n \in sync.node :
          LET f == [id |-> Lowest(FreshIds), claim |-> sync.claim, pod |-> p, ip |-> ip, node |-> n]
          IN /\ FreshIds # {}
             /\ fips' = fips \cup {f}
             /\ fipEv' = Events(deaf, fipEv, << <<"add", f>> >>)
             /\ sync' = [done EXCEPT !.assigned = TRUE]
             /\ UNCHANGED <<queue, budget>>
    BY <1>5
  <2>2. PICK f : f = [id |-> Lowest(FreshIds), claim |-> sync.claim, pod |-> p, ip |-> ip, node |-> n]
    OBVIOUS
  <2>3. Lowest(FreshIds) \in Ids
    <3>1. FreshIds \in SUBSET Nat /\ FreshIds \subseteq Ids
      BY DEF FreshIds, Ids, WellFormed
    <3> QED BY <2>1, <3>1, LowestIn
  <2>4. f \in Fip /\ f.claim = sync.claim /\ f.ip \in sync.ip
    BY <1>2, <2>2, <2>3 DEF Fip, Job
  <2>5. fips' = fips \cup {f} /\ fipEv' = Events(deaf, fipEv, << <<"add", f>> >>) /\ UNCHANGED queue
    BY <2>1, <2>2
  <2>6. sync'.pc = "alloc" /\ sync'.claim = sync.claim /\ sync'.held = sync.held /\ sync'.read = sync.read
    <3> HIDE DEF done
    <3> QED BY <1>0, <1>4, <2>1 DEF Job
  <2> QED BY <1>1, <1>3, <2>4, <2>5, <2>6, UnsharedCreated
<1>6. CASE /\ sync' = [done EXCEPT !.held = @ \cup {<<sync.ip, sync.node>>}]
           /\ queue' = queue \cup {sync.claim}
           /\ UNCHANGED <<fips, fipEv>>
  <2>1. /\ sync'.pc = "alloc" /\ sync'.claim = c /\ sync'.read = sync.read
        /\ sync'.held = sync.held \cup {<<sync.ip, sync.node>>}
    <3> HIDE DEF done
    <3> QED BY <1>0, <1>4, <1>6 DEF Job
  <2>2. Taken' = Taken /\ Pool' = Pool
    <3>1. Held' = Held \cup sync.ip
      BY <2>1, HeldGrows
    <3> QED BY <1>1, <1>6, <2>1, <3>1 DEF Taken, Pool, Pend
  <2>3. Working'
    <3>1. /\ Known(c) /\ \A g \in Pool : g.ip \notin Taken
          /\ Taken \subseteq suballocators[c].used /\ Taken \subseteq suballocators[c].has
      BY <1>0, <1>1, Takes DEF Inv
    <3> QED BY <1>2, <1>3, <2>1, <2>2, <3>1 DEF Working, Known
  <2>4. \A g \in fips : suballocators[g.claim] = NoAlloc => g.claim \notin queue' /\ g.claim # c
    BY <1>0, <1>2, <1>6 DEF Unshared, Resumed
  <2> QED BY <1>3, <1>6, <2>1, <2>3, <2>4, FrameSame, UnsharedKept DEF Inv
<1> QED BY <1>5, <1>6 DEF SyncCreate

-----------------------------------------------------------------------------
(* FloatingIP and node handlers. *)

LEMMA NoneUsed == NoAlloc.used = {} /\ NoAlloc.has = {}
  BY DEF NoAlloc

\* A deletion that is handled was the only one of its FloatingIP.
LEMMA TailTold ==
  ASSUME Types, Once, fipEv # <<>>, fipEv' = Tail(fipEv)
  PROVE  /\ Once' /\ Pend' \subseteq Pend
         /\ Head(fipEv)[1] = "delete" => Head(fipEv)[2] \notin Pend' /\ Head(fipEv)[2] \in Pend
<1>1. /\ Len(fipEv) \in Nat \ {0} /\ Len(fipEv') = Len(fipEv) - 1 /\ Head(fipEv) = fipEv[1]
      /\ \A k \in 1 .. Len(fipEv) - 1 : fipEv'[k] = fipEv[k + 1]
  BY TailTaken DEF Types
<1>2. \A k \in 1 .. Len(fipEv') : k + 1 \in 1 .. Len(fipEv) /\ fipEv'[k] = fipEv[k + 1] /\ k + 1 # 1
  BY <1>1
<1>3. \A k \in 1 .. Len(fipEv) : fipEv[k] = <<fipEv[k][1], fipEv[k][2]>>
  BY FipEvents
<1>4. 1 \in 1 .. Len(fipEv)
  BY <1>1
<1>5. Once'
  <2> SUFFICES ASSUME NEW k \in 1 .. Len(fipEv'), NEW m \in 1 .. Len(fipEv'),
                      fipEv'[k][1] = "delete", fipEv'[m] = fipEv'[k]
               PROVE  k = m
    BY DEF Once
  <2>1. k + 1 = m + 1
    BY <1>2 DEF Once
  <2> QED BY <1>1, <2>1
<1>6. Pend' \subseteq Pend
  BY <1>2 DEF Pend
<1>7. ASSUME fipEv[1][1] = "delete", fipEv[1][2] \in Pend' PROVE FALSE
  <2>1. PICK k \in 1 .. Len(fipEv') : fipEv'[k][1] = "delete" /\ fipEv'[k][2] = fipEv[1][2]
    BY <1>7 DEF Pend
  <2>2. fipEv[k + 1] = fipEv[1]
    BY <1>2, <1>3, <1>4, <1>7, <2>1
  <2> QED BY <1>2, <1>4, <1>7, <2>2 DEF Once
<1>8. fipEv[1][1] = "delete" => fipEv[1][2] \in Pend
  BY <1>4 DEF Pend
<1> QED BY <1>1, <1>5, <1>6, <1>7, <1>8

LEMMA UnsharedFip == ASSUME WellFormed, Types, Unshared, HandleFip PROVE Unshared'
<1>0. PICK e : e = Head(fipEv)
  OBVIOUS
<1>1. PICK f : f = e[2]
  OBVIOUS
<1>2. /\ fipEv # <<>> /\ fipEv' = Tail(fipEv) /\ Unlocked
      /\ \/ e[1] = "add" /\ UNCHANGED <<suballocators, queue>>
         \/ e[1] = "delete" /\ ClaimReleases(f)
      /\ UNCHANGED <<providers, claims, fips, providerEv, claimEv, boot, deaf, allocators, watching, sync>>
  BY <1>0, <1>1 DEF HandleFip, apiVars
<1>3. \A s \in {"restart", "orphan"} : s \in disturbed' <=> s \in disturbed
  BY DEF HandleFip, AddFloatingIP, AddPodFloatingIP, DeleteFloatingIP, DeletePodFloatingIP, histVars
<1>4. ~ boot /\ ~ deaf
  BY <1>2 DEF Unshared, Told
<1>5. /\ Once' /\ Pend' \subseteq Pend
      /\ e[1] = "delete" => f \notin Pend' /\ f \in Pend
  BY <1>0, <1>1, <1>2, TailTold DEF Unshared, Placed
<1>6. Pool' \subseteq Pool /\ fips' \cap Pend' = {}
  BY <1>2, <1>5 DEF Pool, Unshared, Placed
<1>7. Working'
  BY <1>2 DEF Unshared, Working, Unlocked
<1>8. \A g \in fips : suballocators[g.claim] = NoAlloc => g.claim \notin queue
  BY DEF Unshared, Resumed
<1>9. CASE UNCHANGED <<suballocators, queue>>
  <2>1. Booked'
    BY <1>5, <1>6, <1>9 DEF Unshared, Booked, Known, Waiting
  <2> QED BY <1>2, <1>3, <1>4, <1>5, <1>6, <1>7, <1>8, <1>9, <2>1, FrameSame, UnsharedFrame
<1>10. CASE e[1] = "delete" /\ ClaimReleases(f) /\ suballocators[f.claim] # NoAlloc
  <2>1. PICK c : c = f.claim
    OBVIOUS
  <2>2. PICK b : b = Release(suballocators[c], f.ip)
    OBVIOUS
  <2>3. f \in Pool /\ c \in Claims /\ f.ip \in Nat /\ suballocators[c] \in Alloc
    BY <1>5, <1>10, <2>1, PoolTypes DEF Pool, Types
  <2>4. /\ suballocators' = [suballocators EXCEPT ![c] = b] /\ queue' \subseteq queue \cup {c}
    BY <1>10, <2>1, <2>2 DEF ClaimReleases
  <2>5. b.has = suballocators[c].has /\ b.nil = suballocators[c].nil /\ b.used = suballocators[c].used \ {f.ip}
    BY <2>2, <2>3 DEF Release, Without, Alloc
  <2>6. Frame /\ suballocators'[c] = b /\ \A d \in Claims : d # c => suballocators'[d] = suballocators[d]
    BY <1>2, <1>3, <1>10, <2>1, <2>3, <2>4, <2>5, FrameSub DEF Unshared
  <2>7. \A g \in Pool' : g \in Pool /\ g.ip # f.ip
    <3>1. f \notin Pool'
      BY <1>2, <1>5, <1>10 DEF Pool, Unshared, Placed
    <3> QED BY <1>6, <2>3, <3>1 DEF Unshared, Placed
  <2>8. Known(c)' \/ Waiting(c)'
    <3>1. CASE Known(c)
      BY <2>5, <2>6, <2>7, <3>1 DEF Known
    <3>2. CASE Waiting(c)
      BY <1>5, <2>5, <2>6, <3>2 DEF Waiting
    <3> QED BY <2>3, <3>1, <3>2 DEF Unshared, Booked
  <2>9. Booked'
    BY <1>5, <2>6, <2>7, <2>8 DEF Unshared, Booked, Known, Waiting
  <2>10. \A g \in fips : suballocators[g.claim] = NoAlloc => g.claim \notin queue'
    BY <1>8, <1>10, <2>1, <2>4
  <2> QED BY <1>2, <1>4, <1>5, <1>6, <1>7, <2>6, <2>9, <2>10, UnsharedFrame
<1> QED BY <1>2, <1>9, <1>10 DEF ClaimReleases

LEMMA UnsharedNode ==
  ASSUME Types, Unshared, NEW n \in Nodes, HandleNode(n), Quiet' PROVE Unshared'
<1>1. /\ UNCHANGED <<providers, claims, providerEv, claimEv, boot, deaf, allocators, suballocators, watching,
                     sync>>
      /\ \A s \in {"restart", "orphan"} : s \in disturbed' <=> s \in disturbed
  BY DEF HandleNode
<1>2. Frame
  BY <1>1, FrameSame
<1>3. \A f \in fips : suballocators[f.claim] = NoAlloc => f.claim \notin queue /\ claims[f.claim].assigned
  BY DEF Unshared, Resumed
<1>4. CASE AddFloatingIPNode(n) \/ SyncNode(n)
  <2>1. UNCHANGED <<fips, fipEv>> /\ queue' \subseteq queue \cup Unassigned
    BY <1>4 DEF AddFloatingIPNode, SyncNode
  <2>2. \A f \in fips : suballocators[f.claim] = NoAlloc => f.claim \notin queue'
    BY <1>3, <2>1 DEF Unassigned
  <2> QED BY <1>1, <1>2, <2>1, <2>2, UnsharedKept
<1>5. CASE Head(nodeEv[n]) = "delete" /\ DeleteFloatingIPNode(n)
  <2>1. PICK S \in SUBSET {f \in fips : f.node = n} : DropFips(S) /\ queue' = queue \cup {f.claim : f \in S}
    BY <1>5 DEF DeleteFloatingIPNode
  <2>2. DropFips(S) /\ S \in SUBSET fips /\ queue' = queue \cup {f.claim : f \in S}
    BY <2>1
  <2>3. \A f \in S : f.ip \in suballocators[f.claim].used
    <3>1. ~ \E f \in fips : f.node = n /\ f.ip \notin suballocators[f.claim].used
      BY <1>5 DEF HandleNode, Quiet
    <3> QED BY <3>1
  <2>4. \A f \in S : suballocators[f.claim] # NoAlloc /\ f.claim \in Claims
    BY <2>2, <2>3, NoneUsed DEF Types, Fip
  <2>5. \A f \in S : Known(f.claim)
    BY <2>3, <2>4 DEF Unshared, Booked, Waiting
  <2>6. \A f \in fips : suballocators[f.claim] = NoAlloc => f.claim \notin queue'
    BY <1>3, <2>2, <2>4
  <2> QED BY <1>1, <1>2, <2>2, <2>5, <2>6, UnsharedDropped
<1> QED BY <1>4, <1>5 DEF HandleNode

-----------------------------------------------------------------------------
(* Provider and claim handlers. *)

LEMMA UnsharedProvider ==
  ASSUME WellFormed, Inv, Unshared, HandleProvider, Quiet' PROVE Unshared'
<1>0. PICK p : p = Head(providerEv)[2]
  OBVIOUS
<1>1. /\ providerEv # <<>> /\ providerEv' = Tail(providerEv)
      /\ UNCHANGED <<providers, fips, fipEv, boot, deaf, suballocators, watching, queue, sync>>
  BY DEF HandleProvider
<1>2. /\ Len(providerEv) \in Nat \ {0} /\ Len(providerEv') = Len(providerEv) - 1
      /\ Head(providerEv) = providerEv[1] /\ Head(providerEv) \in {"add", "delete"} \X Providers
      /\ \A k \in 1 .. Len(providerEv) - 1 : providerEv'[k] = providerEv[k + 1]
  BY <1>1, TailTaken DEF Inv, Types
<1>3. providerEv[1][1] = "add" /\ providerEv[1] = <<"add", p>> /\ p \in Providers /\ p \in providers
  <2>1. 1 \in 1 .. Len(providerEv)
    BY <1>2
  <2>2. providerEv[1][1] = "add" /\ providerEv[1][2] \in providers
    BY <2>1 DEF Unshared, Provided
  <2> QED BY <1>0, <1>2, <2>2
<1>4. AddFloatingIPProvider(p)
  BY <1>0, <1>2, <1>3 DEF HandleProvider
<1>5. /\ UNCHANGED <<claims, claimEv>>
      /\ "orphan" \notin disturbed' /\ ("restart" \in disturbed' <=> "restart" \in disturbed)
      /\ ~ Overlaps(p)
  BY <1>4 DEF AddFloatingIPProvider, Quiet, Unshared, Provided
<1>6. ASSUME NEW q \in Providers, q # p, allocators[q] # NoAlloc PROVE RangeOf[q] \cap RangeOf[p] = {}
  BY <1>5, <1>6 DEF Overlaps
<1>7. /\ allocators'[p] # NoAlloc
      /\ \A q \in Providers : /\ q # p => allocators'[q] = allocators[q]
                              /\ allocators'[q].used \subseteq allocators[q].used
  <2>1. CASE Conflict(p)
    <3>1. UNCHANGED allocators
      BY <1>4, <2>1 DEF AddFloatingIPProvider
    <3>2. PICK q \in Providers, pair \in PairsOf[p] : allocators[q] # NoAlloc /\ pair \subseteq allocators[q].has
      BY <2>1 DEF Conflict, HasPool
    <3>3. allocators[q].has = RangeOf[q]
      BY <3>2, NowFields DEF Inv, Ranges, Sound
    <3>4. pair # {} /\ pair \subseteq RangeOf[p]
      BY <1>3, <3>2 DEF WellFormed, RangeOf
    <3>5. q = p
      BY <1>6, <3>2, <3>3, <3>4
    <3> QED BY <3>1, <3>2, <3>5
  <2>2. CASE ~ Conflict(p)
    <3>1. allocators' = [allocators EXCEPT ![p] = New(RangeOf[p])]
      BY <1>4, <2>2 DEF AddFloatingIPProvider
    <3>2. New(RangeOf[p]).used = {} /\ New(RangeOf[p]).nil = FALSE /\ NoAlloc.nil = TRUE
      BY DEF New, NewAllocationMap, NoAlloc
    <3> HIDE DEF New
    <3>3. /\ allocators'[p].used = {} /\ allocators'[p] # NoAlloc
          /\ \A q \in Providers : q # p => allocators'[q] = allocators[q]
      BY <1>3, <3>1, <3>2 DEF Inv, Types
    <3> QED BY <3>3
  <2> QED BY <2>1, <2>2
<1>8. Provided'
  <2>1. ASSUME boot', NEW q \in providers'
        PROVE  \/ allocators'[q] # NoAlloc
               \/ \E k \in 1 .. Len(providerEv') : providerEv'[k] = <<"add", q>>
    <3>0. q \in providers /\ q \in Providers /\ boot
      BY <1>1, <2>1 DEF Inv, Types
    <3>1. CASE q = p
      BY <1>7, <3>1
    <3>2. ASSUME q # p, NEW k \in 1 .. Len(providerEv), providerEv[k] = <<"add", q>>
          PROVE  \E m \in 1 .. Len(providerEv') : providerEv'[m] = <<"add", q>>
      <4>1. k # 1
        <5>1. <<"add", q>>[2] # <<"add", p>>[2]
          BY <3>2
        <5> QED BY <1>3, <3>2, <5>1
      <4>2. k - 1 \in 1 .. Len(providerEv') /\ k - 1 \in 1 .. Len(providerEv) - 1 /\ (k - 1) + 1 = k
        BY <1>2, <4>1
      <4>3. providerEv'[k - 1] = providerEv[k]
        BY <1>2, <4>2
      <4> QED BY <3>2, <4>2, <4>3
    <3> QED BY <1>7, <3>0, <3>1, <3>2 DEF Unshared, Provided
  <2>2. ASSUME NEW k \in 1 .. Len(providerEv')
        PROVE  providerEv'[k][1] = "add" /\ providerEv'[k][2] \in providers'
    <3>1. k \in 1 .. Len(providerEv) - 1 /\ k + 1 \in 1 .. Len(providerEv)
      BY <1>2
    <3> QED BY <1>1, <1>2, <3>1 DEF Unshared, Provided
  <2>3. \A q \in Providers : \A i \in allocators'[q].used :
          \E c \in Claims : ProviderOf[c] = q /\ i \in suballocators'[c].has
    BY <1>1, <1>7 DEF Unshared, Provided
  <2>4. \A q \in Providers : allocators'[q] # NoAlloc => q \in providers'
    BY <1>1, <1>3, <1>7 DEF Unshared, Provided
  <2>5. \A c \in Claims : suballocators'[c] # NoAlloc => allocators'[ProviderOf[c]] # NoAlloc
    BY <1>1, <1>7 DEF Unshared, Provided, WellFormed
  <2>6. \A o, q \in Providers : o # q /\ allocators'[o] # NoAlloc /\ allocators'[q] # NoAlloc =>
          RangeOf[o] \cap RangeOf[q] = {}
    BY <1>6, <1>7 DEF Unshared, Provided
  <2> QED BY <1>5, <2>1, <2>2, <2>3, <2>4, <2>5, <2>6, Zenon DEF Provided
<1>9. Pend' = Pend /\ Pool' = Pool /\ (Once => Once')
  BY <1>1 DEF Pend, Pool, Once
<1>10. Told' /\ Placed' /\ Booked'
  BY <1>1, <1>5, <1>9 DEF Unshared, Told, Placed, Booked, Known, Waiting
<1>11. Resumed'
  <2>1. \A q \in Providers : allocators[q] # NoAlloc => allocators'[q] # NoAlloc
    BY <1>7
  <2>2. \A f \in fips : ProviderOf[f.claim] \in Providers
    BY DEF Inv, Types, Fip, WellFormed
  <2>3. \A c : First(c)' <=> First(c)
    BY <1>1, <1>5 DEF First
  <2> QED BY <1>1, <1>5, <2>1, <2>2, <2>3 DEF Unshared, Resumed
<1>12. Working'
  BY <1>1, <1>9, WorkingSame DEF Unshared
<1> QED BY <1>8, <1>10, <1>11, <1>12 DEF Unshared

\* addFloatingIPClaim reserves the range, unless it is not free or empty.
LEMMA ReserveOrNot ==
  ASSUME WellFormed, Types, NEW c \in Claims, NEW ips \in SUBSET Nat
  PROVE  LET p == ProviderOf[c]
             b == Reserve(Now, c, ips)
         IN \/ /\ b = Now
               /\ \/ allocators[p] = NoAlloc \/ ips = {} \/ ~ (ips \subseteq allocators[p].has \ allocators[p].used)
            \/ /\ allocators[p] # NoAlloc /\ ips \subseteq allocators[p].has \ allocators[p].used
               /\ b.alloc = [allocators EXCEPT ![p] = With(allocators[p], ips)]
               /\ b.sub = [suballocators EXCEPT ![c] = New(ips)] /\ b.watch = watching \cup {c}
<1> DEFINE p == ProviderOf[c]
           b == Reserve(Now, c, ips)
           al == allocators[p]
           pool == AllocatePool(al, ips)
<1>1. p \in Providers /\ al \in Alloc
  BY DEF WellFormed, Types
<1>2. Now.alloc = allocators /\ Now.sub = suballocators /\ Now.watch = watching
  BY DEF Now
<1>3. CASE al = NoAlloc \/ pool = al
  <2>1. b = Now
    BY <1>2, <1>3 DEF Reserve
  <2>2. ASSUME ips # {}, ips \subseteq al.has \ al.used, al # NoAlloc PROVE FALSE
    <3>1. pool = With(al, ips)
      BY <2>2 DEF AllocatePool, PoolIsAvailable, Free
    <3>2. With(al, ips).used = al.used \cup ips
      <4> HIDE DEF al
      <4> QED BY <1>1 DEF With, Alloc
    <3>3. PICK x \in ips : x \notin al.used
      BY <2>2
    <3> QED BY <1>3, <2>2, <3>1, <3>2, <3>3
  <2> QED BY <2>1, <2>2
<1>4. CASE ~ (al = NoAlloc \/ pool = al)
  <2>1. ips \subseteq al.has \ al.used /\ pool = With(al, ips)
    BY <1>4 DEF AllocatePool, PoolIsAvailable, Free
  <2>2. b = [alloc |-> [allocators EXCEPT ![p] = pool], sub |-> [suballocators EXCEPT ![c] = New(ips)],
             watch |-> watching \cup {c}]
    BY <1>2, <1>4 DEF Reserve
  <2> QED BY <1>4, <2>1, <2>2
<1> QED BY <1>3, <1>4

\* The next claim that is told: its range is nobody else's.
NextClaim(c, ips) ==
  /\ c \in Claims /\ ips = claims[c].ips /\ ips \in SUBSET Nat /\ claims[c] # NoClaim
  /\ suballocators[c] = NoAlloc /\ ~ boot /\ claimEv # <<>> /\ claimEv[1][1] \in {"first", "add"} /\ claimEv[1][2] = c
  /\ \A k \in 1 .. Len(claimEv) : claimEv[k][2] = c => k = 1

LEMMA NextClaimIs ==
  ASSUME Types, Told, claimEv # <<>>
  PROVE  NextClaim(claimEv[1][2], claimEv[1][4].ips)
<1>1. Len(claimEv) \in Nat \ {0} /\ 1 \in 1 .. Len(claimEv)
  BY TailTaken DEF Types
<1>2. claimEv[1] \in ClaimEvent
  BY <1>1, ClaimEvents
<1>3. claimEv[1][2] \in Claims /\ claimEv[1][4].ips \in SUBSET Nat
  BY <1>2 DEF ClaimEvent, ClaimRec
<1>4. ~ boot
  BY DEF Told
<1>5. /\ claimEv[1][1] \in {"first", "add"} /\ claimEv[1][4].ips = claims[claimEv[1][2]].ips
      /\ claims[claimEv[1][2]] # NoClaim /\ suballocators[claimEv[1][2]] = NoAlloc
      /\ \A m \in 1 .. Len(claimEv) : claimEv[m][2] = claimEv[1][2] => m = 1
  BY <1>1 DEF Told
<1> QED BY <1>3, <1>4, <1>5 DEF NextClaim

\* Nothing of a claim without an allocator is to be given back.
LEMMA NothingPending ==
  ASSUME Types, Unshared, NEW f \in Pool, suballocators[f.claim] = NoAlloc PROVE f \in fips
<1>1. f.claim \in Claims
  BY PoolTypes
<1>2. CASE f \in Pend
  BY <1>1, <1>2, NoneUsed DEF Unshared, Booked, Known, Waiting
<1> QED BY <1>2 DEF Pool

\* An address of another claim is not in the range that c gets.
LEMMA RangeIsFree ==
  ASSUME WellFormed, Inv, Unshared, NEW c, NEW ips, NextClaim(c, ips),
         allocators[ProviderOf[c]] # NoAlloc,
         ips \subseteq allocators[ProviderOf[c]].has \ allocators[ProviderOf[c]].used,
         NEW f \in Pool, f.claim # c, f.ip \in ips
  PROVE  FALSE
<1>1. PICK p : p = ProviderOf[c]
  OBVIOUS
<1>2. PICK d : d = f.claim
  OBVIOUS
<1>3. /\ c \in Claims /\ d \in Claims /\ d # c /\ p \in Providers /\ ProviderOf[d] \in Providers
      /\ f.ip \in claims[d].ips /\ claims[d].ips \subseteq RangeOf[ProviderOf[d]]
  BY <1>1, <1>2, PoolTypes DEF WellFormed, Inv, Unshared, Placed, NextClaim
<1>4. allocators[p].has = RangeOf[p] /\ f.ip \in RangeOf[p] /\ f.ip \notin allocators[p].used
  BY <1>1, <1>3, NowFields DEF Inv, Ranges, Sound
<1>5. ProviderOf[d] = p
  <2>1. allocators[ProviderOf[d]] # NoAlloc
    <3>1. CASE suballocators[d] # NoAlloc
      BY <1>3, <3>1 DEF Unshared, Provided
    <3>2. CASE suballocators[d] = NoAlloc
      BY <1>2, <3>2, NothingPending DEF Inv, Unshared, Resumed, NextClaim
    <3> QED BY <3>1, <3>2
  <2> QED BY <1>1, <1>3, <1>4, <2>1 DEF Unshared, Provided
<1>6. CASE suballocators[d] # NoAlloc
  <2>1. f.ip \in suballocators[d].has
    BY <1>3, <1>6 DEF Unshared, Told
  <2>2. "orphan" \notin disturbed /\ ~ Deleting(d)
    <3>1. DOMAIN claimEv = 1 .. Len(claimEv)
      BY DEF Inv, Types
    <3> QED BY <3>1 DEF Unshared, Provided, Told, Deleting
  <2>3. Good(Now, d)
    BY <1>3, <2>1, <2>2, GoodNow
  <2> QED BY <1>4, <1>5, <2>1, <2>3, NowFields DEF Good
<1>7. CASE suballocators[d] = NoAlloc
  <2>1. f \in fips
    BY <1>2, <1>7, NothingPending DEF Inv
  <2>2. First(d)
    BY <1>2, <1>7, <2>1 DEF Unshared, Resumed, NextClaim
  <2>3. PICK k \in 1 .. Len(claimEv) : \A m \in 1 .. k : claimEv[m][2] # c
    BY <1>1, <1>3, <1>5, <2>2 DEF First, NextClaim
  <2>4. 1 \in 1 .. k
    BY <2>3
  <2> QED BY <2>3, <2>4 DEF NextClaim
<1> QED BY <1>6, <1>7

\* A claim that has FloatingIPs gets its range back.
LEMMA RangeIsGiven ==
  ASSUME WellFormed, Inv, Unshared, NEW c, NEW ips, NextClaim(c, ips), NEW f \in fips, f.claim = c
  PROVE  /\ ips # {} /\ allocators[ProviderOf[c]] # NoAlloc
         /\ ips \subseteq allocators[ProviderOf[c]].has \ allocators[ProviderOf[c]].used
<1>1. PICK p : p = ProviderOf[c]
  OBVIOUS
<1>2. c \in Claims /\ p \in Providers /\ f.ip \in ips /\ ips \subseteq RangeOf[p] /\ ips = claims[c].ips
  BY <1>1 DEF WellFormed, Unshared, Placed, Pool, NextClaim
<1>3. allocators[p] # NoAlloc
  BY <1>1 DEF Unshared, Resumed, NextClaim
<1>4. allocators[p].has = RangeOf[p]
  BY <1>2, <1>3, NowFields DEF Inv, Ranges, Sound
<1>5. First(c)
  BY DEF Unshared, Resumed, NextClaim
<1>6. ASSUME NEW i \in ips, i \in allocators[p].used PROVE FALSE
  <2>1. PICK d \in Claims : ProviderOf[d] = p /\ i \in suballocators[d].has
    BY <1>2, <1>6 DEF Unshared, Provided
  <2>2. suballocators[d] # NoAlloc /\ d # c
    BY <2>1, NoneUsed DEF NextClaim
  <2>3. i \in claims[d].ips
    BY <2>1, <2>2 DEF Unshared, Told
  <2> QED BY <1>1, <1>2, <1>5, <1>6, <2>1, <2>2, <2>3 DEF First
<1> QED BY <1>1, <1>2, <1>3, <1>4, <1>6

\* The event is taken: the other claims' events move up.
LEMMA EventTaken ==
  ASSUME Types, NEW c, NEW ips, NextClaim(c, ips), claimEv' = Tail(claimEv)
  PROVE  /\ Len(claimEv) \in Nat \ {0} /\ Len(claimEv') = Len(claimEv) - 1
         /\ \A k \in 1 .. Len(claimEv') :
              /\ k + 1 \in 1 .. Len(claimEv) /\ claimEv'[k] = claimEv[k + 1] /\ claimEv[k + 1][2] # c
              /\ claimEv[k + 1][2] \in Claims
<1>1. /\ Len(claimEv) \in Nat \ {0} /\ Len(claimEv') = Len(claimEv) - 1
      /\ \A k \in 1 .. Len(claimEv) - 1 : claimEv'[k] = claimEv[k + 1]
  BY TailTaken DEF Types, NextClaim
<1>2. \A k \in 1 .. Len(claimEv') : k + 1 \in 1 .. Len(claimEv) /\ claimEv'[k] = claimEv[k + 1] /\ k + 1 # 1
  BY <1>1
<1> QED BY <1>1, <1>2, ClaimEvents DEF NextClaim

LEMMA FirstTaken ==
  ASSUME Types, NEW c, NEW ips, NextClaim(c, ips), claimEv' = Tail(claimEv), UNCHANGED claims,
         \A e \in Claims : e # c => suballocators'[e] = suballocators[e],
         NEW d \in Claims, d # c, First(d)
  PROVE  First(d)'
<1>1. PICK k \in 1 .. Len(claimEv) :
        /\ claimEv[k][2] = d
        /\ \A e \in Claims : (/\ e # d /\ ProviderOf[e] = ProviderOf[d]
                              /\ claims[e].ips \cap claims[d].ips # {})
                             => suballocators[e] = NoAlloc /\ \A m \in 1 .. k : claimEv[m][2] # e
  BY DEF First
<1>2. /\ Len(claimEv) \in Nat \ {0} /\ Len(claimEv') = Len(claimEv) - 1
      /\ \A m \in 1 .. Len(claimEv') : claimEv'[m] = claimEv[m + 1]
  BY EventTaken
<1>3. k # 1 /\ claimEv[1][2] = c /\ 1 \in 1 .. k
  BY <1>1, <1>2 DEF NextClaim
<1>4. k - 1 \in 1 .. Len(claimEv') /\ (k - 1) + 1 = k
  BY <1>2, <1>3
<1>5. claimEv'[k - 1][2] = d
  BY <1>1, <1>2, <1>4
<1>6. ASSUME NEW e \in Claims, e # d, ProviderOf[e] = ProviderOf[d], claims[e].ips \cap claims[d].ips # {}
      PROVE  suballocators'[e] = NoAlloc /\ \A m \in 1 .. k - 1 : claimEv'[m][2] # e
  <2>1. suballocators[e] = NoAlloc /\ \A m \in 1 .. k : claimEv[m][2] # e
    BY <1>1, <1>6
  <2>2. e # c
    BY <1>3, <2>1
  <2>3. ASSUME NEW m \in 1 .. k - 1 PROVE claimEv'[m][2] # e
    <3>1. m \in 1 .. Len(claimEv') /\ m + 1 \in 1 .. k
      BY <1>2, <1>4
    <3> QED BY <1>2, <2>1, <3>1
  <2> QED BY <2>1, <2>2, <2>3
<1> QED BY <1>4, <1>5, <1>6 DEF First

LEMMA UnsharedClaimHandler ==
  ASSUME WellFormed, Inv, Unshared, HandleClaim PROVE Unshared'
<1>0. PICK c, ips : c = claimEv[1][2] /\ ips = claimEv[1][4].ips
  OBVIOUS
<1>2. NextClaim(c, ips) /\ Head(claimEv) = claimEv[1] /\ claimEv # <<>>
  <2>1. claimEv # <<>>
    BY DEF HandleClaim
  <2> QED BY <1>0, <2>1, NextClaimIs, TailTaken DEF Inv, Unshared, Types
<1>1. /\ claimEv # <<>> /\ claimEv' = Tail(claimEv) /\ Unlocked
      /\ UNCHANGED <<providers, claims, fips, providerEv, fipEv, boot, deaf, sync, disturbed>>
  BY <1>2 DEF HandleClaim, apiVars, histVars, NextClaim, Replaced
<1>3. PICK p : p = ProviderOf[c]
  OBVIOUS
<1>4. PICK b : b = Reserve(Now, c, ips)
  OBVIOUS
<1>5. /\ allocators' = b.alloc /\ suballocators' = b.sub /\ watching' = b.watch
      /\ queue' = queue \cup {c}
  <2>1. /\ Head(claimEv)[1] \notin {"delete", "update"} /\ Head(claimEv)[2] = c
        /\ Head(claimEv)[4].ips = ips
    BY <1>0, <1>2 DEF NextClaim
  <2> QED BY <1>4, <2>1 DEF HandleClaim, Now, Replaced
<1>6. c \in Claims /\ ips \in SUBSET Nat /\ p \in Providers /\ suballocators[c] = NoAlloc /\ ~ boot
  BY <1>2, <1>3 DEF NextClaim, WellFormed
<1>7. /\ Len(claimEv) \in Nat \ {0} /\ Len(claimEv') = Len(claimEv) - 1
      /\ \A k \in 1 .. Len(claimEv') :
           /\ k + 1 \in 1 .. Len(claimEv) /\ claimEv'[k] = claimEv[k + 1] /\ claimEv[k + 1][2] # c
           /\ claimEv[k + 1][2] \in Claims
  BY <1>1, <1>2, EventTaken DEF Inv
<1>8. Pend' = Pend /\ Pool' = Pool /\ (Once => Once')
  BY <1>1 DEF Pend, Pool, Once
<1>9. Working'
  BY <1>1 DEF Unshared, Working, Unlocked
<1>10. ASSUME \A e \in Claims : e # c => suballocators'[e] = suballocators[e],
              \A f \in fips : suballocators'[f.claim] = NoAlloc => f.claim # c,
              \A q \in Providers : allocators[q] # NoAlloc => allocators'[q] # NoAlloc
       PROVE  Resumed'
  <2> SUFFICES ASSUME NEW f \in fips, suballocators'[f.claim] = NoAlloc
               PROVE  /\ claims[f.claim].assigned /\ f.claim \notin queue'
                      /\ sync.pc = "idle" \/ sync.claim # f.claim
                      /\ ProviderOf[f.claim] \in providers
                      /\ First(f.claim)' /\ allocators'[ProviderOf[f.claim]] # NoAlloc
    BY <1>1 DEF Resumed
  <2>1. f.claim \in Claims /\ f.claim # c /\ suballocators[f.claim] = NoAlloc
    BY <1>10 DEF Inv, Types, Fip
  <2>2. /\ claims[f.claim].assigned /\ f.claim \notin queue /\ First(f.claim)
        /\ sync.pc = "idle" \/ sync.claim # f.claim
        /\ ProviderOf[f.claim] \in providers /\ allocators[ProviderOf[f.claim]] # NoAlloc
    BY <1>6, <2>1 DEF Unshared, Resumed
  <2>3. First(f.claim)'
    BY <1>1, <1>2, <1>10, <2>1, <2>2, FirstTaken DEF Inv
  <2>4. ProviderOf[f.claim] \in Providers
    BY <2>1 DEF WellFormed
  <2> QED BY <1>5, <1>10, <2>1, <2>2, <2>3, <2>4
<1>11. ASSUME \A e \in Claims : e # c => suballocators'[e] = suballocators[e],
              suballocators'[c] # NoAlloc => /\ suballocators'[c].has = claims[c].ips
                                             /\ suballocators'[c].nil = FALSE,
              \A e \in watching' : suballocators'[e] # NoAlloc
       PROVE  Told'
  <2>1. ASSUME NEW k \in 1 .. Len(claimEv')
        PROVE  LET d == claimEv'[k][2]
               IN /\ claimEv'[k][1] \in {"first", "add"} /\ claimEv'[k][4].ips = claims[d].ips
                  /\ claims[d] # NoClaim /\ suballocators'[d] = NoAlloc
                  /\ \A m \in 1 .. Len(claimEv') : claimEv'[m][2] = d => m = k
    <3>1. k + 1 \in 1 .. Len(claimEv) /\ claimEv'[k] = claimEv[k + 1] /\ claimEv[k + 1][2] # c
          /\ claimEv[k + 1][2] \in Claims
      BY <1>7
    <3>2. /\ claimEv[k + 1][1] \in {"first", "add"} /\ claimEv[k + 1][4].ips = claims[claimEv[k + 1][2]].ips
          /\ claims[claimEv[k + 1][2]] # NoClaim /\ suballocators[claimEv[k + 1][2]] = NoAlloc
          /\ \A m \in 1 .. Len(claimEv) : claimEv[m][2] = claimEv[k + 1][2] => m = k + 1
      BY <3>1 DEF Unshared, Told
    <3>3. ASSUME NEW m \in 1 .. Len(claimEv'), claimEv'[m][2] = claimEv[k + 1][2] PROVE m = k
      <4>1. m + 1 = k + 1
        BY <1>7, <3>2, <3>3
      <4> QED BY <1>7, <4>1
    <3> QED BY <1>11, <3>1, <3>2, <3>3
  <2>2. ASSUME NEW e \in Claims, suballocators'[e] # NoAlloc
        PROVE  claims[e] # NoClaim /\ suballocators'[e].has = claims[e].ips /\ suballocators'[e].nil = FALSE
    BY <1>2, <1>11, <2>2 DEF Unshared, Told, NextClaim
  <2>3. ~ boot' /\ (deaf' => fipEv' = <<>>)
    BY <1>1, <1>6 DEF Unshared, Told
  <2> QED BY <1>1, <1>11, <2>1, <2>2, <2>3 DEF Told
<1>12. CASE b = Now /\ (\/ allocators[p] = NoAlloc \/ ips = {}
                        \/ ~ (ips \subseteq allocators[p].has \ allocators[p].used))
  <2>1. UNCHANGED <<allocators, suballocators, watching>>
    BY <1>5, <1>12 DEF Now
  <2>2. Provided'
    BY <1>1, <2>1, ProvidedSame DEF Unshared
  <2>3. Told'
    BY <1>6, <1>11, <2>1 DEF Unshared, Told
  <2>4. Placed' /\ Booked'
    BY <1>1, <1>8, <2>1 DEF Unshared, Placed, Booked, Known, Waiting
  <2>5. \A f \in fips : f.claim # c
    BY <1>2, <1>3, <1>12, RangeIsGiven
  <2>6. Resumed'
    BY <1>10, <2>1, <2>5
  <2> QED BY <1>9, <2>2, <2>3, <2>4, <2>6 DEF Unshared
<1>13. CASE /\ allocators[p] # NoAlloc /\ ips \subseteq allocators[p].has \ allocators[p].used
            /\ b.alloc = [allocators EXCEPT ![p] = With(allocators[p], ips)]
            /\ b.sub = [suballocators EXCEPT ![c] = New(ips)] /\ b.watch = watching \cup {c}
  <2>1. PICK n : n = New(ips)
    OBVIOUS
  <2>2. n.has = ips /\ n.nil = FALSE /\ n.used = {} /\ n # NoAlloc
    BY <2>1 DEF New, NewAllocationMap, NoAlloc
  <2>3. suballocators'[c] = n /\ \A e \in Claims : e # c => suballocators'[e] = suballocators[e]
    BY <1>5, <1>6, <1>13, <2>1 DEF Inv, Types
  <2>4. PICK w : w = With(allocators[p], ips)
    OBVIOUS
  <2>5. allocators'[p] = w /\ \A q \in Providers : q # p => allocators'[q] = allocators[q]
    BY <1>5, <1>6, <1>13, <2>4 DEF Inv, Types
  <2>6. w.used = allocators[p].used \cup ips /\ w # NoAlloc
    <3>1. w.used = allocators[p].used \cup ips /\ w.nil = allocators[p].nil
      <4>1. allocators[p] \in Alloc
        BY <1>6 DEF Inv, Types
      <4> QED BY <2>4, <4>1 DEF With, Alloc
    <3>2. allocators[p].nil = FALSE /\ NoAlloc.nil = TRUE
      BY <1>6, <1>13, NowFields DEF Inv, Ranges, Sound, NoAlloc
    <3> QED BY <3>1, <3>2
  <2>7. Provided'
    <3>1. ASSUME NEW q \in Providers, NEW i \in allocators'[q].used
          PROVE  \E d \in Claims : ProviderOf[d] = q /\ i \in suballocators'[d].has
      <4>1. CASE i \in allocators[q].used
        <5>1. PICK d \in Claims : ProviderOf[d] = q /\ i \in suballocators[d].has
          BY <4>1 DEF Unshared, Provided
        <5>2. d # c
          BY <1>6, <5>1, NoneUsed
        <5> QED BY <2>3, <5>1, <5>2
      <4>2. CASE i \notin allocators[q].used
        <5>1. q = p /\ i \in ips
          BY <2>5, <2>6, <3>1, <4>2
        <5> QED BY <1>3, <1>6, <2>2, <2>3, <5>1
      <4> QED BY <4>1, <4>2
    <3>2. \A q \in Providers : allocators[q] # NoAlloc => allocators'[q] # NoAlloc
      BY <2>5, <2>6
    <3>3. \A q \in Providers : allocators'[q] # NoAlloc => allocators[q] # NoAlloc
      BY <1>13, <2>5
    <3>4. \A d \in Claims : suballocators'[d] # NoAlloc => allocators'[ProviderOf[d]] # NoAlloc
      <4>1. \A d \in Claims : ProviderOf[d] \in Providers
        BY DEF WellFormed
      <4> QED BY <1>3, <1>6, <1>13, <2>3, <3>2, <4>1 DEF Unshared, Provided
    <3>5. /\ \A q \in Providers : allocators'[q] # NoAlloc => q \in providers'
          /\ \A q, r \in Providers : q # r /\ allocators'[q] # NoAlloc /\ allocators'[r] # NoAlloc =>
               RangeOf[q] \cap RangeOf[r] = {}
      BY <1>1, <3>3 DEF Unshared, Provided
    <3>6. /\ "orphan" \notin disturbed' /\ ~ boot'
          /\ \A k \in 1 .. Len(providerEv') : providerEv'[k][1] = "add" /\ providerEv'[k][2] \in providers'
      BY <1>1, <1>6 DEF Unshared, Provided
    <3> QED BY <3>1, <3>4, <3>5, <3>6 DEF Provided
  <2>8. Told'
    <3>1. \A e \in watching' : suballocators'[e] # NoAlloc
      BY <1>5, <1>13, <2>2, <2>3 DEF Unshared, Told, Inv, Types
    <3> QED BY <1>2, <1>11, <2>2, <2>3, <3>1 DEF NextClaim
  <2>9. Placed'
    <3>1. ASSUME NEW f \in Pool, NEW d \in Claims, d # f.claim PROVE f.ip \notin suballocators'[d].has
      <4>1. CASE d = c
        BY <1>2, <1>3, <1>13, <2>2, <2>3, <3>1, <4>1, RangeIsFree
      <4>2. CASE d # c
        BY <2>3, <3>1, <4>2 DEF Unshared, Placed
      <4> QED BY <4>1, <4>2
    <3> QED BY <1>1, <1>8, <3>1 DEF Unshared, Placed
  <2>10. Booked'
    <3>1. \A f \in Pend : f.claim # c
      BY <1>6, NothingPending DEF Inv, Pool, Unshared, Placed
    <3>2. Waiting(c)'
      BY <1>8, <2>2, <2>3, <3>1 DEF Waiting
    <3>3. ASSUME NEW d \in Claims, d # c PROVE Known(d)' \/ Waiting(d)'
      BY <1>8, <2>3, <3>3 DEF Unshared, Booked, Known, Waiting
    <3> QED BY <3>2, <3>3 DEF Booked
  <2>11. Resumed'
    <3>1. \A q \in Providers : allocators[q] # NoAlloc => allocators'[q] # NoAlloc
      BY <2>5, <2>6
    <3> QED BY <1>10, <2>2, <2>3, <3>1
  <2> QED BY <1>9, <2>7, <2>8, <2>9, <2>10, <2>11 DEF Unshared
<1> QED BY <1>3, <1>4, <1>6, <1>12, <1>13, ReserveOrNot DEF Inv

-----------------------------------------------------------------------------
(* The master starts. *)

LEMMA ProvidersTold ==
  ASSUME NEW S, NEW q, Lists(q, {<<"add", p>> : p \in S})
  PROVE  /\ \A k \in 1 .. Len(q) : q[k][1] = "add" /\ q[k][2] \in S
         /\ \A p \in S : \E k \in 1 .. Len(q) : q[k] = <<"add", p>>
<1>1. \A k \in 1 .. Len(q) : q[k] \in {<<"add", p>> : p \in S}
  BY DEF Lists
<1>2. \A k \in 1 .. Len(q) : q[k][1] = "add" /\ q[k][2] \in S
  BY <1>1
<1>3. ASSUME NEW p \in S PROVE \E k \in 1 .. Len(q) : q[k] = <<"add", p>>
  <2>1. <<"add", p>> \in {<<"add", r>> : r \in S}
    OBVIOUS
  <2> QED BY <2>1 DEF Lists
<1> QED BY <1>2, <1>3

LEMMA UnsharedInit == ASSUME WellFormed, Init PROVE Unshared
<1>1. Pend = {} /\ Once /\ fips = {} /\ boot /\ fipEv = <<>> /\ claimEv = <<>> /\ Len(fipEv) = 0 /\ Len(claimEv) = 0
  BY DEF Init, Pend, Once
<1>2. providers \subseteq Providers /\ Lists(providerEv, {<<"add", p>> : p \in providers})
  <2>1. providers \subseteq Providers
    BY DEF Init, WellFormed
  <2>2. IsFiniteSet(providers)
    BY <2>1, FS_Subset DEF WellFormed
  <2> QED BY <2>1, <2>2, AddEvents DEF Init
<1>3. /\ \A c \in Claims : suballocators[c] = NoAlloc /\ suballocators[c].used = {}
      /\ \A p \in Providers : allocators[p] = NoAlloc /\ allocators[p].used = {}
  BY NoneUsed DEF Init
<1>4. Provided
  <2>1. /\ \A k \in 1 .. Len(providerEv) : providerEv[k][1] = "add" /\ providerEv[k][2] \in providers
        /\ \A p \in providers : \E k \in 1 .. Len(providerEv) : providerEv[k] = <<"add", p>>
    BY <1>2, ProvidersTold
  <2>2. "orphan" \notin disturbed
    BY DEF Init
  <2> QED BY <1>1, <1>3, <2>1, <2>2 DEF Provided
<1>5. Told
  BY <1>1, <1>3 DEF Init, Told
<1>6. Placed /\ Booked /\ Resumed
  <2>1. Pool = {}
    BY <1>1 DEF Pool
  <2>2. Placed /\ Resumed
    BY <1>1, <2>1 DEF Placed, Resumed
  <2>3. Booked
    BY <2>1 DEF Booked, Known
  <2> QED BY <2>2, <2>3
<1>7. Working
  BY DEF Init, Working, Idle
<1> QED BY <1>4, <1>5, <1>6, <1>7 DEF Unshared

LEMMA UnsharedRestart == ASSUME WellFormed, Types, Unshared, Restart, Quiet' PROVE Unshared'
<1>1. /\ boot' /\ deaf' /\ fipEv' = <<>> /\ claimEv' = <<>> /\ Len(fipEv') = 0 /\ Len(claimEv') = 0
      /\ UNCHANGED <<providers, claims, fips>> /\ watching' = {} /\ queue' = {} /\ sync' = Idle
      /\ "restart" \in disturbed' /\ ("orphan" \in disturbed' => "orphan" \in disturbed)
  BY DEF Restart, apiVars
<1>2. Pend' = {} /\ Once' /\ Pool' = fips /\ Pool' \subseteq Pool
  BY <1>1 DEF Pend, Once, Pool
<1>3. /\ "orphan" \notin disturbed
      /\ \A f \in fips : ProviderOf[f.claim] \in providers
  <2>1. ASSUME NEW f \in fips PROVE ProviderOf[f.claim] \in providers
    <3>1. f.claim \in Claims /\ ProviderOf[f.claim] \in Providers
      BY DEF Types, Fip, WellFormed
    <3>2. CASE suballocators[f.claim] # NoAlloc
      BY <3>1, <3>2 DEF Unshared, Provided
    <3>3. CASE suballocators[f.claim] = NoAlloc
      BY <3>3 DEF Unshared, Resumed
    <3> QED BY <3>2, <3>3
  <2> QED BY <2>1 DEF Unshared, Provided
<1>4. Lists(providerEv', {<<"add", p>> : p \in providers})
  <2>1. IsFiniteSet(providers)
    BY FS_Subset DEF WellFormed, Types
  <2> QED BY <2>1, AddEvents DEF Restart
<1>5. /\ \A c \in Claims : suballocators'[c] = NoAlloc /\ suballocators'[c].used = {} /\ suballocators'[c].has = {}
      /\ \A p \in Providers : allocators'[p] = NoAlloc /\ allocators'[p].used = {}
  BY NoneUsed DEF Restart
<1>6. \A f \in fips : claims[f.claim].assigned
  BY DEF Restart, Quiet
<1>7. Provided'
  <2>1. /\ \A k \in 1 .. Len(providerEv') : providerEv'[k][1] = "add" /\ providerEv'[k][2] \in providers
        /\ \A p \in providers : \E k \in 1 .. Len(providerEv') : providerEv'[k] = <<"add", p>>
    BY <1>4, ProvidersTold
  <2> QED BY <1>1, <1>3, <1>5, <2>1 DEF Provided
<1>8. Told'
  BY <1>1, <1>5 DEF Told
<1>9. Placed' /\ Booked'
  BY <1>1, <1>2, <1>5 DEF Unshared, Placed, Booked, Waiting
<1>10. Resumed' /\ Working'
  BY <1>1, <1>3, <1>6 DEF Resumed, Working, Idle
<1> QED BY <1>7, <1>8, <1>9, <1>10 DEF Unshared

LEMMA UnsharedWatchClaims ==
  ASSUME WellFormed, Types, Unshared, WatchClaims, Quiet' PROVE Unshared'
<1> DEFINE T == {<<"first", c, NoClaim, claims[c]>> : c \in {d \in Claims : claims[d] # NoClaim}}
<1>1. /\ boot /\ ~ boot' /\ providerEv = <<>>
      /\ UNCHANGED <<providers, claims, fips, fipEv, deaf, providerEv, allocators, suballocators, watching,
                     queue, sync>>
      /\ \A s \in {"restart", "orphan"} : s \in disturbed' <=> s \in disturbed
  BY DEF WatchClaims, apiVars
<1>2. Lists(claimEv', T)
  BY TypesWatchClaims
<1>3. /\ \A c \in Claims : suballocators[c] = NoAlloc
      /\ fips # {} => ~ ClaimsOverlap
  <2>1. fips # {} => "restart" \in disturbed
    BY <1>1 DEF Unshared, Told
  <2> QED BY <1>1, <2>1 DEF Unshared, Told, WatchClaims, Quiet
<1>4. Pend' = {} /\ Once' /\ Pool' = fips /\ Pool' \subseteq Pool
  <2>1. fipEv' = <<>> /\ Len(fipEv') = 0
    BY <1>1 DEF Unshared, Told
  <2>2. Pend' = {} /\ Once'
    BY <2>1 DEF Pend, Once
  <2> QED BY <1>1, <2>2 DEF Pool
<1>5. \A k \in 1 .. Len(claimEv') : \E c \in Claims : claims[c] # NoClaim /\ claimEv'[k] = <<"first", c, NoClaim, claims[c]>>
  <2>1. \A k \in 1 .. Len(claimEv') : claimEv'[k] \in T
    <3> HIDE DEF T
    <3> QED BY <1>2 DEF Lists
  <2> QED BY <2>1
<1>6. \A c \in Claims : claims[c] # NoClaim => \E k \in 1 .. Len(claimEv') : claimEv'[k] = <<"first", c, NoClaim, claims[c]>>
  <2>1. ASSUME NEW c \in Claims, claims[c] # NoClaim
        PROVE  \E k \in 1 .. Len(claimEv') : claimEv'[k] = <<"first", c, NoClaim, claims[c]>>
    <3>1. <<"first", c, NoClaim, claims[c]>> \in T
      BY <2>1
    <3> HIDE DEF T
    <3> QED BY <1>2, <3>1 DEF Lists
  <2> QED BY <2>1
<1>7. \A i, j \in 1 .. Len(claimEv') : claimEv'[i] = claimEv'[j] => i = j
  <2> HIDE DEF T
  <2> QED BY <1>2 DEF Lists
<1>8. Provided'
  <2>1. Provided
    BY DEF Unshared
  <2> QED BY <1>1, <2>1 DEF Provided
<1>9. Told'
  <2>1. ASSUME NEW k \in 1 .. Len(claimEv')
        PROVE  LET d == claimEv'[k][2]
               IN /\ claimEv'[k][1] \in {"first", "add"} /\ claimEv'[k][4].ips = claims[d].ips
                  /\ claims[d] # NoClaim /\ suballocators[d] = NoAlloc
                  /\ \A m \in 1 .. Len(claimEv') : claimEv'[m][2] = d => m = k
    <3>1. PICK c \in Claims : claims[c] # NoClaim /\ claimEv'[k] = <<"first", c, NoClaim, claims[c]>>
      BY <1>5
    <3>2. claimEv'[k][1] = "first" /\ claimEv'[k][2] = c /\ claimEv'[k][4] = claims[c]
      BY <3>1
    <3>3. ASSUME NEW m \in 1 .. Len(claimEv'), claimEv'[m][2] = c PROVE m = k
      <4>1. PICK d \in Claims : claimEv'[m] = <<"first", d, NoClaim, claims[d]>>
        BY <1>5
      <4>2. d = c
        BY <3>3, <4>1
      <4> QED BY <1>7, <3>1, <4>1, <4>2
    <3> QED BY <1>3, <3>1, <3>2, <3>3
  <2>2. \A c \in watching : suballocators[c] # NoAlloc
    BY DEF Unshared, Told
  <2>3. deaf' => fipEv' = <<>>
    BY <1>1 DEF Unshared, Told
  <2> QED BY <1>1, <1>3, <2>1, <2>2, <2>3 DEF Told
<1>10. Placed' /\ Booked'
  <2>1. \A c \in Claims : Waiting(c)'
    BY <1>1, <1>3, <1>4, NoneUsed DEF Waiting
  <2>2. Placed'
    BY <1>1, <1>4 DEF Unshared, Placed
  <2> QED BY <2>1, <2>2 DEF Booked
<1>11. Resumed'
  <2> SUFFICES ASSUME NEW f \in fips, suballocators[f.claim] = NoAlloc
               PROVE  /\ claims[f.claim].assigned /\ f.claim \notin queue
                      /\ sync.pc = "idle" \/ sync.claim # f.claim
                      /\ ProviderOf[f.claim] \in providers
                      /\ First(f.claim)' /\ allocators[ProviderOf[f.claim]] # NoAlloc
    BY <1>1 DEF Resumed
  <2>1. f.claim \in Claims /\ claims[f.claim] # NoClaim
    BY DEF Unshared, Placed, Pool, Types, Fip, NoClaim
  <2>2. PICK k \in 1 .. Len(claimEv') : claimEv'[k] = <<"first", f.claim, NoClaim, claims[f.claim]>>
    BY <1>6, <2>1
  <2>3. claimEv'[k][2] = f.claim
    BY <2>2
  <2>4. First(f.claim)'
    BY <1>1, <1>3, <2>1, <2>3 DEF First, ClaimsOverlap
  <2>5. /\ claims[f.claim].assigned /\ f.claim \notin queue /\ ProviderOf[f.claim] \in providers
        /\ sync.pc = "idle" \/ sync.claim # f.claim
    BY DEF Unshared, Resumed
  <2>6. Len(providerEv) = 0
    BY <1>1
  <2>7. allocators[ProviderOf[f.claim]] # NoAlloc
    BY <1>1, <2>5, <2>6 DEF Unshared, Provided
  <2> QED BY <2>4, <2>5, <2>7
<1>12. Working'
  <2>1. sync.pc \notin {"clean", "alloc", "create", "release"}
    BY <1>1, Locked
  <2> QED BY <1>1, <2>1 DEF Unshared, Working
<1> QED BY <1>8, <1>9, <1>10, <1>11, <1>12 DEF Unshared

\* The watches of FloatingIPs begin with no deletion to tell.
LEMMA UnsharedWatchFips == ASSUME WellFormed, Types, Unshared, WatchFips PROVE Unshared'
<1>1. /\ UNCHANGED <<providers, claims, fips, providerEv, claimEv, boot, allocators, suballocators, watching,
                     queue, sync>>
      /\ ~ deaf' /\ ~ boot /\ deaf
      /\ \A s \in {"restart", "orphan"} : s \in disturbed' <=> s \in disturbed
  BY DEF WatchFips, apiVars
<1>2. Pend = {} /\ Pend' = {} /\ Once'
  <2>1. fipEv = <<>> /\ Len(fipEv) = 0
    BY <1>1 DEF Unshared, Told
  <2>2. \A k \in 1 .. Len(fipEv') : fipEv'[k] \in {<<"add", f>> : f \in fips}
    BY TypesWatchFips DEF Lists
  <2>3. \A k \in 1 .. Len(fipEv') : fipEv'[k][1] = "add"
    BY <2>2
  <2> QED BY <2>1, <2>3 DEF Pend, Once
<1>3. Pool' = Pool
  BY <1>1, <1>2 DEF Pool
<1>4. Provided'
  BY <1>1, ProvidedSame DEF Unshared
<1>5. Told'
  BY <1>1 DEF Unshared, Told
<1>6. Placed' /\ Booked'
  BY <1>1, <1>2, <1>3 DEF Unshared, Placed, Booked, Known, Waiting
<1>7. Resumed'
  BY <1>1 DEF Unshared, Resumed, First
<1>8. Working'
  BY <1>1, <1>3 DEF Unshared, Working, Known, Taken, Held
<1> QED BY <1>4, <1>5, <1>6, <1>7, <1>8 DEF Unshared

-----------------------------------------------------------------------------
(* Every step. *)

LEMMA StaysQuiet == ASSUME [Next]_vars, Quiet' PROVE Quiet
<1>1. CASE Environment
  BY <1>1 DEF Environment, CreateProvider, DeleteProvider, CreateClaim, ChangeClaim, CollectGarbage,
     ChangePod, ChangeNode, histVars, Quiet
<1>2. CASE HandleProvider \/ HandleClaim
  BY <1>2 DEF HandleProvider, AddFloatingIPProvider, DeleteFloatingIPProvider, HandleClaim, histVars, Quiet
<1>3. CASE HandleFip
  BY <1>3 DEF HandleFip, AddFloatingIP, AddPodFloatingIP, DeleteFloatingIP, DeletePodFloatingIP,
     histVars, Quiet
<1>4. CASE \/ (\E p \in Pods : HandlePod(p)) \/ (\E n \in Nodes : HandleNode(n))
           \/ WatchClaims \/ WatchFips \/ Restart
  BY <1>4 DEF HandlePod, HandleNode, WatchClaims, WatchFips, Restart, histVars, Quiet
<1>5. CASE Worker
  <2>1. UNCHANGED disturbed
    <3>1. ASSUME NEW c \in Claims, SyncGet(c) PROVE UNCHANGED disturbed
      BY <3>1 DEF SyncGet, histVars
    <3>2. CASE SyncList \/ SyncClean
      BY <3>2 DEF SyncList, SyncClean
    <3>3. CASE SyncAllocate
      BY <3>3 DEF SyncAllocate, histVars
    <3>4. CASE SyncCreate \/ SyncRelease \/ SyncStatus
      BY <3>4 DEF SyncCreate, SyncRelease, SyncStatus, histVars
    <3> QED BY <1>5, <3>1, <3>2, <3>3, <3>4 DEF Worker
  <2> QED BY <2>1 DEF Quiet
<1>6. CASE UNCHANGED vars
  BY <1>6 DEF vars, histVars, Quiet
<1> QED BY <1>1, <1>2, <1>3, <1>4, <1>5, <1>6 DEF Next, Handlers

\* A provider that comes is told of and has no allocator yet.
LEMMA UnsharedNewProvider ==
  ASSUME Types, Unshared, NEW p \in Providers, CreateProvider(p) PROVE Unshared'
<1>1. /\ providers' = providers \cup {p} /\ providerEv' = Append(providerEv, <<"add", p>>)
      /\ UNCHANGED <<claims, fips, claimEv, fipEv, disturbed, boot, deaf, allocators, suballocators, watching,
                     queue, sync>>
  BY DEF CreateProvider, ctlVars
<1>2. /\ Len(providerEv) \in Nat /\ Len(providerEv') = Len(providerEv) + 1
      /\ providerEv'[Len(providerEv) + 1] = <<"add", p>>
      /\ \A k \in 1 .. Len(providerEv) : providerEv'[k] = providerEv[k]
  <2>1. <<"add", p>> \in {"add", "delete"} \X Providers
    OBVIOUS
  <2>2. PICK e : e = <<"add", p>>
    OBVIOUS
  <2> QED BY <1>1, <2>1, <2>2 DEF Types
<1>3. Provided'
  <2>1. ASSUME NEW k \in 1 .. Len(providerEv') PROVE providerEv'[k][1] = "add" /\ providerEv'[k][2] \in providers'
    <3>1. CASE k \in 1 .. Len(providerEv)
      BY <1>1, <1>2, <3>1 DEF Unshared, Provided
    <3>2. CASE k = Len(providerEv) + 1
      BY <1>1, <1>2, <3>2
    <3> QED BY <1>2, <3>1, <3>2
  <2>2. ASSUME boot, NEW q \in providers', allocators[q] = NoAlloc
        PROVE  \E k \in 1 .. Len(providerEv') : providerEv'[k] = <<"add", q>>
    <3>1. CASE q = p
      BY <1>2, <3>1
    <3>2. CASE q \in providers
      <4>1. PICK k \in 1 .. Len(providerEv) : providerEv[k] = <<"add", q>>
        BY <2>2, <3>2 DEF Unshared, Provided
      <4> QED BY <1>2, <4>1
    <3> QED BY <1>1, <3>1, <3>2
  <2>3. /\ "orphan" \notin disturbed' /\ \A q \in Providers : allocators'[q] # NoAlloc => q \in providers'
        /\ \A c \in Claims : suballocators'[c] # NoAlloc => allocators'[ProviderOf[c]] # NoAlloc
        /\ \A q \in Providers : \A i \in allocators'[q].used :
             \E c \in Claims : ProviderOf[c] = q /\ i \in suballocators'[c].has
        /\ \A q, r \in Providers : q # r /\ allocators'[q] # NoAlloc /\ allocators'[r] # NoAlloc =>
             RangeOf[q] \cap RangeOf[r] = {}
    BY <1>1 DEF Unshared, Provided
  <2> QED BY <1>1, <2>1, <2>2, <2>3 DEF Provided
<1>4. Pool' = Pool /\ Pend' = Pend /\ (Once => Once')
  BY <1>1 DEF Pool, Pend, Once
<1>5. Told'
  BY <1>1 DEF Unshared, Told
<1>6. Placed' /\ Booked'
  BY <1>1, <1>4 DEF Unshared, Placed, Booked, Known, Waiting
<1>7. Resumed'
  BY <1>1 DEF Unshared, Resumed, First
<1>8. Working'
  BY <1>1, <1>4 DEF Unshared, Working, Known, Taken, Held
<1> QED BY <1>3, <1>5, <1>6, <1>7, <1>8 DEF Unshared

LEMMA UnsharedEnvironment ==
  ASSUME WellFormed, Types, Unshared, Environment, Quiet' PROVE Unshared'
<1>1. ASSUME NEW p \in Providers, DeleteProvider(p) PROVE FALSE
  BY <1>1 DEF DeleteProvider, Quiet
<1>2. ASSUME NEW c \in Claims, NEW ips, ChangeClaim(c, ips) PROVE FALSE
  BY <1>2 DEF ChangeClaim, Quiet
<1>3. ASSUME NEW f \in fips, CollectGarbage(f) PROVE FALSE
  BY <1>3 DEF CollectGarbage, NoClaim, Unshared, Placed, Pool
<1>4. ASSUME \/ \E p \in Pods : ChangePod(p)
             \/ \E n \in Nodes : ChangeNode(n)
      PROVE  Unshared'
  <2>1. UNCHANGED <<providers, providerEv, boot, deaf, allocators, claimEv, watching, suballocators, claims,
                    fips, fipEv, queue, sync, disturbed>>
    BY <1>4 DEF ChangePod, ChangeNode, ctlVars
  <2>2. \A f \in fips : suballocators[f.claim] = NoAlloc => f.claim \notin queue
    BY DEF Unshared, Resumed
  <2> QED BY <2>1, <2>2, FrameSame, UnsharedKept
<1> QED BY <1>1, <1>2, <1>3, <1>4, UnsharedClaim, UnsharedNewProvider DEF Environment

LEMMA UnsharedNext ==
  ASSUME WellFormed, Inv, Unshared, [Next]_vars, Quiet' PROVE Unshared'
<1>1. CASE Environment
  BY <1>1, UnsharedEnvironment DEF Inv
<1>2. CASE Handlers
  BY <1>2, UnsharedProvider, UnsharedClaimHandler, UnsharedFip, UnsharedPod, UnsharedNode,
     UnsharedWatchClaims, UnsharedWatchFips DEF Handlers, Inv
<1>3. CASE Worker
  BY <1>3, UnsharedGet, UnsharedList, UnsharedClean, UnsharedAllocate, UnsharedCreate, UnsharedRelease,
     UnsharedStatus DEF Worker, Inv
<1>4. CASE Restart
  BY <1>4, UnsharedRestart DEF Inv
<1>5. CASE UNCHANGED vars
  <2>1. UNCHANGED <<providers, providerEv, boot, deaf, allocators, claimEv, watching, suballocators, claims,
                    fips, fipEv, queue, sync, disturbed>>
    BY <1>5 DEF vars, apiVars, evVars, ctlVars, histVars
  <2>2. \A f \in fips : suballocators[f.claim] = NoAlloc => f.claim \notin queue
    BY DEF Unshared, Resumed
  <2> QED BY <2>1, <2>2, FrameSame, UnsharedKept DEF Inv
<1> QED BY <1>1, <1>2, <1>3, <1>4, <1>5 DEF Next

\* No two FloatingIP objects carry the same address (sync of the claim
\* controller, deleteFloatingIPNode, the FloatingIP delete handler), across
\* failing calls, changing pods and nodes, new claims and restarts: the
\* allocator of a claim knows every address in use or handed back later, or it
\* is filled from the FloatingIPs that exist before it hands one out.
THEOREM FloatingIPsStayUnique ==
  ASSUME WellFormed PROVE Spec => []UniqueFloatingIPs
<1>1. Init => (Quiet => Unshared)
  BY UnsharedInit
<1>2. Inv /\ (Quiet => Unshared) /\ [Next]_vars => (Quiet => Unshared)'
  <2> SUFFICES ASSUME Inv, Quiet => Unshared, [Next]_vars, Quiet' PROVE Unshared'
    OBVIOUS
  <2>1. Quiet
    BY StaysQuiet
  <2> QED BY <2>1, UnsharedNext
<1>3. (Quiet => Unshared) => UniqueFloatingIPs
  BY DEF UniqueFloatingIPs, Quiet, Unshared, Placed, Pool
<1> QED BY <1>1, <1>2, <1>3, FloatingIPsInvariant, PTL DEF Spec
=============================================================================
