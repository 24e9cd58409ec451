----------------------------- MODULE PodsProofs -----------------------------
(***************************************************************************)
(* The addresses of the pods of a node, for any number of names, of pods   *)
(* and of addresses.  First, as long as no call to OVN or to the API       *)
(* server fails: the argument follows each name through the stages of its  *)
(* pod and shows that at every stage exactly one thread or one entry of    *)
(* the port cache is answerable for its address.  Then, whatever fails:    *)
(* the threads of one port stay apart and a connected pod keeps its        *)
(* address, because a thread that finds a port offers no other one.        *)
(***************************************************************************)
EXTENDS Pods, TLAPS

\* The node was there before its pods, no call fails, the master does not
\* restart, and a name is used again once its last port left the cache.
Undisturbed == /\ MaxFaults = 0 /\ MaxRestarts = 0
               /\ ~NodeLate /\ Reuse = "expired"

Steady == /\ boot = "run" /\ switch /\ joined /\ todo = {}
          /\ restarts = 0 /\ faults = 0
          /\ th["node"] = Idle

\* iterateRetryPods is setting up the port of n.
RetryOn(n) == th["retry"].pc \notin {"idle", "iterate"} /\ retryKey[1] = n

\* The thread that works on the port of n, if any does.
Worker(n) == IF RetryOn(n) THEN "retry" ELSE n
Job(n)    == th[Worker(n)]

InRetryList(n) == \E u \in UIDs : u[1] = n /\ retryPods[u] # None

\* The handler has been told of the pod and not yet of its deletion.
Known(n) == (store[n] # None \/ queue[n] # None) /\ ~(queue[n] # None /\ queue[n].type = "add")

\* The copies of the pod in the API server, in the store and in the queue are
\* annotated with an address of S, or not at all.
CopiesIn(n, S) ==
  /\ pod[n] # None => pod[n].ann \in S
  /\ store[n] # None => store[n].ann \in S
  /\ queue[n] # None => queue[n].obj.ann \in S

\* The pod, and what the informer knows of it, is scheduled.
Scheduled(n) == /\ pod[n] # None => pod[n].sched
                /\ store[n] # None => store[n].sched

\* What is known of n is about one pod, and no older than the store allows.
Own(n) ==
  /\ pod[n] # None => pod[n].uid = <<n, created[n]>>
  /\ store[n] # None => store[n].uid = <<n, created[n]>> /\ (store[n].sched => Scheduled(n))
  /\ queue[n] # None =>
       /\ queue[n].obj.uid = <<n, created[n]>>
       /\ IF queue[n].type = "delete" THEN store[n] = None /\ pod[n] = None
          ELSE store[n] = queue[n].obj
  /\ th[n].obj # None =>
       /\ th[n].obj \in PodObj /\ th[n].obj.uid = <<n, created[n]>>
       /\ th[n].obj.sched => Scheduled(n)
  /\ \A u \in UIDs : u[1] = n /\ retryPods[u] # None =>
       /\ retryPods[u] \in PodObj /\ retryPods[u].uid = u /\ u = <<n, created[n]>>
       /\ retryPods[u].ann = None /\ (retryPods[u].sched => Scheduled(n))

\* retryPodsLock keeps the list as the iteration found it.
RetryLoop ==
  /\ \A u \in due : retryPods[u] # None
  /\ th["retry"].pc = "idle" => due = {}
  /\ th["retry"].pc \notin {"idle", "iterate"} =>
       /\ retryKey \in UIDs \ due /\ retryPods[retryKey] # None
       /\ th["retry"].obj = retryPods[retryKey]

-----------------------------------------------------------------------------
(* The stages of a name. *)

\* The handler knows of no pod; one may have been created.
Unknown(n) ==
  /\ store[n] = None /\ queue[n] = None /\ th[n] = Idle /\ ~InRetryList(n)
  /\ lsp[n] = None
  /\ portCache[n] # None => portCache[n].expires
  /\ pod[n] # None => pod[n].ann = None /\ portCache[n] = None

Blank(n) == lsp[n] = None /\ portCache[n] = None /\ CopiesIn(n, {None})

\* The add event is queued.
Announced(n) ==
  /\ queue[n] # None /\ queue[n].type = "add"
  /\ th[n] = Idle /\ ~InRetryList(n) /\ Blank(n)

\* The pod waits in the retry list.
Listed(n) ==
  Known(n) /\ th[n] = Idle /\ ~RetryOn(n) /\ InRetryList(n) /\ Blank(n)

\* Who works on the port of a known pod: a handler that took the pod from the
\* retry list, or the loop while the handler is idle.
InCharge(n) == /\ Known(n) /\ Job(n).obj # None /\ Job(n).seen = FALSE
               /\ IF RetryOn(n) THEN th[n] = Idle ELSE ~InRetryList(n)

\* addLogicalPort before SetAnnotationsOnPod, or a handler about to track the pod.
Adding(n) ==
  /\ InCharge(n) /\ Blank(n)
  /\ Job(n).obj.ann = None
  /\ \/ Job(n).pc = "track" /\ Job(n).ip = None /\ ~RetryOn(n)
     \/ Job(n).pc \in {"wait", "get", "addr", "assign"} /\ Job(n).ip = None /\ Job(n).obj.sched
     \/ Job(n).pc = "annotate" /\ Job(n).ip # None /\ Job(n).obj.sched

\* addLogicalPort after it.
Finishing(n) ==
  /\ InCharge(n) /\ Scheduled(n) /\ portCache[n] = None
  /\ Job(n).ip # None /\ CopiesIn(n, {None, Job(n).ip})
  /\ pod[n] # None => pod[n].ann = Job(n).ip
  /\ \/ Job(n).pc = "execute" /\ lsp[n] = None
     \/ Job(n).pc = "cache" /\ lsp[n] = Job(n).ip

\* addLogicalPort has succeeded.
Plugged(n) ==
  /\ Known(n) /\ th[n] = Idle /\ ~InRetryList(n) /\ Scheduled(n)
  /\ portCache[n] # None /\ ~portCache[n].expires
  /\ lsp[n] = portCache[n].ip /\ CopiesIn(n, {None, portCache[n].ip})
  /\ pod[n] # None => pod[n].ann = portCache[n].ip

\* deleteLogicalPort
Deleting(n) ==
  /\ pod[n] = None /\ store[n] = None /\ queue[n] = None /\ ~InRetryList(n)
  /\ th[n].obj # None
  /\ th[n].seen = (portCache[n] # None)
  /\ portCache[n] # None => ~portCache[n].expires
  /\ th[n].ip = IF portCache[n] = None THEN None ELSE portCache[n].ip
  /\ \/ th[n].pc = "lspdel" /\ lsp[n] = th[n].ip
     \/ th[n].pc = "release" /\ lsp[n] = None
     \/ th[n].pc = "uncache" /\ lsp[n] = None /\ th[n].seen

Stage(n) == \/ Unknown(n) \/ Announced(n) \/ Listed(n) \/ Adding(n)
            \/ Finishing(n) \/ Plugged(n) \/ Deleting(n)

\* The address that the stage of n is answerable for.
Address(n) ==
  IF Job(n).pc \in {"annotate", "execute", "cache"} THEN Job(n).ip
  ELSE IF portCache[n] # None /\ ~portCache[n].expires /\ Job(n).pc # "uncache"
  THEN portCache[n].ip ELSE None

\* The IPAM holds these addresses and no other, each once.
Accounted ==
  /\ ipam = {Address(n) : n \in Names} \ {None}
  /\ \A m, n \in Names : m # n /\ Address(m) # None => Address(m) # Address(n)

Inv == /\ TypeOK /\ Steady /\ RetryLoop /\ Accounted
       /\ \A n \in Names : Own(n) /\ Stage(n)

-----------------------------------------------------------------------------
LEMMA UIDFacts ==
  /\ \A u \in UIDs : u[1] \in Names /\ u = <<u[1], u[2]>>
  /\ \A n \in Names, k \in 1 .. MaxUIDs : <<n, k>> \in UIDs /\ <<n, k>>[1] = n
BY DEF UIDs

LEMMA ThreadFacts ==
  /\ "retry" \in Threads /\ "node" \in Threads /\ Names \subseteq Threads
  /\ "retry" \notin Names /\ "node" \notin Names
  /\ \A pc, o : LET r == Thread(pc, o)
                IN  r.pc = pc /\ r.obj = o /\ r.seen = FALSE /\ r.ip = None
  /\ Idle.pc = "idle" /\ Idle.obj = None /\ Idle.seen = FALSE /\ Idle.ip = None
BY ThreadsAssumption DEF Threads, Thread, Idle

ThreadStates == [pc : PCs, obj : PodObj \cup {None, Alias}, seen : BOOLEAN, ip : IPs \cup {None}]

LEMMA ThreadTypes ==
  /\ \A pc \in PCs, o \in PodObj \cup {None, Alias} : Thread(pc, o) \in ThreadStates
  /\ Idle \in ThreadStates
BY DEF Thread, ThreadStates, Idle, PCs

\* The part of the state that Own and Stage look at is unchanged for m.
Same(m) ==
  /\ pod'[m] = pod[m] /\ created'[m] = created[m] /\ store'[m] = store[m] /\ queue'[m] = queue[m]
  /\ lsp'[m] = lsp[m] /\ portCache'[m] = portCache[m] /\ th'[m] = th[m]
  /\ \A u \in UIDs : u[1] = m => retryPods'[u] = retryPods[u]
  /\ RetryOn(m)' <=> RetryOn(m)
  /\ RetryOn(m) => th'["retry"] = th["retry"]

LEMMA Frame ==
  ASSUME NEW m \in Names, Same(m)
  PROVE  /\ Own(m) => Own(m)'
         /\ Stage(m) => Stage(m)'
         /\ Address(m)' = Address(m)
<1>1. Job(m)' = Job(m)
  BY DEF Job, Worker, Same
<1>2. InRetryList(m)' <=> InRetryList(m)
  BY DEF InRetryList, Same
<1>3. Own(m) => Own(m)'
  BY DEF Own, Scheduled, Same
<1>4. /\ Known(m)' <=> Known(m)
      /\ Blank(m)' <=> Blank(m)
      /\ Scheduled(m)' <=> Scheduled(m)
      /\ \A S : CopiesIn(m, S)' <=> CopiesIn(m, S)
  BY DEF Known, Blank, Scheduled, CopiesIn, Same
<1>5. InCharge(m)' <=> InCharge(m)
  BY <1>1, <1>2, <1>4 DEF InCharge, Same
<1>6. Unknown(m) => Unknown(m)'
  BY <1>2 DEF Unknown, Same
<1>7. Announced(m) => Announced(m)'
  BY <1>2, <1>4 DEF Announced, Same
<1>8. Listed(m) => Listed(m)'
  BY <1>2, <1>4 DEF Listed, Same
<1>9. Adding(m) => Adding(m)'
  BY <1>1, <1>4, <1>5 DEF Adding, Same
<1>10. Finishing(m) => Finishing(m)'
  BY <1>1, <1>4, <1>5 DEF Finishing, CopiesIn, Same
<1>11. Plugged(m) => Plugged(m)'
  BY <1>2, <1>4 DEF Plugged, CopiesIn, Same
<1>12. Deleting(m) => Deleting(m)'
  BY <1>2 DEF Deleting, Same
<1>13. Address(m)' = Address(m)
  BY <1>1 DEF Address, Same
<1> QED  BY <1>3, <1>6, <1>7, <1>8, <1>9, <1>10, <1>11, <1>12, <1>13 DEF Stage

\* A step that concerns the name n at most keeps the account of addresses when n
\* keeps its address, takes a free one or gives its own back.
LEMMA LocalStep ==
  ASSUME Inv, NEW n \in Names,
         \A m \in Names \ {n} : Same(m),
         TypeOK', Steady', RetryLoop', Own(n)', Stage(n)',
         \/ Address(n)' = Address(n) /\ ipam' = ipam
         \/ Address(n) = None /\ Address(n)' \notin ipam \cup {None} /\ ipam' = ipam \cup {Address(n)'}
         \/ Address(n)' = None /\ ipam' = ipam \ {Address(n)}
  PROVE  Inv'
<1>1. \A m \in Names \ {n} : Own(m)' /\ Stage(m)' /\ Address(m)' = Address(m)
  BY Frame DEF Inv
<1>2. \A m \in Names : Address(m) # None => Address(m) \in ipam
  BY DEF Inv, Accounted
<1>3. \A m, k \in Names : m # k /\ Address(m) # None => Address(m) # Address(k)
  BY DEF Inv, Accounted
<1>4. ipam = {Address(m) : m \in Names} \ {None}
  BY DEF Inv, Accounted
<1>5. ASSUME NEW m \in Names, NEW k \in Names, m # k, Address(m)' # None
      PROVE  Address(m)' # Address(k)'
  BY <1>1, <1>2, <1>3, <1>5
<1>6. ipam' = {Address(m)' : m \in Names} \ {None}
  <2>1. \A a : a \in ipam' => a # None /\ \E m \in Names : a = Address(m)'
    <3> SUFFICES ASSUME NEW a, a \in ipam' PROVE a # None /\ \E m \in Names : a = Address(m)'
      OBVIOUS
    <3>1. CASE a \in ipam
      <4>1. PICK m \in Names : a = Address(m) /\ a # None
        BY <1>4, <3>1
      <4> QED  BY <1>1, <1>3, <4>1
    <3>2. CASE a \notin ipam
      BY <3>2
    <3> QED  BY <3>1, <3>2
  <2>2. \A m \in Names : Address(m)' # None => Address(m)' \in ipam'
    BY <1>1, <1>2, <1>3
  <2> QED  BY <2>1, <2>2
<1>7. Accounted'
  BY <1>5, <1>6 DEF Accounted
<1> QED  BY <1>1, <1>7 DEF Inv

\* A step that concerns no name.
LEMMA IdleStep ==
  ASSUME Inv, \A m \in Names : Same(m), UNCHANGED ipam, TypeOK', Steady', RetryLoop'
  PROVE  Inv'
<1>1. \A m \in Names : Own(m)' /\ Stage(m)' /\ Address(m)' = Address(m)
  BY Frame DEF Inv
<1>2. Accounted'
  BY <1>1 DEF Inv, Accounted
<1> QED  BY <1>1, <1>2 DEF Inv

-----------------------------------------------------------------------------
(* Which stage a name is in. *)

LEMMA RetryOnIsListed ==
  ASSUME Inv, NEW n \in Names, RetryOn(n)
  PROVE  InRetryList(n) /\ th[n] = Idle /\ Worker(n) = "retry" /\ retryKey = <<n, created[n]>>
<1>1. retryKey \in UIDs /\ retryPods[retryKey] # None /\ retryKey[1] = n
  BY DEF Inv, RetryLoop, RetryOn
<1>2. InRetryList(n) /\ retryKey = <<n, created[n]>>
  BY <1>1 DEF InRetryList, Inv, Own
<1>3. th[n] = Idle
  BY <1>2 DEF Inv, Stage, Unknown, Announced, Listed, Adding, Finishing, Plugged, Deleting, InCharge
<1> QED  BY <1>2, <1>3 DEF Worker

\* No thread works on the port of n.
LEMMA NobodyWorks ==
  ASSUME Inv, NEW n \in Names, th[n].pc = "idle", ~RetryOn(n)
  PROVE  /\ Unknown(n) \/ Announced(n) \/ Listed(n) \/ Plugged(n)
         /\ th[n] = Idle
<1>1. Job(n) = th[n]
  BY DEF Job, Worker
<1> QED  BY <1>1 DEF Inv, Stage, Adding, Finishing, Deleting, Unknown, Announced, Listed, Plugged

LEMMA EntryIsListed ==
  ASSUME Inv, NEW n \in Names, InRetryList(n), ~RetryOn(n)
  PROVE  Listed(n)
BY DEF Inv, Stage, Unknown, Announced, Adding, Finishing, Plugged, Deleting, InCharge

LEMMA DeleterDeletes ==
  ASSUME Inv, NEW n \in Names, th[n].pc \in {"lspdel", "release", "uncache"}
  PROVE  Deleting(n) /\ ~RetryOn(n) /\ Job(n) = th[n]
<1>1. ~RetryOn(n)
  BY RetryOnIsListed, ThreadFacts
<1>2. Job(n) = th[n]
  BY <1>1 DEF Job, Worker
<1> QED  BY <1>1, <1>2, ThreadFacts
         DEF Inv, Stage, Unknown, Announced, Listed, Adding, Finishing, Plugged

AddPCs == {"wait", "get", "addr", "reserve", "assign", "annotate", "execute", "cache", "track"}

\* A thread in addLogicalPort, or about to track its pod, works for one name.
LEMMA AdderAdds ==
  ASSUME Inv, NEW t \in Threads, th[t].pc \in AddPCs
  PROVE  \E n \in Names :
           /\ Worker(n) = t /\ Job(n) = th[t] /\ (Adding(n) \/ Finishing(n))
           /\ Pod(t) = th[t].obj /\ th[t].obj \in PodObj /\ th[t].obj.uid = <<n, created[n]>>
           /\ Port(t) = n
           /\ th[t].obj.sched => Scheduled(n)
           /\ t = "retry" \/ t = n
<1>1. t # "node"
  BY ThreadFacts DEF Inv, Steady, AddPCs
<1>2. CASE t = "retry"
  <2>1. retryKey \in UIDs /\ retryPods[retryKey] # None /\ th[t].obj = retryPods[retryKey]
    BY <1>2 DEF Inv, RetryLoop, AddPCs
  <2> DEFINE n == retryKey[1]
  <2>2. n \in Names /\ RetryOn(n)
    BY <1>2, <2>1, UIDFacts DEF RetryOn, AddPCs
  <2>3. /\ retryPods[retryKey] \in PodObj /\ retryPods[retryKey].uid = <<n, created[n]>>
        /\ retryPods[retryKey].sched => Scheduled(n)
    BY <2>1, <2>2 DEF Inv, Own
  <2>4. Worker(n) = t /\ Job(n) = th[t] /\ InRetryList(n)
    BY <1>2, <2>2, RetryOnIsListed DEF Job
  <2>5. Adding(n) \/ Finishing(n)
    BY <2>2, <2>4 DEF Inv, Stage, Unknown, Announced, Listed, Plugged, Deleting
  <2>6. Pod(t) = th[t].obj /\ Port(t) = n
    BY <2>1, <2>3, NoneAssumption DEF Pod, Port, NameOf
  <2> QED  BY <1>2, <2>1, <2>2, <2>3, <2>4, <2>5, <2>6
<1>3. CASE t \in Names
  <2>1. ~RetryOn(t)
    BY <1>3, RetryOnIsListed, ThreadFacts DEF AddPCs
  <2>2. Worker(t) = t /\ Job(t) = th[t]
    BY <2>1 DEF Worker, Job
  <2>3. Adding(t) \/ Finishing(t)
    BY <1>3, <2>2, ThreadFacts DEF Inv, Stage, Unknown, Announced, Listed, Plugged, Deleting, AddPCs
  <2>4. th[t].obj # None
    BY <1>3, <2>2, <2>3 DEF Adding, Finishing, InCharge
  <2>5. /\ th[t].obj \in PodObj /\ th[t].obj.uid = <<t, created[t]>>
        /\ th[t].obj.sched => Scheduled(t)
    BY <1>3, <2>4 DEF Inv, Own
  <2>6. Pod(t) = th[t].obj /\ Port(t) = t
    BY <2>5, NoneAssumption DEF Pod, Port, NameOf
  <2> QED  BY <1>3, <2>2, <2>3, <2>5, <2>6
<1> QED  BY <1>1, <1>2, <1>3 DEF Threads

-----------------------------------------------------------------------------
(* The API server and the informer. *)

\* Only the pod of n changes: it is scheduled or deleted.
LEMMA PodChange ==
  ASSUME Inv, NEW n \in Names, NEW x \in PodObj \cup {None},
         pod[n] # None, pod' = [pod EXCEPT ![n] = x],
         x # None => x.uid = pod[n].uid /\ x.ann = pod[n].ann /\ x.sched,
         UNCHANGED <<created, informer, lsp, mem, retry, loop, th, phase, faults>>
  PROVE  Inv'
<1> USE DEF informer, mem, retry, loop, phase
<1>1. TypeOK'
  BY DEF Inv, TypeOK
<1>2. Steady' /\ RetryLoop'
  BY DEF Inv, Steady, RetryLoop
<1>3. pod'[n] = x /\ \A m \in Names \ {n} : pod'[m] = pod[m]
  BY DEF Inv, TypeOK
<1>4. \A m \in Names : RetryOn(m)' <=> RetryOn(m)
  BY DEF RetryOn
<1>5. \A m \in Names \ {n} : Same(m)
  BY <1>3, <1>4 DEF Same
<1>6. Job(n)' = Job(n) /\ (InRetryList(n)' <=> InRetryList(n)) /\ (Known(n)' <=> Known(n))
  BY <1>4 DEF Job, Worker, InRetryList, Known
<1>7. Scheduled(n) => Scheduled(n)'
  BY <1>3 DEF Scheduled
<1>8. Own(n)'
  BY <1>3, <1>7 DEF Inv, Own
<1>9. \A S : CopiesIn(n, S) => CopiesIn(n, S)'
  BY <1>3 DEF CopiesIn
<1>10. Stage(n)'
  <2>1. Unknown(n) => Unknown(n)'
    BY <1>3, <1>6 DEF Unknown
  <2>2. Blank(n) => Blank(n)'
    BY <1>9 DEF Blank
  <2>3. Announced(n) => Announced(n)'
    BY <1>6, <2>2 DEF Announced
  <2>4. Listed(n) => Listed(n)'
    BY <1>4, <1>6, <2>2 DEF Listed
  <2>5. InCharge(n) => InCharge(n)'
    BY <1>4, <1>6 DEF InCharge
  <2>6. Adding(n) => Adding(n)'
    BY <1>4, <1>6, <2>2, <2>5 DEF Adding
  <2>7. Finishing(n) => Finishing(n)'
    BY <1>3, <1>6, <1>7, <2>5 DEF Finishing, CopiesIn
  <2>8. Plugged(n) => Plugged(n)'
    BY <1>3, <1>6, <1>7 DEF Plugged, CopiesIn
  <2>9. ~Deleting(n)
    BY DEF Deleting
  <2> QED  BY <2>1, <2>3, <2>4, <2>6, <2>7, <2>8, <2>9 DEF Inv, Stage
<1>11. Address(n)' = Address(n)
  BY <1>6 DEF Address
<1> QED  BY <1>1, <1>2, <1>5, <1>8, <1>10, <1>11, LocalStep

LEMMA CreatePodInv ==
  ASSUME Undisturbed, Inv, NEW n \in Names, NEW s \in BOOLEAN, CreatePod(n, s)
  PROVE  Inv'
<1> USE DEF informer, mem, retry, loop, phase
<1> DEFINE x == [uid |-> <<n, created[n] + 1>>, sched |-> s, ann |-> None]
<1>1. /\ created[n] < MaxUIDs /\ pod[n] = None /\ store[n] = None /\ queue[n] = None
      /\ th[n].pc = "idle" /\ portCache[n] = None
      /\ UNCHANGED <<informer, lsp, mem, retry, loop, th, phase, faults>>
      /\ created' = [created EXCEPT ![n] = created[n] + 1]
  BY DEF CreatePod, MayCreate, Undisturbed, At, Forgotten, Flag
<1>2. created[n] + 1 \in 1 .. MaxUIDs /\ created'[n] = created[n] + 1
  BY <1>1, BoundsAssumption DEF Inv, TypeOK
<1>3. pod' = [pod EXCEPT ![n] = x] /\ x \in PodObj
  BY <1>1, <1>2, UIDFacts DEF CreatePod, PodObj
<1>4. x # None /\ x.uid = <<n, created'[n]>> /\ x.ann = None
  BY <1>2, <1>3, NoneAssumption
<1> HIDE DEF x
<1>5. TypeOK'
  BY <1>1, <1>2, <1>3 DEF Inv, TypeOK
<1>6. Steady' /\ RetryLoop'
  BY <1>1 DEF Inv, Steady, RetryLoop
<1>7. pod'[n] = x /\ \A m \in Names \ {n} : pod'[m] = pod[m] /\ created'[m] = created[m]
  BY <1>1, <1>3 DEF Inv, TypeOK
<1>8. \A m \in Names : RetryOn(m)' <=> RetryOn(m)
  BY <1>1 DEF RetryOn
<1>9. \A m \in Names \ {n} : Same(m)
  BY <1>1, <1>7, <1>8 DEF Same
<1>10. Unknown(n) /\ ~RetryOn(n)
  <2>1. ~RetryOn(n)
    <3> SUFFICES ASSUME RetryOn(n) PROVE FALSE
      OBVIOUS
    <3>1. InRetryList(n)
      BY RetryOnIsListed
    <3> QED  BY <1>1, <3>1 DEF Inv, Stage, Unknown, Announced, Listed, Adding, Finishing, Plugged, Deleting,
                               InCharge, Known
  <2> QED  BY <1>1, <2>1, NobodyWorks DEF Announced, Listed, Plugged, Known
<1>11. Unknown(n)'
  BY <1>1, <1>4, <1>7, <1>10 DEF Unknown, InRetryList
<1>12. Own(n)'
  <2>1. \A u \in UIDs : u[1] = n => retryPods[u] = None
    BY <1>10 DEF Unknown, InRetryList
  <2> QED  BY <1>1, <1>4, <1>7, <1>10, <2>1, ThreadFacts DEF Own, Unknown
<1>13. Job(n)' = Job(n) /\ Address(n)' = Address(n)
  BY <1>1, <1>8 DEF Job, Worker, Address
<1> QED  BY <1>1, <1>5, <1>6, <1>9, <1>11, <1>12, <1>13, LocalStep DEF Stage

LEMMA SchedulePodInv ==
  ASSUME Inv, NEW n \in Names, SchedulePod(n) \/ DeletePod(n)
  PROVE  Inv'
<1>1. CASE SchedulePod(n)
  <2> DEFINE x == [pod[n] EXCEPT !.sched = TRUE]
  <2>1. pod[n] # None /\ pod[n] \in PodObj
    BY <1>1 DEF SchedulePod, Inv, TypeOK
  <2>2. x \in PodObj /\ x.uid = pod[n].uid /\ x.ann = pod[n].ann /\ x.sched
    BY <2>1 DEF PodObj
  <2>3. pod' = [pod EXCEPT ![n] = x]
    BY <1>1 DEF SchedulePod
  <2>4. UNCHANGED <<created, informer, lsp, mem, retry, loop, th, phase, faults>>
    BY <1>1 DEF SchedulePod
  <2> HIDE DEF x
  <2> QED  BY <2>1, <2>2, <2>3, <2>4, PodChange
<1>2. CASE DeletePod(n)
  <2>1. pod[n] # None /\ pod' = [pod EXCEPT ![n] = None]
        /\ UNCHANGED <<created, informer, lsp, mem, retry, loop, th, phase, faults>>
    BY <1>2 DEF DeletePod
  <2> QED  BY <2>1, PodChange
<1> QED  BY <1>1, <1>2

LEMMA DeliverInv ==
  ASSUME Inv, NEW n \in Names, Deliver(n)
  PROVE  Inv'
<1> USE DEF api, informer, mem, retry, loop, phase
<1> DEFINE e == Event(store[n], pod[n])
<1>1. store[n] # pod[n] /\ queue[n] = None /\ UNCHANGED <<api, lsp, mem, retry, loop, th, phase, faults>>
  BY DEF Deliver
<1>2. store' = [store EXCEPT ![n] = pod[n]] /\ queue' = [queue EXCEPT ![n] = e]
  <2>1. ~(store[n] # None /\ pod[n] # None /\ store[n].uid # pod[n].uid)
    BY DEF Inv, Own
  <2>2. boot = "run"
    BY DEF Inv, Steady
  <2> QED  BY <2>1, <2>2 DEF Deliver
<1>3. pod[n] \in PodObj \cup {None} /\ store[n] \in PodObj \cup {None}
  BY DEF Inv, TypeOK
<1>4. /\ e \in Events /\ e # None
      /\ e.obj = IF pod[n] = None THEN store[n] ELSE pod[n]
      /\ e.type = IF store[n] = None THEN "add" ELSE IF pod[n] = None THEN "delete" ELSE "update"
  <2>1. CASE store[n] = None
    BY <1>1, <1>3, <2>1, NoneAssumption DEF Event, Events
  <2>2. CASE store[n] # None /\ pod[n] = None
    BY <1>1, <1>3, <2>2, NoneAssumption DEF Event, Events
  <2>3. CASE store[n] # None /\ pod[n] # None
    BY <1>1, <1>3, <2>3, NoneAssumption DEF Event, Events
  <2> QED  BY <2>1, <2>2, <2>3
<1> HIDE DEF e
<1>5. TypeOK'
  BY <1>1, <1>2, <1>3, <1>4 DEF Inv, TypeOK
<1>6. Steady' /\ RetryLoop'
  BY <1>1 DEF Inv, Steady, RetryLoop
<1>7. /\ store'[n] = pod[n] /\ queue'[n] = e
      /\ \A m \in Names \ {n} : store'[m] = store[m] /\ queue'[m] = queue[m]
  BY <1>2 DEF Inv, TypeOK
<1>8. \A m \in Names : RetryOn(m)' <=> RetryOn(m)
  BY <1>1 DEF RetryOn
<1>9. \A m \in Names \ {n} : Same(m)
  BY <1>1, <1>7, <1>8 DEF Same
<1>10. Job(n)' = Job(n) /\ (InRetryList(n)' <=> InRetryList(n)) /\ Address(n)' = Address(n)
  BY <1>1, <1>8 DEF Job, Worker, InRetryList, Address
<1>11. /\ Scheduled(n) => Scheduled(n)'
       /\ \A S : CopiesIn(n, S) => CopiesIn(n, S)'
  BY <1>1, <1>4, <1>7 DEF Scheduled, CopiesIn
<1>12. Own(n)'
  <2>1. pod'[n] # None => pod'[n].uid = <<n, created'[n]>>
    BY <1>1 DEF Inv, Own
  <2>2. store'[n] # None => store'[n].uid = <<n, created'[n]>> /\ (store'[n].sched => Scheduled(n)')
    BY <1>1, <1>7, <2>1 DEF Scheduled
  <2>3. /\ queue'[n].obj.uid = <<n, created'[n]>>
        /\ IF queue'[n].type = "delete" THEN store'[n] = None /\ pod'[n] = None
           ELSE store'[n] = queue'[n].obj
    BY <1>1, <1>4, <1>7 DEF Inv, Own
  <2> QED  BY <1>1, <1>11, <2>1, <2>2, <2>3 DEF Inv, Own
<1>13. CASE store[n] = None
  <2>1. Unknown(n)
    BY <1>1, <1>13 DEF Inv, Stage, Unknown, Announced, Listed, Adding, Finishing, Plugged, Deleting,
                       InCharge, Known
  <2>2. Announced(n)'
    BY <1>1, <1>4, <1>7, <1>10, <1>13, <2>1 DEF Announced, Unknown, Blank, CopiesIn
  <2> QED  BY <1>1, <1>5, <1>6, <1>9, <1>10, <1>12, <2>2, LocalStep DEF Stage
<1>14. CASE store[n] # None
  <2>1. Known(n)'
    BY <1>4, <1>7, <1>14 DEF Known
  <2>2. Blank(n) => Blank(n)'
    BY <1>1, <1>11 DEF Blank
  <2>3. Listed(n) => Listed(n)'
    BY <1>1, <1>8, <1>10, <2>1, <2>2 DEF Listed
  <2>4. InCharge(n) => InCharge(n)'
    BY <1>1, <1>8, <1>10, <2>1 DEF InCharge
  <2>5. Adding(n) => Adding(n)'
    BY <1>1, <1>8, <1>10, <2>2, <2>4 DEF Adding
  <2>6. Finishing(n) => Finishing(n)'
    <3>1. CopiesIn(n, {None, Job(n).ip}) => CopiesIn(n, {None, Job(n).ip})'
      BY <1>10, <1>11 DEF CopiesIn
    <3> QED  BY <1>1, <1>10, <1>11, <2>4, <3>1 DEF Finishing
  <2>7. Plugged(n) => Plugged(n)'
    <3>1. CopiesIn(n, {None, portCache[n].ip}) => CopiesIn(n, {None, portCache[n].ip})'
      BY <1>1, <1>11 DEF CopiesIn
    <3> QED  BY <1>1, <1>10, <1>11, <2>1, <3>1 DEF Plugged
  <2>8. Stage(n)'
    BY <1>1, <1>14, <2>3, <2>5, <2>6, <2>7 DEF Inv, Stage, Unknown, Announced, Deleting
  <2> QED  BY <1>1, <1>5, <1>6, <1>9, <1>10, <1>12, <2>8, LocalStep
<1> QED  BY <1>13, <1>14

-----------------------------------------------------------------------------
(* The pod handler. *)

\* The handler of n takes its event and changes only its own thread and the
\* entry of its pod in the retry list.
LEMMA HandlerFrame ==
  ASSUME Inv, NEW n \in Names, \A s \in Threads \ {n} : th'[s] = th[s],
         \A m \in Names \ {n} :
           /\ pod'[m] = pod[m] /\ created'[m] = created[m] /\ store'[m] = store[m]
           /\ queue'[m] = queue[m] /\ lsp'[m] = lsp[m] /\ portCache'[m] = portCache[m],
         \A u \in UIDs : u[1] # n => retryPods'[u] = retryPods[u],
         UNCHANGED retryKey
  PROVE  /\ \A m \in Names \ {n} : Same(m)
         /\ th'["retry"] = th["retry"] /\ th'["node"] = th["node"]
         /\ \A m \in Names : RetryOn(m)' <=> RetryOn(m)
         /\ ~RetryOn(n) => Job(n) = th[n] /\ Job(n)' = th'[n]
<1>1. /\ th'["retry"] = th["retry"] /\ th'["node"] = th["node"]
      /\ \A m \in Names \ {n} : th'[m] = th[m]
  BY ThreadFacts
<1>2. \A m \in Names : RetryOn(m)' <=> RetryOn(m)
  BY <1>1 DEF RetryOn
<1>3. \A m \in Names \ {n} : Same(m)
  BY <1>1, <1>2, UIDFacts DEF Same
<1>4. ~RetryOn(n) => Job(n) = th[n] /\ Job(n)' = th'[n]
  BY <1>2 DEF Job, Worker
<1> QED  BY <1>1, <1>2, <1>3, <1>4

LEMMA OneThread ==
  ASSUME Inv, NEW t \in Threads, NEW r, th' = [th EXCEPT ![t] = r]
  PROVE  th'[t] = r /\ \A s \in Threads \ {t} : th'[s] = th[s]
BY DEF Inv, TypeOK

LEMMA PodAddInv ==
  ASSUME Inv, NEW n \in Names, PodAdd(n)
  PROVE  Inv'
<1> USE DEF api, informer, mem, retry, loop, phase
<1> DEFINE p == queue[n].obj
           r == Thread(EnsurePod(p), p)
<1>1. /\ th[n].pc = "idle" /\ queue[n] # None /\ queue[n].type = "add"
      /\ queue' = [queue EXCEPT ![n] = None] /\ th' = [th EXCEPT ![n] = r]
      /\ UNCHANGED <<api, store, lsp, mem, retry, loop, phase, faults>>
  BY DEF PodAdd, Take, At
<1>2. p \in PodObj /\ EnsurePod(p) \in PCs /\ p # None
  BY <1>1, NoneAssumption DEF Inv, TypeOK, Events, EnsurePod, PCs
<1>3. r \in ThreadStates
  BY <1>2, ThreadTypes
<1>4. r.pc = EnsurePod(p) /\ r.obj = p /\ r.seen = FALSE /\ r.ip = None
  BY ThreadFacts
<1> HIDE DEF r
<1>5. TypeOK'
  BY <1>1, <1>3, ThreadFacts DEF Inv, TypeOK, ThreadStates
<1>6. queue'[n] = None /\ \A m \in Names \ {n} : queue'[m] = queue[m]
  BY <1>1 DEF Inv, TypeOK
<1>7. /\ \A m \in Names \ {n} : Same(m)
      /\ th'[n] = r /\ th'["retry"] = th["retry"] /\ th'["node"] = th["node"]
      /\ \A m \in Names : RetryOn(m)' <=> RetryOn(m)
      /\ ~RetryOn(n) => Job(n) = th[n] /\ Job(n)' = r
  <2>1. th'[n] = r /\ \A s \in Threads \ {n} : th'[s] = th[s]
    BY <1>1, ThreadFacts, OneThread
  <2> QED  BY <1>1, <1>6, <2>1, HandlerFrame
<1>8. Announced(n)
  BY <1>1 DEF Inv, Stage, Unknown, Announced, Listed, Adding, Finishing, Plugged, Deleting,
              InCharge, Known
<1>9. ~RetryOn(n)
  BY <1>8, RetryOnIsListed DEF Announced
<1>10. Steady' /\ RetryLoop'
  BY <1>1, <1>7 DEF Inv, Steady, RetryLoop
<1>11. store[n] = p /\ p.ann = None
  BY <1>1, <1>8 DEF Inv, Own, Announced, Blank, CopiesIn
<1>12. Own(n)'
  BY <1>1, <1>2, <1>4, <1>6, <1>7, <1>11 DEF Inv, Own, Scheduled
<1>13. Adding(n)'
  <2>1. Known(n)' /\ Blank(n)'
    BY <1>1, <1>2, <1>6, <1>8, <1>11 DEF Known, Announced, Blank, CopiesIn
  <2>2. ~InRetryList(n)'
    BY <1>1, <1>8 DEF Announced, InRetryList
  <2> QED  BY <1>2, <1>4, <1>7, <1>9, <1>11, <2>1, <2>2 DEF Adding, InCharge, EnsurePod
<1>14. Address(n)' = Address(n)
  BY <1>1, <1>4, <1>7, <1>8, <1>9, <1>13 DEF Address, Announced, Blank, EnsurePod
<1> QED  BY <1>1, <1>5, <1>7, <1>10, <1>12, <1>13, <1>14, LocalStep DEF Stage

\* checkAndDeleteRetryPod leaves no entry of the name.
LEMMA WithoutEntryFacts ==
  ASSUME Inv, NEW n \in Names, retryPods' = WithoutEntry(<<n, created[n]>>),
         <<n, created[n]>> \in UIDs
  PROVE  /\ \A u \in UIDs : u[1] = n => retryPods'[u] = None
         /\ \A u \in UIDs : u[1] # n => retryPods'[u] = retryPods[u]
         /\ retryPods' \in [UIDs -> PodObj \cup {None, Alias}]
         /\ InRetryList(n) <=> retryPods[<<n, created[n]>>] # None
<1>1. \A u \in UIDs : u[1] = n /\ retryPods[u] # None => u = <<n, created[n]>>
  BY DEF Inv, Own
<1>2. <<n, created[n]>>[1] = n
  OBVIOUS
<1> QED  BY <1>1, <1>2 DEF WithoutEntry, Inv, TypeOK, InRetryList

LEMMA PodUpdateInv ==
  ASSUME Inv, NEW n \in Names, PodUpdate(n)
  PROVE  Inv'
<1> USE DEF api, informer, mem, retry, loop, phase
<1> DEFINE p == queue[n].obj
           r == CASE ~p.sched -> Thread("track", p)
                  [] p.sched /\ retryPods[p.uid] # None -> Thread("wait", p)
                  [] p.sched /\ retryPods[p.uid] = None -> Idle
<1>1. /\ th[n].pc = "idle" /\ queue[n] # None /\ queue[n].type = "update"
      /\ queue' = [queue EXCEPT ![n] = None] /\ th' = [th EXCEPT ![n] = r]
      /\ th["retry"].pc = "idle" /\ retryPods' = WithoutEntry(p.uid)
      /\ UNCHANGED <<api, store, lsp, mem, retryKey, due, loop, phase, faults>>
  BY DEF PodUpdate, Take, At, LockFree, Fault, Inv, Steady
<1>2. p \in PodObj /\ p # None /\ p.uid = <<n, created[n]>> /\ p.uid \in UIDs /\ p.sched \in BOOLEAN
  BY <1>1, NoneAssumption DEF Inv, TypeOK, Events, Own, PodObj
<1>3. store[n] = p
  BY <1>1 DEF Inv, Own
<1>4. /\ \A u \in UIDs : u[1] = n => retryPods'[u] = None
      /\ \A u \in UIDs : u[1] # n => retryPods'[u] = retryPods[u]
      /\ retryPods' \in [UIDs -> PodObj \cup {None, Alias}]
      /\ InRetryList(n) <=> retryPods[p.uid] # None
  BY <1>1, <1>2, WithoutEntryFacts
<1>5. /\ r \in ThreadStates
      /\ ~p.sched => r.pc = "track" /\ r.obj = p /\ r.seen = FALSE /\ r.ip = None
      /\ p.sched /\ retryPods[p.uid] # None => r.pc = "wait" /\ r.obj = p /\ r.seen = FALSE /\ r.ip = None
      /\ p.sched /\ retryPods[p.uid] = None => r = Idle
  <2>1. CASE ~p.sched
    <3>1. r = Thread("track", p)  BY <2>1
    <3>2. "track" \in PCs  BY DEF PCs
    <3> QED  BY <1>2, <2>1, <3>1, <3>2, ThreadTypes, ThreadFacts
  <2>2. CASE p.sched /\ retryPods[p.uid] # None
    <3>1. r = Thread("wait", p)  BY <2>2
    <3>2. "wait" \in PCs  BY DEF PCs
    <3> QED  BY <1>2, <2>2, <3>1, <3>2, ThreadTypes, ThreadFacts
  <2>3. CASE p.sched /\ retryPods[p.uid] = None
    <3>1. r = Idle  BY <2>3
    <3> QED  BY <2>3, <3>1, ThreadTypes
  <2> QED  BY <1>2, <2>1, <2>2, <2>3
<1> HIDE DEF r
<1>6. TypeOK'
  BY <1>1, <1>4, <1>5, ThreadFacts DEF Inv, TypeOK, ThreadStates
<1>7. queue'[n] = None /\ \A m \in Names \ {n} : queue'[m] = queue[m]
  BY <1>1 DEF Inv, TypeOK
<1>8. /\ \A m \in Names \ {n} : Same(m)
      /\ th'[n] = r /\ th'["retry"] = th["retry"] /\ th'["node"] = th["node"]
      /\ \A m \in Names : RetryOn(m)' <=> RetryOn(m)
      /\ ~RetryOn(n) => Job(n) = th[n] /\ Job(n)' = r
  <2>1. th'[n] = r /\ \A s \in Threads \ {n} : th'[s] = th[s]
    BY <1>1, ThreadFacts, OneThread
  <2> QED  BY <1>1, <1>4, <1>7, <2>1, HandlerFrame
<1>9. ~RetryOn(n)
  BY <1>1 DEF RetryOn
<1>10. Steady' /\ RetryLoop'
  BY <1>1, <1>8 DEF Inv, Steady, RetryLoop
<1>11. Listed(n) \/ Plugged(n)
  BY <1>1, <1>9, NobodyWorks DEF Unknown, Announced
<1>12. Known(n)'
  BY <1>1, <1>2, <1>3, <1>7 DEF Known
<1>13. ~InRetryList(n)'
  BY <1>4 DEF InRetryList
<1>14. Own(n)'
  <2>1. r.obj = None \/ r.obj = p
    BY <1>2, <1>5, ThreadFacts
  <2>2. store[n].sched => Scheduled(n)
    BY <1>2, <1>3 DEF Inv, Own
  <2> QED  BY <1>1, <1>2, <1>3, <1>4, <1>7, <1>8, <2>1, <2>2 DEF Inv, Own, Scheduled
<1>15. CASE Listed(n)
  <2>1. Blank(n) /\ Blank(n)' /\ p.ann = None
    BY <1>1, <1>7, <1>15 DEF Listed, Blank, CopiesIn
  <2>2. retryPods[p.uid] # None
    BY <1>4, <1>15 DEF Listed
  <2>3. Adding(n)'
    BY <1>2, <1>5, <1>8, <1>9, <1>12, <1>13, <2>1, <2>2 DEF Adding, InCharge
  <2>4. Address(n)' = Address(n)
    BY <1>1, <1>2, <1>5, <1>8, <1>9, <2>1, <2>2 DEF Address, Blank
  <2> QED  BY <1>1, <1>6, <1>8, <1>10, <1>14, <2>3, <2>4, LocalStep DEF Stage
<1>16. CASE Plugged(n)
  <2>1. p.sched /\ retryPods[p.uid] = None
    BY <1>2, <1>3, <1>4, <1>16 DEF Plugged, Scheduled
  <2>2. r = Idle
    BY <1>5, <2>1
  <2>3. Plugged(n)'
    BY <1>1, <1>7, <1>8, <1>12, <1>13, <1>16, <2>2 DEF Plugged, Scheduled, CopiesIn
  <2>4. Address(n)' = Address(n)
    BY <1>1, <1>8, <1>9, <2>2, ThreadFacts DEF Address
  <2> QED  BY <1>1, <1>6, <1>8, <1>10, <1>14, <2>3, <2>4, LocalStep DEF Stage
<1> QED  BY <1>11, <1>15, <1>16

LEMMA PodDeleteInv ==
  ASSUME Inv, NEW n \in Names, PodDelete(n)
  PROVE  Inv'
<1> USE DEF api, informer, mem, retry, loop, phase
<1> DEFINE p == queue[n].obj
           hit == portCache[n] # None
           r == [pc |-> "lspdel", obj |-> p, seen |-> hit,
                 ip |-> IF hit THEN portCache[n].ip ELSE IF p.sched THEN p.ann ELSE None]
<1>1. /\ th[n].pc = "idle" /\ queue[n] # None /\ queue[n].type = "delete"
      /\ queue' = [queue EXCEPT ![n] = None] /\ th' = [th EXCEPT ![n] = r]
      /\ th["retry"].pc = "idle" /\ retryPods' = WithoutEntry(p.uid)
      /\ UNCHANGED <<api, store, lsp, mem, retryKey, due, loop, phase, faults>>
  BY DEF PodDelete, Take, At, LockFree
<1>2. p \in PodObj /\ p # None /\ p.uid = <<n, created[n]>> /\ p.uid \in UIDs
  BY <1>1, NoneAssumption DEF Inv, TypeOK, Events, Own, PodObj
<1>3. store[n] = None /\ pod[n] = None
  BY <1>1 DEF Inv, Own
<1>4. /\ \A u \in UIDs : u[1] = n => retryPods'[u] = None
      /\ \A u \in UIDs : u[1] # n => retryPods'[u] = retryPods[u]
      /\ retryPods' \in [UIDs -> PodObj \cup {None, Alias}]
  BY <1>1, <1>2, WithoutEntryFacts
<1>5. ~RetryOn(n)
  BY <1>1 DEF RetryOn
<1>6. Listed(n) \/ Plugged(n)
  BY <1>1, <1>5, NobodyWorks DEF Unknown, Announced
<1>7. ~hit => p.ann = None /\ lsp[n] = None
  BY <1>1, <1>6 DEF Listed, Plugged, Blank, CopiesIn
<1>8. hit => portCache[n] \in PortInfos /\ ~portCache[n].expires /\ lsp[n] = portCache[n].ip
  BY <1>6 DEF Listed, Plugged, Blank, Inv, TypeOK
<1>9. r.pc = "lspdel" /\ r.obj = p /\ r.seen = hit /\ r.ip = IF hit THEN portCache[n].ip ELSE None
  BY <1>7
<1>10. r \in ThreadStates
  BY <1>2, <1>7, <1>8 DEF ThreadStates, PCs, PortInfos
<1> HIDE DEF r
<1>11. TypeOK'
  BY <1>1, <1>4, <1>10, ThreadFacts DEF Inv, TypeOK, ThreadStates
<1>12. queue'[n] = None /\ \A m \in Names \ {n} : queue'[m] = queue[m]
  BY <1>1 DEF Inv, TypeOK
<1>13. /\ \A m \in Names \ {n} : Same(m)
       /\ th'[n] = r /\ th'["retry"] = th["retry"] /\ th'["node"] = th["node"]
       /\ \A m \in Names : RetryOn(m)' <=> RetryOn(m)
       /\ ~RetryOn(n) => Job(n) = th[n] /\ Job(n)' = r
  <2>1. th'[n] = r /\ \A s \in Threads \ {n} : th'[s] = th[s]
    BY <1>1, ThreadFacts, OneThread
  <2> QED  BY <1>1, <1>4, <1>12, <2>1, HandlerFrame
<1>14. Steady' /\ RetryLoop'
  BY <1>1, <1>13 DEF Inv, Steady, RetryLoop
<1>15. Own(n)'
  BY <1>1, <1>2, <1>3, <1>4, <1>9, <1>12, <1>13 DEF Own, Scheduled
<1>16. ~InRetryList(n)'
  BY <1>4 DEF InRetryList
<1>17. Deleting(n)'
  BY <1>1, <1>2, <1>3, <1>7, <1>8, <1>9, <1>12, <1>13, <1>16 DEF Deleting
<1>18. Address(n)' = Address(n)
  BY <1>1, <1>5, <1>9, <1>13 DEF Address
<1> QED  BY <1>1, <1>11, <1>13, <1>14, <1>15, <1>17, <1>18, LocalStep DEF Stage

\* deleteLogicalPort: the port, the address, the cache.
LEMMA DeletePortInv ==
  ASSUME Inv, NEW n \in Names, OvnNBLSPDel(n) \/ ReleasePortIPs(n) \/ UncachePort(n)
  PROVE  Inv'
<1> USE DEF api, informer, mem, retry, loop, phase
<1>1. Deleting(n) /\ ~RetryOn(n) /\ Job(n) = th[n]
  BY DeleterDeletes DEF OvnNBLSPDel, ReleasePortIPs, UncachePort, At
<1>2. /\ th[n] \in ThreadStates /\ switch /\ faults = 0
      /\ portCache[n] # None => portCache[n] \in PortInfos
  BY ThreadFacts DEF Inv, TypeOK, Steady, ThreadStates
<1>3. /\ UNCHANGED <<api, informer, switch, retry, loop, phase, faults>>
      /\ \A m \in Names \ {n} : lsp'[m] = lsp[m] /\ portCache'[m] = portCache[m]
  <2>1. CASE OvnNBLSPDel(n)
    BY <1>2, <2>1 DEF OvnNBLSPDel, Fault, Inv, TypeOK
  <2>2. CASE ReleasePortIPs(n)
    BY <2>2 DEF ReleasePortIPs
  <2>3. CASE UncachePort(n)
    BY <2>3 DEF UncachePort, Inv, TypeOK
  <2> QED  BY <2>1, <2>2, <2>3
<1>4. ASSUME NEW r, th' = [th EXCEPT ![n] = r]  PROVE th'[n] = r /\ Job(n)' = r
  <2>1. /\ UNCHANGED retryKey
        /\ \A u \in UIDs : u[1] # n => retryPods'[u] = retryPods[u]
        /\ \A m \in Names \ {n} :
             /\ pod'[m] = pod[m] /\ created'[m] = created[m] /\ store'[m] = store[m]
             /\ queue'[m] = queue[m] /\ lsp'[m] = lsp[m] /\ portCache'[m] = portCache[m]
    BY <1>3
  <2>2. th'[n] = r /\ \A s \in Threads \ {n} : th'[s] = th[s]
    BY <1>4, ThreadFacts, OneThread
  <2> QED  BY <1>1, <2>1, <2>2, HandlerFrame
<1>5. ASSUME NEW r \in ThreadStates, th' = [th EXCEPT ![n] = r], r.obj \in {None, th[n].obj},
             lsp' \in [Names -> IPs \cup {None}],
             portCache' \in [Names -> PortInfos \cup {None}], ipam' \subseteq IPs,
             th'[n] = r => Deleting(n)' \/ Unknown(n)',
             \/ Address(n)' = Address(n) /\ ipam' = ipam
             \/ Address(n)' = None /\ ipam' = ipam \ {Address(n)}
      PROVE  Inv'
  <2>1. TypeOK'
    BY <1>3, <1>5, ThreadFacts DEF Inv, TypeOK, ThreadStates
  <2>2. /\ \A m \in Names \ {n} : Same(m)
        /\ th'[n] = r /\ th'["retry"] = th["retry"] /\ th'["node"] = th["node"]
    <3>1. th'[n] = r /\ \A s \in Threads \ {n} : th'[s] = th[s]
      BY <1>5, ThreadFacts, OneThread
    <3> QED  BY <1>3, <3>1, HandlerFrame
  <2>3. Steady' /\ RetryLoop'
    BY <1>3, <2>2 DEF Inv, Steady, RetryLoop
  <2>4. Own(n)'
    BY <1>3, <1>5, <2>2 DEF Inv, Own, Scheduled
  <2> QED  BY <1>5, <2>1, <2>2, <2>3, <2>4, LocalStep DEF Stage
<1>6. CASE OvnNBLSPDel(n)
  <2> DEFINE r == [th[n] EXCEPT !.pc = "release"]
  <2>1. /\ th[n].pc = "lspdel" /\ lsp' = [lsp EXCEPT ![n] = None]
        /\ th' = [th EXCEPT ![n] = r] /\ UNCHANGED <<ipam, portCache>>
    BY <1>2, <1>6 DEF OvnNBLSPDel, Fault, At, Goto
  <2>2. r \in ThreadStates /\ r.pc = "release" /\ r.obj = th[n].obj /\ r.seen = th[n].seen /\ r.ip = th[n].ip
    BY <1>2 DEF ThreadStates, PCs
  <2> HIDE DEF r
  <2>3. lsp' \in [Names -> IPs \cup {None}] /\ lsp'[n] = None
    BY <2>1 DEF Inv, TypeOK
  <2>4. /\ portCache' \in [Names -> PortInfos \cup {None}] /\ ipam' \subseteq IPs
    BY <2>1 DEF Inv, TypeOK
  <2>5. th'[n] = r /\ Job(n)' = r
    BY <1>4, <2>1
  <2>6. Deleting(n)'
    BY <1>1, <1>3, <2>1, <2>2, <2>3, <2>5 DEF Deleting, InRetryList
  <2>7. Address(n)' = Address(n)
    BY <1>1, <2>1, <2>2, <2>5 DEF Address
  <2> QED  BY <1>5, <2>1, <2>2, <2>3, <2>4, <2>6, <2>7
<1>7. CASE ReleasePortIPs(n)
  <2> DEFINE r == IF th[n].seen THEN [th[n] EXCEPT !.pc = "uncache"] ELSE Idle
  <2>1. /\ th[n].pc = "release" /\ ipam' = ipam \ {th[n].ip}
        /\ th' = [th EXCEPT ![n] = r] /\ UNCHANGED <<lsp, portCache>>
    BY <1>2, <1>7 DEF ReleasePortIPs, Released, At
  <2>2. /\ r \in ThreadStates
        /\ th[n].seen => r.pc = "uncache" /\ r.obj = th[n].obj /\ r.seen = th[n].seen /\ r.ip = th[n].ip
        /\ ~th[n].seen => r = Idle
    BY <1>2, ThreadTypes DEF ThreadStates, PCs
  <2>3. r.obj \in {None, th[n].obj}
    BY <2>2, ThreadFacts
  <2> HIDE DEF r
  <2>4. /\ lsp' \in [Names -> IPs \cup {None}] /\ ipam' \subseteq IPs
        /\ portCache' \in [Names -> PortInfos \cup {None}]
    BY <2>1 DEF Inv, TypeOK
  <2>5. th'[n] = r /\ Job(n)' = r
    BY <1>4, <2>1
  <2>6. Deleting(n)' \/ Unknown(n)'
    BY <1>1, <1>3, <2>1, <2>2, <2>5 DEF Deleting, Unknown, InRetryList
  <2>7. Address(n) = th[n].ip
    BY <1>1, <2>1 DEF Address, Deleting
  <2>8. Address(n)' = None
    BY <1>1, <2>1, <2>2, <2>5, ThreadFacts DEF Address, Deleting
  <2> QED  BY <1>5, <2>1, <2>2, <2>3, <2>4, <2>6, <2>7, <2>8
<1>8. CASE UncachePort(n)
  <2>1. th[n].pc = "uncache" /\ portCache[n] # None
    BY <1>1, <1>8 DEF UncachePort, Deleting, At
  <2> DEFINE e == [portCache[n] EXCEPT !.expires = TRUE]
  <2>2. /\ portCache' = [portCache EXCEPT ![n] = e]
        /\ th' = [th EXCEPT ![n] = Idle] /\ UNCHANGED <<lsp, ipam>>
    BY <1>8, <2>1 DEF UncachePort
  <2>3. e \in PortInfos /\ e.expires
    BY <1>2, <2>1 DEF PortInfos
  <2> HIDE DEF e
  <2>4. portCache' \in [Names -> PortInfos \cup {None}] /\ portCache'[n] = e
    BY <2>2, <2>3 DEF Inv, TypeOK
  <2>5. lsp' \in [Names -> IPs \cup {None}] /\ ipam' \subseteq IPs
    BY <2>2 DEF Inv, TypeOK
  <2>6. th'[n] = Idle /\ Job(n)' = Idle
    BY <1>4, <2>2
  <2>7. Unknown(n)'
    BY <1>1, <1>3, <2>1, <2>2, <2>3, <2>4, <2>6 DEF Deleting, Unknown, InRetryList
  <2>8. Address(n)' = Address(n)
    BY <1>1, <2>1, <2>3, <2>4, <2>6, ThreadFacts DEF Address
  <2> QED  BY <1>5, <2>2, <2>4, <2>5, <2>7, <2>8, ThreadTypes, ThreadFacts
<1> QED  BY <1>6, <1>7, <1>8

LEMMA ExpirePortInv ==
  ASSUME Inv, NEW n \in Names, ExpirePort(n)
  PROVE  Inv'
<1> USE DEF api, informer, mem, retry, loop, phase
<1>1. /\ portCache[n] # None /\ portCache[n].expires /\ portCache' = [portCache EXCEPT ![n] = None]
      /\ UNCHANGED <<api, informer, lsp, switch, ipam, retry, loop, th, phase, faults>>
  BY DEF ExpirePort
<1>2. TypeOK' /\ Steady' /\ RetryLoop'
  BY <1>1 DEF Inv, TypeOK, Steady, RetryLoop
<1>3. portCache'[n] = None /\ \A m \in Names \ {n} : portCache'[m] = portCache[m]
  BY <1>1 DEF Inv, TypeOK
<1>4. \A m \in Names : RetryOn(m)' <=> RetryOn(m)
  BY <1>1 DEF RetryOn
<1>5. \A m \in Names \ {n} : Same(m)
  BY <1>1, <1>3, <1>4 DEF Same
<1>6. Unknown(n)
  BY <1>1 DEF Inv, Stage, Announced, Listed, Adding, Finishing, Plugged, Deleting, Blank
<1>7. Unknown(n)'
  BY <1>1, <1>3, <1>6 DEF Unknown, InRetryList
<1>8. Own(n)'
  BY <1>1 DEF Inv, Own, Scheduled
<1>9. Address(n)' = Address(n)
  <2>1. Job(n)' = Job(n)
    BY <1>1, <1>4 DEF Job, Worker
  <2> QED  BY <1>1, <1>3, <2>1 DEF Address
<1> QED  BY <1>1, <1>2, <1>5, <1>7, <1>8, <1>9, LocalStep DEF Stage

-----------------------------------------------------------------------------
(* The retry list. *)

LEMMA RetryBeginInv ==
  ASSUME Inv, (\E S \in SUBSET UIDs : RetryBegin(S)) \/ RetryEnd
  PROVE  Inv'
<1> USE DEF api, informer, mem, retry, loop, phase
<1>1. /\ UNCHANGED <<api, informer, lsp, mem, retryPods, loop, phase, faults>>
      /\ th["retry"].pc \in {"idle", "iterate"}
      /\ \E l \in {"idle", "iterate"} : th' = [th EXCEPT !["retry"].pc = l]
      /\ due' \in SUBSET UIDs /\ retryKey' \in UIDs \cup {None}
      /\ \A u \in due' : retryPods[u] # None
      /\ th'["retry"].pc = "idle" => due' = {}
  BY ThreadFacts DEF RetryBegin, RetryEnd, At, Goto, Inv, TypeOK, RetryLoop
<1>2. TypeOK'
  <2>1. \A l \in {"idle", "iterate"} : [th["retry"] EXCEPT !.pc = l] \in ThreadStates
    <3>1. th["retry"] \in ThreadStates
      BY ThreadFacts DEF Inv, TypeOK, ThreadStates
    <3> QED  BY <3>1 DEF ThreadStates, PCs
  <2>2. th' \in [Threads -> ThreadStates]
    <3>1. th \in [Threads -> ThreadStates]
      BY DEF Inv, TypeOK, ThreadStates
    <3> QED  BY <1>1, <2>1, <3>1
  <2> QED  BY <1>1, <2>2 DEF Inv, TypeOK, ThreadStates
<1>3. /\ th'["retry"].pc \in {"idle", "iterate"} /\ th'["node"] = th["node"]
      /\ \A m \in Names : th'[m] = th[m]
  BY <1>1, ThreadFacts DEF Inv, TypeOK
<1>4. Steady' /\ RetryLoop'
  BY <1>1, <1>3 DEF Inv, Steady, RetryLoop
<1>5. \A m \in Names : Same(m)
  BY <1>1, <1>3 DEF Same, RetryOn
<1> QED  BY <1>1, <1>2, <1>4, <1>5, IdleStep

LEMMA RetryNextInv ==
  ASSUME Inv, NEW u \in UIDs, RetryNext(u)
  PROVE  Inv'
<1> USE DEF api, informer, mem, retry, loop, phase
<1> DEFINE n == u[1]
           o == retryPods[u]
           r == Thread("wait", o)
<1>1. /\ UNCHANGED <<api, informer, lsp, mem, retryPods, loop, phase, faults>>
      /\ th["retry"].pc = "iterate" /\ u \in due
      /\ due' = due \ {u} /\ retryKey' = u
  BY DEF RetryNext, At
<1>2. n \in Names /\ o # None
  BY <1>1, UIDFacts DEF Inv, RetryLoop
<1>3. o \in PodObj /\ o.ann = None /\ o # Alias
  BY <1>2, NoneAssumption DEF Inv, Own
<1>4. th' = IF o.sched THEN [th EXCEPT !["retry"] = r] ELSE th
  BY <1>3 DEF RetryNext
<1>5. r \in ThreadStates /\ r.pc = "wait" /\ r.obj = o /\ r.seen = FALSE /\ r.ip = None
  BY <1>3, ThreadTypes, ThreadFacts DEF PCs
<1> HIDE DEF r
<1>6. TypeOK'
  BY <1>1, <1>4, <1>5, ThreadFacts DEF Inv, TypeOK, ThreadStates
<1>7. /\ th'["node"] = th["node"] /\ \A m \in Names : th'[m] = th[m]
      /\ th'["retry"] = IF o.sched THEN r ELSE th["retry"]
  BY <1>4, ThreadFacts DEF Inv, TypeOK
<1>8. Steady' /\ RetryLoop'
  BY <1>1, <1>2, <1>5, <1>7 DEF Inv, Steady, RetryLoop
<1>9. \A m \in Names \ {n} : Same(m)
  BY <1>1, <1>7 DEF Same, RetryOn
<1>10. ~RetryOn(n) /\ Listed(n)
  BY <1>1, <1>2, EntryIsListed DEF RetryOn, InRetryList
<1>11. CASE o.sched
  <2>1. RetryOn(n)' /\ Job(n)' = r
    BY <1>1, <1>5, <1>7, <1>11 DEF RetryOn, Job, Worker
  <2>2. Adding(n)'
    BY <1>1, <1>2, <1>3, <1>5, <1>7, <1>10, <1>11, <2>1
       DEF Adding, InCharge, Listed, Known, Blank, CopiesIn
  <2>3. Own(n)'
    BY <1>1, <1>2, <1>7 DEF Inv, Own, Scheduled
  <2>4. Address(n)' = Address(n)
    BY <1>1, <1>5, <1>10, <2>1, ThreadFacts DEF Address, Listed, Blank, Job, Worker
  <2> QED  BY <1>1, <1>2, <1>6, <1>8, <1>9, <2>2, <2>3, <2>4, LocalStep DEF Stage
<1>12. CASE ~o.sched
  <2>1. \A m \in Names : Same(m)
    BY <1>1, <1>7, <1>12 DEF Same, RetryOn
  <2> QED  BY <1>1, <1>6, <1>8, <2>1, IdleStep
<1> QED  BY <1>11, <1>12

\* addRetryPod: the handler hands its pod over to the retry list.
LEMMA AddRetryPodInv ==
  ASSUME Inv, NEW t \in Threads, AddRetryPod(t)
  PROVE  Inv'
<1> USE DEF api, informer, mem, retry, loop, phase
<1>1. /\ th[t].pc = "track" /\ th["retry"].pc = "idle"
      /\ UNCHANGED <<api, informer, lsp, mem, retryKey, due, loop, phase, faults>>
      /\ th' = [th EXCEPT ![t] = IF t = "node" THEN Thread("loop", None) ELSE Idle]
      /\ retryPods' = [retryPods EXCEPT ![Pod(t).uid] = th[t].obj]
  BY DEF AddRetryPod, At, LockFree
<1>2. PICK n \in Names :
        /\ Worker(n) = t /\ Job(n) = th[t] /\ (Adding(n) \/ Finishing(n))
        /\ Pod(t) = th[t].obj /\ th[t].obj \in PodObj /\ th[t].obj.uid = <<n, created[n]>>
        /\ Port(t) = n
        /\ th[t].obj.sched => Scheduled(n)
        /\ t = "retry" \/ t = n
  BY <1>1, AdderAdds DEF AddPCs
<1>3. t = n /\ t # "node" /\ ~RetryOn(n) /\ Adding(n)
  BY <1>1, <1>2, ThreadFacts DEF RetryOn, Finishing
<1> DEFINE o == th[n].obj
           u == <<n, created[n]>>
<1>4. /\ o \in PodObj /\ o # None /\ o.uid = u /\ u \in UIDs /\ o.ann = None
      /\ o.sched => Scheduled(n)
  BY <1>2, <1>3, NoneAssumption DEF PodObj, Adding
<1>5. retryPods' = [retryPods EXCEPT ![u] = o] /\ th' = [th EXCEPT ![n] = Idle]
  BY <1>1, <1>2, <1>3, <1>4
<1>6. TypeOK'
  <2>1. th' \in [Threads -> ThreadStates]
    BY <1>5, ThreadTypes DEF Inv, TypeOK, ThreadStates
  <2>2. retryPods' \in [UIDs -> PodObj \cup {None, Alias}]
    BY <1>4, <1>5 DEF Inv, TypeOK
  <2> QED  BY <1>1, <2>1, <2>2 DEF Inv, TypeOK, ThreadStates
<1>7. u[1] = n
  OBVIOUS
<1>8. \A v \in UIDs : retryPods'[v] = IF v = u THEN o ELSE retryPods[v]
  BY <1>4, <1>5 DEF Inv, TypeOK
<1> HIDE DEF u
<1>9. /\ \A m \in Names \ {n} : Same(m)
      /\ th'[n] = Idle /\ th'["retry"] = th["retry"] /\ th'["node"] = th["node"]
      /\ \A m \in Names : RetryOn(m)' <=> RetryOn(m)
      /\ ~RetryOn(n) => Job(n) = th[n] /\ Job(n)' = Idle
  <2>1. /\ UNCHANGED retryKey
        /\ \A v \in UIDs : v[1] # n => retryPods'[v] = retryPods[v]
    BY <1>1, <1>7, <1>8
  <2>2. \A m \in Names \ {n} :
          /\ pod'[m] = pod[m] /\ created'[m] = created[m] /\ store'[m] = store[m]
          /\ queue'[m] = queue[m] /\ lsp'[m] = lsp[m] /\ portCache'[m] = portCache[m]
    BY <1>1
  <2>3. th'[n] = Idle /\ \A s \in Threads \ {n} : th'[s] = th[s]
    BY <1>5, ThreadFacts, OneThread
  <2> QED  BY <2>1, <2>2, <2>3, HandlerFrame
<1>10. Steady' /\ RetryLoop'
  BY <1>1, <1>9 DEF Inv, Steady, RetryLoop
<1>11. Own(n)'
  BY <1>1, <1>4, <1>8, <1>9, ThreadFacts DEF Inv, Own, Scheduled, u
<1>12. Listed(n)'
  BY <1>1, <1>3, <1>4, <1>7, <1>8, <1>9
     DEF Listed, Adding, InCharge, Known, Blank, CopiesIn, InRetryList
<1>13. Address(n)' = Address(n)
  BY <1>1, <1>3, <1>9, ThreadFacts DEF Address, Adding, Blank
<1> QED  BY <1>1, <1>6, <1>9, <1>10, <1>11, <1>12, <1>13, LocalStep DEF Stage

-----------------------------------------------------------------------------
(* addLogicalPort. *)

\* The worker of n goes on to its next step.
LEMMA WorkerMoves ==
  ASSUME Inv, NEW n \in Names, NEW t \in Threads, Worker(n) = t, t = "retry" \/ t = n,
         th[t].pc \in AddPCs,
         th' \in [Threads -> ThreadStates], \A s \in Threads \ {t} : th'[s] = th[s],
         th'[t].pc \in AddPCs, th'[t].obj = th[t].obj,
         \A m \in Names \ {n} : pod'[m] = pod[m] /\ lsp'[m] = lsp[m],
         UNCHANGED <<created, informer, switch, portCache, retry, loop, phase, faults>>
  PROVE  /\ \A m \in Names \ {n} : Same(m)
         /\ Job(n)' = th'[t] /\ (RetryOn(n)' <=> RetryOn(n))
         /\ t = "retry" => th'[n] = th[n]
         /\ Steady' /\ RetryLoop'
         /\ th'[n].obj = th[n].obj
<1> USE DEF informer, retry, loop, phase
<1>1. t # "node" /\ (t = "retry" <=> RetryOn(n))
  BY ThreadFacts DEF Worker
<1>2. th["retry"].pc \notin {"idle", "iterate"} <=> th'["retry"].pc \notin {"idle", "iterate"}
  BY ThreadFacts DEF AddPCs
<1>3. \A m \in Names : RetryOn(m)' <=> RetryOn(m)
  BY <1>2 DEF RetryOn
<1>4. Job(n)' = th'[t]
  BY <1>1, <1>3 DEF Job, Worker
<1>5. \A m \in Names \ {n} : th'[m] = th[m] /\ (RetryOn(m) => th'["retry"] = th["retry"])
  BY <1>1, ThreadFacts DEF RetryOn
<1>6. \A m \in Names \ {n} : Same(m)
  BY <1>3, <1>5 DEF Same
<1>7. Steady' /\ RetryLoop'
  BY <1>1, <1>2, ThreadFacts DEF Inv, Steady, RetryLoop, AddPCs
<1> QED  BY <1>1, <1>3, <1>4, <1>6, <1>7, ThreadFacts

LEMMA ThreadSet ==
  ASSUME Inv, NEW t \in Threads, NEW r \in ThreadStates, th' = [th EXCEPT ![t] = r]
  PROVE  /\ th' \in [Threads -> ThreadStates] /\ th'[t] = r
         /\ \A s \in Threads \ {t} : th'[s] = th[s]
BY DEF Inv, TypeOK, ThreadStates

\* addLogicalPort fails before anything was written: the pod is, or will be, in
\* the retry list.
LEMMA ReturnFails ==
  ASSUME Inv, NEW n \in Names, NEW t \in Threads, Worker(n) = t, t = "retry" \/ t = n,
         th[t].pc \in AddPCs, Adding(n), Return(t, FALSE),
         UNCHANGED <<api, informer, lsp, switch, portCache, retryKey, due, loop, phase, faults>>,
         ipam' = ipam \ {Address(n)}
  PROVE  Inv'
<1> USE DEF api, informer, loop, phase
<1>1. /\ retryPods' = retryPods
      /\ th' = [th EXCEPT ![t] = IF t = "retry" THEN Thread("iterate", None) ELSE Thread("track", th[t].obj)]
  BY ThreadFacts DEF Return
<1>2. t # "node" /\ (t = "retry" <=> RetryOn(n)) /\ Job(n) = th[t]
  BY ThreadFacts DEF Worker, Job
<1>3. th[t] \in ThreadStates
  BY DEF Inv, TypeOK, ThreadStates
<1> DEFINE r == IF t = "retry" THEN Thread("iterate", None) ELSE Thread("track", th[t].obj)
<1>4. /\ r \in ThreadStates /\ r.seen = FALSE /\ r.ip = None
      /\ r.pc = IF t = "retry" THEN "iterate" ELSE "track"
      /\ r.obj = IF t = "retry" THEN None ELSE th[t].obj
  BY <1>3, ThreadTypes, ThreadFacts DEF PCs, ThreadStates
<1> HIDE DEF r
<1>5. th' \in [Threads -> ThreadStates] /\ th'[t] = r /\ \A s \in Threads \ {t} : th'[s] = th[s]
  BY <1>1, <1>4 DEF Inv, TypeOK, ThreadStates, r
<1>6. ipam' \subseteq IPs
  BY DEF Inv, TypeOK
<1>7. TypeOK'
  BY <1>1, <1>5, <1>6 DEF Inv, TypeOK, ThreadStates
<1>8. Steady' /\ RetryLoop'
  BY <1>1, <1>2, <1>4, <1>5, ThreadFacts DEF Inv, Steady, RetryLoop, AddPCs
<1>9. \A m \in Names \ {n} : th'[m] = th[m] /\ (RetryOn(m)' <=> RetryOn(m))
                              /\ (RetryOn(m) => th'["retry"] = th["retry"])
  BY <1>2, <1>4, <1>5, ThreadFacts DEF RetryOn
<1>10. \A m \in Names \ {n} : Same(m)
  BY <1>1, <1>9 DEF Same
<1>11. Known(n)' /\ Blank(n)' /\ (InRetryList(n)' <=> InRetryList(n))
  BY <1>1 DEF Adding, InCharge, Known, Blank, CopiesIn, InRetryList
<1>12. ~RetryOn(n)'
  BY <1>2, <1>4, <1>5, ThreadFacts DEF RetryOn
<1>13. Job(n)' = th'[n]
  BY <1>12 DEF Job, Worker
<1>14. Own(n)'
  BY <1>1, <1>4, <1>5, ThreadFacts DEF Inv, Own, Scheduled
<1>15. Stage(n)'
  <2>1. CASE t = "retry"
    <3>1. Listed(n)'
      BY <1>2, <1>5, <1>11, <1>12, <2>1, RetryOnIsListed, ThreadFacts DEF Listed
    <3> QED  BY <3>1 DEF Stage
  <2>2. CASE t = n
    <3>1. Adding(n)'
      BY <1>2, <1>4, <1>5, <1>11, <1>12, <1>13, <2>2, ThreadFacts DEF Adding, InCharge
    <3> QED  BY <3>1 DEF Stage
  <2> QED  BY <2>1, <2>2
<1>16. Address(n)' = None
  BY <1>2, <1>4, <1>5, <1>11, <1>13, RetryOnIsListed, ThreadFacts DEF Address, Blank
<1> QED  BY <1>7, <1>8, <1>10, <1>14, <1>15, <1>16, LocalStep

\* The worker of n writes nothing but its own variables.
LEMMA WorkerSteps ==
  ASSUME Inv, NEW n \in Names, NEW t \in Threads, Worker(n) = t, t = "retry" \/ t = n,
         th[t].pc \in AddPCs, Adding(n), Job(n) = th[t], th[t].obj.sched,
         th' \in [Threads -> ThreadStates], \A s \in Threads \ {t} : th'[s] = th[s],
         th'[t].obj = th[t].obj, th'[t].seen = FALSE,
         UNCHANGED <<api, informer, lsp, switch, portCache, retry, loop, phase, faults>>,
         Address(n) = None,
         \/ th'[t].pc \in {"wait", "get", "addr", "assign"} /\ th'[t].ip = None /\ UNCHANGED ipam
         \/ th'[t].pc = "annotate" /\ th'[t].ip \in IPs \ ipam /\ ipam' = ipam \cup {th'[t].ip}
  PROVE  Inv'
<1> USE DEF api, informer, retry, loop, phase
<1>1. /\ \A m \in Names \ {n} : Same(m)
      /\ Job(n)' = th'[t] /\ (RetryOn(n)' <=> RetryOn(n))
      /\ t = "retry" => th'[n] = th[n]
      /\ Steady' /\ RetryLoop'
      /\ th'[n].obj = th[n].obj
  <2>1. th'[t].pc \in AddPCs
    BY DEF AddPCs
  <2>2. \A m \in Names \ {n} : pod'[m] = pod[m] /\ lsp'[m] = lsp[m]
    OBVIOUS
  <2> QED  BY <2>1, <2>2, WorkerMoves
<1>2. TypeOK'
  BY DEF Inv, TypeOK, ThreadStates
<1>3. Own(n)'
  BY <1>1 DEF Inv, Own, Scheduled
<1>4. Known(n)' /\ Blank(n)' /\ (InRetryList(n)' <=> InRetryList(n))
  BY DEF Adding, InCharge, Known, Blank, CopiesIn, InRetryList
<1>5. Adding(n)'
  <2>1. InCharge(n)'
    BY <1>1, <1>4, RetryOnIsListed DEF Adding, InCharge
  <2> QED  BY <1>1, <1>4, <2>1, NoneAssumption DEF Adding
<1>6. Address(n)' = IF th'[t].pc = "annotate" THEN th'[t].ip ELSE None
  BY <1>1, <1>4, NoneAssumption DEF Address, Blank
<1> QED  BY <1>1, <1>2, <1>3, <1>5, <1>6, NoneAssumption, LocalStep DEF Stage

LEMMA AddLogicalPortInv ==
  ASSUME Inv, NEW t \in Threads, AddLogicalPort(t)
  PROVE  Inv'
<1> USE DEF api, informer, mem, retry, loop, phase
<1>1. th[t].pc \in AddPCs
  BY DEF AddLogicalPort, WaitForNodeLogicalSwitch, GetPort, GetPortAddresses, ReserveAnnotated,
         AssignAddress, SetAnnotationsOnPod, ExecutePort, CachePort, At, AddPCs
<1>2. PICK n \in Names :
        /\ Worker(n) = t /\ Job(n) = th[t] /\ (Adding(n) \/ Finishing(n))
        /\ Pod(t) = th[t].obj /\ th[t].obj \in PodObj /\ th[t].obj.uid = <<n, created[n]>>
        /\ Port(t) = n
        /\ th[t].obj.sched => Scheduled(n)
        /\ t = "retry" \/ t = n
  BY <1>1, AdderAdds
<1>3. th[t] \in ThreadStates /\ switch /\ faults = 0
  BY DEF Inv, TypeOK, Steady, ThreadStates
<1>4. ~Fault
  BY <1>3 DEF Fault
<1>5. CASE WaitForNodeLogicalSwitch(t)
  <2> DEFINE r == [th[t] EXCEPT !.pc = "get"]
  <2>1. /\ th[t].pc = "wait" /\ th' = [th EXCEPT ![t] = r]
        /\ UNCHANGED <<api, informer, lsp, mem, retry, loop, phase, faults>>
    BY <1>3, <1>5 DEF WaitForNodeLogicalSwitch, At, Goto
  <2>2. Adding(n)
    BY <1>2, <2>1 DEF Finishing
  <2>3. th[t].obj.sched /\ th[t].seen = FALSE /\ th[t].ip = None /\ Address(n) = None
    BY <1>2, <2>1, <2>2 DEF Adding, InCharge, Address, Blank
  <2>4. r \in ThreadStates /\ r.pc = "get" /\ r.obj = th[t].obj /\ r.seen = FALSE /\ r.ip = None
    BY <1>3, <2>3 DEF ThreadStates, PCs
  <2> HIDE DEF r
  <2>5. th' \in [Threads -> ThreadStates] /\ th'[t] = r /\ \A s \in Threads \ {t} : th'[s] = th[s]
    BY <2>1, <2>4, ThreadSet
  <2> QED  BY <1>1, <1>2, <2>1, <2>2, <2>3, <2>4, <2>5, WorkerSteps
<1>6. CASE GetPort(t)
  <2>1. th[t].pc = "get" /\ UNCHANGED <<api, informer, lsp, mem, retryKey, due, loop, phase>>
    BY <1>6 DEF GetPort, At
  <2>2. Adding(n)
    BY <1>2, <2>1 DEF Finishing
  <2>3. /\ th[t].obj.sched /\ th[t].obj.ann = None /\ th[t].ip = None /\ Address(n) = None
        /\ lsp[n] = None
    BY <1>2, <2>1, <2>2 DEF Adding, InCharge, Address, Blank
  <2> DEFINE r == [th[t] EXCEPT !.pc = "addr", !.seen = FALSE]
  <2>4. th' = [th EXCEPT ![t].pc = "addr", ![t].seen = FALSE] /\ UNCHANGED <<retryPods, faults>>
    BY <1>2, <1>4, <1>6, <2>3 DEF GetPort
  <2>5. th' = [th EXCEPT ![t] = r]
    BY <2>4 DEF Inv, TypeOK
  <2>6. r \in ThreadStates /\ r.pc = "addr" /\ r.obj = th[t].obj /\ r.seen = FALSE /\ r.ip = None
    BY <1>3, <2>3 DEF ThreadStates, PCs
  <2> HIDE DEF r
  <2>7. th' \in [Threads -> ThreadStates] /\ th'[t] = r /\ \A s \in Threads \ {t} : th'[s] = th[s]
    BY <2>5, <2>6, ThreadSet
  <2> QED  BY <1>1, <1>2, <2>1, <2>2, <2>3, <2>4, <2>6, <2>7, WorkerSteps
<1>7. CASE GetPortAddresses(t)
  <2>1. th[t].pc = "addr" /\ UNCHANGED <<api, informer, lsp, mem, retryKey, due, loop, phase>>
    BY <1>7 DEF GetPortAddresses, At
  <2>2. Adding(n)
    BY <1>2, <2>1 DEF Finishing
  <2>3. th[t].obj.sched /\ th[t].seen = FALSE /\ Address(n) = None /\ lsp[n] = None
    BY <1>2, <2>1, <2>2 DEF Adding, InCharge, Address, Blank
  <2> DEFINE r == [th[t] EXCEPT !.pc = "assign", !.ip = None]
  <2>4. th' = [th EXCEPT ![t].pc = "assign", ![t].ip = None] /\ UNCHANGED <<retryPods, faults>>
    BY <1>2, <1>4, <1>7, <2>3 DEF GetPortAddresses
  <2>5. th' = [th EXCEPT ![t] = r]
    BY <2>4 DEF Inv, TypeOK
  <2>6. r \in ThreadStates /\ r.pc = "assign" /\ r.obj = th[t].obj /\ r.seen = FALSE /\ r.ip = None
    BY <1>3, <2>3 DEF ThreadStates, PCs
  <2> HIDE DEF r
  <2>7. th' \in [Threads -> ThreadStates] /\ th'[t] = r /\ \A s \in Threads \ {t} : th'[s] = th[s]
    BY <2>5, <2>6, ThreadSet
  <2> QED  BY <1>1, <1>2, <2>1, <2>2, <2>3, <2>4, <2>6, <2>7, WorkerSteps
<1>8. CASE ReserveAnnotated(t)
  BY <1>2, <1>8 DEF ReserveAnnotated, At, Adding, Finishing
<1>9. CASE AssignAddress(t)
  <2>1. /\ th[t].pc = "assign"
        /\ UNCHANGED <<api, informer, lsp, switch, portCache, retryKey, due, loop, phase, faults>>
    BY <1>9 DEF AssignAddress, At
  <2>2. Adding(n)
    BY <1>2, <2>1 DEF Finishing
  <2>3. th[t].obj.sched /\ th[t].seen = FALSE /\ th[t].ip = None /\ Address(n) = None
    BY <1>2, <2>1, <2>2 DEF Adding, InCharge, Address, Blank
  <2>4. ASSUME NEW a \in IPs \ ipam, ipam' = ipam \cup {a}, UNCHANGED retryPods,
               th' = [th EXCEPT ![t].pc = "annotate", ![t].ip = a]
        PROVE  Inv'
    <3> DEFINE r == [th[t] EXCEPT !.pc = "annotate", !.ip = a]
    <3>1. th' = [th EXCEPT ![t] = r]
      BY <2>4 DEF Inv, TypeOK
    <3>2. r \in ThreadStates /\ r.pc = "annotate" /\ r.obj = th[t].obj /\ r.seen = FALSE /\ r.ip = a
      BY <1>3, <2>3 DEF ThreadStates, PCs
    <3> HIDE DEF r
    <3>3. th' \in [Threads -> ThreadStates] /\ th'[t] = r /\ \A s \in Threads \ {t} : th'[s] = th[s]
      BY <3>1, <3>2, ThreadSet
    <3> QED  BY <1>1, <1>2, <2>1, <2>2, <2>3, <2>4, <3>2, <3>3, WorkerSteps
  <2>5. CASE Return(t, FALSE) /\ UNCHANGED ipam
    <3>1. ipam' = ipam \ {Address(n)}
      BY <2>3, <2>5, NoneAssumption DEF Inv, TypeOK
    <3> QED  BY <1>1, <1>2, <2>1, <2>2, <2>5, <3>1, ReturnFails
  <2> QED  BY <1>9, <2>3, <2>4, <2>5 DEF AssignAddress, Candidates
<1>10. CASE SetAnnotationsOnPod(t)
  <2>1. /\ th[t].pc = "annotate"
        /\ UNCHANGED <<created, informer, lsp, switch, portCache, retryKey, due, loop, phase>>
    BY <1>10 DEF SetAnnotationsOnPod, At
  <2>2. Adding(n)
    BY <1>2, <2>1 DEF Finishing
  <2>3. /\ th[t].obj.sched /\ th[t].seen = FALSE /\ th[t].ip # None /\ Address(n) = th[t].ip
        /\ Blank(n) /\ InCharge(n) /\ th[t].ip \in IPs
    BY <1>2, <1>3, <2>1, <2>2 DEF Adding, InCharge, Address, ThreadStates
  <2>4. CASE /\ pod[n] # None /\ pod' = [pod EXCEPT ![n].ann = th[t].ip]
             /\ Goto(t, "execute") /\ UNCHANGED <<ipam, retryPods, faults>>
    <3> DEFINE r == [th[t] EXCEPT !.pc = "execute"]
               x == [pod[n] EXCEPT !.ann = th[t].ip]
    <3>1. th' = [th EXCEPT ![t] = r] /\ pod' = [pod EXCEPT ![n] = x]
      BY <2>4 DEF Goto
    <3>2. /\ r \in ThreadStates /\ r.pc = "execute" /\ r.obj = th[t].obj /\ r.seen = FALSE
          /\ r.ip = th[t].ip /\ r.pc \in AddPCs
      BY <1>3, <2>3 DEF ThreadStates, PCs, AddPCs
    <3>3. /\ x \in PodObj /\ x # None /\ x.uid = pod[n].uid /\ x.ann = th[t].ip
          /\ x.sched = pod[n].sched
      <4>1. pod[n] \in PodObj
        BY <2>4 DEF Inv, TypeOK
      <4>2. x \in PodObj /\ x.uid = pod[n].uid /\ x.ann = th[t].ip /\ x.sched = pod[n].sched
        BY <2>3, <4>1 DEF PodObj
      <4> QED  BY <4>2, NoneAssumption
    <3> HIDE DEF r, x
    <3>4. pod'[n] = x /\ \A m \in Names \ {n} : pod'[m] = pod[m]
      BY <3>1 DEF Inv, TypeOK
    <3>5. /\ \A m \in Names \ {n} : Same(m)
          /\ Job(n)' = r /\ (RetryOn(n)' <=> RetryOn(n))
          /\ t = "retry" => th'[n] = th[n]
          /\ th' \in [Threads -> ThreadStates]
          /\ Steady' /\ RetryLoop'
          /\ th'[n].obj = th[n].obj
      <4>1. th' \in [Threads -> ThreadStates] /\ th'[t] = r /\ \A s \in Threads \ {t} : th'[s] = th[s]
        BY <3>1, <3>2, ThreadSet
      <4>2. \A m \in Names \ {n} : pod'[m] = pod[m] /\ lsp'[m] = lsp[m]
        BY <2>1, <3>4
      <4> QED  BY <1>1, <1>2, <2>1, <2>4, <3>2, <4>1, <4>2, WorkerMoves
    <3>6. TypeOK'
      BY <2>1, <2>4, <3>1, <3>3, <3>5 DEF Inv, TypeOK, ThreadStates
    <3>7. Scheduled(n) /\ Scheduled(n)'
      BY <1>2, <2>1, <2>3, <2>4, <3>3, <3>4 DEF Scheduled
    <3>8. Own(n)'
      <4>1. queue[n] # None => queue[n].type # "delete"
        BY <2>4 DEF Inv, Own
      <4> QED  BY <2>1, <2>4, <3>3, <3>4, <3>5, <3>7, <4>1 DEF Inv, Own
    <3>9. Known(n)' /\ (InRetryList(n)' <=> InRetryList(n))
      BY <2>1, <2>3, <2>4 DEF InCharge, Known, InRetryList
    <3>10. InCharge(n)'
      BY <1>2, <2>3, <3>2, <3>5, <3>9, RetryOnIsListed DEF InCharge
    <3>11. Finishing(n)'
      BY <2>1, <2>3, <3>2, <3>3, <3>4, <3>5, <3>7, <3>10 DEF Finishing, CopiesIn, Blank
    <3>12. Address(n)' = Address(n)
      BY <2>3, <3>2, <3>5 DEF Address
    <3> QED  BY <2>4, <3>5, <3>6, <3>8, <3>11, <3>12, LocalStep DEF Stage
  <2>5. CASE /\ pod[n] = None /\ ipam' = Released(th[t].ip) /\ Return(t, FALSE)
             /\ UNCHANGED <<pod, faults>>
    <3>1. ipam' = ipam \ {Address(n)}
      BY <1>3, <2>3, <2>5 DEF Released
    <3> QED  BY <1>1, <1>2, <2>1, <2>2, <2>5, <3>1, ReturnFails
  <2> QED  BY <1>2, <1>4, <1>10, <2>4, <2>5 DEF SetAnnotationsOnPod
<1>11. CASE ExecutePort(t)
  <2>1. /\ th[t].pc = "execute"
        /\ UNCHANGED <<api, informer, mem, retryKey, due, loop, phase>>
    <3>1. th[t].pc = "execute"
      BY <1>11 DEF ExecutePort, At
    <3>2. lsp[n] = None
      BY <1>2, <3>1 DEF Adding, Finishing
    <3> QED  BY <1>2, <1>4, <1>11, <3>1, <3>2 DEF ExecutePort
  <2>2. Finishing(n)
    BY <1>2, <2>1 DEF Adding
  <2>3. lsp[n] = None /\ th[t].seen = FALSE /\ Address(n) = th[t].ip /\ InCharge(n) /\ th[t].ip \in IPs
    BY <1>2, <1>3, <2>1, <2>2 DEF Finishing, InCharge, Address, ThreadStates
  <2> DEFINE r == [th[t] EXCEPT !.pc = "cache"]
  <2>4. /\ lsp' = [lsp EXCEPT ![n] = th[t].ip] /\ UNCHANGED <<retryPods, faults>>
        /\ th' = [th EXCEPT ![t] = r]
    BY <1>2, <1>4, <1>11, <2>3 DEF ExecutePort, Goto
  <2>5. /\ r \in ThreadStates /\ r.pc = "cache" /\ r.obj = th[t].obj /\ r.seen = FALSE
        /\ r.ip = th[t].ip /\ r.pc \in AddPCs
    BY <1>3, <2>3 DEF ThreadStates, PCs, AddPCs
  <2> HIDE DEF r
  <2>6. /\ lsp' \in [Names -> IPs \cup {None}] /\ lsp'[n] = th[t].ip
        /\ \A m \in Names \ {n} : lsp'[m] = lsp[m]
    BY <2>3, <2>4 DEF Inv, TypeOK
  <2>7. /\ \A m \in Names \ {n} : Same(m)
        /\ Job(n)' = r /\ (RetryOn(n)' <=> RetryOn(n))
        /\ t = "retry" => th'[n] = th[n]
        /\ th' \in [Threads -> ThreadStates]
        /\ Steady' /\ RetryLoop'
        /\ th'[n].obj = th[n].obj
    <3>1. th' \in [Threads -> ThreadStates] /\ th'[t] = r /\ \A s \in Threads \ {t} : th'[s] = th[s]
      BY <2>4, <2>5, ThreadSet
    <3>2. \A m \in Names \ {n} : pod'[m] = pod[m] /\ lsp'[m] = lsp[m]
      BY <2>1, <2>6
    <3> QED  BY <1>1, <1>2, <2>1, <2>4, <2>5, <3>1, <3>2, WorkerMoves
  <2>8. TypeOK'
    BY <2>1, <2>4, <2>6, <2>7 DEF Inv, TypeOK, ThreadStates
  <2>9. Own(n)'
    BY <2>1, <2>4, <2>7 DEF Inv, Own, Scheduled
  <2>10. InCharge(n)'
    BY <1>2, <2>1, <2>3, <2>4, <2>5, <2>7, RetryOnIsListed DEF InCharge, Known, InRetryList
  <2>11. Finishing(n)'
    BY <1>2, <2>1, <2>2, <2>5, <2>6, <2>7, <2>10 DEF Finishing, CopiesIn, Scheduled
  <2>12. Address(n)' = Address(n)
    BY <2>3, <2>5, <2>7 DEF Address
  <2> QED  BY <2>1, <2>7, <2>8, <2>9, <2>11, <2>12, LocalStep DEF Stage
<1>12. CASE CachePort(t)
  <2>1. /\ th[t].pc = "cache"
        /\ UNCHANGED <<api, informer, lsp, switch, ipam, retryKey, due, loop, phase>>
    <3>1. th[t].pc = "cache"
      BY <1>12 DEF CachePort, At
    <3>2. lsp[n] # None
      BY <1>2, <3>1 DEF Adding, Finishing
    <3> QED  BY <1>2, <1>4, <1>12, <3>1, <3>2 DEF CachePort
  <2>2. Finishing(n)
    BY <1>2, <2>1 DEF Adding
  <2>3. /\ lsp[n] = th[t].ip /\ th[t].ip # None /\ th[t].ip \in IPs
        /\ Address(n) = th[t].ip /\ InCharge(n)
    BY <1>2, <1>3, <2>1, <2>2 DEF Finishing, InCharge, Address, ThreadStates
  <2> DEFINE e == [ip |-> th[t].ip, expires |-> FALSE]
  <2>4. /\ portCache' = [portCache EXCEPT ![n] = e] /\ Return(t, TRUE) /\ UNCHANGED faults
    BY <1>2, <1>4, <1>12, <2>3 DEF CachePort
  <2>5. e \in PortInfos /\ e # None /\ e.ip = th[t].ip /\ ~e.expires
    <3>1. e \in PortInfos /\ e.ip = th[t].ip /\ ~e.expires
      BY <2>3 DEF PortInfos
    <3> QED  BY <3>1, NoneAssumption
  <2> HIDE DEF e
  <2>6. /\ portCache' \in [Names -> PortInfos \cup {None}] /\ portCache'[n] = e
        /\ \A m \in Names \ {n} : portCache'[m] = portCache[m]
    BY <2>4, <2>5 DEF Inv, TypeOK
  <2>7. t # "node" /\ (t = "retry" <=> RetryOn(n))
    BY <1>2, ThreadFacts DEF Worker
  <2> DEFINE r == IF t = "retry" THEN Thread("iterate", None) ELSE Idle
  <2>8. th' = [th EXCEPT ![t] = r] /\ retryPods' = IF t = "retry" THEN [retryPods EXCEPT ![retryKey] = None]
                                                  ELSE retryPods
    BY <1>2, <2>4, <2>7, ThreadFacts DEF Return
  <2>9. r \in ThreadStates /\ r.obj = None /\ r.pc = IF t = "retry" THEN "iterate" ELSE "idle"
    BY ThreadTypes, ThreadFacts DEF PCs
  <2>10. th' \in [Threads -> ThreadStates] /\ th'[t] = r /\ \A s \in Threads \ {t} : th'[s] = th[s]
    BY <2>8, <2>9 DEF Inv, TypeOK, ThreadStates
  <2>11. /\ retryPods' \in [UIDs -> PodObj \cup {None, Alias}]
         /\ \A u \in UIDs : u[1] # n => retryPods'[u] = retryPods[u]
         /\ \A u \in UIDs : u[1] = n => retryPods'[u] = None
    <3>1. CASE t = "retry"
      <4>1. retryKey = <<n, created[n]>> /\ retryKey \in UIDs /\ retryKey[1] = n
        BY <2>7, <3>1, RetryOnIsListed DEF Inv, RetryLoop, RetryOn
      <4>2. \A u \in UIDs : u[1] = n /\ retryPods[u] # None => u = retryKey
        BY <4>1 DEF Inv, Own
      <4> QED  BY <2>8, <3>1, <4>1, <4>2 DEF Inv, TypeOK
    <3>2. CASE t # "retry"
      <4>1. ~InRetryList(n)
        BY <2>3, <2>7, <3>2 DEF InCharge
      <4> QED  BY <2>8, <3>2, <4>1 DEF Inv, TypeOK, InRetryList
    <3> QED  BY <3>1, <3>2
  <2>12. TypeOK'
    BY <2>1, <2>4, <2>6, <2>10, <2>11 DEF Inv, TypeOK, ThreadStates
  <2>13. ~RetryOn(n)' /\ th'[n] = Idle
    <3>1. CASE t = "retry"
      <4>1. th'["retry"].pc = "iterate" /\ th'[n] = th[n]
        BY <2>9, <2>10, <3>1, ThreadFacts
      <4> QED  BY <1>2, <2>7, <3>1, <4>1, RetryOnIsListed DEF RetryOn, AddPCs
    <3>2. CASE t # "retry"
      <4>1. t = n /\ th'["retry"] = th["retry"]
        BY <1>2, <2>7, <2>10, <3>2, ThreadFacts
      <4> QED  BY <2>1, <2>7, <2>10, <3>2, <4>1, ThreadFacts DEF RetryOn
    <3> QED  BY <3>1, <3>2
  <2>14. \A m \in Names \ {n} : Same(m)
    <3>1. \A m \in Names \ {n} : th'[m] = th[m] /\ (RetryOn(m)' <=> RetryOn(m))
                                 /\ (RetryOn(m) => th'["retry"] = th["retry"])
      BY <1>2, <2>1, <2>7, <2>9, <2>10, ThreadFacts DEF RetryOn
    <3> QED  BY <2>1, <2>6, <2>11, <3>1 DEF Same
  <2>15. Steady'
    BY <2>1, <2>4, <2>7, <2>10, ThreadFacts DEF Inv, Steady
  <2>16. RetryLoop'
    <3>1. CASE t = "retry"
      <4>1. retryKey \in UIDs \ due /\ \A u \in due : u \in UIDs /\ retryPods[u] # None
        BY <1>1, <3>1 DEF Inv, RetryLoop, AddPCs, TypeOK
      <4>2. \A u \in due : retryPods'[u] # None
        BY <2>8, <3>1, <4>1 DEF Inv, TypeOK
      <4> QED  BY <2>1, <2>9, <2>10, <3>1, <4>2 DEF RetryLoop
    <3>2. CASE t # "retry"
      BY <2>1, <2>8, <2>10, <3>2, ThreadFacts DEF Inv, RetryLoop
    <3> QED  BY <3>1, <3>2
  <2>17. Own(n)'
    BY <2>1, <2>4, <2>11, <2>13, ThreadFacts DEF Inv, Own, Scheduled
  <2>18. Plugged(n)'
    <3>1. Known(n)' /\ Scheduled(n)' /\ ~InRetryList(n)'
      BY <2>1, <2>2, <2>11 DEF Finishing, InCharge, Known, Scheduled, InRetryList
    <3> QED  BY <1>2, <2>1, <2>2, <2>3, <2>5, <2>6, <2>13, <3>1 DEF Plugged, Finishing, CopiesIn
  <2>19. Address(n)' = Address(n)
    BY <2>3, <2>5, <2>6, <2>13, ThreadFacts DEF Address, Job, Worker
  <2> QED  BY <2>1, <2>12, <2>14, <2>15, <2>16, <2>17, <2>18, <2>19, LocalStep DEF Stage
<1> QED  BY <1>5, <1>6, <1>7, <1>8, <1>9, <1>10, <1>11, <1>12 DEF AddLogicalPort

-----------------------------------------------------------------------------
(* The invariant holds of the initial states and is kept by every step. *)

LEMMA InitInv ==
  ASSUME Undisturbed, Init
  PROVE  Inv
<1>1. TypeOK
  BY BoundsAssumption, TogglesAssumption, ThreadTypes DEF Init, TypeOK, PCs, Undisturbed, ThreadStates
<1>2. Steady /\ RetryLoop
  BY ThreadFacts DEF Init, Steady, RetryLoop, Undisturbed
<1>3. \A n \in Names : Own(n) /\ Unknown(n) /\ Address(n) = None
  <2> SUFFICES ASSUME NEW n \in Names PROVE Own(n) /\ Unknown(n) /\ Address(n) = None
    OBVIOUS
  <2>1. th[n] = Idle /\ th["retry"] = Idle
    BY ThreadFacts DEF Init
  <2>2. ~InRetryList(n) /\ Job(n).pc = "idle"
    BY <2>1, ThreadFacts DEF Init, InRetryList, Job, Worker
  <2>3. Own(n)
    BY <2>1, ThreadFacts DEF Init, Own
  <2>4. Unknown(n)
    BY <2>1, <2>2 DEF Init, Unknown
  <2>5. Address(n) = None
    BY <2>2 DEF Init, Address
  <2> QED  BY <2>3, <2>4, <2>5
<1>4. Accounted
  BY <1>3 DEF Accounted, Init
<1> QED  BY <1>1, <1>2, <1>3, <1>4 DEF Inv, Stage

LEMMA StutterInv ==
  ASSUME Inv, UNCHANGED vars
  PROVE  Inv'
<1> USE DEF vars, api, informer, mem, retry, loop, phase
<1>1. \A m \in Names : Same(m)
  BY DEF Same, RetryOn
<1>2. TypeOK' /\ Steady' /\ RetryLoop'
  BY DEF Inv, TypeOK, Steady, RetryLoop
<1>3. \A m \in Names : Own(m)' /\ Stage(m)' /\ Address(m)' = Address(m)
  BY <1>1, Frame DEF Inv
<1>4. Accounted'
  BY <1>3 DEF Inv, Accounted
<1> QED  BY <1>2, <1>3, <1>4 DEF Inv

\* No step of the node's arrival or of a restart happens.
LEMMA NoOtherStep ==
  ASSUME Undisturbed, Inv
  PROVE  /\ ~Restart /\ ~NodeAdd /\ ~NodeList /\ ~NodeAdded
         /\ \A p \in todo : ~NodeNextPod(p)
         /\ ~WatchNodesReturns /\ ~SyncPods /\ ~WatchPodsReturns
BY ThreadFacts
   DEF Inv, Steady, Undisturbed, Restart, NodeAdd, NodeList, NodeAdded, NodeNextPod,
       WatchNodesReturns, SyncPods, WatchPodsReturns, At

LEMMA NextInv ==
  ASSUME Undisturbed, Inv, [Next]_vars
  PROVE  Inv'
<1>1. CASE \E n \in Names : \E s \in BOOLEAN : CreatePod(n, s)
  BY <1>1, CreatePodInv
<1>2. CASE \E n \in Names : SchedulePod(n) \/ DeletePod(n)
  BY <1>2, SchedulePodInv
<1>3. CASE \E n \in Names : Deliver(n)
  BY <1>3, DeliverInv
<1>4. CASE \E n \in Names : HandlePod(n)
  BY <1>4, PodAddInv, PodUpdateInv, PodDeleteInv, DeletePortInv DEF HandlePod
<1>5. CASE \E n \in Names : ExpirePort(n)
  BY <1>5, ExpirePortInv
<1>6. CASE \E t \in Threads : AddLogicalPort(t)
  BY <1>6, AddLogicalPortInv
<1>7. CASE \E t \in Threads : AddRetryPod(t)
  BY <1>7, AddRetryPodInv
<1>8. CASE (\E S \in SUBSET UIDs : RetryBegin(S)) \/ RetryEnd
  BY <1>8, RetryBeginInv
<1>9. CASE \E u \in UIDs : RetryNext(u)
  BY <1>9, RetryNextInv
<1>10. CASE UNCHANGED vars
  BY <1>10, StutterInv
<1> QED
  BY <1>1, <1>2, <1>3, <1>4, <1>5, <1>6, <1>7, <1>8, <1>9, <1>10, NoOtherStep
  DEF Next, Cluster, Master

\* While the master runs undisturbed, the invariant of the stages always holds.
THEOREM StagesFollowed == ASSUME Undisturbed PROVE Spec => []Inv
<1>1. Init => Inv
  BY InitInv
<1>2. Inv /\ [Next]_vars => Inv'
  BY NextInv
<1> QED  BY <1>1, <1>2, PTL DEF Spec

-----------------------------------------------------------------------------
(* What the stages mean for the pods. *)

\* A pod is annotated with the address its stage is answerable for.
LEMMA AnnotationIsAddress ==
  ASSUME Inv, NEW n \in Names, Annotated(n)
  PROVE  pod[n].ann = Address(n) /\ Address(n) # None /\ Address(n) \in ipam
<1>1. pod[n] # None /\ pod[n].ann # None
  BY DEF Annotated
<1>2. Finishing(n) \/ Plugged(n)
  BY <1>1 DEF Inv, Stage, Unknown, Announced, Listed, Adding, Deleting, Blank, CopiesIn
<1>3. ASSUME Finishing(n) PROVE Address(n) = pod[n].ann
  BY <1>1, <1>3 DEF Finishing, Address
<1>4. ASSUME Plugged(n) PROVE Address(n) = pod[n].ann
  <2>1. Job(n).pc = "idle"
    BY <1>4, RetryOnIsListed, ThreadFacts DEF Plugged, Job, Worker
  <2> QED  BY <1>1, <1>4, <2>1 DEF Plugged, Address
<1>5. Address(n) = pod[n].ann
  BY <1>2, <1>3, <1>4
<1> QED  BY <1>1, <1>5 DEF Inv, Accounted

\* A thread works on the port of one name and is the worker of that name.
LEMMA WorkerOfPort ==
  ASSUME Inv, NEW t \in Threads, Working(t)
  PROVE  Port(t) \in Names /\ Worker(Port(t)) = t
<1>1. CASE th[t].pc \in {"lspdel", "release", "uncache"}
  <2>1. t # "node"
    BY <1>1, ThreadFacts DEF Inv, Steady
  <2>2. t # "retry"
    <3>1. ASSUME t = "retry" PROVE FALSE
      <4>1. retryKey \in UIDs /\ retryKey[1] \in Names /\ RetryOn(retryKey[1])
        BY <1>1, <3>1, UIDFacts DEF Inv, RetryLoop, RetryOn
      <4>2. /\ InRetryList(retryKey[1]) /\ Job(retryKey[1]) = th[t]
        BY <3>1, <4>1, RetryOnIsListed DEF Job
      <4> QED  BY <1>1, <4>1, <4>2
               DEF Inv, Stage, Unknown, Announced, Listed, Adding, Finishing, Plugged, Deleting
    <3> QED  BY <3>1
  <2>3. t \in Names
    BY <2>1, <2>2 DEF Threads
  <2>4. Deleting(t) /\ Worker(t) = t
    BY <1>1, <2>3, DeleterDeletes DEF Worker
  <2>5. th[t].obj \in PodObj /\ th[t].obj.uid = <<t, created[t]>>
    BY <2>3, <2>4 DEF Deleting, Inv, Own
  <2>6. Port(t) = t
    BY <2>5, NoneAssumption DEF Port, Pod, NameOf
  <2> QED  BY <2>3, <2>4, <2>6
<1>2. CASE th[t].pc \notin {"lspdel", "release", "uncache"}
  <2>1. th[t].pc \in AddPCs
    BY <1>2 DEF Working, AddPCs
  <2> QED  BY <2>1, AdderAdds
<1> QED  BY <1>1, <1>2

LEMMA OwnedAddresses ==
  ASSUME Inv
  PROVE  AddressesOwned
<1>1. UniqueIPs
  BY AnnotationIsAddress DEF UniqueIPs, Inv, Accounted
<1>2. ReservedIPs
  BY AnnotationIsAddress DEF ReservedIPs
<1>3. ReleasesOwnAddress
  <2> SUFFICES ASSUME NEW n \in Names, At(n, "release"), th[n].ip # None,
                      NEW m \in Names \ {n}, Annotated(m)
               PROVE  pod[m].ann # th[n].ip
    BY DEF ReleasesOwnAddress
  <2>1. Deleting(n) /\ Job(n) = th[n]
    BY DeleterDeletes DEF At
  <2>2. Address(n) = th[n].ip
    BY <2>1 DEF Deleting, Address, At
  <2> QED  BY <2>2, AnnotationIsAddress DEF Inv, Accounted
<1>4. OneThreadPerPort
  BY WorkerOfPort DEF OneThreadPerPort
<1> QED  BY <1>1, <1>2, <1>3, <1>4 DEF AddressesOwned

\* While the master runs undisturbed, pods never share an address, an annotated
\* address stays allocated, no handler releases an address of another pod and
\* no two threads are in addLogicalPort or deleteLogicalPort for one port.
THEOREM PodsOwnAddresses == ASSUME Undisturbed PROVE Spec => []AddressesOwned
BY StagesFollowed, OwnedAddresses, PTL

LEMMA SettledStages ==
  ASSUME Inv, Settled, NEW n \in Names
  PROVE  /\ Unknown(n) \/ Listed(n) \/ Plugged(n)
         /\ Job(n).pc = "idle" /\ queue[n] = None /\ store[n] = pod[n]
<1>1. th[n].pc = "idle" /\ th["retry"].pc = "idle" /\ queue[n] = None /\ store[n] = pod[n]
  BY ThreadFacts DEF Settled, At
<1>2. ~RetryOn(n)
  BY <1>1 DEF RetryOn
<1>3. Unknown(n) \/ Announced(n) \/ Listed(n) \/ Plugged(n)
  BY <1>1, <1>2, NobodyWorks
<1> QED  BY <1>1, <1>2, <1>3 DEF Announced, Job, Worker

LEMMA MatchesWhenSettled ==
  ASSUME Inv
  PROVE  SettledMatches
<1>1. PortsMatch
  <2> SUFFICES ASSUME Settled, NEW n \in Names
               PROVE  /\ lsp[n] # None => Connected(n)
                      /\ pod[n] # None /\ pod[n].sched /\ lsp[n] = None
                           => retryPods[pod[n].uid] # None
    BY DEF PortsMatch
  <2>1. /\ Unknown(n) \/ Listed(n) \/ Plugged(n)
        /\ queue[n] = None /\ store[n] = pod[n]
    BY SettledStages
  <2>2. CASE Unknown(n)
    BY <2>1, <2>2 DEF Unknown
  <2>3. CASE Listed(n)
    <3>1. lsp[n] = None
      BY <2>3 DEF Listed, Blank
    <3>2. PICK u \in UIDs : u[1] = n /\ retryPods[u] # None
      BY <2>3 DEF Listed, InRetryList
    <3>3. u = <<n, created[n]>> /\ (pod[n] # None => pod[n].uid = u)
      BY <3>2 DEF Inv, Own
    <3> QED  BY <3>1, <3>2, <3>3
  <2>4. CASE Plugged(n)
    <3>1. lsp[n] \in IPs /\ lsp[n] = portCache[n].ip
      BY <2>4 DEF Plugged, Inv, TypeOK, PortInfos
    <3>2. pod[n] # None /\ pod[n].ann = portCache[n].ip
      BY <2>1, <2>4 DEF Plugged, Known
    <3> QED  BY <3>1, <3>2, NoneAssumption DEF Connected, Annotated
  <2> QED  BY <2>1, <2>2, <2>3, <2>4
<1>2. NoLeak
  <2> SUFFICES ASSUME Settled, NEW a \in ipam
               PROVE  \E n \in Names : Annotated(n) /\ pod[n].ann = a
    BY DEF NoLeak
  <2>1. PICK n \in Names : a = Address(n) /\ a # None
    BY DEF Inv, Accounted
  <2>2. /\ Unknown(n) \/ Listed(n) \/ Plugged(n)
        /\ Job(n).pc = "idle" /\ queue[n] = None /\ store[n] = pod[n]
    BY SettledStages
  <2>3. portCache[n] # None /\ ~portCache[n].expires /\ a = portCache[n].ip
    BY <2>1, <2>2 DEF Address
  <2>4. Plugged(n)
    BY <2>2, <2>3 DEF Unknown, Listed, Blank
  <2>5. pod[n] # None /\ pod[n].ann = a
    BY <2>2, <2>3, <2>4 DEF Plugged, Known
  <2> QED  BY <2>1, <2>5 DEF Annotated
<1> QED  BY <1>1, <1>2 DEF SettledMatches

\* While the master runs undisturbed and has handled every event, the ports are
\* those of the pods with the annotated addresses, a scheduled pod without a port
\* is in the retry list, and no address of a deleted pod is left allocated.
THEOREM SettledPodsMatch == ASSUME Undisturbed PROVE Spec => []SettledMatches
BY StagesFollowed, MatchesWhenSettled, PTL

-----------------------------------------------------------------------------
(* What holds whatever call fails and whenever a name is used again: the     *)
(* retry list and its lock keep the threads of one port apart, and a thread  *)
(* that finds a port never offers its pod another address.                   *)

\* The node was there before its pods, and the master does not restart.
Running == MaxRestarts = 0 /\ ~NodeLate

Standing == /\ boot = "run" /\ switch /\ joined /\ todo = {} /\ restarts = 0
            /\ th["node"] = Idle

Entries == [ip : IPs \cup {None}, expires : BOOLEAN]

Shape ==
  /\ pod \in [Names -> PodObj \cup {None}] /\ created \in [Names -> 0 .. MaxUIDs]
  /\ store \in [Names -> PodObj \cup {None}] /\ queue \in [Names -> Events \cup {None}]
  /\ lsp \in [Names -> IPs \cup {None}] /\ portCache \in [Names -> Entries \cup {None}]
  /\ retryPods \in [UIDs -> PodObj \cup {None, Alias}] /\ due \subseteq UIDs
  /\ th \in [Threads -> ThreadStates]

DelPCs == {"lspdel", "release", "uncache"}

\* The pod the handler of n knows of, until it takes its deletion.
Current(n, u) ==
  IF queue[n] = None THEN store[n] # None /\ store[n].uid = u
  ELSE queue[n].type # "add" /\ queue[n].obj.uid = u

Unlisted(n) == \A u \in UIDs : u[1] = n => retryPods[u] = None

\* What is held of n has its name; only its current pod is in the retry list, and
\* only while the handler of n is idle.
Held(n) ==
  /\ pod[n] # None => pod[n].uid[1] = n
  /\ store[n] # None => store[n].uid[1] = n
  /\ queue[n] # None =>
       /\ queue[n].obj.uid[1] = n
       /\ store[n] = IF queue[n].type = "delete" THEN None ELSE queue[n].obj
  /\ th[n].pc # "idle" =>
       /\ th[n].pc \in AddPCs \cup DelPCs
       /\ th[n].obj \in PodObj /\ th[n].obj.uid[1] = n
       /\ Unlisted(n)
       /\ th[n].pc \in AddPCs => Current(n, th[n].obj.uid)
  /\ \A u \in UIDs : u[1] = n /\ retryPods[u] # None =>
       retryPods[u] \in PodObj /\ retryPods[u].uid = u /\ Current(n, u)

\* A thread that is about to annotate a pod offers the address of its port.
PortSeen(t) ==
  /\ At(t, "assign") => th[t].ip = lsp[Port(t)]
  /\ At(t, "annotate") /\ lsp[Port(t)] # None => th[t].ip = lsp[Port(t)]

RetryPC == th["retry"].pc \in {"idle", "iterate"} \cup (AddPCs \ {"track"})

PortInv == /\ Shape /\ Standing /\ RetryLoop /\ RetryPC
           /\ \A n \in Names : Held(n)
           /\ \A t \in Threads : PortSeen(t)

Busy(t) == th[t].pc \notin {"idle", "iterate"}

LEMMA BusyPort ==
  ASSUME PortInv, NEW t \in Threads, Busy(t)
  PROVE  /\ Pod(t) = th[t].obj /\ th[t].obj \in PodObj /\ th[t].obj # None
         /\ Port(t) \in Names
         /\ t \in Names => Port(t) = t
         /\ t \notin Names => /\ t = "retry" /\ Port(t) = retryKey[1]
                              /\ th[t].pc \in AddPCs \ {"track"}
                              /\ retryKey \in UIDs \ due /\ retryPods[retryKey] # None
<1>1. t # "node"
  BY ThreadFacts DEF PortInv, Standing, Busy
<1>2. CASE t \in Names
  <2>1. th[t].obj \in PodObj /\ th[t].obj.uid[1] = t
    BY <1>2 DEF PortInv, Held, Busy
  <2> QED  BY <1>2, <2>1, NoneAssumption DEF Pod, Port, NameOf
<1>3. CASE t = "retry"
  <2>1. /\ retryKey \in UIDs \ due /\ retryPods[retryKey] # None
        /\ th[t].obj = retryPods[retryKey]
    BY <1>3 DEF PortInv, RetryLoop, Busy
  <2>2. retryKey[1] \in Names
    BY <2>1, UIDFacts
  <2>3. retryPods[retryKey] \in PodObj /\ retryPods[retryKey].uid = retryKey
    BY <2>1, <2>2 DEF PortInv, Held
  <2>4. th[t].pc \in AddPCs \ {"track"}
    BY <1>3 DEF PortInv, RetryPC, Busy
  <2> QED  BY <1>3, <2>1, <2>2, <2>3, <2>4, ThreadFacts, NoneAssumption DEF Pod, Port, NameOf
<1> QED  BY <1>1, <1>2, <1>3 DEF Threads

LEMMA BusyApart ==
  ASSUME PortInv, NEW s \in Threads, NEW t \in Threads, s # t, Busy(s), Busy(t)
  PROVE  Port(s) # Port(t)
<1>1. \A n \in Names : Busy(n) => th[n].pc # "idle"
  BY DEF Busy
<1>2. \A n \in Names : Busy(n) /\ Busy("retry") => Port("retry") # n
  <2> SUFFICES ASSUME NEW n \in Names, Busy(n), Busy("retry") PROVE Port("retry") # n
    OBVIOUS
  <2>1. /\ Port("retry") = retryKey[1] /\ retryKey \in UIDs /\ retryPods[retryKey] # None
    BY BusyPort, ThreadFacts
  <2>2. Unlisted(n)
    BY <1>1 DEF PortInv, Held
  <2> QED  BY <2>1, <2>2 DEF Unlisted
<1> QED  BY <1>2, BusyPort, ThreadFacts DEF Threads

\* No other thread's view of its port changes.
LEMMA OthersSee ==
  ASSUME PortInv, NEW t \in Threads, UNCHANGED loopPod,
         \A s \in Threads \ {t} : th'[s] = th[s],
         \/ lsp' = lsp
         \/ Busy(t) /\ \A m \in Names \ {Port(t)} : lsp'[m] = lsp[m]
  PROVE  \A s \in Threads \ {t} : PortSeen(s)'
<1> SUFFICES ASSUME NEW s \in Threads \ {t} PROVE PortSeen(s)'
  OBVIOUS
<1>1. Pod(s)' = Pod(s) /\ Port(s)' = Port(s) /\ th'[s] = th[s]
  BY DEF Pod, Port, NameOf
<1>2. CASE ~Busy(s)
  BY <1>1, <1>2 DEF PortSeen, At, Busy
<1>3. CASE Busy(s)
  <2>1. lsp'[Port(s)] = lsp[Port(s)]
    BY <1>3, BusyPort, BusyApart
  <2> QED  BY <1>1, <2>1 DEF PortInv, PortSeen, At
<1> QED  BY <1>2, <1>3

\* What concerns n is unchanged, but that entries may have left the retry list.
LEMMA HeldFrame ==
  ASSUME NEW n \in Names, Held(n),
         pod'[n] = pod[n] \/ (pod'[n] # None => pod'[n].uid[1] = n),
         store'[n] = store[n], queue'[n] = queue[n], th'[n] = th[n],
         \A u \in UIDs : u[1] = n => retryPods'[u] \in {retryPods[u], None}
  PROVE  Held(n)'
<1>1. \A u : Current(n, u)' <=> Current(n, u)
  BY DEF Current
<1>2. Unlisted(n) => Unlisted(n)'
  BY DEF Unlisted
<1>3. \A u \in UIDs : u[1] = n /\ retryPods'[u] # None =>
        retryPods'[u] \in PodObj /\ retryPods'[u].uid = u /\ Current(n, u)'
  BY <1>1 DEF Held
<1> QED  BY <1>1, <1>2, <1>3 DEF Held

-----------------------------------------------------------------------------
LEMMA PortInvInit ==
  ASSUME Running, Init
  PROVE  PortInv
<1>1. Shape
  BY BoundsAssumption, ThreadTypes DEF Init, Shape
<1>2. \A t \in Threads : th[t] = Idle
  BY DEF Init
<1>3. Standing /\ RetryLoop /\ RetryPC
  BY <1>2, ThreadFacts DEF Init, Standing, RetryLoop, RetryPC, Running
<1>4. \A n \in Names : Held(n)
  BY <1>2, ThreadFacts DEF Init, Held
<1>5. \A t \in Threads : PortSeen(t)
  BY <1>2, ThreadFacts DEF PortSeen, At
<1> QED  BY <1>1, <1>3, <1>4, <1>5 DEF PortInv

\* Steps that leave the threads and the retry list alone.
LEMMA ClusterKeeps ==
  ASSUME PortInv, NEW n \in Names,
         \/ \E s \in BOOLEAN : CreatePod(n, s)
         \/ SchedulePod(n) \/ DeletePod(n) \/ ExpirePort(n)
  PROVE  PortInv'
<1> USE DEF api, informer, mem, retry, loop, phase
<1>1. /\ UNCHANGED <<store, queue, lsp, switch, retryPods, retryKey, due, todo, loopPod, th>>
      /\ UNCHANGED <<boot, joined, restarts>>
  BY DEF CreatePod, SchedulePod, DeletePod, ExpirePort
<1>2. /\ pod' \in [Names -> PodObj \cup {None}] /\ created' \in [Names -> 0 .. MaxUIDs]
      /\ portCache' \in [Names -> Entries \cup {None}]
      /\ \A m \in Names : pod'[m] = pod[m] \/ (pod'[m] # None => pod'[m].uid[1] = m)
  <2>1. CASE \E s \in BOOLEAN : CreatePod(n, s)
    <3>1. PICK s \in BOOLEAN : CreatePod(n, s)
      BY <2>1
    <3>2. /\ created[n] < MaxUIDs /\ created' = [created EXCEPT ![n] = created[n] + 1]
          /\ pod' = [pod EXCEPT ![n] = [uid |-> <<n, created'[n]>>, sched |-> s, ann |-> None]]
          /\ UNCHANGED portCache
      BY <3>1 DEF CreatePod, MayCreate
    <3>3. created[n] + 1 \in 1 .. MaxUIDs /\ created'[n] = created[n] + 1
      BY <3>2, BoundsAssumption DEF PortInv, Shape
    <3>4. [uid |-> <<n, created'[n]>>, sched |-> s, ann |-> None] \in PodObj
      BY <3>3, UIDFacts DEF PodObj
    <3> QED  BY <3>2, <3>3, <3>4 DEF PortInv, Shape
  <2>2. CASE SchedulePod(n) \/ DeletePod(n)
    <3>1. pod[n] # None => pod[n] \in PodObj /\ pod[n].uid[1] = n
      BY DEF PortInv, Shape, Held
    <3>2. /\ pod[n] # None /\ UNCHANGED <<created, portCache>>
          /\ \/ pod' = [pod EXCEPT ![n].sched = TRUE]
             \/ pod' = [pod EXCEPT ![n] = None]
      BY <2>2 DEF SchedulePod, DeletePod
    <3>3. [pod[n] EXCEPT !.sched = TRUE] \in PodObj /\ [pod[n] EXCEPT !.sched = TRUE].uid = pod[n].uid
      BY <3>1, <3>2 DEF PodObj
    <3> QED  BY <3>1, <3>2, <3>3 DEF PortInv, Shape
  <2>3. CASE ExpirePort(n)
    BY <2>3 DEF ExpirePort, PortInv, Shape
  <2> QED  BY <2>1, <2>2, <2>3
<1>3. Shape' /\ Standing' /\ RetryLoop' /\ RetryPC'
  BY <1>1, <1>2 DEF PortInv, Shape, Standing, RetryLoop, RetryPC
<1>4. \A m \in Names : Held(m)'
  BY <1>1, <1>2, HeldFrame DEF PortInv
<1>5. \A t \in Threads : PortSeen(t)'
  BY <1>1 DEF PortInv, PortSeen, At, Port, Pod, NameOf
<1> QED  BY <1>3, <1>4, <1>5 DEF PortInv

LEMMA DeliverKeeps ==
  ASSUME PortInv, NEW n \in Names, Deliver(n)
  PROVE  PortInv'
<1> USE DEF api, informer, mem, retry, loop, phase
<1> DEFINE new == IF store[n] # None /\ pod[n] # None /\ store[n].uid # pod[n].uid
                  THEN None ELSE pod[n]
           e == Event(store[n], new)
<1>1. /\ store[n] # pod[n] /\ queue[n] = None
      /\ store' = [store EXCEPT ![n] = new] /\ queue' = [queue EXCEPT ![n] = e]
      /\ UNCHANGED <<pod, created, lsp, switch, portCache, retryPods, retryKey, due, todo,
                     loopPod, th, boot, joined, restarts>>
  BY DEF Deliver, PortInv, Standing
<1>2. /\ store[n] \in PodObj \cup {None} /\ new \in PodObj \cup {None} /\ store[n] # new
      /\ store[n] # None => store[n].uid[1] = n
      /\ new # None => new.uid[1] = n
      /\ store[n] # None /\ new # None => store[n].uid = new.uid
  BY <1>1 DEF PortInv, Shape, Held
<1> HIDE DEF new
<1>3. /\ e \in Events /\ e.obj.uid[1] = n
      /\ new = IF e.type = "delete" THEN None ELSE e.obj
      /\ store[n] # None => e.type # "add" /\ e.obj.uid = store[n].uid
  <2>1. CASE store[n] = None
    BY <1>2, <2>1 DEF Event, Events
  <2>2. CASE store[n] # None /\ new = None
    BY <1>2, <2>2 DEF Event, Events
  <2>3. CASE store[n] # None /\ new # None
    BY <1>2, <2>3 DEF Event, Events
  <2> QED  BY <2>1, <2>2, <2>3
<1> HIDE DEF e
<1>4. e # None
  BY <1>3, NoneAssumption
<1>5. /\ store'[n] = new /\ queue'[n] = e
      /\ \A m \in Names \ {n} : store'[m] = store[m] /\ queue'[m] = queue[m]
      /\ store' \in [Names -> PodObj \cup {None}] /\ queue' \in [Names -> Events \cup {None}]
  BY <1>1, <1>2, <1>3 DEF PortInv, Shape
<1>6. \A u : Current(n, u) => Current(n, u)'
  BY <1>1, <1>3, <1>4, <1>5 DEF Current
<1>7. Held(n)'
  <2>1. Held(n)
    BY DEF PortInv
  <2> QED  BY <1>1, <1>2, <1>3, <1>5, <1>6, <2>1 DEF Held, Unlisted
<1>8. \A m \in Names \ {n} : Held(m)'
  BY <1>1, <1>5, HeldFrame DEF PortInv
<1>9. Shape' /\ Standing' /\ RetryLoop' /\ RetryPC'
  BY <1>1, <1>5 DEF PortInv, Shape, Standing, RetryLoop, RetryPC
<1>10. \A t \in Threads : PortSeen(t)'
  BY <1>1 DEF PortInv, PortSeen, At, Port, Pod, NameOf
<1> QED  BY <1>7, <1>8, <1>9, <1>10 DEF PortInv

-----------------------------------------------------------------------------
(* A step of one thread, t, which concerns the name n. *)

LEMMA ThreadStep ==
  ASSUME PortInv, NEW t \in Threads, t # "node", NEW n \in Names, NEW r \in ThreadStates,
         th' = [th EXCEPT ![t] = r], t \in Names => t = n,
         UNCHANGED <<created, store, switch, todo, loopPod, boot, joined, restarts>>,
         pod' \in [Names -> PodObj \cup {None}],
         \A m \in Names \ {n} : pod'[m] = pod[m],
         queue' \in [Names -> Events \cup {None}],
         \A m \in Names \ {n} : queue'[m] = queue[m],
         portCache' \in [Names -> Entries \cup {None}],
         retryPods' \in [UIDs -> PodObj \cup {None, Alias}],
         \A u \in UIDs : u[1] # n => retryPods'[u] \in {retryPods[u], None},
         due' \subseteq UIDs,
         lsp' \in [Names -> IPs \cup {None}],
         lsp' = lsp \/ (Busy(t) /\ \A m \in Names \ {Port(t)} : lsp'[m] = lsp[m]),
         Held(n)', PortSeen(t)', RetryLoop', RetryPC'
  PROVE  PortInv'
<1>1. /\ th' \in [Threads -> ThreadStates] /\ th'[t] = r
      /\ \A s \in Threads \ {t} : th'[s] = th[s]
  BY DEF PortInv, Shape
<1>2. Shape' /\ Standing'
  BY <1>1, ThreadFacts DEF PortInv, Shape, Standing
<1>3. \A s \in Threads \ {t} : PortSeen(s)'
  BY <1>1, OthersSee
<1>4. \A m \in Names \ {n} : Held(m)'
  BY <1>1, HeldFrame, ThreadFacts DEF PortInv
<1> QED  BY <1>2, <1>3, <1>4 DEF PortInv

\* The handlers of WatchPods start.
LEMMA HandlerKeeps ==
  ASSUME PortInv, NEW n \in Names, PodAdd(n) \/ PodUpdate(n) \/ PodDelete(n)
  PROVE  PortInv'
<1> USE DEF api, informer, mem, retry, loop, phase
<1>1. /\ th[n].pc = "idle" /\ queue[n] # None /\ queue' = [queue EXCEPT ![n] = None]
      /\ UNCHANGED <<pod, created, store, lsp, switch, portCache, retryKey, due, todo, loopPod,
                     boot, joined, restarts>>
  BY DEF PodAdd, PodUpdate, PodDelete, Take, At
<1>2. PICK p \in PodObj :
        /\ p = queue[n].obj /\ p.uid[1] = n /\ p.uid \in UIDs /\ p.sched \in BOOLEAN
        /\ p.ann \in IPs \cup {None} /\ p # None /\ Held(n)
  BY <1>1, NoneAssumption DEF PortInv, Shape, Events, PodObj, Held
<1>3. queue'[n] = None /\ queue' \in [Names -> Events \cup {None}]
      /\ \A m \in Names \ {n} : queue'[m] = queue[m]
  BY <1>1 DEF PortInv, Shape
<1>4. PICK r \in ThreadStates :
        /\ th' = [th EXCEPT ![n] = r]
        /\ r = Idle \/ r.obj = p
        /\ IF queue[n].type = "delete" THEN r.pc = "lspdel"
           ELSE r.pc \in {"idle", "wait", "track"}
  <2>1. CASE PodAdd(n)
    <3>1. EnsurePod(p) \in {"wait", "track"} /\ EnsurePod(p) \in PCs
      BY DEF EnsurePod, PCs
    <3>2. th' = [th EXCEPT ![n] = Thread(EnsurePod(p), p)] /\ queue[n].type = "add"
      BY <1>2, <2>1 DEF PodAdd, Take
    <3>3. /\ Thread(EnsurePod(p), p) \in ThreadStates
          /\ Thread(EnsurePod(p), p).obj = p /\ Thread(EnsurePod(p), p).pc = EnsurePod(p)
      BY <3>1, ThreadTypes DEF Thread
    <3> QED  BY <3>1, <3>2, <3>3
  <2>2. CASE PodUpdate(n)
    <3>1. /\ queue[n].type = "update"
          /\ \/ th' = [th EXCEPT ![n] = Thread("track", p)]
             \/ th' = [th EXCEPT ![n] = Thread("wait", p)]
             \/ th' = [th EXCEPT ![n] = Idle]
      BY <1>2, <2>2 DEF PodUpdate, Take
    <3>2. /\ Thread("track", p) \in ThreadStates /\ Thread("track", p).obj = p
          /\ Thread("track", p).pc = "track"
          /\ Thread("wait", p) \in ThreadStates /\ Thread("wait", p).obj = p
          /\ Thread("wait", p).pc = "wait"
          /\ Idle \in ThreadStates /\ Idle.pc = "idle"
      BY ThreadTypes DEF PCs, Thread, Idle
    <3> QED  BY <3>1, <3>2
  <2>3. CASE PodDelete(n)
    <3>1. PICK b \in BOOLEAN, a \in IPs \cup {None} :
            th' = [th EXCEPT ![n] = [pc |-> "lspdel", obj |-> p, seen |-> b, ip |-> a]]
      <4>1. portCache[n] # None => portCache[n].ip \in IPs \cup {None}
        BY DEF PortInv, Shape, Entries
      <4> QED  BY <1>2, <2>3, <4>1 DEF PodDelete
    <3>2. [pc |-> "lspdel", obj |-> p, seen |-> b, ip |-> a] \in ThreadStates
      BY <1>2 DEF ThreadStates, PCs
    <3>3. queue[n].type = "delete"
      BY <2>3 DEF PodDelete, Take
    <3> QED  BY <3>1, <3>2, <3>3
  <2> QED  BY <2>1, <2>2, <2>3
<1>5. th'[n] = r /\ th'["retry"] = th["retry"]
  BY <1>4, ThreadFacts DEF PortInv, Shape
<1>6. /\ retryPods' \in [UIDs -> PodObj \cup {None, Alias}]
      /\ \A u \in UIDs : u # p.uid => retryPods'[u] = retryPods[u]
      /\ retryPods'[p.uid] \in {retryPods[p.uid], None}
      /\ queue[n].type # "add" => retryPods'[p.uid] = None
      /\ retryPods' = retryPods \/ th["retry"].pc = "idle"
  BY <1>2 DEF PodAdd, PodUpdate, PodDelete, Take, At, LockFree, WithoutEntry, PortInv, Shape
<1>7. Unlisted(n)'
  <2>1. \A u \in UIDs : u[1] = n /\ retryPods[u] # None => Current(n, u)
    BY <1>2 DEF Held
  <2>2. \A u \in UIDs : u[1] = n /\ retryPods[u] # None =>
          queue[n].type # "add" /\ u = p.uid
    BY <1>1, <1>2, <2>1 DEF Current
  <2> QED  BY <1>6, <2>2 DEF Unlisted
<1>8. queue[n].type # "delete" => Current(n, p.uid)'
  BY <1>1, <1>2, <1>3 DEF Current, Held
<1>9. Held(n)'
  <2>1. /\ pod'[n] # None => pod'[n].uid[1] = n
        /\ store'[n] # None => store'[n].uid[1] = n
    BY <1>1, <1>2 DEF Held
  <2>2. r.pc # "idle" => r.obj = p
    BY <1>4, ThreadFacts
  <2>3. r.pc # "idle" => r.pc \in AddPCs \cup DelPCs /\ (r.pc \in AddPCs => queue[n].type # "delete")
    BY <1>4 DEF AddPCs, DelPCs
  <2> QED  BY <1>2, <1>3, <1>5, <1>7, <1>8, <2>1, <2>2, <2>3 DEF Held, Unlisted
<1>10. RetryLoop' /\ RetryPC'
  BY <1>1, <1>5, <1>6 DEF PortInv, RetryLoop, RetryPC
<1>11. PortSeen(n)'
  <2>1. r.pc \notin {"assign", "annotate"}
    BY <1>4
  <2> QED  BY <1>5, <2>1 DEF PortSeen, At
<1>12. \A u \in UIDs : u[1] # n => retryPods'[u] \in {retryPods[u], None}
  BY <1>2, <1>6
<1>13. due' \subseteq UIDs /\ pod' \in [Names -> PodObj \cup {None}] /\ n # "node" /\ n \in Threads
       /\ portCache' \in [Names -> Entries \cup {None}] /\ lsp' \in [Names -> IPs \cup {None}]
  BY <1>1, ThreadFacts DEF PortInv, Shape
<1> QED  BY <1>1, <1>3, <1>4, <1>6, <1>9, <1>10, <1>11, <1>12, <1>13, ThreadStep

\* deleteLogicalPort
LEMMA DeleterKeeps ==
  ASSUME PortInv, NEW n \in Names, OvnNBLSPDel(n) \/ ReleasePortIPs(n) \/ UncachePort(n)
  PROVE  PortInv'
<1> USE DEF api, informer, mem, retry, loop, phase
<1>1. /\ th[n].pc \in DelPCs /\ n \in Threads /\ n # "node"
      /\ UNCHANGED <<pod, created, store, queue, switch, retryPods, retryKey, due, todo, loopPod,
                     boot, joined, restarts>>
  BY ThreadFacts DEF OvnNBLSPDel, ReleasePortIPs, UncachePort, At, DelPCs
<1>2. Busy(n) /\ Port(n) = n /\ th[n] \in ThreadStates /\ Held(n)
  BY <1>1, BusyPort DEF Busy, DelPCs, PortInv, Shape
<1>3. PICK r \in ThreadStates :
        /\ th' = [th EXCEPT ![n] = r]
        /\ r = Idle \/ (r.pc \in DelPCs /\ r.obj = th[n].obj)
  <2>1. \A l \in DelPCs : /\ [th[n] EXCEPT !.pc = l] \in ThreadStates
                          /\ [th[n] EXCEPT !.pc = l].pc = l
                          /\ [th[n] EXCEPT !.pc = l].obj = th[n].obj
    BY <1>2 DEF ThreadStates, PCs, DelPCs
  <2>2. \E l \in DelPCs : th' \in {[th EXCEPT ![n] = [th[n] EXCEPT !.pc = l]], [th EXCEPT ![n] = Idle]}
    BY DEF OvnNBLSPDel, ReleasePortIPs, UncachePort, Goto, DelPCs
  <2> QED  BY <2>1, <2>2, ThreadTypes
<1>4. th'[n] = r /\ th'["retry"] = th["retry"]
  BY <1>1, <1>3, ThreadFacts DEF PortInv, Shape
<1>5. /\ lsp' \in [Names -> IPs \cup {None}]
      /\ \A m \in Names \ {n} : lsp'[m] = lsp[m]
      /\ portCache' \in [Names -> Entries \cup {None}]
  <2>1. portCache[n] # None => [portCache[n] EXCEPT !.expires = TRUE] \in Entries
    BY DEF PortInv, Shape, Entries
  <2> QED  BY <2>1 DEF OvnNBLSPDel, ReleasePortIPs, UncachePort, PortInv, Shape
<1>6. Held(n)'
  <2>1. r.pc # "idle" => r.pc \in DelPCs /\ r.pc \notin AddPCs /\ r.obj = th[n].obj
    BY <1>3, ThreadFacts DEF DelPCs, AddPCs
  <2>2. th[n].pc # "idle"
    BY <1>1 DEF DelPCs
  <2>3. \A u : Current(n, u)' <=> Current(n, u)
    BY <1>1 DEF Current
  <2> QED  BY <1>1, <1>2, <1>4, <2>1, <2>2, <2>3 DEF Held, Unlisted
<1>7. RetryLoop' /\ RetryPC'
  BY <1>1, <1>4 DEF PortInv, RetryLoop, RetryPC
<1>8. PortSeen(n)'
  <2>1. r.pc \notin {"assign", "annotate"}
    BY <1>3, ThreadFacts DEF DelPCs
  <2> QED  BY <1>4, <2>1 DEF PortSeen, At
<1>9. /\ due' \subseteq UIDs /\ pod' \in [Names -> PodObj \cup {None}]
      /\ queue' \in [Names -> Events \cup {None}]
      /\ retryPods' \in [UIDs -> PodObj \cup {None, Alias}]
  BY <1>1 DEF PortInv, Shape
<1> QED  BY <1>1, <1>2, <1>3, <1>5, <1>6, <1>7, <1>8, <1>9, ThreadStep

\* addRetryPod
LEMMA TrackerKeeps ==
  ASSUME PortInv, NEW t \in Threads, AddRetryPod(t)
  PROVE  PortInv'
<1> USE DEF api, informer, mem, retry, loop, phase
<1>1. /\ th[t].pc = "track" /\ th["retry"].pc = "idle"
      /\ UNCHANGED <<pod, created, store, queue, lsp, switch, portCache, retryKey, due, todo,
                     loopPod, boot, joined, restarts>>
  BY DEF AddRetryPod, At, LockFree
<1>2. /\ t \in Names /\ Pod(t) = th[t].obj /\ th[t].obj \in PodObj
  BY <1>1, BusyPort DEF Busy
<1>3. th' = [th EXCEPT ![t] = Idle] /\ t # "node" /\ Idle \in ThreadStates
  BY <1>2, ThreadFacts, ThreadTypes DEF AddRetryPod
<1>4. th'[t] = Idle /\ th'["retry"] = th["retry"]
  BY <1>2, <1>3, ThreadFacts DEF PortInv, Shape
<1>5. PICK p \in PodObj : /\ p = th[t].obj /\ p.uid \in UIDs /\ p.uid[1] = t /\ Held(t)
                           /\ Current(t, p.uid) /\ Unlisted(t)
  BY <1>1, <1>2 DEF PortInv, Held, PodObj, AddPCs
<1>6. retryPods' = [retryPods EXCEPT ![p.uid] = p]
  BY <1>2, <1>5 DEF AddRetryPod
<1>7. /\ retryPods' \in [UIDs -> PodObj \cup {None, Alias}] /\ retryPods'[p.uid] = p
      /\ \A u \in UIDs \ {p.uid} : retryPods'[u] = retryPods[u]
  BY <1>2, <1>5, <1>6 DEF PortInv, Shape
<1>8. Held(t)'
  <2>1. \A u \in UIDs : u[1] = t /\ retryPods'[u] # None => u = p.uid /\ retryPods'[u] = p
    BY <1>5, <1>7 DEF Unlisted
  <2>2. Current(t, p.uid)'
    BY <1>1, <1>5 DEF Current
  <2> QED  BY <1>1, <1>2, <1>4, <1>5, <2>1, <2>2, ThreadFacts DEF Held
<1>9. RetryLoop' /\ RetryPC'
  BY <1>1, <1>4 DEF PortInv, RetryLoop, RetryPC
<1>10. PortSeen(t)'
  BY <1>4, ThreadFacts DEF PortSeen, At
<1>11. \A u \in UIDs : u[1] # t => retryPods'[u] \in {retryPods[u], None}
  BY <1>5, <1>7
<1>12. /\ due' \subseteq UIDs /\ pod' \in [Names -> PodObj \cup {None}]
       /\ queue' \in [Names -> Events \cup {None}] /\ portCache' \in [Names -> Entries \cup {None}]
       /\ lsp' \in [Names -> IPs \cup {None}]
  BY <1>1 DEF PortInv, Shape
<1> QED  BY <1>1, <1>2, <1>3, <1>7, <1>8, <1>9, <1>10, <1>11, <1>12, ThreadStep

-----------------------------------------------------------------------------
(* The retry loop and addLogicalPort. *)

LEMMA LoopKeeps ==
  ASSUME PortInv,
         \/ \E S \in SUBSET UIDs : RetryBegin(S)
         \/ RetryEnd \/ \E u \in UIDs : RetryNext(u)
  PROVE  PortInv'
<1> USE DEF api, informer, mem, retry, loop, phase
<1>1. /\ th["retry"].pc \in {"idle", "iterate"} /\ th["retry"] \in ThreadStates
      /\ UNCHANGED <<pod, created, store, queue, lsp, switch, portCache, retryPods, todo, loopPod,
                     boot, joined, restarts>>
      /\ "retry" \in Threads
  BY ThreadFacts DEF RetryBegin, RetryEnd, RetryNext, At, PortInv, Shape
<1>2. due' \subseteq UIDs /\ \A u \in due' : retryPods[u] # None
  BY DEF RetryBegin, RetryEnd, RetryNext, PortInv, Shape, RetryLoop
<1>3. PICK r \in ThreadStates :
        /\ th' = [th EXCEPT !["retry"] = r]
        /\ r.pc \in {"idle", "iterate", "wait"}
        /\ r.pc = "idle" => due' = {}
        /\ r.pc = "wait" => /\ retryKey' \in UIDs \ due' /\ retryPods[retryKey'] # None
                            /\ r.obj = retryPods[retryKey']
  <2>1. \A l \in {"idle", "iterate"} : /\ [th["retry"] EXCEPT !.pc = l] \in ThreadStates
                                       /\ [th["retry"] EXCEPT !.pc = l].pc = l
    BY <1>1 DEF ThreadStates, PCs
  <2>2. CASE \E S \in SUBSET UIDs : RetryBegin(S)
    <3>1. th' = [th EXCEPT !["retry"] = [th["retry"] EXCEPT !.pc = "iterate"]]
      BY <2>2 DEF RetryBegin, Goto
    <3> QED  BY <2>1, <3>1
  <2>3. CASE RetryEnd
    <3>1. th' = [th EXCEPT !["retry"] = [th["retry"] EXCEPT !.pc = "idle"]] /\ due' = {}
      BY <2>3 DEF RetryEnd, Goto
    <3> QED  BY <2>1, <3>1
  <2>4. CASE \E u \in UIDs : RetryNext(u)
    <3>1. PICK u \in UIDs : RetryNext(u)
      BY <2>4
    <3>2. /\ u \in due /\ due' = due \ {u} /\ retryKey' = u /\ retryPods[u] # None
          /\ th["retry"].pc = "iterate"
          /\ th' = th \/ th' = [th EXCEPT !["retry"] = Thread("wait", retryPods[u])]
      BY <3>1 DEF RetryNext, At, PortInv, RetryLoop
    <3>3. CASE th' = th
      <4>1. th' = [th EXCEPT !["retry"] = th["retry"]]
        BY <3>3, ThreadFacts DEF PortInv, Shape
      <4> QED  BY <1>1, <3>2, <4>1
    <3>4. CASE th' = [th EXCEPT !["retry"] = Thread("wait", retryPods[u])]
      <4>1. Thread("wait", retryPods[u]) \in ThreadStates
        <5>1. retryPods[u] \in PodObj \cup {None, Alias}
          BY DEF PortInv, Shape
        <5> QED  BY <5>1, ThreadTypes DEF PCs
      <4>2. Thread("wait", retryPods[u]).pc = "wait" /\ Thread("wait", retryPods[u]).obj = retryPods[u]
        BY DEF Thread
      <4> QED  BY <3>2, <3>4, <4>1, <4>2
    <3> QED  BY <3>2, <3>3, <3>4
  <2> QED  BY <2>2, <2>3, <2>4
<1>4. /\ th'["retry"] = r /\ \A s \in Threads \ {"retry"} : th'[s] = th[s]
      /\ th' \in [Threads -> ThreadStates]
  BY <1>1, <1>3 DEF PortInv, Shape
<1>5. Shape' /\ Standing'
  BY <1>1, <1>2, <1>4, ThreadFacts DEF PortInv, Shape, Standing
<1>6. RetryLoop' /\ RetryPC'
  BY <1>1, <1>2, <1>3, <1>4 DEF RetryLoop, RetryPC, AddPCs
<1>7. \A n \in Names : Held(n)'
  BY <1>1, <1>4, ThreadFacts, HeldFrame DEF PortInv
<1>8. \A s \in Threads : PortSeen(s)'
  <2>1. PortSeen("retry")'
    BY <1>3, <1>4 DEF PortSeen, At
  <2>2. \A s \in Threads \ {"retry"} : PortSeen(s)'
    BY <1>1, <1>4, OthersSee
  <2> QED  BY <2>1, <2>2
<1> QED  BY <1>5, <1>6, <1>7, <1>8 DEF PortInv

\* addLogicalPort returns; it may have written the port cache and, before, OVN.
LEMMA ReturnKeeps ==
  ASSUME PortInv, NEW t \in Threads, Busy(t), th[t].pc \in AddPCs,
         NEW ok \in BOOLEAN, Return(t, ok),
         UNCHANGED <<pod, created, store, queue, lsp, switch, retryKey, due, todo, loopPod,
                     boot, joined, restarts>>,
         portCache' \in [Names -> Entries \cup {None}]
  PROVE  PortInv'
<1>1. /\ Pod(t) = th[t].obj /\ th[t].obj \in PodObj /\ Port(t) \in Names
      /\ t \in Names => Port(t) = t
      /\ t \notin Names => /\ t = "retry" /\ Port(t) = retryKey[1]
                           /\ retryKey \in UIDs \ due /\ retryPods[retryKey] # None
  BY BusyPort
<1>2. t # "node" /\ (t = "retry" <=> t \notin Names)
  BY <1>1, ThreadFacts
<1>3. PICK r \in ThreadStates :
        /\ th' = [th EXCEPT ![t] = r]
        /\ r.pc = IF t = "retry" THEN "iterate" ELSE IF ok THEN "idle" ELSE "track"
        /\ r.pc = "track" => r.obj = th[t].obj
  <2>1. CASE t = "retry"
    <3>1. th' = [th EXCEPT ![t] = Thread("iterate", None)]
      BY <1>2, <2>1 DEF Return
    <3>2. Thread("iterate", None) \in ThreadStates /\ Thread("iterate", None).pc = "iterate"
      BY ThreadTypes DEF Thread, PCs
    <3> QED  BY <2>1, <3>1, <3>2
  <2>2. CASE t # "retry" /\ ok
    <3>1. th' = [th EXCEPT ![t] = Idle]
      BY <1>2, <2>2 DEF Return
    <3> QED  BY <2>2, <3>1, ThreadTypes, ThreadFacts
  <2>3. CASE t # "retry" /\ ~ok
    <3>1. th' = [th EXCEPT ![t] = Thread("track", th[t].obj)]
      BY <2>3 DEF Return
    <3>2. /\ Thread("track", th[t].obj) \in ThreadStates /\ Thread("track", th[t].obj).pc = "track"
          /\ Thread("track", th[t].obj).obj = th[t].obj
      BY <1>1, ThreadTypes DEF Thread, PCs
    <3> QED  BY <2>3, <3>1, <3>2
  <2> QED  BY <2>1, <2>2, <2>3
<1>4. th'[t] = r /\ \A s \in Threads \ {t} : th'[s] = th[s]
  BY <1>3 DEF PortInv, Shape
<1>5. /\ retryPods' \in [UIDs -> PodObj \cup {None, Alias}]
      /\ t # "retry" => retryPods' = retryPods
      /\ \A u \in UIDs : retryPods'[u] \in {retryPods[u], None}
      /\ t = "retry" => \A u \in UIDs \ {retryKey} : retryPods'[u] = retryPods[u]
  BY <1>1, <1>2 DEF Return, PortInv, Shape
<1>6. RetryLoop' /\ RetryPC'
  <2>1. CASE t = "retry"
    <3>1. \A u \in due : u \in UIDs \ {retryKey} /\ retryPods[u] # None
      BY <1>1, <1>2, <2>1 DEF PortInv, Shape, RetryLoop
    <3> QED  BY <1>3, <1>4, <1>5, <2>1, <3>1 DEF RetryLoop, RetryPC
  <2>2. CASE t # "retry"
    BY <1>4, <1>5, <2>2, ThreadFacts DEF PortInv, RetryLoop, RetryPC
  <2> QED  BY <2>1, <2>2
<1>7. PICK n \in Names : n = Port(t) /\ (t \in Names => t = n)
  BY <1>1
<1>8. Held(n)'
  <2>1. CASE t = "retry"
    BY <1>2, <1>4, <1>5, <1>7, <2>1, HeldFrame, ThreadFacts DEF PortInv
  <2>2. CASE t # "retry"
    <3>1. t = n /\ Held(n) /\ th[n].pc # "idle" /\ th[n].pc \in AddPCs
      BY <1>2, <1>7, <2>2 DEF PortInv, Busy
    <3>2. \A u : Current(n, u)' <=> Current(n, u)
      BY DEF Current
    <3>3. r.pc # "idle" => r.pc = "track" /\ r.obj = th[n].obj /\ r.pc \in AddPCs
      BY <1>3, <2>2, <3>1 DEF AddPCs
    <3> QED  BY <1>4, <1>5, <2>2, <3>1, <3>2, <3>3 DEF Held, Unlisted
  <2> QED  BY <2>1, <2>2
<1>9. PortSeen(t)'
  <2>1. r.pc \notin {"assign", "annotate"}
    BY <1>3
  <2> QED  BY <1>4, <2>1 DEF PortSeen, At
<1>10. /\ due' \subseteq UIDs /\ pod' \in [Names -> PodObj \cup {None}]
       /\ queue' \in [Names -> Events \cup {None}] /\ lsp' \in [Names -> IPs \cup {None}]
  BY DEF PortInv, Shape
<1> QED  BY <1>2, <1>3, <1>5, <1>6, <1>7, <1>8, <1>9, <1>10, ThreadStep

\* addLogicalPort goes on.
LEMMA AdderGoesOn ==
  ASSUME PortInv, NEW t \in Threads, Busy(t), th[t].pc \in AddPCs,
         th' \in [Threads -> ThreadStates], \A s \in Threads \ {t} : th'[s] = th[s],
         th'[t].pc \in AddPCs \ {"track"}, th'[t].obj = th[t].obj,
         th'[t].pc = "assign" => th'[t].ip = lsp[Port(t)],
         th'[t].pc = "annotate" /\ lsp[Port(t)] # None => th'[t].ip = lsp[Port(t)],
         UNCHANGED <<created, store, queue, switch, portCache, retryPods, retryKey, due, todo,
                     loopPod, boot, joined, restarts>>,
         pod' \in [Names -> PodObj \cup {None}],
         \A m \in Names \ {Port(t)} : pod'[m] = pod[m],
         pod'[Port(t)] # None => pod'[Port(t)].uid[1] = Port(t),
         lsp' \in [Names -> IPs \cup {None}],
         \A m \in Names \ {Port(t)} : lsp'[m] = lsp[m],
         lsp' = lsp \/ th'[t].pc \notin {"assign", "annotate"}
  PROVE  PortInv'
<1>0. PICK r \in ThreadStates : r = th'[t] /\ th' = [th EXCEPT ![t] = r]
  BY DEF PortInv, Shape
<1>1. /\ Pod(t) = th[t].obj /\ th[t].obj \in PodObj /\ Port(t) \in Names
      /\ t \in Names => Port(t) = t
      /\ t \notin Names => t = "retry"
  BY BusyPort
<1>2. t # "node" /\ (t = "retry" <=> t \notin Names)
  BY <1>1, ThreadFacts
<1>3. th'[t] = r /\ \A s \in Threads \ {t} : th'[s] = th[s]
  BY <1>0
<1>4. RetryLoop' /\ RetryPC'
  <2>1. CASE t = "retry"
    <3>1. r.pc \notin {"idle", "iterate"}
      BY <1>0 DEF AddPCs
    <3> QED  BY <1>3, <2>1, <3>1 DEF PortInv, RetryLoop, RetryPC, Busy
  <2>2. CASE t # "retry"
    BY <1>3, <2>2, ThreadFacts DEF PortInv, RetryLoop, RetryPC
  <2> QED  BY <2>1, <2>2
<1>5. PortSeen(t)'
  <2>1. Port(t)' = Port(t)
    BY <1>1, <1>3 DEF Port, Pod, NameOf
  <2> QED  BY <1>3, <2>1 DEF PortSeen, At
<1>6. PICK n \in Names : n = Port(t)
  BY <1>1
<1>7. Held(n)'
  <2>1. CASE t = "retry"
    BY <1>2, <1>3, <1>6, <2>1, HeldFrame, ThreadFacts DEF PortInv
  <2>2. CASE t # "retry"
    <3>1. t = n /\ Held(n) /\ th[n].pc # "idle" /\ th[n].pc \in AddPCs
      BY <1>1, <1>2, <1>6, <2>2 DEF PortInv, Busy
    <3>2. \A u : Current(n, u)' <=> Current(n, u)
      BY DEF Current
    <3> QED  BY <1>3, <1>6, <3>1, <3>2 DEF Held, Unlisted
  <2> QED  BY <2>1, <2>2
<1>8. /\ due' \subseteq UIDs /\ queue' \in [Names -> Events \cup {None}]
      /\ portCache' \in [Names -> Entries \cup {None}]
      /\ retryPods' \in [UIDs -> PodObj \cup {None, Alias}]
  BY DEF PortInv, Shape
<1> QED  BY <1>0, <1>1, <1>2, <1>4, <1>5, <1>6, <1>7, <1>8, ThreadStep

LEMMA AdderKeeps ==
  ASSUME PortInv, NEW t \in Threads, AddLogicalPort(t)
  PROVE  PortInv'
<1> USE DEF api, informer, mem, retry, loop, phase
<1> DEFINE GivesUp == Return(t, FALSE) /\ UNCHANGED <<pod, lsp, portCache>>
<1>1. /\ th[t].pc \in AddPCs /\ Busy(t)
      /\ UNCHANGED <<created, store, queue, switch, retryKey, due, todo, loopPod, boot, joined, restarts>>
  BY DEF AddLogicalPort, WaitForNodeLogicalSwitch, GetPort, GetPortAddresses, ReserveAnnotated,
         AssignAddress, SetAnnotationsOnPod, ExecutePort, CachePort, At, AddPCs, Busy
<1>2. /\ Pod(t) = th[t].obj /\ th[t].obj \in PodObj /\ Port(t) \in Names
      /\ th[t] \in ThreadStates /\ switch
      /\ lsp \in [Names -> IPs \cup {None}] /\ pod \in [Names -> PodObj \cup {None}]
      /\ portCache \in [Names -> Entries \cup {None}] /\ PortSeen(t)
      /\ pod[Port(t)] # None => pod[Port(t)].uid[1] = Port(t)
  BY <1>1, BusyPort DEF PortInv, Shape, Standing, Held
<1>3. /\ th \in [Threads -> ThreadStates]
      /\ th[t].seen \in BOOLEAN /\ th[t].ip \in IPs \cup {None} /\ th[t].obj.ann \in IPs \cup {None}
  BY <1>2 DEF PortInv, Shape, ThreadStates, PodObj
<1>4. ASSUME NEW l \in AddPCs \ {"track"}, NEW b \in BOOLEAN, NEW a \in IPs \cup {None},
             \/ th' = [th EXCEPT ![t].pc = l] /\ a = th[t].ip
             \/ th' = [th EXCEPT ![t].pc = l, ![t].seen = b] /\ a = th[t].ip
             \/ th' = [th EXCEPT ![t].pc = l, ![t].ip = a]
      PROVE  /\ th' \in [Threads -> ThreadStates] /\ \A s \in Threads \ {t} : th'[s] = th[s]
             /\ th'[t].pc = l /\ th'[t].obj = th[t].obj /\ th'[t].ip = a
  <2>1. l \in PCs
    BY DEF AddPCs, PCs
  <2> QED  BY <1>2, <1>3, <1>4, <2>1 DEF ThreadStates
<1>5. CASE WaitForNodeLogicalSwitch(t) \/ (GetPort(t) /\ ~GivesUp)
  <2>1. /\ UNCHANGED <<pod, lsp, portCache, retryPods>>
        /\ \E l \in {"get", "reserve", "addr"}, b \in BOOLEAN :
             \/ th' = [th EXCEPT ![t].pc = l]
             \/ th' = [th EXCEPT ![t].pc = l, ![t].seen = b]
    <3>1. CASE WaitForNodeLogicalSwitch(t)
      BY <1>2, <3>1 DEF WaitForNodeLogicalSwitch, Goto
    <3>2. CASE GetPort(t) /\ ~GivesUp
      BY <3>2 DEF GetPort
    <3> QED  BY <1>5, <3>1, <3>2
  <2>2. {"get", "reserve", "addr"} \subseteq AddPCs \ {"track"}
    BY DEF AddPCs
  <2>3. /\ th' \in [Threads -> ThreadStates] /\ \A s \in Threads \ {t} : th'[s] = th[s]
        /\ th'[t].pc \in {"get", "reserve", "addr"} /\ th'[t].obj = th[t].obj
    BY <1>3, <1>4, <2>1, <2>2
  <2> QED  BY <1>1, <1>2, <2>1, <2>2, <2>3, AdderGoesOn
<1>6. CASE GetPortAddresses(t) /\ ~GivesUp
  <2>1. /\ th' = [th EXCEPT ![t].pc = "assign", ![t].ip = lsp[Port(t)]]
        /\ UNCHANGED <<pod, lsp, portCache, retryPods>>
    BY <1>6 DEF GetPortAddresses
  <2>2. "assign" \in AddPCs \ {"track"} /\ lsp[Port(t)] \in IPs \cup {None}
    BY <1>2 DEF AddPCs
  <2>3. /\ th' \in [Threads -> ThreadStates] /\ \A s \in Threads \ {t} : th'[s] = th[s]
        /\ th'[t].pc = "assign" /\ th'[t].obj = th[t].obj /\ th'[t].ip = lsp[Port(t)]
    BY <1>4, <2>1, <2>2
  <2> QED  BY <1>1, <1>2, <2>1, <2>2, <2>3, AdderGoesOn
<1>7. CASE ReserveAnnotated(t)
  <2>1. /\ th' = [th EXCEPT ![t].pc = "execute", ![t].ip = th[t].obj.ann]
        /\ UNCHANGED <<pod, lsp, portCache, retryPods>>
    BY <1>2, <1>7 DEF ReserveAnnotated
  <2>2. "execute" \in AddPCs \ {"track"}
    BY DEF AddPCs
  <2>3. /\ th' \in [Threads -> ThreadStates] /\ \A s \in Threads \ {t} : th'[s] = th[s]
        /\ th'[t].pc = "execute" /\ th'[t].obj = th[t].obj
    BY <1>3, <1>4, <2>1, <2>2
  <2> QED  BY <1>1, <1>2, <2>1, <2>2, <2>3, AdderGoesOn
<1>8. CASE AssignAddress(t) /\ ~GivesUp
  <2>1. PICK a \in Candidates(t) :
          /\ th[t].pc = "assign" /\ th' = [th EXCEPT ![t].pc = "annotate", ![t].ip = a]
          /\ UNCHANGED <<pod, lsp, portCache, retryPods>>
    BY <1>8 DEF AssignAddress, At
  <2>2. "annotate" \in AddPCs \ {"track"}
    BY DEF AddPCs
  <2>3. a \in IPs \cup {None} /\ (lsp[Port(t)] # None => a = lsp[Port(t)])
    BY <1>2, <1>3, <2>1 DEF Candidates, PortSeen, At
  <2>4. /\ th' \in [Threads -> ThreadStates] /\ \A s \in Threads \ {t} : th'[s] = th[s]
        /\ th'[t].pc = "annotate" /\ th'[t].obj = th[t].obj /\ th'[t].ip = a
    BY <1>4, <2>1, <2>2, <2>3
  <2> QED  BY <1>1, <1>2, <2>1, <2>2, <2>3, <2>4, AdderGoesOn
<1>9. CASE SetAnnotationsOnPod(t) /\ ~GivesUp
  <2>1. /\ th' = [th EXCEPT ![t].pc = "execute"] /\ pod[Port(t)] # None
        /\ pod' = [pod EXCEPT ![Port(t)].ann = th[t].ip]
        /\ UNCHANGED <<lsp, portCache, retryPods>>
    BY <1>9 DEF SetAnnotationsOnPod, Goto
  <2>2. "execute" \in AddPCs \ {"track"}
    BY DEF AddPCs
  <2>3. /\ [pod[Port(t)] EXCEPT !.ann = th[t].ip] \in PodObj
        /\ [pod[Port(t)] EXCEPT !.ann = th[t].ip].uid = pod[Port(t)].uid
    BY <1>2, <1>3, <2>1 DEF PodObj
  <2>4. /\ pod' \in [Names -> PodObj \cup {None}]
        /\ \A m \in Names \ {Port(t)} : pod'[m] = pod[m]
        /\ pod'[Port(t)].uid[1] = Port(t)
    BY <1>2, <2>1, <2>3
  <2>5. /\ th' \in [Threads -> ThreadStates] /\ \A s \in Threads \ {t} : th'[s] = th[s]
        /\ th'[t].pc = "execute" /\ th'[t].obj = th[t].obj
    BY <1>3, <1>4, <2>1, <2>2
  <2> QED  BY <1>1, <1>2, <2>1, <2>2, <2>4, <2>5, AdderGoesOn
<1>10. CASE ExecutePort(t) /\ ~GivesUp
  <2>1. /\ th' = [th EXCEPT ![t].pc = "cache"]
        /\ lsp' = lsp \/ lsp' = [lsp EXCEPT ![Port(t)] = th[t].ip]
        /\ UNCHANGED <<pod, portCache, retryPods>>
    BY <1>10 DEF ExecutePort, Goto
  <2>2. "cache" \in AddPCs \ {"track"}
    BY DEF AddPCs
  <2>3. /\ lsp' \in [Names -> IPs \cup {None}]
        /\ \A m \in Names \ {Port(t)} : lsp'[m] = lsp[m]
    BY <1>2, <1>3, <2>1
  <2>4. /\ th' \in [Threads -> ThreadStates] /\ \A s \in Threads \ {t} : th'[s] = th[s]
        /\ th'[t].pc = "cache" /\ th'[t].obj = th[t].obj
    BY <1>3, <1>4, <2>1, <2>2
  <2> QED  BY <1>1, <1>2, <2>1, <2>2, <2>3, <2>4, AdderGoesOn
<1>11. CASE CachePort(t)
  <2>1. \E ok \in BOOLEAN : Return(t, ok)
    BY <1>11 DEF CachePort
  <2>2. UNCHANGED <<pod, lsp>>
    BY <1>11 DEF CachePort
  <2>3. portCache' \in [Names -> Entries \cup {None}]
    <3>1. CASE portCache' = portCache
      BY <1>2, <3>1
    <3>2. CASE lsp[Port(t)] # None /\ portCache' = [portCache EXCEPT ![Port(t)] = [ip |-> th[t].ip, expires |-> FALSE]]
      BY <1>2, <1>3, <3>2 DEF Entries
    <3> QED  BY <1>11, <3>1, <3>2 DEF CachePort
  <2> QED  BY <1>1, <2>1, <2>2, <2>3, ReturnKeeps
<1>12. CASE GivesUp
  BY <1>1, <1>2, <1>12, ReturnKeeps
<1> QED  BY <1>5, <1>6, <1>7, <1>8, <1>9, <1>10, <1>11, <1>12 DEF AddLogicalPort

-----------------------------------------------------------------------------
LEMMA NothingElse ==
  ASSUME Running, PortInv
  PROVE  /\ ~Restart /\ ~NodeAdd /\ ~NodeList /\ ~NodeAdded
         /\ \A p \in todo : ~NodeNextPod(p)
         /\ ~WatchNodesReturns /\ ~SyncPods /\ ~WatchPodsReturns
BY ThreadFacts
   DEF PortInv, Standing, Running, Restart, NodeAdd, NodeList, NodeAdded, NodeNextPod,
       WatchNodesReturns, SyncPods, WatchPodsReturns, At

LEMMA PortInvNext ==
  ASSUME Running, PortInv, [Next]_vars
  PROVE  PortInv'
<1>1. CASE \E n \in Names : \/ \E s \in BOOLEAN : CreatePod(n, s)
                            \/ SchedulePod(n) \/ DeletePod(n) \/ ExpirePort(n)
  BY <1>1, ClusterKeeps
<1>2. CASE \E n \in Names : Deliver(n)
  BY <1>2, DeliverKeeps
<1>3. CASE \E n \in Names : HandlePod(n)
  BY <1>3, HandlerKeeps, DeleterKeeps DEF HandlePod
<1>4. CASE \E t \in Threads : AddLogicalPort(t)
  BY <1>4, AdderKeeps
<1>5. CASE \E t \in Threads : AddRetryPod(t)
  BY <1>5, TrackerKeeps
<1>6. CASE (\E S \in SUBSET UIDs : RetryBegin(S)) \/ RetryEnd \/ \E u \in UIDs : RetryNext(u)
  BY <1>6, LoopKeeps
<1>7. CASE UNCHANGED vars
  <2> USE DEF vars, api, informer, mem, retry, loop, phase
  <2>1. Shape' /\ Standing' /\ RetryLoop' /\ RetryPC'
    BY <1>7 DEF PortInv, Shape, Standing, RetryLoop, RetryPC
  <2>2. \A n \in Names : Held(n)'
    BY <1>7, HeldFrame DEF PortInv
  <2>3. \A t \in Threads : PortSeen(t)'
    BY <1>7 DEF PortInv, PortSeen, At, Port, Pod, NameOf
  <2> QED  BY <2>1, <2>2, <2>3 DEF PortInv
<1> QED
  BY <1>1, <1>2, <1>3, <1>4, <1>5, <1>6, <1>7, NothingElse DEF Next, Cluster, Master

LEMMA ApartWhileWorking ==
  ASSUME PortInv
  PROVE  OneThreadPerPort
<1>1. \A t \in Threads : Working(t) => Busy(t)
  BY DEF Working, Busy
<1> QED  BY <1>1, BusyApart DEF OneThreadPerPort

\* Which steps change a pod.
LEMMA PodWriters ==
  ASSUME [Next]_vars
  PROVE  \/ pod' = pod
         \/ \E n \in Names, s \in BOOLEAN : CreatePod(n, s)
         \/ \E n \in Names : SchedulePod(n) \/ DeletePod(n)
         \/ \E t \in Threads : SetAnnotationsOnPod(t)
<1> USE DEF vars, api, informer, mem, retry, loop, phase
<1>1. CASE \E n \in Names : Deliver(n) \/ ExpirePort(n)
  BY <1>1 DEF Deliver, ExpirePort
<1>2. CASE \E n \in Names : HandlePod(n)
  BY <1>2 DEF HandlePod, PodAdd, PodUpdate, PodDelete, OvnNBLSPDel, ReleasePortIPs, UncachePort
<1>3. CASE \E t \in Threads : AddLogicalPort(t)
  BY <1>3 DEF AddLogicalPort, WaitForNodeLogicalSwitch, GetPort, GetPortAddresses,
              ReserveAnnotated, AssignAddress, ExecutePort, CachePort
<1>4. CASE \E t \in Threads : AddRetryPod(t)
  BY <1>4 DEF AddRetryPod
<1>5. CASE (\E S \in SUBSET UIDs : RetryBegin(S)) \/ RetryEnd \/ \E u \in UIDs : RetryNext(u)
  BY <1>5 DEF RetryBegin, RetryEnd, RetryNext
<1>7. CASE NodeAdd \/ NodeList \/ NodeAdded \/ (\E p \in todo : NodeNextPod(p)) \/ Restart
           \/ WatchNodesReturns \/ SyncPods \/ WatchPodsReturns
  BY <1>7 DEF NodeAdd, NodeList, NodeAdded, NodeNextPod, Restart, WatchNodesReturns, SyncPods,
              WatchPodsReturns
<1> HIDE DEF vars, api, informer, mem, retry, loop, phase
<1>6. CASE UNCHANGED vars
  BY <1>6 DEF vars, api
<1> QED  BY <1>1, <1>2, <1>3, <1>4, <1>5, <1>6, <1>7 DEF Next, Cluster, Master

LEMMA ConnectedKept ==
  ASSUME Running, PortInv, [Next]_vars
  PROVE  KeepsConnected
<1> SUFFICES ASSUME NEW n \in Names, Connected(n), pod'[n] # None, pod'[n].uid = pod[n].uid
             PROVE  pod'[n].ann = pod[n].ann
  BY DEF KeepsConnected
<1>1. pod[n] \in PodObj /\ pod[n].ann # None /\ lsp[n] = pod[n].ann /\ pod \in [Names -> PodObj \cup {None}]
  BY DEF Connected, Annotated, PortInv, Shape
<1>2. CASE pod' = pod
  BY <1>2
<1>3. CASE \E m \in Names, s \in BOOLEAN : CreatePod(m, s)
  <2>1. PICK m \in Names, s \in BOOLEAN : CreatePod(m, s)
    BY <1>3
  <2>2. pod[m] = None /\ \E x : pod' = [pod EXCEPT ![m] = x]
    BY <2>1 DEF CreatePod, MayCreate
  <2> QED  BY <1>1, <2>2 DEF Connected, Annotated
<1>4. CASE \E m \in Names : SchedulePod(m) \/ DeletePod(m)
  <2>1. PICK m \in Names : SchedulePod(m) \/ DeletePod(m)
    BY <1>4
  <2> QED  BY <1>1, <2>1 DEF SchedulePod, DeletePod, PodObj
<1>5. CASE pod' # pod /\ \E t \in Threads : SetAnnotationsOnPod(t)
  <2>1. PICK t \in Threads : SetAnnotationsOnPod(t)
    BY <1>5
  <2>2. th[t].pc = "annotate" /\ pod' = [pod EXCEPT ![Port(t)].ann = th[t].ip]
    BY <1>5, <2>1 DEF SetAnnotationsOnPod, At
  <2>3. Port(t) \in Names
    BY <2>2, BusyPort DEF Busy
  <2>4. CASE Port(t) = n
    <3>1. th[t].ip = lsp[n]
      BY <1>1, <2>2, <2>4 DEF PortInv, PortSeen, At
    <3> QED  BY <1>1, <2>2, <2>4, <3>1 DEF PodObj
  <2>5. CASE Port(t) # n
    BY <1>1, <2>2, <2>3, <2>5
  <2> QED  BY <2>4, <2>5
<1> QED  BY <1>2, <1>3, <1>4, <1>5, PodWriters

\* While the master runs with its node, for any number of failing calls and
\* however soon a name is used again: no two threads are in addLogicalPort or
\* deleteLogicalPort for one port, and a pod that is connected keeps the address
\* it is annotated with, even when a thread works on an old copy of the pod.
THEOREM ConnectedPodsKeepAddress ==
  ASSUME Running
  PROVE  Spec => []OneThreadPerPort /\ [][KeepsConnected]_vars
<1>1. Init => PortInv
  BY PortInvInit
<1>2. PortInv /\ [Next]_vars => PortInv'
  BY PortInvNext
<1>3. PortInv => OneThreadPerPort
  BY ApartWhileWorking
<1>4. PortInv /\ [Next]_vars => [KeepsConnected]_vars
  BY ConnectedKept
<1> QED  BY <1>1, <1>2, <1>3, <1>4, PTL DEF Spec
=============================================================================
