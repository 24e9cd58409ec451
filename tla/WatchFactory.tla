---------------------------- MODULE WatchFactory ----------------------------
(***************************************************************************)
(* The watch factory (pkg/factory): informers shared by handlers that come *)
(* and go.  The pod informer is a queued one: its listener distributes the *)
(* notifications to queues by the name of the pod, and each queue's thread *)
(* calls the handlers it finds, without the lock.  The policy informer is  *)
(* a plain one: its listener calls the handlers itself, with the lock held *)
(* for reading.  A handler of policies is what makes pod handlers: one per *)
(* policy, with a filter, added and removed inside its own calls.          *)
(*                                                                         *)
(* addHandler lists the informer's store and gives the handler what it     *)
(* finds, with the lock held for writing; whatever the listeners have not  *)
(* given yet comes after that, so that a handler may see an object's past. *)
(***************************************************************************)
EXTENDS Integers, Sequences, FiniteSets
LOCAL INSTANCE SequencesExt

CONSTANTS Pods, Policies, Labels,
          Queues, QueueOf,   \* getQueueNum: the queue of a pod's events
          QueueCap,          \* the capacity of a queue's channel
          Selects,           \* the labels that a policy's pod handler asks for
          MaxIds,            \* bound: pod handlers ever made
          Worlds,            \* what is there at first, and how much changes
          None

VARIABLES pods,          \* the pod informer's store: the label of a pod that exists
          policies,      \* the policy informer's store
          podNotes,      \* what the informers have still to tell their listeners
          policyNotes,
          events,        \* informer.events: the queues of the pod informer
          lock,          \* who holds informer.RWMutex of each for writing
          handlers,      \* informer.handlers of both
          dead,          \* the handlers whose tombstone is set
          ownerOf,       \* whose filter a pod handler has; its length is handlerCounter
          np,            \* the pod handler that a policy has put down
          start,         \* the thread that adds the pod and the policy handler
          listener,      \* the policy informer's thread
          adding,        \* the addHandler that either of them is in
          worker,        \* the threads of the queues
          remover,       \* the goroutines of removeHandler
          view,          \* what each pod handler was told
          stopped, budget

stores == <<pods, policies, podNotes, policyNotes, budget>>
vars   == <<stores, events, lock, handlers, dead, ownerOf, np, start, listener, adding, worker,
            remover, view, stopped>>

Types   == {"pod", "policy"}
Callers == {"start", "listener"}
Ids     == 1 .. MaxIds
NoCall  == [pc |-> "idle", for |-> None, id |-> 0, items |-> {}]
Idle    == [pc |-> "idle", ev |-> None, left |-> {}, id |-> 0]

\* sync.RWMutex: a writer that waits keeps new readers out, and a reader keeps
\* writers out.  Readers of the pod informer's lock let it go in the same step.
Waiting(t)  == t = "pod" /\ (\/ \E c \in Callers : adding[c].pc = "lock"
                            \/ \E h \in Ids : remover[h] = "lock")
CanRLock(t) == lock[t] = None /\ ~ Waiting(t)
CanLock(t)  == lock[t] = None /\ ~ (t = "policy" /\ listener = "calling")

Event(kind, o, old, new) == [kind |-> kind, obj |-> o, old |-> old, new |-> new]
Note(o, old, new) ==
  Event(CASE old = None -> "add" [] new = None -> "delete" [] OTHER -> "update", o, old, new)

\* The pods that a policy's handler is for; the first handler takes every pod.
Takes(x, l) == l # None /\ (x = None \/ l \in Selects[x])

-----------------------------------------------------------------------------
\* The informers (client-go) change their store and tell their listener.

PodChanges(o, l) ==
  /\ budget.pod[o] > 0 /\ pods[o] # l
  /\ pods' = [pods EXCEPT ![o] = l]
  /\ podNotes' = Append(podNotes, Note(o, pods[o], l))
  /\ budget' = [budget EXCEPT !.pod[o] = @ - 1]
  /\ UNCHANGED <<policies, policyNotes, events, lock, handlers, dead, ownerOf, np, start, listener,
                 adding, worker, remover, view, stopped>>

PolicyChanges(x) ==
  /\ budget.policy > 0
  /\ policies' = [policies EXCEPT ![x] = ~ @]
  /\ policyNotes' = Append(policyNotes, IF policies[x] THEN Event("delete", x, x, None)
                                        ELSE Event("add", x, None, x))
  /\ budget' = [budget EXCEPT !.policy = @ - 1]
  /\ UNCHANGED <<pods, podNotes, events, lock, handlers, dead, ownerOf, np, start, listener, adding,
                 worker, remover, view, stopped>>

-----------------------------------------------------------------------------
\* The queued informer.

\* The listener hands a notification to the queue of its object; a delete shows
\* the object as it was last seen, from a tombstone too (ensureObjectOnDelete).
enqueueEvent ==
  /\ podNotes # <<>>
  /\ LET q == QueueOf[Head(podNotes).obj] IN
     /\ Len(events[q]) < QueueCap
     /\ events' = [events EXCEPT ![q] = Append(@, Head(podNotes))]
  /\ podNotes' = Tail(podNotes)
  /\ UNCHANGED <<pods, policies, policyNotes, budget, lock, handlers, dead, ownerOf, np, start,
                 listener, adding, worker, remover, view, stopped>>

\* The queue's thread takes an event; once the factory is stopped, select may
\* choose to return instead.
processEvents(q) ==
  /\ worker[q].pc = "idle"
  /\ \/ /\ events[q] # <<>>
        /\ worker' = [worker EXCEPT ![q] = [@ EXCEPT !.pc = "copy", !.ev = Head(events[q])]]
        /\ events' = [events EXCEPT ![q] = Tail(@)]
     \/ /\ stopped
        /\ worker' = [worker EXCEPT ![q].pc = "returned"]
        /\ UNCHANGED events
  /\ UNCHANGED <<stores, lock, handlers, dead, ownerOf, np, start, listener, adding, remover, view,
                 stopped>>

\* The handlers are copied with the lock held for reading.
forEachQueuedHandler(q) ==
  /\ worker[q].pc = "copy" /\ CanRLock("pod")
  /\ worker' = [worker EXCEPT ![q] = [@ EXCEPT !.pc = "calls", !.left = handlers["pod"]]]
  /\ UNCHANGED <<stores, events, lock, handlers, dead, ownerOf, np, start, listener, adding, remover,
                 view, stopped>>

\* OnAdd, OnUpdate and OnDelete look at the tombstone and then make the call.
LoadTombstone(q, h) ==
  /\ worker[q].pc = "calls" /\ h \in worker[q].left
  /\ worker' = [worker EXCEPT ![q] = IF h \in dead THEN [@ EXCEPT !.left = @ \ {h}]
                                     ELSE [@ EXCEPT !.pc = "call", !.id = h]]
  /\ UNCHANGED <<stores, events, lock, handlers, dead, ownerOf, np, start, listener, adding, remover,
                 view, stopped>>

\* The filter that addHandler gives the handler.
filterFunc(h, l) == Takes(ownerOf[h], l)

\* What a handler knows of an object after a call: an update into the filter is
\* an add for it, one out of it a delete, and a delete that the filter does not
\* take is none.
FilteringResourceEventHandler(h, e, known) ==
  CASE e.kind = "delete" -> IF filterFunc(h, e.old) THEN None ELSE known
    [] e.kind = "add"    -> IF filterFunc(h, e.new) THEN e.new ELSE known
    [] e.kind = "update" -> IF filterFunc(h, e.new) THEN e.new
                            ELSE IF filterFunc(h, e.old) THEN None ELSE known

OnEvent(q) ==
  /\ worker[q].pc = "call"
  /\ LET h == worker[q].id
         e == worker[q].ev
     IN  view' = [view EXCEPT ![h][e.obj] = FilteringResourceEventHandler(h, e, @)]
  /\ worker' = [worker EXCEPT ![q] = [@ EXCEPT !.pc = "calls", !.left = @ \ {worker[q].id}, !.id = 0]]
  /\ UNCHANGED <<stores, events, lock, handlers, dead, ownerOf, np, start, listener, adding, remover,
                 stopped>>

EventDone(q) ==
  /\ worker[q].pc = "calls" /\ worker[q].left = {}
  /\ worker' = [worker EXCEPT ![q] = Idle]
  /\ UNCHANGED <<stores, events, lock, handlers, dead, ownerOf, np, start, listener, adding, remover,
                 view, stopped>>

-----------------------------------------------------------------------------
\* Adding a pod handler: AddPodHandler, AddFilteredPodHandler.

\* inf.Lock() announces itself.
WaitForLock(t) ==
  /\ adding[t].pc = "add"
  /\ adding' = [adding EXCEPT ![t].pc = "lock"]
  /\ UNCHANGED <<stores, events, lock, handlers, dead, ownerOf, np, start, listener, worker, remover, view,
                 stopped>>

Listed(x) == {<<o, pods[o]>> : o \in {p \in Pods : Takes(x, pods[p])}}

\* Mutant: the store is listed and the adds are made without the lock.
AddHandlerUnlocked(t) ==
  /\ adding[t].pc = "lock" /\ Len(ownerOf) < MaxIds
  /\ adding' = [adding EXCEPT ![t] = [@ EXCEPT !.pc = "adds", !.id = Len(ownerOf) + 1,
                                               !.items = Listed(adding[t].for)]]
  /\ ownerOf' = Append(ownerOf, adding[t].for)
  /\ UNCHANGED <<stores, events, lock, handlers, dead, np, start, listener, worker, remover, view, stopped>>

addHandler(t) ==
  /\ adding[t].pc = "lock" /\ CanLock("pod") /\ Len(ownerOf) < MaxIds
  /\ adding' = [adding EXCEPT ![t] = [@ EXCEPT !.pc = "adds", !.id = Len(ownerOf) + 1,
                                               !.items = Listed(adding[t].for)]]
  /\ ownerOf' = Append(ownerOf, adding[t].for)
  /\ lock' = [lock EXCEPT !["pod"] = t]
  /\ UNCHANGED <<stores, events, handlers, dead, np, start, listener, worker, remover, view, stopped>>

\* The adds of the existing objects, by goroutines of their own.
initialAddFunc(t) ==
  /\ adding[t].pc = "adds"
  /\ \E i \in adding[t].items :
       /\ view' = [view EXCEPT ![adding[t].id][i[1]] = i[2]]
       /\ adding' = [adding EXCEPT ![t].items = @ \ {i}]
  /\ UNCHANGED <<stores, events, lock, handlers, dead, ownerOf, np, start, listener, worker, remover,
                 stopped>>

\* All of them are made: the handler is put into the map and the lock given back.
\* What the caller does then is its own step.
HandlerAdded(t) ==
  /\ adding[t].pc = "adds" /\ adding[t].items = {}
  /\ handlers' = [handlers EXCEPT !["pod"] = @ \cup {adding[t].id}]
  /\ lock' = [lock EXCEPT !["pod"] = None]
  /\ np' = IF adding[t].for = None THEN np ELSE [np EXCEPT ![adding[t].for] = adding[t].id]
  /\ adding' = [adding EXCEPT ![t] = NoCall]
  /\ UNCHANGED <<stores, events, dead, ownerOf, start, listener, worker, remover, view, stopped>>

\* removeHandler: the tombstone at once, the map later in a goroutine.
Killed(S) ==
  /\ dead' = dead \cup S
  /\ remover' = [h \in Ids |-> IF h \in S \ dead THEN "go" ELSE remover[h]]

RemoverWaits(h) ==
  /\ remover[h] = "go"
  /\ remover' = [remover EXCEPT ![h] = "lock"]
  /\ UNCHANGED <<stores, events, lock, handlers, dead, ownerOf, np, start, listener, adding, worker, view,
                 stopped>>

removeHandler(h) ==
  /\ remover[h] = "lock" /\ CanLock("pod")
  /\ handlers' = [handlers EXCEPT !["pod"] = @ \ {h}]
  /\ remover' = [remover EXCEPT ![h] = "done"]
  /\ UNCHANGED <<stores, events, lock, dead, ownerOf, np, start, listener, adding, worker, view, stopped>>

-----------------------------------------------------------------------------
\* The plain informer of policies and its one handler.

\* addNetworkPolicy and deleteNetworkPolicy as far as handlers go: a policy that
\* is known is not added again.
Callback(t, e) ==
  CASE e.kind = "add" /\ np[e.obj] = None ->
         /\ adding' = [adding EXCEPT ![t] = [NoCall EXCEPT !.pc = "add", !.for = e.obj]]
         /\ UNCHANGED <<np, dead, remover>>
    [] e.kind = "delete" /\ np[e.obj] # None ->
         /\ Killed({np[e.obj]})
         /\ np' = [np EXCEPT ![e.obj] = None]
         /\ UNCHANGED adding
    [] OTHER -> UNCHANGED <<np, adding, dead, remover>>

\* The listener holds the lock for reading while it calls.
forEachHandler ==
  /\ listener = "idle" /\ policyNotes # <<>> /\ CanRLock("policy")
  /\ listener' = "calling"
  /\ policyNotes' = Tail(policyNotes)
  /\ IF handlers["policy"] = {} THEN UNCHANGED <<np, adding, dead, remover>>
     ELSE Callback("listener", Head(policyNotes))
  /\ UNCHANGED <<pods, policies, podNotes, budget, events, lock, handlers, ownerOf, start, worker, view,
                 stopped>>

CallsDone ==
  /\ listener = "calling" /\ adding["listener"].pc = "idle"
  /\ listener' = "idle"
  /\ UNCHANGED <<stores, events, lock, handlers, dead, ownerOf, np, start, adding, worker, remover, view,
                 stopped>>

\* Controller.Run adds the handler of pods, then the one of policies.
AddPodHandler ==
  /\ start = [pc |-> "pod", todo |-> {}] /\ ~stopped
  /\ adding' = [adding EXCEPT !["start"] = [NoCall EXCEPT !.pc = "add"]]
  /\ start' = [start EXCEPT !.pc = "policy"]
  /\ UNCHANGED <<stores, events, lock, handlers, dead, ownerOf, np, listener, worker, remover, view,
                 stopped>>

AddPolicyHandler ==
  /\ start.pc = "policy" /\ adding["start"].pc = "idle" /\ CanLock("policy")
  /\ lock' = [lock EXCEPT !["policy"] = "start"]
  /\ start' = [pc |-> "policies", todo |-> {x \in Policies : policies[x]}]
  /\ UNCHANGED <<stores, events, handlers, dead, ownerOf, np, listener, adding, worker, remover, view,
                 stopped>>

\* Its existing policies, one after the other, each adding a pod handler.
AddExistingPolicy(x) ==
  /\ start.pc = "policies" /\ adding["start"].pc = "idle" /\ x \in start.todo
  /\ Callback("start", Event("add", x, None, x))
  /\ start' = [start EXCEPT !.todo = @ \ {x}]
  /\ UNCHANGED <<stores, events, lock, handlers, ownerOf, listener, worker, view, stopped>>

PolicyHandlerAdded ==
  /\ start = [pc |-> "policies", todo |-> {}] /\ adding["start"].pc = "idle"
  /\ handlers' = [handlers EXCEPT !["policy"] = {"np"}]
  /\ lock' = [lock EXCEPT !["policy"] = None]
  /\ start' = [start EXCEPT !.pc = "done"]
  /\ UNCHANGED <<stores, events, dead, ownerOf, np, listener, adding, worker, remover, view, stopped>>

-----------------------------------------------------------------------------
\* The factory is shut down.

Shutdown ==
  /\ budget.stop /\ start.pc = "done" /\ ~stopped
  /\ stopped' = TRUE
  /\ UNCHANGED <<stores, events, lock, handlers, dead, ownerOf, np, start, listener, adding, worker,
                 remover, view>>

\* inf.shutdown of the pod informer, with its lock held for writing.
removeAllHandlers ==
  /\ stopped /\ CanLock("pod") /\ handlers["pod"] \ dead # {}
  /\ Killed(handlers["pod"])
  /\ UNCHANGED <<stores, events, lock, handlers, ownerOf, np, start, listener, adding, worker, view,
                 stopped>>

-----------------------------------------------------------------------------
\* The caches have synced: the stores are filled and the informers have told of
\* what is in them, which the listeners may not have taken yet.
Init ==
  \E w \in Worlds :
    /\ pods = w.pods /\ policies = w.policies /\ budget = w.budget
    /\ podNotes = SetToSeq({Note(o, None, w.pods[o]) : o \in {p \in Pods : w.pods[p] # None}})
    /\ policyNotes = SetToSeq({Event("add", x, None, x) : x \in {z \in Policies : w.policies[z]}})
    /\ events = [q \in Queues |-> <<>>]
    /\ lock = [t \in Types |-> None]
    /\ handlers = [t \in Types |-> {}] /\ dead = {} /\ ownerOf = <<>>
    /\ np = [x \in Policies |-> None]
    /\ start = [pc |-> "pod", todo |-> {}] /\ listener = "idle"
    /\ adding = [t \in Callers |-> NoCall]
    /\ worker = [q \in Queues |-> Idle]
    /\ remover = [h \in Ids |-> "none"]
    /\ view = [h \in Ids |-> [o \in Pods |-> None]]
    /\ stopped = FALSE

AddStep(t) == WaitForLock(t) \/ addHandler(t) \/ initialAddFunc(t) \/ HandlerAdded(t)
QueueStep(q) ==
  processEvents(q) \/ forEachQueuedHandler(q) \/ (\E h \in Ids : LoadTombstone(q, h)) \/ OnEvent(q)
    \/ EventDone(q)
StartStep == AddPodHandler \/ AddPolicyHandler \/ (\E x \in Policies : AddExistingPolicy(x))
               \/ PolicyHandlerAdded
ListenerStep == forEachHandler \/ CallsDone
RemoverStep(h) == RemoverWaits(h) \/ removeHandler(h)

Next ==
  \/ \E o \in Pods : \E l \in Labels \cup {None} : PodChanges(o, l)
  \/ \E x \in Policies : PolicyChanges(x)
  \/ enqueueEvent \/ ListenerStep \/ StartStep
  \/ \E q \in Queues : QueueStep(q)
  \/ \E t \in Callers : AddStep(t)
  \/ \E h \in Ids : RemoverStep(h)
  \/ Shutdown \/ removeAllHandlers

\* Every goroutine of the factory is scheduled.
Fairness ==
  /\ WF_vars(enqueueEvent) /\ WF_vars(ListenerStep) /\ WF_vars(StartStep)
  /\ \A q \in Queues : WF_vars(QueueStep(q))
  /\ \A t \in Callers : WF_vars(AddStep(t))
  /\ \A h \in Ids : WF_vars(RemoverStep(h))

Spec == Init /\ [][Next]_vars /\ Fairness

-----------------------------------------------------------------------------
\* Properties.

\* A handler is never called for the same pod by two threads, its initial adds
\* included (getQueueNum's promise that events of an object are serialized).
OneCallAtATime ==
  /\ \A q, r \in Queues :
       q # r /\ worker[q].pc = "call" /\ worker[r].pc = "call" =>
         worker[q].id # worker[r].id \/ worker[q].ev.obj # worker[r].ev.obj
  /\ \A q \in Queues, t \in Callers :
       worker[q].pc = "call" /\ adding[t].pc = "adds" => worker[q].id # adding[t].id

\* Everything was delivered, every policy has its handler and no other has one,
\* and each handler knows exactly the pods that its filter takes, as they are.
AllFollow ==
  stopped \/
  /\ podNotes = <<>> /\ policyNotes = <<>> /\ start.pc = "done" /\ listener = "idle"
  /\ \A q \in Queues : events[q] = <<>> /\ worker[q].pc = "idle"
  /\ \A x \in Policies : policies[x] <=> np[x] # None
  /\ handlers["pod"] = {1} \cup {np[x] : x \in {y \in Policies : policies[y]}}
  /\ \A h \in handlers["pod"] : \A o \in Pods :
       view[h][o] = IF filterFunc(h, pods[o]) THEN pods[o] ELSE None

\* The handlers end up with the cluster, whatever changed while they were added
\* and removed, and nobody waits for a lock for ever.
HandlersFollow == []OneCallAtATime /\ <>[]AllFollow
=============================================================================
