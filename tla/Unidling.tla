------------------------------ MODULE Unidling ------------------------------
(***************************************************************************)
(* The unidling controller.  OVN records an event when a packet for a      *)
(* virtual IP of the idling balancer finds no endpoints; every few seconds *)
(* the controller lists the events, removes them and sends "NeedPods" for  *)
(* the service that owns the virtual IP.  The owner is looked up in a map  *)
(* which the handlers of the service informer keep, entry by entry, while  *)
(* the controller reads it.                                                *)
(***************************************************************************)
EXTENDS Integers, Sequences, SequencesExt

CONSTANTS Services,   \* names of services
          VIPs,       \* the virtual IPs (address, port and protocol) of cluster IPs
          NodeVIPs,   \* those of node ports and external addresses
          Worlds      \* the initial states and the bounds

VARIABLES services,   \* name -> its virtual IPs, {} without a cluster IP
          informer,   \* changes of the map its handlers have to make, in order
          serviceVIPToName, \* virtual IP -> name, or "" when there is none
          events,     \* the southbound database: events, <<type, virtual IP>>
          batch,      \* events of this round that were not handled yet
          handling,   \* the virtual IP whose event was removed, <<>> when there is none
          waiting,    \* <<service, virtual IP>>: a packet came, and no NeedPods was sent since
          budget,     \* changes, packets and failures left
          disturbed   \* virtual IPs whose last wake-up may have been lost

vars == <<services, informer, serviceVIPToName, events, batch, handling, waiting, budget, disturbed>>

EmptyLB == "empty_lb_backends"

---------------------------------------------------------------------------
\* The informer's handlers.

\* onServiceAdd and onServiceDelete go through the cluster IPs of a service.
OnServiceAdd(s, vips)    == SetToSeq({<<"add", v, s>> : v \in vips})
OnServiceDelete(s, vips) == SetToSeq({<<"delete", v, s>> : v \in vips})

\* An update removes the entries of the old service and makes those of the new.
OnServiceUpdate(s, old, new) == OnServiceDelete(s, old) \o OnServiceAdd(s, new)

\* A service is created, changed or deleted; a cluster IP has one owner.
ServiceChanges(s, vips) ==
  /\ budget.svc > 0
  /\ \A r \in Services \ {s} : vips \cap services[r] = {}
  /\ budget' = [budget EXCEPT !.svc = @ - 1]
  /\ informer' = informer \o OnServiceUpdate(s, services[s], vips)
  /\ services' = [services EXCEPT ![s] = vips]
  /\ waiting' = {w \in waiting : w[1] = s => w[2] \in vips}
  /\ UNCHANGED <<serviceVIPToName, events, batch, handling, disturbed>>

\* AddServiceVIPToName or DeleteServiceVIPToName, under the map's lock.
Handle ==
  /\ informer # <<>>
  /\ informer' = Tail(informer)
  /\ serviceVIPToName' = [serviceVIPToName EXCEPT ![Head(informer)[2]] =
                            IF Head(informer)[1] = "add" THEN Head(informer)[3] ELSE ""]
  /\ UNCHANGED <<services, events, batch, handling, waiting, budget, disturbed>>

---------------------------------------------------------------------------
\* The controller.

\* OVN: a packet finds no endpoints; or some other event.
Packet(v, type) ==
  /\ budget.packet > 0
  /\ budget' = [budget EXCEPT !.packet = @ - 1]
  /\ events' = events \cup {<<type, v>>}
  /\ waiting' = waiting \cup {<<s, v>> : s \in {r \in Services : type = EmptyLB /\ v \in services[r]}}
  /\ disturbed' = IF type = EmptyLB THEN disturbed \ {v} ELSE disturbed
  /\ UNCHANGED <<services, informer, serviceVIPToName, batch, handling>>

\* A tick of Run: list the events, and take those of the right type.
Tick ==
  /\ batch = {} /\ handling = <<>> /\ events # {}
  /\ batch' = {e \in events : e[1] = EmptyLB}
  /\ batch' # {}
  /\ UNCHANGED <<services, informer, serviceVIPToName, events, handling, waiting, budget, disturbed>>

\* The next event of the round is removed;
Destroy(e) ==
  /\ handling = <<>> /\ e \in batch
  /\ batch' = batch \ {e}
  /\ events' = events \ {e}
  /\ handling' = <<e[2]>>
  /\ UNCHANGED <<services, informer, serviceVIPToName, waiting, budget, disturbed>>

\* only then is the name of its virtual IP looked up, and NeedPods sent if
\* there is one: in the middle of an update there may be none for a moment.
Unidle ==
  /\ handling # <<>>
  /\ LET v == Head(handling)
         name == IF v \in VIPs THEN serviceVIPToName[v] ELSE ""
     IN  /\ waiting' = {w \in waiting : w[1] # name}
         /\ disturbed' = IF \E i \in DOMAIN informer : informer[i][2] = v
                         THEN disturbed \cup {v} ELSE disturbed
  /\ handling' = <<>>
  /\ UNCHANGED <<services, informer, serviceVIPToName, events, batch, budget>>

\* A mutant: the event is not listed again.
DestroyForgets(e) ==
  /\ handling = <<>> /\ e \in batch /\ budget.fault > 0
  /\ budget' = [budget EXCEPT !.fault = @ - 1]
  /\ batch' = batch \ {e} /\ events' = events \ {e}
  /\ UNCHANGED <<services, informer, serviceVIPToName, handling, waiting, disturbed>>

\* The event cannot be removed: it is left for the next tick.
DestroyFails(e) ==
  /\ handling = <<>> /\ e \in batch /\ budget.fault > 0
  /\ budget' = [budget EXCEPT !.fault = @ - 1]
  /\ batch' = batch \ {e}
  /\ UNCHANGED <<services, informer, serviceVIPToName, events, handling, waiting, disturbed>>

\* The master restarts, and its informer lists the services again.  An event
\* that it has removed and not sent yet is forgotten.
Restart ==
  /\ budget.restart > 0
  /\ budget' = [budget EXCEPT !.restart = @ - 1]
  /\ serviceVIPToName' = [v \in VIPs |-> ""]
  /\ informer' = FlattenSeq(SetToSeq({OnServiceAdd(s, services[s]) : s \in Services}))
  /\ batch' = {} /\ handling' = <<>>
  /\ disturbed' = disturbed \cup Range(handling)
  /\ UNCHANGED <<services, events, waiting>>

---------------------------------------------------------------------------
Init ==
  \E w \in Worlds :
    /\ services = w.services /\ budget = w.budget
    /\ informer = FlattenSeq(SetToSeq({OnServiceAdd(s, w.services[s]) : s \in Services}))
    /\ serviceVIPToName = [v \in VIPs |-> ""]
    /\ events = {} /\ batch = {} /\ handling = <<>> /\ waiting = {} /\ disturbed = {}

Run == Tick \/ (\E e \in batch : Destroy(e)) \/ Unidle

Next ==
  \/ \E s \in Services, vips \in SUBSET VIPs : ServiceChanges(s, vips)
  \/ \E v \in VIPs \cup NodeVIPs, type \in {EmptyLB, "other"} : Packet(v, type)
  \/ \E e \in batch : DestroyFails(e)
  \/ Handle \/ Run \/ Restart

\* The informer calls its handlers and the ticker ticks.
Spec == Init /\ [][Next]_vars /\ WF_vars(Handle) /\ WF_vars(Run)

---------------------------------------------------------------------------
\* Properties.

\* Once the handlers have caught up the map gives every cluster IP its owner,
\* also after virtual IPs were kept by an update or passed from one service to
\* another.
NamesOwner ==
  informer = <<>> => \A v \in VIPs :
    serviceVIPToName[v] = IF \E s \in Services : v \in services[s]
                          THEN CHOOSE s \in Services : v \in services[s] ELSE ""

AllAwake == \A w \in waiting : w[2] \in disturbed

\* A packet for an idled service wakes it up, although removing its event may
\* fail and the master may restart; unless the service lost the address, the
\* entry of the address was about to be changed when its name was looked up,
\* or the master restarted between the removal of the event and NeedPods.  The
\* next packet for the address makes up for the last two.
PacketWakesService == []<>AllAwake
=============================================================================
