-------------------------------- MODULE CNI --------------------------------
(***************************************************************************)
(* The CNI server of a node.  The container runtime asks it to connect     *)
(* (ADD), disconnect (DEL) and check (CHECK) the sandboxes of pods.  Each  *)
(* request is served by its own goroutine with many commands of Open       *)
(* vSwitch, any of which may fail.  A pod that is deleted and created      *)
(* again, or whose sandbox died, has several sandboxes at once, and they   *)
(* all claim the same logical port by the name "namespace_pod", the        *)
(* iface-id.  The server sees pods through an informer that lags.          *)
(*                                                                         *)
(* One pod name; its instances are numbered from 1 in the order in which   *)
(* the API server creates them.  The addresses of an instance are named by *)
(* its number.  Host interfaces are named by the first 15 characters of    *)
(* the sandbox's identifier and are taken to be distinct.                  *)
(***************************************************************************)
EXTENDS Integers, Sequences, FiniteSets

CONSTANTS Sandboxes,   \* sandboxes that may exist at a time, numbers
          Worlds       \* operation mode and bounds

VARIABLES pod,         \* API server: the pod's object
          watch,       \* objects the informer has still to see
          cached,      \* the informer's copy of the object
          gone,        \* deletions the server was not told of yet
          lsp,         \* OVN: instance whose logical port exists, 0 for none
          box,         \* runtime: per sandbox, the pod's instance and the state
          created,     \* runtime: pairs of sandboxes, the first created after the second
          req,         \* server: per sandbox, the ADD being served
          del,         \* server: per sandbox, the next step of a DEL
          check,       \* server: per sandbox, the next step of a CHECK or its result
          runningSandboxAdds,   \* sandboxes of tracked ADDs, oldest first
          netns,       \* per sandbox: instance whose addresses its interface has, or 0
          ports,       \* OVS: per sandbox its port, whether it has the iface-id and a rate
          qos,         \* OVS: sandboxes with a row in the QoS table
          bound,       \* the sandbox whose interface ovn-controller has bound, if any
          unprivileged, budget, disturbed

vars == <<pod, watch, cached, gone, lsp, box, created, req, del, check, runningSandboxAdds, netns, ports, qos,
          bound, unprivileged, budget, disturbed>>
api     == <<pod, watch, cached, gone, lsp>>
runtime == <<box, created, del, check>>
links   == <<netns, ports, qos, bound>>

NoPod     == [inst |-> 0, ready |-> FALSE, limited |-> FALSE]
NoRequest == [step |-> "none", info |-> 0, limited |-> FALSE, found |-> {}, canceled |-> FALSE, tries |-> 0]
NoPort    == [on |-> FALSE, id |-> FALSE, qos |-> FALSE]
MaxTries  == 2   \* lookups of a missing pod, 5 in the code

NoBox     == [inst |-> 0, state |-> "none", limited |-> FALSE]
NoBoxes   == [s \in Sandboxes |-> NoBox]

Later(s, t) == <<s, t>> \in created
WithID == {s \in Sandboxes : ports[s].on /\ ports[s].id}

---------------------------------------------------------------------------
\* Pods, the master and ovn-controller, as the server meets them.

Post(p) == pod' = p /\ watch' = Append(watch, p)

PodChanges ==
  /\ \/ /\ pod = NoPod /\ budget.pod > 0
        /\ \E l \in budget.limits : Post([inst |-> budget.inst + 1, ready |-> FALSE, limited |-> l])
        /\ budget' = [budget EXCEPT !.pod = @ - 1, !.inst = @ + 1]
     \/ /\ pod # NoPod /\ budget.delete > 0
        /\ Post(NoPod)
        /\ budget' = [budget EXCEPT !.delete = @ - 1]
  /\ UNCHANGED <<cached, gone, lsp, runtime, req, runningSandboxAdds, links, unprivileged, disturbed>>

\* The master adds the logical port and annotates the pod, or removes the port.
MasterAdds ==
  /\ pod # NoPod /\ ~pod.ready
  /\ lsp' = pod.inst
  /\ Post([pod EXCEPT !.ready = TRUE])
  /\ UNCHANGED <<cached, gone, runtime, req, runningSandboxAdds, links, unprivileged, budget, disturbed>>
MasterDeletes ==
  /\ lsp # 0 /\ lsp # pod.inst
  /\ lsp' = 0
  /\ UNCHANGED <<pod, watch, cached, gone, runtime, req, runningSandboxAdds, links, unprivileged, budget, disturbed>>

Informer ==
  /\ watch # <<>>
  /\ cached' = Head(watch)
  /\ watch' = Tail(watch)
  /\ gone' = IF Head(watch) = NoPod THEN gone + 1 ELSE gone
  /\ UNCHANGED <<pod, lsp, runtime, req, runningSandboxAdds, links, unprivileged, budget, disturbed>>

\* ovn-controller binds the logical port to an interface with its iface-id.
Bind ==
  /\ bound \cap WithID = {}
  /\ IF WithID = {} \/ lsp = 0 THEN bound' = {} ELSE \E s \in WithID : bound' = {s}
  /\ bound' # bound
  /\ UNCHANGED <<api, runtime, req, runningSandboxAdds, netns, ports, qos, unprivileged, budget, disturbed>>

FlowsExist(s) == bound = {s} /\ lsp # 0 /\ lsp = netns[s]

---------------------------------------------------------------------------
\* The server's bookkeeping of ADDs.

StartSandboxRequest(s) ==
  /\ req' = [req EXCEPT ![s] = [NoRequest EXCEPT !.step = "annotations"]]
  /\ runningSandboxAdds' = Append(runningSandboxAdds, s)

Untracked(s) == SelectSeq(runningSandboxAdds, LAMBDA t : t # s)

CancelOldestPodAdd ==
  /\ gone > 0
  /\ gone' = gone - 1
  /\ req' = IF runningSandboxAdds = <<>> THEN req
            ELSE [req EXCEPT ![Head(runningSandboxAdds)].canceled = TRUE]
  /\ UNCHANGED <<pod, watch, cached, lsp, runtime, runningSandboxAdds, links, unprivileged, budget, disturbed>>

\* The answer of an ADD reaches the runtime, unless it gave up before.
FinishSandboxRequest(s, ok) ==
  /\ req' = [req EXCEPT ![s] = NoRequest]
  /\ runningSandboxAdds' = Untracked(s)
  /\ box' = IF box[s].state = "adding" THEN [box EXCEPT ![s].state = IF ok THEN "added" ELSE "failed"] ELSE box

FailAdd(s) == FinishSandboxRequest(s, FALSE)

---------------------------------------------------------------------------
\* ADD.

At(s, step) == req[s].step = step
Go(s, step) == req' = [req EXCEPT ![s].step = step]

\* In unprivileged mode the plugin's own process configures the interface,
\* with a context that nobody cancels.
Canceled(s) == req[s].canceled /\ (unprivileged => At(s, "annotations"))

\* getPod: the informer's copy, or the API server's when there is none.
GetPod == IF cached # NoPod THEN cached ELSE pod

PodAnnotation2PodInfo(r, p) ==
  [r EXCEPT !.info = p.inst, !.limited = p.limited, !.step = "setup"]

GetPodAnnotations(s) ==
  /\ At(s, "annotations")
  /\ LET p == GetPod IN
     \/ /\ Canceled(s) /\ FailAdd(s)
     \/ /\ ~Canceled(s) /\ p = NoPod
        /\ IF req[s].tries + 1 >= MaxTries THEN FailAdd(s)
           ELSE req' = [req EXCEPT ![s].tries = @ + 1] /\ UNCHANGED <<box, runningSandboxAdds>>
     \/ /\ ~Canceled(s) /\ p # NoPod /\ p.ready
        /\ req' = [req EXCEPT ![s] = PodAnnotation2PodInfo(@, p)]
        /\ runningSandboxAdds' = IF unprivileged THEN Untracked(s) ELSE runningSandboxAdds
        /\ UNCHANGED box
  /\ disturbed' = disturbed \cup (IF req'[s].info \notin {0, box[s].inst} THEN {"outdated"} ELSE {})
  /\ UNCHANGED <<api, created, del, check, links, unprivileged, budget>>

\* The pair of interfaces, with the addresses at the container's end.
SetupInterface(s) == netns' = [netns EXCEPT ![s] = req[s].info]

\* The interface concerns this sandbox alone; ConfigureOVS then looks for the
\* ports that have the iface-id.
ConfigureInterface(s) ==
  /\ At(s, "setup")
  /\ SetupInterface(s)
  /\ req' = [req EXCEPT ![s].found = WithID, ![s].step = "clear"]
  /\ UNCHANGED <<api, runtime, runningSandboxAdds, ports, qos, bound, unprivileged, budget, disturbed>>

\* An older ADD that takes the iface-id from a later one is "overtaken".
ClearStale(s) ==
  /\ At(s, "clear") /\ req[s].found # {}
  /\ \E t \in req[s].found :
       /\ ports' = [ports EXCEPT ![t].id = FALSE]
       /\ req' = [req EXCEPT ![s].found = @ \ {t}]
       /\ disturbed' = disturbed \cup (IF ports[t].on /\ Later(t, s) THEN {"overtaken"} ELSE {})
  /\ UNCHANGED <<api, runtime, runningSandboxAdds, netns, qos, bound, unprivileged, budget>>

\* A mutant: the iface-id is not taken from the older sandboxes.
AddPortKeepingStale(s) ==
  /\ At(s, "clear")
  /\ IF ports[s].on THEN FailAdd(s) /\ UNCHANGED <<ports, disturbed>>
     ELSE /\ ports' = [ports EXCEPT ![s] = [on |-> TRUE, id |-> TRUE, qos |-> FALSE]]
          /\ Go(s, "bandwidth")
          /\ UNCHANGED <<box, runningSandboxAdds, disturbed>>
  /\ UNCHANGED <<api, created, del, check, netns, qos, bound, unprivileged, budget>>

\* A mutant: the iface-id is cleared after the port was added, its own too.
AddPortBeforeClear(s) ==
  /\ At(s, "clear") /\ req[s].found = {}
  /\ ports' = [t \in Sandboxes |-> IF t = s THEN [NoPort EXCEPT !.on = TRUE]
                                   ELSE [ports[t] EXCEPT !.id = FALSE]]
  /\ Go(s, "bandwidth")
  /\ UNCHANGED <<api, runtime, runningSandboxAdds, netns, qos, bound, unprivileged, budget, disturbed>>

\* Two ADDs that both looked for older ports before either added its own do
\* not see each other's.
AddPort(s) ==
  /\ At(s, "clear") /\ req[s].found = {}
  /\ IF ports[s].on THEN FailAdd(s) /\ UNCHANGED <<ports, disturbed>>
     ELSE /\ ports' = [ports EXCEPT ![s] = [on |-> TRUE, id |-> TRUE, qos |-> FALSE]]
          /\ Go(s, "bandwidth")
          /\ disturbed' = disturbed \cup (IF \E t \in Sandboxes \ {s} : At(t, "clear") THEN {"overtaken"} ELSE {})
          /\ UNCHANGED <<box, runningSandboxAdds>>
  /\ UNCHANGED <<api, created, del, check, netns, qos, bound, unprivileged, budget>>

ClearPodBandwidth(s) ==
  /\ ports' = [ports EXCEPT ![s].qos = FALSE]
  /\ qos' = qos \ {s}

\* clearPodBandwidth and setPodBandwidth; a row is created before it is used.
SetPodBandwidth(s) ==
  /\ At(s, "bandwidth")
  /\ IF req[s].limited THEN qos' = qos \cup {s} /\ ports' = [ports EXCEPT ![s].qos = ports[s].on]
     ELSE ClearPodBandwidth(s)
  /\ Go(s, "active")
  /\ UNCHANGED <<api, runtime, runningSandboxAdds, netns, bound, unprivileged, budget, disturbed>>

\* The OpenFlow port exists (getIfaceOFPort) and, in each round of
\* waitForPodInterface, the interface is still the pod's; then the flows and
\* ovn-installed.
IsIfaceIDSet(s) ==
  /\ At(s, "active")
  /\ IF Canceled(s) \/ ~(ports[s].on /\ ports[s].id) THEN FailAdd(s)
     ELSE Go(s, "flows") /\ UNCHANGED <<box, runningSandboxAdds>>
  /\ UNCHANGED <<api, created, del, check, links, unprivileged, budget, disturbed>>
DoPodFlowsExist(s) ==
  /\ At(s, "flows")
  /\ IF FlowsExist(s) THEN FinishSandboxRequest(s, TRUE)
     ELSE Go(s, "active") /\ UNCHANGED <<box, runningSandboxAdds>>
  /\ UNCHANGED <<api, created, del, check, links, unprivileged, budget, disturbed>>

AddSteps(s) == \/ GetPodAnnotations(s) \/ ConfigureInterface(s) \/ ClearStale(s) \/ AddPort(s)
               \/ SetPodBandwidth(s) \/ IsIfaceIDSet(s) \/ DoPodFlowsExist(s)

\* A command fails or a wait times out.  Errors of the search for older ports
\* and of clearing them do not end the ADD, which leaves them; after the QoS row was created it
\* may fail to be used.
AddFails(s) ==
  /\ budget.fault > 0 /\ req[s].step \notin {"none", "flows"}
  /\ \/ /\ At(s, "setup") /\ SetupInterface(s) /\ Go(s, "clear")
        /\ disturbed' = disturbed \cup (IF WithID # {} THEN {"kept"} ELSE {})
        /\ UNCHANGED <<box, runningSandboxAdds, qos>>
     \/ /\ At(s, "clear") /\ req[s].found # {}
        /\ \E t \in req[s].found : req' = [req EXCEPT ![s].found = @ \ {t}]
        /\ disturbed' = disturbed \cup {"kept"}
        /\ UNCHANGED <<box, runningSandboxAdds, netns, qos>>
     \/ /\ ~(At(s, "clear") /\ req[s].found # {})
        /\ FailAdd(s)
        /\ \/ UNCHANGED qos
           \/ At(s, "bandwidth") /\ req[s].limited /\ qos' = qos \cup {s}
        /\ UNCHANGED <<netns, disturbed>>
  /\ budget' = [budget EXCEPT !.fault = @ - 1]
  /\ UNCHANGED <<api, created, del, check, ports, bound, unprivileged>>

---------------------------------------------------------------------------
\* DEL and CHECK.

PlatformSpecificCleanup(s) ==
  \/ /\ del[s] = "port"
     /\ ports' = [ports EXCEPT ![s] = NoPort]
     /\ del' = [del EXCEPT ![s] = "qos"]
     /\ UNCHANGED <<box, qos>>
  \/ /\ del[s] = "qos"
     /\ ClearPodBandwidth(s)
     /\ del' = [del EXCEPT ![s] = "none"]
     /\ box' = [box EXCEPT ![s].state = "deleted"]

CmdDel(s) ==
  /\ PlatformSpecificCleanup(s)
  /\ UNCHANGED <<api, created, req, check, runningSandboxAdds, netns, bound, unprivileged, budget, disturbed>>

\* The errors of a DEL are only logged: it succeeds.
DelFails(s) ==
  /\ budget.fault > 0 /\ del[s] # "none"
  /\ del' = [del EXCEPT ![s] = IF @ = "port" THEN "qos" ELSE "none"]
  /\ box' = IF del[s] = "qos" THEN [box EXCEPT ![s].state = "deleted"] ELSE box
  /\ budget' = [budget EXCEPT !.fault = @ - 1]
  /\ disturbed' = disturbed \cup {"uncleaned"}
  /\ UNCHANGED <<api, created, req, check, runningSandboxAdds, links, unprivileged>>

\* CHECK: the interface in the sandbox (by the plugin), the pod's annotations,
\* the port, the iface-id and the flows.  The
\* rates are compared only when both sides have one: a missing one is reported
\* as a wrapped nil error, which is no error.
PluginCheck(s) == netns[s] # 0
CheckStep(s) == \/ /\ check[s] = "start" /\ GetPod.ready
                   /\ check' = [check EXCEPT ![s] = IF PluginCheck(s) /\ ports[s].on THEN "active" ELSE "bad"]
                \/ /\ check[s] = "active"
                   /\ check' = [check EXCEPT ![s] = IF ports[s].on /\ ports[s].id THEN "flows" ELSE "bad"]
                \/ /\ check[s] = "flows"
                   /\ check' = [check EXCEPT ![s] = IF FlowsExist(s) THEN "none" ELSE "active"]
CmdCheck(s) ==
  /\ CheckStep(s)
  /\ UNCHANGED <<api, box, created, req, del, runningSandboxAdds, links, unprivileged, budget, disturbed>>

---------------------------------------------------------------------------
\* The kubelet and the container runtime, and the end of processes.

\* A sandbox for the pod, when none of this instance is left but dead ones.
RunPodSandbox(s) ==
  /\ pod # NoPod /\ box[s] = NoBox /\ s <= budget.boxes
  /\ \A t \in Sandboxes : t < s => box[t] # NoBox
  /\ \A t \in Sandboxes : box[t].inst = pod.inst => box[t].state \in {"dead", "deleting", "deleted"}
  /\ box' = [box EXCEPT ![s] = [inst |-> pod.inst, state |-> "adding", limited |-> pod.limited]]
  /\ created' = created \cup {<<s, t>> : t \in {u \in Sandboxes : box[u] # NoBox}}
  /\ StartSandboxRequest(s)
  /\ UNCHANGED <<api, del, check, links, unprivileged, budget, disturbed>>

\* The container of a sandbox dies; the kubelet makes another one.
SandboxDies(s) ==
  /\ budget.die > 0 /\ box[s].state = "added" /\ check[s] = "none"
  /\ box' = [box EXCEPT ![s].state = "dead"]
  /\ budget' = [budget EXCEPT !.die = @ - 1]
  /\ UNCHANGED <<api, created, req, del, check, runningSandboxAdds, links, unprivileged, disturbed>>

\* The runtime waits no longer and kills the plugin's process; the server does
\* not notice and goes on.
Abandon(s) ==
  /\ budget.abandon > 0 /\ box[s].state = "adding" /\ req[s] # NoRequest
  /\ box' = [box EXCEPT ![s].state = "failed"]
  /\ req' = IF unprivileged /\ ~At(s, "annotations") THEN [req EXCEPT ![s] = NoRequest] ELSE req
  /\ budget' = [budget EXCEPT !.abandon = @ - 1]
  /\ disturbed' = disturbed \cup (IF unprivileged /\ ~At(s, "annotations") THEN {} ELSE {"abandoned"})
  /\ UNCHANGED <<api, created, del, check, runningSandboxAdds, links, unprivileged>>

RequestDel(s) ==
  /\ del[s] = "none" /\ check[s] = "none"
  /\ \/ box[s].state \in {"failed", "dead", "deleting"}
     \/ box[s].state = "added" /\ box[s].inst # pod.inst
  /\ box' = [box EXCEPT ![s].state = "deleting"]
  /\ del' = [del EXCEPT ![s] = "port"]
  /\ UNCHANGED <<api, created, req, check, runningSandboxAdds, links, unprivileged, budget, disturbed>>

RequestCheck(s) ==
  /\ budget.check > 0 /\ check[s] = "none" /\ box[s].state = "added"
  /\ check' = [check EXCEPT ![s] = "start"]
  /\ budget' = [budget EXCEPT !.check = @ - 1]
  /\ UNCHANGED <<api, box, created, req, del, runningSandboxAdds, links, unprivileged, disturbed>>

\* Identifiers are not used again; this one is taken to be another sandbox's.
Forget(s) ==
  /\ box[s].state = "deleted" /\ req[s] = NoRequest /\ ports[s] = NoPort /\ s \notin qos
  /\ box' = [box EXCEPT ![s] = NoBox]
  /\ created' = {c \in created : s \notin {c[1], c[2]}}
  /\ netns' = [netns EXCEPT ![s] = 0]
  /\ UNCHANGED <<api, req, del, check, runningSandboxAdds, ports, qos, bound, unprivileged, budget, disturbed>>

\* The server ends and starts again: its requests are lost, a plugin process
\* that configures an interface itself goes on.
Restart ==
  /\ budget.restart > 0
  /\ LET Lost(s) == req[s] # NoRequest /\ (unprivileged => At(s, "annotations")) IN
     /\ req' = [s \in Sandboxes |-> IF Lost(s) THEN NoRequest ELSE req[s]]
     /\ box' = [s \in Sandboxes |-> IF Lost(s) /\ box[s].state = "adding"
                                    THEN [box[s] EXCEPT !.state = "failed"] ELSE box[s]]
  /\ del' = [s \in Sandboxes |-> "none"]
  /\ check' = [s \in Sandboxes |-> "none"]
  /\ runningSandboxAdds' = <<>>
  /\ cached' = pod /\ watch' = <<>> /\ gone' = 0
  /\ budget' = [budget EXCEPT !.restart = @ - 1]
  /\ UNCHANGED <<pod, lsp, created, links, unprivileged, disturbed>>

\* The wait for an interface that is not going to be bound ends.
TimesOut(s) ==
  /\ At(s, "active") /\ ~FlowsExist(s)
  /\ netns[s] # pod.inst \/ WithID # {s}
  /\ FailAdd(s)
  /\ UNCHANGED <<api, created, del, check, links, unprivileged, budget, disturbed>>

---------------------------------------------------------------------------
Init ==
  \E w \in Worlds :
    /\ pod = NoPod /\ watch = <<>> /\ cached = NoPod /\ gone = 0 /\ lsp = 0
    /\ box = NoBoxes /\ created = {}
    /\ req = [s \in Sandboxes |-> NoRequest]
    /\ del = [s \in Sandboxes |-> "none"]
    /\ check = [s \in Sandboxes |-> "none"]
    /\ runningSandboxAdds = <<>>
    /\ netns = [s \in Sandboxes |-> 0]
    /\ ports = [s \in Sandboxes |-> NoPort] /\ qos = {} /\ bound = {}
    /\ unprivileged = w.unprivileged /\ budget = w.budget /\ disturbed = {}

Environment == \/ PodChanges \/ MasterAdds \/ MasterDeletes \/ Bind \/ Restart
               \/ \E s \in Sandboxes : \/ RunPodSandbox(s) \/ SandboxDies(s) \/ Abandon(s) \/ RequestDel(s)
                                       \/ RequestCheck(s) \/ Forget(s) \/ AddFails(s) \/ DelFails(s)
Server == \/ Informer \/ CancelOldestPodAdd
          \/ \E s \in Sandboxes : AddSteps(s) \/ TimesOut(s) \/ CmdDel(s) \/ CmdCheck(s)
Next == Environment \/ Server

\* Every goroutine of the server makes progress, and so do the master,
\* ovn-controller, the kubelet and the runtime.
Fairness ==
  /\ WF_vars(Informer) /\ WF_vars(CancelOldestPodAdd) /\ WF_vars(MasterAdds) /\ WF_vars(MasterDeletes)
  /\ WF_vars(Bind) /\ WF_vars(\E s \in Sandboxes : RunPodSandbox(s))
  /\ \A s \in Sandboxes : /\ WF_vars(AddSteps(s)) /\ WF_vars(TimesOut(s)) /\ WF_vars(CmdDel(s))
                          /\ WF_vars(CmdCheck(s)) /\ WF_vars(RequestDel(s)) /\ WF_vars(Forget(s))
Spec == Init /\ [][Next]_vars /\ Fairness

---------------------------------------------------------------------------
\* Types.
States == {"none", "adding", "added", "failed", "dead", "deleting", "deleted"}
PodInfo == [inst : Nat, ready : BOOLEAN, limited : BOOLEAN]
BoxInfo == [inst : Nat, state : States, limited : BOOLEAN]
PortInfo == [on : BOOLEAN, id : BOOLEAN, qos : BOOLEAN]
Request == [step : {"none", "annotations", "setup", "clear", "bandwidth", "active", "flows"}, info : Nat,
            limited : BOOLEAN, found : SUBSET Sandboxes, canceled : BOOLEAN, tries : Nat]
TypeOK ==
  /\ pod \in PodInfo /\ cached \in PodInfo /\ watch \in Seq(PodInfo)
  /\ box \in [Sandboxes -> BoxInfo] /\ created \subseteq Sandboxes \X Sandboxes
  /\ req \in [Sandboxes -> Request]
  /\ del \in [Sandboxes -> {"none", "port", "qos"}]
  /\ check \in [Sandboxes -> {"none", "start", "active", "flows", "bad"}]
  /\ netns \in [Sandboxes -> Nat] /\ ports \in [Sandboxes -> PortInfo]
  /\ qos \subseteq Sandboxes /\ bound \subseteq Sandboxes

Disturbed(causes) == disturbed \cap causes # {}

\* The iface-id is where it belongs.  The sandbox of the present pod keeps
\* it once its ADD succeeded, with the pod's addresses and rate, so no sandbox of
\* an earlier pod or attempt takes its network away; and no two interfaces have
\* it, so ovn-controller has no choice, while ADDs run too.  (ConfigureOVS.)
IfaceIDOfLatest ==
  /\ ~Disturbed({"overtaken", "abandoned", "outdated"}) =>
       \A s \in Sandboxes : box[s].state = "added" /\ box[s].inst = pod.inst =>
         /\ ports[s].on /\ ports[s].id /\ netns[s] = box[s].inst
         /\ ports[s].qos = box[s].limited /\ check[s] # "bad"
  /\ ~Disturbed({"overtaken", "kept"}) => \A s, t \in WithID : s = t

\* What an ADD configured, in whatever step it failed, the DEL of the sandbox
\* removes: no port and no QoS row stays behind.  (PlatformSpecificCleanup.)
NothingLeftAfterDel ==
  ~Disturbed({"uncleaned", "abandoned"}) =>
    \A s \in Sandboxes : box[s].state = "deleted" => ports[s] = NoPort /\ s \notin qos

\* Only the latest sandbox of a pod has the iface-id, as ConfigureOVS says.
LatestSandboxIsActive ==
  ~Disturbed({"abandoned", "outdated", "kept", "uncleaned"}) =>
    \A s \in Sandboxes : box[s].state = "added" /\ box[s].inst = pod.inst => ports[s].id

\* A pod that stays and is annotated is connected at last, though requests
\* fail, are canceled by the deletion of its namesake, or die with the server.
Connected ==
  pod.ready =>
    \/ Disturbed({"overtaken", "abandoned", "uncleaned", "outdated"})
    \/ \E s \in Sandboxes : box[s].inst = pod.inst /\ box[s].state = "added" /\ bound = {s}
PodConnected == []<>Connected
=============================================================================
