----------------------------- MODULE CNIProofs -----------------------------
(***************************************************************************)
(* The iface-id of a pod is at one sandbox, the one it belongs to, and a   *)
(* DEL leaves nothing behind, for any number of sandboxes, pods of the     *)
(* same name, failures and restarts.                                       *)
(***************************************************************************)
EXTENDS CNI, TLAPS

\* Worlds are bounds, and nothing has happened at first.
Budget == [boxes : Nat, pod : Nat, inst : Nat, delete : Nat, limits : SUBSET BOOLEAN, fault : Nat,
           die : Nat, abandon : Nat, check : Nat, restart : Nat]
WellFormed == \A w \in Worlds : w.budget \in Budget /\ w.budget.inst = 0

-----------------------------------------------------------------------------
(* The invariant. *)

Typed == TypeOK /\ budget \in Budget

\* A sandbox that is not there has nothing, and each request has its state.
Boxes(s) ==
  /\ box[s].state = "none" => box[s] = NoBox
  /\ box[s].inst = 0 => box[s] = NoBox
  /\ box[s] = NoBox => req[s].step = "none" /\ ports[s] = NoPort /\ s \notin qos
  /\ del[s] # "none" => box[s].state = "deleting"
  /\ check[s] # "none" => box[s].state = "added"
  /\ req[s].step \in {"annotations", "setup", "clear"} => ~ports[s].on
  /\ s \notin req[s].found

\* The runtime waits for a request that runs.
Waits(s) == "abandoned" \notin disturbed /\ req[s].step # "none" => box[s].state = "adding"

\* A request configures the addresses of its sandbox's pod.
Configured == {"clear", "bandwidth", "active", "flows"}
Informed(s) ==
  "outdated" \notin disturbed =>
    /\ req[s].step \notin {"none", "annotations"} => req[s].info = box[s].inst
    /\ req[s].step = "annotations" => req[s].info = 0
    /\ req[s].step \in Configured => netns[s] = req[s].info

\* The sandbox of the present pod has the iface-id from the moment its port is there.
Plugged(s) == box[s].state = "added" \/ req[s].step \in {"bandwidth", "active", "flows"}
Rated(s)   == box[s].state = "added" \/ req[s].step \in {"active", "flows"}
Kept(s) ==
  /\ "overtaken" \notin disturbed /\ "abandoned" \notin disturbed /\ "outdated" \notin disturbed
  /\ box[s].inst = pod.inst /\ pod.inst # 0
  => /\ Plugged(s) => ports[s].on /\ ports[s].id /\ netns[s] = box[s].inst
     /\ Rated(s) => ports[s].qos = box[s].limited
     /\ check[s] # "bad"

\* A DEL first removes the port and then the QoS row.
Cleaned(s) ==
  "uncleaned" \notin disturbed /\ "abandoned" \notin disturbed =>
    /\ del[s] = "qos" => ports[s] = NoPort
    /\ box[s].state = "deleted" => ports[s] = NoPort /\ s \notin qos

\* Instances are numbered as they are created, and an instance keeps its rate limit.
Told(lim, x) == x.inst <= budget.inst /\ x.limited = lim[x.inst]
Agree(lim) ==
  /\ lim[0] = NoPod.limited
  /\ Told(lim, pod) /\ Told(lim, cached)
  /\ \A i \in 1 .. Len(watch) : Told(lim, watch[i]) /\ (watch[i].inst = 0 => watch[i] = NoPod)
  /\ \A s \in Sandboxes : Told(lim, box[s])
  /\ \A s \in Sandboxes : req[s].step \notin {"none", "annotations"} =>
       req[s].info # 0 /\ req[s].info <= budget.inst /\ req[s].limited = lim[req[s].info]
Instances ==
  /\ pod.inst \in {0, budget.inst}
  /\ pod.inst = 0 => pod = NoPod
  /\ cached.inst = 0 => cached = NoPod
  /\ \E lim \in [Nat -> BOOLEAN] : Agree(lim)

\* Sandboxes are made one after the other, for the present instance, when none of
\* the instance is in use.
Ended == {"dead", "deleting", "deleted"}
Order ==
  /\ \A s, t \in Sandboxes : box[s] # NoBox /\ box[t] # NoBox /\ s # t => Later(s, t) \/ Later(t, s)
  /\ \A s, t \in Sandboxes : Later(t, s) =>
       /\ box[s] # NoBox /\ box[t] # NoBox
       /\ box[s].inst <= box[t].inst
       /\ box[s].inst = box[t].inst => box[s].state \in Ended

\* One interface has the iface-id, and an ADD that is to take it knows which.
OneID ==
  "overtaken" \notin disturbed /\ "kept" \notin disturbed =>
    /\ \A s, t \in WithID : s = t
    /\ \A s \in Sandboxes : At(s, "clear") => WithID \subseteq req[s].found

Local(s) == Boxes(s) /\ Waits(s) /\ Informed(s) /\ Kept(s) /\ Cleaned(s)
Inv == Typed /\ Instances /\ Order /\ OneID /\ \A s \in Sandboxes : Local(s)

-----------------------------------------------------------------------------
(* Types. *)

LEMMA Nothings == /\ NoPod \in PodInfo /\ NoPod.inst = 0 /\ NoPod.limited = FALSE /\ NoPod.ready = FALSE
                  /\ NoRequest.step = "none" /\ NoRequest.found = {} /\ NoRequest.info = 0
                  /\ NoBox.inst = 0 /\ NoBox.state = "none" /\ NoBox.limited = NoPod.limited
                  /\ NoPort.on = FALSE /\ NoPort.id = FALSE /\ NoPort.qos = FALSE
                  /\ NoBox \in BoxInfo /\ NoRequest \in Request /\ NoPort \in PortInfo
  BY DEF NoPod, NoRequest, NoBox, NoPort, PodInfo, BoxInfo, Request, PortInfo, States

LEMMA TypedInit == ASSUME WellFormed PROVE Init => Typed
<1> SUFFICES ASSUME Init PROVE Typed
  OBVIOUS
<1>1. budget \in Budget
  BY DEF Init, WellFormed
<1>2. watch \in Seq(PodInfo) /\ pod \in PodInfo /\ cached \in PodInfo
  BY Nothings DEF Init
<1>3. NoBox \in BoxInfo /\ NoRequest \in Request /\ NoPort \in PortInfo
  BY Nothings
<1> QED BY <1>1, <1>2, <1>3 DEF Init, Typed, TypeOK, NoBoxes

\* A rule of records that the provers need help with.
LEMMA BudgetDown ==
  ASSUME budget \in Budget
  PROVE  /\ budget.pod > 0 => [budget EXCEPT !.pod = @ - 1, !.inst = @ + 1] \in Budget
         /\ budget.delete > 0 => [budget EXCEPT !.delete = @ - 1] \in Budget
         /\ budget.fault > 0 => [budget EXCEPT !.fault = @ - 1] \in Budget
         /\ budget.die > 0 => [budget EXCEPT !.die = @ - 1] \in Budget
         /\ budget.abandon > 0 => [budget EXCEPT !.abandon = @ - 1] \in Budget
         /\ budget.check > 0 => [budget EXCEPT !.check = @ - 1] \in Budget
         /\ budget.restart > 0 => [budget EXCEPT !.restart = @ - 1] \in Budget
<1>1. budget.pod > 0 => [budget EXCEPT !.pod = @ - 1, !.inst = @ + 1] \in Budget
  <2> SUFFICES ASSUME budget.pod > 0 PROVE [budget EXCEPT !.pod = @ - 1, !.inst = @ + 1] \in Budget
    OBVIOUS
  <2> DEFINE b == [budget EXCEPT !.pod = @ - 1]
  <2>1. b \in Budget
    BY DEF Budget
  <2> HIDE DEF b
  <2>2. [b EXCEPT !.inst = b.inst + 1] \in Budget
    BY <2>1 DEF Budget
  <2> QED BY <2>2 DEF b
<1>2. budget.delete > 0 => [budget EXCEPT !.delete = @ - 1] \in Budget
  BY DEF Budget
<1>3. budget.fault > 0 => [budget EXCEPT !.fault = @ - 1] \in Budget
  BY DEF Budget
<1>4. budget.die > 0 => [budget EXCEPT !.die = @ - 1] \in Budget
  BY DEF Budget
<1>5. budget.abandon > 0 => [budget EXCEPT !.abandon = @ - 1] \in Budget
  BY DEF Budget
<1>6. budget.check > 0 => [budget EXCEPT !.check = @ - 1] \in Budget
  BY DEF Budget
<1>7. budget.restart > 0 => [budget EXCEPT !.restart = @ - 1] \in Budget
  BY DEF Budget
<1> QED BY <1>1, <1>2, <1>3, <1>4, <1>5, <1>6, <1>7

\* Of the bounds, the number of instances counts.
LEMMA InstanceCount ==
  ASSUME Typed
  PROVE  /\ Next => budget'.inst = budget.inst \/ PodChanges
         /\ budget.inst \in Nat /\ budget.limits \subseteq BOOLEAN
<1>1. budget.inst \in Nat /\ budget.limits \subseteq BOOLEAN
  BY DEF Typed, Budget
<1> SUFFICES ASSUME Next, ~PodChanges PROVE budget'.inst = budget.inst
  BY <1>1
<1>2. \A s \in Sandboxes : AddSteps(s) => budget' = budget
  BY DEF AddSteps, GetPodAnnotations, ConfigureInterface, ClearStale, AddPort, SetPodBandwidth, IsIfaceIDSet, DoPodFlowsExist
<1> QED BY <1>1, <1>2 DEF Next, Environment, Server, MasterAdds, MasterDeletes, Informer, Bind, CancelOldestPodAdd, Restart,
    RunPodSandbox, SandboxDies, Abandon, RequestDel, RequestCheck, Forget, AddFails, DelFails, TimesOut,
    CmdDel, CmdCheck, Typed, Budget

\* Updates of a sandbox's records.
LEMMA Updates ==
  ASSUME Typed, NEW s
  PROVE  /\ \A x \in States : [box EXCEPT ![s].state = x] \in [Sandboxes -> BoxInfo]
         /\ [box EXCEPT ![s] = NoBox] \in [Sandboxes -> BoxInfo]
         /\ [req EXCEPT ![s] = NoRequest] \in [Sandboxes -> Request]
         /\ [req EXCEPT ![s].canceled = TRUE] \in [Sandboxes -> Request]
         /\ \A x \in {"setup", "clear", "bandwidth", "active", "flows"} :
              [req EXCEPT ![s].step = x] \in [Sandboxes -> Request]
         /\ \A F \in SUBSET Sandboxes : [req EXCEPT ![s].found = F] \in [Sandboxes -> Request]
         /\ [ports EXCEPT ![s] = NoPort] \in [Sandboxes -> PortInfo]
         /\ \A x \in BOOLEAN : /\ [ports EXCEPT ![s].id = x] \in [Sandboxes -> PortInfo]
                               /\ [ports EXCEPT ![s].qos = x] \in [Sandboxes -> PortInfo]
<1>1. /\ box \in [Sandboxes -> BoxInfo] /\ req \in [Sandboxes -> Request] /\ ports \in [Sandboxes -> PortInfo]
  BY DEF Typed, TypeOK
<1>2. \A b \in BoxInfo, x \in States : [b EXCEPT !.state = x] \in BoxInfo
  BY DEF BoxInfo
<1>3. \A r \in Request : /\ [r EXCEPT !.canceled = TRUE] \in Request
                         /\ \A x \in {"setup", "clear", "bandwidth", "active", "flows"} : [r EXCEPT !.step = x] \in Request
                         /\ \A F \in SUBSET Sandboxes : [r EXCEPT !.found = F] \in Request
  BY DEF Request
<1>4. \A p \in PortInfo, x \in BOOLEAN : [p EXCEPT !.id = x] \in PortInfo /\ [p EXCEPT !.qos = x] \in PortInfo
  BY DEF PortInfo
<1> QED BY <1>1, <1>2, <1>3, <1>4, Nothings

LEMMA Put ==
  ASSUME NEW S, NEW T, NEW f \in [S -> T], NEW s, NEW v \in T
  PROVE  /\ [f EXCEPT ![s] = v] \in [S -> T]
         /\ s \in S => [f EXCEPT ![s] = v][s] = v
         /\ \A t \in S \ {s} : [f EXCEPT ![s] = v][t] = f[t]
  OBVIOUS

\* Others' entries stay.
Same(f, g, s) == \A t \in Sandboxes \ {s} : f[t] = g[t]

LEMMA Finishes ==
  ASSUME Typed, NEW s \in Sandboxes, NEW ok \in BOOLEAN, FinishSandboxRequest(s, ok)
  PROVE  /\ box' \in [Sandboxes -> BoxInfo] /\ req' \in [Sandboxes -> Request]
         /\ req'[s] = NoRequest /\ Same(req', req, s) /\ Same(box', box, s)
         /\ box'[s].inst = box[s].inst /\ box'[s].limited = box[s].limited
         /\ box[s].state # "adding" => box'[s] = box[s]
         /\ box[s].state = "adding" => box'[s].state = IF ok THEN "added" ELSE "failed"
<1>1. "added" \in States /\ "failed" \in States /\ box \in [Sandboxes -> BoxInfo] /\ box[s] \in BoxInfo
      /\ req \in [Sandboxes -> Request]
  BY DEF States, Typed, TypeOK
<1>2. box' \in [Sandboxes -> BoxInfo] /\ req' \in [Sandboxes -> Request]
  BY <1>1, Updates DEF FinishSandboxRequest
<1>3. req'[s] = NoRequest /\ Same(req', req, s) /\ Same(box', box, s)
  BY <1>1 DEF FinishSandboxRequest, Same
<1>4. CASE box[s].state = "adding"
  BY <1>1, <1>2, <1>3, <1>4 DEF FinishSandboxRequest, BoxInfo
<1>5. CASE box[s].state # "adding"
  BY <1>2, <1>3, <1>5 DEF FinishSandboxRequest
<1> QED BY <1>4, <1>5

Steps == {"setup", "clear", "bandwidth", "active", "flows"}
LEMMA Goes ==
  ASSUME Typed, NEW s \in Sandboxes, NEW x \in Steps, Go(s, x)
  PROVE  /\ req' \in [Sandboxes -> Request] /\ Same(req', req, s)
         /\ req'[s] = [req[s] EXCEPT !.step = x] /\ req'[s].step = x
         /\ req'[s].info = req[s].info /\ req'[s].limited = req[s].limited /\ req'[s].found = req[s].found
<1>1. req \in [Sandboxes -> Request] /\ req[s] \in Request
  BY DEF Typed, TypeOK
<1>2. [req[s] EXCEPT !.step = x] \in Request
  BY <1>1 DEF Request, Steps
<1>3. req' \in [Sandboxes -> Request] /\ req'[s] = [req[s] EXCEPT !.step = x] /\ Same(req', req, s)
  BY <1>1, <1>2, Put DEF Go, Same
<1> QED BY <1>1, <1>3 DEF Request

\* found loses one.
LEMMA FoundOne ==
  ASSUME Typed, NEW s \in Sandboxes, NEW t, req' = [req EXCEPT ![s].found = @ \ {t}]
  PROVE  /\ req' \in [Sandboxes -> Request] /\ Same(req', req, s)
         /\ req'[s].step = req[s].step /\ req'[s].info = req[s].info /\ req'[s].limited = req[s].limited
         /\ req'[s].found = req[s].found \ {t}
<1>1. req \in [Sandboxes -> Request] /\ req[s] \in Request
  BY DEF Typed, TypeOK
<1>2. [req[s] EXCEPT !.found = req[s].found \ {t}] \in Request
  BY <1>1 DEF Request
<1>3. /\ req' \in [Sandboxes -> Request] /\ req'[s] = [req[s] EXCEPT !.found = req[s].found \ {t}]
      /\ Same(req', req, s)
  BY <1>1, <1>2, Put DEF Same
<1> QED BY <1>1, <1>3 DEF Request

\* The outcomes of a lookup of the pod's annotations.
LEMMA LooksUp ==
  ASSUME Typed, NEW s \in Sandboxes, GetPodAnnotations(s)
  PROVE  \/ FailAdd(s)
         \/ /\ UNCHANGED box /\ req' \in [Sandboxes -> Request] /\ Same(req', req, s)
            /\ req'[s].found = req[s].found
            /\ \/ /\ req'[s].step = "annotations" /\ req'[s].info = req[s].info
               \/ /\ req'[s].step = "setup" /\ GetPod # NoPod
                  /\ req'[s].info = GetPod.inst /\ req'[s].limited = GetPod.limited
<1>1. req \in [Sandboxes -> Request] /\ req[s] \in Request /\ GetPod \in PodInfo /\ req[s].step = "annotations"
  BY DEF Typed, TypeOK, GetPod, GetPodAnnotations, At
<1>2. CASE req' = [req EXCEPT ![s].tries = @ + 1] /\ UNCHANGED box
  <2>1. [req[s] EXCEPT !.tries = @ + 1] \in Request
    BY <1>1 DEF Request
  <2>2. /\ req' \in [Sandboxes -> Request] /\ req'[s] = [req[s] EXCEPT !.tries = @ + 1] /\ Same(req', req, s)
    BY <1>1, <1>2, <2>1, Put DEF Same
  <2> QED BY <1>1, <1>2, <2>2 DEF Request
<1>3. CASE req' = [req EXCEPT ![s] = PodAnnotation2PodInfo(@, GetPod)] /\ UNCHANGED box /\ GetPod # NoPod
  <2> DEFINE r == PodAnnotation2PodInfo(req[s], GetPod)
  <2>1. /\ r \in Request /\ r.step = "setup" /\ r.info = GetPod.inst /\ r.limited = GetPod.limited
        /\ r.found = req[s].found
    BY <1>1 DEF PodAnnotation2PodInfo, Request, PodInfo
  <2> HIDE DEF r
  <2>2. /\ req' \in [Sandboxes -> Request] /\ req'[s] = r /\ Same(req', req, s)
    <3>1. req' = [req EXCEPT ![s] = r]
      BY <1>3 DEF r
    <3> QED BY <1>1, <2>1, <3>1, Put DEF Same
  <2> QED BY <1>3, <2>1, <2>2
<1> QED BY <1>2, <1>3 DEF GetPodAnnotations

LEMMA Configures ==
  ASSUME Typed, NEW s \in Sandboxes, ConfigureInterface(s)
  PROVE  /\ req' \in [Sandboxes -> Request] /\ Same(req', req, s)
         /\ req'[s].step = "clear" /\ req'[s].found = WithID
         /\ req'[s].info = req[s].info /\ req'[s].limited = req[s].limited
         /\ netns' \in [Sandboxes -> Nat] /\ netns'[s] = req[s].info /\ Same(netns', netns, s)
<1>1. req \in [Sandboxes -> Request] /\ req[s] \in Request /\ WithID \in SUBSET Sandboxes
  BY DEF Typed, TypeOK, WithID
<1> DEFINE r == [req[s] EXCEPT !.found = WithID]
           q == [r EXCEPT !.step = "clear"]
<1>2. r \in Request /\ r.found = WithID /\ r.info = req[s].info /\ r.limited = req[s].limited
  BY <1>1 DEF Request
<1>3. q \in Request /\ q.step = "clear" /\ q.found = r.found /\ q.info = r.info /\ q.limited = r.limited
  <2> HIDE DEF r
  <2> QED BY <1>2 DEF Request
<1>4. req' = [req EXCEPT ![s] = q]
  BY <1>1 DEF ConfigureInterface
<1> HIDE DEF q
<1>5. req' \in [Sandboxes -> Request] /\ req'[s] = q /\ Same(req', req, s)
  BY <1>1, <1>3, <1>4, Put DEF Same
<1>6. req[s].info \in Nat /\ netns \in [Sandboxes -> Nat]
  BY <1>1 DEF Request, Typed, TypeOK
<1>7. netns' \in [Sandboxes -> Nat] /\ netns'[s] = req[s].info /\ Same(netns', netns, s)
  BY <1>6 DEF ConfigureInterface, SetupInterface, Same
<1> QED BY <1>2, <1>3, <1>5, <1>7

\* Changes of a port.
LEMMA PortCleared ==
  ASSUME NEW p \in PortInfo
  PROVE  /\ [p EXCEPT !.id = FALSE] \in PortInfo
         /\ [p EXCEPT !.id = FALSE].on = p.on /\ [p EXCEPT !.id = FALSE].id = FALSE
         /\ p = NoPort => [p EXCEPT !.id = FALSE] = NoPort
<1> DEFINE w == [p EXCEPT !.id = FALSE]
<1>1. w \in PortInfo
  BY DEF PortInfo
<1>2. w.on = p.on /\ w.id = FALSE /\ w.qos = p.qos
  BY DEF PortInfo
<1>3. \A q, r \in PortInfo : q.on = r.on /\ q.id = r.id /\ q.qos = r.qos => q = r
  BY DEF PortInfo
<1> HIDE DEF w
<1>4. p = NoPort => w = NoPort
  BY <1>1, <1>2, <1>3, Nothings
<1> QED BY <1>1, <1>2, <1>4 DEF w

LEMMA PortLoses ==
  ASSUME Typed, NEW t \in Sandboxes, ports' = [ports EXCEPT ![t].id = FALSE] \/ ports' = [ports EXCEPT ![t] = NoPort]
  PROVE  /\ ports' \in [Sandboxes -> PortInfo] /\ Same(ports', ports, t)
         /\ ports'[t].on => ports[t].on
         /\ ~ports'[t].id
         /\ ports[t] = NoPort => ports'[t] = NoPort
<1> DEFINE v == ports'[t]
<1>1. ports \in [Sandboxes -> PortInfo] /\ ports[t] \in PortInfo
  BY DEF Typed, TypeOK
<1>2. CASE ports' = [ports EXCEPT ![t].id = FALSE]
  <2> DEFINE w == [ports[t] EXCEPT !.id = FALSE]
  <2>1. w \in PortInfo /\ w.on = ports[t].on /\ w.id = FALSE /\ (ports[t] = NoPort => w = NoPort)
    BY <1>1, PortCleared
  <2>2. ports' = [ports EXCEPT ![t] = w]
    BY <1>2
  <2> HIDE DEF w
  <2>3. ports' \in [Sandboxes -> PortInfo] /\ ports'[t] = w /\ Same(ports', ports, t)
    BY <1>1, <2>1, <2>2, Put DEF Same
  <2> QED BY <2>1, <2>3
<1>3. CASE ports' = [ports EXCEPT ![t] = NoPort]
  <2>1. ports' \in [Sandboxes -> PortInfo] /\ ports'[t] = NoPort /\ Same(ports', ports, t)
    BY <1>1, <1>3, Nothings, Put DEF Same
  <2> QED BY <2>1, Nothings
<1> QED BY <1>2, <1>3

LEMMA PortQos ==
  ASSUME Typed, NEW s \in Sandboxes, NEW x \in BOOLEAN, ports' = [ports EXCEPT ![s].qos = x]
  PROVE  /\ ports' \in [Sandboxes -> PortInfo] /\ Same(ports', ports, s)
         /\ ports'[s].on = ports[s].on /\ ports'[s].id = ports[s].id /\ ports'[s].qos = x
         /\ x = FALSE /\ ports[s] = NoPort => ports'[s] = NoPort
<1>1. ports \in [Sandboxes -> PortInfo] /\ ports[s] \in PortInfo
  BY DEF Typed, TypeOK
<1> DEFINE w == [ports[s] EXCEPT !.qos = x]
<1>2. /\ w \in PortInfo /\ w.on = ports[s].on /\ w.id = ports[s].id /\ w.qos = x
      /\ (x = FALSE /\ ports[s] = NoPort => w = NoPort)
  <2>1. w \in PortInfo
    BY <1>1 DEF PortInfo
  <2>2. w.on = ports[s].on /\ w.id = ports[s].id /\ w.qos = x
    BY <1>1 DEF PortInfo
  <2>3. \A q, r \in PortInfo : q.on = r.on /\ q.id = r.id /\ q.qos = r.qos => q = r
    BY DEF PortInfo
  <2> HIDE DEF w
  <2>4. x = FALSE /\ ports[s] = NoPort => w = NoPort
    BY <2>1, <2>2, <2>3, Nothings
  <2> QED BY <2>1, <2>2, <2>4
<1>3. ports' = [ports EXCEPT ![s] = w]
  OBVIOUS
<1> HIDE DEF w
<1>4. ports' \in [Sandboxes -> PortInfo] /\ ports'[s] = w /\ Same(ports', ports, s)
  BY <1>1, <1>2, <1>3, Put DEF Same
<1> QED BY <1>2, <1>4

LEMMA TypedStep == ASSUME Typed, [Next]_vars PROVE Typed'
<1>0. /\ pod \in PodInfo /\ cached \in PodInfo /\ watch \in Seq(PodInfo) /\ budget \in Budget
      /\ box \in [Sandboxes -> BoxInfo] /\ req \in [Sandboxes -> Request] /\ ports \in [Sandboxes -> PortInfo]
      /\ created \subseteq Sandboxes \X Sandboxes /\ netns \in [Sandboxes -> Nat]
      /\ del \in [Sandboxes -> {"none", "port", "qos"}]
      /\ check \in [Sandboxes -> {"none", "start", "active", "flows", "bad"}]
      /\ qos \subseteq Sandboxes /\ bound \subseteq Sandboxes /\ WithID \subseteq Sandboxes
      /\ {"added", "failed", "dead", "deleting", "deleted"} \subseteq States
  BY DEF Typed, TypeOK, WithID, States
<1>a. /\ \A r \in Request : /\ r.found \in SUBSET Sandboxes /\ r.info \in Nat /\ r.tries \in Nat
                            /\ [r EXCEPT !.tries = @ + 1] \in Request
                            /\ \A p \in PodInfo : PodAnnotation2PodInfo(r, p) \in Request
      /\ \A p \in PodInfo : p.inst \in Nat /\ p.limited \in BOOLEAN /\ [p EXCEPT !.ready = TRUE] \in PodInfo
      /\ \A p \in PortInfo : p.on \in BOOLEAN
  <2>1. \A r \in Request, p \in PodInfo : PodAnnotation2PodInfo(r, p) \in Request
    BY DEF PodAnnotation2PodInfo, Request, PodInfo
  <2>2. \A r \in Request : /\ r.found \in SUBSET Sandboxes /\ r.info \in Nat /\ r.tries \in Nat
                          /\ [r EXCEPT !.tries = @ + 1] \in Request
    BY DEF Request
  <2>3. \A p \in PodInfo : p.inst \in Nat /\ p.limited \in BOOLEAN /\ [p EXCEPT !.ready = TRUE] \in PodInfo
    BY DEF PodInfo
  <2>4. \A p \in PortInfo : p.on \in BOOLEAN
    BY DEF PortInfo
  <2> QED BY <2>1, <2>2, <2>3, <2>4
<1> USE <1>0, <1>a
<1>1. CASE PodChanges
  <2>1. \A l \in budget.limits : [inst |-> budget.inst + 1, ready |-> FALSE, limited |-> l] \in PodInfo
    BY InstanceCount DEF PodInfo
  <2>2. budget' \in Budget
    BY <1>1, BudgetDown DEF PodChanges
  <2>3. PICK p \in PodInfo : Post(p)
    BY <1>1, <2>1, Nothings DEF PodChanges
  <2>4. pod' \in PodInfo /\ watch' \in Seq(PodInfo)
    BY <2>3 DEF Post
  <2> QED BY <1>1, <2>2, <2>4 DEF PodChanges, runtime, links, Typed, TypeOK
<1>2. CASE MasterAdds
  <2>1. pod' \in PodInfo /\ watch' \in Seq(PodInfo)
    BY <1>2 DEF MasterAdds, Post
  <2> QED BY <1>2, <2>1 DEF MasterAdds, runtime, links, Typed, TypeOK
<1>3. CASE MasterDeletes \/ Bind
  <2>1. bound' \subseteq Sandboxes
    BY <1>3 DEF MasterDeletes, Bind, links
  <2> QED BY <1>3, <2>1 DEF MasterDeletes, Bind, api, runtime, links, Typed, TypeOK
<1>4. CASE Informer
  <2>1. cached' \in PodInfo /\ watch' \in Seq(PodInfo)
    BY <1>4 DEF Informer
  <2> QED BY <1>4, <2>1 DEF Informer, runtime, links, Typed, TypeOK
<1>5. CASE CancelOldestPodAdd
  <2>1. req' \in [Sandboxes -> Request]
    BY <1>5, Updates DEF CancelOldestPodAdd
  <2> QED BY <1>5, <2>1 DEF CancelOldestPodAdd, runtime, links, Typed, TypeOK
<1>6. CASE Restart
  <2>1. budget' \in Budget
    BY <1>6, BudgetDown DEF Restart
  <2>2. \A b \in BoxInfo : [b EXCEPT !.state = "failed"] \in BoxInfo
    BY DEF BoxInfo
  <2>3. box' \in [Sandboxes -> BoxInfo] /\ req' \in [Sandboxes -> Request]
    BY <1>6, <2>2, Nothings DEF Restart
  <2>4. watch' \in Seq(PodInfo) /\ cached' \in PodInfo
    BY <1>6 DEF Restart
  <2> QED BY <1>6, <2>1, <2>3, <2>4 DEF Restart, links, Typed, TypeOK
<1>7. ASSUME NEW s \in Sandboxes, RunPodSandbox(s) PROVE Typed'
  <2>1. /\ [inst |-> pod.inst, state |-> "adding", limited |-> pod.limited] \in BoxInfo
        /\ [NoRequest EXCEPT !.step = "annotations"] \in Request
    BY Nothings DEF BoxInfo, Request, States
  <2>2. created' \subseteq Sandboxes \X Sandboxes
    BY <1>7 DEF RunPodSandbox
  <2>3. box' \in [Sandboxes -> BoxInfo] /\ req' \in [Sandboxes -> Request]
    BY <1>7, <2>1 DEF RunPodSandbox, StartSandboxRequest
  <2> QED BY <1>7, <2>2, <2>3 DEF RunPodSandbox, api, links, Typed, TypeOK
<1>8. ASSUME NEW s \in Sandboxes, SandboxDies(s) PROVE Typed'
  BY <1>8, BudgetDown, Updates DEF SandboxDies, api, links, Typed, TypeOK
<1>9. ASSUME NEW s \in Sandboxes, Abandon(s) PROVE Typed'
  BY <1>9, BudgetDown, Updates DEF Abandon, api, links, Typed, TypeOK
<1>10. ASSUME NEW s \in Sandboxes, RequestDel(s) PROVE Typed'
  BY <1>10, Updates DEF RequestDel, api, links, Typed, TypeOK
<1>11. ASSUME NEW s \in Sandboxes, RequestCheck(s) PROVE Typed'
  BY <1>11, BudgetDown DEF RequestCheck, api, links, Typed, TypeOK
<1>12. ASSUME NEW s \in Sandboxes, Forget(s) PROVE Typed'
  <2>1. netns' \in [Sandboxes -> Nat]
    BY <1>12 DEF Forget
  <2> QED BY <1>12, <2>1, Updates DEF Forget, api, Typed, TypeOK
<1>13. ASSUME NEW s \in Sandboxes, AddFails(s) PROVE Typed'
  <2>1. budget' \in Budget
    BY <1>13, BudgetDown DEF AddFails
  <2>2. netns' \in [Sandboxes -> Nat] /\ qos' \subseteq Sandboxes
    BY <1>13 DEF AddFails, SetupInterface
  <2>3. box' \in [Sandboxes -> BoxInfo] /\ req' \in [Sandboxes -> Request]
    <3>1. CASE FailAdd(s)
      BY <3>1, Finishes DEF FailAdd
    <3>2. CASE Go(s, "clear") /\ UNCHANGED box
      BY <3>2, Goes DEF Steps
    <3>3. CASE UNCHANGED box /\ \E t \in req[s].found : req' = [req EXCEPT ![s].found = @ \ {t}]
      BY <3>3, FoundOne
    <3> QED BY <1>13, <3>1, <3>2, <3>3 DEF AddFails
  <2> QED BY <1>13, <2>1, <2>2, <2>3 DEF AddFails, api, Typed, TypeOK
<1>14. ASSUME NEW s \in Sandboxes, DelFails(s) PROVE Typed'
  <2>1. del' \in [Sandboxes -> {"none", "port", "qos"}]
    BY <1>14 DEF DelFails
  <2> QED BY <1>14, <2>1, BudgetDown, Updates DEF DelFails, api, links, Typed, TypeOK
<1>15. ASSUME NEW s \in Sandboxes, GetPodAnnotations(s) PROVE Typed'
  <2>1. box' \in [Sandboxes -> BoxInfo] /\ req' \in [Sandboxes -> Request]
    <3>1. CASE FailAdd(s)
      BY <3>1, Finishes DEF FailAdd
    <3> QED BY <1>15, <3>1, LooksUp
  <2> QED BY <1>15, <2>1 DEF GetPodAnnotations, api, links, Typed, TypeOK
<1>16. ASSUME NEW s \in Sandboxes, ConfigureInterface(s) PROVE Typed'
  <2>1. req' \in [Sandboxes -> Request] /\ netns' \in [Sandboxes -> Nat]
    BY <1>16, Configures
  <2> QED BY <1>16, <2>1 DEF ConfigureInterface, api, runtime, Typed, TypeOK
<1>17. ASSUME NEW s \in Sandboxes, ClearStale(s) PROVE Typed'
  <2>1. req' \in [Sandboxes -> Request] /\ ports' \in [Sandboxes -> PortInfo]
    BY <1>17, FoundOne, PortLoses DEF ClearStale
  <2> QED BY <1>17, <2>1 DEF ClearStale, api, runtime, Typed, TypeOK
<1>18. ASSUME NEW s \in Sandboxes, AddPort(s) PROVE Typed'
  <2>1. [on |-> TRUE, id |-> TRUE, qos |-> FALSE] \in PortInfo
    BY DEF PortInfo
  <2>2. box' \in [Sandboxes -> BoxInfo] /\ req' \in [Sandboxes -> Request] /\ ports' \in [Sandboxes -> PortInfo]
    <3>1. CASE FailAdd(s) /\ UNCHANGED ports
      BY <3>1, Finishes DEF FailAdd
    <3>2. CASE Go(s, "bandwidth") /\ UNCHANGED box /\ ports' = [ports EXCEPT ![s] = [on |-> TRUE, id |-> TRUE, qos |-> FALSE]]
      BY <2>1, <3>2, Goes, Put DEF Steps
    <3> QED BY <1>18, <3>1, <3>2 DEF AddPort
  <2> QED BY <1>18, <2>2 DEF AddPort, api, Typed, TypeOK
<1>19. ASSUME NEW s \in Sandboxes, SetPodBandwidth(s) PROVE Typed'
  <2>1. ports' \in [Sandboxes -> PortInfo] /\ qos' \subseteq Sandboxes /\ req' \in [Sandboxes -> Request]
    <3>1. Go(s, "active") /\ ports[s].on \in BOOLEAN
      BY <1>19 DEF SetPodBandwidth
    <3>2. ports' \in [Sandboxes -> PortInfo]
      BY <1>19, <3>1, PortQos DEF SetPodBandwidth, ClearPodBandwidth
    <3>3. req' \in [Sandboxes -> Request]
      BY <3>1, Goes DEF Steps
    <3> QED BY <1>19, <3>2, <3>3 DEF SetPodBandwidth, ClearPodBandwidth
  <2> QED BY <1>19, <2>1 DEF SetPodBandwidth, api, runtime, Typed, TypeOK
<1>20. ASSUME NEW s \in Sandboxes, IsIfaceIDSet(s) \/ DoPodFlowsExist(s) \/ TimesOut(s) PROVE Typed'
  <2>1. box' \in [Sandboxes -> BoxInfo] /\ req' \in [Sandboxes -> Request]
    <3>1. CASE FailAdd(s) \/ FinishSandboxRequest(s, TRUE)
      BY <3>1, Finishes DEF FailAdd
    <3>2. CASE UNCHANGED box /\ (Go(s, "flows") \/ Go(s, "active"))
      BY <3>2, Goes DEF Steps
    <3> QED BY <1>20, <3>1, <3>2 DEF IsIfaceIDSet, DoPodFlowsExist, TimesOut
  <2> QED BY <1>20, <2>1 DEF IsIfaceIDSet, DoPodFlowsExist, TimesOut, api, links, Typed, TypeOK
<1>21. ASSUME NEW s \in Sandboxes, CmdDel(s) PROVE Typed'
  <2>1. /\ ports' \in [Sandboxes -> PortInfo] /\ qos' \subseteq Sandboxes
        /\ box' \in [Sandboxes -> BoxInfo] /\ del' \in [Sandboxes -> {"none", "port", "qos"}]
    <3>1. CASE ports' = [ports EXCEPT ![s] = NoPort] /\ UNCHANGED <<box, qos>> /\ del' = [del EXCEPT ![s] = "qos"]
      BY <3>1, PortLoses
    <3>2. CASE ClearPodBandwidth(s) /\ del' = [del EXCEPT ![s] = "none"] /\ box' = [box EXCEPT ![s].state = "deleted"]
      BY <3>2, PortQos, Updates DEF ClearPodBandwidth
    <3> QED BY <1>21, <3>1, <3>2 DEF CmdDel, PlatformSpecificCleanup
  <2> QED BY <1>21, <2>1 DEF CmdDel, api, Typed, TypeOK
<1>22. ASSUME NEW s \in Sandboxes, CmdCheck(s) PROVE Typed'
  <2>1. check' \in [Sandboxes -> {"none", "start", "active", "flows", "bad"}]
    BY <1>22 DEF CmdCheck, CheckStep
  <2> QED BY <1>22, <2>1 DEF CmdCheck, api, links, Typed, TypeOK
<1>23. CASE UNCHANGED vars
  BY <1>23 DEF vars, Typed, TypeOK
<1> QED
  BY <1>1, <1>2, <1>3, <1>4, <1>5, <1>6, <1>7, <1>8, <1>9, <1>10, <1>11, <1>12, <1>13, <1>14, <1>15, <1>16, <1>17, <1>18,
     <1>19, <1>20, <1>21, <1>22, <1>23 DEF Next, Environment, Server, AddSteps

-----------------------------------------------------------------------------
(* What a step changes. *)

Only(s) == /\ Same(box', box, s) /\ Same(req', req, s) /\ Same(del', del, s) /\ Same(check', check, s)
           /\ Same(netns', netns, s) /\ Same(ports', ports, s)
           /\ \A t \in Sandboxes \ {s} : t \in qos' <=> t \in qos

SandboxStep(s) == \/ RunPodSandbox(s) \/ SandboxDies(s) \/ Abandon(s) \/ RequestDel(s) \/ RequestCheck(s) \/ Forget(s)
                  \/ AddFails(s) \/ DelFails(s) \/ GetPodAnnotations(s) \/ ConfigureInterface(s) \/ AddPort(s)
                  \/ SetPodBandwidth(s) \/ IsIfaceIDSet(s) \/ DoPodFlowsExist(s) \/ TimesOut(s) \/ CmdDel(s) \/ CmdCheck(s)

\* But for the older ports that an ADD clears, a step is about one sandbox.
LEMMA OnlyOne ==
  ASSUME Typed, NEW s \in Sandboxes, SandboxStep(s)
  PROVE  Only(s) /\ UNCHANGED <<pod, watch, cached>> /\ budget'.inst = budget.inst
<1>0. /\ box \in [Sandboxes -> BoxInfo] /\ req \in [Sandboxes -> Request] /\ ports \in [Sandboxes -> PortInfo]
      /\ netns \in [Sandboxes -> Nat] /\ del \in [Sandboxes -> {"none", "port", "qos"}]
      /\ check \in [Sandboxes -> {"none", "start", "active", "flows", "bad"}]
      /\ \A f : Same(f, f, s)
  BY DEF Typed, TypeOK, Same
<1>a. UNCHANGED <<pod, watch, cached>>
  BY DEF SandboxStep, RunPodSandbox, SandboxDies, Abandon, RequestDel, RequestCheck, Forget, AddFails, DelFails,
     GetPodAnnotations, ConfigureInterface, AddPort, SetPodBandwidth, IsIfaceIDSet, DoPodFlowsExist, TimesOut, CmdDel,
     CmdCheck, api
<1>b. budget'.inst = budget.inst
  BY DEF SandboxStep, RunPodSandbox, SandboxDies, Abandon, RequestDel, RequestCheck, Forget, AddFails, DelFails,
     GetPodAnnotations, ConfigureInterface, AddPort, SetPodBandwidth, IsIfaceIDSet, DoPodFlowsExist, TimesOut, CmdDel,
     CmdCheck, Typed, Budget
<1> USE <1>0
<1>1. CASE RunPodSandbox(s)
  <2>1. Same(box', box, s) /\ Same(req', req, s)
    BY <1>1 DEF RunPodSandbox, StartSandboxRequest, Same
  <2> QED BY <1>1, <1>a, <1>b, <2>1 DEF RunPodSandbox, Only, links
<1>2. CASE SandboxDies(s) \/ RequestDel(s) \/ RequestCheck(s)
  <2>1. Same(box', box, s) /\ Same(del', del, s) /\ Same(check', check, s)
    BY <1>2 DEF SandboxDies, RequestDel, RequestCheck, Same
  <2> QED BY <1>2, <1>a, <1>b, <2>1 DEF SandboxDies, RequestDel, RequestCheck, Only, links
<1>3. CASE Abandon(s)
  <2>1. Same(box', box, s) /\ Same(req', req, s)
    BY <1>3 DEF Abandon, Same
  <2> QED BY <1>3, <1>a, <1>b, <2>1 DEF Abandon, Only, links
<1>4. CASE Forget(s)
  <2>1. Same(box', box, s) /\ Same(netns', netns, s)
    BY <1>4 DEF Forget, Same
  <2> QED BY <1>4, <1>a, <1>b, <2>1 DEF Forget, Only
<1>5. CASE AddFails(s)
  <2>1. Same(box', box, s) /\ Same(req', req, s)
    <3>1. CASE FailAdd(s)
      BY <3>1, Finishes DEF FailAdd
    <3>2. CASE Go(s, "clear") /\ UNCHANGED box
      BY <3>2, Goes DEF Steps
    <3>3. CASE UNCHANGED box /\ \E t \in req[s].found : req' = [req EXCEPT ![s].found = @ \ {t}]
      BY <3>3, FoundOne
    <3> QED BY <1>5, <3>1, <3>2, <3>3 DEF AddFails
  <2>2. Same(netns', netns, s) /\ \A t \in Sandboxes \ {s} : t \in qos' <=> t \in qos
    BY <1>5 DEF AddFails, SetupInterface, Same
  <2> QED BY <1>5, <1>a, <1>b, <2>1, <2>2 DEF AddFails, Only
<1>6. CASE DelFails(s)
  <2>1. Same(box', box, s) /\ Same(del', del, s)
    BY <1>6 DEF DelFails, Same
  <2> QED BY <1>6, <1>a, <1>b, <2>1 DEF DelFails, Only, links
<1>7. CASE GetPodAnnotations(s)
  <2>1. Same(box', box, s) /\ Same(req', req, s)
    BY <1>7, LooksUp, Finishes DEF FailAdd
  <2> QED BY <1>7, <1>a, <1>b, <2>1 DEF GetPodAnnotations, Only, links
<1>8. CASE ConfigureInterface(s)
  <2>1. Same(req', req, s) /\ Same(netns', netns, s)
    BY <1>8, Configures
  <2> QED BY <1>8, <1>a, <1>b, <2>1 DEF ConfigureInterface, Only, runtime
<1>9. CASE AddPort(s)
  <2>1. CASE FailAdd(s) /\ UNCHANGED ports
    BY <1>9, <1>a, <1>b, <2>1, Finishes DEF AddPort, FailAdd, Only
  <2>2. CASE Go(s, "bandwidth") /\ UNCHANGED box /\ ports' = [ports EXCEPT ![s] = [on |-> TRUE, id |-> TRUE, qos |-> FALSE]]
    <3>1. Same(ports', ports, s)
      BY <2>2 DEF Same
    <3>2. Same(req', req, s)
      BY <2>2, Goes DEF Steps
    <3> QED BY <1>9, <1>a, <1>b, <2>2, <3>1, <3>2 DEF AddPort, Only
  <2> QED BY <1>9, <2>1, <2>2 DEF AddPort
<1>10. CASE SetPodBandwidth(s)
  <2>1. Same(ports', ports, s) /\ \A t \in Sandboxes \ {s} : t \in qos' <=> t \in qos
    BY <1>10 DEF SetPodBandwidth, ClearPodBandwidth, Same
  <2>2. Same(req', req, s)
    BY <1>10, Goes DEF SetPodBandwidth, Steps
  <2> QED BY <1>10, <1>a, <1>b, <2>1, <2>2 DEF SetPodBandwidth, Only, runtime
<1>11. CASE IsIfaceIDSet(s) \/ DoPodFlowsExist(s) \/ TimesOut(s)
  <2>1. Same(box', box, s) /\ Same(req', req, s)
    <3>1. CASE FailAdd(s) \/ FinishSandboxRequest(s, TRUE)
      BY <3>1, Finishes DEF FailAdd
    <3>2. CASE UNCHANGED box /\ (Go(s, "flows") \/ Go(s, "active"))
      BY <3>2, Goes DEF Steps
    <3> QED BY <1>11, <3>1, <3>2 DEF IsIfaceIDSet, DoPodFlowsExist, TimesOut
  <2> QED BY <1>11, <1>a, <1>b, <2>1 DEF IsIfaceIDSet, DoPodFlowsExist, TimesOut, Only, links
<1>12. CASE CmdDel(s)
  <2>1. Same(box', box, s) /\ Same(del', del, s) /\ Same(ports', ports, s) /\ \A t \in Sandboxes \ {s} : t \in qos' <=> t \in qos
    BY <1>12 DEF CmdDel, PlatformSpecificCleanup, ClearPodBandwidth, Same
  <2> QED BY <1>12, <1>a, <1>b, <2>1 DEF CmdDel, Only
<1>13. CASE CmdCheck(s)
  <2>1. Same(check', check, s)
    BY <1>13 DEF CmdCheck, CheckStep, Same
  <2> QED BY <1>13, <1>a, <1>b, <2>1 DEF CmdCheck, Only, links
<1> QED BY <1>1, <1>2, <1>3, <1>4, <1>5, <1>6, <1>7, <1>8, <1>9, <1>10, <1>11, <1>12, <1>13 DEF SandboxStep

\* What is noted of disturbances stays.
LEMMA Noted == ASSUME Next PROVE disturbed \subseteq disturbed'
<1>1. \A s \in Sandboxes : AddSteps(s) => disturbed \subseteq disturbed'
  BY DEF AddSteps, GetPodAnnotations, ConfigureInterface, ClearStale, AddPort, SetPodBandwidth, IsIfaceIDSet, DoPodFlowsExist
<1> QED BY <1>1 DEF Next, Environment, Server, PodChanges, MasterAdds, MasterDeletes, Informer, Bind, CancelOldestPodAdd,
       Restart, RunPodSandbox, SandboxDies, Abandon, RequestDel, RequestCheck, Forget, AddFails, DelFails, TimesOut,
       CmdDel, CmdCheck

LEMMA PodPosts ==
  ASSUME Typed, PodChanges
  PROVE  \/ /\ budget'.inst = budget.inst + 1
            /\ \E p \in PodInfo : p.inst = budget.inst + 1 /\ pod' = p /\ watch' = Append(watch, p)
         \/ budget'.inst = budget.inst /\ pod' = NoPod /\ watch' = Append(watch, NoPod)
<1>1. CASE pod = NoPod /\ budget' = [budget EXCEPT !.pod = @ - 1, !.inst = @ + 1]
           /\ \E l \in budget.limits : Post([inst |-> budget.inst + 1, ready |-> FALSE, limited |-> l])
  <2>1. PICK l \in budget.limits : Post([inst |-> budget.inst + 1, ready |-> FALSE, limited |-> l])
    BY <1>1
  <2> DEFINE p == [inst |-> budget.inst + 1, ready |-> FALSE, limited |-> l]
  <2>2. p \in PodInfo /\ p.inst = budget.inst + 1
    BY InstanceCount DEF PodInfo
  <2>3. pod' = p /\ watch' = Append(watch, p)
    BY <2>1 DEF Post
  <2>4. budget'.inst = budget.inst + 1
    BY <1>1 DEF Typed, Budget
  <2> HIDE DEF p
  <2> QED BY <2>2, <2>3, <2>4
<1>2. CASE Post(NoPod) /\ budget' = [budget EXCEPT !.delete = @ - 1]
  BY <1>2 DEF Post, Typed, Budget
<1> QED BY <1>1, <1>2 DEF PodChanges

\* The present pod's sandbox that is in use is the latest one.
LEMMA Latest ==
  ASSUME Inv, NEW s \in Sandboxes, box[s].inst = pod.inst, pod.inst # 0, box[s].state \notin Ended
  PROVE  \A t \in Sandboxes : ~Later(t, s)
<1> SUFFICES ASSUME NEW t \in Sandboxes, Later(t, s) PROVE FALSE
  OBVIOUS
<1>1. pod.inst = budget.inst /\ box[t].inst <= budget.inst /\ box[s].inst <= box[t].inst
  BY DEF Inv, Instances, Agree, Told, Order
<1>2. box[s].inst \in Nat /\ box[t].inst \in Nat /\ budget.inst \in Nat
  BY InstanceCount DEF Inv, Typed, TypeOK, BoxInfo
<1>3. box[s].inst = box[t].inst
  BY <1>1, <1>2
<1> QED BY <1>3 DEF Inv, Order

\* The rate limit a request knows is that of its sandbox's pod.
LEMMA LimitKnown ==
  ASSUME Inv, NEW s \in Sandboxes, "outdated" \notin disturbed, req[s].step \notin {"none", "annotations"}
  PROVE  req[s].limited = box[s].limited /\ req[s].info = box[s].inst /\ box[s].inst # 0
<1>1. req[s].info = box[s].inst
  BY DEF Inv, Local, Informed
<1>2. PICK lim \in [Nat -> BOOLEAN] : Agree(lim)
  BY DEF Inv, Instances
<1> QED BY <1>1, <1>2 DEF Agree, Told

-----------------------------------------------------------------------------
(* The invariant of each sandbox. *)

LEMMA LocalOthers ==
  ASSUME NEW s \in Sandboxes, NEW u \in Sandboxes \ {s}, Local(u), Only(s), pod' = pod, disturbed \subseteq disturbed'
  PROVE  Local(u)'
<1>1. /\ box'[u] = box[u] /\ req'[u] = req[u] /\ del'[u] = del[u] /\ check'[u] = check[u] /\ netns'[u] = netns[u]
      /\ ports'[u] = ports[u] /\ (u \in qos' <=> u \in qos)
  BY DEF Only, Same
<1> QED BY <1>1 DEF Local, Boxes, Waits, Informed, Kept, Plugged, Rated, Cleaned

\* The runtime's and the kubelet's steps.
LEMMA LocalRuntime ==
  ASSUME Inv, NEW s \in Sandboxes, Typed',
         RunPodSandbox(s) \/ SandboxDies(s) \/ Abandon(s) \/ RequestDel(s) \/ RequestCheck(s) \/ Forget(s)
  PROVE  Local(s)'
<1>0. /\ box \in [Sandboxes -> BoxInfo] /\ req \in [Sandboxes -> Request] /\ ports \in [Sandboxes -> PortInfo]
      /\ del \in [Sandboxes -> {"none", "port", "qos"}] /\ Local(s)
      /\ check \in [Sandboxes -> {"none", "start", "active", "flows", "bad"}]
      /\ box[s] \in BoxInfo /\ netns \in [Sandboxes -> Nat]
  BY DEF Inv, Typed, TypeOK
<1>a. \A b \in BoxInfo, x \in States : [b EXCEPT !.state = x].state = x /\ [b EXCEPT !.state = x].inst = b.inst
                            /\ [b EXCEPT !.state = x].limited = b.limited
  BY DEF BoxInfo
<1> USE <1>0
<1>1. CASE RunPodSandbox(s)
  <2>1. /\ box'[s] = [inst |-> pod.inst, state |-> "adding", limited |-> pod.limited]
        /\ req'[s] = [NoRequest EXCEPT !.step = "annotations"]
        /\ pod' = pod /\ del' = del /\ check' = check /\ ports' = ports /\ qos' = qos /\ box[s] = NoBox
    BY <1>1 DEF RunPodSandbox, StartSandboxRequest, api, links
  <2>2. req'[s].step = "annotations" /\ req'[s].info = 0 /\ req'[s].found = {}
    BY <2>1, Nothings DEF NoRequest
  <2>3. pod.inst # 0
    BY <1>1 DEF RunPodSandbox, Inv, Instances
  <2>4. del[s] = "none" /\ check[s] = "none" /\ ports[s] = NoPort
    BY <2>1, Nothings DEF Local, Boxes
  <2> QED BY <2>1, <2>2, <2>3, <2>4, Nothings DEF Local, Boxes, Waits, Informed, Kept, Plugged, Rated, Cleaned, Configured
<1>2. CASE SandboxDies(s)
  <2>1. /\ box'[s].state = "dead" /\ box'[s].inst = box[s].inst /\ box'[s].limited = box[s].limited /\ box[s].state = "added"
        /\ check[s] = "none" /\ UNCHANGED <<pod, req, del, check, ports, qos, netns, disturbed>>
    BY <1>2, <1>a DEF SandboxDies, api, links
  <2> QED BY <2>1, Nothings DEF Local, Boxes, Waits, Informed, Kept, Plugged, Rated, Cleaned
<1>3. CASE Abandon(s)
  <2>1. /\ box'[s].state = "failed" /\ box'[s].inst = box[s].inst /\ box'[s].limited = box[s].limited /\ box[s].state = "adding"
        /\ UNCHANGED <<pod, del, check, ports, qos, netns>> /\ disturbed \subseteq disturbed'
        /\ \/ req'[s] = NoRequest
           \/ req' = req /\ "abandoned" \in disturbed'
    BY <1>3, <1>a DEF Abandon, api, links
  <2> QED BY <2>1, Nothings DEF Local, Boxes, Waits, Informed, Kept, Plugged, Rated, Cleaned, Configured
<1>4. CASE RequestDel(s)
  <2>1. /\ box'[s].state = "deleting" /\ box'[s].inst = box[s].inst /\ box'[s].limited = box[s].limited
        /\ box[s].state \in {"failed", "dead", "deleting", "added"} /\ del'[s] = "port" /\ check[s] = "none"
        /\ UNCHANGED <<pod, req, check, ports, qos, netns, disturbed>>
    BY <1>4, <1>a DEF RequestDel, api, links
  <2> QED BY <2>1, Nothings DEF Local, Boxes, Waits, Informed, Kept, Plugged, Rated, Cleaned
<1>5. CASE RequestCheck(s)
  <2>1. check'[s] = "start" /\ box[s].state = "added" /\ UNCHANGED <<pod, box, req, del, ports, qos, netns, disturbed>>
    BY <1>5 DEF RequestCheck, api, links
  <2> QED BY <2>1 DEF Local, Boxes, Waits, Informed, Kept, Plugged, Rated, Cleaned
<1>6. CASE Forget(s)
  <2>1. /\ box'[s] = NoBox /\ req[s] = NoRequest /\ ports[s] = NoPort /\ s \notin qos /\ box[s].state = "deleted"
        /\ UNCHANGED <<pod, req, del, check, ports, qos, disturbed>>
    BY <1>6 DEF Forget, api
  <2> QED BY <2>1, Nothings DEF Local, Boxes, Waits, Informed, Kept, Plugged, Rated, Cleaned, Configured
<1> QED BY <1>1, <1>2, <1>3, <1>4, <1>5, <1>6

\* The steps of requests.
LEMMA LocalFinish ==
  ASSUME Inv, NEW s \in Sandboxes, NEW ok \in BOOLEAN, FinishSandboxRequest(s, ok),
         req[s].step # "none", ok => req[s].step = "flows",
         UNCHANGED <<pod, del, check, ports, netns>>, disturbed \subseteq disturbed'
  PROVE  Local(s)'
<1>1. /\ req'[s] = NoRequest /\ box'[s].inst = box[s].inst /\ box'[s].limited = box[s].limited
      /\ box[s].state # "adding" => box'[s] = box[s]
      /\ box[s].state = "adding" => box'[s].state = IF ok THEN "added" ELSE "failed"
  BY Finishes DEF Inv
<1>2. Local(s) /\ box[s] # NoBox /\ box[s].inst # 0
  BY DEF Inv, Local, Boxes
<1>3. Boxes(s)'
  BY <1>1, <1>2, Nothings DEF Local, Boxes
<1>4. Waits(s)' /\ Informed(s)'
  BY <1>1, Nothings DEF Waits, Informed, Configured
<1>5. Cleaned(s)'
  BY <1>1, <1>2 DEF Local, Cleaned, Waits, Boxes
<1>6. Kept(s)'
  BY <1>1, <1>2, Nothings DEF Local, Kept, Waits, Plugged, Rated
<1> QED BY <1>3, <1>4, <1>5, <1>6 DEF Local

LEMMA LocalAdd ==
  ASSUME Inv, Next, NEW s \in Sandboxes, Typed',
         \/ GetPodAnnotations(s) \/ ConfigureInterface(s) \/ AddPort(s) \/ SetPodBandwidth(s) \/ IsIfaceIDSet(s)
         \/ DoPodFlowsExist(s) \/ TimesOut(s) \/ AddFails(s)
  PROVE  Local(s)'
<1>0. /\ Local(s) /\ Typed /\ disturbed \subseteq disturbed'
      /\ req[s].step # "none" => box[s] # NoBox /\ box[s].inst # 0
      /\ ports \in [Sandboxes -> PortInfo] /\ ports[s].on \in BOOLEAN
  BY Noted DEF Inv, Local, Boxes, Typed, TypeOK, PortInfo
<1> USE <1>0
<1>1. ASSUME UNCHANGED <<pod, del, check, ports, netns>>, req[s].step # "none",
             FailAdd(s) \/ (FinishSandboxRequest(s, TRUE) /\ req[s].step = "flows")
      PROVE  Local(s)'
  BY <1>1, LocalFinish DEF FailAdd
<1>2. CASE GetPodAnnotations(s)
  <2>1. req[s].step = "annotations" /\ UNCHANGED <<pod, del, check, ports, netns, qos>>
    BY <1>2 DEF GetPodAnnotations, At, api, links
  <2>2. CASE FailAdd(s)
    BY <1>1, <2>1, <2>2
  <2>3. CASE ~FailAdd(s)
    <3>1. /\ box' = box /\ req'[s].found = req[s].found
          /\ \/ req'[s].step = "annotations" /\ req'[s].info = req[s].info
             \/ req'[s].step = "setup" /\ req'[s].info = GetPod.inst /\ GetPod # NoPod
      BY <1>2, <2>3, LooksUp
    <3>2. "outdated" \notin disturbed' => req'[s].info \in {0, box[s].inst}
      BY <1>2 DEF GetPodAnnotations
    <3>3. GetPod # NoPod => GetPod.inst # 0
      BY DEF Inv, Instances, GetPod
    <3> QED BY <2>1, <3>1, <3>2, <3>3 DEF Local, Boxes, Waits, Informed, Kept, Plugged, Rated, Cleaned, Configured
  <2> QED BY <2>2, <2>3
<1>3. CASE ConfigureInterface(s)
  <2>1. /\ req[s].step = "setup" /\ UNCHANGED <<pod, box, del, check, ports, qos>> /\ req'[s].step = "clear"
        /\ req'[s].found = WithID /\ req'[s].info = req[s].info /\ netns'[s] = req[s].info
    BY <1>3, Configures DEF ConfigureInterface, At, api, runtime
  <2>2. s \notin WithID
    BY <2>1 DEF WithID, Local, Boxes
  <2> QED BY <2>1, <2>2 DEF Local, Boxes, Waits, Informed, Kept, Plugged, Rated, Cleaned, Configured
<1>4. CASE AddPort(s)
  <2>1. req[s].step = "clear" /\ UNCHANGED <<pod, del, check, netns, qos>>
    BY <1>4 DEF AddPort, At, api
  <2>2. CASE FailAdd(s) /\ UNCHANGED ports
    BY <1>1, <2>1, <2>2
  <2>3. CASE Go(s, "bandwidth") /\ UNCHANGED box /\ ports' = [ports EXCEPT ![s] = [on |-> TRUE, id |-> TRUE, qos |-> FALSE]]
    <3>1. /\ req'[s].step = "bandwidth" /\ req'[s].info = req[s].info /\ req'[s].found = req[s].found
          /\ ports'[s].on = TRUE /\ ports'[s].id = TRUE
      BY <2>3, Goes DEF Steps
    <3> QED BY <2>1, <2>3, <3>1 DEF Local, Boxes, Waits, Informed, Kept, Plugged, Rated, Cleaned, Configured
  <2> QED BY <1>4, <2>2, <2>3 DEF AddPort
<1>5. CASE SetPodBandwidth(s)
  <2>1. /\ req[s].step = "bandwidth" /\ UNCHANGED <<pod, box, del, check, netns, disturbed>>
        /\ req'[s].step = "active" /\ req'[s].info = req[s].info /\ req'[s].found = req[s].found
    BY <1>5, Goes DEF SetPodBandwidth, At, api, runtime, Steps
  <2>2. /\ ports'[s].on = ports[s].on /\ ports'[s].id = ports[s].id
        /\ ports'[s].qos = IF req[s].limited THEN ports[s].on ELSE FALSE
    BY <1>5, PortQos DEF SetPodBandwidth, ClearPodBandwidth
  <2>3. "outdated" \notin disturbed => req[s].limited = box[s].limited
    BY <2>1, LimitKnown
  <2>4. box[s].limited \in BOOLEAN
    BY DEF Typed, TypeOK, BoxInfo
  <2>5. Kept(s)'
    BY <2>1, <2>2, <2>3, <2>4 DEF Local, Boxes, Waits, Kept, Plugged, Rated
  <2> QED BY <2>1, <2>2, <2>5 DEF Local, Boxes, Waits, Informed, Cleaned, Configured
<1>6. CASE IsIfaceIDSet(s) \/ DoPodFlowsExist(s) \/ TimesOut(s)
  <2>1. /\ req[s].step \in {"active", "flows"} /\ UNCHANGED <<pod, del, check, netns, ports, qos>>
        /\ \/ FailAdd(s)
           \/ FinishSandboxRequest(s, TRUE) /\ req[s].step = "flows"
           \/ UNCHANGED box /\ (Go(s, "flows") \/ Go(s, "active"))
    BY <1>6 DEF IsIfaceIDSet, DoPodFlowsExist, TimesOut, At, api, links
  <2>2. CASE UNCHANGED box /\ (Go(s, "flows") \/ Go(s, "active"))
    <3>1. req'[s].step \in {"active", "flows"} /\ req'[s].info = req[s].info /\ req'[s].found = req[s].found
      BY <2>2, Goes DEF Steps
    <3> QED BY <2>1, <2>2, <3>1 DEF Local, Boxes, Waits, Informed, Kept, Plugged, Rated, Cleaned, Configured
  <2> QED BY <1>1, <2>1, <2>2
<1>7. CASE AddFails(s)
  <2>1. req[s].step # "none" /\ UNCHANGED <<pod, del, check, ports>> /\ req \in [Sandboxes -> Request]
    BY <1>7 DEF AddFails, api, Typed, TypeOK
  <2>2. CASE FailAdd(s) /\ UNCHANGED netns
    BY <1>1, <2>1, <2>2
  <2>3. CASE At(s, "setup") /\ SetupInterface(s) /\ Go(s, "clear") /\ UNCHANGED <<box, qos>>
    <3>1. /\ req[s].step = "setup" /\ req'[s].step = "clear" /\ req'[s].info = req[s].info /\ req'[s].found = req[s].found
          /\ netns'[s] = req[s].info
      BY <2>3, Goes DEF Steps, At, SetupInterface, Typed, TypeOK
    <3> QED BY <2>1, <2>3, <3>1 DEF Local, Boxes, Waits, Informed, Kept, Plugged, Rated, Cleaned, Configured
  <2>4. CASE At(s, "clear") /\ UNCHANGED <<box, netns, qos>> /\ \E t \in req[s].found : req' = [req EXCEPT ![s].found = @ \ {t}]
    <3>1. req[s].step = "clear" /\ req'[s].step = "clear" /\ req'[s].info = req[s].info /\ req'[s].found \subseteq req[s].found
      BY <2>4, FoundOne DEF At
    <3> QED BY <2>1, <2>4, <3>1 DEF Local, Boxes, Waits, Informed, Kept, Plugged, Rated, Cleaned, Configured
  <2> QED BY <1>7, <2>2, <2>3, <2>4 DEF AddFails
<1> QED BY <1>2, <1>3, <1>4, <1>5, <1>6, <1>7

LEMMA LocalDel ==
  ASSUME Inv, Next, NEW s \in Sandboxes, Typed', CmdDel(s) \/ DelFails(s) \/ CmdCheck(s)
  PROVE  Local(s)'
<1>0. /\ Local(s) /\ Typed /\ disturbed \subseteq disturbed' /\ box \in [Sandboxes -> BoxInfo] /\ box[s] \in BoxInfo
      /\ del \in [Sandboxes -> {"none", "port", "qos"}]
      /\ check \in [Sandboxes -> {"none", "start", "active", "flows", "bad"}]
  BY Noted DEF Inv, Typed, TypeOK
<1>a. \A b \in BoxInfo, x \in States : [b EXCEPT !.state = x].state = x /\ [b EXCEPT !.state = x].inst = b.inst
  BY DEF BoxInfo
<1> USE <1>0
<1>1. CASE CmdDel(s) /\ del[s] = "port"
  <2>1. /\ ports' = [ports EXCEPT ![s] = NoPort] /\ del'[s] = "qos" /\ UNCHANGED <<pod, box, qos, req, check, netns, disturbed>>
    BY <1>1 DEF CmdDel, PlatformSpecificCleanup, api
  <2>2. ports'[s] = NoPort /\ box[s].state = "deleting"
    BY <1>1, <2>1 DEF Typed, TypeOK, Local, Boxes
  <2> QED BY <2>1, <2>2, Nothings DEF Local, Boxes, Waits, Informed, Kept, Plugged, Rated, Cleaned
<1>2. CASE CmdDel(s) /\ del[s] = "qos"
  <2>1. /\ ports' = [ports EXCEPT ![s].qos = FALSE] /\ del'[s] = "none" /\ qos' = qos \ {s}
        /\ UNCHANGED <<pod, req, check, netns, disturbed>>
        /\ box'[s].state = "deleted" /\ box'[s].inst = box[s].inst
    <3>1. /\ ClearPodBandwidth(s) /\ del' = [del EXCEPT ![s] = "none"] /\ box' = [box EXCEPT ![s].state = "deleted"]
          /\ UNCHANGED <<pod, req, check, netns, disturbed>>
      BY <1>2 DEF CmdDel, PlatformSpecificCleanup, api
    <3>2. box'[s].state = "deleted" /\ box'[s].inst = box[s].inst
      BY <1>a, <3>1
    <3> QED BY <3>1, <3>2 DEF ClearPodBandwidth
  <2>2. /\ ports'[s].on = ports[s].on /\ (ports[s] = NoPort => ports'[s] = NoPort) /\ box[s].state = "deleting"
    BY <1>2, <2>1, PortQos DEF Local, Boxes
  <2> QED BY <1>2, <2>1, <2>2, Nothings DEF Local, Boxes, Waits, Informed, Kept, Plugged, Rated, Cleaned
<1>3. CASE DelFails(s)
  <2>1. /\ UNCHANGED <<pod, req, check, netns, ports, qos>> /\ "uncleaned" \in disturbed'
        /\ box[s].state = "deleting" /\ box'[s].inst = box[s].inst /\ box'[s].state \in {"deleting", "deleted"}
        /\ (del'[s] # "none" => box'[s].state = "deleting")
    BY <1>3, <1>a DEF DelFails, api, links, Local, Boxes
  <2> QED BY <1>3, <2>1, Nothings DEF Local, Boxes, Waits, Informed, Kept, Plugged, Rated, Cleaned
<1>4. CASE CmdCheck(s)
  <2>1. /\ UNCHANGED <<pod, box, req, del, netns, ports, qos, disturbed>> /\ check[s] # "none"
        /\ (check'[s] = "bad" => netns[s] = 0 \/ ~ports[s].on \/ ~ports[s].id)
    BY <1>4 DEF CmdCheck, CheckStep, PluginCheck, api, links
  <2> QED BY <2>1, Nothings DEF Local, Boxes, Waits, Informed, Kept, Plugged, Rated, Cleaned
<1> QED BY <1>1, <1>2, <1>3, <1>4 DEF CmdDel, PlatformSpecificCleanup

\* An ADD takes the iface-id from sandboxes that are not the present pod's latest.
LEMMA LocalClear ==
  ASSUME Inv, Next, NEW s \in Sandboxes, ClearStale(s), NEW u \in Sandboxes
  PROVE  Local(u)'
<1>1. PICK t \in req[s].found :
        /\ ports' = [ports EXCEPT ![t].id = FALSE]
        /\ req' = [req EXCEPT ![s].found = @ \ {t}]
        /\ ports[t].on /\ Later(t, s) => "overtaken" \in disturbed'
  BY DEF ClearStale
<1>2. /\ Typed /\ Local(u) /\ Local(s) /\ disturbed \subseteq disturbed' /\ req[s].step = "clear"
      /\ UNCHANGED <<pod, box, del, check, netns, qos>> /\ t \in Sandboxes
  BY Noted DEF Inv, ClearStale, At, api, runtime, Typed, TypeOK, Request
<1>3. /\ req'[s].step = req[s].step /\ req'[s].info = req[s].info /\ req'[s].found = req[s].found \ {t} /\ Same(req', req, s)
  BY <1>1, <1>2, FoundOne
<1>4. /\ req'[u].step = req[u].step /\ req'[u].info = req[u].info /\ req'[u].found \subseteq req[u].found
  BY <1>3 DEF Same
<1>5. /\ Same(ports', ports, t) /\ (ports'[t].on => ports[t].on) /\ (ports[t] = NoPort => ports'[t] = NoPort)
  BY <1>1, <1>2, PortLoses
<1>6. CASE u # t
  BY <1>2, <1>4, <1>5, <1>6 DEF Same, Local, Boxes, Waits, Informed, Kept, Plugged, Rated, Cleaned, Configured
<1>7. CASE u = t
  <2>1. Boxes(u)' /\ Waits(u)' /\ Informed(u)' /\ Cleaned(u)'
    BY <1>2, <1>4, <1>5, <1>7 DEF Local, Boxes, Waits, Informed, Cleaned, Configured
  <2>2. Kept(u)'
    <3> SUFFICES ASSUME "overtaken" \notin disturbed', "abandoned" \notin disturbed', "outdated" \notin disturbed',
                        box[u].inst = pod.inst, pod.inst # 0, Plugged(u) \/ Rated(u) \/ check[u] = "bad"
                 PROVE  FALSE
      BY <1>2, <1>4 DEF Kept, Plugged, Rated
    <3>1. Plugged(u)
      BY <1>2 DEF Plugged, Rated, Local, Boxes
    <3>2. ports[t].on /\ box[u].state \notin Ended
      BY <1>2, <1>7, <3>1 DEF Local, Kept, Waits, Plugged, Ended
    <3>3. ~Later(t, s) /\ ~Later(s, t)
      BY <1>1, <1>2, <1>7, <3>2, Latest
    <3>4. s # t /\ box[s] # NoBox /\ box[t] # NoBox
      BY <1>1, <1>2, <1>7, Nothings DEF Local, Boxes
    <3> QED BY <1>2, <3>3, <3>4 DEF Inv, Order
  <2> QED BY <2>1, <2>2 DEF Local
<1> QED BY <1>6, <1>7

\* Steps that are not about a sandbox.
LEMMA LocalGlobal ==
  ASSUME Inv, Next, NEW u \in Sandboxes,
         PodChanges \/ MasterAdds \/ MasterDeletes \/ Informer \/ Bind \/ CancelOldestPodAdd \/ Restart
  PROVE  Local(u)'
<1>0. /\ Typed /\ Local(u) /\ req \in [Sandboxes -> Request] /\ req[u] \in Request
  BY DEF Inv, Typed, TypeOK
<1> USE <1>0
<1>1. CASE PodChanges
  <2>1. UNCHANGED <<box, del, check, req, netns, ports, qos, disturbed>>
    BY <1>1 DEF PodChanges, runtime, links
  <2>2. box[u].inst <= budget.inst /\ box[u].inst \in Nat /\ budget.inst \in Nat
    BY InstanceCount DEF Inv, Instances, Agree, Told, Typed, TypeOK, BoxInfo
  <2>3. pod'.inst = budget.inst + 1 \/ pod'.inst = 0
    BY <1>1, PodPosts, Nothings
  <2>4. Kept(u)'
    BY <2>1, <2>2, <2>3 DEF Kept
  <2> QED BY <2>1, <2>4 DEF Local, Boxes, Waits, Informed, Cleaned
<1>2. CASE MasterAdds \/ MasterDeletes \/ Informer \/ Bind
  <2>1. UNCHANGED <<box, del, check, req, netns, ports, qos, disturbed>>
    BY <1>2 DEF MasterAdds, MasterDeletes, Informer, Bind, api, runtime, links
  <2>2. pod'.inst = pod.inst
    BY <1>2 DEF MasterAdds, MasterDeletes, Informer, Bind, Post, api, Typed, TypeOK, PodInfo
  <2> QED BY <2>1, <2>2 DEF Local, Boxes, Waits, Informed, Kept, Plugged, Rated, Cleaned
<1>3. CASE CancelOldestPodAdd
  <2>1. UNCHANGED <<pod, box, del, check, netns, ports, qos, disturbed>>
    BY <1>3 DEF CancelOldestPodAdd, runtime, links
  <2>2. req'[u].step = req[u].step /\ req'[u].info = req[u].info /\ req'[u].found = req[u].found
    BY <1>3 DEF CancelOldestPodAdd, Request
  <2> QED BY <2>1, <2>2 DEF Local, Boxes, Waits, Informed, Kept, Plugged, Rated, Cleaned
<1>4. CASE Restart
  <2>1. UNCHANGED <<pod, netns, ports, qos, disturbed>> /\ del'[u] = "none" /\ check'[u] = "none"
    BY <1>4 DEF Restart, links
  <2>2. /\ box'[u].inst = box[u].inst /\ box'[u].limited = box[u].limited
        /\ \/ box'[u] = box[u] /\ req'[u] = req[u]
           \/ box'[u] = box[u] /\ req'[u] = NoRequest
           \/ box'[u].state = "failed" /\ req'[u] = NoRequest /\ box[u].state = "adding"
    <3>1. box[u] \in BoxInfo
      BY DEF Typed, TypeOK
    <3>2. [box[u] EXCEPT !.state = "failed"].inst = box[u].inst /\ [box[u] EXCEPT !.state = "failed"].state = "failed"
          /\ [box[u] EXCEPT !.state = "failed"].limited = box[u].limited
      BY <3>1 DEF BoxInfo
    <3> QED BY <1>4, <3>2 DEF Restart
  <2> QED BY <2>1, <2>2, Nothings DEF Local, Boxes, Waits, Informed, Kept, Plugged, Rated, Cleaned, Configured
<1> QED BY <1>1, <1>2, <1>3, <1>4

LEMMA LocalStep == ASSUME Inv, Next, Typed', NEW u \in Sandboxes PROVE Local(u)'
<1>1. ASSUME NEW s \in Sandboxes, SandboxStep(s) PROVE Local(u)'
  <2>1. CASE u = s
    BY <1>1, <2>1, LocalRuntime, LocalAdd, LocalDel DEF SandboxStep
  <2>2. CASE u # s
    <3>1. Only(s) /\ pod' = pod
      BY <1>1, OnlyOne DEF Inv
    <3> QED BY <2>2, <3>1, LocalOthers, Noted DEF Inv
  <2> QED BY <2>1, <2>2
<1> QED BY <1>1, LocalClear, LocalGlobal DEF Next, Environment, Server, AddSteps, SandboxStep

-----------------------------------------------------------------------------
(* Instances and the order of sandboxes. *)

\* But for new and forgotten sandboxes, a sandbox stays that of its pod.
LEMMA BoxMoves ==
  ASSUME Inv, NEW s \in Sandboxes, SandboxStep(s), ~RunPodSandbox(s), ~Forget(s)
  PROVE  /\ created' = created
         /\ box'[s].inst = box[s].inst /\ box'[s].limited = box[s].limited
         /\ box[s].state \in Ended => box'[s].state \in Ended
         /\ box[s].state # "none" => box'[s].state # "none"
<1>0. Typed /\ box \in [Sandboxes -> BoxInfo] /\ box[s] \in BoxInfo /\ Boxes(s)
  BY DEF Inv, Typed, TypeOK, Local
<1>a. \A x : /\ [box EXCEPT ![s].state = x][s].state = x
             /\ [box EXCEPT ![s].state = x][s].inst = box[s].inst
             /\ [box EXCEPT ![s].state = x][s].limited = box[s].limited
  BY <1>0 DEF BoxInfo
<1>1. created' = created
  BY DEF SandboxStep, SandboxDies, Abandon, RequestDel, RequestCheck, AddFails, DelFails,
     GetPodAnnotations, ConfigureInterface, AddPort, SetPodBandwidth, IsIfaceIDSet, DoPodFlowsExist, TimesOut, CmdDel,
     CmdCheck, runtime
<1>2. \/ box' = box
      \/ \E ok \in BOOLEAN : FinishSandboxRequest(s, ok)
      \/ box[s].state = "adding" /\ box' = [box EXCEPT ![s].state = "failed"]
      \/ \E x \in Ended : box' = [box EXCEPT ![s].state = x]
  <2>1. CASE SandboxDies(s) \/ Abandon(s) \/ RequestDel(s) \/ RequestCheck(s) \/ DelFails(s) \/ CmdDel(s) \/ CmdCheck(s)
    BY <2>1 DEF SandboxDies, Abandon, RequestDel, RequestCheck, DelFails, CmdDel, PlatformSpecificCleanup, CmdCheck, Ended
  <2>2. CASE GetPodAnnotations(s) \/ ConfigureInterface(s) \/ AddPort(s) \/ SetPodBandwidth(s)
    BY <2>2 DEF GetPodAnnotations, ConfigureInterface, AddPort, SetPodBandwidth, FailAdd, runtime
  <2>3. CASE IsIfaceIDSet(s) \/ DoPodFlowsExist(s) \/ TimesOut(s) \/ AddFails(s)
    BY <2>3 DEF IsIfaceIDSet, DoPodFlowsExist, TimesOut, AddFails, FailAdd
  <2> QED BY <2>1, <2>2, <2>3 DEF SandboxStep
<1>3. CASE \E ok \in BOOLEAN : FinishSandboxRequest(s, ok)
  BY <1>0, <1>1, <1>3, Finishes DEF Ended
<1>4. CASE \E x \in Ended : box' = [box EXCEPT ![s].state = x]
  <2>1. PICK x \in Ended : box' = [box EXCEPT ![s].state = x]
    BY <1>4
  <2>2. box'[s].state = x /\ box'[s].inst = box[s].inst /\ box'[s].limited = box[s].limited
    BY <1>a, <2>1
  <2> QED BY <1>1, <2>1, <2>2 DEF Ended
<1>5. CASE box[s].state = "adding" /\ box' = [box EXCEPT ![s].state = "failed"]
  <2>1. box'[s].state = "failed" /\ box'[s].inst = box[s].inst /\ box'[s].limited = box[s].limited
    BY <1>a, <1>5
  <2> QED BY <1>1, <1>5, <2>1 DEF Ended
<1>6. CASE box' = box
  BY <1>1, <1>6
<1> QED BY <1>2, <1>3, <1>4, <1>5, <1>6

LEMMA ReqMoves ==
  ASSUME Inv, NEW s \in Sandboxes, SandboxStep(s)
  PROVE  \/ req'[s].step \in {"none", "annotations"}
         \/ /\ req[s].step \notin {"none", "annotations"}
            /\ req'[s].info = req[s].info /\ req'[s].limited = req[s].limited
         \/ /\ GetPod # NoPod /\ req'[s].info = GetPod.inst /\ req'[s].limited = GetPod.limited
<1>0. Typed /\ req \in [Sandboxes -> Request] /\ req[s] \in Request
  BY DEF Inv, Typed, TypeOK
<1>1. CASE req' = req
  BY <1>1
<1>2. CASE \E ok \in BOOLEAN : FinishSandboxRequest(s, ok)
  BY <1>0, <1>2, Finishes, Nothings
<1>3. CASE req[s].step \notin {"none", "annotations"} /\ \E x \in Steps : Go(s, x)
  BY <1>0, <1>3, Goes
<1>4. CASE req[s].step = "clear" /\ \E t \in req[s].found : req' = [req EXCEPT ![s].found = @ \ {t}]
  BY <1>0, <1>4, FoundOne
<1>5. CASE RunPodSandbox(s)
  <2>1. req'[s] = [NoRequest EXCEPT !.step = "annotations"]
    BY <1>0, <1>5 DEF RunPodSandbox, StartSandboxRequest
  <2> QED BY <2>1 DEF NoRequest
<1>6. CASE Abandon(s)
  <2>1. req'[s] = NoRequest \/ req' = req
    BY <1>0, <1>6 DEF Abandon
  <2> QED BY <1>1, <2>1, Nothings
<1>7. CASE GetPodAnnotations(s)
  BY <1>0, <1>2, <1>7, LooksUp DEF FailAdd
<1>8. CASE ConfigureInterface(s)
  <2>1. req'[s].info = req[s].info /\ req'[s].limited = req[s].limited
    BY <1>0, <1>8, Configures
  <2>2. req[s].step = "setup"
    BY <1>8 DEF ConfigureInterface, At
  <2> QED BY <2>1, <2>2
<1>9. CASE AddPort(s) \/ SetPodBandwidth(s) \/ IsIfaceIDSet(s) \/ DoPodFlowsExist(s) \/ TimesOut(s)
  BY <1>2, <1>3, <1>9 DEF AddPort, SetPodBandwidth, IsIfaceIDSet, DoPodFlowsExist, TimesOut, At, FailAdd, Steps
<1>10. CASE AddFails(s)
  BY <1>2, <1>3, <1>4, <1>10 DEF AddFails, At, FailAdd, Steps
<1>11. CASE SandboxDies(s) \/ RequestDel(s) \/ RequestCheck(s) \/ Forget(s) \/ DelFails(s) \/ CmdDel(s) \/ CmdCheck(s)
  BY <1>1, <1>11 DEF SandboxDies, RequestDel, RequestCheck, Forget, DelFails, CmdDel, CmdCheck
<1> QED BY <1>5, <1>6, <1>7, <1>8, <1>9, <1>10, <1>11 DEF SandboxStep

\* An instance's number is not used again, so its limit is known of nothing else.
LEMMA AgreeSandbox ==
  ASSUME Inv, NEW lim \in [Nat -> BOOLEAN], Agree(lim), NEW s \in Sandboxes, SandboxStep(s)
  PROVE  Agree(lim)'
<1>1. Only(s) /\ UNCHANGED <<pod, watch, cached>> /\ budget'.inst = budget.inst
  BY OnlyOne DEF Inv
<1>2. box'[s].inst <= budget.inst /\ box'[s].limited = lim[box'[s].inst]
  <2>1. CASE RunPodSandbox(s)
    <3>1. box'[s] = [inst |-> pod.inst, state |-> "adding", limited |-> pod.limited]
      BY <2>1 DEF RunPodSandbox, Inv, Typed, TypeOK
    <3> QED BY <3>1 DEF Agree, Told
  <2>2. CASE Forget(s)
    <3>1. box'[s] = NoBox
      BY <2>2 DEF Forget, Inv, Typed, TypeOK
    <3>2. lim[0] = NoPod.limited /\ 0 <= budget.inst
      BY InstanceCount DEF Agree, Inv
    <3> QED BY <3>1, <3>2, Nothings
  <2>3. CASE ~RunPodSandbox(s) /\ ~Forget(s)
    BY <2>3, BoxMoves DEF Agree, Told
  <2> QED BY <2>1, <2>2, <2>3
<1>3. req'[s].step \notin {"none", "annotations"} =>
        req'[s].info # 0 /\ req'[s].info <= budget.inst /\ req'[s].limited = lim[req'[s].info]
  <2>1. GetPod # NoPod => GetPod.inst # 0 /\ GetPod.inst <= budget.inst /\ GetPod.limited = lim[GetPod.inst]
    BY DEF GetPod, Inv, Instances, Agree, Told
  <2> QED BY <2>1, ReqMoves DEF Agree
<1>4. \A u \in Sandboxes : Told(lim, box[u])'
  BY <1>1, <1>2 DEF Agree, Told, Only, Same
<1>5. \A u \in Sandboxes : req'[u].step \notin {"none", "annotations"} =>
        req'[u].info # 0 /\ req'[u].info <= budget.inst /\ req'[u].limited = lim[req'[u].info]
  BY <1>1, <1>3 DEF Agree, Only, Same
<1> QED BY <1>1, <1>4, <1>5 DEF Agree, Told

LEMMA AgreeStep ==
  ASSUME Inv, Next, Typed', NEW lim \in [Nat -> BOOLEAN], Agree(lim)
  PROVE  \E m \in [Nat -> BOOLEAN] : Agree(m)'
<1>0. /\ Typed /\ watch \in Seq(PodInfo) /\ budget.inst \in Nat /\ Len(watch) \in Nat
      /\ \A i \in 1 .. Len(watch) : watch[i].inst \in Nat
      /\ \A s \in Sandboxes : box[s].inst \in Nat /\ req[s].info \in Nat
      /\ pod.inst \in Nat /\ cached.inst \in Nat
  <2>1. Typed /\ watch \in Seq(PodInfo) /\ budget.inst \in Nat /\ Len(watch) \in Nat
    BY InstanceCount DEF Inv, Typed, TypeOK
  <2>2. \A i \in 1 .. Len(watch) : watch[i] \in PodInfo
    BY <2>1
  <2>3. \A q \in PodInfo : q.inst \in Nat
    BY DEF PodInfo
  <2>4. \A s \in Sandboxes : box[s] \in BoxInfo /\ req[s] \in Request
    BY <2>1 DEF Typed, TypeOK
  <2>5. (\A b \in BoxInfo : b.inst \in Nat) /\ (\A r \in Request : r.info \in Nat)
    BY DEF BoxInfo, Request
  <2>6. pod \in PodInfo /\ cached \in PodInfo
    BY <2>1 DEF Typed, TypeOK
  <2> QED BY <2>1, <2>2, <2>3, <2>4, <2>5, <2>6
<1>1. CASE PodChanges
  <2>1. UNCHANGED <<cached, box, req>>
    BY <1>1 DEF PodChanges, runtime
  <2>2. ASSUME budget'.inst = budget.inst, pod' = NoPod, watch' = Append(watch, NoPod) PROVE Agree(lim)'
    <3>1. \A i \in 1 .. Len(watch') : watch'[i] = NoPod \/ (i \in 1 .. Len(watch) /\ watch'[i] = watch[i])
      BY <1>0, <2>2
    <3>2. NoPod.inst <= budget'.inst /\ NoPod.limited = lim[NoPod.inst]
      <4>1. lim[0] = NoPod.limited
        BY DEF Agree
      <4> QED BY <1>0, <2>2, <4>1, Nothings
    <3>3. \A i \in 1 .. Len(watch') : /\ watch'[i].inst <= budget'.inst /\ watch'[i].limited = lim[watch'[i].inst]
                                      /\ watch'[i].inst = 0 => watch'[i] = NoPod
      BY <2>2, <3>1, <3>2 DEF Told, Agree
    <3> QED BY <2>1, <2>2, <3>2, <3>3 DEF Told, Agree
  <2>3. ASSUME NEW p \in PodInfo, p.inst = budget.inst + 1, budget'.inst = budget.inst + 1, pod' = p, watch' = Append(watch, p)
        PROVE  \E m \in [Nat -> BOOLEAN] : Agree(m)'
    <3>1. PICK m \in [Nat -> BOOLEAN] : /\ m[budget.inst + 1] = p.limited
                                        /\ \A n \in Nat : n <= budget.inst => m[n] = lim[n]
      <4>1. p.limited \in BOOLEAN /\ \A n \in Nat : n <= budget.inst => n # budget.inst + 1
        BY <1>0, <2>3 DEF PodInfo
      <4>2. [lim EXCEPT ![budget.inst + 1] = p.limited] \in [Nat -> BOOLEAN]
        BY <4>1
      <4>3. budget.inst + 1 \in Nat
        BY <1>0
      <4> QED BY <4>1, <4>2, <4>3
    <3>2. \A i \in 1 .. Len(watch') : watch'[i] = p \/ (i \in 1 .. Len(watch) /\ watch'[i] = watch[i])
      BY <1>0, <2>3
    <3>3. p.inst <= budget'.inst /\ p.limited = m[p.inst] /\ p.inst # 0
      BY <1>0, <2>3, <3>1
    <3>a. \A n \in Nat : n <= budget.inst => n <= budget'.inst /\ m[n] = lim[n]
      BY <1>0, <2>3, <3>1
    <3>4. \A i \in 1 .. Len(watch') : /\ watch'[i].inst <= budget'.inst /\ watch'[i].limited = m[watch'[i].inst]
                                      /\ watch'[i].inst = 0 => watch'[i] = NoPod
      BY <1>0, <3>2, <3>3, <3>a DEF Told, Agree
    <3>5. \A s \in Sandboxes : box'[s].inst <= budget'.inst /\ box'[s].limited = m[box'[s].inst]
      BY <1>0, <2>1, <3>a DEF Told, Agree
    <3>6. /\ pod'.inst <= budget'.inst /\ pod'.limited = m[pod'.inst]
          /\ cached'.inst <= budget'.inst /\ cached'.limited = m[cached'.inst]
          /\ m[0] = NoPod.limited
      BY <1>0, <2>1, <2>3, <3>a, <3>3 DEF Told, Agree
    <3>7. \A s \in Sandboxes : req'[s].step \notin {"none", "annotations"} =>
            req'[s].info # 0 /\ req'[s].info <= budget'.inst /\ req'[s].limited = m[req'[s].info]
      BY <1>0, <2>1, <3>a DEF Agree
    <3>8. Agree(m)'
      BY <3>4, <3>5, <3>6, <3>7 DEF Agree, Told
    <3> QED BY <3>8
  <2> QED BY <1>0, <1>1, <2>2, <2>3, PodPosts
<1>2. CASE MasterAdds
  <2>1. UNCHANGED <<cached, box, req, budget>> /\ pod # NoPod
    BY <1>2 DEF MasterAdds, runtime
  <2>2. /\ pod'.inst = pod.inst /\ pod'.limited = pod.limited /\ watch' = Append(watch, pod') /\ pod' \in PodInfo
    <3>1. pod \in PodInfo
      BY DEF Inv, Typed, TypeOK
    <3> DEFINE p == [pod EXCEPT !.ready = TRUE]
    <3>2. p \in PodInfo /\ p.inst = pod.inst /\ p.limited = pod.limited
      BY <3>1 DEF PodInfo
    <3>3. pod' = p /\ watch' = Append(watch, p)
      BY <1>2 DEF MasterAdds, Post
    <3> HIDE DEF p
    <3> QED BY <3>2, <3>3
  <2>3. \A i \in 1 .. Len(watch') : watch'[i] = pod' \/ (i \in 1 .. Len(watch) /\ watch'[i] = watch[i])
    BY <1>0, <2>2
  <2>4. Told(lim, pod)' /\ pod'.inst # 0
    BY <2>1, <2>2 DEF Told, Agree, Inv, Instances
  <2>5. \A i \in 1 .. Len(watch') : Told(lim, watch[i])' /\ (watch'[i].inst = 0 => watch'[i] = NoPod)
    BY <2>1, <2>3, <2>4 DEF Told, Agree
  <2>6. Agree(lim)'
    BY <2>1, <2>4, <2>5 DEF Told, Agree
  <2> QED BY <2>6
<1>3. CASE Informer
  <2>1. UNCHANGED <<pod, box, req, budget>> /\ watch # <<>> /\ cached' = Head(watch) /\ watch' = Tail(watch)
    BY <1>3 DEF Informer, runtime
  <2>2. /\ Len(watch) > 0 /\ cached' = watch[1] /\ Len(watch') = Len(watch) - 1
        /\ \A i \in 1 .. Len(watch') : i + 1 \in 1 .. Len(watch) /\ watch'[i] = watch[i + 1]
    BY <1>0, <2>1
  <2>3. Told(lim, cached)' /\ \A i \in 1 .. Len(watch') : Told(lim, watch[i])' /\ (watch'[i].inst = 0 => watch'[i] = NoPod)
    BY <1>0, <2>1, <2>2 DEF Told, Agree
  <2>4. Agree(lim)'
    BY <2>1, <2>3 DEF Told, Agree
  <2> QED BY <2>4
<1>4. CASE MasterDeletes \/ Bind
  <2>1. UNCHANGED <<pod, watch, cached, box, req, budget>>
    BY <1>4 DEF MasterDeletes, Bind, api, runtime
  <2>2. Agree(lim)'
    BY <2>1 DEF Told, Agree
  <2> QED BY <2>2
<1>5. CASE CancelOldestPodAdd
  <2>1. UNCHANGED <<pod, watch, cached, box, budget>>
    BY <1>5 DEF CancelOldestPodAdd, runtime
  <2>2. \A u \in Sandboxes : req'[u].step = req[u].step /\ req'[u].info = req[u].info /\ req'[u].limited = req[u].limited
    <3>1. req \in [Sandboxes -> Request]
      BY <1>0 DEF Typed, TypeOK
    <3> QED BY <1>5, <3>1 DEF CancelOldestPodAdd, Request
  <2>3. Agree(lim)'
    BY <2>1, <2>2 DEF Told, Agree
  <2> QED BY <2>3
<1>6. CASE Restart
  <2>1. pod' = pod /\ cached' = pod /\ watch' = <<>> /\ budget'.inst = budget.inst
    BY <1>0, <1>6 DEF Restart, Typed, Budget
  <2>2. \A u \in Sandboxes : /\ box'[u].inst = box[u].inst /\ box'[u].limited = box[u].limited
                            /\ (req'[u] = req[u] \/ req'[u] = NoRequest)
    <3>1. \A b \in BoxInfo : [b EXCEPT !.state = "failed"].inst = b.inst /\ [b EXCEPT !.state = "failed"].limited = b.limited
      BY DEF BoxInfo
    <3>2. \A u \in Sandboxes : box[u] \in BoxInfo
      BY <1>0 DEF Typed, TypeOK
    <3> QED BY <1>6, <3>1, <3>2 DEF Restart
  <2>3. \A i \in 1 .. Len(watch') : FALSE
    BY <2>1
  <2>4. /\ \A s \in Sandboxes : Told(lim, box[s])'
        /\ \A s \in Sandboxes : req'[s].step \notin {"none", "annotations"} =>
              req'[s].info # 0 /\ req'[s].info <= budget'.inst /\ req'[s].limited = lim[req'[s].info]
    BY <2>1, <2>2, Nothings DEF Told, Agree
  <2>5. Agree(lim)'
    BY <2>1, <2>3, <2>4 DEF Told, Agree
  <2> QED BY <2>5
<1>7. CASE \E s \in Sandboxes : ClearStale(s)
  <2>1. UNCHANGED <<pod, watch, cached, box, budget>>
    BY <1>7 DEF ClearStale, api, runtime
  <2>2. \A u \in Sandboxes : req'[u].step = req[u].step /\ req'[u].info = req[u].info /\ req'[u].limited = req[u].limited
    BY <1>0, <1>7, FoundOne DEF ClearStale, Same
  <2>3. Agree(lim)'
    BY <2>1, <2>2 DEF Told, Agree
  <2> QED BY <2>3
<1>8. CASE \E s \in Sandboxes : SandboxStep(s)
  BY <1>8, AgreeSandbox
<1> QED BY <1>1, <1>2, <1>3, <1>4, <1>5, <1>6, <1>7, <1>8 DEF Next, Environment, Server, AddSteps, SandboxStep

LEMMA InstancesStep == ASSUME Inv, Next, Typed' PROVE Instances'
<1>0. Typed /\ Instances /\ budget.inst \in Nat /\ watch \in Seq(PodInfo)
  BY InstanceCount DEF Inv, Typed, TypeOK
<1>1. \E lim \in [Nat -> BOOLEAN] : Agree(lim)'
  BY <1>0, AgreeStep DEF Instances
<1>2. pod'.inst \in {0, budget'.inst} /\ (pod'.inst = 0 => pod' = NoPod) /\ (cached'.inst = 0 => cached' = NoPod)
  <2>1. CASE PodChanges
    <3>1. cached' = cached
      BY <2>1 DEF PodChanges
    <3> QED BY <1>0, <2>1, <3>1, PodPosts, Nothings DEF Instances
  <2>2. CASE MasterAdds
    BY <1>0, <2>2 DEF MasterAdds, Post, Instances, Typed, TypeOK, PodInfo, NoPod
  <2>3. CASE Informer
    <3>1. watch # <<>> /\ cached' = watch[1] /\ 1 \in 1 .. Len(watch) /\ UNCHANGED <<pod, budget>>
      BY <1>0, <2>3 DEF Informer
    <3> QED BY <1>0, <3>1 DEF Instances, Agree
  <2>4. CASE Restart
    BY <1>0, <2>4 DEF Restart, Instances, Typed, Budget
  <2>5. CASE MasterDeletes \/ Bind \/ CancelOldestPodAdd \/ (\E s \in Sandboxes : ClearStale(s))
    BY <1>0, <2>5 DEF MasterDeletes, Bind, CancelOldestPodAdd, ClearStale, api, Instances
  <2>6. CASE \E s \in Sandboxes : SandboxStep(s)
    BY <1>0, <2>6, OnlyOne DEF Instances
  <2> QED BY <2>1, <2>2, <2>3, <2>4, <2>5, <2>6 DEF Next, Environment, Server, AddSteps, SandboxStep
<1> QED BY <1>1, <1>2 DEF Instances

\* A sandbox that stays what it is keeps its place.
LEMMA OrderSame ==
  ASSUME Order, \A u \in Sandboxes : Boxes(u) /\ Boxes(u)', created' = created,
         \A u \in Sandboxes : box'[u].inst = box[u].inst /\ (box[u].state \in Ended => box'[u].state \in Ended)
  PROVE  Order'
<1>1. \A u \in Sandboxes : (box[u] = NoBox <=> box[u].inst = 0) /\ (box'[u] = NoBox <=> box'[u].inst = 0)
  BY Nothings DEF Boxes
<1>2. \A u \in Sandboxes : box'[u] = NoBox <=> box[u] = NoBox
  BY <1>1
<1> QED BY <1>2 DEF Order, Later

LEMMA OrderRun ==
  ASSUME Inv, NEW s \in Sandboxes, RunPodSandbox(s)
  PROVE  Order'
<1>0. Typed /\ box \in [Sandboxes -> BoxInfo] /\ pod \in PodInfo
  BY DEF Inv, Typed, TypeOK
<1>1. /\ box'[s] = [inst |-> pod.inst, state |-> "adding", limited |-> pod.limited]
      /\ \A u \in Sandboxes \ {s} : box'[u] = box[u]
      /\ box[s] = NoBox /\ pod # NoPod
      /\ created' = created \cup {<<s, t>> : t \in {u \in Sandboxes : box[u] # NoBox}}
      /\ \A t \in Sandboxes : box[t].inst = pod.inst => box[t].state \in Ended
  BY <1>0 DEF RunPodSandbox, Ended
<1>2. pod.inst # 0 /\ pod.inst = budget.inst /\ \A u \in Sandboxes : box[u].inst <= budget.inst
  BY <1>1 DEF Inv, Instances, Agree, Told
<1>3. box'[s] # NoBox /\ box'[s].inst = pod.inst
  BY <1>1, <1>2, Nothings
<1>4. \A t, u \in Sandboxes : Later(t, u)' <=> Later(t, u) \/ (t = s /\ box[u] # NoBox)
  BY <1>1 DEF Later
<1>5. \A t, u \in Sandboxes : Later(t, u) => t # s /\ u # s
  BY <1>1 DEF Inv, Order
<1>6. \A t, u \in Sandboxes : box'[t] # NoBox /\ box'[u] # NoBox /\ t # u => Later(t, u)' \/ Later(u, t)'
  BY <1>1, <1>4 DEF Inv, Order
<1>7. ASSUME NEW t \in Sandboxes, NEW u \in Sandboxes, Later(t, u)'
      PROVE  /\ box'[u] # NoBox /\ box'[t] # NoBox /\ box'[u].inst <= box'[t].inst
             /\ box'[u].inst = box'[t].inst => box'[u].state \in Ended
  <2>1. CASE Later(t, u)
    BY <1>1, <1>5, <2>1 DEF Inv, Order
  <2>2. CASE t = s /\ box[u] # NoBox
    BY <1>1, <1>2, <1>3, <2>2
  <2> QED BY <1>4, <1>7, <2>1, <2>2
<1> QED BY <1>6, <1>7 DEF Order

LEMMA OrderForget ==
  ASSUME Inv, NEW s \in Sandboxes, Forget(s)
  PROVE  Order'
<1>0. box \in [Sandboxes -> BoxInfo] /\ created \subseteq Sandboxes \X Sandboxes
  BY DEF Inv, Typed, TypeOK
<1>1. /\ box'[s] = NoBox /\ \A u \in Sandboxes \ {s} : box'[u] = box[u]
      /\ created' = {c \in created : s \notin {c[1], c[2]}}
  BY <1>0 DEF Forget
<1>2. \A t, u \in Sandboxes : Later(t, u)' <=> Later(t, u) /\ t # s /\ u # s
  BY <1>1 DEF Later
<1> QED BY <1>1, <1>2 DEF Inv, Order

LEMMA OrderStep == ASSUME Inv, Next, Typed', \A u \in Sandboxes : Local(u)' PROVE Order'
<1>0. Order /\ Typed /\ \A u \in Sandboxes : Boxes(u) /\ Boxes(u)'
  BY DEF Inv, Local
<1>1. CASE PodChanges \/ MasterAdds \/ MasterDeletes \/ Informer \/ Bind \/ CancelOldestPodAdd
           \/ \E s \in Sandboxes : ClearStale(s)
  <2>1. UNCHANGED <<box, created>>
    BY <1>1 DEF PodChanges, MasterAdds, MasterDeletes, Informer, Bind, CancelOldestPodAdd, ClearStale, runtime
  <2> QED BY <1>0, <2>1, OrderSame
<1>2. CASE Restart
  <2>1. \A b \in BoxInfo : [b EXCEPT !.state = "failed"].inst = b.inst
    BY DEF BoxInfo
  <2>2. \A u \in Sandboxes : box[u] \in BoxInfo
    BY <1>0 DEF Typed, TypeOK
  <2>3. created' = created /\ \A u \in Sandboxes :
          box'[u] = box[u] \/ (box[u].state = "adding" /\ box'[u] = [box[u] EXCEPT !.state = "failed"])
    BY <1>2 DEF Restart
  <2>4. \A u \in Sandboxes : box'[u].inst = box[u].inst /\ (box[u].state \in Ended => box'[u].state \in Ended)
    BY <2>1, <2>2, <2>3 DEF Ended
  <2> QED BY <1>0, <2>3, <2>4, OrderSame
<1>3. ASSUME NEW s \in Sandboxes, SandboxStep(s) PROVE Order'
  <2>1. CASE ~RunPodSandbox(s) /\ ~Forget(s)
    <3>1. \A u \in Sandboxes : box'[u].inst = box[u].inst /\ (box[u].state \in Ended => box'[u].state \in Ended)
      BY <1>0, <1>3, <2>1, BoxMoves, OnlyOne DEF Only, Same
    <3>2. created' = created
      BY <1>3, <2>1, BoxMoves
    <3> QED BY <1>0, <3>1, <3>2, OrderSame
  <2> QED BY <1>3, <2>1, OrderRun, OrderForget
<1> QED BY <1>1, <1>2, <1>3 DEF Next, Environment, Server, AddSteps, SandboxStep

-----------------------------------------------------------------------------
(* The iface-id. *)

LEMMA OneIDSame ==
  ASSUME OneID, disturbed \subseteq disturbed', WithID' \subseteq WithID,
         \A u \in Sandboxes : req'[u].step = "clear" =>
           \/ WithID' \subseteq req'[u].found
           \/ req[u].step = "clear" /\ req[u].found \subseteq req'[u].found
  PROVE  OneID'
<1> SUFFICES ASSUME "overtaken" \notin disturbed', "kept" \notin disturbed'
             PROVE  /\ \A s, t \in WithID' : s = t
                    /\ \A s \in Sandboxes : req'[s].step = "clear" => WithID' \subseteq req'[s].found
  BY DEF OneID, At
<1> QED BY DEF OneID, At

\* Only AddPort gives a sandbox the iface-id.
LEMMA IDLost ==
  ASSUME NEW s \in Sandboxes, Same(ports', ports, s), ports'[s].on /\ ports'[s].id => ports[s].on /\ ports[s].id
  PROVE  WithID' \subseteq WithID
<1>1. \A u \in Sandboxes : ports'[u].on /\ ports'[u].id => ports[u].on /\ ports[u].id
  BY DEF Same
<1> QED BY <1>1 DEF WithID

LEMMA OneIDStep == ASSUME Inv, Next, Typed' PROVE OneID'
<1>0. Typed /\ OneID /\ disturbed \subseteq disturbed' /\ req \in [Sandboxes -> Request]
  BY Noted DEF Inv, Typed, TypeOK
<1>1. CASE PodChanges \/ MasterAdds \/ MasterDeletes \/ Informer \/ Bind
  <2>1. ports' = ports /\ req' = req
    BY <1>1 DEF PodChanges, MasterAdds, MasterDeletes, Informer, Bind, links
  <2> QED BY <1>0, <2>1, OneIDSame DEF WithID
<1>2. CASE CancelOldestPodAdd
  <2>1. ports' = ports
    BY <1>2 DEF CancelOldestPodAdd, links
  <2>2. \A u \in Sandboxes : req'[u].step = req[u].step /\ req'[u].found = req[u].found
    BY <1>0, <1>2 DEF CancelOldestPodAdd, Request
  <2> QED BY <1>0, <2>1, <2>2, OneIDSame DEF WithID
<1>3. CASE Restart
  <2>1. ports' = ports
    BY <1>3 DEF Restart, links
  <2>2. \A u \in Sandboxes : req'[u] = req[u] \/ req'[u] = NoRequest
    BY <1>3 DEF Restart
  <2> QED BY <1>0, <2>1, <2>2, OneIDSame, Nothings DEF WithID
<1>4. ASSUME NEW s \in Sandboxes, ClearStale(s) PROVE OneID'
  <2>1. PICK t \in req[s].found : ports' = [ports EXCEPT ![t].id = FALSE] /\ req' = [req EXCEPT ![s].found = @ \ {t}]
    BY <1>4 DEF ClearStale
  <2>2. t \in Sandboxes
    <3>1. req[s] \in Request
      BY <1>0
    <3> QED BY <3>1 DEF Request
  <2>3. Same(ports', ports, t) /\ ~ports'[t].id
    BY <1>0, <2>1, <2>2, PortLoses
  <2>4. WithID' \subseteq WithID /\ t \notin WithID'
    BY <2>2, <2>3, IDLost DEF WithID
  <2>5. req'[s].found = req[s].found \ {t} /\ Same(req', req, s) /\ req[s].step = "clear"
    BY <1>0, <1>4, <2>1, FoundOne DEF ClearStale, At
  <2> SUFFICES ASSUME "overtaken" \notin disturbed', "kept" \notin disturbed'
               PROVE  /\ \A u, v \in WithID' : u = v
                      /\ \A u \in Sandboxes : req'[u].step = "clear" => WithID' \subseteq req'[u].found
    BY DEF OneID, At
  <2>6. /\ \A u, v \in WithID : u = v
        /\ \A u \in Sandboxes : req[u].step = "clear" => WithID \subseteq req[u].found
    BY <1>0 DEF OneID, At
  <2> QED BY <2>4, <2>5, <2>6 DEF Same
<1>5. ASSUME NEW s \in Sandboxes, SandboxStep(s), ~AddPort(s), ~AddFails(s) PROVE OneID'
  <2>1. Only(s)
    BY <1>0, <1>5, OnlyOne
  <2>2. WithID' \subseteq WithID
    <3>1. CASE SetPodBandwidth(s)
      <4>1. ports[s].on \in BOOLEAN
        BY <1>0 DEF Typed, TypeOK, PortInfo
      <4>2. \E x \in BOOLEAN : ports' = [ports EXCEPT ![s].qos = x]
        BY <3>1, <4>1 DEF SetPodBandwidth, ClearPodBandwidth
      <4> QED BY <1>0, <4>2, PortQos, IDLost
    <3>2. CASE CmdDel(s)
      <4>1. ports' = [ports EXCEPT ![s] = NoPort] \/ ports' = [ports EXCEPT ![s].qos = FALSE]
        BY <3>2 DEF CmdDel, PlatformSpecificCleanup, ClearPodBandwidth
      <4>2. CASE ports' = [ports EXCEPT ![s] = NoPort]
        BY <1>0, <4>2, PortLoses, IDLost
      <4>3. CASE ports' = [ports EXCEPT ![s].qos = FALSE]
        BY <1>0, <4>3, PortQos, IDLost
      <4> QED BY <4>1, <4>2, <4>3
    <3>3. CASE ~SetPodBandwidth(s) /\ ~CmdDel(s)
      <4>1. ports' = ports
        BY <1>5, <3>3 DEF SandboxStep, RunPodSandbox, SandboxDies, Abandon, RequestDel, RequestCheck, Forget, DelFails,
           GetPodAnnotations, ConfigureInterface, IsIfaceIDSet, DoPodFlowsExist, TimesOut, CmdCheck, links
      <4> QED BY <4>1 DEF WithID
    <3> QED BY <3>1, <3>2, <3>3
  <2>3. req'[s].step = "clear" => WithID \subseteq req'[s].found \/ req'[s] = req[s]
    <3>1. CASE ConfigureInterface(s)
      BY <1>0, <3>1, Configures
    <3>2. CASE GetPodAnnotations(s)
      BY <1>0, <3>2, LooksUp, Finishes, Nothings DEF FailAdd
    <3>3. CASE SetPodBandwidth(s) \/ IsIfaceIDSet(s) \/ DoPodFlowsExist(s) \/ TimesOut(s)
      <4>1. Go(s, "active") \/ Go(s, "flows") \/ FinishSandboxRequest(s, TRUE) \/ FinishSandboxRequest(s, FALSE)
        BY <3>3 DEF SetPodBandwidth, IsIfaceIDSet, DoPodFlowsExist, TimesOut, FailAdd
      <4> QED BY <1>0, <4>1, Goes, Finishes, Nothings DEF Steps
    <3>4. CASE RunPodSandbox(s)
      <4>1. req'[s] = [NoRequest EXCEPT !.step = "annotations"]
        BY <1>0, <3>4 DEF RunPodSandbox, StartSandboxRequest
      <4> QED BY <4>1 DEF NoRequest
    <3>5. CASE Abandon(s)
      <4>1. req'[s] = NoRequest \/ req' = req
        BY <1>0, <3>5 DEF Abandon
      <4> QED BY <4>1, Nothings
    <3>6. CASE SandboxDies(s) \/ RequestDel(s) \/ RequestCheck(s) \/ Forget(s) \/ DelFails(s) \/ CmdDel(s) \/ CmdCheck(s)
      BY <3>6 DEF SandboxDies, RequestDel, RequestCheck, Forget, DelFails, CmdDel, CmdCheck
    <3> QED BY <1>5, <3>1, <3>2, <3>3, <3>4, <3>5, <3>6 DEF SandboxStep
  <2> QED BY <1>0, <2>1, <2>2, <2>3, OneIDSame DEF Only, Same
<1>6. ASSUME NEW s \in Sandboxes, AddPort(s) PROVE OneID'
  <2>1. CASE FailAdd(s) /\ ports' = ports
    <3>1. req'[s] = NoRequest /\ Same(req', req, s)
      BY <1>0, <2>1, Finishes DEF FailAdd
    <3> QED BY <1>0, <2>1, <3>1, OneIDSame, Nothings DEF WithID, Same
  <2>2. CASE /\ ports' = [ports EXCEPT ![s] = [on |-> TRUE, id |-> TRUE, qos |-> FALSE]] /\ Go(s, "bandwidth")
             /\ disturbed' = disturbed \cup (IF \E t \in Sandboxes \ {s} : At(t, "clear") THEN {"overtaken"} ELSE {})
    <3>1. req[s].step = "clear" /\ req[s].found = {}
      BY <1>6 DEF AddPort, At
    <3>2. Same(ports', ports, s)
      BY <1>0, <2>2 DEF Same, Typed, TypeOK
    <3>3. req'[s].step = "bandwidth" /\ Same(req', req, s)
      BY <1>0, <2>2, Goes DEF Steps
    <3> SUFFICES ASSUME "overtaken" \notin disturbed', "kept" \notin disturbed'
                 PROVE  /\ \A u, v \in WithID' : u = v
                        /\ \A u \in Sandboxes : req'[u].step # "clear"
      BY DEF OneID, At
    <3>4. WithID = {}
      BY <1>0, <3>1 DEF OneID, At
    <3>5. WithID' \subseteq {s}
      BY <3>2, <3>4 DEF WithID, Same
    <3>6. \A u \in Sandboxes \ {s} : req[u].step # "clear"
      BY <2>2 DEF At
    <3> QED BY <3>3, <3>5, <3>6 DEF Same
  <2> QED BY <1>6, <2>1, <2>2 DEF AddPort
<1>7. ASSUME NEW s \in Sandboxes, AddFails(s) PROVE OneID'
  <2>0. ports' = ports
    BY <1>7 DEF AddFails
  <2>1. CASE FailAdd(s)
    <3>1. req'[s] = NoRequest /\ Same(req', req, s)
      BY <1>0, <2>1, Finishes DEF FailAdd
    <3> QED BY <1>0, <2>0, <3>1, OneIDSame, Nothings DEF WithID, Same
  <2>2. CASE Go(s, "clear") /\ disturbed' = disturbed \cup (IF WithID # {} THEN {"kept"} ELSE {})
    <3>1. Same(req', req, s)
      BY <1>0, <2>2, Goes DEF Steps
    <3>2. CASE WithID # {}
      BY <2>2, <3>2 DEF OneID
    <3>3. CASE WithID = {}
      <4>1. WithID' = {}
        BY <2>0, <3>3 DEF WithID
      <4> QED BY <1>0, <3>1, <4>1, OneIDSame DEF Same
    <3> QED BY <3>2, <3>3
  <2>3. CASE "kept" \in disturbed'
    BY <2>3 DEF OneID
  <2> QED BY <1>7, <2>1, <2>2, <2>3 DEF AddFails
<1> QED BY <1>1, <1>2, <1>3, <1>4, <1>5, <1>6, <1>7 DEF Next, Environment, Server, AddSteps, SandboxStep

-----------------------------------------------------------------------------
(* The invariant holds. *)

LEMMA InvInit == ASSUME WellFormed PROVE Init => Inv
<1> SUFFICES ASSUME Init PROVE Inv
  OBVIOUS
<1>1. Typed
  BY TypedInit
<1>2. /\ pod = NoPod /\ watch = <<>> /\ cached = NoPod /\ budget.inst = 0 /\ created = {} /\ qos = {} /\ disturbed = {}
      /\ \A s \in Sandboxes : box[s] = NoBox /\ req[s] = NoRequest /\ ports[s] = NoPort /\ del[s] = "none" /\ check[s] = "none"
  BY DEF Init, WellFormed, NoBoxes
<1>3. Order
  BY <1>2 DEF Order, Later
<1>4. OneID
  BY <1>2, Nothings DEF OneID, WithID, At
<1>5. ASSUME NEW s \in Sandboxes PROVE Local(s)
  BY <1>2, Nothings DEF Local, Boxes, Waits, Informed, Kept, Plugged, Rated, Cleaned, Configured
<1>6. Instances
  <2> DEFINE lim == [n \in Nat |-> FALSE]
  <2>1. lim \in [Nat -> BOOLEAN] /\ lim[0] = NoPod.limited
    BY DEF NoPod
  <2> HIDE DEF lim
  <2>2. Len(watch) = 0 /\ \A i \in 1 .. 0 : FALSE
    BY <1>2
  <2>3. Agree(lim)
    BY <1>2, <2>1, <2>2, Nothings DEF Agree, Told
  <2> QED BY <1>2, <2>1, <2>3, Nothings DEF Instances
<1> QED BY <1>1, <1>3, <1>4, <1>5, <1>6 DEF Inv

LEMMA InvStep == ASSUME Inv, [Next]_vars PROVE Inv'
<1>1. Typed'
  BY TypedStep DEF Inv
<1>2. CASE Next
  <2>1. \A u \in Sandboxes : Local(u)'
    BY <1>1, <1>2, LocalStep
  <2> QED BY <1>1, <1>2, <2>1, InstancesStep, OrderStep, OneIDStep DEF Inv
<1>3. CASE UNCHANGED vars
  <2>1. Instances'
    BY <1>3 DEF vars, Inv, Instances, Agree, Told
  <2>2. Order' /\ OneID'
    BY <1>3 DEF vars, Inv, Order, Later, OneID, WithID, At
  <2>3. ASSUME NEW u \in Sandboxes PROVE Local(u)'
    BY <1>3 DEF vars, Inv, Local, Boxes, Waits, Informed, Kept, Plugged, Rated, Cleaned
  <2> QED BY <1>1, <2>1, <2>2, <2>3 DEF Inv
<1> QED BY <1>2, <1>3

LEMMA Always == ASSUME WellFormed PROVE Spec => []Inv
<1>1. Init => Inv
  BY InvInit
<1>2. Inv /\ [Next]_vars => Inv'
  BY InvStep
<1> QED BY <1>1, <1>2, PTL DEF Spec

LEMMA Known == \A x, y, z : /\ ~Disturbed({x, y, z}) => x \notin disturbed /\ y \notin disturbed /\ z \notin disturbed
                            /\ ~Disturbed({x, y}) => x \notin disturbed /\ y \notin disturbed
  BY DEF Disturbed

\* The sandbox of the present pod keeps the iface-id, the pod's addresses and its
\* rate from the end of its ADD on, and no two interfaces have the iface-id at any
\* time, in whatever order ADDs, DELs, failures, deaths and restarts come, unless a
\* disturbance named in the property happened.  (ConfigureOVS.)
THEOREM IfaceIDKept == ASSUME WellFormed PROVE Spec => []IfaceIDOfLatest
<1>1. ASSUME Inv PROVE IfaceIDOfLatest
  <2>1. ASSUME NEW s \in Sandboxes, ~Disturbed({"overtaken", "abandoned", "outdated"}),
               box[s].state = "added", box[s].inst = pod.inst
        PROVE  /\ ports[s].on /\ ports[s].id /\ netns[s] = box[s].inst
               /\ ports[s].qos = box[s].limited /\ check[s] # "bad"
    <3>1. box[s].inst # 0
      BY <1>1, <2>1, Nothings DEF Inv, Local, Boxes
    <3>2. "overtaken" \notin disturbed /\ "abandoned" \notin disturbed /\ "outdated" \notin disturbed
      BY <2>1, Known
    <3> QED BY <1>1, <2>1, <3>1, <3>2 DEF Inv, Local, Kept, Plugged, Rated
  <2>2. ASSUME ~Disturbed({"overtaken", "kept"}) PROVE \A s, t \in WithID : s = t
    BY <1>1, <2>2, Known DEF Inv, OneID
  <2> QED BY <2>1, <2>2 DEF IfaceIDOfLatest
<1> QED BY <1>1, Always, PTL

\* In whatever step an ADD failed or was lost, when the DEL of its sandbox is over no
\* port and no QoS row of the sandbox is left.  (PlatformSpecificCleanup.)
THEOREM DelsClean == ASSUME WellFormed PROVE Spec => []NothingLeftAfterDel
<1>1. ASSUME Inv PROVE NothingLeftAfterDel
  <2>1. ASSUME ~Disturbed({"uncleaned", "abandoned"}) PROVE "uncleaned" \notin disturbed /\ "abandoned" \notin disturbed
    BY <2>1, Known
  <2> QED BY <1>1, <2>1 DEF NothingLeftAfterDel, Inv, Local, Cleaned
<1> QED BY <1>1, Always, PTL
=============================================================================
