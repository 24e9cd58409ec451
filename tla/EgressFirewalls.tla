-------------------------- MODULE EgressFirewalls ---------------------------
(***************************************************************************)
(* Egress firewalls (pkg/ovn/egressfirewall.go) and the resolver behind    *)
(* their rules on DNS names (egressfirewall_dns.go, pkg/util/dns.go).      *)
(*                                                                         *)
(* One informer thread handles the firewall objects; what an event does is *)
(* sent to the northbound database in one transaction, so an event is one  *)
(* step, or fails and changes only the controller's own map and names.     *)
(* Names are resolved by a goroutine per new name and by one loop for all  *)
(* of them, which interleave with the events and with each other.          *)
(***************************************************************************)
EXTENDS Integers, Sequences, FiniteSets, SequencesExt

CONSTANTS Namespaces, Nodes, Dests, DNSNames,
          Covers,      \* the addresses inside each CIDR of Dests
          Answers,     \* what a name may resolve to; {} is a failed lookup
          Packets,     \* records ip, proto, port
          Specs,       \* sequences of rules: dest, ports, action
          Worlds       \* what exists at first, a bound on what may happen then

VARIABLES
  \* The API server.
  fw,          \* firewall objects: existence, spec, status
  fwEv,        \* events not handled yet
  nodes,       \* the nodes, each with its logical switch
  answer,      \* what the name servers say of each name
  \* The controller.
  mode,        \* gateway mode, "down" between a crash and the next start
  lastMode,    \* gateway mode before
  egressFirewalls,   \* the namespaces with a firewall
  dnsEntries,  \* the names in use, and the namespaces that use them
  dnsMap,      \* the resolver's addresses of the names it knows
  queryOrder,  \* the names of dnsMap, earliest next query first
  adder,       \* the goroutine addToDNS of each name
  runner,      \* the loop of Run: the name it queries next
  \* The northbound database.
  acls,        \* ACLs of firewalls on each switch
  policies,    \* router policies of an older release exist
  asets,       \* address sets of names
  budget, disturbed

apiVars == <<fw, fwEv, nodes, answer>>
dnsVars == <<dnsEntries, dnsMap, queryOrder, adder, runner>>
ovnVars == <<acls, policies, asets>>
vars    == <<apiVars, mode, lastMode, egressFirewalls, dnsVars, ovnVars, budget, disturbed>>

JoinSwitch == "join"
Switches   == Nodes \cup {JoinSwitch}
Absent     == [exists |-> FALSE, spec |-> <<>>, status |-> "none"]
Free       == [known |-> FALSE, ips |-> {}]
Protocols  == {"udp", "tcp", "sctp"}
StartPriority == 10000
MinPriority   == 2000

Spend(kind) == budget[kind] > 0 /\ budget' = [budget EXCEPT ![kind] = @ - 1]
Note(what)  == disturbed' = disturbed \cup what

----------------------------------------------------------------------------
\* Rules and ACLs.

\* egressGetL4Match: the ports of each protocol in the order given, <<0>> for
\* all of them once an entry names the protocol alone.
L4Ports(ports, proto) ==
  LET upTo[n \in 0 .. Len(ports)] ==
        IF n = 0 THEN <<>>
        ELSE IF ports[n].proto # proto \/ upTo[n - 1] = <<0>> THEN upTo[n - 1]
        ELSE IF ports[n].port = 0 THEN <<0>> ELSE Append(upTo[n - 1], ports[n].port)
  IN upTo[Len(ports)]
L4Match(ports) == [proto \in Protocols |-> L4Ports(ports, proto)]

\* generateMatch, as the ACL keeps it: destination, ports, and the traffic the
\* gateway mode excludes.  The source is the address set of the namespace.
GenerateMatch(rule) == [dest |-> rule.dest, l4 |-> L4Match(rule.ports), any |-> rule.ports = <<>>, extra |-> mode]

\* The switches a firewall is written to.
SwitchesIn(m)   == IF m = "local" THEN nodes ELSE {JoinSwitch}
LogicalSwitches == SwitchesIn(mode)

\* The rules addEgressFirewall keeps: those past the lowest priority and those
\* with an invalid CIDR are dropped without an error.
EgressRules(spec) ==
  {i \in DOMAIN spec : i - 1 <= StartPriority - MinPriority /\ spec[i].dest \in Dests \cup DNSNames}
Existing(db) == UNION {db[s] : s \in Switches}

\* createEgressFirewallRules looks an ACL up by match, action and namespace,
\* not by priority.
FindACL(db, ns, match, action) == {a \in Existing(db) : a.ns = ns /\ a.match = match /\ a.action = action}

CreateRule(db, ns, spec, i) ==
  LET match == GenerateMatch(spec[i])
      found == FindACL(db, ns, match, spec[i].action)
  IN IF found # {} THEN found
     ELSE {[ns |-> ns, match |-> match, action |-> spec[i].action, prio |-> StartPriority - (i - 1), dir |-> "to"]}

AddEgressFirewallRules(db, ns, spec) == UNION {CreateRule(db, ns, spec, i) : i \in EgressRules(spec)}

\* The lookups see the database before the transaction.
Transaction(ns, remove, add) ==
  [s \in Switches |->
     IF s \notin LogicalSwitches THEN acls[s]
     ELSE (IF remove THEN {a \in acls[s] : a.ns # ns} ELSE acls[s]) \cup add]

\* A rule is kept by an update at another place: its ACL keeps its priority.
Moves(ns, spec) ==
  \E i \in EgressRules(spec) : \E a \in FindACL(acls, ns, GenerateMatch(spec[i]), spec[i].action) : a.prio # StartPriority - (i - 1)

NamesIn(spec) == {spec[i].dest : i \in EgressRules(spec)} \cap DNSNames

\* EgressDNS.Add for each name of a firewall: a new name gets an empty address
\* set and a goroutine.
DNSAdd(ns, spec) ==
  LET new == {d \in NamesIn(spec) : dnsEntries[d] = {}}
  IN /\ dnsEntries' = [d \in DNSNames |-> IF d \in NamesIn(spec) THEN dnsEntries[d] \cup {ns} ELSE dnsEntries[d]]
     /\ asets' = [d \in DNSNames |-> IF d \in new THEN {} ELSE asets[d]]
     /\ adder' = [d \in DNSNames |-> IF d \in new THEN "resolve" ELSE adder[d]]

----------------------------------------------------------------------------
\* The events of the API server.

Tell(e) == fwEv' = IF mode = "down" THEN fwEv ELSE Append(fwEv, e)

ChangeFirewall(ns) ==
  /\ Spend("fw")
  /\ \/ /\ ~ fw[ns].exists
        /\ \E s \in Specs : fw' = [fw EXCEPT ![ns] = [exists |-> TRUE, spec |-> s, status |-> "none"]]
        /\ Tell(<<"add", ns, fw'[ns].spec>>)
     \/ /\ fw[ns].exists
        /\ \E s \in Specs \ {fw[ns].spec} : fw' = [fw EXCEPT ![ns].spec = s]
        /\ Tell(<<"update", ns, fw'[ns].spec>>)
     \/ /\ fw[ns].exists
        /\ fw' = [fw EXCEPT ![ns] = Absent]
        /\ Tell(<<"delete", ns, <<>>>>)
  /\ Note(IF mode = "down" THEN {<<"stale", ns>>} ELSE {})
  /\ UNCHANGED <<nodes, answer, mode, lastMode, egressFirewalls, dnsVars, ovnVars>>

\* A node and its logical switch come or go.
ChangeNode(n) ==
  /\ Spend("node")
  /\ IF n \in nodes
     THEN nodes' = nodes \ {n} /\ acls' = [acls EXCEPT ![n] = {}] /\ UNCHANGED disturbed
     ELSE nodes' = nodes \cup {n} /\ Note({<<"newnode">>}) /\ UNCHANGED acls
  /\ UNCHANGED <<fw, fwEv, answer, mode, lastMode, egressFirewalls, dnsVars, policies, asets>>

ChangeAnswer(d) ==
  /\ Spend("dns")
  /\ \E a \in Answers \ {answer[d]} : answer' = [answer EXCEPT ![d] = a]
  /\ UNCHANGED <<fw, fwEv, nodes, mode, lastMode, egressFirewalls, dnsVars, ovnVars, disturbed>>

----------------------------------------------------------------------------
\* The informer's thread.

\* What fails while an event is handled: a command for the database, or the
\* update of the status, which is only logged.
Fails(failed) == /\ Cardinality(failed) <= budget.fault
                 /\ budget' = [budget EXCEPT !.fault = @ - Cardinality(failed)]

\* updateEgressFirewallWithRetry: refused when the object has changed since.
UpdateStatus(ns, spec, status, failed, what) ==
  /\ fw' = IF fw[ns].exists /\ fw[ns].spec = spec /\ "report" \notin failed THEN [fw EXCEPT ![ns].status = status] ELSE fw
  /\ Note(what \cup IF "report" \in failed THEN {<<"unreported", ns>>} ELSE {})
Moved(ns, spec) == IF Moves(ns, spec) THEN {<<"moved", ns>>} ELSE {}

\* addEgressFirewall fails: the transaction is not sent, and the rules before
\* the failing one have told the resolver of their names.
AddFails(ns, spec, failed) ==
  /\ "command" \in failed
  /\ egressFirewalls' = egressFirewalls \cup {ns}
  /\ \E k \in 0 .. Len(spec) : DNSAdd(ns, SubSeq(spec, 1, k))
  /\ UpdateStatus(ns, spec, "error", failed, {})
  /\ UNCHANGED acls

\* An add of a namespace in the map, an update of one that is not.
Refused(ns, spec, failed) ==
  /\ "command" \notin failed
  /\ UpdateStatus(ns, spec, "error", failed, {})
  /\ UNCHANGED <<egressFirewalls, dnsEntries, adder, asets, acls>>

AddEgressFirewall(ns, spec, failed) ==
  \/ /\ ns \notin egressFirewalls /\ "command" \notin failed
     /\ egressFirewalls' = egressFirewalls \cup {ns}
     /\ DNSAdd(ns, spec)
     /\ acls' = Transaction(ns, FALSE, AddEgressFirewallRules(acls, ns, spec))
     /\ UpdateStatus(ns, spec, "applied", failed, Moved(ns, spec))
  \/ ns \notin egressFirewalls /\ AddFails(ns, spec, failed)
  \/ ns \in egressFirewalls /\ Refused(ns, spec, failed)

\* Mutant: the old rules stay when a firewall is updated.
UpdateAddsOnly(ns, spec, failed) ==
  /\ ns \in egressFirewalls /\ "command" \notin failed
  /\ DNSAdd(ns, spec)
  /\ acls' = Transaction(ns, FALSE, AddEgressFirewallRules(acls, ns, spec))
  /\ UpdateStatus(ns, spec, "applied", failed, {})
  /\ UNCHANGED egressFirewalls
\* Delete and add in one transaction.  The delete drops the namespace from the
\* map before it looks for the ACLs: when that fails nothing adds it again, and
\* every later update and the delete are refused.
UpdateEgressFirewall(ns, spec, failed) ==
  \/ /\ ns \in egressFirewalls /\ "command" \notin failed
     /\ DNSAdd(ns, spec)
     /\ acls' = Transaction(ns, TRUE, AddEgressFirewallRules(acls, ns, spec))
     /\ UpdateStatus(ns, spec, "applied", failed, Moved(ns, spec))
     /\ UNCHANGED egressFirewalls
  \/ /\ ns \in egressFirewalls /\ "command" \in failed
     /\ egressFirewalls' = egressFirewalls \ {ns}
     /\ UpdateStatus(ns, spec, "error", failed, {})
     /\ UNCHANGED <<dnsEntries, adder, asets, acls>>
  \/ ns \in egressFirewalls /\ AddFails(ns, spec, failed)
  \/ ns \notin egressFirewalls /\ Refused(ns, spec, failed)

\* deleteEgressFirewall: the type assertion on the stored pointer fails, so the
\* names of its rules are never given up.
DeleteEgressFirewall(ns, failed) ==
  /\ failed \subseteq {"command"}
  /\ egressFirewalls' = egressFirewalls \ {ns}
  /\ \/ ns \in egressFirewalls /\ failed = {} /\ acls' = Transaction(ns, TRUE, {}) /\ UNCHANGED disturbed
     \/ (ns \in egressFirewalls <=> failed # {}) /\ Note({<<"undeleted", ns>>}) /\ UNCHANGED acls
  /\ UNCHANGED <<fw, dnsEntries, adder, asets>>

HandleEvent ==
  /\ fwEv # <<>>
  /\ \E failed \in SUBSET {"command", "report"} :
       LET e == Head(fwEv)
       IN /\ Fails(failed)
          /\ \/ e[1] = "add" /\ AddEgressFirewall(e[2], e[3], failed)
             \/ e[1] = "update" /\ UpdateEgressFirewall(e[2], e[3], failed)
             \/ e[1] = "delete" /\ DeleteEgressFirewall(e[2], failed)
  /\ fwEv' = Tail(fwEv)
  /\ UNCHANGED <<nodes, answer, mode, lastMode, dnsMap, queryOrder, runner, policies>>

----------------------------------------------------------------------------
\* The resolver.

\* DNS.updateOne: a failed lookup keeps the addresses known so far.
UpdateOne(d) == IF answer[d] = {} THEN dnsMap ELSE [dnsMap EXCEPT ![d].ips = answer[d]]

\* DNS.Add: a name whose first lookup fails is forgotten.
Resolve(d) ==
  /\ adder[d] = "resolve"
  /\ IF answer[d] = {} THEN /\ dnsMap' = [dnsMap EXCEPT ![d] = Free]
                            /\ Note({<<"unresolved", d>>})
                            /\ UNCHANGED queryOrder
                       ELSE /\ dnsMap' = [dnsMap EXCEPT ![d] = [known |-> TRUE, ips |-> answer[d]]]
                            /\ queryOrder' = Append(queryOrder, d)
                            /\ UNCHANGED disturbed
  /\ adder' = [adder EXCEPT ![d] = "publish"]
  /\ UNCHANGED <<apiVars, mode, lastMode, egressFirewalls, dnsEntries, runner, ovnVars, budget>>

\* updateEntryForName: the address set gets what the resolver knows.
UpdateEntryForName(d) ==
  \/ asets' = [asets EXCEPT ![d] = dnsMap[d].ips] /\ UNCHANGED budget
  \/ Spend("fault") /\ UNCHANGED asets

\* GetNextQueryTime; "" when the resolver knows no name.
NextQuery == IF queryOrder = <<>> THEN "" ELSE Head(queryOrder)

\* The end of addToDNS: the loop is told of the new name, if it listens.
Publish(d) ==
  /\ adder[d] = "publish"
  /\ UpdateEntryForName(d)
  /\ adder' = [adder EXCEPT ![d] = "idle"]
  /\ runner' \in {runner} \cup {[pc |-> "wait", name |-> NextQuery] : x \in {y \in {1} : runner.pc = "wait"}}
  /\ UNCHANGED <<apiVars, mode, lastMode, egressFirewalls, dnsEntries, dnsMap, queryOrder, acls, policies, disturbed>>

\* Mutant: the address set is written only when the lookup brought news.
RequeryNews ==
  /\ runner.pc = "wait"
  /\ IF runner.name = "" THEN /\ runner' = [runner EXCEPT !.name = NextQuery]
                              /\ UNCHANGED <<dnsMap, queryOrder>>
                         ELSE /\ dnsMap' = UpdateOne(runner.name)
                              /\ queryOrder' = Append(SelectSeq(queryOrder, LAMBDA d : d # runner.name), runner.name)
                              /\ runner' = IF dnsMap' = dnsMap THEN [runner EXCEPT !.name = Head(queryOrder')] ELSE [runner EXCEPT !.pc = "publish"]
  /\ UNCHANGED <<apiVars, mode, lastMode, egressFirewalls, dnsEntries, adder, ovnVars, budget, disturbed>>
\* Run, when the time of the next query has come.
Requery ==
  /\ runner.pc = "wait"
  /\ IF runner.name = "" THEN /\ runner' = [runner EXCEPT !.name = NextQuery]
                              /\ UNCHANGED <<dnsMap, queryOrder>>
                         ELSE /\ dnsMap' = UpdateOne(runner.name)
                              /\ queryOrder' = Append(SelectSeq(queryOrder, LAMBDA d : d # runner.name), runner.name)
                              /\ runner' = [runner EXCEPT !.pc = "publish"]
  /\ UNCHANGED <<apiVars, mode, lastMode, egressFirewalls, dnsEntries, adder, ovnVars, budget, disturbed>>

\* The address set is written whether or not the lookup brought news.
Republish ==
  /\ runner.pc = "publish"
  /\ UpdateEntryForName(runner.name)
  /\ runner' = [pc |-> "wait", name |-> NextQuery]
  /\ UNCHANGED <<apiVars, mode, lastMode, egressFirewalls, dnsEntries, dnsMap, queryOrder, adder, acls, policies, disturbed>>

----------------------------------------------------------------------------
\* A crash, and a start in the same or the other gateway mode with
\* syncEgressFirewall.

Crash ==
  /\ Spend("crash") /\ mode # "down"
  /\ mode' = "down"
  /\ lastMode' = mode
  /\ Note({<<"stale", ns>> : ns \in {n \in Namespaces : \/ \E i \in DOMAIN fwEv : fwEv[i][2] = n
                                                        \/ fw[n].status = "error"}})
  /\ fwEv' = <<>>
  /\ egressFirewalls' = {}
  /\ dnsEntries' = [d \in DNSNames |-> {}]
  /\ dnsMap' = [d \in DNSNames |-> Free]
  /\ queryOrder' = <<>>
  /\ adder' = [d \in DNSNames |-> "idle"]
  /\ runner' = [pc |-> "wait", name |-> ""]
  /\ UNCHANGED <<fw, nodes, answer, ovnVars>>

\* A command of syncEgressFirewall that fails: some end it, others are logged.
\* In shared mode those for the node switches, then those for ACLs of an older
\* release, those for its router policies, those for ACLs without a firewall.
SyncFaults(m) ==
  {<<"none">>, <<"direction">>, <<"policies">>, <<"policy">>, <<"ids">>, <<"objects">>}
  \cup {<<"turn", a>> : a \in Existing(acls)}
  \cup {<<"rules", S>> : S \in SUBSET {ns \in Namespaces : ~ fw[ns].exists} \ {{}}}
  \cup (IF m = "shared" THEN {<<"find">>} \cup {<<"list", s>> : s \in nodes} \cup {<<"remove", s, a>> : s \in nodes, a \in Existing(acls)}
                         ELSE {})

\* In shared mode the node switches lose the ACLs of firewalls.
CleanSwitches(m, f) ==
  [s \in Switches |-> IF m = "shared" /\ s \in nodes /\ f # <<"list", s>>
                      THEN {a \in acls[s] : f = <<"remove", s, a>>} ELSE acls[s]]
\* ACLs of an older release get the other direction.
ConvertDirection(db, f) ==
  [s \in Switches |-> {IF f = <<"turn", a>> THEN a ELSE [a EXCEPT !.dir = "to"] : a \in db[s]}]
\* The router policies of an older release go.
RemovePolicies(f) == policies' = (policies /\ f[1] \in {"find", "direction", "policies", "policy"})
\* The ACLs of namespaces without a firewall leave the switches of the mode.  A
\* list of no objects takes those of all namespaces.
DropSpurious(db, m, f) ==
  LET stays(ns) == f[1] # "objects" /\ (fw[ns].exists \/ f[1] = "ids" \/ (f[1] = "rules" /\ ns \in f[2]))
  IN [s \in Switches |-> IF s \in SwitchesIn(m) THEN {a \in db[s] : stays(a.ns)} ELSE db[s]]

SyncEgressFirewall(m, f) ==
  LET cleaned == CleanSwitches(m, f)
      turned  == ConvertDirection(cleaned, f)
  IN /\ f \in SyncFaults(m)
     /\ RemovePolicies(f)
     /\ acls' = CASE f[1] = "find" -> acls [] f[1] = "direction" -> cleaned [] f[1] = "policies" -> turned
                [] OTHER -> DropSpurious(turned, m, f)

\* What a failing command left on the switches: ACLs of the old direction, and
\* of no firewall on those of the mode.
Unsynced ==
  {<<"unsynced", a.ns>> : a \in {b \in Existing(acls') : b.dir # "to"}
     \cup UNION {{b \in acls'[s] : ~ fw[b.ns].exists} : s \in SwitchesIn(mode')}}

Start ==
  /\ mode = "down"
  /\ mode' = lastMode \/ (budget.mode > 0 /\ mode' \in {"local", "shared"} \ {lastMode})
  /\ \E f \in SyncFaults(mode') :
       /\ f # <<"none">> => budget.fault > 0
       /\ budget' = [budget EXCEPT !.mode = IF mode' = lastMode THEN @ ELSE @ - 1,
                                   !.fault = IF f = <<"none">> THEN @ ELSE @ - 1]
       /\ SyncEgressFirewall(mode', f)
  /\ Note((IF mode' = "local" /\ lastMode # "local" THEN {<<"left">>} ELSE {}) \cup Unsynced)
  /\ \E order \in SetToSeqs({ns \in Namespaces : fw[ns].exists}) :
       fwEv' = [i \in DOMAIN order |-> <<"add", order[i], fw[order[i]].spec>>]
  /\ UNCHANGED <<fw, nodes, answer, lastMode, egressFirewalls, dnsVars, asets>>

----------------------------------------------------------------------------
Init ==
  \E w \in Worlds :
    /\ fw = w.fw /\ nodes = w.nodes /\ answer = w.answer /\ lastMode = w.mode
    /\ acls = w.acls /\ policies = w.policies /\ budget = w.budget
    /\ mode = "down"
    /\ fwEv = <<>>
    /\ egressFirewalls = {}
    /\ dnsEntries = [d \in DNSNames |-> {}]
    /\ dnsMap = [d \in DNSNames |-> Free]
    /\ queryOrder = <<>>
    /\ adder = [d \in DNSNames |-> "idle"]
    /\ runner = [pc |-> "wait", name |-> ""]
    /\ asets = [d \in DNSNames |-> {}]
    /\ disturbed = {}

Next ==
  \/ \E ns \in Namespaces : ChangeFirewall(ns)
  \/ \E n \in Nodes : ChangeNode(n)
  \/ \E d \in DNSNames : ChangeAnswer(d) \/ Resolve(d) \/ Publish(d)
  \/ HandleEvent \/ Requery \/ Republish \/ Crash \/ Start

\* Goroutines run, timers fire, and a crashed master is started again.
Fairness ==
  /\ WF_vars(HandleEvent) /\ WF_vars(Requery) /\ WF_vars(Republish) /\ WF_vars(Start)
  /\ \A d \in DNSNames : WF_vars(Resolve(d)) /\ WF_vars(Publish(d))

Spec == Init /\ [][Next]_vars /\ Fairness

----------------------------------------------------------------------------
\* Every variable has the values the code gives it.
TypeOK ==
  /\ egressFirewalls \subseteq Namespaces
  /\ \A d \in DNSNames : dnsEntries[d] \subseteq Namespaces /\ (dnsMap[d].known <=> \E i \in DOMAIN queryOrder : queryOrder[i] = d)
  /\ runner.pc = "publish" => dnsMap[runner.name].known
  /\ \A s \in Switches, a \in Existing(acls) : a.prio <= StartPriority /\ a.prio >= MinPriority
  /\ mode \in {"down", "local", "shared"} /\ lastMode \in {"local", "shared"}

\* What a destination stands for, by what the spec says and by what OVN knows.
Inside(dest, ip) == IF dest \in DNSNames THEN ip \in asets[dest] ELSE ip \in Covers[dest]
RuleMatches(rule, p) ==
  /\ rule.dest \in Dests \cup DNSNames /\ Inside(rule.dest, p.ip)
  /\ rule.ports = <<>> \/ \E i \in DOMAIN rule.ports : rule.ports[i].proto = p.proto /\ rule.ports[i].port \in {0, p.port}
ACLMatches(a, p) ==
  /\ a.dir = "to" /\ Inside(a.match.dest, p.ip)
  /\ a.match.any \/ \E i \in DOMAIN a.match.l4[p.proto] : a.match.l4[p.proto][i] \in {0, p.port}

\* The actions the ACLs of highest priority say, "pass" without one.
Decisions(s, ns, p) ==
  LET hit == {a \in acls[s] : a.ns = ns /\ ACLMatches(a, p)}
  IN IF hit = {} THEN {"pass"} ELSE {a.action : a \in {b \in hit : \A c \in hit : c.prio <= b.prio}}
Wanted(spec, p) ==
  LET hit == {i \in DOMAIN spec : RuleMatches(spec[i], p)}
  IN IF hit = {} THEN "pass" ELSE spec[CHOOSE i \in hit : \A j \in hit : i <= j].action

Quiet == mode # "down" /\ fwEv = <<>>
Enforced(ns, s) == \A p \in Packets : Decisions(s, ns, p) = {Wanted(fw[ns].spec, p)}

Excused(ns) ==
  \/ fw[ns].exists /\ fw[ns].status # "applied"
  \/ disturbed \cap {<<"stale", ns>>, <<"undeleted", ns>>, <<"unreported", ns>>, <<"unsynced", ns>>, <<"left">>} # {}
  \/ <<"newnode">> \in disturbed /\ mode = "local"

\* Once the events are handled, a packet that leaves a namespace meets on every
\* switch of the gateway mode the first rule of the firewall that fits it, as
\* long as the object's status says the rules are applied; without a firewall it
\* meets none.  Across updates, failing commands, restarts, the ACLs of an older
\* release and a change from local to shared gateways.  Except where a kept rule
\* changed its place, a node came later in local mode, a firewall changed while
\* the master was down, its delete failed or was refused, its status could not be
\* written, the sync left its ACLs as they were, and after shared gateways.
\* (egressfirewall.go:240-296, 389-512)
FirstRuleDecides ==
  Quiet => \A ns \in Namespaces : Excused(ns) \/ <<"moved", ns>> \in disturbed \/ \A s \in LogicalSwitches : Enforced(ns, s)

\* The place of a rule in the firewall decides its priority, after an update as
\* after a creation (docs/egress-firewall.md:50).
PlaceDecides ==
  Quiet => \A ns \in Namespaces : Excused(ns) \/ \A s \in LogicalSwitches : Enforced(ns, s)

Follows(d) == dnsEntries[d] = {} \/ answer[d] \in {{}, asets[d]} \/ <<"unresolved", d>> \in disturbed
AllFollow  == \A d \in DNSNames : Follows(d)

\* The address set of a name in use follows the answers of the name servers,
\* whatever fails in between, unless the first lookup failed: such a name is
\* never looked up again.  (egressfirewall_dns.go:105-187, dns.go:72-120)
NameFollowsDNS == []<>AllFollow
=============================================================================
