-------------------------- MODULE NamespacesProofs --------------------------
(***************************************************************************)
(* The two-lock protocol of namespace.go is correct for any number of      *)
(* namespaces, pods, nodes and workers, any command failing or not, and    *)
(* namespaces created again while their deletion is still queued.          *)
(***************************************************************************)
EXTENDS Namespaces, TLAPS

Events == [op : {"none", "add", "update", "delete", "destroy"}, mcast : BOOLEAN]

\* The types the argument needs.
LockTypes ==
  /\ namespaces \in [NS -> Infos \cup {None}]
  /\ nsOf \in [Infos -> NS \cup {None}]
  /\ owner \in [Infos -> Workers \cup {None}]
  /\ infos \in 0 .. MaxInfos
  /\ pc \in [Workers -> Labels]
  /\ cur \in [Workers -> Infos \cup {None}]
  /\ job \in [Workers -> Events]
  /\ nsQueue \in [NS -> Seq(Events)]
  /\ lister \in [NS -> BOOLEAN]

\* The labels between Lock and Unlock.
Inside(w) == Holding(w) \/ pc[w] \in {"recheck", "cleanup"}

OwnsWhatItHolds ==
  \A w \in Workers : Inside(w) => cur[w] \in Infos /\ owner[cur[w]] = w

HoldsCurrent ==
  \A w \in Workers : Holding(w) => namespaces[Target(w)] = cur[w]

LooksAtSomething ==
  \A w \in Workers : pc[w] = "lock" => cur[w] \in Infos

\* Nobody has seen a namespaceInfo that is not created yet.
FreshInfos ==
  \A i \in Infos : i > infos =>
    /\ pc[i] = "idle"
    /\ \A w \in Workers : cur[w] # i
    /\ \A ns \in NS : namespaces[ns] # i

NamedInfos == \A i \in Infos : i <= infos => nsOf[i] \in NS

\* Only the namespace's own worker changes its entry of the table.
OwnEntry ==
  \A ns \in NS : pc[ns] \in {"lock", "recheck"} => namespaces[ns] = cur[ns]

\* The namespace's worker is on its way to removing the entry.
Deleting(ns) == job[ns].op = "delete" /\ pc[ns] \in {"lookup", "lock", "recheck"}

\* The controller knows ns and is not already deleting it.
Known(ns) == namespaces[ns] # None /\ ~Deleting(ns)

IsOp(ns, k, op) == k \in DOMAIN nsQueue[ns] /\ nsQueue[ns][k].op = op

\* Between two queued adds of a namespace, and before an add of a known one,
\* its delete is queued.
AddsAreSeparated ==
  \A ns \in NS : \A k \in Nat : IsOp(ns, k, "add") =>
    /\ \A j \in Nat : (j < k /\ IsOp(ns, j, "add"))
                        => \E m \in Nat : j < m /\ m < k /\ IsOp(ns, m, "delete")
    /\ Known(ns) => \E m \in Nat : m < k /\ IsOp(ns, m, "delete")

\* A namespace that no longer exists has its delete queued or handled.
GoneIsQueued ==
  \A ns \in NS : ~lister[ns] =>
    /\ \A j \in Nat : IsOp(ns, j, "add") => \E m \in Nat : j < m /\ IsOp(ns, m, "delete")
    /\ Known(ns) => \E m \in Nat : IsOp(ns, m, "delete")

Inv ==
  /\ LockTypes
  /\ OwnsWhatItHolds
  /\ HoldsCurrent
  /\ LooksAtSomething
  /\ FreshInfos
  /\ NamedInfos
  /\ OwnEntry
  /\ AddsAreSeparated
  /\ GoneIsQueued

-----------------------------------------------------------------------------
LEMMA EventTypes ==
  \A op \in {"none", "add", "update", "delete", "destroy"} : \A on \in BOOLEAN :
    Event(op, on) \in Events
BY DEF Event, Events

\* A step that leaves the table and the queues alone, and of the workers
\* changes only w.
OnlyWorker(w) ==
  /\ UNCHANGED <<namespaces, nsOf, infos, nsQueue, lister>>
  /\ job' \in [Workers -> Events]
  /\ \A v \in Workers \ {w} : job'[v] = job[v]

\* The part of Inv about the queues depends only on what is queued, on what
\* exists and on which namespaces are known.
LEMMA QueuesPreserved ==
  ASSUME Inv, UNCHANGED <<nsQueue, lister>>,
         \A ns \in NS : Known(ns)' => Known(ns)
  PROVE  AddsAreSeparated' /\ GoneIsQueued'
<1>1. \A ns, k, op : IsOp(ns, k, op)' = IsOp(ns, k, op)
  BY DEF IsOp
<1>2. AddsAreSeparated'
  BY <1>1 DEF Inv, AddsAreSeparated
<1>3. GoneIsQueued'
  BY <1>1 DEF Inv, GoneIsQueued
<1> QED  BY <1>2, <1>3

\* Worker w is outside the lock after the step: it starts, or it leaves.
LEMMA LeavePreserves ==
  ASSUME Inv, NEW w \in Workers, NEW l \in {"idle", "lookup", "destroy"},
         OnlyWorker(w),
         pc' = [pc EXCEPT ![w] = l],
         cur' = cur \/ cur' = [cur EXCEPT ![w] = None],
         l = "destroy" => cur'[w] = None,
         owner' = owner \/ (Inside(w) /\ owner' = [owner EXCEPT ![cur[w]] = None]),
         w \in Infos => pc[w] # "idle",
         w \in NS => namespaces[w] = None \/ ~Deleting(w)
  PROVE  Inv'
<1> USE DEF Inv, OnlyWorker
<1>1. LockTypes'
  BY DEF LockTypes, OwnsWhatItHolds, Labels
<1>2. \A v \in Workers \ {w} : pc'[v] = pc[v] /\ cur'[v] = cur[v]
  BY DEF LockTypes
<1>3. ~Inside(w)' /\ pc'[w] # "lock" /\ pc'[w] = l
  BY DEF Inside, Holding, LockTypes
<1>4. \A v \in Workers : Inside(v)' => v # w /\ Inside(v)
  BY <1>2, <1>3 DEF Inside, Holding
<1>5. \A v \in Workers : Holding(v)' => v # w /\ Holding(v)
  BY <1>2, <1>3 DEF Inside, Holding
<1>6. \A v \in Workers : Target(v)' = Target(v)
  BY DEF Target
<1>7. OwnsWhatItHolds'
  <2> SUFFICES ASSUME NEW v \in Workers, Inside(v)'
               PROVE  cur'[v] \in Infos /\ owner'[cur'[v]] = v
    BY DEF OwnsWhatItHolds
  <2>1. v # w /\ Inside(v) /\ cur'[v] = cur[v] /\ cur[v] \in Infos /\ owner[cur[v]] = v
    BY <1>2, <1>4 DEF OwnsWhatItHolds
  <2>2. CASE owner' = owner  BY <2>1, <2>2
  <2>3. CASE Inside(w) /\ owner' = [owner EXCEPT ![cur[w]] = None]
    <3>1. cur[w] \in Infos /\ owner[cur[w]] = w  BY <2>3 DEF OwnsWhatItHolds
    <3> QED  BY <2>1, <2>3, <3>1 DEF LockTypes
  <2> QED  BY <2>2, <2>3
<1>8. HoldsCurrent'
  BY <1>2, <1>5, <1>6 DEF HoldsCurrent
<1>9. LooksAtSomething'
  BY <1>2, <1>3 DEF LooksAtSomething
<1>10. FreshInfos'
  <2>1. \A v \in Workers : cur'[v] = cur[v] \/ cur'[v] = None
    BY <1>2 DEF LockTypes
  <2>2. None \notin Infos  BY DisjointAssumption DEF Infos
  <2>3. Infos \subseteq Workers  BY DEF Workers
  <2>4. \A i \in Infos : i > infos => pc'[i] = "idle"
    BY <1>2, <2>3 DEF FreshInfos
  <2> QED  BY <2>1, <2>2, <2>4 DEF FreshInfos
<1>11. OwnEntry'
  <2>1. NS \subseteq Workers  BY DEF Workers
  <2> QED  BY <1>2, <1>3, <2>1 DEF OwnEntry
<1>12. \A ns \in NS : Known(ns)' => Known(ns)
  <2>1. NS \subseteq Workers  BY DEF Workers
  <2> QED  BY <1>2, <2>1 DEF Known, Deleting
<1>13. NamedInfos'  BY DEF NamedInfos
<1> QED  BY <1>1, <1>7, <1>8, <1>9, <1>10, <1>11, <1>12, <1>13, QueuesPreserved

\* Worker w stays inside, or passes the recheck, with the current object.
LEMMA StayPreserves ==
  ASSUME Inv, NEW w \in Workers,
         NEW l \in {"list", "find", "write", "add", "remove", "multicast", "skip", "destroy"},
         UNCHANGED <<namespaces, nsOf, infos, nsQueue, lister, owner, cur, job>>,
         pc' = [pc EXCEPT ![w] = l],
         Inside(w), namespaces[Target(w)] = cur[w],
         w \in NS => ~Deleting(w)
  PROVE  Inv'
<1> USE DEF Inv
<1>1. LockTypes'
  BY DEF LockTypes, Labels
<1>2. \A v \in Workers \ {w} : pc'[v] = pc[v]
  BY DEF LockTypes
<1>3. pc'[w] = l  BY DEF LockTypes
<1>4. \A v \in Workers : Inside(v)' => Inside(v)
  BY <1>2 DEF Inside, Holding
<1>5. \A v \in Workers : Holding(v)' => v = w \/ Holding(v)
  BY <1>2 DEF Holding
<1>6. \A v \in Workers : Target(v)' = Target(v)
  BY DEF Target
<1>7. OwnsWhatItHolds'
  BY <1>4 DEF OwnsWhatItHolds
<1>8. HoldsCurrent'
  BY <1>5, <1>6 DEF HoldsCurrent
<1>9. LooksAtSomething'
  BY <1>2, <1>3 DEF LooksAtSomething
<1>10. FreshInfos'
  <2>1. w \in Infos => pc[w] # "idle"
    BY DEF Inside, Holding
  <2>2. Infos \subseteq Workers  BY DEF Workers
  <2> QED  BY <1>2, <2>1, <2>2 DEF FreshInfos
<1>11. NS \subseteq Workers  BY DEF Workers
<1>12. OwnEntry'
  BY <1>2, <1>3, <1>11 DEF OwnEntry
<1>13. \A ns \in NS : Known(ns)' => Known(ns)
  BY <1>2, <1>11 DEF Known, Deleting
<1>14. NamedInfos'  BY DEF NamedInfos
<1> QED  BY <1>1, <1>7, <1>8, <1>9, <1>10, <1>12, <1>13, <1>14, QueuesPreserved

\* The first critical section of getNamespaceLocked finds an entry.
LEMMA LookupPreserves ==
  ASSUME Inv, NEW w \in Workers,
         UNCHANGED <<namespaces, nsOf, infos, nsQueue, lister, owner, job>>,
         pc[w] = "lookup",
         pc' = [pc EXCEPT ![w] = "lock"],
         Target(w) \in NS,
         namespaces[Target(w)] # None,
         cur' = [cur EXCEPT ![w] = namespaces[Target(w)]]
  PROVE  Inv'
<1> USE DEF Inv
<1>1. namespaces[Target(w)] \in Infos
  BY DEF LockTypes
<1>2. LockTypes'
  BY <1>1 DEF LockTypes, Labels
<1>3. \A v \in Workers \ {w} : pc'[v] = pc[v] /\ cur'[v] = cur[v]
  BY DEF LockTypes
<1>4. pc'[w] = "lock" /\ cur'[w] = namespaces[Target(w)]
  BY DEF LockTypes
<1>5. \A v \in Workers : Target(v)' = Target(v)
  BY DEF Target
<1>6. OwnsWhatItHolds' /\ HoldsCurrent' /\ LooksAtSomething'
  BY <1>1, <1>3, <1>4, <1>5
     DEF OwnsWhatItHolds, HoldsCurrent, LooksAtSomething, Inside, Holding
<1>7. FreshInfos'
  <2>1. Infos \subseteq Workers  BY DEF Workers
  <2> QED  BY <1>3, <1>4, <2>1 DEF FreshInfos
<1>8. NS \subseteq Workers  BY DEF Workers
<1>9. OwnEntry'
  BY <1>3, <1>4, <1>8 DEF OwnEntry, Target
<1>10. \A ns \in NS : Known(ns)' => Known(ns)
  BY <1>3, <1>4, <1>8 DEF Known, Deleting
<1>11. NamedInfos'  BY DEF NamedInfos
<1> QED  BY <1>2, <1>6, <1>7, <1>9, <1>10, <1>11, QueuesPreserved

\* nsInfo.Lock().
LEMMA LockPreserves ==
  ASSUME Inv, NEW w \in Workers, Lock(w)
  PROVE  Inv'
<1> USE DEF Inv
<1>1. /\ UNCHANGED <<namespaces, nsOf, infos, nsQueue, lister, cur, job>>
      /\ pc[w] = "lock" /\ pc' = [pc EXCEPT ![w] = "recheck"]
      /\ cur[w] \in Infos /\ owner[cur[w]] = None
      /\ owner' = [owner EXCEPT ![cur[w]] = w]
  BY DEF Lock, Goto, apiVars, qVars, LooksAtSomething
<1>2. LockTypes'
  BY <1>1 DEF LockTypes, Labels
<1>3. \A v \in Workers \ {w} : pc'[v] = pc[v]
  BY <1>1 DEF LockTypes
<1>4. pc'[w] = "recheck"  BY <1>1 DEF LockTypes
<1>5. None \notin Workers
  BY DisjointAssumption DEF Workers, Infos
<1>6. OwnsWhatItHolds'
  BY <1>1, <1>3, <1>4, <1>5 DEF OwnsWhatItHolds, Inside, Holding, LockTypes
<1>7. \A v \in Workers : Target(v)' = Target(v)
  BY <1>1 DEF Target
<1>8. HoldsCurrent' /\ LooksAtSomething'
  BY <1>1, <1>3, <1>4, <1>7 DEF HoldsCurrent, LooksAtSomething, Holding
<1>9. FreshInfos'
  <2>1. Infos \subseteq Workers  BY DEF Workers
  <2> QED  BY <1>1, <1>3, <2>1 DEF FreshInfos
<1>10. NS \subseteq Workers  BY DEF Workers
<1>11. OwnEntry'
  BY <1>1, <1>3, <1>4, <1>10 DEF OwnEntry
<1>12. \A ns \in NS : Known(ns)' => Known(ns)
  BY <1>1, <1>3, <1>4, <1>10 DEF Known, Deleting
<1>13. NamedInfos'  BY <1>1 DEF NamedInfos
<1> QED  BY <1>1, <1>2, <1>6, <1>8, <1>9, <1>11, <1>12, <1>13, QueuesPreserved

-----------------------------------------------------------------------------
\* What is at position k after the head is taken, and after an event is added.
LEMMA TailOps ==
  ASSUME LockTypes, NEW ns \in NS, nsQueue[ns] # <<>>,
         nsQueue' = [nsQueue EXCEPT ![ns] = Tail(@)]
  PROVE  /\ nsQueue' \in [NS -> Seq(Events)]
         /\ IsOp(ns, 1, Head(nsQueue[ns]).op)
         /\ Head(nsQueue[ns]) \in Events
         /\ \A op : \A k \in Nat : IsOp(ns, k, op)' <=> (k >= 1 /\ IsOp(ns, k + 1, op))
         /\ \A n \in NS \ {ns} : \A op : \A k \in Nat : IsOp(n, k, op)' <=> IsOp(n, k, op)
<1> DEFINE q == nsQueue[ns]
<1>1. q \in Seq(Events) /\ q # <<>>  BY DEF LockTypes
<1>2. nsQueue'[ns] = Tail(q) /\ \A n \in NS \ {ns} : nsQueue'[n] = nsQueue[n]
  BY DEF LockTypes
<1>3. Tail(q) \in Seq(Events) /\ Len(q) \in Nat /\ Len(q) >= 1 /\ Len(Tail(q)) = Len(q) - 1
  BY <1>1
<1>4. \A k \in 1 .. Len(q) - 1 : Tail(q)[k] = q[k + 1]
  BY <1>1
<1>5. DOMAIN q = 1 .. Len(q) /\ DOMAIN Tail(q) = 1 .. Len(q) - 1
  BY <1>1, <1>3
<1>6. Head(q) = q[1] /\ q[1] \in Events
  BY <1>1, <1>3
<1>7. nsQueue' \in [NS -> Seq(Events)]
  BY <1>3 DEF LockTypes
<1>8. \A op : \A k \in Nat : IsOp(ns, k, op)' <=> (k >= 1 /\ IsOp(ns, k + 1, op))
  <2> SUFFICES ASSUME NEW k \in Nat, NEW op
               PROVE  IsOp(ns, k, op)' <=> (k >= 1 /\ IsOp(ns, k + 1, op))
    OBVIOUS
  <2>1. IsOp(ns, k, op)' <=> (k \in DOMAIN Tail(q) /\ Tail(q)[k].op = op)
    BY <1>2 DEF IsOp
  <2>2. IsOp(ns, k + 1, op) <=> (k + 1 \in DOMAIN q /\ q[k + 1].op = op)
    BY DEF IsOp
  <2>3. k \in DOMAIN Tail(q) <=> (k >= 1 /\ k + 1 \in DOMAIN q)
    BY <1>3, <1>5
  <2>4. k \in DOMAIN Tail(q) => Tail(q)[k] = q[k + 1]
    BY <1>4, <1>5
  <2> QED  BY <2>1, <2>2, <2>3, <2>4
<1>9. IsOp(ns, 1, Head(q).op)
  BY <1>3, <1>5, <1>6 DEF IsOp
<1>10. \A n \in NS \ {ns} : \A op : \A k \in Nat : IsOp(n, k, op)' <=> IsOp(n, k, op)
  BY <1>2 DEF IsOp
<1> QED  BY <1>6, <1>7, <1>8, <1>9, <1>10

LEMMA AppendOps ==
  ASSUME LockTypes, NEW ns \in NS, NEW e \in Events,
         nsQueue' = [nsQueue EXCEPT ![ns] = Append(@, e)]
  PROVE  /\ nsQueue' \in [NS -> Seq(Events)]
         /\ \E last \in Nat :
              /\ \A op : \A k \in Nat : IsOp(ns, k, op) => k < last
              /\ \A op : \A k \in Nat : IsOp(ns, k, op)' <=>
                     (IsOp(ns, k, op) \/ (k = last /\ e.op = op))
         /\ \A n \in NS \ {ns} : \A op : \A k \in Nat : IsOp(n, k, op)' <=> IsOp(n, k, op)
<1> DEFINE q == nsQueue[ns]
           last == Len(q) + 1
<1>1. q \in Seq(Events)  BY DEF LockTypes
<1>2. nsQueue'[ns] = Append(q, e) /\ \A n \in NS \ {ns} : nsQueue'[n] = nsQueue[n]
  BY DEF LockTypes
<1>3. /\ Append(q, e) \in Seq(Events) /\ Len(q) \in Nat /\ Len(Append(q, e)) = last
      /\ Append(q, e)[last] = e
      /\ \A k \in 1 .. Len(q) : Append(q, e)[k] = q[k]
  BY <1>1
<1>4. DOMAIN q = 1 .. Len(q) /\ DOMAIN Append(q, e) = 1 .. last
  BY <1>1, <1>3
<1>5. nsQueue' \in [NS -> Seq(Events)]
  BY <1>3 DEF LockTypes
<1>6. \A op : \A k \in Nat : IsOp(ns, k, op) => k < last
  BY <1>3, <1>4 DEF IsOp
<1>7. \A op : \A k \in Nat : IsOp(ns, k, op)' <=> (IsOp(ns, k, op) \/ (k = last /\ e.op = op))
  BY <1>2, <1>3, <1>4 DEF IsOp
<1>8. \A n \in NS \ {ns} : \A op : \A k \in Nat : IsOp(n, k, op)' <=> IsOp(n, k, op)
  BY <1>2 DEF IsOp
<1>9. last \in Nat  BY <1>3
<1>10. \E l \in Nat :
         /\ \A op : \A k \in Nat : IsOp(ns, k, op) => k < l
         /\ \A op : \A k \in Nat : IsOp(ns, k, op)' <=> (IsOp(ns, k, op) \/ (k = l /\ e.op = op))
  BY <1>6, <1>7, <1>9
<1> QED  BY <1>5, <1>8, <1>10

-----------------------------------------------------------------------------
\* The namespace queue hands an update or a delete to its worker.
LEMMA StartNSPreserves ==
  ASSUME Inv, NEW ns \in NS, StartNS(ns)
  PROVE  Inv'
<1> USE DEF Inv
<1>1. /\ UNCHANGED <<namespaces, nsOf, infos, lister, owner, cur>>
      /\ pc[ns] = "idle" /\ nsQueue[ns] # <<>> /\ Head(nsQueue[ns]).op # "add"
      /\ nsQueue' = [nsQueue EXCEPT ![ns] = Tail(@)]
      /\ job' = [job EXCEPT ![ns] = Head(nsQueue[ns])]
      /\ pc' = [pc EXCEPT ![ns] = "lookup"]
  BY DEF StartNS, Goto, apiVars, ctrlVars
<1>2. /\ nsQueue' \in [NS -> Seq(Events)]
      /\ IsOp(ns, 1, Head(nsQueue[ns]).op)
      /\ Head(nsQueue[ns]) \in Events
      /\ \A op : \A k \in Nat : IsOp(ns, k, op)' <=> (k >= 1 /\ IsOp(ns, k + 1, op))
      /\ \A n \in NS \ {ns} : \A op : \A k \in Nat : IsOp(n, k, op)' <=> IsOp(n, k, op)
  BY <1>1, TailOps
<1>3. NS \subseteq Workers /\ Infos \subseteq Workers /\ ns \notin Infos
  BY DisjointAssumption DEF Workers, Infos
<1>4. LockTypes'
  BY <1>1, <1>2, <1>3 DEF LockTypes, Labels
<1>5. /\ \A v \in Workers \ {ns} : pc'[v] = pc[v] /\ job'[v] = job[v]
      /\ pc'[ns] = "lookup" /\ job'[ns] = Head(nsQueue[ns])
  BY <1>1, <1>3 DEF LockTypes
<1>6. OwnsWhatItHolds' /\ HoldsCurrent' /\ LooksAtSomething'
  BY <1>1, <1>5 DEF OwnsWhatItHolds, HoldsCurrent, LooksAtSomething, Inside, Holding, Target
<1>7. FreshInfos' /\ NamedInfos' /\ OwnEntry'
  BY <1>1, <1>3, <1>5 DEF FreshInfos, NamedInfos, OwnEntry
<1>8. \A n \in NS \ {ns} : Known(n)' <=> Known(n)
  BY <1>1, <1>3, <1>5 DEF Known, Deleting
<1>9. Known(ns)' => Known(ns) /\ ~IsOp(ns, 1, "delete")
  BY <1>1, <1>5 DEF Known, Deleting, IsOp, LockTypes
<1>10. \A k \in Nat : (k >= 2 /\ IsOp(ns, k, "delete")) => k - 1 \in Nat /\ IsOp(ns, k - 1, "delete")'
  BY <1>2
<1>11. AddsAreSeparated'
  <2> SUFFICES ASSUME NEW n \in NS, NEW k \in Nat, IsOp(n, k, "add")'
        PROVE  /\ \A j \in Nat : (j < k /\ IsOp(n, j, "add")')
                     => \E m \in Nat : j < m /\ m < k /\ IsOp(n, m, "delete")'
               /\ Known(n)' => \E m \in Nat : m < k /\ IsOp(n, m, "delete")'
    BY DEF AddsAreSeparated
  <2>1. CASE n # ns
    BY <1>2, <1>8, <2>1 DEF AddsAreSeparated
  <2>2. CASE n = ns
    <3>1. k >= 1 /\ k + 1 \in Nat /\ IsOp(ns, k + 1, "add")  BY <1>2, <2>2
    <3>2. ASSUME NEW j \in Nat, j < k, IsOp(ns, j, "add")'
          PROVE  \E m \in Nat : j < m /\ m < k /\ IsOp(ns, m, "delete")'
      <4>1. j + 1 \in Nat /\ j + 1 < k + 1 /\ IsOp(ns, j + 1, "add") /\ j >= 1
        BY <1>2, <3>2
      <4>2. PICK m \in Nat : j + 1 < m /\ m < k + 1 /\ IsOp(ns, m, "delete")
        BY <3>1, <4>1 DEF AddsAreSeparated
      <4>3. m - 1 \in Nat /\ IsOp(ns, m - 1, "delete")'  BY <1>10, <4>1, <4>2
      <4> QED  BY <4>2, <4>3
    <3>3. ASSUME Known(ns)' PROVE \E m \in Nat : m < k /\ IsOp(ns, m, "delete")'
      <4>1. PICK m \in Nat : m < k + 1 /\ IsOp(ns, m, "delete")
        BY <1>9, <3>1, <3>3 DEF AddsAreSeparated
      <4>2. m >= 2  BY <1>9, <3>3, <4>1 DEF IsOp, LockTypes
      <4>3. m - 1 \in Nat /\ IsOp(ns, m - 1, "delete")'  BY <1>10, <4>1, <4>2
      <4> QED  BY <4>1, <4>3
    <3> QED  BY <2>2, <3>2, <3>3
  <2> QED  BY <2>1, <2>2
<1>12. GoneIsQueued'
  <2> SUFFICES ASSUME NEW n \in NS, ~lister'[n]
        PROVE  /\ \A j \in Nat : IsOp(n, j, "add")' => \E m \in Nat : j < m /\ IsOp(n, m, "delete")'
               /\ Known(n)' => \E m \in Nat : IsOp(n, m, "delete")'
    BY DEF GoneIsQueued
  <2>1. CASE n # ns
    BY <1>1, <1>2, <1>8, <2>1 DEF GoneIsQueued
  <2>2. CASE n = ns
    <3>1. ASSUME NEW j \in Nat, IsOp(ns, j, "add")'
          PROVE  \E m \in Nat : j < m /\ IsOp(ns, m, "delete")'
      <4>1. j + 1 \in Nat /\ IsOp(ns, j + 1, "add") /\ j >= 1
        BY <1>2, <3>1
      <4>2. PICK m \in Nat : j + 1 < m /\ IsOp(ns, m, "delete")
        BY <1>1, <2>2, <4>1 DEF GoneIsQueued
      <4>3. m - 1 \in Nat /\ IsOp(ns, m - 1, "delete")'  BY <1>10, <4>1, <4>2
      <4> QED  BY <4>2, <4>3
    <3>2. ASSUME Known(ns)' PROVE \E m \in Nat : IsOp(ns, m, "delete")'
      <4>1. PICK m \in Nat : IsOp(ns, m, "delete")
        BY <1>1, <1>9, <2>2, <3>2 DEF GoneIsQueued
      <4>2. m >= 2  BY <1>9, <3>2, <4>1 DEF IsOp, LockTypes
      <4> QED  BY <1>10, <4>1, <4>2
    <3> QED  BY <2>2, <3>1, <3>2
  <2> QED  BY <2>1, <2>2
<1> QED  BY <1>4, <1>6, <1>7, <1>11, <1>12

\* Every worker that has got as far as the table has a namespace to look up.
LEMMA TargetIsNamespace ==
  ASSUME Inv, NEW w \in Workers, w \in Infos => pc[w] # "idle"
  PROVE  Target(w) \in NS
<1>1. CASE w \in Infos
  <2>1. w \notin NS \cup Pods \cup Nodes /\ w \in Int /\ infos \in Int
    BY <1>1, DisjointAssumption, BoundsAssumption DEF Infos, Inv, LockTypes
  <2>2. w <= infos  BY <1>1, <2>1 DEF Inv, FreshInfos
  <2> QED  BY <1>1, <2>1, <2>2 DEF Inv, NamedInfos, Target
<1>2. CASE w \in NS \cup Pods \cup Nodes
  BY <1>2, NsOfAssumption, HostNSAssumption DEF Target
<1> QED  BY <1>1, <1>2 DEF Workers

\* createNamespaceLocked installs a new locked object, never over another one.
LEMMA CreatePreserves ==
  ASSUME Inv, NEW ns \in NS, createNamespaceLocked(ns)
  PROVE  Inv'
<1> USE DEF Inv
<1> DEFINE i == infos + 1
<1>1. /\ UNCHANGED lister
      /\ pc[ns] = "idle" /\ nsQueue[ns] # <<>> /\ Head(nsQueue[ns]).op = "add"
      /\ i \in Infos
      /\ nsQueue' = [nsQueue EXCEPT ![ns] = Tail(@)]
      /\ job' = [job EXCEPT ![ns] = Head(nsQueue[ns])]
      /\ infos' = i
      /\ namespaces' = [namespaces EXCEPT ![ns] = i]
      /\ nsOf' = [nsOf EXCEPT ![i] = ns]
      /\ owner' = [owner EXCEPT ![i] = ns]
      /\ cur' = [cur EXCEPT ![ns] = i]
      /\ pc' = [pc EXCEPT ![ns] = "list"]
  BY DEF createNamespaceLocked, Goto, apiVars
<1>2. /\ nsQueue' \in [NS -> Seq(Events)]
      /\ IsOp(ns, 1, "add")
      /\ Head(nsQueue[ns]) \in Events
      /\ \A op : \A k \in Nat : IsOp(ns, k, op)' <=> (k >= 1 /\ IsOp(ns, k + 1, op))
      /\ \A n \in NS \ {ns} : \A op : \A k \in Nat : IsOp(n, k, op)' <=> IsOp(n, k, op)
  <2>1. nsQueue[ns] # <<>> /\ nsQueue' = [nsQueue EXCEPT ![ns] = Tail(@)]
    BY <1>1
  <2>2. IsOp(ns, 1, Head(nsQueue[ns]).op)  BY <2>1, TailOps
  <2>3. IsOp(ns, 1, "add")  BY <1>1, <2>2
  <2> QED  BY <2>1, <2>3, TailOps
<1>3. NS \subseteq Workers /\ Infos \subseteq Workers /\ ns \notin Infos /\ None \notin Infos
  BY DisjointAssumption DEF Workers, Infos
<1>4. infos \in Nat /\ i > infos /\ Infos \subseteq Int
  BY BoundsAssumption DEF LockTypes, Infos
<1>5. LockTypes'
  BY <1>1, <1>2, <1>3, <1>4, BoundsAssumption DEF LockTypes, Labels, Infos
<1>6. namespaces[ns] = None
  <2>1. ~\E m \in Nat : m < 1 /\ IsOp(ns, m, "delete")
    BY DEF IsOp, LockTypes
  <2>2. ~Known(ns)  BY <1>2, <2>1 DEF AddsAreSeparated
  <2> QED  BY <1>1, <2>2 DEF Known, Deleting
<1>7. /\ \A v \in Workers \ {ns} : pc'[v] = pc[v] /\ job'[v] = job[v] /\ cur'[v] = cur[v]
      /\ pc'[ns] = "list" /\ cur'[ns] = i
      /\ namespaces'[ns] = i /\ \A n \in NS \ {ns} : namespaces'[n] = namespaces[n]
      /\ owner'[i] = ns /\ \A j \in Infos \ {i} : owner'[j] = owner[j]
      /\ nsOf'[i] = ns /\ \A j \in Infos \ {i} : nsOf'[j] = nsOf[j]
  BY <1>1, <1>3 DEF LockTypes
<1>8. pc[i] = "idle" /\ \A w \in Workers : cur[w] # i
  BY <1>1, <1>4 DEF FreshInfos
<1>9. OwnsWhatItHolds'
  BY <1>1, <1>7, <1>8 DEF OwnsWhatItHolds, Inside, Holding
<1>10. HoldsCurrent'
  <2> SUFFICES ASSUME NEW w \in Workers, Holding(w)'
               PROVE  namespaces'[Target(w)'] = cur'[w]
    BY DEF HoldsCurrent
  <2>1. CASE w = ns
    BY <1>7, <2>1 DEF Target
  <2>2. CASE w # ns
    <3>1. Holding(w) /\ cur'[w] = cur[w] /\ cur[w] \in Infos
      BY <1>7, <2>2 DEF Holding, Inside, OwnsWhatItHolds
    <3>2. pc[w] # "idle"  BY <3>1 DEF Holding
    <3>3. Target(w)' = Target(w)
      <4>1. w # i  BY <1>8, <3>2
      <4> QED  BY <1>7, <4>1 DEF Target, Workers
    <3>4. Target(w) \in NS  BY <3>2, TargetIsNamespace
    <3>5. namespaces[Target(w)] = cur[w]  BY <3>1 DEF HoldsCurrent
    <3> QED  BY <1>3, <1>6, <1>7, <3>1, <3>3, <3>4, <3>5
  <2> QED  BY <2>1, <2>2
<1>11. LooksAtSomething'
  BY <1>1, <1>7 DEF LooksAtSomething
<1>12. FreshInfos'
  BY <1>1, <1>3, <1>4, <1>7 DEF FreshInfos
<1>13. NamedInfos'
  BY <1>1, <1>4, <1>7 DEF NamedInfos
<1>14. OwnEntry'
  BY <1>3, <1>7 DEF OwnEntry
<1>15. \A n \in NS \ {ns} : Known(n)' <=> Known(n)
  BY <1>3, <1>7 DEF Known, Deleting
<1>16. \A k \in Nat : (k >= 2 /\ IsOp(ns, k, "delete")) => k - 1 \in Nat /\ IsOp(ns, k - 1, "delete")'
  BY <1>2
<1>17. AddsAreSeparated'
  <2> SUFFICES ASSUME NEW n \in NS, NEW k \in Nat, IsOp(n, k, "add")'
        PROVE  /\ \A j \in Nat : (j < k /\ IsOp(n, j, "add")')
                     => \E m \in Nat : j < m /\ m < k /\ IsOp(n, m, "delete")'
               /\ Known(n)' => \E m \in Nat : m < k /\ IsOp(n, m, "delete")'
    BY DEF AddsAreSeparated
  <2>1. CASE n # ns
    BY <1>2, <1>15, <2>1 DEF AddsAreSeparated
  <2>2. CASE n = ns
    <3>1. k >= 1 /\ k + 1 \in Nat /\ IsOp(ns, k + 1, "add")  BY <1>2, <2>2
    <3>2. ASSUME NEW j \in Nat, j < k, IsOp(ns, j, "add")'
          PROVE  \E m \in Nat : j < m /\ m < k /\ IsOp(ns, m, "delete")'
      <4>1. j + 1 \in Nat /\ j + 1 < k + 1 /\ IsOp(ns, j + 1, "add") /\ j >= 1
        BY <1>2, <3>2
      <4>2. PICK m \in Nat : j + 1 < m /\ m < k + 1 /\ IsOp(ns, m, "delete")
        BY <3>1, <4>1 DEF AddsAreSeparated
      <4>3. m - 1 \in Nat /\ IsOp(ns, m - 1, "delete")'  BY <1>16, <4>1, <4>2
      <4> QED  BY <4>2, <4>3
    <3>3. \E m \in Nat : m < k /\ IsOp(ns, m, "delete")'
      <4>1. PICK m \in Nat : 1 < m /\ m < k + 1 /\ IsOp(ns, m, "delete")
        BY <1>2, <3>1 DEF AddsAreSeparated
      <4>2. m - 1 \in Nat /\ IsOp(ns, m - 1, "delete")'  BY <1>16, <4>1
      <4> QED  BY <4>1, <4>2
    <3> QED  BY <2>2, <3>2, <3>3
  <2> QED  BY <2>1, <2>2
<1>18. GoneIsQueued'
  <2> SUFFICES ASSUME NEW n \in NS, ~lister'[n]
        PROVE  /\ \A j \in Nat : IsOp(n, j, "add")' => \E m \in Nat : j < m /\ IsOp(n, m, "delete")'
               /\ Known(n)' => \E m \in Nat : IsOp(n, m, "delete")'
    BY DEF GoneIsQueued
  <2>1. CASE n # ns
    BY <1>1, <1>2, <1>15, <2>1 DEF GoneIsQueued
  <2>2. CASE n = ns
    <3>1. ASSUME NEW j \in Nat, IsOp(ns, j, "add")'
          PROVE  \E m \in Nat : j < m /\ IsOp(ns, m, "delete")'
      <4>1. j + 1 \in Nat /\ IsOp(ns, j + 1, "add") /\ j >= 1
        BY <1>2, <3>1
      <4>2. PICK m \in Nat : j + 1 < m /\ IsOp(ns, m, "delete")
        BY <1>1, <2>2, <4>1 DEF GoneIsQueued
      <4>3. m - 1 \in Nat /\ IsOp(ns, m - 1, "delete")'  BY <1>16, <4>1, <4>2
      <4> QED  BY <4>2, <4>3
    <3>2. \E m \in Nat : IsOp(ns, m, "delete")'
      <4>1. PICK m \in Nat : 1 < m /\ IsOp(ns, m, "delete")
        BY <1>1, <1>2, <2>2 DEF GoneIsQueued
      <4> QED  BY <1>16, <4>1
    <3> QED  BY <2>2, <3>1, <3>2
  <2> QED  BY <2>1, <2>2
<1> QED  BY <1>5, <1>9, <1>10, <1>11, <1>12, <1>13, <1>14, <1>17, <1>18

\* deleteNamespaceLocked takes the entry out while it holds its mutex, so no
\* other worker is inside.
LEMMA DeletePreserves ==
  ASSUME Inv, NEW ns \in NS, deleteNamespaceLocked(ns)
  PROVE  Inv'
<1> USE DEF Inv
<1> DEFINE i == cur[ns]
<1>1. /\ UNCHANGED <<nsOf, infos, nsQueue, lister, owner, cur>>
      /\ pc[ns] = "recheck" /\ job[ns].op = "delete"
      /\ namespaces[Target(ns)] = i
      /\ namespaces' = [namespaces EXCEPT ![ns] = None]
      /\ \/ pc' = [pc EXCEPT ![ns] = "cleanup"] /\ job' = job
         \/ /\ pc' = [pc EXCEPT ![ns] = "cleanup", ![i] = "sleep"]
            /\ job' = [job EXCEPT ![i] = Event("destroy", FALSE)]
  BY DEF deleteNamespaceLocked, Stale, apiVars, qVars
<1>2. NS \subseteq Workers /\ Infos \subseteq Workers /\ ns \notin Infos /\ None \notin Infos
  BY DisjointAssumption DEF Workers, Infos
<1>3. i \in Infos /\ owner[i] = ns
  BY <1>1, <1>2 DEF OwnsWhatItHolds, Inside
<1>4. Event("destroy", FALSE) \in Events
  BY EventTypes
<1>5. LockTypes'
  <2>1. namespaces' \in [NS -> Infos \cup {None}]
    BY <1>1 DEF LockTypes
  <2>2. pc' \in [Workers -> Labels]
    BY <1>1, <1>2, <1>3 DEF LockTypes, Labels
  <2>3. job' \in [Workers -> Events]
    BY <1>1, <1>2, <1>3, <1>4 DEF LockTypes
  <2> QED  BY <1>1, <2>1, <2>2, <2>3 DEF LockTypes
<1>6. /\ \A v \in Workers \ {ns, i} : pc'[v] = pc[v] /\ job'[v] = job[v]
      /\ pc'[ns] = "cleanup" /\ (pc'[i] = "sleep" \/ pc'[i] = pc[i])
      /\ \A n \in NS \ {ns} : pc'[n] = pc[n] /\ job'[n] = job[n]
      /\ namespaces'[ns] = None /\ \A n \in NS \ {ns} : namespaces'[n] = namespaces[n]
  <2>1. \A n \in NS : n # i  BY <1>2, <1>3, DisjointAssumption DEF Infos
  <2> QED  BY <1>1, <1>2, <1>3, <2>1 DEF LockTypes
<1>7. \A v \in Workers : Inside(v)' => Inside(v)
  BY <1>1, <1>6 DEF Inside, Holding
<1>8. \A v \in Workers : Holding(v)' => Holding(v) /\ v # ns
  BY <1>1, <1>6 DEF Holding
<1>9. \A v \in Workers : Target(v)' = Target(v)
  BY <1>1 DEF Target
<1>10. OwnsWhatItHolds'
  BY <1>1, <1>7 DEF OwnsWhatItHolds
<1>11. HoldsCurrent'
  <2> SUFFICES ASSUME NEW w \in Workers, Holding(w)'
               PROVE  namespaces'[Target(w)] = cur[w]
    BY <1>1, <1>9 DEF HoldsCurrent
  <2>1. Holding(w) /\ w # ns  BY <1>8
  <2>2. Target(w) \in NS
    <3>1. w \in Infos => pc[w] # "idle"  BY <2>1 DEF Holding
    <3> QED  BY <3>1, TargetIsNamespace
  <2>3. namespaces[Target(w)] = cur[w] /\ owner[cur[w]] = w
    BY <2>1 DEF HoldsCurrent, OwnsWhatItHolds, Inside
  <2>4. Target(w) # ns
    BY <1>1, <1>3, <2>1, <2>3 DEF Target
  <2> QED  BY <1>6, <2>2, <2>3, <2>4
<1>12. LooksAtSomething'
  <2>1. \A v \in Workers : pc'[v] = "lock" => pc[v] = "lock"  BY <1>6
  <2> QED  BY <1>1, <2>1 DEF LooksAtSomething
<1>13. FreshInfos'
  <2>1. \A j \in Infos : j > infos => j # i  BY <1>2 DEF FreshInfos
  <2> QED  BY <1>1, <1>2, <1>6, <2>1 DEF FreshInfos
<1>14. NamedInfos'
  BY <1>1 DEF NamedInfos
<1>15. OwnEntry'
  BY <1>1, <1>6 DEF OwnEntry
<1>16. \A n \in NS : Known(n)' => Known(n)
  BY <1>6 DEF Known, Deleting
<1> QED  BY <1>1, <1>5, <1>10, <1>11, <1>12, <1>13, <1>14, <1>15, <1>16, QueuesPreserved

-----------------------------------------------------------------------------
\* The API server queues an event; a namespace is created only while it does
\* not exist and deleted only while it does.
LEMMA EventPreserves ==
  ASSUME Inv, NEW ns \in NS, NEW e \in Events, NEW b \in BOOLEAN,
         UNCHANGED <<namespaces, nsOf, infos, owner, pc, cur, job>>,
         nsQueue' = [nsQueue EXCEPT ![ns] = Append(@, e)],
         lister' = [lister EXCEPT ![ns] = b],
         e.op = "add" => ~lister[ns] /\ b,
         ~b => e.op = "delete"
  PROVE  Inv'
<1> USE DEF Inv
<1>1. nsQueue' \in [NS -> Seq(Events)]  BY AppendOps
<1>2. PICK last \in Nat :
        /\ \A op : \A k \in Nat : IsOp(ns, k, op) => k < last
        /\ \A op : \A k \in Nat : IsOp(ns, k, op)' <=> (IsOp(ns, k, op) \/ (k = last /\ e.op = op))
  BY AppendOps
<1>3. \A n \in NS \ {ns} : \A op : \A k \in Nat : IsOp(n, k, op)' <=> IsOp(n, k, op)
  BY AppendOps
<1>4. LockTypes'
  BY <1>1 DEF LockTypes
<1>5. OwnsWhatItHolds' /\ HoldsCurrent' /\ LooksAtSomething' /\ FreshInfos' /\ NamedInfos' /\ OwnEntry'
  BY DEF OwnsWhatItHolds, HoldsCurrent, LooksAtSomething, FreshInfos, NamedInfos, OwnEntry,
         Inside, Holding, Target
<1>6. \A n \in NS : Known(n)' <=> Known(n)
  BY DEF Known, Deleting
<1>7. lister'[ns] = b /\ \A n \in NS \ {ns} : lister'[n] = lister[n]
  BY DEF LockTypes
<1>8. AddsAreSeparated'
  <2> SUFFICES ASSUME NEW n \in NS, NEW k \in Nat, IsOp(n, k, "add")'
        PROVE  /\ \A j \in Nat : (j < k /\ IsOp(n, j, "add")')
                     => \E m \in Nat : j < m /\ m < k /\ IsOp(n, m, "delete")'
               /\ Known(n)' => \E m \in Nat : m < k /\ IsOp(n, m, "delete")'
    BY DEF AddsAreSeparated
  <2>1. CASE n # ns
    BY <1>3, <1>6, <2>1 DEF AddsAreSeparated
  <2>2. CASE n = ns /\ IsOp(ns, k, "add")
    <3>1. k < last  BY <1>2, <2>2
    <3>2. \A j \in Nat : (j < k /\ IsOp(ns, j, "add")') => IsOp(ns, j, "add")
      BY <1>2, <3>1
    <3>3. \A j \in Nat : (j < k /\ IsOp(ns, j, "add"))
             => \E m \in Nat : j < m /\ m < k /\ IsOp(ns, m, "delete")
      BY <2>2 DEF AddsAreSeparated
    <3>4. Known(ns) => \E m \in Nat : m < k /\ IsOp(ns, m, "delete")
      BY <2>2 DEF AddsAreSeparated
    <3>5. \A m \in Nat : IsOp(ns, m, "delete") => IsOp(ns, m, "delete")'
      BY <1>2
    <3> QED  BY <1>6, <2>2, <3>2, <3>3, <3>4, <3>5
  <2>3. CASE n = ns /\ ~IsOp(ns, k, "add")
    <3>1. k = last /\ e.op = "add" /\ ~lister[ns]  BY <1>2, <2>3
    <3>2. \A j \in Nat : (j < k /\ IsOp(ns, j, "add")') => IsOp(ns, j, "add")
      BY <1>2, <3>1
    <3>3. \A m \in Nat : IsOp(ns, m, "delete") => m < k /\ IsOp(ns, m, "delete")'
      BY <1>2, <3>1
    <3>4. /\ \A j \in Nat : IsOp(ns, j, "add") => \E m \in Nat : j < m /\ IsOp(ns, m, "delete")
          /\ Known(ns) => \E m \in Nat : IsOp(ns, m, "delete")
      BY <3>1 DEF GoneIsQueued
    <3> QED  BY <1>6, <2>3, <3>2, <3>3, <3>4
  <2> QED  BY <2>1, <2>2, <2>3
<1>9. GoneIsQueued'
  <2> SUFFICES ASSUME NEW n \in NS, ~lister'[n]
        PROVE  /\ \A j \in Nat : IsOp(n, j, "add")' => \E m \in Nat : j < m /\ IsOp(n, m, "delete")'
               /\ Known(n)' => \E m \in Nat : IsOp(n, m, "delete")'
    BY DEF GoneIsQueued
  <2>1. CASE n # ns
    BY <1>3, <1>6, <1>7, <2>1 DEF GoneIsQueued
  <2>2. CASE n = ns
    <3>1. e.op = "delete"  BY <1>7, <2>2
    <3>2. IsOp(ns, last, "delete")'  BY <1>2, <3>1
    <3>3. \A j \in Nat : IsOp(ns, j, "add")' => j < last  BY <1>2, <3>1
    <3> QED  BY <2>2, <3>2, <3>3
  <2> QED  BY <2>1, <2>2
<1> QED  BY <1>4, <1>5, <1>8, <1>9

LEMMA StutterPreserves ==
  ASSUME Inv, UNCHANGED <<namespaces, nsOf, infos, nsQueue, lister, owner, pc, cur, job>>
  PROVE  Inv'
<1>1. \A ns \in NS : Known(ns)' => Known(ns)
  BY DEF Known, Deleting
<1>2. LockTypes' /\ OwnsWhatItHolds' /\ HoldsCurrent' /\ LooksAtSomething'
  BY DEF Inv, LockTypes, OwnsWhatItHolds, HoldsCurrent, LooksAtSomething, Inside, Holding, Target
<1>3. FreshInfos' /\ NamedInfos' /\ OwnEntry'
  BY DEF Inv, FreshInfos, NamedInfos, OwnEntry
<1> QED  BY <1>1, <1>2, <1>3, QueuesPreserved DEF Inv

-----------------------------------------------------------------------------
LEMMA InitInv == Init => Inv
<1> SUFFICES ASSUME Init PROVE Inv
  OBVIOUS
<1>1. NS \subseteq Workers /\ Infos \subseteq Workers /\ None \notin Infos
  BY DisjointAssumption DEF Workers, Infos
<1>2. LockTypes
  <2>1. \A ns \in NS : nsQueue[ns] \in Seq(Events)
    <3> SUFFICES ASSUME NEW ns \in NS PROVE nsQueue[ns] \in Seq(Events)
      OBVIOUS
    <3>1. annotated[ns] \in BOOLEAN  BY DEF Init
    <3>2. Event("add", annotated[ns]) \in Events  BY <3>1, EventTypes
    <3> QED  BY <3>2 DEF Init
  <2>2. nsQueue \in [NS -> Seq(Events)]  BY <2>1 DEF Init
  <2>3. job \in [Workers -> Events]  BY EventTypes DEF Init, NoJob
  <2> QED  BY <2>2, <2>3, BoundsAssumption DEF Init, LockTypes, Labels
<1>3. \A w \in Workers : pc[w] = "idle" /\ cur[w] = None
  BY DEF Init
<1>4. OwnsWhatItHolds /\ HoldsCurrent /\ LooksAtSomething /\ OwnEntry
  BY <1>1, <1>3 DEF OwnsWhatItHolds, HoldsCurrent, LooksAtSomething, OwnEntry, Inside, Holding
<1>5. FreshInfos
  BY <1>1, <1>3 DEF Init, FreshInfos
<1>6. NamedInfos
  BY BoundsAssumption DEF Init, NamedInfos, Infos
<1>7. \A ns \in NS : ~Known(ns)
  BY DEF Init, Known
<1>8. \A op : \A ns \in NS, k \in Nat : IsOp(ns, k, op) => k = 1 /\ lister[ns]
  <2> SUFFICES ASSUME NEW ns \in NS, NEW k \in Nat, k \in DOMAIN nsQueue[ns]
               PROVE  k = 1 /\ lister[ns]
    BY DEF IsOp
  <2>1. nsQueue[ns] = IF lister[ns] THEN <<Event("add", annotated[ns])>> ELSE <<>>
    BY DEF Init
  <2> QED  BY <2>1
<1>9. AddsAreSeparated
  BY <1>7, <1>8 DEF AddsAreSeparated
<1>10. GoneIsQueued
  BY <1>7, <1>8 DEF GoneIsQueued
<1> QED  BY <1>2, <1>4, <1>5, <1>6, <1>9, <1>10 DEF Inv

\* A handler ends: Finish, with or without the unlock.
LEMMA FinishPreserves ==
  ASSUME Inv, NEW w \in Workers, NEW ok, Finish(w, ok),
         UNCHANGED <<namespaces, nsOf, infos, nsQueue, lister>>,
         owner' = owner \/ (Inside(w) /\ Unlock(w)),
         pc[w] # "idle",
         w \in NS => ~Deleting(w)
  PROVE  Inv'
<1>1. /\ pc' = [pc EXCEPT ![w] = "idle"]
      /\ job' = [job EXCEPT ![w] = NoJob]
      /\ cur' = [cur EXCEPT ![w] = None]
  BY DEF Finish, Goto
<1>2. NoJob \in Events  BY EventTypes DEF NoJob
<1>3. OnlyWorker(w)
  BY <1>1, <1>2 DEF OnlyWorker, Inv, LockTypes
<1>4. owner' = owner \/ (Inside(w) /\ owner' = [owner EXCEPT ![cur[w]] = None])
  BY DEF Unlock
<1>5. "idle" # "destroy"  OBVIOUS
<1> QED  BY <1>1, <1>3, <1>4, <1>5, LeavePreserves

\* getNamespaceLocked returns nil.
LEMMA NilInfoPreserves ==
  ASSUME Inv, NEW w \in Workers, NilInfo(w),
         UNCHANGED <<namespaces, nsOf, infos, nsQueue, lister>>,
         owner' = owner \/ (Inside(w) /\ Unlock(w)),
         pc[w] # "idle",
         w \in NS => namespaces[w] = None \/ ~Deleting(w)
  PROVE  Inv'
<1>1. PICK l \in {"idle", "lookup", "destroy"} : pc' = [pc EXCEPT ![w] = l]
  BY DEF NilInfo, Goto
<1>2. /\ cur' = [cur EXCEPT ![w] = None]
      /\ job' = job \/ job' = [job EXCEPT ![w] = NoJob]
  BY DEF NilInfo
<1>3. NoJob \in Events  BY EventTypes DEF NoJob
<1>4. OnlyWorker(w)
  BY <1>2, <1>3 DEF OnlyWorker, Inv, LockTypes
<1>5. owner' = owner \/ (Inside(w) /\ owner' = [owner EXCEPT ![cur[w]] = None])
  BY DEF Unlock
<1>6. cur'[w] = None  BY <1>2 DEF Inv, LockTypes
<1> QED  BY <1>1, <1>2, <1>4, <1>5, <1>6, LeavePreserves

\* The steps of getNamespaceLocked and of its waiting form.
LEMMA LockingPreserves ==
  ASSUME Inv, NEW w \in Workers, Locking(w) \/ WaitTimeout(w)
  PROVE  Inv'
<1> USE DEF apiVars, qVars, ctrlVars
<1>1. CASE Lookup(w) /\ namespaces[Target(w)] = None
  <2>1. /\ UNCHANGED <<namespaces, nsOf, infos, nsQueue, lister, owner>>
        /\ pc[w] = "lookup" /\ NilInfo(w)
    BY <1>1 DEF Lookup
  <2>2. w \in NS => namespaces[w] = None  BY <1>1 DEF Target
  <2> QED  BY <2>1, <2>2, NilInfoPreserves
<1>2. CASE Lookup(w) /\ namespaces[Target(w)] # None
  <2>1. /\ UNCHANGED <<namespaces, nsOf, infos, nsQueue, lister, owner, job>>
        /\ pc[w] = "lookup" /\ pc' = [pc EXCEPT ![w] = "lock"]
        /\ cur' = [cur EXCEPT ![w] = namespaces[Target(w)]]
    BY <1>2 DEF Lookup, Goto
  <2>2. Target(w) \in NS  BY <2>1, TargetIsNamespace
  <2> QED  BY <1>2, <2>1, <2>2, LookupPreserves
<1>3. CASE Lock(w)
  BY <1>3, LockPreserves
<1>4. CASE RecheckStale(w)
  <2>1. /\ UNCHANGED <<namespaces, nsOf, infos, nsQueue, lister>>
        /\ pc[w] = "recheck" /\ NilInfo(w) /\ Unlock(w)
        /\ namespaces[Target(w)] # cur[w]
    BY <1>4 DEF RecheckStale, Stale
  <2>2. Inside(w)  BY <2>1 DEF Inside
  <2>3. w \notin NS  BY <2>1 DEF Inv, OwnEntry, Target
  <2> QED  BY <2>1, <2>2, <2>3, NilInfoPreserves
<1>5. CASE RecheckOK(w)
  <2>1. /\ UNCHANGED <<namespaces, nsOf, infos, nsQueue, lister, owner, cur, job>>
        /\ pc[w] = "recheck" /\ pc' = [pc EXCEPT ![w] = AfterLock(w)]
        /\ namespaces[Target(w)] = cur[w]
        /\ ~(w \in NS /\ job[w].op = "delete")
    BY <1>5 DEF RecheckOK, Stale, Goto
  <2>2. AfterLock(w) \in {"list", "find", "write", "add", "remove", "multicast", "skip", "destroy"}
    BY DEF AfterLock
  <2>3. Inside(w) /\ (w \in NS => ~Deleting(w))
    BY <2>1 DEF Inside, Deleting
  <2> QED  BY <2>1, <2>2, <2>3, StayPreserves
<1>6. CASE WaitTimeout(w)
  <2>1. /\ UNCHANGED <<namespaces, nsOf, infos, nsQueue, lister, owner>>
        /\ pc[w] = "lookup" /\ Finish(w, FALSE) /\ Waits(w)
    BY <1>6 DEF WaitTimeout
  <2>2. w \notin NS  BY <2>1, DisjointAssumption DEF Waits
  <2> QED  BY <2>1, <2>2, FinishPreserves
<1> QED  BY <1>1, <1>2, <1>3, <1>4, <1>5, <1>6 DEF Locking

\* The steps of createNamespaceAddrSetAllPods.
LEMMA CreatingPreserves ==
  ASSUME Inv, NEW w \in Workers, Creating(w)
  PROVE  Inv'
<1> USE DEF apiVars, qVars, ctrlVars
<1>1. pc[w] \in {"list", "find", "write"}
  BY DEF Creating, ListPods, FindSet, WriteSet
<1>2. /\ Holding(w) /\ Inside(w) /\ namespaces[Target(w)] = cur[w] /\ pc[w] # "idle"
      /\ ~Deleting(w)
  BY <1>1 DEF Holding, Inside, Inv, HoldsCurrent, Deleting
<1>3. UNCHANGED <<namespaces, nsOf, infos, nsQueue, lister>>
  BY DEF Creating, ListPods, FindSet, WriteSet
<1>4. \/ /\ UNCHANGED <<owner, cur, job>>
         /\ \E l \in {"find", "write", "multicast", "add"} : pc' = [pc EXCEPT ![w] = l]
      \/ CreateFailed(w)
  BY DEF Creating, ListPods, FindSet, WriteSet, Goto
<1>5. CASE /\ UNCHANGED <<owner, cur, job>>
           /\ \E l \in {"find", "write", "multicast", "add"} : pc' = [pc EXCEPT ![w] = l]
  BY <1>2, <1>3, <1>5, StayPreserves
<1>6. CASE CreateFailed(w) /\ w \in NS
  <2>1. UNCHANGED <<owner, cur, job>> /\ pc' = [pc EXCEPT ![w] = "multicast"]
    BY <1>6 DEF CreateFailed, Goto
  <2> QED  BY <1>2, <1>3, <2>1, StayPreserves
<1>7. CASE CreateFailed(w) /\ w \notin NS
  <2>1. Unlock(w) /\ Finish(w, FALSE)
    BY <1>7 DEF CreateFailed
  <2> QED  BY <1>2, <1>3, <2>1, FinishPreserves
<1> QED  BY <1>4, <1>5, <1>6, <1>7

\* The API server's steps.
LEMMA APIPreserves ==
  ASSUME Inv, API
  PROVE  Inv'
<1> USE DEF ctrlVars, thrVars
<1>1. ASSUME NEW ns \in NS, CreateNS(ns)  PROVE Inv'
  <2>1. PICK on \in BOOLEAN : nsQueue' = [nsQueue EXCEPT ![ns] = Append(@, Event("add", on))]
    BY <1>1 DEF CreateNS
  <2>2. /\ ~lister[ns] /\ lister' = [lister EXCEPT ![ns] = TRUE]
        /\ UNCHANGED <<namespaces, nsOf, infos, owner, pc, cur, job>>
    BY <1>1 DEF CreateNS
  <2>3. Event("add", on) \in Events /\ Event("add", on).op = "add"
    BY EventTypes DEF Event
  <2> QED  BY <2>1, <2>2, <2>3, EventPreserves
<1>2. ASSUME NEW ns \in NS, UpdateNS(ns)  PROVE Inv'
  <2> DEFINE e == Event("update", ~annotated[ns])
  <2>1. /\ lister[ns] /\ lister' = lister
        /\ nsQueue' = [nsQueue EXCEPT ![ns] = Append(@, e)]
        /\ UNCHANGED <<namespaces, nsOf, infos, owner, pc, cur, job>>
    BY <1>2 DEF UpdateNS
  <2>2. e \in Events /\ e.op = "update"
    BY EventTypes DEF Event
  <2>3. lister' = [lister EXCEPT ![ns] = TRUE]
    BY <2>1 DEF Inv, LockTypes
  <2> HIDE DEF e
  <2> QED  BY <2>1, <2>2, <2>3, EventPreserves
<1>3. ASSUME NEW ns \in NS, DeleteNS(ns)  PROVE Inv'
  <2> DEFINE e == Event("delete", FALSE)
  <2>1. /\ nsQueue' = [nsQueue EXCEPT ![ns] = Append(@, e)]
        /\ lister' = [lister EXCEPT ![ns] = FALSE]
        /\ UNCHANGED <<namespaces, nsOf, infos, owner, pc, cur, job>>
    BY <1>3 DEF DeleteNS
  <2>2. e \in Events /\ e.op = "delete"
    BY EventTypes DEF Event
  <2> HIDE DEF e
  <2> QED  BY <2>1, <2>2, EventPreserves
<1>4. ASSUME NEW p \in Pods, CreatePod(p) \/ PodGetsIP(p) \/ DeletePod(p)  PROVE Inv'
  <2>1. UNCHANGED <<namespaces, nsOf, infos, nsQueue, lister, owner, pc, cur, job>>
    BY <1>4 DEF CreatePod, PodGetsIP, DeletePod, qVars
  <2> QED  BY <2>1, StutterPreserves
<1> QED  BY <1>1, <1>2, <1>3, <1>4 DEF API

\* A pod or node handler starts, or the destroyer wakes up.
LEMMA StartPreserves ==
  ASSUME Inv, NEW w \in Workers, w \notin NS,
         \/ w \in Pods /\ (StartPodAdd(w) \/ StartPodDelete(w))
         \/ w \in Nodes /\ StartNode(w)
         \/ w \in Infos /\ DestroyTimer(w)
  PROVE  Inv'
<1> USE DEF apiVars, qVars, ctrlVars
<1>1. UNCHANGED <<namespaces, nsOf, infos, nsQueue, lister, owner, cur>>
  BY DEF StartPodAdd, StartPodDelete, StartNode, DestroyTimer
<1>2. PICK l \in {"idle", "lookup"} : pc' = [pc EXCEPT ![w] = l]
  BY DEF StartPodAdd, StartPodDelete, StartNode, DestroyTimer, Goto
<1>3. job' = job \/ \E op \in {"add", "delete"} : job' = [job EXCEPT ![w] = Event(op, FALSE)]
  BY DEF StartPodAdd, StartPodDelete, StartNode, DestroyTimer
<1>4. OnlyWorker(w)
  <2>1. job' = job \/ \E e \in Events : job' = [job EXCEPT ![w] = e]
    BY <1>3, EventTypes
  <2>2. job \in [Workers -> Events]  BY DEF Inv, LockTypes
  <2>3. job' \in [Workers -> Events] /\ \A v \in Workers \ {w} : job'[v] = job[v]
    BY <2>1, <2>2
  <2> QED  BY <1>1, <2>3 DEF OnlyWorker
<1>5. w \in Infos => pc[w] # "idle"
  BY DisjointAssumption DEF Infos, DestroyTimer
<1> QED  BY <1>1, <1>2, <1>4, <1>5, LeavePreserves

\* The last step of every handler and of the destroyer.
LEMMA EndPreserves ==
  ASSUME Inv, NEW w \in Workers,
         \/ w \in NS /\ (Cleanup(w) \/ multicastUpdateNamespace(w))
         \/ w \in Infos /\ (SkipDestroy(w) \/ Destroy(w))
         \/ AddIPs(w)
         \/ RemoveIPs(w)
  PROVE  Inv'
<1> USE DEF apiVars
<1>1. \E ok : Finish(w, ok)
  BY DEF Cleanup, multicastUpdateNamespace, SkipDestroy, Destroy, AddIPs, RemoveIPs
<1>2. UNCHANGED <<namespaces, nsOf, infos, nsQueue, lister>>
  BY DEF Cleanup, multicastUpdateNamespace, SkipDestroy, Destroy, AddIPs, RemoveIPs
<1>3. \/ pc[w] \in {"cleanup", "multicast", "skip", "add", "remove"} /\ Unlock(w)
      \/ pc[w] = "destroy" /\ cur[w] = None /\ owner' = owner
      \/ pc[w] = "destroy" /\ cur[w] # None /\ Unlock(w)
  BY DEF Cleanup, multicastUpdateNamespace, SkipDestroy, Destroy, AddIPs, RemoveIPs
<1>4. owner' = owner \/ (Inside(w) /\ Unlock(w))
  BY <1>3 DEF Inside, Holding
<1>5. pc[w] # "idle" /\ ~Deleting(w)
  BY <1>3 DEF Deleting
<1> QED  BY <1>1, <1>2, <1>4, <1>5, FinishPreserves

LEMMA NextInv == Inv /\ [Next]_vars => Inv'
<1> SUFFICES ASSUME Inv, [Next]_vars PROVE Inv'
  OBVIOUS
<1>1. NS \subseteq Workers /\ Pods \subseteq Workers /\ Nodes \subseteq Workers /\ Infos \subseteq Workers
  BY DEF Workers
<1>2. \A w \in Pods \cup Nodes \cup Infos : w \notin NS
  BY DisjointAssumption DEF Infos
<1>3. CASE API
  BY <1>3, APIPreserves
<1>4. ASSUME NEW ns \in NS, NSStep(ns)  PROVE Inv'
  BY <1>1, <1>4, StartNSPreserves, CreatePreserves, LockingPreserves, CreatingPreserves,
     DeletePreserves, EndPreserves DEF NSStep
<1>5. ASSUME NEW p \in Pods, PodStep(p)  PROVE Inv'
  BY <1>1, <1>2, <1>5, StartPreserves, LockingPreserves, CreatingPreserves, EndPreserves
     DEF PodStep
<1>6. ASSUME NEW n \in Nodes, NodeStep(n)  PROVE Inv'
  BY <1>1, <1>2, <1>6, StartPreserves, LockingPreserves, CreatingPreserves, EndPreserves
     DEF NodeStep
<1>7. ASSUME NEW i \in Infos, DestroyerStep(i)  PROVE Inv'
  BY <1>1, <1>2, <1>7, StartPreserves, LockingPreserves, EndPreserves DEF DestroyerStep
<1>8. ASSUME NEW w \in Pods \cup Nodes, WaitTimeout(w)  PROVE Inv'
  BY <1>1, <1>8, LockingPreserves
<1>9. ASSUME NEW ns \in NS, Panic(ns)  PROVE Inv'
  <2>1. UNCHANGED <<namespaces, nsOf, infos, nsQueue, lister, owner, pc, cur, job>>
    BY <1>9 DEF Panic, apiVars, qVars, ctrlVars, thrVars
  <2> QED  BY <2>1, StutterPreserves
<1>10. CASE UNCHANGED vars
  <2>1. UNCHANGED <<namespaces, nsOf, infos, nsQueue, lister, owner, pc, cur, job>>
    BY <1>10 DEF vars, apiVars, qVars, ctrlVars, thrVars
  <2> QED  BY <2>1, StutterPreserves
<1> QED  BY <1>3, <1>4, <1>5, <1>6, <1>7, <1>8, <1>9, <1>10 DEF Next, Step

\* getNamespaceLocked and waitForNamespaceLocked keep their promise: whoever
\* got a namespaceInfo holds its mutex, and the object is the namespace's
\* current one until the mutex is released.
THEOREM LockProtocol == Spec => []LockedInfoIsCurrent
<1>1. Inv => LockedInfoIsCurrent
  BY DEF Inv, OwnsWhatItHolds, HoldsCurrent, LockedInfoIsCurrent, Inside
<1> QED  BY <1>1, InitInv, NextInv, PTL DEF Spec

-----------------------------------------------------------------------------
(* The address sets: what the lock protocol is for. *)

SetTypes ==
  /\ addressSet \in [Infos -> Rows]
  /\ sets \in [NS -> Rows]
  /\ listed \in [Workers -> SUBSET IPs]
  /\ found \in [Workers -> Nat \cup {None}]
  /\ uuids \in Nat

EntryIsNamed == \A ns \in NS : namespaces[ns] # None => nsOf[namespaces[ns]] = ns

FreshSets == \A i \in Infos : i > infos => addressSet[i] = None

\* The labels of createNamespaceAddrSetAllPods.
AtCreation(w) == pc[w] \in {"list", "find", "write"}

\* A set is created for a namespaceInfo that has none, and addresses are added
\* to one that has.
CreatesMissing == \A w \in Workers : AtCreation(w) => addressSet[cur[w]] = None
AddsToSet == \A w \in Workers : pc[w] = "add" => addressSet[cur[w]] # None

SetInv ==
  /\ SetTypes
  /\ EntryIsNamed
  /\ FreshSets
  /\ CreatesMissing
  /\ AddsToSet
  /\ CacheMatchesOVN

LEMMA RowTypes ==
  /\ \A u \in Nat, s \in SUBSET IPs : SetRec(u, s) \in Rows /\ SetRec(u, s) # None
  /\ \A r \in Rows : r # None =>
       /\ r.uuid \in Nat /\ r.ips \in SUBSET IPs
       /\ \A s \in SUBSET IPs : [r EXCEPT !.ips = s] \in Rows \ {None}
  BY RowsAssumption DEF Rows, SetRec, IPs

\* The mutex of a namespaceInfo keeps everybody else out.
LEMMA Exclusive ==
  ASSUME Inv, NEW v \in Workers, NEW w \in Workers, v # w, Inside(v), Inside(w)
  PROVE  cur[v] # cur[w]
BY DEF Inv, OwnsWhatItHolds

\* Only worker w moves, and perhaps a destroyer is started.
OthersStay(w) ==
  \A v \in Workers \ {w} : /\ pc'[v] = pc[v] \/ pc'[v] = "sleep"
                           /\ cur'[v] = cur[v] /\ found'[v] = found[v]

\* A step of w that touches no address set.
LEMMA NoSetStep ==
  ASSUME Inv, SetInv, NEW w \in Workers, OthersStay(w),
         UNCHANGED <<namespaces, nsOf, infos, addressSet, sets, uuids>>,
         listed' \in [Workers -> SUBSET IPs],
         found' \in [Workers -> Nat \cup {None}],
         AtCreation(w)' => addressSet[cur'[w]] = None,
         pc'[w] = "add" => addressSet[cur'[w]] # None
  PROVE  SetInv'
<1>1. SetTypes' /\ EntryIsNamed' /\ FreshSets' /\ CacheMatchesOVN'
  BY DEF SetInv, SetTypes, EntryIsNamed, FreshSets, CacheMatchesOVN
<1>2. CreatesMissing'
  BY DEF SetInv, CreatesMissing, AtCreation, OthersStay
<1>3. AddsToSet'
  BY DEF SetInv, AddsToSet, OthersStay
<1> QED  BY <1>1, <1>2, <1>3 DEF SetInv

\* A worker with the lock writes the row and the cache of its namespaceInfo,
\* and leaves.
LEMMA WriteRowStep ==
  ASSUME Inv, SetInv, NEW w \in Workers, OthersStay(w),
         UNCHANGED <<nsOf, infos, uuids, listed, found>>,
         pc'[w] \notin {"list", "find", "write", "add"},
         Inside(w), namespaces[Target(w)] = cur[w], Target(w) \in NS,
         namespaces' = namespaces \/ namespaces' = [namespaces EXCEPT ![Target(w)] = None],
         NEW add \in SUBSET IPs, NEW del, NEW done \in BOOLEAN,
         WriteRow(cur[w], add, del, done),
         done => addressSet[cur[w]] # None /\ RowExists(Target(w), addressSet[cur[w]].uuid)
  PROVE  SetInv'
<1> DEFINE i == cur[w]
           ns == Target(w)
<1>1. i \in Infos /\ i # None /\ nsOf[i] = ns
  BY DisjointAssumption DEF Inv, OwnsWhatItHolds, SetInv, EntryIsNamed, Infos
<1>2. CASE ~done
  <2>1. UNCHANGED <<sets, addressSet>>
    BY <1>2 DEF WriteRow
  <2>2. SetTypes' /\ FreshSets'
    BY <2>1 DEF SetInv, SetTypes, FreshSets
  <2>3. EntryIsNamed' /\ CacheMatchesOVN'
    BY <2>1 DEF SetInv, EntryIsNamed, CacheMatchesOVN, Inv, LockTypes
  <2>4. CreatesMissing' /\ AddsToSet'
    BY <2>1 DEF SetInv, CreatesMissing, AddsToSet, AtCreation, OthersStay
  <2> QED  BY <2>2, <2>3, <2>4 DEF SetInv
<1>3. CASE done
  <2>1. /\ addressSet[i] # None /\ sets[ns] = addressSet[i] /\ sets[ns] # None
    BY <1>1, <1>3 DEF RowExists, SetInv, CacheMatchesOVN
  <2> DEFINE ips == (sets[ns].ips \ del) \cup add
  <2>2. /\ sets' = [sets EXCEPT ![ns] = [sets[ns] EXCEPT !.ips = ips]]
        /\ addressSet' = [addressSet EXCEPT ![i] = [sets[ns] EXCEPT !.ips = ips]]
    BY <1>1, <1>3, <2>1 DEF WriteRow
  <2>3. ips \in SUBSET IPs /\ [sets[ns] EXCEPT !.ips = ips] \in Rows \ {None}
    <3>1. sets[ns] \in Rows  BY DEF SetInv, SetTypes
    <3>2. ips \in SUBSET IPs  BY <2>1, <3>1, RowTypes
    <3> QED  BY <2>1, <3>1, <3>2, RowTypes
  <2> DEFINE new == [sets[ns] EXCEPT !.ips = ips]
  <2> HIDE DEF new
  <2>4. /\ sets' = [sets EXCEPT ![ns] = new] /\ addressSet' = [addressSet EXCEPT ![i] = new]
        /\ new \in Rows /\ new # None
    BY <2>2, <2>3 DEF new
  <2>5. SetTypes'
    BY <1>1, <2>4 DEF SetInv, SetTypes
  <2>6. FreshSets'
    BY <1>1, <2>4 DEF SetInv, SetTypes, FreshSets, Inv, FreshInfos
  <2>7. EntryIsNamed'
    BY DEF SetInv, EntryIsNamed, Inv, LockTypes
  <2>8. CacheMatchesOVN'
    <3> SUFFICES ASSUME NEW n \in NS, namespaces'[n] # None, addressSet'[namespaces'[n]] # None,
                        sets'[n] # None
                 PROVE  sets'[n] = addressSet'[namespaces'[n]]
      BY DEF CacheMatchesOVN
    <3>1. namespaces'[n] = namespaces[n] /\ namespaces[n] \in Infos
      BY DEF Inv, LockTypes
    <3>2. n = ns \/ namespaces[n] # i
      BY <1>1, <3>1 DEF SetInv, EntryIsNamed
    <3>3. CASE n = ns
      BY <1>1, <2>4, <3>1, <3>3 DEF SetInv, SetTypes
    <3>4. CASE n # ns
      BY <2>4, <3>1, <3>2, <3>4 DEF SetInv, SetTypes, CacheMatchesOVN
    <3> QED  BY <3>3, <3>4
  <2>9. CreatesMissing' /\ AddsToSet'
    <3>1. ASSUME NEW v \in Workers, AtCreation(v)'  PROVE v # w /\ AtCreation(v) /\ cur'[v] = cur[v]
      BY <3>1 DEF AtCreation, OthersStay
    <3>2. ASSUME NEW v \in Workers, AtCreation(v), v # w  PROVE cur[v] # i
      BY <3>2, Exclusive DEF AtCreation, Inside, Holding
    <3>3. ASSUME NEW v \in Workers, pc'[v] = "add"  PROVE v # w /\ pc[v] = "add" /\ cur'[v] = cur[v]
      BY <3>3 DEF OthersStay
    <3>4. \A v \in Workers : AtCreation(v) \/ pc[v] = "add" => cur[v] \in Infos
      BY DEF AtCreation, Inv, OwnsWhatItHolds, Inside, Holding
    <3>5. CreatesMissing'
      BY <2>4, <3>1, <3>2, <3>4 DEF SetInv, SetTypes, CreatesMissing
    <3>6. AddsToSet'
      BY <2>4, <3>3, <3>4 DEF SetInv, SetTypes, AddsToSet
    <3> QED  BY <3>5, <3>6
  <2> QED  BY <2>5, <2>6, <2>7, <2>8, <2>9 DEF SetInv
<1> QED  BY <1>2, <1>3

\* createNamespaceAddrSetAllPods with the lock.
LEMMA CreatingSets ==
  ASSUME Inv, SetInv, NEW w \in Workers, Creating(w)
  PROVE  SetInv'
<1> USE DEF apiVars, qVars, ctrlVars, dbVars
<1> DEFINE i == cur[w]
           ns == Target(w)
<1>1. AtCreation(w) /\ Inside(w) /\ Holding(w)
  BY DEF AtCreation, Inside, Holding, Creating, ListPods, FindSet, WriteSet
<1>2. namespaces[ns] = i /\ i \in Infos /\ i # None /\ ns \in NS /\ addressSet[i] = None
  <2>1. w \in Infos => pc[w] # "idle"
    BY <1>1 DEF AtCreation
  <2> QED  BY <1>1, <2>1, TargetIsNamespace, DisjointAssumption
           DEF Inv, HoldsCurrent, OwnsWhatItHolds, SetInv, CreatesMissing, Infos
<1>3. ASSUME CreateFailed(w)  PROVE pc'[w] \in {"multicast", "idle"} /\ pc' = [pc EXCEPT ![w] = pc'[w]]
  BY <1>3 DEF CreateFailed, Finish, Goto, Inv, LockTypes
<1>4. ASSUME CreateFailed(w)  PROVE cur' = cur \/ cur' = [cur EXCEPT ![w] = None]
  BY <1>4 DEF CreateFailed, Finish
<1>5. CASE ListPods(w)
  <2>1. {p \in PodsIn(Target(w)) : phase[p] = "running"} \in SUBSET IPs
    BY DEF PodsIn, IPs
  <2>2. listed' \in [Workers -> SUBSET IPs] /\ UNCHANGED <<cur, found>>
    BY <1>5, <2>1 DEF ListPods, SetInv, SetTypes
  <2>3. pc' = [pc EXCEPT ![w] = "find"] /\ pc'[w] = "find"
    BY <1>5 DEF ListPods, Goto, Inv, LockTypes
  <2>4. OthersStay(w)
    BY <2>2, <2>3 DEF OthersStay, Inv, LockTypes
  <2>5. found' \in [Workers -> Nat \cup {None}]
    BY <2>2 DEF SetInv, SetTypes
  <2>6. UNCHANGED <<namespaces, nsOf, infos, addressSet, sets, uuids>>
    BY <1>5 DEF ListPods
  <2> QED  BY <1>2, <2>2, <2>3, <2>4, <2>5, <2>6, NoSetStep
<1>6. CASE FindSet(w)
  <2>1. UNCHANGED <<namespaces, nsOf, infos, addressSet, sets, uuids>>
    BY <1>6 DEF FindSet
  <2>2. CASE /\ found' = [found EXCEPT ![w] = IF sets[ns] = None THEN None ELSE sets[ns].uuid]
             /\ Goto(w, "write") /\ UNCHANGED <<cur, listed>>
    <3>1. found' \in [Workers -> Nat \cup {None}]
      <4>1. sets[ns] # None => sets[ns].uuid \in Nat
        BY <1>2, RowTypes DEF SetInv, SetTypes
      <4> QED  BY <2>2, <4>1 DEF SetInv, SetTypes
    <3>2. OthersStay(w) /\ pc'[w] = "write"
      BY <2>2 DEF OthersStay, Goto, Inv, LockTypes, SetInv, SetTypes
    <3>3. listed' \in [Workers -> SUBSET IPs]
      BY <2>2 DEF SetInv, SetTypes
    <3> QED  BY <1>2, <2>1, <2>2, <3>1, <3>2, <3>3, NoSetStep
  <2>3. CASE CreateFailed(w) /\ listed' = [listed EXCEPT ![w] = {}] /\ UNCHANGED found
    <3>1. OthersStay(w)
      BY <1>3, <1>4, <2>3 DEF OthersStay, Inv, LockTypes
    <3>2. listed' \in [Workers -> SUBSET IPs] /\ found' \in [Workers -> Nat \cup {None}]
      BY <2>3 DEF SetInv, SetTypes
    <3>3. ~AtCreation(w)' /\ pc'[w] # "add"
      BY <1>3, <2>3 DEF AtCreation
    <3> QED  BY <2>1, <3>1, <3>2, <3>3, NoSetStep
  <2> QED  BY <1>6, <2>2, <2>3 DEF FindSet
<1>7. CASE WriteSet(w)
  <2> DEFINE u == RowUUID(w)
             new == SetRec(u, listed[w])
  <2>1. /\ UNCHANGED <<namespaces, nsOf, infos>>
        /\ listed' = [listed EXCEPT ![w] = {}] /\ found' = [found EXCEPT ![w] = None]
    BY <1>7 DEF WriteSet
  <2>2. listed' \in [Workers -> SUBSET IPs] /\ found' \in [Workers -> Nat \cup {None}]
    BY <2>1 DEF SetInv, SetTypes
  <2>3. CASE CreateFailed(w) /\ UNCHANGED <<sets, uuids, addressSet>>
    <3>1. OthersStay(w)
      BY <1>3, <1>4, <2>1, <2>3 DEF OthersStay, Inv, LockTypes, SetInv, SetTypes
    <3>3. ~AtCreation(w)' /\ pc'[w] # "add"
      BY <1>3, <2>3 DEF AtCreation
    <3> QED  BY <2>1, <2>2, <2>3, <3>1, <3>3, NoSetStep
  <2>4. CASE /\ sets' = [sets EXCEPT ![ns] = new]
             /\ uuids' = IF found[w] = None THEN u ELSE uuids
             /\ addressSet' = [addressSet EXCEPT ![i] = new]
             /\ Goto(w, IF w \in NS THEN "multicast" ELSE "add")
             /\ UNCHANGED cur
    <3>1. u \in Nat /\ new \in Rows /\ new # None
      BY RowTypes DEF RowUUID, SetInv, SetTypes
    <3> HIDE DEF new, u
    <3>2. SetTypes'
      BY <1>2, <2>2, <2>4, <3>1 DEF SetInv, SetTypes
    <3>3. EntryIsNamed' /\ FreshSets'
      BY <1>2, <2>1, <2>4 DEF SetInv, EntryIsNamed, FreshSets, SetTypes, Inv, FreshInfos
    <3>4. CacheMatchesOVN'
      <4> SUFFICES ASSUME NEW n \in NS, namespaces'[n] # None, addressSet'[namespaces'[n]] # None,
                          sets'[n] # None
                   PROVE  sets'[n] = addressSet'[namespaces'[n]]
        BY DEF CacheMatchesOVN
      <4>1. namespaces'[n] = namespaces[n] /\ namespaces[n] \in Infos
        BY <2>1 DEF Inv, LockTypes
      <4>2. n = ns \/ namespaces[n] # i
        BY <1>2, <4>1 DEF SetInv, EntryIsNamed
      <4>3. CASE n = ns
        BY <1>2, <2>4, <4>1, <4>3 DEF SetInv, SetTypes
      <4>4. CASE n # ns
        BY <2>4, <4>1, <4>2, <4>4 DEF SetInv, SetTypes, CacheMatchesOVN
      <4> QED  BY <4>3, <4>4
    <3>5. pc'[w] \in {"multicast", "add"} /\ \A v \in Workers \ {w} : pc'[v] = pc[v]
      BY <2>4 DEF Goto, Inv, LockTypes
    <3>6. CreatesMissing'
      <4> SUFFICES ASSUME NEW v \in Workers, AtCreation(v)'  PROVE addressSet'[cur'[v]] = None
        BY DEF CreatesMissing
      <4>1. v # w /\ AtCreation(v) /\ cur'[v] = cur[v]
        BY <2>4, <3>5 DEF AtCreation
      <4>2. cur[v] # i /\ cur[v] \in Infos
        BY <1>1, <4>1, Exclusive DEF AtCreation, Inside, Holding, Inv, OwnsWhatItHolds
      <4> QED  BY <2>4, <4>1, <4>2 DEF SetInv, SetTypes, CreatesMissing
    <3>7. AddsToSet'
      <4> SUFFICES ASSUME NEW v \in Workers, pc'[v] = "add"  PROVE addressSet'[cur'[v]] # None
        BY DEF AddsToSet
      <4>1. CASE v = w
        BY <1>2, <2>4, <3>1, <4>1 DEF SetInv, SetTypes
      <4>2. CASE v # w
        <5>1. pc[v] = "add" /\ cur'[v] = cur[v] /\ cur[v] \in Infos
          BY <2>4, <3>5, <4>2 DEF Inside, Holding, Inv, OwnsWhatItHolds
        <5> QED  BY <2>4, <3>1, <5>1 DEF SetInv, SetTypes, AddsToSet
      <4> QED  BY <4>1, <4>2
    <3> QED  BY <3>2, <3>3, <3>4, <3>6, <3>7 DEF SetInv
  <2> QED  BY <1>7, <2>3, <2>4 DEF WriteSet
<1> QED  BY <1>5, <1>6, <1>7 DEF Creating

\* The steps that take and leave the lock, and those that only concern the
\* port group, do not touch the sets.
LEMMA NoSetSteps ==
  ASSUME Inv, SetInv, NEW w \in Workers,
         \/ Locking(w) \/ WaitTimeout(w)
         \/ StartNS(w) \/ StartPodAdd(w) \/ StartPodDelete(w) \/ StartNode(w) \/ DestroyTimer(w)
         \/ Cleanup(w) \/ multicastUpdateNamespace(w) \/ SkipDestroy(w)
  PROVE  SetInv'
<1> USE DEF apiVars, qVars, ctrlVars, dbVars
<1>1. UNCHANGED <<namespaces, nsOf, infos, addressSet, sets, uuids, listed, found>>
  BY DEF Locking, Lookup, Lock, RecheckStale, RecheckOK, WaitTimeout, StartNS, StartPodAdd,
         StartPodDelete, StartNode, DestroyTimer, Cleanup, multicastUpdateNamespace, SkipDestroy
<1>2. cur' = cur \/ \E c : cur' = [cur EXCEPT ![w] = c]
  BY DEF Locking, Lookup, Lock, RecheckStale, RecheckOK, WaitTimeout, StartNS, StartPodAdd,
         StartPodDelete, StartNode, DestroyTimer, Cleanup, multicastUpdateNamespace, SkipDestroy,
         NilInfo, Finish
<1>3. \/ RecheckOK(w)
      \/ \E l \in {"idle", "lookup", "lock", "recheck", "destroy"} : pc' = [pc EXCEPT ![w] = l]
  BY DEF Locking, Lookup, Lock, RecheckStale, WaitTimeout, StartNS, StartPodAdd,
         StartPodDelete, StartNode, DestroyTimer, Cleanup, multicastUpdateNamespace, SkipDestroy,
         NilInfo, Finish, Goto
<1>4. \E l : pc' = [pc EXCEPT ![w] = l]
  BY <1>3 DEF RecheckOK, Goto
<1>5. OthersStay(w)
  BY <1>1, <1>2, <1>4 DEF OthersStay, Inv, LockTypes
<1>6. listed' \in [Workers -> SUBSET IPs] /\ found' \in [Workers -> Nat \cup {None}]
  BY <1>1 DEF SetInv, SetTypes
<1>7. CASE RecheckOK(w)
  <2>1. pc'[w] = AfterLock(w) /\ cur' = cur
    BY <1>7 DEF RecheckOK, Goto, Inv, LockTypes
  <2>2. AtCreation(w)' => addressSet[cur'[w]] = None
    BY <2>1 DEF AtCreation, AfterLock
  <2>3. pc'[w] = "add" => addressSet[cur'[w]] # None
    BY <2>1 DEF AfterLock
  <2> QED  BY <1>1, <1>5, <1>6, <2>2, <2>3, NoSetStep
<1>8. CASE \E l \in {"idle", "lookup", "lock", "recheck", "destroy"} : pc' = [pc EXCEPT ![w] = l]
  <2>1. ~AtCreation(w)' /\ pc'[w] # "add"
    BY <1>8 DEF AtCreation, Inv, LockTypes
  <2> QED  BY <1>1, <1>5, <1>6, <2>1, NoSetStep
<1> QED  BY <1>3, <1>7, <1>8

\* createNamespaceLocked: a new object has no set yet.
LEMMA CreateSets ==
  ASSUME Inv, SetInv, NEW ns \in NS, createNamespaceLocked(ns)
  PROVE  SetInv'
<1> DEFINE i == infos + 1
<1>1. /\ i \in Infos /\ infos' = i
      /\ namespaces' = [namespaces EXCEPT ![ns] = i]
      /\ nsOf' = [nsOf EXCEPT ![i] = ns]
      /\ cur' = [cur EXCEPT ![ns] = i]
      /\ pc' = [pc EXCEPT ![ns] = "list"]
      /\ UNCHANGED <<addressSet, listed, found, sets, uuids>>
  BY DEF createNamespaceLocked, Goto, dbVars
<1>2. ns \in Workers /\ infos \in Nat
  BY BoundsAssumption DEF Workers, Inv, LockTypes
<1>3. i > infos /\ addressSet[i] = None
  BY <1>1, <1>2 DEF SetInv, FreshSets
<1>4. SetTypes'
  BY <1>1 DEF SetInv, SetTypes
<1>5. \A n \in NS \ {ns} : namespaces'[n] = namespaces[n] /\ namespaces[n] # i
  BY <1>1, <1>3 DEF Inv, LockTypes, FreshInfos
<1>6. namespaces'[ns] = i
  BY <1>1 DEF Inv, LockTypes
<1>7. EntryIsNamed'
  <2> SUFFICES ASSUME NEW n \in NS, namespaces'[n] # None  PROVE nsOf'[namespaces'[n]] = n
    BY DEF EntryIsNamed
  <2>1. CASE n = ns  BY <1>1, <1>6, <2>1 DEF Inv, LockTypes
  <2>2. CASE n # ns
    <3>1. namespaces[n] \in Infos /\ nsOf[namespaces[n]] = n
      BY <1>5, <2>2 DEF SetInv, EntryIsNamed, Inv, LockTypes
    <3> QED  BY <1>1, <1>5, <2>2, <3>1 DEF Inv, LockTypes
  <2> QED  BY <2>1, <2>2
<1>8. FreshSets'
  <2>1. Infos \subseteq Nat  BY DEF Infos
  <2> QED  BY <1>1, <1>2, <2>1 DEF SetInv, FreshSets
<1>9. CreatesMissing' /\ AddsToSet'
  BY <1>1, <1>2, <1>3 DEF SetInv, CreatesMissing, AddsToSet, AtCreation, Inv, LockTypes
<1>10. CacheMatchesOVN'
  BY <1>1, <1>3, <1>5, <1>6 DEF SetInv, CacheMatchesOVN
<1> QED  BY <1>4, <1>7, <1>8, <1>9, <1>10 DEF SetInv

\* deleteNamespaceLocked empties the set of the object it holds.
LEMMA DeleteSets ==
  ASSUME Inv, SetInv, NEW ns \in NS, deleteNamespaceLocked(ns)
  PROVE  SetInv'
<1> DEFINE i == cur[ns]
<1>1. ns \in Workers /\ Target(ns) = ns
  BY DEF Workers, Target
<1>2. /\ UNCHANGED <<nsOf, infos, uuids, listed, found, cur>>
      /\ pc[ns] = "recheck" /\ namespaces[ns] = i
      /\ namespaces' = [namespaces EXCEPT ![ns] = None]
  BY <1>1 DEF deleteNamespaceLocked, Stale
<1>3. Inside(ns) /\ i \in Infos /\ i \in Workers /\ i # ns
  BY <1>1, <1>2, DisjointAssumption DEF Inside, Inv, OwnsWhatItHolds, Workers, Infos
<1>4. pc' = [pc EXCEPT ![ns] = "cleanup"] \/ pc' = [pc EXCEPT ![ns] = "cleanup", ![i] = "sleep"]
  BY DEF deleteNamespaceLocked
<1>5. OthersStay(ns) /\ pc'[ns] = "cleanup"
  BY <1>1, <1>2, <1>3, <1>4 DEF OthersStay, Inv, LockTypes
<1>6. PICK done \in BOOLEAN :
        /\ WriteRow(i, {}, IPs, done)
        /\ done => addressSet[i] # None /\ RowExists(ns, addressSet[i].uuid)
  <2>1. CASE addressSet[i] = None
    BY <2>1 DEF deleteNamespaceLocked, WriteRow
  <2>2. CASE addressSet[i] # None
    <3>1. PICK ok \in Ok : WriteRow(i, {}, IPs, ok /\ RowExists(ns, addressSet[i].uuid))
      BY <2>2 DEF deleteNamespaceLocked
    <3>2. (ok /\ RowExists(ns, addressSet[i].uuid)) \in BOOLEAN
      BY DEF RowExists
    <3> QED  BY <2>2, <3>1, <3>2
  <2> QED  BY <2>1, <2>2
<1>7. {} \in SUBSET IPs  OBVIOUS
<1> QED  BY <1>1, <1>2, <1>3, <1>5, <1>6, <1>7, WriteRowStep

\* AddIPs and DeleteIPs.
LEMMA AddressSets ==
  ASSUME Inv, SetInv, NEW w \in Workers,
         \/ w \in Pods \cup Nodes /\ AddIPs(w)
         \/ w \in Pods /\ RemoveIPs(w)
  PROVE  SetInv'
<1> DEFINE i == cur[w]
<1>1. pc[w] \in {"add", "remove"}
  BY DEF AddIPs, RemoveIPs
<1>2. Holding(w) /\ Inside(w) /\ namespaces[Target(w)] = i /\ Target(w) \in NS
  <2>1. w \in Infos => pc[w] # "idle"
    BY <1>1
  <2> QED  BY <1>1, <2>1, TargetIsNamespace DEF Holding, Inside, Inv, HoldsCurrent
<1>3. UNCHANGED <<namespaces, nsOf, infos, uuids, listed, found>>
  BY DEF AddIPs, RemoveIPs
<1>4. pc' = [pc EXCEPT ![w] = "idle"] /\ cur' = [cur EXCEPT ![w] = None]
  BY DEF AddIPs, RemoveIPs, Finish, Goto
<1>5. OthersStay(w) /\ pc'[w] = "idle"
  BY <1>3, <1>4 DEF OthersStay, Inv, LockTypes
<1>6. CASE w \in Pods \cup Nodes /\ AddIPs(w)
  <2>1. PICK ok \in Ok : WriteRow(i, {w}, {}, /\ ~(w \in addressSet[i].ips) /\ ok
                                              /\ RowExists(Target(w), addressSet[i].uuid))
    BY <1>6 DEF AddIPs
  <2>2. addressSet[i] # None
    BY <1>6 DEF AddIPs, SetInv, AddsToSet
  <2>3. {w} \in SUBSET IPs
    BY <1>6 DEF IPs
  <2>4. (/\ ~(w \in addressSet[i].ips) /\ ok
         /\ RowExists(Target(w), addressSet[i].uuid)) \in BOOLEAN
    BY DEF RowExists
  <2> QED  BY <1>2, <1>3, <1>5, <2>1, <2>2, <2>3, <2>4, WriteRowStep
<1>7. CASE w \in Pods /\ RemoveIPs(w)
  <2> DEFINE known == addressSet[i] # None /\ w \in addressSet[i].ips
  <2>1. Target(w) = NsOf[w]
    BY <1>7, DisjointAssumption DEF Target
  <2>2. PICK ok \in Ok : WriteRow(i, {}, {w}, known /\ ok /\ RowExists(Target(w), addressSet[i].uuid))
    BY <1>7, <2>1 DEF RemoveIPs
  <2>3. (known /\ ok /\ RowExists(Target(w), addressSet[i].uuid)) \in BOOLEAN
    BY DEF RowExists
  <2>4. {} \in SUBSET IPs  OBVIOUS
  <2> QED  BY <1>2, <1>3, <1>5, <2>2, <2>3, <2>4, WriteRowStep
<1> QED  BY <1>6, <1>7

\* A row that is gone matches any cache.
LEMMA DestroySets ==
  ASSUME Inv, SetInv, NEW i \in Infos, Destroy(i)
  PROVE  SetInv'
<1>1. /\ UNCHANGED <<namespaces, nsOf, infos, addressSet, uuids, listed, found>>
      /\ sets' = sets \/ sets' = [sets EXCEPT ![nsOf[i]] = None]
      /\ pc' = [pc EXCEPT ![i] = "idle"] /\ cur' = [cur EXCEPT ![i] = None]
  BY DEF Destroy, Finish, Goto
<1>2. SetTypes'
  BY <1>1 DEF SetInv, SetTypes, Rows
<1>3. EntryIsNamed' /\ FreshSets'
  BY <1>1 DEF SetInv, EntryIsNamed, FreshSets
<1>4. CreatesMissing' /\ AddsToSet'
  BY <1>1 DEF SetInv, CreatesMissing, AddsToSet, AtCreation, Inv, LockTypes, Workers
<1>5. CacheMatchesOVN'
  BY <1>1 DEF SetInv, SetTypes, CacheMatchesOVN
<1> QED  BY <1>2, <1>3, <1>4, <1>5 DEF SetInv

LEMMA StutterSets ==
  ASSUME SetInv,
         UNCHANGED <<namespaces, nsOf, infos, pc, cur, addressSet, sets, uuids, listed, found>>
  PROVE  SetInv'
BY DEF SetInv, SetTypes, EntryIsNamed, FreshSets, CreatesMissing, AtCreation, AddsToSet,
       CacheMatchesOVN

LEMMA InitSets == Init => SetInv
<1> SUFFICES ASSUME Init PROVE SetInv
  OBVIOUS
<1>1. SetRec(0, IPs) \in Rows /\ None \in Rows
  BY RowTypes DEF Rows
<1>2. SetTypes
  BY <1>1 DEF Init, SetTypes
<1>3. EntryIsNamed /\ FreshSets /\ CreatesMissing /\ AddsToSet /\ CacheMatchesOVN
  BY DEF Init, EntryIsNamed, FreshSets, CreatesMissing, AddsToSet, CacheMatchesOVN, AtCreation
<1> QED  BY <1>2, <1>3 DEF SetInv

LEMMA NextSets == Inv /\ SetInv /\ [Next]_vars => SetInv'
<1> SUFFICES ASSUME Inv, SetInv, [Next]_vars PROVE SetInv'
  OBVIOUS
<1>1. NS \subseteq Workers /\ Pods \subseteq Workers /\ Nodes \subseteq Workers /\ Infos \subseteq Workers
  BY DEF Workers
<1>2. CASE API
  <2>1. UNCHANGED <<ctrlVars, thrVars, dbVars>>
    BY <1>2 DEF API, CreateNS, UpdateNS, DeleteNS, CreatePod, PodGetsIP, DeletePod
  <2> QED  BY <2>1, StutterSets DEF ctrlVars, thrVars, dbVars
<1>3. ASSUME NEW ns \in NS, NSStep(ns)  PROVE SetInv'
  BY <1>1, <1>3, NoSetSteps, CreateSets, CreatingSets, DeleteSets DEF NSStep
<1>4. ASSUME NEW p \in Pods, PodStep(p)  PROVE SetInv'
  BY <1>1, <1>4, NoSetSteps, CreatingSets, AddressSets DEF PodStep
<1>5. ASSUME NEW n \in Nodes, NodeStep(n)  PROVE SetInv'
  BY <1>1, <1>5, NoSetSteps, CreatingSets, AddressSets DEF NodeStep
<1>6. ASSUME NEW i \in Infos, DestroyerStep(i)  PROVE SetInv'
  BY <1>1, <1>6, NoSetSteps, DestroySets DEF DestroyerStep
<1>7. ASSUME NEW w \in Pods \cup Nodes, WaitTimeout(w)  PROVE SetInv'
  BY <1>1, <1>7, NoSetSteps
<1>8. ASSUME NEW ns \in NS, Panic(ns)  PROVE SetInv'
  BY <1>8, StutterSets DEF Panic, ctrlVars, thrVars, dbVars
<1>9. CASE UNCHANGED vars
  BY <1>9, StutterSets DEF vars, ctrlVars, thrVars, dbVars
<1> QED  BY <1>2, <1>3, <1>4, <1>5, <1>6, <1>7, <1>8, <1>9 DEF Next, Step

\* The cache by which AddIPs and DeleteIPs decide what to send is the row in OVN,
\* for any number of namespaces, pods and nodes and with any command failing.
THEOREM CachesFollowRows == Spec => []CacheMatchesOVN
<1>1. SetInv => CacheMatchesOVN
  BY DEF SetInv
<1> QED  BY <1>1, InitInv, NextInv, InitSets, NextSets, PTL DEF Spec

-----------------------------------------------------------------------------
(* No command fails by itself: what a deletion leaves behind. *)

\* Between `find address_set` and the write nobody creates or replaces the row
\* of the namespace; the destroyer may remove it.
FoundIsRow ==
  \A w \in Workers : pc[w] = "write" =>
    LET row == sets[Target(w)] IN row = None \/ (found[w] # None /\ row.uuid = found[w])

\* A row whose namespace has no address set object is one that a worker with
\* the lock is about to take over.
RowIsAdopted ==
  \A ns \in NS : LET i == namespaces[ns] IN
    (i # None /\ addressSet[i] = None /\ sets[ns] # None)
      => \E w \in Workers : AtCreation(w) /\ Target(w) = ns

DestroyersNeverCreate == \A i \in Infos : ~AtCreation(i)

CalmInv ==
  /\ FoundIsRow
  /\ RowIsAdopted
  /\ DestroyersNeverCreate
  /\ DeletedSetStaysEmpty

OthersKept(w) == \A v \in Workers \ {w} : pc'[v] = pc[v] /\ found'[v] = found[v]

\* A step of w that touches no address set, and leaves createNamespaceAddrSetAllPods
\* only when there is no row.
LEMMA CalmStep ==
  ASSUME CalmInv, NEW w \in Workers, OthersKept(w),
         UNCHANGED <<namespaces, nsOf, addressSet, sets>>,
         pc'[w] = "write" => LET row == sets[Target(w)]
                             IN  row = None \/ (found'[w] # None /\ row.uuid = found'[w]),
         AtCreation(w) => AtCreation(w)' \/ sets[Target(w)] = None,
         w \in Infos => ~AtCreation(w)'
  PROVE  CalmInv'
<1>1. \A v \in Workers : Target(v)' = Target(v)
  BY DEF Target
<1>2. FoundIsRow'
  BY <1>1 DEF CalmInv, FoundIsRow, OthersKept
<1>3. DestroyersNeverCreate'
  BY DEF CalmInv, DestroyersNeverCreate, OthersKept, AtCreation, Workers
<1>4. DeletedSetStaysEmpty'
  BY DEF CalmInv, DeletedSetStaysEmpty
<1>5. RowIsAdopted'
  <2> SUFFICES ASSUME NEW ns \in NS, namespaces[ns] # None, addressSet[namespaces[ns]] = None,
                      sets[ns] # None
               PROVE  \E v \in Workers : AtCreation(v)' /\ Target(v)' = ns
    BY DEF RowIsAdopted
  <2>1. PICK v \in Workers : AtCreation(v) /\ Target(v) = ns
    BY DEF CalmInv, RowIsAdopted
  <2>2. AtCreation(v)'
    BY <2>1 DEF OthersKept, AtCreation
  <2> QED  BY <1>1, <2>1, <2>2
<1> QED  BY <1>2, <1>3, <1>4, <1>5 DEF CalmInv

\* createNamespaceAddrSetAllPods has the same row from the find to the write.
LEMMA CreatingCalm ==
  ASSUME ~faulty, Inv, SetInv, CalmInv, NEW w \in NS \cup Pods \cup Nodes, Creating(w)
  PROVE  CalmInv'
<1> USE DEF apiVars, qVars, ctrlVars, dbVars
<1> DEFINE i == cur[w]
           ns == Target(w)
<1>1. AtCreation(w) /\ Inside(w) /\ Holding(w) /\ w \in Workers
  BY DEF AtCreation, Inside, Holding, Creating, ListPods, FindSet, WriteSet, Workers
<1>2. namespaces[ns] = i /\ i \in Infos /\ i # None /\ ns \in NS /\ addressSet[i] = None
  <2>1. w \in Infos => pc[w] # "idle"
    BY <1>1 DEF AtCreation
  <2> QED  BY <1>1, <2>1, TargetIsNamespace, DisjointAssumption
           DEF Inv, HoldsCurrent, OwnsWhatItHolds, SetInv, CreatesMissing, Infos
<1>3. w \notin Infos
  BY DisjointAssumption DEF Infos
<1>4. CASE ListPods(w)
  <2>1. pc' = [pc EXCEPT ![w] = "find"] /\ UNCHANGED <<namespaces, nsOf, addressSet, sets, found>>
    BY <1>4 DEF ListPods, Goto
  <2>2. AtCreation(w)' /\ OthersKept(w) /\ pc'[w] = "find"
    BY <1>1, <2>1 DEF AtCreation, OthersKept, Inv, LockTypes
  <2> QED  BY <1>1, <1>3, <2>1, <2>2, CalmStep
<1>5. CASE FindSet(w)
  <2>1. /\ found' = [found EXCEPT ![w] = IF sets[ns] = None THEN None ELSE sets[ns].uuid]
        /\ pc' = [pc EXCEPT ![w] = "write"] /\ UNCHANGED <<namespaces, nsOf, addressSet, sets>>
    BY <1>5 DEF FindSet, Goto
  <2>2. AtCreation(w)' /\ OthersKept(w)
    BY <1>1, <2>1 DEF AtCreation, OthersKept, Inv, LockTypes, SetInv, SetTypes
  <2>3. sets[ns] # None => found'[w] = sets[ns].uuid /\ sets[ns].uuid # None
    BY <1>1, <1>2, <2>1, RowTypes, DisjointAssumption DEF SetInv, SetTypes
  <2> QED  BY <1>1, <1>3, <2>1, <2>2, <2>3, CalmStep
<1>6. CASE WriteSet(w)
  <2> DEFINE new == SetRec(RowUUID(w), listed[w])
  <2>0. pc[w] = "write" /\ UNCHANGED <<namespaces, nsOf>> /\ found' = [found EXCEPT ![w] = None]
    BY <1>6 DEF WriteSet
  <2>1. CASE /\ ~(IF found[w] = None THEN sets[ns] = None ELSE RowExists(ns, RowUUID(w)))
             /\ CreateFailed(w) /\ UNCHANGED <<sets, uuids, addressSet>>
    <3>1. sets[ns] = None
      BY <1>1, <2>0, <2>1 DEF CalmInv, FoundIsRow, RowExists, RowUUID
    <3>2. pc'[w] \in {"multicast", "idle"} /\ pc' = [pc EXCEPT ![w] = pc'[w]]
      BY <1>1, <2>1 DEF CreateFailed, Finish, Goto, Inv, LockTypes
    <3>3. OthersKept(w)
      BY <1>1, <2>0, <3>2 DEF OthersKept, Inv, LockTypes, SetInv, SetTypes
    <3>4. pc'[w] # "write" /\ ~AtCreation(w)'
      BY <3>2 DEF AtCreation
    <3> QED  BY <1>1, <2>0, <2>1, <3>1, <3>3, <3>4, CalmStep
  <2>2. CASE /\ sets' = [sets EXCEPT ![ns] = new]
             /\ addressSet' = [addressSet EXCEPT ![i] = new]
             /\ Goto(w, IF w \in NS THEN "multicast" ELSE "add")
    <3>1. new # None
      <4>1. RowUUID(w) \in Nat /\ listed[w] \in SUBSET IPs
        BY <1>1 DEF RowUUID, SetInv, SetTypes
      <4> QED  BY <4>1, RowTypes
    <3> HIDE DEF new
    <3>2. pc'[w] \in {"multicast", "add"} /\ \A v \in Workers \ {w} : pc'[v] = pc[v] /\ found'[v] = found[v]
      BY <1>1, <2>0, <2>2 DEF Goto, Inv, LockTypes, SetInv, SetTypes
    <3>3. \A v \in Workers : Target(v)' = Target(v)
      BY <2>0 DEF Target
    <3>4. ASSUME NEW v \in Workers \ {w}, AtCreation(v)  PROVE Target(v) # ns
      <4>1. Inside(v) /\ Holding(v)
        BY <3>4 DEF AtCreation, Inside, Holding
      <4> QED  BY <1>1, <1>2, <4>1, Exclusive DEF Inv, HoldsCurrent
    <3>5. FoundIsRow'
      <4> SUFFICES ASSUME NEW v \in Workers, pc'[v] = "write"
                   PROVE  LET row == sets'[Target(v)']
                          IN  row = None \/ (found'[v] # None /\ row.uuid = found'[v])
        BY DEF FoundIsRow
      <4>1. v # w /\ pc[v] = "write" /\ found'[v] = found[v]
        BY <3>2
      <4>2. Target(v) # ns
        BY <3>4, <4>1 DEF AtCreation
      <4>3. sets'[Target(v)'] = sets[Target(v)]
        <5>1. Target(v) \in NS
          BY <4>1, TargetIsNamespace
        <5> QED  BY <2>2, <3>3, <4>2, <5>1 DEF SetInv, SetTypes
      <4> QED  BY <4>1, <4>3 DEF CalmInv, FoundIsRow
    <3>6. RowIsAdopted'
      <4> SUFFICES ASSUME NEW n \in NS, namespaces[n] # None, addressSet'[namespaces[n]] = None,
                          sets'[n] # None
                   PROVE  \E v \in Workers : AtCreation(v)' /\ Target(v)' = n
        BY <2>0 DEF RowIsAdopted
      <4>1. n # ns
        BY <1>2, <2>2, <3>1 DEF SetInv, SetTypes
      <4>2. namespaces[n] # i /\ namespaces[n] \in Infos
        BY <1>2, <4>1 DEF SetInv, EntryIsNamed, Inv, LockTypes
      <4>3. addressSet[namespaces[n]] = None /\ sets[n] # None
        BY <2>2, <4>1, <4>2 DEF SetInv, SetTypes
      <4>4. PICK v \in Workers : AtCreation(v) /\ Target(v) = n
        BY <4>3 DEF CalmInv, RowIsAdopted
      <4>5. AtCreation(v)'
        BY <3>2, <4>1, <4>4 DEF AtCreation
      <4> QED  BY <3>3, <4>4, <4>5
    <3>7. DestroyersNeverCreate'
      BY <1>3, <3>2 DEF CalmInv, DestroyersNeverCreate, AtCreation, Workers
    <3>8. DeletedSetStaysEmpty'
      BY <1>2, <2>0, <2>2 DEF CalmInv, DeletedSetStaysEmpty, SetInv, SetTypes
    <3> QED  BY <3>5, <3>6, <3>7, <3>8 DEF CalmInv
  <2> QED  BY <1>6, <2>1, <2>2 DEF WriteSet
<1> QED  BY <1>4, <1>5, <1>6 DEF Creating

\* A worker with the lock writes addresses to the row of its namespaceInfo.
LEMMA WriteRowCalm ==
  ASSUME Inv, SetInv, CalmInv, NEW w \in Workers, ~AtCreation(w), Inside(w),
         namespaces[Target(w)] = cur[w], Target(w) \in NS,
         UNCHANGED nsOf,
         \A v \in Workers : AtCreation(v) <=> AtCreation(v)',
         \A v \in Workers : pc'[v] = "write" => pc[v] = "write" /\ found'[v] = found[v],
         \/ namespaces' = namespaces
         \/ /\ namespaces' = [namespaces EXCEPT ![Target(w)] = None]
            /\ sets'[Target(w)] = None \/ sets'[Target(w)].ips = {},
         NEW add \in SUBSET IPs, NEW del, NEW done \in BOOLEAN,
         WriteRow(cur[w], add, del, done),
         done => addressSet[cur[w]] # None
  PROVE  CalmInv'
<1> DEFINE i == cur[w]
           ns == Target(w)
<1>1. i \in Infos /\ i # None /\ nsOf[i] = ns
  BY DisjointAssumption DEF Inv, OwnsWhatItHolds, SetInv, EntryIsNamed, Infos
<1>2. \A v \in Workers : Target(v)' = Target(v)
  BY DEF Target
<1>3. ASSUME NEW v \in Workers, AtCreation(v)  PROVE Target(v) # ns /\ Target(v) \in NS
  <2>1. Inside(v) /\ Holding(v) /\ v # w /\ pc[v] # "idle"
    BY <1>3 DEF AtCreation, Inside, Holding
  <2> QED  BY <1>1, <2>1, Exclusive, TargetIsNamespace DEF Inv, HoldsCurrent
<1>4. \A n \in NS \ {ns} : sets'[n] = sets[n]
  BY <1>1 DEF WriteRow, SetInv, SetTypes
<1>5. \A j \in Infos : j # i => addressSet'[j] = addressSet[j]
  BY <1>1 DEF WriteRow, SetInv, SetTypes
<1>6. FoundIsRow'
  <2> SUFFICES ASSUME NEW v \in Workers, pc'[v] = "write"
               PROVE  LET row == sets'[Target(v)]
                      IN  row = None \/ (found'[v] # None /\ row.uuid = found'[v])
    BY <1>2 DEF FoundIsRow
  <2>1. pc[v] = "write" /\ found'[v] = found[v] /\ AtCreation(v)
    BY DEF AtCreation
  <2> QED  BY <1>3, <1>4, <2>1 DEF CalmInv, FoundIsRow
<1>7. RowIsAdopted'
  <2> SUFFICES ASSUME NEW n \in NS, namespaces'[n] # None, addressSet'[namespaces'[n]] = None,
                      sets'[n] # None
               PROVE  \E v \in Workers : AtCreation(v)' /\ Target(v)' = n
    BY DEF RowIsAdopted
  <2>1. namespaces'[n] = namespaces[n] /\ namespaces[n] \in Infos
    BY DEF Inv, LockTypes
  <2>2. CASE n = ns
    <3>1. ~done
      <4> SUFFICES ASSUME done PROVE FALSE
        OBVIOUS
      <4>1. addressSet[i] # None /\ addressSet[i] \in Rows
        BY <1>1 DEF SetInv, SetTypes
      <4>2. addressSet'[i] = [addressSet[i] EXCEPT !.ips = (addressSet[i].ips \ del) \cup add]
        BY <1>1 DEF WriteRow, SetInv, SetTypes
      <4>3. (addressSet[i].ips \ del) \cup add \in SUBSET IPs
        BY <4>1, RowTypes
      <4> QED  BY <2>1, <2>2, <4>1, <4>2, <4>3, RowTypes
    <3>2. addressSet[i] = None /\ sets[ns] # None /\ namespaces[ns] # None
      BY <1>1, <2>1, <2>2, <3>1 DEF WriteRow
    <3> QED  BY <1>3, <3>2 DEF CalmInv, RowIsAdopted
  <2>3. CASE n # ns
    <3>1. namespaces[n] # i
      BY <1>1, <2>1, <2>3 DEF SetInv, EntryIsNamed
    <3>2. addressSet[namespaces[n]] = None /\ sets[n] # None /\ namespaces[n] # None
      BY <1>4, <1>5, <2>1, <2>3, <3>1
    <3>3. PICK v \in Workers : AtCreation(v) /\ Target(v) = n
      BY <3>2 DEF CalmInv, RowIsAdopted
    <3> QED  BY <1>2, <3>3
  <2> QED  BY <2>2, <2>3
<1>8. DestroyersNeverCreate'
  BY DEF CalmInv, DestroyersNeverCreate, Workers
<1>9. DeletedSetStaysEmpty'
  <2> SUFFICES ASSUME NEW n \in NS, namespaces'[n] = None, \E j \in Infos : nsOf[j] = n
               PROVE  sets'[n] = None \/ sets'[n].ips = {}
    BY DEF DeletedSetStaysEmpty
  <2>1. CASE n = ns
    BY <1>1, <2>1
  <2>2. CASE n # ns
    <3>1. namespaces[n] = None
      BY <2>2 DEF Inv, LockTypes
    <3> QED  BY <1>4, <2>2, <3>1 DEF CalmInv, DeletedSetStaysEmpty
  <2> QED  BY <2>1, <2>2
<1> QED  BY <1>6, <1>7, <1>8, <1>9 DEF CalmInv

\* The set is emptied before the entry leaves the table, or there is no row.
LEMMA DeleteCalm ==
  ASSUME ~faulty, Inv, SetInv, CalmInv, NEW ns \in NS, deleteNamespaceLocked(ns)
  PROVE  CalmInv'
<1> DEFINE i == cur[ns]
<1>1. ns \in Workers /\ Target(ns) = ns
  BY DEF Workers, Target
<1>2. /\ UNCHANGED <<nsOf, found>>
      /\ pc[ns] = "recheck" /\ namespaces[ns] = i
      /\ namespaces' = [namespaces EXCEPT ![ns] = None]
  BY <1>1 DEF deleteNamespaceLocked, Stale
<1>3. Inside(ns) /\ i \in Infos /\ i \in Workers /\ i # ns /\ i # None /\ ~AtCreation(ns)
  BY <1>1, <1>2, DisjointAssumption DEF Inside, Inv, OwnsWhatItHolds, Workers, Infos, AtCreation
<1>4. pc' = [pc EXCEPT ![ns] = "cleanup"] \/ pc' = [pc EXCEPT ![ns] = "cleanup", ![i] = "sleep"]
  BY DEF deleteNamespaceLocked
<1>5. \A v \in Workers : AtCreation(v) <=> AtCreation(v)'
  BY <1>1, <1>2, <1>3, <1>4 DEF AtCreation, CalmInv, DestroyersNeverCreate, Inv, LockTypes
<1>6. \A v \in Workers : pc'[v] = "write" => pc[v] = "write" /\ found'[v] = found[v]
  BY <1>1, <1>2, <1>3, <1>4 DEF Inv, LockTypes
<1>7. CASE addressSet[i] = None
  <2>1. WriteRow(i, {}, IPs, FALSE) /\ sets' = sets
    BY <1>7 DEF deleteNamespaceLocked, WriteRow
  <2>2. sets[ns] = None
    <3> SUFFICES ASSUME sets[ns] # None PROVE FALSE
      OBVIOUS
    <3>1. PICK v \in Workers : AtCreation(v) /\ Target(v) = ns
      BY <1>2, <1>3, <1>7 DEF CalmInv, RowIsAdopted
    <3>2. Inside(v) /\ Holding(v) /\ v # ns
      BY <1>3, <3>1 DEF AtCreation, Inside, Holding
    <3> QED  BY <1>1, <1>2, <1>3, <3>1, <3>2, Exclusive DEF Inv, HoldsCurrent
  <2> QED  BY <1>1, <1>2, <1>3, <1>5, <1>6, <2>1, <2>2, WriteRowCalm
<1>8. CASE addressSet[i] # None
  <2> DEFINE done == RowExists(ns, addressSet[i].uuid)
  <2>1. WriteRow(i, {}, IPs, TRUE /\ done)
    BY <1>8 DEF deleteNamespaceLocked, Ok
  <2>2. done \in BOOLEAN
    BY DEF RowExists
  <2>3. WriteRow(i, {}, IPs, done)
    BY <2>1, <2>2
  <2>4. sets'[ns] = None \/ sets'[ns].ips = {}
    <3>1. CASE sets[ns] = None
      <4>1. ~done  BY <3>1 DEF RowExists
      <4> QED  BY <2>3, <3>1, <4>1 DEF WriteRow
    <3>2. CASE sets[ns] # None
      <4>1. sets[ns] = addressSet[i]
        BY <1>2, <1>3, <1>8, <3>2 DEF SetInv, CacheMatchesOVN
      <4>2. done  BY <3>2, <4>1 DEF RowExists
      <4>3. nsOf[i] = ns
        BY <1>2, <1>3 DEF SetInv, EntryIsNamed
      <4>4. sets[ns].ips \in SUBSET IPs /\ sets[ns] \in Rows
        BY <3>2, RowTypes DEF SetInv, SetTypes
      <4>5. sets' = [sets EXCEPT ![ns].ips = (@ \ IPs) \cup {}]
        BY <2>3, <4>2, <4>3 DEF WriteRow
      <4>6. sets'[ns] = [sets[ns] EXCEPT !.ips = {}]
        BY <4>4, <4>5 DEF SetInv, SetTypes
      <4> QED  BY <3>2, <4>4, <4>6 DEF Rows
    <3> QED  BY <3>1, <3>2
  <2> QED  BY <1>1, <1>2, <1>3, <1>5, <1>6, <1>8, <2>2, <2>3, <2>4, WriteRowCalm
<1> QED  BY <1>7, <1>8

LEMMA AddressCalm ==
  ASSUME Inv, SetInv, CalmInv, NEW w \in Workers,
         \/ w \in Pods \cup Nodes /\ AddIPs(w)
         \/ w \in Pods /\ RemoveIPs(w)
  PROVE  CalmInv'
<1> DEFINE i == cur[w]
<1>1. pc[w] \in {"add", "remove"}
  BY DEF AddIPs, RemoveIPs
<1>2. Holding(w) /\ Inside(w) /\ namespaces[Target(w)] = i /\ Target(w) \in NS /\ ~AtCreation(w)
  <2>1. w \in Infos => pc[w] # "idle"
    BY <1>1
  <2> QED  BY <1>1, <2>1, TargetIsNamespace DEF Holding, Inside, Inv, HoldsCurrent, AtCreation
<1>3. UNCHANGED <<namespaces, nsOf, found>>
  BY DEF AddIPs, RemoveIPs
<1>4. pc' = [pc EXCEPT ![w] = "idle"]
  BY DEF AddIPs, RemoveIPs, Finish, Goto
<1>5. \A v \in Workers : AtCreation(v) <=> AtCreation(v)'
  BY <1>1, <1>4 DEF AtCreation, Inv, LockTypes
<1>6. \A v \in Workers : pc'[v] = "write" => pc[v] = "write" /\ found'[v] = found[v]
  BY <1>3, <1>4 DEF Inv, LockTypes
<1>7. CASE w \in Pods \cup Nodes /\ AddIPs(w)
  <2>1. PICK ok \in Ok : WriteRow(i, {w}, {}, /\ ~(w \in addressSet[i].ips) /\ ok
                                              /\ RowExists(Target(w), addressSet[i].uuid))
    BY <1>7 DEF AddIPs
  <2>2. addressSet[i] # None
    BY <1>7 DEF AddIPs, SetInv, AddsToSet
  <2>3. {w} \in SUBSET IPs
    BY <1>7 DEF IPs
  <2>4. (/\ ~(w \in addressSet[i].ips) /\ ok
         /\ RowExists(Target(w), addressSet[i].uuid)) \in BOOLEAN
    BY DEF RowExists
  <2> QED  BY <1>2, <1>3, <1>5, <1>6, <2>1, <2>2, <2>3, <2>4, WriteRowCalm
<1>8. CASE w \in Pods /\ RemoveIPs(w)
  <2> DEFINE known == addressSet[i] # None /\ w \in addressSet[i].ips
  <2>1. Target(w) = NsOf[w]
    BY <1>8, DisjointAssumption DEF Target
  <2>2. PICK ok \in Ok : WriteRow(i, {}, {w}, known /\ ok /\ RowExists(Target(w), addressSet[i].uuid))
    BY <1>8, <2>1 DEF RemoveIPs
  <2>3. (known /\ ok /\ RowExists(Target(w), addressSet[i].uuid)) \in BOOLEAN
    BY DEF RowExists
  <2>4. {} \in SUBSET IPs  OBVIOUS
  <2> QED  BY <1>2, <1>3, <1>5, <1>6, <2>2, <2>3, <2>4, WriteRowCalm
<1> QED  BY <1>7, <1>8

\* The destroyer only removes rows.
LEMMA DestroyCalm ==
  ASSUME Inv, SetInv, CalmInv, NEW i \in Infos, Destroy(i)
  PROVE  CalmInv'
<1>1. /\ UNCHANGED <<namespaces, nsOf, addressSet, found>>
      /\ sets' = sets \/ sets' = [sets EXCEPT ![nsOf[i]] = None]
      /\ pc[i] = "destroy" /\ pc' = [pc EXCEPT ![i] = "idle"]
  BY DEF Destroy, Finish, Goto
<1>2. \A ns \in NS : sets'[ns] = sets[ns] \/ sets'[ns] = None
  BY <1>1 DEF SetInv, SetTypes
<1>3. \A v \in Workers : Target(v)' = Target(v) /\ (AtCreation(v) <=> AtCreation(v)')
  BY <1>1 DEF Target, AtCreation, Inv, LockTypes, Workers
<1>4. FoundIsRow'
  <2> SUFFICES ASSUME NEW v \in Workers, pc'[v] = "write"
               PROVE  LET row == sets'[Target(v)]
                      IN  row = None \/ (found'[v] # None /\ row.uuid = found'[v])
    BY <1>3 DEF FoundIsRow
  <2>1. pc[v] = "write"
    BY <1>1 DEF Inv, LockTypes
  <2>2. Target(v) \in NS
    BY <2>1, TargetIsNamespace
  <2> QED  BY <1>1, <1>2, <2>1, <2>2 DEF CalmInv, FoundIsRow
<1>5. RowIsAdopted'
  <2> SUFFICES ASSUME NEW n \in NS, namespaces[n] # None, addressSet[namespaces[n]] = None,
                      sets'[n] # None
               PROVE  \E v \in Workers : AtCreation(v)' /\ Target(v)' = n
    BY <1>1 DEF RowIsAdopted
  <2>1. PICK v \in Workers : AtCreation(v) /\ Target(v) = n
    BY <1>2 DEF CalmInv, RowIsAdopted
  <2> QED  BY <1>3, <2>1
<1>6. DestroyersNeverCreate'
  BY <1>3 DEF CalmInv, DestroyersNeverCreate, Workers
<1>7. DeletedSetStaysEmpty'
  BY <1>1, <1>2 DEF CalmInv, DeletedSetStaysEmpty
<1> QED  BY <1>4, <1>5, <1>6, <1>7 DEF CalmInv

\* A new object takes over the row that the namespace's worker will find.
LEMMA CreateCalm ==
  ASSUME Inv, SetInv, CalmInv, NEW ns \in NS, createNamespaceLocked(ns)
  PROVE  CalmInv'
<1> DEFINE i == infos + 1
<1>1. /\ i \in Infos /\ pc[ns] = "idle"
      /\ namespaces' = [namespaces EXCEPT ![ns] = i]
      /\ nsOf' = [nsOf EXCEPT ![i] = ns]
      /\ pc' = [pc EXCEPT ![ns] = "list"]
      /\ UNCHANGED <<addressSet, found, sets>>
  BY DEF createNamespaceLocked, Goto, dbVars
<1>2. ns \in Workers /\ infos \in Nat /\ ns \notin Infos /\ i # None
  BY BoundsAssumption, DisjointAssumption DEF Workers, Inv, LockTypes, Infos
<1>3. pc[i] = "idle"
  BY <1>1, <1>2 DEF Inv, FreshInfos
<1>4. \A v \in Workers : v # i => Target(v)' = Target(v)
  BY <1>1, DisjointAssumption DEF Target, Inv, LockTypes, Workers
<1>5. pc'[ns] = "list" /\ Target(ns)' = ns /\ \A v \in Workers \ {ns} : pc'[v] = pc[v]
  BY <1>1, <1>2 DEF Target, Inv, LockTypes
<1>6. FoundIsRow'
  <2> SUFFICES ASSUME NEW v \in Workers, pc'[v] = "write"
               PROVE  LET row == sets[Target(v)']
                      IN  row = None \/ (found[v] # None /\ row.uuid = found[v])
    BY <1>1 DEF FoundIsRow
  <2>1. pc[v] = "write" /\ v # i
    BY <1>3, <1>5
  <2> QED  BY <1>4, <2>1 DEF CalmInv, FoundIsRow
<1>7. RowIsAdopted'
  <2> SUFFICES ASSUME NEW n \in NS, namespaces'[n] # None, addressSet[namespaces'[n]] = None,
                      sets[n] # None
               PROVE  \E v \in Workers : AtCreation(v)' /\ Target(v)' = n
    BY <1>1 DEF RowIsAdopted
  <2>1. CASE n = ns
    BY <1>2, <1>5, <2>1 DEF AtCreation
  <2>2. CASE n # ns
    <3>1. namespaces'[n] = namespaces[n]
      BY <1>1, <2>2 DEF Inv, LockTypes
    <3>2. PICK v \in Workers : AtCreation(v) /\ Target(v) = n
      BY <3>1 DEF CalmInv, RowIsAdopted
    <3>3. v # ns /\ v # i
      BY <1>1, <1>3, <3>2 DEF AtCreation
    <3> QED  BY <1>4, <1>5, <3>2, <3>3 DEF AtCreation
  <2> QED  BY <2>1, <2>2
<1>8. DestroyersNeverCreate'
  BY <1>2, <1>5 DEF CalmInv, DestroyersNeverCreate, AtCreation, Workers
<1>9. DeletedSetStaysEmpty'
  <2> SUFFICES ASSUME NEW n \in NS, namespaces'[n] = None, NEW j \in Infos, nsOf'[j] = n
               PROVE  sets[n] = None \/ sets[n].ips = {}
    BY <1>1 DEF DeletedSetStaysEmpty
  <2>1. n # ns /\ namespaces[n] = None /\ nsOf[j] = n
    BY <1>1, <1>2 DEF Inv, LockTypes
  <2> QED  BY <2>1 DEF CalmInv, DeletedSetStaysEmpty
<1> QED  BY <1>6, <1>7, <1>8, <1>9 DEF CalmInv

LEMMA NoSetCalm ==
  ASSUME Inv, CalmInv, NEW w \in Workers,
         \/ Locking(w) \/ WaitTimeout(w)
         \/ StartNS(w) \/ StartPodAdd(w) \/ StartPodDelete(w) \/ StartNode(w) \/ DestroyTimer(w)
         \/ Cleanup(w) \/ multicastUpdateNamespace(w) \/ SkipDestroy(w)
  PROVE  CalmInv'
<1> USE DEF apiVars, qVars, ctrlVars, dbVars
<1>1. UNCHANGED <<namespaces, nsOf, addressSet, sets, found>>
  BY DEF Locking, Lookup, Lock, RecheckStale, RecheckOK, WaitTimeout, StartNS, StartPodAdd,
         StartPodDelete, StartNode, DestroyTimer, Cleanup, multicastUpdateNamespace, SkipDestroy
<1>2. \/ RecheckOK(w)
      \/ \E l \in {"idle", "lookup", "lock", "recheck", "destroy"} : pc' = [pc EXCEPT ![w] = l]
  BY DEF Locking, Lookup, Lock, RecheckStale, WaitTimeout, StartNS, StartPodAdd,
         StartPodDelete, StartNode, DestroyTimer, Cleanup, multicastUpdateNamespace, SkipDestroy,
         NilInfo, Finish, Goto
<1>3. ~AtCreation(w)
  BY DEF Locking, Lookup, Lock, RecheckStale, RecheckOK, WaitTimeout, StartNS, StartPodAdd,
         StartPodDelete, StartNode, DestroyTimer, Cleanup, multicastUpdateNamespace, SkipDestroy,
         AtCreation
<1>4. \E l : pc' = [pc EXCEPT ![w] = l]
  BY <1>2 DEF RecheckOK, Goto
<1>5. OthersKept(w)
  BY <1>1, <1>4 DEF OthersKept, Inv, LockTypes
<1>6. pc'[w] # "write" /\ (w \in Infos => ~AtCreation(w)')
  <2>1. CASE RecheckOK(w)
    <3>1. pc'[w] = AfterLock(w)
      BY <2>1 DEF RecheckOK, Goto, Inv, LockTypes
    <3>2. w \in Infos => w \notin NS
      BY DisjointAssumption DEF Infos
    <3> QED  BY <3>1, <3>2 DEF AfterLock, AtCreation
  <2>2. CASE \E l \in {"idle", "lookup", "lock", "recheck", "destroy"} : pc' = [pc EXCEPT ![w] = l]
    BY <2>2 DEF AtCreation, Inv, LockTypes
  <2> QED  BY <1>2, <2>1, <2>2
<1> QED  BY <1>1, <1>3, <1>5, <1>6, CalmStep

LEMMA StutterCalm ==
  ASSUME CalmInv, UNCHANGED <<namespaces, nsOf, pc, addressSet, sets, found>>
  PROVE  CalmInv'
<1>1. \A v : Target(v)' = Target(v) /\ AtCreation(v)' = AtCreation(v)
  BY DEF Target, AtCreation
<1> QED  BY <1>1 DEF CalmInv, FoundIsRow, RowIsAdopted, DestroyersNeverCreate, DeletedSetStaysEmpty

LEMMA InitCalm == Init => CalmInv
BY DisjointAssumption
   DEF Init, CalmInv, FoundIsRow, RowIsAdopted, DestroyersNeverCreate, DeletedSetStaysEmpty,
       AtCreation, Workers

LEMMA NextCalm ==
  ~faulty /\ Inv /\ SetInv /\ CalmInv /\ [Next]_vars => CalmInv'
<1> SUFFICES ASSUME ~faulty, Inv, SetInv, CalmInv, [Next]_vars PROVE CalmInv'
  OBVIOUS
<1>1. NS \subseteq Workers /\ Pods \subseteq Workers /\ Nodes \subseteq Workers /\ Infos \subseteq Workers
  BY DEF Workers
<1>2. CASE API
  <2>1. UNCHANGED <<ctrlVars, thrVars, dbVars>>
    BY <1>2 DEF API, CreateNS, UpdateNS, DeleteNS, CreatePod, PodGetsIP, DeletePod
  <2> QED  BY <2>1, StutterCalm DEF ctrlVars, thrVars, dbVars
<1>3. ASSUME NEW ns \in NS, NSStep(ns)  PROVE CalmInv'
  BY <1>1, <1>3, NoSetCalm, CreateCalm, CreatingCalm, DeleteCalm DEF NSStep
<1>4. ASSUME NEW p \in Pods, PodStep(p)  PROVE CalmInv'
  BY <1>1, <1>4, NoSetCalm, CreatingCalm, AddressCalm DEF PodStep
<1>5. ASSUME NEW n \in Nodes, NodeStep(n)  PROVE CalmInv'
  BY <1>1, <1>5, NoSetCalm, CreatingCalm, AddressCalm DEF NodeStep
<1>6. ASSUME NEW i \in Infos, DestroyerStep(i)  PROVE CalmInv'
  BY <1>1, <1>6, NoSetCalm, DestroyCalm DEF DestroyerStep
<1>7. ASSUME NEW w \in Pods \cup Nodes, WaitTimeout(w)  PROVE CalmInv'
  BY <1>1, <1>7, NoSetCalm
<1>8. ASSUME NEW ns \in NS, Panic(ns)  PROVE CalmInv'
  BY <1>8, StutterCalm DEF Panic, ctrlVars, thrVars, dbVars
<1>9. CASE UNCHANGED vars
  BY <1>9, StutterCalm DEF vars, ctrlVars, thrVars, dbVars
<1> QED  BY <1>2, <1>3, <1>4, <1>5, <1>6, <1>7, <1>8, <1>9 DEF Next, Step

LEMMA FaultyStays == [Next]_vars => faulty' = faulty
BY DEF Next, vars

\* As long as no database command fails, no handler that raced with the
\* deletion of a namespace leaves an address in its set: policies that still
\* refer to the set match nothing.
THEOREM DeletedSetsAreEmpty == Spec => [](~faulty => DeletedSetStaysEmpty)
<1> DEFINE I == ~faulty => CalmInv
<1>1. Init => I
  BY InitCalm
<1>2. Inv /\ SetInv /\ I /\ [Next]_vars => I'
  BY NextCalm, FaultyStays
<1>3. I => (~faulty => DeletedSetStaysEmpty)
  BY DEF CalmInv
<1> HIDE DEF I
<1> QED  BY <1>1, <1>2, <1>3, InitInv, NextInv, InitSets, NextSets, PTL DEF Spec

-----------------------------------------------------------------------------
(* A namespace is created again only once its deletion has been handled: the *)
(* queues are short histories of what the API server did.                    *)

PopTypes ==
  /\ annotated \in [NS -> BOOLEAN]
  /\ phase \in [Pods -> {"none", "pending", "running", "gone"}]
  /\ podQueue \in [Pods -> Seq(Events)]
  /\ retryPods \in SUBSET Pods
  /\ portCache \in SUBSET Pods
  /\ multicast \in [Infos -> BOOLEAN]
  /\ group \in [NS -> {None} \cup SUBSET Pods]

\* An add is the first event of a queue; a delete is the last one, and there
\* is one exactly when the namespace is gone.
QueueShape ==
  \A ns \in NS : LET q == nsQueue[ns] IN \A k \in 1 .. Len(q) :
    /\ q[k].op \in {"add", "update", "delete"}
    /\ q[k].op = "add" => k = 1
    /\ q[k].op = "delete" <=> (k = Len(q) /\ ~lister[ns])

\* The delete of the namespace, if any, has not been taken from the queue.
Ahead(ns) == lister[ns] \/ nsQueue[ns] # <<>>

Announced(ns) ==
  /\ namespaces[ns] = None /\ pc[ns] = "idle"
  /\ nsQueue[ns] # <<>> /\ nsQueue[ns][1].op = "add"

Present(ns) ==
  /\ namespaces[ns] # None
  /\ pc[ns] # "idle" => job[ns].op \in {"add", "update"}
  /\ pc[ns] # "cleanup"
  /\ nsQueue[ns] # <<>> => nsQueue[ns][1].op # "add"

Leaving(ns) ==
  \/ namespaces[ns] = None /\ pc[ns] \in {"idle", "cleanup"}
  \/ namespaces[ns] # None /\ Deleting(ns)

NsStage == \A ns \in NS : IF Ahead(ns) THEN Announced(ns) \/ Present(ns) ELSE Leaving(ns)

\* The last thing the controller was or will be told about multicast.
Told(ns) ==
  IF nsQueue[ns] # <<>> THEN nsQueue[ns][Len(nsQueue[ns])].mcast
  ELSE IF pc[ns] # "idle" THEN job[ns].mcast ELSE multicast[namespaces[ns]]

McastFollows == \A ns \in NS : lister[ns] => Told(ns) = annotated[ns]

NsInv == PopTypes /\ QueueShape /\ NsStage /\ McastFollows

\* NsInv is about the worker, the queue and the table entry of each namespace.
LEMMA NsOneWorker ==
  ASSUME Inv, NsInv, PopTypes', NEW ns \in NS,
         \A m \in NS \ {ns} : /\ nsQueue'[m] = nsQueue[m] /\ lister'[m] = lister[m]
                              /\ annotated'[m] = annotated[m]
                              /\ pc'[m] = pc[m] /\ job'[m] = job[m]
                              /\ namespaces'[m] = namespaces[m],
         \A i \in Infos : multicast'[i] = multicast[i] \/ nsOf[i] = ns,
         EntryIsNamed,
         \A k \in 1 .. Len(nsQueue'[ns]) :
            /\ nsQueue'[ns][k].op \in {"add", "update", "delete"}
            /\ nsQueue'[ns][k].op = "add" => k = 1
            /\ nsQueue'[ns][k].op = "delete" <=> (k = Len(nsQueue'[ns]) /\ ~lister'[ns]),
         IF Ahead(ns)' THEN Announced(ns)' \/ Present(ns)' ELSE Leaving(ns)',
         lister'[ns] => Told(ns)' = annotated'[ns]
  PROVE  NsInv'
<1> USE DEF NsInv
<1>1. QueueShape'
  BY DEF QueueShape
<1>2. NsStage'
  <2> SUFFICES ASSUME NEW m \in NS, m # ns
               PROVE  IF Ahead(m)' THEN Announced(m)' \/ Present(m)' ELSE Leaving(m)'
    BY DEF NsStage
  <2>1. /\ Ahead(m)' = Ahead(m) /\ Announced(m)' = Announced(m)
        /\ Present(m)' = Present(m) /\ Leaving(m)' = Leaving(m)
    BY DEF Ahead, Announced, Present, Leaving, Deleting
  <2> QED  BY <2>1 DEF NsStage
<1>3. McastFollows'
  <2> SUFFICES ASSUME NEW m \in NS, m # ns, lister'[m]
               PROVE  Told(m)' = annotated'[m]
    BY DEF McastFollows
  <2>1. Told(m) = annotated[m] /\ lister[m]
    BY DEF McastFollows
  <2>2. CASE nsQueue[m] # <<>> \/ pc[m] # "idle"
    BY <2>1, <2>2 DEF Told
  <2>3. CASE nsQueue[m] = <<>> /\ pc[m] = "idle"
    <3>1. namespaces[m] \in Infos
      BY <2>1, <2>3 DEF NsStage, Ahead, Announced, Present, Inv, LockTypes
    <3>2. multicast'[namespaces[m]] = multicast[namespaces[m]]
      <4>1. namespaces[m] # None
        BY <3>1, DisjointAssumption DEF Infos
      <4>2. nsOf[namespaces[m]] = m
        BY <4>1 DEF EntryIsNamed
      <4> QED  BY <3>1, <4>2
    <3> QED  BY <2>1, <2>3, <3>2 DEF Told
  <2> QED  BY <2>2, <2>3
<1> QED  BY <1>1, <1>2, <1>3

\* Nothing of a namespace's worker, queue or entry changes.
LEMMA NsStutter ==
  ASSUME NsInv, PopTypes',
         UNCHANGED <<nsQueue, lister, annotated, namespaces, multicast>>,
         \A m \in NS : pc'[m] = pc[m] /\ job'[m] = job[m]
  PROVE  NsInv'
<1>1. \A m \in NS : /\ Ahead(m)' = Ahead(m) /\ Announced(m)' = Announced(m)
                    /\ Present(m)' = Present(m) /\ Leaving(m)' = Leaving(m)
                    /\ Told(m)' = Told(m)
  BY DEF Ahead, Announced, Present, Leaving, Deleting, Told
<1> QED  BY <1>1 DEF NsInv, QueueShape, NsStage, McastFollows

LEMMA PopTypesNext == Inv /\ PopTypes /\ [Next]_vars => PopTypes'
<1> SUFFICES ASSUME Inv, PopTypes, [Next]_vars PROVE PopTypes'
  OBVIOUS
<1> USE DEF apiVars, qVars, ctrlVars, podVars, dbVars, thrVars
<1>1. \A op \in {"add", "update", "delete"} : \A on \in BOOLEAN : Event(op, on) \in Events
  BY EventTypes
<1>2. CASE API
  <2>1. ASSUME NEW ns \in NS, CreateNS(ns) \/ UpdateNS(ns) \/ DeleteNS(ns)  PROVE PopTypes'
    BY <2>1 DEF CreateNS, UpdateNS, DeleteNS, PopTypes
  <2>2. ASSUME NEW p \in Pods, CreatePod(p) \/ PodGetsIP(p) \/ DeletePod(p)  PROVE PopTypes'
    <3>1. phase' \in [Pods -> {"none", "pending", "running", "gone"}]
      BY <2>2 DEF CreatePod, PodGetsIP, DeletePod, PopTypes
    <3>2. podQueue' \in [Pods -> Seq(Events)]
      <4>1. \A e \in Events : Append(podQueue[p], e) \in Seq(Events)
        BY DEF PopTypes
      <4>2. Event("add", FALSE) \in Events /\ Event("delete", FALSE) \in Events
        BY <1>1
      <4> QED  BY <2>2, <4>1, <4>2 DEF CreatePod, PodGetsIP, DeletePod, PopTypes
    <3> QED  BY <2>2, <3>1, <3>2 DEF CreatePod, PodGetsIP, DeletePod, PopTypes
  <2> QED  BY <1>2, <2>1, <2>2 DEF API
<1>3. ASSUME NEW w \in Workers, Outcome(w, TRUE) \/ Outcome(w, FALSE)
      PROVE  retryPods' \in SUBSET Pods
  BY <1>3 DEF Outcome, PopTypes
<1>4. ASSUME NEW w \in Workers, Locking(w) \/ ListPods(w)
      PROVE  PopTypes'
  BY <1>4 DEF Locking, Lookup, Lock, RecheckStale, RecheckOK, ListPods, PopTypes
<1>5. ASSUME NEW w \in Workers, FindSet(w) \/ WriteSet(w)
      PROVE  PopTypes'
  <2>1. retryPods' = retryPods \/ Outcome(w, FALSE)
    BY <1>5 DEF FindSet, WriteSet, CreateFailed, Finish
  <2>2. retryPods' \in SUBSET Pods
    BY <1>3, <2>1 DEF PopTypes
  <2> QED  BY <1>5, <2>2 DEF FindSet, WriteSet, PopTypes
<1>6. ASSUME NEW ns \in NS, NSStep(ns)  PROVE PopTypes'
  <2>1. ns \in Workers /\ ns \notin Pods
    BY DisjointAssumption DEF Workers
  <2>2. CASE StartNS(ns) \/ createNamespaceLocked(ns) \/ deleteNamespaceLocked(ns)
    BY <2>2 DEF StartNS, createNamespaceLocked, deleteNamespaceLocked, PopTypes
  <2>3. CASE Cleanup(ns)
    <3>1. retryPods' \in SUBSET Pods
      BY <1>3, <2>1, <2>3 DEF Cleanup, Finish
    <3> QED  BY <2>3, <3>1 DEF Cleanup, PopTypes
  <2>4. CASE multicastUpdateNamespace(ns)
    <3>1. retryPods' \in SUBSET Pods
      BY <1>3, <2>1, <2>4 DEF multicastUpdateNamespace, Finish
    <3>2. job[ns].mcast \in BOOLEAN
      BY <2>1 DEF Inv, LockTypes, Events
    <3>3. GroupPorts(ns) \in SUBSET Pods /\ Ports(ns) \in SUBSET Pods
      BY DEF GroupPorts, Ports, PodsIn, PopTypes
    <3>4. multicast' \in [Infos -> BOOLEAN]
      BY <2>4, <3>2 DEF multicastUpdateNamespace, PopTypes
    <3>5. group' \in [NS -> {None} \cup SUBSET Pods]
      BY <2>4, <3>3 DEF multicastUpdateNamespace, PopTypes
    <3> QED  BY <2>4, <3>1, <3>4, <3>5 DEF multicastUpdateNamespace, PopTypes
  <2> QED  BY <1>4, <1>5, <1>6, <2>1, <2>2, <2>3, <2>4 DEF NSStep, Creating
<1>7. ASSUME NEW w \in Pods \cup Nodes, AddIPs(w)  PROVE PopTypes'
  <2>1. w \in Workers
    BY DEF Workers
  <2>2. retryPods' \in SUBSET Pods
    <3>1. PICK x \in BOOLEAN : Outcome(w, x)
      BY <1>7 DEF AddIPs, Finish
    <3> QED  BY <1>3, <2>1, <3>1
  <2>3. group' \in [NS -> {None} \cup SUBSET Pods]
    <3>1. \/ group' = group
          \/ w \in Pods /\ group[Target(w)] # None /\ group' = [group EXCEPT ![Target(w)] = @ \cup {w}]
      BY <1>7 DEF AddIPs
    <3> QED  BY <3>1 DEF PopTypes
  <2> QED  BY <1>7, <2>2, <2>3 DEF AddIPs, PopTypes
<1>8. ASSUME NEW p \in Pods, RemoveIPs(p)  PROVE PopTypes'
  <2>1. retryPods' \in SUBSET Pods
    BY <1>3, <1>8 DEF RemoveIPs, Finish, Workers
  <2>2. group' \in [NS -> {None} \cup SUBSET Pods]
    BY <1>8 DEF RemoveIPs, PopTypes
  <2> QED  BY <1>8, <2>1, <2>2 DEF RemoveIPs, PopTypes
<1>9. ASSUME NEW p \in Pods, PodStep(p)  PROVE PopTypes'
  <2>1. CASE StartPodAdd(p) \/ StartPodDelete(p)
    <3>1. podQueue[p] # <<>> => Tail(podQueue[p]) \in Seq(Events)
      BY DEF PopTypes
    <3>2. podQueue' \in [Pods -> Seq(Events)]
      BY <2>1, <3>1 DEF StartPodAdd, StartPodDelete, PopTypes
    <3> QED  BY <2>1, <3>2 DEF StartPodAdd, StartPodDelete, PopTypes
  <2> QED  BY <1>4, <1>5, <1>7, <1>8, <1>9, <2>1 DEF PodStep, Creating, Workers
<1>10. ASSUME NEW n \in Nodes, NodeStep(n)  PROVE PopTypes'
  <2>1. CASE StartNode(n)
    BY <2>1 DEF StartNode, PopTypes
  <2> QED  BY <1>4, <1>5, <1>7, <1>10, <2>1 DEF NodeStep, Creating, Workers
<1>11. ASSUME NEW i \in Infos, DestroyerStep(i)  PROVE PopTypes'
  <2>1. CASE DestroyTimer(i)
    BY <2>1 DEF DestroyTimer, PopTypes
  <2>2. CASE SkipDestroy(i) \/ Destroy(i)
    <3>1. retryPods' \in SUBSET Pods
      BY <1>3, <2>2 DEF SkipDestroy, Destroy, Finish, Workers
    <3> QED  BY <2>2, <3>1 DEF SkipDestroy, Destroy, PopTypes
  <2> QED  BY <1>4, <1>11, <2>1, <2>2 DEF DestroyerStep, Workers
<1>12. ASSUME NEW w \in Pods \cup Nodes, WaitTimeout(w)  PROVE PopTypes'
  <2>1. retryPods' \in SUBSET Pods
    BY <1>3, <1>12 DEF WaitTimeout, Finish, Workers
  <2> QED  BY <1>12, <2>1 DEF WaitTimeout, PopTypes
<1>13. CASE \E ns \in NS : Panic(ns)
  BY <1>13 DEF Panic, PopTypes
<1>14. CASE UNCHANGED vars
  BY <1>14 DEF vars, PopTypes
<1> QED  BY <1>2, <1>6, <1>9, <1>10, <1>11, <1>12, <1>13, <1>14 DEF Next, Step

\* The other workers stay where they are.
Alone(w) ==
  \A v \in Workers \ {w} :
    pc'[v] = pc[v] /\ job'[v] = job[v] /\ cur'[v] = cur[v] /\ listed'[v] = listed[v]

LEMMA WorkerFrame ==
  ASSUME Inv, SetInv, NEW w \in Workers,
         \/ Locking(w) \/ Creating(w) \/ WaitTimeout(w)
         \/ StartNS(w) \/ createNamespaceLocked(w) \/ StartPodAdd(w) \/ StartPodDelete(w)
         \/ StartNode(w) \/ DestroyTimer(w) \/ Cleanup(w) \/ multicastUpdateNamespace(w)
         \/ SkipDestroy(w) \/ Destroy(w) \/ AddIPs(w) \/ RemoveIPs(w)
  PROVE  Alone(w)
<1> USE DEF Inv, LockTypes, SetInv, SetTypes
<1>1. \A v \in Workers \ {w} : pc'[v] = pc[v]
  BY DEF Locking, Lookup, Lock, RecheckStale, RecheckOK, Creating, ListPods, FindSet, WriteSet,
         CreateFailed, WaitTimeout, StartNS, createNamespaceLocked, StartPodAdd, StartPodDelete,
         StartNode, DestroyTimer, Cleanup, multicastUpdateNamespace, SkipDestroy, Destroy,
         AddIPs, RemoveIPs, NilInfo, Finish, Goto, thrVars
<1>2. \A v \in Workers \ {w} : job'[v] = job[v]
  BY DEF Locking, Lookup, Lock, RecheckStale, RecheckOK, Creating, ListPods, FindSet, WriteSet,
         CreateFailed, WaitTimeout, StartNS, createNamespaceLocked, StartPodAdd, StartPodDelete,
         StartNode, DestroyTimer, Cleanup, multicastUpdateNamespace, SkipDestroy, Destroy,
         AddIPs, RemoveIPs, NilInfo, Finish, Goto, thrVars
<1>3. \A v \in Workers \ {w} : cur'[v] = cur[v]
  BY DEF Locking, Lookup, Lock, RecheckStale, RecheckOK, Creating, ListPods, FindSet, WriteSet,
         CreateFailed, WaitTimeout, StartNS, createNamespaceLocked, StartPodAdd, StartPodDelete,
         StartNode, DestroyTimer, Cleanup, multicastUpdateNamespace, SkipDestroy, Destroy,
         AddIPs, RemoveIPs, NilInfo, Finish, Goto, thrVars
<1>4. \A v \in Workers \ {w} : listed'[v] = listed[v]
  BY DEF Locking, Lookup, Lock, RecheckStale, RecheckOK, Creating, ListPods, FindSet, WriteSet,
         CreateFailed, WaitTimeout, StartNS, createNamespaceLocked, StartPodAdd, StartPodDelete,
         StartNode, DestroyTimer, Cleanup, multicastUpdateNamespace, SkipDestroy, Destroy,
         AddIPs, RemoveIPs, NilInfo, Finish, Goto, thrVars
<1> QED  BY <1>1, <1>2, <1>3, <1>4 DEF Alone

\* Pods, nodes and destroyers change nothing that NsInv is about.
LEMMA NsOthers ==
  ASSUME Inv, SetInv, NsInv, PopTypes', NEW w \in Workers \ NS,
         \/ Locking(w) \/ Creating(w) \/ WaitTimeout(w) \/ StartPodAdd(w) \/ StartPodDelete(w)
         \/ StartNode(w) \/ DestroyTimer(w) \/ SkipDestroy(w) \/ Destroy(w)
         \/ AddIPs(w) \/ RemoveIPs(w)
  PROVE  NsInv'
<1>1. Alone(w)
  BY WorkerFrame
<1>2. UNCHANGED <<nsQueue, lister, annotated, namespaces, multicast>>
  BY DEF Locking, Lookup, Lock, RecheckStale, RecheckOK, Creating, ListPods, FindSet, WriteSet,
         WaitTimeout, StartPodAdd, StartPodDelete, StartNode, DestroyTimer, SkipDestroy, Destroy,
         AddIPs, RemoveIPs, apiVars, qVars, ctrlVars
<1> QED  BY <1>1, <1>2, NsStutter DEF Alone, Workers

\* Queues of events.
LEMMA QueueFacts ==
  ASSUME NEW q \in Seq(Events)
  PROVE  /\ Len(q) \in Nat
         /\ q # <<>> => /\ Len(q) >= 1 /\ Head(q) = q[1]
                        /\ Tail(q) \in Seq(Events) /\ Len(Tail(q)) = Len(q) - 1
                        /\ \A k \in 1 .. Len(Tail(q)) : Tail(q)[k] = q[k + 1]
                        /\ Tail(q) # <<>> <=> Len(q) > 1
         /\ q = <<>> <=> Len(q) = 0
         /\ \A e \in Events : LET r == Append(q, e) IN
              /\ r \in Seq(Events) /\ r # <<>> /\ Len(r) = Len(q) + 1 /\ r[Len(r)] = e
              /\ \A k \in 1 .. Len(q) : r[k] = q[k]
  OBVIOUS

LEMMA NsAPI ==
  ASSUME Inv, SetInv, NsInv, PopTypes', ~LaggingDelete, NEW ns \in NS,
         CreateNS(ns) \/ UpdateNS(ns) \/ DeleteNS(ns)
  PROVE  NsInv'
<1> USE DEF ctrlVars, thrVars, qVars
<1> DEFINE q == nsQueue[ns]
<1>1. q \in Seq(Events) /\ lister[ns] \in BOOLEAN /\ annotated[ns] \in BOOLEAN
  BY DEF Inv, LockTypes, NsInv, PopTypes
<1>2. EntryIsNamed /\ UNCHANGED <<namespaces, pc, job, multicast>>
  BY DEF CreateNS, UpdateNS, DeleteNS, SetInv
<1>3. \A m \in NS \ {ns} : nsQueue'[m] = nsQueue[m] /\ lister'[m] = lister[m] /\ annotated'[m] = annotated[m]
  BY DEF CreateNS, UpdateNS, DeleteNS, Inv, LockTypes, NsInv, PopTypes
<1>4. PICK e \in Events : /\ nsQueue'[ns] = Append(q, e)
                          /\ lister'[ns] => e.mcast = annotated'[ns]
                          /\ \/ e.op = "add" /\ q = <<>> /\ pc[ns] = "idle" /\ ~lister[ns] /\ lister'[ns]
                             \/ e.op = "update" /\ lister[ns] /\ lister'[ns]
                             \/ e.op = "delete" /\ lister[ns] /\ ~lister'[ns]
  <2>1. CASE CreateNS(ns)
    <3>1. PICK on \in BOOLEAN : /\ annotated' = [annotated EXCEPT ![ns] = on]
                                /\ nsQueue' = [nsQueue EXCEPT ![ns] = Append(@, Event("add", on))]
      BY <2>1 DEF CreateNS
    <3> QED  BY <2>1, <3>1, EventTypes DEF CreateNS, Event, Inv, LockTypes, NsInv, PopTypes
  <2>2. CASE UpdateNS(ns)
    <3>1. (~annotated[ns]) \in BOOLEAN
      BY <1>1
    <3> QED  BY <2>2, <3>1, EventTypes DEF UpdateNS, Event, Inv, LockTypes, NsInv, PopTypes
  <2>3. CASE DeleteNS(ns)
    BY <2>3, EventTypes DEF DeleteNS, Event, Inv, LockTypes, NsInv, PopTypes
  <2> QED  BY <2>1, <2>2, <2>3
<1> DEFINE r == nsQueue'[ns]
<1>5. /\ r # <<>> /\ Len(r) = Len(q) + 1 /\ r[Len(r)] = e /\ Len(q) \in Nat
      /\ \A k \in 1 .. Len(q) : r[k] = q[k]
      /\ q = <<>> <=> Len(q) = 0
  BY <1>1, <1>4, QueueFacts
<1>6. \A k \in 1 .. Len(q) : /\ q[k].op \in {"add", "update", "delete"}
                             /\ q[k].op = "add" => k = 1
                             /\ q[k].op = "delete" <=> (k = Len(q) /\ ~lister[ns])
  BY DEF NsInv, QueueShape
<1>7. \A k \in 1 .. Len(r) : /\ r[k].op \in {"add", "update", "delete"}
                             /\ r[k].op = "add" => k = 1
                             /\ r[k].op = "delete" <=> (k = Len(r) /\ ~lister'[ns])
  <2> SUFFICES ASSUME NEW k \in 1 .. Len(r)
               PROVE  /\ r[k].op \in {"add", "update", "delete"}
                      /\ r[k].op = "add" => k = 1
                      /\ r[k].op = "delete" <=> (k = Len(r) /\ ~lister'[ns])
    OBVIOUS
  <2>1. CASE k = Len(r)
    BY <1>4, <1>5, <2>1
  <2>2. CASE k # Len(r)
    <3>1. k \in 1 .. Len(q) /\ r[k] = q[k] /\ Len(q) > 0
      BY <1>5, <2>2
    <3>2. lister[ns]
      BY <1>4, <1>5, <3>1
    <3> QED  BY <1>6, <2>2, <3>1, <3>2
  <2> QED  BY <2>1, <2>2
<1>8. Ahead(ns)' /\ (lister'[ns] => Told(ns)' = annotated'[ns])
  BY <1>4, <1>5 DEF Ahead, Told
<1>9. Announced(ns)' \/ Present(ns)'
  <2>1. CASE lister[ns]
    <3>1. Announced(ns) \/ Present(ns)
      BY <2>1 DEF NsInv, NsStage, Ahead
    <3>2. q # <<>> => r[1] = q[1]
      BY <1>5
    <3>3. q = <<>> => r[1] = e /\ e.op # "add"
      BY <1>4, <1>5, <2>1
    <3> QED  BY <1>2, <1>5, <3>1, <3>2, <3>3 DEF Announced, Present
  <2>2. CASE ~lister[ns]
    <3>1. e.op = "add" /\ q = <<>> /\ pc[ns] = "idle" /\ r[1] = e
      BY <1>4, <1>5, <2>2
    <3>2. namespaces[ns] = None
      BY <2>2, <3>1 DEF NsInv, NsStage, Ahead, Leaving, Deleting
    <3> QED  BY <1>2, <1>5, <3>1, <3>2 DEF Announced
  <2> QED  BY <2>1, <2>2
<1>10. \A m \in NS \ {ns} : pc'[m] = pc[m] /\ job'[m] = job[m] /\ namespaces'[m] = namespaces[m]
  BY <1>2
<1>11. \A i \in Infos : multicast'[i] = multicast[i]
  BY <1>2
<1> HIDE DEF q, r
<1> QED  BY <1>2, <1>3, <1>7, <1>8, <1>9, <1>10, <1>11, NsOneWorker DEF r

\* The worker of ns goes on with its event.
LEMMA NsMoves ==
  ASSUME Inv, SetInv, NsInv, PopTypes', NEW ns \in NS, Alone(ns),
         UNCHANGED <<nsQueue, lister, annotated, namespaces, multicast, job>>,
         pc[ns] # "idle", pc'[ns] # "idle",
         \/ Present(ns) /\ pc'[ns] # "cleanup"
         \/ ~Ahead(ns) /\ Deleting(ns) /\ namespaces[ns] # None /\ pc'[ns] \in {"lookup", "lock", "recheck"}
  PROVE  NsInv'
<1>1. \A k \in 1 .. Len(nsQueue'[ns]) :
        /\ nsQueue'[ns][k].op \in {"add", "update", "delete"}
        /\ nsQueue'[ns][k].op = "add" => k = 1
        /\ nsQueue'[ns][k].op = "delete" <=> (k = Len(nsQueue'[ns]) /\ ~lister'[ns])
  BY DEF NsInv, QueueShape
<1>2. Ahead(ns)' = Ahead(ns) /\ (Present(ns) /\ pc'[ns] # "cleanup" => Present(ns)')
  BY DEF Ahead, Present
<1>3. IF Ahead(ns)' THEN Announced(ns)' \/ Present(ns)' ELSE Leaving(ns)'
  <2>1. CASE Ahead(ns)
    BY <1>2, <2>1 DEF Ahead
  <2>2. CASE ~Ahead(ns)
    <3>1. Leaving(ns)
      BY <2>2 DEF NsInv, NsStage
    <3>2. Deleting(ns) /\ namespaces[ns] # None /\ pc'[ns] \in {"lookup", "lock", "recheck"}
      BY <2>2, <3>1 DEF Leaving, Deleting, Present
    <3> QED  BY <1>2, <2>2, <3>2 DEF Leaving, Deleting
  <2> QED  BY <2>1, <2>2
<1>4. lister'[ns] => Told(ns)' = annotated'[ns]
  BY DEF NsInv, McastFollows, Told
<1>5. EntryIsNamed
  BY DEF SetInv
<1>6. \A m \in NS \ {ns} : pc'[m] = pc[m] /\ job'[m] = job[m]
  BY DEF Alone, Workers
<1> QED  BY <1>1, <1>3, <1>4, <1>5, <1>6, NsOneWorker

LEMMA NsLocking ==
  ASSUME Inv, SetInv, NsInv, PopTypes', NEW ns \in NS, Locking(ns) \/ (Creating(ns) /\ ~faulty)
  PROVE  NsInv'
<1> USE DEF apiVars, qVars, ctrlVars
<1>1. ns \in Workers /\ Target(ns) = ns
  BY DEF Workers, Target
<1>2. Alone(ns)
  BY <1>1, WorkerFrame
<1>3. UNCHANGED <<nsQueue, lister, annotated, namespaces, multicast>>
  BY DEF Locking, Lookup, Lock, RecheckStale, RecheckOK, Creating, ListPods, FindSet, WriteSet
<1>4. pc[ns] \in {"lookup", "lock", "recheck", "list", "find", "write"}
  BY DEF Locking, Lookup, Lock, RecheckStale, RecheckOK, Creating, ListPods, FindSet, WriteSet
<1>5. Present(ns) \/ (~Ahead(ns) /\ Deleting(ns) /\ namespaces[ns] # None)
  BY <1>4 DEF NsInv, NsStage, Announced, Leaving
<1>6. namespaces[ns] # None
  BY <1>5 DEF Present
<1>7. Deleting(ns) => pc[ns] \in {"lookup", "lock", "recheck"} /\ job[ns].op = "delete"
  BY DEF Deleting
<1>8. ~RecheckStale(ns)
  BY <1>1 DEF RecheckStale, Stale, Inv, OwnEntry
<1>9. ~Waits(ns)
  BY DisjointAssumption DEF Waits
<1>10. /\ UNCHANGED job /\ pc'[ns] \notin {"idle", "cleanup"}
       /\ Deleting(ns) => pc'[ns] \in {"lookup", "lock", "recheck"}
  <2>1. pc \in [Workers -> Labels]
    BY DEF Inv, LockTypes
  <2>2. CASE Lookup(ns)
    BY <1>1, <1>6, <2>1, <2>2 DEF Lookup, Goto
  <2>3. CASE Lock(ns)
    BY <1>1, <2>1, <2>3 DEF Lock, Goto
  <2>4. CASE RecheckOK(ns)
    BY <1>1, <1>7, <2>1, <2>4 DEF RecheckOK, Goto, AfterLock
  <2>5. CASE Creating(ns) /\ ~faulty
    BY <1>1, <1>7, <2>1, <2>5 DEF Creating, ListPods, FindSet, WriteSet, CreateFailed, Goto
  <2> QED  BY <1>8, <2>2, <2>3, <2>4, <2>5 DEF Locking
<1> QED  BY <1>2, <1>3, <1>4, <1>5, <1>10, NsMoves DEF Present

LEMMA NsTakes ==
  ASSUME Inv, SetInv, NsInv, PopTypes', NEW ns \in NS, StartNS(ns) \/ createNamespaceLocked(ns)
  PROVE  NsInv'
<1> USE DEF apiVars, qVars, ctrlVars
<1> DEFINE q == nsQueue[ns]
           r == nsQueue'[ns]
<1>1. ns \in Workers /\ q \in Seq(Events) /\ pc[ns] = "idle" /\ q # <<>>
  BY DEF Workers, StartNS, createNamespaceLocked, Inv, LockTypes
<1>2. Alone(ns)
  BY <1>1, WorkerFrame
<1>3. UNCHANGED <<lister, annotated, multicast>>
  BY DEF StartNS, createNamespaceLocked
<1>4. job'[ns] = q[1] /\ r = Tail(q) /\ pc'[ns] \notin {"idle", "cleanup"}
  BY <1>1, QueueFacts DEF StartNS, createNamespaceLocked, Goto, Inv, LockTypes
<1>5. \A m \in NS \ {ns} : nsQueue'[m] = nsQueue[m] /\ namespaces'[m] = namespaces[m]
  BY DEF StartNS, createNamespaceLocked, Inv, LockTypes
<1>6. /\ Len(q) \in Nat /\ Len(q) >= 1 /\ Len(r) = Len(q) - 1
      /\ \A k \in 1 .. Len(r) : r[k] = q[k + 1]
      /\ r # <<>> <=> Len(q) > 1
  BY <1>1, <1>4, QueueFacts
<1>7. \A k \in 1 .. Len(q) : /\ q[k].op \in {"add", "update", "delete"}
                             /\ q[k].op = "add" => k = 1
                             /\ q[k].op = "delete" <=> (k = Len(q) /\ ~lister[ns])
  BY DEF NsInv, QueueShape
<1>8. \A k \in 1 .. Len(r) : /\ r[k].op \in {"add", "update", "delete"}
                             /\ r[k].op = "add" => k = 1
                             /\ r[k].op = "delete" <=> (k = Len(r) /\ ~lister'[ns])
  BY <1>3, <1>6, <1>7
<1>9. Announced(ns) \/ Present(ns)
  BY <1>1 DEF NsInv, NsStage, Ahead
<1>10. namespaces'[ns] # None
  <2>1. CASE StartNS(ns)
    <3>1. q[1].op # "add"
      BY <1>1, <2>1, QueueFacts DEF StartNS
    <3> QED  BY <1>9, <2>1, <3>1 DEF StartNS, Announced, Present
  <2>2. CASE createNamespaceLocked(ns)
    BY <2>2, DisjointAssumption DEF createNamespaceLocked, Inv, LockTypes, Infos
  <2> QED  BY <2>1, <2>2
<1>11. r # <<>> => r[1].op # "add"
  BY <1>6, <1>7
<1>12. IF Ahead(ns)' THEN Announced(ns)' \/ Present(ns)' ELSE Leaving(ns)'
  <2>1. CASE q[1].op # "delete"
    <3>1. q[1].op \in {"add", "update"}
      BY <1>6, <1>7, <2>1
    <3>2. lister[ns] \/ Len(q) > 1
      BY <1>6, <1>7, <2>1
    <3> QED  BY <1>3, <1>4, <1>6, <1>10, <1>11, <3>1, <3>2 DEF Ahead, Present
  <2>2. CASE q[1].op = "delete"
    <3>1. Len(q) = 1 /\ ~lister[ns]
      <4>1. 1 \in 1 .. Len(q)
        BY <1>6
      <4> QED  BY <1>7, <2>2, <4>1
    <3>2. StartNS(ns)
      BY <1>1, <2>2, QueueFacts DEF createNamespaceLocked
    <3>3. pc'[ns] = "lookup"
      BY <1>1, <3>2 DEF StartNS, Goto, Inv, LockTypes
    <3>4. r = <<>>
      BY <1>6, <3>1
    <3> QED  BY <1>3, <1>4, <1>10, <2>2, <3>1, <3>3, <3>4 DEF Ahead, Leaving, Deleting
  <2> QED  BY <2>1, <2>2
<1>13. lister'[ns] => Told(ns)' = annotated'[ns]
  <2> SUFFICES ASSUME lister[ns] PROVE Told(ns)' = annotated[ns]
    BY <1>3
  <2>1. q[Len(q)].mcast = annotated[ns]
    BY <1>1 DEF NsInv, McastFollows, Told
  <2>2. CASE r # <<>>
    <3>1. r[Len(r)] = q[Len(q)]
      BY <1>6, <2>2
    <3> QED  BY <2>1, <2>2, <3>1 DEF Told
  <2>3. CASE r = <<>>
    <3>1. Len(q) = 1
      BY <1>6, <2>3
    <3> QED  BY <1>4, <2>1, <2>3, <3>1 DEF Told
  <2> QED  BY <2>2, <2>3
<1>14. EntryIsNamed /\ \A m \in NS \ {ns} : /\ pc'[m] = pc[m] /\ job'[m] = job[m]
                                            /\ lister'[m] = lister[m] /\ annotated'[m] = annotated[m]
  BY <1>2, <1>3 DEF SetInv, Alone, Workers
<1>15. \A i \in Infos : multicast'[i] = multicast[i]
  BY <1>3
<1> HIDE DEF q, r
<1> QED  BY <1>5, <1>8, <1>12, <1>13, <1>14, <1>15, NsOneWorker DEF r

\* deleteNamespace cleans up after the object it took from the table.
CleansOwn == \A ns \in NS : pc[ns] = "cleanup" => cur[ns] \in Infos /\ nsOf[cur[ns]] = ns

LEMMA NsEnds ==
  ASSUME Inv, SetInv, CleansOwn, NsInv, PopTypes', NEW ns \in NS,
         deleteNamespaceLocked(ns) \/ Cleanup(ns) \/ multicastUpdateNamespace(ns)
  PROVE  NsInv'
<1> USE DEF apiVars, qVars, ctrlVars
<1>1. ns \in Workers /\ Target(ns) = ns /\ EntryIsNamed
  BY DEF Workers, Target, SetInv
<1>2. UNCHANGED <<nsQueue, lister, annotated>>
  BY DEF deleteNamespaceLocked, Cleanup, multicastUpdateNamespace
<1>3. \A k \in 1 .. Len(nsQueue'[ns]) :
        /\ nsQueue'[ns][k].op \in {"add", "update", "delete"}
        /\ nsQueue'[ns][k].op = "add" => k = 1
        /\ nsQueue'[ns][k].op = "delete" <=> (k = Len(nsQueue'[ns]) /\ ~lister'[ns])
  BY <1>2 DEF NsInv, QueueShape
<1>4. \A m \in NS \ {ns} : /\ pc'[m] = pc[m] /\ job'[m] = job[m]
                           /\ namespaces'[m] = namespaces[m]
  <2>1. CASE deleteNamespaceLocked(ns)
    <3>1. cur[ns] \notin NS
      BY <2>1, DisjointAssumption DEF deleteNamespaceLocked, Inv, LockTypes, Infos, Workers,
                                      OwnsWhatItHolds, Inside
    <3> QED  BY <2>1, <3>1 DEF deleteNamespaceLocked, Inv, LockTypes, Workers
  <2>2. CASE Cleanup(ns) \/ multicastUpdateNamespace(ns)
    <3>1. Alone(ns)
      BY <1>1, <2>2, WorkerFrame
    <3> QED  BY <2>2, <3>1 DEF Cleanup, multicastUpdateNamespace, Alone, Workers
  <2> QED  BY <2>1, <2>2
<1>5. \A i \in Infos : multicast'[i] = multicast[i] \/ nsOf[i] = ns
  <2>1. CASE deleteNamespaceLocked(ns)
    BY <2>1 DEF deleteNamespaceLocked
  <2>2. CASE Cleanup(ns)
    <3>1. nsOf[cur[ns]] = ns
      BY <2>2 DEF Cleanup, CleansOwn
    <3> QED  BY <2>2, <3>1 DEF Cleanup, NsInv, PopTypes
  <2>3. CASE multicastUpdateNamespace(ns)
    <3>1. namespaces[ns] = cur[ns] /\ cur[ns] \in Infos
      BY <1>1, <2>3 DEF multicastUpdateNamespace, Inv, HoldsCurrent, OwnsWhatItHolds, Inside, Holding
    <3>2. nsOf[cur[ns]] = ns
      BY <1>1, <3>1, DisjointAssumption DEF EntryIsNamed, Infos
    <3> QED  BY <2>3, <3>2 DEF multicastUpdateNamespace, NsInv, PopTypes
  <2> QED  BY <2>1, <2>2, <2>3
<1>6. CASE deleteNamespaceLocked(ns)
  <2>1. ~Ahead(ns)
    BY <1>6 DEF deleteNamespaceLocked, NsInv, NsStage, Announced, Present
  <2>2. namespaces'[ns] = None /\ pc'[ns] = "cleanup"
    <3>1. cur[ns] # ns
      BY <1>1, <1>6, DisjointAssumption
         DEF deleteNamespaceLocked, Inv, OwnsWhatItHolds, Inside, Infos
    <3>2. \/ pc' = [pc EXCEPT ![ns] = "cleanup"]
          \/ pc' = [pc EXCEPT ![ns] = "cleanup", ![cur[ns]] = "sleep"]
      BY <1>6 DEF deleteNamespaceLocked
    <3>3. pc'[ns] = "cleanup"
      BY <1>1, <3>1, <3>2 DEF Inv, LockTypes
    <3> QED  BY <1>6, <3>3 DEF deleteNamespaceLocked, Inv, LockTypes
  <2>3. ~Ahead(ns)' /\ ~lister'[ns] /\ Leaving(ns)'
    BY <1>2, <2>1, <2>2 DEF Ahead, Leaving
  <2> QED  BY <1>1, <1>2, <1>3, <1>4, <1>5, <2>3, NsOneWorker
<1>7. CASE Cleanup(ns)
  <2>1. ~Ahead(ns) /\ namespaces[ns] = None
    BY <1>7 DEF Cleanup, NsInv, NsStage, Announced, Present, Leaving, Deleting
  <2>2. namespaces'[ns] = None /\ pc'[ns] = "idle"
    BY <1>1, <1>7, <2>1 DEF Cleanup, Finish, Goto, Inv, LockTypes
  <2>3. ~Ahead(ns)' /\ ~lister'[ns] /\ Leaving(ns)'
    BY <1>2, <2>1, <2>2 DEF Ahead, Leaving
  <2> QED  BY <1>1, <1>2, <1>3, <1>4, <1>5, <2>3, NsOneWorker
<1>8. CASE multicastUpdateNamespace(ns)
  <2>1. Ahead(ns) /\ Present(ns)
    BY <1>8 DEF multicastUpdateNamespace, NsInv, NsStage, Announced, Leaving, Deleting
  <2>2. /\ namespaces' = namespaces /\ pc'[ns] = "idle"
        /\ multicast' = [multicast EXCEPT ![cur[ns]] = job[ns].mcast]
    BY <1>1, <1>8 DEF multicastUpdateNamespace, Finish, Goto, Inv, LockTypes
  <2>3. namespaces[ns] = cur[ns] /\ cur[ns] \in Infos
    BY <1>1, <1>8 DEF multicastUpdateNamespace, Inv, HoldsCurrent, OwnsWhatItHolds, Inside, Holding
  <2>4. Ahead(ns)' /\ Present(ns)'
    BY <1>2, <2>1, <2>2 DEF Ahead, Present
  <2>5. pc[ns] # "idle"
    BY <1>8 DEF multicastUpdateNamespace
  <2>6. lister'[ns] => Told(ns)' = annotated'[ns]
    BY <1>2, <2>2, <2>3, <2>5 DEF Told, NsInv, McastFollows, PopTypes
  <2> QED  BY <1>1, <1>2, <1>3, <1>4, <1>5, <2>4, <2>6, NsOneWorker
<1> QED  BY <1>6, <1>7, <1>8

LEMMA CleansNext == Inv /\ SetInv /\ CleansOwn /\ [Next]_vars => CleansOwn'
<1> SUFFICES ASSUME Inv, SetInv, CleansOwn, [Next]_vars PROVE CleansOwn'
  OBVIOUS
<1> USE DEF apiVars, qVars, ctrlVars, thrVars
<1>1. ASSUME UNCHANGED <<pc, cur, nsOf>>  PROVE CleansOwn'
  BY <1>1 DEF CleansOwn
<1>2. ASSUME NEW w \in Workers,
             \/ Locking(w) \/ Creating(w) \/ WaitTimeout(w)
             \/ StartNS(w) \/ StartPodAdd(w) \/ StartPodDelete(w)
             \/ StartNode(w) \/ DestroyTimer(w) \/ Cleanup(w) \/ multicastUpdateNamespace(w)
             \/ SkipDestroy(w) \/ Destroy(w) \/ AddIPs(w) \/ RemoveIPs(w)
      PROVE  CleansOwn'
  <2>1. Alone(w)
    BY <1>2, WorkerFrame
  <2>2. UNCHANGED nsOf
    BY <1>2 DEF Locking, Lookup, Lock, RecheckStale, RecheckOK, Creating, ListPods, FindSet, WriteSet,
         WaitTimeout, StartNS, StartPodAdd, StartPodDelete,
         StartNode, DestroyTimer, Cleanup, multicastUpdateNamespace, SkipDestroy, Destroy,
         AddIPs, RemoveIPs
  <2>3. pc'[w] # "cleanup"
    <3>1. pc \in [Workers -> Labels]
      BY DEF Inv, LockTypes
    <3>2. CASE Locking(w) \/ Creating(w) \/ WaitTimeout(w)
      BY <3>1, <3>2 DEF Locking, Lookup, Lock, RecheckStale, RecheckOK, Creating, ListPods, FindSet,
         WriteSet, CreateFailed, WaitTimeout, NilInfo, Finish, Goto, AfterLock
    <3>3. CASE ~(Locking(w) \/ Creating(w) \/ WaitTimeout(w))
      BY <1>2, <3>1, <3>3 DEF StartNS, StartPodAdd, StartPodDelete,
         StartNode, DestroyTimer, Cleanup, multicastUpdateNamespace, SkipDestroy, Destroy,
         AddIPs, RemoveIPs, Finish, Goto
    <3> QED  BY <3>2, <3>3
  <2> QED  BY <2>1, <2>2, <2>3 DEF CleansOwn, Alone, Workers
<1>3. ASSUME NEW w \in NS, createNamespaceLocked(w)  PROVE CleansOwn'
  <2>1. Alone(w) /\ pc'[w] = "list"
    BY <1>3, WorkerFrame DEF createNamespaceLocked, Goto, Inv, LockTypes, Workers
  <2>2. \A ns \in NS : cur[ns] # infos + 1
    <3>1. infos + 1 \in Infos /\ infos + 1 > infos
      BY <1>3 DEF createNamespaceLocked, Inv, LockTypes
    <3> QED  BY <3>1 DEF Inv, FreshInfos, Workers
  <2>3. \A ns \in NS : cur[ns] \in Infos => nsOf'[cur[ns]] = nsOf[cur[ns]]
    BY <1>3, <2>2 DEF createNamespaceLocked, Inv, LockTypes
  <2> QED  BY <2>1, <2>3 DEF CleansOwn, Alone, Workers
<1>4. ASSUME NEW w \in NS, deleteNamespaceLocked(w)  PROVE CleansOwn'
  <2>1. cur[w] \in Infos /\ namespaces[w] = cur[w] /\ cur[w] \notin NS
    BY <1>4, DisjointAssumption
       DEF deleteNamespaceLocked, Inv, OwnsWhatItHolds, Inside, Infos, Workers, Stale, Target
  <2>2. nsOf[cur[w]] = w
    BY <2>1, DisjointAssumption DEF SetInv, EntryIsNamed, Infos
  <2>3. \A ns \in NS \ {w} : pc'[ns] = pc[ns]
    BY <1>4, <2>1 DEF deleteNamespaceLocked, Inv, LockTypes, Workers
  <2>4. UNCHANGED <<cur, nsOf>>
    BY <1>4 DEF deleteNamespaceLocked
  <2> QED  BY <2>1, <2>2, <2>3, <2>4 DEF CleansOwn
<1>5. CASE API
  BY <1>1, <1>5 DEF API, CreateNS, UpdateNS, DeleteNS, CreatePod, PodGetsIP, DeletePod
<1>6. CASE \E ns \in NS : Panic(ns)
  BY <1>1, <1>6 DEF Panic
<1>7. CASE UNCHANGED vars
  BY <1>1, <1>7 DEF vars
<1> QED  BY <1>2, <1>3, <1>4, <1>5, <1>6, <1>7
            DEF Next, Step, NSStep, PodStep, NodeStep, DestroyerStep, Workers

LEMMA NextNs ==
  ASSUME ~LaggingDelete
  PROVE  ~faulty /\ Inv /\ SetInv /\ CleansOwn /\ NsInv /\ [Next]_vars => NsInv'
<1> SUFFICES ASSUME ~faulty, Inv, SetInv, CleansOwn, NsInv, [Next]_vars PROVE NsInv'
  OBVIOUS
<1>1. PopTypes'
  BY PopTypesNext DEF NsInv
<1>2. \A w \in Pods \cup Nodes \cup Infos : w \in Workers \ NS
  BY DisjointAssumption DEF Workers, Infos
<1>3. CASE API
  <2>1. ASSUME NEW p \in Pods, CreatePod(p) \/ PodGetsIP(p) \/ DeletePod(p)  PROVE NsInv'
    BY <1>1, <2>1, NsStutter DEF CreatePod, PodGetsIP, DeletePod, qVars, ctrlVars, thrVars
  <2> QED  BY <1>1, <1>3, <2>1, NsAPI DEF API
<1>4. ASSUME NEW ns \in NS, NSStep(ns)  PROVE NsInv'
  BY <1>1, <1>4, NsLocking, NsTakes, NsEnds DEF NSStep
<1>5. ASSUME NEW p \in Pods, PodStep(p)  PROVE NsInv'
  BY <1>1, <1>2, <1>5, NsOthers DEF PodStep
<1>6. ASSUME NEW n \in Nodes, NodeStep(n)  PROVE NsInv'
  BY <1>1, <1>2, <1>6, NsOthers DEF NodeStep
<1>7. ASSUME NEW i \in Infos, DestroyerStep(i)  PROVE NsInv'
  BY <1>1, <1>2, <1>7, NsOthers DEF DestroyerStep
<1>8. ASSUME NEW w \in Pods \cup Nodes, WaitTimeout(w)  PROVE NsInv'
  BY <1>1, <1>2, <1>8, NsOthers
<1>9. CASE \E ns \in NS : Panic(ns)
  BY <1>1, <1>9, NsStutter DEF Panic, apiVars, qVars, ctrlVars, thrVars
<1>10. CASE UNCHANGED vars
  BY <1>1, <1>10, NsStutter DEF vars, apiVars, qVars, ctrlVars, thrVars
<1> QED  BY <1>3, <1>4, <1>5, <1>6, <1>7, <1>8, <1>9, <1>10 DEF Next, Step

LEMMA InitNs == Init => NsInv /\ CleansOwn
<1> SUFFICES ASSUME Init PROVE NsInv /\ CleansOwn
  OBVIOUS
<1>1. \A ns \in NS : /\ pc[ns] = "idle" /\ namespaces[ns] = None
                     /\ nsQueue[ns] = IF lister[ns] THEN <<Event("add", annotated[ns])>> ELSE <<>>
  BY DEF Init, Workers
<1>2. annotated \in [NS -> BOOLEAN] /\ lister \in [NS -> BOOLEAN]
  BY DEF Init
<1>3. PopTypes
  <2>1. Event("add", FALSE) \in Events
    BY EventTypes
  <2>2. podQueue \in [Pods -> Seq(Events)]
    <3>1. <<>> \in Seq(Events) /\ <<Event("add", FALSE)>> \in Seq(Events)
      <4> DEFINE e == Event("add", FALSE)
      <4>1. e \in Events  BY <2>1
      <4> HIDE DEF e
      <4>2. <<e>> \in Seq(Events)  BY <4>1
      <4>3. <<>> \in Seq(Events)  OBVIOUS
      <4> QED  BY <4>2, <4>3, Zenon DEF e
    <3>2. \A p \in Pods : podQueue[p] \in Seq(Events)
      BY <3>1 DEF Init
    <3>3. podQueue = [p \in Pods |-> podQueue[p]]
      BY DEF Init
    <3> QED  BY <3>2, <3>3
  <2>3. group \in [NS -> {None} \cup SUBSET Pods]
    BY DEF Init
  <2> QED  BY <2>2, <2>3 DEF Init, PopTypes
<1>4. \A ns \in NS : lister[ns] => /\ nsQueue[ns] # <<>> /\ Len(nsQueue[ns]) = 1
                                   /\ nsQueue[ns][1] = Event("add", annotated[ns])
  <2> SUFFICES ASSUME NEW ns \in NS, lister[ns]
               PROVE  /\ nsQueue[ns] # <<>> /\ Len(nsQueue[ns]) = 1
                      /\ nsQueue[ns][1] = Event("add", annotated[ns])
    OBVIOUS
  <2>1. nsQueue[ns] = <<Event("add", annotated[ns])>>
    BY <1>1
  <2> QED  BY <2>1
<1>5. \A ns \in NS : ~lister[ns] => nsQueue[ns] = <<>> /\ Len(nsQueue[ns]) = 0
  <2> SUFFICES ASSUME NEW ns \in NS, ~lister[ns]
               PROVE  nsQueue[ns] = <<>> /\ Len(nsQueue[ns]) = 0
    OBVIOUS
  <2>1. nsQueue[ns] = <<>>
    BY <1>1
  <2> QED  BY <2>1
<1>6. \A on \in BOOLEAN : Event("add", on).op = "add" /\ Event("add", on).mcast = on
  BY DEF Event
<1>7. QueueShape
  BY <1>2, <1>4, <1>5, <1>6 DEF QueueShape
<1>8. NsStage
  <2> SUFFICES ASSUME NEW ns \in NS
               PROVE  IF Ahead(ns) THEN Announced(ns) \/ Present(ns) ELSE Leaving(ns)
    BY DEF NsStage
  <2>1. CASE lister[ns]
    <3>1. nsQueue[ns][1].op = "add"
      BY <1>2, <1>4, <1>6, <2>1
    <3>2. pc[ns] = "idle" /\ namespaces[ns] = None /\ nsQueue[ns] # <<>>
      BY <1>1, <1>4, <2>1
    <3> QED  BY <2>1, <3>1, <3>2 DEF Ahead, Announced
  <2>2. CASE ~lister[ns]
    <3>1. pc[ns] = "idle" /\ namespaces[ns] = None /\ nsQueue[ns] = <<>>
      BY <1>1, <1>5, <2>2
    <3> QED  BY <2>2, <3>1 DEF Ahead, Leaving
  <2> QED  BY <2>1, <2>2
<1>9. McastFollows
  BY <1>2, <1>4, <1>6 DEF McastFollows, Told
<1> QED  BY <1>1, <1>3, <1>7, <1>8, <1>9 DEF NsInv, CleansOwn

-----------------------------------------------------------------------------
(* The events of a pod: one add, then one delete. *)

AddEvent    == Event("add", FALSE)
DeleteEvent == Event("delete", FALSE)

\* A namespace goes after its last pod.
NoOrphans == \A p \in Pods : Live(p) => lister[NsOf[p]]

\* How far the controller is with a pod.
PodStage(p) ==
  LET q == podQueue[p] IN
  \/ phase[p] = "none" /\ q = <<>> /\ pc[p] = "idle" /\ p \notin retryPods
  \/ Live(p) /\ q = <<AddEvent>> /\ pc[p] = "idle" /\ p \notin retryPods
  \/ Live(p) /\ q = <<>> /\ p \in portCache /\ (pc[p] # "idle" => job[p] = AddEvent)
  \/ phase[p] = "gone" /\ q = <<AddEvent, DeleteEvent>> /\ pc[p] = "idle" /\ p \notin retryPods
  \/ phase[p] = "gone" /\ q = <<DeleteEvent>> /\ p \in portCache /\ (pc[p] # "idle" => job[p] = AddEvent)
  \/ phase[p] = "gone" /\ q = <<>> /\ p \notin retryPods /\ (pc[p] # "idle" => job[p] = DeleteEvent)

\* Which handler a label belongs to.
PodLabels(p) ==
  /\ pc[p] \in {"list", "find", "write", "add"} => job[p] = AddEvent
  /\ pc[p] = "remove" => job[p] = DeleteEvent

PodInv == NoOrphans /\ \A p \in Pods : PodStage(p) /\ PodLabels(p)

LEMMA PairQueues ==
  ASSUME NEW a, NEW d
  PROVE  /\ Append(<<>>, a) = <<a>> /\ Append(<<a>>, d) = <<a, d>>
         /\ Tail(<<a>>) = <<>> /\ Tail(<<a, d>>) = <<d>>
         /\ Head(<<a>>) = a /\ Head(<<a, d>>) = a
         /\ <<a>> # <<>> /\ <<a, d>> # <<>>
<1>1. Append(<<>>, a) = <<a>>  OBVIOUS
<1>2. Append(<<a>>, d) = <<a, d>>
  <2> DEFINE s == Append(<<a>>, d)
             t == <<a, d>>
  <2>1. <<a>> \in Seq({a, d}) /\ Len(<<a>>) = 1 /\ d \in {a, d} /\ <<a>>[1] = a
    OBVIOUS
  <2>2. s \in Seq({a, d}) /\ Len(s) = 2 /\ s[1] = a /\ s[2] = d
    BY <2>1
  <2>3. t \in Seq({a, d}) /\ Len(t) = 2 /\ t[1] = a /\ t[2] = d
    OBVIOUS
  <2> HIDE DEF s, t
  <2>4. DOMAIN s = 1 .. 2 /\ DOMAIN t = 1 .. 2
    BY <2>2, <2>3
  <2>5. \A k \in 1 .. 2 : s[k] = t[k]
    BY <2>2, <2>3
  <2>6. s = [k \in 1 .. 2 |-> s[k]] /\ t = [k \in 1 .. 2 |-> t[k]]
    BY <2>2, <2>3, <2>4
  <2>7. s = t
    BY <2>5, <2>6
  <2> QED  BY <2>7 DEF s, t
<1>3. Tail(<<a>>) = <<>>  OBVIOUS
<1>4. Tail(<<a, d>>) = <<d>>  OBVIOUS
<1>5. Head(<<a>>) = a /\ Head(<<a, d>>) = a  OBVIOUS
<1>6. <<a>> # <<>> /\ <<a, d>> # <<>>  OBVIOUS
<1> QED  BY <1>1, <1>2, <1>3, <1>4, <1>5, <1>6, Zenon

LEMMA PodEvents ==
  /\ AddEvent.op = "add" /\ DeleteEvent.op = "delete" /\ AddEvent # DeleteEvent
  /\ AddEvent \in Events /\ DeleteEvent \in Events
BY EventTypes DEF AddEvent, DeleteEvent, Event

\* PodInv is about the worker, the queue and the caches of each pod.
LEMMA PodOneWorker ==
  ASSUME PodInv, NEW p \in Pods, UNCHANGED lister,
         \A r \in Pods \ {p} : /\ phase'[r] = phase[r] /\ podQueue'[r] = podQueue[r]
                               /\ pc'[r] = pc[r] /\ job'[r] = job[r]
                               /\ r \in retryPods' <=> r \in retryPods
                               /\ r \in portCache' <=> r \in portCache,
         phase'[p] = phase[p] \/ lister[NsOf[p]] \/ phase'[p] = "gone",
         PodStage(p)', PodLabels(p)'
  PROVE  PodInv'
<1>1. \A r \in Pods \ {p} : PodStage(r)' /\ PodLabels(r)'
  BY DEF PodInv, PodStage, PodLabels, Live
<1>2. NoOrphans'
  BY DEF PodInv, NoOrphans, Live
<1> QED  BY <1>1, <1>2 DEF PodInv

LEMMA PodStutter ==
  ASSUME PodInv, UNCHANGED <<phase, podQueue, retryPods, portCache>>,
         \A p \in Pods : pc'[p] = pc[p] /\ job'[p] = job[p],
         \A p \in Pods : Live(p) /\ lister[NsOf[p]] => lister'[NsOf[p]]
  PROVE  PodInv'
BY DEF PodInv, NoOrphans, PodStage, PodLabels, Live

\* Namespaces, nodes and destroyers change nothing that PodInv is about.
LEMMA PodOthers ==
  ASSUME Inv, SetInv, PodInv, NEW w \in Workers \ Pods,
         \/ Locking(w) \/ Creating(w) \/ WaitTimeout(w)
         \/ StartNS(w) \/ createNamespaceLocked(w) \/ (w \in NS /\ deleteNamespaceLocked(w))
         \/ StartNode(w) \/ DestroyTimer(w) \/ Cleanup(w) \/ multicastUpdateNamespace(w)
         \/ SkipDestroy(w) \/ Destroy(w) \/ AddIPs(w)
  PROVE  PodInv'
<1> USE DEF apiVars, qVars, ctrlVars, podVars
<1>1. UNCHANGED <<phase, podQueue, portCache, lister>>
  BY DEF Locking, Lookup, Lock, RecheckStale, RecheckOK, Creating, ListPods, FindSet, WriteSet,
         WaitTimeout, StartNS, createNamespaceLocked, deleteNamespaceLocked,
         StartNode, DestroyTimer, Cleanup, multicastUpdateNamespace, SkipDestroy, Destroy, AddIPs
<1>2. \A x : Outcome(w, x) => UNCHANGED retryPods
  BY DEF Outcome
<1>3. UNCHANGED retryPods
  <2>1. CASE AddIPs(w)
    BY <1>2, <2>1 DEF AddIPs, Finish
  <2>2. CASE Creating(w)
    BY <1>2, <2>2 DEF Creating, ListPods, FindSet, WriteSet, CreateFailed, Finish
  <2>3. CASE ~AddIPs(w) /\ ~Creating(w)
    BY <1>2, <2>3 DEF Locking, Lookup, Lock, RecheckStale, RecheckOK, WaitTimeout, StartNS,
         createNamespaceLocked, deleteNamespaceLocked, StartNode, DestroyTimer, Cleanup,
         multicastUpdateNamespace, SkipDestroy, Destroy, Finish
  <2> QED  BY <2>1, <2>2, <2>3
<1>4. \A p \in Pods : pc'[p] = pc[p] /\ job'[p] = job[p]
  <2>1. CASE w \in NS /\ deleteNamespaceLocked(w)
    <3>1. cur[w] \notin Pods
      BY <2>1, DisjointAssumption DEF deleteNamespaceLocked, Inv, OwnsWhatItHolds, Inside, Infos
    <3> QED  BY <2>1, <3>1 DEF deleteNamespaceLocked, Inv, LockTypes, Workers
  <2>2. CASE ~(w \in NS /\ deleteNamespaceLocked(w))
    <3>1. Alone(w)
      BY <2>2, WorkerFrame
    <3> QED  BY <3>1 DEF Alone, Workers
  <2> QED  BY <2>1, <2>2
<1> QED  BY <1>1, <1>3, <1>4, PodStutter

LEMMA PodAPI ==
  ASSUME Inv, NsInv, PodInv, NEW p \in Pods, CreatePod(p) \/ PodGetsIP(p) \/ DeletePod(p)
  PROVE  PodInv'
<1> USE DEF ctrlVars, podVars, thrVars
<1>1. UNCHANGED <<lister, pc, job, retryPods, portCache>>
  BY DEF CreatePod, PodGetsIP, DeletePod
<1>2. \A r \in Pods \ {p} : phase'[r] = phase[r] /\ podQueue'[r] = podQueue[r]
  BY DEF CreatePod, PodGetsIP, DeletePod, qVars, NsInv, PopTypes
<1>3. PodStage(p) /\ PodLabels(p)
  BY DEF PodInv
<1>4. PodLabels(p)'
  BY <1>1, <1>3 DEF PodLabels
<1>5. CASE CreatePod(p)
  <2>1. phase'[p] = "pending" /\ podQueue'[p] = Append(podQueue[p], AddEvent)
    BY <1>5 DEF CreatePod, NsInv, PopTypes, AddEvent
  <2>2. podQueue[p] = <<>> /\ pc[p] = "idle" /\ p \notin retryPods
    BY <1>3, <1>5 DEF CreatePod, PodStage, Live
  <2>3. PodStage(p)'
    BY <1>1, <2>1, <2>2, PairQueues DEF PodStage, Live
  <2>4. lister[NsOf[p]]
    BY <1>5 DEF CreatePod
  <2> QED  BY <1>1, <1>2, <1>4, <2>3, <2>4, PodOneWorker
<1>6. CASE PodGetsIP(p)
  <2>1. phase'[p] = "running" /\ phase[p] = "pending" /\ podQueue' = podQueue
    BY <1>6 DEF PodGetsIP, NsInv, PopTypes, qVars
  <2>2. PodStage(p)'
    BY <1>1, <1>3, <2>1 DEF PodStage, Live
  <2>3. lister[NsOf[p]]
    BY <2>1 DEF PodInv, NoOrphans, Live
  <2> QED  BY <1>1, <1>2, <1>4, <2>2, <2>3, PodOneWorker
<1>7. CASE DeletePod(p)
  <2>1. phase'[p] = "gone" /\ Live(p) /\ podQueue'[p] = Append(podQueue[p], DeleteEvent)
    BY <1>7 DEF DeletePod, NsInv, PopTypes, DeleteEvent
  <2>2. PodStage(p)'
    <3>1. CASE podQueue[p] = <<AddEvent>> /\ pc[p] = "idle" /\ p \notin retryPods
      BY <1>1, <2>1, <3>1, PairQueues DEF PodStage
    <3>2. CASE podQueue[p] = <<>> /\ p \in portCache /\ (pc[p] # "idle" => job[p] = AddEvent)
      BY <1>1, <2>1, <3>2, PairQueues DEF PodStage
    <3> QED  BY <1>3, <2>1, <3>1, <3>2 DEF PodStage, Live
  <2> QED  BY <1>1, <1>2, <1>4, <2>1, <2>2, PodOneWorker
<1> QED  BY <1>5, <1>6, <1>7

\* The handler of p goes on, or ends; a failed add is kept for a retry.
LEMMA PodMoves ==
  ASSUME PodInv, NEW p \in Pods, Alone(p), UNCHANGED <<phase, podQueue, portCache, lister>>,
         \A r \in Pods \ {p} : r \in retryPods' <=> r \in retryPods,
         pc[p] # "idle",
         p \in retryPods' => p \in retryPods \/ job[p] = AddEvent,
         pc'[p] # "idle" => job'[p] = job[p],
         pc'[p] \in {"list", "find", "write", "add"} => job[p] = AddEvent,
         pc'[p] = "remove" => job[p] = DeleteEvent
  PROVE  PodInv'
<1>1. PodStage(p)
  BY DEF PodInv
<1>2. PodStage(p)'
  BY <1>1, PodEvents DEF PodStage, Live
<1>3. PodLabels(p)'
  BY DEF PodLabels
<1>4. \A r \in Pods \ {p} : pc'[r] = pc[r] /\ job'[r] = job[r]
  BY DEF Alone, Workers
<1> QED  BY <1>2, <1>3, <1>4, PodOneWorker

LEMMA PodJobs ==
  ASSUME PodInv, NEW p \in Pods, pc[p] # "idle"
  PROVE  /\ job[p] \in {AddEvent, DeleteEvent}
         /\ Waits(p) <=> job[p] = AddEvent
         /\ job[p].op = "add" <=> job[p] = AddEvent
         /\ job[p].op = "delete" <=> job[p] = DeleteEvent
<1>1. job[p] \in {AddEvent, DeleteEvent}
  BY DEF PodInv, PodStage
<1> QED  BY <1>1, PodEvents DEF Waits

LEMMA PodWorks ==
  ASSUME Inv, SetInv, PodInv, NEW p \in Pods,
         Locking(p) \/ Creating(p) \/ WaitTimeout(p) \/ AddIPs(p) \/ RemoveIPs(p)
  PROVE  PodInv'
<1> USE DEF apiVars, qVars, ctrlVars, podVars
<1>1. p \in Workers /\ p \notin NS /\ p \notin Infos /\ pc[p] \in Labels
  BY DisjointAssumption DEF Workers, Infos, Inv, LockTypes
<1>2. Alone(p)
  BY <1>1, WorkerFrame
<1>3. UNCHANGED <<phase, podQueue, portCache, lister>>
  BY DEF Locking, Lookup, Lock, RecheckStale, RecheckOK, Creating, ListPods, FindSet, WriteSet,
         WaitTimeout, AddIPs, RemoveIPs
<1>4. pc[p] # "idle"
  BY DEF Locking, Lookup, Lock, RecheckStale, RecheckOK, Creating, ListPods, FindSet, WriteSet,
         WaitTimeout, AddIPs, RemoveIPs
<1>5. /\ job[p] \in {AddEvent, DeleteEvent}
      /\ Waits(p) <=> job[p] = AddEvent
      /\ job[p].op = "add" <=> job[p] = AddEvent
      /\ job[p].op = "delete" <=> job[p] = DeleteEvent
  BY <1>4, PodJobs
<1>6. PodLabels(p)
  BY DEF PodInv
<1>7. ASSUME NEW x, Outcome(p, x)
      PROVE  /\ \A r \in Pods \ {p} : r \in retryPods' <=> r \in retryPods
             /\ p \in retryPods' => p \in retryPods \/ job[p] = AddEvent
  BY <1>5, <1>7 DEF Outcome
<1>8. /\ \A r \in Pods \ {p} : r \in retryPods' <=> r \in retryPods
      /\ p \in retryPods' => p \in retryPods \/ job[p] = AddEvent
  <2>1. CASE UNCHANGED retryPods
    BY <2>1
  <2>2. CASE \E x : Outcome(p, x)
    BY <1>7, <2>2
  <2>3. UNCHANGED retryPods \/ \E x : Outcome(p, x)
    BY DEF Locking, Lookup, Lock, RecheckStale, RecheckOK, Creating, ListPods, FindSet, WriteSet,
           CreateFailed, WaitTimeout, AddIPs, RemoveIPs, Finish
  <2> QED  BY <2>1, <2>2, <2>3
<1>9. /\ pc'[p] # "idle" => job'[p] = job[p]
      /\ pc'[p] \in {"list", "find", "write", "add"} => job[p] = AddEvent
      /\ pc'[p] = "remove" => job[p] = DeleteEvent
  <2>1. pc \in [Workers -> Labels] /\ job \in [Workers -> Events]
    BY DEF Inv, LockTypes
  <2>2. CASE Lookup(p) \/ Lock(p) \/ RecheckStale(p)
    BY <1>1, <1>5, <2>1, <2>2 DEF Lookup, Lock, RecheckStale, NilInfo, Goto
  <2>3. CASE RecheckOK(p)
    BY <1>1, <1>5, <2>1, <2>3 DEF RecheckOK, Goto, AfterLock
  <2>4. CASE Creating(p)
    BY <1>1, <1>6, <2>1, <2>4
       DEF Creating, ListPods, FindSet, WriteSet, CreateFailed, Finish, Goto, PodLabels
  <2>5. CASE WaitTimeout(p) \/ AddIPs(p) \/ RemoveIPs(p)
    <3>1. pc'[p] = "idle"
      BY <1>1, <2>1, <2>5 DEF WaitTimeout, AddIPs, RemoveIPs, Finish, Goto
    <3> QED  BY <3>1
  <2> QED  BY <2>2, <2>3, <2>4, <2>5 DEF Locking
<1> QED  BY <1>2, <1>3, <1>4, <1>8, <1>9, PodMoves

LEMMA PodStarts ==
  ASSUME Inv, SetInv, NsInv, PodInv, NEW p \in Pods, StartPodAdd(p) \/ StartPodDelete(p)
  PROVE  PodInv'
<1> USE DEF apiVars, qVars, ctrlVars, podVars
<1>1. p \in Workers /\ pc[p] = "idle"
  BY DEF StartPodAdd, StartPodDelete, Workers
<1>2. \A r \in Pods \ {p} : pc'[r] = pc[r] /\ job'[r] = job[r]
  BY <1>1, WorkerFrame DEF Alone, Workers
<1>3. UNCHANGED <<phase, lister>>
  BY DEF StartPodAdd, StartPodDelete
<1>4. \A r \in Pods \ {p} : /\ podQueue'[r] = podQueue[r]
                            /\ r \in retryPods' <=> r \in retryPods
                            /\ r \in portCache' <=> r \in portCache
  BY DEF StartPodAdd, StartPodDelete, NsInv, PopTypes
<1>5. PodStage(p)
  BY DEF PodInv
<1>6. CASE StartPodAdd(p)
  <2>1. /\ p \in portCache' /\ pc'[p] = "lookup" /\ job'[p] = AddEvent /\ retryPods' = retryPods
    BY <1>1, <1>6 DEF StartPodAdd, Goto, AddEvent, Inv, LockTypes
  <2>2. \/ podQueue[p] # <<>> /\ Head(podQueue[p]).op = "add" /\ podQueue'[p] = Tail(podQueue[p])
        \/ p \in retryPods /\ podQueue' = podQueue
    BY <1>6 DEF StartPodAdd, NsInv, PopTypes
  <2>3. PodStage(p)'
    <3>1. CASE p \in retryPods /\ podQueue' = podQueue
      BY <1>3, <1>5, <2>1, <3>1 DEF PodStage, Live
    <3>2. CASE podQueue[p] # <<>> /\ Head(podQueue[p]).op = "add" /\ podQueue'[p] = Tail(podQueue[p])
      <4>1. podQueue[p] # <<DeleteEvent>>
        BY <3>2, PairQueues, PodEvents
      <4>2. CASE Live(p) /\ podQueue[p] = <<AddEvent>>
        <5>1. podQueue'[p] = <<>>
          BY <3>2, <4>2, PairQueues
        <5> QED  BY <1>3, <2>1, <4>2, <5>1 DEF PodStage, Live
      <4>3. CASE phase[p] = "gone" /\ podQueue[p] = <<AddEvent, DeleteEvent>>
        <5>1. podQueue'[p] = <<DeleteEvent>>
          BY <3>2, <4>3, PairQueues
        <5> QED  BY <1>3, <2>1, <4>3, <5>1 DEF PodStage, Live
      <4> QED  BY <1>5, <3>2, <4>1, <4>2, <4>3 DEF PodStage
    <3> QED  BY <2>2, <3>1, <3>2
  <2>4. PodLabels(p)'
    BY <2>1 DEF PodLabels
  <2> QED  BY <1>2, <1>3, <1>4, <2>3, <2>4, PodOneWorker
<1>7. CASE StartPodDelete(p)
  <2>1. podQueue[p] # <<>> /\ Head(podQueue[p]).op = "delete"
    BY <1>7 DEF StartPodDelete
  <2>2. podQueue[p] # <<AddEvent>> /\ podQueue[p] # <<AddEvent, DeleteEvent>>
    BY <2>1, PairQueues, PodEvents
  <2>3. phase[p] = "gone" /\ podQueue[p] = <<DeleteEvent>> /\ p \in portCache
    BY <1>5, <2>1, <2>2 DEF PodStage
  <2>4. /\ podQueue'[p] = Tail(podQueue[p]) /\ p \notin retryPods'
        /\ pc'[p] = "lookup" /\ job'[p] = DeleteEvent
    BY <1>1, <1>7, <2>3 DEF StartPodDelete, Goto, DeleteEvent, Inv, LockTypes, NsInv, PopTypes
  <2>5. podQueue'[p] = <<>>
    BY <2>3, <2>4, PairQueues
  <2>6. PodStage(p)' /\ PodLabels(p)'
    BY <1>3, <2>3, <2>4, <2>5 DEF PodStage, PodLabels
  <2> QED  BY <1>2, <1>3, <1>4, <2>6, PodOneWorker
<1> QED  BY <1>6, <1>7

LEMMA NextPods ==
  Inv /\ SetInv /\ NsInv /\ PodInv /\ [Next]_vars => PodInv'
<1> SUFFICES ASSUME Inv, SetInv, NsInv, PodInv, [Next]_vars PROVE PodInv'
  OBVIOUS
<1> USE DEF apiVars, qVars, ctrlVars, podVars, thrVars
<1>1. \A w \in NS \cup Nodes \cup Infos : w \in Workers \ Pods
  BY DisjointAssumption DEF Workers, Infos
<1>2. ASSUME NEW ns \in NS, CreateNS(ns) \/ UpdateNS(ns) \/ DeleteNS(ns)  PROVE PodInv'
  <2>1. UNCHANGED <<phase, podQueue, retryPods, portCache, pc, job>>
    BY <1>2 DEF CreateNS, UpdateNS, DeleteNS
  <2>2. ASSUME NEW p \in Pods, Live(p), lister[NsOf[p]]  PROVE lister'[NsOf[p]]
    <3>1. NsOf[p] \in NS
      BY NsOfAssumption
    <3> QED  BY <1>2, <2>2, <3>1 DEF CreateNS, UpdateNS, DeleteNS, PodsIn, Inv, LockTypes
  <2> QED  BY <2>1, <2>2, PodStutter
<1>3. CASE API
  BY <1>2, <1>3, PodAPI DEF API
<1>4. ASSUME NEW ns \in NS, NSStep(ns)  PROVE PodInv'
  BY <1>1, <1>4, PodOthers DEF NSStep
<1>5. ASSUME NEW p \in Pods, PodStep(p)  PROVE PodInv'
  BY <1>5, PodWorks, PodStarts DEF PodStep
<1>6. ASSUME NEW n \in Nodes, NodeStep(n)  PROVE PodInv'
  BY <1>1, <1>6, PodOthers DEF NodeStep
<1>7. ASSUME NEW i \in Infos, DestroyerStep(i)  PROVE PodInv'
  BY <1>1, <1>7, PodOthers DEF DestroyerStep
<1>8. ASSUME NEW w \in Pods \cup Nodes, WaitTimeout(w)  PROVE PodInv'
  BY <1>1, <1>8, PodOthers, PodWorks
<1>9. CASE \E ns \in NS : Panic(ns)
  BY <1>9, PodStutter DEF Panic
<1>10. CASE UNCHANGED vars
  BY <1>10, PodStutter DEF vars
<1> QED  BY <1>3, <1>4, <1>5, <1>6, <1>7, <1>8, <1>9, <1>10 DEF Next, Step

LEMMA InitPods == Init => PodInv
<1> SUFFICES ASSUME Init PROVE PodInv
  OBVIOUS
<1>1. ASSUME NEW p \in Pods  PROVE PodStage(p) /\ PodLabels(p)
  <2>1. pc[p] = "idle" /\ p \notin retryPods /\ phase[p] \in {"none", "running"}
    BY DEF Init, Workers
  <2>2. podQueue[p] = IF phase[p] = "running" THEN <<AddEvent>> ELSE <<>>
    BY DEF Init, AddEvent
  <2>3. CASE phase[p] = "running"
    BY <2>1, <2>2, <2>3 DEF PodStage, PodLabels, Live
  <2>4. CASE phase[p] = "none"
    BY <2>1, <2>2, <2>4 DEF PodStage, PodLabels, Live
  <2> QED  BY <2>1, <2>3, <2>4
<1>2. NoOrphans
  BY DEF Init, NoOrphans, Live
<1> QED  BY <1>1, <1>2 DEF PodInv

-----------------------------------------------------------------------------
(* What the address set and the port group of a namespace hold. *)

\* p belongs in what namespaceInfo i keeps, or its delete event will find i.
Due(p, i) ==
  \/ Live(p)
  \/ /\ phase[p] = "gone"
     /\ \/ podQueue[p] # <<>>
        \/ pc[p] = "lookup"
        \/ pc[p] # "idle" /\ cur[p] = i

Members(ns, S, i) == \A p \in S \cap Pods : NsOf[p] = ns /\ Due(p, i)

RowOK(ns) ==
  LET i == namespaces[ns] IN
    (i # None /\ sets[ns] # None /\ addressSet[i] # None) => Members(ns, addressSet[i].ips, i)

GroupOK(ns) ==
  LET i == namespaces[ns] IN
    (i # None /\ multicast[i]) => /\ addressSet[i] # None /\ group[ns] # None
                                  /\ sets[ns] # None => Members(ns, group[ns], i)

NoPortsLeft(ns) == group[ns] = None \/ group[ns] = {}

GoneOK(ns) ==
  /\ (namespaces[ns] # None /\ ~multicast[namespaces[ns]]) => NoPortsLeft(ns)
  /\ namespaces[ns] = None => NoPortsLeft(ns) \/ (pc[ns] = "cleanup" /\ multicast[cur[ns]])

\* The controller is done with the add of p.
Settled(p) == Live(p) /\ podQueue[p] = <<>> /\ p \notin retryPods /\ pc[p] = "idle"

SettledOK(p) ==
  LET i == namespaces[NsOf[p]] IN
    Settled(p) => /\ i # None /\ addressSet[i] # None /\ p \in addressSet[i].ips
                  /\ multicast[i] => p \in group[NsOf[p]]

NsOK(ns) == RowOK(ns) /\ GroupOK(ns) /\ GoneOK(ns) /\ \A p \in PodsIn(ns) : SettledOK(p)

\* The addresses on their way into a new set.
ListedClean ==
  \A w \in Workers : pc[w] \in {"find", "write"} => Members(Target(w), listed[w], cur[w])

FreshFlags == \A i \in Infos : i > infos => ~multicast[i]

ContentInv == (\A ns \in NS : NsOK(ns)) /\ ListedClean /\ FreshFlags

\* No pod stops being due while its namespace keeps its namespaceInfo.
DueIn(m) ==
  \A p \in PodsIn(m) : \A i \in Infos : namespaces[m] = i /\ Due(p, i) => Due(p, i)'
DueKept == \A m \in NS : DueIn(m)

\* A step that leaves the table entry, the row and the group of m alone.
LEMMA Elsewhere ==
  ASSUME Inv, ContentInv, NEW m \in NS, DueIn(m),
         namespaces'[m] = namespaces[m], sets'[m] = sets[m], group'[m] = group[m],
         namespaces[m] # None => /\ addressSet'[namespaces[m]] = addressSet[namespaces[m]]
                                 /\ multicast'[namespaces[m]] = multicast[namespaces[m]],
         pc[m] = "cleanup" /\ namespaces[m] = None
           => pc'[m] = "cleanup" /\ cur'[m] = cur[m] /\ multicast'[cur[m]] = multicast[cur[m]],
         \A p \in PodsIn(m) : Settled(p)' => Settled(p)
  PROVE  NsOK(m)'
<1>1. RowOK(m) /\ GroupOK(m) /\ GoneOK(m) /\ \A p \in PodsIn(m) : SettledOK(p)
  BY DEF ContentInv, NsOK
<1>2. namespaces[m] # None => namespaces[m] \in Infos
  BY DEF Inv, LockTypes
<1>3. \A S : namespaces[m] # None /\ Members(m, S, namespaces[m]) => Members(m, S, namespaces[m])'
  BY <1>2 DEF Members, DueIn, PodsIn
<1>4. RowOK(m)'
  BY <1>1, <1>3 DEF RowOK
<1>5. GroupOK(m)'
  BY <1>1, <1>3 DEF GroupOK
<1>6. GoneOK(m)'
  BY <1>1 DEF GoneOK, NoPortsLeft
<1>7. \A p \in PodsIn(m) : SettledOK(p)'
  BY <1>1 DEF SettledOK, PodsIn
<1> QED  BY <1>4, <1>5, <1>6, <1>7 DEF NsOK, PodsIn

LEMMA ListedStays ==
  ASSUME Inv, ContentInv, DestroyersNeverCreate,
         \A v \in Workers : pc'[v] \in {"find", "write"} =>
           \/ /\ pc[v] \in {"find", "write"} /\ cur'[v] = cur[v] /\ listed'[v] = listed[v]
              /\ DueIn(Target(v))
           \/ v \notin Infos /\ Members(Target(v), listed[v], cur[v])'
  PROVE  ListedClean'
<1> SUFFICES ASSUME NEW v \in Workers, pc'[v] \in {"find", "write"},
                    pc[v] \in {"find", "write"}, cur'[v] = cur[v], listed'[v] = listed[v],
                    DueIn(Target(v))
             PROVE  Members(Target(v), listed[v], cur[v])'
  BY DEF ListedClean
<1>1. v \notin Infos
  BY DEF DestroyersNeverCreate, AtCreation
<1>2. Target(v)' = Target(v)
  BY <1>1 DEF Target, Workers
<1>3. cur[v] \in Infos /\ namespaces[Target(v)] = cur[v]
  BY DEF Inv, HoldsCurrent, OwnsWhatItHolds, Inside, Holding
<1>4. Members(Target(v), listed[v], cur[v])
  BY DEF ContentInv, ListedClean
<1> QED  BY <1>2, <1>3, <1>4 DEF Members, DueIn, PodsIn

\* A step that leaves all tables, rows, sets and groups alone.
LEMMA QuietStep ==
  ASSUME Inv, ContentInv, DestroyersNeverCreate, DueKept,
         UNCHANGED <<namespaces, sets, addressSet, group, multicast, infos>>,
         \A p \in Pods : Settled(p)' => Settled(p),
         \A ns \in NS : pc[ns] = "cleanup" => pc'[ns] = "cleanup" /\ cur'[ns] = cur[ns],
         \A v \in Workers : pc'[v] \in {"find", "write"} =>
           \/ pc[v] \in {"find", "write"} /\ cur'[v] = cur[v] /\ listed'[v] = listed[v]
           \/ v \notin Infos /\ Members(Target(v), listed[v], cur[v])'
  PROVE  ContentInv'
<1>1. \A m \in NS : NsOK(m)'
  BY Elsewhere DEF PodsIn, DueKept
<1>2. \A v \in Workers : pc[v] \in {"find", "write"} => Target(v) \in NS
  BY TargetIsNamespace DEF Inside, Holding
<1>3. ListedClean'
  BY <1>2, ListedStays DEF DueKept
<1>4. FreshFlags'
  BY DEF ContentInv, FreshFlags
<1> QED  BY <1>1, <1>3, <1>4 DEF ContentInv

\* Nothing about a pod changes.
PodsUntouched ==
  /\ UNCHANGED <<phase, podQueue, retryPods>>
  /\ \A p \in Pods : pc'[p] = pc[p] /\ cur'[p] = cur[p]

LEMMA UntouchedDue ==
  ASSUME PodsUntouched
  PROVE  DueKept /\ \A p \in Pods : Settled(p)' => Settled(p)
BY DEF PodsUntouched, DueKept, DueIn, PodsIn, Due, Settled, Live

LEMMA ContentAPI ==
  ASSUME Inv, NsInv, PodInv, ContentInv, DestroyersNeverCreate, API
  PROVE  ContentInv'
<1> USE DEF ctrlVars, podVars, thrVars, dbVars, qVars
<1>1. UNCHANGED <<namespaces, sets, addressSet, group, multicast, infos, pc, cur, listed, retryPods>>
  BY DEF API, CreateNS, UpdateNS, DeleteNS, CreatePod, PodGetsIP, DeletePod
<1>2. DueKept /\ \A p \in Pods : Settled(p)' => Settled(p)
  <2>1. CASE \E ns \in NS : CreateNS(ns) \/ UpdateNS(ns) \/ DeleteNS(ns)
    <3>1. PodsUntouched
      BY <1>1, <2>1 DEF CreateNS, UpdateNS, DeleteNS, PodsUntouched
    <3> QED  BY <3>1, UntouchedDue
  <2>2. ASSUME NEW p \in Pods, CreatePod(p) \/ PodGetsIP(p) \/ DeletePod(p)
        PROVE  DueKept /\ \A r \in Pods : Settled(r)' => Settled(r)
    <3>1. \A r \in Pods \ {p} : phase'[r] = phase[r] /\ podQueue'[r] = podQueue[r]
      BY <2>2 DEF CreatePod, PodGetsIP, DeletePod, NsInv, PopTypes
    <3>2. podQueue[p] \in Seq(Events)
      BY DEF NsInv, PopTypes
    <3>3. \A e : Append(podQueue[p], e) # <<>>
      BY <3>2
    <3>4. \/ Live(p)' /\ podQueue'[p] # <<>>
          \/ Live(p)' /\ Settled(p)
          \/ phase'[p] = "gone" /\ podQueue'[p] # <<>>
      <4>1. CASE CreatePod(p)
        BY <3>3, <4>1 DEF CreatePod, NsInv, PopTypes, Live
      <4>2. CASE PodGetsIP(p)
        BY <4>2 DEF PodGetsIP, NsInv, PopTypes, Live, Settled
      <4>3. CASE DeletePod(p)
        BY <3>3, <4>3 DEF DeletePod, NsInv, PopTypes
      <4> QED  BY <2>2, <4>1, <4>2, <4>3
    <3>5. \A i : Due(p, i)'
      BY <3>4 DEF Due
    <3>6. Settled(p)' => Settled(p)
      BY <3>4 DEF Settled, Live
    <3>7. \A r \in Pods \ {p} : (Settled(r)' => Settled(r)) /\ \A i : Due(r, i) => Due(r, i)'
      BY <1>1, <3>1 DEF Due, Settled, Live
    <3> QED  BY <3>5, <3>6, <3>7 DEF DueKept, DueIn, PodsIn
  <2> QED  BY <2>1, <2>2 DEF API
<1> QED  BY <1>1, <1>2, QuietStep

\* A pod being added is due whatever happens to the handler.
LEMMA AddingIsDue ==
  ASSUME PodInv, NEW p \in Pods, pc[p] # "idle", job[p] = AddEvent
  PROVE  Live(p) \/ (phase[p] = "gone" /\ podQueue[p] # <<>>)
BY PairQueues, PodEvents DEF PodInv, PodStage

\* A pod being deleted is gone.
LEMMA DeletingIsGone ==
  ASSUME PodInv, NEW p \in Pods, pc[p] # "idle", job[p] = DeleteEvent
  PROVE  phase[p] = "gone" /\ ~Live(p) /\ podQueue[p] = <<>>
BY PodEvents DEF PodInv, PodStage, Live

\* Every step of a pod's handler but RemoveIPs.
LEMMA PodDue ==
  ASSUME Inv, SetInv, NsInv, PodInv, NEW p \in Pods,
         \/ Locking(p) \/ Creating(p) \/ WaitTimeout(p) \/ AddIPs(p)
         \/ StartPodAdd(p) \/ StartPodDelete(p)
  PROVE  DueKept
<1> USE DEF apiVars, qVars, ctrlVars, podVars
<1>1. p \in Workers /\ Target(p) = NsOf[p] /\ p \notin Infos /\ p \notin NS
  BY DisjointAssumption DEF Workers, Target, Infos
<1>2. Alone(p) /\ UNCHANGED phase
  BY <1>1, WorkerFrame
     DEF Locking, Lookup, Lock, RecheckStale, RecheckOK, Creating, ListPods, FindSet, WriteSet,
         WaitTimeout, AddIPs, StartPodAdd, StartPodDelete
<1>3. \A r \in Pods \ {p} : podQueue'[r] = podQueue[r]
  BY DEF Locking, Lookup, Lock, RecheckStale, RecheckOK, Creating, ListPods, FindSet, WriteSet,
         WaitTimeout, AddIPs, StartPodAdd, StartPodDelete, NsInv, PopTypes
<1>4. \A r \in Pods \ {p} : \A i : Due(r, i) => Due(r, i)'
  BY <1>2, <1>3 DEF Due, Live, Alone, Workers
<1>5. ASSUME NEW i \in Infos, namespaces[NsOf[p]] = i, Due(p, i)  PROVE Due(p, i)'
  <2>1. i # None
    BY DisjointAssumption DEF Infos
  <2>2. CASE StartPodAdd(p)
    <3>1. PodStage(p) /\ Live(p)' = Live(p) /\ pc'[p] = "lookup"
      BY <1>1, <1>2, <2>2 DEF PodInv, Live, StartPodAdd, Goto, Inv, LockTypes
    <3> QED  BY <1>2, <1>5, <3>1 DEF Due
  <2>3. CASE StartPodDelete(p)
    <3>1. podQueue[p] # <<>> /\ Head(podQueue[p]).op = "delete" /\ pc[p] = "idle"
      BY <2>3 DEF StartPodDelete
    <3>2. podQueue[p] # <<AddEvent>> /\ podQueue[p] # <<AddEvent, DeleteEvent>>
      BY <3>1, PairQueues, PodEvents
    <3>3. p \in portCache /\ phase[p] = "gone"
      BY <3>1, <3>2 DEF PodInv, PodStage
    <3>4. pc'[p] = "lookup"
      BY <1>1, <2>3, <3>3 DEF StartPodDelete, Goto, Inv, LockTypes
    <3> QED  BY <1>2, <3>3, <3>4 DEF Due
  <2>4. CASE ~StartPodAdd(p) /\ ~StartPodDelete(p)
    <3>1. UNCHANGED podQueue /\ pc[p] # "idle"
      BY <2>4 DEF Locking, Lookup, Lock, RecheckStale, RecheckOK, Creating, ListPods, FindSet,
                  WriteSet, WaitTimeout, AddIPs
    <3>2. CASE job[p] = AddEvent
      BY <1>2, <3>1, <3>2, AddingIsDue DEF Due, Live
    <3>3. CASE job[p] = DeleteEvent
      <4>1. ~Live(p) /\ podQueue[p] = <<>> /\ phase[p] = "gone"
        BY <3>1, <3>3, DeletingIsGone
      <4>2. pc[p] = "lookup" \/ (pc[p] # "idle" /\ cur[p] = i)
        BY <1>5, <4>1 DEF Due
      <4>3. Locking(p)
        BY <2>4, <3>1, <3>3, PodEvents, PodJobs
           DEF Creating, ListPods, FindSet, WriteSet, WaitTimeout, AddIPs, PodInv, PodLabels
      <4>4. ~RecheckStale(p)
        BY <1>1, <1>5, <4>2 DEF RecheckStale, Stale
      <4>5. pc'[p] # "idle" /\ cur'[p] = i
        <5>1. CASE Lookup(p)
          BY <1>1, <1>5, <2>1, <5>1 DEF Lookup, Goto, Inv, LockTypes
        <5>2. CASE Lock(p)
          BY <1>1, <4>2, <5>2 DEF Lock, Goto, Inv, LockTypes
        <5>3. CASE RecheckOK(p)
          BY <1>1, <4>2, <5>3 DEF RecheckOK, Goto, AfterLock, Inv, LockTypes
        <5> QED  BY <4>3, <4>4, <5>1, <5>2, <5>3 DEF Locking
      <4> QED  BY <1>2, <4>1, <4>5 DEF Due
    <3> QED  BY <3>1, <3>2, <3>3, PodJobs
  <2> QED  BY <2>2, <2>3, <2>4
<1> QED  BY <1>4, <1>5 DEF DueKept, DueIn, PodsIn

\* Only AddIPs ends the add of a pod for good.
LEMMA PodSettles ==
  ASSUME Inv, SetInv, NsInv, PodInv, ~faulty, NEW p \in Pods,
         \/ Locking(p) \/ Creating(p) \/ WaitTimeout(p)
         \/ StartPodAdd(p) \/ StartPodDelete(p) \/ RemoveIPs(p)
  PROVE  ~Settled(p)'
<1> USE DEF apiVars, qVars, ctrlVars, podVars
<1>1. p \in Workers /\ p \notin Infos /\ p \notin NS
  BY DisjointAssumption DEF Workers, Infos
<1>2. UNCHANGED phase /\ pc \in [Workers -> Labels]
  BY DEF Locking, Lookup, Lock, RecheckStale, RecheckOK, Creating, ListPods, FindSet, WriteSet,
         WaitTimeout, RemoveIPs, StartPodAdd, StartPodDelete, Inv, LockTypes
<1>3. CASE StartPodAdd(p)
  BY <1>1, <1>2, <1>3 DEF StartPodAdd, Goto, Settled
<1>4. CASE StartPodDelete(p)
  <2>1. podQueue[p] # <<>> /\ Head(podQueue[p]).op = "delete"
    BY <1>4 DEF StartPodDelete
  <2>2. podQueue[p] # <<AddEvent>>
    BY <2>1, PairQueues, PodEvents
  <2>3. phase[p] = "gone"
    BY <2>1, <2>2 DEF PodInv, PodStage
  <2> QED  BY <1>2, <2>3 DEF Settled, Live
<1>5. CASE ~StartPodAdd(p) /\ ~StartPodDelete(p)
  <2>1. pc[p] # "idle"
    BY <1>5 DEF Locking, Lookup, Lock, RecheckStale, RecheckOK, Creating, ListPods, FindSet,
                WriteSet, WaitTimeout, RemoveIPs
  <2>2. CASE job[p] = DeleteEvent
    BY <1>2, <2>1, <2>2, DeletingIsGone DEF Settled, Live
  <2>3. CASE job[p] = AddEvent
    <3>1. Waits(p) /\ ~RemoveIPs(p)
      BY <2>1, <2>3, PodJobs, PodEvents DEF RemoveIPs, PodInv, PodLabels
    <3>2. Outcome(p, FALSE) => p \in retryPods'
      BY <2>1, <2>3, PodJobs DEF Outcome
    <3>3. pc'[p] # "idle" \/ Outcome(p, FALSE)
      <4>1. CASE Locking(p)
        BY <1>1, <1>2, <3>1, <4>1
           DEF Locking, Lookup, Lock, RecheckStale, RecheckOK, NilInfo, Goto, AfterLock
      <4>2. CASE Creating(p)
        BY <1>1, <1>2, <4>2 DEF Creating, ListPods, FindSet, WriteSet, CreateFailed, Finish, Goto
      <4>3. CASE WaitTimeout(p)
        BY <4>3 DEF WaitTimeout, Finish
      <4> QED  BY <1>5, <3>1, <4>1, <4>2, <4>3
    <3> QED  BY <3>2, <3>3 DEF Settled
  <2> QED  BY <2>1, <2>2, <2>3, PodJobs
<1> QED  BY <1>3, <1>4, <1>5

\* Everybody else's step leaves the pods alone.
LEMMA OthersLeavePods ==
  ASSUME Inv, SetInv, NEW w \in Workers \ Pods,
         \/ Locking(w) \/ Creating(w) \/ WaitTimeout(w)
         \/ StartNS(w) \/ createNamespaceLocked(w) \/ (w \in NS /\ deleteNamespaceLocked(w))
         \/ StartNode(w) \/ DestroyTimer(w) \/ Cleanup(w) \/ multicastUpdateNamespace(w)
         \/ SkipDestroy(w) \/ Destroy(w) \/ AddIPs(w)
  PROVE  PodsUntouched
<1> USE DEF apiVars, qVars, ctrlVars, podVars
<1>1. UNCHANGED <<phase, podQueue>>
  BY DEF Locking, Lookup, Lock, RecheckStale, RecheckOK, Creating, ListPods, FindSet, WriteSet,
         WaitTimeout, StartNS, createNamespaceLocked, deleteNamespaceLocked,
         StartNode, DestroyTimer, Cleanup, multicastUpdateNamespace, SkipDestroy, Destroy, AddIPs
<1>2. \A x : Outcome(w, x) => UNCHANGED retryPods
  BY DEF Outcome
<1>3. UNCHANGED retryPods
  <2>1. CASE AddIPs(w)
    BY <1>2, <2>1 DEF AddIPs, Finish
  <2>2. CASE Creating(w)
    BY <1>2, <2>2 DEF Creating, ListPods, FindSet, WriteSet, CreateFailed, Finish
  <2>3. CASE ~AddIPs(w) /\ ~Creating(w)
    BY <1>2, <2>3 DEF Locking, Lookup, Lock, RecheckStale, RecheckOK, WaitTimeout, StartNS,
         createNamespaceLocked, deleteNamespaceLocked, StartNode, DestroyTimer, Cleanup,
         multicastUpdateNamespace, SkipDestroy, Destroy, Finish
  <2> QED  BY <2>1, <2>2, <2>3
<1>4. \A p \in Pods : pc'[p] = pc[p] /\ cur'[p] = cur[p]
  <2>1. CASE w \in NS /\ deleteNamespaceLocked(w)
    <3>1. cur[w] \notin Pods
      BY <2>1, DisjointAssumption DEF deleteNamespaceLocked, Inv, OwnsWhatItHolds, Inside, Infos
    <3> QED  BY <2>1, <3>1 DEF deleteNamespaceLocked, Inv, LockTypes, Workers
  <2>2. CASE ~(w \in NS /\ deleteNamespaceLocked(w))
    <3>1. Alone(w)
      BY <2>2, WorkerFrame
    <3> QED  BY <3>1 DEF Alone, Workers
  <2> QED  BY <2>1, <2>2
<1> QED  BY <1>1, <1>3, <1>4 DEF PodsUntouched

\* The steps that read, lock and wait.
LEMMA ContentReads ==
  ASSUME Inv, SetInv, DestroyersNeverCreate, ~faulty, NsInv, PodInv, ContentInv, NEW w \in Workers,
         \/ Locking(w) \/ ListPods(w) \/ FindSet(w) \/ (w \in Pods \cup Nodes /\ WaitTimeout(w))
         \/ (w \in NS /\ StartNS(w)) \/ (w \in Nodes /\ StartNode(w))
         \/ (w \in Pods /\ (StartPodAdd(w) \/ StartPodDelete(w)))
         \/ (w \in Infos /\ (DestroyTimer(w) \/ SkipDestroy(w)))
  PROVE  ContentInv'
<1> USE DEF apiVars, qVars, ctrlVars, podVars, dbVars
<1>1. UNCHANGED <<namespaces, sets, addressSet, group, multicast, infos>>
  BY DEF Locking, Lookup, Lock, RecheckStale, RecheckOK, ListPods, FindSet, WaitTimeout, StartNS,
         StartNode, StartPodAdd, StartPodDelete, DestroyTimer, SkipDestroy
<1>2. Alone(w)
  BY WorkerFrame DEF Creating
<1>3. DueKept /\ \A p \in Pods : Settled(p)' => Settled(p)
  <2>1. CASE w \in Pods
    <3>1. /\ w \notin NS \cup Nodes \cup Infos
          /\ Locking(w) \/ Creating(w) \/ WaitTimeout(w) \/ StartPodAdd(w) \/ StartPodDelete(w)
      BY <2>1, DisjointAssumption DEF Creating, Infos
    <3>2. DueKept /\ ~Settled(w)'
      BY <2>1, <3>1, PodDue, PodSettles
    <3>3. UNCHANGED phase /\ \A r \in Pods \ {w} : /\ podQueue'[r] = podQueue[r]
                                                   /\ r \in retryPods' <=> r \in retryPods
      BY <3>1 DEF Locking, Lookup, Lock, RecheckStale, RecheckOK, Creating, ListPods, FindSet,
                  WriteSet, CreateFailed, WaitTimeout, StartPodAdd, StartPodDelete, Finish, Outcome,
                  NsInv, PopTypes
    <3>4. \A r \in Pods \ {w} : Settled(r)' => Settled(r)
      BY <1>2, <3>3 DEF Settled, Live, Alone, Workers
    <3> QED  BY <3>2, <3>4
  <2>2. CASE w \notin Pods
    <3>1. w \in Workers \ Pods
      BY <2>2
    <3>2. PodsUntouched
      BY <2>2, <3>1, OthersLeavePods DEF Creating
    <3> QED  BY <3>2, UntouchedDue
  <2> QED  BY <2>1, <2>2
<1>4. pc[w] # "cleanup" /\ pc \in [Workers -> Labels]
  BY DEF Locking, Lookup, Lock, RecheckStale, RecheckOK, ListPods, FindSet, WaitTimeout, StartNS,
         StartNode, StartPodAdd, StartPodDelete, DestroyTimer, SkipDestroy, Inv, LockTypes
<1>5. \A ns \in NS : pc[ns] = "cleanup" => pc'[ns] = "cleanup" /\ cur'[ns] = cur[ns]
  BY <1>2, <1>4 DEF Alone, Workers
<1>6. pc'[w] \in {"find", "write"} =>
        \/ pc[w] \in {"find", "write"} /\ cur'[w] = cur[w] /\ listed'[w] = listed[w]
        \/ w \notin Infos /\ Members(Target(w), listed[w], cur[w])'
  <2>1. CASE ListPods(w)
    <3>1. w \notin Infos
      BY <2>1 DEF ListPods, DestroyersNeverCreate, AtCreation
    <3>2. listed'[w] = {p \in PodsIn(Target(w)) : phase[p] = "running"} /\ phase' = phase
      BY <2>1 DEF ListPods, SetInv, SetTypes
    <3>3. Target(w)' = Target(w)
      BY <3>1 DEF Target, Workers
    <3> QED  BY <3>1, <3>2, <3>3 DEF Members, Due, Live, PodsIn
  <2>2. CASE FindSet(w)
    BY <1>4, <2>2 DEF FindSet, Goto
  <2>3. CASE ~ListPods(w) /\ ~FindSet(w)
    <3>1. pc'[w] \notin {"find", "write"}
      BY <1>4, <2>3 DEF Locking, Lookup, Lock, RecheckStale, RecheckOK, WaitTimeout, StartNS,
         StartNode, StartPodAdd, StartPodDelete, DestroyTimer, SkipDestroy, NilInfo, Finish, Goto,
         AfterLock
    <3> QED  BY <3>1
  <2> QED  BY <2>1, <2>2, <2>3
<1>7. \A v \in Workers : pc'[v] \in {"find", "write"} =>
        \/ pc[v] \in {"find", "write"} /\ cur'[v] = cur[v] /\ listed'[v] = listed[v]
        \/ v \notin Infos /\ Members(Target(v), listed[v], cur[v])'
  BY <1>2, <1>6 DEF Alone
<1> QED  BY <1>1, <1>3, <1>5, <1>7, QuietStep

(***************************************************************************)
(* A step that changes the entry, the row or the group of one namespace.   *)
(***************************************************************************)
LEMMA OneNamespace ==
  ASSUME Inv, SetInv, CleansOwn, DestroyersNeverCreate, ContentInv, NEW ns \in NS, NEW i \in Infos,
         nsOf[i] = ns \/ i > infos,
         \A m \in NS \ {ns} : /\ namespaces'[m] = namespaces[m] /\ sets'[m] = sets[m]
                              /\ group'[m] = group[m] /\ DueIn(m)
                              /\ pc[m] = "cleanup" => pc'[m] = "cleanup" /\ cur'[m] = cur[m],
         \A j \in Infos \ {i} : addressSet'[j] = addressSet[j] /\ multicast'[j] = multicast[j],
         \A p \in Pods : NsOf[p] # ns /\ Settled(p)' => Settled(p),
         \A v \in Workers : pc'[v] \in {"find", "write"} =>
           /\ pc[v] \in {"find", "write"} /\ cur'[v] = cur[v] /\ listed'[v] = listed[v]
           /\ Target(v) = ns => DueIn(ns),
         \A j \in Infos : j > infos' => j > infos /\ ~multicast'[j],
         NsOK(ns)'
  PROVE  ContentInv'
<1>1. ASSUME NEW m \in NS, m # ns  PROVE NsOK(m)'
  <2>1. namespaces[m] # None => namespaces[m] \in Infos \ {i}
    BY <1>1 DEF Inv, LockTypes, FreshInfos, SetInv, EntryIsNamed
  <2>2. pc[m] = "cleanup" => cur[m] \in Infos \ {i}
    BY <1>1 DEF Inv, FreshInfos, CleansOwn, Workers
  <2>3. \A p \in PodsIn(m) : Settled(p)' => Settled(p)
    BY <1>1 DEF PodsIn
  <2> QED  BY <1>1, <2>1, <2>2, <2>3, Elsewhere
<1>2. \A v \in Workers : pc[v] \in {"find", "write"} => Target(v) \in NS
  BY TargetIsNamespace DEF Inside, Holding
<1>3. ListedClean'
  BY <1>2, ListedStays
<1> QED  BY <1>1, <1>3 DEF ContentInv, FreshFlags

\* The write of a new address set: the namespace had no multicast and no
\* settled pod without it.
LEMMA ContentWrites ==
  ASSUME Inv, SetInv, CleansOwn, DestroyersNeverCreate, ~faulty, NsInv, PodInv, ContentInv,
         NEW w \in Workers, WriteSet(w)
  PROVE  ContentInv'
<1> USE DEF apiVars, qVars, ctrlVars, podVars
<1>1. pc[w] = "write" /\ UNCHANGED <<namespaces, multicast, infos, group, phase, podQueue>>
  BY DEF WriteSet
<1>2. w \notin Infos
  BY <1>1 DEF DestroyersNeverCreate, AtCreation
<1>3. PICK ns \in NS, i \in Infos :
        /\ ns = Target(w) /\ i = cur[w]
        /\ namespaces[ns] = i /\ i # None /\ addressSet[i] = None
  BY <1>1, <1>2, TargetIsNamespace, DisjointAssumption
     DEF Inv, HoldsCurrent, OwnsWhatItHolds, Inside, Holding, SetInv, CreatesMissing, AtCreation, Infos
<1>4. Alone(w)
  BY WorkerFrame DEF Creating
<1>5. DueKept /\ \A p \in Pods : Settled(p)' => Settled(p)
  <2>1. CASE w \in Pods
    <3>1. DueKept /\ ~Settled(w)'
      BY <2>1, PodDue, PodSettles DEF Creating
    <3>2. \A r \in Pods \ {w} : r \in retryPods' <=> r \in retryPods
      BY DEF WriteSet, CreateFailed, Finish, Outcome
    <3>3. \A r \in Pods \ {w} : Settled(r)' => Settled(r)
      BY <1>1, <1>4, <3>2 DEF Settled, Live, Alone, Workers
    <3> QED  BY <3>1, <3>3
  <2>2. CASE w \notin Pods
    <3>1. w \in Workers \ Pods
      BY <2>2
    <3>2. PodsUntouched
      BY <3>1, OthersLeavePods DEF Creating
    <3> QED  BY <3>2, UntouchedDue
  <2> QED  BY <2>1, <2>2
<1>6. \A v \in Workers : pc'[v] \in {"find", "write"} =>
        pc[v] \in {"find", "write"} /\ cur'[v] = cur[v] /\ listed'[v] = listed[v]
  <2>1. pc'[w] \notin {"find", "write"}
    BY DEF WriteSet, CreateFailed, Finish, Goto, Inv, LockTypes
  <2> QED  BY <1>4, <2>1 DEF Alone
<1>7. \A m \in NS : pc[m] = "cleanup" => pc'[m] = "cleanup" /\ cur'[m] = cur[m]
  BY <1>1, <1>4 DEF Alone, Workers
<1>8. CASE UNCHANGED <<sets, addressSet>>
  BY <1>1, <1>5, <1>6, <1>7, <1>8, QuietStep
<1>9. CASE ~UNCHANGED <<sets, addressSet>>
  <2>1. PICK u : /\ sets' = [sets EXCEPT ![ns] = SetRec(u, listed[w])]
                 /\ addressSet' = [addressSet EXCEPT ![i] = SetRec(u, listed[w])]
    BY <1>3, <1>9 DEF WriteSet
  <2>2. /\ \A m \in NS \ {ns} : sets'[m] = sets[m]
        /\ \A j \in Infos \ {i} : addressSet'[j] = addressSet[j]
        /\ addressSet'[i].ips = listed[w]
    BY <1>3, <2>1 DEF SetInv, SetTypes, SetRec
  <2>3. NsOK(ns) /\ ~multicast[i] /\ nsOf[i] = ns
    BY <1>3 DEF ContentInv, NsOK, GroupOK, SetInv, EntryIsNamed
  <2>4. Members(ns, listed[w], i)
    BY <1>1, <1>3 DEF ContentInv, ListedClean
  <2>5. \A p \in listed[w] \cap Pods : NsOf[p] = ns /\ Due(p, i)'
    <3>1. DueIn(ns)
      BY <1>3, <1>5 DEF DueKept
    <3> QED  BY <1>3, <2>4, <3>1 DEF Members, DueIn, PodsIn
  <2>6. NsOK(ns)'
    <3>1. RowOK(ns)'
      BY <1>1, <1>3, <2>2, <2>5 DEF RowOK, Members
    <3>2. GroupOK(ns)' /\ GoneOK(ns)'
      BY <1>1, <1>3, <2>3 DEF NsOK, GroupOK, GoneOK, NoPortsLeft
    <3>3. \A p \in PodsIn(ns) : ~Settled(p)'
      BY <1>3, <1>5, <2>3 DEF NsOK, SettledOK, PodsIn
    <3> QED  BY <3>1, <3>2, <3>3 DEF NsOK, SettledOK, PodsIn
  <2>7. \A j \in Infos : j > infos' => j > infos /\ ~multicast'[j]
    BY <1>1 DEF ContentInv, FreshFlags
  <2> QED  BY <1>1, <1>3, <1>5, <1>6, <1>7, <2>2, <2>3, <2>6, <2>7, OneNamespace DEF DueKept
<1> QED  BY <1>8, <1>9

\* What AddIPs and RemoveIPs do to the row, the cache and the group of ns when
\* commands do not fail by themselves.
LEMMA AddIPsWrites ==
  ASSUME Inv, SetInv, ~faulty, NsInv, NEW w \in Pods \cup Nodes, AddIPs(w),
         NEW ns \in NS, ns = Target(w), NEW i \in Infos, i = cur[w], nsOf[i] = ns,
         addressSet[i] # None, namespaces[ns] = i, multicast[i] => group[ns] # None
  PROVE  /\ \A m \in NS \ {ns} : sets'[m] = sets[m] /\ group'[m] = group[m]
         /\ \A j \in Infos \ {i} : addressSet'[j] = addressSet[j]
         /\ sets'[ns] = None <=> sets[ns] = None
         /\ addressSet'[i] # None
         /\ addressSet'[i].ips \in {addressSet[i].ips, addressSet[i].ips \cup {w}}
         /\ \/ group'[ns] = group[ns]
            \/ w \in Pods /\ multicast[i] /\ group'[ns] = group[ns] \cup {w}
         /\ w \in Pods /\ job[w].op = "add" /\ w \notin retryPods' =>
              /\ w \in addressSet'[i].ips
              /\ multicast[i] => w \in group'[ns]
<1>1. PICK ok \in Ok, ok2 \in Ok :
        LET present == w \in addressSet[i].ips
            wrote == ~present /\ ok /\ RowExists(ns, addressSet[i].uuid)
            joins == w \in Pods /\ multicast[i]
            joined == (present \/ wrote) /\ joins /\ group[ns] # None
        IN  /\ WriteRow(i, {w}, {}, wrote)
            /\ group' = IF joined /\ ok2 THEN [group EXCEPT ![ns] = @ \cup {w}] ELSE group
            /\ Finish(w, (present \/ wrote) /\ (joins => joined /\ ok2))
  BY DEF AddIPs
<1> DEFINE present == w \in addressSet[i].ips
           wrote == ~present /\ sets[ns] # None
           joins == w \in Pods /\ multicast[i]
<1>2. ok = TRUE /\ ok2 = TRUE
  BY DEF Ok
<1>3. RowExists(ns, addressSet[i].uuid) <=> sets[ns] # None
  BY DisjointAssumption DEF RowExists, SetInv, CacheMatchesOVN, Infos
<1>4. /\ WriteRow(i, {w}, {}, wrote)
      /\ group' = IF (present \/ wrote) /\ joins THEN [group EXCEPT ![ns] = @ \cup {w}] ELSE group
      /\ Outcome(w, present \/ wrote)
  BY <1>1, <1>2, <1>3 DEF Finish
<1>5. CASE wrote
  <2>1. /\ sets' = [sets EXCEPT ![ns].ips = (@ \ {}) \cup {w}]
        /\ addressSet' = [addressSet EXCEPT ![i].ips = (@ \ {}) \cup {w}]
    BY <1>4, <1>5 DEF WriteRow
  <2>2. /\ addressSet[i] \in Rows \ {None} /\ addressSet[i].ips \in SUBSET IPs
        /\ sets[ns] \in Rows \ {None} /\ sets[ns].ips \in SUBSET IPs
    BY <1>5, RowTypes DEF SetInv, SetTypes
  <2>3. addressSet'[i] = [addressSet[i] EXCEPT !.ips = @ \cup {w}] /\ addressSet'[i].ips = addressSet[i].ips \cup {w}
    BY <2>1, <2>2, RowTypes DEF SetInv, SetTypes, Rows
  <2>4. sets'[ns] = [sets[ns] EXCEPT !.ips = @ \cup {w}]
    BY <2>1, <2>2 DEF SetInv, SetTypes, Rows
  <2>5. addressSet[i].ips \cup {w} \in SUBSET IPs /\ sets[ns].ips \cup {w} \in SUBSET IPs
    BY <2>2 DEF IPs
  <2>6. sets'[ns] # None /\ addressSet'[i] # None
    <3>1. \A r \in Rows \ {None}, s \in SUBSET IPs : [r EXCEPT !.ips = s] # None
      BY RowTypes
    <3>2. [addressSet[i] EXCEPT !.ips = @ \cup {w}] # None
      BY <2>2, <2>5, <3>1
    <3>3. [sets[ns] EXCEPT !.ips = @ \cup {w}] # None
      BY <2>2, <2>5, <3>1
    <3> QED  BY <2>3, <2>4, <3>2, <3>3
  <2>7. /\ \A m \in NS \ {ns} : sets'[m] = sets[m]
        /\ \A j \in Infos \ {i} : addressSet'[j] = addressSet[j]
    BY <2>1 DEF SetInv, SetTypes
  <2>8. /\ \A m \in NS \ {ns} : group'[m] = group[m]
        /\ IF joins THEN group'[ns] = group[ns] \cup {w} ELSE group'[ns] = group[ns]
    BY <1>4, <1>5 DEF NsInv, PopTypes
  <2> QED  BY <1>5, <2>3, <2>6, <2>7, <2>8
<1>6. CASE ~wrote
  <2>1. UNCHANGED <<sets, addressSet>>
    BY <1>4, <1>6 DEF WriteRow
  <2>2. /\ \A m \in NS \ {ns} : group'[m] = group[m]
        /\ IF present /\ joins THEN group'[ns] = group[ns] \cup {w} ELSE group'[ns] = group[ns]
    BY <1>4, <1>6 DEF NsInv, PopTypes
  <2>3. w \in Pods /\ job[w].op = "add" /\ w \notin retryPods' => present
    BY <1>4, <1>6 DEF Outcome
  <2> QED  BY <2>1, <2>2, <2>3
<1> QED  BY <1>5, <1>6

LEMMA ContentAdds ==
  ASSUME Inv, SetInv, CleansOwn, DestroyersNeverCreate, ~faulty, NsInv, PodInv, ContentInv,
         NEW w \in Pods \cup Nodes, AddIPs(w)
  PROVE  ContentInv'
<1> USE DEF apiVars, qVars, ctrlVars, podVars
<1>1. pc[w] = "add" /\ UNCHANGED <<namespaces, multicast, infos, phase, podQueue>>
  BY DEF AddIPs
<1>2. w \in Workers /\ w \notin Infos /\ w \notin NS
  BY DisjointAssumption DEF Workers, Infos
<1>3. PICK ns \in NS, i \in Infos :
        /\ ns = Target(w) /\ i = cur[w]
        /\ namespaces[ns] = i /\ i # None /\ addressSet[i] # None /\ nsOf[i] = ns
  BY <1>1, <1>2, TargetIsNamespace, DisjointAssumption
     DEF Inv, HoldsCurrent, OwnsWhatItHolds, Inside, Holding, SetInv, AddsToSet, EntryIsNamed, Infos
<1>4. Alone(w)
  BY <1>2, WorkerFrame
<1>5. NsOK(ns) /\ (multicast[i] => group[ns] # None)
  BY <1>3 DEF ContentInv, NsOK, GroupOK
<1>6. /\ \A m \in NS \ {ns} : sets'[m] = sets[m] /\ group'[m] = group[m]
      /\ \A j \in Infos \ {i} : addressSet'[j] = addressSet[j]
      /\ sets'[ns] = None <=> sets[ns] = None
      /\ addressSet'[i] # None
      /\ addressSet'[i].ips \in {addressSet[i].ips, addressSet[i].ips \cup {w}}
      /\ \/ group'[ns] = group[ns]
         \/ w \in Pods /\ multicast[i] /\ group'[ns] = group[ns] \cup {w}
      /\ w \in Pods /\ job[w].op = "add" /\ w \notin retryPods' =>
           w \in addressSet'[i].ips /\ (multicast[i] => w \in group'[ns])
  BY <1>3, <1>5, AddIPsWrites
<1>7. pc'[w] = "idle"
  BY <1>2 DEF AddIPs, Finish, Goto, Inv, LockTypes
<1>8. DueKept /\ \A p \in Pods \ {w} : Settled(p)' => Settled(p)
  <2>1. CASE w \in Pods
    <3>1. DueKept
      BY <2>1, PodDue
    <3>2. \A r \in Pods \ {w} : r \in retryPods' <=> r \in retryPods
      BY DEF AddIPs, Finish, Outcome
    <3>3. \A r \in Pods \ {w} : Settled(r)' => Settled(r)
      BY <1>1, <1>4, <3>2 DEF Settled, Live, Alone, Workers
    <3> QED  BY <3>1, <3>3
  <2>2. CASE w \notin Pods
    <3>1. w \in Workers \ Pods
      BY <1>2, <2>2
    <3>2. PodsUntouched
      BY <3>1, OthersLeavePods
    <3> QED  BY <3>2, UntouchedDue
  <2> QED  BY <2>1, <2>2
<1>9. \A v \in Workers : pc'[v] \in {"find", "write"} =>
        pc[v] \in {"find", "write"} /\ cur'[v] = cur[v] /\ listed'[v] = listed[v]
  BY <1>4, <1>7 DEF Alone
<1>10. \A m \in NS : pc[m] = "cleanup" => pc'[m] = "cleanup" /\ cur'[m] = cur[m]
  BY <1>2, <1>4 DEF Alone, Workers
<1>11. w \in Pods => NsOf[w] = ns /\ Due(w, i)' /\ job[w].op = "add"
  <2> SUFFICES ASSUME w \in Pods  PROVE NsOf[w] = ns /\ Due(w, i)' /\ job[w].op = "add"
    OBVIOUS
  <2>1. NsOf[w] = ns
    BY <1>2, <1>3 DEF Target
  <2>2. job[w] = AddEvent
    BY <1>1 DEF PodInv, PodLabels
  <2>3. Live(w) \/ (phase[w] = "gone" /\ podQueue[w] # <<>>)
    BY <1>1, <2>2, AddingIsDue
  <2> QED  BY <1>1, <2>1, <2>2, <2>3, PodEvents DEF Due, Live
<1>12. \A S : Members(ns, S, i) => \A p \in (S \cup {w}) \cap Pods : NsOf[p] = ns /\ Due(p, i)'
  <2>1. DueIn(ns)
    BY <1>8 DEF DueKept
  <2> QED  BY <1>3, <1>11, <2>1 DEF Members, DueIn, PodsIn
<1>13. NsOK(ns)'
  <2>1. RowOK(ns)'
    BY <1>1, <1>3, <1>5, <1>6, <1>12 DEF NsOK, RowOK, Members
  <2>2. GroupOK(ns)'
    <3>1. ASSUME multicast[i]  PROVE group'[ns] # None
      <4>1. group[ns] \in SUBSET Pods
        BY <1>5, <3>1 DEF NsInv, PopTypes
      <4>2. w \in Pods => group[ns] \cup {w} \in SUBSET Pods
        BY <4>1
      <4> QED  BY <1>5, <1>6, <3>1, <4>2, GroupsAssumption
    <3>2. ASSUME multicast[i], sets[ns] # None
          PROVE  \A p \in group'[ns] \cap Pods : NsOf[p] = ns /\ Due(p, i)'
      BY <1>3, <1>5, <1>6, <1>12, <3>2 DEF NsOK, GroupOK
    <3> QED  BY <1>1, <1>3, <1>6, <3>1, <3>2 DEF GroupOK, Members
  <2>3. GoneOK(ns)'
    BY <1>1, <1>3, <1>5, <1>6 DEF NsOK, GoneOK, NoPortsLeft
  <2>4. ASSUME NEW p \in PodsIn(ns)  PROVE SettledOK(p)'
    <3>1. CASE p = w
      BY <1>1, <1>3, <1>6, <1>11, <3>1 DEF SettledOK, Settled, PodsIn
    <3>2. CASE p # w
      BY <1>1, <1>3, <1>5, <1>6, <1>8, <3>2 DEF NsOK, SettledOK, PodsIn
    <3> QED  BY <3>1, <3>2
  <2> QED  BY <2>1, <2>2, <2>3, <2>4 DEF NsOK, PodsIn
<1>14. \A j \in Infos : j > infos' => j > infos /\ ~multicast'[j]
  BY <1>1 DEF ContentInv, FreshFlags
<1>15. \A p \in Pods : NsOf[p] # ns /\ Settled(p)' => Settled(p)
  BY <1>8, <1>11
<1> QED  BY <1>1, <1>3, <1>6, <1>8, <1>9, <1>10, <1>13, <1>14, <1>15, OneNamespace DEF DueKept

LEMMA RemoveIPsWrites ==
  ASSUME Inv, SetInv, ~faulty, NsInv, NEW p \in Pods, RemoveIPs(p),
         NEW ns \in NS, ns = NsOf[p], NEW i \in Infos, i = cur[p], nsOf[i] = ns, namespaces[ns] = i
  PROVE  /\ \A m \in NS \ {ns} : sets'[m] = sets[m] /\ group'[m] = group[m]
         /\ \A j \in Infos \ {i} : addressSet'[j] = addressSet[j]
         /\ sets'[ns] = None <=> sets[ns] = None
         /\ addressSet'[i] = None <=> addressSet[i] = None
         /\ addressSet[i] # None =>
              /\ addressSet'[i].ips \in {addressSet[i].ips, addressSet[i].ips \ {p}}
              /\ sets[ns] # None => p \notin addressSet'[i].ips
         /\ \/ group'[ns] = group[ns]
            \/ group[ns] # None /\ group'[ns] = group[ns] \ {p}
         /\ sets[ns] # None /\ multicast[i] /\ group[ns] # None => group'[ns] = group[ns] \ {p}
<1> DEFINE known == addressSet[i] # None /\ p \in addressSet[i].ips
           wrote == known /\ sets[ns] # None
<1>1. PICK ok \in Ok :
        LET done == known /\ ok /\ RowExists(ns, addressSet[i].uuid) IN
        /\ WriteRow(i, {}, {p}, done)
        /\ group' = IF (~known \/ done) /\ multicast[i] /\ group[ns] # None
                    THEN [group EXCEPT ![ns] = @ \ {p}] ELSE group
  BY DEF RemoveIPs
<1>2. ok = TRUE
  BY DEF Ok
<1>3. known => (RowExists(ns, addressSet[i].uuid) <=> sets[ns] # None)
  BY DisjointAssumption DEF RowExists, SetInv, CacheMatchesOVN, Infos
<1>4. /\ WriteRow(i, {}, {p}, wrote)
      /\ group' = IF (~known \/ wrote) /\ multicast[i] /\ group[ns] # None
                  THEN [group EXCEPT ![ns] = @ \ {p}] ELSE group
  <2>1. (known /\ ok /\ RowExists(ns, addressSet[i].uuid)) = wrote
    BY <1>2, <1>3 DEF RowExists
  <2> HIDE DEF wrote, known
  <2> QED  BY <1>1, <2>1
<1>5. /\ \A m \in NS \ {ns} : group'[m] = group[m]
      /\ \/ group'[ns] = group[ns]
         \/ group[ns] # None /\ group'[ns] = group[ns] \ {p}
      /\ sets[ns] # None /\ multicast[i] /\ group[ns] # None => group'[ns] = group[ns] \ {p}
  BY <1>4 DEF NsInv, PopTypes
<1>6. CASE wrote
  <2>1. /\ sets' = [sets EXCEPT ![ns].ips = (@ \ {p}) \cup {}]
        /\ addressSet' = [addressSet EXCEPT ![i].ips = (@ \ {p}) \cup {}]
    BY <1>4, <1>6 DEF WriteRow
  <2>2. /\ addressSet[i] \in Rows \ {None} /\ addressSet[i].ips \in SUBSET IPs
        /\ sets[ns] \in Rows \ {None} /\ sets[ns].ips \in SUBSET IPs
    BY <1>6, RowTypes DEF SetInv, SetTypes
  <2>3. addressSet'[i] = [addressSet[i] EXCEPT !.ips = @ \ {p}] /\ addressSet'[i].ips = addressSet[i].ips \ {p}
    BY <2>1, <2>2, RowTypes DEF SetInv, SetTypes, Rows
  <2>4. sets'[ns] = [sets[ns] EXCEPT !.ips = @ \ {p}]
    BY <2>1, <2>2 DEF SetInv, SetTypes, Rows
  <2>5. addressSet[i].ips \ {p} \in SUBSET IPs /\ sets[ns].ips \ {p} \in SUBSET IPs
    BY <2>2
  <2>6. sets'[ns] # None /\ addressSet'[i] # None
    <3>1. \A r \in Rows \ {None}, s \in SUBSET IPs : [r EXCEPT !.ips = s] # None
      BY RowTypes
    <3>2. [addressSet[i] EXCEPT !.ips = @ \ {p}] # None
      BY <2>2, <2>5, <3>1
    <3>3. [sets[ns] EXCEPT !.ips = @ \ {p}] # None
      BY <2>2, <2>5, <3>1
    <3> QED  BY <2>3, <2>4, <3>2, <3>3
  <2>7. /\ \A m \in NS \ {ns} : sets'[m] = sets[m]
        /\ \A j \in Infos \ {i} : addressSet'[j] = addressSet[j]
    BY <2>1 DEF SetInv, SetTypes
  <2> QED  BY <1>5, <1>6, <2>3, <2>6, <2>7
<1>7. CASE ~wrote
  <2>1. UNCHANGED <<sets, addressSet>>
    BY <1>4, <1>7 DEF WriteRow
  <2> QED  BY <1>5, <1>7, <2>1
<1> QED  BY <1>6, <1>7

LEMMA ContentRemoves ==
  ASSUME Inv, SetInv, CleansOwn, DestroyersNeverCreate, ~faulty, NsInv, PodInv, ContentInv,
         NEW p \in Pods, RemoveIPs(p)
  PROVE  ContentInv'
<1> USE DEF apiVars, qVars, ctrlVars, podVars
<1>1. pc[p] = "remove" /\ UNCHANGED <<namespaces, multicast, infos, phase, podQueue>>
  BY DEF RemoveIPs
<1>2. p \in Workers /\ p \notin Infos /\ p \notin NS /\ Target(p) = NsOf[p] /\ Inside(p)
  BY <1>1, DisjointAssumption DEF Workers, Infos, Target, Inside, Holding
<1>3. PICK ns \in NS, i \in Infos :
        /\ ns = NsOf[p] /\ i = cur[p]
        /\ namespaces[ns] = i /\ i # None /\ nsOf[i] = ns
  BY <1>1, <1>2, NsOfAssumption, DisjointAssumption
     DEF Inv, HoldsCurrent, OwnsWhatItHolds, Inside, Holding, SetInv, EntryIsNamed, Infos
<1>4. Alone(p) /\ NsOK(ns)
  BY <1>2, WorkerFrame DEF ContentInv
<1>5. /\ \A m \in NS \ {ns} : sets'[m] = sets[m] /\ group'[m] = group[m]
      /\ \A j \in Infos \ {i} : addressSet'[j] = addressSet[j]
      /\ sets'[ns] = None <=> sets[ns] = None
      /\ addressSet'[i] = None <=> addressSet[i] = None
      /\ addressSet[i] # None =>
           /\ addressSet'[i].ips \in {addressSet[i].ips, addressSet[i].ips \ {p}}
           /\ sets[ns] # None => p \notin addressSet'[i].ips
      /\ \/ group'[ns] = group[ns]
         \/ group[ns] # None /\ group'[ns] = group[ns] \ {p}
      /\ sets[ns] # None /\ multicast[i] /\ group[ns] # None => group'[ns] = group[ns] \ {p}
  BY <1>3, RemoveIPsWrites
<1>6. pc'[p] = "idle" /\ UNCHANGED retryPods
  <2>1. job[p] = DeleteEvent
    BY <1>1 DEF PodInv, PodLabels
  <2> QED  BY <1>2, <2>1, PodEvents DEF RemoveIPs, Finish, Goto, Outcome, Inv, LockTypes
<1>7. \A r \in Pods \ {p} : (Settled(r)' => Settled(r)) /\ \A j : Due(r, j) => Due(r, j)'
  BY <1>1, <1>4, <1>6 DEF Settled, Due, Live, Alone, Workers
<1>8. ~Settled(p)'
  BY PodSettles
<1>9. \A m \in NS \ {ns} : DueIn(m)
  BY <1>3, <1>7 DEF DueIn, PodsIn
<1>10. \A v \in Workers : pc'[v] \in {"find", "write"} =>
         /\ pc[v] \in {"find", "write"} /\ cur'[v] = cur[v] /\ listed'[v] = listed[v]
         /\ Target(v) = ns => DueIn(ns)
  <2> SUFFICES ASSUME NEW v \in Workers, pc'[v] \in {"find", "write"}
               PROVE  /\ pc[v] \in {"find", "write"} /\ cur'[v] = cur[v] /\ listed'[v] = listed[v]
                      /\ Target(v) # ns
    OBVIOUS
  <2>1. v # p /\ pc[v] \in {"find", "write"} /\ cur'[v] = cur[v] /\ listed'[v] = listed[v]
    BY <1>4, <1>6 DEF Alone
  <2>2. Inside(v) /\ namespaces[Target(v)] = cur[v]
    BY <2>1 DEF Inside, Holding, Inv, HoldsCurrent
  <2>3. cur[v] # cur[p]
    BY <1>2, <2>1, <2>2, Exclusive
  <2> QED  BY <1>3, <2>1, <2>2, <2>3
<1>11. \A m \in NS : pc[m] = "cleanup" => pc'[m] = "cleanup" /\ cur'[m] = cur[m]
  BY <1>2, <1>4 DEF Alone, Workers
<1>12. NsOK(ns)'
  <2>1. RowOK(ns)'
    BY <1>1, <1>3, <1>4, <1>5, <1>7 DEF NsOK, RowOK, Members
  <2>2. GroupOK(ns)'
    <3>1. ASSUME multicast[i]  PROVE group[ns] # None /\ group'[ns] # None
      <4>1. group[ns] # None /\ group[ns] \in SUBSET Pods
        BY <1>3, <1>4, <3>1 DEF NsOK, GroupOK, NsInv, PopTypes
      <4>2. group[ns] \ {p} \in SUBSET Pods
        BY <4>1
      <4> QED  BY <1>5, <4>1, <4>2, GroupsAssumption
    <3>2. ASSUME multicast[i], sets[ns] # None
          PROVE  \A r \in group'[ns] \cap Pods : NsOf[r] = ns /\ Due(r, i)'
      BY <1>3, <1>4, <1>5, <1>7, <3>1, <3>2 DEF NsOK, GroupOK, Members
    <3>3. multicast[i] => addressSet'[i] # None
      BY <1>3, <1>4, <1>5 DEF NsOK, GroupOK
    <3> QED  BY <1>1, <1>3, <1>5, <3>1, <3>2, <3>3 DEF GroupOK, Members
  <2>3. GoneOK(ns)'
    BY <1>1, <1>3, <1>4, <1>5 DEF NsOK, GoneOK, NoPortsLeft
  <2>4. ASSUME NEW r \in PodsIn(ns)  PROVE SettledOK(r)'
    <3>1. CASE r = p
      BY <1>8, <3>1 DEF SettledOK
    <3>2. CASE r # p
      BY <1>1, <1>3, <1>4, <1>5, <1>7, <3>2 DEF NsOK, SettledOK, PodsIn
    <3> QED  BY <3>1, <3>2
  <2> QED  BY <2>1, <2>2, <2>3, <2>4 DEF NsOK, PodsIn
<1>13. \A j \in Infos : j > infos' => j > infos /\ ~multicast'[j]
  BY <1>1 DEF ContentInv, FreshFlags
<1>14. \A r \in Pods : NsOf[r] # ns /\ Settled(r)' => Settled(r)
  BY <1>3, <1>7
<1> QED  BY <1>1, <1>3, <1>5, <1>9, <1>10, <1>11, <1>12, <1>13, <1>14, OneNamespace

\* A row that is gone holds no address.
LEMMA ContentDestroys ==
  ASSUME Inv, SetInv, CleansOwn, DestroyersNeverCreate, ~faulty, NsInv, PodInv, ContentInv,
         NEW d \in Infos, Destroy(d)
  PROVE  ContentInv'
<1> USE DEF apiVars, qVars, ctrlVars, podVars
<1>1. /\ pc[d] = "destroy"
      /\ UNCHANGED <<namespaces, addressSet, multicast, infos, group>>
  BY DEF Destroy
<1>2. d \in Workers /\ d \notin Pods /\ d \notin NS
  BY DisjointAssumption DEF Workers, Infos
<1>3. PICK ns \in NS : ns = nsOf[d]
  <2>1. Target(d) = nsOf[d]
    BY DisjointAssumption DEF Target, Infos
  <2> QED  BY <1>1, <1>2, <2>1, TargetIsNamespace
<1>4. Alone(d) /\ pc'[d] = "idle"
  BY <1>2, WorkerFrame DEF Destroy, Finish, Goto, Inv, LockTypes
<1>5. DueKept /\ \A p \in Pods : Settled(p)' => Settled(p)
  <2>1. PodsUntouched
    BY <1>2, OthersLeavePods
  <2> QED  BY <2>1, UntouchedDue
<1>6. (\A m \in NS \ {ns} : sets'[m] = sets[m]) /\ sets'[ns] \in {sets[ns], None}
  BY <1>3 DEF Destroy, SetInv, SetTypes
<1>7. \A v \in Workers : pc'[v] \in {"find", "write"} =>
        pc[v] \in {"find", "write"} /\ cur'[v] = cur[v] /\ listed'[v] = listed[v]
  BY <1>4 DEF Alone
<1>8. \A m \in NS : pc[m] = "cleanup" => pc'[m] = "cleanup" /\ cur'[m] = cur[m]
  BY <1>2, <1>4 DEF Alone, Workers
<1>9. NsOK(ns)'
  <2>1. NsOK(ns)
    BY DEF ContentInv
  <2>2. \A S : namespaces[ns] # None /\ Members(ns, S, namespaces[ns]) => Members(ns, S, namespaces[ns])'
    <3>1. DueIn(ns) /\ (namespaces[ns] # None => namespaces[ns] \in Infos)
      BY <1>5 DEF DueKept, Inv, LockTypes
    <3> QED  BY <1>1, <3>1 DEF Members, DueIn, PodsIn
  <2>3. RowOK(ns)'
    BY <1>1, <1>6, <2>1, <2>2 DEF NsOK, RowOK
  <2>4. GroupOK(ns)'
    BY <1>1, <1>6, <2>1, <2>2 DEF NsOK, GroupOK
  <2>5. GoneOK(ns)'
    BY <1>1, <1>8, <2>1 DEF NsOK, GoneOK, NoPortsLeft
  <2>6. \A p \in PodsIn(ns) : SettledOK(p)'
    BY <1>1, <1>5, <2>1 DEF NsOK, SettledOK, PodsIn
  <2> QED  BY <2>3, <2>4, <2>5, <2>6 DEF NsOK, PodsIn
<1>10. \A j \in Infos : j > infos' => j > infos /\ ~multicast'[j]
  BY <1>1 DEF ContentInv, FreshFlags
<1> QED  BY <1>1, <1>3, <1>5, <1>6, <1>7, <1>8, <1>9, <1>10, OneNamespace DEF DueKept

\* A new namespaceInfo: no address set, no multicast, no settled pod.
LEMMA ContentCreates ==
  ASSUME Inv, SetInv, CleansOwn, DestroyersNeverCreate, NsInv, PodInv, ContentInv,
         NEW ns \in NS, createNamespaceLocked(ns)
  PROVE  ContentInv'
<1> USE DEF apiVars, qVars, ctrlVars, podVars, dbVars
<1>1. PICK i \in Infos : i = infos + 1
  BY DEF createNamespaceLocked
<1>2. /\ pc[ns] = "idle" /\ nsQueue[ns] # <<>> /\ Head(nsQueue[ns]).op = "add"
      /\ namespaces' = [namespaces EXCEPT ![ns] = i] /\ infos' = i
      /\ UNCHANGED <<addressSet, multicast, sets, group>>
  BY <1>1 DEF createNamespaceLocked
<1>3. ns \in Workers /\ ns \notin Pods
  BY DisjointAssumption DEF Workers
<1>4. Alone(ns) /\ pc'[ns] = "list"
  BY <1>3, WorkerFrame DEF createNamespaceLocked, Goto, Inv, LockTypes
<1>5. DueKept /\ \A p \in Pods : Settled(p)' => Settled(p)
  <2>1. PodsUntouched
    BY <1>3, OthersLeavePods
  <2> QED  BY <2>1, UntouchedDue
<1>6. namespaces[ns] = None /\ NoPortsLeft(ns)
  <2>1. nsQueue[ns] \in Seq(Events)
    BY DEF Inv, LockTypes
  <2>2. nsQueue[ns][1].op = "add"
    BY <1>2, <2>1
  <2>3. namespaces[ns] = None
    BY <1>2, <2>2 DEF NsInv, NsStage, Ahead, Announced, Present
  <2> QED  BY <1>2, <2>3 DEF ContentInv, NsOK, GoneOK
<1>7. /\ (\A m \in NS \ {ns} : namespaces'[m] = namespaces[m]) /\ namespaces'[ns] = i
      /\ i # None /\ i > infos /\ infos \in Int
  BY <1>1, <1>2, DisjointAssumption DEF Inv, LockTypes, Infos
<1>8. addressSet[i] = None /\ ~multicast[i]
  BY <1>7 DEF SetInv, FreshSets, ContentInv, FreshFlags
<1>9. \A v \in Workers : pc'[v] \in {"find", "write"} =>
        pc[v] \in {"find", "write"} /\ cur'[v] = cur[v] /\ listed'[v] = listed[v]
  BY <1>4 DEF Alone
<1>10. \A m \in NS \ {ns} : pc[m] = "cleanup" => pc'[m] = "cleanup" /\ cur'[m] = cur[m]
  BY <1>3, <1>4 DEF Alone, Workers
<1>11. NsOK(ns)'
  <2>1. RowOK(ns)' /\ GroupOK(ns)' /\ GoneOK(ns)'
    BY <1>2, <1>6, <1>7, <1>8 DEF RowOK, GroupOK, GoneOK, NoPortsLeft
  <2>2. \A p \in PodsIn(ns) : ~Settled(p)'
    BY <1>5, <1>6 DEF ContentInv, NsOK, SettledOK, PodsIn
  <2> QED  BY <2>1, <2>2 DEF NsOK, SettledOK, PodsIn
<1>12. \A j \in Infos : j > infos' => j > infos /\ ~multicast'[j]
  <2>1. \A j \in Infos : j > i => j > infos
    BY <1>1, <1>7, BoundsAssumption DEF Infos
  <2> QED  BY <1>2, <2>1 DEF ContentInv, FreshFlags
<1> QED  BY <1>2, <1>5, <1>7, <1>8, <1>9, <1>10, <1>11, <1>12, OneNamespace DEF DueKept

\* The entry leaves the table: its pods are gone, and Cleanup will remove the
\* port group.
LEMMA ContentDeletes ==
  ASSUME Inv, SetInv, CleansOwn, DestroyersNeverCreate, NsInv, PodInv, ContentInv,
         NEW ns \in NS, deleteNamespaceLocked(ns)
  PROVE  ContentInv'
<1> USE DEF apiVars, qVars, ctrlVars, podVars
<1>1. ns \in Workers /\ ns \notin Pods /\ Target(ns) = ns
  BY DisjointAssumption DEF Workers, Target
<1>2. /\ UNCHANGED <<nsOf, infos, multicast, listed, cur, group, phase, podQueue, lister>>
      /\ pc[ns] = "recheck" /\ namespaces[ns] = cur[ns] /\ job[ns].op = "delete"
      /\ namespaces' = [namespaces EXCEPT ![ns] = None]
  BY <1>1 DEF deleteNamespaceLocked, Stale
<1>3. PICK i \in Infos : i = cur[ns] /\ i # ns /\ i # None /\ i \in Workers /\ nsOf[i] = ns
  BY <1>1, <1>2, DisjointAssumption
     DEF Inside, Inv, OwnsWhatItHolds, Workers, Infos, SetInv, EntryIsNamed
<1>4. pc' = [pc EXCEPT ![ns] = "cleanup"] \/ pc' = [pc EXCEPT ![ns] = "cleanup", ![i] = "sleep"]
  BY <1>3 DEF deleteNamespaceLocked
<1>5. pc'[ns] = "cleanup" /\ \A v \in Workers \ {ns} : pc'[v] = pc[v] \/ (v = i /\ pc'[v] = "sleep")
  BY <1>1, <1>3, <1>4 DEF Inv, LockTypes
<1>6. DueKept /\ \A p \in Pods : Settled(p)' => Settled(p)
  <2>1. PodsUntouched
    BY <1>1, OthersLeavePods
  <2> QED  BY <2>1, UntouchedDue
<1>7. /\ (\A m \in NS \ {ns} : namespaces'[m] = namespaces[m]) /\ namespaces'[ns] = None
      /\ \A m \in NS \ {ns} : sets'[m] = sets[m]
      /\ \A j \in Infos \ {i} : addressSet'[j] = addressSet[j]
  BY <1>2, <1>3 DEF deleteNamespaceLocked, WriteRow, Inv, LockTypes, SetInv, SetTypes
<1>8. \A p \in PodsIn(ns) : ~Live(p)
  <2>1. ~Ahead(ns)
    BY <1>2 DEF NsInv, NsStage, Announced, Present
  <2> QED  BY <2>1 DEF Ahead, PodInv, NoOrphans, PodsIn
<1>9. \A v \in Workers : pc'[v] \in {"find", "write"} =>
        pc[v] \in {"find", "write"} /\ cur'[v] = cur[v] /\ listed'[v] = listed[v]
  BY <1>2, <1>5
<1>10. \A m \in NS \ {ns} : pc[m] = "cleanup" => pc'[m] = "cleanup" /\ cur'[m] = cur[m]
  BY <1>2, <1>3, <1>5, DisjointAssumption DEF Workers, Infos
<1>11. NsOK(ns)'
  <2>1. RowOK(ns)' /\ GroupOK(ns)'
    BY <1>7 DEF RowOK, GroupOK
  <2>2. GoneOK(ns)'
    <3>1. GoneOK(ns)
      BY DEF ContentInv, NsOK
    <3> QED  BY <1>2, <1>3, <1>5, <1>7, <3>1 DEF GoneOK, NoPortsLeft
  <2>3. \A p \in PodsIn(ns) : ~Settled(p)'
    BY <1>6, <1>8 DEF Settled, PodsIn
  <2> QED  BY <2>1, <2>2, <2>3 DEF NsOK, SettledOK, PodsIn
<1>12. \A j \in Infos : j > infos' => j > infos /\ ~multicast'[j]
  BY <1>2 DEF ContentInv, FreshFlags
<1> QED  BY <1>2, <1>3, <1>6, <1>7, <1>9, <1>10, <1>11, <1>12, OneNamespace DEF DueKept

\* multicastDeleteNamespace: the port group goes with the namespace.
LEMMA ContentCleans ==
  ASSUME Inv, SetInv, CleansOwn, DestroyersNeverCreate, ~faulty, NsInv, PodInv, ContentInv,
         NEW ns \in NS, Cleanup(ns)
  PROVE  ContentInv'
<1> USE DEF apiVars, qVars, ctrlVars, podVars
<1>1. ns \in Workers /\ ns \notin Pods
  BY DisjointAssumption DEF Workers
<1>2. pc[ns] = "cleanup" /\ UNCHANGED <<namespaces, addressSet, infos, sets>>
  BY DEF Cleanup
<1>3. PICK i \in Infos : i = cur[ns] /\ nsOf[i] = ns
  BY <1>2 DEF CleansOwn
<1>4. Alone(ns) /\ pc'[ns] = "idle"
  BY <1>1, WorkerFrame DEF Cleanup, Finish, Goto, Inv, LockTypes
<1>5. DueKept /\ \A p \in Pods : Settled(p)' => Settled(p)
  <2>1. PodsUntouched
    BY <1>1, OthersLeavePods
  <2> QED  BY <2>1, UntouchedDue
<1>6. /\ \A j \in Infos \ {i} : multicast'[j] = multicast[j]
      /\ ~multicast'[i]
      /\ \A m \in NS \ {ns} : group'[m] = group[m]
      /\ group'[ns] = IF multicast[i] THEN None ELSE group[ns]
  BY <1>3 DEF Cleanup, Ok, NsInv, PopTypes
<1>7. namespaces[ns] = None /\ NsOK(ns)
  BY <1>2 DEF NsInv, NsStage, Announced, Present, Leaving, Deleting, ContentInv
<1>8. \A v \in Workers : pc'[v] \in {"find", "write"} =>
        pc[v] \in {"find", "write"} /\ cur'[v] = cur[v] /\ listed'[v] = listed[v]
  BY <1>4 DEF Alone
<1>9. \A m \in NS \ {ns} : pc[m] = "cleanup" => pc'[m] = "cleanup" /\ cur'[m] = cur[m]
  BY <1>1, <1>4 DEF Alone, Workers
<1>10. NsOK(ns)'
  <2>1. RowOK(ns)' /\ GroupOK(ns)'
    BY <1>2, <1>7 DEF RowOK, GroupOK
  <2>2. GoneOK(ns)'
    BY <1>2, <1>3, <1>6, <1>7 DEF NsOK, GoneOK, NoPortsLeft
  <2>3. \A p \in PodsIn(ns) : ~Settled(p)'
    BY <1>5, <1>7 DEF NsOK, SettledOK, PodsIn
  <2> QED  BY <2>1, <2>2, <2>3 DEF NsOK, SettledOK, PodsIn
<1>11. \A j \in Infos : j > infos' => j > infos /\ ~multicast'[j]
  BY <1>2, <1>6 DEF ContentInv, FreshFlags
<1> QED  BY <1>2, <1>3, <1>5, <1>6, <1>8, <1>9, <1>10, <1>11, OneNamespace DEF DueKept

\* multicastUpdateNamespace: a new group starts from the pods in the port
\* cache, so a pod that is settled already is in it.
LEMMA ContentMulticast ==
  ASSUME Inv, SetInv, CleansOwn, DestroyersNeverCreate, ~faulty, NsInv, PodInv, ContentInv,
         NEW ns \in NS, multicastUpdateNamespace(ns)
  PROVE  ContentInv'
<1> USE DEF apiVars, qVars, ctrlVars, podVars
<1>1. ns \in Workers /\ ns \notin Pods /\ Target(ns) = ns
  BY DisjointAssumption DEF Workers, Target
<1>2. pc[ns] = "multicast" /\ UNCHANGED <<namespaces, addressSet, infos, sets, phase>>
  BY DEF multicastUpdateNamespace
<1>3. PICK i \in Infos : i = cur[ns] /\ namespaces[ns] = i /\ i # None /\ nsOf[i] = ns
  BY <1>1, <1>2, DisjointAssumption
     DEF Inv, OwnsWhatItHolds, HoldsCurrent, Inside, Holding, Infos, SetInv, EntryIsNamed
<1>4. Alone(ns) /\ pc'[ns] = "idle"
  BY <1>1, WorkerFrame DEF multicastUpdateNamespace, Finish, Goto, Inv, LockTypes
<1>5. DueKept /\ \A p \in Pods : Settled(p)' => Settled(p)
  <2>1. PodsUntouched
    BY <1>1, OthersLeavePods
  <2> QED  BY <2>1, UntouchedDue
<1>6. NsOK(ns) /\ job[ns].mcast \in BOOLEAN /\ multicast[i] \in BOOLEAN
  BY <1>1 DEF ContentInv, Inv, LockTypes, Events, NsInv, PopTypes
<1>7. /\ \A j \in Infos \ {i} : multicast'[j] = multicast[j]
      /\ multicast'[i] = job[ns].mcast
      /\ \A m \in NS \ {ns} : group'[m] = group[m]
  BY <1>3 DEF multicastUpdateNamespace, NsInv, PopTypes
<1>8. \/ multicast'[i] = multicast[i] /\ group'[ns] = group[ns]
      \/ multicast'[i] /\ ~multicast[i] /\ addressSet[i] # None /\ group'[ns] = GroupPorts(ns) \cup Ports(ns)
      \/ ~multicast'[i] /\ group'[ns] = None
  BY <1>3, <1>6, <1>7 DEF multicastUpdateNamespace, NsInv, PopTypes
<1>9. \A S : Members(ns, S, i) => \A p \in S \cap Pods : NsOf[p] = ns /\ Due(p, i)'
  <2>1. DueIn(ns)
    BY <1>5 DEF DueKept
  <2> QED  BY <1>3, <2>1 DEF Members, DueIn, PodsIn
<1>10. NsOK(ns)'
  <2>1. RowOK(ns)'
    BY <1>2, <1>3, <1>6, <1>9 DEF NsOK, RowOK, Members
  <2>2. CASE multicast'[i] = multicast[i] /\ group'[ns] = group[ns]
    <3>1. GroupOK(ns)'
      BY <1>2, <1>3, <1>6, <1>9, <2>2 DEF NsOK, GroupOK, Members
    <3>2. GoneOK(ns)'
      BY <1>2, <1>3, <1>6, <2>2 DEF NsOK, GoneOK, NoPortsLeft
    <3>3. \A p \in PodsIn(ns) : SettledOK(p)'
      BY <1>2, <1>3, <1>5, <1>6, <2>2 DEF NsOK, SettledOK, PodsIn
    <3> QED  BY <2>1, <3>1, <3>2, <3>3 DEF NsOK, PodsIn
  <2>3. CASE multicast'[i] /\ ~multicast[i] /\ addressSet[i] # None /\ group'[ns] = GroupPorts(ns) \cup Ports(ns)
    <3>1. GroupPorts(ns) = {}
      BY <1>3, <1>6, <2>3 DEF NsOK, GoneOK, NoPortsLeft, GroupPorts
    <3>2. group'[ns] = Ports(ns) /\ group'[ns] # None
      <4>1. Ports(ns) \in SUBSET Pods
        BY DEF Ports, PodsIn
      <4> QED  BY <2>3, <3>1, <4>1, GroupsAssumption
    <3>3. \A p \in group'[ns] \cap Pods : NsOf[p] = ns /\ Due(p, i)'
      BY <1>2, <3>2 DEF Ports, PodsIn, Due, Live
    <3>4. GroupOK(ns)' /\ GoneOK(ns)'
      BY <1>2, <1>3, <2>3, <3>2, <3>3 DEF GroupOK, GoneOK, Members
    <3>5. ASSUME NEW p \in PodsIn(ns), Settled(p)  PROVE p \in Ports(ns)
      <4>1. p \in portCache
        BY <3>5, PairQueues DEF PodInv, PodStage, Settled, Live, PodsIn
      <4> QED  BY <3>5, <4>1 DEF Ports, Settled
    <3>6. \A p \in PodsIn(ns) : SettledOK(p)'
      BY <1>2, <1>3, <1>5, <1>6, <3>2, <3>5 DEF NsOK, SettledOK, PodsIn
    <3> QED  BY <2>1, <3>4, <3>6 DEF NsOK, PodsIn
  <2>4. CASE ~multicast'[i] /\ group'[ns] = None
    <3>1. GroupOK(ns)' /\ GoneOK(ns)'
      BY <1>2, <1>3, <2>4 DEF GroupOK, GoneOK, NoPortsLeft
    <3>2. \A p \in PodsIn(ns) : SettledOK(p)'
      BY <1>2, <1>3, <1>5, <1>6, <2>4 DEF NsOK, SettledOK, PodsIn
    <3> QED  BY <2>1, <3>1, <3>2 DEF NsOK, PodsIn
  <2> QED  BY <1>8, <2>2, <2>3, <2>4
<1>11. \A v \in Workers : pc'[v] \in {"find", "write"} =>
         pc[v] \in {"find", "write"} /\ cur'[v] = cur[v] /\ listed'[v] = listed[v]
  BY <1>4 DEF Alone
<1>12. \A m \in NS \ {ns} : pc[m] = "cleanup" => pc'[m] = "cleanup" /\ cur'[m] = cur[m]
  BY <1>1, <1>4 DEF Alone, Workers
<1>13. \A j \in Infos : j > infos' => j > infos /\ ~multicast'[j]
  <2>1. i <= infos
    BY <1>3, BoundsAssumption DEF Inv, LockTypes, FreshInfos, Infos
  <2>2. \A j \in Infos : j > infos => j # i
    BY <2>1, BoundsAssumption DEF Infos, Inv, LockTypes
  <2> QED  BY <1>2, <1>7, <2>2 DEF ContentInv, FreshFlags
<1> QED  BY <1>2, <1>3, <1>5, <1>7, <1>10, <1>11, <1>12, <1>13, OneNamespace DEF DueKept

LEMMA NextContent ==
  /\ ~faulty /\ Inv /\ SetInv /\ CleansOwn /\ DestroyersNeverCreate /\ NsInv /\ PodInv /\ ContentInv
  /\ [Next]_vars
  => ContentInv'
<1> SUFFICES ASSUME ~faulty, Inv, SetInv, CleansOwn, DestroyersNeverCreate, NsInv, PodInv, ContentInv,
                    [Next]_vars
             PROVE  ContentInv'
  OBVIOUS
<1>1. NS \subseteq Workers /\ Pods \subseteq Workers /\ Nodes \subseteq Workers /\ Infos \subseteq Workers
  BY DEF Workers
<1>2. CASE API
  BY <1>2, ContentAPI
<1>3. ASSUME NEW ns \in NS, NSStep(ns)  PROVE ContentInv'
  BY <1>1, <1>3, ContentReads, ContentWrites, ContentCreates, ContentDeletes, ContentCleans,
     ContentMulticast DEF NSStep, Creating
<1>4. ASSUME NEW p \in Pods, PodStep(p)  PROVE ContentInv'
  BY <1>1, <1>4, ContentReads, ContentWrites, ContentAdds, ContentRemoves DEF PodStep, Creating
<1>5. ASSUME NEW n \in Nodes, NodeStep(n)  PROVE ContentInv'
  BY <1>1, <1>5, ContentReads, ContentWrites, ContentAdds DEF NodeStep, Creating
<1>6. ASSUME NEW i \in Infos, DestroyerStep(i)  PROVE ContentInv'
  BY <1>1, <1>6, ContentReads, ContentDestroys DEF DestroyerStep
<1>7. ASSUME NEW w \in Pods \cup Nodes, WaitTimeout(w)  PROVE ContentInv'
  BY <1>1, <1>7, ContentReads
<1>8. CASE UNCHANGED <<apiVars, qVars, ctrlVars, podVars, thrVars, dbVars>>
  <2>1. UNCHANGED <<phase, podQueue, retryPods, pc, cur, listed, namespaces, sets, addressSet, group,
                    multicast, infos>>
    BY <1>8 DEF apiVars, qVars, ctrlVars, podVars, thrVars, dbVars
  <2>2. DueKept /\ \A p \in Pods : Settled(p)' => Settled(p)
    BY <2>1, UntouchedDue DEF PodsUntouched
  <2> QED  BY <2>1, <2>2, QuietStep
<1>9. CASE \E ns \in NS : Panic(ns)
  BY <1>8, <1>9 DEF Panic
<1>10. CASE UNCHANGED vars
  BY <1>8, <1>10 DEF vars
<1> QED  BY <1>2, <1>3, <1>4, <1>5, <1>6, <1>7, <1>9, <1>10 DEF Next, Step

LEMMA InitContent == Init => ContentInv
<1> SUFFICES ASSUME Init PROVE ContentInv
  OBVIOUS
<1>1. ListedClean /\ FreshFlags
  BY DEF Init, ListedClean, FreshFlags
<1>2. \A p \in Pods : ~Settled(p)
  <2> SUFFICES ASSUME NEW p \in Pods, Settled(p) PROVE FALSE
    OBVIOUS
  <2>1. phase[p] = "running"
    BY DEF Init, Settled, Live
  <2>2. podQueue[p] = <<AddEvent>>
    BY <2>1 DEF Init, AddEvent
  <2> QED  BY <2>2 DEF Settled
<1>3. ASSUME NEW ns \in NS  PROVE NsOK(ns)
  <2>1. namespaces[ns] = None /\ NoPortsLeft(ns)
    BY DEF Init, NoPortsLeft
  <2> QED  BY <1>2, <2>1 DEF NsOK, RowOK, GroupOK, GoneOK, SettledOK, PodsIn
<1> QED  BY <1>1, <1>3 DEF ContentInv

\* What the invariant says of a namespace whose queues have been served.
LEMMA QuietIsCaughtUp ==
  ASSUME Inv, SetInv, CalmInv, NsInv, PodInv, ContentInv,
         NEW ns \in NS, Quiet(ns), lister[ns], sets[ns] # None
  PROVE  LET live == {p \in PodsIn(ns) : Live(p)}
         IN  /\ namespaces[ns] # None
             /\ sets[ns].ips \cap Pods = live
             /\ multicast[namespaces[ns]] = annotated[ns]
             /\ annotated[ns] => group[ns] = live
<1>1. PICK i \in Infos : namespaces[ns] = i /\ i # None
  BY DisjointAssumption DEF NsInv, NsStage, Ahead, Announced, Present, Quiet, Inv, LockTypes, Infos
<1>2. \A p \in PodsIn(ns) : /\ podQueue[p] = <<>> /\ pc[p] = "idle"
                            /\ Live(p) <=> Settled(p)
                            /\ Due(p, i) => Live(p)
  BY DEF Quiet, Settled, Due
<1>3. addressSet[i] # None
  <2> SUFFICES ASSUME addressSet[i] = None PROVE FALSE
    OBVIOUS
  <2>1. PICK w \in Workers : AtCreation(w) /\ Target(w) = ns
    BY <1>1 DEF CalmInv, RowIsAdopted
  <2>2. w \notin Infos
    BY <2>1 DEF CalmInv, DestroyersNeverCreate
  <2>3. CASE w \in NS
    BY <2>1, <2>3 DEF Target, AtCreation, Quiet
  <2>4. CASE w \in Pods
    <3>1. w \in PodsIn(ns)
      BY <2>1, <2>4, DisjointAssumption DEF Target, PodsIn
    <3> QED  BY <1>2, <2>1, <3>1 DEF AtCreation
  <2>5. CASE w \in Nodes
    BY <2>1, <2>5, DisjointAssumption DEF Target, AtCreation, Quiet
  <2> QED  BY <2>2, <2>3, <2>4, <2>5 DEF Workers
<1>4. sets[ns] = addressSet[i] /\ NsOK(ns)
  BY <1>1, <1>3 DEF SetInv, CacheMatchesOVN, ContentInv
<1>5. sets[ns].ips \cap Pods = {p \in PodsIn(ns) : Live(p)}
  <2>1. ASSUME NEW p \in sets[ns].ips \cap Pods  PROVE p \in PodsIn(ns) /\ Live(p)
    BY <1>1, <1>2, <1>3, <1>4 DEF NsOK, RowOK, Members, PodsIn
  <2>2. ASSUME NEW p \in PodsIn(ns), Live(p)  PROVE p \in sets[ns].ips \cap Pods
    BY <1>1, <1>2, <1>4, <2>2 DEF NsOK, SettledOK, PodsIn
  <2> QED  BY <2>1, <2>2
<1>6. multicast[i] = annotated[ns]
  BY <1>1 DEF NsInv, McastFollows, Told, Quiet
<1>7. ASSUME annotated[ns]  PROVE group[ns] = {p \in PodsIn(ns) : Live(p)}
  <2>1. group[ns] # None /\ group[ns] \in SUBSET Pods /\ Members(ns, group[ns], i)
    BY <1>1, <1>4, <1>6, <1>7 DEF NsOK, GroupOK, NsInv, PopTypes
  <2>2. ASSUME NEW p \in group[ns]  PROVE p \in PodsIn(ns) /\ Live(p)
    BY <1>2, <2>1 DEF Members, PodsIn
  <2>3. ASSUME NEW p \in PodsIn(ns), Live(p)  PROVE p \in group[ns]
    BY <1>1, <1>2, <1>4, <1>6, <1>7, <2>3 DEF NsOK, SettledOK, PodsIn
  <2> QED  BY <2>1, <2>2, <2>3
<1> QED  BY <1>1, <1>5, <1>6, <1>7

\* Without failures of the database, and if a namespace is created again only
\* once its deletion has been handled, the handlers leave in OVN what the pods
\* and the annotation of the namespace ask for: whenever the queues of a
\* namespace, of its pods and of the nodes have been served, its address set
\* holds exactly its live pods and its multicast port group exactly their
\* ports, in whatever order the queues were served.
THEOREM NamespacesCatchUp ==
  ASSUME ~LaggingDelete
  PROVE  Spec => []CalmCatchesUp
<1> DEFINE I == ~faulty => CalmInv /\ CleansOwn /\ NsInv /\ PodInv /\ ContentInv
<1>1. Init => I
  BY InitCalm, InitNs, InitPods, InitContent
<1>2. Inv /\ SetInv /\ I /\ [Next]_vars => I'
  <2> SUFFICES ASSUME Inv, SetInv, I, [Next]_vars, ~faulty'  PROVE I'
    OBVIOUS
  <2>1. ~faulty
    BY FaultyStays
  <2>2. CalmInv' /\ CleansOwn' /\ NsInv' /\ PodInv'
    BY <2>1, NextCalm, CleansNext, NextNs, NextPods
  <2>3. ContentInv'
    BY <2>1, NextContent DEF CalmInv
  <2> QED  BY <2>2, <2>3
<1>3. Inv /\ SetInv /\ I => CalmCatchesUp
  <2> SUFFICES ASSUME Inv, SetInv, I, ~faulty  PROVE CaughtUp /\ DeletedSetStaysEmpty
    BY DEF CalmCatchesUp
  <2>1. CaughtUp
    BY QuietIsCaughtUp DEF CaughtUp
  <2>2. DeletedSetStaysEmpty
    BY DEF CalmInv
  <2> QED  BY <2>1, <2>2
<1> HIDE DEF I
<1> QED  BY <1>1, <1>2, <1>3, InitInv, NextInv, InitSets, NextSets, PTL DEF Spec

=============================================================================
