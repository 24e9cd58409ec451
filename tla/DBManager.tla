----------------------------- MODULE DBManager -----------------------------
(***************************************************************************)
(* The checkers of a clustered OVN database (ovndbmanager.go), one beside  *)
(* each database server.  Every minute a checker removes from the Raft     *)
(* cluster the members that stand for an earlier life of its own server,   *)
(* and the members at addresses it does not know; when its server stops    *)
(* answering it sets the database file aside and makes the server exit.    *)
(* The checkers do not know of each other.                                 *)
(*                                                                         *)
(* A server has an identity of its own, kept in its file: without a file   *)
(* it joins the cluster again under a new one.  Raft itself is external:   *)
(* one configuration, which changes while a majority of it runs.           *)
(***************************************************************************)
EXTENDS Naturals, FiniteSets

CONSTANTS Addresses,   \* 1..n: the addresses of servers, now or ever
          Worlds,      \* records: pods, started, gone, known, faults, losses
          MaxSid,      \* identities in all
          MaxClusterStatusRetry

VARIABLES
    world, left,
    members,   \* the cluster's configuration: identities and addresses
    file,      \* the identity in each server's file; 0 without one
    running,   \* the identity each server runs with; 0 when it does not run
    hung,      \* servers that answer nothing
    listed,    \* addresses of the database pods, as the API server has them
    next,      \* the next identity
    retries,   \* clusterStatusRetryCnt of each checker
    check,     \* each checker's progress through a tick, and what it read so far
    causes     \* what happened that the README lists

vars == <<world, left, members, file, running, hung, listed, next, retries, check, causes>>

Idle == [at |-> "idle", sid |-> 0, count |-> 0, unknown |-> {}]

Answers(a) == running[a] # 0 /\ a \notin hung
Lives(m) == m.addr \in world.pods /\ running[m.addr] = m.sid /\ m.addr \notin hung

\* Raft changes its configuration only with a majority
Quorum == 2 * Cardinality({m \in members : Lives(m)}) > Cardinality(members)

\* cluster/kick: a server has members of its own cluster removed, by the leader
Kicks(a, m) == Answers(a) /\ Quorum /\ m \in members /\ \E n \in members : n.sid = running[a]

At(a, where) == check' = [check EXCEPT ![a].at = where]

-----------------------------------------------------------------------------
\* resetRaftDB: the file goes first; a server that hangs does not exit, and a
\* file that is not there is not reset
ResetRaftDB(a) ==
    IF file[a] = 0 THEN UNCHANGED <<file, running>>
    ELSE /\ file' = [file EXCEPT ![a] = 0]
         /\ \/ running' = [running EXCEPT ![a] = 0]
            \/ a \in hung /\ UNCHANGED running

\* a failed cluster/status, counted by both of a checker's routines together
StatusFails(a) ==
    IF retries[a] > MaxClusterStatusRetry
    THEN ResetRaftDB(a) /\ retries' = [retries EXCEPT ![a] = 0]
    ELSE retries' = [retries EXCEPT ![a] = @ + 1] /\ UNCHANGED <<file, running>>


\* only the members with this very address that do not have the identity the
\* file had
StaleMembers(a) == {m \in members : m.addr = a /\ m.sid # check[a].sid}

\* ensureLocalRaftServerID: db-sid reads the file, cluster/status asks the
\* server, which may have another file by then, and the members found go one
\* by one
ReadServerID(a) ==
    /\ check[a].at = "idle"
    /\ check' = [check EXCEPT ![a] =
          IF file[a] = 0 THEN [Idle EXCEPT !.at = "membership"]
          ELSE [Idle EXCEPT !.at = "status", !.sid = file[a]]]
    /\ UNCHANGED <<world, left, members, file, running, hung, listed, next, retries, causes>>

LocalStatusFails(a) ==
    /\ check[a].at = "status" /\ ~Answers(a)
    /\ StatusFails(a)
    /\ At(a, "membership")
    /\ UNCHANGED <<world, left, members, hung, listed, next, causes>>

FindStaleMembers(a) ==
    /\ check[a].at = "status" /\ Answers(a)
    /\ retries' = [retries EXCEPT ![a] = 0]
    /\ check' = [check EXCEPT ![a] =
          IF StaleMembers(a) = {} THEN [Idle EXCEPT !.at = "membership"]
          ELSE [@ EXCEPT !.at = "stale", !.unknown = StaleMembers(a)]]
    /\ UNCHANGED <<world, left, members, file, running, hung, listed, next, causes>>

KickStaleMember(a) ==
    /\ check[a].at = "stale"
    /\ \E m \in check[a].unknown :
         LET rest == check[a].unknown \ {m}
             kicks == Kicks(a, m)
         IN /\ members' = IF kicks THEN members \ {m} ELSE members
            /\ check' = [check EXCEPT ![a] =
                  IF rest = {} THEN [Idle EXCEPT !.at = "membership"] ELSE [@ EXCEPT !.unknown = rest]]
            /\ causes' = IF kicks /\ Lives(m) /\ check[a].sid # file[a]
                         THEN causes \cup {"renamed"} ELSE causes
    /\ UNCHANGED <<world, left, file, running, hung, listed, next, retries>>

\* ensureClusterRaftMembership as far as the loop
ClusterStatusFails(a) ==
    /\ check[a].at = "membership" /\ ~Answers(a)
    /\ StatusFails(a)
    /\ At(a, "idle")
    /\ UNCHANGED <<world, left, members, hung, listed, next, causes>>

MemberFound(m) == m.addr \in world.known \cup listed

\* the members that are found need no step of the loop; without others the
\* checker waits for its next tick
ReadMembers(a) ==
    /\ check[a].at = "membership" /\ Answers(a)
    /\ retries' = [retries EXCEPT ![a] = 0]
    /\ LET unknown == {m \in members : ~MemberFound(m)}
       IN check' = [check EXCEPT ![a] =
              IF unknown = {} THEN Idle
              ELSE [Idle EXCEPT !.at = "kick", !.count = Cardinality(members), !.unknown = unknown]]
    /\ UNCHANGED <<world, left, members, file, running, hung, listed, next, causes>>

\* without the pods' addresses nothing is kicked
GetPodsFails(a) ==
    /\ check[a].at = "membership" /\ Answers(a)
    /\ left.faults > 0 /\ left' = [left EXCEPT !.faults = @ - 1]
    /\ retries' = [retries EXCEPT ![a] = 0]
    /\ At(a, "idle")
    /\ UNCHANGED <<world, members, file, running, hung, listed, next, causes>>

\* more than three are left of the members it read
EnoughMembers(a) == check[a].count > 3

\* one turn of the loop: a member that is gone already cannot be kicked, and
\* is not counted
CheckMember(a) ==
    /\ check[a].at = "kick"
    /\ \E m \in check[a].unknown :
         LET rest == check[a].unknown \ {m}
             kicks == EnoughMembers(a) /\ Kicks(a, m)
         IN /\ members' = IF kicks THEN members \ {m} ELSE members
            /\ check' = [check EXCEPT ![a] =
                  IF rest = {} THEN Idle
                  ELSE [@ EXCEPT !.unknown = rest, !.count = IF kicks THEN @ - 1 ELSE @]]
            /\ causes' = IF kicks /\ Lives(m) THEN causes \cup {"unlisted"} ELSE causes
    /\ UNCHANGED <<world, left, file, running, hung, listed, next, retries>>

\* ensureOvnDBState, on each tick
Checker(a) ==
    \/ ReadServerID(a) \/ LocalStatusFails(a) \/ FindStaleMembers(a) \/ KickStaleMember(a)
    \/ ClusterStatusFails(a) \/ GetPodsFails(a) \/ ReadMembers(a) \/ CheckMember(a)

-----------------------------------------------------------------------------
\* a server that does not run is started again; without a file it joins under
\* a new identity
Restart(a) ==
    /\ running[a] = 0 /\ a \in world.pods
    /\ IF file[a] # 0
       THEN running' = [running EXCEPT ![a] = file[a]] /\ UNCHANGED <<members, file, next>>
       ELSE /\ Quorum /\ next <= MaxSid
            /\ running' = [running EXCEPT ![a] = next]
            /\ file' = [file EXCEPT ![a] = next]
            /\ members' = members \cup {[sid |-> next, addr |-> a]}
            /\ next' = next + 1
    /\ hung' = hung \ {a}
    /\ UNCHANGED <<world, left, listed, retries, check, causes>>

Hang(a) ==
    /\ a \in world.pods /\ running[a] # 0 /\ a \notin hung
    /\ left.faults > 0 /\ left' = [left EXCEPT !.faults = @ - 1]
    /\ hung' = hung \cup {a}
    /\ UNCHANGED <<world, members, file, running, listed, next, retries, check, causes>>

Recover(a) ==
    /\ a \in hung
    /\ hung' = hung \ {a}
    /\ UNCHANGED <<world, left, members, file, running, listed, next, retries, check, causes>>

\* a server and its file are lost with their disk
Lose(a) ==
    /\ a \in world.pods /\ running[a] # 0
    /\ left.losses > 0 /\ left' = [left EXCEPT !.losses = @ - 1]
    /\ running' = [running EXCEPT ![a] = 0]
    /\ file' = [file EXCEPT ![a] = 0]
    /\ hung' = hung \ {a}
    /\ UNCHANGED <<world, members, listed, next, retries, check, causes>>

\* the API server learns a pod's address after the pod's server has started
ListPod(a) ==
    /\ a \in world.pods \ listed /\ running[a] # 0
    /\ listed' = listed \cup {a}
    /\ UNCHANGED <<world, left, members, file, running, hung, next, retries, check, causes>>

-----------------------------------------------------------------------------
\* members at world.gone are what servers that are gone left in the cluster;
\* the pods outside world.started are new: not running, and not listed
Init ==
    /\ world \in Worlds
    /\ left = [faults |-> world.faults, losses |-> world.losses]
    /\ members = {[sid |-> a, addr |-> a] : a \in world.started \cup world.gone}
    /\ running = [a \in Addresses |-> IF a \in world.started THEN a ELSE 0]
    /\ file = running
    /\ hung = {} /\ listed = world.started
    /\ next = Cardinality(Addresses) + 1
    /\ retries = [a \in Addresses |-> 0]
    /\ check = [a \in Addresses |-> Idle]
    /\ causes = {}

Server(a) == Restart(a) \/ Recover(a) \/ ListPod(a)

Next ==
    \E a \in Addresses :
        \/ a \in world.pods /\ Checker(a)
        \/ Server(a) \/ Hang(a) \/ Lose(a)

\* the checkers' tickers tick; servers are restarted and hang only for a time
Spec ==
    /\ Init /\ [][Next]_vars
    /\ \A a \in Addresses : WF_vars(a \in world.pods /\ Checker(a)) /\ WF_vars(Server(a))

-----------------------------------------------------------------------------
Unknown(m) == m.addr \notin world.known \cup listed

\* Taken for dead: a new pod whose address was neither configured nor listed
\* when the members were read, or a server that got another identity after its
\* checker had read the former one.
Mistaken(m) ==
    \E a \in world.pods :
        /\ check'[a] # check[a] /\ m \in check[a].unknown
        /\ \/ check[a].at = "kick" /\ m.addr \notin world.known
           \/ check[a].at = "stale" /\ check[a].sid # file[a]

\* No checker removes a member whose server runs, unless it is mistaken in one
\* of these two ways, nor brings the cluster below three members, though each
\* counts the members on a list that others may have shortened since
\* (ensureLocalRaftServerID, ensureClusterRaftMembership).
KicksDead ==
    \A m \in members \ members' :
        /\ Lives(m) => Mistaken(m)
        /\ Cardinality(members') >= 3 \/ \E n \in members' : n.addr = m.addr
KicksOnlyTheDead == [][KicksDead]_vars

\* The cluster ends without a member that stands for an earlier life of a
\* server, and without unknown members beyond its first three.  Kept are the
\* members at known addresses whose servers are gone for good, and those of a
\* server that went on without the file resetRaftDB took away.
NoneStale ==
    \/ causes # {} \/ ~Quorum \/ next > MaxSid
    \/ \A m \in members :
          \/ m.addr \in world.pods /\ m.sid = running[m.addr]
          \/ Unknown(m) /\ Cardinality(members) <= 3
          \/ m.addr \in world.known \ world.pods
          \/ running[m.addr] # 0 /\ file[m.addr] = 0
StaleMembersGo == <>[]NoneStale
=============================================================================
