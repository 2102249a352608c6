------------------------------ MODULE Gateway ------------------------------
(***************************************************************************)
(* daemon/runtime: the running daemon.  Administrator requests commit to   *)
(* the store and then, in the goroutine of the request and outside the     *)
(* transaction, run the change listener: rebuild the policy index query by *)
(* query, publish it, reap the flows it forbids, apply the WireGuard peers *)
(* and reconcile the listener addresses.  Requests are served              *)
(* concurrently and nothing orders their listeners.  Beside them, one      *)
(* goroutine per TCP connection checks the published index, dials the      *)
(* backend, registers the flow and splices.                                *)
(***************************************************************************)
EXTENDS Access

CONSTANTS
    Databases,    \* databases the daemon may be started on
    Requests,     \* goroutines serving administrator requests
    Conns,        \* TCP connections alive at a time
    ServerIP,     \* the daemon's own address in the tunnel
    ClientSubnet, \* addresses of wireguard.client_subnet
    ServiceSubnet,\* addresses of wireguard.service_subnet
    MaxCommits,   \* bound: transactions committed while the daemon runs
    MaxFaults     \* bound: failed database reads and device calls

ASSUME GatewayBounds == MaxCommits \in Nat /\ MaxFaults \in Nat

VARIABLES
    task,      \* per request: where its listener is, and the index it builds
    holder,    \* the published index (policy.Holder)
    peers,     \* ids of the users s.peers says are configured
    device,    \* [id, ip] of the peers the WireGuard device has, with allowed_ip
    current,   \* [id, ip] of the services the listener manager has a VIP for
    nic,       \* addresses on the netstack NIC
    conn,      \* per TCP connection: state of its handler
    flows,     \* connections in the flow table
    straddle,  \* history: connections a publication overtook while they dialled
    overtaken, \* history: requests whose build a later commit overtook
    exact,     \* history: no commit since the build of the published index began
    commits,   \* bound counter
    faults     \* bound counter

taskVars == <<task, holder, overtaken, exact, commits, faults>>
deviceVars == <<peers, device>>
listenVars == <<current, nic>>
connVars == <<conn, flows, straddle>>
vars == <<storeVars, taskVars, deviceVars, listenVars, connVars>>

-----------------------------------------------------------------------------
EmptyIndex == [users |-> {}, services |-> {}, groups |-> {}, members |-> {},
               svcMembers |-> {}, rules |-> {}]
Idle == [pc |-> "idle", idx |-> EmptyIndex, todo |-> {}, dead |-> {}]
Free == [pc |-> "free", src |-> ServerIP, dst |-> ServerIP, user |-> 0, service |-> 0,
         port |-> CHOOSE p \in Ports : TRUE]
BuildPhases == {"users", "groups", "services", "ports", "members", "svcgroups"}

Addresses(rows) == {row.ip : row \in rows}
AddressOf(row) == [id |-> row.id, ip |-> row.ip]
Lowest(id, ids) == id \in ids /\ \A i \in ids : id <= i

\* ApplyPeers, reconcile: keyed by id; what is gone goes first, what is new
\* comes next, and a row whose id is known is left as it is.
Kept(rows, wanted) == {row \in rows : row.id \in Ids(wanted)}
Missing(rows, wanted) == {AddressOf(row) : row \in {w \in wanted : w.id \notin Ids(rows)}}

\* An allowed_ip belongs to one peer of the device: the last one given it.
Grant(dev, new) == {p \in dev : p.ip \notin Addresses(new)} \cup new

-----------------------------------------------------------------------------
(* Start-up: Run, up to the subscription, on the database it finds, one that *)
(* the operations of the store have made (StoreInvariant).  The listener     *)
(* manager skips an address the NIC refuses as a duplicate.                  *)

Started == {AddressOf(s) : s \in {t \in services : t.ip # ServerIP}}

Init ==
    /\ \E db \in Databases :
          /\ users = db.users /\ userGroups = db.userGroups
          /\ services = db.services /\ serviceGroups = db.serviceGroups
          /\ userMembers = db.userMembers /\ serviceMembers = db.serviceMembers
          /\ rules = db.rules /\ seq = db.seq /\ clock = db.clock
    /\ StoreInv
    /\ task = [r \in Requests |-> Idle]
    /\ holder = Image
    /\ peers = Ids(users)
    /\ device = {AddressOf(u) : u \in users}
    /\ current = Started
    /\ nic = {ServerIP} \cup Addresses(Started)
    /\ conn = [c \in Conns |-> Free]
    /\ flows = {} /\ straddle = {}
    /\ overtaken = {} /\ exact = TRUE
    /\ commits = 0 /\ faults = 0

\* The process dies at any point and is started again: listeners that have
\* not finished are lost, everything but the database is rebuilt from it.
Restart ==
    /\ task' = [r \in Requests |-> Idle]
    /\ holder' = Image
    /\ peers' = Ids(users)
    /\ device' = {AddressOf(u) : u \in users}
    /\ current' = Started
    /\ nic' = {ServerIP} \cup Addresses(Started)
    /\ conn' = [c \in Conns |-> Free]
    /\ flows' = {} /\ straddle' = {}
    /\ overtaken' = {} /\ exact' = TRUE
    /\ UNCHANGED <<storeVars, commits, faults>>

-----------------------------------------------------------------------------
(* withTx and notify: a request commits, then runs the listener itself      *)

At(r, phase) == task[r].pc = phase
\* Mutant of Reading: the next loop does not wait for the last one.
ReadingOrNot(r, phase) == At(r, phase)
Reading(r, phase) == At(r, phase) /\ task[r].todo = {}
Goto(r, phase, idx, todo) ==
    task' = [task EXCEPT ![r] = [pc |-> phase, idx |-> idx, todo |-> todo, dead |-> {}]]

\* Mutant of Notify: a change of memberships is not announced.
NotifyEntities(r) ==
    IF UNCHANGED memberVars THEN Goto(r, "users", EmptyIndex, {}) ELSE UNCHANGED task
Notify(r) == Goto(r, "users", EmptyIndex, {})

\* The handlers check the address of a new user and of a new service; the one
\* given to an existing service is not checked.
InSubnets ==
    /\ Addresses(users') \subseteq ClientSubnet
    /\ \A s \in services' : s.id > seq["services"] => s.ip \in ServiceSubnet

\* A transaction may leave the tables as they are (an e-mail changed, a member
\* removed who was none): the listener runs all the same.
Commit(r) ==
    /\ At(r, "idle")
    /\ commits < MaxCommits
    /\ (StoreNext /\ InSubnets) \/ UNCHANGED storeVars
    /\ commits' = commits + 1
    /\ overtaken' = {q \in Requests \ {r} : ~At(q, "idle")}
    /\ exact' = FALSE
    /\ Notify(r)
    /\ UNCHANGED <<holder, faults, deviceVars, listenVars, connVars>>

\* Build: each query sees the tables of its own moment.
Query(r, phase, idx, todo) ==
    /\ Goto(r, phase, idx, todo)
    /\ UNCHANGED <<storeVars, holder, overtaken, exact, commits, faults, deviceVars, listenVars, connVars>>

ListUsers(r) ==
    /\ At(r, "users")
    /\ Query(r, "groups", [task[r].idx EXCEPT !.users = {UserSnapshot(u) : u \in users}], {})

ListUserGroups(r) ==
    /\ At(r, "groups")
    /\ Query(r, "services",
             [task[r].idx EXCEPT !.groups = {UserGroupSnapshot(g) : g \in userGroups}], {})

\* queryServices: first the rows, then the ports of each row by a query of its
\* own, which finds none when the service has been deleted in between.
ListServices(r) ==
    /\ At(r, "services")
    /\ Query(r, "ports",
             [task[r].idx EXCEPT !.services = {[ServiceSnapshot(s) EXCEPT !.ports = {}] :
                                                  s \in services}],
             Ids(services))

PortsNow(id) == UNION {s.ports : s \in {t \in services : t.id = id}}
LoadServicePorts(r) ==
    /\ At(r, "ports")
    /\ \E id \in task[r].todo :
          /\ Lowest(id, task[r].todo)
          /\ Query(r, "ports",
                   [task[r].idx EXCEPT !.services =
                       {IF s.id = id THEN [s EXCEPT !.ports = PortsNow(id)] ELSE s : s \in @}],
                   task[r].todo \ {id})

ListPolicies(r) ==
    /\ Reading(r, "ports")
    /\ Query(r, "members", [task[r].idx EXCEPT !.rules = {RuleSnapshot(x) : x \in rules}],
             Ids(task[r].idx.groups))

UserGroupMembers(r) ==
    /\ At(r, "members")
    /\ \E id \in task[r].todo :
          /\ Lowest(id, task[r].todo)
          /\ Query(r, "members",
                   [task[r].idx EXCEPT !.members = @ \cup {m \in userMembers : m.group = id}],
                   task[r].todo \ {id})

\* The first of the queries per service starts the second loop.
ServiceGroupIDs(r, pending) ==
    \E id \in pending :
        /\ Lowest(id, pending)
        /\ Query(r, "svcgroups",
                 [task[r].idx EXCEPT !.svcMembers = @ \cup {m \in serviceMembers : m.member = id}],
                 pending \ {id})
ServiceGroupIDsForService(r) ==
    \/ Reading(r, "members") /\ ServiceGroupIDs(r, Ids(task[r].idx.services))
    \/ At(r, "svcgroups") /\ ServiceGroupIDs(r, task[r].todo)

Built(r) ==
    \/ Reading(r, "svcgroups")
    \/ Reading(r, "members") /\ task[r].idx.services = {}

\* A query fails: the listener logs and returns, nothing is published.
BuildFails(r) ==
    /\ task[r].pc \in BuildPhases /\ ~Built(r)
    /\ faults < MaxFaults
    /\ faults' = faults + 1
    /\ task' = [task EXCEPT ![r] = Idle]
    /\ UNCHANGED <<storeVars, holder, overtaken, exact, commits, deviceVars, listenVars, connVars>>

Publish(r) ==
    /\ Built(r)
    /\ holder' = task[r].idx
    /\ Goto(r, "reap", task[r].idx, {})
    /\ straddle' = straddle \cup {c \in Conns : conn[c].pc = "dial"}
    /\ exact' = (r \notin overtaken)
    /\ UNCHANGED <<storeVars, overtaken, commits, faults, deviceVars, listenVars, conn, flows>>

\* Mutant of Dead: only the flows of deleted users and services.
Orphans(idx) ==
    {c \in flows : conn[c].user \notin Ids(idx.users) \/ conn[c].service \notin Ids(idx.services)}
Dead(idx) == {c \in flows : ~FlowAllowed(idx, conn[c])}

\* Reap: under the lock of the flow table, forbidden flows leave it; their
\* Close functions run after the lock is released.
Reap(r) ==
    /\ At(r, "reap")
    /\ LET dead == Dead(task[r].idx)
       IN  /\ flows' = flows \ dead
           /\ task' = [task EXCEPT ![r].pc = "close", ![r].dead = dead]
    /\ UNCHANGED <<storeVars, holder, overtaken, exact, commits, faults, deviceVars, listenVars, conn, straddle>>

\* Mutant of Close: the sockets stay open.
LeaveOpen(c) == UNCHANGED conn
Close(c) == conn' = [conn EXCEPT ![c].pc = IF @ = "splice" THEN "ended" ELSE @]

CloseFlow(r) ==
    /\ At(r, "close")
    /\ \E c \in task[r].dead :
          /\ Close(c)
          /\ task' = [task EXCEPT ![r].dead = @ \ {c}]
    /\ UNCHANGED <<storeVars, holder, overtaken, exact, commits, faults, deviceVars, listenVars, flows, straddle>>

\* Mutant of GonePeers: peers are only ever added.
NoPeers(wanted) == {}
GonePeers(wanted) == {p \in device : p.id \in peers /\ p.id \notin Ids(wanted)}

\* ApplyPeers, under the lock of the server.  s.peers is updated while the
\* request to the device is written; when the device refuses it at some line
\* the lines before it are in force, and s.peers is not corrected.
ApplyPeers(r) ==
    /\ At(r, "close") /\ task[r].dead = {}
    /\ LET wanted == task[r].idx.users
           gone == GonePeers(wanted)
           new == {AddressOf(u) : u \in {w \in wanted : w.id \notin peers}}
       IN  /\ peers' = Ids(wanted)
           /\ \/ device' = Grant(device \ gone, new) /\ UNCHANGED faults
              \/ /\ faults < MaxFaults
                 /\ faults' = faults + 1
                 /\ \/ \E part \in SUBSET gone : device' = device \ part
                    \/ \E part \in SUBSET new : device' = Grant(device \ gone, part)
    /\ task' = [task EXCEPT ![r].pc = "vips"]
    /\ UNCHANGED <<storeVars, holder, overtaken, exact, commits, listenVars, connVars>>

\* Mutant of Withdraw: the addresses of what is gone stay.
LeakVIPs(gone) == nic
Withdraw(gone) == nic \ Addresses(gone)
\* Mutant of Accepted: a VIP the NIC refuses is recorded.
Wanted(rows, addrs) == rows
Accepted(rows, addrs) == {s \in rows : s.ip \notin addrs}

\* reconcile, under the lock of the listener manager.  The NIC refuses an
\* address it has; a refused VIP is skipped and not recorded.
Reconcile(r) ==
    /\ At(r, "vips")
    /\ LET wanted == task[r].idx.services
           kept == Kept(current, wanted)
           addrs == Withdraw(current \ kept)
           new == Accepted(Missing(current, wanted), addrs)
       IN  \E added \in SUBSET new :
              /\ added # new => faults < MaxFaults
              /\ faults' = IF added = new THEN faults ELSE faults + 1
              /\ current' = kept \cup added
              /\ nic' = addrs \cup Addresses(added)
    /\ task' = [task EXCEPT ![r] = Idle]
    /\ UNCHANGED <<storeVars, holder, overtaken, exact, commits, deviceVars, connVars>>

Listen(r) ==
    \/ ListUsers(r) \/ ListUserGroups(r) \/ ListServices(r) \/ LoadServicePorts(r)
    \/ ListPolicies(r) \/ UserGroupMembers(r) \/ ServiceGroupIDsForService(r)
    \/ Publish(r) \/ Reap(r) \/ CloseFlow(r) \/ ApplyPeers(r) \/ Reconcile(r)

-----------------------------------------------------------------------------
(* proxy.TCPHandler behind wg.Dispatcher                                    *)

InNoReaper(c) == \A r \in Requests : c \notin task[r].dead
Handler(c, pc) ==
    /\ conn' = [conn EXCEPT ![c].pc = pc]
    /\ UNCHANGED <<storeVars, taskVars, deviceVars, listenVars, flows, straddle>>

\* onTCP: a SYN arrives from a peer of the device for an address of the NIC
\* (one for another client never gets there, the relay takes it); a refused
\* one changes nothing.
OnTCP(c) ==
    /\ conn[c].pc = "free" /\ InNoReaper(c)
    /\ \E p \in device, dst \in nic \ (ClientSubnet \ {ServerIP}), port \in Ports :
          /\ CheckService(holder, p.ip, dst, port)
          /\ conn' = [conn EXCEPT ![c] = [Free EXCEPT !.pc = "accepted", !.src = p.ip,
                                                      !.dst = dst, !.port = port]]
    /\ UNCHANGED <<storeVars, taskVars, deviceVars, listenVars, flows, straddle>>

\* Handle: the index is loaded and checked again; the user and the service the
\* check found are kept for the flow.
Handle(c) ==
    /\ conn[c].pc = "accepted"
    /\ \E u \in holder.users, s \in holder.services :
          /\ u.ip = conn[c].src /\ s.ip = conn[c].dst /\ Grants(holder, u, s, conn[c].port)
          /\ conn' = [conn EXCEPT ![c].pc = "dial", ![c].user = u.id, ![c].service = s.id]
    /\ UNCHANGED <<storeVars, taskVars, deviceVars, listenVars, flows, straddle>>

Refuse(c) ==
    /\ conn[c].pc = "accepted"
    /\ ~CheckService(holder, conn[c].src, conn[c].dst, conn[c].port)
    /\ conn' = [conn EXCEPT ![c] = Free]
    /\ UNCHANGED <<storeVars, taskVars, deviceVars, listenVars, flows, straddle>>

\* Resolve or DialContext fails.
DialFails(c) ==
    /\ conn[c].pc = "dial"
    /\ conn' = [conn EXCEPT ![c] = Free]
    /\ straddle' = straddle \ {c}
    /\ UNCHANGED <<storeVars, taskVars, deviceVars, listenVars, flows>>

\* The backend answers: Flows.Add, then splice.  Nothing is checked again.
AddFlow(c) ==
    /\ conn[c].pc = "dial"
    /\ conn' = [conn EXCEPT ![c].pc = "splice"]
    /\ flows' = flows \cup {c}
    /\ UNCHANGED <<storeVars, taskVars, deviceVars, listenVars, straddle>>

\* The client or the backend closes its side and the copying ends.
HangUp(c) == conn[c].pc = "splice" /\ Handler(c, "ended")

\* The deferred Flows.Remove and Close calls of Handle
RemoveFlow(c) ==
    /\ conn[c].pc = "ended"
    /\ conn' = [conn EXCEPT ![c] = Free]
    /\ flows' = flows \ {c}
    /\ straddle' = straddle \ {c}
    /\ UNCHANGED <<storeVars, taskVars, deviceVars, listenVars>>

Serve(c) ==
    \/ OnTCP(c) \/ Handle(c) \/ Refuse(c) \/ DialFails(c) \/ AddFlow(c)
    \/ HangUp(c) \/ RemoveFlow(c)

-----------------------------------------------------------------------------
Next ==
    \/ \E r \in Requests : Commit(r) \/ Listen(r) \/ BuildFails(r)
    \/ \E c \in Conns : Serve(c)
    \/ Restart

\* The goroutine of a request keeps running and a dial ends within its timeout;
\* nobody has to send a request, open a connection or hang up.
Fairness ==
    /\ \A r \in Requests : WF_vars(Listen(r))
    /\ \A c \in Conns : WF_vars(Handle(c) \/ Refuse(c) \/ DialFails(c) \/ AddFlow(c)
                                 \/ RemoveFlow(c))

Spec == Init /\ [][Next]_vars /\ Fairness

-----------------------------------------------------------------------------
(* What the daemon promises                                                 *)

Phases == {"idle", "reap", "close", "vips"} \cup BuildPhases
IndexOK(idx) ==
    /\ idx.users \subseteq [id : Id, ip : Addrs]
    /\ idx.services \subseteq [id : Id, ip : Addrs, origin : Origins, ports : PortSets \cup {{}}]
    /\ idx.groups \subseteq [id : Id, lan : BOOLEAN]
    /\ idx.members \subseteq Member
    /\ idx.svcMembers \subseteq Member
    /\ idx.rules \subseteq [id : Id, subject : Subjects, object : Objects, action : Verdicts]
GatewayTypeOK ==
    /\ TypeOK
    /\ \A r \in Requests : task[r].pc \in Phases /\ IndexOK(task[r].idx)
    /\ IndexOK(holder)
    /\ peers \subseteq Id
    /\ device \subseteq [id : Id, ip : Addrs]
    /\ current \subseteq [id : Id, ip : Addrs]
    /\ nic \subseteq Addrs \cup {ServerIP}
    /\ flows \subseteq Conns /\ straddle \subseteq Conns /\ overtaken \subseteq Requests

AtRest == \A r \in Requests : At(r, "idle")
DatabaseAllows(c) == FlowAllowed(Image, conn[c])

\* A connection that carries data can be revoked: it is in the flow table, or a
\* reaper has taken it out and is about to close it.
SplicedFlowsAreRevocable ==
    \A c \in Conns : conn[c].pc = "splice" => c \in flows \/ ~InNoReaper(c)

\* The NIC has the daemon's own address and the VIPs on record, each on the
\* account of one service: no VIP leaks, and none is withdrawn with a service
\* that did not bring it, however addresses move and listeners interleave.
NicMatchesRecord ==
    /\ nic = {ServerIP} \cup Addresses(current)
    /\ ServerIP \notin Addresses(current)
    /\ \A s, t \in current : s.ip = t.ip \/ s.id = t.id => s = t

\* The index a listener has built, one that no commit overtook, is the database
\* at one moment: the queries of Build and the fixed order of its loops leave
\* nothing out.  The published index is, as long as no commit follows.
UndisturbedBuildIsExact ==
    /\ \A r \in Requests :
          (Built(r) \/ task[r].pc \in {"reap", "close", "vips"}) /\ r \notin overtaken
              => task[r].idx = Image
    /\ exact => holder = Image

\* When every request has been answered, new connections are checked against
\* the policies of the database.
IndexInSyncAtRest == AtRest => holder = Image

\* ... and the WireGuard device accepts the users of the database and no others.
PeersInSyncAtRest ==
    AtRest => peers = Ids(users) /\ device = {AddressOf(u) : u \in users}

\* When every request has been answered, a connection in the flow table that
\* the database forbids is one whose dial a publication overtook.
OnlyStraddlersSurvive ==
    AtRest => \A c \in flows : conn[c].pc = "splice" => DatabaseAllows(c) \/ c \in straddle

\* "expected the connection to be killed after policy revoke"
KillOnRevoke ==
    AtRest => \A c \in Conns : conn[c].pc = "splice" => DatabaseAllows(c)

\* When every request has been answered, the VIP of each service is on the NIC.
VipsFollowServices == AtRest => Addresses(services) \subseteq nic

\* One request at a time: building the index query by query, publishing, and
\* starting again after a crash, together implement the atomic replacement of the
\* policy in force by the database's; and the policy in force catches up.
Published == INSTANCE Publication WITH db <- Image, inForce <- holder
ImplementsPublication == Published!Spec

\* A flow the database has come to forbid, while the listener of the request
\* that did it has not reaped yet, leaves the table or is allowed again.
Unreaped(r) == task[r].pc \in BuildPhases \cup {"reap"}
RevokedFlowsLeave ==
    \A c \in Conns, r \in Requests :
        (c \in flows /\ ~DatabaseAllows(c) /\ Unreaped(r))
            ~> (c \notin flows \/ DatabaseAllows(c))
=============================================================================
