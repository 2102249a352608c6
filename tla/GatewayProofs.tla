--------------------------- MODULE GatewayProofs ---------------------------
(***************************************************************************)
(* Safety of the running daemon: for any databases, any number of requests *)
(* and connections and any faults where nothing else is said, and, where   *)
(* the code promises no more, for one request at a time.                   *)
(***************************************************************************)
EXTENDS Gateway, StoreIntegrityProofs, TLAPS

-----------------------------------------------------------------------------
(* The database                                                             *)

\* A handler of a connection touches connections only.
LEMMA HandlersStandApart ==
    ASSUME NEW c \in Conns, Serve(c)
    PROVE  UNCHANGED <<storeVars, taskVars, deviceVars, listenVars>>
BY DEF Serve, OnTCP, Handle, Refuse, DialFails, AddFlow, HangUp, Handler, RemoveFlow

\* Whatever the daemon does to the database is a transaction of the store.
LEMMA StepStores == [Next]_vars => [StoreNext]_storeVars
<1>1. ASSUME NEW r \in Requests, Commit(r) PROVE [StoreNext]_storeVars
  BY <1>1 DEF Commit
<1>2. ASSUME NEW r \in Requests, Listen(r) \/ BuildFails(r) PROVE UNCHANGED storeVars
  BY <1>2 DEF Listen, BuildFails, ListUsers, ListUserGroups, ListServices, LoadServicePorts,
     ListPolicies, UserGroupMembers, ServiceGroupIDsForService, ServiceGroupIDs, Query,
     Publish, Reap, CloseFlow, ApplyPeers, Reconcile
<1>3. ASSUME NEW c \in Conns, Serve(c) PROVE UNCHANGED storeVars
  BY <1>3, HandlersStandApart
<1>4. Restart => UNCHANGED storeVars
  BY DEF Restart
<1> QED BY <1>1, <1>2, <1>3, <1>4 DEF Next, vars

LEMMA GatewayStores == Spec => []StoreInv
<1>1. Init => StoreInv
  BY DEF Init
<1> QED BY <1>1, StepStores, StepInvariant, PTL DEF Spec

-----------------------------------------------------------------------------
(* Types                                                                    *)

AddressRow == [id : Id, ip : Addrs]
Index ==
    [users : SUBSET AddressRow,
     services : SUBSET [id : Id, ip : Addrs, origin : Origins, ports : PortSets \cup {{}}],
     groups : SUBSET [id : Id, lan : BOOLEAN],
     members : SUBSET Member, svcMembers : SUBSET Member,
     rules : SUBSET [id : Id, subject : Subjects, object : Objects, action : Verdicts]]
TaskRecord == [pc : Phases, idx : Index, todo : SUBSET Id, dead : SUBSET Conns]
ConnRecord ==
    [pc : {"free", "accepted", "dial", "splice", "ended"},
     src : Addrs \cup {ServerIP}, dst : Addrs \cup {ServerIP}, user : Nat, service : Nat,
     port : Ports \cup {Free.port}]

TaskTyped == task \in [Requests -> TaskRecord] /\ holder \in Index /\ overtaken \subseteq Requests
DeviceTyped == peers \subseteq Id /\ device \subseteq AddressRow
ListenTyped == current \subseteq AddressRow /\ nic \subseteq Addrs \cup {ServerIP}
ConnTyped == conn \in [Conns -> ConnRecord] /\ flows \subseteq Conns /\ straddle \subseteq Conns
Types == TaskTyped /\ DeviceTyped /\ ListenTyped /\ ConnTyped

LEMMA Untouched ==
    /\ TaskTyped /\ UNCHANGED taskVars => TaskTyped'
    /\ DeviceTyped /\ UNCHANGED deviceVars => DeviceTyped'
    /\ ListenTyped /\ UNCHANGED listenVars => ListenTyped'
    /\ ConnTyped /\ UNCHANGED connVars => ConnTyped'
BY DEF TaskTyped, DeviceTyped, ListenTyped, ConnTyped, taskVars, deviceVars, listenVars, connVars

\* What Build makes of a database at one moment is an index.
LEMMA ImageTyped == TypeOK => Image \in Index
<1> SUFFICES ASSUME TypeOK PROVE Image \in Index
  OBVIOUS
<1>1. \A u \in users : UserSnapshot(u) \in AddressRow
  BY DEF TypeOK, User, UserSnapshot, AddressRow
<1>2. \A s \in services : ServiceSnapshot(s) \in
          [id : Id, ip : Addrs, origin : Origins, ports : PortSets \cup {{}}]
  BY DEF TypeOK, Service, ServiceSnapshot
<1>3. \A g \in userGroups : UserGroupSnapshot(g) \in [id : Id, lan : BOOLEAN]
  BY DEF TypeOK, UserGroup, UserGroupSnapshot
<1>4. \A x \in rules : RuleSnapshot(x) \in
          [id : Id, subject : Subjects, object : Objects, action : Verdicts]
  BY DEF TypeOK, PolicyRule, RuleSnapshot
<1>5. userMembers \subseteq Member /\ serviceMembers \subseteq Member
  BY DEF TypeOK
<1> QED BY <1>1, <1>2, <1>3, <1>4, <1>5 DEF Image, Index

LEMMA EmptyTyped == EmptyIndex \in Index /\ Idle \in TaskRecord /\ Free \in ConnRecord
<1>1. EmptyIndex \in Index
  BY DEF EmptyIndex, Index
<1>2. Idle \in TaskRecord
  BY <1>1 DEF Idle, TaskRecord, Phases
<1>3. Free \in ConnRecord
  BY DEF Free, ConnRecord
<1> QED BY <1>1, <1>2, <1>3

\* What the daemon makes of the database when it starts.
LEMMA StartedTyped ==
    ASSUME TypeOK
    PROVE  /\ Ids(users) \subseteq Id /\ {AddressOf(u) : u \in users} \subseteq AddressRow
           /\ Started \subseteq AddressRow /\ Addresses(Started) \subseteq Addrs
<1>1. \A u \in users : u.id \in Id /\ u.ip \in Addrs
  BY DEF TypeOK, User
<1>2. \A s \in services : s.id \in Id /\ s.ip \in Addrs
  BY DEF TypeOK, Service
<1> QED BY <1>1, <1>2 DEF Ids, AddressOf, AddressRow, Started, Addresses

LEMMA InitTyped == Init => Types
<1> SUFFICES ASSUME Init PROVE Types
  OBVIOUS
<1>1. TypeOK
  BY DEF Init, StoreInv
<1>2. TaskTyped
  BY <1>1, ImageTyped, EmptyTyped DEF Init, TaskTyped
<1>3. DeviceTyped /\ ListenTyped
  BY <1>1, StartedTyped DEF Init, DeviceTyped, ListenTyped
<1>4. ConnTyped
  BY EmptyTyped DEF Init, ConnTyped
<1> QED BY <1>2, <1>3, <1>4 DEF Types

\* A request goes to another place.
LEMMA GoesTyped ==
    ASSUME Types, NEW r \in Requests, NEW t \in TaskRecord, task' = [task EXCEPT ![r] = t],
           holder' \in Index, overtaken' \subseteq Requests
    PROVE  TaskTyped'
BY DEF Types, TaskTyped

LEMMA QueryTyped ==
    ASSUME Types, NEW r \in Requests, NEW phase \in Phases, NEW idx \in Index,
           NEW todo \in SUBSET Id, Query(r, phase, idx, todo)
    PROVE  Types'
<1>1. [pc |-> phase, idx |-> idx, todo |-> todo, dead |-> {}] \in TaskRecord
  BY DEF TaskRecord
<1>2. TaskTyped'
  BY <1>1, GoesTyped DEF Query, Goto, Types, TaskTyped
<1> QED BY <1>2, Untouched DEF Query, Types

\* What the queries of Build read, each alone, is well formed too.
LEMMA BuildTyped ==
    ASSUME StoreInv, Types, NEW r \in Requests,
           ListUsers(r) \/ ListUserGroups(r) \/ ListServices(r) \/ LoadServicePorts(r)
               \/ ListPolicies(r) \/ UserGroupMembers(r) \/ ServiceGroupIDsForService(r)
    PROVE  Types'
<1> DEFINE idx == task[r].idx
<1>1. /\ idx \in Index /\ task[r].todo \subseteq Id
      /\ Ids(idx.groups) \subseteq Id /\ Ids(idx.services) \subseteq Id
  BY DEF Types, TaskTyped, TaskRecord, Index, Ids
<1>2. Image \in Index /\ Ids(services) \subseteq Id
  BY ImageTyped DEF StoreInv, TypeOK, Service, Ids
<1>3. BuildPhases \subseteq Phases
  BY DEF Phases
<1> HIDE DEF idx
<1>4. CASE ListUsers(r)
  <2>1. [idx EXCEPT !.users = Image.users] \in Index
    BY <1>1, <1>2 DEF Index
  <2> QED BY <1>4, <2>1, <1>3, QueryTyped DEF ListUsers, Image, BuildPhases, idx
<1>5. CASE ListUserGroups(r)
  <2>1. [idx EXCEPT !.groups = Image.groups] \in Index
    BY <1>1, <1>2 DEF Index
  <2> QED BY <1>5, <2>1, <1>3, QueryTyped DEF ListUserGroups, Image, BuildPhases, idx
<1>6. CASE ListServices(r)
  <2> DEFINE read == {[ServiceSnapshot(s) EXCEPT !.ports = {}] : s \in services}
  <2>1. [idx EXCEPT !.services = read] \in Index
    <3>1. read \subseteq [id : Id, ip : Addrs, origin : Origins, ports : PortSets \cup {{}}]
      BY DEF StoreInv, TypeOK, Service, ServiceSnapshot
    <3> QED BY <1>1, <3>1 DEF Index
  <2> QED BY <1>6, <1>2, <2>1, <1>3, QueryTyped DEF ListServices, BuildPhases, idx
<1>7. CASE LoadServicePorts(r)
  <2>1. PICK id \in task[r].todo :
            Query(r, "ports",
                  [idx EXCEPT !.services =
                      {IF s.id = id THEN [s EXCEPT !.ports = PortsNow(id)] ELSE s : s \in @}],
                  task[r].todo \ {id})
    BY <1>7 DEF LoadServicePorts, idx
  <2>2. PortsNow(id) \in PortSets \cup {{}}
    <3>1. CASE \E s \in services : s.id = id
      <4>1. PICK s \in services : s.id = id
        BY <3>1
      <4>2. {t \in services : t.id = id} = {s}
        BY <4>1 DEF StoreInv, KeysUnique, Keyed
      <4> QED BY <4>1, <4>2 DEF PortsNow, StoreInv, TypeOK, Service
    <3>2. CASE ~ \E s \in services : s.id = id
      BY <3>2 DEF PortsNow
    <3> QED BY <3>1, <3>2
  <2> DEFINE loaded == {IF s.id = id THEN [s EXCEPT !.ports = PortsNow(id)] ELSE s :
                            s \in idx.services}
  <2>3. loaded \subseteq [id : Id, ip : Addrs, origin : Origins, ports : PortSets \cup {{}}]
    BY <1>1, <2>2 DEF Index
  <2>4. [idx EXCEPT !.services = loaded] \in Index
    BY <1>1, <2>3 DEF Index
  <2>5. task[r].todo \ {id} \in SUBSET Id /\ "ports" \in Phases
    BY <1>1, <1>3 DEF BuildPhases
  <2>6. Query(r, "ports", [idx EXCEPT !.services = loaded], task[r].todo \ {id})
    BY <2>1
  <2> HIDE DEF loaded
  <2> QED BY <2>4, <2>5, <2>6, QueryTyped
<1>8. CASE ListPolicies(r)
  <2>1. [idx EXCEPT !.rules = Image.rules] \in Index
    BY <1>1, <1>2 DEF Index
  <2> QED BY <1>8, <1>1, <2>1, <1>3, QueryTyped DEF ListPolicies, Image, BuildPhases, idx
<1>9. CASE UserGroupMembers(r)
  <2>1. PICK id \in task[r].todo :
            Query(r, "members",
                  [idx EXCEPT !.members = @ \cup {m \in userMembers : m.group = id}],
                  task[r].todo \ {id})
    BY <1>9 DEF UserGroupMembers, idx
  <2>2. [idx EXCEPT !.members = @ \cup {m \in userMembers : m.group = id}] \in Index
    BY <1>1 DEF Index, StoreInv, TypeOK
  <2> QED BY <1>1, <2>1, <2>2, <1>3, QueryTyped DEF BuildPhases
<1>10. CASE ServiceGroupIDsForService(r)
  <2>1. PICK pending \in SUBSET Id : ServiceGroupIDs(r, pending)
    BY <1>10, <1>1 DEF ServiceGroupIDsForService, idx
  <2>2. PICK id \in pending :
            Query(r, "svcgroups",
                  [idx EXCEPT !.svcMembers = @ \cup {m \in serviceMembers : m.member = id}],
                  pending \ {id})
    BY <2>1 DEF ServiceGroupIDs, idx
  <2>3. [idx EXCEPT !.svcMembers = @ \cup {m \in serviceMembers : m.member = id}] \in Index
    BY <1>1 DEF Index, StoreInv, TypeOK
  <2> QED BY <2>2, <2>3, <1>3, QueryTyped DEF BuildPhases
<1> QED BY <1>4, <1>5, <1>6, <1>7, <1>8, <1>9, <1>10

\* The steps of the listener after the build, and the commit before it.
LEMMA ListenerTyped ==
    ASSUME StoreInv, Types, NEW r \in Requests,
           Commit(r) \/ BuildFails(r) \/ Publish(r) \/ Reap(r) \/ CloseFlow(r)
               \/ ApplyPeers(r) \/ Reconcile(r)
    PROVE  Types'
<1>1. /\ task[r] \in TaskRecord /\ task[r].idx \in Index
      /\ task[r].dead \subseteq Conns /\ flows \subseteq Conns
      /\ Ids(task[r].idx.users) \subseteq Id
  BY DEF Types, TaskTyped, TaskRecord, Index, AddressRow, Ids, ConnTyped
<1>2. \A phase \in Phases : [task[r] EXCEPT !.pc = phase] \in TaskRecord
  BY <1>1 DEF TaskRecord
<1>3. {"reap", "close", "vips", "users"} \subseteq Phases
  BY DEF Phases, BuildPhases
<1>4. CASE Commit(r)
  <2>1. [pc |-> "users", idx |-> EmptyIndex, todo |-> {}, dead |-> {}] \in TaskRecord
    BY <1>3, EmptyTyped DEF TaskRecord
  <2>2. TaskTyped'
    BY <1>4, <2>1, GoesTyped DEF Commit, Notify, Goto, Types, TaskTyped
  <2> QED BY <1>4, <2>2, Untouched DEF Commit, Types
<1>5. CASE BuildFails(r)
  <2>1. TaskTyped'
    BY <1>5, EmptyTyped, GoesTyped DEF BuildFails, Types, TaskTyped
  <2> QED BY <1>5, <2>1, Untouched DEF BuildFails, Types
<1>6. CASE Publish(r)
  <2>1. [pc |-> "reap", idx |-> task[r].idx, todo |-> {}, dead |-> {}] \in TaskRecord
    BY <1>1, <1>3 DEF TaskRecord
  <2>2. TaskTyped'
    BY <1>6, <1>1, <2>1, GoesTyped DEF Publish, Goto, Types, TaskTyped
  <2>3. ConnTyped'
    BY <1>6 DEF Publish, Types, ConnTyped
  <2> QED BY <1>6, <2>2, <2>3, Untouched DEF Publish, Types
<1>7. CASE Reap(r)
  <2> DEFINE dead == Dead(task[r].idx)
  <2>1. dead \subseteq Conns
    BY <1>1 DEF Dead
  <2>2. [task[r] EXCEPT !.pc = "close", !.dead = dead] \in TaskRecord
    BY <1>1, <1>3, <2>1 DEF TaskRecord
  <2>3. task' = [task EXCEPT ![r] = [task[r] EXCEPT !.pc = "close", !.dead = dead]]
    BY <1>7 DEF Reap, Types, TaskTyped
  <2>4. TaskTyped' /\ ConnTyped'
    BY <1>7, <2>2, <2>3, GoesTyped DEF Reap, Types, TaskTyped, ConnTyped
  <2> QED BY <1>7, <2>4, Untouched DEF Reap, Types
<1>8. CASE CloseFlow(r)
  <2>1. PICK c \in task[r].dead :
            Close(c) /\ task' = [task EXCEPT ![r].dead = @ \ {c}]
    BY <1>8 DEF CloseFlow
  <2>2. [task[r] EXCEPT !.dead = @ \ {c}] \in TaskRecord
    BY <1>1 DEF TaskRecord
  <2>3. task' = [task EXCEPT ![r] = [task[r] EXCEPT !.dead = @ \ {c}]]
    BY <2>1 DEF Types, TaskTyped
  <2>4. TaskTyped'
    BY <1>8, <2>2, <2>3, GoesTyped DEF CloseFlow, Types, TaskTyped
  <2>5. conn' \in [Conns -> ConnRecord]
    BY <1>1, <2>1 DEF Close, Types, ConnTyped, ConnRecord
  <2> QED BY <1>8, <2>4, <2>5, Untouched DEF CloseFlow, Types, ConnTyped
<1>9. CASE ApplyPeers(r)
  <2>1. task' = [task EXCEPT ![r] = [task[r] EXCEPT !.pc = "vips"]]
    BY <1>9 DEF ApplyPeers, Types, TaskTyped
  <2>2. TaskTyped'
    BY <1>9, <1>2, <1>3, <2>1, GoesTyped DEF ApplyPeers, Types, TaskTyped
  <2>3. \A u \in task[r].idx.users : AddressOf(u) \in AddressRow
    BY <1>1 DEF Index, AddressRow, AddressOf
  <2>4. DeviceTyped'
    BY <1>9, <1>1, <2>3 DEF ApplyPeers, Grant, Types, DeviceTyped
  <2> QED BY <1>9, <2>2, <2>4, Untouched DEF ApplyPeers, Types
<1>10. CASE Reconcile(r)
  <2>1. TaskTyped'
    BY <1>10, EmptyTyped, GoesTyped DEF Reconcile, Types, TaskTyped
  <2> DEFINE wanted == task[r].idx.services
             kept == Kept(current, wanted)
             addrs == Withdraw(current \ kept)
             new == Accepted(Missing(current, wanted), addrs)
  <2>2. \A s \in wanted : AddressOf(s) \in AddressRow
    BY <1>1 DEF Index, AddressRow, AddressOf
  <2>3. kept \subseteq current /\ addrs \subseteq nic /\ new \subseteq AddressRow
    BY <2>2 DEF Kept, Withdraw, Accepted, Missing
  <2>4. PICK added \in SUBSET new :
            current' = kept \cup added /\ nic' = addrs \cup Addresses(added)
    BY <1>10 DEF Reconcile
  <2> HIDE DEF wanted, kept, addrs, new
  <2>5. Addresses(added) \subseteq Addrs
    BY <2>3 DEF Addresses, AddressRow
  <2>6. ListenTyped'
    BY <2>3, <2>4, <2>5 DEF Types, ListenTyped
  <2> QED BY <1>10, <2>1, <2>6, Untouched DEF Reconcile, Types
<1> QED BY <1>4, <1>5, <1>6, <1>7, <1>8, <1>9, <1>10

\* The handler of a connection
LEMMA ServeTyped == ASSUME Types, NEW c \in Conns, Serve(c) PROVE Types'
<1>1. conn[c] \in ConnRecord /\ conn \in [Conns -> ConnRecord]
  BY DEF Types, ConnTyped
<1> DEFINE States == {"free", "accepted", "dial", "splice", "ended"}
<1>2. \A pc \in States : [conn[c] EXCEPT !.pc = pc] \in ConnRecord
  BY <1>1 DEF ConnRecord
<1>3. \A pc \in States, u, s \in Nat :
          [conn[c] EXCEPT !.pc = pc, !.user = u, !.service = s] \in ConnRecord
  BY <1>1 DEF ConnRecord
<1>4. \A src, dst \in Addrs \cup {ServerIP}, port \in Ports :
          [Free EXCEPT !.pc = "accepted", !.src = src, !.dst = dst, !.port = port] \in ConnRecord
  BY EmptyTyped DEF ConnRecord
<1>5. ASSUME NEW k \in ConnRecord, conn' = [conn EXCEPT ![c] = k],
             flows' \subseteq Conns, straddle' \subseteq Conns
      PROVE  ConnTyped'
  BY <1>1, <1>5 DEF ConnTyped
<1>6. flows \subseteq Conns /\ straddle \subseteq Conns
  BY DEF Types, ConnTyped
<1>7. \E k \in ConnRecord : conn' = [conn EXCEPT ![c] = k]
  <2>1. CASE OnTCP(c)
    BY <2>1, <1>4 DEF OnTCP, Types, DeviceTyped, ListenTyped, AddressRow
  <2>2. CASE Handle(c)
    <3>1. \A u \in holder.users, s \in holder.services : u.id \in Nat /\ s.id \in Nat
      BY DEF Types, TaskTyped, Index, AddressRow, Id
    <3>2. PICK u \in holder.users, s \in holder.services :
              conn' = [conn EXCEPT ![c].pc = "dial", ![c].user = u.id, ![c].service = s.id]
      BY <2>2 DEF Handle
    <3>3. conn' = [conn EXCEPT ![c] =
                      [conn[c] EXCEPT !.pc = "dial", !.user = u.id, !.service = s.id]]
      BY <1>1, <3>2
    <3> QED BY <3>1, <3>3, <1>3
  <2>3. CASE Refuse(c) \/ DialFails(c) \/ RemoveFlow(c)
    BY <2>3, EmptyTyped DEF Refuse, DialFails, RemoveFlow
  <2>4. CASE AddFlow(c) \/ HangUp(c)
    <3>1. PICK pc \in States : conn' = [conn EXCEPT ![c].pc = pc]
      BY <2>4 DEF AddFlow, HangUp, Handler
    <3>2. conn' = [conn EXCEPT ![c] = [conn[c] EXCEPT !.pc = pc]]
      BY <1>1, <3>1
    <3> QED BY <1>2, <3>2
  <2> QED BY <2>1, <2>2, <2>3, <2>4 DEF Serve
<1>8. flows' \subseteq Conns /\ straddle' \subseteq Conns
  BY <1>6 DEF Serve, OnTCP, Handle, Refuse, DialFails, AddFlow, HangUp, Handler, RemoveFlow
<1> QED BY <1>5, <1>7, <1>8, HandlersStandApart, Untouched DEF Types

LEMMA StepTyped == StoreInv /\ Types /\ [Next]_vars => Types'
<1> SUFFICES ASSUME StoreInv, Types, [Next]_vars PROVE Types'
  OBVIOUS
<1>1. ASSUME NEW r \in Requests, Commit(r) \/ Listen(r) \/ BuildFails(r) PROVE Types'
  BY <1>1, BuildTyped, ListenerTyped DEF Listen
<1>2. ASSUME NEW c \in Conns, Serve(c) PROVE Types'
  BY <1>2, ServeTyped
<1>3. CASE Restart
  <2>1. TypeOK
    BY DEF StoreInv
  <2>2. TaskTyped'
    BY <1>3, <2>1, ImageTyped, EmptyTyped DEF Restart, TaskTyped
  <2>3. DeviceTyped' /\ ListenTyped'
    BY <1>3, <2>1, StartedTyped DEF Restart, DeviceTyped, ListenTyped
  <2>4. ConnTyped'
    BY <1>3, EmptyTyped DEF Restart, ConnTyped
  <2> QED BY <2>2, <2>3, <2>4 DEF Types
<1>4. CASE UNCHANGED vars
  BY <1>4, Untouched DEF vars, Types
<1> QED BY <1>1, <1>2, <1>3, <1>4 DEF Next

LEMMA GatewayTypes == Spec => [](StoreInv /\ Types)
<1> QED BY InitTyped, StepTyped, GatewayStores, PTL DEF Spec

\* Every index, peer, address and flow the daemon holds is well formed, under
\* any interleaving of the listeners and any failures.
THEOREM GatewayTypesHold == Spec => []GatewayTypeOK
<1>1. StoreInv /\ Types => GatewayTypeOK
  BY DEF StoreInv, Types, TaskTyped, DeviceTyped, ListenTyped, ConnTyped, TaskRecord, Index,
     AddressRow, GatewayTypeOK, IndexOK
<1> QED BY <1>1, GatewayTypes, PTL

\* A request moves itself and no other.
LEMMA RequestsStandApart ==
    ASSUME Types, NEW r \in Requests, Commit(r) \/ Listen(r) \/ BuildFails(r)
    PROVE  \A q \in Requests \ {r} : task'[q] = task[q]
BY DEF Types, TaskTyped, Listen, Commit, BuildFails, ListUsers, ListUserGroups, ListServices,
   LoadServicePorts, ListPolicies, UserGroupMembers, ServiceGroupIDsForService,
   ServiceGroupIDs, Query, Goto, Notify, Publish, Reap, CloseFlow, ApplyPeers, Reconcile

-----------------------------------------------------------------------------
(* Connections that carry data                                              *)

\* Only a reaper that is closing flows has taken any out of the table: no other
\* step of its request can forget one.
ReapersClose == \A r \in Requests : task[r].pc # "close" => task[r].dead = {}
Revocable == SplicedFlowsAreRevocable /\ ReapersClose

\* A request whose reaper has nothing to close goes to another place and has
\* nothing to close there.
LEMMA OthersKeepReaping ==
    ASSUME Types, Revocable, NEW r \in Requests, NEW t, task' = [task EXCEPT ![r] = t],
           t.dead = {}, task[r].dead = {}, UNCHANGED <<conn, flows>>
    PROVE  Revocable'
<1>1. \A q \in Requests : task'[q] = IF q = r THEN t ELSE task[q]
  BY DEF Types, TaskTyped
<1>2. ReapersClose'
  BY <1>1 DEF Revocable, ReapersClose
<1>3. \A c : InNoReaper(c)' <=> InNoReaper(c)
  BY <1>1 DEF InNoReaper
<1> QED BY <1>2, <1>3 DEF Revocable, SplicedFlowsAreRevocable

LEMMA RequestsKeepRevocable ==
    ASSUME Types, Revocable, NEW r \in Requests, Commit(r) \/ Listen(r) \/ BuildFails(r)
    PROVE  Revocable'
<1> USE DEF Types, TaskTyped
<1>1. CASE \/ Commit(r) \/ BuildFails(r) \/ ListUsers(r) \/ ListUserGroups(r) \/ ListServices(r)
           \/ LoadServicePorts(r) \/ ListPolicies(r) \/ UserGroupMembers(r)
           \/ ServiceGroupIDsForService(r) \/ Publish(r) \/ Reconcile(r)
  <2>1. task[r].pc # "close"
    BY <1>1 DEF Commit, BuildFails, ListUsers, ListUserGroups, ListServices, LoadServicePorts,
       ListPolicies, UserGroupMembers, ServiceGroupIDsForService, Publish, Built, Reconcile,
       Reading, At, BuildPhases
  <2>2. UNCHANGED <<conn, flows>>
    BY <1>1 DEF Commit, BuildFails, ListUsers, ListUserGroups, ListServices, LoadServicePorts,
       ListPolicies, UserGroupMembers, ServiceGroupIDsForService, ServiceGroupIDs, Publish,
       Reconcile, Query, connVars
  <2>3. \E t : task' = [task EXCEPT ![r] = t] /\ t.dead = {}
    BY <1>1 DEF Commit, BuildFails, ListUsers, ListUserGroups, ListServices, LoadServicePorts,
       ListPolicies, UserGroupMembers, ServiceGroupIDsForService, ServiceGroupIDs, Publish,
       Reconcile, Query, Notify, Goto, Idle
  <2> QED BY <2>1, <2>2, <2>3, OthersKeepReaping DEF Revocable, ReapersClose
<1>2. CASE Reap(r)
  <2>1. task' = [task EXCEPT ![r].pc = "close", ![r].dead = Dead(task[r].idx)]
        /\ flows' = flows \ Dead(task[r].idx) /\ UNCHANGED conn
        /\ task[r].dead = {}
    BY <1>2 DEF Reap, At, Revocable, ReapersClose
  <2>2. /\ task'[r].pc = "close" /\ task'[r].dead = Dead(task[r].idx)
        /\ \A q \in Requests \ {r} : task'[q] = task[q]
    BY <2>1 DEF TaskRecord
  <2> QED BY <2>1, <2>2 DEF Revocable, ReapersClose, SplicedFlowsAreRevocable, InNoReaper
<1>3. CASE CloseFlow(r)
  <2>1. PICK k \in task[r].dead : Close(k) /\ task' = [task EXCEPT ![r].dead = @ \ {k}]
    BY <1>3 DEF CloseFlow
  <2>2. /\ task'[r].pc = task[r].pc /\ task'[r].dead = task[r].dead \ {k}
        /\ \A q \in Requests \ {r} : task'[q] = task[q]
    BY <2>1 DEF TaskRecord
  <2>3. \A c \in Conns : conn'[c].pc = "splice" => conn[c].pc = "splice" /\ c # k
    BY <2>1 DEF Close, ConnTyped, ConnRecord
  <2>4. task[r].pc = "close" /\ UNCHANGED flows
    BY <1>3 DEF CloseFlow, At
  <2> QED BY <2>2, <2>3, <2>4 DEF Revocable, ReapersClose, SplicedFlowsAreRevocable, InNoReaper
<1>4. CASE ApplyPeers(r)
  <2>1. /\ task' = [task EXCEPT ![r] = [task[r] EXCEPT !.pc = "vips"]]
        /\ task[r].dead = {} /\ UNCHANGED <<conn, flows>>
    BY <1>4 DEF ApplyPeers, connVars
  <2>2. [task[r] EXCEPT !.pc = "vips"].dead = {}
    BY <2>1 DEF TaskRecord
  <2> QED BY <2>1, <2>2, OthersKeepReaping
<1> QED BY <1>1, <1>2, <1>3, <1>4 DEF Listen

LEMMA HandlersKeepRevocable ==
    ASSUME Types, Revocable, NEW c \in Conns, Serve(c) PROVE Revocable'
<1>1. UNCHANGED task
  BY HandlersStandApart DEF taskVars
<1>2. \A k \in Conns \ {c} : conn'[k] = conn[k] /\ (k \in flows' <=> k \in flows)
  BY DEF Types, ConnTyped, Serve, OnTCP, Handle, Refuse, DialFails, AddFlow, HangUp, Handler,
     RemoveFlow
<1>3. conn'[c].pc = "splice" => c \in flows'
  <2> USE DEF Types, ConnTyped, ConnRecord
  <2>1. CASE OnTCP(c)
    <3>1. \A src, dst, port :
              [Free EXCEPT !.pc = "accepted", !.src = src, !.dst = dst, !.port = port].pc = "accepted"
      BY DEF Free
    <3> QED BY <2>1, <3>1 DEF OnTCP
  <2>4. CASE Handle(c)
    BY <2>4 DEF Handle
  <2>5. CASE HangUp(c)
    BY <2>5 DEF HangUp, Handler
  <2>2. CASE Refuse(c) \/ DialFails(c) \/ RemoveFlow(c)
    BY <2>2 DEF Refuse, DialFails, RemoveFlow, Free
  <2>3. CASE AddFlow(c)
    BY <2>3 DEF AddFlow
  <2> QED BY <2>1, <2>2, <2>3, <2>4, <2>5 DEF Serve
<1> QED BY <1>1, <1>2, <1>3 DEF Revocable, ReapersClose, SplicedFlowsAreRevocable, InNoReaper

\* A connection that carries data can be revoked, whatever the handlers, the
\* reapers and the restarts do in between.
THEOREM GatewayRevocable == Spec => []SplicedFlowsAreRevocable
<1>1. Init => Revocable
  BY DEF Init, Revocable, SplicedFlowsAreRevocable, ReapersClose, Idle, Free
<1>2. Types /\ Revocable /\ [Next]_vars => Revocable'
  <2> SUFFICES ASSUME Types, Revocable, [Next]_vars PROVE Revocable'
    OBVIOUS
  <2>1. CASE Restart
    BY <2>1 DEF Restart, Revocable, SplicedFlowsAreRevocable, ReapersClose, Idle, Free
  <2>2. CASE UNCHANGED vars
    BY <2>2 DEF vars, taskVars, connVars, Revocable, SplicedFlowsAreRevocable, ReapersClose,
       InNoReaper
  <2> QED BY <2>1, <2>2, RequestsKeepRevocable, HandlersKeepRevocable DEF Next
<1>3. Revocable => SplicedFlowsAreRevocable
  BY DEF Revocable
<1> QED BY <1>1, <1>2, <1>3, GatewayTypes, PTL DEF Spec

-----------------------------------------------------------------------------
(* Listener addresses                                                       *)

\* Every index a listener holds has the services of one moment: no id and no
\* address twice.
OneEach(rows) == \A s, t \in rows : s.id = t.id \/ s.ip = t.ip => s = t
ServicesApart == \A r \in Requests : OneEach(task[r].idx.services)
Listening == NicMatchesRecord /\ ServicesApart

LEMMA DatabaseApart == StoreInv => OneEach(services)
BY DEF StoreInv, KeysUnique, Keyed, AddressesUnique, UniqueAcross, Distinct, OneEach

\* A projection that keeps ids and addresses keeps rows apart.
LEMMA StartedApart ==
    ASSUME StoreInv
    PROVE  OneEach(Started) /\ ServerIP \notin Addresses(Started)
BY DatabaseApart DEF Started, AddressOf, OneEach, Addresses

\* What Build queries of the services keeps them apart.
LEMMA BuildsApart ==
    ASSUME StoreInv, Types, Listening, NEW r \in Requests,
           ListUsers(r) \/ ListUserGroups(r) \/ ListServices(r) \/ LoadServicePorts(r)
               \/ ListPolicies(r) \/ UserGroupMembers(r) \/ ServiceGroupIDsForService(r)
    PROVE  OneEach(task'[r].idx.services)
<1> USE DEF Types, TaskTyped
<1>1. OneEach(task[r].idx.services) /\ task[r].idx \in Index
  BY DEF Listening, ServicesApart, TaskRecord
<1>2. CASE ListServices(r)
  <2> DEFINE bare(s) == [ServiceSnapshot(s) EXCEPT !.ports = {}]
  <2>1. \A s \in services : bare(s).id = s.id /\ bare(s).ip = s.ip
    BY DEF ServiceSnapshot
  <2>2. task'[r].idx.services = {bare(s) : s \in services}
    BY <1>1, <1>2 DEF ListServices, Query, Goto, Index
  <2> HIDE DEF bare
  <2> QED BY <2>1, <2>2, DatabaseApart DEF OneEach
<1>3. CASE LoadServicePorts(r)
  <2>1. PICK id \in task[r].todo :
            Query(r, "ports",
                  [task[r].idx EXCEPT !.services =
                      {IF s.id = id THEN [s EXCEPT !.ports = PortsNow(id)] ELSE s : s \in @}],
                  task[r].todo \ {id})
    BY <1>3 DEF LoadServicePorts
  <2> DEFINE load(s) == IF s.id = id THEN [s EXCEPT !.ports = PortsNow(id)] ELSE s
  <2>2. task'[r].idx.services = {load(s) : s \in task[r].idx.services}
    BY <1>1, <2>1 DEF Query, Goto, Index
  <2>3. \A s \in task[r].idx.services : load(s).id = s.id /\ load(s).ip = s.ip
    BY <1>1 DEF Index
  <2> HIDE DEF load
  <2> QED BY <1>1, <2>2, <2>3 DEF OneEach
<1>4. CASE \/ ListUsers(r) \/ ListUserGroups(r) \/ ListPolicies(r) \/ UserGroupMembers(r)
           \/ ServiceGroupIDsForService(r)
  <2>1. task'[r].idx.services = task[r].idx.services
    BY <1>1, <1>4 DEF ListUsers, ListUserGroups, ListPolicies, UserGroupMembers,
       ServiceGroupIDsForService, ServiceGroupIDs, Query, Goto, Index
  <2> QED BY <1>1, <2>1
<1> QED BY <1>2, <1>3, <1>4

LEMMA ReconcileListens ==
    ASSUME Types, Listening, NEW r \in Requests, Reconcile(r) PROVE NicMatchesRecord'
<1> DEFINE wanted == task[r].idx.services
           kept == Kept(current, wanted)
           addrs == Withdraw(current \ kept)
           new == Accepted(Missing(current, wanted), addrs)
<1>1. PICK added \in SUBSET new :
          current' = kept \cup added /\ nic' = addrs \cup Addresses(added)
  BY DEF Reconcile
<1>2. OneEach(wanted) /\ OneEach(current) /\ nic = {ServerIP} \cup Addresses(current)
      /\ ServerIP \notin Addresses(current)
  BY DEF Listening, NicMatchesRecord, ServicesApart, OneEach
<1>3. addrs = {ServerIP} \cup Addresses(kept)
  <2>1. kept \subseteq current
    BY DEF Kept
  <2>2. Addresses(kept) \cap Addresses(current \ kept) = {}
    BY <1>2, <2>1 DEF OneEach, Addresses
  <2>3. Addresses(current) = Addresses(kept) \cup Addresses(current \ kept)
    BY <2>1 DEF Addresses
  <2> HIDE DEF kept
  <2> QED BY <1>2, <2>1, <2>2, <2>3 DEF Withdraw, Addresses
<1>4. \A t \in new : t.ip \notin addrs /\ t.id \notin Ids(current)
  BY DEF Accepted, Missing, AddressOf
<1>5. OneEach(new)
  BY <1>2 DEF Accepted, Missing, AddressOf, OneEach
<1>6. kept \subseteq current
  BY DEF Kept
<1> HIDE DEF wanted, kept, addrs, new
<1>7. OneEach(current')
  BY <1>1, <1>2, <1>3, <1>4, <1>5, <1>6 DEF OneEach, Addresses, Ids
<1>8. nic' = {ServerIP} \cup Addresses(current')
  BY <1>1, <1>3 DEF Addresses
<1>9. ServerIP \notin Addresses(current')
  BY <1>1, <1>2, <1>3, <1>4, <1>6 DEF Addresses
<1> QED BY <1>7, <1>8, <1>9 DEF NicMatchesRecord, OneEach

\* The NIC and the listener manager's record of it agree, however addresses
\* move between services and listeners interleave.
THEOREM GatewayNicMatchesRecord == Spec => []NicMatchesRecord
<1>1. OneEach({})
  BY DEF OneEach
<1>2. Init => Listening
  <2> SUFFICES ASSUME Init PROVE Listening
    OBVIOUS
  <2>1. OneEach(Started) /\ ServerIP \notin Addresses(Started)
    BY StartedApart DEF Init
  <2> QED BY <1>1, <2>1 DEF Init, Listening, NicMatchesRecord, ServicesApart, OneEach, Idle,
          EmptyIndex
<1>3. StoreInv /\ Types /\ Listening /\ [Next]_vars => Listening'
  <2> SUFFICES ASSUME StoreInv, Types, Listening, [Next]_vars PROVE Listening'
    OBVIOUS
  <2>1. ASSUME NEW r \in Requests, Commit(r) \/ Listen(r) \/ BuildFails(r) PROVE Listening'
    <3>1. \A q \in Requests \ {r} : task'[q] = task[q]
      BY <2>1, RequestsStandApart
    <3>2. OneEach(task'[r].idx.services)
      <4>1. CASE Commit(r) \/ BuildFails(r) \/ Reconcile(r)
        BY <1>1, <4>1 DEF Types, TaskTyped, Commit, BuildFails, Reconcile, Notify, Goto, Idle,
           EmptyIndex
      <4>2. CASE Publish(r) \/ Reap(r) \/ CloseFlow(r) \/ ApplyPeers(r)
        <5>1. task'[r].idx = task[r].idx
          BY <4>2 DEF Types, TaskTyped, TaskRecord, Publish, Goto, Reap, CloseFlow, ApplyPeers
        <5> QED BY <5>1 DEF Listening, ServicesApart
      <4> QED BY <2>1, <4>1, <4>2, BuildsApart DEF Listen
    <3>3. NicMatchesRecord'
      <4>1. CASE Reconcile(r)
        BY <4>1, ReconcileListens
      <4>2. CASE ~Reconcile(r)
        <5>1. UNCHANGED listenVars
          BY <2>1, <4>2 DEF Listen, Commit, BuildFails, ListUsers, ListUserGroups,
             ListServices, LoadServicePorts, ListPolicies, UserGroupMembers,
             ServiceGroupIDsForService, ServiceGroupIDs, Query, Publish, Reap, CloseFlow,
             ApplyPeers
        <5> QED BY <5>1 DEF listenVars, Listening, NicMatchesRecord
      <4> QED BY <4>1, <4>2
    <3> QED BY <3>1, <3>2, <3>3 DEF Listening, ServicesApart
  <2>2. ASSUME NEW c \in Conns, Serve(c) PROVE Listening'
    <3>1. UNCHANGED <<taskVars, listenVars>>
      BY <2>2, HandlersStandApart
    <3> QED BY <3>1 DEF taskVars, listenVars, Listening, NicMatchesRecord, ServicesApart
  <2>3. CASE Restart
    <3>1. OneEach(Started) /\ ServerIP \notin Addresses(Started)
      BY StartedApart
    <3> QED BY <1>1, <2>3, <3>1 DEF Restart, Listening, NicMatchesRecord, ServicesApart,
            OneEach, Idle, EmptyIndex
  <2>4. CASE UNCHANGED vars
    BY <2>4 DEF vars, taskVars, listenVars, Listening, NicMatchesRecord, ServicesApart
  <2> QED BY <2>1, <2>2, <2>3, <2>4 DEF Next
<1>4. Listening => NicMatchesRecord
  BY DEF Listening
<1> QED BY <1>2, <1>3, <1>4, GatewayTypes, PTL DEF Spec

-----------------------------------------------------------------------------
(* The index a listener builds                                              *)

\* The groups, and the services, whose members the loops of Build have not read.
GroupsAwaited(t) ==
    IF t.pc \in {"users", "groups", "services", "ports"} THEN Ids(userGroups)
    ELSE IF t.pc = "members" THEN t.todo ELSE {}
ServicesAwaited(t) ==
    IF t.pc \in {"users", "groups", "services", "ports", "members"} THEN Ids(services)
    ELSE IF t.pc = "svcgroups" THEN t.todo ELSE {}

\* A service whose ports Build may not have read yet
Loading(s, todo) ==
    IF s.id \in todo THEN [ServiceSnapshot(s) EXCEPT !.ports = {}] ELSE ServiceSnapshot(s)

\* What Build has read is what the database says now.
ExactSoFar(t) ==
    /\ t.pc # "users" => t.idx.users = Image.users
    /\ t.pc \notin {"users", "groups"} => t.idx.groups = Image.groups
    /\ t.pc = "ports" => t.idx.services = {Loading(s, t.todo) : s \in services}
    /\ t.pc \in {"members", "svcgroups", "reap", "close", "vips"} =>
          t.idx.services = Image.services /\ t.idx.rules = Image.rules
    /\ t.idx.members = {m \in userMembers : m.group \notin GroupsAwaited(t)}
    /\ t.idx.svcMembers = {m \in serviceMembers : m.member \notin ServicesAwaited(t)}

Undisturbed(r) == ~At(r, "idle") => ExactSoFar(task[r])
BuildsExact ==
    /\ \A r \in Requests \ overtaken : Undisturbed(r)
    /\ exact => holder = Image

LEMMA ImageStays == UNCHANGED storeVars => Image' = Image
BY DEF Image, storeVars, entityVars, memberVars

\* Nobody writes to the database, and the request does nothing or moves on ...
LEMMA StaysUndisturbed ==
    ASSUME NEW r \in Requests, UNCHANGED storeVars, Undisturbed(r), task'[r] = task[r]
    PROVE  Undisturbed(r)'
BY ImageStays DEF Undisturbed, ExactSoFar, At, Loading, GroupsAwaited, ServicesAwaited,
   storeVars, entityVars, memberVars

\* ... to a place where what it has read is still what there is.
LEMMA MovesUndisturbed ==
    ASSUME NEW r \in Requests, UNCHANGED storeVars, ExactSoFar(task'[r])
    PROVE  Undisturbed(r)'
BY ImageStays DEF Undisturbed, ExactSoFar, At, Loading, GroupsAwaited, ServicesAwaited,
   storeVars, entityVars, memberVars

\* When the queries are done, nothing is left out.
LEMMA ExactAtEnd ==
    ASSUME StoreInv, Types, NEW r \in Requests, ExactSoFar(task[r]),
           Built(r) \/ task[r].pc \in {"reap", "close", "vips"}
    PROVE  task[r].idx = Image
<1> DEFINE idx == task[r].idx
<1>1. idx \in Index /\ Image \in Index
  BY ImageTyped DEF StoreInv, Types, TaskTyped, TaskRecord
<1>2. idx.users = Image.users /\ idx.groups = Image.groups /\ idx.services = Image.services
      /\ idx.rules = Image.rules
  BY DEF ExactSoFar, Built, Reading, At
<1>3. idx.members = userMembers
  BY DEF ExactSoFar, Built, Reading, At, GroupsAwaited
<1>4. idx.svcMembers = serviceMembers
  <2>1. CASE Reading(r, "members") /\ idx.services = {}
    <3>1. serviceMembers = {}
      BY <1>2, <2>1 DEF Image, StoreInv, MembershipsReferToLiveRows, Ids
    <3> QED BY <3>1 DEF ExactSoFar
  <2>2. CASE ~(Reading(r, "members") /\ idx.services = {})
    BY <2>2 DEF ExactSoFar, Built, Reading, At, ServicesAwaited
  <2> QED BY <2>1, <2>2
<1> HIDE DEF idx
<1>5. Image.members = userMembers /\ Image.svcMembers = serviceMembers
  BY DEF Image
<1>6. idx = Image
  BY <1>1, <1>2, <1>3, <1>4, <1>5 DEF Index
<1> QED BY <1>6 DEF idx

\* Ports forgotten and filled in again give the row.
LEMMA SnapshotRestored ==
    ASSUME NEW s
    PROVE  [[ServiceSnapshot(s) EXCEPT !.ports = {}] EXCEPT !.ports = s.ports]
               = ServiceSnapshot(s)
<1> DEFINE bare == [ServiceSnapshot(s) EXCEPT !.ports = {}]
<1>1. bare = [id |-> s.id, ip |-> s.ip, origin |-> s.origin, ports |-> {}]
  BY DEF ServiceSnapshot
<1> HIDE DEF bare
<1>2. [bare EXCEPT !.ports = s.ports] = ServiceSnapshot(s)
  BY <1>1 DEF ServiceSnapshot
<1> QED BY <1>2 DEF bare

\* A query adds to the index what the database says of what it asks for.
LEMMA QueriesExact ==
    ASSUME StoreInv, Types, NEW r \in Requests, ExactSoFar(task[r]),
           ListUsers(r) \/ ListUserGroups(r) \/ ListServices(r) \/ LoadServicePorts(r)
               \/ ListPolicies(r) \/ UserGroupMembers(r) \/ ServiceGroupIDsForService(r)
    PROVE  ExactSoFar(task'[r])
<1> DEFINE idx == task[r].idx
           next == task'[r]
<1>1. idx \in Index /\ task \in [Requests -> TaskRecord]
  BY DEF Types, TaskTyped, TaskRecord
<1>2. ASSUME NEW phase, NEW i, NEW todo, Query(r, phase, i, todo)
      PROVE  next.pc = phase /\ next.idx = i /\ next.todo = todo
  BY <1>1, <1>2 DEF Query, Goto
<1>3. CASE ListUsers(r)
  <2>1. task[r].pc = "users" /\ next.pc = "groups"
        /\ next.idx = [idx EXCEPT !.users = Image.users]
    BY <1>2, <1>3 DEF ListUsers, At, Image
  <2>2. next.idx.users = Image.users /\ next.idx.members = idx.members
        /\ next.idx.svcMembers = idx.svcMembers
    BY <1>1, <2>1 DEF Index
  <2> HIDE DEF next
  <2> QED BY <2>1, <2>2 DEF ExactSoFar, GroupsAwaited, ServicesAwaited, next
<1>4. CASE ListUserGroups(r)
  <2>1. task[r].pc = "groups" /\ next.pc = "services"
        /\ next.idx = [idx EXCEPT !.groups = Image.groups]
    BY <1>2, <1>4 DEF ListUserGroups, At, Image
  <2>2. next.idx.groups = Image.groups /\ next.idx.members = idx.members
        /\ next.idx.svcMembers = idx.svcMembers /\ next.idx.users = idx.users
    BY <1>1, <2>1 DEF Index
  <2> QED BY <2>1, <2>2 DEF ExactSoFar, GroupsAwaited, ServicesAwaited
<1>5. CASE ListServices(r)
  <2> DEFINE read == {[ServiceSnapshot(s) EXCEPT !.ports = {}] : s \in services}
  <2>1. task[r].pc = "services" /\ next.pc = "ports" /\ next.todo = Ids(services)
        /\ next.idx = [idx EXCEPT !.services = read]
    BY <1>2, <1>5 DEF ListServices, At
  <2>2. next.idx.services = read /\ next.idx.members = idx.members
        /\ next.idx.svcMembers = idx.svcMembers /\ next.idx.users = idx.users
        /\ next.idx.groups = idx.groups
    BY <1>1, <2>1 DEF Index
  <2>3. read = {Loading(s, Ids(services)) : s \in services}
    BY DEF Loading, Ids
  <2> HIDE DEF read
  <2> QED BY <2>1, <2>2, <2>3 DEF ExactSoFar, GroupsAwaited, ServicesAwaited
<1>6. CASE LoadServicePorts(r)
  <2>1. task[r].pc = "ports"
    BY <1>6 DEF LoadServicePorts, At
  <2>2. PICK id \in task[r].todo :
            Query(r, "ports",
                  [idx EXCEPT !.services =
                      {IF s.id = id THEN [s EXCEPT !.ports = PortsNow(id)] ELSE s : s \in @}],
                  task[r].todo \ {id})
    BY <1>6 DEF LoadServicePorts
  <2> DEFINE todo == task[r].todo
             load(s) == IF s.id = id THEN [s EXCEPT !.ports = PortsNow(id)] ELSE s
             loaded == {load(s) : s \in idx.services}
  <2>3. next.pc = "ports" /\ next.todo = todo \ {id}
        /\ next.idx = [idx EXCEPT !.services = loaded]
    BY <1>2, <2>2
  <2>4. next.idx.services = loaded /\ next.idx.members = idx.members
        /\ next.idx.svcMembers = idx.svcMembers /\ next.idx.users = idx.users
        /\ next.idx.groups = idx.groups
    BY <1>1, <2>3 DEF Index
  <2>5. ASSUME NEW s \in services
        PROVE  load(Loading(s, todo)) = Loading(s, todo \ {id})
    <3>1. CASE s.id = id
      <4>1. {t \in services : t.id = id} = {s}
        BY <3>1 DEF StoreInv, KeysUnique, Keyed
      <4>2. PortsNow(id) = s.ports
        BY <4>1 DEF PortsNow
      <4>3. [[ServiceSnapshot(s) EXCEPT !.ports = {}] EXCEPT !.ports = s.ports]
                = ServiceSnapshot(s)
        BY SnapshotRestored
      <4>4. [ServiceSnapshot(s) EXCEPT !.ports = {}].id = s.id
        BY DEF ServiceSnapshot
      <4>5. Loading(s, todo) = [ServiceSnapshot(s) EXCEPT !.ports = {}]
            /\ Loading(s, todo \ {id}) = ServiceSnapshot(s)
        BY <3>1 DEF Loading
      <4> QED BY <3>1, <4>2, <4>3, <4>4, <4>5
    <3>2. CASE s.id # id
      <4>1. Loading(s, todo).id = s.id
        BY DEF Loading, ServiceSnapshot
      <4>2. Loading(s, todo \ {id}) = Loading(s, todo)
        BY <3>2 DEF Loading
      <4> QED BY <3>2, <4>1, <4>2
    <3> QED BY <3>1, <3>2
  <2>6. idx.services = {Loading(s, todo) : s \in services}
    BY <2>1 DEF ExactSoFar
  <2> HIDE DEF load
  <2>7. loaded = {Loading(s, todo \ {id}) : s \in services}
    BY <2>5, <2>6
  <2> HIDE DEF loaded, todo
  <2> QED BY <2>1, <2>3, <2>4, <2>7 DEF ExactSoFar, GroupsAwaited, ServicesAwaited
<1>7. CASE ListPolicies(r)
  <2>1. task[r].pc = "ports" /\ task[r].todo = {} /\ next.pc = "members"
        /\ next.todo = Ids(idx.groups) /\ next.idx = [idx EXCEPT !.rules = Image.rules]
    BY <1>2, <1>7 DEF ListPolicies, Reading, At, Image
  <2>2. next.idx.rules = Image.rules /\ next.idx.members = idx.members
        /\ next.idx.svcMembers = idx.svcMembers /\ next.idx.users = idx.users
        /\ next.idx.groups = idx.groups /\ next.idx.services = idx.services
    BY <1>1, <2>1 DEF Index
  <2>3. idx.services = Image.services
    BY <2>1 DEF ExactSoFar, Loading, Image
  <2>4. next.todo = Ids(userGroups)
    <3>1. idx.groups = {UserGroupSnapshot(g) : g \in userGroups}
      BY <2>1 DEF ExactSoFar, Image
    <3>2. \A g \in userGroups : UserGroupSnapshot(g).id = g.id
      BY DEF UserGroupSnapshot
    <3> QED BY <2>1, <3>1, <3>2 DEF Ids
  <2> QED BY <2>1, <2>2, <2>3, <2>4 DEF ExactSoFar, GroupsAwaited, ServicesAwaited
<1>8. CASE UserGroupMembers(r)
  <2>1. task[r].pc = "members"
    BY <1>8 DEF UserGroupMembers, At
  <2>2. PICK id \in task[r].todo :
            Query(r, "members",
                  [idx EXCEPT !.members = @ \cup {m \in userMembers : m.group = id}],
                  task[r].todo \ {id})
    BY <1>8 DEF UserGroupMembers
  <2>3. next.pc = "members" /\ next.todo = task[r].todo \ {id}
        /\ next.idx = [idx EXCEPT !.members = @ \cup {m \in userMembers : m.group = id}]
    BY <1>2, <2>2
  <2>4. next.idx.members = idx.members \cup {m \in userMembers : m.group = id}
        /\ next.idx.svcMembers = idx.svcMembers /\ next.idx.users = idx.users
        /\ next.idx.groups = idx.groups /\ next.idx.services = idx.services
        /\ next.idx.rules = idx.rules
    BY <1>1, <2>3 DEF Index
  <2>5. next.idx.members = {m \in userMembers : m.group \notin task[r].todo \ {id}}
    BY <2>1, <2>4 DEF ExactSoFar, GroupsAwaited
  <2> QED BY <2>1, <2>3, <2>4, <2>5 DEF ExactSoFar, GroupsAwaited, ServicesAwaited
<1>9. CASE ServiceGroupIDsForService(r)
  <2>1. PICK pending : /\ ServiceGroupIDs(r, pending)
                       /\ \/ Reading(r, "members") /\ pending = Ids(idx.services)
                          \/ At(r, "svcgroups") /\ pending = task[r].todo
    BY <1>9 DEF ServiceGroupIDsForService
  <2>2. PICK id \in pending :
            Query(r, "svcgroups",
                  [idx EXCEPT !.svcMembers = @ \cup {m \in serviceMembers : m.member = id}],
                  pending \ {id})
    BY <2>1 DEF ServiceGroupIDs
  <2>3. next.pc = "svcgroups" /\ next.todo = pending \ {id}
        /\ next.idx = [idx EXCEPT !.svcMembers = @ \cup {m \in serviceMembers : m.member = id}]
    BY <1>2, <2>2
  <2>4. next.idx.svcMembers = idx.svcMembers \cup {m \in serviceMembers : m.member = id}
        /\ next.idx.members = idx.members /\ next.idx.users = idx.users
        /\ next.idx.groups = idx.groups /\ next.idx.services = idx.services
        /\ next.idx.rules = idx.rules
    BY <1>1, <2>3 DEF Index
  <2>5. idx.services = Image.services => Ids(idx.services) = Ids(services)
    <3>1. \A s \in services : ServiceSnapshot(s).id = s.id
      BY DEF ServiceSnapshot
    <3>2. Image.services = {ServiceSnapshot(s) : s \in services}
      BY DEF Image
    <3> QED BY <3>1, <3>2 DEF Ids
  <2>6. idx.svcMembers = {m \in serviceMembers : m.member \notin pending}
    BY <2>1, <2>5 DEF ExactSoFar, ServicesAwaited, Reading, At
  <2>7. idx.members = userMembers
    BY <2>1 DEF ExactSoFar, GroupsAwaited, Reading, At
  <2>8. idx.users = Image.users /\ idx.groups = Image.groups /\ idx.services = Image.services
        /\ idx.rules = Image.rules
    BY <2>1 DEF ExactSoFar, Reading, At
  <2>9. next.idx.svcMembers = {m \in serviceMembers : m.member \notin pending \ {id}}
    BY <2>4, <2>6
  <2> QED BY <2>3, <2>4, <2>7, <2>8, <2>9 DEF ExactSoFar, GroupsAwaited, ServicesAwaited
<1> QED BY <1>3, <1>4, <1>5, <1>6, <1>7, <1>8, <1>9

\* An index that is the database's stays exact after it has been published.
LEMMA ImageIsExact ==
    ASSUME NEW t, t.idx = Image, t.pc \in {"reap", "close", "vips"} PROVE ExactSoFar(t)
BY DEF ExactSoFar, GroupsAwaited, ServicesAwaited, Image

\* A request that nobody overtook goes on from what it has read.
LEMMA ListenersExact ==
    ASSUME StoreInv, Types, NEW r \in Requests, Undisturbed(r), Listen(r) \/ BuildFails(r)
    PROVE  Undisturbed(r)'
<1>1. UNCHANGED storeVars
  BY DEF Listen, BuildFails, ListUsers, ListUserGroups, ListServices, LoadServicePorts,
     ListPolicies, UserGroupMembers, ServiceGroupIDsForService, ServiceGroupIDs, Query,
     Publish, Reap, CloseFlow, ApplyPeers, Reconcile
<1>2. CASE BuildFails(r) \/ Reconcile(r)
  BY <1>2 DEF BuildFails, Reconcile, Types, TaskTyped, Idle, Undisturbed, At
<1>3. CASE Publish(r) \/ Reap(r) \/ CloseFlow(r) \/ ApplyPeers(r)
  <2>1. /\ Built(r) \/ task[r].pc \in {"reap", "close", "vips"}
        /\ task'[r].idx = task[r].idx /\ task'[r].pc \in {"reap", "close", "vips"}
    BY <1>3 DEF Publish, Reap, CloseFlow, ApplyPeers, At, Goto, Types, TaskTyped, TaskRecord
  <2>2. ExactSoFar(task[r])
    BY <2>1 DEF Undisturbed, Built, Reading, At
  <2> QED BY <1>1, <2>1, <2>2, ExactAtEnd, ImageIsExact, MovesUndisturbed
<1>4. CASE \/ ListUsers(r) \/ ListUserGroups(r) \/ ListServices(r) \/ LoadServicePorts(r)
           \/ ListPolicies(r) \/ UserGroupMembers(r) \/ ServiceGroupIDsForService(r)
  <2>1. ExactSoFar(task[r])
    BY <1>4 DEF Undisturbed, At, ListUsers, ListUserGroups, ListServices, LoadServicePorts,
       ListPolicies, UserGroupMembers, ServiceGroupIDsForService, Reading
  <2> QED BY <1>1, <1>4, <2>1, QueriesExact, MovesUndisturbed
<1> QED BY <1>2, <1>3, <1>4 DEF Listen

\* A commit overtakes the listeners that run, and starts one that has read nothing.
LEMMA CommitsExact ==
    ASSUME StoreInv', Types, NEW r \in Requests, Commit(r) PROVE BuildsExact'
<1>1. ASSUME NEW q \in Requests \ {r}, At(q, "idle") PROVE Undisturbed(q)'
  BY <1>1, RequestsStandApart DEF Undisturbed, At
<1>2. /\ task'[r].pc = "users" /\ task'[r].idx = EmptyIndex
  BY DEF Commit, Notify, Goto, Types, TaskTyped
<1>3. Undisturbed(r)'
  <2>1. /\ {m \in userMembers' : m.group \notin Ids(userGroups')} = {}
        /\ {m \in serviceMembers' : m.member \notin Ids(services')} = {}
    BY DEF StoreInv, MembershipsReferToLiveRows
  <2> QED BY <1>2, <2>1 DEF Undisturbed, ExactSoFar, GroupsAwaited, ServicesAwaited, EmptyIndex
<1> QED BY <1>1, <1>3 DEF Commit, BuildsExact

\* Step by step, what the listeners have read and published is what there is,
\* unless a commit came in between.
LEMMA StepExact ==
    StoreInv /\ StoreInv' /\ Types /\ BuildsExact /\ [Next]_vars => BuildsExact'
<1> SUFFICES ASSUME StoreInv, StoreInv', Types, BuildsExact, [Next]_vars PROVE BuildsExact'
  OBVIOUS
<1>1. ASSUME NEW r \in Requests, Commit(r) PROVE BuildsExact'
  BY <1>1, CommitsExact
<1>2. ASSUME NEW r \in Requests, Listen(r) \/ BuildFails(r) PROVE BuildsExact'
  <2>1. UNCHANGED <<storeVars, overtaken>>
    BY <1>2 DEF Listen, BuildFails, ListUsers, ListUserGroups, ListServices, LoadServicePorts,
       ListPolicies, UserGroupMembers, ServiceGroupIDsForService, ServiceGroupIDs, Query,
       Publish, Reap, CloseFlow, ApplyPeers, Reconcile
  <2>2. \A q \in Requests \ overtaken' : Undisturbed(q)'
    BY <1>2, <2>1, RequestsStandApart, StaysUndisturbed, ListenersExact DEF BuildsExact
  <2>3. (exact => holder = Image)'
    <3>1. CASE Publish(r)
      <4>1. exact' => Undisturbed(r)
        BY <3>1 DEF Publish, BuildsExact
      <4>2. exact' => ExactSoFar(task[r])
        BY <3>1, <4>1 DEF Publish, Built, Reading, At, Undisturbed
      <4>3. exact' => task[r].idx = Image
        BY <3>1, <4>2, ExactAtEnd DEF Publish
      <4>4. holder' = task[r].idx
        BY <3>1 DEF Publish
      <4> QED BY <2>1, <4>3, <4>4, ImageStays
    <3>2. CASE ~Publish(r)
      <4>1. UNCHANGED <<exact, holder>>
        BY <1>2, <3>2 DEF Listen, BuildFails, ListUsers, ListUserGroups, ListServices,
           LoadServicePorts, ListPolicies, UserGroupMembers, ServiceGroupIDsForService,
           ServiceGroupIDs, Query, Reap, CloseFlow, ApplyPeers, Reconcile
      <4> QED BY <2>1, <4>1, ImageStays DEF BuildsExact
    <3> QED BY <3>1, <3>2
  <2> QED BY <2>2, <2>3 DEF BuildsExact
<1>3. CASE UNCHANGED <<storeVars, taskVars>>
  BY <1>3, ImageStays, StaysUndisturbed DEF BuildsExact, taskVars
<1>4. ASSUME NEW c \in Conns, Serve(c) PROVE BuildsExact'
  BY <1>3, <1>4, HandlersStandApart
<1>5. CASE Restart
  <2>1. UNCHANGED storeVars /\ exact' /\ holder' = Image
    BY <1>5 DEF Restart
  <2>2. \A r \in Requests : Undisturbed(r)'
    BY <1>5 DEF Restart, Undisturbed, At, Idle
  <2> QED BY <2>1, <2>2, ImageStays DEF BuildsExact
<1> QED BY <1>1, <1>2, <1>3, <1>4, <1>5 DEF Next, vars

LEMMA GatewayExact == Spec => [](StoreInv /\ Types /\ BuildsExact)
<1>1. Init => BuildsExact
  BY DEF Init, BuildsExact, Undisturbed, At, Idle
<1> QED BY <1>1, StepExact, GatewayTypes, PTL DEF Spec

\* An index that no commit overtook is the database at one moment, whatever other
\* listeners, handlers and failures there are.
THEOREM GatewayUndisturbedBuildIsExact == Spec => []UndisturbedBuildIsExact
<1>1. StoreInv /\ Types /\ BuildsExact => UndisturbedBuildIsExact
  <2> SUFFICES ASSUME StoreInv, Types, BuildsExact PROVE UndisturbedBuildIsExact
    OBVIOUS
  <2>1. ASSUME NEW r \in Requests \ overtaken,
               Built(r) \/ task[r].pc \in {"reap", "close", "vips"}
        PROVE  task[r].idx = Image
    <3>1. ExactSoFar(task[r])
      BY <2>1 DEF BuildsExact, Undisturbed, Built, Reading, At
    <3> QED BY <2>1, <3>1, ExactAtEnd
  <2> QED BY <2>1 DEF BuildsExact, UndisturbedBuildIsExact
<1> QED BY <1>1, GatewayExact, PTL

-----------------------------------------------------------------------------
(* Requests served one after another: no commit overtakes a listener.  What  *)
(* the code promises only then is proved under this hypothesis, for any      *)
(* number of requests; with concurrent ones the runs refute it.              *)

Serial == overtaken = {}
Faultless == faults = 0

\* With one request there is no other way.
LEMMA OneRequestIsSerial ==
    ASSUME NEW CONSTANT r, Requests = {r} PROVE Spec => []Serial
<1>1. Init => Serial
  BY DEF Init, Serial
<1>2. Serial /\ [Next]_vars => Serial'
  BY HandlersStandApart DEF Serial, Next, vars, taskVars, Commit, Listen, BuildFails, ListUsers,
     ListUserGroups, ListServices, LoadServicePorts, ListPolicies, UserGroupMembers,
     ServiceGroupIDsForService, ServiceGroupIDs, Query, Publish, Reap, CloseFlow, ApplyPeers,
     Reconcile, Restart
<1> QED BY <1>1, <1>2, PTL DEF Spec

\* Where no fault is allowed there is none.
LEMMA NoFaultNoFaults == ASSUME MaxFaults = 0 PROVE Spec => []Faultless
<1>1. Init => Faultless
  BY DEF Init, Faultless
<1>2. ASSUME Faultless, NEW r \in Requests, Commit(r) \/ Listen(r) \/ BuildFails(r)
      PROVE  Faultless'
  <2>1. CASE ApplyPeers(r)
    BY <1>2, <2>1 DEF ApplyPeers, Faultless
  <2>2. CASE Reconcile(r)
    <3>1. \E new : \E added \in SUBSET new :
              /\ added # new => faults < MaxFaults
              /\ faults' = IF added = new THEN faults ELSE faults + 1
      BY <2>2 DEF Reconcile
    <3>2. ~(faults < MaxFaults) /\ faults = 0
      BY <1>2 DEF Faultless
    <3> QED BY <3>1, <3>2 DEF Faultless
  <2>3. CASE BuildFails(r)
    BY <1>2, <2>3 DEF BuildFails, Faultless
  <2>4. CASE ~ApplyPeers(r) /\ ~Reconcile(r) /\ ~BuildFails(r)
    <3>1. UNCHANGED faults
      BY <1>2, <2>4 DEF Commit, Listen, ListUsers, ListUserGroups, ListServices,
         LoadServicePorts, ListPolicies, UserGroupMembers, ServiceGroupIDsForService,
         ServiceGroupIDs, Query, Publish, Reap, CloseFlow
    <3> QED BY <1>2, <3>1 DEF Faultless
  <2> QED BY <2>1, <2>2, <2>3, <2>4
<1>3. ASSUME Faultless, NEW c \in Conns, Serve(c) PROVE Faultless'
  BY <1>3, HandlersStandApart DEF Faultless, taskVars
<1>4. Faultless /\ (Restart \/ UNCHANGED vars) => Faultless'
  BY DEF Faultless, Restart, vars, taskVars
<1>5. Faultless /\ [Next]_vars => Faultless'
  BY <1>2, <1>3, <1>4 DEF Next
<1> QED BY <1>1, <1>5, PTL DEF Spec

\* A publication that no commit overtook publishes the database.
LEMMA SerialPublish ==
    ASSUME StoreInv, Types, BuildsExact, Serial, NEW r \in Requests, Publish(r)
    PROVE  holder' = Image /\ Image' = Image
<1>1. ExactSoFar(task[r])
  BY DEF Serial, BuildsExact, Publish, Built, Reading, At, Undisturbed
<1>2. task[r].idx = Image
  BY <1>1, ExactAtEnd DEF Publish
<1> QED BY <1>2, ImageStays DEF Publish

\* Everything but a publication and a start leaves the published index alone.
LEMMA HolderStays ==
    [Next]_vars => holder' = holder \/ Restart \/ \E r \in Requests : Publish(r)
<1>1. ASSUME NEW r \in Requests, Commit(r) \/ Listen(r) \/ BuildFails(r), ~Publish(r)
      PROVE  holder' = holder
  BY <1>1 DEF Commit, Listen, BuildFails, ListUsers, ListUserGroups, ListServices,
     LoadServicePorts, ListPolicies, UserGroupMembers, ServiceGroupIDsForService,
     ServiceGroupIDs, Query, Reap, CloseFlow, ApplyPeers, Reconcile
<1>2. ASSUME NEW c \in Conns, Serve(c) PROVE holder' = holder
  BY <1>2, HandlersStandApart DEF taskVars
<1> QED BY <1>1, <1>2 DEF Next, vars, taskVars

\* Serial requests: building the index query by query, publishing it, failing to
\* and starting again after a crash implement the atomic replacement of the
\* policy in force by the database's (the safety part of ImplementsPublication).
THEOREM SerialGatewayPublishes == Spec /\ []Serial => Published!Safety
<1>1. Init => Published!Init
  BY DEF Init, Published!Init
<1>2. StoreInv /\ Types /\ BuildsExact /\ Serial /\ [Next]_vars
          => [Published!Change \/ Published!Adopt]_<<Image, holder>>
  <2>1. ASSUME Restart PROVE holder' = Image /\ Image' = Image
    BY <2>1, ImageStays DEF Restart
  <2> QED BY <2>1, HolderStays, SerialPublish DEF Published!Change, Published!Adopt
<1> QED BY <1>1, <1>2, GatewayExact, PTL DEF Spec, Published!Safety

-----------------------------------------------------------------------------
(* Serial requests that nothing fails                                       *)

\* At most one listener runs; when none builds, the index in force is exact.
Alone == \A q, r \in Requests : ~At(q, "idle") /\ ~At(r, "idle") => q = r
Building == \E r \in Requests : task[r].pc \in BuildPhases
InSync == Alone /\ (~Building => exact)

LEMMA StepInSync ==
    Types /\ InSync /\ Serial' /\ Faultless /\ Faultless' /\ [Next]_vars => InSync'
<1> SUFFICES ASSUME Types, InSync, Serial', Faultless, Faultless', [Next]_vars PROVE InSync'
  OBVIOUS
<1>1. ASSUME NEW r \in Requests, Commit(r) PROVE InSync'
  <2>1. task'[r].pc = "users" /\ \A q \in Requests \ {r} : At(q, "idle")
    BY <1>1 DEF Commit, Notify, Goto, Types, TaskTyped, Serial
  <2> QED BY <1>1, <2>1, RequestsStandApart DEF InSync, Alone, Building, At, BuildPhases
<1>2. ASSUME NEW r \in Requests, Listen(r) PROVE InSync'
  <2>1. ~At(r, "idle")
    BY <1>2 DEF Listen, ListUsers, ListUserGroups, ListServices, LoadServicePorts, ListPolicies,
       UserGroupMembers, ServiceGroupIDsForService, Publish, Built, Reap, CloseFlow, ApplyPeers,
       Reconcile, Reading, At
  <2>2. Alone'
    BY <1>2, <2>1, RequestsStandApart DEF InSync, Alone, At
  <2>3. CASE Publish(r)
    BY <2>2, <2>3 DEF Publish, Serial, InSync
  <2>4. CASE \/ ListUsers(r) \/ ListUserGroups(r) \/ ListServices(r) \/ LoadServicePorts(r)
             \/ ListPolicies(r) \/ UserGroupMembers(r) \/ ServiceGroupIDsForService(r)
    <3>1. task'[r].pc \in BuildPhases
      BY <2>4 DEF Types, TaskTyped, ListUsers, ListUserGroups, ListServices, LoadServicePorts,
         ListPolicies, UserGroupMembers, ServiceGroupIDsForService, ServiceGroupIDs, Query,
         Goto, BuildPhases
    <3> QED BY <2>2, <3>1 DEF InSync, Building
  <2>5. CASE Reap(r) \/ CloseFlow(r) \/ ApplyPeers(r) \/ Reconcile(r)
    <3>1. task[r].pc \notin BuildPhases /\ UNCHANGED exact
      BY <2>5 DEF Reap, CloseFlow, ApplyPeers, Reconcile, At, BuildPhases
    <3>2. Building => Building'
      BY <1>2, <3>1, RequestsStandApart DEF Building
    <3> QED BY <2>2, <3>1, <3>2 DEF InSync
  <2> QED BY <1>2, <2>3, <2>4, <2>5 DEF Listen
<1>3. ASSUME NEW r \in Requests, BuildFails(r) PROVE FALSE
  BY <1>3 DEF BuildFails, Faultless
<1>4. CASE UNCHANGED taskVars
  BY <1>4 DEF taskVars, InSync, Alone, Building, At
<1>5. ASSUME NEW c \in Conns, Serve(c) PROVE InSync'
  BY <1>4, <1>5, HandlersStandApart
<1>6. CASE Restart
  BY <1>6 DEF Restart, InSync, Alone, At, Idle
<1> QED BY <1>1, <1>2, <1>3, <1>4, <1>5, <1>6 DEF Next, vars

Settled == StoreInv /\ Types /\ BuildsExact /\ InSync

LEMMA SerialSettled == Spec /\ [](Serial /\ Faultless) => []Settled
<1>1. Init => InSync
  BY DEF Init, InSync, Alone, At, Idle
<1> QED BY <1>1, StepInSync, GatewayExact, PTL DEF Spec, Settled

\* Serial requests that nothing fails: when they have been answered, new connections
\* are checked against the policies of the database.
THEOREM SerialIndexInSync == Spec /\ [](Serial /\ Faultless) => []IndexInSyncAtRest
<1>1. Settled => IndexInSyncAtRest
  BY DEF Settled, InSync, Building, BuildsExact, IndexInSyncAtRest, AtRest, At, BuildPhases
<1> QED BY <1>1, SerialSettled, PTL

-----------------------------------------------------------------------------
(* ... and the peers of the WireGuard device                                *)

\* What the device has for an id is what the database has, or had, for it: an id
\* is never given again and the address of a user never changes.
PeersKnown ==
    \A p \in device :
        p.id \in 1..seq["users"] /\ \A u \in users : u.id = p.id => u.ip = p.ip
Applied == {AddressOf(u) : u \in users}
PeersFollow ==
    /\ peers = Ids(device)
    /\ PeersKnown
    /\ (\A r \in Requests : task[r].pc \in {"idle", "vips"}) => device = Applied

LEMMA AppliedIds == Ids(Applied) = Ids(users)
<1>1. \A u \in users : AddressOf(u).id = u.id
  BY DEF AddressOf
<1> QED BY <1>1 DEF Applied, Ids

\* No transaction changes the address of a user, or gives an old id to a new one.
LEMMA UsersKeepAddresses ==
    ASSUME TypeOK, [StoreNext]_storeVars
    PROVE  /\ seq'["users"] >= seq["users"]
           /\ \A v \in users' : \/ v.id > seq["users"]
                               \/ \E u \in users : u.id = v.id /\ u.ip = v.ip
<1>1. seq'["users"] >= seq["users"]
  BY StoreKeySteps, KeyStepAppears DEF KeySteps, Tables
<1>2. ASSUME NEW name \in Names, NEW ip \in Addrs, CreateUser(name, ip), NEW v \in users'
      PROVE  v.id > seq["users"] \/ v \in users
  BY <1>2 DEF CreateUser, Fresh, TypeOK, Tables
<1>3. ASSUME NEW u \in users, NEW name \in Names, UpdateUser(u, name), NEW v \in users'
      PROVE  v \in users \/ (u.id = v.id /\ u.ip = v.ip)
  BY <1>3 DEF UpdateUser, Swap, TypeOK, User
<1>4. CASE \/ \E u \in users : DeleteUser(u)
           \/ UserGroupStep \/ ServiceStep \/ ServiceGroupStep \/ PolicyStep
           \/ UNCHANGED storeVars
  <2>1. users' \subseteq users
    BY <1>4 DEF DeleteUser, UserGroupStep, CreateUserGroup, UpdateUserGroup, DeleteUserGroup,
       AddUserToGroup, RemoveUserFromGroup, ServiceStep, CreateService, UpdateService,
       DeleteService, ServiceGroupStep, CreateServiceGroup, UpdateServiceGroup,
       DeleteServiceGroup, AddServiceToGroup, RemoveServiceFromGroup, PolicyStep,
       CreatePolicy, DeletePolicy, storeVars, entityVars
  <2> QED BY <1>1, <2>1
<1> QED BY <1>1, <1>2, <1>3, <1>4 DEF StoreNext, UserStep

\* ApplyPeers, when the device does as told, makes the device agree with the index.
LEMMA AppliesPeers ==
    ASSUME Settled, PeersFollow, Serial, Faultless, Faultless', NEW r \in Requests, ApplyPeers(r)
    PROVE  device' = Applied /\ peers' = Ids(Applied)
<1>1. task[r].idx = Image
  BY ExactAtEnd DEF Settled, BuildsExact, Serial, Undisturbed, ApplyPeers, At
<1> DEFINE wanted == {UserSnapshot(u) : u \in users}
           gone == GonePeers(wanted)
           new == {AddressOf(u) : u \in {w \in wanted : w.id \notin peers}}
<1>2. peers' = Ids(wanted) /\ device' = Grant(device \ gone, new)
  BY <1>1 DEF ApplyPeers, Image, Faultless
<1>3. wanted = Applied
  BY DEF Applied, AddressOf, UserSnapshot
<1>4. /\ \A a \in Applied : AddressOf(a) = a
      /\ \A u \in users : AddressOf(u).id = u.id /\ AddressOf(u).ip = u.ip
  BY DEF Applied, AddressOf
<1>5. gone = {p \in device : p.id \notin Ids(users)}
  BY <1>3, AppliedIds DEF GonePeers, PeersFollow, Ids
<1>6. new = {a \in Applied : a.id \notin peers}
  BY <1>3, <1>4
<1>7. ASSUME NEW p \in device \ gone PROVE p \in Applied
  <2>1. PICK u \in users : u.id = p.id
    BY <1>5, <1>7 DEF Ids
  <2>2. u.ip = p.ip /\ p = [id |-> p.id, ip |-> p.ip]
    BY <2>1 DEF PeersFollow, PeersKnown, Settled, Types, DeviceTyped, AddressRow
  <2> QED BY <2>1, <2>2 DEF Applied, AddressOf
<1>8. ASSUME NEW u \in users, u.id \in peers
      PROVE  AddressOf(u) \in device \ gone /\ AddressOf(u).ip \notin Addresses(new)
  <2>1. PICK p \in device : p.id = u.id
    BY <1>8 DEF PeersFollow, Ids
  <2>2. u.ip = p.ip /\ p = [id |-> p.id, ip |-> p.ip]
    BY <2>1 DEF PeersFollow, PeersKnown, Settled, Types, DeviceTyped, AddressRow
  <2>3. AddressOf(u) = p /\ p \notin gone
    BY <1>5, <2>1, <2>2 DEF AddressOf, Ids
  <2>4. ASSUME NEW a \in new PROVE a.ip # u.ip
    <3>1. PICK v \in users : a = AddressOf(v) /\ v.id \notin peers
      BY <1>4, <1>6, <2>4 DEF Applied
    <3>2. v # u /\ a.ip = v.ip
      BY <1>4, <1>8, <3>1
    <3> QED BY <3>2 DEF Settled, StoreInv, AddressesUnique, UniqueAcross, Distinct
  <2> QED BY <2>2, <2>3, <2>4 DEF Addresses
<1> HIDE DEF gone, new, wanted
<1>9. device' \subseteq Applied
  BY <1>2, <1>6, <1>7 DEF Grant
<1>10. ASSUME NEW u \in users PROVE AddressOf(u) \in device'
  <2>1. CASE u.id \in peers
    BY <1>2, <1>8, <2>1 DEF Grant
  <2>2. CASE u.id \notin peers
    <3>1. AddressOf(u) \in new
      BY <1>4, <1>6, <2>2 DEF Applied
    <3> QED BY <1>2, <3>1 DEF Grant
  <2> QED BY <2>1, <2>2
<1> QED BY <1>2, <1>3, <1>9, <1>10 DEF Applied

\* What the database has the device may have.
LEMMA AppliedKnown ==
    ASSUME StoreInv, device' = Applied, UNCHANGED storeVars
    PROVE  PeersKnown' /\ Applied' = Applied
<1>1. Applied' = Applied
  BY DEF Applied, storeVars, entityVars
<1>2. \A u \in users : u.id \in 1..seq["users"]
  BY DEF StoreInv, KeysUnique, Keyed
<1>3. \A u, v \in users : u.id = v.id => u.ip = v.ip
  BY DEF StoreInv, KeysUnique, Keyed
<1> QED BY <1>1, <1>2, <1>3 DEF PeersKnown, Applied, AddressOf, storeVars, entityVars

LEMMA StepPeers ==
    Settled /\ PeersFollow /\ Serial /\ Faultless /\ Faultless' /\ [Next]_vars => PeersFollow'
<1> SUFFICES ASSUME Settled, PeersFollow, Serial, Faultless, Faultless', [Next]_vars
             PROVE  PeersFollow'
  OBVIOUS
<1> USE DEF Settled
<1>1. ASSUME NEW r \in Requests, Commit(r) PROVE PeersFollow'
  <2>1. task'[r].pc = "users" /\ UNCHANGED deviceVars
    BY <1>1 DEF Commit, Notify, Goto, Types, TaskTyped
  <2>2. PeersKnown'
    <3>1. seq["users"] \in Nat /\ seq'["users"] \in Nat
      BY <1>1, StepTypes DEF Commit, StoreInv, TypeOK, Tables
    <3>2. device \subseteq AddressRow
      BY DEF Types, DeviceTyped
    <3>3. ASSUME NEW p \in device PROVE p.id \in 1..seq'["users"]
      BY <1>1, <3>1, UsersKeepAddresses DEF Commit, StoreInv, PeersFollow, PeersKnown
    <3>4. ASSUME NEW p \in device, NEW v \in users', v.id = p.id PROVE v.ip = p.ip
      <4>1. ~(v.id > seq["users"])
        BY <3>1, <3>4 DEF PeersFollow, PeersKnown
      <4>2. PICK u \in users : u.id = v.id /\ u.ip = v.ip
        BY <1>1, <4>1, UsersKeepAddresses DEF Commit, StoreInv
      <4> QED BY <3>4, <4>2 DEF PeersFollow, PeersKnown
    <3> QED BY <2>1, <3>3, <3>4 DEF PeersKnown, deviceVars
  <2> QED BY <2>1, <2>2 DEF PeersFollow, deviceVars, Ids
<1>2. ASSUME NEW r \in Requests, ApplyPeers(r) PROVE PeersFollow'
  <2>1. device' = Applied /\ peers' = Ids(Applied) /\ UNCHANGED storeVars
    BY <1>2, AppliesPeers DEF ApplyPeers
  <2> QED BY <2>1, AppliedKnown DEF PeersFollow
<1>3. CASE Restart
  <2>1. device' = Applied /\ peers' = Ids(users) /\ UNCHANGED storeVars
    BY <1>3 DEF Restart, Applied
  <2> QED BY <2>1, AppliedIds, AppliedKnown DEF PeersFollow
<1>4. ASSUME UNCHANGED <<storeVars, deviceVars>>,
             (\A r \in Requests : task'[r].pc \in {"idle", "vips"})
                 => \A r \in Requests : task[r].pc \in {"idle", "vips"}
      PROVE  PeersFollow'
  BY <1>4 DEF PeersFollow, PeersKnown, Applied, storeVars, entityVars, deviceVars
<1>5. ASSUME NEW r \in Requests, Listen(r), ~ApplyPeers(r) PROVE PeersFollow'
  <2>1. UNCHANGED <<storeVars, deviceVars>>
    BY <1>5 DEF Listen, ListUsers, ListUserGroups, ListServices, LoadServicePorts, ListPolicies,
       UserGroupMembers, ServiceGroupIDsForService, ServiceGroupIDs, Query, Publish, Reap,
       CloseFlow, Reconcile
  <2>2. task'[r].pc \in {"idle", "vips"} => task[r].pc = "vips"
    BY <1>5 DEF Listen, ListUsers, ListUserGroups, ListServices, LoadServicePorts, ListPolicies,
       UserGroupMembers, ServiceGroupIDsForService, ServiceGroupIDs, Query, Publish, Reap,
       CloseFlow, Reconcile, Goto, At, Types, TaskTyped, TaskRecord
  <2> QED BY <1>4, <1>5, <2>1, <2>2, RequestsStandApart
<1>6. ASSUME NEW r \in Requests, BuildFails(r) PROVE FALSE
  BY <1>6 DEF BuildFails, Faultless
<1>7. CASE UNCHANGED <<storeVars, taskVars, deviceVars>>
  BY <1>4, <1>7 DEF taskVars
<1>8. ASSUME NEW c \in Conns, Serve(c) PROVE PeersFollow'
  BY <1>7, <1>8, HandlersStandApart
<1> QED BY <1>1, <1>2, <1>3, <1>5, <1>6, <1>7, <1>8 DEF Next, vars

\* Serial requests that nothing fails: when they have been answered, the WireGuard
\* device accepts the users of the database and no others, each at its address.
THEOREM SerialPeersInSync == Spec /\ [](Serial /\ Faultless) => []PeersInSyncAtRest
<1>1. Init => PeersFollow
  <2> SUFFICES ASSUME Init PROVE PeersFollow
    OBVIOUS
  <2>1. peers = Ids(device)
    BY AppliedIds DEF Init, Applied
  <2>2. \A u, v \in users : u.id \in 1..seq["users"] /\ (u.id = v.id => u.ip = v.ip)
    BY DEF Init, StoreInv, KeysUnique, Keyed
  <2>3. device = Applied
    BY DEF Init, Applied
  <2> QED BY <2>1, <2>2, <2>3 DEF PeersFollow, PeersKnown, Applied, AddressOf
<1>2. PeersFollow => PeersInSyncAtRest
  <2> QED BY AppliedIds DEF PeersFollow, PeersInSyncAtRest, AtRest, At, Applied
<1> QED BY <1>1, <1>2, StepPeers, SerialSettled, PTL DEF Spec

-----------------------------------------------------------------------------
(* ... and the flows                                                        *)

\* A connection that carries data, or will when its backend answers, is allowed by
\* the index in force, or has been overtaken by a publication, or is about to be
\* looked at by the reaper of the last one.
FlowsOpen == \A c \in flows : conn[c].pc \in {"splice", "ended"}
Carries(c) == conn[c].pc = "dial" \/ (conn[c].pc = "splice" /\ c \in flows)
Reaping == \E r \in Requests : task[r].pc = "reap"
FlowsChecked ==
    /\ FlowsOpen
    /\ \A c \in Conns : Carries(c) =>
          FlowAllowed(holder, conn[c]) \/ c \in straddle \/ (c \in flows /\ Reaping)

\* The decision about a flow depends on its user, its service and its port.
LEMMA SameFlow ==
    ASSUME NEW idx, NEW f, NEW g, f.user = g.user, f.service = g.service, f.port = g.port
    PROVE  FlowAllowed(idx, f) <=> FlowAllowed(idx, g)
BY DEF FlowAllowed

\* A reaper looks at the index in force.
LEMMA ReaperSeesHolder ==
    ASSUME Settled, Serial, NEW r \in Requests, task[r].pc = "reap"
    PROVE  task[r].idx = holder
<1>1. task[r].idx = Image
  BY ExactAtEnd DEF Settled, BuildsExact, Serial, Undisturbed, At
<1>2. ~Building
  BY DEF Settled, InSync, Alone, Building, At, BuildPhases
<1> QED BY <1>1, <1>2 DEF Settled, InSync, BuildsExact

LEMMA RequestsCheckFlows ==
    ASSUME Settled, FlowsChecked, Serial, NEW r \in Requests,
           Commit(r) \/ Listen(r) \/ BuildFails(r)
    PROVE  FlowsChecked'
<1> USE DEF Settled, Types, TaskTyped, ConnTyped
<1>1. CASE Publish(r)
  <2>1. /\ task'[r].pc = "reap" /\ UNCHANGED <<conn, flows>>
        /\ straddle' = straddle \cup {c \in Conns : conn[c].pc = "dial"}
    BY <1>1 DEF Publish, Goto
  <2> QED BY <2>1 DEF FlowsChecked, FlowsOpen, Carries, Reaping
<1>2. CASE Reap(r)
  <2>1. task[r].pc = "reap" /\ flows' = flows \ Dead(task[r].idx)
        /\ UNCHANGED <<conn, holder, straddle>>
    BY <1>2 DEF Reap, At
  <2>2. task[r].idx = holder
    BY <2>1, ReaperSeesHolder
  <2>3. \A c \in flows' : FlowAllowed(holder, conn[c])
    BY <2>1, <2>2 DEF Dead
  <2> QED BY <2>1, <2>3 DEF FlowsChecked, FlowsOpen, Carries
<1>3. CASE CloseFlow(r)
  <2>1. PICK k \in task[r].dead : Close(k)
    BY <1>3 DEF CloseFlow
  <2>2. UNCHANGED <<holder, flows, straddle>> /\ task[r].pc = "close"
    BY <1>3 DEF CloseFlow, At
  <2>3. \A c \in Conns : conn'[c] = conn[c] \/ (conn[c].pc = "splice" /\ conn'[c].pc = "ended")
    BY <2>1 DEF Close, ConnRecord
  <2>4. Reaping => Reaping'
    BY <1>3, <2>2, RequestsStandApart DEF Reaping
  <2> QED BY <2>2, <2>3, <2>4 DEF FlowsChecked, FlowsOpen, Carries
<1>4. CASE ~(Publish(r) \/ Reap(r) \/ CloseFlow(r))
  <2>1. UNCHANGED <<holder, conn, flows, straddle>>
    BY <1>4 DEF Commit, Listen, BuildFails, ListUsers, ListUserGroups, ListServices,
       LoadServicePorts, ListPolicies, UserGroupMembers, ServiceGroupIDsForService,
       ServiceGroupIDs, Query, ApplyPeers, Reconcile, connVars
  <2>2. task[r].pc # "reap"
    BY <1>4 DEF Commit, Listen, BuildFails, ListUsers, ListUserGroups, ListServices,
       LoadServicePorts, ListPolicies, UserGroupMembers, ServiceGroupIDsForService, Reading,
       ApplyPeers, Reconcile, At, BuildPhases
  <2>3. Reaping => Reaping'
    BY <2>2, RequestsStandApart DEF Reaping
  <2> QED BY <2>1, <2>3 DEF FlowsChecked, FlowsOpen, Carries
<1> QED BY <1>1, <1>2, <1>3, <1>4

LEMMA HandlersCheckFlows ==
    ASSUME Types, FlowsChecked, NEW c \in Conns, Serve(c) PROVE FlowsChecked'
<1> USE DEF Types, ConnTyped
<1>1. UNCHANGED <<task, holder>>
  BY HandlersStandApart DEF taskVars
<1>2. /\ \A k \in Conns \ {c} : conn'[k] = conn[k]
      /\ flows' \ {c} = flows \ {c}
      /\ straddle' \ {c} = straddle \ {c}
  <2>1. \A k \in Conns \ {c} : conn'[k] = conn[k]
    BY DEF Serve, OnTCP, Handle, Refuse, DialFails, AddFlow, HangUp, Handler, RemoveFlow
  <2>2. flows' \ {c} = flows \ {c}
    BY DEF Serve, OnTCP, Handle, Refuse, DialFails, AddFlow, HangUp, Handler, RemoveFlow
  <2>3. straddle' \ {c} = straddle \ {c}
    BY DEF Serve, OnTCP, Handle, Refuse, DialFails, AddFlow, HangUp, Handler, RemoveFlow
  <2> QED BY <2>1, <2>2, <2>3
<1>3. flows' \subseteq flows \cup {c} /\ flows \subseteq Conns
  BY DEF Serve, OnTCP, Handle, Refuse, DialFails, AddFlow, HangUp, Handler, RemoveFlow
<1>4. ASSUME c \in flows' => conn'[c].pc \in {"splice", "ended"},
             Carries(c)' => FlowAllowed(holder, conn'[c]) \/ c \in straddle'
                                \/ (c \in flows' /\ Reaping)
      PROVE  FlowsChecked'
  <2>1. FlowsOpen'
    BY <1>2, <1>3, <1>4 DEF FlowsChecked, FlowsOpen
  <2>2. Reaping' <=> Reaping
    BY <1>1 DEF Reaping
  <2>3. ASSUME NEW k \in Conns, Carries(k)'
        PROVE  (FlowAllowed(holder, conn[k]) \/ k \in straddle \/ (k \in flows /\ Reaping))'
    <3>1. CASE k = c
      BY <1>1, <1>4, <2>2, <2>3, <3>1
    <3>2. CASE k # c
      <4>1. conn'[k] = conn[k] /\ (k \in flows' <=> k \in flows)
            /\ (k \in straddle' <=> k \in straddle)
        BY <1>2, <3>2
      <4> QED BY <1>1, <2>2, <2>3, <4>1 DEF FlowsChecked, Carries
    <3> QED BY <3>1, <3>2
  <2> QED BY <2>1, <2>3 DEF FlowsChecked
<1>5. CASE OnTCP(c) \/ Refuse(c)
  <2>1. conn'[c].pc \in {"free", "accepted"}
    <3>1. \A src, dst, port :
              [Free EXCEPT !.pc = "accepted", !.src = src, !.dst = dst, !.port = port].pc = "accepted"
      BY DEF Free
    <3>2. Free.pc = "free"
      BY DEF Free
    <3>3. CASE OnTCP(c)
      BY <3>1, <3>3 DEF OnTCP
    <3>4. CASE Refuse(c)
      BY <3>2, <3>4 DEF Refuse
    <3> QED BY <1>5, <3>3, <3>4
  <2>2. conn[c].pc \in {"free", "accepted"} /\ UNCHANGED flows
    BY <1>5 DEF OnTCP, Refuse
  <2> QED BY <1>4, <2>1, <2>2 DEF FlowsChecked, FlowsOpen, Carries
<1>6. CASE Handle(c)
  <2>1. PICK u \in holder.users, s \in holder.services :
            /\ Grants(holder, u, s, conn[c].port)
            /\ conn' = [conn EXCEPT ![c].pc = "dial", ![c].user = u.id, ![c].service = s.id]
    BY <1>6 DEF Handle
  <2>2. /\ conn'[c].user = u.id /\ conn'[c].service = s.id /\ conn'[c].port = conn[c].port
    BY <2>1 DEF ConnRecord
  <2>3. FlowAllowed(holder, conn'[c])
    BY <2>1, <2>2 DEF FlowAllowed, CheckService
  <2>4. c \notin flows'
    BY <1>6 DEF Handle, FlowsChecked, FlowsOpen
  <2> QED BY <1>4, <2>3, <2>4
<1>7. CASE DialFails(c) \/ RemoveFlow(c)
  <2>1. conn'[c].pc = "free"
    BY <1>7 DEF DialFails, RemoveFlow, Free
  <2>2. c \notin flows'
    BY <1>7 DEF DialFails, RemoveFlow, FlowsChecked, FlowsOpen
  <2> QED BY <1>4, <2>1, <2>2 DEF Carries
<1>8. CASE AddFlow(c)
  <2>1. /\ conn[c].pc = "dial" /\ conn' = [conn EXCEPT ![c].pc = "splice"]
        /\ flows' = flows \cup {c} /\ UNCHANGED straddle
    BY <1>8 DEF AddFlow
  <2>2. /\ conn'[c].pc = "splice" /\ conn'[c].user = conn[c].user
        /\ conn'[c].service = conn[c].service /\ conn'[c].port = conn[c].port
    BY <2>1 DEF ConnRecord
  <2>3. FlowAllowed(holder, conn[c]) => FlowAllowed(holder, conn'[c])
    BY <2>2, SameFlow
  <2> QED BY <1>4, <2>1, <2>2, <2>3 DEF FlowsChecked, Carries
<1>9. CASE HangUp(c)
  <2>1. conn'[c].pc = "ended"
    BY <1>9 DEF HangUp, Handler
  <2> QED BY <1>4, <2>1 DEF Carries
<1> QED BY <1>5, <1>6, <1>7, <1>8, <1>9 DEF Serve

\* Serial requests that nothing fails: when they have been answered, a connection
\* the database forbids is one whose dial a publication overtook.
THEOREM SerialOnlyStraddlersSurvive == Spec /\ [](Serial /\ Faultless) => []OnlyStraddlersSurvive
<1>1. Init => FlowsChecked
  BY DEF Init, FlowsChecked, FlowsOpen, Carries, Free
<1>2. Settled /\ FlowsChecked /\ Serial /\ [Next]_vars => FlowsChecked'
  <2> SUFFICES ASSUME Settled, FlowsChecked, Serial, [Next]_vars PROVE FlowsChecked'
    OBVIOUS
  <2>1. CASE Restart
    BY <2>1 DEF Restart, FlowsChecked, FlowsOpen, Carries, Free
  <2>2. CASE UNCHANGED vars
    BY <2>2 DEF vars, taskVars, connVars, FlowsChecked, FlowsOpen, Carries, Reaping
  <2> QED BY <2>1, <2>2, RequestsCheckFlows, HandlersCheckFlows DEF Next, Settled
<1>3. Settled /\ FlowsChecked => OnlyStraddlersSurvive
  <2> SUFFICES ASSUME Settled, FlowsChecked, AtRest PROVE OnlyStraddlersSurvive
    BY DEF OnlyStraddlersSurvive
  <2>1. holder = Image
    BY DEF Settled, InSync, Building, BuildsExact, AtRest, At, BuildPhases
  <2>2. ~Reaping
    BY DEF AtRest, At, Reaping
  <2>3. flows \subseteq Conns
    BY DEF Settled, Types, ConnTyped
  <2> QED BY <2>1, <2>2, <2>3 DEF FlowsChecked, Carries, OnlyStraddlersSurvive, DatabaseAllows
<1> QED BY <1>1, <1>2, <1>3, SerialSettled, PTL DEF Spec
=============================================================================
