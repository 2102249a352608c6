------------------------------- MODULE Store -------------------------------
(***************************************************************************)
(* daemon/store: the SQLite database of the daemon.  A table is a set of   *)
(* rows (records); every exported mutation runs in one transaction on the  *)
(* only connection of the pool, so it is one action.  A transaction that   *)
(* returns an error is rolled back and leaves no trace, the sequence       *)
(* counters included: it has no action.                                    *)
(*                                                                         *)
(* Left out of the rows: e-mail, endpoint, description, created_at, and    *)
(* the keys of a user (they are generated per user and never change, so    *)
(* the user's id stands for them).                                         *)
(***************************************************************************)
EXTENDS Naturals, FiniteSets

CONSTANTS
    Names,       \* names of users, groups, services
    Hostnames,   \* DNS names of services
    Addrs,       \* IPv4 addresses: client addresses and service VIPs
    Origins,     \* validated backend origins of a service
    PortSets,    \* port declarations of a service; {} declares a wildcard
    MaxId,       \* bound: rows ever inserted, by table
    MaxClock     \* bound: policy writes

Tables == {"users", "user_groups", "services", "service_groups", "policy_rules"}

ASSUME StoreBounds == MaxId \in [Tables -> Nat] /\ MaxClock \in Nat

VARIABLES
    users,           \* rows [id, name, ip]
    userGroups,      \* rows [id, name, lan]
    userMembers,     \* rows [member, group]
    services,        \* rows [id, name, hostname, origin, ip, ports]
    serviceGroups,   \* rows [id, name]
    serviceMembers,  \* rows [member, group]
    rules,           \* rows [id, subject, object, action, updated]
    seq,             \* sqlite_sequence: the last id given in each table
    clock            \* the last timestamp given to a policy write

entityVars == <<users, userGroups, services, serviceGroups>>
memberVars == <<userMembers, serviceMembers>>
storeVars == <<entityVars, memberVars, rules, seq, clock>>

-----------------------------------------------------------------------------
(* Row types *)

Id == Nat \ {0}
SubjectTypes == {"user", "user_group"}
ObjectTypes == {"user", "user_group", "service", "service_group"}
Verdicts == {"allow", "deny"}
Subjects == [type : SubjectTypes, id : Id]
Objects == [type : ObjectTypes, id : Id]

User == [id : Id, name : Names, ip : Addrs]
UserGroup == [id : Id, name : Names, lan : BOOLEAN]
Service == [id : Id, name : Names, hostname : Hostnames, origin : Origins,
            ip : Addrs, ports : PortSets]
ServiceGroup == [id : Id, name : Names]
Member == [member : Id, group : Id]
PolicyRule == [id : Id, subject : Subjects, object : Objects,
               action : Verdicts, updated : Nat]

TypeOK ==
    /\ users \subseteq User
    /\ userGroups \subseteq UserGroup
    /\ userMembers \subseteq Member
    /\ services \subseteq Service
    /\ serviceGroups \subseteq ServiceGroup
    /\ serviceMembers \subseteq Member
    /\ rules \subseteq PolicyRule
    /\ seq \in [Tables -> Nat]
    /\ clock \in Nat

-----------------------------------------------------------------------------
(* Reads the transactions are built from *)

Ref(type, id) == [type |-> type, id |-> id]
Ids(table) == {row.id : row \in table}
Swap(table, old, new) == (table \ {old}) \cup {new}

\* Mutant of PrincipalNameFree: groups are not looked at.
UserNameFree(name) == \A row \in users : row.name # name
\* Mutant of AddrFree: services are not looked at.
UserAddrFree(ip) == \A row \in users : row.ip # ip

\* checkNameAvailable in each of the two namespaces
PrincipalNameFree(name) == \A row \in users \cup userGroups : row.name # name
ObjectNameFree(name) == \A row \in services \cup serviceGroups : row.name # name
AddrFree(ip) == \A row \in users \cup services : row.ip # ip
HostnameFree(hostname) == \A s \in services : s.hostname # hostname

\* assertExists
Exists(ref) ==
    \/ ref.type = "user" /\ ref.id \in Ids(users)
    \/ ref.type = "user_group" /\ ref.id \in Ids(userGroups)
    \/ ref.type = "service" /\ ref.id \in Ids(services)
    \/ ref.type = "service_group" /\ ref.id \in Ids(serviceGroups)

\* Mutants of Fresh: the last id instead of the next; INTEGER PRIMARY KEY without
\* AUTOINCREMENT, which follows the largest id in use.
LastId(table) == seq[table]
NextRowid(table) ==
    LET used == [users |-> Ids(users), user_groups |-> Ids(userGroups),
                 services |-> Ids(services), service_groups |-> Ids(serviceGroups),
                 policy_rules |-> Ids(rules)][table] \cup {0}
    IN  CHOOSE id \in 1..(seq[table] + 1) :
            id - 1 \in used /\ \A i \in used : i < id
\* Mutant of TakeId: the counter stays.
PeekId(table) == seq[table] < MaxId[table] /\ UNCHANGED seq
\* Mutants of Scrub: the objects are not matched; the types are not matched.
ScrubSubject(ref) == rules' = {r \in rules : r.subject # ref}
ScrubById(ref) == rules' = {r \in rules : r.subject.id # ref.id /\ r.object.id # ref.id}

\* AUTOINCREMENT: an id is taken once and never given again
Fresh(table) == seq[table] + 1
TakeId(table) ==
    /\ seq[table] < MaxId[table]
    /\ seq' = [seq EXCEPT ![table] = @ + 1]

\* DELETE FROM policy_rules WHERE the subject or the object is ref
Scrub(ref) == rules' = {r \in rules : r.subject # ref /\ r.object # ref}

-----------------------------------------------------------------------------
(* users.go *)

CreateUser(name, ip) ==
    /\ PrincipalNameFree(name)
    /\ AddrFree(ip)
    /\ TakeId("users")
    /\ users' = users \cup {[id |-> Fresh("users"), name |-> name, ip |-> ip]}
    /\ UNCHANGED <<userGroups, services, serviceGroups, memberVars, rules, clock>>

\* The address and the keys of a user never change.
UpdateUser(u, name) ==
    /\ name = u.name \/ PrincipalNameFree(name)
    /\ users' = Swap(users, u, [u EXCEPT !.name = name])
    /\ UNCHANGED <<userGroups, services, serviceGroups, memberVars, rules, seq, clock>>

\* ON DELETE CASCADE clears the memberships.
DeleteUser(u) ==
    /\ Scrub(Ref("user", u.id))
    /\ users' = users \ {u}
    /\ userMembers' = {m \in userMembers : m.member # u.id}
    /\ UNCHANGED <<userGroups, services, serviceGroups, serviceMembers, seq, clock>>

-----------------------------------------------------------------------------
(* groups.go *)

CreateUserGroup(name, lan) ==
    /\ PrincipalNameFree(name)
    /\ TakeId("user_groups")
    /\ userGroups' = userGroups \cup
           {[id |-> Fresh("user_groups"), name |-> name, lan |-> lan]}
    /\ UNCHANGED <<users, services, serviceGroups, memberVars, rules, clock>>

UpdateUserGroup(g, name, lan) ==
    /\ name = g.name \/ PrincipalNameFree(name)
    /\ userGroups' = Swap(userGroups, g, [g EXCEPT !.name = name, !.lan = lan])
    /\ UNCHANGED <<users, services, serviceGroups, memberVars, rules, seq, clock>>

DeleteUserGroup(g) ==
    /\ Scrub(Ref("user_group", g.id))
    /\ userGroups' = userGroups \ {g}
    /\ userMembers' = {m \in userMembers : m.group # g.id}
    /\ UNCHANGED <<users, services, serviceGroups, serviceMembers, seq, clock>>

\* INSERT OR IGNORE
AddUserToGroup(g, u) ==
    /\ userMembers' = userMembers \cup {[member |-> u.id, group |-> g.id]}
    /\ UNCHANGED <<entityVars, serviceMembers, rules, seq, clock>>

\* No existence check: removing what is not there succeeds.
RemoveUserFromGroup(groupID, userID) ==
    /\ userMembers' = userMembers \ {[member |-> userID, group |-> groupID]}
    /\ UNCHANGED <<entityVars, serviceMembers, rules, seq, clock>>

CreateServiceGroup(name) ==
    /\ ObjectNameFree(name)
    /\ TakeId("service_groups")
    /\ serviceGroups' = serviceGroups \cup {[id |-> Fresh("service_groups"), name |-> name]}
    /\ UNCHANGED <<users, userGroups, services, memberVars, rules, clock>>

UpdateServiceGroup(g, name) ==
    /\ name = g.name \/ ObjectNameFree(name)
    /\ serviceGroups' = Swap(serviceGroups, g, [g EXCEPT !.name = name])
    /\ UNCHANGED <<users, userGroups, services, memberVars, rules, seq, clock>>

DeleteServiceGroup(g) ==
    /\ Scrub(Ref("service_group", g.id))
    /\ serviceGroups' = serviceGroups \ {g}
    /\ serviceMembers' = {m \in serviceMembers : m.group # g.id}
    /\ UNCHANGED <<users, userGroups, services, userMembers, seq, clock>>

AddServiceToGroup(g, s) ==
    /\ serviceMembers' = serviceMembers \cup {[member |-> s.id, group |-> g.id]}
    /\ UNCHANGED <<entityVars, userMembers, rules, seq, clock>>

RemoveServiceFromGroup(groupID, serviceID) ==
    /\ serviceMembers' = serviceMembers \ {[member |-> serviceID, group |-> groupID]}
    /\ UNCHANGED <<entityVars, userMembers, rules, seq, clock>>

-----------------------------------------------------------------------------
(* services.go *)

\* The port rows live inside the service row: replaceServicePorts and the
\* cascade of service_ports run in the transaction of their service.
CreateService(name, hostname, origin, ip, ports) ==
    /\ ObjectNameFree(name)
    /\ AddrFree(ip)
    /\ HostnameFree(hostname)
    /\ TakeId("services")
    /\ services' = services \cup
           {[id |-> Fresh("services"), name |-> name, hostname |-> hostname,
             origin |-> origin, ip |-> ip, ports |-> ports]}
    /\ UNCHANGED <<users, userGroups, serviceGroups, memberVars, rules, clock>>

UpdateService(s, name, hostname, origin, ip, ports) ==
    /\ name = s.name \/ ObjectNameFree(name)
    /\ hostname = s.hostname \/ HostnameFree(hostname)
    /\ ip = s.ip \/ AddrFree(ip)
    /\ services' = Swap(services, s,
           [s EXCEPT !.name = name, !.hostname = hostname, !.origin = origin,
                     !.ip = ip, !.ports = ports])
    /\ UNCHANGED <<users, userGroups, serviceGroups, memberVars, rules, seq, clock>>

\* Mutant of DeleteService: the memberships stay.
DeleteServiceRow(s) ==
    /\ Scrub(Ref("service", s.id))
    /\ services' = services \ {s}
    /\ UNCHANGED <<users, userGroups, serviceGroups, memberVars, seq, clock>>

DeleteService(s) ==
    /\ Scrub(Ref("service", s.id))
    /\ services' = services \ {s}
    /\ serviceMembers' = {m \in serviceMembers : m.member # s.id}
    /\ UNCHANGED <<users, userGroups, serviceGroups, userMembers, seq, clock>>

-----------------------------------------------------------------------------
(* policies.go *)

SamePair(r, subject, object) == r.subject = subject /\ r.object = object

RewriteRule(r, action) ==
    /\ rules' = Swap(rules, r, [r EXCEPT !.action = action, !.updated = clock + 1])
    /\ UNCHANGED seq

InsertRule(subject, object, action) ==
    /\ TakeId("policy_rules")
    /\ rules' = rules \cup
           {[id |-> Fresh("policy_rules"), subject |-> subject, object |-> object,
             action |-> action, updated |-> clock + 1]}

\* Mutant of CreatePolicy: always an insert.
InsertPolicy(subject, object, action) ==
    /\ Exists(subject)
    /\ Exists(object)
    /\ clock < MaxClock
    /\ clock' = clock + 1
    /\ InsertRule(subject, object, action)
    /\ UNCHANGED <<entityVars, memberVars>>

\* An upsert: the row of an existing pair keeps its id.
CreatePolicy(subject, object, action) ==
    /\ Exists(subject)
    /\ Exists(object)
    /\ clock < MaxClock
    /\ clock' = clock + 1
    /\ \/ \E r \in rules : SamePair(r, subject, object) /\ RewriteRule(r, action)
       \/ /\ \A r \in rules : ~SamePair(r, subject, object)
          /\ InsertRule(subject, object, action)
    /\ UNCHANGED <<entityVars, memberVars>>

DeletePolicy(r) ==
    /\ rules' = rules \ {r}
    /\ UNCHANGED <<entityVars, memberVars, seq, clock>>

-----------------------------------------------------------------------------
(* The database *)

StoreInit ==
    /\ users = {}
    /\ userGroups = {}
    /\ userMembers = {}
    /\ services = {}
    /\ serviceGroups = {}
    /\ serviceMembers = {}
    /\ rules = {}
    /\ seq = [t \in Tables |-> 0]
    /\ clock = 0

\* The ids a caller can hold: live ones and those of rows deleted since.
TableOf(type) ==
    CASE type = "user" -> "users"
      [] type = "user_group" -> "user_groups"
      [] type = "service" -> "services"
      [] type = "service_group" -> "service_groups"
KnownIds(table) == 1..seq[table]
KnownRefs(types) == UNION {{Ref(t, id) : id \in KnownIds(TableOf(t))} : t \in types}

UserStep ==
    \/ \E name \in Names, ip \in Addrs : CreateUser(name, ip)
    \/ \E u \in users, name \in Names : UpdateUser(u, name)
    \/ \E u \in users : DeleteUser(u)

UserGroupStep ==
    \/ \E name \in Names, lan \in BOOLEAN : CreateUserGroup(name, lan)
    \/ \E g \in userGroups, name \in Names, lan \in BOOLEAN : UpdateUserGroup(g, name, lan)
    \/ \E g \in userGroups : DeleteUserGroup(g)
    \/ \E g \in userGroups, u \in users : AddUserToGroup(g, u)
    \/ \E g \in KnownIds("user_groups"), u \in KnownIds("users") :
          RemoveUserFromGroup(g, u)

ServiceStep ==
    \/ \E name \in Names, hostname \in Hostnames, origin \in Origins,
          ip \in Addrs, ports \in PortSets :
          CreateService(name, hostname, origin, ip, ports)
    \/ \E s \in services, name \in Names, hostname \in Hostnames, origin \in Origins,
          ip \in Addrs, ports \in PortSets :
          UpdateService(s, name, hostname, origin, ip, ports)
    \/ \E s \in services : DeleteService(s)

ServiceGroupStep ==
    \/ \E name \in Names : CreateServiceGroup(name)
    \/ \E g \in serviceGroups, name \in Names : UpdateServiceGroup(g, name)
    \/ \E g \in serviceGroups : DeleteServiceGroup(g)
    \/ \E g \in serviceGroups, s \in services : AddServiceToGroup(g, s)
    \/ \E g \in KnownIds("service_groups"), s \in KnownIds("services") :
          RemoveServiceFromGroup(g, s)

PolicyStep ==
    \/ \E subject \in KnownRefs(SubjectTypes), object \in KnownRefs(ObjectTypes),
          action \in Verdicts : CreatePolicy(subject, object, action)
    \/ \E r \in rules : DeletePolicy(r)

StoreNext == UserStep \/ UserGroupStep \/ ServiceStep \/ ServiceGroupStep \/ PolicyStep

StoreSpec == StoreInit /\ [][StoreNext]_storeVars

-----------------------------------------------------------------------------
(* What the database promises *)

\* AUTOINCREMENT and PRIMARY KEY: the ids of a table are distinct and none is
\* above the table's sequence counter.
Keyed(table, last) ==
    /\ \A row \in table : row.id \in 1..last
    /\ \A r1, r2 \in table : r1.id = r2.id => r1 = r2
KeysUnique ==
    /\ Keyed(users, seq["users"])
    /\ Keyed(userGroups, seq["user_groups"])
    /\ Keyed(services, seq["services"])
    /\ Keyed(serviceGroups, seq["service_groups"])
    /\ Keyed(rules, seq["policy_rules"])

Distinct(table, field) == \A r1, r2 \in table : r1[field] = r2[field] => r1 = r2
UniqueAcross(table1, table2, field) ==
    /\ Distinct(table1, field)
    /\ Distinct(table2, field)
    /\ \A r1 \in table1, r2 \in table2 : r1[field] # r2[field]

\* Across users and user_groups a name denotes one row, and across services
\* and service_groups too: resolveSubject and resolveObject look a name up in
\* one table after the other and must not find two answers in a namespace.
NamesUnambiguous ==
    /\ UniqueAcross(users, userGroups, "name")
    /\ UniqueAcross(services, serviceGroups, "name")

\* No address is given twice, be it to two users, two services or one of each,
\* under any sequence of creations, address changes and deletions
\* (checkIPAvailable spans two tables, which no UNIQUE constraint does); nor is
\* the hostname of a service.
AddressesUnique ==
    /\ UniqueAcross(users, services, "ip")
    /\ Distinct(services, "hostname")

\* policy_rules has no foreign keys: only the scrubs of the four Delete
\* operations and assertExists keep a rule from naming a row that is gone.
RulesReferToLiveRows == \A r \in rules : Exists(r.subject) /\ Exists(r.object)

\* Memberships refer to live rows (foreign keys with ON DELETE CASCADE).
MembershipsReferToLiveRows ==
    /\ \A m \in userMembers : m.member \in Ids(users) /\ m.group \in Ids(userGroups)
    /\ \A m \in serviceMembers :
          m.member \in Ids(services) /\ m.group \in Ids(serviceGroups)

\* The table has no unique index on (subject, object): the upsert of
\* CreatePolicy alone keeps one rule per pair, never an allow beside a deny.
OneRulePerPair ==
    \A r1, r2 \in rules : SamePair(r1, r2.subject, r2.object) => r1 = r2

StoreInv ==
    /\ TypeOK
    /\ KeysUnique
    /\ NamesUnambiguous
    /\ AddressesUnique
    /\ RulesReferToLiveRows
    /\ MembershipsReferToLiveRows
    /\ OneRulePerPair

\* A step drops a rule only when one of its two ends is gone with it, or when
\* it is the one rule the operator deleted: the scrubs of DeleteUser,
\* DeleteUserGroup, DeleteService and DeleteServiceGroup match the type as well
\* as the id, though ids of different tables coincide.
ScrubIsExact ==
    [][\A r \in rules :
          \/ r.id \in {q.id : q \in rules'}
          \/ ~Exists(r.subject)'
          \/ ~Exists(r.object)'
          \/ rules' = rules \ {r}]_storeVars

\* A row that appears has an id above every id its table ever gave: whoever
\* still holds the id of a deleted row (an index, a flow, a request between its
\* look-up and its write) can never mean another row by it.
Appears(table, table2, t) == \A row \in table2 : row.id \in Ids(table) \/ row.id > seq[t]
IdsNeverReused ==
    [][/\ Appears(users, users', "users")
       /\ Appears(userGroups, userGroups', "user_groups")
       /\ Appears(services, services', "services")
       /\ Appears(serviceGroups, serviceGroups', "service_groups")
       /\ Appears(rules, rules', "policy_rules")
       /\ \A t \in Tables : seq'[t] >= seq[t]]_storeVars
=============================================================================
