------------------------------ MODULE AdminApi ------------------------------
(***************************************************************************)
(* daemon/api: the handlers that write.  A handler that only hands its     *)
(* input to the store is one action; one that reads first (the taken       *)
(* addresses, the service it updates, the rows a name may mean) reads in   *)
(* transactions of their own, and writes in a later one.  Requests are     *)
(* served concurrently.  A client may hang up at any point, which cancels  *)
(* the transactions still to come.                                         *)
(*                                                                         *)
(* Left out: reading JSON, and inputs refused before anything is read.     *)
(* Hostname and e-mail texts, and which values of an origin are valid      *)
(* addresses or names, are left to the constants.                          *)
(***************************************************************************)
EXTENDS Store, Sequences

CONSTANTS
    Requests,        \* goroutines serving requests
    ClientSubnet,    \* the addresses of wireguard.client_subnet
    ServiceSubnet,   \* the addresses of wireguard.service_subnet
    ServerIP,        \* wireguard.server_ip
    DefaultHostname, \* by service name: <name>.<domain>
    Lower,           \* by the spelling of a kind: the kind, trimmed and in lower case
    Updates,         \* the PATCH bodies for a service that are tried
    NoText,          \* the empty value or network of an origin
    MaxHandled       \* bound: requests that arrive

ASSUME Subnets == ClientSubnet \subseteq Nat /\ ServiceSubnet \subseteq Nat /\ MaxHandled \in Nat

VARIABLES
    req,      \* per request: where its handler is, and what it has read
    stale,    \* history: requests whose reading another commit overtook
    raced,    \* history: services a request updated from such a reading
    unbound,  \* history: per request, namespaces the name asked for was free in
    handled   \* bound counter

adminVars == <<storeVars, req, stale, raced, unbound, handled>>

-----------------------------------------------------------------------------
(* Inputs *)

\* An optional field of a body: the empty set, or the value in a set.
Given(field, default) == IF field = {} THEN default ELSE CHOOSE v \in field : TRUE

Spec(kind, value, network) == [kind |-> kind, value |-> value, network |-> network]
Valid(o) ==
    /\ o.network # NoText => o.kind = "container"
    /\ (o.kind = "host") <=> (o.value = NoText)
    /\ o \in Origins

\* The subnets are sets of addresses, a name makes a hostname, and a body gives a
\* field at most one value, of the field's type.
ASSUME Inputs ==
    /\ ClientSubnet \cup ServiceSubnet \subseteq Addrs
    /\ DefaultHostname \in [Names -> Hostnames]
    /\ \A o \in Origins : o = Spec(o.kind, o.value, o.network)
    /\ \A u \in Updates :
          /\ u.name \subseteq Names /\ u.hostname \subseteq Hostnames
          /\ u.ip \subseteq Addrs /\ u.ports \subseteq PortSets
          /\ u.kind \subseteq DOMAIN Lower /\ \A k, l \in u.kind : k = l
    /\ \A o \in Origins : o.kind \in DOMAIN Lower /\ Lower[o.kind] = o.kind

\* A wildcard host service would expose all loopback ports.
WildcardHost(o, ports) == o.kind = "host" /\ ports = {}

\* ipalloc.Allocate: the lowest free host address (IpAllocProofs); the network
\* address and the broadcast address are no host addresses.
Hosts(subnet) ==
    {a \in subnet : (\E b \in subnet : b < a) /\ (\E b \in subnet : b > a)}
Allocated(subnet, taken) ==
    {a \in Hosts(subnet) \ taken : \A b \in Hosts(subnet) \ taken : a <= b}

TakenBy(rows) == {row.ip : row \in rows}

-----------------------------------------------------------------------------
Idle == [pc |-> "idle"]
At(r, pc) == req[r].pc = pc
Goto(r, record) == req' = [req EXCEPT ![r] = record]
Reads(r, record) == Goto(r, record) /\ UNCHANGED <<storeVars, raced>>
Done(r) == Goto(r, Idle)

(* users.go, createUser *)

\* Mutant of UserAddr: the table of the services is read.
UserAddrFromServices == Allocated(ClientSubnet, TakenBy(services) \cup {ServerIP})
UserAddr == Allocated(ClientSubnet, TakenBy(users) \cup {ServerIP})

CreateUserAt(r) ==
    /\ At(r, "idle")
    /\ \E name \in Names, ip \in ClientSubnet : CreateUser(name, ip)
    /\ UNCHANGED <<req, raced>>

AllocateUserIP(r) ==
    /\ At(r, "idle")
    /\ \E name \in Names, ip \in UserAddr :
          Reads(r, [pc |-> "create_user", name |-> name, ip |-> ip])

InsertUser(r) ==
    /\ At(r, "create_user")
    /\ CreateUser(req[r].name, req[r].ip)
    /\ Done(r) /\ UNCHANGED raced

-----------------------------------------------------------------------------
(* services.go, createService *)

ServiceAddr == Allocated(ServiceSubnet, TakenBy(services))
HostnameOf(hostname, name) == Given(hostname, DefaultHostname[name])
Hostname == {{}} \cup {{h} : h \in Hostnames}

CreateServiceAt(r) ==
    /\ At(r, "idle")
    /\ \E name \in Names, hostname \in Hostname, o \in Origins, ip \in ServiceSubnet,
          ports \in PortSets :
          /\ Valid(o) /\ ~WildcardHost(o, ports)
          /\ CreateService(name, HostnameOf(hostname, name), o, ip, ports)
    /\ UNCHANGED <<req, raced>>

AllocateServiceIP(r) ==
    /\ At(r, "idle")
    /\ \E name \in Names, hostname \in Hostname, o \in Origins, ip \in ServiceAddr,
          ports \in PortSets :
          /\ Valid(o) /\ ~WildcardHost(o, ports)
          /\ Reads(r, [pc |-> "create_service", name |-> name, origin |-> o, ip |-> ip,
                       hostname |-> HostnameOf(hostname, name), ports |-> ports])

InsertService(r) ==
    /\ At(r, "create_service")
    /\ CreateService(req[r].name, req[r].hostname, req[r].origin, req[r].ip, req[r].ports)
    /\ Done(r) /\ UNCHANGED raced

\* The address allocated has been taken: 409.  The name is checked first.
AddressConflict(r) ==
    /\ \/ At(r, "create_user") /\ PrincipalNameFree(req[r].name)
       \/ At(r, "create_service") /\ ObjectNameFree(req[r].name)
    /\ ~AddrFree(req[r].ip)
    /\ Reads(r, [req[r] EXCEPT !.pc = "conflict"])

-----------------------------------------------------------------------------
(* services.go, updateService *)

AsksOrigin(u) == u.kind # {} \/ u.value # {} \/ u.network # {}

\* origin.Validate, of what the request made of the origin.
Normalised(o) == [o EXCEPT !.kind = Lower[@]]

\* Mutant of Merged: the kind given starts the origin anew though it is the same.
MergedAnew(o, u) ==
    LET base == IF u.kind = {} THEN o ELSE Spec(Given(u.kind, o.kind), NoText, NoText)
    IN  Normalised([base EXCEPT !.value = Given(u.value, @), !.network = Given(u.network, @)])
\* A new kind starts the origin anew; the other fields replace what is there.  The
\* kind is compared as it is spelt in the body: Validate comes later.
Merged(o, u) ==
    LET base == IF u.kind \in {{}, {o.kind}} THEN o
                ELSE Spec(Given(u.kind, o.kind), NoText, NoText)
    IN  Normalised([base EXCEPT !.value = Given(u.value, @), !.network = Given(u.network, @)])

\* Mutant of Acceptable: the ports are looked at only where they are given.
AcceptableIfGiven(ports, o, u) == u.ports = {} \/ ~WildcardHost(o, Given(u.ports, ports))
Acceptable(ports, o, u) == ~WildcardHost(o, Given(u.ports, ports))

\* Store.UpdateService, in its transaction: what is not given is kept.
Rewrite(s, u, o) ==
    UpdateService(s, Given(u.name, s.name), Given(u.hostname, s.hostname), Given(o, s.origin),
                  Given(u.ip, s.ip), Given(u.ports, s.ports))

\* Nothing that the check is about is given: nothing is read.
UpdateNames(r) ==
    /\ At(r, "idle")
    /\ \E u \in Updates, s \in services :
          /\ ~AsksOrigin(u) /\ u.ports = {}
          /\ Rewrite(s, u, {})
    /\ UNCHANGED <<req, raced>>

\* GetService reads the row, and its ports by a query of their own.
ReadService(r) ==
    /\ At(r, "idle")
    /\ \E u \in Updates, s \in services :
          /\ AsksOrigin(u) \/ u.ports # {}
          /\ Reads(r, [pc |-> "read_ports", id |-> s.id, asked |-> u, origin |-> s.origin])

\* The ports are those of the row there is now, or none; then the update is checked.
Row(id, rows) == {row \in rows : row.id = id}
PortsOf(id) == UNION {s.ports : s \in Row(id, services)}
CheckUpdate(r) ==
    /\ At(r, "read_ports")
    /\ LET u == req[r].asked
           o == IF AsksOrigin(u) THEN Merged(req[r].origin, u) ELSE req[r].origin
       IN  /\ AsksOrigin(u) => Valid(o)
           /\ Acceptable(PortsOf(req[r].id), o, u)
           /\ Reads(r, [pc |-> "update_service", id |-> req[r].id, asked |-> u,
                        origin |-> IF AsksOrigin(u) THEN {o} ELSE {}])

WriteUpdate(r) ==
    /\ At(r, "update_service")
    /\ \E s \in services :
          /\ s.id = req[r].id
          /\ Rewrite(s, req[r].asked, req[r].origin)
    /\ raced' = IF r \in stale THEN raced \cup {req[r].id} ELSE raced
    /\ Done(r)

-----------------------------------------------------------------------------
(* policies.go, resolveSubject and resolveObject; groups.go, members by name. *)
(* A name is looked up in one table after the other, each by a query of its   *)
(* own; the id that is found is used in a later transaction.                  *)

Rows(type) ==
    CASE type = "user" -> users
      [] type = "user_group" -> userGroups
      [] type = "service" -> services
      [] type = "service_group" -> serviceGroups
SearchOrder(pc) ==
    CASE pc = "subject" -> <<"user", "user_group">>
      [] pc = "object" -> <<"service", "service_group", "user", "user_group">>
      [] pc = "user" -> <<"user">>
      [] pc = "service" -> <<"service">>
LookUps == {"subject", "object", "user", "service"}
Search(pc, name, rest) == [pc |-> pc, name |-> name, next |-> 1, rest |-> rest]

\* Subject and object are given by name or by type and id.
AskPolicy(r) ==
    /\ At(r, "idle")
    /\ \E name \in Names, action \in Verdicts :
          \/ \E object \in Names \cup KnownRefs(ObjectTypes) :
                Reads(r, Search("subject", name, [object |-> object, action |-> action]))
          \/ \E subject \in KnownRefs(SubjectTypes) :
                Reads(r, Search("object", name, [subject |-> subject, action |-> action]))

AskMember(r) ==
    /\ At(r, "idle")
    /\ \E name \in Names :
          \/ \E g \in KnownIds("user_groups") : Reads(r, Search("user", name, [group |-> g]))
          \/ \E g \in KnownIds("service_groups") : Reads(r, Search("service", name, [group |-> g]))

\* What follows when the name turns out to denote ref.
Rule(subject, object, action) ==
    [pc |-> "create_policy", subject |-> subject, object |-> object, action |-> action]
Found(q, ref) ==
    CASE q.pc = "subject" /\ q.rest.object \in Names ->
            Search("object", q.rest.object, [subject |-> ref, action |-> q.rest.action])
      [] q.pc = "subject" /\ q.rest.object \notin Names ->
            Rule(ref, q.rest.object, q.rest.action)
      [] q.pc = "object" -> Rule(q.rest.subject, ref, q.rest.action)
      [] OTHER -> [pc |-> "add_member", ref |-> ref, group |-> q.rest.group]

LookUp(r) ==
    /\ req[r].pc \in LookUps
    /\ LET type == SearchOrder(req[r].pc)[req[r].next]
           named == {row \in Rows(type) : row.name = req[r].name}
       IN  \/ \E row \in named : Reads(r, Found(req[r], Ref(type, row.id)))
           \/ /\ named = {}
              /\ req[r].next < Len(SearchOrder(req[r].pc))
              /\ Reads(r, [req[r] EXCEPT !.next = @ + 1])
           \/ /\ named = {}
              /\ req[r].next = Len(SearchOrder(req[r].pc))
              /\ Reads(r, [pc |-> "not_found", name |-> req[r].name, for |-> req[r].pc])

WriteRule(r) ==
    /\ At(r, "create_policy")
    /\ CreatePolicy(req[r].subject, req[r].object, req[r].action)
    /\ Done(r) /\ UNCHANGED raced

AddMember(r) ==
    /\ At(r, "add_member")
    /\ LET ref == req[r].ref
       IN  \/ \E g \in userGroups, u \in users :
                 ref = Ref("user", u.id) /\ g.id = req[r].group /\ AddUserToGroup(g, u)
           \/ \E g \in serviceGroups, s \in services :
                 ref = Ref("service", s.id) /\ g.id = req[r].group /\ AddServiceToGroup(g, s)
    /\ Done(r) /\ UNCHANGED raced

-----------------------------------------------------------------------------
(* Handlers that hand their input to the store                              *)

UserHandlers ==
    \/ \E u \in users, name \in Names : UpdateUser(u, name)
    \/ \E u \in users : DeleteUser(u)

UserGroupHandlers ==
    \/ \E name \in Names, lan \in BOOLEAN : CreateUserGroup(name, lan)
    \/ \E g \in userGroups, name \in Names, lan \in BOOLEAN : UpdateUserGroup(g, name, lan)
DeleteUserGroupAt == \E g \in userGroups : DeleteUserGroup(g)
\* The member is given by its id.
UserGroupMemberHandlers ==
    \/ \E g \in userGroups, u \in users : AddUserToGroup(g, u)
    \/ \E g \in KnownIds("user_groups"), u \in KnownIds("users") : RemoveUserFromGroup(g, u)

CreateServiceGroupAt == \E name \in Names : CreateServiceGroup(name)
ServiceGroupHandlers ==
    \/ \E g \in serviceGroups, name \in Names : UpdateServiceGroup(g, name)
    \/ \E g \in serviceGroups : DeleteServiceGroup(g)
ServiceGroupMemberHandlers ==
    \/ \E g \in serviceGroups, s \in services : AddServiceToGroup(g, s)
    \/ \E g \in KnownIds("service_groups"), s \in KnownIds("services") :
          RemoveServiceFromGroup(g, s)

DeleteServiceAt == \E s \in services : DeleteService(s)
\* Subject and object are given by type and id.
PolicyHandlers == PolicyStep

Direct ==
    \/ UserHandlers \/ UserGroupHandlers \/ DeleteUserGroupAt \/ UserGroupMemberHandlers
    \/ CreateServiceGroupAt \/ ServiceGroupHandlers \/ ServiceGroupMemberHandlers
    \/ DeleteServiceAt \/ PolicyHandlers
Directly(r) == At(r, "idle") /\ Direct /\ UNCHANGED <<req, raced>>

\* The answer is written; or the client hangs up or the transaction is refused,
\* which leaves no trace.
Ends(r) == ~At(r, "idle") /\ Reads(r, Idle)

\* What a request starts with, and what follows its first reading.
Arrives(r) ==
    \/ CreateUserAt(r) \/ AllocateUserIP(r) \/ CreateServiceAt(r) \/ AllocateServiceIP(r)
    \/ UpdateNames(r) \/ ReadService(r) \/ AskPolicy(r) \/ AskMember(r) \/ Directly(r)
Continues(r) ==
    \/ InsertUser(r) \/ InsertService(r) \/ AddressConflict(r)
    \/ CheckUpdate(r) \/ WriteUpdate(r) \/ LookUp(r) \/ WriteRule(r) \/ AddMember(r) \/ Ends(r)

-----------------------------------------------------------------------------
(* History: what was committed since a request read                         *)

Overtaken(q) ==
    CASE q.pc \in {"read_ports", "update_service"} -> Row(q.id, services) # Row(q.id, services')
      [] q.pc \in {"create_user", "create_service"} ->
              TakenBy(users) # TakenBy(users') \/ TakenBy(services) # TakenBy(services')
      [] OTHER -> FALSE

FreeIn ==
    [name \in Names |->
        {n \in {"principal", "object"} :
            \/ n = "principal" /\ name \notin {row.name : row \in users \cup userGroups}
            \/ n = "object" /\ name \notin {row.name : row \in services \cup serviceGroups}}]
SameSearch(q, q2) ==
    q.pc \in LookUps /\ (q2.pc = "not_found" \/ q2.pc = q.pc)

History ==
    /\ stale' = {r \in Requests : req'[r].pc # "idle" /\ (r \in stale \/ Overtaken(req[r]))}
    /\ unbound' =
          [r \in Requests |->
              IF req'[r].pc = "not_found" /\ req'[r] = req[r] THEN unbound[r]
              ELSE IF req'[r].pc \in LookUps \cup {"not_found"}
              THEN FreeIn'[req'[r].name] \cup
                       (IF SameSearch(req[r], req'[r]) THEN unbound[r] ELSE {})
              ELSE {}]

Init ==
    /\ StoreInit
    /\ req = [r \in Requests |-> Idle]
    /\ stale = {} /\ raced = {}
    /\ unbound = [r \in Requests |-> {}]
    /\ handled = 0

Next ==
    /\ \E r \in Requests :
          \/ Arrives(r) /\ handled < MaxHandled /\ handled' = handled + 1
          \/ Continues(r) /\ UNCHANGED handled
    /\ History

AdminSpec == Init /\ [][Next]_adminVars

-----------------------------------------------------------------------------

\* A host service declares its ports ("a wildcard host service would expose all
\* loopback ports"), whatever sequence of creations and partial updates it went
\* through, unless an update wrote what it had checked against a row that
\* another commit changed in between.
HostServicesDeclarePorts ==
    \A s \in services : s.origin.kind = "host" => s.ports # {} \/ s.id \in raced

\* README: update "leaves alone anything you don't pass".  With no commit between
\* its readings and its write, an update keeps the name, the hostname, the address
\* and the ports it was not given; of the origin, what it was not given where it
\* names the stored kind or none.  With any other kind the origin starts anew, and
\* the code takes the stored kind in another spelling for one: a body that says
\* "Container" of a container drops the network it does not mention.  The command
\* line and the web page send the kinds in lower case.
Keeps(s, s2, u) ==
    /\ \A f \in {"name", "hostname", "ip", "ports"} : u[f] = {} => s2[f] = s[f]
    /\ u.kind \in {{}, {s.origin.kind}} =>
          /\ s2.origin.kind = s.origin.kind
          /\ u.value = {} => s2.origin.value = s.origin.value
          /\ u.network = {} => s2.origin.network = s.origin.network
UpdateLeavesRestAlone ==
    [][\A r \in Requests, s \in services, s2 \in services' :
          At(r, "update_service") /\ req'[r].pc = "idle" /\ r \notin stale /\ s.id = s2.id
              => Keeps(s, s2, req[r].asked)]_adminVars

\* A name is reported unknown only if it was free in each namespace looked in at
\* some moment of the look-up, although every table is read at another moment:
\* a name that passes from a group to a user meanwhile is not missed in both.
NotFoundIsTrue ==
    \A r \in Requests :
        At(r, "not_found") =>
            /\ req[r].for = "subject" => "principal" \in unbound[r]
            /\ req[r].for = "object" => unbound[r] = {"principal", "object"}

\* An address the daemon allocated itself is refused only when another commit
\* changed the addresses after they were read; when that address lies in both
\* subnets, which nothing keeps apart; or when a service has it although it lies
\* outside the service subnet.  The last is updateService's doing: README.md:82
\* says that --internal-ip "must be in the subnet" and README.md:90 that update
\* takes the same flags, but the code does not look.
ConflictsAreReal ==
    [][\A r \in Requests :
          ~At(r, "conflict") /\ req'[r].pc = "conflict" =>
              \/ r \in stale
              \/ req[r].ip \in ClientSubnet \cap ServiceSubnet
              \/ \E s \in services : s.ip = req[r].ip /\ s.ip \notin ServiceSubnet]_adminVars
=============================================================================
