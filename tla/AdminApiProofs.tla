--------------------------- MODULE AdminApiProofs ---------------------------
(***************************************************************************)
(* The handlers that write, for any inputs, any number of requests and any *)
(* interleaving of their readings and writings: they are transactions of   *)
(* the store, and what they checked still holds when they write, unless a  *)
(* commit in between changed what they had read.                           *)
(***************************************************************************)
EXTENDS AdminApi, StoreIntegrityProofs, TLAPS

-----------------------------------------------------------------------------
(* What a request has read                                                  *)

UserInsert(pc) == [pc : {pc}, name : Names, ip : ClientSubnet]
ServiceInsert(pc) ==
    [pc : {pc}, name : Names, origin : Origins, ip : ServiceSubnet, hostname : Hostnames,
     ports : PortSets]
ServiceRead == [pc : {"read_ports"}, id : Id, asked : Updates, origin : Origins]
ServiceUpdate == [pc : {"update_service"}, id : Id, asked : Updates, origin : SUBSET Origins]
SubjectSearch ==
    [pc : {"subject"}, name : Names, next : 1..2,
     rest : [object : Names \cup Objects, action : Verdicts]]
ObjectSearch ==
    [pc : {"object"}, name : Names, next : 1..4, rest : [subject : Subjects, action : Verdicts]]
MemberSearch == [pc : {"user", "service"}, name : Names, next : {1}, rest : [group : Nat]]
RuleWrite ==
    [pc : {"create_policy"}, subject : Subjects, object : Objects, action : Verdicts]
MemberWrite == [pc : {"add_member"}, ref : Objects, group : Nat]
NotFound == [pc : {"not_found"}, name : Names, for : LookUps]
Searches == SubjectSearch \cup ObjectSearch \cup MemberSearch
Writes ==
    UserInsert("create_user") \cup ServiceInsert("create_service") \cup ServiceRead
        \cup ServiceUpdate \cup RuleWrite \cup MemberWrite
Answers == UserInsert("conflict") \cup ServiceInsert("conflict") \cup NotFound
Request == {Idle} \cup Searches \cup Writes \cup Answers
ReqTyped == req \in [Requests -> Request]

\* An optional field that is given has a value of its type.
LEMMA GivenTyped ==
    ASSUME NEW T, NEW field \in SUBSET T, NEW default \in T
    PROVE  Given(field, default) \in T
BY DEF Given

\* The rows that can be named have an id that refers to them.
LEMMA SearchOrders ==
    /\ SearchOrder("subject") = <<"user", "user_group">>
    /\ SearchOrder("object") = <<"service", "service_group", "user", "user_group">>
    /\ SearchOrder("user") = <<"user">>
    /\ SearchOrder("service") = <<"service">>
BY DEF SearchOrder

LEMMA NamedRefs ==
    ASSUME TypeOK
    PROVE  /\ \A row \in Rows("user") : Ref("user", row.id) \in Subjects \cap Objects
           /\ \A row \in Rows("user_group") : Ref("user_group", row.id) \in Subjects \cap Objects
           /\ \A row \in Rows("service") : Ref("service", row.id) \in Objects
           /\ \A row \in Rows("service_group") : Ref("service_group", row.id) \in Objects
BY DEF TypeOK, User, UserGroup, Service, ServiceGroup, Rows, Ref, Subjects, Objects,
   SubjectTypes, ObjectTypes

\* The table a request looks in, and the place it is at.
LEMMA SearchStates ==
    ASSUME NEW q \in Searches
    PROVE  /\ q.pc \in LookUps /\ q.name \in Names
           /\ q.pc = "subject" => q \in SubjectSearch /\ Len(SearchOrder(q.pc)) = 2
           /\ q.pc = "object" => q \in ObjectSearch /\ Len(SearchOrder(q.pc)) = 4
           /\ q.pc \in {"user", "service"} => q \in MemberSearch /\ Len(SearchOrder(q.pc)) = 1
BY SearchOrders DEF Searches, SubjectSearch, ObjectSearch, MemberSearch, LookUps

LEMMA SearchingTyped ==
    ASSUME NEW q \in Request
    PROVE  q.pc \in LookUps <=> q \in Searches
BY DEF Request, Searches, SubjectSearch, ObjectSearch, MemberSearch, Writes, Answers, Idle,
   UserInsert, ServiceInsert, ServiceRead, ServiceUpdate, RuleWrite, MemberWrite, NotFound,
   LookUps

\* What is at a place has that place's shape.
LEMMA PlacesTyped ==
    ASSUME NEW q \in Request
    PROVE  /\ q.pc = "create_user" => q \in UserInsert("create_user")
           /\ q.pc = "create_service" => q \in ServiceInsert("create_service")
           /\ q.pc = "read_ports" => q \in ServiceRead
           /\ q.pc = "update_service" => q \in ServiceUpdate
           /\ q.pc = "create_policy" => q \in RuleWrite
           /\ q.pc = "add_member" => q \in MemberWrite
           /\ q.pc = "not_found" => q \in NotFound
BY DEF Request, Searches, SubjectSearch, ObjectSearch, MemberSearch, Writes, Answers, Idle,
   UserInsert, ServiceInsert, ServiceRead, ServiceUpdate, RuleWrite, MemberWrite, NotFound

\* What a request reads when it starts is well formed.
LEMMA ArrivalsTyped ==
    ASSUME TypeOK, ReqTyped, NEW r \in Requests, Arrives(r) PROVE ReqTyped'
<1>1. ASSUME NEW q \in Request, Goto(r, q) PROVE ReqTyped'
  BY <1>1 DEF Goto, ReqTyped
<1>2. CASE CreateUserAt(r) \/ CreateServiceAt(r) \/ UpdateNames(r) \/ Directly(r)
  BY <1>2 DEF CreateUserAt, CreateServiceAt, UpdateNames, Directly, ReqTyped
<1>3. CASE AllocateUserIP(r)
  <2>1. UserAddr \subseteq ClientSubnet
    BY DEF UserAddr, Allocated, Hosts
  <2>2. PICK name \in Names, ip \in UserAddr :
            Goto(r, [pc |-> "create_user", name |-> name, ip |-> ip])
    BY <1>3 DEF AllocateUserIP, Reads
  <2>3. [pc |-> "create_user", name |-> name, ip |-> ip] \in Request
    BY <2>1 DEF Request, Writes, UserInsert
  <2> QED BY <1>1, <2>2, <2>3
<1>4. CASE AllocateServiceIP(r)
  <2>1. ServiceAddr \subseteq ServiceSubnet
    BY DEF ServiceAddr, Allocated, Hosts
  <2>2. PICK name \in Names, hostname \in Hostname, o \in Origins, ip \in ServiceAddr,
             ports \in PortSets :
            Goto(r, [pc |-> "create_service", name |-> name, origin |-> o, ip |-> ip,
                     hostname |-> HostnameOf(hostname, name), ports |-> ports])
    BY <1>4 DEF AllocateServiceIP, Reads
  <2>3. HostnameOf(hostname, name) \in Hostnames
    BY Inputs, GivenTyped DEF HostnameOf, Hostname
  <2>4. [pc |-> "create_service", name |-> name, origin |-> o, ip |-> ip,
         hostname |-> HostnameOf(hostname, name), ports |-> ports] \in Request
    BY <2>1, <2>3 DEF Request, Writes, ServiceInsert
  <2> QED BY <1>1, <2>2, <2>4
<1>5. CASE ReadService(r)
  <2>1. PICK u \in Updates, s \in services :
            Goto(r, [pc |-> "read_ports", id |-> s.id, asked |-> u, origin |-> s.origin])
    BY <1>5 DEF ReadService, Reads
  <2>2. s.id \in Id /\ s.origin \in Origins
    BY DEF TypeOK, Service
  <2>3. [pc |-> "read_ports", id |-> s.id, asked |-> u, origin |-> s.origin] \in Request
    BY <2>2 DEF Request, Writes, ServiceRead
  <2> QED BY <1>1, <2>1, <2>3
<1>6. CASE AskPolicy(r)
  <2>1. ASSUME NEW name \in Names, NEW action \in Verdicts,
               NEW object \in Names \cup KnownRefs(ObjectTypes)
        PROVE  Search("subject", name, [object |-> object, action |-> action]) \in Request
    BY KnownRefsTyped DEF Search, Request, Searches, SubjectSearch
  <2>2. ASSUME NEW name \in Names, NEW action \in Verdicts, NEW subject \in KnownRefs(SubjectTypes)
        PROVE  Search("object", name, [subject |-> subject, action |-> action]) \in Request
    BY KnownRefsTyped DEF Search, Request, Searches, ObjectSearch
  <2> QED BY <1>1, <1>6, <2>1, <2>2 DEF AskPolicy, Reads
<1>7. CASE AskMember(r)
  <2>1. ASSUME NEW name \in Names, NEW pc \in {"user", "service"}, NEW g \in Nat
        PROVE  Search(pc, name, [group |-> g]) \in Request
    BY DEF Search, Request, Searches, MemberSearch
  <2>2. KnownIds("user_groups") \subseteq Nat /\ KnownIds("service_groups") \subseteq Nat
    BY DEF KnownIds
  <2> QED BY <1>1, <1>7, <2>1, <2>2 DEF AskMember, Reads
<1> QED BY <1>2, <1>3, <1>4, <1>5, <1>6, <1>7 DEF Arrives

\* So is what it reads, or answers, afterwards.
LEMMA ContinuationsTyped ==
    ASSUME TypeOK, ReqTyped, NEW r \in Requests, Continues(r) PROVE ReqTyped'
<1>1. ASSUME NEW q \in Request, Goto(r, q) PROVE ReqTyped'
  BY <1>1 DEF Goto, ReqTyped
<1>2. req[r] \in Request /\ Idle \in Request
  BY DEF ReqTyped, Request
<1>3. CASE \/ InsertUser(r) \/ InsertService(r) \/ WriteUpdate(r) \/ WriteRule(r)
           \/ AddMember(r) \/ Ends(r)
  BY <1>1, <1>2, <1>3 DEF InsertUser, InsertService, WriteUpdate, WriteRule, AddMember, Ends,
     Done, Reads
<1>4. CASE AddressConflict(r)
  <2>1. [req[r] EXCEPT !.pc = "conflict"] \in Request
    <3>1. CASE At(r, "create_user")
      <4>1. req[r] \in UserInsert("create_user")
        BY <1>2, <3>1, PlacesTyped DEF At
      <4>2. [req[r] EXCEPT !.pc = "conflict"] \in UserInsert("conflict")
        BY <4>1 DEF UserInsert
      <4> QED BY <4>2 DEF Request, Answers
    <3>2. CASE At(r, "create_service")
      <4>1. req[r] \in ServiceInsert("create_service")
        BY <1>2, <3>2, PlacesTyped DEF At
      <4>2. [req[r] EXCEPT !.pc = "conflict"] \in ServiceInsert("conflict")
        BY <4>1 DEF ServiceInsert
      <4> QED BY <4>2 DEF Request, Answers
    <3> QED BY <1>4, <3>1, <3>2 DEF AddressConflict
  <2> QED BY <1>1, <1>4, <2>1 DEF AddressConflict, Reads
<1>5. CASE LookUp(r)
  <2> DEFINE q == req[r]
             type == SearchOrder(q.pc)[q.next]
             named == {row \in Rows(type) : row.name = q.name}
  <2>1. q \in Searches /\ q.pc \in LookUps
    BY <1>2, <1>5, SearchingTyped DEF LookUp
  <2>2. ASSUME NEW row \in named PROVE Found(q, Ref(type, row.id)) \in Request
    <3>1. CASE q.pc = "subject"
      <4>1. q \in SubjectSearch /\ type \in {"user", "user_group"}
        BY <2>1, <3>1, SearchStates, SearchOrders DEF SubjectSearch
      <4>2. Ref(type, row.id) \in Subjects
        BY <4>1, NamedRefs
      <4>3. CASE q.rest.object \in Names
        <5>1. Found(q, Ref(type, row.id)) =
                  Search("object", q.rest.object,
                         [subject |-> Ref(type, row.id), action |-> q.rest.action])
          BY <3>1, <4>3 DEF Found
        <5> HIDE DEF q
        <5> QED BY <4>1, <4>2, <4>3, <5>1 DEF Search, Request, Searches, ObjectSearch, SubjectSearch
      <4>4. CASE q.rest.object \notin Names
        <5>1. Found(q, Ref(type, row.id)) =
                  Rule(Ref(type, row.id), q.rest.object, q.rest.action)
          BY <3>1, <4>4 DEF Found
        <5> HIDE DEF q
        <5> QED BY <4>1, <4>2, <4>4, <5>1 DEF Rule, Request, Writes, RuleWrite, SubjectSearch
      <4> QED BY <4>3, <4>4
    <3>2. CASE q.pc = "object"
      <4>1. q \in ObjectSearch /\ type \in {"service", "service_group", "user", "user_group"}
        BY <2>1, <3>2, SearchStates, SearchOrders DEF ObjectSearch
      <4>2. Ref(type, row.id) \in Objects
        BY <4>1, NamedRefs
      <4>3. Found(q, Ref(type, row.id)) = Rule(q.rest.subject, Ref(type, row.id), q.rest.action)
        BY <3>2 DEF Found
      <4> HIDE DEF q
      <4> QED BY <4>1, <4>2, <4>3 DEF Rule, Request, Writes, RuleWrite, ObjectSearch
    <3>3. CASE q.pc \in {"user", "service"}
      <4>1. q \in MemberSearch /\ type \in {"user", "service"}
        BY <2>1, <3>3, SearchStates, SearchOrders DEF MemberSearch
      <4>2. Ref(type, row.id) \in Objects
        BY <4>1, NamedRefs
      <4>3. Found(q, Ref(type, row.id)) =
                [pc |-> "add_member", ref |-> Ref(type, row.id), group |-> q.rest.group]
        BY <3>3 DEF Found
      <4> HIDE DEF q
      <4> QED BY <4>1, <4>2, <4>3 DEF Request, Writes, MemberWrite, MemberSearch
    <3> QED BY <2>1, <3>1, <3>2, <3>3 DEF LookUps
  <2>3. ASSUME q.next < Len(SearchOrder(q.pc)) PROVE [q EXCEPT !.next = @ + 1] \in Request
    <3>1. [q EXCEPT !.next = @ + 1] \in Searches
      <4>1. CASE q.pc = "subject"
        <5>1. q \in SubjectSearch /\ q.next < 2
          BY <2>1, <2>3, <4>1, SearchStates
        <5>2. [q EXCEPT !.next = @ + 1] \in SubjectSearch
          BY <5>1 DEF SubjectSearch
        <5> QED BY <5>2 DEF Searches
      <4>2. CASE q.pc = "object"
        <5>1. q \in ObjectSearch /\ q.next < 4
          BY <2>1, <2>3, <4>2, SearchStates
        <5>2. [q EXCEPT !.next = @ + 1] \in ObjectSearch
          BY <5>1 DEF ObjectSearch
        <5> QED BY <5>2 DEF Searches
      <4>3. CASE q.pc \in {"user", "service"}
        <5>1. q \in MemberSearch /\ q.next < 1
          BY <2>1, <2>3, <4>3, SearchStates
        <5>2. q.next = 1
          BY <5>1 DEF MemberSearch
        <5> QED BY <5>1, <5>2
      <4> QED BY <2>1, <4>1, <4>2, <4>3 DEF LookUps
    <3> QED BY <3>1 DEF Request
  <2>4. [pc |-> "not_found", name |-> q.name, for |-> q.pc] \in Request
    BY <2>1, SearchStates DEF Request, Answers, NotFound
  <2>5. \E q2 \in Request : Goto(r, q2)
    BY <1>5, <2>2, <2>3, <2>4 DEF LookUp, Reads
  <2> QED BY <1>1, <2>5
<1>6. CASE CheckUpdate(r)
  <2>1. req[r].id \in Id /\ req[r].asked \in Updates /\ req[r].origin \in Origins
    BY <1>2, <1>6, PlacesTyped DEF CheckUpdate, At, ServiceRead
  <2>2. PICK origin \in SUBSET Origins :
            Goto(r, [pc |-> "update_service", id |-> req[r].id, asked |-> req[r].asked,
                     origin |-> origin])
    BY <1>6 DEF CheckUpdate, Reads, Valid
  <2>3. [pc |-> "update_service", id |-> req[r].id, asked |-> req[r].asked,
         origin |-> origin] \in Request
    BY <2>1 DEF Request, Writes, ServiceUpdate
  <2> QED BY <1>1, <2>2, <2>3
<1> QED BY <1>3, <1>4, <1>5, <1>6 DEF Continues

LEMMA StepReqTyped == TypeOK /\ ReqTyped /\ [Next]_adminVars => ReqTyped'
BY ArrivalsTyped, ContinuationsTyped DEF Next, adminVars, ReqTyped

-----------------------------------------------------------------------------
(* Every handler runs transactions of the store                             *)

\* A body keeps the fields of a row well formed.
LEMMA RewriteIsServiceStep ==
    ASSUME TypeOK, NEW s \in services, NEW u \in Updates, NEW o \in SUBSET Origins,
           Rewrite(s, u, o)
    PROVE  ServiceStep
<1>1. /\ u.name \subseteq Names /\ u.hostname \subseteq Hostnames /\ u.ip \subseteq Addrs
      /\ u.ports \subseteq PortSets
  BY Inputs
<1>2. s \in Service
  BY DEF TypeOK
<1>3. /\ Given(u.name, s.name) \in Names /\ Given(u.hostname, s.hostname) \in Hostnames
      /\ Given(o, s.origin) \in Origins /\ Given(u.ip, s.ip) \in Addrs
      /\ Given(u.ports, s.ports) \in PortSets
  BY <1>1, <1>2, GivenTyped DEF Service
<1> QED BY <1>3 DEF Rewrite, ServiceStep

\* What exists can be named.
LEMMA ExistingIsKnown ==
    ASSUME KeysUnique
    PROVE  /\ \A ref \in Subjects : Exists(ref) => ref \in KnownRefs(SubjectTypes)
           /\ \A ref \in Objects : Exists(ref) => ref \in KnownRefs(ObjectTypes)
<1>1. ASSUME NEW ref, Exists(ref) PROVE ref.id \in KnownIds(TableOf(ref.type))
  BY <1>1 DEF Exists, KeysUnique, Keyed, Ids, KnownIds, TableOf
<1>2. ASSUME NEW ref \in Subjects \cup Objects PROVE ref = Ref(ref.type, ref.id)
  BY DEF Subjects, Objects, Ref
<1>3. ASSUME NEW ref \in Subjects, Exists(ref) PROVE ref \in KnownRefs(SubjectTypes)
  BY <1>1, <1>2, <1>3 DEF KnownRefs, Subjects
<1>4. ASSUME NEW ref \in Objects, Exists(ref) PROVE ref \in KnownRefs(ObjectTypes)
  BY <1>1, <1>2, <1>4 DEF KnownRefs, Objects
<1> QED BY <1>3, <1>4

LEMMA ArrivalsStore ==
    ASSUME TypeOK, NEW r \in Requests, Arrives(r) PROVE [StoreNext]_storeVars
<1>1. CASE \/ AllocateUserIP(r) \/ AllocateServiceIP(r) \/ ReadService(r)
           \/ AskPolicy(r) \/ AskMember(r)
  BY <1>1 DEF AllocateUserIP, AllocateServiceIP, ReadService, AskPolicy, AskMember, Reads
<1>2. CASE CreateUserAt(r)
  BY <1>2, Inputs DEF CreateUserAt, StoreNext, UserStep
<1>3. CASE CreateServiceAt(r)
  <2>1. PICK name \in Names, hostname \in Hostname, o \in Origins, ip \in ServiceSubnet,
             ports \in PortSets : CreateService(name, HostnameOf(hostname, name), o, ip, ports)
    BY <1>3 DEF CreateServiceAt
  <2>2. HostnameOf(hostname, name) \in Hostnames /\ ip \in Addrs
    BY Inputs, GivenTyped DEF HostnameOf, Hostname
  <2> QED BY <2>1, <2>2 DEF StoreNext, ServiceStep
<1>4. CASE UpdateNames(r)
  BY <1>4, RewriteIsServiceStep DEF UpdateNames, StoreNext
<1>5. CASE Directly(r)
  BY <1>5 DEF Directly, Direct, UserHandlers, UserGroupHandlers, DeleteUserGroupAt,
     UserGroupMemberHandlers, CreateServiceGroupAt, ServiceGroupHandlers,
     ServiceGroupMemberHandlers, DeleteServiceAt, PolicyHandlers, StoreNext, UserStep,
     UserGroupStep, ServiceStep, ServiceGroupStep
<1> QED BY <1>1, <1>2, <1>3, <1>4, <1>5 DEF Arrives

LEMMA ContinuationsStore ==
    ASSUME TypeOK, KeysUnique, ReqTyped, NEW r \in Requests, Continues(r)
    PROVE  [StoreNext]_storeVars
<1>1. req[r] \in Request
  BY DEF ReqTyped
<1>2. CASE AddressConflict(r) \/ CheckUpdate(r) \/ LookUp(r) \/ Ends(r)
  BY <1>2 DEF AddressConflict, CheckUpdate, LookUp, Ends, Reads
<1>3. CASE InsertUser(r)
  <2>1. req[r].name \in Names /\ req[r].ip \in Addrs
    BY <1>1, <1>3, PlacesTyped, Inputs DEF InsertUser, At, UserInsert
  <2> QED BY <1>3, <2>1 DEF InsertUser, StoreNext, UserStep
<1>4. CASE InsertService(r)
  <2>1. req[r] \in ServiceInsert("create_service")
    BY <1>1, <1>4, PlacesTyped DEF InsertService, At
  <2>2. /\ req[r].name \in Names /\ req[r].hostname \in Hostnames /\ req[r].origin \in Origins
        /\ req[r].ip \in Addrs /\ req[r].ports \in PortSets
    BY <2>1, Inputs DEF ServiceInsert
  <2> QED BY <1>4, <2>2 DEF InsertService, StoreNext, ServiceStep
<1>5. CASE WriteUpdate(r)
  <2>1. req[r].asked \in Updates /\ req[r].origin \in SUBSET Origins
    BY <1>1, <1>5, PlacesTyped DEF WriteUpdate, At, ServiceUpdate
  <2> QED BY <1>5, <2>1, RewriteIsServiceStep DEF WriteUpdate, StoreNext
<1>6. CASE WriteRule(r)
  <2>1. /\ req[r].subject \in Subjects /\ req[r].object \in Objects
        /\ req[r].action \in Verdicts
    BY <1>1, <1>6, PlacesTyped DEF WriteRule, At, RuleWrite
  <2>2. Exists(req[r].subject) /\ Exists(req[r].object)
    BY <1>6 DEF WriteRule, CreatePolicy
  <2> QED BY <1>6, <2>1, <2>2, ExistingIsKnown DEF WriteRule, StoreNext, PolicyStep
<1>7. CASE AddMember(r)
  BY <1>7 DEF AddMember, StoreNext, UserGroupStep, ServiceGroupStep
<1> QED BY <1>2, <1>3, <1>4, <1>5, <1>6, <1>7 DEF Continues

LEMMA StepStores == TypeOK /\ KeysUnique /\ ReqTyped /\ [Next]_adminVars => [StoreNext]_storeVars
BY ArrivalsStore, ContinuationsStore DEF Next, adminVars

LEMMA AdminStores == AdminSpec => [](StoreInv /\ ReqTyped)
<1>1. Init => StoreInv /\ ReqTyped
  <2>1. Init => StoreInv
    BY DEF Init, StoreInit, StoreInv, TypeOK, KeysUnique, Keyed, NamesUnambiguous,
       AddressesUnique, UniqueAcross, Distinct, RulesReferToLiveRows,
       MembershipsReferToLiveRows, OneRulePerPair
  <2> QED BY <2>1 DEF Init, ReqTyped, Request
<1>2. StoreInv /\ ReqTyped /\ [Next]_adminVars => (StoreInv /\ ReqTyped)'
  BY StepStores, StepInvariant, StepReqTyped DEF StoreInv
<1> QED BY <1>1, <1>2, PTL DEF AdminSpec

\* The handlers implement the store's specification: whatever they read and
\* check, in whatever interleaving, they run its transactions and nothing else,
\* so that every theorem about StoreSpec holds of the daemon.
THEOREM AdminImplementsStore == AdminSpec => StoreSpec
<1>1. Init => StoreInit
  BY DEF Init
<1>2. StoreInv /\ ReqTyped /\ [Next]_adminVars => [StoreNext]_storeVars
  BY StepStores DEF StoreInv
<1> QED BY <1>1, <1>2, AdminStores, PTL DEF AdminSpec, StoreSpec

-----------------------------------------------------------------------------
(* What a request has read, and what happens to it meanwhile                *)

\* A request moves itself and no other.
LEMMA OneMoves ==
    ASSUME ReqTyped, NEW r \in Requests, Arrives(r) \/ Continues(r)
    PROVE  \A q \in Requests \ {r} : req'[q] = req[q]
BY DEF ReqTyped, Arrives, Continues, CreateUserAt, AllocateUserIP, CreateServiceAt,
   AllocateServiceIP, UpdateNames, ReadService, CheckUpdate, AskPolicy, AskMember, Directly,
   InsertUser, InsertService, AddressConflict, WriteUpdate, LookUp, WriteRule, AddMember,
   Ends, Done, Reads,
   Goto

\* A request that does not count as overtaken read what is still there.
LEMMA NotOvertaken ==
    ASSUME History, NEW q \in Requests \ stale', req'[q].pc # "idle"
    PROVE  q \notin stale /\ ~Overtaken(req[q])
BY DEF History

\* The only ways to the places where a request waits to write.
LEMMA LookUpLeadsTo ==
    ASSUME ReqTyped, NEW r \in Requests, LookUp(r)
    PROVE  req'[r].pc \in LookUps \cup {"create_policy", "add_member", "not_found"}
<1> DEFINE q == req[r]
<1>1. q \in Searches
  BY SearchingTyped DEF LookUp, ReqTyped
<1>2. ASSUME NEW ref
      PROVE  Found(q, ref).pc \in {"object", "create_policy", "add_member"}
  <2>1. CASE q.pc = "subject" /\ q.rest.object \in Names
    BY <2>1 DEF Found, Search
  <2>2. CASE q.pc = "subject" /\ q.rest.object \notin Names
    BY <2>2 DEF Found, Rule
  <2>3. CASE q.pc = "object"
    BY <2>3 DEF Found, Rule
  <2>4. CASE q.pc \in {"user", "service"}
    BY <2>4 DEF Found
  <2> QED BY <1>1, <2>1, <2>2, <2>3, <2>4, SearchStates DEF LookUps
<1>3. [q EXCEPT !.next = @ + 1].pc = q.pc
  BY <1>1 DEF Searches, SubjectSearch, ObjectSearch, MemberSearch
<1>4. PICK q2 : /\ req' = [req EXCEPT ![r] = q2]
                /\ \/ \E ref : q2 = Found(q, ref)
                   \/ q2 = [q EXCEPT !.next = @ + 1]
                   \/ q2 = [pc |-> "not_found", name |-> q.name, for |-> q.pc]
  BY DEF LookUp, Reads, Goto
<1>5. q2.pc \in LookUps \cup {"create_policy", "add_member", "not_found"}
  <2>1. q.pc \in LookUps
    BY <1>1, SearchStates
  <2> HIDE DEF q
  <2>2. CASE \E ref : q2 = Found(q, ref)
    BY <1>2, <2>2 DEF LookUps
  <2>3. CASE q2 = [q EXCEPT !.next = @ + 1]
    BY <1>3, <2>1, <2>3
  <2>4. CASE q2 = [pc |-> "not_found", name |-> q.name, for |-> q.pc]
    BY <2>4
  <2> QED BY <1>4, <2>2, <2>3, <2>4
<1> QED BY <1>4, <1>5 DEF ReqTyped

LEMMA WaysToWrite ==
    ASSUME ReqTyped, NEW r \in Requests, Arrives(r) \/ Continues(r)
    PROVE  /\ req'[r].pc = "create_user" => AllocateUserIP(r)
           /\ req'[r].pc = "create_service" => AllocateServiceIP(r)
           /\ req'[r].pc = "read_ports" => ReadService(r)
           /\ req'[r].pc = "update_service" => CheckUpdate(r)
           /\ req'[r].pc = "conflict" => AddressConflict(r)
<1>1. CASE LookUp(r)
  BY <1>1, LookUpLeadsTo DEF LookUps
<1>2. CASE \/ CreateUserAt(r) \/ CreateServiceAt(r) \/ UpdateNames(r) \/ Directly(r)
           \/ InsertUser(r) \/ InsertService(r) \/ WriteUpdate(r) \/ WriteRule(r)
           \/ AddMember(r) \/ Ends(r)
  <2>1. req'[r].pc = "idle"
    BY <1>2 DEF CreateUserAt, CreateServiceAt, UpdateNames, Directly, InsertUser, InsertService,
       WriteUpdate, WriteRule, AddMember, Ends, Done, Reads, Goto, Idle, At, ReqTyped
  <2> QED BY <2>1
<1>3. CASE AskPolicy(r) \/ AskMember(r)
  <2>1. req'[r].pc \in LookUps
    BY <1>3 DEF AskPolicy, AskMember, Reads, Goto, Search, LookUps, ReqTyped
  <2> QED BY <2>1 DEF LookUps
<1>4. CASE AllocateUserIP(r)
  <2>1. req'[r].pc = "create_user"
    BY <1>4 DEF AllocateUserIP, Reads, Goto, ReqTyped
  <2> QED BY <1>4, <2>1
<1>5. CASE AllocateServiceIP(r)
  <2>1. req'[r].pc = "create_service"
    BY <1>5 DEF AllocateServiceIP, Reads, Goto, ReqTyped
  <2> QED BY <1>5, <2>1
<1>6. CASE CheckUpdate(r)
  <2>1. req'[r].pc = "update_service"
    BY <1>6 DEF CheckUpdate, Reads, Goto, ReqTyped
  <2> QED BY <1>6, <2>1
<1>7. CASE AddressConflict(r)
  <2>1. req[r] \in UserInsert("create_user") \cup ServiceInsert("create_service")
    BY <1>7, PlacesTyped DEF AddressConflict, At, ReqTyped
  <2>2. [req[r] EXCEPT !.pc = "conflict"].pc = "conflict"
    BY <2>1 DEF UserInsert, ServiceInsert
  <2>3. req'[r].pc = "conflict"
    BY <1>7, <2>2 DEF AddressConflict, Reads, Goto, ReqTyped
  <2> QED BY <1>7, <2>3
<1>8. CASE ReadService(r)
  <2>1. req'[r].pc = "read_ports"
    BY <1>8 DEF ReadService, Reads, Goto, ReqTyped
  <2> QED BY <1>8, <2>1
<1> QED BY <1>1, <1>2, <1>3, <1>4, <1>5, <1>6, <1>7, <1>8 DEF Arrives, Continues

-----------------------------------------------------------------------------
(* Updates of services                                                      *)

\* What updateService read, computed and checked is right for the row it is going
\* to update, unless a commit has changed that row since.
Checked(s, u, o) ==
    /\ o = IF AsksOrigin(u) THEN {Merged(s.origin, u)} ELSE {}
    /\ Acceptable(s.ports, Given(o, s.origin), u)
UpToDate(s, q) ==
    /\ q.pc = "read_ports" => q.origin = s.origin
    /\ q.pc = "update_service" => Checked(s, q.asked, q.origin)
UpdatesChecked ==
    \A r \in Requests \ stale : req[r].pc \in {"read_ports", "update_service"} =>
        \A s \in services : s.id = req[r].id => UpToDate(s, req[r])

\* Where the row is the one that was read, so are the ports.
LEMMA CheckUpdateChecks ==
    ASSUME KeysUnique, ReqTyped, NEW r \in Requests, CheckUpdate(r), NEW s \in services,
           s.id = req[r].id, req[r].origin = s.origin
    PROVE  req'[r].id = s.id /\ UpToDate(s, req'[r])
<1> DEFINE u == req[r].asked
           asked == IF AsksOrigin(u) THEN Merged(s.origin, u) ELSE s.origin
           kept == IF AsksOrigin(u) THEN {asked} ELSE {}
<1>1. PortsOf(s.id) = s.ports
  <2>1. Row(s.id, services) = {s}
    BY DEF Row, KeysUnique, Keyed
  <2> QED BY <2>1 DEF PortsOf
<1>2. /\ Acceptable(s.ports, asked, u)
      /\ Goto(r, [pc |-> "update_service", id |-> s.id, asked |-> u, origin |-> kept])
  BY <1>1 DEF CheckUpdate, Reads
<1>3. /\ req'[r].pc = "update_service" /\ req'[r].id = s.id /\ req'[r].asked = u
      /\ req'[r].origin = kept
  BY <1>2 DEF Goto, ReqTyped
<1>4. Given(kept, s.origin) = asked
  BY DEF Given
<1> QED BY <1>2, <1>3, <1>4 DEF UpToDate, Checked

LEMMA ReadServiceReads ==
    ASSUME KeysUnique, ReqTyped, NEW r \in Requests, ReadService(r), NEW s \in services,
           s.id = req'[r].id
    PROVE  UpToDate(s, req'[r])
<1>1. PICK u \in Updates, t \in services :
          Goto(r, [pc |-> "read_ports", id |-> t.id, asked |-> u, origin |-> t.origin])
  BY DEF ReadService, Reads
<1>2. req'[r].pc = "read_ports" /\ req'[r].id = t.id /\ req'[r].origin = t.origin
  BY <1>1 DEF Goto, ReqTyped
<1>3. t = s
  BY <1>2 DEF KeysUnique, Keyed
<1> QED BY <1>2, <1>3 DEF UpToDate

LEMMA StepUpdatesChecked ==
    KeysUnique /\ ReqTyped /\ UpdatesChecked /\ [Next]_adminVars => UpdatesChecked'
<1> SUFFICES ASSUME KeysUnique, ReqTyped, UpdatesChecked, Next PROVE UpdatesChecked'
  BY DEF adminVars, storeVars, entityVars, UpdatesChecked, UpToDate
<1>1. PICK r \in Requests : Arrives(r) \/ Continues(r)
  BY DEF Next
<1>2. ASSUME NEW q \in Requests \ stale', req'[q].pc # "idle"
      PROVE  q \notin stale /\ ~Overtaken(req[q])
  BY <1>2, NotOvertaken DEF Next
<1>3. ASSUME NEW q \in Requests \ stale', req'[q].pc \in {"read_ports", "update_service"},
             NEW s \in services', s.id = req'[q].id
      PROVE  UpToDate(s, req'[q])
  <2>1. CASE ReadService(q)
    <3>1. services' = services
      BY <2>1 DEF ReadService, Reads, storeVars, entityVars
    <3> QED BY <1>3, <2>1, <3>1, ReadServiceReads
  <2>2. CASE CheckUpdate(q)
    <3>1. services' = services /\ req[q].pc = "read_ports"
      BY <2>2 DEF CheckUpdate, Reads, storeVars, entityVars, At
    <3>2. req'[q].id = req[q].id
      BY <2>2 DEF CheckUpdate, Reads, Goto, ReqTyped
    <3>3. req[q].origin = s.origin
      BY <1>2, <1>3, <3>1, <3>2 DEF UpdatesChecked, UpToDate
    <3> QED BY <1>3, <2>2, <3>1, <3>2, <3>3, CheckUpdateChecks
  <2>3. CASE q # r
    <3>1. req'[q] = req[q]
      BY <1>1, <2>3, OneMoves
    <3>2. Row(req[q].id, services) = Row(req[q].id, services')
      BY <1>2, <1>3, <3>1 DEF Overtaken
    <3>3. s \in services
      BY <1>3, <3>1, <3>2 DEF Row
    <3> QED BY <1>2, <1>3, <3>1, <3>3 DEF UpdatesChecked
  <2> QED BY <1>1, <1>3, <2>1, <2>2, <2>3, WaysToWrite
<1> QED BY <1>3 DEF UpdatesChecked, UpToDate, Checked

\* The rows a rewriting leaves: the others, and one that has what it was given.
LEMMA RewrittenRow ==
    ASSUME TypeOK, NEW s \in services, NEW u, NEW o, Rewrite(s, u, o)
    PROVE  \E s2 : /\ services' = Swap(services, s, s2)
                   /\ s2.id = s.id
                   /\ s2.name = Given(u.name, s.name)
                   /\ s2.hostname = Given(u.hostname, s.hostname)
                   /\ s2.origin = Given(o, s.origin)
                   /\ s2.ip = Given(u.ip, s.ip)
                   /\ s2.ports = Given(u.ports, s.ports)
<1> DEFINE s2 == [s EXCEPT !.name = Given(u.name, s.name),
                           !.hostname = Given(u.hostname, s.hostname),
                           !.origin = Given(o, s.origin), !.ip = Given(u.ip, s.ip),
                           !.ports = Given(u.ports, s.ports)]
<1>1. services' = Swap(services, s, s2)
  BY DEF Rewrite, UpdateService
<1>2. s \in Service
  BY DEF TypeOK
<1>3. /\ s2.id = s.id /\ s2.name = Given(u.name, s.name)
      /\ s2.hostname = Given(u.hostname, s.hostname) /\ s2.origin = Given(o, s.origin)
      /\ s2.ip = Given(u.ip, s.ip) /\ s2.ports = Given(u.ports, s.ports)
  BY <1>2 DEF Service
<1> HIDE DEF s2
<1> QED BY <1>1, <1>3

LEMMA NotGiven == ASSUME NEW default PROVE Given({}, default) = default
BY DEF Given

\* A host service that createService is about to insert declares its ports.
InsertsChecked ==
    \A r \in Requests : At(r, "create_service") => ~WildcardHost(req[r].origin, req[r].ports)

LEMMA StepInsertsChecked ==
    ReqTyped /\ InsertsChecked /\ [Next]_adminVars => InsertsChecked'
<1> SUFFICES ASSUME ReqTyped, InsertsChecked, Next PROVE InsertsChecked'
  BY DEF adminVars, InsertsChecked, At
<1>1. PICK r \in Requests : Arrives(r) \/ Continues(r)
  BY DEF Next
<1>2. ASSUME req'[r].pc = "create_service" PROVE ~WildcardHost(req'[r].origin, req'[r].ports)
  <2>1. PICK name \in Names, hostname \in Hostname, o \in Origins, ip \in ServiceAddr,
             ports \in PortSets :
            /\ ~WildcardHost(o, ports)
            /\ Reads(r, [pc |-> "create_service", name |-> name, origin |-> o, ip |-> ip,
                         hostname |-> HostnameOf(hostname, name), ports |-> ports])
    BY <1>1, <1>2, WaysToWrite DEF AllocateServiceIP
  <2>2. req'[r].origin = o /\ req'[r].ports = ports
    BY <2>1 DEF Reads, Goto, ReqTyped
  <2> QED BY <2>1, <2>2
<1>3. ASSUME NEW q \in Requests, req'[q].pc = "create_service"
      PROVE  ~WildcardHost(req'[q].origin, req'[q].ports)
  BY <1>1, <1>2, <1>3, OneMoves DEF InsertsChecked, At
<1> QED BY <1>3 DEF InsertsChecked, At

\* A row that a rewriting leaves is an old one, or acceptable if what was checked
\* for it was.
LEMMA RewriteKeepsHosts ==
    ASSUME TypeOK, NEW s \in services, NEW u, NEW o, Rewrite(s, u, o),
           Acceptable(s.ports, Given(o, s.origin), u), NEW t \in services' \ services
    PROVE  ~WildcardHost(t.origin, t.ports)
<1>1. t.origin = Given(o, s.origin) /\ t.ports = Given(u.ports, s.ports)
  BY RewrittenRow DEF Swap
<1> QED BY <1>1 DEF Acceptable

LEMMA StepHosts ==
    ASSUME TypeOK, KeysUnique, ReqTyped, InsertsChecked, UpdatesChecked,
           HostServicesDeclarePorts, NEW r \in Requests, Arrives(r) \/ Continues(r)
    PROVE  HostServicesDeclarePorts'
<1>1. raced \subseteq raced'
  BY DEF Arrives, Continues, CreateUserAt, AllocateUserIP, CreateServiceAt, AllocateServiceIP,
     UpdateNames, ReadService, CheckUpdate, AskPolicy, AskMember, Directly, InsertUser,
     InsertService,
     AddressConflict, WriteUpdate, LookUp, WriteRule, AddMember, Ends, Reads
<1>2. ASSUME \A t \in services' \ services : ~WildcardHost(t.origin, t.ports) \/ t.id \in raced'
      PROVE  HostServicesDeclarePorts'
  BY <1>1, <1>2 DEF HostServicesDeclarePorts, WildcardHost
<1>3. CASE CreateServiceAt(r)
  <2>1. \A t \in services' \ services : ~WildcardHost(t.origin, t.ports)
    BY <1>3 DEF CreateServiceAt, CreateService
  <2> QED BY <1>2, <2>1
<1>4. CASE InsertService(r)
  <2>1. \A t \in services' \ services : t.origin = req[r].origin /\ t.ports = req[r].ports
    BY <1>4 DEF InsertService, CreateService
  <2>2. ~WildcardHost(req[r].origin, req[r].ports)
    BY <1>4 DEF InsertService, InsertsChecked
  <2> QED BY <1>2, <2>1, <2>2
<1>5. CASE UpdateNames(r)
  <2>1. PICK u \in Updates, s \in services : u.ports = {} /\ Rewrite(s, u, {})
    BY <1>5 DEF UpdateNames
  <2>2. ASSUME NEW t \in services' \ services PROVE ~WildcardHost(t.origin, t.ports) \/ t.id \in raced'
    <3>1. t.id = s.id /\ t.origin = s.origin /\ t.ports = s.ports
      BY <2>1, <2>2, RewrittenRow, NotGiven DEF Swap
    <3> QED BY <1>1, <3>1 DEF HostServicesDeclarePorts, WildcardHost
  <2> QED BY <1>2, <2>2
<1>6. CASE WriteUpdate(r)
  <2>1. PICK s \in services : s.id = req[r].id /\ Rewrite(s, req[r].asked, req[r].origin)
    BY <1>6 DEF WriteUpdate
  <2>2. CASE r \in stale
    <3>1. \A t \in services' \ services : t.id = s.id
      BY <2>1, RewrittenRow DEF Swap
    <3>2. s.id \in raced'
      BY <1>6, <2>1, <2>2 DEF WriteUpdate
    <3> QED BY <1>2, <3>1, <3>2
  <2>3. CASE r \notin stale
    <3>1. Acceptable(s.ports, Given(req[r].origin, s.origin), req[r].asked)
      BY <1>6, <2>1, <2>3 DEF WriteUpdate, At, UpdatesChecked, UpToDate, Checked
    <3> QED BY <1>2, <2>1, <3>1, RewriteKeepsHosts
  <2> QED BY <2>2, <2>3
<1>7. CASE ~(CreateServiceAt(r) \/ InsertService(r) \/ UpdateNames(r) \/ WriteUpdate(r))
  <2>1. services' \subseteq services
    <3>1. CASE Directly(r)
      BY <3>1 DEF Directly, Direct, UserHandlers, UserGroupHandlers, DeleteUserGroupAt,
         UserGroupMemberHandlers, CreateServiceGroupAt, ServiceGroupHandlers,
         ServiceGroupMemberHandlers, DeleteServiceAt, PolicyHandlers, PolicyStep, UpdateUser,
         DeleteUser, CreateUserGroup, UpdateUserGroup, DeleteUserGroup, AddUserToGroup,
         RemoveUserFromGroup, CreateServiceGroup, UpdateServiceGroup, DeleteServiceGroup,
         AddServiceToGroup, RemoveServiceFromGroup, DeleteService, CreatePolicy, DeletePolicy,
         entityVars
    <3>2. CASE ~Directly(r)
      BY <1>7, <3>2 DEF Arrives, Continues, CreateUserAt, CreateUser, AllocateUserIP,
         AllocateServiceIP, ReadService, CheckUpdate, AskPolicy, AskMember, InsertUser,
         AddressConflict, LookUp, WriteRule, CreatePolicy, AddMember, AddUserToGroup,
         AddServiceToGroup, Ends,
         Reads, storeVars, entityVars
    <3> QED BY <3>1, <3>2
  <2> QED BY <1>2, <2>1
<1> QED BY <1>3, <1>4, <1>5, <1>6, <1>7

UpdatesInv == StoreInv /\ ReqTyped /\ InsertsChecked /\ UpdatesChecked
LEMMA UpdatesInvariant == AdminSpec => []UpdatesInv
<1>1. Init => InsertsChecked /\ UpdatesChecked
  BY DEF Init, InsertsChecked, UpdatesChecked, At, Idle
<1>2. UpdatesInv /\ [Next]_adminVars => (InsertsChecked /\ UpdatesChecked)'
  BY StepInsertsChecked, StepUpdatesChecked DEF UpdatesInv, StoreInv
<1> QED BY <1>1, <1>2, AdminStores, PTL DEF AdminSpec, UpdatesInv

\* A host service declares its ports, for any inputs and any interleaving of
\* requests, unless an update wrote over a commit it had not seen.
THEOREM AdminHostServicesDeclarePorts == AdminSpec => []HostServicesDeclarePorts
<1>1. Init => HostServicesDeclarePorts
  BY DEF Init, StoreInit, HostServicesDeclarePorts
<1>2. UpdatesInv /\ HostServicesDeclarePorts /\ [Next]_adminVars => HostServicesDeclarePorts'
  <2>1. UNCHANGED adminVars /\ HostServicesDeclarePorts => HostServicesDeclarePorts'
    BY DEF adminVars, storeVars, entityVars, HostServicesDeclarePorts
  <2> QED BY <2>1, StepHosts DEF UpdatesInv, StoreInv, Next
<1> QED BY <1>1, <1>2, UpdatesInvariant, PTL DEF AdminSpec

\* With no kind, or the stored one as it is stored, the origin is not started anew.
LEMMA MergedKeeps ==
    ASSUME NEW o \in Origins, NEW u \in Updates, u.kind \in {{}, {o.kind}}
    PROVE  /\ Merged(o, u).kind = o.kind
           /\ u.value = {} => Merged(o, u).value = o.value
           /\ u.network = {} => Merged(o, u).network = o.network
<1> DEFINE new == [o EXCEPT !.value = Given(u.value, @), !.network = Given(u.network, @)]
<1>1. o = Spec(o.kind, o.value, o.network) /\ Lower[o.kind] = o.kind
  BY Inputs
<1>2. /\ new = Spec(new.kind, new.value, new.network)
      /\ new.kind = o.kind
      /\ new.value = Given(u.value, o.value)
      /\ new.network = Given(u.network, o.network)
  <2>1. new = [o EXCEPT !.value = Given(u.value, @), !.network = Given(u.network, @)]
    OBVIOUS
  <2> HIDE DEF new
  <2> QED BY <1>1, <2>1 DEF Spec
<1>3. Merged(o, u) = [new EXCEPT !.kind = Lower[@]]
  BY DEF Merged, Normalised
<1> HIDE DEF new
<1>4. /\ Merged(o, u).kind = Lower[new.kind]
      /\ Merged(o, u).value = new.value
      /\ Merged(o, u).network = new.network
  BY <1>2, <1>3 DEF Spec
<1> QED BY <1>1, <1>2, <1>4 DEF Given

\* A rewriting with an origin that was merged into the row it rewrites keeps what
\* it is not given.
LEMMA RewriteKeepsRest ==
    ASSUME StoreInv, NEW s \in services, NEW u \in Updates, NEW o, Checked(s, u, o),
           Rewrite(s, u, o), NEW s2 \in services', s2.id = s.id
    PROVE  Keeps(s, s2, u)
<1>1. PICK new :
          /\ services' = Swap(services, s, new)
          /\ new.id = s.id
          /\ new.name = Given(u.name, s.name)
          /\ new.hostname = Given(u.hostname, s.hostname)
          /\ new.origin = Given(o, s.origin)
          /\ new.ip = Given(u.ip, s.ip)
          /\ new.ports = Given(u.ports, s.ports)
  BY RewrittenRow DEF StoreInv
<1>2. s2 = new
  BY <1>1 DEF Swap, StoreInv, KeysUnique, Keyed
<1>3. s.origin \in Origins
  BY DEF StoreInv, TypeOK, Service
<1>4. \A f \in {"name", "hostname", "ip", "ports"} : u[f] = {} => s2[f] = s[f]
  BY <1>1, <1>2 DEF Given
<1>5. CASE AsksOrigin(u)
  <2>1. s2.origin = Merged(s.origin, u)
    BY <1>1, <1>2, <1>5 DEF Checked, Given
  <2> QED BY <1>3, <1>4, <2>1, MergedKeeps DEF Keeps
<1>6. CASE ~AsksOrigin(u)
  <2>1. s2.origin = s.origin
    BY <1>1, <1>2, <1>6 DEF Checked, Given
  <2> QED BY <1>4, <2>1 DEF Keeps
<1> QED BY <1>5, <1>6

\* A partial update leaves alone what it is not given, whatever was read and
\* written by other requests before and between its two transactions, so long as
\* its own row is the one it looked up.
THEOREM AdminUpdateLeavesRestAlone == AdminSpec => UpdateLeavesRestAlone
<1> DEFINE Rest == \A r \in Requests, s \in services, s2 \in services' :
        At(r, "update_service") /\ req'[r].pc = "idle" /\ r \notin stale /\ s.id = s2.id
            => Keeps(s, s2, req[r].asked)
<1>1. UpdatesInv /\ [Next]_adminVars => [Rest]_adminVars
  <2> SUFFICES ASSUME UpdatesInv, Next, NEW r \in Requests, NEW s \in services,
                      NEW s2 \in services', At(r, "update_service"), req'[r].pc = "idle",
                      r \notin stale, s.id = s2.id
               PROVE  Keeps(s, s2, req[r].asked)
    OBVIOUS
  <2>1. Arrives(r) \/ Continues(r)
    BY OneMoves DEF UpdatesInv, Next, At
  <2>2. WriteUpdate(r) \/ Ends(r)
    BY <2>1, LookUpLeadsTo DEF UpdatesInv, Arrives, Continues, At, CreateUserAt, AllocateUserIP,
       CreateServiceAt, AllocateServiceIP, UpdateNames, ReadService, CheckUpdate, AskPolicy,
       AskMember, Directly, InsertUser, InsertService, AddressConflict, LookUp, LookUps,
       WriteRule, AddMember
  <2>3. CASE WriteUpdate(r)
    <3>1. PICK t \in services : t.id = req[r].id /\ Rewrite(t, req[r].asked, req[r].origin)
      BY <2>3 DEF WriteUpdate
    <3>2. req[r].asked \in Updates
      BY PlacesTyped DEF UpdatesInv, ReqTyped, At, ServiceUpdate
    <3>3. CASE s = t
      <4>1. Checked(s, req[r].asked, req[r].origin)
        BY <3>1, <3>3 DEF UpdatesInv, UpdatesChecked, UpToDate, At
      <4> QED BY <3>1, <3>2, <3>3, <4>1, RewriteKeepsRest DEF UpdatesInv
    <3>4. CASE s # t
      <4>1. s2 = s
        BY <3>1, <3>4, RewrittenRow DEF UpdatesInv, StoreInv, Swap, KeysUnique, Keyed
      <4> QED BY <4>1 DEF Keeps
    <3> QED BY <3>3, <3>4
  <2>4. CASE Ends(r)
    <3>1. s2 = s
      BY <2>4 DEF Ends, Reads, storeVars, entityVars, UpdatesInv, StoreInv, KeysUnique, Keyed
    <3> QED BY <3>1 DEF Keeps
  <2> QED BY <2>2, <2>3, <2>4
<1> QED BY <1>1, UpdatesInvariant, PTL DEF AdminSpec, UpdateLeavesRestAlone

-----------------------------------------------------------------------------
(* Names that are looked up table by table                                  *)

NamesOf(rows) == {row.name : row \in rows}

\* A name leaves a group table only to be free: in the transaction that renames or
\* deletes the group nobody takes the name, and no other row had it before.
LEMMA ReleasedNamesAreFree ==
    ASSUME StoreInv, [StoreNext]_storeVars, NEW name \in Names
    PROVE  /\ name \in NamesOf(userGroups) /\ name \notin NamesOf(userGroups') =>
                  "principal" \in FreeIn'[name]
           /\ name \in NamesOf(serviceGroups) /\ name \notin NamesOf(serviceGroups') =>
                  "object" \in FreeIn'[name]
<1>1. userGroups' = userGroups \/ users' = users
  BY DEF StoreNext, storeVars, entityVars, UserStep, CreateUser, UpdateUser, DeleteUser,
     UserGroupStep, CreateUserGroup, UpdateUserGroup, DeleteUserGroup, AddUserToGroup,
     RemoveUserFromGroup, ServiceStep, CreateService, UpdateService, DeleteService,
     ServiceGroupStep, CreateServiceGroup, UpdateServiceGroup, DeleteServiceGroup,
     AddServiceToGroup, RemoveServiceFromGroup, PolicyStep, CreatePolicy, DeletePolicy
<1>2. serviceGroups' = serviceGroups \/ services' = services
  BY DEF StoreNext, storeVars, entityVars, UserStep, CreateUser, UpdateUser, DeleteUser,
     UserGroupStep, CreateUserGroup, UpdateUserGroup, DeleteUserGroup, AddUserToGroup,
     RemoveUserFromGroup, ServiceStep, CreateService, UpdateService, DeleteService,
     ServiceGroupStep, CreateServiceGroup, UpdateServiceGroup, DeleteServiceGroup,
     AddServiceToGroup, RemoveServiceFromGroup, PolicyStep, CreatePolicy, DeletePolicy
<1>3. /\ name \in NamesOf(userGroups) => name \notin NamesOf(users)
      /\ name \in NamesOf(serviceGroups) => name \notin NamesOf(services)
  BY DEF StoreInv, NamesUnambiguous, UniqueAcross, NamesOf
<1>4. /\ name \notin NamesOf(users') \cup NamesOf(userGroups') => "principal" \in FreeIn'[name]
      /\ name \notin NamesOf(services') \cup NamesOf(serviceGroups') => "object" \in FreeIn'[name]
  BY DEF FreeIn, NamesOf
<1> QED BY <1>1, <1>2, <1>3, <1>4

\* A search that has passed a table did not miss the name there: it was free in
\* the namespace since the search began, or the table to come still has it.
Missing(q, namespace, groups, seen) == namespace \in seen \/ q.name \in NamesOf(groups)
Sound(q, seen) ==
    /\ q.pc = "subject" /\ q.next = 2 => Missing(q, "principal", userGroups, seen)
    /\ q.pc = "object" /\ q.next = 2 => Missing(q, "object", serviceGroups, seen)
    /\ q.pc = "object" /\ q.next \in {3, 4} => "object" \in seen
    /\ q.pc = "object" /\ q.next = 4 => Missing(q, "principal", userGroups, seen)
    /\ q.pc = "not_found" /\ q.for = "subject" => "principal" \in seen
    /\ q.pc = "not_found" /\ q.for = "object" => {"principal", "object"} \subseteq seen
SearchesSound ==
    /\ unbound \in [Requests -> SUBSET {"principal", "object"}]
    /\ \A r \in Requests : Sound(req[r], unbound[r])

\* The history variable: what is free now is noted, and what was noted in the
\* same search is kept.
LEMMA FreeIsNoted ==
    ASSUME History, NEW r \in Requests
    PROVE  /\ req'[r].pc \in LookUps => FreeIn'[req'[r].name] \subseteq unbound'[r]
           /\ SameSearch(req[r], req'[r]) => unbound[r] \subseteq unbound'[r]
           /\ req'[r].pc = "not_found" /\ req'[r] = req[r] => unbound'[r] = unbound[r]
<1>1. unbound'[r] =
          IF req'[r].pc = "not_found" /\ req'[r] = req[r] THEN unbound[r]
          ELSE IF req'[r].pc \in LookUps \cup {"not_found"}
          THEN FreeIn'[req'[r].name] \cup
                   (IF SameSearch(req[r], req'[r]) THEN unbound[r] ELSE {})
          ELSE {}
  BY DEF History
<1>2. "not_found" \notin LookUps
  BY DEF LookUps
<1> QED BY <1>1, <1>2 DEF SameSearch

LEMMA UnboundTyped ==
    ASSUME ReqTyped', History, unbound \in [Requests -> SUBSET {"principal", "object"}]
    PROVE  unbound' \in [Requests -> SUBSET {"principal", "object"}]
<1>1. ASSUME NEW r \in Requests, req'[r].pc \in LookUps \cup {"not_found"}
      PROVE  FreeIn'[req'[r].name] \subseteq {"principal", "object"}
  <2>1. req'[r].name \in Names
    <3>1. req'[r] \in Request
      BY DEF ReqTyped
    <3> QED BY <1>1, <3>1, SearchingTyped, SearchStates, PlacesTyped DEF NotFound
  <2> QED BY <2>1 DEF FreeIn
<1> QED BY <1>1 DEF History

\* The places of a search that say something were reached by a look-up.
LEMMA WaysToSearch ==
    ASSUME ReqTyped, NEW r \in Requests, Arrives(r) \/ Continues(r),
           \/ req'[r].pc = "not_found"
           \/ req'[r].pc \in {"subject", "object"} /\ req'[r].next # 1
    PROVE  LookUp(r)
<1>1. CASE \/ CreateUserAt(r) \/ CreateServiceAt(r) \/ UpdateNames(r) \/ Directly(r)
           \/ InsertUser(r) \/ InsertService(r) \/ WriteUpdate(r) \/ WriteRule(r)
           \/ AddMember(r) \/ Ends(r)
  <2>1. req'[r].pc = "idle"
    BY <1>1 DEF CreateUserAt, CreateServiceAt, UpdateNames, Directly, InsertUser, InsertService,
       WriteUpdate, WriteRule, AddMember, Ends, Done, Reads, Goto, Idle, At, ReqTyped
  <2> QED BY <2>1
<1>2. CASE AskPolicy(r) \/ AskMember(r)
  <2>1. req'[r].pc \in LookUps /\ req'[r].next = 1
    BY <1>2 DEF AskPolicy, AskMember, Reads, Goto, Search, LookUps, ReqTyped
  <2> QED BY <2>1 DEF LookUps
<1>3. CASE AllocateUserIP(r) \/ AllocateServiceIP(r) \/ ReadService(r) \/ CheckUpdate(r)
  <2>1. req'[r].pc \in {"create_user", "create_service", "read_ports", "update_service"}
    BY <1>3 DEF AllocateUserIP, AllocateServiceIP, ReadService, CheckUpdate, Reads, Goto, ReqTyped
  <2> QED BY <2>1
<1>4. CASE AddressConflict(r)
  <2>1. req[r] \in UserInsert("create_user") \cup ServiceInsert("create_service")
    BY <1>4, PlacesTyped DEF AddressConflict, At, ReqTyped
  <2>2. [req[r] EXCEPT !.pc = "conflict"].pc = "conflict"
    BY <2>1 DEF UserInsert, ServiceInsert
  <2>3. req'[r].pc = "conflict"
    BY <1>4, <2>2 DEF AddressConflict, Reads, Goto, ReqTyped
  <2> QED BY <2>3
<1> QED BY <1>1, <1>2, <1>3, <1>4 DEF Arrives, Continues

\* Looking in one more table, in the table that is there now.
LEMMA LookUpIsSound ==
    ASSUME ReqTyped, History, NEW r \in Requests, LookUp(r), Sound(req[r], unbound[r])
    PROVE  Sound(req[r], unbound[r])'
<1> DEFINE q == req[r]
           type == SearchOrder(q.pc)[q.next]
           named == {row \in Rows(type) : row.name = q.name}
<1>1. q \in Searches /\ q.pc \in LookUps /\ q.name \in Names
  BY SearchingTyped, SearchStates DEF LookUp, ReqTyped
<1>2. /\ q.pc = "subject" => q.next \in 1..2 /\ Len(SearchOrder(q.pc)) = 2
      /\ q.pc = "object" => q.next \in 1..4 /\ Len(SearchOrder(q.pc)) = 4
  <2> HIDE DEF q
  <2> QED BY <1>1, SearchStates DEF SubjectSearch, ObjectSearch
<1>3. UNCHANGED <<users, userGroups, services, serviceGroups>>
  BY DEF LookUp, Reads, storeVars, entityVars
<1>4. /\ q.name \notin NamesOf(users) \cup NamesOf(userGroups) => "principal" \in FreeIn'[q.name]
      /\ q.name \notin NamesOf(services) \cup NamesOf(serviceGroups) => "object" \in FreeIn'[q.name]
  BY <1>1, <1>3 DEF FreeIn, NamesOf
<1>5. ASSUME named = {} PROVE q.name \notin NamesOf(Rows(type))
  BY <1>5 DEF NamesOf
<1>6. /\ NamesOf(Rows("user")) = NamesOf(users)
      /\ NamesOf(Rows("user_group")) = NamesOf(userGroups)
      /\ NamesOf(Rows("service")) = NamesOf(services)
      /\ NamesOf(Rows("service_group")) = NamesOf(serviceGroups)
  BY DEF Rows
<1>7. /\ req'[r].pc \in LookUps => FreeIn'[req'[r].name] \subseteq unbound'[r]
      /\ SameSearch(req[r], req'[r]) => unbound[r] \subseteq unbound'[r]
  BY FreeIsNoted
<1>8. ASSUME NEW ref, req'[r] = Found(q, ref) PROVE Sound(req[r], unbound[r])'
  <2>1. /\ req'[r].pc \in {"object", "create_policy", "add_member"}
        /\ req'[r].pc = "object" => req'[r].next = 1
    <3>1. CASE q.pc = "subject" /\ q.rest.object \in Names
      BY <1>8, <3>1 DEF Found, Search
    <3>2. CASE q.pc = "subject" /\ q.rest.object \notin Names
      BY <1>8, <3>2 DEF Found, Rule
    <3>3. CASE q.pc = "object"
      BY <1>8, <3>3 DEF Found, Rule
    <3>4. CASE q.pc \in {"user", "service"}
      BY <1>8, <3>4 DEF Found
    <3> QED BY <1>1, <3>1, <3>2, <3>3, <3>4 DEF LookUps
  <2> QED BY <2>1 DEF Sound
<1>9. ASSUME named = {}, q.next < Len(SearchOrder(q.pc)), req'[r] = [q EXCEPT !.next = @ + 1]
      PROVE  Sound(req[r], unbound[r])'
  <2>1. /\ q.pc = "subject" => q.next = 1
        /\ q.pc = "object" => q.next \in 1..3
    <3> DEFINE n == q.next
               last == Len(SearchOrder(q.pc))
    <3>1. n < last /\ (q.pc = "subject" => n \in 1..2 /\ last = 2)
                   /\ (q.pc = "object" => n \in 1..4 /\ last = 4)
      BY <1>2, <1>9
    <3> HIDE DEF n, last
    <3>2. (q.pc = "subject" => n = 1) /\ (q.pc = "object" => n \in 1..3)
      BY <3>1
    <3> QED BY <3>2 DEF n
  <2>2. /\ req'[r].pc = q.pc /\ req'[r].name = q.name
        /\ q.pc \in {"subject", "object"} => req'[r].next = q.next + 1
    <3> HIDE DEF q
    <3> QED BY <1>1, <1>9 DEF Searches, SubjectSearch, ObjectSearch, MemberSearch
  <2>3. unbound[r] \subseteq unbound'[r] /\ FreeIn'[q.name] \subseteq unbound'[r]
    BY <1>1, <1>7, <2>2 DEF SameSearch
  <2>4. CASE q.pc = "subject"
    <3>1. q.next = 1
      BY <2>1, <2>4
    <3>2. type = "user"
      BY <2>4, <3>1, SearchOrders
    <3>3. Missing(req'[r], "principal", userGroups', unbound'[r])
      BY <1>4, <1>5, <1>6, <1>3, <1>9, <2>2, <2>3, <3>2 DEF Missing
    <3> QED BY <2>2, <2>4, <3>1, <3>3 DEF Sound
  <2>5. CASE q.pc = "object"
    <3>1. q.next \in 1..3
      BY <2>1, <2>5
    <3>2. CASE q.next = 1
      <4>1. type = "service"
        BY <2>5, <3>2, SearchOrders
      <4>2. Missing(req'[r], "object", serviceGroups', unbound'[r])
        BY <1>4, <1>5, <1>6, <1>3, <1>9, <2>2, <2>3, <4>1 DEF Missing
      <4> QED BY <2>2, <2>5, <3>2, <4>2 DEF Sound
    <3>3. CASE q.next = 2
      <4>1. type = "service_group"
        BY <2>5, <3>3, SearchOrders
      <4>2. "object" \in unbound'[r]
        BY <1>5, <1>6, <1>9, <2>3, <2>5, <3>3, <4>1 DEF Sound, Missing
      <4> QED BY <2>2, <2>5, <3>3, <4>2 DEF Sound
    <3>4. CASE q.next = 3
      <4>1. type = "user"
        BY <2>5, <3>4, SearchOrders
      <4>2. Missing(req'[r], "principal", userGroups', unbound'[r])
        BY <1>4, <1>5, <1>6, <1>3, <1>9, <2>2, <2>3, <4>1 DEF Missing
      <4>3. "object" \in unbound'[r]
        BY <2>3, <2>5, <3>4 DEF Sound
      <4> QED BY <2>2, <2>5, <3>4, <4>2, <4>3 DEF Sound
    <3> QED BY <3>1, <3>2, <3>3, <3>4
  <2>6. CASE q.pc \in {"user", "service"}
    BY <2>2, <2>6 DEF Sound
  <2> QED BY <1>1, <2>4, <2>5, <2>6 DEF LookUps
<1>10. ASSUME named = {}, q.next = Len(SearchOrder(q.pc)),
             req'[r] = [pc |-> "not_found", name |-> q.name, for |-> q.pc]
      PROVE  Sound(req[r], unbound[r])'
  <2>1. req'[r].pc = "not_found" /\ req'[r].for = q.pc
    BY <1>10
  <2>2. unbound[r] \subseteq unbound'[r]
    BY <1>1, <1>7, <2>1 DEF SameSearch
  <2>3. CASE q.pc = "subject"
    <3>1. q.next = 2
      BY <1>2, <1>10, <2>3
    <3>2. type = "user_group"
      BY <2>3, <3>1, SearchOrders
    <3>3. "principal" \in unbound'[r]
      BY <1>5, <1>6, <1>10, <2>2, <2>3, <3>1, <3>2 DEF Sound, Missing
    <3> QED BY <2>1, <2>3, <3>3 DEF Sound
  <2>4. CASE q.pc = "object"
    <3>1. q.next = 4
      BY <1>2, <1>10, <2>4
    <3>2. type = "user_group"
      BY <2>4, <3>1, SearchOrders
    <3>3. {"principal", "object"} \subseteq unbound'[r]
      BY <1>5, <1>6, <1>10, <2>2, <2>4, <3>1, <3>2 DEF Sound, Missing
    <3> QED BY <2>1, <2>4, <3>3 DEF Sound
  <2> QED BY <2>1, <2>3, <2>4 DEF Sound
<1>11. PICK q2 : /\ req' = [req EXCEPT ![r] = q2]
                 /\ \/ \E ref : q2 = Found(q, ref)
                    \/ /\ named = {} /\ q.next < Len(SearchOrder(q.pc))
                       /\ q2 = [q EXCEPT !.next = @ + 1]
                    \/ /\ named = {} /\ q.next = Len(SearchOrder(q.pc))
                       /\ q2 = [pc |-> "not_found", name |-> q.name, for |-> q.pc]
  BY DEF LookUp, Reads, Goto
<1>12. req'[r] = q2
  BY <1>11 DEF ReqTyped
<1> QED BY <1>8, <1>9, <1>10, <1>11, <1>12

LEMMA StepSearchesSound ==
    StoreInv /\ ReqTyped /\ SearchesSound /\ [Next]_adminVars => SearchesSound'
<1> SUFFICES ASSUME StoreInv, ReqTyped, SearchesSound, Next PROVE SearchesSound'
  BY DEF adminVars, storeVars, entityVars, SearchesSound, Sound, Missing
<1>1. PICK r \in Requests : Arrives(r) \/ Continues(r)
  BY DEF Next
<1>2. [StoreNext]_storeVars /\ ReqTyped' /\ History
  BY StepStores, StepReqTyped DEF StoreInv, Next
<1>3. ASSUME NEW q \in Requests, req'[q] = req[q] PROVE Sound(req[q], unbound[q])'
  <2>1. Sound(req[q], unbound[q])
    BY DEF SearchesSound
  <2>2. CASE req[q].pc = "not_found"
    <3>1. unbound'[q] = unbound[q]
      BY <1>2, <1>3, <2>2, FreeIsNoted
    <3> QED BY <1>3, <2>1, <2>2, <3>1 DEF Sound
  <2>3. CASE req[q].pc \in {"subject", "object"}
    <3>1. req[q].pc \in LookUps /\ req[q].name \in Names
      BY <2>3, SearchingTyped, SearchStates DEF ReqTyped, LookUps
    <3>2. FreeIn'[req[q].name] \cup unbound[q] \subseteq unbound'[q]
      BY <1>2, <1>3, <3>1, FreeIsNoted DEF SameSearch
    <3>3. /\ Missing(req[q], "principal", userGroups, unbound[q]) =>
                 Missing(req'[q], "principal", userGroups', unbound'[q])
          /\ Missing(req[q], "object", serviceGroups, unbound[q]) =>
                 Missing(req'[q], "object", serviceGroups', unbound'[q])
      BY <1>2, <1>3, <3>1, <3>2, ReleasedNamesAreFree DEF Missing
    <3> QED BY <1>3, <2>1, <2>3, <3>2, <3>3 DEF Sound
  <2> QED BY <1>3, <2>2, <2>3 DEF Sound
<1>4. Sound(req[r], unbound[r])'
  <2>1. CASE \/ req'[r].pc = "not_found"
             \/ req'[r].pc \in {"subject", "object"} /\ req'[r].next # 1
    BY <1>1, <1>2, <2>1, WaysToSearch, LookUpIsSound DEF SearchesSound
  <2>2. CASE ~(\/ req'[r].pc = "not_found"
               \/ req'[r].pc \in {"subject", "object"} /\ req'[r].next # 1)
    BY <2>2 DEF Sound
  <2> QED BY <2>1, <2>2
<1>5. \A q \in Requests : Sound(req[q], unbound[q])'
  BY <1>1, <1>3, <1>4, OneMoves
<1> QED BY <1>2, <1>5, UnboundTyped DEF SearchesSound

\* A name is reported unknown only if it was free, in each namespace looked in,
\* in a state of the look-up: the tables are read one by one while other requests
\* write, but users come before groups, and a name that leaves the group table
\* does not pass to a user in the same transaction.
THEOREM AdminNotFoundIsTrue == AdminSpec => []NotFoundIsTrue
<1>1. Init => SearchesSound
  BY DEF Init, SearchesSound, Sound, Idle
<1>2. SearchesSound => NotFoundIsTrue
  BY DEF SearchesSound, Sound, NotFoundIsTrue, At
<1> QED BY <1>1, <1>2, StepSearchesSound, AdminStores, PTL DEF AdminSpec

-----------------------------------------------------------------------------
(* Addresses the daemon allocates                                           *)

\* createUser refuses an address outside the client subnet.
UsersInSubnet == TakenBy(users) \subseteq ClientSubnet

LEMMA StepSubnets ==
    ASSUME TypeOK, ReqTyped, NEW r \in Requests, Arrives(r) \/ Continues(r)
    PROVE  /\ TakenBy(users') \subseteq TakenBy(users) \cup ClientSubnet
           /\ \A s \in services' : s.id \in Ids(services) \/ s.ip \in ServiceSubnet
<1> DEFINE Goal == /\ TakenBy(users') \subseteq TakenBy(users) \cup ClientSubnet
                   /\ \A s \in services' : s.id \in Ids(services) \/ s.ip \in ServiceSubnet
<1>1. ASSUME users' \subseteq users, services' \subseteq services PROVE Goal
  BY <1>1 DEF TakenBy, Ids
<1>2. ASSUME NEW name, NEW ip \in ClientSubnet, CreateUser(name, ip) PROVE Goal
  BY <1>2 DEF CreateUser, TakenBy, Ids
<1>3. ASSUME NEW name, NEW hostname, NEW origin, NEW ip \in ServiceSubnet, NEW ports,
             CreateService(name, hostname, origin, ip, ports)
      PROVE  Goal
  BY <1>3 DEF CreateService, TakenBy, Ids
<1>4. ASSUME NEW s \in services, NEW u, NEW o, Rewrite(s, u, o) PROVE Goal
  <2>1. users' = users
    BY <1>4 DEF Rewrite, UpdateService
  <2>2. \A t \in services' : t \in services \/ t.id = s.id
    BY <1>4, RewrittenRow DEF Swap
  <2> QED BY <2>1, <2>2 DEF Ids
<1>5. ASSUME NEW u \in users, NEW name, UpdateUser(u, name) PROVE Goal
  <2>1. [u EXCEPT !.name = name].ip = u.ip
    BY DEF TypeOK, User
  <2>2. TakenBy(users') \subseteq TakenBy(users)
    BY <1>5, <2>1 DEF UpdateUser, Swap, TakenBy
  <2> QED BY <1>5, <2>2 DEF UpdateUser, Ids
<1>6. CASE Directly(r)
  <2>1. ASSUME ~\E u \in users, name \in Names : UpdateUser(u, name)
        PROVE  users' \subseteq users /\ services' \subseteq services
    BY <1>6, <2>1 DEF Directly, Direct, UserHandlers, UserGroupHandlers, DeleteUserGroupAt,
       UserGroupMemberHandlers, CreateServiceGroupAt, ServiceGroupHandlers,
       ServiceGroupMemberHandlers, DeleteServiceAt, PolicyHandlers, PolicyStep,
       DeleteUser, CreateUserGroup, UpdateUserGroup, DeleteUserGroup, AddUserToGroup,
       RemoveUserFromGroup, CreateServiceGroup, UpdateServiceGroup, DeleteServiceGroup,
       AddServiceToGroup, RemoveServiceFromGroup, DeleteService, CreatePolicy, DeletePolicy,
       entityVars
  <2> QED BY <1>1, <1>5, <2>1
<1>7. CASE CreateUserAt(r) \/ InsertUser(r)
  <2>1. At(r, "create_user") => req[r].ip \in ClientSubnet
    BY PlacesTyped DEF ReqTyped, At, UserInsert
  <2> QED BY <1>2, <1>7, <2>1 DEF CreateUserAt, InsertUser
<1>8. CASE CreateServiceAt(r) \/ InsertService(r)
  <2>1. At(r, "create_service") => req[r].ip \in ServiceSubnet
    BY PlacesTyped DEF ReqTyped, At, ServiceInsert
  <2> QED BY <1>3, <1>8, <2>1 DEF CreateServiceAt, InsertService
<1>9. CASE UpdateNames(r) \/ WriteUpdate(r)
  BY <1>4, <1>9 DEF UpdateNames, WriteUpdate
<1>10. CASE \/ AllocateUserIP(r) \/ AllocateServiceIP(r) \/ ReadService(r) \/ CheckUpdate(r)
            \/ AskPolicy(r) \/ AskMember(r) \/ AddressConflict(r) \/ LookUp(r)
            \/ WriteRule(r) \/ AddMember(r) \/ Ends(r)
  <2>1. users' = users /\ services' = services
    BY <1>10 DEF AllocateUserIP, AllocateServiceIP, ReadService, CheckUpdate, AskPolicy, AskMember,
       AddressConflict, LookUp, WriteRule, CreatePolicy, AddMember, AddUserToGroup,
       AddServiceToGroup, Ends, Reads, storeVars, entityVars
  <2> QED BY <1>1, <2>1
<1> QED BY <1>6, <1>7, <1>8, <1>9, <1>10 DEF Arrives, Continues

\* An allocated address is free in the table it was allocated from, unless the
\* tables have changed since.
AllocatedFree ==
    \A r \in Requests \ stale :
        /\ At(r, "create_user") => req[r].ip \notin TakenBy(users)
        /\ At(r, "create_service") => req[r].ip \notin TakenBy(services)

LEMMA StepAllocatedFree ==
    ReqTyped /\ AllocatedFree /\ [Next]_adminVars => AllocatedFree'
<1> SUFFICES ASSUME ReqTyped, AllocatedFree, Next PROVE AllocatedFree'
  BY DEF adminVars, storeVars, entityVars, AllocatedFree, At
<1>1. PICK r \in Requests : Arrives(r) \/ Continues(r)
  BY DEF Next
<1>2. ASSUME NEW q \in Requests \ stale', req'[q] = req[q],
             At(q, "create_user") \/ At(q, "create_service")
      PROVE  /\ At(q, "create_user") => req[q].ip \notin TakenBy(users')
             /\ At(q, "create_service") => req[q].ip \notin TakenBy(services')
  <2>1. q \notin stale /\ ~Overtaken(req[q])
    BY <1>2, NotOvertaken DEF Next, At
  <2>2. TakenBy(users') = TakenBy(users) /\ TakenBy(services') = TakenBy(services)
    BY <1>2, <2>1 DEF Overtaken, At
  <2> QED BY <2>1, <2>2 DEF AllocatedFree
<1>3. ASSUME req'[r].pc = "create_user" PROVE req'[r].ip \notin TakenBy(users')
  <2>1. PICK name \in Names, ip \in UserAddr :
            Reads(r, [pc |-> "create_user", name |-> name, ip |-> ip])
    BY <1>1, <1>3, WaysToWrite DEF AllocateUserIP
  <2>2. ip \notin TakenBy(users)
    BY DEF UserAddr, Allocated
  <2> QED BY <2>1, <2>2 DEF Reads, Goto, ReqTyped, storeVars, entityVars
<1>4. ASSUME req'[r].pc = "create_service" PROVE req'[r].ip \notin TakenBy(services')
  <2>1. PICK name \in Names, hostname \in Hostname, o \in Origins, ip \in ServiceAddr,
             ports \in PortSets :
            Reads(r, [pc |-> "create_service", name |-> name, origin |-> o, ip |-> ip,
                      hostname |-> HostnameOf(hostname, name), ports |-> ports])
    BY <1>1, <1>4, WaysToWrite DEF AllocateServiceIP
  <2>2. ip \notin TakenBy(services)
    BY DEF ServiceAddr, Allocated
  <2> QED BY <2>1, <2>2 DEF Reads, Goto, ReqTyped, storeVars, entityVars
<1>5. ASSUME NEW q \in Requests \ stale'
      PROVE  /\ At(q, "create_user")' => req'[q].ip \notin TakenBy(users')
             /\ At(q, "create_service")' => req'[q].ip \notin TakenBy(services')
  <2>1. CASE q = r
    BY <1>3, <1>4, <2>1 DEF At
  <2>2. CASE q # r
    BY <1>1, <1>2, <2>2, OneMoves DEF At
  <2> QED BY <2>1, <2>2
<1> QED BY <1>5 DEF AllocatedFree, TakenBy

\* A user is where the daemon, or createUser's check, has put it.
LEMMA UsersStayInSubnet == AdminSpec => []UsersInSubnet
<1>1. Init => UsersInSubnet
  BY DEF Init, StoreInit, UsersInSubnet, TakenBy
<1>2. ReqTyped /\ StoreInv /\ UsersInSubnet /\ [Next]_adminVars => UsersInSubnet'
  <2>1. UNCHANGED adminVars /\ UsersInSubnet => UsersInSubnet'
    BY DEF adminVars, storeVars, entityVars, UsersInSubnet, TakenBy
  <2>2. ReqTyped /\ StoreInv /\ UsersInSubnet /\ Next => UsersInSubnet'
    <3> SUFFICES ASSUME ReqTyped, StoreInv, UsersInSubnet, Next PROVE UsersInSubnet'
      OBVIOUS
    <3>1. TakenBy(users') \subseteq TakenBy(users) \cup ClientSubnet
      BY StepSubnets DEF StoreInv, Next
    <3> QED BY <3>1 DEF UsersInSubnet, TakenBy
  <2> QED BY <2>1, <2>2
<1> QED BY <1>1, <1>2, AdminStores, PTL DEF AdminSpec

\* An address the daemon has allocated is refused for a reason: a commit after the
\* allocation, an address of both subnets, or a service that has it although it is
\* none of the service subnet.  A user has no address outside the client subnet,
\* so what is allocated to a service is never refused without the first two.
THEOREM AdminConflictsAreReal == AdminSpec => ConflictsAreReal
<1>1. Init => AllocatedFree
  BY DEF Init, AllocatedFree, At, Idle
<1> DEFINE Real(r) ==
        ~At(r, "conflict") /\ req'[r].pc = "conflict" =>
            \/ r \in stale
            \/ req[r].ip \in ClientSubnet \cap ServiceSubnet
            \/ \E s \in services : s.ip = req[r].ip /\ s.ip \notin ServiceSubnet
<1>2. ASSUME ReqTyped, UsersInSubnet, AllocatedFree, Next, NEW r \in Requests PROVE Real(r)
  <2>1. SUFFICES ASSUME ~At(r, "conflict"), req'[r].pc = "conflict", r \notin stale
                 PROVE  \/ req[r].ip \in ClientSubnet \cap ServiceSubnet
                        \/ \E s \in services : s.ip = req[r].ip /\ s.ip \notin ServiceSubnet
    OBVIOUS
  <2>2. AddressConflict(r)
    BY <1>2, <2>1, OneMoves, WaysToWrite DEF Next, At
  <2>3. req[r].ip \in TakenBy(users) \cup TakenBy(services)
    BY <2>2 DEF AddressConflict, AddrFree, TakenBy
  <2>4. CASE At(r, "create_user")
    <3>1. req[r].ip \in ClientSubnet
      BY <1>2, <2>4, PlacesTyped DEF ReqTyped, At, UserInsert
    <3>2. PICK s \in services : s.ip = req[r].ip
      BY <1>2, <2>1, <2>3, <2>4 DEF AllocatedFree, TakenBy
    <3> QED BY <3>1, <3>2
  <2>5. CASE At(r, "create_service")
    <3>1. req[r].ip \in ServiceSubnet
      BY <1>2, <2>5, PlacesTyped DEF ReqTyped, At, ServiceInsert
    <3>2. req[r].ip \in TakenBy(users)
      BY <1>2, <2>1, <2>3, <2>5 DEF AllocatedFree
    <3> QED BY <1>2, <3>1, <3>2 DEF UsersInSubnet
  <2> QED BY <2>2, <2>4, <2>5 DEF AddressConflict
<1>3. ReqTyped /\ UsersInSubnet /\ AllocatedFree /\ [Next]_adminVars
          => [\A r \in Requests : Real(r)]_adminVars
  BY <1>2
<1> QED BY <1>1, <1>3, StepAllocatedFree, UsersStayInSubnet, AdminStores, PTL
        DEF AdminSpec, ConflictsAreReal

-----------------------------------------------------------------------------
(* What Gateway takes from the handlers                                     *)

\* Commit of Gateway: a transaction of the store that leaves the users in the
\* client subnet and gives a new service an address of the service subnet.
CommitsOfGateway ==
    /\ StoreNext
    /\ TakenBy(users') \subseteq ClientSubnet
    /\ \A s \in services' : s.id > seq["services"] => s.ip \in ServiceSubnet

\* Every commit of a handler is one that Gateway's Commit allows, so that what is
\* proved of Gateway for any commits in the subnets is true with these handlers.
THEOREM AdminCommitsSuitGateway == AdminSpec => [][CommitsOfGateway]_storeVars
<1>1. ReqTyped /\ StoreInv /\ UsersInSubnet /\ [Next]_adminVars => [CommitsOfGateway]_storeVars
  <2> SUFFICES ASSUME ReqTyped, StoreInv, UsersInSubnet, Next, ~UNCHANGED storeVars
               PROVE  CommitsOfGateway
    BY DEF adminVars
  <2>1. StoreNext
    BY StepStores DEF StoreInv
  <2>2. /\ TakenBy(users') \subseteq TakenBy(users) \cup ClientSubnet
        /\ \A s \in services' : s.id \in Ids(services) \/ s.ip \in ServiceSubnet
    BY StepSubnets DEF StoreInv, Next
  <2>3. \A s \in services' : s.id \in Ids(services) => ~(s.id > seq["services"])
    <3>1. seq["services"] \in Nat /\ \A id \in Ids(services) : id \in 1..seq["services"]
      BY DEF StoreInv, TypeOK, Tables, KeysUnique, Keyed, Ids
    <3> QED BY <3>1
  <2> QED BY <2>1, <2>2, <2>3 DEF CommitsOfGateway, UsersInSubnet
<1> QED BY <1>1, UsersStayInSubnet, AdminStores, PTL DEF AdminSpec
=============================================================================
