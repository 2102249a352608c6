---------------------------- MODULE StoreProofs ----------------------------
(***************************************************************************)
(* The invariants of the database, for every set of names, addresses and   *)
(* ports and every bound.  Each is inductive together with TypeOK; the     *)
(* proofs follow the disjuncts of StoreNext.                               *)
(***************************************************************************)
EXTENDS Store, TLAPS

\* What CreateUser, UpdateUser and DeleteUser write is well formed.
LEMMA UserTypes == TypeOK /\ UserStep => TypeOK'
<1> SUFFICES ASSUME TypeOK, UserStep PROVE TypeOK'
  OBVIOUS
<1> USE DEF TypeOK, User, Id, Member, memberVars, entityVars
<1>1. ASSUME NEW name \in Names, NEW ip \in Addrs, CreateUser(name, ip) PROVE TypeOK'
  BY <1>1 DEF CreateUser, TakeId, Fresh, Tables
<1>2. ASSUME NEW u \in users, NEW name \in Names, UpdateUser(u, name) PROVE TypeOK'
  BY <1>2 DEF UpdateUser, Swap
<1>3. ASSUME NEW u \in users, DeleteUser(u) PROVE TypeOK'
  BY <1>3 DEF DeleteUser, Scrub
<1> QED
  BY <1>1, <1>2, <1>3 DEF UserStep

\* So is what the operations on user groups write.
LEMMA UserGroupTypes == TypeOK /\ UserGroupStep => TypeOK'
<1> SUFFICES ASSUME TypeOK, UserGroupStep PROVE TypeOK'
  OBVIOUS
<1> USE DEF TypeOK, UserGroup, User, Id, Member, memberVars, entityVars
<1>1. ASSUME NEW name \in Names, NEW lan \in BOOLEAN, CreateUserGroup(name, lan)
      PROVE TypeOK'
  BY <1>1 DEF CreateUserGroup, TakeId, Fresh, Tables
<1>2. ASSUME NEW g \in userGroups, NEW name \in Names, NEW lan \in BOOLEAN,
             UpdateUserGroup(g, name, lan)
      PROVE TypeOK'
  BY <1>2 DEF UpdateUserGroup, Swap
<1>3. ASSUME NEW g \in userGroups, DeleteUserGroup(g) PROVE TypeOK'
  BY <1>3 DEF DeleteUserGroup, Scrub
<1>4. ASSUME NEW g \in userGroups, NEW u \in users, AddUserToGroup(g, u) PROVE TypeOK'
  BY <1>4 DEF AddUserToGroup
<1>5. ASSUME NEW g, NEW u, RemoveUserFromGroup(g, u) PROVE TypeOK'
  BY <1>5 DEF RemoveUserFromGroup
<1> QED
  BY <1>1, <1>2, <1>3, <1>4, <1>5 DEF UserGroupStep

\* So is what the operations on services write.
LEMMA ServiceTypes == TypeOK /\ ServiceStep => TypeOK'
<1> SUFFICES ASSUME TypeOK, ServiceStep PROVE TypeOK'
  OBVIOUS
<1> USE DEF TypeOK, Service, Id, Member, memberVars, entityVars
<1>1. ASSUME NEW name \in Names, NEW hostname \in Hostnames, NEW origin \in Origins,
             NEW ip \in Addrs, NEW ports \in PortSets,
             CreateService(name, hostname, origin, ip, ports)
      PROVE TypeOK'
  BY <1>1 DEF CreateService, TakeId, Fresh, Tables
<1>2. ASSUME NEW s \in services, NEW name \in Names, NEW hostname \in Hostnames,
             NEW origin \in Origins, NEW ip \in Addrs, NEW ports \in PortSets,
             UpdateService(s, name, hostname, origin, ip, ports)
      PROVE TypeOK'
  BY <1>2 DEF UpdateService, Swap
<1>3. ASSUME NEW s \in services, DeleteService(s) PROVE TypeOK'
  BY <1>3 DEF DeleteService, Scrub
<1> QED
  BY <1>1, <1>2, <1>3 DEF ServiceStep

\* So is what the operations on service groups write.
LEMMA ServiceGroupTypes == TypeOK /\ ServiceGroupStep => TypeOK'
<1> SUFFICES ASSUME TypeOK, ServiceGroupStep PROVE TypeOK'
  OBVIOUS
<1> USE DEF TypeOK, Service, ServiceGroup, Id, Member, memberVars, entityVars
<1>1. ASSUME NEW name \in Names, CreateServiceGroup(name) PROVE TypeOK'
  BY <1>1 DEF CreateServiceGroup, TakeId, Fresh, Tables
<1>2. ASSUME NEW g \in serviceGroups, NEW name \in Names, UpdateServiceGroup(g, name)
      PROVE TypeOK'
  BY <1>2 DEF UpdateServiceGroup, Swap
<1>3. ASSUME NEW g \in serviceGroups, DeleteServiceGroup(g) PROVE TypeOK'
  BY <1>3 DEF DeleteServiceGroup, Scrub
<1>4. ASSUME NEW g \in serviceGroups, NEW s \in services, AddServiceToGroup(g, s)
      PROVE TypeOK'
  BY <1>4 DEF AddServiceToGroup
<1>5. ASSUME NEW g, NEW s, RemoveServiceFromGroup(g, s) PROVE TypeOK'
  BY <1>5 DEF RemoveServiceFromGroup
<1> QED
  BY <1>1, <1>2, <1>3, <1>4, <1>5 DEF ServiceGroupStep

\* The references a caller can hold are well typed.
LEMMA KnownRefsTyped ==
    ASSUME TypeOK
    PROVE /\ KnownRefs(SubjectTypes) \subseteq Subjects
          /\ KnownRefs(ObjectTypes) \subseteq Objects
  BY DEF KnownRefs, KnownIds, TableOf, Ref, Subjects, Objects, SubjectTypes, ObjectTypes,
         TypeOK, Tables, Id

\* So is what CreatePolicy and DeletePolicy write.
LEMMA PolicyTypes == TypeOK /\ PolicyStep => TypeOK'
<1> SUFFICES ASSUME TypeOK, PolicyStep PROVE TypeOK'
  OBVIOUS
<1> USE DEF TypeOK, PolicyRule, Id, memberVars, entityVars
<1>1. ASSUME NEW subject \in KnownRefs(SubjectTypes), NEW object \in KnownRefs(ObjectTypes),
             NEW action \in Verdicts, CreatePolicy(subject, object, action)
      PROVE TypeOK'
  <2>1. subject \in Subjects /\ object \in Objects
    BY KnownRefsTyped
  <2>2. ASSUME NEW r \in rules, RewriteRule(r, action) PROVE rules' \subseteq PolicyRule
    <3>1. clock + 1 \in Nat
      OBVIOUS
    <3>2. [r EXCEPT !.action = action, !.updated = clock + 1] \in PolicyRule
      BY <3>1
    <3> QED
      BY <2>2, <3>2 DEF RewriteRule, Swap
  <2>3. ASSUME InsertRule(subject, object, action)
        PROVE rules' \subseteq PolicyRule /\ seq' \in [Tables -> Nat]
    BY <2>1, <2>3 DEF InsertRule, TakeId, Fresh, Tables
  <2>4. rules' \subseteq PolicyRule /\ seq' \in [Tables -> Nat]
    BY <1>1, <2>2, <2>3 DEF CreatePolicy, RewriteRule
  <2>5. clock' \in Nat /\ UNCHANGED <<users, userGroups, services, serviceGroups,
                                       userMembers, serviceMembers>>
    BY <1>1 DEF CreatePolicy
  <2> QED
    BY <2>4, <2>5
<1>2. ASSUME NEW r \in rules, DeletePolicy(r) PROVE TypeOK'
  BY <1>2 DEF DeletePolicy
<1> QED
  BY <1>1, <1>2 DEF PolicyStep

\* So is what every transaction writes.
LEMMA StepTypes == TypeOK /\ [StoreNext]_storeVars => TypeOK'
BY UserTypes, UserGroupTypes, ServiceTypes, ServiceGroupTypes, PolicyTypes
   DEF StoreNext, storeVars, entityVars, memberVars, TypeOK

\* Every row of every table is well formed.
THEOREM StoreTypeOK == StoreSpec => []TypeOK
<1>1. StoreInit => TypeOK
  BY DEF StoreInit, TypeOK
<1> QED
  BY <1>1, StepTypes, PTL DEF StoreSpec

-----------------------------------------------------------------------------
(* Tables and their keys *)

\* What a step may do to a table and its counter: leave both, insert a row
\* under a new id, rewrite a row under its old id, or drop rows.
KeyStep(T, T2, t) ==
    \/ T2 = T /\ seq'[t] = seq[t]
    \/ \E row : T2 = T \cup {row} /\ row.id = seq[t] + 1 /\ seq'[t] = seq[t] + 1
    \/ \E old \in T : \E new :
          T2 = Swap(T, old, new) /\ new.id = old.id /\ seq'[t] = seq[t]
    \/ T2 \subseteq T /\ seq'[t] = seq[t]

KeySteps ==
    /\ KeyStep(users, users', "users")
    /\ KeyStep(userGroups, userGroups', "user_groups")
    /\ KeyStep(services, services', "services")
    /\ KeyStep(serviceGroups, serviceGroups', "service_groups")
    /\ KeyStep(rules, rules', "policy_rules")

\* Taking an id moves one counter and leaves the others.
LEMMA TakeIdCounts ==
    ASSUME TypeOK, NEW t \in Tables, TakeId(t)
    PROVE /\ seq'[t] = Fresh(t)
          /\ \A u \in Tables \ {t} : seq'[u] = seq[u]
  BY DEF TypeOK, TakeId, Fresh

\* The operations on users do to each table one of the four things of KeyStep.
LEMMA UserKeySteps == TypeOK /\ UserStep => KeySteps
<1> SUFFICES ASSUME TypeOK, UserStep PROVE KeySteps
  OBVIOUS
<1> USE DEF KeySteps, KeyStep, memberVars
<1>1. ASSUME NEW name \in Names, NEW ip \in Addrs, CreateUser(name, ip) PROVE KeySteps
  <2>1. /\ seq'["users"] = Fresh("users")
        /\ \A t \in Tables \ {"users"} : seq'[t] = seq[t]
    BY <1>1, TakeIdCounts DEF CreateUser, Tables
  <2> DEFINE row == [id |-> Fresh("users"), name |-> name, ip |-> ip]
  <2>2. users' = users \cup {row} /\ row.id = Fresh("users")
    BY <1>1 DEF CreateUser
  <2> QED
    BY <1>1, <2>1, <2>2 DEF CreateUser, Fresh, Tables
<1>2. ASSUME NEW u \in users, NEW name \in Names, UpdateUser(u, name) PROVE KeySteps
  <2> DEFINE new == [u EXCEPT !.name = name]
  <2>1. users' = Swap(users, u, new)
    BY <1>2 DEF UpdateUser
  <2>2. new.id = u.id
    BY DEF TypeOK, User
  <2> HIDE DEF new
  <2> QED
    BY <1>2, <2>1, <2>2 DEF UpdateUser
<1>3. ASSUME NEW u \in users, DeleteUser(u) PROVE KeySteps
  BY <1>3 DEF DeleteUser, Scrub
<1> QED
  BY <1>1, <1>2, <1>3 DEF UserStep

\* So do the operations on user groups.
LEMMA UserGroupKeySteps == TypeOK /\ UserGroupStep => KeySteps
<1> SUFFICES ASSUME TypeOK, UserGroupStep PROVE KeySteps
  OBVIOUS
<1> USE DEF KeySteps, KeyStep, memberVars, entityVars
<1>1. ASSUME NEW name \in Names, NEW lan \in BOOLEAN, CreateUserGroup(name, lan)
      PROVE KeySteps
  <2>1. /\ seq'["user_groups"] = Fresh("user_groups")
        /\ \A t \in Tables \ {"user_groups"} : seq'[t] = seq[t]
    BY <1>1, TakeIdCounts DEF CreateUserGroup, Tables
  <2> DEFINE row == [id |-> Fresh("user_groups"), name |-> name, lan |-> lan]
  <2>2. userGroups' = userGroups \cup {row} /\ row.id = Fresh("user_groups")
    BY <1>1 DEF CreateUserGroup
  <2> QED
    BY <1>1, <2>1, <2>2 DEF CreateUserGroup, Fresh, Tables
<1>2. ASSUME NEW g \in userGroups, NEW name \in Names, NEW lan \in BOOLEAN,
             UpdateUserGroup(g, name, lan)
      PROVE KeySteps
  <2> DEFINE new == [g EXCEPT !.name = name, !.lan = lan]
  <2>1. userGroups' = Swap(userGroups, g, new)
    BY <1>2 DEF UpdateUserGroup
  <2>2. new.id = g.id
    BY DEF TypeOK, UserGroup
  <2> HIDE DEF new
  <2> QED
    BY <1>2, <2>1, <2>2 DEF UpdateUserGroup
<1>3. ASSUME NEW g \in userGroups, DeleteUserGroup(g) PROVE KeySteps
  BY <1>3 DEF DeleteUserGroup, Scrub
<1>4. ASSUME NEW g \in userGroups, NEW u \in users, AddUserToGroup(g, u) PROVE KeySteps
  BY <1>4 DEF AddUserToGroup
<1>5. ASSUME NEW g, NEW u, RemoveUserFromGroup(g, u) PROVE KeySteps
  BY <1>5 DEF RemoveUserFromGroup
<1> QED
  BY <1>1, <1>2, <1>3, <1>4, <1>5 DEF UserGroupStep

\* So do the operations on services.
LEMMA ServiceKeySteps == TypeOK /\ ServiceStep => KeySteps
<1> SUFFICES ASSUME TypeOK, ServiceStep PROVE KeySteps
  OBVIOUS
<1> USE DEF KeySteps, KeyStep, memberVars
<1>1. ASSUME NEW name \in Names, NEW hostname \in Hostnames, NEW origin \in Origins,
             NEW ip \in Addrs, NEW ports \in PortSets,
             CreateService(name, hostname, origin, ip, ports)
      PROVE KeySteps
  <2>1. /\ seq'["services"] = Fresh("services")
        /\ \A t \in Tables \ {"services"} : seq'[t] = seq[t]
    BY <1>1, TakeIdCounts DEF CreateService, Tables
  <2> DEFINE row == [id |-> Fresh("services"), name |-> name, hostname |-> hostname,
                     origin |-> origin, ip |-> ip, ports |-> ports]
  <2>2. services' = services \cup {row} /\ row.id = Fresh("services")
    BY <1>1 DEF CreateService
  <2> HIDE DEF row
  <2> QED
    BY <1>1, <2>1, <2>2 DEF CreateService, Fresh, Tables
<1>2. ASSUME NEW s \in services, NEW name \in Names, NEW hostname \in Hostnames,
             NEW origin \in Origins, NEW ip \in Addrs, NEW ports \in PortSets,
             UpdateService(s, name, hostname, origin, ip, ports)
      PROVE KeySteps
  <2> DEFINE new == [s EXCEPT !.name = name, !.hostname = hostname, !.origin = origin,
                              !.ip = ip, !.ports = ports]
  <2>1. services' = Swap(services, s, new)
    BY <1>2 DEF UpdateService
  <2>2. new.id = s.id
    BY DEF TypeOK, Service
  <2> HIDE DEF new
  <2> QED
    BY <1>2, <2>1, <2>2 DEF UpdateService
<1>3. ASSUME NEW s \in services, DeleteService(s) PROVE KeySteps
  BY <1>3 DEF DeleteService, Scrub
<1> QED
  BY <1>1, <1>2, <1>3 DEF ServiceStep

\* So do the operations on service groups.
LEMMA ServiceGroupKeySteps == TypeOK /\ ServiceGroupStep => KeySteps
<1> SUFFICES ASSUME TypeOK, ServiceGroupStep PROVE KeySteps
  OBVIOUS
<1> USE DEF KeySteps, KeyStep, memberVars, entityVars
<1>1. ASSUME NEW name \in Names, CreateServiceGroup(name) PROVE KeySteps
  <2>1. /\ seq'["service_groups"] = Fresh("service_groups")
        /\ \A t \in Tables \ {"service_groups"} : seq'[t] = seq[t]
    BY <1>1, TakeIdCounts DEF CreateServiceGroup, Tables
  <2> DEFINE row == [id |-> Fresh("service_groups"), name |-> name]
  <2>2. serviceGroups' = serviceGroups \cup {row} /\ row.id = Fresh("service_groups")
    BY <1>1 DEF CreateServiceGroup
  <2> QED
    BY <1>1, <2>1, <2>2 DEF CreateServiceGroup, Fresh, Tables
<1>2. ASSUME NEW g \in serviceGroups, NEW name \in Names, UpdateServiceGroup(g, name)
      PROVE KeySteps
  <2> DEFINE new == [g EXCEPT !.name = name]
  <2>1. serviceGroups' = Swap(serviceGroups, g, new)
    BY <1>2 DEF UpdateServiceGroup
  <2>2. new.id = g.id
    BY DEF TypeOK, ServiceGroup
  <2> HIDE DEF new
  <2> QED
    BY <1>2, <2>1, <2>2 DEF UpdateServiceGroup
<1>3. ASSUME NEW g \in serviceGroups, DeleteServiceGroup(g) PROVE KeySteps
  BY <1>3 DEF DeleteServiceGroup, Scrub
<1>4. ASSUME NEW g \in serviceGroups, NEW s \in services, AddServiceToGroup(g, s)
      PROVE KeySteps
  BY <1>4 DEF AddServiceToGroup
<1>5. ASSUME NEW g, NEW s, RemoveServiceFromGroup(g, s) PROVE KeySteps
  BY <1>5 DEF RemoveServiceFromGroup
<1> QED
  BY <1>1, <1>2, <1>3, <1>4, <1>5 DEF ServiceGroupStep

\* So do CreatePolicy and DeletePolicy.
LEMMA PolicyKeySteps == TypeOK /\ PolicyStep => KeySteps
<1> SUFFICES ASSUME TypeOK, PolicyStep PROVE KeySteps
  OBVIOUS
<1> USE DEF KeySteps, KeyStep, memberVars, entityVars
<1>1. ASSUME NEW subject, NEW object, NEW action, CreatePolicy(subject, object, action)
      PROVE KeySteps
  <2>1. ASSUME NEW r \in rules, RewriteRule(r, action) PROVE KeySteps
    <3> DEFINE new == [r EXCEPT !.action = action, !.updated = clock + 1]
    <3>1. rules' = Swap(rules, r, new)
      BY <2>1 DEF RewriteRule
    <3>2. new.id = r.id
      BY DEF TypeOK, PolicyRule
    <3> HIDE DEF new
    <3> QED
      BY <1>1, <2>1, <3>1, <3>2 DEF CreatePolicy, RewriteRule
  <2>2. ASSUME InsertRule(subject, object, action) PROVE KeySteps
    <3>1. /\ seq'["policy_rules"] = Fresh("policy_rules")
          /\ \A t \in Tables \ {"policy_rules"} : seq'[t] = seq[t]
      BY <2>2, TakeIdCounts DEF InsertRule, Tables
    <3> DEFINE row == [id |-> Fresh("policy_rules"), subject |-> subject,
                       object |-> object, action |-> action, updated |-> clock + 1]
    <3>2. rules' = rules \cup {row} /\ row.id = Fresh("policy_rules")
      BY <2>2 DEF InsertRule
    <3> HIDE DEF row
    <3> QED
      BY <1>1, <3>1, <3>2 DEF CreatePolicy, Fresh, Tables
  <2> QED
    BY <1>1, <2>1, <2>2 DEF CreatePolicy
<1>2. ASSUME NEW r \in rules, DeletePolicy(r) PROVE KeySteps
  BY <1>2 DEF DeletePolicy
<1> QED
  BY <1>1, <1>2 DEF PolicyStep

\* So does every transaction.
LEMMA StoreKeySteps == TypeOK /\ [StoreNext]_storeVars => KeySteps
<1>1. UNCHANGED storeVars => KeySteps
  BY DEF KeySteps, KeyStep, storeVars, entityVars, memberVars
<1> QED
  BY <1>1, UserKeySteps, UserGroupKeySteps, ServiceKeySteps, ServiceGroupKeySteps,
     PolicyKeySteps DEF StoreNext

\* A table that takes only such steps stays keyed ...
LEMMA KeyStepKeeps ==
    ASSUME TypeOK, NEW t \in Tables, NEW T, NEW T2, Keyed(T, seq[t]), KeyStep(T, T2, t)
    PROVE Keyed(T2, seq'[t])
<1>1. seq[t] \in Nat
  BY DEF TypeOK
<1>2. ASSUME NEW row, T2 = T \cup {row}, row.id = seq[t] + 1, seq'[t] = seq[t] + 1
      PROVE Keyed(T2, seq'[t])
  BY <1>1, <1>2 DEF Keyed
<1>3. ASSUME NEW old \in T, NEW new, T2 = Swap(T, old, new), new.id = old.id,
             seq'[t] = seq[t]
      PROVE Keyed(T2, seq'[t])
  BY <1>1, <1>3 DEF Keyed, Swap
<1>4. ASSUME T2 \subseteq T, seq'[t] = seq[t] PROVE Keyed(T2, seq'[t])
  BY <1>4 DEF Keyed
<1> QED
  BY <1>2, <1>3, <1>4 DEF KeyStep

\* ... and never shows an old id on a new row.
LEMMA KeyStepAppears ==
    ASSUME TypeOK, NEW t \in Tables, NEW T, NEW T2, KeyStep(T, T2, t)
    PROVE Appears(T, T2, t) /\ seq'[t] >= seq[t]
  BY DEF KeyStep, Appears, Ids, Swap, TypeOK

\* So every table does at every transaction.
LEMMA StepKeys == TypeOK /\ KeysUnique /\ [StoreNext]_storeVars => KeysUnique'
BY StoreKeySteps, KeyStepKeeps DEF KeySteps, KeysUnique, Tables

\* Ids are unique in their table and below its counter.
THEOREM StoreKeysUnique == StoreSpec => []KeysUnique
<1>1. StoreInit => KeysUnique
  BY DEF StoreInit, KeysUnique, Keyed
<1> QED
  BY <1>1, StepKeys, StoreTypeOK, PTL DEF StoreSpec

\* An id is never given twice, whatever is deleted in between.
THEOREM StoreIdsNeverReused == StoreSpec => IdsNeverReused
<1>1. TypeOK /\ [StoreNext]_storeVars =>
          [/\ Appears(users, users', "users")
           /\ Appears(userGroups, userGroups', "user_groups")
           /\ Appears(services, services', "services")
           /\ Appears(serviceGroups, serviceGroups', "service_groups")
           /\ Appears(rules, rules', "policy_rules")
           /\ \A t \in Tables : seq'[t] >= seq[t]]_storeVars
  BY StoreKeySteps, KeyStepAppears DEF KeySteps, Tables
<1> QED
  BY <1>1, StoreTypeOK, PTL DEF StoreSpec, IdsNeverReused
=============================================================================
