------------------------ MODULE StoreIntegrityProofs ------------------------
(***************************************************************************)
(* What no single UNIQUE constraint or foreign key of the schema gives:    *)
(* names and addresses unique across two tables, one rule per pair, and    *)
(* rules and memberships that refer to live rows.  Each is inductive with  *)
(* TypeOK; each proof has one step per action that touches its tables.     *)
(***************************************************************************)
EXTENDS StoreProofs, RuleLoop, FiniteSetTheorems

-----------------------------------------------------------------------------
(* A field unique across two tables, under the three ways a table changes *)

\* A row with a value nobody has may be inserted.
LEMMA UniqueInsert ==
    ASSUME NEW A, NEW B, NEW f, UniqueAcross(A, B, f), NEW row,
           \A r \in A \cup B : r[f] # row[f]
    PROVE UniqueAcross(A \cup {row}, B, f)
  BY DEF UniqueAcross, Distinct

\* A row may be rewritten to keep its value or to take one nobody has.
LEMMA UniqueSwap ==
    ASSUME NEW A, NEW B, NEW f, UniqueAcross(A, B, f), NEW old \in A, NEW new,
           new[f] = old[f] \/ \A r \in A \cup B : r[f] # new[f]
    PROVE UniqueAcross(Swap(A, old, new), B, f)
  BY DEF UniqueAcross, Distinct, Swap

\* Dropping rows clashes with nothing.
LEMMA UniqueSubset ==
    ASSUME NEW A, NEW B, NEW f, UniqueAcross(A, B, f), NEW S \in SUBSET A
    PROVE UniqueAcross(S, B, f)
  BY DEF UniqueAcross, Distinct

\* Which of the two tables comes first does not matter.
LEMMA UniqueSymmetric ==
    ASSUME NEW A, NEW B, NEW f, UniqueAcross(A, B, f)
    PROVE UniqueAcross(B, A, f)
  BY DEF UniqueAcross

-----------------------------------------------------------------------------
(* Names and addresses *)

Uniqueness == NamesUnambiguous /\ AddressesUnique

\* CreateUser and UpdateUser check name and address in both tables of each.
LEMMA UserUnique == TypeOK /\ Uniqueness /\ UserStep => Uniqueness'
<1> SUFFICES ASSUME TypeOK, Uniqueness, UserStep PROVE Uniqueness'
  OBVIOUS
<1> USE DEF Uniqueness, NamesUnambiguous, AddressesUnique
<1> DEFINE Goal == /\ UniqueAcross(users', userGroups, "name")
                   /\ UniqueAcross(users', services, "ip")
<1>1. Goal
  <2>1. ASSUME NEW name \in Names, NEW ip \in Addrs, CreateUser(name, ip) PROVE Goal
    <3> DEFINE row == [id |-> Fresh("users"), name |-> name, ip |-> ip]
    <3>1. row.name = name /\ row.ip = ip
      OBVIOUS
    <3>2. users' = users \cup {row}
      BY <2>1 DEF CreateUser
    <3>3. /\ \A r \in users \cup userGroups : r.name # name
          /\ \A r \in users \cup services : r.ip # ip
      BY <2>1 DEF CreateUser, PrincipalNameFree, AddrFree
    <3> HIDE DEF row
    <3> QED
      BY <3>1, <3>2, <3>3, UniqueInsert
  <2>2. ASSUME NEW u \in users, NEW name \in Names, UpdateUser(u, name) PROVE Goal
    <3> DEFINE new == [u EXCEPT !.name = name]
    <3>1. new.name = name /\ new.ip = u.ip
      BY DEF TypeOK, User
    <3>2. users' = Swap(users, u, new)
      BY <2>2 DEF UpdateUser
    <3>3. name = u.name \/ \A r \in users \cup userGroups : r.name # name
      BY <2>2 DEF UpdateUser, PrincipalNameFree
    <3> HIDE DEF new
    <3> QED
      BY <3>1, <3>2, <3>3, UniqueSwap
  <2>3. ASSUME NEW u \in users, DeleteUser(u) PROVE Goal
    BY <2>3, UniqueSubset DEF DeleteUser
  <2> QED
    BY <2>1, <2>2, <2>3 DEF UserStep
<1>2. UNCHANGED <<userGroups, services, serviceGroups>>
  BY DEF UserStep, CreateUser, UpdateUser, DeleteUser
<1> QED
  BY <1>1, <1>2

\* So do the operations on user groups, for the name.
LEMMA UserGroupUnique == TypeOK /\ Uniqueness /\ UserGroupStep => Uniqueness'
<1> SUFFICES ASSUME TypeOK, Uniqueness, UserGroupStep PROVE Uniqueness'
  OBVIOUS
<1> USE DEF Uniqueness, NamesUnambiguous, AddressesUnique
<1> DEFINE Goal == UniqueAcross(userGroups', users, "name")
<1>1. UniqueAcross(userGroups, users, "name")
  BY UniqueSymmetric
<1>2. ASSUME NEW name \in Names, NEW lan \in BOOLEAN, CreateUserGroup(name, lan) PROVE Goal
  <2> DEFINE row == [id |-> Fresh("user_groups"), name |-> name, lan |-> lan]
  <2>1. row.name = name
    OBVIOUS
  <2>2. userGroups' = userGroups \cup {row}
    BY <1>2 DEF CreateUserGroup
  <2>3. \A r \in userGroups \cup users : r.name # name
    BY <1>2 DEF CreateUserGroup, PrincipalNameFree
  <2> HIDE DEF row
  <2> QED
    BY <1>1, <2>1, <2>2, <2>3, UniqueInsert
<1>3. ASSUME NEW g \in userGroups, NEW name \in Names, NEW lan \in BOOLEAN,
             UpdateUserGroup(g, name, lan)
      PROVE Goal
  <2> DEFINE new == [g EXCEPT !.name = name, !.lan = lan]
  <2>1. new.name = name
    BY DEF TypeOK, UserGroup
  <2>2. userGroups' = Swap(userGroups, g, new)
    BY <1>3 DEF UpdateUserGroup
  <2>3. name = g.name \/ \A r \in userGroups \cup users : r.name # name
    BY <1>3 DEF UpdateUserGroup, PrincipalNameFree
  <2> HIDE DEF new
  <2> QED
    BY <1>1, <2>1, <2>2, <2>3, UniqueSwap
<1>4. ASSUME NEW g \in userGroups, DeleteUserGroup(g) PROVE Goal
  BY <1>1, <1>4, UniqueSubset DEF DeleteUserGroup
<1>5. ASSUME NEW g \in userGroups, NEW u \in users, AddUserToGroup(g, u) PROVE Goal
  BY <1>1, <1>5 DEF AddUserToGroup, entityVars
<1>6. ASSUME NEW g, NEW u, RemoveUserFromGroup(g, u) PROVE Goal
  BY <1>1, <1>6 DEF RemoveUserFromGroup, entityVars
<1>7. Goal
  BY <1>2, <1>3, <1>4, <1>5, <1>6 DEF UserGroupStep
<1>8. UNCHANGED <<users, services, serviceGroups>>
  BY DEF UserGroupStep, CreateUserGroup, UpdateUserGroup, DeleteUserGroup, AddUserToGroup,
         RemoveUserFromGroup, entityVars
<1> QED
  BY <1>7, <1>8, UniqueSymmetric

\* So do the operations on service groups.
LEMMA ServiceGroupUnique == TypeOK /\ Uniqueness /\ ServiceGroupStep => Uniqueness'
<1> SUFFICES ASSUME TypeOK, Uniqueness, ServiceGroupStep PROVE Uniqueness'
  OBVIOUS
<1> USE DEF Uniqueness, NamesUnambiguous, AddressesUnique
<1> DEFINE Goal == UniqueAcross(serviceGroups', services, "name")
<1>1. UniqueAcross(serviceGroups, services, "name")
  BY UniqueSymmetric
<1>2. ASSUME NEW name \in Names, CreateServiceGroup(name) PROVE Goal
  <2> DEFINE row == [id |-> Fresh("service_groups"), name |-> name]
  <2>1. row.name = name
    OBVIOUS
  <2>2. serviceGroups' = serviceGroups \cup {row}
    BY <1>2 DEF CreateServiceGroup
  <2>3. \A r \in serviceGroups \cup services : r.name # name
    BY <1>2 DEF CreateServiceGroup, ObjectNameFree
  <2> HIDE DEF row
  <2> QED
    BY <1>1, <2>1, <2>2, <2>3, UniqueInsert
<1>3. ASSUME NEW g \in serviceGroups, NEW name \in Names, UpdateServiceGroup(g, name)
      PROVE Goal
  <2> DEFINE new == [g EXCEPT !.name = name]
  <2>1. new.name = name
    BY DEF TypeOK, ServiceGroup
  <2>2. serviceGroups' = Swap(serviceGroups, g, new)
    BY <1>3 DEF UpdateServiceGroup
  <2>3. name = g.name \/ \A r \in serviceGroups \cup services : r.name # name
    BY <1>3 DEF UpdateServiceGroup, ObjectNameFree
  <2> HIDE DEF new
  <2> QED
    BY <1>1, <2>1, <2>2, <2>3, UniqueSwap
<1>4. ASSUME NEW g \in serviceGroups, DeleteServiceGroup(g) PROVE Goal
  BY <1>1, <1>4, UniqueSubset DEF DeleteServiceGroup
<1>5. ASSUME NEW g \in serviceGroups, NEW s \in services, AddServiceToGroup(g, s) PROVE Goal
  BY <1>1, <1>5 DEF AddServiceToGroup, entityVars
<1>6. ASSUME NEW g, NEW s, RemoveServiceFromGroup(g, s) PROVE Goal
  BY <1>1, <1>6 DEF RemoveServiceFromGroup, entityVars
<1>7. Goal
  BY <1>2, <1>3, <1>4, <1>5, <1>6 DEF ServiceGroupStep
<1>8. UNCHANGED <<users, userGroups, services>>
  BY DEF ServiceGroupStep, CreateServiceGroup, UpdateServiceGroup, DeleteServiceGroup,
         AddServiceToGroup, RemoveServiceFromGroup, entityVars
<1> QED
  BY <1>7, <1>8, UniqueSymmetric

\* CreateService and UpdateService check name, address and hostname.
LEMMA ServiceUnique == TypeOK /\ Uniqueness /\ ServiceStep => Uniqueness'
<1> SUFFICES ASSUME TypeOK, Uniqueness, ServiceStep PROVE Uniqueness'
  OBVIOUS
<1> USE DEF Uniqueness, NamesUnambiguous, AddressesUnique
<1> DEFINE Goal == /\ UniqueAcross(services', serviceGroups, "name")
                   /\ UniqueAcross(services', users, "ip")
                   /\ UniqueAcross(services', {}, "hostname")
<1>1. /\ UniqueAcross(services, users, "ip")
      /\ UniqueAcross(services, {}, "hostname")
  BY UniqueSymmetric DEF UniqueAcross, Distinct
<1>2. ASSUME NEW name \in Names, NEW hostname \in Hostnames, NEW origin \in Origins,
             NEW ip \in Addrs, NEW ports \in PortSets,
             CreateService(name, hostname, origin, ip, ports)
      PROVE Goal
  <2> DEFINE row == [id |-> Fresh("services"), name |-> name, hostname |-> hostname,
                     origin |-> origin, ip |-> ip, ports |-> ports]
  <2>1. row.name = name /\ row.ip = ip /\ row.hostname = hostname
    OBVIOUS
  <2>2. services' = services \cup {row}
    BY <1>2 DEF CreateService
  <2>3. /\ \A r \in services \cup serviceGroups : r.name # name
        /\ \A r \in services \cup users : r.ip # ip
        /\ \A r \in services : r.hostname # hostname
    BY <1>2 DEF CreateService, ObjectNameFree, AddrFree, HostnameFree
  <2> HIDE DEF row
  <2> QED
    BY <1>1, <2>1, <2>2, <2>3, UniqueInsert
<1>3. ASSUME NEW s \in services, NEW name \in Names, NEW hostname \in Hostnames,
             NEW origin \in Origins, NEW ip \in Addrs, NEW ports \in PortSets,
             UpdateService(s, name, hostname, origin, ip, ports)
      PROVE Goal
  <2> DEFINE new == [s EXCEPT !.name = name, !.hostname = hostname, !.origin = origin,
                              !.ip = ip, !.ports = ports]
  <2>1. new.name = name /\ new.ip = ip /\ new.hostname = hostname
    BY DEF TypeOK, Service
  <2>2. services' = Swap(services, s, new)
    BY <1>3 DEF UpdateService
  <2>3. /\ name = s.name \/ \A r \in services \cup serviceGroups : r.name # name
        /\ ip = s.ip \/ \A r \in services \cup users : r.ip # ip
        /\ hostname = s.hostname \/ \A r \in services : r.hostname # hostname
    BY <1>3 DEF UpdateService, ObjectNameFree, AddrFree, HostnameFree
  <2> HIDE DEF new
  <2> QED
    BY <1>1, <2>1, <2>2, <2>3, UniqueSwap
<1>4. ASSUME NEW s \in services, DeleteService(s) PROVE Goal
  BY <1>1, <1>4, UniqueSubset DEF DeleteService
<1>5. Goal
  BY <1>2, <1>3, <1>4 DEF ServiceStep
<1>6. UNCHANGED <<users, userGroups, serviceGroups>>
  BY DEF ServiceStep, CreateService, UpdateService, DeleteService
<1>7. Distinct(services', "hostname")
  BY <1>5 DEF UniqueAcross
<1> QED
  BY <1>5, <1>6, <1>7, UniqueSymmetric

\* Every transaction keeps names, addresses and hostnames unique.
LEMMA StoreUniqueness == TypeOK /\ Uniqueness /\ [StoreNext]_storeVars => Uniqueness'
<1>1. PolicyStep \/ UNCHANGED storeVars => UNCHANGED <<users, userGroups, services, serviceGroups>>
  BY DEF PolicyStep, CreatePolicy, DeletePolicy, storeVars, entityVars
<1>2. UNCHANGED <<users, userGroups, services, serviceGroups>> /\ Uniqueness => Uniqueness'
  BY DEF Uniqueness, NamesUnambiguous, AddressesUnique
<1> QED
  BY <1>1, <1>2, UserUnique, UserGroupUnique, ServiceUnique, ServiceGroupUnique DEF StoreNext

\* They are unique in every state of the database.
LEMMA StoreUniquenessAlways == StoreSpec => []Uniqueness
<1>1. StoreInit => Uniqueness
  BY DEF StoreInit, Uniqueness, NamesUnambiguous, AddressesUnique, UniqueAcross, Distinct
<1> QED
  BY <1>1, StoreUniqueness, StoreTypeOK, PTL DEF StoreSpec

\* checkNameAvailable: one name, one row, in each of the two namespaces that
\* span two tables.
THEOREM StoreNamesUnambiguous == StoreSpec => []NamesUnambiguous
<1>1. Uniqueness => NamesUnambiguous
  BY DEF Uniqueness
<1> QED
  BY <1>1, StoreUniquenessAlways, PTL

\* checkIPAvailable: users and services never share an address.
THEOREM StoreAddressesUnique == StoreSpec => []AddressesUnique
<1>1. Uniqueness => AddressesUnique
  BY DEF Uniqueness
<1> QED
  BY <1>1, StoreUniquenessAlways, PTL

-----------------------------------------------------------------------------
(* References *)

Integrity == RulesReferToLiveRows /\ MembershipsReferToLiveRows

\* A rewritten row keeps its id: a table has the ids it had.
LEMMA SwapIds ==
    ASSUME NEW T, NEW old \in T, NEW new, new.id = old.id
    PROVE Ids(Swap(T, old, new)) = Ids(T)
  BY DEF Swap, Ids

\* Deleting one row leaves the ids of all others.
LEMMA RemoveIds ==
    ASSUME NEW T, NEW row \in T, NEW id \in Ids(T), id # row.id
    PROVE id \in Ids(T \ {row})
  BY DEF Ids

\* Tables that lose no id keep every reference alive.
LEMMA GrowingTablesKeepIntegrity ==
    ASSUME Integrity,
           Ids(users) \subseteq Ids(users'), Ids(userGroups) \subseteq Ids(userGroups'),
           Ids(services) \subseteq Ids(services'),
           Ids(serviceGroups) \subseteq Ids(serviceGroups'),
           UNCHANGED <<rules, userMembers, serviceMembers>>
    PROVE Integrity'
  BY DEF Integrity, RulesReferToLiveRows, MembershipsReferToLiveRows, Exists

\* DeleteUser leaves no membership and no rule behind.
LEMMA UserIntegrity == TypeOK /\ Integrity /\ UserStep => Integrity'
<1> SUFFICES ASSUME TypeOK, Integrity, UserStep PROVE Integrity'
  OBVIOUS
<1>1. ASSUME NEW name \in Names, NEW ip \in Addrs, CreateUser(name, ip) PROVE Integrity'
  <2>1. users \subseteq users'
    BY <1>1 DEF CreateUser
  <2>2. Ids(users) \subseteq Ids(users')
    BY <2>1 DEF Ids
  <2> QED
    BY <1>1, <2>2, GrowingTablesKeepIntegrity DEF CreateUser, memberVars
<1>2. ASSUME NEW u \in users, NEW name \in Names, UpdateUser(u, name) PROVE Integrity'
  <2>1. [u EXCEPT !.name = name].id = u.id
    BY DEF TypeOK, User
  <2>2. Ids(users') = Ids(users)
    BY <1>2, <2>1, SwapIds DEF UpdateUser
  <2> QED
    BY <1>2, <2>2, GrowingTablesKeepIntegrity DEF UpdateUser, memberVars
<1>3. ASSUME NEW u \in users, DeleteUser(u) PROVE Integrity'
  <2>1. /\ rules' = {r \in rules : r.subject # Ref("user", u.id) /\ r.object # Ref("user", u.id)}
        /\ userMembers' = {m \in userMembers : m.member # u.id}
        /\ UNCHANGED <<userGroups, services, serviceGroups, serviceMembers>>
    BY <1>3 DEF DeleteUser, Scrub
  <2>2. \A id \in Ids(users) : id # u.id => id \in Ids(users')
    BY <1>3, RemoveIds DEF DeleteUser
  <2>3. RulesReferToLiveRows'
    BY <2>1, <2>2 DEF Integrity, RulesReferToLiveRows, Exists, Ref, TypeOK, PolicyRule,
                      Subjects, Objects
  <2>4. MembershipsReferToLiveRows'
    BY <2>1, <2>2 DEF Integrity, MembershipsReferToLiveRows
  <2> QED
    BY <2>3, <2>4 DEF Integrity
<1> QED
  BY <1>1, <1>2, <1>3 DEF UserStep

\* Neither does DeleteUserGroup; a member is added to a group that exists.
LEMMA UserGroupIntegrity == TypeOK /\ Integrity /\ UserGroupStep => Integrity'
<1> SUFFICES ASSUME TypeOK, Integrity, UserGroupStep PROVE Integrity'
  OBVIOUS
<1>1. ASSUME NEW name \in Names, NEW lan \in BOOLEAN, CreateUserGroup(name, lan)
      PROVE Integrity'
  <2>1. userGroups \subseteq userGroups'
    BY <1>1 DEF CreateUserGroup
  <2>2. Ids(userGroups) \subseteq Ids(userGroups')
    BY <2>1 DEF Ids
  <2> QED
    BY <1>1, <2>2, GrowingTablesKeepIntegrity DEF CreateUserGroup, memberVars
<1>2. ASSUME NEW g \in userGroups, NEW name \in Names, NEW lan \in BOOLEAN,
             UpdateUserGroup(g, name, lan)
      PROVE Integrity'
  <2>1. [g EXCEPT !.name = name, !.lan = lan].id = g.id
    BY DEF TypeOK, UserGroup
  <2>2. Ids(userGroups') = Ids(userGroups)
    BY <1>2, <2>1, SwapIds DEF UpdateUserGroup
  <2> QED
    BY <1>2, <2>2, GrowingTablesKeepIntegrity DEF UpdateUserGroup, memberVars
<1>3. ASSUME NEW g \in userGroups, DeleteUserGroup(g) PROVE Integrity'
  <2>1. /\ rules' = {r \in rules : /\ r.subject # Ref("user_group", g.id)
                                   /\ r.object # Ref("user_group", g.id)}
        /\ userMembers' = {m \in userMembers : m.group # g.id}
        /\ UNCHANGED <<users, services, serviceGroups, serviceMembers>>
    BY <1>3 DEF DeleteUserGroup, Scrub
  <2>2. \A id \in Ids(userGroups) : id # g.id => id \in Ids(userGroups')
    BY <1>3, RemoveIds DEF DeleteUserGroup
  <2>3. RulesReferToLiveRows'
    BY <2>1, <2>2 DEF Integrity, RulesReferToLiveRows, Exists, Ref, TypeOK, PolicyRule,
                      Subjects, Objects
  <2>4. MembershipsReferToLiveRows'
    BY <2>1, <2>2 DEF Integrity, MembershipsReferToLiveRows
  <2> QED
    BY <2>3, <2>4 DEF Integrity
<1>4. ASSUME NEW g \in userGroups, NEW u \in users, AddUserToGroup(g, u) PROVE Integrity'
  <2>1. u.id \in Ids(users) /\ g.id \in Ids(userGroups)
    BY DEF Ids
  <2> QED
    BY <1>4, <2>1 DEF AddUserToGroup, entityVars, Integrity, RulesReferToLiveRows, Exists,
                      MembershipsReferToLiveRows
<1>5. ASSUME NEW g, NEW u, RemoveUserFromGroup(g, u) PROVE Integrity'
  BY <1>5 DEF RemoveUserFromGroup, entityVars, Integrity, RulesReferToLiveRows, Exists,
              MembershipsReferToLiveRows
<1> QED
  BY <1>1, <1>2, <1>3, <1>4, <1>5 DEF UserGroupStep

\* Neither does DeleteService.
LEMMA ServiceIntegrity == TypeOK /\ Integrity /\ ServiceStep => Integrity'
<1> SUFFICES ASSUME TypeOK, Integrity, ServiceStep PROVE Integrity'
  OBVIOUS
<1>1. ASSUME NEW name \in Names, NEW hostname \in Hostnames, NEW origin \in Origins,
             NEW ip \in Addrs, NEW ports \in PortSets,
             CreateService(name, hostname, origin, ip, ports)
      PROVE Integrity'
  <2>1. services \subseteq services'
    BY <1>1 DEF CreateService
  <2>2. Ids(services) \subseteq Ids(services')
    BY <2>1 DEF Ids
  <2> QED
    BY <1>1, <2>2, GrowingTablesKeepIntegrity DEF CreateService, memberVars
<1>2. ASSUME NEW s \in services, NEW name \in Names, NEW hostname \in Hostnames,
             NEW origin \in Origins, NEW ip \in Addrs, NEW ports \in PortSets,
             UpdateService(s, name, hostname, origin, ip, ports)
      PROVE Integrity'
  <2> DEFINE new == [s EXCEPT !.name = name, !.hostname = hostname, !.origin = origin,
                              !.ip = ip, !.ports = ports]
  <2>1. new.id = s.id
    BY DEF TypeOK, Service
  <2>2. services' = Swap(services, s, new)
    BY <1>2 DEF UpdateService
  <2> HIDE DEF new
  <2>3. Ids(services') = Ids(services)
    BY <2>1, <2>2, SwapIds
  <2> QED
    BY <1>2, <2>3, GrowingTablesKeepIntegrity DEF UpdateService, memberVars
<1>3. ASSUME NEW s \in services, DeleteService(s) PROVE Integrity'
  <2>1. /\ rules' = {r \in rules : /\ r.subject # Ref("service", s.id)
                                   /\ r.object # Ref("service", s.id)}
        /\ serviceMembers' = {m \in serviceMembers : m.member # s.id}
        /\ UNCHANGED <<users, userGroups, serviceGroups, userMembers>>
    BY <1>3 DEF DeleteService, Scrub
  <2>2. \A id \in Ids(services) : id # s.id => id \in Ids(services')
    BY <1>3, RemoveIds DEF DeleteService
  <2>3. RulesReferToLiveRows'
    BY <2>1, <2>2 DEF Integrity, RulesReferToLiveRows, Exists, Ref, TypeOK, PolicyRule,
                      Subjects, Objects
  <2>4. MembershipsReferToLiveRows'
    BY <2>1, <2>2 DEF Integrity, MembershipsReferToLiveRows
  <2> QED
    BY <2>3, <2>4 DEF Integrity
<1> QED
  BY <1>1, <1>2, <1>3 DEF ServiceStep

\* Neither does DeleteServiceGroup.
LEMMA ServiceGroupIntegrity == TypeOK /\ Integrity /\ ServiceGroupStep => Integrity'
<1> SUFFICES ASSUME TypeOK, Integrity, ServiceGroupStep PROVE Integrity'
  OBVIOUS
<1>1. ASSUME NEW name \in Names, CreateServiceGroup(name) PROVE Integrity'
  <2>1. serviceGroups \subseteq serviceGroups'
    BY <1>1 DEF CreateServiceGroup
  <2>2. Ids(serviceGroups) \subseteq Ids(serviceGroups')
    BY <2>1 DEF Ids
  <2> QED
    BY <1>1, <2>2, GrowingTablesKeepIntegrity DEF CreateServiceGroup, memberVars
<1>2. ASSUME NEW g \in serviceGroups, NEW name \in Names, UpdateServiceGroup(g, name)
      PROVE Integrity'
  <2>1. [g EXCEPT !.name = name].id = g.id
    BY DEF TypeOK, ServiceGroup
  <2>2. Ids(serviceGroups') = Ids(serviceGroups)
    BY <1>2, <2>1, SwapIds DEF UpdateServiceGroup
  <2> QED
    BY <1>2, <2>2, GrowingTablesKeepIntegrity DEF UpdateServiceGroup, memberVars
<1>3. ASSUME NEW g \in serviceGroups, DeleteServiceGroup(g) PROVE Integrity'
  <2>1. /\ rules' = {r \in rules : /\ r.subject # Ref("service_group", g.id)
                                   /\ r.object # Ref("service_group", g.id)}
        /\ serviceMembers' = {m \in serviceMembers : m.group # g.id}
        /\ UNCHANGED <<users, userGroups, services, userMembers>>
    BY <1>3 DEF DeleteServiceGroup, Scrub
  <2>2. \A id \in Ids(serviceGroups) : id # g.id => id \in Ids(serviceGroups')
    BY <1>3, RemoveIds DEF DeleteServiceGroup
  <2>3. RulesReferToLiveRows'
    BY <2>1, <2>2 DEF Integrity, RulesReferToLiveRows, Exists, Ref, TypeOK, PolicyRule,
                      Subjects, Objects
  <2>4. MembershipsReferToLiveRows'
    BY <2>1, <2>2 DEF Integrity, MembershipsReferToLiveRows
  <2> QED
    BY <2>3, <2>4 DEF Integrity
<1>4. ASSUME NEW g \in serviceGroups, NEW s \in services, AddServiceToGroup(g, s)
      PROVE Integrity'
  <2>1. s.id \in Ids(services) /\ g.id \in Ids(serviceGroups)
    BY DEF Ids
  <2> QED
    BY <1>4, <2>1 DEF AddServiceToGroup, entityVars, Integrity, RulesReferToLiveRows, Exists,
                      MembershipsReferToLiveRows
<1>5. ASSUME NEW g, NEW s, RemoveServiceFromGroup(g, s) PROVE Integrity'
  BY <1>5 DEF RemoveServiceFromGroup, entityVars, Integrity, RulesReferToLiveRows, Exists,
              MembershipsReferToLiveRows
<1> QED
  BY <1>1, <1>2, <1>3, <1>4, <1>5 DEF ServiceGroupStep

\* CreatePolicy writes a rule on rows that exist (assertExists).
LEMMA PolicyIntegrity == TypeOK /\ Integrity /\ PolicyStep => Integrity'
<1> SUFFICES ASSUME TypeOK, Integrity, PolicyStep PROVE Integrity'
  OBVIOUS
<1>1. UNCHANGED <<users, userGroups, services, serviceGroups, userMembers, serviceMembers>>
  BY DEF PolicyStep, CreatePolicy, DeletePolicy, entityVars, memberVars
<1>2. MembershipsReferToLiveRows'
  BY <1>1 DEF Integrity, MembershipsReferToLiveRows
<1>3. ASSUME NEW subject, NEW object, NEW action, CreatePolicy(subject, object, action),
             NEW q \in rules'
      PROVE Exists(q.subject) /\ Exists(q.object)
  <2>1. Exists(subject) /\ Exists(object)
    BY <1>3 DEF CreatePolicy
  <2>2. ASSUME NEW r \in rules, SamePair(r, subject, object), RewriteRule(r, action)
        PROVE Exists(q.subject) /\ Exists(q.object)
    <3> DEFINE new == [r EXCEPT !.action = action, !.updated = clock + 1]
    <3>1. new.subject = r.subject /\ new.object = r.object
      BY DEF TypeOK, PolicyRule
    <3>2. q \in rules \/ q = new
      BY <1>3, <2>2 DEF RewriteRule, Swap
    <3> HIDE DEF new
    <3> QED
      BY <3>1, <3>2 DEF Integrity, RulesReferToLiveRows
  <2>3. ASSUME InsertRule(subject, object, action)
        PROVE Exists(q.subject) /\ Exists(q.object)
    BY <1>3, <2>1, <2>3 DEF InsertRule, Integrity, RulesReferToLiveRows
  <2> QED
    BY <1>3, <2>2, <2>3 DEF CreatePolicy
<1>4. ASSUME NEW r \in rules, DeletePolicy(r), NEW q \in rules'
      PROVE Exists(q.subject) /\ Exists(q.object)
  BY <1>4 DEF DeletePolicy, Integrity, RulesReferToLiveRows
<1>5. \A q \in rules' : Exists(q.subject) /\ Exists(q.object)
  BY <1>3, <1>4 DEF PolicyStep
<1>6. RulesReferToLiveRows'
  BY <1>1, <1>5 DEF RulesReferToLiveRows, Exists
<1> QED
  BY <1>2, <1>6 DEF Integrity

\* No transaction leaves a dangling reference ...
LEMMA StepIntegrity == TypeOK /\ Integrity /\ [StoreNext]_storeVars => Integrity'
<1>1. Integrity /\ UNCHANGED storeVars => Integrity'
  BY DEF storeVars, entityVars, memberVars, Integrity, RulesReferToLiveRows, Exists,
         MembershipsReferToLiveRows
<1> QED
  BY <1>1, UserIntegrity, UserGroupIntegrity, ServiceIntegrity, ServiceGroupIntegrity,
     PolicyIntegrity DEF StoreNext

\* ... and so no state of the database has one.
LEMMA StoreIntegrity == StoreSpec => []Integrity
<1>1. StoreInit => Integrity
  BY DEF StoreInit, Integrity, RulesReferToLiveRows, MembershipsReferToLiveRows
<1> QED
  BY <1>1, StepIntegrity, StoreTypeOK, PTL DEF StoreSpec

\* The scrubs and assertExists do for policy_rules what foreign keys would.
THEOREM StoreRulesReferToLiveRows == StoreSpec => []RulesReferToLiveRows
<1>1. Integrity => RulesReferToLiveRows
  BY DEF Integrity
<1> QED
  BY <1>1, StoreIntegrity, PTL

\* No membership outlives its user, service or group.
THEOREM StoreMembershipsReferToLiveRows == StoreSpec => []MembershipsReferToLiveRows
<1>1. Integrity => MembershipsReferToLiveRows
  BY DEF Integrity
<1> QED
  BY <1>1, StoreIntegrity, PTL

-----------------------------------------------------------------------------
(* Rules *)

\* Outside CreatePolicy, rules are only dropped.
LEMMA RulesOnlyDropped ==
    [StoreNext]_storeVars => rules' \subseteq rules \/ PolicyStep
  BY DEF StoreNext, UserStep, UserGroupStep, ServiceStep, ServiceGroupStep, storeVars,
         CreateUser, UpdateUser, DeleteUser, CreateUserGroup, UpdateUserGroup,
         DeleteUserGroup, AddUserToGroup, RemoveUserFromGroup, CreateServiceGroup,
         UpdateServiceGroup, DeleteServiceGroup, AddServiceToGroup,
         RemoveServiceFromGroup, CreateService, UpdateService, DeleteService, Scrub

\* CreatePolicy inserts a rule only for a pair that has none.
LEMMA StoreOneRule == TypeOK /\ OneRulePerPair /\ [StoreNext]_storeVars => OneRulePerPair'
<1> SUFFICES ASSUME TypeOK, OneRulePerPair, [StoreNext]_storeVars PROVE OneRulePerPair'
  OBVIOUS
<1>1. ASSUME rules' \subseteq rules PROVE OneRulePerPair'
  BY <1>1 DEF OneRulePerPair, SamePair
<1>2. ASSUME NEW subject, NEW object, NEW action, CreatePolicy(subject, object, action)
      PROVE OneRulePerPair'
  <2>1. ASSUME NEW r \in rules, RewriteRule(r, action) PROVE OneRulePerPair'
    <3> DEFINE new == [r EXCEPT !.action = action, !.updated = clock + 1]
    <3>1. new.subject = r.subject /\ new.object = r.object
      BY DEF TypeOK, PolicyRule
    <3>2. rules' = Swap(rules, r, new)
      BY <2>1 DEF RewriteRule
    <3> HIDE DEF new
    <3> QED
      BY <3>1, <3>2 DEF OneRulePerPair, SamePair, Swap
  <2>2. ASSUME \A r \in rules : ~SamePair(r, subject, object),
               InsertRule(subject, object, action)
        PROVE OneRulePerPair'
    <3> DEFINE row == [id |-> Fresh("policy_rules"), subject |-> subject,
                       object |-> object, action |-> action, updated |-> clock + 1]
    <3>1. row.subject = subject /\ row.object = object
      OBVIOUS
    <3>2. rules' = rules \cup {row}
      BY <2>2 DEF InsertRule
    <3> HIDE DEF row
    <3> QED
      BY <2>2, <3>1, <3>2 DEF OneRulePerPair, SamePair
  <2> QED
    BY <1>2, <2>1, <2>2 DEF CreatePolicy
<1>3. ASSUME NEW r \in rules, DeletePolicy(r) PROVE OneRulePerPair'
  BY <1>1, <1>3 DEF DeletePolicy
<1> QED
  BY <1>1, <1>2, <1>3, RulesOnlyDropped DEF PolicyStep

\* The upsert stands in for a unique index on (subject, object).
THEOREM StoreOneRulePerPair == StoreSpec => []OneRulePerPair
<1>1. StoreInit => OneRulePerPair
  BY DEF StoreInit, OneRulePerPair
<1> QED
  BY <1>1, StoreOneRule, StoreTypeOK, PTL DEF StoreSpec

\* A rule that a scrub drops has lost one of its ends: the type that the scrub
\* matches is the type of the deleted row.
ScrubbedOnlyIf(r) ==
    \/ r.id \in {q.id : q \in rules'}
    \/ ~Exists(r.subject)'
    \/ ~Exists(r.object)'
    \/ rules' = rules \ {r}

\* A rule that a scrub drops names the row that is scrubbed, which is gone.
LEMMA ScrubDropsDangling ==
    ASSUME NEW ref, Scrub(ref), ~Exists(ref)', NEW r \in rules
    PROVE ScrubbedOnlyIf(r)
<1>1. CASE r.subject = ref \/ r.object = ref
  BY <1>1 DEF ScrubbedOnlyIf, Exists
<1>2. CASE r.subject # ref /\ r.object # ref
  BY <1>2 DEF ScrubbedOnlyIf, Scrub
<1> QED
  BY <1>1, <1>2

\* No second row has the id of the deleted one.
LEMMA RemovedIdGone ==
    ASSUME NEW T, NEW n, Keyed(T, n), NEW row \in T
    PROVE row.id \notin Ids(T \ {row})
  BY DEF Keyed, Ids

\* Each deletion scrubs the rules of its own row, by type and id.
LEMMA DeletesScrub ==
    ASSUME KeysUnique, NEW ref, Scrub(ref),
           \/ \E u \in users : ref = Ref("user", u.id) /\ users' = users \ {u}
           \/ \E g \in userGroups :
                 ref = Ref("user_group", g.id) /\ userGroups' = userGroups \ {g}
           \/ \E s \in services : ref = Ref("service", s.id) /\ services' = services \ {s}
           \/ \E g \in serviceGroups :
                 ref = Ref("service_group", g.id) /\ serviceGroups' = serviceGroups \ {g},
           NEW r \in rules
    PROVE ScrubbedOnlyIf(r)
<1>1. ~Exists(ref)'
  BY RemovedIdGone DEF KeysUnique, Ref, Exists
<1> QED
  BY <1>1, ScrubDropsDangling

\* Whichever operation drops a rule had a reason to.
LEMMA ScrubSteps ==
    ASSUME TypeOK, KeysUnique, StoreNext, NEW r \in rules
    PROVE ScrubbedOnlyIf(r)
<1>1. ASSUME r \in rules' PROVE ScrubbedOnlyIf(r)
  BY <1>1 DEF ScrubbedOnlyIf
<1>2. CASE UserStep
  <2>1. ASSUME NEW u \in users, DeleteUser(u) PROVE ScrubbedOnlyIf(r)
    BY <2>1, DeletesScrub DEF DeleteUser
  <2> QED
    BY <1>1, <1>2, <2>1 DEF UserStep, CreateUser, UpdateUser
<1>3. CASE UserGroupStep
  <2>1. ASSUME NEW g \in userGroups, DeleteUserGroup(g) PROVE ScrubbedOnlyIf(r)
    BY <2>1, DeletesScrub DEF DeleteUserGroup
  <2> QED
    BY <1>1, <1>3, <2>1 DEF UserGroupStep, CreateUserGroup, UpdateUserGroup,
                            AddUserToGroup, RemoveUserFromGroup
<1>4. CASE ServiceStep
  <2>1. ASSUME NEW s \in services, DeleteService(s) PROVE ScrubbedOnlyIf(r)
    BY <2>1, DeletesScrub DEF DeleteService
  <2> QED
    BY <1>1, <1>4, <2>1 DEF ServiceStep, CreateService, UpdateService
<1>5. CASE ServiceGroupStep
  <2>1. ASSUME NEW g \in serviceGroups, DeleteServiceGroup(g) PROVE ScrubbedOnlyIf(r)
    BY <2>1, DeletesScrub DEF DeleteServiceGroup
  <2> QED
    BY <1>1, <1>5, <2>1 DEF ServiceGroupStep, CreateServiceGroup, UpdateServiceGroup,
                            AddServiceToGroup, RemoveServiceFromGroup
<1>6. CASE PolicyStep
  <2>1. ASSUME NEW q \in rules, DeletePolicy(q) PROVE ScrubbedOnlyIf(r)
    BY <1>1, <2>1 DEF DeletePolicy, ScrubbedOnlyIf
  <2>2. ASSUME NEW subject, NEW object, NEW action, CreatePolicy(subject, object, action)
        PROVE ScrubbedOnlyIf(r)
    <3>1. ASSUME NEW q \in rules, RewriteRule(q, action) PROVE ScrubbedOnlyIf(r)
      <4> DEFINE new == [q EXCEPT !.action = action, !.updated = clock + 1]
      <4>1. new.id = q.id /\ rules' = Swap(rules, q, new)
        BY <3>1 DEF TypeOK, PolicyRule, RewriteRule
      <4> HIDE DEF new
      <4> QED
        BY <1>1, <4>1 DEF Swap, ScrubbedOnlyIf
    <3>2. ASSUME InsertRule(subject, object, action) PROVE ScrubbedOnlyIf(r)
      BY <1>1, <3>2 DEF InsertRule
    <3> QED
      BY <2>2, <3>1, <3>2 DEF CreatePolicy
  <2> QED
    BY <1>6, <2>1, <2>2 DEF PolicyStep
<1> QED
  BY <1>2, <1>3, <1>4, <1>5, <1>6 DEF StoreNext

\* Deleting user 1 never drops a rule of group 1: a rule that goes has lost an
\* end, or was the one rule the operator deleted.
THEOREM StoreScrubIsExact == StoreSpec => ScrubIsExact
<1>1. TypeOK /\ KeysUnique /\ [StoreNext]_storeVars =>
          [\A r \in rules :
              \/ r.id \in {q.id : q \in rules'}
              \/ ~Exists(r.subject)'
              \/ ~Exists(r.object)'
              \/ rules' = rules \ {r}]_storeVars
  BY ScrubSteps DEF ScrubbedOnlyIf
<1> QED
  BY <1>1, StoreTypeOK, StoreKeysUnique, PTL DEF StoreSpec, ScrubIsExact

\* Every transaction keeps them all, whichever program runs it.
LEMMA StepInvariant == StoreInv /\ [StoreNext]_storeVars => StoreInv'
BY StepTypes, StepKeys, StoreUniqueness, StepIntegrity, StoreOneRule
   DEF StoreInv, Uniqueness, Integrity

\* The whole invariant of the database.
THEOREM StoreInvariant == StoreSpec => []StoreInv
  BY StoreTypeOK, StoreKeysUnique, StoreNamesUnambiguous, StoreAddressesUnique,
     StoreRulesReferToLiveRows, StoreMembershipsReferToLiveRows, StoreOneRulePerPair, PTL
     DEF StoreInv

-----------------------------------------------------------------------------
(* What it means for access                                                 *)

\* In an index an address leads to one user, and an address to one service.
OneRowPerAddress(idx) ==
    /\ \A u, v \in idx.users : u.ip = v.ip => u = v
    /\ \A s, t \in idx.services : s.ip = t.ip => s = t

LEMMA ImageAddresses == StoreInv => OneRowPerAddress(Image)
<1> SUFFICES ASSUME AddressesUnique PROVE OneRowPerAddress(Image)
  BY DEF StoreInv
<1>1. \A u, v \in users : u.ip = v.ip => u = v
  BY DEF AddressesUnique, UniqueAcross, Distinct
<1>2. \A s, t \in services : s.ip = t.ip => s = t
  BY DEF AddressesUnique, UniqueAcross, Distinct
<1> QED BY <1>1, <1>2 DEF OneRowPerAddress, Image, UserSnapshot, ServiceSnapshot

\* CheckPeer of policy.go looks in the two directions at the same pair of users,
\* so that a LAN group they share, which has no direction, serves both or neither.
THEOREM StoreLANModeIsMutual == StoreSpec => []LANModeIsMutual
<1>1. StoreInv => LANModeIsMutual
  <2> SUFFICES ASSUME StoreInv, NEW u \in Image.users, NEW v \in Image.users,
                      NoRuleBetween(Image, u, v), NoRuleBetween(Image, v, u)
               PROVE  CheckPeer(Image, u.ip, v.ip) <=> CheckPeer(Image, v.ip, u.ip)
    BY DEF LANModeIsMutual
  <2>1. \A a, b \in Image.users : a.ip = b.ip => a = b
    BY ImageAddresses DEF OneRowPerAddress
  <2>2. CheckPeer(Image, u.ip, v.ip) <=> Reaches(Image, u.id, v.id)
    BY <2>1 DEF CheckPeer
  <2>3. CheckPeer(Image, v.ip, u.ip) <=> Reaches(Image, v.id, u.id)
    BY <2>1 DEF CheckPeer
  <2>4. ShareLANGroup(Image, u.id, v.id) <=> ShareLANGroup(Image, v.id, u.id)
    BY DEF ShareLANGroup
  <2> QED BY <2>2, <2>3, <2>4 DEF Reaches, NoRuleBetween
<1> QED BY <1>1, StoreInvariant, PTL

\* CreateUser and CreateService write their one row: no rule and no membership
\* comes with it.
LEMMA NewUserComesAlone ==
    ASSUME TypeOK, [StoreNext]_storeVars, NEW u \in users', IsNew(u, users)
    PROVE  UNCHANGED <<rules, userMembers, serviceMembers>>
<1>1. users' # users
  BY DEF IsNew, Ids
<1>2. UserStep
  BY <1>1 DEF StoreNext, storeVars, entityVars,
     UserGroupStep, CreateUserGroup, UpdateUserGroup, DeleteUserGroup, AddUserToGroup,
     RemoveUserFromGroup,
     ServiceStep, CreateService, UpdateService, DeleteService,
     ServiceGroupStep, CreateServiceGroup, UpdateServiceGroup, DeleteServiceGroup,
     AddServiceToGroup, RemoveServiceFromGroup,
     PolicyStep, CreatePolicy, DeletePolicy
<1>3. ASSUME NEW v \in users, NEW name \in Names, UpdateUser(v, name) PROVE FALSE
  <2>1. [v EXCEPT !.name = name].id = v.id
    BY DEF TypeOK, User
  <2> QED BY <1>3, <2>1 DEF UpdateUser, Swap, IsNew, Ids
<1>4. ASSUME NEW v \in users, DeleteUser(v) PROVE FALSE
  BY <1>4 DEF DeleteUser, IsNew, Ids
<1> QED BY <1>2, <1>3, <1>4 DEF UserStep, CreateUser, memberVars

LEMMA NewServiceComesAlone ==
    ASSUME TypeOK, [StoreNext]_storeVars, NEW s \in services', IsNew(s, services)
    PROVE  UNCHANGED <<rules, userMembers, serviceMembers>>
<1>1. services' # services
  BY DEF IsNew, Ids
<1>2. ServiceStep
  BY <1>1 DEF StoreNext, storeVars, entityVars,
     UserStep, CreateUser, UpdateUser, DeleteUser,
     UserGroupStep, CreateUserGroup, UpdateUserGroup, DeleteUserGroup, AddUserToGroup,
     RemoveUserFromGroup,
     ServiceGroupStep, CreateServiceGroup, UpdateServiceGroup, DeleteServiceGroup,
     AddServiceToGroup, RemoveServiceFromGroup,
     PolicyStep, CreatePolicy, DeletePolicy
<1>3. ASSUME NEW t \in services, NEW name, NEW hostname, NEW origin, NEW ip, NEW ports,
             UpdateService(t, name, hostname, origin, ip, ports)
      PROVE  FALSE
  <2> DEFINE new == [t EXCEPT !.name = name, !.hostname = hostname, !.origin = origin,
                              !.ip = ip, !.ports = ports]
  <2>1. new.id = t.id
    BY DEF TypeOK, Service
  <2>2. services' = Swap(services, t, new)
    BY <1>3 DEF UpdateService
  <2> HIDE DEF new
  <2> QED BY <2>1, <2>2 DEF Swap, IsNew, Ids
<1>4. ASSUME NEW t \in services, DeleteService(t) PROVE FALSE
  BY <1>4 DEF DeleteService, IsNew, Ids
<1> QED BY <1>2, <1>3, <1>4 DEF ServiceStep, CreateService, memberVars

\* Who is named by no rule and belongs to no group is denied: of an index, be it
\* of one moment or not.
LEMMA UnknownUserIsDenied ==
    ASSUME NEW idx, NEW id,
           \A r \in idx.rules : r.subject # Ref("user", id) /\ r.object # Ref("user", id),
           \A m \in idx.members : m.member # id
    PROVE  /\ \A objects : ~EvaluateExplicit(idx, UserRefs(idx, id), objects)
           /\ \A other : ~Reaches(idx, id, other) /\ ~Reaches(idx, other, id)
<1>1. UserRefs(idx, id) = {Ref("user", id)} /\ GroupsOf(idx.members, id) = {}
  BY DEF UserRefs, RefsOf, GroupsOf, Ref
<1>2. \A refs : Matching(idx, UserRefs(idx, id), refs) = {}
                /\ Matching(idx, refs, UserRefs(idx, id)) = {}
  BY <1>1 DEF Matching
<1>3. \A other : ~ShareLANGroup(idx, id, other) /\ ~ShareLANGroup(idx, other, id)
  BY <1>1 DEF ShareLANGroup
<1> QED BY <1>2, <1>3 DEF EvaluateExplicit, Reaches

LEMMA UnknownServiceIsDenied ==
    ASSUME NEW idx, NEW id, \A r \in idx.rules : r.object # Ref("service", id),
           \A m \in idx.svcMembers : m.member # id
    PROVE  \A subjects : ~EvaluateExplicit(idx, subjects, ServiceRefs(idx, id))
<1>1. ServiceRefs(idx, id) = {Ref("service", id)}
  BY DEF ServiceRefs, RefsOf, GroupsOf, Ref
<1> QED BY <1>1 DEF EvaluateExplicit, Matching

\* Nothing refers to an id that is not in its table.
LEMMA NobodyNamesAStranger ==
    ASSUME Integrity, NEW id
    PROVE  /\ id \notin Ids(users) =>
                 /\ \A r \in Image.rules : r.subject # Ref("user", id) /\ r.object # Ref("user", id)
                 /\ \A m \in Image.members : m.member # id
           /\ id \notin Ids(services) =>
                 /\ \A r \in Image.rules : r.object # Ref("service", id)
                 /\ \A m \in Image.svcMembers : m.member # id
<1>1. \A r \in rules : /\ id \notin Ids(users) => r.subject # Ref("user", id) /\ r.object # Ref("user", id)
                       /\ id \notin Ids(services) => r.object # Ref("service", id)
  BY DEF Integrity, RulesReferToLiveRows, Exists, Ref
<1>2. /\ \A m \in userMembers : m.member \in Ids(users)
      /\ \A m \in serviceMembers : m.member \in Ids(services)
  BY DEF Integrity, MembershipsReferToLiveRows
<1> QED BY <1>1, <1>2 DEF Image, RuleSnapshot

\* AllocateIP may give a new user or service an address that a deleted one had:
\* evaluateExplicit goes by ids, AUTOINCREMENT gives none twice, and the scrubs
\* left nothing behind, so what is new is denied everything.
THEOREM StoreFreshRowsStartDenied == StoreSpec => FreshRowsStartDenied
<1> DEFINE Denied ==
      /\ \A u \in users', s \in services' :
            (IsNew(u, users) \/ IsNew(s, services)) => ~CanUse(u, s)'
      /\ \A u, v \in users' : (IsNew(u, users) \/ IsNew(v, users)) => ~CanReach(u, v)'
<1>1. StoreInv /\ [StoreNext]_storeVars => Denied
  <2> SUFFICES ASSUME StoreInv, [StoreNext]_storeVars PROVE Denied
    OBVIOUS
  <2>1. TypeOK /\ Integrity /\ StoreInv'
    BY StepInvariant DEF StoreInv, Integrity
  <2>2. /\ \A u, v \in Image'.users : u.ip = v.ip => u = v
        /\ \A s, t \in Image'.services : s.ip = t.ip => s = t
    <3>1. OneRowPerAddress(Image)'
      BY <2>1, ImageAddresses, PTL
    <3> QED BY <3>1 DEF OneRowPerAddress
  <2>3. ASSUME UNCHANGED <<rules, userMembers, serviceMembers>>
        PROVE  /\ Image'.rules = Image.rules /\ Image'.members = Image.members
               /\ Image'.svcMembers = Image.svcMembers
    BY <2>3 DEF Image
  <2>4. ASSUME NEW u \in users'
        PROVE  \A a \in Image'.users : a.ip = u.ip => a.id = u.id
    <3>1. UserSnapshot(u) \in Image'.users
      BY <2>4 DEF Image
    <3> QED BY <2>2, <3>1 DEF UserSnapshot
  <2>5. ASSUME NEW s \in services'
        PROVE  \A a \in Image'.services : a.ip = s.ip => a.id = s.id
    <3>1. ServiceSnapshot(s) \in Image'.services
      BY <2>5 DEF Image
    <3> QED BY <2>2, <3>1 DEF ServiceSnapshot
  <2>6. ASSUME NEW u \in users', IsNew(u, users)
        PROVE  /\ \A objects : ~EvaluateExplicit(Image', UserRefs(Image', u.id), objects)
               /\ \A other : ~Reaches(Image', u.id, other) /\ ~Reaches(Image', other, u.id)
    <3>1. UNCHANGED <<rules, userMembers, serviceMembers>>
      BY <2>1, <2>6, NewUserComesAlone
    <3>2. u.id \notin Ids(users)
      BY <2>6 DEF IsNew
    <3> QED BY <2>1, <2>3, <3>1, <3>2, NobodyNamesAStranger, UnknownUserIsDenied
  <2>7. ASSUME NEW s \in services', IsNew(s, services)
        PROVE  \A subjects : ~EvaluateExplicit(Image', subjects, ServiceRefs(Image', s.id))
    <3>1. UNCHANGED <<rules, userMembers, serviceMembers>>
      BY <2>1, <2>7, NewServiceComesAlone
    <3>2. s.id \notin Ids(services)
      BY <2>7 DEF IsNew
    <3> QED BY <2>1, <2>3, <3>1, <3>2, NobodyNamesAStranger, UnknownServiceIsDenied
  <2>8. ASSUME NEW u \in users', NEW s \in services', IsNew(u, users) \/ IsNew(s, services),
               NEW port \in Ports
        PROVE  ~CheckService(Image', u.ip, s.ip, port)
    BY <2>4, <2>5, <2>6, <2>7, <2>8 DEF CheckService, Grants
  <2>9. ASSUME NEW u \in users', NEW v \in users', IsNew(u, users) \/ IsNew(v, users)
        PROVE  ~CheckPeer(Image', u.ip, v.ip)
    BY <2>4, <2>6, <2>9 DEF CheckPeer
  <2> QED BY <2>8, <2>9 DEF CanUse, CanReach
<1> QED BY <1>1, StoreInvariant, PTL DEF StoreSpec, FreshRowsStartDenied

-----------------------------------------------------------------------------
(* The loop of evaluateExplicit                                             *)

\* A set of numbers has a least one, and so holds a range it starts and continues
\* in: the induction that the proofs about the loop use.
LEMMA LeastNumber ==
    ASSUME NEW T \in SUBSET Nat, T # {}
    PROVE  \E x \in T : \A y \in T : x <= y
<1> DEFINE R == {ss \in Nat \X Nat : ss[1] < ss[2]}
<1>1. IsWellFoundedOn(R, Nat)
  BY NatLessThanWellFounded DEF OpToRel
<1>2. \A x, y \in Nat : x < y => <<x, y>> \in R
  OBVIOUS
<1> HIDE DEF R
<1>3. PICK x \in T : \A y \in T : <<y, x>> \notin R
  BY <1>1, WFMin
<1>4. \A y \in T : ~(y < x)
  BY <1>2, <1>3
<1> QED BY <1>4

LEMMA TurnByTurn ==
    ASSUME NEW last \in Nat, NEW S, 0 \in S, \A n \in 1..last : n - 1 \in S => n \in S
    PROVE  0..last \subseteq S
<1> SUFFICES ASSUME (0..last) \ S # {} PROVE FALSE
  OBVIOUS
<1>1. PICK n \in (0..last) \ S : \A m \in (0..last) \ S : n <= m
  <2>1. (0..last) \ S \in SUBSET Nat
    OBVIOUS
  <2> QED BY <2>1, LeastNumber
<1>2. n # 0 /\ n \in 1..last
  BY <1>1
<1>3. n - 1 \in 0..last /\ ~(n <= n - 1)
  BY <1>2
<1> QED BY <1>1, <1>2, <1>3

\* The recursive definition defines something: what the loop has after its turns.
LEMMA TurnsDefined ==
    ASSUME NEW order, Len(order) \in Nat, NEW subjects, NEW objects
    PROVE  Turns(order, subjects, objects) =
               [n \in 0..Len(order) |->
                   IF n = 0 THEN NoRule
                   ELSE Improve(Turns(order, subjects, objects)[n - 1], order[n],
                                subjects, objects)]
<1> DEFINE Turn(f, n) == IF n = 0 THEN NoRule
                         ELSE Improve(f[n - 1], order[n], subjects, objects)
           Ran(f, k) == f = [n \in 0..k |-> Turn(f, n)]
           S == {k \in 0..Len(order) : \E f : Ran(f, k)}
<1>1. 0 \in S
  <2>1. Ran([n \in 0..0 |-> NoRule], 0)
    OBVIOUS
  <2>2. 0 \in 0..Len(order)
    OBVIOUS
  <2> HIDE DEF Ran
  <2> QED BY <2>1, <2>2
<1>2. ASSUME NEW k \in 1..Len(order), k - 1 \in S PROVE k \in S
  <2>1. PICK g : Ran(g, k - 1)
    BY <1>2
  <2> DEFINE f == [n \in 0..k |-> IF n = k THEN Turn(g, k) ELSE g[n]]
  <2>2. ASSUME NEW n \in 0..k PROVE f[n] = Turn(f, n)
    <3>1. CASE n = 0
      BY <2>1, <3>1
    <3>2. CASE n # 0
      <4>1. n - 1 \in 0..(k - 1) /\ n - 1 \in 0..k /\ n - 1 # k
        BY <3>2
      <4>2. f[n - 1] = g[n - 1]
        BY <4>1
      <4>3. Turn(f, n) = Turn(g, n)
        BY <4>2
      <4>4. f[n] = Turn(g, n)
        <5>1. CASE n = k
          BY <5>1
        <5>2. CASE n # k
          <6>1. n \in 0..(k - 1)
            BY <5>2
          <6>2. g[n] = Turn(g, n)
            BY <2>1, <6>1
          <6> HIDE DEF Turn
          <6> QED BY <5>2, <6>2
        <5> QED BY <5>1, <5>2
      <4> QED BY <4>3, <4>4
    <3> QED BY <3>1, <3>2
  <2>3. f = [n \in 0..k |-> f[n]]
    OBVIOUS
  <2> HIDE DEF f, Turn
  <2>4. Ran(f, k)
    BY <2>2, <2>3
  <2>5. k \in 0..Len(order)
    OBVIOUS
  <2> HIDE DEF Ran
  <2> QED BY <2>4, <2>5
<1>3. \E f : Ran(f, Len(order))
  <2> HIDE DEF S
  <2>1. 0..Len(order) \subseteq S
    BY <1>1, <1>2, TurnByTurn
  <2>2. Len(order) \in S
    BY <2>1
  <2> QED BY <2>2 DEF S
<1>4. Turns(order, subjects, objects) = CHOOSE f : Ran(f, Len(order))
  BY DEF Turns
<1> HIDE DEF Ran
<1>5. Ran(Turns(order, subjects, objects), Len(order))
  BY <1>3, <1>4
<1> QED BY <1>5 DEF Ran

Matches(r, subjects, objects) == r.subject \in subjects /\ r.object \in objects

\* After n turns the loop holds the matching rule with the highest id among the
\* first n, or none if none of them matches.
BestOf(order, n, subjects, objects, best) ==
    /\ \A i \in 1..n : Matches(order[i], subjects, objects) => order[i].id <= best.id
    /\ \/ best = NoRule
       \/ \E i \in 1..n : best = order[i] /\ Matches(order[i], subjects, objects)

LEMMA LoopFindsBest ==
    ASSUME NEW order, Len(order) \in Nat, \A i \in 1..Len(order) : order[i].id \in Nat,
           NEW subjects, NEW objects
    PROVE  BestOf(order, Len(order), subjects, objects, BestRule(order, subjects, objects))
<1> DEFINE turns == Turns(order, subjects, objects)
           S == {n \in 0..Len(order) : BestOf(order, n, subjects, objects, turns[n])}
<1>1. /\ turns[0] = NoRule
      /\ \A n \in 1..Len(order) : turns[n] = Improve(turns[n - 1], order[n], subjects, objects)
  <2>1. turns = [n \in 0..Len(order) |->
                    IF n = 0 THEN NoRule ELSE Improve(turns[n - 1], order[n], subjects, objects)]
    BY TurnsDefined
  <2>2. 0 \in 0..Len(order) /\ \A n \in 1..Len(order) : n \in 0..Len(order) /\ n # 0
    OBVIOUS
  <2> HIDE DEF turns
  <2> QED BY <2>1, <2>2
<1> HIDE DEF turns
<1>2. 0 \in S
  BY <1>1 DEF BestOf
<1>3. ASSUME NEW n \in 1..Len(order), n - 1 \in S PROVE n \in S
  <2> DEFINE best == turns[n - 1]
             r == order[n]
  <2>1. BestOf(order, n - 1, subjects, objects, best)
    BY <1>3
  <2>2. best.id \in Nat /\ r.id \in Nat
    <3>1. CASE best = NoRule
      BY <3>1 DEF NoRule
    <3>2. CASE best # NoRule
      <4>1. PICK i \in 1..(n - 1) : best = order[i]
        BY <2>1, <3>2 DEF BestOf
      <4>2. i \in 1..Len(order)
        OBVIOUS
      <4> QED BY <4>1, <4>2
    <3> QED BY <3>1, <3>2
  <2>3. 1..n = (1..(n - 1)) \cup {n}
    OBVIOUS
  <2>4. turns[n] = Improve(best, r, subjects, objects)
    BY <1>1
  <2>5. BestOf(order, n, subjects, objects, turns[n])
    <3>1. CASE Matches(r, subjects, objects) /\ r.id > best.id
      <4>1. turns[n] = r
        BY <2>4, <3>1 DEF Improve, Matches
      <4>2. ASSUME NEW i \in 1..(n - 1), Matches(order[i], subjects, objects)
            PROVE  order[i].id <= r.id
        <5>1. order[i].id <= best.id /\ order[i].id \in Nat
          BY <2>1, <4>2 DEF BestOf
        <5> QED BY <2>2, <3>1, <5>1
      <4> QED BY <2>2, <2>3, <3>1, <4>1, <4>2 DEF BestOf
    <3>2. CASE ~(Matches(r, subjects, objects) /\ r.id > best.id)
      <4>1. turns[n] = best
        BY <2>4, <3>2 DEF Improve, Matches
      <4>2. Matches(r, subjects, objects) => r.id <= best.id
        BY <2>2, <3>2
      <4> QED BY <2>1, <2>3, <4>1, <4>2 DEF BestOf
    <3> QED BY <3>1, <3>2
  <2>6. n \in 0..Len(order)
    OBVIOUS
  <2> QED BY <2>5, <2>6
<1> HIDE DEF S
<1>4. Len(order) \in S
  <2>1. 0..Len(order) \subseteq S
    BY <1>2, <1>3, TurnByTurn
  <2> QED BY <2>1
<1> QED BY <1>4 DEF S, turns, BestRule

\* An index has finitely many rules, as the counter of their ids is a number; an
\* order of them has each.
LEMMA OrdersHaveEveryRule ==
    ASSUME StoreInv, NEW order \in SetToSeqs(Image.rules)
    PROVE  /\ Len(order) \in Nat
           /\ \A i \in 1..Len(order) : order[i] \in Image.rules
           /\ \A r \in Image.rules : \E i \in 1..Len(order) : order[i] = r
<1> DEFINE S == Image.rules
           last == seq["policy_rules"]
           ids == [r \in S |-> r.id]
<1>1. /\ last \in Nat
      /\ \A r \in S : r.id \in 1..last
      /\ \A r, q \in S : r.id = q.id => r = q
  <2>1. /\ last \in Nat /\ \A r \in rules : r.id \in 1..last
        /\ \A r, q \in rules : r.id = q.id => r = q
    BY DEF StoreInv, TypeOK, Tables, KeysUnique, Keyed
  <2> QED BY <2>1 DEF Image, RuleSnapshot
<1> HIDE DEF S, last
<1>2. IsFiniteSet(S)
  <2>1. ids \in Injection(S, 1..last)
    BY <1>1 DEF Injection, IsInjective
  <2>2. IsFiniteSet(1..last)
    BY <1>1, FS_Interval
  <2> QED BY <2>1, <2>2, FS_Injection
<1>3. Cardinality(S) \in Nat
  BY <1>2, FS_CardinalityType
<1>4. order \in [1..Cardinality(S) -> S] /\ order \in Injection(1..Cardinality(S), S)
  BY DEF SetToSeqs, S, Injection, IsInjective
<1>5. Cardinality(1..Cardinality(S)) = Cardinality(S)
  BY <1>3, FS_Interval
<1>6. order \in Surjection(1..Cardinality(S), S)
  BY <1>2, <1>4, <1>5, FS_Injection
<1>7. Len(order) = Cardinality(S)
  BY <1>3, <1>4
<1> QED BY <1>3, <1>4, <1>6, <1>7 DEF Surjection, S

\* The loop of evaluateExplicit against what the package promises: whatever the
\* number of rules and the order ListPolicies returns them in, it finds a rule
\* exactly when one matches, and gives the verdict of the one with the highest id.
THEOREM StoreLoopFindsHighestId == StoreSpec => []LoopFindsHighestId
<1>1. ASSUME StoreInv, NEW subjects, NEW objects, NEW order \in SetToSeqs(Image.rules)
      PROVE  LET best == BestRule(order, subjects, objects)
             IN  /\ best.id > 0 <=> Matching(Image, subjects, objects) # {}
                 /\ best.action = "allow" <=> EvaluateExplicit(Image, subjects, objects)
  <2> DEFINE best == BestRule(order, subjects, objects)
             matching == Matching(Image, subjects, objects)
  <2>1. /\ \A r \in Image.rules : r.id \in Nat \ {0}
        /\ \A r, q \in Image.rules : r.id = q.id => r = q
    <3>1. /\ \A r \in rules : r.id \in Nat \ {0}
          /\ \A r, q \in rules : r.id = q.id => r = q
      BY <1>1 DEF StoreInv, TypeOK, PolicyRule, Id, KeysUnique, Keyed
    <3> QED BY <3>1 DEF Image, RuleSnapshot
  <2>2. BestOf(order, Len(order), subjects, objects, best)
    BY <1>1, <2>1, OrdersHaveEveryRule, LoopFindsBest
  <2> HIDE DEF best
  <2>3. \A r \in matching : r \in Image.rules /\ r.id <= best.id
    BY <1>1, <2>2, OrdersHaveEveryRule DEF BestOf, Matching, Matches
  <2>4. CASE best = NoRule
    <3>1. matching = {}
      BY <2>1, <2>3, <2>4 DEF NoRule
    <3>2. ~(best.id > 0) /\ best.action # "allow"
      BY <2>4 DEF NoRule
    <3> QED BY <3>1, <3>2 DEF EvaluateExplicit, best
  <2>5. CASE best # NoRule
    <3>1. best \in matching
      BY <1>1, <2>2, <2>5, OrdersHaveEveryRule DEF BestOf, Matching, Matches
    <3>2. best.id > 0
      BY <2>1, <2>3, <3>1
    <3>3. ASSUME NEW r \in matching, Decides(r, matching) PROVE r = best
      <4>1. best.id <= r.id /\ r.id <= best.id
        BY <2>3, <3>1, <3>3 DEF Decides
      <4>2. r.id = best.id
        BY <2>1, <2>3, <3>1, <4>1
      <4> QED BY <2>1, <2>3, <3>1, <4>2
    <3>4. Decides(best, matching)
      BY <2>3 DEF Decides
    <3> QED BY <3>1, <3>2, <3>3, <3>4 DEF EvaluateExplicit, best
  <2> QED BY <2>4, <2>5
<1>2. StoreInv => LoopFindsHighestId
  BY <1>1 DEF LoopFindsHighestId
<1> QED BY <1>2, StoreInvariant, PTL
=============================================================================
