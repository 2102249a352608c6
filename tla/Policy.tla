------------------------------- MODULE Policy -------------------------------
(***************************************************************************)
(* daemon/policy: the decisions, as operators on an index.  An index is    *)
(* the record                                                              *)
(*   users      rows [id, ip]            PeerByIP, UserByID                *)
(*   services   rows [id, ip, origin, ports]  ServiceByVIP, ServiceByID    *)
(*   groups     rows [id, lan]           UserGroups                        *)
(*   members    rows [member, group]     GroupsByUser, Members             *)
(*   svcMembers rows [member, group]     GroupsByService                   *)
(*   rules      rows [id, subject, object, action]                         *)
(* The maps of the code keyed by id and by address hold the same rows, so  *)
(* one set of rows stands for both; names are left out.                    *)
(***************************************************************************)
EXTENDS Naturals

\* What Build keeps of a row of each table.
UserSnapshot(u) == [id |-> u.id, ip |-> u.ip]
ServiceSnapshot(s) == [id |-> s.id, ip |-> s.ip, origin |-> s.origin, ports |-> s.ports]
UserGroupSnapshot(g) == [id |-> g.id, lan |-> g.lan]
RuleSnapshot(r) ==
    [id |-> r.id, subject |-> r.subject, object |-> r.object, action |-> r.action]

\* The references a rule can name a user or a service by.
GroupsOf(members, id) == {m.group : m \in {n \in members : n.member = id}}
RefsOf(type, id, groupType, groups) ==
    {[type |-> type, id |-> id]} \cup {[type |-> groupType, id |-> g] : g \in groups}
UserRefs(idx, id) == RefsOf("user", id, "user_group", GroupsOf(idx.members, id))
ServiceRefs(idx, id) ==
    RefsOf("service", id, "service_group", GroupsOf(idx.svcMembers, id))

\* Mutant of Matching: types are not compared.
MatchingIds(idx, subjects, objects) ==
    {r \in idx.rules : /\ r.subject.id \in {x.id : x \in subjects}
                       /\ r.object.id \in {x.id : x \in objects}}

\* matchesAny, for the subject and for the object
Matching(idx, subjects, objects) ==
    {r \in idx.rules : r.subject \in subjects /\ r.object \in objects}

\* evaluateExplicit: the matching rule with the highest id decides.
Decides(r, matching) == \A q \in matching : q.id <= r.id
EvaluateExplicit(idx, subjects, objects) ==
    LET matching == Matching(idx, subjects, objects)
    IN  \E r \in matching : Decides(r, matching) /\ r.action = "allow"

\* No declared port is a wildcard.
PortAllowed(ports, port) == ports = {} \/ port \in ports

Grants(idx, u, s, port) ==
    /\ PortAllowed(s.ports, port)
    /\ EvaluateExplicit(idx, UserRefs(idx, u.id), ServiceRefs(idx, s.id))

\* Allow or Deny of a connection from an address to a VIP and port
CheckService(idx, src, dst, port) ==
    \E u \in idx.users, s \in idx.services :
        u.ip = src /\ s.ip = dst /\ Grants(idx, u, s, port)

\* Mutant of ShareLANGroup: the group of the source is enough.
InLANGroup(idx, src, dst) ==
    \E g \in idx.groups : g.lan /\ g.id \in GroupsOf(idx.members, src)

ShareLANGroup(idx, src, dst) ==
    \E g \in idx.groups :
        /\ g.lan
        /\ g.id \in GroupsOf(idx.members, src)
        /\ g.id \in GroupsOf(idx.members, dst)

\* A rule decides when there is one; a shared LAN group only otherwise.
Reaches(idx, srcID, dstID) ==
    IF Matching(idx, UserRefs(idx, srcID), UserRefs(idx, dstID)) # {}
    THEN EvaluateExplicit(idx, UserRefs(idx, srcID), UserRefs(idx, dstID))
    ELSE ShareLANGroup(idx, srcID, dstID)

CheckPeer(idx, src, dst) ==
    \E u, v \in idx.users : u.ip = src /\ v.ip = dst /\ Reaches(idx, u.id, v.id)

\* Flow.allowed: the flow's user and service, by id, at their present addresses
FlowAllowed(idx, flow) ==
    \E u \in idx.users, s \in idx.services :
        /\ u.id = flow.user
        /\ s.id = flow.service
        /\ CheckService(idx, u.ip, s.ip, flow.port)
=============================================================================
