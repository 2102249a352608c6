------------------------------- MODULE Access -------------------------------
(***************************************************************************)
(* What a sequence of administrator's operations on the store means for    *)
(* access: the decisions of the policy package on the index that Build     *)
(* makes of a database nobody is writing to.                               *)
(***************************************************************************)
EXTENDS Store, Policy

CONSTANT Ports    \* the [port, protocol] pairs a client may try

\* Build run while no transaction commits between its queries
Image ==
    [users |-> {UserSnapshot(u) : u \in users},
     services |-> {ServiceSnapshot(s) : s \in services},
     groups |-> {UserGroupSnapshot(g) : g \in userGroups},
     members |-> userMembers,
     svcMembers |-> serviceMembers,
     rules |-> {RuleSnapshot(r) : r \in rules}]

CanUse(u, s) == \E port \in Ports : CheckService(Image, u.ip, s.ip, port)
CanReach(u, v) == CheckPeer(Image, u.ip, v.ip)
IsNew(row, table) == row.id \notin Ids(table)

-----------------------------------------------------------------------------

\* A user, or a service, that has just been created can reach and be reached by
\* nobody, although its address may have belonged to a deleted row that had
\* rules and memberships: "By default, users cannot access each other."
FreshRowsStartDenied ==
    [][/\ \A u \in users', s \in services' :
             (IsNew(u, users) \/ IsNew(s, services)) => ~CanUse(u, s)'
       /\ \A u, v \in users' :
             (IsNew(u, users) \/ IsNew(v, users)) => ~CanReach(u, v)']_storeVars

\* LAN mode works both ways: where no rule names either direction, two users
\* reach each other or neither reaches the other.
NoRuleBetween(idx, u, v) == Matching(idx, UserRefs(idx, u.id), UserRefs(idx, v.id)) = {}
LANModeIsMutual ==
    \A u, v \in Image.users :
        NoRuleBetween(Image, u, v) /\ NoRuleBetween(Image, v, u)
            => (CheckPeer(Image, u.ip, v.ip) <=> CheckPeer(Image, v.ip, u.ip))
=============================================================================
