# A formal model of lightscale

lightscale is a WireGuard gateway in one Go process. An administrator keeps
users, services, groups and policy rules in a SQLite database through an HTTP
API on a unix socket; clients dial the virtual address (VIP) of a service
through the tunnel, and the daemon checks the policy and splices the connection
to the service's backend. Paths below are relative to `src/`.

## 1. Inventory

| part | code | state | operations |
|---|---|---|---|
| store | `daemon/store` | tables `users`, `user_groups`, `user_group_members`, `services`, `service_ports`, `service_groups`, `service_group_members`, `policy_rules`, `settings`; their AUTOINCREMENT counters; the change listeners | create, update, delete of each entity, group membership, policy upsert and delete, one transaction each; then `notify` |
| policy index | `daemon/policy/index.go`, `resolver.go` | the published `Index` behind an atomic pointer | `Build`, `Store`/`Load`, `CheckService`, `CheckPeer` |
| flow table | `daemon/policy/flowtable.go` | map of flows under a mutex | `Add`, `Remove`, `Reap` |
| change listener | `daemon/runtime/daemon.go` | none | build, publish, reap, apply peers, reconcile, after every commit |
| listener manager | `daemon/runtime/listeners.go` | `current`: VIP by service id | `reconcile`, `closeAll` |
| device | `daemon/wg/server.go`, `netstack.go` | `s.peers`, the WireGuard device's peers, the NIC's addresses, the inbound queue | `ApplyPeers`, `AddVIP`, `RemoveVIP`, packet `Read`/`Write` |
| dispatcher, relay | `daemon/wg/wildcard.go`, `relay.go` | none | `onTCP`, `onUDP`, `Relay.Handle` |
| TCP proxy | `daemon/proxy/tcp.go` | one goroutine per connection | check, resolve, dial, register, splice, remove |
| UDP proxy | `daemon/proxy/udp.go` | sessions by address pair, a pump goroutine each; a goroutine per datagram | `HandlePacket`, `pumpReplies`, `removeFlow` |
| backend resolver | `daemon/proxy/resolver.go` | cache, docker client | `Resolve`, `Invalidate`, `SetDocker` |
| administration API | `daemon/api` | none | handlers: look-ups and checks, then one store operation |
| address allocation | `daemon/ipalloc` | none | `Allocate`, `IsInPrefix` |
| life of the process | `daemon/main.go`, `daemon/runtime/daemon.go`, `daemon/store/store.go`, `settings.go`, `shared/config` | keypair settings, schema version, signals, reload channel, the configuration in force, the docker client | migrations, `ensureServerKeypair`, `handleSignals`, the loop of `Run`, `applyHotReload` |
| other | `daemon/dns`, `daemon/crypto`, `daemon/docker`, `shared/wire`, `shared/client`, `cli`, `web`, `deploy` | none | formatting, validation, I/O |

How they interact: an API request runs one store transaction on the single
connection of the pool; when it has committed, the same goroutine calls the
change listener, outside the transaction and with no lock, so two requests run
two listeners side by side. The listener reads the store again (`Build`: one
query per table, per service and per group), publishes the index, reaps the
flow table, applies the peers to the device and reconciles the VIPs on the NIC.
A connection's goroutine reads the index twice (dispatcher, proxy), dials, and
registers its flow without looking again. Packets between two clients do not
reach the proxies: the relay checks them and hands them back to WireGuard. A
reload replaces the docker client under the resolutions of the proxies.

What is hard here: listeners of two requests in any order; an index built
across commits; a check that is acted on after a dial; flows removed under a
lock and closed outside it; a derived state (index, device, NIC, flows) that
must follow the database after failures and restarts; invariants across tables
that no constraint of the schema states; identifiers, addresses and names that
are freed and taken again; handlers that read, decide and write in separate
transactions; crashes between the steps of the start-up; signals that come while
another is handled; an answer that arrives after its source has been replaced;
goroutines that wait for a reader that is gone. `PROJECT.json` lists each of these hazards at its
line with the properties that are about it.

What makes each part correct: *store* - uniqueness across tables, no dangling
reference, one rule per pair, ids never reused; *index* - a verdict that is a
function of the rules and not of their order, an index that is the database at
one moment, fresh rows without access; *flow table and proxies* - a spliced
connection can be revoked and, once revoked, goes; *device and listener
manager* - peers and VIPs follow the database, and the NIC and the records of it
never diverge; *allocation* - the lowest free host address or none; *handlers* -
what is written is what was asked and checked, unless another commit came in
between; *resolver* - answers of the client in use; *life of the process* - each
migration once, one server key, no reload lost; *packet path* - at most the packet in
hand passes after a revocation, every packet taken, nobody waits for ever.

## 2. Modules

| module | what it is |
|---|---|
| `Store` | the database: one action per exported operation of `daemon/store`, invariants and action properties |
| `Policy` | the decisions of `daemon/policy` as operators on an index |
| `Access` | `Store` and `Policy` together: the index of a database (`Image`), and what operations on the store mean for access |
| `RuleLoop` | the loop of `evaluateExplicit`, turn by turn, against the declarative `EvaluateExplicit` of `Policy` |
| `Gateway` | the running daemon: `Access` with requests, their change listeners, the device, the NIC, TCP connections, the flow table, faults and restarts |
| `StoreProofs` | types and keys of the database: theorems |
| `StoreIntegrityProofs` | what holds across its tables, and of access and `RuleLoop`: theorems |
| `GatewayProofs` | the safety of `Gateway`, with requests side by side and one after another, and that it implements `Publication`: theorems |
| `Publication` | the abstract specification of the change listener: the policy in force is replaced by what the database says at that moment, as a whole, and catches up |
| `AdminApi` | the handlers of `daemon/api` that write, in the transactions they are made of, over `Store` |
| `AdminApiProofs` | that they implement `Store`, and what they check: theorems |
| `Resolver` | `BackendResolver`: its cache, the lookups under way, the docker client |
| `Daemon` | the life of the process: migrations, keypair, signals, reloads, crashes and upgrades, with `Resolver` |
| `DaemonProofs` | its safety, and that of `Resolver` in it: theorems |
| `NetDevice` | the TUN device and the relay: goroutines that hand packets to one reader, policy changes, `Close` |
| `NetDeviceProofs` | its safety: theorems |
| `IpAlloc` | the search of `ipalloc.Allocate`, one turn of its loop a step, over addresses of `Width` bits |
| `IpAllocProofs` | what it returns: a theorem |
| `UdpProxy` | `UDPHandler` behind `serveUDPConn`: endpoints, sessions, pumps, the flow table, revocations, time |
| `UdpProofs` | its safety: theorems |
| `MCAccess`, `MCGateway`, `MCAdmin`, `MCDaemon`, `MCIpAlloc`, `MCUdpProxy` | instances for TLC; `NetDevice` needs none |

**Store.** A table is a set of rows. An action is a transaction that commits:
its guard is what the code checks, in the namespaces and tables it checks, and
a transaction that fails is rolled back and has no action. `TakeId` is
AUTOINCREMENT, `Scrub` the hand-written deletion of policy rules, the filters on
memberships are ON DELETE CASCADE. `RemoveUserFromGroup` and
`RemoveServiceFromGroup` take ids a caller may still hold though the rows are
gone. Left out of the rows: texts no decision depends on, and a user's keys.

**Policy.** The maps of the code keyed by id and by address hold the same rows;
one set of rows stands for both. A port is the pair of port and protocol.

**Gateway.** One step per interleaving point of the code:

| code | actions |
|---|---|
| `withTx`, `notify` | `Commit(r)`: any store operation the handlers' address checks let through, or one that changes no table |
| `policy.Build` | `ListUsers`, `ListUserGroups`, `ListServices`, `LoadServicePorts` (one per service), `ListPolicies`, `UserGroupMembers` (one per group), `ServiceGroupIDsForService` (one per service); `BuildFails` for an error of any |
| `holder.Store`, `flows.Reap` | `Publish`, `Reap` (the part under the lock), `CloseFlow` (one per flow, outside the lock) |
| `ApplyPeers`, `reconcile` | `ApplyPeers`, `Reconcile`: each holds its lock throughout; a fault leaves a prefix of its effects |
| `onTCP`, `TCPHandler.Handle` | `OnTCP`, `Handle`/`Refuse`, `DialFails`/`AddFlow`, `HangUp`, `RemoveFlow` |
| a crash at any point, and `Run` | `Restart`, `Init` |

`Published` instantiates `Publication` with `db` the index of the tables (`Image`)
and `inForce` the published index; `ImplementsPublication` says that Gateway, with
one request at a time, implements it: readers, phases, restarts and faults that
the abstract specification does not have are stutters or single steps of it.

**AdminApi.** A handler that reads first is two or more actions, in the
transactions of the code; one that hands its input to the store is one.

| code | actions |
|---|---|
| `createUser`, `createService` | `CreateUserAt`, `CreateServiceAt` (address given); `AllocateUserIP`, `AllocateServiceIP`, then `InsertUser`, `InsertService` or `AddressConflict` |
| `updateService` | `UpdateNames` (nothing to check); or `ReadService` and `CheckUpdate`, the two queries of `GetService`, and then `WriteUpdate` |
| `createPolicy`, members by name | `AskPolicy`, `AskMember`, `LookUp` (one per table), `WriteRule`, `AddMember` |
| all others | `Directly` |
| the answer, a failed transaction, a client that hangs up | `Ends` |

`stale`, `raced` and `unbound` are history: readings another commit overtook, what
was written from them, and in which namespaces a name has been free during its
look-up. The allocated address is that of `IpAllocProofs`. `Lower` is what
`origin.Validate` makes of a kind as a body may spell it: `Merged` compares the
spelling with the stored kind and normalises afterwards, as the code does.

**Resolver and Daemon.** Of an answer `Resolver` keeps where it came from, DNS or
a client. `mu` is held across none of the questions, so that `Resolve`,
`LookupHost`, `TakeClient`, `Inspect`, `StoreAnswer` and `Answered`/`DialFails` are
steps of their own; `late` is history. In `Daemon`:

| code | actions |
|---|---|
| `runDaemon`, `runMigrations` | `Start`, `RunMigrations` (one file a step, each a transaction) |
| `ensureServerKeypair`, `wg.Open` | `GetKey`, `GetKeyFails`, `Generate`, `SetKey`, `OpenDevice` |
| `handleSignals` | `Deliver` (a full channel of os/signal drops), `HandleSignals` |
| the loop of `Run` | `Stop`, `TakeReload`, `Load`, `SwapResolver`, `SwapAPI`, `ApplyHotReload` |
| around it | `Crash` anywhere, `Upgrade` (a program with one more migration), `Edit` of the file |

`sigs` holds up to `SignalSlots` signals. os/signal drops one that finds them
full; `asked` still counts the SIGHUP, so that `ReloadsTakeEffect` covers this too.

**NetDevice.** A goroutine is idle, about to look at `done` (`inject`), in the
select of `enqueue` (`send`) or in a callback (`notify`). `closing` is how far
`Close` is. The netstack's queue and its calls of `WriteNotify` are environment;
closing its endpoint discards what is queued. `late` is history: per pair, the packets
that reached the reader since the pair was last forbidden.

**IpAlloc.** An address is a number of `Width` bits, a prefix an address and a
length. `Init` is the call up to the loop, `Skip`, `Found` and `Exhausted` the
three things a turn of it does. The zero `Addr` that `Next` returns past the end
of the space is `NoAddr`, and sorts before every address: of 255.255.255.255/32,
and of no other subnet, `Allocate` returns "invalid IP" rather than an error. The
properties except it (`HasSuccessor`).

**UdpProxy.** Per pair of addresses one endpoint (the netstack's) and one session (a
backend socket), which expire by two clocks, and any number of datagrams:
`acceptUDP` starts a goroutine for each, and `serveUDPConn` goes straight back to
reading. So several `HandlePacket` of a pair run side by side, and each may find its
endpoint closed by the time it opens or uses a session. `handler` holds these
goroutines, each with its key, its endpoint and the session it is going to write to;
a slot of `Endpoints` is taken again when no goroutine refers to the closed endpoint.

| code | actions |
|---|---|
| `onUDP`, `serveUDPConn`, `acceptUDP` | `OnUDP`, `ReadFrom` (a datagram, and the goroutine for it), `EndpointExpires` (whatever its datagrams are doing) |
| `HandlePacket` | `CheckService`; under the lock `UseFlow`, or `Dial` followed by `DialFails` or `AddFlow`; `Write` after it |
| `pumpReplies`, `removeFlow` | `NextRead`, `Reply` and `WriteTo`, `ReadFails`; `RemoveFlow` under the lock, `Cleanup` after it |
| change listener | `Publish`, `Reap`, `CloseFlow` (one per session), `Reaped` |
| time | `Tick`, for whoever waits; a timer may fire late |

The policy is reduced to the set of address pairs the index allows, as `Gateway`
has it in full. `mu` is held across resolution and dial, so that one client's dial
keeps all others waiting. `lastSeen` is looked at only when a read fails: a
backend that keeps sending keeps its session, with or without a client.

`straddle` (here per datagram in flight), `overtaken` and `exact` are history variables: they restrict no
action and name, for the properties, the connections and the builds that another
step overtook. An operator introduced by a comment "Mutant of ..." is used by no
action: it is a version of the next operator with a plausible slip, and shows,
put in its place, that the properties would notice.

## 3. Runs

| run | instance | shows |
|---|---|---|
| `store` | 2 users and 2 rules, 1 of the others, 3 names, 2 addresses and hostnames, 2 policy writes | the seven invariants of `StoreInv`, `ScrubIsExact`, `IdsNeverReused`; and for access `FreshRowsStartDenied`, `LANModeIsMutual`, `LoopFindsHighestId` |
| `serial` | 1 request at a time, 1 connection, 2 commits, 2 ports, restarts | the refinement of `Publication`, index, device and flows in step with the database, and `RevokedFlowsLeave` under fairness |
| `concurrent` | 2 requests, 1 connection, 2 commits, 1 fault, 2 services | what holds with listeners side by side, and when a query, the device or the NIC fails |
| `admin` | 2 requests at a time of 4, 1 row ever of each table, 2 names, 2 free client addresses | `HostServicesDeclarePorts`, `UpdateLeavesRestAlone`, `ConflictsAreReal`, `NotFoundIsTrue` |
| `lifecycle` | 2 migrations, 4 keypairs, 1 edit of the file, 2 signal slots, 2 origins, 1 resolution at a time | `MigrationsRunOnce`, `ServerKeyIsStable`, `ClientFollowsConfiguration`, `AnswersComeFromTheClient`; `ReloadsTakeEffect` under fairness |
| `netdev` | 2 clients, 1 netstack goroutine, a queue of 2 | `OneStragglerPerRevocation`, `NoPacketStranded`; `WritesReturn` under fairness |
| `ipalloc` | every subnet of 8 addresses, every taken set, every reserved address | the lowest free host address or none, and that the search ends |
| `udp` | 1 address pair, 1 endpoint, 2 datagrams in flight, 2 sessions, time-out of 0 ticks | `OpenSessionsAreRevocable`, `PumpsOwnTheirSessions`, `OnlyStraddlersSurvive`; under fairness, that revoked sessions end and idle ones expire |
| `stale_index` | 2 requests, 2 commits | violation: the older index is published last |
| `kill_on_revoke` | 1 request, 1 connection, 1 commit | violation: a connection that was dialling survives the revocation |
| `vip_change` | 1 request, 1 commit | violation: an updated VIP is not added |
| `udp_replies` | 1 address pair, 2 endpoints, 1 datagram in flight, 1 session, time-out of 2 ticks | violation: a returning client is given a session that answers to its closed endpoint |

The bounds. Two rows of a kind are what uniqueness, reuse of a freed name or
address, and overlap of two rules need; one group of each kind is enough for a
membership and a group rule to exist, be scrubbed, and coincide in id with a
user or a service. `MaxId` bounds ids ever given, so deletions make room for no
more rows: a longer life would repeat. Gateway starts on a database where a
group's member may reach a service, so that two commits suffice for revocation
and restoration, or deletion and re-creation. Two overlapping requests already
give every order of two listeners. Three bits have
every length of a prefix, subnets at both ends of the space and in the middle,
and subnets with none, one and several free addresses. Two sessions of one
address pair are an old one whose pump has yet to close it and the new one opened
meanwhile, the case `removeFlow` could get wrong; two datagrams in flight are two
that both find no session, or one that opens a session after a revocation while
another comes later; one endpoint is enough for a session of a datagram whose
endpoint has gone. A time-out of no tick leaves
what is checked, that each expiry follows in the end. Several address pairs share
a lock, the table and the listener: that this is safe is proved for any number.
Two requests of `AdminApi` give every order of one handler's readings with another
commit, and four arrivals the longest story a property is about (a group, a
look-up of its name, a user of that name, the deletion of the group); one row ever
of each table keeps the space small, as reuse is the business of the run `store`.
Two migrations and one edit give a crash before, between and after each, an
upgrade that finds one of them done, and a signal on either side of an edit; four
keypairs are one more than the crashes between the two settings can tell apart.
Three goroutines are enough for one that overtakes another while a third blocks.
`MaxClock`, `MaxCommits`, `MaxFaults`, `MaxHandled`, `MaxFiles`, `MaxKeys` and
`MaxEdits` are the other bounds; every one is a guard and is named in its module. Deadlock is
not checked: at the bounds nothing is left to commit and no client has to call.
Symmetry is declared on names, addresses, hostnames, requests and connections
where no definition tells them apart; never in a run with a liveness property.

Fairness. `Fairness` is weak: the goroutine of a request that has committed goes
on (`Listen`), and so does a connection's handler, whose dial ends within
`DialTimeout`. Nobody has to send a request, connect, hang up, or restart the
daemon; nothing is assumed of the network. `RevokedFlowsLeave` needs no more.
In `UdpProxy` the steps of a pump, which takes `UDPHandler.mu`, are strongly fair:
others take it again and again, and `sync.Mutex` hands it to a waiter that has waited
for a millisecond. A datagram's goroutine is weakly fair (its dial ends, and `mu` is
given back); time passes; no endpoint has to expire, and no client, backend or
administrator has to do anything. `IdleSessionsExpire` says what it
excludes: pairs on which either side sends again and again.
In `Daemon` the goroutine of `Run` and the one of the signals go on; a `select`
with two cases ready may take either, and nobody has to signal or edit. In
`NetDevice` every goroutine goes on, the reader reads again, and `Send` is strongly
fair: Go serves those blocked on a channel in their order.

What the violations mean. They are kept as runs because a text of the
repository says otherwise; `PROJECT.json` quotes it. Four more have no run of their own: with two requests an index may combine
the tables of two moments, and so grant what no state of the database granted, until
the next change (`UndisturbedBuildIsExact` excludes only builds that a commit
overtook); and an update of a service that another update overtakes may leave a host
service without ports (`HostServicesDeclarePorts` names it). The other two are where the
code does not do what `README.md` says of `service update`, and the properties say so
where they make the exception:

- `README.md:82` says that `--internal-ip` "must be in the subnet", and `README.md:90`
  that `update` takes the same flags. `createService` looks (`daemon/api/services.go:85`),
  `updateService` does not: a service can be moved to any address, also to one of the
  clients'. `createUser` does not see it there, allocates the address, and is refused
  (`ConflictsAreReal`).
- `README.md:90` says that `update` "leaves alone anything you don't pass".
  `updateService` compares the kind in the body as it is spelt with the stored one
  (`services.go:167-169`), before `origin.Validate` lower-cases and trims it
  (`origin.go:44`): a PATCH with "Container" on a container starts the origin anew and
  drops its network. The command line and the web page send kinds in lower case, so
  that only other callers of the API can meet it (`UpdateLeavesRestAlone`).

The passing runs state what
remains true (that a rule of `CreatePolicy` which rewrites an older row keeps its
id, and so its rank, is modelled and contradicts nothing but the word "last" in
the name of a test): with serial requests the index is the database whenever no request
is in progress, and the only connections that outlive a revocation are those
whose dial a publication overtook (`OnlyStraddlersSurvive`); with concurrent ones
a build no commit overtook is still exact; with faults no half-built index is
ever published.
A request refused with a conflict over an address the daemon chose itself was
overtaken, or the address lies in both subnets, which nothing keeps apart, or a service
was moved to it from the service subnet (`ConflictsAreReal`).
After a revocation between two clients no more than the packet in hand passes
(`OneStragglerPerRevocation`).

## 4. Proofs

For every value of the constants, every bound included, and from no assumption
but those named here:

| module | theorems | assumes |
|---|---|---|
| `StoreProofs` | `StoreTypeOK`, `StoreKeysUnique`, `StoreIdsNeverReused` | |
| `StoreIntegrityProofs` | `StoreNamesUnambiguous`, `StoreAddressesUnique`, `StoreRulesReferToLiveRows`, `StoreMembershipsReferToLiveRows`, `StoreOneRulePerPair`, `StoreScrubIsExact`, their conjunction `StoreInvariant`; `StoreLANModeIsMutual`, `StoreFreshRowsStartDenied`, `StoreLoopFindsHighestId` | |
| `GatewayProofs` | `GatewayTypesHold`, `GatewayRevocable`, `GatewayNicMatchesRecord`, `GatewayUndisturbedBuildIsExact`; for serial requests `SerialGatewayPublishes`, `SerialIndexInSync`, `SerialPeersInSync`, `SerialOnlyStraddlersSurvive` | |
| `AdminApiProofs` | `AdminImplementsStore`, `AdminCommitsSuitGateway`, `AdminConflictsAreReal`, `AdminHostServicesDeclarePorts`, `AdminUpdateLeavesRestAlone`, `AdminNotFoundIsTrue` | `Inputs` (form of the requests' fields) |
| `IpAllocProofs` | `AllocateLowestFree` | `WidthIsNatural`, `PrefixesAreValid` |
| `UdpProofs` | `UdpPumpsOwnTheirSessions`, `UdpOpenSessionsAreRevocable`, `UdpOnlyStraddlersSurvive` | `UdpConstants` (names of different kinds differ) |
| `DaemonProofs` | `DaemonMigrationsRunOnce`, `DaemonServerKeyIsStable`, `DaemonClientFollowsConfiguration`, `DaemonAnswersComeFromTheClient` | `DaemonBounds` (`MaxKeys` is a number) |
| `NetDeviceProofs` | `DeviceOneStragglerPerRevocation`, `DeviceNoPacketStranded` | |

How they fit together: `AdminImplementsStore` makes every theorem about
`StoreSpec` one about the handlers; `AdminCommitsSuitGateway` says that their
commits are among those of `Gateway`, whose proofs take any step of `StoreNext`
with its addresses in the subnets; `Gateway` starts on any database with
`StoreInv`, which `StoreInvariant` shows every run of the store leaves behind.

The argument for the store. `TypeOK` is inductive; one lemma per group of operations. Keys: a
step does one of four things to a table and its counter (`KeyStep`: leaves both,
inserts under the next id, rewrites under the old id, drops rows), which is shown
once per action; uniqueness of ids and their not being reused both follow from
that alone. Names and addresses: `UniqueAcross` is kept by an insertion of a value
that is free in both tables, by a rewrite that keeps the value or takes a free
one, and by dropping rows; the lemmas on it are applied to the pair of tables each
operation touches. This is where the code checking *both* tables is used.
References: operations that lose no id keep every reference
(`GrowingTablesKeepIntegrity`); the four deletions are the other case, and each
needs its scrub and its cascade. `StoreScrubIsExact` uses `KeysUnique`: after a
deletion the id is gone from its table, so that a rule the scrub matched has lost
an end.

For access. `StoreFreshRowsStartDenied` needs the whole of `StoreInv`: ids are never
given twice, rules and memberships refer to live rows, so nothing can be about an id
that is new. `StoreLoopFindsHighestId` is for sequences of any length: that the
recursive `Turns` defines a function, and that after each turn the loop has the best
of the rules so far (`LoopFindsBest`), are inductions, done from the least number a
set of numbers has (`LeastNumber`, `TurnByTurn`); an order of the index
has each rule once (`OrdersHaveEveryRule`), and the highest id is that of one rule by
`KeysUnique`. `PowersOfTwo` of `IpAllocProofs` is proved the same way.

For the gateway, with any number of requests, connections and faults:

- `Revocable` adds to its property that only a reaper that is closing flows has
  taken any out of the table (`ReapersClose`), so that no other step forgets one.
- `NicMatchesRecord` needs `ServicesApart`: an index a listener holds, however old,
  has the services of one moment, so that no id and no address is in it twice.
  Here `AddressesUnique` and `KeysUnique` of the store come in.
- `BuildsExact` says of a build no commit overtook what it has by now: for each phase
  the tables it has read are those of the database, but for the groups and services
  the loop has yet to come to (`ExactSoFar`).

Two hypotheses stand in the others. `Serial` is that no commit overtakes a listener
(`overtaken = {}`), which with one request is always so (`OneRequestIsSerial`); in
general it is what an administrator gets who waits for an answer before the next
request. `Faultless` is that nothing has failed (`faults = 0`), always so where
no fault is allowed (`NoFaultNoFaults`). Neither can be dropped: `stale_index` is what two
requests do to `IndexInSyncAtRest`, and a listener whose `Build` fails leaves its
request answered and the old index in force. Crashes and restarts are in. `SerialGatewayPublishes`
is the safety part of `ImplementsPublication`, which the run `serial` checks with its
liveness: every step of `Gateway` replaces the policy in force by that of the
database as it is, or does not change it. `InSync` has one listener at a time, and the
published index exact whenever none builds; `PeersFollow` what the device has between
`ApplyPeers` and the next commit, from `UsersKeepAddresses` (no
transaction changes the address of a user, on which `ApplyPeers` relies: it never
touches a peer it has); `FlowsChecked` says that a connection which carries data, or
will when its backend answers, is allowed by the index in force, or was overtaken, or
is about to be looked at by the reaper.

For the handlers, `ReqTyped` is what a request has read. Each property says
what was checked is still so when it is used, unless the history variables name the
commit in between: `AllocatedFree` (the address), `UpdatesChecked` and
`InsertsChecked` (origin and ports), `SearchesSound`. That a service's address is
refused for no other reason needs `UsersStayInSubnet`: no user has an address
outside the client subnet. `SearchesSound` rests on
`ReleasedNamesAreFree`: a transaction that takes a name out of one table of a
namespace does not put it into the other, so that a name looked for in one table and then
in the other, and missing in both, was free in between. `UpdateLeavesRestAlone` needs
`MergedKeeps`, that the merged origin is the old one where nothing is given, and, as
`GetService` is two queries, that the ports read last belong to the row read first
(`CheckUpdateChecks`).

For the allocation: host addresses are those strictly between the network's own
address and the broadcast address (`HostsBetween`, from the arithmetic of blocks),
and everything between the network's address and the candidate is occupied
(`Scanned`). For the UDP proxy the invariant `IInv` adds to the properties that
whoever dials holds the lock (`DialersHoldTheLock`: so the key it dials for has no
session, and `AddFlow` overwrites none, however many datagrams of the key are in flight), what the reaper's list is (`ReaperOK`) and
that an open session which is neither allowed nor about to be closed was overtaken
(`CheckedOrOvertaken`).

For the daemon each property has an invariant of its own beside `TypeOK`, and a
lemma that says which actions can disturb it (`MigrationFrame`, `KeysFrame`,
`ClientFrame`, `ResolverFrame`), so that only those are looked at. `MigrationsOK`:
the database has gone through a prefix of the migrations, the rows say so, and the
loop has passed none by (`NextNumber` is the step). `KeysOK`: a public key is stored
only after its private one, so a pair half written has no public key, and while a
pair is being made none has been served. `ClientOK` says what holds half way
through a reload. `AnswersOK` says of an answer on its way to the cache what the
property says of one in it, and that a daemon that does not serve holds none. For
`NetDevice`, `Attended`: the goroutines about to take a packet are finite in number
(what a comparison of their number with the queue's length needs) and enough;
`Stragglers`: a packet between clients is held by the goroutine of its source and no
other, and while one is held after a revocation none of its pair has passed.

Only model-checked: liveness (`RevokedFlowsLeave`, `SearchEnds`,
`RevokedSessionsEnd`, `IdleSessionsExpire`, `ReloadsTakeEffect`, `WritesReturn`, and
that `Publication` catches up, the other part of `ImplementsPublication`), as fairness
and ENABLED are out of the prover's reach. Every invariant and every action property of
the passing runs is stated by a theorem.

## 5. What is left

Done of the plan: the store, decisions and gateway, `AdminApi`, `IpAlloc`, `UdpProxy`,
`Publication`, `Resolver`, `Daemon` and `NetDevice`, with the proofs of section 4.
All safety properties of the runs are proved. Left: the safety of `Gateway` for serial
requests that do fail (what a listener that failed leaves, and that the next one that
does not repairs it), `UdpProxy` with the index in full rather than the set of pairs it
allows, and several addresses per container in `Resolver`.

Not modelled: cryptography, DNS zone text, parsing and formatting, handlers that
only read, the status and its device dump, the permissions and peer credentials of
the socket, the HTTP layer, the command line, the web interface, deployment. Of the
configuration only `docker.socket`, and of a docker answer only where it came from.
A loss of power that undoes commits (`synchronous=NORMAL`) is not told from an
earlier crash. Data races on texts of the configuration are left out with the texts.
What is left out keeps no state of its own or belongs to libraries.
