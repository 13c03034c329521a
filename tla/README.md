# TLA+ models of docker-network-dhcp

The plugin is a libnetwork remote driver: dockerd sends it `CreateNetwork`,
`CreateEndpoint`, `Join`, `Leave`, ... over a Unix socket, and for every container
it keeps one or two `udhcpc` processes that renew the DHCP lease inside the
container's namespace. The code is small, but most of it runs concurrently:
one goroutine per request, one goroutine per `Join` that outlives its request, a
`Restore` goroutine after a start, two event loops per endpoint, and a shutdown
that comes at any moment. This directory holds TLA+ models of these parts, the
TLC configurations that check them, and TLAPS proofs.

    tlc -config LifecycleRestart.cfg MCEndpointLifecycle     one of the runs below
    tlapm EndpointLifecycleProofs.tla                        one of the proof modules

`PROJECT.json` lists every run, the source lines behind every definition (`map`),
for each property a plausible bug that it catches (`mutants`), the hazards of the
code and the properties that cover them, and the findings.

## Inventory

**Endpoint state persistence** (`pkg/plugin/plugin.go`, `state.go`). State:
`Plugin.state` under `p.mu`, its copy `state.json` under `p.saveMu`. Operations:
`addStateEntry` (Join), `updateStateEntry` (Join goroutine, when it knows the
hostname), `removeStateEntry` (Leave, DeleteEndpoint, Restore), `saveState`,
`loadState`. Hard: the snapshot is taken in one critical section and written in
another; saves fail silently; the process dies between the two. Right when: the
file is always a table there has been, as a whole, and it is the current one when
the goroutines are at rest.

**Endpoint lifecycle** (`plugin.go`, `network.go`). State: `joinHints`,
`persistentDHCP` (the registered manager of an endpoint), `cancelJoin`,
`leftEndpoints`, `restoreComplete`. Operations: the handlers `Join`, `Leave`,
`DeleteEndpoint`, the goroutine that Join starts, `Restore` with retries and
back-off, `Close`. They meet in the maps, under `p.mu`, and in the managers, which
they start, register and stop. Hard: a Leave during the start of a manager, a Join
during Restore, a shutdown during either, a restart anywhere, a second receiver on a
channel that carries one value. Right when: every running manager can be stopped and
has one party to stop it, what is registered runs, what a restart needs is on disk,
what is gone is forgotten, and Leave, Restore and Close come to an end.

**DHCP manager** (`dhcp_manager.go`). State: `LastIP`, `LastIPv6`, per family
`primed` and `deconfigured`, `errChan`, `stopChan`, the handles, and in the kernel
the addresses and routes of the container interface. Operations: `startClients`, the
event loop of each family with `renew`, the restart of a `udhcpc` that has exited,
`Stop`. Hard: the order of deconfig, bound and renew events and of restarts,
netlink calls that fail halfway through a replacement, two loops that share the
handles. Right when: between events the interface has the address of the last lease,
one failing call does not leave it without, the loop only ends for a cause, no
`udhcpc` is left behind. Before this, `Start` waits for the container: for its
hostname (`fetchHostname`), its network namespace and its interface, with the await
helpers of `pkg/util`, each of which polls in a goroutine and answers through a
channel with room for one value. Hard: the context of a wait ends while its
goroutine has just found what it polls for, and a goroutine that was given up is
still at work on the handle, or on `m.ctrLink`. Right when: the clients start with
the interface of this container, and a Start that fails leaves nothing open.
After a crash, Restore builds the manager from what is on the interface, whose
address may have been halfway through a replacement.

**Networks and their cache** (`network.go`, `plugin.go`, `state.go`). State:
`Plugin.networks` and `networks.json`. Operations: `CreateNetwork` with its conflict
check, `DeleteNetwork`, `netOptions` with three sources (cache, Docker API, the
record of an endpoint). Hard: requests that run side by side, also for one network;
requests while dockerd boots and its API does not answer; networks that are older than
the cache, or whose options do not decode. Right when: options come from the network that
was asked for, the cache follows dockerd, every request is answered.

**Initial lease** (`network.go`, `pkg/udhcpc/client.go`). State: the interface, the
hint for Join, the `udhcpc -q` that runs, its pipe, the goroutines that scan it and
collect the lease. Operations: `CreateEndpoint`, `GetIP`. Hard: the scanner, the
collector, `Cmd.Wait` and the lease timeout race. Right when: the address in the
answer was granted, the request ends and `udhcpc` is reaped. (That a failure leaves no
interface behind cannot be said: the error of the `LinkDel` in the clean-up is ignored.)
`Join` then answers dockerd with the gateway of the lease and with routes of
the host that `addRoutes` selects, in one pass per family over the routes of the bridge.
Right when: exactly the routes that the container needs are copied.

**udhcpc client** (`client.go`, `handler.go`, `cmd/udhcpc-handler`): `Start`,
`Finish`, `Drain`; seen through the manager and GetIP. **Endpoint information**
(`EndpointOperInfo`): reads, and changes nothing. **HTTP API**
(`endpoints.go`, `util/http.go`, ...): decodes requests and encodes answers.
**Program start and shutdown** (`cmd/net-dhcp`): finds the socket, starts the
server and Restore, waits for a signal, calls Close.

dockerd, libnetwork, the kernel, the DHCP server and `udhcpc` are external: they are
modelled from what the code expects of them, and marked `external` in the map.

## Modules

| module | models | extends / used by |
|---|---|---|
| `StateTable` | the endpoint table and `state.json`: one operator per operation, one per critical section | instantiated by `EndpointLifecycle`, extended by `StateTableHistory` |
| `StateTableHistory` | the same with history variables: the tables there have been, and whether saves overlapped or failed | implements `DurableTable` |
| `DurableTable` | abstract: what persistence promises about a table and its file | |
| `StateTableProofs` | proofs about `StateTableHistory` | |
| `EndpointLifecycle` | Join, Leave, DeleteEndpoint, the Join goroutine, Restore, Close, restarts and reboots, composed with `StateTable` | `MCEndpointLifecycle`, `EndpointLifecycleProofs` |
| `EndpointLifecycleProofs` | its inductive invariant and what follows from it | |
| `DHCPManager` | one manager: startClients, the two loops, renew, Stop, udhcpc and the kernel | implements `ManagerLife` |
| `DHCPManagerProofs` | proofs about `DHCPManager`, and that it implements `ManagerLife` | extended by `RestoredManagerProofs` |
| `RestoredManager` | a manager, a crash of the plugin at any point, and the manager that Restore makes from the interface | extends `DHCPManager` |
| `RestoredManagerProofs` | proofs about `RestoredManager`, on top of the invariant of one manager | |
| `ManagerStart` | `Start` up to startClients, with the goroutines and contexts of the await helpers | `ManagerStartProofs` |
| `ManagerStartProofs` | proofs about `ManagerStart` | |
| `ManagerLife` | abstract: a manager runs, ends, and hands over one result to one receiver | implemented by `DHCPManager`, followed by each manager of `EndpointLifecycle` |
| `Networks` | CreateNetwork, DeleteNetwork, netOptions, the cache and its file | `MCNetworks`, `NetworksProofs` |
| `NetworksProofs` | proofs about `Networks` | |
| `InitialLease` | CreateEndpoint and GetIP with its goroutines | `JoinAnswer`, `InitialLeaseProofs` |
| `JoinAnswer` | the answer of the Join after it: the gateway and the routes of the host | extends `InitialLease`; `JoinAnswerProofs` |
| `InitialLeaseProofs` | proofs about `InitialLease` | extended by `JoinAnswerProofs` |
| `JoinAnswerProofs` | proofs about `JoinAnswer`, on top of the invariant of `InitialLease` | |

An operator whose comment asks "What if ..." is a wrong variant of the one after it.
No specification uses it; it documents the bug that a property is there to catch.

### How the models correspond to the code

*StateTable.* `state`, `file` and `leftEndpoints` are the variables of the code;
`snapshot[w]` is the local variable that goroutine `w` has copied under `p.mu` and
not yet written. `ChangeAndCopy` is the critical section of `p.mu`, `SaveState` the
one of `p.saveMu`; between them anything may run, in particular another save. A
record is "unnamed" or "named" (its `Hostname` empty or filled in): this is all that
the handlers tell apart. The temporary file, its sync and its rename are one step.

*EndpointLifecycle.* `handler[e]`, `joiner[e]`, `restorer` and `closer` are program
counters, whose values name the place between two critical sections or blocking
calls. `persistentDHCP[e]` is the registered manager: a "joined" one, made by the
Join goroutine, or a "restored" one, made by Restore. `manager[e][k]` is what that
manager is doing, in the terms of `ManagerLife`. A Leave holds in `taken[e]` the
manager that it removed from the map. `docker[e]` and `link[e]` say how far dockerd
has come with the endpoint and where its interface is: dockerd sends the requests of
an endpoint one after the other, may repeat a request that a restart cut off or go
on without it, and uses an endpoint ID once. Errors of a Stop are logged and change
nothing, so they are not told apart here. A restart empties every variable of the
process and reloads the table; a reboot also removes the sandboxes. `cancelJoin` is left
out: a cancelled Start may still succeed when its last wait is answered at the same time
(`ManagerStart`), and may fail without it by its timeout, so the cancellation
adds no step and forbids none.

*DHCPManager.* A step of a loop is one round of its `select` or one netlink call of
`renew`. `event[f]` is the event that the scanner goroutine offers on its unbuffered
channel. `lease` is a history of the last lease taken. `addresses`, `gateway` and
`copied` are the kernel's; deleting the last IPv4 address of an interface flushes
the IPv4 routes. `Fault` is a netlink call that fails. On a deleted handle netlink
opens a socket in the namespace of the thread, so once the handles are closed a call
either fails or succeeds elsewhere (`Elsewhere`), and changes nothing of the container.

*Networks.* `Handlers` is a pool of request goroutines, each with its place, the network
it is about, its snapshot and what netOptions has returned to it. Of dockerd it is assumed
that it creates and deletes a network while no other request for that network runs
(`Quiet`); CreateEndpoints and Joins of one network, and requests for different ones,
interleave. An option set is the bridge and the mode, which the cache keeps, plus
`custom`: whether it sets `lease_timeout` or `skip_routes`, which the cache does not
keep. `legacy` networks were created by a version without cache, and the options of
those in `garbled` do not decode: netOptions answers an error without a look at the
endpoint records, and the conflict check passes over them.

*InitialLease.* The states of `udhcpc`, the pipe, the scanner, the collector and
Finish are separate, and every order of them is possible; `Cmd.Wait` closes the
pipe on our side as soon as the process has exited.

*JoinAnswer.* The Join that follows, up to its answer. `addRoutes` goes through the routes
of the host one by one, and each of them is any route. A route of the host is what
`addRoutes` tells apart: a default route, one whose subnet holds the address of the
lease, or another one; through a router or on-link; and whether the kernel made it.
With netlink v1.3.1 (`go.mod:10`) a default route is listed with the destination 0.0.0.0/0
or ::/0, never nil (`NilDst`): the branch for it (`network.go:602-620`) is not
taken, and the route is passed over as one that covers the lease.
What Join does to the table, and its goroutine, are in `EndpointLifecycle`.

*ManagerStart.* `poller[w]` is the goroutine of the wait `w` and `channel[w]` its
channel. `caller` is where Start is; when its channel and its context are both ready
it takes either, as a Go `select` does. The wait for the link is an AwaitCondition
whose function is itself a wait, AwaitLinkByIndex: two goroutines, one inside the
other. A netlink request on a deleted handle opens a socket in the namespace of the
thread, so it may find a link of the host ("alien").

*RestoredManager.* `Works` is a step of `DHCPManager`; `Crash` may come before any of
them, and Restore then reads the addresses off the interface, once or again. The history
`lease` is kept across a crash, and may then name a lease that was never installed. `cut`
remembers the families in which a crash, or a Stop that closes the handles, has cut off
a replacement between `AddrDel` and the end of `AddrAdd`.

## Runs

All runs finish; their sizes are given in distinct states.

| run | states | shows |
|---|---|---|
| `state_table` | 63k | three goroutines, two endpoints, four changes, failing disk, restarts: the file agrees with the table at rest unless saves overlapped or failed (`SettledFileIsExact`), and only ever becomes a table there has been (`DurableTableHolds`, a refinement) |
| `lifecycle_running` | 521k (with symmetry) | two endpoints and a plugin whose first Restore is over: a managed endpoint has its record (`ManagedIsRecorded`) |
| `lifecycle_restart` | 150k | one endpoint, one restart or reboot, shutdown at any time: one holder per manager (`OneHolder`), registered managers run (`HeldManagersRun`), a running manager can always be stopped unless a Join has overwritten the one of Restore (`NoOrphanManager`), the marks of left endpoints do not pile up (`MarksAreBounded`), every manager follows `ManagerLife` and is only replaced by another one when it is stopped (`ManagersLiveOnce`), an endpoint that Restore has attached keeps its record (`RestoredAreRecorded`), Leave, Restore and, unless a Leave has taken the value that it waits for, Close come to an end (`CloseReturnsUnlessTaken`), records of endpoints without a sandbox are dropped (`PhantomsAreDropped`), and within one process a Leave of an endpoint that had settled ends its manager (`LeaveEndsManager`) |
| `dhcp_manager` | 607k | both families, three events, one trouble, Stop at any time: the lease is installed (`LeaseIsInstalled`), one failing call keeps the address (`OneFaultKeepsAddress`), a udhcpc that has had no lease is never taken to have lost one (`StartupDeconfigIgnored`), the loops end for a cause (`LoopGoesOn`), a renewal does not touch the copied routes (`RoutesLostOnlyWithAddress`), clients end, and `ManagerLife` is implemented |
| `restored_manager` | 4.8M | two crashes, one trouble: the interface has one address and a restored manager knows it (`RestoredLastIP`), an endpoint is only given up for want of an address if a replacement was cut off (`DroppedOnlyIfCut`), and so for the end of a loop (`LoopGoesOnUnlessCut`) |
| `manager_start` | 3.7k | all orders of the polls, the two contexts and the sandbox: the clients get the right link and nobody else writes it (`ClientsOwnLink`), a failing Start releases its handles (`FailureReleases`), Start and all goroutines end (`StartEnds`) |
| `networks` | 418k | two networks, two requests at a time, one restart, dockerd booting: options come from the right network (`ServedIsOurs`), the cache follows dockerd (`CacheFollowsDocker`), every request is answered (`RequestsAnswered`) |
| `initial_lease` | 353k | both families, macvlan, two routes per family: the answer is a granted lease, the request ends, udhcpc is reaped and its scanner ends; the routes in the answer of Join are those of the host that the container needs (`RoutesFollowHost`) |

Four more runs show a disagreement between the code and what it says of itself, each
in the smallest instance in which it happens:

- `lifecycle_left`: a Leave that comes while the Join goroutine is in its last step
  before registration marks the endpoint and, through the `removeStateEntry` that it
  deferred, erases the mark before it returns. The goroutine then registers the
  manager of an endpoint that has left, and nothing ever stops it.
- `lifecycle_close_hangs`: Close stops the managers of a snapshot while the server
  still accepts requests. A Leave for one of them stops it too; the loop sends one
  value on `errChan`, so one of the two Stop calls waits for ever; if it is the one of Close, main never
  returns.
- `dhcp_restored_bare`: Restore goes on without an IPv6 address and leaves
  `LastIPv6` nil; the first DHCPv6 lease makes `renew` dereference it, the loop
  panics, and the endpoint keeps no DHCPv6 client although `udhcpc6` runs on.
- `lease_lost`: GetIP may return `ErrNoLease` although udhcpc has succeeded: the pipe
  is closed, and the collector told to end, before the bound event was read.

### Hazards that are seen but not checked

Some things that a reader of the code may expect do not hold, and are not stated as
properties, or the properties except them by name:

- Of two overlapping saves the older may be written last, and the file then
  stays behind until the next save (`plugin.go:123-125` says that it cannot); the
  snapshot of a Join goroutine may bring back the record of an endpoint that has left.
- When Restore registers first, the goroutine of a fresh Join overwrites its entry and
  the restored manager runs on without anybody to stop it (`Superseded` in
  `NoOrphanManager`, and `Settled` in `LeaveEndsManager`).
- A manager that is registered after Close has taken its snapshot is not stopped.
- The soft handover of `dhcp_manager.go:40-42` is not one: after a deconfig, renew
  deletes the address and adds it again even when it has not changed (110-117), the
  kernel drops the IPv4 routes with it, and only the default route comes back. A change
  of address does the same. `RoutesLostOnlyWithAddress` says that nothing else does.
- `RestoreFindsLeft` consumes the mark of an endpoint that was left, and the retry that
  follows may register a manager of that endpoint; after a restart, Restore attaches an
  endpoint again whose Leave was cut off. `LeaveEndsManager` claims neither: it holds
  from a settled state (Restore complete, manager in the map) to the end of the process.
- `lease_timeout` and `skip_routes` (`README.md:235,237`) have no effect once the cache
  serves a network, because it does not keep them (`network.go:127,171-182`).
- Without a router in the lease, `addRoutes` means to answer with that of a default route of
  the host, but tests for a nil destination, which netlink v1.3.1 does not list
  (`network.go:602`): the answer has no gateway.
- The clean-up of a failed CreateEndpoint ignores the error of `LinkDel`
  (`network.go:364,439`): the interface may stay.
- The router of a DHCP event is the whole list of routers of the lease. With two of
  them `net.ParseIP` returns nil (`dhcp_manager.go:143`), and the default route is
  added or replaced without a router. A lease has at most one router in the model.
- A crash between `AddrDel` and `AddrAdd` costs the endpoint its record
  (`DroppedOnlyIfCut`) or its DHCPv6 client (`LoopGoesOnUnlessCut`).
- After an `AddrDel` that has failed there may be two addresses; a Restore takes up the
  first one (`RestoredLastIP` excludes a failed call).
- A Start whose context ends may leave behind an open namespace handle in the channel of
  `AwaitNetNS`, and a poll on a netlink handle that it has deleted (`FailureReleases`).
- Two CreateNetwork for one bridge may both pass the conflict check.

`PROJECT.json` has them under `hazards`.

### Bounds

`MaxRetries` is 1 where the code has 3 back-offs: with 1 Restore both retries and gives
up, and more only repeat the first step. One restart is enough for a Restore to find
what an earlier process left; the second process may not restart again. One endpoint
is enough in `lifecycle_restart`, because endpoints only share the Restore
goroutine, Close and the snapshots, and the safety properties of that run are proved
for any number of them; two are used in `lifecycle_running` for the
snapshots, and with symmetry, as it checks invariants only. `MaxChanges` = 4 lets
three saves overlap and another one repair the file. `MaxEvents` = 3 is a lease, a
deconfig and a second lease after the first deconfig of udhcpc, `MaxTroubles` = 1 one
exit of udhcpc or one failing netlink call, `MaxAttempts` = 2 a restart that fails
once and then works or fails for good (1 in `RestoredManager`). Two addresses distinguish a renewal from a
change. `MaxCrashes` = 2 lets a crash cut off the work of a manager that was itself
restored, and its Restore fail or work; IPv6 is on, because what differs there is the
address that may be missing. `MaxRoutes` = 2 lets a route that is copied and one that is passed
over follow each other in either order, in each family. Two handlers in `networks` let one save overlap
another and a Join run beside a CreateEndpoint of its network; its proofs are for any
number. `ManagerStart` has no bound and no constant: the run is
exhaustive. The actions are bounded in their guards, so a bound never makes a
property hold by cutting off a step that has begun. Deadlock is not checked: every
system here may stop (nobody has to send a request).

### Fairness

Weak fairness is assumed of every goroutine of the plugin, per goroutine and not per
action: the Go scheduler runs them, and the blocking calls in them are bounded
(`Finish` kills udhcpc after 5s, the Join goroutine has `awaitTimeout`, `Restore`
sleeps for fixed times, the Docker client has a timeout of 60s, `GetIP` has the lease
timeout). In `ManagerStart` both contexts end at some time, as
timers do. Nothing is assumed of dockerd, of the DHCP server, of udhcpc (it need
not emit an event, or exit) or of the disk, and no fault, restart or signal has to
happen. A process that has exited takes no step.

## Proofs

`StateTableProofs` proves, for any sets of endpoints and goroutines, any number of
changes, and a disk that may fail or not:

- `TypeCorrect`, `SettledExact`: Spec => []SettledFileIsExact. The property is not
  inductive: it says nothing while a save is pending. The invariant adds that, as long
  as no save failed or overlapped, at most one is pending and it holds the
  current table (`SettledPending`), and that everything pending is a table there has
  been (`PendingIsPast`).
- `Refinement`: every step of `StateTableHistory` is a step of `DurableTable` or
  leaves its variables alone.

`EndpointLifecycleProofs` proves, for any set of endpoints and any number of
retries and restarts, with or without shutdown and disk failures:

- `TypeCorrect`, `ManagersHaveOneHolder` (`OneHolder`), `RegisteredManagersRun`
  (`HeldManagersRun`), `RestoredStayRecorded` (`RestoredAreRecorded`: as long as dockerd has
  not sent the Leave, Restore is the only one to remove a record, and it does so only when it
  has given the endpoint up) and `MarksStayBounded` (`MarksAreBounded`). `OneHolder` counts Close
  as a holder, and excepts by name what it may share with the map and with a Leave.
- `ManagersAreReachable` (`NoOrphanManager`) from an invariant that accounts for every
  manager from its start on, for both specifications, and `ManagedStayRecorded`
  (`ManagedIsRecorded`) for a plugin that does not restart: a record only goes away in a
  Leave or a DeleteEndpoint, and dockerd sends neither before the Join is answered.
- `ManagersKeepToLife` (`ManagersLiveOnce`): each step follows `ManagerLife` for every
  manager. `LifeInv` says where there is none that may still run: before a Join starts
  its own, and for the endpoints that Restore has not come to or tries again.
  With `PromiseKept` below the two levels fit: `EndpointLifecycle` uses of a manager
  no more than `DHCPManager` implements.
- `LeavesEndManagers` (`LeaveEndsManager`): `Ending` is what a settled endpoint keeps from
  then on, in every step of the same process: its manager is in the map until the one Leave
  takes it, stays with that Leave until it has ended, and neither a Join nor Restore makes
  another one. Joined managers and restored ones are both covered; a restart ends the
  obligation, and a new one begins when the endpoint is settled again.
- `PhantomsGo` (`PhantomsAreDropped`): `TornInv` relates the teardown by dockerd to the
  record (an interface only goes after a Leave that has forgotten the endpoint, or in a
  reboot, which ends the Join goroutine, too); with it `Dropping` is kept by every step
  from the start of Restore on: as long as the endpoint has a record, it is on the list of
  Restore, which finds nothing to start a manager on.
- The invariant `Inv` is the argument why a manager has one holder: a manager of a
  Join is only in the map or with a Leave after its goroutine has registered it, and
  the goroutine does not come back (`HeldInv`), because dockerd sends no second Join
  once the first has spawned it (`JoinerInv`); Restore takes each endpoint of its
  snapshot once and drops it from `current` in the step that registers the manager
  (`RestorerInv`); and a Leave holds a manager exactly between taking it out of the
  map and having stopped it (`HandlerInv`). `RunInv` carries `HeldManagersRun` to the
  managers that are started and not yet registered.
- The step of each goroutine is a lemma of its own (`HandlerStepInv`,
  `JoinerStepInv`, `RestoreStepInv`, ...) with one case per action; the type of the
  table is proved from lemmas about the operations of `StateTable`.

`DHCPManagerProofs` proves, with and without IPv6, for any addresses and routers and
any number of restart attempts, events, exits and faults:

- `TypeCorrect`, `FreshClients` (`StartupDeconfigIgnored`), `LoopsEndForCause`
  (`LoopGoesOn`), `LeaseInForce` (`LeaseIsInstalled`), `AddressSurvives`
  (`OneFaultKeepsAddress`) and `CopiedRoutesStay` (`RoutesLostOnlyWithAddress`), for which
  the lease that made renew delete the address must still be the one in hand (`CauseInv`).
- `LeaseIsInstalled` speaks of the loop between two events only. Its invariant says
  what the interface has at each netlink call of `renew` as long as nothing has failed
  (`AddressInv`): the recorded address, until it is deleted; none, while the new one
  is to be added; and the branch that puts the old one back is never taken. Likewise
  the default route is that of the lease except while renew is about to set it
  (`RouteInv`), and with one failure the address is only missing inside renew, and
  then the failure is used up (`KeepInv`). `ClientInv` ties the process to the loop
  that owns it, so that a restart finds no event of the old process.
- `PromiseKept`: every step implements a step of `ManagerLife`. A loop sends its one
  result when it ends (`LoopInv`), so a result that is there is never overwritten, and
  taking the IPv4 result of two leaves the status as it is.

`RestoredManagerProofs` proves, in addition for any number of crashes,
`LastIPAfterRestart` (`RestoredLastIP`), `DropsAreCuts` (`DroppedOnlyIfCut`) and
`RestoredLoopsEndForCause` (`LoopGoesOnUnlessCut`). A step of the manager keeps the
invariant of `DHCPManagerProofs`, whose lemma is used as it stands; a crash keeps it
because it changes nothing of the interface; what has to be shown is that the manager
which Restore makes satisfies it again. For this the invariant adds that without failures
there is at most one address to find (`OneAddressInv`), that an address is missing only
inside a replacement or after one was cut off (`CutInv`), and that a manager which is
over has no handles (`HandlesInv`). The history of leases takes no part: what `LeaseIsInstalled` needs of it
(`LeaseInv`, `RouteInv`) is kept apart from `Inv`, because a crash breaks it.

`NetworksProofs` proves, for any networks, request goroutines, bridges, modes and bounds, `TypeCorrect`,
`OptionsAreOfTheNetwork` (`ServedIsOurs`) and `CacheFollows` (`CacheFollowsDocker`). The
first invariant follows the record of a
network through every place where a copy of it is kept (the cache, its file, the
snapshots of pending saves, the record of an endpoint): `RecordsFit` says that each copy has the bridge
and the mode with which the network was created. For `CacheFollows` a second one says that
the request that creates or deletes a network is alone with it (`ChangeAlone`), ties
the entry of a network to the place of its requests (`EntriesOK`), and the file to
the cache (`FileOK`): as long as no saves overlap or fail, at most one handler has a copy to
write, that copy is the cache, and the file lacks its entry only. So a restart loses nothing but the
entry of a request that it cuts off.

`InitialLeaseProofs` proves, for any addresses and both families, `TypeCorrect` and
`AnswersAreLeases` (`AnswerIsLease`).
The invariant follows the address of a bound event from the pipe through the scanner
and the collector (`LinesAreCurrent`, `StoredOK`, `HintOK`): none of them holds anything
of an earlier family's `udhcpc` once the next one runs.

`JoinAnswerProofs` proves, for any routers and any number of routes in addition,
`JoinTypeCorrect`, `RoutesAreRight` (`RoutesFollowHost`) and `CreateStaysRight`: `AnswerIsLease`
holds with a Join after it. What the answer has of the routes seen so far is right at each step of a
pass (`StaticOK`), so the induction is that over the steps. `PartGrows` says what one more
route does to the selected part of a sequence; `BeginOK` says that the second pass begins after
the first has ended.

`ManagerStartProofs` proves `TypeCorrect`, `ClientsAloneOwnLink` (`ClientsOwnLink`) and
`FailuresRelease` (`FailureReleases`). TLC checks all of this module, too, since it has no
parameter; the proof says why it holds: a goroutine that has sent has ended, the wait
inside a condition ends before that condition is asked again (`ChannelsOK`), and a
link of another namespace is only ever found by a Start that has failed (`LinkOK`).

The only assumptions are those of the modules on their constants: flags are Booleans,
bounds are naturals, the choices of a network are options, and the values for "nothing" (no snapshot, no address, no
gateway) are none of the real ones.

Model-checked only: liveness, since the prover does not support fairness and ENABLED
(`LeaveReturns`, `RestoreCompletes`, `CloseReturnsUnlessTaken`, `ClientsEnd`,
`RequestsAnswered`, `CreateReturns`, `UdhcpcIsReaped`, `StartEnds`). Every other property
of a run that passes is a theorem. The type invariant of `StateTableHistory` is a theorem that
no run names; that of `InitialLease` is a part of `JoinTypeOK`, which the run of `JoinAnswer`
checks. `ManagedStayRecorded` is one for a plugin that does
not restart only, as the run has it: after a restart Restore may give an endpoint up and remove its
record while a Join of it is starting (a hazard that is listed).

## Not modelled

Decoding and encoding of requests (`endpoints.go`, `util/json.go`), the access log and
`/healthz`: no state that the other parts share. `EndpointOperInfo` reads one record and
one link. Of the start of the program, the discovery of the plugin socket, the settings
and the watch of the Docker API; `Listen` on a path where a killed plugin has left its
socket file fails, and that dockerd has removed it is outside of this code. Command lines
of udhcpc, hostname encoding and namespace switching. Crashes in the middle of
`saveState` are covered by the rename: either the old file or the new one.

## Plan

1. `LeaveEndsManager` says what happens after an endpoint has settled. Next is the exact
   condition under which an endpoint that leaves earlier keeps its manager: that what
   `lifecycle_left` shows, and a Join that overwrites the entry of Restore, are the
   only ways.
2. `RestoredAreRecorded` covers the managers of Restore across restarts. Next is
   `ManagedIsRecorded` for those of Join, too, with the one case in which Restore removes
   the record of a Join that is starting named in the property, and with the file in place of
   the table, as far as saves neither fail nor overlap.
3. The lemmas that a liveness argument of Leave and Close would rest on, as far as they
   are safety properties: what each waits for is still to come.
