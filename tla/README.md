# A TLA+ model of runtopo

runtopo reads a network topology (a Graphviz file), and brings it up as a set
of libvirt domains: it downloads base images, creates a disk for each device,
defines a domain, customises its disk with `virt-customize`, boots the domains
in order and registers virtual BMCs with `vbmcd`. `runtopo -d` takes everything
down again. Nothing is persisted by the program itself: all its memory between
two invocations is what libvirtd and vbmcd know.

This directory models the parts where order, failure and concurrency matter,
checks them with TLC and proves the safety properties with TLAPS.

## Inventory of the system

| Part | Source | State | Operations | Model |
|---|---|---|---|---|
| Runner life cycle | `runner/libvirt/runner.go` | `conn`, `baseImages`, `domains`, `bmcMan`; the volumes and domains in libvirtd | `Run`, `Destroy` and their stages | `Runner` |
| Virtual BMC manager | `runner/libvirt/vbmc.go` | `all`; the BMCs of vbmcd | `add`, `startAll`, `stopAll` | `Runner` |
| Disk customisation | `runner/libvirt/customize.go` | one goroutine and one `virt-customize` per device; the hosts of the DHCP server | `customizeDomain`, `gatherHosts` | `Runner` (control), `Inventory` (`gatherHosts`, bridge ports) |
| Base image download | `runner.go:437-514`, `volume.go`, `helper.go` | `wantImages`, `haveImages`, the storage pool | `downloadBaseImages`, `createVolumeFromURL` | `BaseImages` |
| Inventory | `runner.go:302-435`, `helper.go` | devices, interfaces, ports, MAC addresses | `buildInventory`, `natCompare` | `Inventory`, `NatSort`; one step of `Runner` |
| Topology parser | `topology/topology.go`, `graph.go`, `device.go`, `link.go` | the devices and links of the graph | `Parse` | `Topology` |
| Management network | `topology/topology.go`, `helper.go` | address allocator, automatic devices and links | `setupAutoMgmtNetwork`, `ipAllocator` | `Topology` |
| Runner interface | `runner/runner.go` | none | the promise of `Run` | `Provision` |
| Domain template | `template.go`, `domain.xml.in` | none | text generation | its interfaces and udev rules, in `Inventory` |
| Command line | `runtopo.go` | a context cancelled by SIGINT or SIGTERM | `main` | the client actions of `Runner` |

How they interact. `main` parses the topology, makes one Runner and calls
`Run` or `Destroy` on it with a context that signals cancel. `Run` goes through
nine stages; each of them talks to libvirtd synchronously (the context has no
effect on those calls) or starts external commands with `exec.CommandContext`
(which the context kills). Two stages, the downloads and the customisation,
fan out into goroutines that report on an unbuffered channel. Undoing is spread
over three mechanisms: a deferred function inside a stage undoes what the stage
did for some devices before it failed; deferred functions of `Run` undo whole
stages, by looking up *every* device by name; and `Destroy`, normally in another
process, removes everything by name. Several processes share the base images
of one storage pool.

What is hard about it:

* a stage fails after others succeeded, and the undoing itself can fail;
* undoing by name must not reach resources of somebody else;
* the context is cancelled at any point, also during the undoing;
* the process dies between any two calls and only `Destroy` can clean up;
* the same Runner is used for more than one call;
* results of goroutines arrive in any order, and the first error cancels the
  others while they are still writing;
* other processes see a base image before it is complete;
* `Parse` and `buildInventory` range over maps, so that addresses, ports and MAC
  addresses come out differently on every call, and must fit together each time;
* two of the panics lie behind assumptions about the input that another package
  checks for some inputs only.

`PROJECT.json` lists these at the lines where they bite.

## Modules

| Module | Contents |
|---|---|
| `Runner` | `Run`, `Destroy`, libvirtd, vbmcd, the goroutines of `customizeDomains`, and the client |
| `MCRunner` + seven `.cfg` | topologies of two or three devices |
| `RunnerProofs` | theorems about `Runner` |
| `Provision` | what a Runner promises to its client: an abstract transaction |
| `RunnerProvision` | the refinement mapping from `Runner` to `Provision` |
| `RunnerProvisionProofs` | the proof that `Runner` implements `Provision` |
| `BaseImages` | `downloadBaseImages` in several processes that share a pool |
| `MCBaseImages` + two `.cfg` | two processes, two devices, three URLs, two volume names |
| `BaseImagesProofs` | theorems about `BaseImages` |
| `Topology` | `Parse` with the automatic management network and the address allocator |
| `Inventory` | extends `Topology`: `buildInventory` and `gatherHosts` on what `Parse` returns |
| `MCInventory` + two `.cfg` | twenty-seven small graphs |
| `TopologyProofs`, `InventoryProofs` | theorems about these two |
| `MgmtProofs` | extends `InventoryProofs`: theorems about the management network from end to end |
| `NatSort` + `.cfg` | the order of interface names |
| `NatSortProofs` | theorems about this order |

An operator `X_Y` with the comment "Mutant" is a faulty variant of the operator
`X` that follows it. The specifications do not use them; each property of a
passing run is violated when one of them takes the place of its original.

### Runner

State. `vol`, `dom` and `vbmc` are what libvirtd and vbmcd know under the name
of each device: a volume does not exist, is fresh, has been touched by
`virt-customize` (`dirty`) or is customised to the end (`ready`); a domain is
absent, shut off or running; a BMC is absent, stopped or running. `conn`,
`baseImages`, `domains`/`nilDomains` and `bmcAll` are the fields of the Runner,
as far as the control flow depends on them: whether they are nil, and the keys
of the maps. `pc`, `todo` and `err` stand for the goroutine in `Run` or
`Destroy`: the stage, the devices its `range` loop has left, and the named result.
`worker` has the goroutines of `customizeDomains`. `created`, `defined`, `started`
and `added` are the slices of those names in the code, kept until the call
returns. `stuck*` and `fault` are history: which removals were refused, and whether a
call failed that nothing in the model explains.

Actions. Each call to libvirtd, `vbmc` or `virt-customize` is one step, with an
action for its success and one for its failure (`CreateVolume`,
`CreateVolumeErr`); a loop is `Visit`ed device by device in any order, as Go
ranges over maps, and its end is an action (`CreateVolumesDone`). An error goes
where the deferred functions lead: `createVolumes` to its own
undoing (`uncreate`) and then straight out of `Run`; `defineDomains` to its own
(`undefine`) and then to `deleteVolumes`, because at that point only the deferred
function with `deleteVolumes` is registered; later stages to `undefineDomains` and
then `deleteVolumes` (`Rollback`). `Destroy` shares these last two. `startAll` runs
inside `startDomains`, so its failure first deletes BMCs, then stops domains.

What the code can fail on is explicit: a name in use (volume, domain, BMC), a
cancelled context, `bmcMan.add` on a name it has. Any other failure of a call
(`Blame(FALSE)`) can happen at any time and is recorded in `fault`, so that a
property can say "nothing disturbed this call".

Clients. `NewRunner`, `Call`, `Return` allow any sequence of calls on any number
of Runners one after the other. `Cancel` can happen at any point of a call,
`Kill` too. A panic (`Panic`) runs the deferred functions, which see `err = nil` and
undo nothing; in a goroutine (`WorkerPanic`) it does not even run these.

Abstractions to know of:

* External: libvirtd, vbmcd, `virt-customize` and DHCP are modelled from how
  the code uses them. A volume name in use is refused. A domain name in use is
  refused because the template carries no uuid. `vbmc stop` and `vbmc delete` with
  several names try each and fail if one fails. A command under a cancelled
  context is not started, or is killed after it did all, part or none of its work.
* `RemoveDom` is `Destroy` and `Undefine` of a domain, errors ignored. If one is
  refused, the domain stays, running or shut off. (A domain that was undefined but
  not destroyed would be a running transient one: it is counted as running.)
* A `virt-customize` whose parent was killed is taken to die with it.
* The edges and attributes on which some panics depend are not in this module;
  constants say whether a topology may have what makes the code panic. `Overflow`: its MAC
  addresses run past the last EUI-48, or an interface has a number that is no int, so that
  `buildInventory` of `Run` and of `Destroy` may panic (`BuildInventoryPanic`). `Isolated`: a
  device has no interface. `Unprefixed`: the `mgmt_ip` of a management server is no prefix.
  `Inventory` (`BuildLinkPanic`, `GatherHostPanic`), `NatSort` (`Panics`) and `Topology` say
  for which topologies this is so. The panics of the code that are left out depend on the
  operating system's random numbers (`helper.go:36`, `customize.go:84`) and on the XML encoder
  (`template.go:75`); the one in `createVolumes` is in `BaseImages`.
* `downloadBaseImages` is one step here; `BaseImages` has its inside.
* One Runner is active at a time: two processes that run the *same* topology at
  the same time are left to the composition in the plan.

### BaseImages

State. `source` and `complete` are the pool: which URL a volume was created
for, and which volumes hold the whole image. `pc`, `todo`, `want`, `have`, `err`,
`ctxDone` and `worker` are the variables of `downloadBaseImages` in each process.

Actions. The lookup loop (`LookupFound`, `LookupMissing`; any error of the
lookup counts as "missing", as in the code), `StartDownloads`, the three steps
of a goroutine (`FetchLength`, `CreateVolume`, `Upload`), which can each fail
(`DownloadFails`), and the receive loop. A URL's volume is `Base[u]`, the last
element of its path, so different URLs can share a volume.

### Provision

`Run` as a transaction over a set of resources: while it works (`up`) it only
adds resources that were not there; it is `Done` with all of them, or turns back
once and then removes only what was not there before; it has `Failed` when what is
left of it are removals that the daemon refused. `Destroy` only removes. `End`
stands for the return, a panic or the death of the process at any point.

`RunnerProvision` maps volumes and domains to tagged resources, `pc`, `op` and
`err` to the mode, and what `Run` found to what it has not created or defined
itself. Virtual BMCs are left out of the mapping: findings 2 and 3 say
that the promise does not hold for them.

### Topology and Inventory

`Topology` starts with the nodes and edges that the DOT library delivers. A
string attribute is modelled by what its parser makes of it (`mgmt_ip` is absent,
an address, a prefix or garbled), a port name by its letters and its number, an
address by its distance from 192.168.200.0, where the default prefix begins. Hostnames
are names; `ValidName` has those that `isValidHostname` accepts. The DOT library makes a
node of each end of an edge, so the error for unknown ends in `Parse` (`topology.go:62`) has
no action. Each turn of a
`range` loop is a step and takes any device that is left.

`Inventory` goes on where `Parse` ended. `BuildLink` is one turn of the loop over
`t.Links()`: an interface for each end that is simulated, with its MAC address, its ports
and the tunnel address of the other end, or one interface on a libvirt network.
Edges of the graph come in any order, the management links in the order in which
`Parse` appended them. `UDPSource`, `UdevRules` and `BridgePorts` are what the domain XML,
the udev rules and the commands for the management switch make of the interfaces.
The registration of BMCs in `buildInventory` is in `Runner`.

### NatSort

A name is a sequence of bytes. `Loop` is the loop of `natCompare`, as a recursive
function of the number of bytes that are gone (the same in both names, since the loop
only goes past equal chunks), `Less` the function given to `sort.Slice`, and `Panics`
tells the pairs on which `mustAtoi` panics. The module has no state to speak of: the run enumerates triples of names.

## Runs

| Run | Shows |
|---|---|
| `runner_safety` | Three devices, two with a disk image, two with a BMC (one device has both). `RollbackComplete`, `BmcRollback`: a failed `Run` undoes what it made. `NoForeignChange`: and touches nothing else. `RunSucceedsFully`: a nil result means everything is up. `StartupOrder`, `BootsCustomised`: domains boot in order of function, after all customising. `CustomizeExclusive`: a disk being customised belongs to a shut-off domain of this `Run`. `DestroyNilClean`: a nil result of `Destroy` means that nothing is left. `ProvisionSpec`: the whole is a transaction in the sense of `Provision`. |
| `runner_config` | With both output files: the same for the late stages, and `CancelledCallReturns`: no `virt-customize` and no wait for a lease keeps a cancelled call from returning. `BmcRollback`: a failure of the outputs leaves all BMCs or none. `PanicsExplained`: with a sound topology that has BMCs no call panics, however often a Runner is used again. |
| `runner_panics` | Topologies without BMCs on which `Run` can panic in five places and `Destroy` in one. (What the panic of a `Destroy` leaves is no result of it: the property is about those that return.) `DestroyComplete`: an undisturbed `Destroy` removes everything that any failed, killed or panicked `Run` left. `TypeOK`. |
| `images_safety` | `NoMissingBase`: the panic in `createVolumes` ("we should've failed earlier already") is unreachable. `DownloadsJoined`: no goroutine outlives the call. `OwnDownloadComplete`: what a call downloaded itself is whole and the right image, name clashes included. `CompleteStays`: a whole image is never changed. `StoppedCallReturns`: after an error or a cancellation the call ends. |
| `wiring` | `ParseDecided`: whether `Parse` succeeds depends on the graph alone, not on the order of its loops. `AddressesDistinct`: managed devices have different usable addresses, and the requested ones. `TunnelsPaired`: up to `portGap` links, what an interface sends reaches the other end of its link and nobody else. `MacsDistinct`: no MAC address twice unless the graph's own clash. `HostsFile`: the DHCP server has one entry for each managed device, with the MAC address of its management port, or of another `eth0` that the graph gives it. `MgmtBridged`: if the switch is an `oob-switch` with an image, and so gets a bridge, exactly one port of the bridge is tunnelled to the `eth0` of each managed device and one to the server's `eth1`. `GatherSafe`: `gatherHosts` meets a device without interfaces only if it has no management address and no line of its own. |
| `natsort` | `StrictOrder`: the comparison of interface names is a strict total order with `eth0` first, as `sort.Slice` needs. `NaturalOrder`: names that differ in a number are in the order of the numbers. |
| `runner_destroy_after_run` | Violated: `DestroyAfterRun`, see below. |
| `runner_destroy_partial` | Violated: `DestroyComplete`, with a BMC. |
| `runner_cancel` | Violated: `CancelReleasesBMC`. |
| `runner_reuse` | Violated: `NoPanic`. |
| `images_named` | Violated: `NamedImage`. |
| `wiring_prefix` | Violated: `PrefixValidated`. |

Where the code and its documentation disagree:

1. `Destroy` on the Runner that executed `Run` fails for a topology with a
   `bmc` attribute: both fill `bmcMan.all`, and `add` refuses a name twice
   (`vbmc.go:65`).
2. `Destroy` cannot clean up after a `Run` that ended before it registered its
   BMCs: `vbmc stop` fails, and `Destroy` returns before it gets to domains and
   volumes (`runner.go:279`). Without BMCs it always can (`runner_panics`).
3. A `Run` cancelled after `vbmc add` leaves the BMCs registered, since the
   cleanup uses the cancelled context (`vbmc.go:85`). Errors in
   `writeSSHConfig` and `writeBMCConfig` leave them too, all of them and running,
   without any cancellation: `BmcRollback` has this as its second case.
4. After a call that set `r.domains` to nil, `Run` on the same Runner panics
   (`runner.go:638`), with volumes and a domain left behind.
5. An image volume is used as soon as its name exists (`runner.go:461`): while
   another process fills it, after a download that broke off, or when it came from
   another URL with the same last path element.

6. `writeExtraMgmtServerCommands` takes the `mgmt_ip` of a management server to be
   validated (`customize.go:172`), but `Parse` validates it only with the automatic
   management network and only for `oob-mgmt-server`. For other servers
   `MustParseIPPrefix` panics in a goroutine, which ends the process.

Four more panics are in the model and are no run of their own: `gatherHosts` indexes
`interfaces[0]` of a device without interfaces (`customize.go:212`), `writeSSHConfig`
dereferences a nil domain when there is no `oob-mgmt-server` (`runner.go:776`), and in
`buildInventory` `macAddrFromUint64` runs out of addresses (`helper.go:143`) or `mustAtoi`
meets a number that is no int (`helper.go:205`). `GatherSafe` and `PanicsExplained` say
when and where they can happen.

### Bounds

The state spaces of `Runner` and `BaseImages` are finite for finite constants:
there are no counters, and sequences of calls, cancellations and deaths are
unbounded. Only the topology is small. Three devices are enough to have, at the same time, one
that is done, one that fails and one that is not reached in a loop; imaged and
not imaged devices; BMCs on a device with and without an image; three different
functions. Where the question is about one resource, or a liveness property is
checked, two devices are used. Two processes with a shared and a clashing name
have every pair of lookup, creation, upload and failure; the third URL gives
each process two downloads at once. Symmetry is not used: devices differ in
function and attributes, and TLC checks liveness in the same runs.

The graphs of `MCInventory` have at most five nodes and six edges; each is there
for a case: parallel links, a link from a device to itself, devices on another
host, fake ends, libvirt networks, given and clashing MAC addresses, an own
management network with a second `eth0`, a management switch without an image or
of another function, which gets no bridge, devices without interfaces, addresses
that are requested twice, outside, at the edge of the prefix or malformed,
prefixes with five, one and no usable addresses, a bad `tunnelip`, an unreadable
`config`, an invalid name. Every graph is parsed with and without the management
network. `PortGap` (7) is smaller than the number of links of the widest
graph and `MaxMAC` ends within its addresses, so that both limits are passed.

`NatSort` has names of up to three bytes out of `-`, `0`, `1` and `a` (a byte below
the digits and one above them, leading zeros, numbers of up to three digits and
chunks of both kinds in either order) and `eth0`; `MaxInt` is 100, so
that `mustAtoi` panics on some of them.

### Fairness

`Runner`: `WF(Step)`, the goroutine that called `Run` or `Destroy` continues when
it can, which the Go scheduler gives as libvirtd and vbmcd answer; and
`WF(WorkerKilled(d))`, a command whose context is cancelled is killed, which
`exec.CommandContext` does. A wait is not a step: in `collect` and
`writeSSHConfig` the code waits and nothing is assumed of what it waits for.
`WriteSSHConfigErr`, a failing lease query, is outside `Step`, so that fairness
never relies on a failure there. There is no fairness for clients, leases or an
unkilled `virt-customize`.

`BaseImages`: `WF(Receive(p))`, and weak fairness of a download's failure while
its context is cancelled, as `net/http` does. A server that does not answer is
not assumed to. Between a cancellation and its effect the download may also
complete.

## Proofs

All constants are arbitrary, under the assumptions named in the modules, which
type them: `Imaged` and `BMC` are sets of devices, `Function` maps to 1..9, `Image` and
`Base` are functions, a graph has finitely many nodes, its edges join
nodes of it, and its prefixes have a positive size; a byte is a number up to 255. `Runner` and `BaseImages` need no
finiteness.

`RunnerProofs` proves, for every topology, `TypeOK`, `RollbackComplete`,
`BmcRollback`, `RunSucceedsFully`, `CustomizeExclusive`, `DestroyNilClean`,
`NoForeignChange`, `StartupOrder`, `BootsCustomised` and `PanicsExplained`, and, for every
topology without BMCs, `DestroyComplete` and `DestroyAfterRun`. None of the invariants is
inductive: at the end of a rollback they need to know what the loops before
did. `IInv` adds, besides `TypeOK`:

* `OpInv`: which labels belong to `Run` and which to `Destroy`, what has not been
  touched before a label is reached, and that the goroutines exist in two stages only;
* `OwnInv`: what this `Run` has made at each label. This is what makes undoing by
  name safe: when `undefineDomains` runs in `Run`, every device is in `defined`,
  and when `deleteVolumes` runs, every device is in `created`;
* `StageInv`: the states of disks and domains while the stages succeed, for the
  devices that the loop in progress has passed: the inductive form of "the earlier
  stages are complete";
* `WorkerInv`: where goroutines can be, and that a result received without an
  error means a customised disk;
* `RemovalInv`: behind the removing loops a device is gone or in `stuck*`;
* `BmcInv`: the BMCs of a failed `Run` stay deleted, or all running, through the rest of the
  rollback.

There is one lemma for the actions of each stage, `NextIInv` combines them, and
the action properties (`ForeignStep`, `BootStep`) follow from `IInv` for one step.

Two results need a second invariant next to `IInv`. `QuietInv`, for `DestroyIsComplete`: a
`Destroy` that nothing has disturbed so far has met nothing that refuses to go, and has
failed only if there are BMCs. The condition `BMC = {}` of the theorem is needed:
`runner_destroy_partial` and `runner_destroy_after_run` are the counterexamples with one.
`MapInv`, for `PanicsAreExplained` (each panic has its cause in the topology and happens in the
function it concerns, or is due to a nil map and no BMCs): `r.domains` has what `defineDomains` has defined, and
a Runner whose map is nil has all BMCs registered, so that `buildInventory` lets no other
call through unless there are none.

`BaseImagesProofs` proves `TypeOK`, `NoMissingBase`, `DownloadsJoined`,
`OwnDownloadComplete` and `CompleteStays` for any number of processes, devices and
URLs. Its `IInv` says that each device has left the lookup loop into `want` or
`have` (`LookupInv`), that without an error a wanted image that has no goroutine
any more was received whole (`ReceivedInv`), and that a goroutine that uploads is
the one that created the volume of its name (`WorkerInv`), which is why two
downloads under one name cannot both succeed.

`RunnerProvisionProofs` proves `Spec => ProvisionSpec`: initial states map to
initial states, and under `IInv` every step maps to a step of `Provision` or to a
stutter. There is one lemma for each kind of step (nothing made or removed, one
added, one removed or refused, the end of a call); the labels and the slices
`created` and `defined` in `IInv` are what makes the mapped `base` constant during a
`Run`.

`TopologyProofs` proves `ParseDecided` and `AddressesDistinct` for every graph, and
`PrefixValidated` for the graphs on which the comment in `customize.go` is right
(`OnlyServer`: the automatic network is on, and no device but `oob-mgmt-server` is a management
server). The heart of the invariant `PInv` is `AllocInv`: in both loops the addresses that the
allocator has left, and those that devices have, make up the usable addresses
of the prefix, without overlap. So when the allocator is empty, the devices that
have an address map onto the usable addresses, and there are fewer of these than
managed devices (`WireErrInput`, by counting); and an address can only be missing from the
allocator during the reservations because it is not usable or another device asked
for it (`ReserveErrInput`).

`InventoryProofs` proves `TunnelsPaired` and `MacsDistinct` for every graph, every
port base and gap and every order of the links. `PortInv` says that the ports of a
tunnel follow from the number of its link, and that two tunnels have the same
number exactly if they belong to the same link; `MacInv` that automatic addresses
lie below the counter. `SpecParses` shows that the composed specification
implements `ParseSpec`, which carries the theorems about `Parse` over to it.

`MgmtProofs` proves `HostsFile`, `MgmtBridged` and `GatherSafe`, which relate what `Parse`
adds to what `buildInventory` makes of it and `gatherHosts` finds. They hold at the end of three
loops, and `MInv` says what each has done so far: `StarInv`, that the management links are
the three fixed ones and one spoke for each device already wired, no two of them at the same
port or to the same device; `HolderInv`, that nobody else has an address; `CoverInv`, that
every end of a link that the loop of `buildInventory` has passed has its interface, with the
name of its port; `GatherInv`, that the devices visited so far have their one entry. For a
managed device its spoke then gives its one interface on the management network, an `eth0`
(`DeviceEnd`), and for the switch different ports (`SwitchPortsApart`), joined by tunnels
(`TunnelFacts`, from `PortInv`). A bridged port is the end of the trunk or of a spoke, and no two
spokes lead to the same device (`BridgedPort`, `DevicePort`, `ServerPort`): hence exactly one
port for each. The condition `WritesBridge(Switch)` is the code's: for an `oob-mgmt-switch` of another function or
with `os=none` the program writes no bridge, and its devices are not connected.

`NatSortProofs` proves `StrictOrder` and `NaturalOrder` for names of any length. The library's
induction theorems cannot be used, because they take an operator; but that a set of natural
numbers has a least element can (`Least`), and gives induction over positions in the form
"a set that contains a position whenever it contains the ones before it" (`Forward`,
`Backward`). With it the recursive functions in the module are shown to exist and to satisfy their equations
(`DigitsEquation`, `LoopEquation`), and then what the loop returns from any position on to be
antisymmetric, 0 for equal rests only (`LoopTotal`) and transitive (`LoopTransitive`). One turn
rests on `ChunkTransitive`: numbers are ordered by value and other chunks by bytes, and mixing the two is
harmless only because the digits are next to each other in ASCII. `Comparable` is
not needed for the proof: where `mustAtoi` panics there is no result, and the
order of the values would be the same.

Only model-checked: `CancelledCallReturns` and `StoppedCallReturns` (liveness under
fairness is out of the prover's reach).

## Not modelled

* The fixed text that the program generates (domain XML but for interfaces,
  `virt-customize` commands but for hosts and bridge, SSH and BMC
  configuration), flags, environment and key files: there is no order or failure
  in them that the stages do not have.
* The DOT grammar, which is a library's. Sizes (`cpu`, `memory`, `disk`) and PXE
  flags are passed on to libvirtd as they are.
* The width of port numbers: `buildInventory` hands numbers past 65535 to libvirtd.
  Nothing in the code limits the number of links to `portGap` either; the
  properties state the limit as their condition.
* Errors of `Free` and `Close` change nothing the program looks at again.

## Plan

What could follow:

1. For topologies with BMCs, a proof of what an undisturbed `Destroy` by a new Runner still
   guarantees when vbmcd knows all of them.
2. Two Runners with the same name prefix at the same time: the code has no
   protection against it, and the properties of `Runner` assume that nobody else
   uses the names.
3. The composition of `Runner` with `BaseImages`, in which an image that another
   process replaces by hand is seen by `createVolumes`.
