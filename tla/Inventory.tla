----------------------------- MODULE Inventory ------------------------------
(***************************************************************************)
(* From a parsed topology to the wiring of the domains: buildInventory and *)
(* templateArgs (runner/libvirt/runner.go), gatherHosts and the commands   *)
(* for the management switch (customize.go).  Every link becomes a pair of *)
(* interfaces that are joined by a UDP tunnel; the management server hands *)
(* out the addresses of Parse by the MAC addresses chosen here.            *)
(*                                                                         *)
(*   at        where the Runner is: "none" until Parse has succeeded       *)
(*   devices   the keys of r.devices                                       *)
(*   tunnelIP  the tunnelIP of each device                                 *)
(*   ifaces    the interfaces of all devices; each knows its device, its   *)
(*             link and its side of it                                     *)
(*   macInt, nextPort  the counters of buildInventory                      *)
(*   left      what the current range loop has left: links, then devices   *)
(*   hosts     the result of gatherHosts                                   *)
(***************************************************************************)
EXTENDS Topology

CONSTANTS
  TunnelIP,  \* r.tunnelIP
  PortBase, PortGap,  \* r.portBase, r.portGap
  MacBase,   \* r.macBase, as a number
  MaxMAC     \* the largest EUI-48

ASSUME InventoryAssumption ==
  /\ PortBase \in Nat /\ PortGap \in Nat
  /\ MacBase \in Nat \ {0} /\ MaxMAC \in Nat

VARIABLES at, devices, tunnelIP, ifaces, macInt, nextPort, left, hosts

invVars == <<at, devices, tunnelIP, ifaces, macInt, nextPort, left, hosts>>
vars == <<parseVars, invVars>>

InventoryInit ==
  /\ Init
  /\ at = "none" /\ devices = {} /\ tunnelIP = <<>> /\ ifaces = {}
  /\ macInt = MacBase /\ nextPort = PortBase /\ left = {} /\ hosts = {}

----------------------------------------------------------------------------
(* The devices.                                                            *)

Simulated == {d \in devs : attr[d].function # Fake}

\* net.ParseIP(tunnelip) and fs.ReadFile(config).
DeviceOK(d) == attr[d].tunnelip # "bad" /\ attr[d].config # "unreadable"

BuildDevices ==
  /\ pc = "parsed" /\ at = "none"
  /\ \A d \in Simulated : DeviceOK(d)
  /\ devices' = Simulated
  /\ tunnelIP' = [d \in Simulated |-> IF attr[d].tunnelip = "" THEN TunnelIP
                                      ELSE attr[d].tunnelip]
  /\ left' = Links
  /\ at' = "links"
  /\ UNCHANGED <<parseVars, ifaces, macInt, nextPort, hosts>>

BuildDevicesErr ==
  /\ pc = "parsed" /\ at = "none"
  /\ \E d \in Simulated : ~DeviceOK(d)
  /\ at' = "failed"
  /\ UNCHANGED <<parseVars, devices, tunnelIP, ifaces, macInt, nextPort, left,
                 hosts>>

----------------------------------------------------------------------------
(* The links.                                                              *)

\* The tunnel address of an end; that of the Runner if it is not simulated.
TunnelOf(d) == IF d \in devices THEN tunnelIP[d] ELSE TunnelIP

\* The interface goes to a libvirt network: the uplinks of the management
\* network, and edges with libvirt_type=network.
ToNetwork(l) ==
  /\ l.from \in devices
  /\ \/ l.from \in {Server, Switch} /\ l.to = ""
     \/ l.libvirt_type = "network"

HasFrom(l) == l.from \in devices
HasTo(l) == l.to \in devices /\ ~ToNetwork(l)

\* FromMAC and ToMAC, or allocateMAC; the counter after the first and after
\* both of them.
macMiddle(l) == IF HasFrom(l) /\ l.left_mac = 0 THEN macInt + 1 ELSE macInt
macAfter(l) == IF HasTo(l) /\ l.right_mac = 0 THEN macMiddle(l) + 1
               ELSE macMiddle(l)

FromIface(l) ==
  [dev |-> l.from, link |-> l, side |-> "from", name |-> l.fromPort,
   mac |-> IF l.left_mac = 0 THEN macInt ELSE l.left_mac,
   network |-> ToNetwork(l),
   port |-> nextPort, localPort |-> nextPort + PortGap,
   remoteTunnelIP |-> TunnelOf(l.to)]

\* Mutant: both ends use the ports in the same order.
ToIface_SamePorts(l) ==
  [dev |-> l.to, link |-> l, side |-> "to", name |-> l.toPort,
   mac |-> IF l.right_mac = 0 THEN macMiddle(l) ELSE l.right_mac,
   network |-> FALSE,
   port |-> nextPort, localPort |-> nextPort + PortGap,
   remoteTunnelIP |-> TunnelOf(l.from)]

\* Mutant: the address of the other end is used twice.
ToIface_SameMAC(l) ==
  [dev |-> l.to, link |-> l, side |-> "to", name |-> l.toPort,
   mac |-> IF l.right_mac = 0 THEN macInt ELSE l.right_mac,
   network |-> FALSE,
   port |-> nextPort + PortGap, localPort |-> nextPort,
   remoteTunnelIP |-> TunnelOf(l.from)]

ToIface(l) ==
  [dev |-> l.to, link |-> l, side |-> "to", name |-> l.toPort,
   mac |-> IF l.right_mac = 0 THEN macMiddle(l) ELSE l.right_mac,
   network |-> FALSE,
   port |-> nextPort + PortGap, localPort |-> nextPort,
   remoteTunnelIP |-> TunnelOf(l.from)]

\* Edges of the graph come in any order, the management links in theirs.
NextLink(l) == \A m \in left : l.mgmt <= m.mgmt

BuildLink(l) ==
  /\ at = "links" /\ l \in left /\ NextLink(l)
  /\ macAfter(l) <= MaxMAC + 1
  /\ ifaces' = ifaces
       \union (IF HasFrom(l) THEN {FromIface(l)} ELSE {})
       \union (IF HasTo(l) THEN {ToIface(l)} ELSE {})
  /\ macInt' = macAfter(l)
  /\ nextPort' = IF ToNetwork(l) THEN nextPort ELSE nextPort + 1
  /\ left' = left \ {l}
  /\ UNCHANGED <<parseVars, at, devices, tunnelIP, hosts>>

\* macAddrFromUint64 panics.
BuildLinkPanic(l) ==
  /\ at = "links" /\ l \in left /\ NextLink(l)
  /\ macAfter(l) > MaxMAC + 1
  /\ at' = "panicked"
  /\ UNCHANGED <<parseVars, devices, tunnelIP, ifaces, macInt, nextPort, left,
                 hosts>>

\* The loop is over and the interfaces are sorted.
BuildLinksDone ==
  /\ at = "links" /\ left = {}
  /\ at' = "built"
  /\ UNCHANGED <<parseVars, devices, tunnelIP, ifaces, macInt, nextPort, left,
                 hosts>>

\* OSImage() is not empty: every function has a default image.
HasImage(d) == attr[d].os # "none"

\* customizeDomains calls gatherHosts for a management server with an image.
ServesHosts(d) == HasImage(d) /\ attr[d].function = OOBServer

CallGatherHosts ==
  /\ at = "built"
  /\ \E d \in devices : ServesHosts(d)
  /\ at' = "gather"
  /\ left' = devices \ {Server, Switch}
  /\ UNCHANGED <<parseVars, devices, tunnelIP, ifaces, macInt, nextPort, hosts>>

----------------------------------------------------------------------------
(* gatherHosts.                                                            *)

Of(d) == {i \in ifaces : i.dev = d}

\* Mutant: interfaces are not sorted.
Firsts_Unsorted(d) == Of(d)

\* d.interfaces[0] after sort.Slice, which is not stable: an interface eth0 if
\* there is one.  Module NatSort has the order of the others.
Firsts(d) ==
  LET eth0 == {i \in Of(d) : i.name = Eth(0)}
  IN  IF eth0 # {} THEN eth0 ELSE Of(d)

\* The host that stands for d, by its interface i.
etherHost(d, i) == [name |-> d, ip |-> mgmtIP[d], mac |-> i.mac]

GatherHost(d) ==
  /\ at = "gather" /\ d \in left
  /\ \E i \in Firsts(d) :
       hosts' = IF i.name # Eth(0) \/ mgmtIP[d] = 0 THEN hosts
                ELSE hosts \union {etherHost(d, i)}
  /\ left' = left \ {d}
  /\ UNCHANGED <<parseVars, at, devices, tunnelIP, ifaces, macInt, nextPort>>

\* interfaces[0] of a device that has none.
GatherHostPanic(d) ==
  /\ at = "gather" /\ d \in left
  /\ Of(d) = {}
  /\ at' = "panicked"
  /\ UNCHANGED <<parseVars, devices, tunnelIP, ifaces, macInt, nextPort, left,
                 hosts>>

GatherHostsDone ==
  /\ at = "gather" /\ left = {}
  /\ at' = "hosts"
  /\ UNCHANGED <<parseVars, devices, tunnelIP, ifaces, macInt, nextPort, left,
                 hosts>>

----------------------------------------------------------------------------
(* What the domains are made of.                                           *)

\* The UDP source of an interface in the domain's XML: the address it binds
\* and the address it sends to (templateArgs, marshalInterface).
UDPSource(i) ==
  [local |-> <<tunnelIP[i.dev], i.localPort>>,
   remote |-> <<i.remoteTunnelIP, i.port>>]

\* The udev rules of a device: which name the interface with a MAC gets.
UdevRules(d) == {<<i.mac, i.name>> : i \in Of(d)}

\* customizeDomains customises devices with an image; commandsForFunction adds
\* the bridge for a management switch.
WritesBridge(d) == HasImage(d) /\ attr[d].function = OOBSwitch

\* The ports that the bridge of d joins, if it gets one.
BridgePorts(d) ==
  IF WritesBridge(d) THEN {i.name : i \in Of(d)} \ {Eth(0)} ELSE {}

----------------------------------------------------------------------------

Build ==
  \/ BuildDevices \/ BuildDevicesErr \/ BuildLinksDone
  \/ \E l \in left : BuildLink(l) \/ BuildLinkPanic(l)

Gather ==
  \/ CallGatherHosts \/ GatherHostsDone
  \/ \E d \in left : GatherHost(d) \/ GatherHostPanic(d)

\* Nothing is left to do.
Ended ==
  /\ \/ pc = "failed" \/ at \in {"failed", "panicked", "hosts"}
     \/ at = "built" /\ \A d \in devices : ~ServesHosts(d)
  /\ UNCHANGED vars

Next == (Parse /\ UNCHANGED invVars) \/ Build \/ Gather \/ Ended

Spec == InventoryInit /\ [][Next]_vars

----------------------------------------------------------------------------
(* Properties.                                                             *)

Tunnels == {i \in ifaces : ~i.network}

\* The interfaces at the other end of the link of i.
Peers(i) == {j \in Tunnels : j.link = i.link /\ j.side # i.side}

\* With no more links than the gap between local and remote ports, no two
\* tunnels of one host bind the same port, and what an interface sends
\* reaches the other end of its link, which is there if it is simulated, and
\* nobody else.
TunnelsPaired ==
  nextPort <= PortBase + PortGap =>
    \A i \in Tunnels :
      /\ {j \in Tunnels : UDPSource(j).local = UDPSource(i).local} = {i}
      /\ {j \in Tunnels : UDPSource(j).local = UDPSource(i).remote} = Peers(i)
      /\ {i.link.from, i.link.to} \subseteq devices =>
           \E j \in Peers(i) : UDPSource(j).remote = UDPSource(i).local

\* left_mac or right_mac of the link, as far as it is this interface's.
GivenMAC(i) == IF i.side = "from" THEN i.link.left_mac ELSE i.link.right_mac

GivenMACsApart ==
  LET given == {i \in ifaces : GivenMAC(i) # 0}
  IN  /\ \A i, j \in given : i.mac = j.mac => i = j
      /\ \A i \in given : i.mac \notin MacBase..(macInt - 1)

\* As long as the addresses given in the graph differ from each other and
\* from those handed out, no MAC address occurs twice in a topology: every
\* udev rule names one interface, every lease is for one host.
MacsDistinct ==
  GivenMACsApart =>
    /\ \A i, j \in ifaces : i.mac = j.mac => i = j
    /\ \A d \in devices : Cardinality(UdevRules(d)) = Cardinality(Of(d))

\* The interfaces of the management network.
MgmtEnds(d) == {i \in Of(d) : i.link.mgmt > 0}

\* The DHCP server knows every managed device once, with the address Parse
\* chose and the MAC address of an eth0 of the device.  That is its port on
\* the management network, unless the graph has an eth0 of its own for it:
\* sort.Slice then puts either first.
HostsFile ==
  at = "hosts" /\ autoMgmt =>
    /\ \A d \in (Managed \intersect devices) \ {Server, Switch} :
         \E i \in Of(d) :
           /\ {h \in hosts : h.name = d} = {etherHost(d, i)}
           /\ i.name = Eth(0)
           /\ \/ MgmtEnds(d) = {i}
              \/ \E e \in g.edge : \/ <<e.from, e.fromPort>> = <<d, Eth(0)>>
                                  \/ <<e.to, e.toPort>> = <<d, Eth(0)>>
    /\ \A h, k \in hosts : h.ip = k.ip => h = k
    /\ {h.name : h \in hosts} \subseteq Managed

\* The ports of the switch on the management network, and those of them in its
\* bridge whose tunnel ends at the interface of d with a given name.
MgmtPorts == {i \in MgmtEnds(Switch) : ~i.network}
PortsTo(d, name) ==
  {i \in MgmtPorts : /\ i.name \in BridgePorts(Switch)
                     /\ \E j \in Peers(i) : j.dev = d /\ j.name = name}

\* If the management switch is an oob-switch with an image, every managed
\* device reaches the management server: the switch joins, in one bridge,
\* exactly one port that is tunnelled to the eth0 of the device and exactly one
\* that is tunnelled to the server's eth1; no two ports have the same name.
MgmtBridged ==
  at \in {"built", "gather", "hosts"} /\ autoMgmt
      /\ Switch \in devices /\ WritesBridge(Switch) =>
    /\ \A i, j \in MgmtPorts : i.name = j.name => i = j
    /\ \A d \in (Managed \intersect devices) \ {Switch} :
         Cardinality(PortsTo(d, Eth(0))) = 1
    /\ Server \in devices => Cardinality(PortsTo(Server, Eth(1))) = 1

\* gatherHosts takes the first interface of every device but the oob-mgmt
\* ones, and panics for a device that has none: that is a device without a
\* management address whose lines, if it has any, go to libvirt networks that
\* other devices are on.
GatherSafe ==
  at = "gather" =>
    \A d \in left : Of(d) = {} =>
      /\ autoMgmt => d \notin Managed
      /\ \A e \in g.edge : e.from # d /\ (e.to = d => ToNetwork(e))

=============================================================================
