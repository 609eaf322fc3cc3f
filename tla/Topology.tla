------------------------------ MODULE Topology ------------------------------
(***************************************************************************)
(* topology.Parse (topology/topology.go, device.go, helper.go): from a DOT *)
(* graph to a topology, with the automatic management network.  Go ranges  *)
(* over the map of devices in an arbitrary order: which switch port and    *)
(* which address a device gets depends on it, what Parse promises must not.*)
(*                                                                         *)
(*   g, autoMgmt  the input: a graph and WithAutoMgmtNetwork               *)
(*   devs, attr   the keys of t.devs, and the attributes of each device    *)
(*   mgmtLinks    t.mgmtLinks, as a set; a link knows its place in it      *)
(*   builder      the addresses the ipAllocator has left                   *)
(*   mgmtIP       d.mgmtIP of each device, 0 for the zero IP               *)
(*   ifIndex      the next port of the management switch                   *)
(*   todo, pc     what the range loop has left, and where Parse is         *)
(*                                                                         *)
(* A string attribute is modelled by what its parser makes of it: mgmt_ip  *)
(* is absent, an address, a prefix (an address and the size of its block)  *)
(* or neither.  Addresses are counted from 192.168.200.0.                  *)
(***************************************************************************)
EXTENDS Naturals, FiniteSets

CONSTANTS
  Graph,     \* the inputs
  ValidName  \* the names that isValidHostname accepts

----------------------------------------------------------------------------
(* Devices and links.                                                      *)

Server == "oob-mgmt-server"
Switch == "oob-mgmt-switch"

\* DeviceFunction.
Fake == 0
OOBServer == 1
OOBSwitch == 2
NoFunction == 9

\* The attribute mgmt_ip.
Unset == [kind |-> "none", ip |-> 0, size |-> 1]
Address(ip) == [kind |-> "ip", ip |-> ip, size |-> 1]
Prefix(ip, size) == [kind |-> "prefix", ip |-> ip, size |-> size]
Garbled == [kind |-> "bad", ip |-> 0, size |-> 1]

\* A node without attributes but its function, on the tunnel address of the
\* Runner.
Node(function) ==
  [function |-> function, mgmt_ip |-> Unset, no_mgmt |-> FALSE,
   tunnelip |-> "", config |-> "ok", os |-> ""]

Eth(i) == <<"eth", i>>
Swp(i) == <<"swp", i>>
NoPort == <<"", 0>>

\* An edge of the graph, with the number of its line, and no attributes.
Edge(line, from, fromPort, to, toPort) ==
  [from |-> from, fromPort |-> fromPort, to |-> to, toPort |-> toPort,
   line |-> line, mgmt |-> 0, left_mac |-> 0, right_mac |-> 0,
   libvirt_type |-> ""]

\* The n-th link of the management network.
MgmtLink(n, from, fromPort, to, toPort) ==
  [Edge(0, from, fromPort, to, toPort) EXCEPT !.mgmt = n]

ASSUME TopologyAssumption ==
  \A x \in Graph :
    /\ DOMAIN x.attr = x.node
    /\ IsFiniteSet(x.node)
    /\ \A e \in x.edge : e.from \in x.node /\ e.to \in x.node /\ e.mgmt = 0
    /\ "" \notin x.node
    /\ \A d \in x.node :
         /\ x.attr[d].no_mgmt \in BOOLEAN
         /\ x.attr[d].mgmt_ip.ip \in Nat
         /\ x.attr[d].mgmt_ip.size \in Nat \ {0}

VARIABLES g, autoMgmt, devs, attr, mgmtLinks, builder, mgmtIP, ifIndex, todo,
          pc

parseVars == <<g, autoMgmt, devs, attr, mgmtLinks, builder, mgmtIP, ifIndex,
               todo, pc>>

----------------------------------------------------------------------------
(* The ipAllocator.                                                        *)

\* p.Masked().IP and p.Range().To.
Network(p) == p.ip - (p.ip % p.size)
Broadcast(p) == Network(p) + p.size - 1

\* Mutant: the broadcast address is not removed.
newIPAllocator_KeepsBroadcast(p) == Network(p)..Broadcast(p) \ {Network(p)}

newIPAllocator(p) == Network(p)..Broadcast(p) \ {Network(p), Broadcast(p)}

\* reserve(ip), when it returns true.
reserve(ip) ==
  /\ ip \in builder
  /\ builder' = builder \ {ip}

\* allocate() returns the first address of the first range.
allocate(ip) ==
  /\ \A x \in builder : ip <= x
  /\ reserve(ip)

----------------------------------------------------------------------------
(* Parse.                                                                  *)

Init ==
  /\ g \in Graph
  /\ autoMgmt \in BOOLEAN
  /\ devs = {} /\ attr = <<>> /\ mgmtLinks = {} /\ builder = {}
  /\ mgmtIP = <<>> /\ ifIndex = 2 /\ todo = {} /\ pc = "names"

Fail ==
  /\ pc' = "failed"
  /\ UNCHANGED <<g, autoMgmt, devs, attr, mgmtLinks, builder, mgmtIP, ifIndex,
                 todo>>

\* isValidHostname(d.Name) || d.Function() == Fake
NameOK(d) == d \in ValidName \/ g.attr[d].function = Fake

CheckNames ==
  /\ pc = "names"
  /\ \A d \in g.node : NameOK(d)
  /\ devs' = g.node
  /\ attr' = g.attr
  /\ mgmtIP' = [d \in g.node |-> 0]
  /\ pc' = IF autoMgmt THEN "mgmt" ELSE "links"
  /\ UNCHANGED <<g, autoMgmt, mgmtLinks, builder, ifIndex, todo>>

CheckNamesErr ==
  /\ pc = "names"
  /\ \E d \in g.node : ~NameOK(d)
  /\ Fail

\* The management server and switch that the graph does not define.
MgmtServer == [Node(OOBServer) EXCEPT !.mgmt_ip = Prefix(254, 256)]
MgmtSwitch == Node(OOBSwitch)

SetupDevices ==
  /\ pc = "mgmt"
  /\ devs' = devs \union {Server, Switch}
  /\ attr' = [d \in devs \union {Server, Switch} |->
                IF d \in devs THEN attr[d]
                ELSE IF d = Server THEN MgmtServer ELSE MgmtSwitch]
  /\ mgmtIP' = [d \in devs \union {Server, Switch} |-> 0]
  /\ mgmtLinks' = {MgmtLink(1, Server, Eth(0), "", NoPort),
                   MgmtLink(2, Switch, Eth(0), "", NoPort),
                   MgmtLink(3, Server, Eth(1), Switch, Swp(1))}
  /\ pc' = "prefix"
  /\ UNCHANGED <<g, autoMgmt, builder, ifIndex, todo>>

\* Devices that get a port of the management switch, and those of them that
\* come with an address.
Managed == {d \in devs : /\ attr[d].function \notin {OOBSwitch, OOBServer, Fake}
                         /\ ~attr[d].no_mgmt}
Explicit == {d \in Managed : attr[d].mgmt_ip.kind # "none"}

\* netaddr.ParseIPPrefix, newIPAllocator, and the server's own address.
SetupAllocator ==
  /\ pc = "prefix"
  /\ attr[Server].mgmt_ip.kind = "prefix"
  /\ builder' = newIPAllocator(attr[Server].mgmt_ip)
                  \ {attr[Server].mgmt_ip.ip}
  /\ pc' = "reserve"
  /\ todo' = Explicit
  /\ UNCHANGED <<g, autoMgmt, devs, attr, mgmtLinks, mgmtIP, ifIndex>>

SetupAllocatorErr ==
  /\ pc = "prefix"
  /\ attr[Server].mgmt_ip.kind # "prefix"
  /\ Fail

Reserve(d) ==
  /\ pc = "reserve" /\ d \in todo
  /\ attr[d].mgmt_ip.kind = "ip"
  /\ reserve(attr[d].mgmt_ip.ip)
  /\ mgmtIP' = [mgmtIP EXCEPT ![d] = attr[d].mgmt_ip.ip]
  /\ todo' = todo \ {d}
  /\ UNCHANGED <<g, autoMgmt, devs, attr, mgmtLinks, ifIndex, pc>>

\* netaddr.ParseIP fails, or reserve returns false.
ReserveErr(d) ==
  /\ pc = "reserve" /\ d \in todo
  /\ attr[d].mgmt_ip.kind # "ip" \/ attr[d].mgmt_ip.ip \notin builder
  /\ Fail

ReserveDone ==
  /\ pc = "reserve" /\ todo = {}
  /\ pc' = "wire"
  /\ todo' = Managed
  /\ UNCHANGED <<g, autoMgmt, devs, attr, mgmtLinks, builder, mgmtIP, ifIndex>>

\* Mutant: every device gets the same port of the switch.
NextIndex_Stuck == ifIndex

NextIndex == ifIndex + 1

\* Mutant: a device with an address of its own gets another one.
HasAddress_Never(d) == FALSE

\* !d.mgmtIP.IsZero()
HasAddress(d) == mgmtIP[d] # 0

Wire(d) ==
  /\ pc = "wire" /\ d \in todo
  /\ mgmtLinks' = mgmtLinks \union
       {MgmtLink(ifIndex + 2, Switch, Swp(ifIndex), d, Eth(0))}
  /\ ifIndex' = NextIndex
  /\ \/ HasAddress(d) /\ UNCHANGED <<builder, mgmtIP>>
     \/ /\ ~HasAddress(d)
        /\ \E ip \in builder :
             allocate(ip) /\ mgmtIP' = [mgmtIP EXCEPT ![d] = ip]
  /\ todo' = todo \ {d}
  /\ UNCHANGED <<g, autoMgmt, devs, attr, pc>>

\* allocate returns false.
WireErr(d) ==
  /\ pc = "wire" /\ d \in todo
  /\ ~HasAddress(d)
  /\ builder = {}
  /\ Fail

WireDone ==
  /\ pc = "wire" /\ todo = {}
  /\ pc' = "links"
  /\ UNCHANGED <<g, autoMgmt, devs, attr, mgmtLinks, builder, mgmtIP, ifIndex,
                 todo>>

\* Mutant: the links of the management network are left out.
Links_GraphOnly == g.edge

\* t.Links(): the edges of the graph in any order, then t.mgmtLinks.
Links == g.edge \union mgmtLinks

\* Links are associated with their endpoints; an uplink of the management
\* network is the only one with an end that is no device.  The error for other
\* unknown ends cannot occur: the DOT library makes both ends of an edge nodes.
AssociateLinks ==
  /\ pc = "links"
  /\ \A l \in Links :
       \/ l.from \in devs /\ l.to \in devs
       \/ l.from \in {Server, Switch} \intersect devs
          /\ l.fromPort = Eth(0) /\ l.to = ""
  /\ pc' = "parsed"
  /\ UNCHANGED <<g, autoMgmt, devs, attr, mgmtLinks, builder, mgmtIP, ifIndex,
                 todo>>

Parse ==
  \/ CheckNames \/ CheckNamesErr \/ SetupDevices
  \/ SetupAllocator \/ SetupAllocatorErr
  \/ \E d \in devs : Reserve(d) \/ ReserveErr(d) \/ Wire(d) \/ WireErr(d)
  \/ ReserveDone \/ WireDone \/ AssociateLinks

ParseSpec == Init /\ [][Parse]_parseVars

----------------------------------------------------------------------------
(* Properties.                                                             *)

\* The addresses Parse can give to devices, for the prefix p.
Usable(p) ==
  {ip \in Network(p)..Broadcast(p) :
     ip # Network(p) /\ ip # Broadcast(p) /\ ip # p.ip}

\* The managed devices, those with an address, and the prefix, as the graph
\* has them.
GraphManaged ==
  {d \in g.node : /\ g.attr[d].function \notin {Fake, OOBServer, OOBSwitch}
                  /\ ~g.attr[d].no_mgmt}
GraphExplicit == {d \in GraphManaged : g.attr[d].mgmt_ip.kind # "none"}
GraphPrefix == IF Server \in g.node THEN g.attr[Server].mgmt_ip
               ELSE Prefix(254, 256)

\* What an input must be for Parse to succeed, in no order: valid names, a
\* prefix, addresses of it that differ, and one for each other device.
Acceptable ==
  /\ \A d \in g.node : d \in ValidName \/ g.attr[d].function = Fake
  /\ autoMgmt =>
       /\ GraphPrefix.kind = "prefix"
       /\ \A d \in GraphExplicit :
            /\ g.attr[d].mgmt_ip.kind = "ip"
            /\ g.attr[d].mgmt_ip.ip \in Usable(GraphPrefix)
       /\ \A d, e \in GraphExplicit :
            d # e => g.attr[d].mgmt_ip.ip # g.attr[e].mgmt_ip.ip
       /\ Cardinality(GraphManaged) <= Cardinality(Usable(GraphPrefix))

\* Whether Parse succeeds depends on the input alone, although its loops see
\* the devices in an order that changes from call to call: reservations do
\* not meet allocations, and the range is exhausted only if it is too small.
ParseDecided ==
  /\ pc = "parsed" => Acceptable
  /\ pc = "failed" => ~Acceptable

\* After Parse the managed devices have different addresses of the server's
\* prefix; none is the network's, the broadcast's or the server's address,
\* and an address the graph asks for is kept.
AddressesDistinct ==
  pc = "parsed" /\ autoMgmt =>
    /\ \A d \in Managed : mgmtIP[d] \in Usable(attr[Server].mgmt_ip)
    /\ \A d, e \in Managed : d # e => mgmtIP[d] # mgmtIP[e]
    /\ \A d \in Explicit : mgmtIP[d] = attr[d].mgmt_ip.ip

\* "We assume that the prefix has already been validated": the mgmt_ip of a
\* management server, from which its commands are made, is a prefix.
PrefixValidated ==
  pc = "parsed" =>
    \A d \in devs :
      attr[d].function = OOBServer /\ attr[d].os # "none" =>
        attr[d].mgmt_ip.kind = "prefix"

=============================================================================
