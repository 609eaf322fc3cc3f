-------------------------- MODULE InventoryProofs ---------------------------
(***************************************************************************)
(* What buildInventory guarantees for every graph, in whatever order the   *)
(* links come: the tunnels connect the ends of a link, and no MAC address  *)
(* is given twice.  The guarantees of Parse hold in the composition.       *)
(***************************************************************************)
EXTENDS Inventory, TopologyProofs

----------------------------------------------------------------------------
(* The inductive invariant.                                                *)

\* The end of the link that is not on the side of i.
FarEnd(i) == IF i.side = "from" THEN i.link.to ELSE i.link.from

\* The number of the link: one of the ports that the ends of it use.
PortNumber(i) == IF i.side = "from" THEN i.port ELSE i.localPort

\* Interfaces are made for devices, of links that the loop has passed.
IfaceInv ==
  /\ IsFiniteSet(ifaces)
  /\ at = "none" => ifaces = {}
  /\ \A i \in ifaces :
       /\ i.side \in {"from", "to"}
       /\ i.dev = (IF i.side = "from" THEN i.link.from ELSE i.link.to)
       /\ i.dev \in devices
       /\ at = "links" => i.link \notin left
  /\ \A i, j \in ifaces : i.link = j.link /\ i.side = j.side => i = j

\* The ports of a tunnel follow from the number of its link.
PortInv ==
  /\ nextPort \in Nat /\ nextPort >= PortBase
  /\ \A i \in Tunnels :
       /\ PortNumber(i) \in Nat
       /\ PortBase <= PortNumber(i) /\ PortNumber(i) < nextPort
       /\ i.side = "from" => i.localPort = PortNumber(i) + PortGap
       /\ i.side = "to" => i.port = PortNumber(i) + PortGap
       /\ i.remoteTunnelIP = TunnelOf(FarEnd(i))
       /\ FarEnd(i) \in devices => Peers(i) # {}
  /\ \A i, j \in Tunnels : PortNumber(i) = PortNumber(j) <=> i.link = j.link

\* Automatic addresses lie below the counter and differ; a given address is
\* the one of the link.
MacInv ==
  /\ macInt \in Nat /\ macInt >= MacBase
  /\ \A i \in ifaces :
       IF GivenMAC(i) = 0 THEN i.mac \in MacBase..(macInt - 1)
       ELSE i.mac = GivenMAC(i)
  /\ \A i, j \in ifaces :
       GivenMAC(i) = 0 /\ GivenMAC(j) = 0 /\ i.mac = j.mac => i = j

WInv == IfaceInv /\ PortInv /\ MacInv

----------------------------------------------------------------------------
(* One link.                                                               *)

\* The interfaces of a link.
NewIfaces(l) == (IF HasFrom(l) THEN {FromIface(l)} ELSE {})
                \union (IF HasTo(l) THEN {ToIface(l)} ELSE {})

\* What is known of a new interface.
LEMMA NewIfaceFacts ==
  ASSUME WInv, NEW l, NEW i \in NewIfaces(l)
  PROVE  /\ i.link = l /\ i.side \in {"from", "to"}
         /\ i.side = "from" => i = FromIface(l) /\ HasFrom(l)
         /\ i.side = "to" => i = ToIface(l) /\ HasTo(l)
         /\ i.dev = (IF i.side = "from" THEN l.from ELSE l.to)
         /\ i.dev \in devices
         /\ PortNumber(i) = nextPort
         /\ i.side = "from" => i.localPort = nextPort + PortGap
         /\ i.side = "to" => i.port = nextPort + PortGap
         /\ i.remoteTunnelIP = TunnelOf(FarEnd(i))
         /\ ~i.network <=> ~ToNetwork(l)
<1>1. (i = FromIface(l) /\ HasFrom(l)) \/ (i = ToIface(l) /\ HasTo(l))
  BY DEF NewIfaces
<1>2. CASE i = FromIface(l) /\ HasFrom(l)
  BY <1>2 DEF FromIface, HasFrom, PortNumber, FarEnd
<1>3. CASE i = ToIface(l) /\ HasTo(l)
  BY <1>3 DEF ToIface, HasTo, PortNumber, FarEnd
<1> QED
  BY <1>1, <1>2, <1>3

\* The counter of MAC addresses while a link is built.
LEMMA CounterFacts ==
  ASSUME WInv, NEW l
  PROVE  /\ macMiddle(l) \in Nat /\ macAfter(l) \in Nat
         /\ macInt <= macMiddle(l) /\ macMiddle(l) <= macAfter(l)
         /\ HasFrom(l) /\ l.left_mac = 0 => macMiddle(l) = macInt + 1
         /\ HasTo(l) /\ l.right_mac = 0 => macAfter(l) = macMiddle(l) + 1
  BY DEF WInv, MacInv, macMiddle, macAfter

\* The address of a new interface.
LEMMA NewMacFacts ==
  ASSUME WInv, NEW l, NEW i \in NewIfaces(l)
  PROVE  /\ GivenMAC(i) = 0 => i.mac \in macInt..(macAfter(l) - 1)
         /\ GivenMAC(i) # 0 => i.mac = GivenMAC(i)
         /\ GivenMAC(i) = 0 /\ i.side = "from" => i.mac < macMiddle(l)
         /\ GivenMAC(i) = 0 /\ i.side = "to" => i.mac = macMiddle(l)
<1>1. i.link = l /\ i.side \in {"from", "to"}
      /\ (i.side = "from" => i = FromIface(l) /\ HasFrom(l))
      /\ (i.side = "to" => i = ToIface(l) /\ HasTo(l))
  BY NewIfaceFacts
<1>2. macInt \in Nat
  BY DEF WInv, MacInv
<1>3. CASE i.side = "from"
  BY <1>1, <1>2, <1>3, CounterFacts DEF FromIface, GivenMAC
<1>4. CASE i.side = "to"
  BY <1>1, <1>2, <1>4, CounterFacts DEF ToIface, GivenMAC
<1> QED
  BY <1>1, <1>3, <1>4

\* A turn of the loop over the links.
LEMMA LinkIfaces ==
  ASSUME WInv, NEW l, BuildLink(l)
  PROVE  IfaceInv'
<1>1. /\ ifaces' = ifaces \union NewIfaces(l) /\ devices' = devices /\ at' = at
      /\ left' = left \ {l} /\ l \in left /\ at = "links"
  BY DEF BuildLink, NewIfaces
<1>2. IsFiniteSet(ifaces')
  <2>1. IsFiniteSet(NewIfaces(l))
    BY FS_EmptySet, FS_Singleton, FS_Union DEF NewIfaces
  <2> QED
    BY <1>1, <2>1, FS_Union DEF WInv, IfaceInv
<1>3. \A i \in ifaces : i.link # l /\ i.link \notin left
  BY <1>1 DEF WInv, IfaceInv
<1>4. \A i \in ifaces' :
        /\ i.side \in {"from", "to"}
        /\ i.dev = (IF i.side = "from" THEN i.link.from ELSE i.link.to)
        /\ i.dev \in devices
        /\ i.link \notin left'
  <2> SUFFICES ASSUME NEW i \in ifaces'
               PROVE  /\ i.side \in {"from", "to"}
                      /\ i.dev = (IF i.side = "from" THEN i.link.from
                                  ELSE i.link.to)
                      /\ i.dev \in devices
                      /\ i.link \notin left'
    OBVIOUS
  <2>1. CASE i \in ifaces
    BY <1>1, <1>3, <2>1 DEF WInv, IfaceInv
  <2>2. CASE i \in NewIfaces(l)
    BY <1>1, <2>2, NewIfaceFacts
  <2> QED
    BY <1>1, <2>1, <2>2
<1>5. \A i, j \in ifaces' : i.link = j.link /\ i.side = j.side => i = j
  <2> SUFFICES ASSUME NEW i \in ifaces', NEW j \in ifaces', i.link = j.link,
                      i.side = j.side
               PROVE  i = j
    OBVIOUS
  <2>1. CASE i \in ifaces /\ j \in ifaces
    BY <2>1 DEF WInv, IfaceInv
  <2>2. CASE i \in NewIfaces(l) /\ j \in NewIfaces(l)
    <3>1. i.side \in {"from", "to"}
      BY <2>2, NewIfaceFacts
    <3>2. CASE i.side = "from"
      <4>1. i = FromIface(l)
        BY <2>2, <3>2, NewIfaceFacts
      <4>2. j = FromIface(l)
        BY <2>2, <3>2, NewIfaceFacts
      <4> QED
        BY <4>1, <4>2
    <3>3. CASE i.side = "to"
      <4>1. i = ToIface(l)
        BY <2>2, <3>3, NewIfaceFacts
      <4>2. j = ToIface(l)
        BY <2>2, <3>3, NewIfaceFacts
      <4> QED
        BY <4>1, <4>2
    <3> QED
      BY <3>1, <3>2, <3>3
  <2>3. \A x \in NewIfaces(l) : x.link = l
    BY NewIfaceFacts
  <2> QED
    BY <1>1, <1>3, <2>1, <2>2, <2>3
<1> QED
  BY <1>1, <1>2, <1>4, <1>5 DEF IfaceInv

\* The ports of the new interfaces, and of those that were there.
LEMMA LinkPorts ==
  ASSUME WInv, NEW l, BuildLink(l)
  PROVE  PortInv'
<1>1. /\ ifaces' = ifaces \union NewIfaces(l) /\ devices' = devices
      /\ tunnelIP' = tunnelIP /\ l \in left /\ at = "links"
      /\ nextPort' = IF ToNetwork(l) THEN nextPort ELSE nextPort + 1
  BY DEF BuildLink, NewIfaces
<1>2. /\ nextPort \in Nat /\ nextPort >= PortBase /\ nextPort' \in Nat
      /\ nextPort' >= nextPort
  BY <1>1 DEF WInv, PortInv
<1>3. \A d : TunnelOf(d)' = TunnelOf(d)
  BY <1>1 DEF TunnelOf
<1>4. \A i \in ifaces : i.link # l
  BY <1>1 DEF WInv, IfaceInv
<1>5. \A i \in Tunnels' : i \in Tunnels
                          \/ (i \in NewIfaces(l) /\ ~ToNetwork(l) /\ ~i.network)
  BY <1>1, NewIfaceFacts DEF Tunnels
<1>6. Tunnels \subseteq Tunnels' /\ Tunnels \subseteq ifaces
  BY <1>1 DEF Tunnels
<1>7. ASSUME NEW i \in Tunnels'
      PROVE  /\ PortNumber(i) \in Nat
             /\ PortBase <= PortNumber(i) /\ PortNumber(i) < nextPort'
             /\ i.side = "from" => i.localPort = PortNumber(i) + PortGap
             /\ i.side = "to" => i.port = PortNumber(i) + PortGap
             /\ i.remoteTunnelIP = TunnelOf(FarEnd(i))
             /\ FarEnd(i) \in devices => Peers(i)' # {}
  <2>1. CASE i \in Tunnels
    <3>1. Peers(i) \subseteq Peers(i)'
      BY <1>6 DEF Peers
    <3> QED
      BY <1>2, <2>1, <3>1, InventoryAssumption DEF WInv, PortInv
  <2>2. CASE i \in NewIfaces(l) /\ ~ToNetwork(l) /\ ~i.network
    <3>1. /\ PortNumber(i) = nextPort /\ i.link = l
          /\ i.side \in {"from", "to"}
          /\ i.side = "from" => i.localPort = nextPort + PortGap
          /\ i.side = "to" => i.port = nextPort + PortGap
          /\ i.remoteTunnelIP = TunnelOf(FarEnd(i))
      BY <2>2, NewIfaceFacts
    <3>2. ASSUME FarEnd(i) \in devices
          PROVE  Peers(i)' # {}
      <4>1. CASE i.side = "from"
        <5>1. ToIface(l) \in NewIfaces(l)
          BY <2>2, <3>1, <3>2, <4>1 DEF FarEnd, HasTo, NewIfaces
        <5>2. ToIface(l) \in Peers(i)'
          BY <1>1, <3>1, <4>1, <5>1 DEF Peers, Tunnels, ToIface
        <5> QED
          BY <5>2
      <4>2. CASE i.side = "to"
        <5>1. FromIface(l) \in NewIfaces(l)
          BY <3>1, <3>2, <4>2 DEF FarEnd, HasFrom, NewIfaces
        <5>2. FromIface(l) \in Peers(i)'
          BY <1>1, <2>2, <3>1, <4>2, <5>1 DEF Peers, Tunnels, FromIface
        <5> QED
          BY <5>2
      <4> QED
        BY <3>1, <4>1, <4>2
    <3> QED
      BY <1>1, <1>2, <2>2, <3>1, <3>2, InventoryAssumption
  <2> QED
    BY <1>5, <2>1, <2>2
<1>8. ASSUME NEW i \in Tunnels', NEW j \in Tunnels'
      PROVE  PortNumber(i) = PortNumber(j) <=> i.link = j.link
  <2>1. \A x \in Tunnels : x.link # l /\ PortNumber(x) # nextPort
    BY <1>2, <1>4, <1>6 DEF WInv, PortInv
  <2>2. \A x \in NewIfaces(l) : x.link = l /\ PortNumber(x) = nextPort
    BY NewIfaceFacts
  <2>3. CASE i \in Tunnels /\ j \in Tunnels
    BY <2>3 DEF WInv, PortInv
  <2> QED
    BY <1>5, <2>1, <2>2, <2>3
<1>9. \A i : PortNumber(i)' = PortNumber(i) /\ FarEnd(i)' = FarEnd(i)
  BY DEF PortNumber, FarEnd
<1>10. nextPort' >= PortBase
  BY <1>2, InventoryAssumption
<1> QED
  BY <1>1, <1>2, <1>3, <1>7, <1>8, <1>9, <1>10 DEF PortInv

\* The addresses of the new interfaces, and of those that were there.
LEMMA LinkMacs ==
  ASSUME WInv, NEW l, BuildLink(l)
  PROVE  MacInv'
<1>1. ifaces' = ifaces \union NewIfaces(l) /\ macInt' = macAfter(l)
  BY DEF BuildLink, NewIfaces
<1>2. /\ macInt \in Nat /\ macInt' \in Nat /\ macInt <= macInt'
      /\ macInt >= MacBase /\ macInt' >= MacBase
  BY <1>1, CounterFacts, InventoryAssumption DEF WInv, MacInv
<1>3. \A i : GivenMAC(i)' = GivenMAC(i)
  BY DEF GivenMAC
<1>4. \A i \in ifaces : IF GivenMAC(i) = 0 THEN i.mac \in MacBase..(macInt - 1)
                        ELSE i.mac = GivenMAC(i)
  BY DEF WInv, MacInv
<1>5. \A i \in NewIfaces(l) :
        IF GivenMAC(i) = 0 THEN i.mac \in macInt..(macInt' - 1)
        ELSE i.mac = GivenMAC(i)
  BY <1>1, NewMacFacts
<1>6. \A i \in ifaces' : IF GivenMAC(i) = 0 THEN i.mac \in MacBase..(macInt' - 1)
                         ELSE i.mac = GivenMAC(i)
  BY <1>1, <1>2, <1>4, <1>5, InventoryAssumption
<1>7. ASSUME NEW i \in ifaces', NEW j \in ifaces', GivenMAC(i) = 0,
             GivenMAC(j) = 0, i.mac = j.mac
      PROVE  i = j
  <2>1. CASE i \in ifaces /\ j \in ifaces
    BY <1>7, <2>1 DEF WInv, MacInv
  <2>2. CASE i \in NewIfaces(l) /\ j \in NewIfaces(l)
    <3>1. /\ i.side \in {"from", "to"} /\ j.side \in {"from", "to"}
          /\ i.link = l /\ j.link = l
      BY <2>2, NewIfaceFacts
    <3>2. /\ i.side = "from" => i.mac < macMiddle(l)
          /\ i.side = "to" => i.mac = macMiddle(l)
      BY <1>7, <2>2, NewMacFacts
    <3>3. /\ j.side = "from" => j.mac < macMiddle(l)
          /\ j.side = "to" => j.mac = macMiddle(l)
      BY <1>7, <2>2, NewMacFacts
    <3>4. i.side = j.side
      BY <1>7, <3>1, <3>2, <3>3, CounterFacts
    <3>5. IfaceInv'
      BY LinkIfaces
    <3> QED
      BY <3>1, <3>4, <3>5 DEF IfaceInv
  <2>3. CASE i \in ifaces /\ j \in NewIfaces(l)
    BY <1>2, <1>4, <1>5, <1>7, <2>3, InventoryAssumption
  <2>4. CASE i \in NewIfaces(l) /\ j \in ifaces
    BY <1>2, <1>4, <1>5, <1>7, <2>4, InventoryAssumption
  <2> QED
    BY <1>1, <2>1, <2>2, <2>3, <2>4
<1> QED
  BY <1>2, <1>3, <1>6, <1>7 DEF MacInv

\* The other steps make no interface.
LEMMA QuietKeeps ==
  ASSUME WInv, UNCHANGED <<ifaces, macInt, nextPort>>,
         at' = "none" => at = "none",
         \/ ifaces = {}
         \/ /\ UNCHANGED <<devices, tunnelIP>>
            /\ at' = "links" => at = "links" /\ left' = left
  PROVE  WInv'
<1>1. Tunnels' = Tunnels
  BY DEF Tunnels
<1>2. \A i : /\ GivenMAC(i)' = GivenMAC(i) /\ FarEnd(i)' = FarEnd(i)
            /\ PortNumber(i)' = PortNumber(i) /\ Peers(i)' = Peers(i)
  BY <1>1 DEF GivenMAC, FarEnd, PortNumber, Peers
<1>3. MacInv'
  BY <1>2 DEF WInv, MacInv
<1>4. CASE ifaces = {}
  <2>1. Tunnels = {}
    BY <1>4 DEF Tunnels
  <2> QED
    BY <1>1, <1>2, <1>3, <1>4, <2>1 DEF WInv, IfaceInv, PortInv
<1>5. CASE /\ UNCHANGED <<devices, tunnelIP>>
           /\ at' = "links" => at = "links" /\ left' = left
  <2>1. \A d : TunnelOf(d)' = TunnelOf(d)
    BY <1>5 DEF TunnelOf
  <2>2. IfaceInv'
    BY <1>5 DEF WInv, IfaceInv
  <2>3. PortInv'
    BY <1>1, <1>2, <1>5, <2>1 DEF WInv, PortInv
  <2> QED
    BY <1>3, <2>2, <2>3 DEF WInv
<1> QED
  BY <1>4, <1>5

----------------------------------------------------------------------------
(* The whole of buildInventory and gatherHosts.                            *)

\* Before Parse is called.
LEMMA InitWInv == InventoryInit => WInv
<1> SUFFICES ASSUME InventoryInit PROVE WInv
  OBVIOUS
<1>1. ifaces = {} /\ macInt = MacBase /\ nextPort = PortBase
  BY DEF InventoryInit
<1>2. Tunnels = {} /\ IsFiniteSet(ifaces)
  BY <1>1, FS_EmptySet DEF Tunnels
<1> QED
  BY <1>1, <1>2, InventoryAssumption DEF WInv, IfaceInv, PortInv, MacInv

\* Every step keeps the invariant.
LEMMA NextWInv == WInv /\ [Next]_vars => WInv'
<1> SUFFICES ASSUME WInv, [Next]_vars PROVE WInv'
  OBVIOUS
<1>1. CASE UNCHANGED invVars
  BY <1>1, QuietKeeps DEF invVars
<1>2. CASE BuildDevices
  <2>1. ifaces = {}
    BY <1>2 DEF BuildDevices, WInv, IfaceInv
  <2> QED
    BY <1>2, <2>1, QuietKeeps DEF BuildDevices
<1>3. CASE BuildDevicesErr \/ BuildLinksDone \/ CallGatherHosts
           \/ GatherHostsDone
  BY <1>3, QuietKeeps DEF BuildDevicesErr, BuildLinksDone, CallGatherHosts,
     GatherHostsDone
<1>4. ASSUME NEW l \in left, BuildLink(l) PROVE WInv'
  BY <1>4, LinkIfaces, LinkPorts, LinkMacs DEF WInv
<1>5. ASSUME NEW l \in left,
             BuildLinkPanic(l) \/ GatherHost(l) \/ GatherHostPanic(l)
      PROVE  WInv'
  BY <1>5, QuietKeeps DEF BuildLinkPanic, GatherHost, GatherHostPanic
<1>6. Ended \/ UNCHANGED vars => UNCHANGED invVars
  BY DEF Ended, vars
<1> QED
  BY <1>1, <1>2, <1>3, <1>4, <1>5, <1>6 DEF Next, Build, Gather

\* The invariant of buildInventory.
LEMMA SpecWInv == Spec => []WInv
  BY InitWInv, NextWInv, PTL DEF Spec

----------------------------------------------------------------------------
(* The theorems.                                                           *)

\* Two tunnels that use one port as their own are one.
LEMMA LocalPorts ==
  ASSUME WInv, nextPort <= PortBase + PortGap, NEW i \in Tunnels,
         NEW j \in Tunnels
  PROVE  /\ i.localPort = j.localPort => i = j
         /\ j.localPort = i.port <=> j \in Peers(i)
<1> DEFINE m == PortNumber(i)
           n == PortNumber(j)
<1>1. /\ m \in Nat /\ n \in Nat /\ PortBase <= m /\ PortBase <= n
      /\ m < nextPort /\ n < nextPort /\ nextPort \in Nat
      /\ m = n <=> i.link = j.link
  BY DEF WInv, PortInv
<1>2. m # n + PortGap /\ n # m + PortGap
  BY <1>1, InventoryAssumption
<1>3. i \in ifaces /\ j \in ifaces
  BY DEF Tunnels
<1>4. /\ i.side \in {"from", "to"} /\ j.side \in {"from", "to"}
      /\ i.link = j.link /\ i.side = j.side => i = j
  BY <1>3 DEF WInv, IfaceInv
<1>5. /\ i.side = "from" => i.port = m /\ i.localPort = m + PortGap
      /\ i.side = "to" => i.port = m + PortGap /\ i.localPort = m
  BY <1>4 DEF WInv, PortInv, PortNumber
<1>6. /\ j.side = "from" => j.port = n /\ j.localPort = n + PortGap
      /\ j.side = "to" => j.port = n + PortGap /\ j.localPort = n
  BY <1>4 DEF WInv, PortInv, PortNumber
<1>7. i.localPort = j.localPort => i = j
  BY <1>1, <1>2, <1>4, <1>5, <1>6, InventoryAssumption
<1>8. j \in Peers(i) <=> m = n /\ i.side # j.side
  BY <1>1 DEF Peers
<1>9. j.localPort = i.port <=> m = n /\ i.side # j.side
  BY <1>1, <1>2, <1>4, <1>5, <1>6, InventoryAssumption
<1> QED
  BY <1>7, <1>8, <1>9

\* A peer has the address that i sends to, and sends to that of i.
LEMMA PeerAddresses ==
  ASSUME WInv, NEW i \in Tunnels, NEW j \in Peers(i)
  PROVE  tunnelIP[j.dev] = i.remoteTunnelIP
<1>1. j \in Tunnels /\ i \in ifaces /\ j \in ifaces /\ j.link = i.link
      /\ j.side # i.side
  BY DEF Peers, Tunnels
<1>2. j.dev = FarEnd(i) /\ j.dev \in devices
  BY <1>1 DEF WInv, IfaceInv, FarEnd
<1> QED
  BY <1>2 DEF WInv, PortInv, TunnelOf

\* The invariant pairs the tunnels.
LEMMA WInvTunnels == WInv => TunnelsPaired
<1> SUFFICES ASSUME WInv, nextPort <= PortBase + PortGap, NEW i \in Tunnels
             PROVE
      /\ {j \in Tunnels : UDPSource(j).local = UDPSource(i).local} = {i}
      /\ {j \in Tunnels : UDPSource(j).local = UDPSource(i).remote} = Peers(i)
      /\ {i.link.from, i.link.to} \subseteq devices =>
           \E j \in Peers(i) : UDPSource(j).remote = UDPSource(i).local
  BY DEF TunnelsPaired
<1>1. \A j : /\ UDPSource(j).local = <<tunnelIP[j.dev], j.localPort>>
            /\ UDPSource(j).remote = <<j.remoteTunnelIP, j.port>>
  BY DEF UDPSource
<1>2. \A j \in Peers(i) : j \in Tunnels /\ i \in Peers(j)
  BY DEF Peers
<1>3. {j \in Tunnels : UDPSource(j).local = UDPSource(i).local} = {i}
  <2>1. \A j \in Tunnels : j.localPort = i.localPort => j = i
    BY LocalPorts
  <2> QED
    BY <1>1, <2>1
<1>4. {j \in Tunnels : UDPSource(j).local = UDPSource(i).remote} = Peers(i)
  <2>1. \A j \in Tunnels : j.localPort = i.port <=> j \in Peers(i)
    BY LocalPorts
  <2>2. \A j \in Peers(i) : tunnelIP[j.dev] = i.remoteTunnelIP
    BY PeerAddresses
  <2>3. \A j \in Tunnels :
          UDPSource(j).local = UDPSource(i).remote
            <=> tunnelIP[j.dev] = i.remoteTunnelIP /\ j.localPort = i.port
    <3> TAKE j \in Tunnels
    <3>1. UDPSource(j).local = <<tunnelIP[j.dev], j.localPort>>
      BY <1>1
    <3>2. UDPSource(i).remote = <<i.remoteTunnelIP, i.port>>
      BY <1>1
    <3> QED
      BY <3>1, <3>2
  <2> QED
    BY <1>2, <2>1, <2>2, <2>3
<1>5. ASSUME {i.link.from, i.link.to} \subseteq devices
      PROVE  \E j \in Peers(i) : UDPSource(j).remote = UDPSource(i).local
  <2>1. FarEnd(i) \in devices
    BY <1>5 DEF FarEnd
  <2>2. PICK j : j \in Peers(i)
    BY <2>1 DEF WInv, PortInv
  <2>3. tunnelIP[i.dev] = j.remoteTunnelIP
    BY <1>2, <2>2, PeerAddresses
  <2>4. i.localPort = j.port
    BY <1>2, <2>2, LocalPorts
  <2> QED
    BY <1>1, <2>2, <2>3, <2>4
<1> QED
  BY <1>3, <1>4, <1>5

\* The invariant tells MAC addresses apart.
LEMMA WInvMacs == WInv => MacsDistinct
<1> SUFFICES ASSUME WInv, GivenMACsApart
             PROVE  /\ \A i, j \in ifaces : i.mac = j.mac => i = j
                    /\ \A d \in devices :
                         Cardinality(UdevRules(d)) = Cardinality(Of(d))
  BY DEF MacsDistinct
<1>1. ASSUME NEW i \in ifaces, NEW j \in ifaces, i.mac = j.mac
      PROVE  i = j
  <2>1. CASE GivenMAC(i) = 0 /\ GivenMAC(j) = 0
    BY <1>1, <2>1 DEF WInv, MacInv
  <2>2. CASE GivenMAC(i) # 0 /\ GivenMAC(j) # 0
    BY <1>1, <2>2 DEF GivenMACsApart
  <2>3. CASE GivenMAC(i) = 0 /\ GivenMAC(j) # 0
    BY <1>1, <2>3 DEF GivenMACsApart, WInv, MacInv
  <2>4. CASE GivenMAC(i) # 0 /\ GivenMAC(j) = 0
    BY <1>1, <2>4 DEF GivenMACsApart, WInv, MacInv
  <2> QED
    BY <2>1, <2>2, <2>3, <2>4
<1>2. ASSUME NEW d \in devices
      PROVE  Cardinality(UdevRules(d)) = Cardinality(Of(d))
  <2> DEFINE f == [i \in Of(d) |-> <<i.mac, i.name>>]
  <2>1. IsFiniteSet(Of(d))
    BY FS_Subset DEF Of, WInv, IfaceInv
  <2>2. f \in Surjection(Of(d), UdevRules(d))
    BY DEF Surjection, UdevRules
  <2>3. f \in Injection(Of(d), UdevRules(d))
    BY <1>1, <2>2 DEF Surjection, Injection, IsInjective, Of
  <2> QED
    BY <2>1, <2>2, <2>3, FS_Surjection
<1> QED
  BY <1>1, <1>2

\* With at most PortGap links between devices, the tunnels of every topology
\* connect the two ends of each link and nothing else.
THEOREM TunnelsArePaired == Spec => []TunnelsPaired
  BY WInvTunnels, SpecWInv, PTL

\* MAC addresses do not clash in any topology whose own addresses do not.
THEOREM MacsAreDistinct == Spec => []MacsDistinct
  BY WInvMacs, SpecWInv, PTL

\* buildInventory leaves alone what Parse has made.
LEMMA SpecParses == Spec => ParseSpec
<1>1. InventoryInit => Init
  BY DEF InventoryInit
<1>2. [Next]_vars => [Parse]_parseVars
  BY DEF Next, Build, Gather, Ended, vars, BuildDevices, BuildDevicesErr,
     BuildLinksDone, BuildLink, BuildLinkPanic, CallGatherHosts,
     GatherHostsDone, GatherHost, GatherHostPanic
<1> QED
  BY <1>1, <1>2, PTL DEF Spec, ParseSpec

\* The verdict of Parse depends on the input alone, here as well.
THEOREM VerdictIsDecided == Spec => []ParseDecided
  BY SpecParses, ParseIsDecided, PTL

\* The addresses that gatherHosts reads are those of Parse, all different.
THEOREM AddressesStayDistinct == Spec => []AddressesDistinct
  BY SpecParses, AddressesAreDistinct, PTL
=============================================================================
