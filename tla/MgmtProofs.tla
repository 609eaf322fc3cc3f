----------------------------- MODULE MgmtProofs -----------------------------
(***************************************************************************)
(* The automatic management network, end to end, for every graph: the      *)
(* links that Parse adds, the interfaces that buildInventory makes of      *)
(* them, and the hosts that gatherHosts finds behind them.                 *)
(***************************************************************************)
EXTENDS InventoryProofs

----------------------------------------------------------------------------
(* The inductive invariant.                                                *)

\* The links of the two management devices themselves.
ServerUplink == MgmtLink(1, Server, Eth(0), "", NoPort)
SwitchUplink == MgmtLink(2, Switch, Eth(0), "", NoPort)
Trunk == MgmtLink(3, Server, Eth(1), Switch, Swp(1))
Fixed == {ServerUplink, SwitchUplink, Trunk}

\* The link from port k of the switch to device d.
Spoke(k, d) == MgmtLink(k + 2, Switch, Swp(k), d, Eth(0))

\* The devices that have their link.
Wired == IF pc \in {"prefix", "reserve"} THEN {}
         ELSE IF pc = "wire" THEN Managed \ todo ELSE Managed

\* The management network is a star of which every wired device is one spoke,
\* on a port of its own.
StarInv ==
  /\ ifIndex \in Nat /\ ifIndex >= 2
  /\ Augmented =>
       /\ Fixed \subseteq mgmtLinks
       /\ \A l \in mgmtLinks \ Fixed :
            \E k \in 2..(ifIndex - 1), d \in Wired : l = Spoke(k, d)
       /\ \A d \in Wired : \E k \in 2..(ifIndex - 1) : Spoke(k, d) \in mgmtLinks
       /\ \A l, m \in mgmtLinks \ Fixed :
            l.to = m.to \/ l.fromPort = m.fromPort => l = m

\* Only managed devices have an address.
HolderInv == Augmented => \A d \in devs \ Managed : mgmtIP[d] = 0

\* buildInventory has devices, and it works on a topology that is parsed.
Building == at \in {"links", "built", "gather", "hosts", "panicked"}

\* The links that the loop of buildInventory has passed.
Passed == IF at = "links" THEN Links \ left
          ELSE IF at \in {"built", "gather", "hosts"} THEN Links ELSE {}

\* What an interface is follows from its link; and there is one for every end
\* of a link the loop has passed.
CoverInv ==
  /\ at \in {"none", "failed"} \/ Building
  /\ at # "none" => pc = "parsed"
  /\ Building => devices = Simulated
  /\ at = "links" => left \subseteq Links
  /\ \A i \in ifaces :
       /\ i.link \in Links
       /\ i.name = (IF i.side = "from" THEN i.link.fromPort
                    ELSE i.link.toPort)
       /\ i \in Tunnels <=> ~ToNetwork(i.link)
  /\ \A l \in Passed :
       /\ HasFrom(l) => \E i \in ifaces : i.link = l /\ i.side = "from"
       /\ HasTo(l) => \E i \in ifaces : i.link = l /\ i.side = "to"

\* The devices that gatherHosts has visited.
Visited == IF at = "gather" THEN (devices \ {Server, Switch}) \ left
           ELSE devices \ {Server, Switch}

\* Every visited device that has an address and an eth0 has one entry.
GatherInv ==
  /\ at \in {"none", "failed", "links", "built"} => hosts = {}
  /\ at \in {"gather", "hosts"} =>
       /\ at = "gather" => left \subseteq devices \ {Server, Switch}
       /\ \A h \in hosts :
            \E d \in Visited : \E i \in Firsts(d) :
              i.name = Eth(0) /\ mgmtIP[d] # 0 /\ h = etherHost(d, i)
       /\ \A h, k \in hosts : h.name = k.name => h = k
       /\ \A d \in Visited :
            mgmtIP[d] # 0 /\ (\E i \in Of(d) : i.name = Eth(0)) =>
              \E h \in hosts : h.name = d

MInv == PInv /\ StarInv /\ HolderInv /\ WInv /\ CoverInv /\ GatherInv

----------------------------------------------------------------------------
(* Ports and links.                                                        *)

\* Ports are equal only if kind and number are.
LEMMA PortNames ==
  ASSUME NEW k \in Nat, NEW m \in Nat
  PROVE  /\ Swp(k) = Swp(m) => k = m
         /\ Swp(k) # Eth(m)
         /\ Eth(k) = Eth(m) => k = m
<1>1. Swp(k) = <<"swp", k>> /\ Swp(m) = <<"swp", m>>
  BY DEF Swp
<1>2. Eth(k) = <<"eth", k>> /\ Eth(m) = <<"eth", m>>
  BY DEF Eth
<1> QED
  BY <1>1, <1>2

\* The parts of a spoke.
LEMMA SpokeFacts ==
  ASSUME NEW k, NEW d
  PROVE  /\ Spoke(k, d).from = Switch /\ Spoke(k, d).fromPort = Swp(k)
         /\ Spoke(k, d).to = d /\ Spoke(k, d).toPort = Eth(0)
         /\ Spoke(k, d).mgmt = k + 2 /\ Spoke(k, d).libvirt_type = ""
  BY DEF Spoke, MgmtLink, Edge

\* The parts of the fixed links.
LEMMA FixedFacts ==
  /\ ServerUplink.from = Server /\ ServerUplink.fromPort = Eth(0)
  /\ ServerUplink.to = "" /\ ServerUplink.mgmt = 1
  /\ SwitchUplink.from = Switch /\ SwitchUplink.fromPort = Eth(0)
  /\ SwitchUplink.to = "" /\ SwitchUplink.mgmt = 2
  /\ Trunk.from = Server /\ Trunk.fromPort = Eth(1)
  /\ Trunk.to = Switch /\ Trunk.toPort = Swp(1)
  /\ Trunk.mgmt = 3 /\ Trunk.libvirt_type = ""
  BY DEF ServerUplink, SwitchUplink, Trunk, MgmtLink, Edge

----------------------------------------------------------------------------
(* Parse builds the star.                                                  *)

\* Where nothing changes that the star depends on.
LEMMA StarSame ==
  ASSUME StarInv, UNCHANGED <<mgmtLinks, ifIndex>>, Augmented' => Augmented,
         Augmented' => Wired' = Wired
  PROVE  StarInv'
  BY DEF StarInv, Fixed

\* A device is wired to the next port of the switch.
LEMMA WireStar ==
  ASSUME PInv, StarInv, NEW d \in devs, Wire(d)
  PROVE  StarInv'
<1> DEFINE new == Spoke(ifIndex, d)
<1>1. /\ mgmtLinks' = mgmtLinks \union {new} /\ ifIndex' = ifIndex + 1
      /\ pc = "wire" /\ pc' = "wire" /\ todo' = todo \ {d} /\ d \in todo
      /\ UNCHANGED <<devs, attr, autoMgmt>>
  BY DEF Wire, Spoke, NextIndex
<1>2. Managed' = Managed /\ d \in Managed
  BY <1>1 DEF Managed, PInv, LoopInv
<1>3. Wired = Managed \ todo /\ Wired' = Wired \union {d} /\ d \notin Wired
  BY <1>1, <1>2 DEF Wired
<1>4. Augmented /\ ifIndex \in Nat /\ ifIndex >= 2
  BY <1>1 DEF Augmented, StarInv
<1>5. \A l \in mgmtLinks \ Fixed :
        \E k \in 2..(ifIndex - 1), e \in Wired : l = Spoke(k, e)
  BY <1>4 DEF StarInv
<1>6. \A l \in mgmtLinks \ Fixed : l.to # d /\ l.fromPort # Swp(ifIndex)
  <2> TAKE l \in mgmtLinks \ Fixed
  <2>1. PICK k \in 2..(ifIndex - 1), e \in Wired : l = Spoke(k, e)
    BY <1>5
  <2>2. l.to = e /\ l.fromPort = Swp(k)
    BY <2>1, SpokeFacts
  <2>3. k \in Nat /\ k # ifIndex
    BY <1>4
  <2> QED
    BY <1>3, <1>4, <2>2, <2>3, PortNames
<1>7. new.to = d /\ new.fromPort = Swp(ifIndex)
  BY SpokeFacts
<1>8. \A l, m \in mgmtLinks' \ Fixed :
        l.to = m.to \/ l.fromPort = m.fromPort => l = m
  BY <1>1, <1>4, <1>6, <1>7 DEF StarInv
<1>9. \A l \in mgmtLinks' \ Fixed :
        \E k \in 2..(ifIndex' - 1), e \in Wired' : l = Spoke(k, e)
  <2> TAKE l \in mgmtLinks' \ Fixed
  <2>1. CASE l = new
    BY <1>1, <1>3, <1>4, <2>1
  <2>2. CASE l \in mgmtLinks \ Fixed
    <3>1. PICK k \in 2..(ifIndex - 1), e \in Wired : l = Spoke(k, e)
      BY <1>5, <2>2
    <3>2. k \in 2..(ifIndex' - 1) /\ e \in Wired'
      BY <1>1, <1>3, <1>4
    <3> QED
      BY <3>1, <3>2
  <2> QED
    BY <1>1, <2>1, <2>2
<1>10. \A e \in Wired' : \E k \in 2..(ifIndex' - 1) : Spoke(k, e) \in mgmtLinks'
  <2> TAKE e \in Wired'
  <2>1. CASE e = d
    BY <1>1, <1>4, <2>1
  <2>2. CASE e \in Wired
    <3>1. PICK k \in 2..(ifIndex - 1) : Spoke(k, e) \in mgmtLinks
      BY <1>4, <2>2 DEF StarInv
    <3>2. k \in 2..(ifIndex' - 1)
      BY <1>1, <1>4
    <3> QED
      BY <1>1, <3>1, <3>2
  <2> QED
    BY <1>3, <2>1, <2>2
<1>11. Fixed' = Fixed /\ (\A k, e : Spoke(k, e)' = Spoke(k, e))
  BY DEF Fixed, Spoke
<1> QED
  BY <1>1, <1>4, <1>8, <1>9, <1>10, <1>11 DEF StarInv

\* Every step of Parse keeps the star, and gives addresses to managed devices
\* only.
LEMMA ParseStar ==
  PInv /\ StarInv /\ HolderInv /\ [Parse]_parseVars => StarInv' /\ HolderInv'
<1> SUFFICES ASSUME PInv, StarInv, HolderInv, [Parse]_parseVars
             PROVE  StarInv' /\ HolderInv'
  OBVIOUS
<1>1. CASE CheckNames
  <2>1. UNCHANGED <<mgmtLinks, ifIndex>> /\ ~Augmented'
    BY <1>1 DEF CheckNames, Augmented
  <2> QED
    BY <2>1, StarSame DEF HolderInv
<1>2. CASE Fail
  <2>1. UNCHANGED <<mgmtLinks, ifIndex>> /\ ~Augmented'
    BY <1>2 DEF Fail, Augmented
  <2> QED
    BY <2>1, StarSame DEF HolderInv
<1>3. CASE SetupDevices
  <2>1. mgmtLinks' = Fixed /\ ifIndex' = ifIndex /\ pc' = "prefix"
    BY <1>3 DEF SetupDevices, Fixed, ServerUplink, SwitchUplink, Trunk
  <2>2. Wired' = {} /\ Fixed' = Fixed
    BY <2>1 DEF Wired, Fixed
  <2>3. StarInv'
    BY <2>1, <2>2 DEF StarInv
  <2>4. HolderInv'
    BY <1>3 DEF SetupDevices, HolderInv
  <2> QED
    BY <2>3, <2>4
<1>4. CASE SetupAllocator
  <2>1. /\ UNCHANGED <<mgmtLinks, ifIndex, devs, attr, mgmtIP>>
        /\ pc = "prefix" /\ pc' = "reserve"
    BY <1>4 DEF SetupAllocator
  <2>2. Wired' = Wired /\ Augmented /\ Managed' = Managed
    BY <2>1 DEF Wired, Augmented, Managed
  <2> QED
    BY <2>1, <2>2, StarSame DEF HolderInv
<1>5. ASSUME NEW d \in devs, Reserve(d)
      PROVE  StarInv' /\ HolderInv'
  <2>1. /\ UNCHANGED <<mgmtLinks, ifIndex, devs, attr>> /\ d \in todo
        /\ pc = "reserve" /\ pc' = "reserve"
        /\ mgmtIP' = [mgmtIP EXCEPT ![d] = attr[d].mgmt_ip.ip]
    BY <1>5 DEF Reserve
  <2>2. Wired' = Wired /\ Augmented /\ Managed' = Managed /\ d \in Managed
    BY <2>1 DEF Wired, Augmented, Managed, PInv, LoopInv, Explicit
  <2> QED
    BY <2>1, <2>2, StarSame DEF HolderInv
<1>6. CASE ReserveDone
  <2>1. /\ UNCHANGED <<mgmtLinks, ifIndex, devs, attr, mgmtIP>>
        /\ pc = "reserve" /\ pc' = "wire" /\ todo' = Managed
    BY <1>6 DEF ReserveDone
  <2>2. Wired' = Wired /\ Augmented /\ Managed' = Managed
    BY <2>1 DEF Wired, Augmented, Managed
  <2> QED
    BY <2>1, <2>2, StarSame DEF HolderInv
<1>7. ASSUME NEW d \in devs, Wire(d)
      PROVE  StarInv' /\ HolderInv'
  <2>1. /\ UNCHANGED <<devs, attr>> /\ d \in todo /\ pc = "wire"
        /\ mgmtIP' = mgmtIP \/ \E ip : mgmtIP' = [mgmtIP EXCEPT ![d] = ip]
    BY <1>7 DEF Wire
  <2>2. Augmented /\ Managed' = Managed /\ d \in Managed
    BY <2>1 DEF Augmented, Managed, PInv, LoopInv
  <2>3. \A e \in devs \ Managed : mgmtIP'[e] = mgmtIP[e]
    <3>1. DOMAIN mgmtIP = devs
      BY <2>2 DEF PInv, DeviceInv
    <3>2. CASE mgmtIP' = mgmtIP
      BY <3>2
    <3>3. ASSUME NEW ip, mgmtIP' = [mgmtIP EXCEPT ![d] = ip]
          PROVE  \A e \in devs \ Managed : mgmtIP'[e] = mgmtIP[e]
      BY <2>2, <3>1, <3>3
    <3> QED
      BY <2>1, <3>2, <3>3
  <2>4. HolderInv'
    BY <2>1, <2>2, <2>3 DEF HolderInv
  <2> QED
    BY <1>7, <2>4, WireStar
<1>8. CASE WireDone
  <2>1. /\ UNCHANGED <<mgmtLinks, ifIndex, devs, attr, mgmtIP, autoMgmt>>
        /\ pc = "wire" /\ pc' = "links" /\ todo = {}
    BY <1>8 DEF WireDone
  <2>2. Wired' = Wired /\ Augmented /\ Managed' = Managed
    BY <2>1 DEF Wired, Augmented, Managed
  <2> QED
    BY <2>1, <2>2, StarSame DEF HolderInv
<1>9. CASE AssociateLinks \/ UNCHANGED parseVars
  <2>1. /\ UNCHANGED <<mgmtLinks, ifIndex, devs, attr, mgmtIP, autoMgmt, todo>>
        /\ pc' = pc \/ (pc = "links" /\ pc' = "parsed")
    BY <1>9 DEF AssociateLinks, parseVars
  <2>2. Wired' = Wired /\ Augmented' = Augmented /\ Managed' = Managed
    BY <2>1 DEF Wired, Augmented, Managed
  <2> QED
    BY <2>1, <2>2, StarSame DEF HolderInv
<1> QED
  BY <1>1, <1>2, <1>3, <1>4, <1>5, <1>6, <1>7, <1>8, <1>9 DEF Parse,
     CheckNamesErr, SetupAllocatorErr, ReserveErr, WireErr

----------------------------------------------------------------------------
(* buildInventory makes the interfaces of every link.                      *)

\* After Parse has succeeded it does nothing more.
LEMMA ParsedRests ==
  ASSUME pc = "parsed", [Parse]_parseVars
  PROVE  UNCHANGED parseVars
  BY DEF Parse, CheckNames, CheckNamesErr, SetupDevices, SetupAllocator,
     SetupAllocatorErr, Reserve, ReserveErr, Wire, WireErr, ReserveDone,
     WireDone, AssociateLinks

\* Steps that make no interface.
LEMMA CoverSame ==
  ASSUME CoverInv, Building, Building',
         UNCHANGED <<parseVars, devices, ifaces>>,
         Passed' \subseteq Passed, at' = "links" => left' \subseteq Links
  PROVE  CoverInv'
<1>1. /\ pc' = pc /\ at # "none" /\ Simulated' = Simulated /\ Links' = Links
      /\ Tunnels' = Tunnels
  BY DEF parseVars, Building, Simulated, Links, Tunnels
<1>2. \A l : /\ ToNetwork(l)' = ToNetwork(l) /\ HasFrom(l)' = HasFrom(l)
             /\ HasTo(l)' = HasTo(l)
  BY DEF ToNetwork, HasFrom, HasTo
<1> QED
  BY <1>1, <1>2 DEF CoverInv

\* The interfaces of one more link.
LEMMA CoverLink ==
  ASSUME WInv, CoverInv, NEW l, BuildLink(l)
  PROVE  CoverInv'
<1>1. /\ ifaces' = ifaces \union NewIfaces(l) /\ l \in left
      /\ at = "links" /\ at' = "links" /\ left' = left \ {l}
      /\ UNCHANGED <<g, mgmtLinks, devs, attr, pc, devices>>
  BY DEF BuildLink, NewIfaces, parseVars
<1>2. Simulated' = Simulated /\ Links' = Links /\ Building /\ Building'
  BY <1>1 DEF Building, Simulated, Links
<1>3. \A m : /\ ToNetwork(m)' = ToNetwork(m) /\ HasFrom(m)' = HasFrom(m)
             /\ HasTo(m)' = HasTo(m)
  BY <1>1 DEF ToNetwork, HasFrom, HasTo
<1>4. left \subseteq Links /\ l \in Links /\ Passed' = Passed \union {l}
  BY <1>1, <1>2 DEF CoverInv, Passed
<1>5. ASSUME NEW i \in ifaces'
      PROVE  /\ i.link \in Links
             /\ i.name = (IF i.side = "from" THEN i.link.fromPort
                          ELSE i.link.toPort)
             /\ i \in Tunnels' <=> ~ToNetwork(i.link)
  <2>1. CASE i \in ifaces
    <3>1. i \in Tunnels' <=> i \in Tunnels
      BY <1>1, <2>1 DEF Tunnels
    <3> QED
      BY <2>1, <3>1 DEF CoverInv
  <2>2. CASE i \in NewIfaces(l)
    <3>1. /\ i.link = l /\ i.side \in {"from", "to"}
          /\ i.side = "from" => i = FromIface(l)
          /\ i.side = "to" => i = ToIface(l)
          /\ ~i.network <=> ~ToNetwork(l)
      BY <2>2, NewIfaceFacts
    <3>2. i.name = (IF i.side = "from" THEN l.fromPort ELSE l.toPort)
      BY <3>1 DEF FromIface, ToIface
    <3>3. i \in Tunnels' <=> ~i.network
      BY DEF Tunnels
    <3> QED
      BY <1>4, <3>1, <3>2, <3>3
  <2> QED
    BY <1>1, <2>1, <2>2
<1>6. ASSUME NEW m \in Passed'
      PROVE  /\ HasFrom(m) => \E i \in ifaces' : i.link = m /\ i.side = "from"
             /\ HasTo(m) => \E i \in ifaces' : i.link = m /\ i.side = "to"
  <2>1. CASE m \in Passed
    BY <1>1, <2>1 DEF CoverInv
  <2>2. CASE m = l
    <3>1. ASSUME HasFrom(l)
          PROVE  \E i \in ifaces' : i.link = l /\ i.side = "from"
      <4>1. FromIface(l) \in ifaces'
        BY <1>1, <3>1 DEF NewIfaces
      <4>2. FromIface(l).link = l /\ FromIface(l).side = "from"
        BY DEF FromIface
      <4> QED
        BY <4>1, <4>2
    <3>2. ASSUME HasTo(l)
          PROVE  \E i \in ifaces' : i.link = l /\ i.side = "to"
      <4>1. ToIface(l) \in ifaces'
        BY <1>1, <3>2 DEF NewIfaces
      <4>2. ToIface(l).link = l /\ ToIface(l).side = "to"
        BY DEF ToIface
      <4> QED
        BY <4>1, <4>2
    <3> QED
      BY <2>2, <3>1, <3>2
  <2> QED
    BY <1>4, <2>1, <2>2
<1>7. /\ pc' = "parsed" /\ devices' = Simulated' /\ left' \subseteq Links'
      /\ Building'
  BY <1>1, <1>2, <1>4 DEF CoverInv
<1> QED
  BY <1>1, <1>2, <1>3, <1>5, <1>6, <1>7 DEF CoverInv

\* Every step keeps what is known of the interfaces.
LEMMA NextCover ==
  WInv /\ CoverInv /\ [Next]_vars => CoverInv'
<1> SUFFICES ASSUME WInv, CoverInv, [Next]_vars PROVE CoverInv'
  OBVIOUS
<1>1. CASE BuildDevices
  <2>1. /\ ifaces' = {} /\ at' = "links" /\ devices' = Simulated
        /\ left' = Links /\ UNCHANGED parseVars /\ pc = "parsed"
    BY <1>1 DEF BuildDevices, WInv, IfaceInv
  <2>2. Simulated' = Simulated /\ Links' = Links /\ Building' /\ pc' = "parsed"
    BY <2>1 DEF parseVars, Simulated, Links, Building
  <2>3. Passed' = {}
    BY <2>1, <2>2 DEF Passed
  <2> QED
    BY <2>1, <2>2, <2>3 DEF CoverInv
<1>2. CASE BuildDevicesErr
  <2>1. ifaces' = {} /\ at' = "failed" /\ pc' = "parsed"
    BY <1>2 DEF BuildDevicesErr, WInv, IfaceInv, parseVars
  <2>2. Passed' = {} /\ ~Building'
    BY <2>1 DEF Passed, Building
  <2> QED
    BY <2>1, <2>2 DEF CoverInv
<1>3. ASSUME NEW l \in left, BuildLink(l) PROVE CoverInv'
  BY <1>3, CoverLink
<1>4. ASSUME NEW l \in left,
             BuildLinkPanic(l) \/ GatherHost(l) \/ GatherHostPanic(l)
      PROVE  CoverInv'
  <2>1. /\ UNCHANGED <<parseVars, devices, ifaces>>
        /\ \/ at \in {"links", "gather"} /\ at' = "panicked"
           \/ at = "gather" /\ at' = "gather"
    BY <1>4 DEF BuildLinkPanic, GatherHost, GatherHostPanic
  <2>2. Links' = Links
    BY <2>1 DEF Links, parseVars
  <2>3. Building /\ Building' /\ Passed' \subseteq Passed /\ at' # "links"
    BY <2>1, <2>2 DEF Building, Passed
  <2> QED
    BY <2>1, <2>3, CoverSame
<1>5. CASE BuildLinksDone \/ CallGatherHosts \/ GatherHostsDone
  <2>1. /\ UNCHANGED <<parseVars, devices, ifaces>>
        /\ \/ at = "links" /\ at' = "built" /\ left = {}
           \/ at = "built" /\ at' = "gather"
           \/ at = "gather" /\ at' = "hosts"
    BY <1>5 DEF BuildLinksDone, CallGatherHosts, GatherHostsDone
  <2>2. Links' = Links
    BY <2>1 DEF Links, parseVars
  <2>3. Building /\ Building' /\ Passed' \subseteq Passed /\ at' # "links"
    BY <2>1, <2>2 DEF Building, Passed
  <2> QED
    BY <2>1, <2>3, CoverSame
<1>6. CASE [Parse]_parseVars /\ UNCHANGED invVars
  <2>1. UNCHANGED <<at, devices, ifaces, left>>
    BY <1>6 DEF invVars
  <2>2. CASE at = "none"
    <3>1. ifaces' = {} /\ Passed' = {} /\ ~Building'
      BY <2>1, <2>2 DEF WInv, IfaceInv, Passed, Building
    <3> QED
      BY <2>1, <2>2, <3>1 DEF CoverInv
  <2>3. CASE at = "failed"
    <3>1. UNCHANGED parseVars
      BY <1>6, <2>3, ParsedRests DEF CoverInv
    <3>2. pc' = pc /\ Links' = Links /\ Tunnels' = Tunnels
      BY <2>1, <3>1 DEF parseVars, Links, Tunnels
    <3>3. \A l : ToNetwork(l)' = ToNetwork(l)
      BY <2>1 DEF ToNetwork
    <3>4. Passed' = {} /\ ~Building'
      BY <2>1, <2>3 DEF Passed, Building
    <3> QED
      BY <2>1, <2>3, <3>2, <3>3, <3>4 DEF CoverInv
  <2>4. CASE Building
    <3>1. UNCHANGED parseVars
      BY <1>6, <2>4, ParsedRests DEF CoverInv, Building
    <3>2. Links' = Links
      BY <3>1 DEF parseVars, Links
    <3>3. Building' /\ Passed' = Passed /\ (at' = "links" => left' \subseteq Links)
      BY <2>1, <2>4, <3>2 DEF Building, Passed, CoverInv
    <3> QED
      BY <2>1, <2>4, <3>1, <3>3, CoverSame
  <2> QED
    BY <2>2, <2>3, <2>4 DEF CoverInv
<1>7. Ended \/ UNCHANGED vars => UNCHANGED <<parseVars, invVars>>
  BY DEF Ended, vars
<1> QED
  BY <1>1, <1>2, <1>3, <1>4, <1>5, <1>6, <1>7 DEF Next, Build, Gather

----------------------------------------------------------------------------
(* gatherHosts enters every device once.                                   *)

\* Steps outside the loop of gatherHosts.
LEMMA GatherSame ==
  ASSUME GatherInv, at \in {"gather", "hosts"}, at' \in {"gather", "hosts"},
         UNCHANGED <<ifaces, mgmtIP, devices, hosts>>, Visited' = Visited,
         at' = "gather" => left' \subseteq devices \ {Server, Switch}
  PROVE  GatherInv'
<1>1. \A d : /\ Of(d)' = Of(d) /\ Firsts(d)' = Firsts(d)
             /\ \A i : etherHost(d, i)' = etherHost(d, i)
  BY DEF Of, Firsts, etherHost
<1> QED
  BY <1>1 DEF GatherInv

\* One device.
LEMMA GatherDevice ==
  ASSUME GatherInv, NEW d \in left, GatherHost(d)
  PROVE  GatherInv'
<1>1. /\ at = "gather" /\ at' = "gather" /\ left' = left \ {d}
      /\ UNCHANGED <<ifaces, mgmtIP, devices>>
  BY DEF GatherHost, parseVars
<1>2. PICK i \in Firsts(d) :
        hosts' = IF i.name # Eth(0) \/ mgmtIP[d] = 0 THEN hosts
                 ELSE hosts \union {etherHost(d, i)}
  BY DEF GatherHost, etherHost
<1>3. \A e : /\ Of(e)' = Of(e) /\ Firsts(e)' = Firsts(e)
             /\ \A j : etherHost(e, j)' = etherHost(e, j) /\ etherHost(e, j).name = e
  BY <1>1 DEF Of, Firsts, etherHost
<1>4. left \subseteq devices \ {Server, Switch}
  BY <1>1 DEF GatherInv
<1>5. d \notin Visited /\ Visited' = Visited \union {d}
  BY <1>1, <1>4 DEF Visited
<1>6. \A h \in hosts : \E e \in Visited : \E j \in Firsts(e) :
        j.name = Eth(0) /\ mgmtIP[e] # 0 /\ h = etherHost(e, j)
  BY <1>1 DEF GatherInv
<1>7. \A h \in hosts : h.name # d
  BY <1>3, <1>5, <1>6
<1>8. \A h \in hosts' : \E e \in Visited' : \E j \in Firsts(e) :
        j.name = Eth(0) /\ mgmtIP[e] # 0 /\ h = etherHost(e, j)
  <2> TAKE h \in hosts'
  <2>1. CASE h \in hosts
    BY <1>5, <1>6, <2>1
  <2>2. CASE h \notin hosts
    BY <1>2, <1>5, <2>2
  <2> QED
    BY <2>1, <2>2
<1>9. \A h, k \in hosts' : h.name = k.name => h = k
  <2>1. \A h, k \in hosts : h.name = k.name => h = k
    BY <1>1 DEF GatherInv
  <2>2. etherHost(d, i).name = d
    BY <1>3
  <2> QED
    BY <1>2, <1>7, <2>1, <2>2
<1>10. \A e \in Visited' :
         mgmtIP[e] # 0 /\ (\E j \in Of(e) : j.name = Eth(0)) =>
           \E h \in hosts' : h.name = e
  <2> TAKE e \in Visited'
  <2>1. hosts \subseteq hosts'
    BY <1>2
  <2>2. CASE e \in Visited
    BY <1>1, <2>1, <2>2 DEF GatherInv
  <2>3. CASE e = d
    <3> SUFFICES ASSUME mgmtIP[d] # 0, \E j \in Of(d) : j.name = Eth(0)
                 PROVE  \E h \in hosts' : h.name = d
      BY <2>3
    <3>1. i.name = Eth(0)
      BY DEF Firsts
    <3>2. etherHost(d, i) \in hosts' /\ etherHost(d, i).name = d
      BY <1>2, <1>3, <3>1
    <3> QED
      BY <3>2
  <2> QED
    BY <1>5, <2>2, <2>3
<1> QED
  BY <1>1, <1>3, <1>4, <1>8, <1>9, <1>10 DEF GatherInv

\* Every step keeps what is known of the hosts.
LEMMA NextGather ==
  CoverInv /\ GatherInv /\ [Next]_vars => GatherInv'
<1> SUFFICES ASSUME CoverInv, GatherInv, [Next]_vars PROVE GatherInv'
  OBVIOUS
<1>1. CASE BuildDevices \/ BuildDevicesErr \/ BuildLinksDone
           \/ \E l \in left : BuildLink(l)
  <2>1. /\ hosts' = {} /\ at' \in {"links", "failed", "built"}
    BY <1>1 DEF BuildDevices, BuildDevicesErr, BuildLinksDone, BuildLink,
       GatherInv
  <2> QED
    BY <2>1 DEF GatherInv
<1>2. CASE \E l \in left : BuildLinkPanic(l) \/ GatherHostPanic(l)
  <2>1. at' = "panicked"
    BY <1>2 DEF BuildLinkPanic, GatherHostPanic
  <2> QED
    BY <2>1 DEF GatherInv
<1>3. CASE CallGatherHosts
  <2>1. hosts' = {} /\ at' = "gather" /\ devices' = devices
        /\ left' = devices \ {Server, Switch}
    BY <1>3 DEF CallGatherHosts, GatherInv
  <2>2. Visited' = {}
    BY <2>1 DEF Visited
  <2> QED
    BY <2>1, <2>2 DEF GatherInv
<1>4. ASSUME NEW d \in left, GatherHost(d) PROVE GatherInv'
  BY <1>4, GatherDevice
<1>5. CASE GatherHostsDone
  <2>1. /\ at = "gather" /\ at' = "hosts" /\ left = {}
        /\ UNCHANGED <<ifaces, mgmtIP, devices, hosts>>
    BY <1>5 DEF GatherHostsDone, parseVars
  <2>2. Visited' = Visited
    BY <2>1 DEF Visited
  <2> QED
    BY <2>1, <2>2, GatherSame
<1>6. CASE [Parse]_parseVars /\ UNCHANGED invVars
  <2>1. UNCHANGED <<at, devices, ifaces, left, hosts>>
    BY <1>6 DEF invVars
  <2>2. CASE at \in {"gather", "hosts"}
    <3>1. UNCHANGED mgmtIP
      BY <1>6, <2>2, ParsedRests DEF CoverInv, parseVars
    <3>2. Visited' = Visited
      BY <2>1 DEF Visited
    <3> QED
      BY <2>1, <2>2, <3>1, <3>2, GatherSame DEF GatherInv
  <2>3. CASE at \notin {"gather", "hosts"}
    BY <2>1, <2>3 DEF GatherInv
  <2> QED
    BY <2>2, <2>3
<1>7. Ended \/ UNCHANGED vars => UNCHANGED <<parseVars, invVars>>
  BY DEF Ended, vars
<1> QED
  BY <1>1, <1>2, <1>3, <1>4, <1>5, <1>6, <1>7 DEF Next, Build, Gather

----------------------------------------------------------------------------
(* The whole.                                                              *)

\* The invariant holds before Parse is called.
LEMMA InitMInv == InventoryInit => MInv
<1> SUFFICES ASSUME InventoryInit PROVE MInv
  OBVIOUS
<1>1. PInv
  BY InitPInv DEF InventoryInit
<1>2. WInv
  BY InitWInv
<1>3. ~Augmented /\ ifIndex = 2
  BY DEF InventoryInit, Init, Augmented
<1>4. StarInv /\ HolderInv
  BY <1>3 DEF StarInv, HolderInv
<1>5. at = "none" /\ ifaces = {} /\ hosts = {}
  BY DEF InventoryInit
<1>6. CoverInv /\ GatherInv
  BY <1>5 DEF CoverInv, GatherInv, Building, Passed
<1> QED
  BY <1>1, <1>2, <1>4, <1>6 DEF MInv

\* Every step keeps it.
LEMMA NextMInv == MInv /\ [Next]_vars => MInv'
<1> SUFFICES ASSUME MInv, [Next]_vars PROVE MInv'
  OBVIOUS
<1>1. [Parse]_parseVars
  BY DEF Next, Build, Gather, Ended, vars, BuildDevices, BuildDevicesErr,
     BuildLinksDone, BuildLink, BuildLinkPanic, CallGatherHosts,
     GatherHostsDone, GatherHost, GatherHostPanic
<1>2. PInv' /\ StarInv' /\ HolderInv'
  BY <1>1, ParsePInv, ParseStar DEF MInv
<1>3. WInv' /\ CoverInv' /\ GatherInv'
  BY NextWInv, NextCover, NextGather DEF MInv
<1> QED
  BY <1>2, <1>3 DEF MInv

\* The invariant of the management network.
LEMMA SpecMInv == Spec => []MInv
  BY InitMInv, NextMInv, PTL DEF Spec

----------------------------------------------------------------------------
(* The management network of an inventory.                                 *)

\* buildInventory has made all interfaces of a topology with an automatic
\* management network.
Built == MInv /\ autoMgmt /\ at \in {"built", "gather", "hosts"}

\* By then all managed devices are wired, and the management links are those
\* with a number.
LEMMA BuiltFacts ==
  ASSUME Built
  PROVE  /\ pc = "parsed" /\ Augmented /\ Wired = Managed /\ Passed = Links
         /\ devices \subseteq devs /\ "" \notin devs
         /\ \A l \in Links : l.mgmt > 0 <=> l \in mgmtLinks
         /\ \A l \in Fixed : l \in mgmtLinks /\ l.mgmt \in 1..3
         /\ ifIndex \in Nat
<1>1. pc = "parsed" /\ Augmented /\ Wired = Managed /\ Passed = Links
  BY DEF Built, MInv, CoverInv, Augmented, Wired, Passed
<1>2. devices \subseteq devs
  BY DEF Built, MInv, CoverInv, Building, Simulated
<1>3. g \in Graph /\ devs = g.node \union {Server, Switch}
  BY <1>1 DEF Built, MInv, PInv, InputInv, DeviceInv
<1>4. "" \notin devs
  BY <1>3, TopologyAssumption DEF Server, Switch
<1>5. \A l \in g.edge : l.mgmt = 0
  BY <1>3, TopologyAssumption
<1>6. ifIndex \in Nat /\ Fixed \subseteq mgmtLinks
  BY <1>1 DEF Built, MInv, StarInv
<1>7. \A l \in Fixed : l.mgmt \in 1..3
  <2>1. ServerUplink.mgmt = 1 /\ SwitchUplink.mgmt = 2 /\ Trunk.mgmt = 3
    BY FixedFacts
  <2> QED
    BY <2>1 DEF Fixed
<1>8. ASSUME NEW l \in mgmtLinks PROVE l.mgmt > 0
  <2>1. CASE l \in Fixed
    BY <1>7, <2>1
  <2>2. CASE l \notin Fixed
    <3>1. PICK k \in 2..(ifIndex - 1), d \in Wired : l = Spoke(k, d)
      BY <1>1, <2>2 DEF Built, MInv, StarInv
    <3>2. l.mgmt = k + 2
      BY <3>1, SpokeFacts
    <3> QED
      BY <1>6, <3>2
  <2> QED
    BY <2>1, <2>2
<1>9. \A l \in Links : l.mgmt > 0 <=> l \in mgmtLinks
  BY <1>5, <1>8 DEF Links
<1> QED
  BY <1>1, <1>2, <1>4, <1>6, <1>7, <1>9

\* A link has an interface on each side that is a device.
LEMMA EndFacts ==
  ASSUME Built, NEW l \in Links
  PROVE  /\ HasFrom(l) => \E i \in ifaces :
              i.link = l /\ i.side = "from" /\ i.dev = l.from
              /\ i.name = l.fromPort /\ (i \in Tunnels <=> ~ToNetwork(l))
         /\ HasTo(l) => \E i \in ifaces :
              i.link = l /\ i.side = "to" /\ i.dev = l.to
              /\ i.name = l.toPort /\ (i \in Tunnels <=> ~ToNetwork(l))
<1>1. l \in Passed
  BY BuiltFacts
<1>2. /\ HasFrom(l) => \E i \in ifaces : i.link = l /\ i.side = "from"
      /\ HasTo(l) => \E i \in ifaces : i.link = l /\ i.side = "to"
  BY <1>1 DEF Built, MInv, CoverInv
<1>3. \A i \in ifaces :
        /\ i.dev = (IF i.side = "from" THEN i.link.from ELSE i.link.to)
        /\ i.name = (IF i.side = "from" THEN i.link.fromPort
                     ELSE i.link.toPort)
        /\ i \in Tunnels <=> ~ToNetwork(i.link)
  BY DEF Built, MInv, CoverInv, WInv, IfaceInv
<1> QED
  BY <1>2, <1>3

\* A tunnel between two devices has both its ends.
LEMMA TunnelFacts ==
  ASSUME Built, NEW l \in Links, l.from \in devices, l.to \in devices,
         l.libvirt_type # "network"
  PROVE  \E i, j \in Tunnels :
           /\ i.link = l /\ i.dev = l.from /\ i.name = l.fromPort
           /\ j.link = l /\ j.dev = l.to /\ j.name = l.toPort
           /\ j \in Peers(i) /\ i \in Peers(j)
<1>1. ~ToNetwork(l) /\ HasFrom(l) /\ HasTo(l)
  BY BuiltFacts DEF ToNetwork, HasFrom, HasTo
<1>2. PICK i \in ifaces :
        i.link = l /\ i.side = "from" /\ i.dev = l.from
        /\ i.name = l.fromPort /\ i \in Tunnels
  BY <1>1, EndFacts
<1>3. PICK j \in ifaces :
        j.link = l /\ j.side = "to" /\ j.dev = l.to
        /\ j.name = l.toPort /\ j \in Tunnels
  BY <1>1, EndFacts
<1>4. j \in Peers(i) /\ i \in Peers(j)
  BY <1>2, <1>3 DEF Peers
<1> QED
  BY <1>2, <1>3, <1>4

\* Spokes are told apart by their devices and by their ports.
LEMMA SpokesApart ==
  ASSUME Built, NEW l \in mgmtLinks \ Fixed
  PROVE  /\ \E k \in Nat \ {0, 1}, d \in Managed : l = Spoke(k, d)
         /\ \A m \in mgmtLinks \ Fixed :
              l.to = m.to \/ l.fromPort = m.fromPort => l = m
<1>1. Augmented /\ Wired = Managed /\ ifIndex \in Nat
  BY BuiltFacts
<1>2. PICK k \in 2..(ifIndex - 1), d \in Managed : l = Spoke(k, d)
  BY <1>1 DEF Built, MInv, StarInv
<1>3. k \in Nat \ {0, 1}
  BY <1>1
<1> QED
  BY <1>1, <1>2, <1>3 DEF Built, MInv, StarInv

\* Every managed device has its spoke.
LEMMA SpokeThere ==
  ASSUME Built, NEW d \in Managed
  PROVE  \E k \in Nat \ {0, 1} : Spoke(k, d) \in mgmtLinks \ Fixed
<1>1. Augmented /\ Wired = Managed /\ ifIndex \in Nat
  BY BuiltFacts
<1>2. PICK k \in 2..(ifIndex - 1) : Spoke(k, d) \in mgmtLinks
  BY <1>1 DEF Built, MInv, StarInv
<1>3. k \in Nat \ {0, 1}
  BY <1>1
<1>4. Spoke(k, d).mgmt \notin 1..3
  <2>1. Spoke(k, d).mgmt = k + 2
    BY SpokeFacts
  <2> QED
    BY <1>3, <2>1
<1>5. Spoke(k, d) \notin Fixed
  BY <1>4, BuiltFacts
<1> QED
  BY <1>2, <1>3, <1>5

\* A managed device has one interface on the management network, its eth0.
LEMMA DeviceEnd ==
  ASSUME Built, NEW d \in (Managed \intersect devices) \ {Server, Switch}
  PROVE  \E i \in ifaces :
           MgmtEnds(d) = {i} /\ i.name = Eth(0) /\ i \in Of(d)
<1>1. PICK k \in Nat \ {0, 1} : Spoke(k, d) \in mgmtLinks \ Fixed
  BY SpokeThere
<1> DEFINE l == Spoke(k, d)
<1>2. /\ l.from = Switch /\ l.to = d /\ l.toPort = Eth(0)
      /\ l.libvirt_type = "" /\ l \in mgmtLinks \ Fixed
  BY <1>1, SpokeFacts
<1>3. d # "" /\ d \in devs
  BY BuiltFacts
<1> HIDE DEF l
<1>4. l \in Links /\ l.mgmt > 0
  BY <1>2, BuiltFacts DEF Links
<1>5. HasTo(l)
  BY <1>2, <1>3 DEF HasTo, ToNetwork
<1>6. PICK i \in ifaces : i.link = l /\ i.side = "to" /\ i.dev = d
                         /\ i.name = Eth(0)
  <2>1. HasTo(l) => \E i \in ifaces :
          i.link = l /\ i.side = "to" /\ i.dev = l.to /\ i.name = l.toPort
    BY <1>4, EndFacts
  <2> QED
    BY <1>2, <1>5, <2>1
<1>7. i \in MgmtEnds(d) /\ i \in Of(d)
  BY <1>4, <1>6 DEF MgmtEnds, Of
<1>8. ASSUME NEW j \in MgmtEnds(d) PROVE j = i
  <2>1. /\ j \in ifaces /\ j.dev = d /\ j.link.mgmt > 0
        /\ j.dev = (IF j.side = "from" THEN j.link.from ELSE j.link.to)
        /\ j.side \in {"from", "to"} /\ j.link \in Links
    BY DEF MgmtEnds, Of, Built, MInv, CoverInv, WInv, IfaceInv
  <2>2. j.link \in mgmtLinks
    BY <2>1, BuiltFacts
  <2>3. j.link \notin Fixed
    BY <1>3, <2>1, FixedFacts DEF Fixed
  <2>4. PICK m, e : j.link = Spoke(m, e)
    BY <2>2, <2>3, SpokesApart
  <2>5. j.link.from = Switch
    <3>1. Spoke(m, e).from = Switch
      BY SpokeFacts
    <3> QED
      BY <2>4, <3>1
  <2>6. j.side = "to" /\ j.link.to = d
    BY <2>1, <2>5
  <2>7. j.link = l
    BY <1>2, <2>2, <2>3, <2>6, SpokesApart
  <2> QED
    BY <1>6, <2>1, <2>6, <2>7 DEF Built, MInv, WInv, IfaceInv
<1> QED
  BY <1>6, <1>7, <1>8

----------------------------------------------------------------------------
(* The theorems.                                                           *)

\* An eth0 of d that the graph has of its own.
OwnEth0(d) ==
  \E e \in g.edge : \/ <<e.from, e.fromPort>> = <<d, Eth(0)>>
                     \/ <<e.to, e.toPort>> = <<d, Eth(0)>>

\* The entry of a managed device: the first of its sorted interfaces is an
\* eth0, and only an eth0 of the graph can take the place of the end of its
\* spoke.
LEMMA HostEntry ==
  ASSUME Built, at = "hosts", AddressesDistinct,
         NEW d \in (Managed \intersect devices) \ {Server, Switch}
  PROVE  \E i \in Of(d) :
           /\ {h \in hosts : h.name = d} = {etherHost(d, i)}
           /\ i.name = Eth(0)
           /\ MgmtEnds(d) = {i} \/ OwnEth0(d)
<1>1. PICK i \in ifaces : MgmtEnds(d) = {i} /\ i.name = Eth(0) /\ i \in Of(d)
  BY DeviceEnd
<1>2. Firsts(d) \subseteq Of(d) /\ \A j \in Firsts(d) : j.name = Eth(0)
  BY <1>1 DEF Firsts
<1>3. mgmtIP[d] # 0
  <2>1. mgmtIP[d] \in Usable(attr[Server].mgmt_ip)
    BY BuiltFacts DEF Built, AddressesDistinct
  <2>2. attr[Server].mgmt_ip.ip \in Nat /\ attr[Server].mgmt_ip.size \in Nat \ {0}
    BY BuiltFacts, GraphFacts DEF Built, MInv, PInv
  <2> QED
    BY <2>1, <2>2, UsableFacts
<1>4. d \in Visited
  BY DEF Visited
<1>5. PICK h \in hosts : h.name = d
  BY <1>1, <1>3, <1>4 DEF Built, MInv, GatherInv
<1>6. PICK j \in Firsts(d) : h = etherHost(d, j)
  <2>1. PICK e \in Visited : \E j \in Firsts(e) : h = etherHost(e, j)
    BY DEF Built, MInv, GatherInv
  <2>2. \A j : etherHost(e, j).name = e
    BY DEF etherHost
  <2>3. e = d
    BY <1>5, <2>1, <2>2
  <2> QED
    BY <2>1, <2>3
<1>7. {x \in hosts : x.name = d} = {etherHost(d, j)}
  <2>1. \A x \in hosts : x.name = d => x = h
    BY <1>5 DEF Built, MInv, GatherInv
  <2> QED
    BY <1>5, <1>6, <2>1
<1>8. j \in Of(d) /\ j.name = Eth(0)
  BY <1>2, <1>6
<1>9. MgmtEnds(d) = {j} \/ OwnEth0(d)
  <2>1. /\ j \in ifaces /\ j.dev = d /\ j.side \in {"from", "to"}
        /\ j.dev = (IF j.side = "from" THEN j.link.from ELSE j.link.to)
        /\ j.name = (IF j.side = "from" THEN j.link.fromPort ELSE j.link.toPort)
        /\ j.link \in Links
    BY <1>8 DEF Of, Built, MInv, CoverInv, WInv, IfaceInv
  <2>2. CASE j.link \in g.edge
    BY <1>8, <2>1, <2>2 DEF OwnEth0
  <2>3. CASE j.link \notin g.edge
    <3>1. j.link.mgmt > 0
      BY <2>1, <2>3, BuiltFacts DEF Links
    <3>2. j \in MgmtEnds(d)
      BY <1>8, <3>1 DEF MgmtEnds
    <3> QED
      BY <1>1, <3>2
  <2> QED
    BY <2>2, <2>3
<1> QED
  BY <1>7, <1>8, <1>9

\* The invariant makes the hosts file what dnsmasq needs.
LEMMA MInvHosts == MInv => HostsFile
<1> SUFFICES ASSUME MInv, at = "hosts", autoMgmt
             PROVE
      /\ \A d \in (Managed \intersect devices) \ {Server, Switch} :
           \E i \in Of(d) :
             /\ {h \in hosts : h.name = d} = {etherHost(d, i)}
             /\ i.name = Eth(0)
             /\ MgmtEnds(d) = {i} \/ OwnEth0(d)
      /\ \A h, k \in hosts : h.ip = k.ip => h = k
      /\ {h.name : h \in hosts} \subseteq Managed
  BY DEF HostsFile, OwnEth0
<1>1. Built
  BY DEF Built
<1>2. AddressesDistinct
  BY PInvAddresses DEF MInv
<1>3. ASSUME NEW h \in hosts
      PROVE  h.name \in Managed /\ h.ip = mgmtIP[h.name]
  <2>1. PICK d \in Visited :
          mgmtIP[d] # 0 /\ \E i \in Firsts(d) : h = etherHost(d, i)
    BY DEF MInv, GatherInv
  <2>2. h.name = d /\ h.ip = mgmtIP[d]
    BY <2>1 DEF etherHost
  <2>3. d \in devs
    BY <1>1, BuiltFacts DEF Visited
  <2>4. d \in Managed
    BY <1>1, <2>1, <2>3, BuiltFacts DEF MInv, HolderInv
  <2> QED
    BY <2>2, <2>4
<1>4. \A d, e \in Managed : d # e => mgmtIP[d] # mgmtIP[e]
  BY <1>1, <1>2, BuiltFacts DEF AddressesDistinct
<1>5. \A h, k \in hosts : h.name = k.name => h = k
  BY DEF MInv, GatherInv
<1>6. \A h, k \in hosts : h.ip = k.ip => h = k
  BY <1>3, <1>4, <1>5
<1>7. {h.name : h \in hosts} \subseteq Managed
  BY <1>3
<1> QED
  BY <1>1, <1>2, <1>6, <1>7, HostEntry

\* A tunnel of the switch on the management network: the end of the trunk,
\* that of a spoke, or the other end of a spoke to the switch itself.
LEMMA SwitchPort ==
  ASSUME Built, Switch \in devices, NEW i \in MgmtEnds(Switch), ~i.network
  PROVE  /\ i \in ifaces
         /\ \/ i.link = Trunk /\ i.side = "to" /\ i.name = Swp(1)
            \/ /\ i.link \in mgmtLinks \ Fixed /\ i.side = "from"
               /\ i.name = i.link.fromPort
               /\ \E k \in Nat \ {0, 1} : i.name = Swp(k)
            \/ /\ i.link \in mgmtLinks \ Fixed /\ i.side = "to"
               /\ i.link.to = Switch /\ i.name = Eth(0)
<1>1. /\ i \in ifaces /\ i.dev = Switch /\ i.link.mgmt > 0
      /\ i.dev = (IF i.side = "from" THEN i.link.from ELSE i.link.to)
      /\ i.name = (IF i.side = "from" THEN i.link.fromPort ELSE i.link.toPort)
      /\ i.side \in {"from", "to"} /\ i.link \in Links
      /\ i \in Tunnels <=> ~ToNetwork(i.link)
  BY DEF MgmtEnds, Of, Built, MInv, CoverInv, WInv, IfaceInv
<1>2. i.link \in mgmtLinks
  BY <1>1, BuiltFacts
<1>3. ~ToNetwork(i.link)
  BY <1>1 DEF Tunnels
<1>4. Server # Switch /\ Switch # ""
  BY DEF Server, Switch
<1>5. CASE i.link \in Fixed
  <2>1. i.link # ServerUplink
    BY <1>1, <1>4, FixedFacts
  <2>2. i.link # SwitchUplink
    <3>1. ToNetwork(SwitchUplink)
      BY FixedFacts DEF ToNetwork
    <3> QED
      BY <1>3, <3>1
  <2>3. i.link = Trunk
    BY <1>5, <2>1, <2>2 DEF Fixed
  <2>4. i.side = "to" /\ i.name = Swp(1)
    BY <1>1, <1>4, <2>3, FixedFacts
  <2> QED
    BY <1>1, <2>3, <2>4
<1>6. CASE i.link \notin Fixed
  <2>1. PICK k \in Nat \ {0, 1}, d \in Managed : i.link = Spoke(k, d)
    BY <1>2, <1>6, SpokesApart
  <2>2. Spoke(k, d).fromPort = Swp(k) /\ Spoke(k, d).toPort = Eth(0)
    BY SpokeFacts
  <2>3. CASE i.side = "from"
    <3>1. i.name = i.link.fromPort /\ i.name = Swp(k)
      BY <1>1, <2>1, <2>2, <2>3
    <3> QED
      BY <1>1, <1>2, <1>6, <2>3, <3>1
  <2>4. CASE i.side = "to"
    <3>1. i.link.to = Switch /\ i.name = Eth(0)
      BY <1>1, <2>1, <2>2, <2>4
    <3> QED
      BY <1>1, <1>2, <1>6, <2>4, <3>1
  <2> QED
    BY <1>1, <2>3, <2>4
<1> QED
  BY <1>5, <1>6

\* No two of these have the same name.
LEMMA SwitchPortsApart ==
  ASSUME Built, Switch \in devices, NEW i \in MgmtEnds(Switch), ~i.network,
         NEW j \in MgmtEnds(Switch), ~j.network, i.name = j.name
  PROVE  i = j
<1>1. /\ i \in ifaces
      /\ \/ i.link = Trunk /\ i.side = "to" /\ i.name = Swp(1)
         \/ /\ i.link \in mgmtLinks \ Fixed /\ i.side = "from"
            /\ i.name = i.link.fromPort
            /\ \E k \in Nat \ {0, 1} : i.name = Swp(k)
         \/ /\ i.link \in mgmtLinks \ Fixed /\ i.side = "to"
            /\ i.link.to = Switch /\ i.name = Eth(0)
  BY SwitchPort
<1>2. /\ j \in ifaces
      /\ \/ j.link = Trunk /\ j.side = "to" /\ j.name = Swp(1)
         \/ /\ j.link \in mgmtLinks \ Fixed /\ j.side = "from"
            /\ j.name = j.link.fromPort
            /\ \E k \in Nat \ {0, 1} : j.name = Swp(k)
         \/ /\ j.link \in mgmtLinks \ Fixed /\ j.side = "to"
            /\ j.link.to = Switch /\ j.name = Eth(0)
  BY SwitchPort
<1>3. Swp(1) # Eth(0) /\ \A k \in Nat \ {0, 1} : Swp(k) # Eth(0) /\ Swp(k) # Swp(1)
  BY PortNames
<1>4. i.side = j.side /\ i.link = j.link
  <2>1. CASE i.name = Swp(1)
    BY <1>1, <1>2, <1>3, <2>1
  <2>2. CASE i.name = Eth(0)
    BY <1>1, <1>2, <1>3, <2>2, SpokesApart
  <2>3. CASE i.name # Swp(1) /\ i.name # Eth(0)
    BY <1>1, <1>2, <2>3, SpokesApart
  <2> QED
    BY <2>1, <2>2, <2>3
<1> QED
  BY <1>1, <1>2, <1>4 DEF Built, MInv, WInv, IfaceInv

\* A port of the switch that is bridged is the end of the trunk or of a spoke,
\* and what it is tunnelled to is the other end of the same link.
LEMMA BridgedPort ==
  ASSUME Built, Switch \in devices, NEW i \in MgmtPorts, NEW j \in Peers(i),
         i.name \in BridgePorts(Switch)
  PROVE  \/ i.link = Trunk /\ i.side = "to" /\ j.dev = Server /\ j.name = Eth(1)
         \/ /\ i.link \in mgmtLinks \ Fixed /\ i.side = "from"
            /\ j.dev = i.link.to /\ j.name = Eth(0)
<1>1. i \in MgmtEnds(Switch) /\ ~i.network /\ i.name # Eth(0)
  BY DEF MgmtPorts, BridgePorts
<1>2. /\ j.link = i.link /\ j.side # i.side /\ j.side \in {"from", "to"}
      /\ j.dev = (IF j.side = "from" THEN j.link.from ELSE j.link.to)
      /\ j.name = (IF j.side = "from" THEN j.link.fromPort ELSE j.link.toPort)
  BY DEF Peers, Tunnels, Built, MInv, CoverInv, WInv, IfaceInv
<1>3. \/ i.link = Trunk /\ i.side = "to"
      \/ i.link \in mgmtLinks \ Fixed /\ i.side = "from"
  BY <1>1, SwitchPort
<1>4. CASE i.link = Trunk /\ i.side = "to"
  BY <1>2, <1>4, FixedFacts
<1>5. CASE i.link \in mgmtLinks \ Fixed /\ i.side = "from"
  <2>1. PICK k \in Nat \ {0, 1}, d \in Managed : i.link = Spoke(k, d)
    BY <1>5, SpokesApart
  <2>2. Spoke(k, d).toPort = Eth(0)
    BY SpokeFacts
  <2> QED
    BY <1>2, <1>5, <2>1, <2>2
<1> QED
  BY <1>3, <1>4, <1>5

\* The switch bridges every tunnel of a management link that is not its eth0.
LEMMA TunnelBridged ==
  ASSUME Built, WritesBridge(Switch), NEW i \in Tunnels,
         i.dev = Switch, i.link \in mgmtLinks, i.name # Eth(0)
  PROVE  i \in MgmtPorts /\ i.name \in BridgePorts(Switch)
  BY BuiltFacts DEF Tunnels, MgmtPorts, MgmtEnds, Of, BridgePorts, Links

\* One bridged port leads to the eth0 of a managed device.
LEMMA DevicePort ==
  ASSUME Built, Switch \in devices, WritesBridge(Switch),
         NEW d \in (Managed \intersect devices) \ {Switch}
  PROVE  \E i : PortsTo(d, Eth(0)) = {i}
<1>1. PICK k \in Nat \ {0, 1} : Spoke(k, d) \in mgmtLinks \ Fixed
  BY SpokeThere
<1> DEFINE l == Spoke(k, d)
<1>2. /\ l.from = Switch /\ l.fromPort = Swp(k) /\ l.to = d
      /\ l.toPort = Eth(0) /\ l.libvirt_type = "" /\ l \in mgmtLinks \ Fixed
  BY <1>1, SpokeFacts
<1>3. Swp(k) # Eth(0)
  BY PortNames
<1> HIDE DEF l
<1>4. PICK i, j \in Tunnels :
        /\ i.link = l /\ i.dev = l.from /\ i.name = l.fromPort
        /\ j.link = l /\ j.dev = l.to /\ j.name = l.toPort
        /\ j \in Peers(i)
  BY <1>2, TunnelFacts DEF Links
<1>5. i \in PortsTo(d, Eth(0))
  BY <1>2, <1>3, <1>4, TunnelBridged DEF PortsTo
<1>6. Eth(1) # Eth(0)
  BY DEF Eth
<1>7. ASSUME NEW m \in PortsTo(d, Eth(0))
      PROVE  m \in ifaces /\ m.link = l /\ m.side = "from"
  <2>1. PICK n \in Peers(m) : n.dev = d /\ n.name = Eth(0)
    BY DEF PortsTo
  <2>2. m.link \in mgmtLinks \ Fixed /\ m.side = "from" /\ m.link.to = d
    BY <1>6, <2>1, BridgedPort DEF PortsTo
  <2>3. m.link = l
    BY <1>2, <2>2, SpokesApart
  <2> QED
    BY <2>2, <2>3 DEF PortsTo, MgmtPorts, MgmtEnds, Of
<1>8. \A m \in PortsTo(d, Eth(0)) : m = i
  BY <1>5, <1>7 DEF Built, MInv, WInv, IfaceInv
<1> QED
  BY <1>5, <1>8

\* One bridged port leads to the eth1 of the server: that of the trunk.
LEMMA ServerPort ==
  ASSUME Built, Switch \in devices, WritesBridge(Switch), Server \in devices
  PROVE  \E i : PortsTo(Server, Eth(1)) = {i}
<1>1. /\ Trunk.from = Server /\ Trunk.fromPort = Eth(1)
      /\ Trunk.to = Switch /\ Trunk.toPort = Swp(1)
      /\ Trunk.libvirt_type = ""
  BY FixedFacts
<1>2. Trunk \in mgmtLinks
  BY BuiltFacts DEF Fixed
<1>3. Swp(1) # Eth(0)
  BY PortNames
<1>4. PICK i, j \in Tunnels :
        /\ i.link = Trunk /\ i.dev = Trunk.from /\ i.name = Trunk.fromPort
        /\ j.link = Trunk /\ j.dev = Trunk.to /\ j.name = Trunk.toPort
        /\ j \in Peers(i) /\ i \in Peers(j)
  BY <1>1, <1>2, TunnelFacts DEF Links
<1>5. j \in PortsTo(Server, Eth(1))
  BY <1>1, <1>2, <1>3, <1>4, TunnelBridged DEF PortsTo
<1>6. Eth(1) # Eth(0)
  BY DEF Eth
<1>7. ASSUME NEW m \in PortsTo(Server, Eth(1))
      PROVE  m \in ifaces /\ m.link = Trunk /\ m.side = "to"
  <2>1. PICK n \in Peers(m) : n.dev = Server /\ n.name = Eth(1)
    BY DEF PortsTo
  <2> QED
    BY <1>6, <2>1, BridgedPort DEF PortsTo, MgmtPorts, MgmtEnds, Of
<1>8. \A m \in PortsTo(Server, Eth(1)) : m = j
  BY <1>5, <1>7 DEF Built, MInv, WInv, IfaceInv
<1> QED
  BY <1>5, <1>8

\* The invariant connects every managed device with the server.
LEMMA MInvBridge == MInv => MgmtBridged
<1> SUFFICES ASSUME MInv, at \in {"built", "gather", "hosts"}, autoMgmt,
                    Switch \in devices, WritesBridge(Switch)
             PROVE
      /\ \A i, j \in MgmtPorts : i.name = j.name => i = j
      /\ \A d \in (Managed \intersect devices) \ {Switch} :
           Cardinality(PortsTo(d, Eth(0))) = 1
      /\ Server \in devices => Cardinality(PortsTo(Server, Eth(1))) = 1
  BY DEF MgmtBridged
<1>1. Built
  BY DEF Built
<1>2. \A i, j \in MgmtPorts : i.name = j.name => i = j
  BY <1>1, SwitchPortsApart DEF MgmtPorts
<1>3. ASSUME NEW d \in (Managed \intersect devices) \ {Switch}
      PROVE  Cardinality(PortsTo(d, Eth(0))) = 1
  BY <1>1, DevicePort, FS_Singleton
<1>4. ASSUME Server \in devices
      PROVE  Cardinality(PortsTo(Server, Eth(1))) = 1
  BY <1>1, <1>4, ServerPort, FS_Singleton
<1> QED
  BY <1>2, <1>3, <1>4

\* The invariant gives every managed device, and every end of a line that is
\* no libvirt network, an interface.
LEMMA MInvSafe == MInv => GatherSafe
<1> SUFFICES ASSUME MInv, at = "gather", NEW d \in left, Of(d) = {}
             PROVE  /\ autoMgmt => d \notin Managed
                    /\ \A e \in g.edge : e.from # d /\ (e.to = d => ToNetwork(e))
  BY DEF GatherSafe
<1>1. d \in devices \ {Server, Switch}
  BY DEF MInv, GatherInv
<1>2. ASSUME autoMgmt PROVE d \notin Managed
  BY <1>1, <1>2, DeviceEnd DEF Built
<1>3. ASSUME NEW e \in g.edge PROVE e.from # d /\ (e.to = d => ToNetwork(e))
  <2>1. e \in Passed
    BY DEF Passed, Links
  <2>2. /\ HasFrom(e) => \E i \in ifaces : i.link = e /\ i.side = "from"
        /\ HasTo(e) => \E i \in ifaces : i.link = e /\ i.side = "to"
    BY <2>1 DEF MInv, CoverInv
  <2>3. \A i \in ifaces :
          /\ i.dev = (IF i.side = "from" THEN i.link.from ELSE i.link.to)
          /\ i.dev # d
    BY DEF MInv, WInv, IfaceInv, Of
  <2> QED
    BY <1>1, <2>2, <2>3 DEF HasFrom, HasTo
<1> QED
  BY <1>2, <1>3

\* The DHCP server knows every managed device once, by the MAC address of an
\* eth0 of it, in every topology and whatever the order of the loops of Parse,
\* buildInventory and gatherHosts; only an eth0 of the graph's own can take the
\* place of its port on the management network.
THEOREM HostsAreComplete == Spec => []HostsFile
  BY SpecMInv, MInvHosts, PTL

\* In every topology whose management switch is an oob-switch with an image,
\* each managed device is tunnelled to exactly one port of the switch's bridge,
\* and so is the management server.
THEOREM DevicesAreBridged == Spec => []MgmtBridged
  BY SpecMInv, MInvBridge, PTL

\* gatherHosts finds an interface of every device that is on the management
\* network or at the end of a line.
THEOREM GatherIsSafe == Spec => []GatherSafe
  BY SpecMInv, MInvSafe, PTL

=============================================================================
