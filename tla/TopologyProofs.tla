--------------------------- MODULE TopologyProofs ---------------------------
(***************************************************************************)
(* What topology.Parse guarantees for every graph.  The inductive          *)
(* invariant PInv relates the addresses that the allocator has left to     *)
(* those that the devices visited so far have: together they are, at every *)
(* point of the two loops, the usable addresses of the prefix.             *)
(***************************************************************************)
EXTENDS Topology, FiniteSetTheorems, TLAPS

----------------------------------------------------------------------------
(* The inductive invariant.                                                *)

\* Parse has come past the point where the management devices are there, and
\* past the one where the allocator is.
Augmented == pc \in {"prefix", "reserve", "wire"}
             \/ (pc \in {"links", "parsed"} /\ autoMgmt)
Allocating == Augmented /\ pc # "prefix"

InputInv ==
  /\ g \in Graph /\ autoMgmt \in BOOLEAN
  /\ pc \in {"names", "mgmt", "prefix", "reserve", "wire", "links", "parsed",
             "failed"}
  /\ pc \in {"mgmt", "prefix", "reserve", "wire"} => autoMgmt
  /\ pc \notin {"names", "failed"} => \A d \in g.node : NameOK(d)

DeviceInv ==
  /\ pc \notin {"names", "failed"} /\ ~Augmented =>
       devs = g.node /\ attr = g.attr
       /\ mgmtIP = [d \in g.node |-> 0]
  /\ Augmented =>
       /\ devs = g.node \union {Server, Switch}
       /\ attr = [d \in g.node \union {Server, Switch} |->
                    IF d \in g.node THEN g.attr[d]
                    ELSE IF d = Server THEN MgmtServer ELSE MgmtSwitch]
       /\ DOMAIN mgmtIP = devs

\* The devices of S that have their address.
Holders(S) == {d \in S : mgmtIP[d] # 0}

AllocInv ==
  Allocating =>
    /\ attr[Server].mgmt_ip.kind = "prefix"
    /\ \A ip \in Usable(attr[Server].mgmt_ip) :
         ip \in builder \/ \E d \in Managed : mgmtIP[d] = ip
    /\ builder \subseteq Usable(attr[Server].mgmt_ip)
    /\ \A d \in Holders(Managed) :
         mgmtIP[d] \in Usable(attr[Server].mgmt_ip) \ builder
    /\ \A d, e \in Holders(Managed) : d # e => mgmtIP[d] # mgmtIP[e]
    /\ \A d \in Holders(Explicit) :
         attr[d].mgmt_ip.kind = "ip" /\ mgmtIP[d] = attr[d].mgmt_ip.ip

LoopInv ==
  /\ pc = "reserve" =>
       todo \subseteq Explicit /\ Holders(Managed) = Explicit \ todo
  /\ pc = "wire" =>
       /\ todo \subseteq Managed
       /\ Holders(Managed) = Explicit \union (Managed \ todo)
  /\ pc \in {"links", "parsed"} /\ autoMgmt => Holders(Managed) = Managed

\* No device has an address before the loops.
NoneYet == pc = "prefix" => \A d \in devs : mgmtIP[d] = 0

PInv == /\ InputInv /\ DeviceInv /\ NoneYet /\ AllocInv /\ LoopInv
        /\ ParseDecided

----------------------------------------------------------------------------
(* Addresses.                                                              *)

\* A usable address is a positive number, and there are finitely many.
LEMMA UsableFacts ==
  ASSUME NEW p, p.ip \in Nat, p.size \in Nat \ {0}
  PROVE  /\ Usable(p) \subseteq Nat \ {0}
         /\ IsFiniteSet(Usable(p))
         /\ newIPAllocator(p) \ {p.ip} = Usable(p)
<1>1. p.ip % p.size \in Nat /\ p.ip % p.size <= p.ip
  BY SMT
<1>2. Network(p) \in Nat /\ Broadcast(p) \in Int
  BY <1>1 DEF Network, Broadcast
<1>3. Usable(p) \subseteq Nat \ {0}
  BY <1>2 DEF Usable
<1>4. IsFiniteSet(Usable(p))
  <2>1. IsFiniteSet(Network(p)..Broadcast(p))
    BY <1>2, FS_Interval
  <2> QED
    BY <2>1, FS_Subset DEF Usable
<1>5. newIPAllocator(p) \ {p.ip} = Usable(p)
  BY DEF newIPAllocator, Usable
<1> QED
  BY <1>3, <1>4, <1>5

\* The management devices that Parse adds change neither the devices to wire
\* nor their attributes; the prefix is the graph's or the default.
LEMMA GraphFacts ==
  ASSUME InputInv, DeviceInv, Augmented
  PROVE  /\ Managed = GraphManaged /\ Explicit = GraphExplicit
         /\ \A d \in Managed : attr[d] = g.attr[d]
         /\ attr[Server].mgmt_ip = GraphPrefix
         /\ attr[Server].mgmt_ip.ip \in Nat
         /\ attr[Server].mgmt_ip.size \in Nat \ {0}
         /\ IsFiniteSet(Managed)
<1>1. \A d \in devs : attr[d] = IF d \in g.node THEN g.attr[d]
                               ELSE IF d = Server THEN MgmtServer ELSE MgmtSwitch
  BY DEF DeviceInv
<1>2. devs = g.node \union {Server, Switch} /\ Server # Switch
  BY DEF DeviceInv, Server, Switch
<1>0. /\ MgmtServer.function = OOBServer /\ MgmtSwitch.function = OOBSwitch
      /\ MgmtServer.mgmt_ip = Prefix(254, 256)
  BY DEF MgmtServer, MgmtSwitch, Node
<1>3. Managed = GraphManaged /\ \A d \in Managed : attr[d] = g.attr[d]
  <2>1. \A d \in devs \ g.node : attr[d].function \in {OOBServer, OOBSwitch}
    BY <1>0, <1>1, <1>2
  <2>2. \A d \in g.node : d \in devs /\ attr[d] = g.attr[d]
    BY <1>1, <1>2
  <2>3. Managed \subseteq g.node
    BY <2>1 DEF Managed
  <2> QED
    BY <2>2, <2>3 DEF Managed, GraphManaged
<1>4. attr[Server].mgmt_ip = GraphPrefix
  <2>1. Server \in devs
    BY <1>2
  <2>2. CASE Server \in g.node
    BY <1>1, <2>1, <2>2 DEF GraphPrefix
  <2>3. CASE Server \notin g.node
    <3>1. attr[Server] = MgmtServer
      BY <1>1, <2>1, <2>3
    <3>2. GraphPrefix = Prefix(254, 256)
      BY <2>3 DEF GraphPrefix
    <3> QED
      BY <1>0, <3>1, <3>2
  <2> QED
    BY <2>2, <2>3
<1>5. GraphPrefix.ip \in Nat /\ GraphPrefix.size \in Nat \ {0}
  <2>1. CASE Server \in g.node
    <3>1. \A d \in g.node : g.attr[d].mgmt_ip.ip \in Nat
                            /\ g.attr[d].mgmt_ip.size \in Nat \ {0}
      BY TopologyAssumption DEF InputInv
    <3> QED
      BY <2>1, <3>1 DEF GraphPrefix
  <2>2. CASE Server \notin g.node
    <3>1. GraphPrefix = Prefix(254, 256)
      BY <2>2 DEF GraphPrefix
    <3> QED
      BY <3>1 DEF Prefix
  <2> QED
    BY <2>1, <2>2
<1>6. IsFiniteSet(Managed)
  <2>1. IsFiniteSet(g.node)
    BY TopologyAssumption DEF InputInv
  <2> QED
    BY <1>3, <2>1, FS_Subset DEF GraphManaged
<1> QED
  BY <1>3, <1>4, <1>5, <1>6 DEF Explicit, GraphExplicit

----------------------------------------------------------------------------
(* The invariant.                                                          *)

\* The input decides on the result, when the loops are done.
LEMMA ParsedAcceptable ==
  ASSUME InputInv, DeviceInv, AllocInv, LoopInv, pc \in {"links", "parsed"}
  PROVE  Acceptable
<1>1. \A d \in g.node : d \in ValidName \/ g.attr[d].function = Fake
  BY DEF InputInv, NameOK
<1> SUFFICES ASSUME autoMgmt
             PROVE  /\ GraphPrefix.kind = "prefix"
                    /\ \A d \in GraphExplicit :
                         /\ g.attr[d].mgmt_ip.kind = "ip"
                         /\ g.attr[d].mgmt_ip.ip \in Usable(GraphPrefix)
                    /\ \A d, e \in GraphExplicit :
                         d # e => g.attr[d].mgmt_ip.ip # g.attr[e].mgmt_ip.ip
                    /\ Cardinality(GraphManaged) <= Cardinality(Usable(GraphPrefix))
  BY <1>1, Zenon DEF Acceptable
<1> DEFINE U == Usable(GraphPrefix)
<1>2. Augmented /\ Allocating
  BY DEF Augmented, Allocating
<1>3. Managed = GraphManaged /\ Explicit = GraphExplicit
      /\ attr[Server].mgmt_ip = GraphPrefix /\ IsFiniteSet(Managed)
      /\ (\A d \in Managed : attr[d] = g.attr[d])
      /\ IsFiniteSet(U)
  BY <1>2, GraphFacts, UsableFacts
<1>4. Holders(Managed) = Managed /\ Explicit \subseteq Managed
      /\ Holders(Explicit) = Explicit
  BY DEF LoopInv, Holders, Explicit
<1>5. /\ \A d \in Managed : mgmtIP[d] \in U
      /\ \A d, e \in Managed : d # e => mgmtIP[d] # mgmtIP[e]
      /\ \A d \in Explicit :
           attr[d].mgmt_ip.kind = "ip" /\ mgmtIP[d] = attr[d].mgmt_ip.ip
      /\ GraphPrefix.kind = "prefix"
  BY <1>2, <1>3, <1>4 DEF AllocInv
<1>6. Cardinality(Managed) <= Cardinality(U)
  <2> DEFINE f == [d \in Managed |-> mgmtIP[d]]
  <2>1. f \in Injection(Managed, U)
    BY <1>5 DEF Injection, IsInjective
  <2> QED
    BY <1>3, <2>1, FS_Injection
<1> QED
  BY <1>3, <1>4, <1>5, <1>6

\* An address is refused only if the graph asks for a wrong one.
LEMMA ReserveErrInput ==
  ASSUME PInv, NEW d \in devs, ReserveErr(d)
  PROVE  ~Acceptable
<1>1. Augmented /\ Allocating /\ autoMgmt /\ pc = "reserve" /\ d \in todo
  BY DEF ReserveErr, Augmented, Allocating, PInv, InputInv
<1>2. Managed = GraphManaged /\ Explicit = GraphExplicit
      /\ attr[Server].mgmt_ip = GraphPrefix
      /\ (\A e \in Managed : attr[e] = g.attr[e])
  BY <1>1, GraphFacts DEF PInv
<1>3. d \in Explicit /\ d \in Managed /\ mgmtIP[d] = 0
  BY <1>1 DEF PInv, LoopInv, Holders, Explicit
<1>4. CASE attr[d].mgmt_ip.kind # "ip"
  BY <1>1, <1>2, <1>3, <1>4 DEF Acceptable
<1>5. CASE attr[d].mgmt_ip.ip \notin builder
  <2>1. CASE attr[d].mgmt_ip.ip \notin Usable(GraphPrefix)
    BY <1>1, <1>2, <1>3, <2>1 DEF Acceptable
  <2>2. CASE attr[d].mgmt_ip.ip \in Usable(GraphPrefix)
    <3>1. PICK e \in Managed : mgmtIP[e] = attr[d].mgmt_ip.ip
      BY <1>1, <1>2, <1>5, <2>2 DEF PInv, AllocInv
    <3>2. attr[d].mgmt_ip.ip # 0
      BY <1>1, <1>2, <2>2, GraphFacts, UsableFacts DEF PInv
    <3>3. e \in Holders(Managed) /\ e # d
      BY <1>3, <3>1, <3>2 DEF Holders
    <3>4. e \in Holders(Explicit)
      BY <1>1, <3>3 DEF PInv, LoopInv, Holders
    <3>5. mgmtIP[e] = attr[e].mgmt_ip.ip /\ e \in Explicit
      BY <1>1, <3>4 DEF PInv, AllocInv, Holders
    <3>6. attr[e] = g.attr[e] /\ attr[d] = g.attr[d]
          /\ e \in GraphExplicit /\ d \in GraphExplicit
      BY <1>2, <1>3, <3>1, <3>5
    <3> QED
      BY <1>1, <3>1, <3>3, <3>5, <3>6 DEF Acceptable
  <2> QED
    BY <2>1, <2>2
<1> QED
  BY <1>4, <1>5 DEF ReserveErr

\* The range is exhausted only if it has fewer addresses than devices.
LEMMA WireErrInput ==
  ASSUME PInv, NEW d \in devs, WireErr(d)
  PROVE  ~Acceptable
<1>1. Augmented /\ Allocating /\ autoMgmt /\ pc = "wire" /\ d \in todo
      /\ mgmtIP[d] = 0 /\ builder = {}
  BY DEF WireErr, HasAddress, Augmented, Allocating, PInv, InputInv
<1>2. Managed = GraphManaged /\ attr[Server].mgmt_ip = GraphPrefix
      /\ IsFiniteSet(Managed) /\ IsFiniteSet(Usable(GraphPrefix))
      /\ 0 \notin Usable(GraphPrefix)
  BY <1>1, GraphFacts, UsableFacts DEF PInv
<1> DEFINE U == Usable(GraphPrefix)
           H == Holders(Managed)
           f == [e \in H |-> mgmtIP[e]]
<1>3. \A ip \in U : \E e \in H : mgmtIP[e] = ip
  BY <1>1, <1>2 DEF PInv, AllocInv, Holders
<1>4. \A e \in H : mgmtIP[e] \in U
  BY <1>1, <1>2 DEF PInv, AllocInv
<1>5. f \in Surjection(H, U)
  BY <1>3, <1>4 DEF Surjection
<1>6. d \in Managed /\ H \subseteq Managed \ {d}
  BY <1>1 DEF PInv, LoopInv, Holders
<1>7. IsFiniteSet(Managed \ {d})
      /\ Cardinality(Managed \ {d}) = Cardinality(Managed) - 1
  BY <1>2, <1>6, FS_RemoveElement
<1>8. IsFiniteSet(H) /\ Cardinality(H) <= Cardinality(Managed) - 1
  BY <1>6, <1>7, FS_Subset
<1>9. Cardinality(U) <= Cardinality(H)
  BY <1>5, <1>8, FS_Surjection
<1>10. Cardinality(U) \in Nat /\ Cardinality(H) \in Nat
       /\ Cardinality(Managed) \in Nat
  BY <1>2, <1>8, FS_CardinalityType
<1>11. ~(Cardinality(GraphManaged) <= Cardinality(U))
  BY <1>2, <1>8, <1>9, <1>10
<1> QED
  BY <1>1, <1>11 DEF Acceptable

\* Parse returns an error.
LEMMA FailKeeps ==
  ASSUME PInv, Fail, ~Acceptable
  PROVE  PInv'
<1>1. ~Acceptable'
  BY DEF Fail, Acceptable, GraphManaged, GraphExplicit, GraphPrefix
<1> QED
  BY <1>1 DEF PInv, InputInv, DeviceInv, NoneYet, AllocInv, LoopInv,
     ParseDecided, Fail, Augmented, Allocating

\* The hostnames, and the management devices.
LEMMA SetupKeeps ==
  ASSUME PInv, CheckNames \/ SetupDevices
  PROVE  PInv'
<1>1. CASE CheckNames
  BY <1>1 DEF CheckNames, PInv, InputInv, DeviceInv, NoneYet, AllocInv,
     LoopInv, ParseDecided, Augmented, Allocating, NameOK
<1>2. CASE SetupDevices
  <2>1. InputInv' /\ AllocInv' /\ LoopInv' /\ ParseDecided'
    BY <1>2 DEF SetupDevices, PInv, InputInv, AllocInv, LoopInv, ParseDecided,
       Augmented, Allocating, NameOK
  <2>2. devs = g.node /\ attr = g.attr
    BY <1>2 DEF SetupDevices, PInv, DeviceInv, Augmented
  <2>3. DeviceInv' /\ NoneYet'
    BY <1>2, <2>2 DEF SetupDevices, DeviceInv, NoneYet, Augmented
  <2> QED
    BY <2>1, <2>3 DEF PInv
<1> QED
  BY <1>1, <1>2

\* Steps that leave the devices and the addresses alone.
LEMMA ManagedSame ==
  ASSUME UNCHANGED <<devs, attr, mgmtIP>>
  PROVE  Managed' = Managed /\ Explicit' = Explicit
         /\ Holders(Managed)' = Holders(Managed)
         /\ Holders(Explicit)' = Holders(Explicit)
  BY DEF Managed, Explicit, Holders

\* The allocator is filled, without the server's own address.
LEMMA AllocatorKeeps ==
  ASSUME PInv, SetupAllocator
  PROVE  PInv'
<1> DEFINE p == attr[Server].mgmt_ip
<1>1. Augmented /\ pc = "prefix" /\ autoMgmt
  BY DEF SetupAllocator, Augmented, PInv, InputInv
<1>2. builder' = Usable(p)
  BY <1>1, GraphFacts, UsableFacts DEF SetupAllocator, PInv
<1>3. InputInv' /\ DeviceInv' /\ ParseDecided'
  BY <1>1 DEF SetupAllocator, PInv, InputInv, DeviceInv, ParseDecided,
     Augmented, NameOK
<1>4. \A d \in devs : mgmtIP[d] = 0
  BY <1>1 DEF PInv, NoneYet
<1>5. Holders(Managed) = {} /\ Holders(Explicit) = {}
  BY <1>4 DEF Holders, Managed, Explicit
<1>6. UNCHANGED <<devs, attr, mgmtIP>> /\ todo' = Explicit /\ pc' = "reserve"
      /\ p.kind = "prefix"
  BY DEF SetupAllocator
<1>7. Managed' = Managed /\ Explicit' = Explicit /\ Holders(Managed)' = {}
      /\ Holders(Explicit)' = {}
  BY <1>5, <1>6, ManagedSame
<1>8. AllocInv'
  BY <1>2, <1>6, <1>7 DEF AllocInv
<1>9. LoopInv' /\ NoneYet'
  BY <1>6, <1>7 DEF LoopInv, NoneYet
<1> QED
  BY <1>3, <1>8, <1>9 DEF PInv

\* One device of a loop: it keeps the address it has, or gets one.
LEMMA AddressKeeps ==
  ASSUME PInv, Allocating, Allocating', NEW d \in Managed,
         UNCHANGED <<g, autoMgmt, devs, attr>>, NEW ip,
         \/ ip = 0 /\ mgmtIP' = mgmtIP /\ builder' = builder
         \/ /\ ip \in builder /\ builder' = builder \ {ip} /\ mgmtIP[d] = 0
            /\ mgmtIP' = [mgmtIP EXCEPT ![d] = ip]
            /\ d \in Explicit =>
                 attr[d].mgmt_ip.kind = "ip" /\ ip = attr[d].mgmt_ip.ip
  PROVE  /\ AllocInv'
         /\ Managed' = Managed /\ Explicit' = Explicit
         /\ Holders(Managed)' = Holders(Managed)
              \union (IF ip = 0 THEN {} ELSE {d})
         /\ DOMAIN mgmtIP' = DOMAIN mgmtIP
<1>1. Managed' = Managed /\ Explicit' = Explicit
  BY DEF Managed, Explicit
<1>2. CASE ip = 0 /\ mgmtIP' = mgmtIP /\ builder' = builder
  <2>1. Holders(Managed)' = Holders(Managed) /\ Holders(Explicit)' = Holders(Explicit)
    BY <1>1, <1>2 DEF Holders
  <2>2. AllocInv'
    BY <1>1, <1>2, <2>1 DEF PInv, AllocInv
  <2> QED
    BY <1>1, <1>2, <2>1, <2>2
<1>3. CASE /\ ip \in builder /\ builder' = builder \ {ip} /\ mgmtIP[d] = 0
           /\ mgmtIP' = [mgmtIP EXCEPT ![d] = ip]
           /\ d \in Explicit =>
                attr[d].mgmt_ip.kind = "ip" /\ ip = attr[d].mgmt_ip.ip
  <2> DEFINE U == Usable(attr[Server].mgmt_ip)
  <2>1. Augmented /\ d \in DOMAIN mgmtIP /\ Managed \subseteq DOMAIN mgmtIP
    BY DEF Allocating, PInv, DeviceInv, Managed
  <2>2. \A e \in Managed : mgmtIP'[e] = IF e = d THEN ip ELSE mgmtIP[e]
    BY <1>3, <2>1
  <2>3. ip \in U /\ U \subseteq Nat \ {0}
    BY <1>3, <2>1, GraphFacts, UsableFacts DEF PInv, AllocInv
  <2>4. Holders(Managed)' = Holders(Managed) \union {d}
    BY <1>1, <2>2, <2>3 DEF Holders
  <2>5. Holders(Explicit)' = Holders(Explicit) \union ({d} \intersect Explicit)
    BY <1>1, <2>2, <2>3 DEF Holders, Explicit
  <2>6. \A e \in Holders(Managed) : mgmtIP'[e] = mgmtIP[e] /\ mgmtIP[e] # ip
                                    /\ e # d /\ e \in Managed
    BY <1>3, <2>2 DEF PInv, AllocInv, Holders
  <2>7. \A x \in U : x \in builder' \/ \E e \in Managed : mgmtIP'[e] = x
    BY <1>3, <2>2, <2>3 DEF PInv, AllocInv
  <2>8. \A e \in Holders(Managed)' : mgmtIP'[e] \in U \ builder'
    BY <1>3, <2>2, <2>3, <2>4, <2>6 DEF PInv, AllocInv
  <2>9. \A e, f \in Holders(Managed)' : e # f => mgmtIP'[e] # mgmtIP'[f]
    BY <2>2, <2>4, <2>6 DEF PInv, AllocInv
  <2>10. \A e \in Holders(Explicit)' :
           attr[e].mgmt_ip.kind = "ip" /\ mgmtIP'[e] = attr[e].mgmt_ip.ip
    <3>1. Explicit \subseteq Managed /\ Holders(Explicit) \subseteq Holders(Managed)
      BY DEF Explicit, Holders
    <3> QED
      BY <1>3, <2>2, <2>5, <2>6, <3>1 DEF PInv, AllocInv
  <2>11. AllocInv'
    BY <1>1, <1>3, <2>7, <2>8, <2>9, <2>10 DEF PInv, AllocInv
  <2> QED
    BY <1>1, <1>3, <2>3, <2>4, <2>11
<1> QED
  BY <1>2, <1>3

\* The two loops over the devices.
LEMMA LoopKeeps ==
  ASSUME PInv, NEW d \in devs, Reserve(d) \/ Wire(d)
  PROVE  PInv'
<1>1. /\ UNCHANGED <<g, autoMgmt, devs, attr, pc>> /\ d \in todo
      /\ todo' = todo \ {d} /\ pc \in {"reserve", "wire"}
  BY DEF Reserve, Wire
<1>2. InputInv' /\ ParseDecided' /\ Allocating /\ Allocating' /\ Augmented'
  BY <1>1 DEF PInv, InputInv, ParseDecided, Allocating, Augmented, NameOK
<1>3. d \in Managed
  BY <1>1 DEF PInv, LoopInv, Explicit
<1>4. CASE Reserve(d)
  <2> DEFINE ip == attr[d].mgmt_ip.ip
  <2>1. /\ ip \in builder /\ builder' = builder \ {ip}
        /\ mgmtIP' = [mgmtIP EXCEPT ![d] = ip] /\ attr[d].mgmt_ip.kind = "ip"
    BY <1>4 DEF Reserve, reserve
  <2>2. mgmtIP[d] = 0 /\ ip # 0 /\ d \in Explicit /\ pc = "reserve"
    BY <1>1, <1>2, <1>3, <1>4, <2>1, GraphFacts, UsableFacts DEF PInv, LoopInv,
       AllocInv, Holders, Reserve, Allocating
  <2>3. /\ AllocInv' /\ Managed' = Managed /\ Explicit' = Explicit
        /\ Holders(Managed)' = Holders(Managed) \union {d}
        /\ DOMAIN mgmtIP' = DOMAIN mgmtIP
    BY <1>1, <1>2, <1>3, <2>1, <2>2, AddressKeeps
  <2>4. DeviceInv'
    BY <1>1, <1>2, <2>3 DEF PInv, DeviceInv, Allocating
  <2>5. LoopInv' /\ NoneYet'
    BY <1>1, <2>2, <2>3 DEF PInv, LoopInv, NoneYet
  <2> QED
    BY <1>2, <2>3, <2>4, <2>5 DEF PInv
<1>5. CASE Wire(d)
  <2>1. PICK ip :
          \/ ip = 0 /\ mgmtIP' = mgmtIP /\ builder' = builder /\ mgmtIP[d] # 0
          \/ /\ ip \in builder /\ builder' = builder \ {ip} /\ mgmtIP[d] = 0
             /\ mgmtIP' = [mgmtIP EXCEPT ![d] = ip]
    BY <1>5 DEF Wire, HasAddress, allocate, reserve
  <2>2. pc = "wire" /\ (mgmtIP[d] = 0 => d \notin Explicit)
    BY <1>3, <1>5 DEF Wire, PInv, LoopInv, Holders
  <2>3. mgmtIP[d] = 0 => ip # 0
    BY <1>2, <2>1, GraphFacts, UsableFacts DEF PInv, AllocInv, Allocating
  <2>4. /\ AllocInv' /\ Managed' = Managed /\ Explicit' = Explicit
        /\ Holders(Managed)' = Holders(Managed)
             \union (IF ip = 0 THEN {} ELSE {d})
        /\ DOMAIN mgmtIP' = DOMAIN mgmtIP
    BY <1>1, <1>2, <1>3, <2>1, <2>2, AddressKeeps
  <2>5. DeviceInv'
    BY <1>1, <1>2, <2>4 DEF PInv, DeviceInv, Allocating
  <2>6. d \in Holders(Managed)'
    BY <1>3, <2>1, <2>3, <2>4 DEF Holders
  <2>7. LoopInv' /\ NoneYet'
    BY <1>1, <1>3, <2>2, <2>4, <2>6 DEF PInv, LoopInv, NoneYet, Holders
  <2> QED
    BY <1>2, <2>4, <2>5, <2>7 DEF PInv
<1> QED
  BY <1>4, <1>5

\* The steps from one loop to the next.
LEMMA MoveOnKeeps ==
  ASSUME PInv, ReserveDone \/ WireDone \/ AssociateLinks
  PROVE  PInv'
<1>1. UNCHANGED <<g, autoMgmt, devs, attr, mgmtLinks, builder, mgmtIP>>
  BY DEF ReserveDone, WireDone, AssociateLinks
<1>2. Managed' = Managed /\ Explicit' = Explicit
      /\ Holders(Managed)' = Holders(Managed)
      /\ Holders(Explicit)' = Holders(Explicit)
  BY <1>1, ManagedSame
<1>3. Explicit \subseteq Managed
  BY DEF Explicit
<1>4. InputInv' /\ DeviceInv'
  BY <1>1 DEF PInv, InputInv, DeviceInv, ReserveDone, WireDone,
     AssociateLinks, Augmented, NameOK
<1>5. AllocInv'
  <2>1. Allocating' => Allocating
    BY <1>1 DEF PInv, InputInv, Allocating, Augmented, ReserveDone, WireDone,
       AssociateLinks
  <2>2. CASE Allocating'
    BY <1>1, <1>2, <2>1, <2>2 DEF PInv, AllocInv
  <2>3. CASE ~Allocating'
    BY <2>3 DEF AllocInv
  <2> QED
    BY <2>2, <2>3
<1>6. LoopInv' /\ NoneYet'
  BY <1>1, <1>2, <1>3 DEF PInv, LoopInv, NoneYet, ReserveDone, WireDone,
     AssociateLinks, Holders
<1>7. ParseDecided'
  <2>1. pc \in {"links", "parsed"} => Acceptable
    BY ParsedAcceptable DEF PInv
  <2>2. Acceptable' = Acceptable
    BY <1>1 DEF Acceptable, GraphManaged, GraphExplicit, GraphPrefix
  <2>3. pc' = "parsed" => pc \in {"links", "parsed"}
    BY DEF ReserveDone, WireDone, AssociateLinks
  <2>4. pc' # "failed"
    BY DEF ReserveDone, WireDone, AssociateLinks
  <2> QED
    BY <2>1, <2>2, <2>3, <2>4 DEF ParseDecided
<1> QED
  BY <1>4, <1>5, <1>6, <1>7 DEF PInv

\* The invariant holds before Parse is called.
LEMMA InitPInv == Init => PInv
  BY DEF Init, PInv, InputInv, DeviceInv, AllocInv, LoopInv, NoneYet,
     ParseDecided, Augmented, Allocating

\* Every step of Parse keeps it.
LEMMA ParsePInv == PInv /\ [Parse]_parseVars => PInv'
<1> SUFFICES ASSUME PInv, [Parse]_parseVars PROVE PInv'
  OBVIOUS
<1>1. CASE CheckNamesErr
  <2>1. ~Acceptable
    BY <1>1 DEF CheckNamesErr, NameOK, Acceptable
  <2> QED
    BY <1>1, <2>1, FailKeeps DEF CheckNamesErr
<1>2. CASE SetupAllocatorErr
  <2>1. Augmented /\ autoMgmt
    BY <1>2 DEF SetupAllocatorErr, Augmented, PInv, InputInv
  <2>2. GraphPrefix.kind # "prefix"
    BY <1>2, <2>1, GraphFacts DEF SetupAllocatorErr, PInv
  <2>3. ~Acceptable
    BY <2>1, <2>2 DEF Acceptable
  <2> QED
    BY <1>2, <2>3, FailKeeps DEF SetupAllocatorErr
<1>3. ASSUME NEW d \in devs, ReserveErr(d) \/ WireErr(d) PROVE PInv'
  <2>1. ~Acceptable
    BY <1>3, ReserveErrInput, WireErrInput
  <2> QED
    BY <1>3, <2>1, FailKeeps DEF ReserveErr, WireErr
<1>4. CASE UNCHANGED parseVars
  BY <1>4 DEF parseVars, PInv, InputInv, DeviceInv, AllocInv, LoopInv,
     NoneYet, ParseDecided, Augmented, Allocating, NameOK, Managed, Explicit,
     Holders, Acceptable, GraphManaged, GraphExplicit, GraphPrefix
<1> QED
  BY <1>1, <1>2, <1>3, <1>4, SetupKeeps, AllocatorKeeps, LoopKeeps,
     MoveOnKeeps, Zenon DEF Parse

----------------------------------------------------------------------------
(* The theorems.                                                           *)

\* The invariant gives every managed device an address of its own.
LEMMA PInvAddresses == PInv => AddressesDistinct
<1> SUFFICES ASSUME PInv, pc = "parsed", autoMgmt
             PROVE  /\ \A d \in Managed : mgmtIP[d] \in Usable(attr[Server].mgmt_ip)
                    /\ \A d, e \in Managed : d # e => mgmtIP[d] # mgmtIP[e]
                    /\ \A d \in Explicit : mgmtIP[d] = attr[d].mgmt_ip.ip
  BY DEF AddressesDistinct
<1>1. Allocating
  BY DEF Allocating, Augmented
<1>2. Holders(Managed) = Managed /\ Holders(Explicit) = Explicit
  BY DEF PInv, LoopInv, Holders, Explicit
<1> QED
  BY <1>1, <1>2 DEF PInv, AllocInv

\* The invariant of Parse.
LEMMA ParseInductive == ParseSpec => []PInv
  BY InitPInv, ParsePInv, PTL DEF ParseSpec

\* Whether Parse succeeds depends on its input alone, and not on the order in
\* which its loops visit the devices, for every graph.
THEOREM ParseIsDecided == ParseSpec => []ParseDecided
<1>1. PInv => ParseDecided
  BY DEF PInv
<1> QED
  BY <1>1, ParseInductive, PTL

\* The addresses of the management network are all different, usable, and
\* those the graph asks for, for every graph and every order.
THEOREM AddressesAreDistinct == ParseSpec => []AddressesDistinct
  BY PInvAddresses, ParseInductive, PTL

\* With the automatic management network, and no device but oob-mgmt-server
\* that the graph makes a management server.
OnlyServer ==
  autoMgmt /\ \A d \in g.node : g.attr[d].function = OOBServer => d = Server

\* Then newIPAllocator has looked at the only prefix there is.
LEMMA PInvPrefix == PInv => (OnlyServer => PrefixValidated)
<1> SUFFICES ASSUME PInv, OnlyServer, pc = "parsed", NEW d \in devs,
                    attr[d].function = OOBServer
             PROVE  attr[d].mgmt_ip.kind = "prefix"
  BY DEF PrefixValidated
<1>1. Augmented /\ Allocating
  BY DEF Allocating, Augmented, OnlyServer
<1>2. d \in g.node => g.attr[d].function = OOBServer
  BY <1>1 DEF PInv, DeviceInv
<1>3. d \notin g.node => d \in {Server, Switch}
  BY <1>1 DEF PInv, DeviceInv
<1>4. d \notin g.node /\ d # Server => attr[d].function = OOBSwitch
  <2>1. MgmtSwitch.function = OOBSwitch
    BY DEF MgmtSwitch, Node
  <2> QED
    BY <1>1, <2>1 DEF PInv, DeviceInv
<1>5. d = Server
  BY <1>2, <1>4 DEF OnlyServer, OOBServer, OOBSwitch
<1> QED
  BY <1>1, <1>5 DEF PInv, AllocInv

\* "We assume that the prefix has already been validated": it has, for every
\* graph, if the management network is automatic and no device other than
\* oob-mgmt-server is a management server.  Without one of the two it need not.
THEOREM PrefixIsValidated == ParseSpec => [](OnlyServer => PrefixValidated)
  BY PInvPrefix, ParseInductive, PTL

=============================================================================
