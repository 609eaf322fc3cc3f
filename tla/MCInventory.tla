---------------------------- MODULE MCInventory -----------------------------
(***************************************************************************)
(* Small graphs for modules Topology and Inventory: each one has a case    *)
(* that the others have not.                                               *)
(***************************************************************************)
EXTENDS Inventory, TLC

Leaf == Node(6)
Host == Node(NoFunction)

At(d, attr_ip) == [d EXCEPT !.mgmt_ip = attr_ip]
On(d, ip) == [d EXCEPT !.tunnelip = ip]

\* Two leaves and a host, joined by three lines; two of them are parallel.
Plain ==
  [node |-> {"l1", "l2", "h"},
   attr |-> ("l1" :> Leaf @@ "l2" :> On(Leaf, "host2") @@ "h" :> Host),
   edge |-> {Edge(1, "l1", Swp(1), "l2", Swp(1)),
             Edge(2, "l1", Swp(2), "l2", Swp(2)),
             Edge(3, "h", Eth(1), "l1", Swp(3))}]

\* A server with a prefix of eight addresses, and devices with an address.
Small(p, a1, a2) ==
  [node |-> {Server, "l1", "l2", "h"},
   attr |-> (Server :> At(Node(OOBServer), p) @@ "l1" :> At(Leaf, a1)
             @@ "l2" :> At(Leaf, a2) @@ "h" :> Host),
   edge |-> {Edge(1, "l1", Swp(1), "l2", Swp(1))}]

\* A graph with a management network of its own: ports of the switch, an eth0
\* of a device, fake ends, a libvirt network and given MAC addresses.
Own ==
  [node |-> {Server, Switch, "h", "x", "net"},
   attr |-> (Server :> On(At(Node(OOBServer), Prefix(14, 16)), "host2")
             @@ Switch :> Node(OOBSwitch) @@ "h" :> At(Host, Address(3))
             @@ "x" :> Node(Fake) @@ "net" :> Node(Fake)),
   edge |-> {Edge(1, Switch, Swp(2), "h", Eth(0)),
             [Edge(2, "x", Swp(1), "h", Eth(1)) EXCEPT !.right_mac = 900],
             [Edge(3, "h", Eth(2), "net", NoPort)
                EXCEPT !.libvirt_type = "network", !.left_mac = 901]}]

\* A device without an interface, and one that asks for no management.
Alone ==
  [node |-> {"l1", "h"},
   attr |-> ("l1" :> [Leaf EXCEPT !.no_mgmt = TRUE] @@ "h" :> Host),
   edge |-> {}]

\* More links than the ports and the MAC addresses of the model last for.
Wide ==
  [Plain EXCEPT !.edge = {Edge(n, "l1", Swp(n), "l2", Swp(n)) : n \in 1..5}
                         \union {Edge(6, "l2", Swp(6), "l2", Swp(7))}]

\* A second management server that nobody has given a prefix.
Second ==
  [node |-> {"s", "h"},
   attr |-> ("s" :> Node(OOBServer) @@ "h" :> Host),
   edge |-> {Edge(1, "s", Eth(1), "h", Eth(1))}]

\* One line with addresses that clash, one of them with an automatic one.
Clash ==
  [Plain EXCEPT !.edge =
     {[Edge(1, "l1", Swp(1), "l2", Swp(1))
         EXCEPT !.left_mac = MacBase + 1, !.right_mac = MacBase + 1]}]

With(x, d, a) == [x EXCEPT !.attr[d] = a]

MCGraph ==
  {Plain, Wide, Own, Alone, Second, Clash,
   Small(Prefix(6, 8), Address(2), Unset),
   Small(Prefix(6, 8), Address(1), Address(2)),
   Small(Prefix(6, 8), Address(2), Address(2)),
   Small(Prefix(6, 8), Address(6), Unset),
   Small(Prefix(6, 8), Address(7), Unset),
   Small(Prefix(6, 8), Address(9), Unset),
   Small(Prefix(6, 8), Garbled, Address(1)),
   Small(Prefix(6, 8), Prefix(2, 8), Unset),
   Small(Prefix(1, 4), Unset, Address(2)),
   Small(Prefix(9, 4), Unset, Unset),
   Small(Prefix(5, 1), Unset, Unset),
   Small(Address(6), Unset, Unset),
   Small(Unset, Unset, Unset),
   With(Plain, "h", On(Host, "bad")),
   With(Plain, "h", [Host EXCEPT !.config = "unreadable"]),
   With(Plain, "h", Node(Fake)),
   With(Second, "s", [Node(OOBServer) EXCEPT !.os = "none"]),
   With(Own, Switch, [Node(OOBSwitch) EXCEPT !.os = "none"]),
   With(Own, Switch, Node(NoFunction)),
   [Plain EXCEPT !.node = @ \union {"-1"}, !.attr = @ @@ "-1" :> Host],
   [Plain EXCEPT !.node = @ \union {"-1"}, !.attr = @ @@ "-1" :> Node(Fake)]}

MCValidName == {Server, Switch, "l1", "l2", "h", "x", "net", "s"}
=============================================================================
