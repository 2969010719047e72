----------------------------- MODULE BootProofs -----------------------------
(***************************************************************************)
(* Proofs about Boot for every set of configuration files: the ports of a  *)
(* node and the manager's hosts are in the order of the file, the two ends *)
(* of a link meet, nobody is left behind when the parent is gone, and a    *)
(* node that the file lets come up does not go down again.                 *)
(***************************************************************************)
EXTENDS Boot, ListProofs

-----------------------------------------------------------------------------
(* The invariant.                                                          *)

Built ==
    /\ nodeList = IF LoadOK THEN create_node_list ELSE << >>
    /\ portList = IF LoadOK THEN create_port_list ELSE << >>
    /\ manList = create_man_ports(nodeList)

NothingBegun ==
    /\ toFork = << >>
    /\ \A n \in NodeIds : ports[n] = None /\ proc[n] \notin {"forked", "running"}

BootInv ==
    /\ config \in Configs
    /\ proc \in [NodeIds -> {"none", "forked", "running", "ended"}]
    /\ DOMAIN ports = NodeIds
    /\ stage = "load" \/ ~LoadOK => NothingBegun
    /\ stage # "load" => Built
    /\ \A n \in Started : ports[n] = net_get_port_list(n)
    /\ stage = "manager" => manList # << >>
    /\ stage = "crashed" => manList = << >>
    /\ stage = "killed" => Alive = {}

\* Before anything is read nothing has begun.
LEMMA BootInvInit == Init => BootInv
<1>1. SUFFICES ASSUME Init PROVE BootInv
  OBVIOUS
<1>2. \A n \in NodeIds : proc[n] = "none" /\ ports[n] = None
  BY <1>1 DEF Init
<1>3. NothingBegun /\ Started = {} /\ Alive = {}
  BY <1>1, <1>2 DEF Init, NothingBegun, Started, Alive
<1>4. QED BY <1>1, <1>3 DEF Init, BootInv

\* While the file stays the same, what is read out of it does.
LEMMA SameConfig ==
    ASSUME UNCHANGED config
    PROVE  /\ NodeIds' = NodeIds /\ LoadOK' = LoadOK
           /\ create_node_list' = create_node_list /\ create_port_list' = create_port_list
<1>1. NodeIds' = NodeIds
  BY DEF NodeIds
<1>2. LoadOK' = LoadOK
  BY DEF LoadOK
<1>3. create_node_list' = create_node_list
  BY DEF create_node_list
<1>4. create_port_list' = create_port_list
  BY DEF create_port_list, LinkPorts
<1>5. QED BY <1>1, <1>2, <1>3, <1>4

LEMMA SameLists ==
    ASSUME UNCHANGED <<config, nodeList, portList, manList>>
    PROVE  /\ Built' = Built
           /\ \A n : net_get_port_list(n)' = net_get_port_list(n)
<1>1. create_man_ports(nodeList)' = create_man_ports(nodeList)
  BY DEF create_man_ports
<1>2. \A n : net_get_port_list(n)' = net_get_port_list(n)
  BY DEF net_get_port_list
<1>3. QED BY <1>1, <1>2, SameConfig DEF Built

\* The lists and the ports taken out of them survive a step that leaves the
\* lists and the ports alone.
LEMMA KeepsPorts ==
    ASSUME BootInv, UNCHANGED <<config, nodeList, portList, manList, ports>>
    PROVE  /\ config' \in Configs /\ DOMAIN ports' = NodeIds'
           /\ stage # "load" => Built'
           /\ Started' = Started
           /\ \A n \in Started' : ports'[n] = net_get_port_list(n)'
<1>1. NodeIds' = NodeIds /\ Built' = Built
      /\ \A n : net_get_port_list(n)' = net_get_port_list(n)
  BY SameConfig, SameLists
<1>2. Started' = Started
  BY <1>1 DEF Started
<1>3. QED BY <1>1, <1>2 DEF BootInv

\* A node that begins was forked, so the file was good; it takes its ports.
LEMMA NodeBeginsKeeps ==
    ASSUME BootInv, NEW n \in NodeIds, NodeBegins(n)
    PROVE  BootInv'
<1>1. /\ proc[n] = "forked"
      /\ ports' = [ports EXCEPT ![n] = net_get_port_list(n)]
      /\ \E p \in {"running", "ended"} : proc' = [proc EXCEPT ![n] = p]
      /\ UNCHANGED <<config, stage, nodeList, portList, manList, toFork>>
  BY DEF NodeBegins, NodeStarts, NodeListens, NodeCannotListen, SwitchWithoutPorts
<1>2. stage # "load" /\ LoadOK /\ stage # "killed"
  BY <1>1 DEF BootInv, NothingBegun, Alive
<1>3. NodeIds' = NodeIds /\ LoadOK' = LoadOK /\ Built' = Built
      /\ \A m : net_get_port_list(m)' = net_get_port_list(m)
  BY <1>1, SameConfig, SameLists
<1>4. config' \in Configs /\ DOMAIN ports' = NodeIds'
  BY <1>1, <1>3 DEF BootInv
<1>5. proc' \in [NodeIds' -> {"none", "forked", "running", "ended"}]
  BY <1>1, <1>3 DEF BootInv
<1>6. \A m \in Started' : ports'[m] = net_get_port_list(m)'
  BY <1>1, <1>3 DEF BootInv, Started
<1>7. QED BY <1>1, <1>2, <1>3, <1>4, <1>5, <1>6 DEF BootInv

\* Every step of the program keeps the invariant.
LEMMA BootInvNext == BootInv /\ [Next]_bootVars => BootInv'
<1>1. SUFFICES ASSUME BootInv, [Next]_bootVars PROVE BootInv'
  OBVIOUS
<1>2. CASE NetInit
  <2>1. UNCHANGED <<config, proc, ports>> /\ stage = "load" /\ stage' = "fork"
        /\ toFork' = nodeList'
    BY <1>2 DEF NetInit
  <2>2. NodeIds' = NodeIds /\ LoadOK' = LoadOK
        /\ create_node_list' = create_node_list /\ create_port_list' = create_port_list
    BY <2>1, SameConfig
  <2>3. Built'
    <3>1. create_man_ports(nodeList') = create_man_ports(nodeList)'
      BY DEF create_man_ports
    <3>2. QED BY <1>2, <2>2, <3>1 DEF NetInit, Built
  <2>4. NothingBegun
    BY <1>1, <2>1 DEF BootInv
  <2>5. Started' = {}
    BY <2>1, <2>2, <2>4 DEF Started, NothingBegun
  <2>6. ~LoadOK' => NothingBegun'
    BY <2>1, <2>2, <2>3, <2>4 DEF NothingBegun, Built
  <2>7. QED BY <1>1, <2>1, <2>2, <2>3, <2>5, <2>6 DEF BootInv
<1>3. CASE Fork
  <2>1. UNCHANGED <<config, stage, nodeList, portList, manList, ports>> /\ stage = "fork"
        /\ toFork # << >> /\ proc' = [proc EXCEPT ![toFork[1].id] = "forked"]
    BY <1>3 DEF Fork
  <2>2. LoadOK
    BY <1>1, <2>1 DEF BootInv, NothingBegun
  <2>3. NodeIds' = NodeIds /\ LoadOK' = LoadOK
    BY <2>1, SameConfig
  <2>4. proc' \in [NodeIds' -> {"none", "forked", "running", "ended"}]
    BY <1>1, <2>1, <2>3 DEF BootInv
  <2>5. QED BY <1>1, <2>1, <2>2, <2>3, <2>4, KeepsPorts DEF BootInv
<1>4. CASE ForkFails
  <2>1. UNCHANGED <<config, nodeList, portList, manList, toFork, proc, ports>>
        /\ stage = "fork" /\ stage' = "fork failed"
    BY <1>4 DEF ForkFails
  <2>2. NodeIds' = NodeIds /\ LoadOK' = LoadOK
    BY <2>1, SameConfig
  <2>3. ~LoadOK' => NothingBegun'
    BY <1>1, <2>1, <2>2 DEF BootInv, NothingBegun
  <2>4. QED BY <1>1, <2>1, <2>2, <2>3, KeepsPorts DEF BootInv
<1>5. CASE ManagerStarts
  <2>1. UNCHANGED <<config, nodeList, portList, manList, toFork, proc, ports>>
        /\ stage = "fork" /\ stage' = IF manList = << >> THEN "crashed" ELSE "manager"
    BY <1>5 DEF ManagerStarts
  <2>2. NodeIds' = NodeIds /\ LoadOK' = LoadOK
    BY <2>1, SameConfig
  <2>3. ~LoadOK' => NothingBegun'
    BY <1>1, <2>1, <2>2 DEF BootInv, NothingBegun
  <2>4. QED BY <1>1, <2>1, <2>2, <2>3, KeepsPorts DEF BootInv
<1>6. CASE Quit
  <2>1. UNCHANGED <<config, nodeList, portList, manList, toFork, ports>>
        /\ stage = "manager" /\ stage' = "killed" /\ proc' = [n \in NodeIds |-> "ended"]
    BY <1>6 DEF Quit
  <2>2. NodeIds' = NodeIds /\ LoadOK' = LoadOK
    BY <2>1, SameConfig
  <2>3. ~LoadOK' => NothingBegun'
    BY <1>1, <2>1, <2>2 DEF BootInv, NothingBegun
  <2>4. Alive' = {}
    BY <2>1, <2>2 DEF Alive
  <2>5. proc' \in [NodeIds' -> {"none", "forked", "running", "ended"}]
    BY <2>1, <2>2
  <2>6. QED BY <1>1, <2>1, <2>2, <2>3, <2>4, <2>5, KeepsPorts DEF BootInv
<1>7. CASE \E n \in NodeIds : NodeBegins(n)
  BY <1>1, <1>7, NodeBeginsKeeps
<1>8. CASE UNCHANGED bootVars
  <2>1. UNCHANGED <<config, stage, nodeList, portList, manList, toFork, proc, ports>>
    BY <1>8 DEF bootVars
  <2>2. NodeIds' = NodeIds /\ LoadOK' = LoadOK
    BY <2>1, SameConfig
  <2>3. NothingBegun => NothingBegun'
    BY <2>1, <2>2 DEF NothingBegun
  <2>4. Alive' = Alive
    BY <2>1, <2>2 DEF Alive
  <2>5. QED BY <1>1, <2>1, <2>2, <2>3, <2>4, KeepsPorts DEF BootInv
<1>9. QED BY <1>1, <1>2, <1>3, <1>4, <1>5, <1>6, <1>7, <1>8 DEF Next, Main, Settled

\* The invariant holds of every reachable state.
LEMMA BootInvHolds == Spec => []BootInv
<1>1. Init => BootInv
  BY BootInvInit
<1>2. BootInv /\ [Next]_bootVars => BootInv'
  BY BootInvNext
<1>3. QED BY <1>1, <1>2, PTL DEF Spec

-----------------------------------------------------------------------------
(* What is in the lists.                                                   *)

Ends == UNION {Range(LinkPorts(i)) : i \in DOMAIN config.links}
Nodes == [id : NodeIds, type : STRING]
PortPieces == [i \in DOMAIN config.links |-> LinkPorts(i)]
NodePieces ==
    [i \in DOMAIN config.nodes |-> <<[id |-> i - 1, type |-> config.nodes[i].type]>>]

\* f of a port or of a node: what the second loop inserts for it.
Own(n) == [p \in Ends |-> IF p.node = n THEN <<p>> ELSE << >>]
HostId == [p \in Nodes |-> IF p.type = "HOST" THEN <<p.id>> ELSE << >>]

\* The end of a pipe link at node0, the one at node1, and a socket link.
NearEnd(i) == [type |-> "PIPE", node |-> config.links[i].node0, send |-> <<i, 0>>, recv |-> <<i, 1>>]
FarEnd(i) == [type |-> "PIPE", node |-> config.links[i].node1, send |-> <<i, 1>>, recv |-> <<i, 0>>]
SocketEnd(i) == [type |-> "SOCKET", node |-> config.links[i].node,
                 listen |-> config.links[i].listen, connect |-> config.links[i].connect]

LEMMA LinkPortsShape ==
    ASSUME NEW i
    PROVE  /\ config.links[i].type = "PIPE" => LinkPorts(i) = <<NearEnd(i), FarEnd(i)>>
           /\ config.links[i].type # "PIPE" => LinkPorts(i) = <<SocketEnd(i)>>
BY DEF LinkPorts, NearEnd, FarEnd, SocketEnd

\* The elements of the short lists that a piece can be.
LEMMA ShortRange ==
    /\ Range(<< >>) = {}
    /\ \A p : Range(<<p>>) = {p}
    /\ \A p, q : Range(<<p, q>>) = {p, q}
<1>1. Range(<< >>) = {}
  BY DEF Range
<1>2. ASSUME NEW p PROVE Range(<<p>>) = {p}
  <2>1. DOMAIN <<p>> = {1} /\ <<p>>[1] = p
    OBVIOUS
  <2>. DEFINE t == <<p>>
  <2>2. DOMAIN t = {1} /\ t[1] = p
    BY <2>1
  <2>. HIDE DEF t
  <2>3. Range(t) = {p}
    BY <2>2 DEF Range
  <2>4. QED BY <2>3 DEF t
<1>3. ASSUME NEW p, NEW q PROVE Range(<<p, q>>) = {p, q}
  <2>. DEFINE t == <<p, q>>
  <2>1. DOMAIN t = {1, 2} /\ t[1] = p /\ t[2] = q
    <3>1. DOMAIN t = 1 .. 2 /\ t[1] = p /\ t[2] = q
      OBVIOUS
    <3>2. 1 .. 2 = {1, 2}
      OBVIOUS
    <3>3. QED BY <3>1, <3>2
  <2>. HIDE DEF t
  <2>2. Range(t) = {p, q}
    BY <2>1 DEF Range
  <2>3. QED BY <2>2 DEF t
<1>4. QED BY <1>1, <1>2, <1>3

\* A link gives one port or two.
LEMMA PortPiecesType ==
    ASSUME config \in Configs
    PROVE  /\ PortPieces \in Seq(Seq(Ends))
           /\ DOMAIN PortPieces = DOMAIN config.links
           /\ create_port_list \in Seq(Ends)
           /\ create_port_list = InsertAll(PortPieces)
<1>1. DOMAIN config.links = 1 .. Len(config.links) /\ Len(config.links) \in Nat
  BY ConfigsAssumption
<1>2. ASSUME NEW i \in DOMAIN config.links PROVE LinkPorts(i) \in Seq(Ends)
  <2>1. Range(LinkPorts(i)) \subseteq Ends
    BY DEF Ends
  <2>2. CASE config.links[i].type = "PIPE"
    <3>1. LinkPorts(i) = <<NearEnd(i), FarEnd(i)>> /\ {NearEnd(i), FarEnd(i)} \subseteq Ends
      BY <2>1, <2>2, LinkPortsShape, ShortRange
    <3>2. QED BY <3>1
  <2>3. CASE config.links[i].type # "PIPE"
    <3>1. LinkPorts(i) = <<SocketEnd(i)>> /\ {SocketEnd(i)} \subseteq Ends
      BY <2>1, <2>3, LinkPortsShape, ShortRange
    <3>2. QED BY <3>1
  <2>4. QED BY <2>2, <2>3
<1>3. PortPieces \in Seq(Seq(Ends)) /\ DOMAIN PortPieces = DOMAIN config.links
  BY <1>1, <1>2 DEF PortPieces
<1>4. create_port_list = InsertAll(PortPieces)
  BY DEF create_port_list, PortPieces
<1>5. QED BY <1>3, <1>4, InsertAllType

\* A node gives one element.
LEMMA NodePiecesType ==
    ASSUME config \in Configs
    PROVE  /\ NodePieces \in Seq(Seq(Nodes))
           /\ DOMAIN NodePieces = DOMAIN config.nodes
           /\ create_node_list \in Seq(Nodes)
           /\ create_node_list = InsertAll(NodePieces)
<1>1. DOMAIN config.nodes = 1 .. Len(config.nodes) /\ Len(config.nodes) \in Nat
  BY ConfigsAssumption
<1>2. ASSUME NEW i \in DOMAIN config.nodes
      PROVE  <<[id |-> i - 1, type |-> config.nodes[i].type]>> \in Seq(Nodes)
  <2>1. config.nodes[i].type \in STRING
    <3>. DEFINE S == [type : STRING, id : Int]
                s == config.nodes
    <3>1. s \in Seq(S) /\ i \in DOMAIN s
      BY ConfigsAssumption
    <3>. HIDE DEF S, s
    <3>2. s[i] \in S
      BY <3>1
    <3>3. QED BY <3>2 DEF S, s
  <2>2. i - 1 \in NodeIds
    BY DEF NodeIds
  <2>3. QED BY <2>1, <2>2 DEF Nodes
<1>3. NodePieces \in Seq(Seq(Nodes)) /\ DOMAIN NodePieces = DOMAIN config.nodes
  BY <1>1, <1>2 DEF NodePieces
<1>4. create_node_list = InsertAll(NodePieces)
  BY DEF create_node_list, NodePieces
<1>5. QED BY <1>3, <1>4, InsertAllType

\* The ports of a node, and the hosts of the manager, are the elements of the
\* list that are theirs.
LEMMA OwnPorts ==
    ASSUME config \in Configs, portList \in Seq(Ends), NEW n
    PROVE  /\ Maps(Own(n), Ends, Seq(Ends))
           /\ net_get_port_list(n) = InsertAll(Each(Own(n), portList))
           /\ \A p : p \in Range(net_get_port_list(n)) <=> p \in Range(portList) /\ p.node = n
<1>1. Maps(Own(n), Ends, Seq(Ends))
  BY DEF Maps, Own
<1>2. net_get_port_list(n) = InsertAll(Each(Own(n), portList))
  <2>1. \A k \in DOMAIN portList : portList[k] \in Ends
    OBVIOUS
  <2>2. Each(Own(n), portList)
          = [k \in DOMAIN portList |-> IF portList[k].node = n THEN <<portList[k]>> ELSE << >>]
    BY <2>1 DEF Each, Own
  <2>3. QED BY <2>2 DEF net_get_port_list
<1>3. ASSUME NEW p
      PROVE  p \in Range(net_get_port_list(n)) <=> p \in Range(portList) /\ p.node = n
  <2>1. Each(Own(n), portList) \in Seq(Seq(Ends))
        /\ DOMAIN Each(Own(n), portList) = DOMAIN portList
        /\ \A k \in DOMAIN portList : Each(Own(n), portList)[k] = Own(n)[portList[k]]
    BY <1>1, EachType DEF Each
  <2>2. \A k \in DOMAIN portList :
          p \in Range(Own(n)[portList[k]]) <=> p = portList[k] /\ p.node = n
    <3>1. TAKE k \in DOMAIN portList
    <3>2. portList[k] \in Ends
      OBVIOUS
    <3>3. Own(n)[portList[k]] = IF portList[k].node = n THEN <<portList[k]>> ELSE << >>
      BY <3>2 DEF Own
    <3>4. QED BY <3>3, ShortRange
  <2>3. p \in Range(InsertAll(Each(Own(n), portList)))
          <=> \E k \in DOMAIN portList : p \in Range(Each(Own(n), portList)[k])
    BY <2>1, InsertAllRange
  <2>4. p \in Range(portList) <=> \E k \in DOMAIN portList : p = portList[k]
    BY DEF Range
  <2>5. QED BY <1>2, <2>1, <2>2, <2>3, <2>4
<1>4. QED BY <1>1, <1>2, <1>3

LEMMA HostIds ==
    ASSUME config \in Configs, NEW list \in Seq(Nodes)
    PROVE  /\ Maps(HostId, Nodes, Seq(NodeIds))
           /\ create_man_ports(list) = InsertAll(Each(HostId, list))
<1>1. Maps(HostId, Nodes, Seq(NodeIds))
  BY DEF Maps, HostId, Nodes
<1>2. \A k \in DOMAIN list : list[k] \in Nodes
  OBVIOUS
<1>3. Each(HostId, list)
        = [k \in DOMAIN list |-> IF list[k].type = "HOST" THEN <<list[k].id>> ELSE << >>]
  BY <1>2 DEF Each, HostId
<1>4. QED BY <1>1, <1>3 DEF create_man_ports

-----------------------------------------------------------------------------
(* The order of the lists.                                                 *)

\* No link joins a node to itself: its two ports would come to the node the
\* other way round, and its other ports would move up.
LinksJoinTwo ==
    \A c \in Configs : \A i \in DOMAIN c.links :
        c.links[i].type = "PIPE" => c.links[i].node0 # c.links[i].node1

\* The links that node n has an end of, as a set, and its end of link i.
LinkSet(n) == {i \in DOMAIN config.links : Touches(config.links[i], n)}
EndAt(i, n) ==
    IF config.links[i].type # "PIPE" THEN SocketEnd(i)
    ELSE IF config.links[i].node0 = n THEN NearEnd(i) ELSE FarEnd(i)
EndsOf(n) == [i \in LinkSet(n) |-> EndAt(i, n)]
LinkIndices(n) ==
    [i \in DOMAIN config.links |-> IF i \in LinkSet(n) THEN <<i>> ELSE << >>]

\* The end of link i at node n is one of its ports, and is at n.
LEMMA EndAtIsAnEnd ==
    ASSUME NEW n, NEW i \in LinkSet(n)
    PROVE  EndAt(i, n) \in Range(LinkPorts(i)) /\ EndAt(i, n).node = n /\ EndAt(i, n) \in Ends
<1>1. EndAt(i, n) \in Range(LinkPorts(i))
  BY LinkPortsShape, ShortRange DEF EndAt
<1>2. EndAt(i, n).node = n
  BY DEF EndAt, LinkSet, Touches, NearEnd, FarEnd, SocketEnd
<1>3. QED BY <1>1, <1>2 DEF Ends, LinkSet

\* LinksOf, piece by piece.
LEMMA LinksOfPieces ==
    ASSUME config \in Configs, NEW n
    PROVE  /\ LinkIndices(n) \in Seq(Seq(LinkSet(n)))
           /\ LinksOf(n) = FlattenSeq(LinkIndices(n))
           /\ LinksOf(n) \in Seq(LinkSet(n))
<1>1. DOMAIN config.links = 1 .. Len(config.links) /\ Len(config.links) \in Nat
  BY ConfigsAssumption
<1>2. LinkIndices(n) \in Seq(Seq(LinkSet(n)))
  BY <1>1 DEF LinkIndices
<1>3. LinksOf(n) = FlattenSeq(LinkIndices(n))
  <2>. DEFINE s == [i \in DOMAIN config.links |-> i]
  <2>1. [k \in DOMAIN s |-> IF s[k] \in LinkSet(n) THEN <<s[k]>> ELSE << >>] = LinkIndices(n)
    BY DEF LinkIndices
  <2>2. LinksOf(n) = Chosen(s, LinkSet(n))
    BY DEF LinksOf, LinkSet
  <2>3. QED BY <2>1, <2>2 DEF Chosen
<1>4. QED BY <1>2, <1>3, FlattenType

\* Of one link node n takes its end, if it has one.
LEMMA OwnOfOneLink ==
    ASSUME config \in Configs, LinksJoinTwo, NEW n, NEW i \in DOMAIN config.links
    PROVE  InsertAll(Each(Own(n), LinkPorts(i)))
             = IF i \in LinkSet(n) THEN <<EndAt(i, n)>> ELSE << >>
<1>1. Range(LinkPorts(i)) \subseteq Ends
  BY DEF Ends
<1>2. CASE config.links[i].type = "PIPE"
  <2>. DEFINE a == NearEnd(i)
              b == FarEnd(i)
              fa == Own(n)[a]
              fb == Own(n)[b]
  <2>1. LinkPorts(i) = <<a, b>> /\ a \in Ends /\ b \in Ends
    BY <1>1, <1>2, LinkPortsShape, ShortRange
  <2>2. Each(Own(n), <<a, b>>) = <<fa, fb>>
    <3>. HIDE DEF a, b
    <3>1. QED BY DEF Each
  <2>3. fa = IF a.node = n THEN <<a>> ELSE << >>
    BY <2>1 DEF Own
  <2>4. fb = IF b.node = n THEN <<b>> ELSE << >>
    BY <2>1 DEF Own
  <2>5. a.node = config.links[i].node0 /\ b.node = config.links[i].node1
        /\ config.links[i].node0 # config.links[i].node1
    BY <1>2 DEF NearEnd, FarEnd, LinksJoinTwo
  <2>6. InsertAll(<<fa, fb>>) = fb \o fa
    <3>1. fa \in Seq(Ends) /\ fb \in Seq(Ends)
      BY <2>1, <2>3, <2>4
    <3>. HIDE DEF fa, fb
    <3>2. <<fa>> \in Seq(Seq(Ends)) /\ <<fa, fb>> = Append(<<fa>>, fb)
      BY <3>1
    <3>3. QED BY <3>1, <3>2, InsertAllAppend, InsertAllOne
  <2>7. EndAt(i, n) = IF a.node = n THEN a ELSE b
    BY <1>2, <2>5 DEF EndAt
  <2>8. i \in LinkSet(n) <=> a.node = n \/ b.node = n
    BY <1>2, <2>5 DEF LinkSet, Touches
  <2>. HIDE DEF a, b, fa, fb
  <2>9. fb \o fa = IF i \in LinkSet(n) THEN <<EndAt(i, n)>> ELSE << >>
    <3>1. \A x : <<x>> \o << >> = <<x>> /\ << >> \o <<x>> = <<x>>
      OBVIOUS
    <3>2. << >> \o << >> = << >>
      OBVIOUS
    <3>3. CASE a.node = n
      BY <2>3, <2>4, <2>5, <2>7, <2>8, <3>1, <3>3
    <3>4. CASE b.node = n
      BY <2>3, <2>4, <2>5, <2>7, <2>8, <3>1, <3>4
    <3>5. CASE a.node # n /\ b.node # n
      BY <2>3, <2>4, <2>8, <3>2, <3>5
    <3>6. QED BY <3>3, <3>4, <3>5
  <2>10. QED BY <2>1, <2>2, <2>6, <2>9
<1>3. CASE config.links[i].type # "PIPE"
  <2>. DEFINE c == SocketEnd(i)
              fc == Own(n)[c]
  <2>1. LinkPorts(i) = <<c>> /\ c \in Ends
    BY <1>1, <1>3, LinkPortsShape, ShortRange
  <2>2. Each(Own(n), <<c>>) = <<fc>>
    <3>. HIDE DEF c
    <3>1. QED BY DEF Each
  <2>3. fc = IF c.node = n THEN <<c>> ELSE << >>
    BY <2>1 DEF Own
  <2>4. InsertAll(<<fc>>) = fc
    <3>1. fc \in Seq(Ends)
      BY <2>1, <2>3
    <3>2. QED BY <3>1, InsertAllOne
  <2>5. (i \in LinkSet(n) <=> c.node = n) /\ EndAt(i, n) = c
    BY <1>3 DEF LinkSet, Touches, EndAt, SocketEnd
  <2>. HIDE DEF c, fc
  <2>6. QED BY <2>1, <2>2, <2>3, <2>4, <2>5
<1>4. QED BY <1>2, <1>3

\* The ports of a node are its ends of its links, in the order of the file.
LEMMA PortsInOrder ==
    ASSUME config \in Configs, LinksJoinTwo, portList = create_port_list, NEW n
    PROVE  net_get_port_list(n) = Each(EndsOf(n), LinksOf(n))
<1>1. Maps(Own(n), Ends, Seq(Ends)) /\ PortPieces \in Seq(Seq(Ends))
      /\ net_get_port_list(n) = InsertAll(Each(Own(n), InsertAll(PortPieces)))
  BY PortPiecesType, OwnPorts
<1>2. InsertAll(Each(Own(n), InsertAll(PortPieces)))
        = FlattenSeq([i \in DOMAIN PortPieces |-> InsertAll(Each(Own(n), PortPieces[i]))])
  BY <1>1, InsertedTwice
<1>3. Maps(EndsOf(n), LinkSet(n), Ends)
  BY EndAtIsAnEnd DEF Maps, EndsOf
<1>4. [i \in DOMAIN PortPieces |-> InsertAll(Each(Own(n), PortPieces[i]))]
        = [i \in DOMAIN LinkIndices(n) |-> Each(EndsOf(n), LinkIndices(n)[i])]
  <2>1. DOMAIN PortPieces = DOMAIN config.links /\ DOMAIN LinkIndices(n) = DOMAIN config.links
    BY DEF PortPieces, LinkIndices
  <2>2. ASSUME NEW i \in DOMAIN config.links
        PROVE  InsertAll(Each(Own(n), PortPieces[i])) = Each(EndsOf(n), LinkIndices(n)[i])
    <3>1. PortPieces[i] = LinkPorts(i)
      BY DEF PortPieces
    <3>2. LinkIndices(n)[i] = IF i \in LinkSet(n) THEN <<i>> ELSE << >>
      BY DEF LinkIndices
    <3>3. Each(EndsOf(n), << >>) = << >>
      BY DEF Each
    <3>4. i \in LinkSet(n) => Each(EndsOf(n), <<i>>) = <<EndAt(i, n)>>
      BY DEF Each, EndsOf
    <3>5. QED BY <3>1, <3>2, <3>3, <3>4, OwnOfOneLink
  <2>3. QED BY <2>1, <2>2
<1>5. FlattenSeq([i \in DOMAIN LinkIndices(n) |-> Each(EndsOf(n), LinkIndices(n)[i])])
        = Each(EndsOf(n), FlattenSeq(LinkIndices(n)))
  BY <1>3, LinksOfPieces, FlattenEach
<1>6. QED BY <1>1, <1>2, <1>4, <1>5, LinksOfPieces

\* The nodes whose letter is H, and the pieces they are listed by.
HostSet == {n \in NodeIds : TypeOf(n) = "HOST"}
HostIndices ==
    [i \in DOMAIN config.nodes |-> IF i - 1 \in HostSet THEN <<i - 1>> ELSE << >>]

\* The manager's hosts are in the order of the file.
LEMMA HostsInOrder ==
    ASSUME config \in Configs
    PROVE  create_man_ports(create_node_list)
             = Chosen([i \in DOMAIN config.nodes |-> i - 1], HostSet)
<1>1. Maps(HostId, Nodes, Seq(NodeIds)) /\ NodePieces \in Seq(Seq(Nodes))
      /\ create_man_ports(create_node_list) = InsertAll(Each(HostId, InsertAll(NodePieces)))
  BY NodePiecesType, HostIds
<1>2. InsertAll(Each(HostId, InsertAll(NodePieces)))
        = FlattenSeq([i \in DOMAIN NodePieces |-> InsertAll(Each(HostId, NodePieces[i]))])
  BY <1>1, InsertedTwice
<1>3. [i \in DOMAIN NodePieces |-> InsertAll(Each(HostId, NodePieces[i]))] = HostIndices
  <2>1. DOMAIN NodePieces = DOMAIN config.nodes
    BY DEF NodePieces
  <2>2. ASSUME NEW i \in DOMAIN config.nodes
        PROVE  InsertAll(Each(HostId, NodePieces[i]))
                 = IF i - 1 \in HostSet THEN <<i - 1>> ELSE << >>
    <3>. DEFINE p == [id |-> i - 1, type |-> config.nodes[i].type]
                fp == HostId[p]
    <3>1. NodePieces[i] = <<p>> /\ i \in 1 .. Len(config.nodes)
      BY ConfigsAssumption DEF NodePieces
    <3>2. p \in Nodes
      <4>1. NodePieces[i] \in Seq(Nodes)
        BY <2>1, NodePiecesType
      <4>2. Range(<<p>>) \subseteq Nodes
        BY <3>1, <4>1, RangeOfSeq
      <4>3. QED BY <4>2, ShortRange
    <3>3. fp = IF p.type = "HOST" THEN <<p.id>> ELSE << >>
      BY <3>2 DEF HostId
    <3>4. p.type = "HOST" <=> i - 1 \in HostSet
      <4>1. (i - 1) + 1 = i /\ i - 1 \in NodeIds
        BY <3>1 DEF NodeIds
      <4>2. QED BY <4>1 DEF HostSet, TypeOf
    <3>5. p.id = i - 1 /\ i - 1 \in NodeIds
      BY DEF NodeIds
    <3>. HIDE DEF p
    <3>6. Each(HostId, <<p>>) = <<fp>>
      BY DEF Each
    <3>7. InsertAll(<<fp>>) = fp
      <4>1. fp \in Seq(NodeIds)
        BY <3>3, <3>5
      <4>2. QED BY <4>1, InsertAllOne
    <3>8. QED BY <3>1, <3>3, <3>4, <3>5, <3>6, <3>7
  <2>3. QED BY <2>1, <2>2 DEF HostIndices
<1>4. Chosen([i \in DOMAIN config.nodes |-> i - 1], HostSet) = FlattenSeq(HostIndices)
  <2>. DEFINE s == [i \in DOMAIN config.nodes |-> i - 1]
  <2>1. [k \in DOMAIN s |-> IF s[k] \in HostSet THEN <<s[k]>> ELSE << >>] = HostIndices
    BY DEF HostIndices
  <2>2. QED BY <2>1 DEF Chosen
<1>5. QED BY <1>1, <1>2, <1>3, <1>4

\* When a node has started, the file was good and the lists are those made of it.
LEMMA StartedIsBuilt ==
    ASSUME BootInv, NEW n \in Started
    PROVE  config \in Configs /\ LoadOK /\ portList = create_port_list
           /\ ports[n] = net_get_port_list(n)
BY DEF BootInv, NothingBegun, Built, Started

LEMMA ListsInFileOrderFollows ==
    ASSUME BootInv, LinksJoinTwo
    PROVE  ListsInFileOrder
<1>1. ASSUME NEW n \in Started
      PROVE  /\ Len(ports[n]) = Len(LinksOf(n))
             /\ \A k \in DOMAIN ports[n] :
                  ports[n][k] \in Range(LinkPorts(LinksOf(n)[k])) /\ ports[n][k].node = n
  <2>. DEFINE links == LinksOf(n)
  <2>1. ports[n] = Each(EndsOf(n), links) /\ links \in Seq(LinkSet(n))
    BY StartedIsBuilt, PortsInOrder, LinksOfPieces
  <2>2. Maps(EndsOf(n), LinkSet(n), Ends)
    BY EndAtIsAnEnd DEF Maps, EndsOf
  <2>. HIDE DEF links
  <2>3. /\ Len(ports[n]) = Len(links) /\ DOMAIN ports[n] = 1 .. Len(links)
        /\ \A k \in 1 .. Len(links) : ports[n][k] = EndsOf(n)[links[k]] /\ links[k] \in LinkSet(n)
    BY <2>1, <2>2, EachType
  <2>4. \A i \in LinkSet(n) : EndsOf(n)[i] \in Range(LinkPorts(i)) /\ EndsOf(n)[i].node = n
    BY EndAtIsAnEnd DEF EndsOf
  <2>5. QED BY <2>3, <2>4 DEF links
<1>2. ASSUME stage = "manager"
      PROVE  manList = Chosen([i \in DOMAIN config.nodes |-> i - 1],
                              {n \in NodeIds : TypeOf(n) = "HOST"})
  <2>1. config \in Configs /\ Built /\ manList # << >>
    BY <1>2 DEF BootInv
  <2>2. LoadOK
    <3>1. create_man_ports(<< >>) = << >>
      <4>. DEFINE empty == [k \in DOMAIN << >> |->
                              IF << >>[k].type = "HOST" THEN <<<< >>[k].id>> ELSE << >>]
      <4>1. empty = << >>
        OBVIOUS
      <4>2. create_man_ports(<< >>) = InsertAll(empty)
        BY DEF create_man_ports
      <4>3. QED BY <4>1, <4>2, InsertAllEmpty
    <3>2. QED BY <2>1, <3>1 DEF Built
  <2>3. QED BY <2>1, <2>2, HostsInOrder DEF Built, HostSet
<1>3. QED BY <1>1, <1>2 DEF ListsInFileOrder

\* ListsInFileOrder, for every set of files in which no link joins a node to
\* itself: the port numbers by which a host and a switch name their links, and
\* the manager's first host, are those of the file, whenever the processes are
\* forked and start (net.c:150-173, 313-378, 397-474).
THEOREM FileOrderHolds ==
    ASSUME LinksJoinTwo
    PROVE  Spec => []ListsInFileOrder
<1>1. BootInv => ListsInFileOrder
  BY ListsInFileOrderFollows
<1>2. QED BY <1>1, BootInvHolds, PTL

\* Both ports of a pipe link are taken, each by its node.
LEMMA LinkEndsMeetFollows ==
    ASSUME BootInv
    PROVE  LinkEndsMeet
<1>1. SUFFICES ASSUME NEW i \in DOMAIN config.links, config.links[i].type = "PIPE",
                      {config.links[i].node0, config.links[i].node1} \subseteq Started
               PROVE  \E p \in Range(ports[config.links[i].node0]),
                         q \in Range(ports[config.links[i].node1]) :
                          p.type = "PIPE" /\ q.type = "PIPE"
                            /\ p.send = q.recv /\ q.send = p.recv /\ p.send # q.send
  BY DEF LinkEndsMeet
<1>. DEFINE m == config.links[i].node0
            n == config.links[i].node1
            p == NearEnd(i)
            q == FarEnd(i)
<1>2. config \in Configs /\ portList = create_port_list
      /\ ports[m] = net_get_port_list(m) /\ ports[n] = net_get_port_list(n)
  BY <1>1, StartedIsBuilt
<1>3. PortPieces \in Seq(Seq(Ends)) /\ portList = InsertAll(PortPieces)
      /\ portList \in Seq(Ends) /\ i \in DOMAIN PortPieces
  BY <1>1, <1>2, PortPiecesType
<1>4. p \in Range(portList) /\ q \in Range(portList)
  <2>1. p \in Range(PortPieces[i]) /\ q \in Range(PortPieces[i])
    BY <1>1, LinkPortsShape, ShortRange DEF PortPieces
  <2>. HIDE DEF p, q
  <2>2. QED BY <1>3, <2>1, InsertAllRange
<1>5. p.node = m /\ q.node = n
  BY DEF NearEnd, FarEnd
<1>6. p \in Range(ports[m]) /\ q \in Range(ports[n])
  BY <1>2, <1>3, <1>4, <1>5, OwnPorts
<1>7. p.type = "PIPE" /\ q.type = "PIPE" /\ p.send = q.recv /\ q.send = p.recv /\ p.send # q.send
  BY DEF NearEnd, FarEnd
<1>8. QED BY <1>6, <1>7

\* LinkEndsMeet: the two nodes of a pipe link that have started are connected to
\* each other, both ways, on two pipes (net.c:405-450).
THEOREM LinkEndsMeetHolds == Spec => []LinkEndsMeet
<1>1. BootInv => LinkEndsMeet
  BY LinkEndsMeetFollows
<1>2. QED BY <1>1, BootInvHolds, PTL

\* A parent that finds no host has listed every node of the file.
LEMMA NoOrphansFollows ==
    ASSUME BootInv
    PROVE  NoOrphans
<1>1. SUFFICES ASSUME stage \in {"crashed", "killed"}, Alive # {},
                      NEW i \in DOMAIN config.nodes, config.nodes[i].type = "HOST"
               PROVE  FALSE
  BY DEF NoOrphans
<1>2. stage = "crashed" /\ manList = << >>
  BY <1>1 DEF BootInv
<1>3. config \in Configs /\ LoadOK /\ manList = create_man_ports(create_node_list)
  BY <1>1, <1>2 DEF BootInv, NothingBegun, Alive, Built
<1>. DEFINE node == [id |-> i - 1, type |-> config.nodes[i].type]
<1>4. NodePieces \in Seq(Seq(Nodes)) /\ create_node_list = InsertAll(NodePieces)
      /\ create_node_list \in Seq(Nodes) /\ i \in DOMAIN NodePieces
  BY <1>1, <1>3, NodePiecesType
<1>5. node \in Range(create_node_list)
  <2>1. node \in Range(NodePieces[i])
    BY ShortRange DEF NodePieces
  <2>. HIDE DEF node
  <2>2. QED BY <1>4, <2>1, InsertAllRange
<1>6. PICK k \in DOMAIN create_node_list : create_node_list[k] = node
  BY <1>5 DEF Range
<1>7. i - 1 \in Range(create_man_ports(create_node_list))
  <2>. DEFINE list == create_node_list
              pieces == Each(HostId, list)
  <2>1. Maps(HostId, Nodes, Seq(NodeIds)) /\ create_man_ports(list) = InsertAll(pieces)
    BY <1>3, <1>4, HostIds
  <2>2. pieces \in Seq(Seq(NodeIds)) /\ DOMAIN pieces = DOMAIN list /\ pieces[k] = HostId[node]
    <3>1. pieces \in Seq(Seq(NodeIds))
      BY <1>4, <2>1, EachType
    <3>2. DOMAIN pieces = DOMAIN list /\ pieces[k] = HostId[list[k]]
      BY DEF Each
    <3>3. QED BY <1>6, <3>1, <3>2
  <2>3. node \in Nodes
    BY <1>4, <1>6
  <2>4. HostId[node] = <<i - 1>>
    BY <1>1, <2>3 DEF HostId
  <2>5. i - 1 \in Range(pieces[k])
    BY <2>2, <2>4, ShortRange
  <2>. HIDE DEF pieces, list
  <2>6. k \in DOMAIN pieces
    BY <1>6, <2>2 DEF list
  <2>7. QED BY <2>1, <2>2, <2>5, <2>6, InsertAllRange DEF list
<1>8. QED BY <1>2, <1>3, <1>7, ShortRange

\* NoOrphans: after the parent is gone, killed or for want of a host, a node is
\* left only if the file has no host (main.c:60-67, man.c:252-259).
THEOREM NoOrphansHolds == Spec => []NoOrphans
<1>1. BootInv => NoOrphans
  BY NoOrphansFollows
<1>2. QED BY <1>1, BootInvHolds, PTL

-----------------------------------------------------------------------------
(* Nodes that nothing stands in the way of.                                *)

\* The links of the file that are socket links.
SocketLinks == {i \in DOMAIN config.links : config.links[i].type # "PIPE"}

\* The nodes that are still to be forked have not been, and are different ones.
Waiting(nodes) ==
    /\ \A k \in DOMAIN nodes : nodes[k].id \in NodeIds /\ proc[nodes[k].id] = "none"
    /\ \A j, k \in DOMAIN nodes : nodes[j].id = nodes[k].id => j = k

\* What node n listens to, and whether it has ended.
NodeOK(n) ==
    /\ proc[n] \in {"none", "forked"} => listening[n] = None /\ ports[n] = None
    /\ listening[n] # None => ListensAt(n) = {listening[n]}
    /\ proc[n] = "running" => ListensAt(n) = {listening[n]} \ {None}
    /\ proc[n] = "ended" /\ Sound(n) => stage = "killed"

StayInv ==
    /\ BootInv /\ DOMAIN listening = NodeIds
    /\ toFork \in Seq([id : Int, type : STRING])
    /\ stage = "load" => \A n \in NodeIds : proc[n] = "none"
    /\ stage = "fork" => Waiting(toFork)
    /\ \A n \in NodeIds : NodeOK(n)

\* The nodes of the file are all different, so each is forked once.
LEMMA NodesDiffer ==
    ASSUME config \in Configs
    PROVE  /\ create_node_list \in Seq(Nodes)
           /\ \A j, k \in DOMAIN create_node_list :
                create_node_list[j].id = create_node_list[k].id => j = k
<1>. DEFINE s == [i \in DOMAIN config.nodes |-> [id |-> i - 1, type |-> config.nodes[i].type]]
<1>1. DOMAIN config.nodes = 1 .. Len(config.nodes) /\ Len(config.nodes) \in Nat
  BY ConfigsAssumption
<1>2. create_node_list \in Seq(Nodes) /\ create_node_list = InsertAll(NodePieces)
  BY NodePiecesType
<1>3. Singles(s) = NodePieces
  BY DEF Singles, NodePieces
<1>4. s \in Seq(Nodes) /\ Len(s) \in Nat
  <2>1. NodePieces \in Seq(Seq(Nodes)) /\ DOMAIN NodePieces = DOMAIN config.nodes
    BY NodePiecesType
  <2>2. ASSUME NEW i \in DOMAIN config.nodes PROVE s[i] \in Nodes
    <3>1. PICK x : x = s[i]
      OBVIOUS
    <3>2. NodePieces[i] = <<x>>
      BY <3>1 DEF NodePieces
    <3>3. NodePieces[i] \in Seq(Nodes)
      BY <2>1
    <3>4. Range(<<x>>) \subseteq Nodes
      BY <3>2, <3>3, RangeOfSeq
    <3>5. QED BY <3>1, <3>4, ShortRange
  <2>3. PICK n \in Nat : DOMAIN s = 1 .. n /\ \A i \in 1 .. n : s[i] \in Nodes
    BY <1>1, <2>2
  <2>4. s = [i \in 1 .. n |-> s[i]]
    BY <2>3
  <2>. HIDE DEF s
  <2>5. QED BY <2>3, <2>4
<1>5. DOMAIN s = 1 .. Len(s) /\ \A i \in DOMAIN s : s[i].id = i - 1
  BY <1>1
<1>. HIDE DEF s
<1>6. PICK l : l = InsertAll(Singles(s))
  OBVIOUS
<1>7. l \in Seq(Nodes) /\ Len(l) = Len(s) /\ \A k \in 1 .. Len(s) : l[k] = s[Len(s) + 1 - k]
  BY <1>4, <1>6, InsertAllSingles
<1>8. ASSUME NEW j \in DOMAIN l, NEW k \in DOMAIN l, l[j].id = l[k].id PROVE j = k
  <2>1. j \in 1 .. Len(s) /\ k \in 1 .. Len(s)
    BY <1>7
  <2>2. l[j] = s[Len(s) + 1 - j] /\ l[k] = s[Len(s) + 1 - k]
    BY <1>7, <2>1
  <2>3. Len(s) + 1 - j \in DOMAIN s /\ Len(s) + 1 - k \in DOMAIN s
    BY <1>4, <1>5, <2>1
  <2>4. PICK a, b : a = Len(s) + 1 - j /\ b = Len(s) + 1 - k
    OBVIOUS
  <2>5. l[j].id = a - 1 /\ l[k].id = b - 1
    BY <1>5, <2>2, <2>3, <2>4
  <2>6. a \in Int /\ b \in Int
    BY <1>4, <2>1, <2>4
  <2>7. a = b
    <3>1. a - 1 = b - 1
      BY <1>8, <2>5
    <3>2. QED BY <2>6, <3>1
  <2>8. QED BY <1>4, <2>1, <2>4, <2>7
<1>9. QED BY <1>2, <1>3, <1>6, <1>8

\* The sockets among the ports of a node are the ends of its socket links, and
\* the first of them has the address that the file gives.
LEMMA SocketsOfNode ==
    ASSUME config \in Configs, LinksJoinTwo, portList = create_port_list, NEW n
    PROVE  \/ Sockets(net_get_port_list(n)) = << >> /\ ListensAt(n) = {}
           \/ /\ Sockets(net_get_port_list(n)) # << >>
              /\ ListensAt(n) = {Sockets(net_get_port_list(n))[1].listen}
              /\ Sockets(net_get_port_list(n))[1].listen # None
<1>1. PICK s : s = LinksOf(n)
  OBVIOUS
<1>2. s \in Seq(LinkSet(n)) /\ net_get_port_list(n) = Each(EndsOf(n), s)
  BY <1>1, PortsInOrder, LinksOfPieces
<1>3. PICK T : T = {p \in Range(Each(EndsOf(n), s)) : p.type = "SOCKET"}
  OBVIOUS
<1>4. PICK f : f = EndsOf(n)
  OBVIOUS
<1>5. Maps(f, LinkSet(n), Ends)
  BY <1>4, EndAtIsAnEnd DEF Maps, EndsOf
<1>6. ASSUME NEW i \in LinkSet(n)
      PROVE  /\ f[i].type = "SOCKET" <=> i \in SocketLinks
             /\ i \in SocketLinks => f[i].listen = config.links[i].listen /\ f[i].listen # None
  <2>1. i \in DOMAIN config.links /\ f[i] = EndAt(i, n)
    BY <1>4 DEF LinkSet, EndsOf
  <2>2. QED BY <2>1, NoneIsNoAddress DEF EndAt, SocketEnd, NearEnd, FarEnd, SocketLinks
<1>7. ASSUME NEW k \in DOMAIN s PROVE f[s[k]] \in T <=> s[k] \in SocketLinks
  <2>1. s[k] \in LinkSet(n)
    BY <1>2
  <2>2. k \in DOMAIN Each(f, s) /\ Each(f, s)[k] = f[s[k]]
    BY DEF Each
  <2>3. f[s[k]] \in Range(Each(f, s))
    BY <2>2 DEF Range
  <2>4. QED BY <1>3, <1>4, <1>6, <2>1, <2>3
<1>8. PICK c : c = Chosen(s, SocketLinks)
  OBVIOUS
<1>9. c \in Seq(LinkSet(n) \cap SocketLinks)
  BY <1>2, <1>8, ChosenType
<1>10. Sockets(net_get_port_list(n)) = Each(f, c)
  BY <1>2, <1>3, <1>4, <1>5, <1>7, <1>8, ChosenEach DEF Sockets
<1>11. ListensAt(n) = IF c = << >> THEN {} ELSE {config.links[c[1]].listen}
  BY <1>1, <1>8 DEF ListensAt, SocketLinks
<1>12. CASE c = << >>
  <2>1. Each(f, << >>) = << >>
    BY DEF Each
  <2>2. QED BY <1>10, <1>11, <1>12, <2>1
<1>13. CASE c # << >>
  <2>1. 1 \in DOMAIN c /\ c[1] \in LinkSet(n) /\ c[1] \in SocketLinks
    BY <1>9, <1>13
  <2>2. 1 \in DOMAIN Each(f, c) /\ Each(f, c)[1] = f[c[1]]
    BY <2>1 DEF Each
  <2>3. Each(f, c) # << >>
    BY <2>2, EmptySeq
  <2>4. QED BY <1>6, <1>10, <1>11, <1>13, <2>1, <2>2, <2>3
<1>14. QED BY <1>12, <1>13

\* What the file says of a node stays while the file does.
LEMMA SameFile ==
    ASSUME UNCHANGED config
    PROVE  /\ \A n : ListensAt(n)' = ListensAt(n)
           /\ \A n : Sound(n)' = Sound(n)
<1>1. \A n : LinksOf(n)' = LinksOf(n)
  BY DEF LinksOf, Touches
<1>2. \A n : ListensAt(n)' = ListensAt(n)
  BY <1>1 DEF ListensAt
<1>3. \A n : Sound(n)' = Sound(n)
  BY <1>1, <1>2, SameConfig DEF Sound, TypeOf
<1>4. QED BY <1>2, <1>3

\* At the start no process is there.
LEMMA StayInit == Init => StayInv
<1>. SUFFICES ASSUME Init PROVE StayInv
  OBVIOUS
<1>1. BootInv
  BY BootInvInit
<1>2. /\ DOMAIN listening = NodeIds /\ toFork = << >> /\ stage = "load"
      /\ \A n \in NodeIds : proc[n] = "none" /\ ports[n] = None /\ listening[n] = None
  BY DEF Init
<1>3. << >> \in Seq([id : Int, type : STRING])
  OBVIOUS
<1>4. QED BY <1>1, <1>2, <1>3 DEF StayInv, NodeOK

\* A step that leaves the nodes as they are.
LEMMA StaySame ==
    ASSUME StayInv, BootInv', UNCHANGED <<config, proc, ports, listening, toFork>>,
           stage # "killed", stage' # "load", stage' = "fork" => stage = "fork"
    PROVE  StayInv'
<1>1. NodeIds' = NodeIds /\ (\A n : Sound(n)' = Sound(n)) /\ \A n : ListensAt(n)' = ListensAt(n)
  BY SameConfig, SameFile
<1>2. \A n \in NodeIds : NodeOK(n)'
  BY <1>1 DEF StayInv, NodeOK
<1>3. stage' = "fork" => Waiting(toFork)'
  BY <1>1 DEF StayInv, Waiting
<1>4. QED BY <1>1, <1>2, <1>3 DEF StayInv

\* The lists are made (main.c:36-37): all the nodes wait to be forked.
LEMMA StayNetInit ==
    ASSUME StayInv, BootInv', NetInit
    PROVE  StayInv'
<1>1. UNCHANGED <<config, proc, ports, listening>> /\ stage = "load" /\ stage' = "fork"
      /\ toFork' = IF LoadOK THEN create_node_list ELSE << >>
  BY DEF NetInit
<1>2. NodeIds' = NodeIds /\ (\A n : Sound(n)' = Sound(n)) /\ \A n : ListensAt(n)' = ListensAt(n)
  BY <1>1, SameConfig, SameFile
<1>3. \A n \in NodeIds : NodeOK(n)'
  BY <1>1, <1>2 DEF StayInv, NodeOK
<1>4. /\ toFork' \in Seq(Nodes)
      /\ \A j, k \in DOMAIN toFork' : toFork'[j].id = toFork'[k].id => j = k
  <2>1. config \in Configs
    BY DEF StayInv, BootInv
  <2>2. << >> \in Seq(Nodes) /\ DOMAIN << >> = {}
    BY EmptySeq
  <2>3. QED BY <1>1, <2>1, <2>2, NodesDiffer
<1>5. \A k \in DOMAIN toFork' : toFork'[k].id \in NodeIds
  <2>1. PICK q \in Seq(Nodes) : q = toFork'
    BY <1>4
  <2>2. \A k \in DOMAIN q : q[k] \in Nodes
    OBVIOUS
  <2>3. \A x \in Nodes : x.id \in NodeIds
    BY DEF Nodes
  <2>4. QED BY <2>1, <2>2, <2>3
<1>6. Waiting(toFork)'
  BY <1>1, <1>2, <1>4, <1>5 DEF StayInv, Waiting
<1>7. toFork' \in Seq([id : Int, type : STRING])
  <2>1. NodeIds \subseteq Int
    <3>1. DOMAIN config.nodes = 1 .. Len(config.nodes) /\ Len(config.nodes) \in Nat
      BY ConfigsAssumption DEF StayInv, BootInv
    <3>2. QED BY <3>1 DEF NodeIds
  <2>2. Nodes \subseteq [id : Int, type : STRING]
    BY <2>1 DEF Nodes
  <2>3. QED BY <1>4, <2>2, SeqMonotonic
<1>8. QED BY <1>1, <1>2, <1>3, <1>6, <1>7 DEF StayInv

\* A node is forked (main.c:39-50), and has not been before.
LEMMA StayFork ==
    ASSUME StayInv, BootInv', Fork
    PROVE  StayInv'
<1>1. /\ UNCHANGED <<config, stage, ports, listening>> /\ stage = "fork" /\ toFork # << >>
      /\ proc' = [proc EXCEPT ![toFork[1].id] = "forked"] /\ toFork' = Tail(toFork)
  BY DEF Fork
<1>2. NodeIds' = NodeIds /\ (\A n : Sound(n)' = Sound(n)) /\ \A n : ListensAt(n)' = ListensAt(n)
  BY <1>1, SameConfig, SameFile
<1>3. /\ toFork \in Seq([id : Int, type : STRING]) /\ Waiting(toFork) /\ DOMAIN proc = NodeIds
      /\ \A n \in NodeIds : NodeOK(n)
  BY <1>1 DEF StayInv, BootInv
<1>4. PICK q : q = toFork'
  OBVIOUS
<1>5. /\ 1 \in DOMAIN toFork /\ q \in Seq([id : Int, type : STRING])
      /\ \A k \in DOMAIN q : k \in Nat /\ k # 0 /\ k + 1 \in DOMAIN toFork /\ q[k] = toFork[k + 1]
  BY <1>1, <1>3, <1>4
<1>6. PICK a : a = toFork[1].id
  OBVIOUS
<1>7. a \in NodeIds /\ proc[a] = "none" /\ proc' = [proc EXCEPT ![a] = "forked"]
  BY <1>1, <1>3, <1>5, <1>6 DEF Waiting
<1>8. \A n \in NodeIds : NodeOK(n)'
  BY <1>1, <1>2, <1>3, <1>7 DEF NodeOK
<1>9. Waiting(toFork)'
  <2>1. ASSUME NEW k \in DOMAIN q PROVE q[k].id \in NodeIds /\ proc'[q[k].id] = "none"
    <3>1. toFork[k + 1].id \in NodeIds /\ proc[toFork[k + 1].id] = "none"
      BY <1>3, <1>5, <2>1 DEF Waiting
    <3>2. toFork[k + 1].id # a
      BY <1>3, <1>5, <1>6, <2>1 DEF Waiting
    <3>3. QED BY <1>5, <1>7, <2>1, <3>1, <3>2
  <2>2. ASSUME NEW j \in DOMAIN q, NEW k \in DOMAIN q, q[j].id = q[k].id PROVE j = k
    <3>1. j + 1 = k + 1
      BY <1>3, <1>5, <2>2 DEF Waiting
    <3>2. QED BY <1>5, <2>2, <3>1
  <2>3. QED BY <1>2, <1>4, <2>1, <2>2 DEF Waiting
<1>10. QED BY <1>1, <1>2, <1>4, <1>5, <1>8, <1>9 DEF StayInv

\* The kill ends every node, and the user meant it to (main.c:60-67).
LEMMA StayQuit ==
    ASSUME StayInv, BootInv', Quit
    PROVE  StayInv'
<1>1. /\ UNCHANGED <<config, ports, toFork>> /\ stage' = "killed"
      /\ proc' = [n \in NodeIds |-> "ended"] /\ listening' = [n \in NodeIds |-> None]
  BY DEF Quit
<1>2. NodeIds' = NodeIds
  BY <1>1, SameConfig
<1>3. \A n \in NodeIds : NodeOK(n)'
  BY <1>1, <1>2 DEF NodeOK
<1>4. QED BY <1>1, <1>2, <1>3 DEF StayInv

\* A node begins (host.c:270-333, switch.c:141-198).  If it does not come up, its
\* address is busy, or another node's too, or it is a switch without links.
LEMMA StayBegins ==
    ASSUME StayInv, BootInv', LinksJoinTwo, NEW n \in NodeIds, NodeBegins(n)
    PROVE  StayInv'
<1>1. /\ proc[n] = "forked" /\ UNCHANGED <<config, stage, toFork>>
      /\ ports' = [ports EXCEPT ![n] = net_get_port_list(n)]
  BY DEF NodeBegins, NodeStarts, NodeListens, NodeCannotListen, SwitchWithoutPorts
<1>2. NodeIds' = NodeIds /\ (\A m : Sound(m)' = Sound(m)) /\ \A m : ListensAt(m)' = ListensAt(m)
  BY <1>1, SameConfig, SameFile
<1>3. /\ DOMAIN proc = NodeIds /\ DOMAIN ports = NodeIds /\ DOMAIN listening = NodeIds
      /\ \A m \in NodeIds : NodeOK(m)
  BY DEF StayInv, BootInv
<1>4. listening[n] = None /\ stage # "load"
  BY <1>1, <1>3 DEF NodeOK, StayInv
<1>5. config \in Configs /\ LoadOK /\ portList = create_port_list
  BY <1>1, <1>4 DEF StayInv, BootInv, NothingBegun, Built
<1>6. PICK l : l = Sockets(net_get_port_list(n))
  OBVIOUS
<1>7. ports'[n] = net_get_port_list(n) /\ Sockets(ports'[n]) = l
  <2>1. ports'[n] = net_get_port_list(n)
    BY <1>1, <1>3
  <2>2. QED BY <1>6, <2>1
<1>8. \/ l = << >> /\ ListensAt(n) = {}
      \/ l # << >> /\ ListensAt(n) = {l[1].listen} /\ l[1].listen # None
  BY <1>5, <1>6, SocketsOfNode
<1>9. stage' = "fork" => Waiting(toFork)'
  BY <1>1, <1>2, <1>3 DEF StayInv, Waiting, NodeBegins, NodeStarts, NodeListens,
                          NodeCannotListen, SwitchWithoutPorts
<1>10. ASSUME NEW m \in NodeIds, m # n, listening'[m] = listening[m], proc'[m] = proc[m]
       PROVE  NodeOK(m)'
  BY <1>1, <1>2, <1>3, <1>10 DEF NodeOK
<1>11. CASE NodeStarts(n)
  <2>1. l = << >> /\ proc' = [proc EXCEPT ![n] = "running"] /\ listening' = listening
    BY <1>7, <1>11 DEF NodeStarts
  <2>2. NodeOK(n)'
    BY <1>2, <1>3, <1>4, <1>8, <2>1 DEF NodeOK
  <2>3. QED BY <1>1, <1>2, <1>3, <1>4, <1>9, <1>10, <2>1, <2>2 DEF StayInv
<1>12. CASE NodeListens(n)
  <2>1. /\ l # << >> /\ proc' = [proc EXCEPT ![n] = "running"]
        /\ listening' = [listening EXCEPT ![n] = l[1].listen]
    BY <1>7, <1>12 DEF NodeListens
  <2>2. NodeOK(n)'
    BY <1>2, <1>3, <1>8, <2>1 DEF NodeOK
  <2>3. QED BY <1>1, <1>2, <1>3, <1>4, <1>9, <1>10, <2>1, <2>2 DEF StayInv
<1>13. CASE NodeCannotListen(n) \/ SwitchWithoutPorts(n)
  <2>1. proc' = [proc EXCEPT ![n] = "ended"] /\ listening' = listening
    BY <1>13 DEF NodeCannotListen, SwitchWithoutPorts
  <2>2. ~Sound(n)
    <3>1. CASE NodeCannotListen(n)
      <4>1. l # << >> /\ l[1].listen \in Busy
        BY <1>7, <3>1 DEF NodeCannotListen
      <4>2. ListensAt(n) = {l[1].listen} /\ l[1].listen # None
        BY <1>8, <4>1
      <4>3. ASSUME NEW m \in NodeIds, l[1].listen = listening[m] PROVE ~Sound(n)
        <5>1. m # n /\ ListensAt(m) = {l[1].listen}
          BY <1>3, <1>4, <4>2, <4>3 DEF NodeOK
        <5>2. QED BY <4>2, <4>3, <5>1 DEF Sound
      <4>4. QED BY <4>1, <4>2, <4>3 DEF Busy, Sound
    <3>2. CASE SwitchWithoutPorts(n)
      <4>1. TypeOf(n) = "SWITCH" /\ net_get_port_list(n) = << >>
        BY <1>7, <3>2 DEF SwitchWithoutPorts
      <4>2. LinksOf(n) = << >>
        <5>1. PICK s : s = LinksOf(n)
          OBVIOUS
        <5>2. s \in Seq(LinkSet(n)) /\ Each(EndsOf(n), s) = << >>
          BY <1>5, <4>1, <5>1, PortsInOrder, LinksOfPieces
        <5>3. DOMAIN Each(EndsOf(n), s) = DOMAIN s
          BY DEF Each
        <5>4. DOMAIN s = {}
          BY <5>2, <5>3, EmptySeq
        <5>5. QED BY <5>1, <5>2, <5>4, EmptySeq
      <4>3. QED BY <4>1, <4>2 DEF Sound
    <3>3. QED BY <1>13, <3>1, <3>2
  <2>3. NodeOK(n)'
    BY <1>2, <1>3, <1>4, <2>1, <2>2 DEF NodeOK
  <2>4. QED BY <1>1, <1>2, <1>3, <1>4, <1>9, <1>10, <2>1, <2>3 DEF StayInv
<1>14. QED BY <1>11, <1>12, <1>13 DEF NodeBegins

\* Every step of the program.
LEMMA StayNext ==
    ASSUME LinksJoinTwo
    PROVE  StayInv /\ [Next]_bootVars => StayInv'
<1>. SUFFICES ASSUME StayInv, [Next]_bootVars PROVE StayInv'
  OBVIOUS
<1>1. BootInv'
  BY BootInvNext DEF StayInv
<1>2. CASE ForkFails \/ ManagerStarts
  BY <1>1, <1>2, StaySame DEF ForkFails, ManagerStarts
<1>3. CASE UNCHANGED bootVars
  <2>1. UNCHANGED <<config, stage, toFork, proc, ports, listening>>
    BY <1>3 DEF bootVars
  <2>2. NodeIds' = NodeIds /\ (\A n : Sound(n)' = Sound(n)) /\ \A n : ListensAt(n)' = ListensAt(n)
    BY <2>1, SameConfig, SameFile
  <2>3. \A n \in NodeIds : NodeOK(n)'
    BY <2>1, <2>2 DEF StayInv, NodeOK
  <2>4. Waiting(toFork)' = Waiting(toFork)
    BY <2>1, <2>2 DEF Waiting
  <2>5. QED BY <1>1, <2>1, <2>2, <2>3, <2>4 DEF StayInv
<1>4. QED BY <1>1, <1>2, <1>3, StayNetInit, StayFork, StayQuit, StayBegins
          DEF Next, Main, Settled

\* A node that the file lets come up, and that has begun, runs until the user quits
\* and listens at the address of its first socket link (host.c:289-333), whatever
\* the order of the processes and whichever other nodes fail.
THEOREM SoundNodesStayHolds ==
    ASSUME LinksJoinTwo
    PROVE  Spec => []SoundNodesStay
<1>1. StayInv => SoundNodesStay
  <2>. SUFFICES ASSUME StayInv, NEW n \in Started, Sound(n), stage # "killed"
                PROVE  n \in Alive /\ ListensAt(n) = {listening[n]} \ {None}
    BY DEF SoundNodesStay
  <2>1. n \in NodeIds /\ ports[n] # None
    BY DEF Started
  <2>2. NodeOK(n) /\ proc[n] \in {"none", "forked", "running", "ended"}
    BY <2>1 DEF StayInv, BootInv
  <2>3. proc[n] = "running"
    BY <2>1, <2>2 DEF NodeOK
  <2>4. QED BY <2>1, <2>2, <2>3 DEF NodeOK, Alive
<1>2. QED BY <1>1, StayInit, StayNext, PTL DEF Spec
=============================================================================
