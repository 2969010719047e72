-------------------------- MODULE SwitchNetProofs ---------------------------
(***************************************************************************)
(* Proofs about the switches of a network of any shape that is a tree, for *)
(* any hosts, any traffic and any sizes: every variable keeps its type,    *)
(* the source of what a switch has sent is known to it, and what the       *)
(* switches learn is right unless a read leaves a tail that begins with a  *)
(* host's id, which it never does when all packets are headers.            *)
(***************************************************************************)
EXTENDS SwitchNet, SwitchProofs

-----------------------------------------------------------------------------
(* Type correctness.                                                       *)

\* At the start every variable has its type.
LEMMA TypeInit == Init => TypeOK
<1>. SUFFICES ASSUME Init PROVE TypeOK
  OBVIOUS
<1>1. WireTypeOK
  BY EmptySeq DEF Init, WireInit, WireTypeOK
<1>2. SwitchTypeOK
  BY SwitchTypeInit DEF Init
<1>. QED  BY <1>1, <1>2 DEF TypeOK

\* Every step keeps the types.
LEMMA TypeStep == TypeOK /\ [Next]_vars => TypeOK'
<1>. SUFFICES ASSUME TypeOK, [Next]_vars PROVE TypeOK'
  OBVIOUS
<1>. USE DEF TypeOK, WireTypeOK
<1>1. ASSUME NEW s \in Switches, SwitchStep(s) PROVE TypeOK'
  BY <1>1, SwitchTypeStep
<1>2. ASSUME NEW h \in Hosts, HostInject(h) PROVE TypeOK'
  <2>1. WireTypeOK'
    BY <1>2, TrafficAssumption, SendToType DEF HostInject
  <2>. QED  BY <1>2, <2>1 DEF HostInject, switchVars, SwitchTypeOK
<1>3. ASSUME NEW h \in Hosts, HostDrain(h) PROVE TypeOK'
  <2>1. PICK n \in Neighbours(h) : wire' = ReadFrom(wire, <<n, h>>)
    BY <1>3 DEF HostDrain
  <2>2. <<n, h>> \in Wires
    BY NeighbourWire DEF Nodes
  <2>3. WireTypeOK'
    BY <2>1, <2>2, ReadFromType
  <2>. QED  BY <1>3, <2>3 DEF HostDrain, switchVars, SwitchTypeOK
<1>4. CASE UNCHANGED vars
  BY <1>4 DEF vars, switchVars, SwitchTypeOK
<1>. QED  BY <1>1, <1>2, <1>3, <1>4 DEF Next

\* Every variable always has its type; in particular a switch never reads past
\* its last port and its table holds nothing but ports (switch.c:213, 229).
THEOREM TypeCorrect == Spec => []TypeOK
BY TypeInit, TypeStep, PTL DEF Spec

-----------------------------------------------------------------------------
(* Sources.  A switch learns before it relays, so it knows the source of   *)
(* what it has sent, also when it has made that source out of the middle   *)
(* of a packet.                                                            *)

\* What a switch does to its table when it reads p.
LearnsFrom(s, p) == table' = [table EXCEPT ![s] = Learn(@, p.src, From(s))]

\* Learning forgets nothing, and p's source is known after it.
LEMMA LearnsMore ==
    ASSUME TypeOK, NEW s \in Switches, NEW p, LearnsFrom(s, p)
    PROVE  /\ \A t \in Switches, id \in TableIndex :
                 table[t][id] # None => table'[t][id] = table[t][id]
           /\ p.src \in TableIndex => table'[s][p.src] # None
<1>1. From(s) # None
  BY FromIsNeighbour, TableAssumption DEF TypeOK
<1>. QED  BY <1>1 DEF LearnsFrom, Learn, TypeOK, SwitchTypeOK

\* Any entry that is new is the one learnt from p.
LEMMA LearnsOne ==
    ASSUME TypeOK, NEW s \in Switches, NEW p, LearnsFrom(s, p),
           NEW t \in Switches, NEW id \in TableIndex,
           table'[t][id] # None, table[t][id] = None
    PROVE  t = s /\ id = p.src /\ table'[t][id] = From(s)
BY DEF LearnsFrom, Learn, TypeOK, SwitchTypeOK

\* A switch that handles a packet learns from it.
LEMMA RelayLearns ==
    ASSUME NEW s \in Switches, SwitchRelay(s) \/ SwitchCrash(s)
    PROVE  \E p \in Arrivals(wire[<<From(s), s>>]) : LearnsFrom(s, p)
BY DEF SwitchRelay, SwitchCrash, LearnsFrom

\* At the start no packet is on its way.
LEMMA SourcesInit == Init => SourcesKnown
<1>. SUFFICES ASSUME Init PROVE SourcesKnown
  OBVIOUS
<1>1. \A e \in Wires : DOMAIN wire[e] = {}
  BY EmptySeq, LenProperties DEF Init, WireInit
<1>. QED  BY <1>1 DEF SourcesKnown

\* Every step keeps the sources known.
LEMMA SourcesStep == TypeOK /\ SourcesKnown /\ [Next]_vars => SourcesKnown'
<1>. SUFFICES ASSUME TypeOK, SourcesKnown, [Next]_vars PROVE SourcesKnown'
  OBVIOUS
<1>1. wire \in [Wires -> Seq(Chunk)]
  BY DEF TypeOK, WireTypeOK
<1>2. ASSUME NEW s \in Switches, SwitchIdle(s) PROVE SourcesKnown'
  BY <1>2 DEF SwitchIdle, SourcesKnown
<1>3. ASSUME NEW s \in Switches, SwitchRelay(s) PROVE SourcesKnown'
  <2>. DEFINE e == <<From(s), s>>
  <2>1. PICK p \in Arrivals(wire[e]) :
          LET learnt == Learn(table[s], p.src, From(s)) IN
          /\ table' = [table EXCEPT ![s] = learnt]
          /\ \E dests \in Outputs(s, learnt, p.dst) :
               wire' = SendTo(ReadFrom(wire, e), s, dests, p)
    BY <1>3 DEF SwitchRelay
  <2>2. PICK dests : wire' = SendTo(ReadFrom(wire, e), s, dests, p)
    BY <2>1
  <2>3. LearnsFrom(s, p)
    BY <2>1 DEF LearnsFrom
  <2>4. e \in Wires
    BY FromIsNeighbour DEF TypeOK
  <2>. HIDE DEF e
  <2>5. p \in PacketSet /\ ReadFrom(wire, e) \in [Wires -> Seq(Chunk)]
    BY <1>1, <2>4, ArrivalsPackets, ReadFromType
  <2>6. ASSUME NEW f \in Wires, NEW i \in DOMAIN wire'[f]
        PROVE  \/ f[1] = s /\ wire'[f][i].pkt = p
               \/ \E j \in DOMAIN wire[f] : wire'[f][i].pkt = wire[f][j].pkt
    <3>1. CASE f[1] = s /\ wire'[f][i].pkt = p
      BY <3>1
    <3>2. CASE \E k \in DOMAIN ReadFrom(wire, e)[f] :
                 wire'[f][i].pkt = ReadFrom(wire, e)[f][k].pkt
      BY <1>1, <2>4, <3>2, ReadFromPackets
    <3>. QED  BY <2>2, <2>5, <3>1, <3>2, SendToPackets
  <2>. QED  BY <2>3, <2>6, LearnsMore DEF SourcesKnown
<1>4. ASSUME NEW s \in Switches, SwitchCrash(s) PROVE SourcesKnown'
  <2>. DEFINE e == <<From(s), s>>
  <2>1. PICK p \in Arrivals(wire[e]) : LearnsFrom(s, p)
    BY <1>4, RelayLearns
  <2>2. e \in Wires /\ wire' = ReadFrom(wire, e)
    BY <1>4, FromIsNeighbour DEF TypeOK, SwitchCrash
  <2>. HIDE DEF e
  <2>3. ASSUME NEW f \in Wires, NEW i \in DOMAIN wire'[f]
        PROVE  \E j \in DOMAIN wire[f] : wire'[f][i].pkt = wire[f][j].pkt
    BY <1>1, <2>2, ReadFromPackets
  <2>. QED  BY <2>1, <2>3, LearnsMore DEF SourcesKnown
<1>5. ASSUME NEW h \in Hosts, HostInject(h) PROVE SourcesKnown'
  <2>1. PICK p \in Traffic : p.src = h /\ wire' = SendTo(wire, h, Neighbours(h), p)
    BY <1>5, CharOfHost DEF HostInject
  <2>2. p \in PacketSet /\ h \notin Switches
    BY TrafficAssumption, NodeAssumption
  <2>3. table' = table
    BY <1>5 DEF HostInject, switchVars
  <2>4. ASSUME NEW f \in Wires, NEW i \in DOMAIN wire'[f]
        PROVE  \/ f[1] = h /\ wire'[f][i].pkt.src = h
               \/ \E j \in DOMAIN wire[f] : wire'[f][i].pkt = wire[f][j].pkt
    BY <1>1, <2>1, <2>2, SendToPackets
  <2>. QED  BY <2>2, <2>3, <2>4 DEF SourcesKnown
<1>6. ASSUME NEW h \in Hosts, HostDrain(h) PROVE SourcesKnown'
  <2>1. PICK n \in Neighbours(h) : wire' = ReadFrom(wire, <<n, h>>)
    BY <1>6 DEF HostDrain
  <2>2. <<n, h>> \in Wires /\ table' = table
    BY <1>6, NeighbourWire DEF Nodes, HostDrain, switchVars
  <2>. QED  BY <1>1, <2>1, <2>2, ReadFromPackets DEF SourcesKnown
<1>7. CASE UNCHANGED vars
  BY <1>7 DEF vars, switchVars, SourcesKnown
<1>. QED  BY <1>2, <1>3, <1>4, <1>5, <1>6, <1>7 DEF Next, SwitchStep

\* A switch has learnt the source of all it has sent (switch.c:225-256), and a
\* host's pipe holds that host's packets alone, whatever is lost or cut and
\* whatever the tails of cut packets spell.
THEOREM SourcesCorrect == Spec => []SourcesKnown
BY SourcesInit, SourcesStep, TypeCorrect, PTL DEF Spec

-----------------------------------------------------------------------------
(* What is learnt.  The three parts of RoutingInv need one another: that a *)
(* packet's source is known where it comes from says that the route at the *)
(* switch it comes from is right, and that a right route has no gap says   *)
(* that the packet cannot have come from the wrong side: the switch that   *)
(* reads it would have learnt its source before.                           *)

\* A packet found on a switch's port comes from the host that sent it or from a
\* switch that knows its source.
LEMMA ArrivalKnown ==
    ASSUME TypeOK, SourcesKnown, TailsAreForeign,
           NEW e \in Wires, e[2] \in Switches, NEW p \in Arrivals(wire[e]),
           p.src \in Hosts \cap TableIndex
    PROVE  IF e[1] \in Switches THEN table[e[1]][p.src] # None ELSE e[1] = p.src
<1>1. wire[e] \in Seq(Chunk)
  BY DEF TypeOK, WireTypeOK
<1>2. wire[e] # << >> /\ 1 \in DOMAIN wire[e]
  BY <1>1, ArrivalsPackets
<1>3. wire[e][1].end = Size(wire[e][1].pkt)
  BY <1>2 DEF TailsAreForeign
<1>4. wire[e][1].pkt = p
  BY <1>1, <1>3, ArrivalsPackets
<1>. QED  BY <1>2, <1>4 DEF SourcesKnown

\* A packet whose source is not in the table comes from the neighbour on the path
\* to its source.
LEMMA ArrivesFromHome ==
    ASSUME TypeOK, RoutingInv, TailsAreForeign, NEW s \in Switches,
           NEW p \in Arrivals(wire[<<From(s), s>>]),
           p.src \in Hosts \cap TableIndex, table[s][p.src] = None
    PROVE  From(s) = Toward[s][p.src]
<1>. DEFINE a == From(s)
            h == p.src
<1>1. a \in Neighbours(s) /\ <<a, s>> \in Wires /\ a \in Nodes
  BY FromIsNeighbour DEF TypeOK
<1>2. IF a \in Switches THEN table[a][h] # None ELSE a = h
  BY <1>1, ArrivalKnown DEF RoutingInv
<1>3. CASE a \in Switches
  <2>1. table[a][h] = Toward[a][h]
    BY <1>2, <1>3 DEF RoutingInv, RoutesPointHome
  <2>2. Toward[a][h] # s
    BY <1>2, <1>3 DEF RoutingInv, RoutesReachHome
  <2>3. Toward[s][h] = a \/ Toward[a][h] = s
    BY <1>1, <1>3, TreeAssumption
  <2>. QED  BY <2>2, <2>3
<1>4. CASE a \notin Switches
  BY <1>1, <1>2, <1>4, TreeAssumption
<1>. QED  BY <1>3, <1>4

\* Learning keeps every route right and without gaps.
LEMMA LearnsRight ==
    ASSUME TypeOK, RoutingInv, TailsAreForeign, NEW s \in Switches,
           NEW p \in Arrivals(wire[<<From(s), s>>]), LearnsFrom(s, p)
    PROVE  RoutesPointHome' /\ RoutesReachHome'
<1>1. ASSUME NEW t \in Switches, NEW h \in Hosts \cap TableIndex,
             table'[t][h] # None, table[t][h] = None
      PROVE  t = s /\ h = p.src /\ table'[t][h] = From(s) /\ From(s) = Toward[s][h]
  <2>1. t = s /\ h = p.src /\ table'[t][h] = From(s)
    BY <1>1, LearnsOne
  <2>. QED  BY <1>1, <2>1, ArrivesFromHome
<1>2. ASSUME NEW t \in Switches, NEW h \in Hosts \cap TableIndex, table'[t][h] # None
      PROVE  table'[t][h] = Toward[t][h]
  <2>1. CASE table[t][h] = None
    BY <1>1, <1>2, <2>1
  <2>2. CASE table[t][h] # None
    BY <2>2, LearnsMore DEF RoutingInv, RoutesPointHome
  <2>. QED  BY <2>1, <2>2
<1>3. ASSUME NEW t \in Switches, NEW h \in Hosts \cap TableIndex,
             table'[t][h] # None, Toward[t][h] \in Switches
      PROVE  table'[Toward[t][h]][h] # None
  <2>1. CASE table[t][h] = None
    <3>1. t = s /\ h = p.src /\ From(s) = Toward[s][h]
      BY <1>1, <1>3, <2>1
    <3>2. table[From(s)][h] # None
      BY <1>3, <3>1, FromIsNeighbour, ArrivalKnown DEF TypeOK, RoutingInv
    <3>. QED  BY <1>3, <3>1, <3>2, LearnsMore
  <2>2. CASE table[t][h] # None
    <3>1. table[Toward[t][h]][h] # None
      BY <1>3, <2>2 DEF RoutingInv, RoutesReachHome
    <3>. QED  BY <1>3, <3>1, LearnsMore
  <2>. QED  BY <2>1, <2>2
<1>4. RoutesPointHome'
  BY <1>2 DEF RoutesPointHome
<1>5. RoutesReachHome'
  BY <1>3 DEF RoutesReachHome
<1>. QED  BY <1>4, <1>5

\* At the start nothing is learnt.
LEMMA RoutingInit == Init => RoutingInv
<1>. SUFFICES ASSUME Init PROVE RoutingInv
  OBVIOUS
<1>1. \A s \in Switches, id \in TableIndex : table[s][id] = None
  BY DEF Init, SwitchInit
<1>. QED  BY <1>1, SourcesInit DEF RoutingInv, RoutesPointHome, RoutesReachHome

\* Every step keeps the routes right, without gaps, and the sources known.
LEMMA RoutingStep ==
    TypeOK /\ RoutingInv /\ TailsAreForeign /\ [Next]_vars => RoutingInv'
<1>. SUFFICES ASSUME TypeOK, RoutingInv, TailsAreForeign, [Next]_vars
              PROVE  RoutesPointHome' /\ RoutesReachHome'
  BY SourcesStep DEF RoutingInv
<1>1. ASSUME UNCHANGED table PROVE RoutesPointHome' /\ RoutesReachHome'
  BY <1>1 DEF RoutingInv, RoutesPointHome, RoutesReachHome
<1>2. ASSUME NEW s \in Switches, SwitchRelay(s) \/ SwitchCrash(s)
      PROVE  RoutesPointHome' /\ RoutesReachHome'
  BY <1>2, RelayLearns, LearnsRight
<1>3. \/ UNCHANGED table
      \/ \E s \in Switches : SwitchRelay(s) \/ SwitchCrash(s)
  BY DEF Next, SwitchStep, SwitchIdle, HostInject, HostDrain, vars, switchVars
<1>. QED  BY <1>1, <1>2, <1>3

\* Whatever is flooded, lost or sent to nobody, a switch's entry for a host is
\* always the neighbour on the path to it (switch.c:225-230), the next switch on
\* that path has an entry too (switch.c:244-247), and a switch knows the source of
\* everything it has sent, as long as no read leaves a tail that begins with a
\* host's id (packet.c:156-161).  Without that the code goes wrong: see the run
\* header_cut.
THEOREM RoutingCorrect == Spec /\ []TailsAreForeign => []RoutingInv
BY RoutingInit, RoutingStep, TypeCorrect, PTL DEF Spec

\* A step that leaves right routes wrong, or with a gap, has a tail to read that
\* begins with a host's id (packet.c:156-161).
THEOREM RoutesStay == Spec => RoutesStayRight /\ RoutesStayWhole
<1>. DEFINE Good == TypeOK /\ SourcesKnown
<1>1. Good /\ [Next]_vars => (RightRoutes /\ TailsAreForeign => RoutesPointHome')
  BY RoutingStep DEF RoutingInv, RightRoutes
<1>2. Good /\ [Next]_vars => (RightRoutes /\ TailsAreForeign => RoutesReachHome')
  BY RoutingStep DEF RoutingInv, RightRoutes
<1>3. TypeOK /\ SourcesKnown => Good
  OBVIOUS
<1>. QED  BY <1>1, <1>2, <1>3, TypeCorrect, SourcesCorrect, PTL
          DEF Spec, RoutesStayRight, RoutesStayWhole

\* The part of it that a packet on its way relies on: an entry for a host is the
\* neighbour on the path to it (switch.c:225-230).
COROLLARY RoutesCorrect == Spec /\ []TailsAreForeign => []RoutesPointHome
<1>1. RoutingInv => RoutesPointHome
  BY DEF RoutingInv
<1>. QED  BY <1>1, RoutingCorrect, PTL

\* No entry leads to a switch that would flood: the next switch on the path has
\* an entry for the host too, however many packets are lost (switch.c:244-247).
COROLLARY RoutesHaveNoGap == Spec /\ []TailsAreForeign => []RoutesReachHome
<1>1. RoutingInv => RoutesReachHome
  BY DEF RoutingInv
<1>. QED  BY <1>1, RoutingCorrect, PTL

-----------------------------------------------------------------------------
(* Hosts that send headers alone, as a host that only pings does: then no  *)
(* read leaves a tail.                                                     *)

HeadersOnly == \A p \in Traffic : p.body = << >>

WholePipes == \A e \in Wires : Whole(wire[e], Headers)

\* At the start every pipe is empty.
LEMMA WholeInit == Init => WholePipes
<1>. SUFFICES ASSUME Init PROVE WholePipes
  OBVIOUS
<1>1. \A e \in Wires : DOMAIN wire[e] = {}
  BY EmptySeq, LenProperties DEF Init, WireInit
<1>. QED  BY <1>1 DEF WholePipes, Whole

\* Every step keeps the headers whole.
LEMMA WholeStep ==
    ASSUME HeadersOnly, WholeHeaders
    PROVE  TypeOK /\ WholePipes /\ [Next]_vars => WholePipes'
<1>. SUFFICES ASSUME TypeOK, WholePipes, [Next]_vars PROVE WholePipes'
  OBVIOUS
<1>1. /\ wire \in [Wires -> Seq(Chunk)]
      /\ \A e \in Wires : Whole(wire[e], Headers)
  BY DEF TypeOK, WireTypeOK, WholePipes
<1>2. ASSUME NEW f \in Wires
      PROVE  /\ ReadFrom(wire, f) \in [Wires -> Seq(Chunk)]
             /\ \A e \in Wires : Whole(ReadFrom(wire, f)[e], Headers)
  BY <1>1, ReadFromType, ReadFromWhole
<1>3. ASSUME NEW s \in Switches, SwitchRelay(s) PROVE WholePipes'
  <2>. DEFINE e == <<From(s), s>>
  <2>1. PICK p \in Arrivals(wire[e]) :
          LET learnt == Learn(table[s], p.src, From(s)) IN
          /\ table' = [table EXCEPT ![s] = learnt]
          /\ \E dests \in Outputs(s, learnt, p.dst) :
               wire' = SendTo(ReadFrom(wire, e), s, dests, p)
    BY <1>3 DEF SwitchRelay
  <2>2. PICK dests : wire' = SendTo(ReadFrom(wire, e), s, dests, p)
    BY <2>1
  <2>3. e \in Wires
    BY FromIsNeighbour DEF TypeOK
  <2>. HIDE DEF e
  <2>4. wire[e] \in Seq(Chunk) /\ wire[e] # << >>
    BY <1>1, <2>3, ArrivalsPackets
  <2>5. p \in Headers
    BY <1>1, <2>3, <2>4, ArrivesWhole
  <2>. QED  BY <1>2, <2>2, <2>3, <2>5, SendToWhole DEF WholePipes
<1>4. ASSUME NEW s \in Switches, SwitchCrash(s) PROVE WholePipes'
  BY <1>2, <1>4, FromIsNeighbour DEF TypeOK, SwitchCrash, WholePipes
<1>5. ASSUME NEW h \in Hosts, HostInject(h) PROVE WholePipes'
  <2>1. PICK p \in Traffic : wire' = SendTo(wire, h, Neighbours(h), p)
    BY <1>5 DEF HostInject
  <2>2. p \in Headers
    BY TrafficAssumption DEF HeadersOnly, Headers
  <2>. QED  BY <1>1, <2>1, <2>2, SendToWhole DEF WholePipes
<1>6. ASSUME NEW h \in Hosts, HostDrain(h) PROVE WholePipes'
  <2>1. PICK n \in Neighbours(h) : wire' = ReadFrom(wire, <<n, h>>)
    BY <1>6 DEF HostDrain
  <2>2. <<n, h>> \in Wires
    BY NeighbourWire DEF Nodes
  <2>. QED  BY <1>2, <2>1, <2>2 DEF WholePipes
<1>7. CASE UNCHANGED wire
  BY <1>7 DEF WholePipes
<1>. QED  BY <1>3, <1>4, <1>5, <1>6, <1>7 DEF Next, SwitchStep, SwitchIdle, vars

\* A header that is whole has no tail.
LEMMA WholeForeign == TypeOK /\ WholePipes => TailsAreForeign
<1>. SUFFICES ASSUME TypeOK, WholePipes PROVE TailsAreForeign
  OBVIOUS
<1>1. ASSUME NEW e \in Wires, wire[e] # << >>
      PROVE  wire[e][1].end = Size(wire[e][1].pkt)
  <2>1. wire[e] \in Seq(Chunk) /\ Whole(wire[e], Headers)
    BY DEF TypeOK, WireTypeOK, WholePipes
  <2>. QED  BY <1>1, <2>1, ArrivesWhole
<1>. QED  BY <1>1 DEF TailsAreForeign

\* When hosts send headers alone, an entry for a host is the neighbour on the path
\* to it and the next switch on the path has one too, whatever is flooded, lost or
\* refused by a full pipe (switch.c:225-256), with nothing assumed of the bytes.
THEOREM HeadersRouted ==
    ASSUME HeadersOnly, WholeHeaders
    PROVE  Spec => [](RoutesPointHome /\ RoutesReachHome)
<1>1. RoutingInv => RoutesPointHome /\ RoutesReachHome
  BY DEF RoutingInv
<1>. QED  BY <1>1, WholeInit, WholeStep, WholeForeign, TypeCorrect, RoutingCorrect, PTL
          DEF Spec
=============================================================================
