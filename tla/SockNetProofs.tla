---------------------------- MODULE SockNetProofs ----------------------------
(***************************************************************************)
(* Proof that what the switches learn is right where they are linked to    *)
(* each other by sockets, whatever memory is taken for packets: a switch   *)
(* learns from pipes only, and then each pipe it reads comes from a host,  *)
(* which sends under its own id.                                           *)
(***************************************************************************)
EXTENDS SockNet, SwitchProofs, ListProofs

-----------------------------------------------------------------------------
\* What a host has still to send, and what its pipes hold, is under its own id.
OwnPipe(e) ==
    /\ wire[e] \in Seq(Chunk)
    /\ \A i \in DOMAIN wire[e] : wire[e][i].pkt.src = e[1]
OwnOut(h) == out[h].to # << >> => out[h].pkt \in PacketSet /\ out[h].pkt.src = h

HostsSpeakForThemselves ==
    /\ DOMAIN wire = Wires
    /\ \A e \in Wires : e[1] \in Hosts => OwnPipe(e)
    /\ DOMAIN out = Nodes
    /\ \A n \in Nodes : DOMAIN out[n] = {"pkt", "to"}
    /\ \A h \in Hosts : OwnOut(h)

SockRoutingInv ==
    /\ SwitchLinksAreSockets
    /\ SwitchTypeOK
    /\ HostsSpeakForThemselves
    /\ RoutesPointHome

-----------------------------------------------------------------------------
(* Reading and writing pipes.                                              *)

\* A read of any pipe leaves in the hosts' pipes what the hosts wrote.
LEMMA ReadKeepsOwn ==
    ASSUME HostsSpeakForThemselves, NEW f, wire' = ReadFrom(wire, f)
    PROVE  DOMAIN wire' = Wires /\ \A e \in Wires : e[1] \in Hosts => OwnPipe(e)'
<1>1. DOMAIN wire = Wires
  BY DEF HostsSpeakForThemselves
<1>2. DOMAIN wire' = Wires
  BY <1>1 DEF ReadFrom
<1>3. ASSUME NEW e \in Wires, e[1] \in Hosts PROVE OwnPipe(e)'
  <2>1. OwnPipe(e)
    BY <1>3 DEF HostsSpeakForThemselves
  <2>2. CASE e # f
    <3>1. wire'[e] = wire[e]
      BY <1>1, <2>2 DEF ReadFrom
    <3>. QED  BY <2>1, <3>1 DEF OwnPipe
  <2>3. CASE e = f
    <3>1. wire'[e] = Rest(wire[e])
      BY <1>1, <2>3 DEF ReadFrom
    <3>2. wire[e] \in Seq(Chunk)
      BY <2>1 DEF OwnPipe
    <3>3. \A i \in DOMAIN Rest(wire[e]) :
            \E j \in DOMAIN wire[e] : Rest(wire[e])[i].pkt = wire[e][j].pkt
      BY <3>2, RestPackets
    <3>4. Rest(wire[e]) \in Seq(Chunk)
      BY <3>2, RestPackets
    <3>. QED  BY <2>1, <3>1, <3>3, <3>4 DEF OwnPipe
  <2>. QED  BY <2>2, <2>3
<1>. QED  BY <1>2, <1>3

\* So does a write, of a switch to its own pipes or of a host.
LEMMA WriteKeepsOwn ==
    ASSUME HostsSpeakForThemselves, NEW n \in Nodes, NEW dests, out[n].to # << >>,
           wire' = SendTo(wire, n, dests, out[n].pkt)
    PROVE  DOMAIN wire' = Wires /\ \A e \in Wires : e[1] \in Hosts => OwnPipe(e)'
<1>1. DOMAIN wire' = Wires
  BY DEF SendTo
<1>2. ASSUME NEW e \in Wires, e[1] \in Hosts PROVE OwnPipe(e)'
  <2>1. OwnPipe(e)
    BY <1>2 DEF HostsSpeakForThemselves
  <2>2. CASE e[1] = n /\ e[2] \in dests
    <3>. DEFINE p == out[n].pkt
    <3>1. p \in PacketSet /\ p.src = e[1]
      BY <1>2, <2>2 DEF HostsSpeakForThemselves, OwnOut
    <3>. HIDE DEF p
    <3>2. wire'[e] = Push(wire[e], p)
      BY <2>2 DEF SendTo, p
    <3>3. wire[e] \in Seq(Chunk)
      BY <2>1 DEF OwnPipe
    <3>4. Push(wire[e], p) \in Seq(Chunk)
      BY <3>1, <3>3, PushType
    <3>5. ASSUME NEW i \in DOMAIN Push(wire[e], p)
          PROVE  Push(wire[e], p)[i].pkt.src = e[1]
      <4>1. \/ Push(wire[e], p)[i].pkt = p
            \/ i \in DOMAIN wire[e] /\ Push(wire[e], p)[i].pkt = wire[e][i].pkt
        BY <3>1, <3>3, PushPackets
      <4>. QED  BY <2>1, <3>1, <4>1 DEF OwnPipe
    <3>. QED  BY <3>2, <3>4, <3>5 DEF OwnPipe
  <2>3. CASE ~(e[1] = n /\ e[2] \in dests)
    <3>1. wire'[e] = wire[e]
      BY <2>3 DEF SendTo
    <3>. QED  BY <2>1, <3>1 DEF OwnPipe
  <2>. QED  BY <2>2, <2>3
<1>. QED  BY <1>1, <1>2

\* A port that is read is a pipe or the socket.
LEMMA TakeOneKeepsOwn ==
    ASSUME HostsSpeakForThemselves, NEW n, NEW m, TakeOne(n, m)
    PROVE  DOMAIN wire' = Wires /\ \A e \in Wires : e[1] \in Hosts => OwnPipe(e)'
<1>1. CASE wire' = ReadFrom(wire, <<m, n>>)
  BY <1>1, ReadKeepsOwn
<1>2. CASE wire' = wire
  BY <1>2 DEF HostsSpeakForThemselves, OwnPipe
<1>. QED  BY <1>1, <1>2 DEF TakeOne

\* Going on to the next port changes neither the packet nor the other nodes'.
LEMMA RestKeepsOwn ==
    ASSUME HostsSpeakForThemselves, NEW n \in Nodes, out[n].to # << >>,
           out' = OutRest(n)
    PROVE  /\ DOMAIN out' = Nodes
           /\ \A m \in Nodes : DOMAIN out'[m] = {"pkt", "to"}
           /\ \A h \in Hosts : OwnOut(h)'
<1>. USE DEF HostsSpeakForThemselves
<1>1. DOMAIN out' = Nodes
  BY DEF OutRest
<1>2. ASSUME NEW m \in Nodes, m # n PROVE out'[m] = out[m]
  BY <1>2 DEF OutRest
<1>3. \/ out'[n] = Nothing
      \/ out'[n] = [pkt |-> out[n].pkt, to |-> Tail(out[n].to)]
  BY DEF OutRest
<1>4. DOMAIN out'[n] = {"pkt", "to"}
  BY <1>3 DEF Nothing
<1>5. out'[n].to = << >> \/ out'[n].pkt = out[n].pkt
  BY <1>3 DEF Nothing
<1>6. ASSUME NEW h \in Hosts PROVE OwnOut(h)'
  <2>1. h \in Nodes
    BY DEF Nodes
  <2>. QED  BY <1>2, <1>5, <2>1 DEF OwnOut
<1>. QED  BY <1>1, <1>2, <1>4, <1>6

-----------------------------------------------------------------------------
(* Learning.                                                               *)

\* A switch learns from a pipe, which comes from a host, the way to that host.
LEMMA LearntIsHome ==
    ASSUME SockRoutingInv, TailsAreForeign, NEW s \in Switches,
           NEW p \in Found(s, From(s))
    PROVE  /\ Learnt(s, p) \in [TableIndex -> Nodes \cup {None}]
           /\ \A h \in Hosts \cap TableIndex :
                Learnt(s, p)[h] # None => Learnt(s, p)[h] = Toward[s][h]
<1>. DEFINE a == From(s)
<1>1. a \in Neighbours(s) /\ a \in Nodes /\ <<a, s>> \in Wires
  BY FromIsNeighbour DEF SockRoutingInv
<1>2. table[s] \in [TableIndex -> Nodes \cup {None}]
  BY DEF SockRoutingInv, SwitchTypeOK
<1>3. \A h \in Hosts \cap TableIndex :
        table[s][h] # None => table[s][h] = Toward[s][h]
  BY DEF SockRoutingInv, RoutesPointHome, Net!RoutesPointHome, TableIndex, Net!TableIndex
<1>4. CASE <<a, s>> \in Sockets
  BY <1>2, <1>3, <1>4 DEF Learnt
<1>5. CASE <<a, s>> \notin Sockets
  <2>1. a \in Hosts
    BY <1>1, <1>5 DEF SockRoutingInv, SwitchLinksAreSockets, Nodes
  <2>2. OwnPipe(<<a, s>>)
    BY <1>1, <2>1 DEF SockRoutingInv, HostsSpeakForThemselves
  <2>3. p \in Arrivals(wire[<<a, s>>])
    BY <1>5 DEF Found
  <2>4. p.src = a \/ p.src \notin Hosts
    <3>. DEFINE q == wire[<<a, s>>]
    <3>1. q \in Seq(Chunk) /\ q # << >> /\ 1 \in DOMAIN q
      BY <2>2, <2>3, EmptySeq DEF OwnPipe, Arrivals
    <3>2. CASE q[1].end = Size(q[1].pkt)
      BY <2>2, <2>3, <3>1, <3>2 DEF OwnPipe, Arrivals
    <3>3. CASE q[1].end # Size(q[1].pkt)
      BY <1>1, <2>3, <3>1, <3>3 DEF TailsAreForeign
    <3>. QED  BY <3>2, <3>3
  <2>5. Toward[s][a] = a
    BY <1>1, <2>1, TowardAssumption
  <2>6. Learnt(s, p) = Learn(table[s], p.src, a)
    BY <1>5 DEF Learnt
  <2>. HIDE DEF a
  <2>7. Learnt(s, p) \in [TableIndex -> Nodes \cup {None}]
    BY <1>1, <1>2, <2>6, LearnType
  <2>8. ASSUME NEW h \in Hosts \cap TableIndex, Learnt(s, p)[h] # None
        PROVE  Learnt(s, p)[h] = Toward[s][h]
    <3>1. Learnt(s, p)[h] = table[s][h] \/ (h = p.src /\ Learnt(s, p)[h] = a)
      BY <1>2, <2>6 DEF Learn
    <3>. QED  BY <1>3, <2>4, <2>5, <2>8, <3>1
  <2>. QED  BY <2>7, <2>8
<1>. QED  BY <1>4, <1>5

\* The invariant is about these variables alone.
LEMMA SockRoutingStutter ==
    SockRoutingInv /\ UNCHANGED <<wire, switchVars, out>> => SockRoutingInv'
BY DEF SockRoutingInv, switchVars, SwitchTypeOK, HostsSpeakForThemselves, OwnPipe,
       OwnOut, RoutesPointHome, Net!RoutesPointHome

\* A send, to a pipe or by a connection, touches neither the tables nor the scan.
LEMMA SendKeeps ==
    ASSUME SockRoutingInv, NEW n \in Nodes, Send(n)
    PROVE  SockRoutingInv'
<1>1. HostsSpeakForThemselves /\ SwitchTypeOK /\ RoutesPointHome
  BY DEF SockRoutingInv
<1>2. UNCHANGED switchVars
  BY DEF Send, WritePipe, Connect, Connects, ConnectFails, SendData
<1>3. DOMAIN wire' = Wires /\ \A e \in Wires : e[1] \in Hosts => OwnPipe(e)'
  <2>1. CASE WritePipe(n)
    <3>1. wire' = SendTo(wire, n, {To(n)}, out[n].pkt) /\ out[n].to # << >>
      BY <2>1 DEF WritePipe, Sending
    <3>. QED  BY <1>1, <3>1, WriteKeepsOwn
  <2>2. CASE wire' = wire
    BY <1>1, <2>2 DEF HostsSpeakForThemselves, OwnPipe
  <2>. QED  BY <2>1, <2>2 DEF Send, Connect, Connects, ConnectFails, SendData
<1>4. /\ DOMAIN out' = Nodes
      /\ \A m \in Nodes : DOMAIN out'[m] = {"pkt", "to"}
      /\ \A h \in Hosts : OwnOut(h)'
  <2>1. CASE out' = OutRest(n)
    <3>1. out[n].to # << >>
      BY DEF Send, WritePipe, Connect, Connects, ConnectFails, SendData, Sending
    <3>. QED  BY <1>1, <2>1, <3>1, RestKeepsOwn
  <2>2. CASE out' = out
    BY <1>1, <2>2 DEF HostsSpeakForThemselves, OwnOut
  <2>. QED  BY <2>1, <2>2 DEF Send, WritePipe, Connect, ConnectFails, SendData
<1>5. HostsSpeakForThemselves'
  BY <1>3, <1>4 DEF HostsSpeakForThemselves
<1>6. SwitchTypeOK' /\ RoutesPointHome'
  BY <1>1, <1>2 DEF switchVars, SwitchTypeOK, RoutesPointHome, Net!RoutesPointHome
<1>. QED  BY <1>5, <1>6 DEF SockRoutingInv

\* A switch that finds nothing goes on to its next port.
LEMMA HearsNoneKeeps ==
    ASSUME SockRoutingInv, NEW s \in Switches, SwitchHearsNone(s)
    PROVE  SockRoutingInv'
<1>1. HostsSpeakForThemselves /\ SwitchTypeOK /\ RoutesPointHome
  BY DEF SockRoutingInv
<1>2. TakeOne(s, From(s)) /\ sport' = NextPort(s) /\ UNCHANGED <<table, alive, out>>
  BY DEF SwitchHearsNone
<1>3. HostsSpeakForThemselves'
  BY <1>1, <1>2, TakeOneKeepsOwn DEF HostsSpeakForThemselves, OwnOut
<1>4. SwitchTypeOK'
  BY <1>1, <1>2, NextPortType DEF SwitchTypeOK
<1>5. RoutesPointHome'
  BY <1>1, <1>2 DEF RoutesPointHome, Net!RoutesPointHome
<1>. QED  BY <1>3, <1>4, <1>5 DEF SockRoutingInv

\* A switch that finds a packet, or memory that it takes for one, learns what is
\* right, and what it has to send then is no host's.
LEMMA HearsKeeps ==
    ASSUME SockRoutingInv, TailsAreForeign, NEW s \in Switches, SwitchHears(s)
    PROVE  SockRoutingInv'
<1>1. HostsSpeakForThemselves /\ SwitchTypeOK /\ RoutesPointHome
  BY DEF SockRoutingInv
<1>2. PICK p \in Found(s, From(s)) :
        /\ table' = [table EXCEPT ![s] = Learnt(s, p)]
        /\ \E dests \in Outputs(s, Learnt(s, p), p.dst) :
             out' = [out EXCEPT ![s] =
                       [pkt |-> p, to |-> Chosen(Ports[s], dests)]]
  BY DEF SwitchHears
<1>3. PICK to : out' = [out EXCEPT ![s] = [pkt |-> p, to |-> to]]
  BY <1>2
<1>4. TakeOne(s, From(s)) /\ sport' = NextPort(s) /\ alive' = alive
  BY DEF SwitchHears
<1>5. s \in Nodes /\ s \notin Hosts
  BY NodeAssumption DEF Nodes
<1>6. /\ DOMAIN out' = Nodes
      /\ \A m \in Nodes : DOMAIN out'[m] = {"pkt", "to"}
      /\ \A h \in Hosts : OwnOut(h)'
  BY <1>1, <1>3, <1>5 DEF HostsSpeakForThemselves, OwnOut, Nodes
<1>7. HostsSpeakForThemselves'
  BY <1>1, <1>4, <1>6, TakeOneKeepsOwn DEF HostsSpeakForThemselves
<1>. DEFINE new == Learnt(s, p)
<1>8. /\ new \in [TableIndex -> Nodes \cup {None}]
      /\ \A h \in Hosts \cap TableIndex : new[h] # None => new[h] = Toward[s][h]
  BY LearntIsHome
<1>9. table' = [table EXCEPT ![s] = new]
  BY <1>2
<1>. HIDE DEF new
<1>10. SwitchTypeOK'
  BY <1>1, <1>4, <1>8, <1>9, NextPortType DEF SwitchTypeOK
<1>11. RoutesPointHome'
  BY <1>1, <1>8, <1>9 DEF SwitchTypeOK, RoutesPointHome, Net!RoutesPointHome,
                          TableIndex, Net!TableIndex
<1>. QED  BY <1>7, <1>10, <1>11 DEF SockRoutingInv

\* A host takes up a packet of its own.
LEMMA HostSendsKeeps ==
    ASSUME SockRoutingInv, NEW h \in Hosts, HostSends(h)
    PROVE  SockRoutingInv'
<1>1. HostsSpeakForThemselves /\ SwitchTypeOK /\ RoutesPointHome
  BY DEF SockRoutingInv
<1>2. PICK p \in Traffic :
        p.src = h /\ out' = [out EXCEPT ![h] = [pkt |-> p, to |-> Ports[h]]]
  BY CharOfHost DEF HostSends
<1>3. p \in PacketSet /\ h \in Nodes
  BY SockTrafficAssumption DEF Nodes
<1>4. wire' = wire /\ UNCHANGED switchVars
  BY DEF HostSends
<1>5. HostsSpeakForThemselves'
  BY <1>1, <1>2, <1>3, <1>4 DEF HostsSpeakForThemselves, OwnOut, OwnPipe, Nodes
<1>6. SwitchTypeOK' /\ RoutesPointHome'
  BY <1>1, <1>4 DEF switchVars, SwitchTypeOK, RoutesPointHome, Net!RoutesPointHome
<1>. QED  BY <1>5, <1>6 DEF SockRoutingInv

\* At the start nothing is learnt, on its way or still to be sent.
LEMMA SockRoutingInit == Init /\ SwitchLinksAreSockets => SockRoutingInv
<1>. SUFFICES ASSUME Init, SwitchLinksAreSockets PROVE SockRoutingInv
  OBVIOUS
<1>1. HostsSpeakForThemselves
  <2>1. DOMAIN wire = Wires /\ \A e \in Wires : wire[e] = << >>
    BY DEF Init, WireInit
  <2>2. << >> \in Seq(Chunk) /\ DOMAIN << >> = {}
    BY EmptySeq
  <2>3. \A e \in Wires : OwnPipe(e)
    BY <2>1, <2>2 DEF OwnPipe
  <2>4. /\ DOMAIN out = Nodes
        /\ \A n \in Nodes : out[n] = [pkt |-> << >>, to |-> << >>]
    BY DEF Init, Nothing
  <2>. QED  BY <2>1, <2>3, <2>4 DEF HostsSpeakForThemselves, OwnOut, Nodes
<1>2. SwitchTypeOK
  BY SwitchTypeInit DEF Init
<1>3. RoutesPointHome
  BY DEF Init, SwitchInit, RoutesPointHome, Net!RoutesPointHome, TableIndex,
         Net!TableIndex
<1>. QED  BY <1>1, <1>2, <1>3 DEF SockRoutingInv

\* Every step keeps the routes right.
LEMMA SockRoutingStep ==
    SockRoutingInv /\ TailsAreForeign /\ [Next]_vars => SockRoutingInv'
<1>. SUFFICES ASSUME SockRoutingInv, TailsAreForeign, [Next]_vars PROVE SockRoutingInv'
  OBVIOUS
<1>1. ASSUME NEW s \in Switches, SwitchHearsNone(s) PROVE SockRoutingInv'
  BY <1>1, HearsNoneKeeps
<1>2. ASSUME NEW s \in Switches, SwitchHears(s) PROVE SockRoutingInv'
  BY <1>2, HearsKeeps
<1>3. ASSUME NEW s \in Switches, SwitchDies(s) PROVE SockRoutingInv'
  <2>1. UNCHANGED <<wire, table, sport, out>> /\ alive' = alive \ {s}
    BY <1>3 DEF SwitchDies
  <2>. QED  BY <2>1 DEF SockRoutingInv, SwitchTypeOK, HostsSpeakForThemselves,
                OwnPipe, OwnOut, RoutesPointHome, Net!RoutesPointHome
<1>4. ASSUME NEW n \in Nodes, Send(n) PROVE SockRoutingInv'
  BY <1>4, SendKeeps
<1>5. ASSUME NEW h \in Hosts, HostSends(h) PROVE SockRoutingInv'
  BY <1>5, HostSendsKeeps
<1>6. ASSUME NEW h \in Hosts, HostReads(h) PROVE SockRoutingInv'
  <2>1. PICK m \in Neighbours(h) : TakeOne(h, m)
    BY <1>6 DEF HostReads
  <2>2. UNCHANGED <<switchVars, out>>
    BY <1>6 DEF HostReads
  <2>3. HostsSpeakForThemselves'
    BY <2>1, <2>2, TakeOneKeepsOwn DEF SockRoutingInv, HostsSpeakForThemselves, OwnOut
  <2>. QED  BY <2>2, <2>3 DEF SockRoutingInv, switchVars, SwitchTypeOK,
                RoutesPointHome, Net!RoutesPointHome
<1>7. CASE UNCHANGED vars
  BY <1>7, SockRoutingStutter DEF vars, sockVars
<1>. QED
  BY <1>1, <1>2, <1>3, <1>4, <1>5, <1>6, <1>7 DEF Next, SwitchRuns, Nodes

\* Where no two switches are linked by pipes a switch's entry for a host is the
\* neighbour on the path to it, whatever it takes for a packet when nothing is
\* there to accept (switch.c:217-230, packet.c:178-203), as long as no read of a
\* host's pipe leaves a tail that begins with a host's id (packet.c:156-161).
THEOREM SocketRoutesCorrect ==
    Spec /\ SwitchLinksAreSockets /\ []TailsAreForeign => []RoutesPointHome
<1>1. SockRoutingInv => RoutesPointHome
  BY DEF SockRoutingInv
<1>. QED  BY <1>1, SockRoutingInit, SockRoutingStep, PTL DEF Spec

-----------------------------------------------------------------------------
(* Hosts that send headers alone: then their pipes have no tails.          *)

HeadersOnly == \A p \in Traffic : p.body = << >>

\* What the pipe e may hold: two switches have none between them.
HeadersOf(e) == IF e[1] \in Hosts THEN Headers ELSE {}
HeldWhole(e) == wire[e] \in Seq(Chunk) /\ Whole(wire[e], HeadersOf(e))

WholeHosts ==
    /\ \A e \in Wires : e[1] \in Hosts \/ e[2] \in Switches => HeldWhole(e)
    /\ \A h \in Hosts : out[h].to # << >> => out[h].pkt \in Headers

LEMMA HeadersOfWire == ASSUME NEW e PROVE HeadersOf(e) \subseteq Headers
BY DEF HeadersOf

LEMMA WholeHostsInit == Init => WholeHosts
<1>. SUFFICES ASSUME Init PROVE WholeHosts
  OBVIOUS
<1>1. \A e \in Wires : wire[e] = << >>
  BY DEF Init, WireInit
<1>2. << >> \in Seq(Chunk) /\ DOMAIN << >> = {}
  BY EmptySeq
<1>3. \A h \in Hosts : out[h].to = << >>
  BY DEF Init, Nothing, Nodes
<1>. QED  BY <1>1, <1>2, <1>3 DEF WholeHosts, HeldWhole, Whole

\* Reading takes whole headers from a pipe.
LEMMA TakeOneWhole ==
    ASSUME WholeHosts, WholeHeaders, DOMAIN wire = Wires, NEW n, NEW m, TakeOne(n, m),
           NEW e \in Wires, e[1] \in Hosts \/ e[2] \in Switches
    PROVE  HeldWhole(e)'
<1>1. wire[e] \in Seq(Chunk) /\ Whole(wire[e], HeadersOf(e))
  BY DEF WholeHosts, HeldWhole
<1>2. wire'[e] = wire[e] \/ wire'[e] = Rest(wire[e])
  BY DEF TakeOne, ReadFrom
<1>3. Rest(wire[e]) \in Seq(Chunk) /\ Whole(Rest(wire[e]), HeadersOf(e))
  BY <1>1, HeadersOfWire, RestPackets, RestWhole
<1>. QED  BY <1>1, <1>2, <1>3 DEF HeldWhole, HeadersOf

\* A host writes a header; a switch writes to no pipe that a switch reads.
LEMMA WriteWhole ==
    ASSUME WholeHosts, SwitchLinksAreSockets, NEW n \in Nodes, WritePipe(n),
           NEW e \in Wires, e[1] \in Hosts \/ e[2] \in Switches
    PROVE  HeldWhole(e)'
<1>. DEFINE p == out[n].pkt
<1>1. wire[e] \in Seq(Chunk) /\ Whole(wire[e], HeadersOf(e))
  BY DEF WholeHosts, HeldWhole
<1>2. /\ out[n].to # << >> /\ <<n, To(n)>> \notin Sockets
      /\ wire'[e] = IF e[1] = n /\ e[2] \in {To(n)} THEN Push(wire[e], p) ELSE wire[e]
  BY DEF WritePipe, Sending, SendTo
<1>3. CASE ~(e[1] = n /\ e[2] = To(n))
  BY <1>1, <1>2, <1>3 DEF HeldWhole, HeadersOf
<1>4. CASE e[1] = n /\ e[2] = To(n)
  <2>1. e = <<n, To(n)>> /\ e \notin Sockets
    BY <1>2, <1>4 DEF Wires
  <2>2. n \in Hosts
    BY <1>4, <2>1 DEF SwitchLinksAreSockets, Nodes, Wires
  <2>3. p \in Headers /\ p \in PacketSet
    BY <1>2, <2>2 DEF WholeHosts, Headers
  <2>. HIDE DEF p
  <2>4. Push(wire[e], p) \in Seq(Chunk) /\ Whole(Push(wire[e], p), Headers)
    BY <1>1, <1>4, <2>2, <2>3, PushType, PushWhole DEF HeadersOf
  <2>. QED  BY <1>2, <1>4, <2>2, <2>4 DEF HeldWhole, HeadersOf
<1>. QED  BY <1>3, <1>4

LEMMA WholeHostsStep ==
    ASSUME HeadersOnly, WholeHeaders
    PROVE  SockRoutingInv /\ WholeHosts /\ [Next]_vars => WholeHosts'
<1>. SUFFICES ASSUME SockRoutingInv, WholeHosts, [Next]_vars PROVE WholeHosts'
  OBVIOUS
<1>1. /\ SwitchLinksAreSockets /\ HostsSpeakForThemselves
      /\ DOMAIN wire = Wires /\ DOMAIN out = Nodes
  BY DEF SockRoutingInv, HostsSpeakForThemselves
<1>2. ASSUME NEW e \in Wires, e[1] \in Hosts \/ e[2] \in Switches PROVE HeldWhole(e)'
  <2>1. CASE wire' = wire
    BY <1>2, <2>1 DEF WholeHosts, HeldWhole, HeadersOf
  <2>2. ASSUME NEW n \in Nodes, WritePipe(n) PROVE HeldWhole(e)'
    BY <1>1, <1>2, <2>2, WriteWhole
  <2>3. ASSUME NEW n, NEW m, TakeOne(n, m) PROVE HeldWhole(e)'
    BY <1>1, <1>2, <2>3, TakeOneWhole
  <2>4. ASSUME NEW n \in Nodes, Send(n) PROVE HeldWhole(e)'
    BY <2>1, <2>2, <2>4 DEF Send, Connect, Connects, ConnectFails, SendData
  <2>5. ASSUME NEW s \in Switches, SwitchRuns(s) PROVE HeldWhole(e)'
    BY <2>1, <2>3, <2>4, <2>5
       DEF SwitchRuns, SwitchHearsNone, SwitchHears, SwitchDies, Nodes
  <2>6. ASSUME NEW h \in Hosts, HostSends(h) \/ HostReads(h) \/ Send(h)
        PROVE  HeldWhole(e)'
    BY <2>1, <2>3, <2>4, <2>6 DEF HostSends, HostReads, Nodes
  <2>. QED  BY <2>1, <2>5, <2>6 DEF Next, vars
<1>3. ASSUME NEW h \in Hosts, out'[h].to # << >> PROVE out'[h].pkt \in Headers
  <2>1. h \in Nodes /\ h \notin Switches /\ (out[h].to # << >> => out[h].pkt \in Headers)
    BY NodeAssumption DEF WholeHosts, Nodes
  <2>2. CASE out'[h] = out[h]
    BY <1>3, <2>1, <2>2
  <2>3. ASSUME NEW n \in Nodes, Send(n) PROVE out'[h].pkt \in Headers
    <3>1. out[n].to # << >> /\ (out' = out \/ out' = OutRest(n))
      BY <2>3 DEF Send, WritePipe, Connect, Connects, ConnectFails, SendData, Sending
    <3>2. out'[h] = out[h] \/ out'[h] = Nothing
          \/ (h = n /\ out'[h] = [pkt |-> out[n].pkt, to |-> Tail(out[n].to)])
      BY <1>1, <2>1, <3>1 DEF OutRest
    <3>. QED  BY <1>3, <2>1, <3>1, <3>2 DEF Nothing
  <2>4. ASSUME HostSends(h) PROVE out'[h].pkt \in Headers
    <3>1. PICK p \in Traffic : out' = [out EXCEPT ![h] = [pkt |-> p, to |-> Ports[h]]]
      BY <2>4 DEF HostSends
    <3>2. p \in Headers
      BY SockTrafficAssumption DEF HeadersOnly, Headers
    <3>. QED  BY <1>1, <2>1, <3>1, <3>2
  <2>5. ASSUME NEW s \in Switches, SwitchRuns(s) PROVE out'[h].pkt \in Headers
    <3>1. ASSUME SwitchHears(s) PROVE out'[h] = out[h]
      <4>1. PICK x : out' = [out EXCEPT ![s] = x]
        BY <3>1 DEF SwitchHears
      <4>. QED  BY <1>1, <2>1, <4>1
    <3>2. SwitchHearsNone(s) \/ SwitchDies(s) => out'[h] = out[h]
      BY DEF SwitchHearsNone, SwitchDies
    <3>. QED  BY <2>2, <2>3, <2>5, <3>1, <3>2 DEF SwitchRuns, Nodes
  <2>6. ASSUME NEW g \in Hosts, HostSends(g) \/ HostReads(g) \/ Send(g)
        PROVE  out'[h].pkt \in Headers
    <3>1. HostSends(g) /\ g # h => out'[h] = out[h]
      BY DEF HostSends
    <3>2. HostReads(g) => out'[h] = out[h]
      BY DEF HostReads
    <3>. QED  BY <2>2, <2>3, <2>4, <2>6, <3>1, <3>2 DEF Nodes
  <2>. QED  BY <2>2, <2>5, <2>6 DEF Next, vars, sockVars
<1>. QED  BY <1>2, <1>3 DEF WholeHosts

LEMMA WholeHostsForeign == WholeHosts => TailsAreForeign
<1>. SUFFICES ASSUME WholeHosts, NEW e \in Wires, e[2] \in Switches, wire[e] # << >>
              PROVE  wire[e][1].end = Size(wire[e][1].pkt)
  BY DEF TailsAreForeign
<1>1. wire[e] \in Seq(Chunk) /\ Whole(wire[e], HeadersOf(e))
  BY DEF WholeHosts, HeldWhole
<1>. QED  BY <1>1, HeadersOfWire, ArrivesWhole

\* When hosts send headers alone a switch's entry for a host is the neighbour on
\* the path to it, whatever memory it takes for packets and whatever fails
\* (switch.c:217-230, packet.c:178-203), with nothing assumed of the bytes.
THEOREM SocketHeadersRouted ==
    ASSUME HeadersOnly, WholeHeaders
    PROVE  Spec /\ SwitchLinksAreSockets => []RoutesPointHome
<1>1. SockRoutingInv => RoutesPointHome
  BY DEF SockRoutingInv
<1>. QED  BY <1>1, SockRoutingInit, SockRoutingStep, WholeHostsInit, WholeHostsStep,
             WholeHostsForeign, PTL DEF Spec

-----------------------------------------------------------------------------
(* The connections.                                                        *)

Conn == [from : Nodes, data : Seq(PacketSet)]

\* What a queue of node n may hold when the nodes in dial are connected and o is
\* what each node has to send: of each of them at most one connection without
\* its packet, with n the node it is about to send to.
QueueOK(q, n, dial, o) ==
    /\ q \in Seq(Conn) /\ Len(q) <= QUEUE
    /\ \A i \in DOMAIN q :
         /\ <<q[i].from, n>> \in Sockets /\ Len(q[i].data) <= 1
         /\ q[i].data = << >> =>
              /\ q[i].from \in dial /\ Head(o[q[i].from].to) = n
              /\ \A j \in DOMAIN q : q[j] = q[i] => j = i

\* What a node has still to send.
OutOK(x, n) ==
    /\ DOMAIN x = {"pkt", "to"}
    /\ x.to \in Seq(Neighbours(n))
    /\ x.to # << >> => x.pkt \in PacketSet

SockInv ==
    /\ WireTypeOK /\ SwitchTypeOK
    /\ dialled \subseteq Nodes
    /\ DOMAIN out = Nodes /\ DOMAIN backlog = Nodes
    /\ fds \in [Nodes -> 0 .. FD_MAX]
    /\ \A n \in dialled : out[n].to # << >> /\ <<n, Head(out[n].to)>> \in Sockets
    /\ \A n \in Nodes : OutOK(out[n], n) /\ QueueOK(backlog[n], n, dialled, out)

\* The invariant has what SockTypeOK says.
LEMMA SockInvIsType == SockInv => SockTypeOK
<1>1. SUFFICES ASSUME SockInv PROVE SockTypeOK
  OBVIOUS
<1>2. ASSUME NEW n \in Nodes PROVE Range(out[n].to) \subseteq Neighbours(n)
  BY <1>1, RangeOfSeq DEF SockInv, OutOK
<1>3. ASSUME NEW n \in Nodes, NEW i \in DOMAIN backlog[n]
      PROVE  /\ <<backlog[n][i].from, n>> \in Sockets
             /\ backlog[n][i].data = << >> =>
                  /\ backlog[n][i].from \in dialled /\ To(backlog[n][i].from) = n
                  /\ \A j \in DOMAIN backlog[n] : backlog[n][j] = backlog[n][i] => j = i
             /\ Len(backlog[n][i].data) <= 1
  BY <1>1 DEF SockInv, QueueOK, To
<1>4. \A n \in dialled : out[n].to # << >> /\ <<n, To(n)>> \in Sockets
  BY <1>1 DEF SockInv, To
<1>5. \A n \in Nodes : fds[n] \in 0 .. FD_MAX /\ Len(backlog[n]) <= QUEUE
  BY <1>1 DEF SockInv, QueueOK
<1>6. WireTypeOK /\ SwitchTypeOK /\ dialled \subseteq Nodes
  BY <1>1 DEF SockInv
<1>7. QED BY <1>2, <1>3, <1>4, <1>5, <1>6 DEF SockTypeOK

\* An accept takes the first connection.
LEMMA QueueTail ==
    ASSUME NEW q, NEW n, NEW dial, NEW o, QueueOK(q, n, dial, o), q # << >>
    PROVE  QueueOK(Tail(q), n, dial, o) /\ Range(q[1].data) \subseteq PacketSet
<1>1. q \in Seq(Conn) /\ Len(q) \in Nat /\ Len(q) # 0 /\ 1 \in DOMAIN q
  BY DEF QueueOK
<1>2. Tail(q) \in Seq(Conn) /\ Len(Tail(q)) = Len(q) - 1 /\ DOMAIN Tail(q) = 1 .. Len(q) - 1
      /\ \A i \in 1 .. Len(q) - 1 : Tail(q)[i] = q[i + 1] /\ i + 1 \in DOMAIN q
  BY <1>1
<1>3. Len(Tail(q)) <= QUEUE
  BY <1>1, <1>2, SocketAssumption DEF QueueOK
<1>4. ASSUME NEW i \in DOMAIN Tail(q), Tail(q)[i].data = << >>
      PROVE  /\ Tail(q)[i].from \in dial /\ Head(o[Tail(q)[i].from].to) = n
             /\ \A j \in DOMAIN Tail(q) : Tail(q)[j] = Tail(q)[i] => j = i
  <2>1. i \in 1 .. Len(q) - 1 /\ Tail(q)[i] = q[i + 1] /\ i + 1 \in DOMAIN q
    BY <1>2
  <2>2. /\ q[i + 1].from \in dial /\ Head(o[q[i + 1].from].to) = n
        /\ \A j \in DOMAIN q : q[j] = q[i + 1] => j = i + 1
    BY <1>4, <2>1 DEF QueueOK
  <2>3. ASSUME NEW j \in DOMAIN Tail(q), Tail(q)[j] = Tail(q)[i] PROVE j = i
    <3>1. j \in 1 .. Len(q) - 1 /\ q[j + 1] = q[i + 1] /\ j + 1 \in DOMAIN q
      BY <1>2, <2>1, <2>3
    <3>2. j + 1 = i + 1
      BY <2>2, <3>1
    <3>3. QED BY <2>1, <3>1, <3>2
  <2>4. QED BY <2>1, <2>2, <2>3
<1>5. \A i \in DOMAIN Tail(q) : <<Tail(q)[i].from, n>> \in Sockets /\ Len(Tail(q)[i].data) <= 1
  BY <1>2 DEF QueueOK
<1>6. q[1].data \in Seq(PacketSet)
  <2>1. q[1] \in Conn
    BY <1>1
  <2>2. QED BY <2>1 DEF Conn
<1>7. Range(q[1].data) \subseteq PacketSet
  BY <1>6, RangeOfSeq
<1>8. QED BY <1>2, <1>3, <1>4, <1>5, <1>7 DEF QueueOK

\* A queue is not disturbed by what the nodes that are not connected do, nor by
\* nodes that connect elsewhere.
LEMMA QueueSame ==
    ASSUME NEW q, NEW n, NEW dial, NEW o, QueueOK(q, n, dial, o),
           NEW dial2, NEW o2,
           \A m \in dial : Head(o[m].to) = n => m \in dial2 /\ o2[m] = o[m]
    PROVE  QueueOK(q, n, dial2, o2)
BY DEF QueueOK

\* A connection is queued last.
LEMMA QueueAppend ==
    ASSUME NEW q, NEW n \in Nodes, NEW dial, NEW o, QueueOK(q, n, dial, o),
           NEW m \in Nodes, m \notin dial, <<m, n>> \in Sockets, Head(o[m].to) = n,
           Len(q) < QUEUE
    PROVE  QueueOK(Append(q, [from |-> m, data |-> << >>]), n, dial \cup {m}, o)
<1>. DEFINE c == [from |-> m, data |-> << >>]
            r == Append(q, c)
<1>1. q \in Seq(Conn) /\ Len(q) \in Nat /\ DOMAIN q = 1 .. Len(q) /\ c \in Conn
  BY EmptySeq DEF QueueOK, Conn
<1>2. r \in Seq(Conn) /\ Len(r) = Len(q) + 1 /\ DOMAIN r = 1 .. Len(q) + 1
      /\ r[Len(q) + 1] = c /\ \A i \in 1 .. Len(q) : r[i] = q[i]
  BY <1>1
<1>3. c.from = m /\ c.data = << >> /\ Len(c.data) = 0
  OBVIOUS
<1>. HIDE DEF c, r
<1>4. \A i \in 1 .. Len(q) : q[i].data = << >> => q[i].from \in dial
  BY <1>1 DEF QueueOK
<1>5. \A i \in 1 .. Len(q) : q[i] # c
  BY <1>3, <1>4
<1>6. ASSUME NEW i \in DOMAIN r
      PROVE  /\ <<r[i].from, n>> \in Sockets /\ Len(r[i].data) <= 1
             /\ r[i].data = << >> =>
                  /\ r[i].from \in dial \cup {m} /\ Head(o[r[i].from].to) = n
                  /\ \A j \in DOMAIN r : r[j] = r[i] => j = i
  <2>1. CASE i = Len(q) + 1
    BY <1>1, <1>2, <1>3, <1>5, <2>1
  <2>2. CASE i \in 1 .. Len(q)
    BY <1>1, <1>2, <1>5, <2>2 DEF QueueOK
  <2>3. QED BY <1>1, <1>2, <2>1, <2>2
<1>7. Len(r) <= QUEUE
  BY <1>1, <1>2, SocketAssumption
<1>8. QED BY <1>2, <1>6, <1>7 DEF QueueOK, r, c

\* A queue in which the connection of m has got its packet.
Filled(q, m, p) ==
    [i \in DOMAIN q |-> IF q[i] = [from |-> m, data |-> << >>]
                        THEN [q[i] EXCEPT !.data = <<p>>] ELSE q[i]]

\* The connection of m gets its packet.
LEMMA QueueFilled ==
    ASSUME NEW q, NEW n, NEW dial, NEW o, QueueOK(q, n, dial, o),
           NEW m, NEW p \in PacketSet, NEW o2, \A k \in dial \ {m} : o2[k] = o[k]
    PROVE  QueueOK(Filled(q, m, p), n, dial \ {m}, o2)
<1>. DEFINE c == [from |-> m, data |-> << >>]
            r == Filled(q, m, p)
<1>1. q \in Seq(Conn) /\ Len(q) \in Nat /\ DOMAIN q = 1 .. Len(q)
      /\ \A i \in DOMAIN q : q[i] \in Conn
  BY DEF QueueOK
<1>2. ASSUME NEW i \in DOMAIN q
      PROVE  /\ r[i] \in Conn /\ r[i].from = q[i].from /\ Len(r[i].data) <= 1
             /\ r[i].data = << >> => r[i] = q[i] /\ q[i].from # m
  <2>1. CASE q[i] = c
    <3>1. r[i] = [q[i] EXCEPT !.data = <<p>>] /\ q[i].from = m
      BY <2>1 DEF Filled
    <3>2. q[i] \in Conn /\ <<p>> \in Seq(PacketSet) /\ Len(<<p>>) = 1 /\ <<p>> # << >>
      BY <1>1
    <3>. DEFINE d == <<p>>
    <3>. HIDE DEF r, d
    <3>3. r[i] = [q[i] EXCEPT !.data = d] /\ d \in Seq(PacketSet)
      BY <3>1, <3>2 DEF d
    <3>4. r[i].data = d /\ r[i].from = q[i].from /\ r[i] \in Conn
      BY <3>2, <3>3 DEF Conn
    <3>5. Len(d) = 1 /\ d # << >>
      BY DEF d
    <3>6. QED BY <3>4, <3>5
  <2>2. CASE q[i] # c
    <3>1. r[i] = q[i] /\ q[i] \in Conn
      BY <1>1, <2>2 DEF Filled
    <3>2. q[i].data = << >> => q[i].from # m
      BY <1>1, <2>2 DEF Conn
    <3>3. QED BY <3>1, <3>2 DEF QueueOK
  <2>3. QED BY <2>1, <2>2
<1>3. DOMAIN r = DOMAIN q /\ r \in Seq(Conn) /\ Len(r) = Len(q)
  <2>1. r = [i \in 1 .. Len(q) |-> r[i]]
    BY <1>1 DEF Filled
  <2>. HIDE DEF r
  <2>2. QED BY <1>1, <1>2, <2>1
<1>. HIDE DEF r
<1>4. ASSUME NEW i \in DOMAIN r, r[i].data = << >>
      PROVE  /\ r[i].from \in dial \ {m} /\ Head(o2[r[i].from].to) = n
             /\ \A j \in DOMAIN r : r[j] = r[i] => j = i
  <2>1. r[i] = q[i] /\ q[i].from # m /\ q[i].data = << >>
    BY <1>2, <1>3, <1>4
  <2>2. q[i].from \in dial /\ Head(o[q[i].from].to) = n
        /\ \A j \in DOMAIN q : q[j] = q[i] => j = i
    BY <1>3, <2>1 DEF QueueOK
  <2>3. \A j \in DOMAIN r : r[j] = r[i] => r[j] = q[j]
    BY <1>2, <1>3, <1>4
  <2>4. QED BY <1>3, <2>1, <2>2, <2>3
<1>5. \A i \in DOMAIN r : <<r[i].from, n>> \in Sockets /\ Len(r[i].data) <= 1
  BY <1>2, <1>3 DEF QueueOK
<1>6. Len(r) <= QUEUE
  BY <1>3 DEF QueueOK
<1>7. QED BY <1>3, <1>4, <1>5, <1>6 DEF QueueOK, r

-----------------------------------------------------------------------------
(* The steps of the nodes.                                                 *)

\* The queues of all nodes, when the nodes that are connected stay it.
LEMMA QueuesSame ==
    ASSUME SockInv, NEW dial2, NEW o2,
           \A m \in dialled : m \in dial2 /\ o2[m] = out[m]
    PROVE  \A n \in Nodes : QueueOK(backlog[n], n, dial2, o2)
<1>1. ASSUME NEW n \in Nodes PROVE QueueOK(backlog[n], n, dial2, o2)
  <2>1. QueueOK(backlog[n], n, dialled, out)
    BY DEF SockInv
  <2>2. QED BY <2>1, QueueSame
<1>2. QED BY <1>1

\* Going on to the next port leaves the ports that are left.
LEMMA RestOut ==
    ASSUME SockInv, NEW n \in Nodes, out[n].to # << >>
    PROVE  /\ DOMAIN OutRest(n) = Nodes
           /\ \A m \in Nodes : OutOK(OutRest(n)[m], m)
           /\ \A m \in Nodes \ {n} : OutRest(n)[m] = out[m]
<1>1. DOMAIN out = Nodes /\ \A m \in Nodes : OutOK(out[m], m)
  BY DEF SockInv
<1>2. DOMAIN OutRest(n) = Nodes /\ \A m \in Nodes \ {n} : OutRest(n)[m] = out[m]
  BY <1>1 DEF OutRest
<1>3. OutOK(Nothing, n)
  BY EmptySeq DEF OutOK, Nothing
<1>4. OutOK([pkt |-> out[n].pkt, to |-> Tail(out[n].to)], n)
  <2>1. out[n].to \in Seq(Neighbours(n)) /\ out[n].pkt \in PacketSet
    BY <1>1 DEF OutOK
  <2>2. Tail(out[n].to) \in Seq(Neighbours(n))
    BY <2>1
  <2>3. QED BY <2>1, <2>2 DEF OutOK
<1>5. OutOK(OutRest(n)[n], n)
  BY <1>1, <1>3, <1>4 DEF OutRest
<1>6. QED BY <1>1, <1>2, <1>5

\* The port that a packet is sent to first leads to a node.
LEMMA ToIsNode ==
    ASSUME SockInv, NEW n \in Nodes, out[n].to # << >>
    PROVE  To(n) \in Neighbours(n) /\ To(n) \in Nodes /\ out[n].pkt \in PacketSet
<1>1. out[n].to \in Seq(Neighbours(n)) /\ out[n].pkt \in PacketSet
  BY DEF SockInv, OutOK
<1>2. To(n) \in Neighbours(n)
  BY <1>1 DEF To
<1>3. QED BY <1>1, <1>2, NeighbourWire

\* Reading a port keeps the pipes, the queues and the count of descriptors.
LEMMA TakeOneType ==
    ASSUME SockInv, NEW n \in Nodes, NEW m \in Neighbours(n), TakeOne(n, m)
    PROVE  /\ WireTypeOK' /\ DOMAIN backlog' = Nodes
           /\ fds' \in [Nodes -> 0 .. FD_MAX]
           /\ \A k \in Nodes : QueueOK(backlog'[k], k, dialled, out)
<1>1. /\ WireTypeOK /\ DOMAIN backlog = Nodes /\ fds \in [Nodes -> 0 .. FD_MAX]
      /\ \A k \in Nodes : QueueOK(backlog[k], k, dialled, out)
  BY DEF SockInv
<1>2. <<m, n>> \in Wires
  BY NeighbourWire
<1>3. WireTypeOK'
  BY <1>1, <1>2, ReadFromType DEF TakeOne, WireTypeOK
<1>4. CASE backlog' = backlog /\ fds' = fds
  BY <1>1, <1>3, <1>4
<1>5. CASE /\ CanAccept(n) /\ backlog' = [backlog EXCEPT ![n] = Tail(@)]
           /\ fds' = [fds EXCEPT ![n] = @ + 1]
  <2>1. QueueOK(Tail(backlog[n]), n, dialled, out)
    BY <1>1, <1>5, QueueTail DEF CanAccept
  <2>2. fds[n] + 1 \in 0 .. FD_MAX
    BY <1>1, <1>5, SocketAssumption DEF CanAccept
  <2>3. fds' \in [Nodes -> 0 .. FD_MAX]
    BY <1>1, <1>5, <2>2
  <2>4. \A k \in Nodes : QueueOK(backlog'[k], k, dialled, out)
    BY <1>1, <1>5, <2>1
  <2>5. QED BY <1>1, <1>3, <1>5, <2>3, <2>4
<1>6. QED BY <1>4, <1>5 DEF TakeOne

\* What a node finds, memory that it takes for a packet too, is a packet.
LEMMA FoundType ==
    ASSUME SockInv, NEW n \in Nodes, NEW m \in Neighbours(n), NEW p \in Found(n, m)
    PROVE  p \in PacketSet
<1>1. <<m, n>> \in Wires /\ WireTypeOK /\ QueueOK(backlog[n], n, dialled, out)
  BY NeighbourWire DEF SockInv
<1>2. CASE p \in Arrivals(wire[<<m, n>>])
  BY <1>1, <1>2, ArrivalsPackets DEF WireTypeOK
<1>3. CASE CanAccept(n) /\ p \in Range(backlog[n][1].data)
  BY <1>1, <1>3, QueueTail DEF CanAccept
<1>4. CASE p \in Phantoms
  BY <1>4, PhantomAssumption
<1>5. QED BY <1>2, <1>3, <1>4 DEF Found

\* A node that has something to send keeps the invariant, whatever its next port is.
LEMMA SendType ==
    ASSUME SockInv, NEW n \in Nodes, Send(n)
    PROVE  SockInv'
<1>1. /\ WireTypeOK /\ SwitchTypeOK /\ dialled \subseteq Nodes
      /\ DOMAIN out = Nodes /\ DOMAIN backlog = Nodes
      /\ fds \in [Nodes -> 0 .. FD_MAX]
      /\ \A m \in dialled : out[m].to # << >> /\ <<m, Head(out[m].to)>> \in Sockets
      /\ \A m \in Nodes : OutOK(out[m], m) /\ QueueOK(backlog[m], m, dialled, out)
  BY DEF SockInv
<1>2. out[n].to # << >>
  BY DEF Send, WritePipe, Connect, Connects, ConnectFails, SendData, Sending
<1>3. To(n) \in Nodes /\ out[n].pkt \in PacketSet
  BY <1>2, ToIsNode
<1>4. /\ DOMAIN OutRest(n) = Nodes
      /\ \A m \in Nodes : OutOK(OutRest(n)[m], m)
      /\ \A m \in Nodes \ {n} : OutRest(n)[m] = out[m]
  BY <1>2, RestOut
<1>5. SwitchTypeOK' /\ fds' = fds
  BY <1>1 DEF Send, WritePipe, Connect, Connects, ConnectFails, SendData,
              switchVars, SwitchTypeOK
<1>6. CASE WritePipe(n) \/ ConnectFails(n)
  <2>1. n \notin dialled
    BY <1>1, <1>6 DEF WritePipe, ConnectFails, Connects, To
  <2>2. out' = OutRest(n) /\ backlog' = backlog /\ dialled' = dialled
    BY <1>6 DEF WritePipe, ConnectFails
  <2>3. WireTypeOK'
    BY <1>1, <1>3, <1>6, SendToType DEF WritePipe, ConnectFails, Connects, WireTypeOK
  <2>4. \A m \in dialled : out'[m] = out[m]
    BY <1>1, <1>4, <2>1, <2>2
  <2>5. \A m \in Nodes : QueueOK(backlog[m], m, dialled, out')
    BY <2>4, QueuesSame
  <2>6. QED BY <1>1, <1>4, <1>5, <2>2, <2>3, <2>4, <2>5 DEF SockInv
<1>7. CASE Connect(n)
  <2>1. /\ n \notin dialled /\ <<n, To(n)>> \in Sockets /\ Len(backlog[To(n)]) < QUEUE
        /\ backlog' = [backlog EXCEPT ![To(n)] = Append(@, [from |-> n, data |-> << >>])]
        /\ dialled' = dialled \cup {n} /\ out' = out /\ wire' = wire
    BY <1>7 DEF Connect, Connects
  <2>2. \A m \in Nodes : QueueOK(backlog[m], m, dialled \cup {n}, out)
    BY QueuesSame
  <2>3. QueueOK(Append(backlog[To(n)], [from |-> n, data |-> << >>]), To(n),
                dialled \cup {n}, out)
    BY <1>1, <1>3, <2>1, QueueAppend DEF To
  <2>4. DOMAIN backlog' = Nodes
        /\ \A m \in Nodes : QueueOK(backlog'[m], m, dialled \cup {n}, out)
    BY <1>1, <1>3, <2>1, <2>2, <2>3
  <2>5. \A m \in dialled' : out[m].to # << >> /\ <<m, Head(out[m].to)>> \in Sockets
    BY <1>1, <1>2, <2>1 DEF To
  <2>6. WireTypeOK'
    BY <1>1, <2>1 DEF WireTypeOK
  <2>7. dialled' \subseteq Nodes
    BY <1>1, <2>1
  <2>8. QED BY <1>1, <1>5, <2>1, <2>4, <2>5, <2>6, <2>7 DEF SockInv
<1>8. CASE SendData(n)
  <2>1. /\ backlog' = [backlog EXCEPT ![To(n)] = Filled(@, n, out[n].pkt)]
        /\ dialled' = dialled \ {n} /\ out' = OutRest(n) /\ wire' = wire
    BY <1>8 DEF SendData, Filled
  <2>2. \A m \in dialled \ {n} : OutRest(n)[m] = out[m]
    BY <1>1, <1>4
  <2>3. QueueOK(Filled(backlog[To(n)], n, out[n].pkt), To(n), dialled \ {n}, OutRest(n))
    BY <1>1, <1>3, <2>2, QueueFilled
  <2>4. ASSUME NEW m \in Nodes, m # To(n)
        PROVE  QueueOK(backlog[m], m, dialled \ {n}, OutRest(n))
    <3>1. \A k \in dialled : Head(out[k].to) = m
                             => k \in dialled \ {n} /\ OutRest(n)[k] = out[k]
      BY <2>2, <2>4 DEF To
    <3>2. QueueOK(backlog[m], m, dialled, out)
      BY <1>1
    <3>3. QED BY <3>1, <3>2, QueueSame
  <2>5. DOMAIN backlog' = Nodes
        /\ \A m \in Nodes : QueueOK(backlog'[m], m, dialled \ {n}, OutRest(n))
    BY <1>1, <1>3, <2>1, <2>3, <2>4
  <2>6. \A m \in dialled' : out'[m].to # << >> /\ <<m, Head(out'[m].to)>> \in Sockets
    BY <1>1, <2>1, <2>2
  <2>7. WireTypeOK'
    BY <1>1, <2>1 DEF WireTypeOK
  <2>8. QED BY <1>1, <1>4, <1>5, <2>1, <2>5, <2>6, <2>7 DEF SockInv
<1>9. QED BY <1>6, <1>7, <1>8 DEF Send

\* A node that takes up a packet when it has nothing to send keeps the invariant.
LEMMA TakesUpType ==
    ASSUME SockInv, NEW n \in Nodes, out[n].to = << >>,
           NEW x, OutOK(x, n), out' = [out EXCEPT ![n] = x],
           dialled' = dialled, DOMAIN backlog' = Nodes, fds' \in [Nodes -> 0 .. FD_MAX],
           \A k \in Nodes : QueueOK(backlog'[k], k, dialled, out),
           WireTypeOK', SwitchTypeOK'
    PROVE  SockInv'
<1>1. /\ dialled \subseteq Nodes /\ DOMAIN out = Nodes
      /\ \A m \in dialled : out[m].to # << >> /\ <<m, Head(out[m].to)>> \in Sockets
      /\ \A m \in Nodes : OutOK(out[m], m)
  BY DEF SockInv
<1>2. DOMAIN out' = Nodes /\ \A m \in Nodes : OutOK(out'[m], m)
  BY <1>1
<1>3. \A m \in dialled : out'[m] = out[m]
  BY <1>1
<1>4. ASSUME NEW k \in Nodes PROVE QueueOK(backlog'[k], k, dialled, out')
  <2>1. QueueOK(backlog'[k], k, dialled, out)
    OBVIOUS
  <2>2. QED BY <1>3, <2>1, QueueSame
<1>5. QED BY <1>1, <1>2, <1>3, <1>4 DEF SockInv

\* A switch that finds nothing keeps the invariant.
LEMMA HearsNoneType ==
    ASSUME SockInv, NEW s \in Switches, SwitchHearsNone(s)
    PROVE  SockInv'
<1>1. s \in Nodes /\ From(s) \in Neighbours(s)
  BY FromIsNeighbour DEF SockInv, Nodes
<1>2. TakeOne(s, From(s)) /\ sport' = NextPort(s)
      /\ UNCHANGED <<table, alive, out, dialled>>
  BY DEF SwitchHearsNone
<1>3. /\ WireTypeOK' /\ DOMAIN backlog' = Nodes
      /\ fds' \in [Nodes -> 0 .. FD_MAX]
      /\ \A k \in Nodes : QueueOK(backlog'[k], k, dialled, out)
  BY <1>1, <1>2, TakeOneType
<1>4. SwitchTypeOK'
  BY <1>2, NextPortType DEF SockInv, SwitchTypeOK
<1>5. QED BY <1>2, <1>3, <1>4 DEF SockInv

\* A switch that finds a packet learns a port of its own and takes up the packet.
LEMMA HearsType ==
    ASSUME SockInv, NEW s \in Switches, SwitchHears(s)
    PROVE  SockInv'
<1>1. s \in Nodes /\ From(s) \in Neighbours(s) /\ From(s) \in Nodes
  BY FromIsNeighbour DEF SockInv, Nodes
<1>2. PICK p \in Found(s, From(s)) :
        /\ table' = [table EXCEPT ![s] = Learnt(s, p)]
        /\ \E dests \in Outputs(s, Learnt(s, p), p.dst) :
             out' = [out EXCEPT ![s] = [pkt |-> p, to |-> Chosen(Ports[s], dests)]]
  BY DEF SwitchHears
<1>3. PICK dests : out' = [out EXCEPT ![s] = [pkt |-> p, to |-> Chosen(Ports[s], dests)]]
  BY <1>2
<1>4. /\ out[s].to = << >> /\ TakeOne(s, From(s)) /\ sport' = NextPort(s)
      /\ UNCHANGED <<alive, dialled>>
  BY DEF SwitchHears, Polls
<1>5. /\ WireTypeOK' /\ DOMAIN backlog' = Nodes
      /\ fds' \in [Nodes -> 0 .. FD_MAX]
      /\ \A k \in Nodes : QueueOK(backlog'[k], k, dialled, out)
  BY <1>1, <1>4, TakeOneType
<1>6. Chosen(Ports[s], dests) \in Seq(Neighbours(s))
  <2>1. Ports[s] \in Seq(Neighbours(s))
    BY <1>1, PortAssumption, SeqOfRange DEF Neighbours
  <2>2. Chosen(Ports[s], dests) \in Seq(Neighbours(s) \cap dests)
    BY <2>1, ChosenType
  <2>3. QED BY <2>2
<1>7. OutOK([pkt |-> p, to |-> Chosen(Ports[s], dests)], s)
  BY <1>1, <1>6, FoundType DEF OutOK
<1>8. SwitchTypeOK'
  <2>1. table[s] \in [TableIndex -> Nodes \cup {None}]
    BY DEF SockInv, SwitchTypeOK
  <2>2. Learnt(s, p) \in [TableIndex -> Nodes \cup {None}]
    BY <1>1, <2>1, LearnType DEF Learnt
  <2>3. QED BY <1>2, <1>4, <2>2, NextPortType DEF SockInv, SwitchTypeOK
<1>9. QED BY <1>1, <1>3, <1>4, <1>5, <1>7, <1>8, TakesUpType

\* A switch that dies leaves an empty queue.
LEMMA DiesType ==
    ASSUME SockInv, NEW s \in Switches, SwitchDies(s)
    PROVE  SockInv'
<1>1. /\ alive' = alive \ {s} /\ backlog' = [backlog EXCEPT ![s] = << >>]
      /\ UNCHANGED <<wire, table, sport, out, dialled, fds>>
  BY DEF SwitchDies
<1>2. QueueOK(<< >>, s, dialled, out)
  BY EmptySeq, SocketAssumption DEF QueueOK
<1>3. DOMAIN backlog' = Nodes /\ \A n \in Nodes : QueueOK(backlog'[n], n, dialled, out)
  BY <1>1, <1>2 DEF SockInv
<1>4. SwitchTypeOK' /\ WireTypeOK'
  BY <1>1 DEF SockInv, SwitchTypeOK, WireTypeOK
<1>5. QED BY <1>1, <1>3, <1>4 DEF SockInv

\* A host takes up a packet for all its ports.
LEMMA HostSendsType ==
    ASSUME SockInv, NEW h \in Hosts, HostSends(h)
    PROVE  SockInv'
<1>1. h \in Nodes /\ out[h].to = << >>
      /\ UNCHANGED <<wire, switchVars, backlog, dialled, fds>>
  BY DEF HostSends, Nodes
<1>2. PICK p \in Traffic : out' = [out EXCEPT ![h] = [pkt |-> p, to |-> Ports[h]]]
  BY DEF HostSends
<1>3. Ports[h] \in Seq(Neighbours(h)) /\ p \in PacketSet
  BY <1>1, PortAssumption, SeqOfRange, SockTrafficAssumption DEF Neighbours
<1>4. OutOK([pkt |-> p, to |-> Ports[h]], h)
  BY <1>3 DEF OutOK
<1>5. /\ WireTypeOK' /\ SwitchTypeOK' /\ DOMAIN backlog' = Nodes
      /\ fds' \in [Nodes -> 0 .. FD_MAX]
      /\ \A k \in Nodes : QueueOK(backlog'[k], k, dialled, out)
  BY <1>1 DEF SockInv, WireTypeOK, SwitchTypeOK, switchVars
<1>6. QED BY <1>1, <1>2, <1>4, <1>5, TakesUpType

\* A host reads a pipe or accepts.
LEMMA HostReadsType ==
    ASSUME SockInv, NEW h \in Hosts, HostReads(h)
    PROVE  SockInv'
<1>1. PICK m \in Neighbours(h) : TakeOne(h, m)
  BY DEF HostReads
<1>2. h \in Nodes /\ UNCHANGED <<switchVars, out, dialled>>
  BY DEF HostReads, Nodes
<1>3. /\ WireTypeOK' /\ DOMAIN backlog' = Nodes
      /\ fds' \in [Nodes -> 0 .. FD_MAX]
      /\ \A k \in Nodes : QueueOK(backlog'[k], k, dialled, out)
  BY <1>1, <1>2, TakeOneType
<1>4. SwitchTypeOK'
  BY <1>2 DEF SockInv, SwitchTypeOK, switchVars
<1>5. QED BY <1>2, <1>3, <1>4 DEF SockInv

\* At the start there is no connection.
LEMMA SockInvInit == Init => SockInv
<1>. SUFFICES ASSUME Init PROVE SockInv
  OBVIOUS
<1>1. WireTypeOK /\ SwitchTypeOK
  BY EmptySeq, SwitchTypeInit DEF Init, WireInit, WireTypeOK
<1>2. ASSUME NEW n \in Nodes
      PROVE  OutOK(out[n], n) /\ QueueOK(backlog[n], n, dialled, out)
  <2>1. out[n] = [pkt |-> << >>, to |-> << >>] /\ backlog[n] = << >>
    BY DEF Init, Nothing
  <2>2. OutOK(out[n], n)
    BY <2>1, EmptySeq DEF OutOK
  <2>3. QueueOK(<< >>, n, dialled, out)
    BY EmptySeq, SocketAssumption DEF QueueOK
  <2>4. QED BY <2>1, <2>2, <2>3
<1>3. fds \in [Nodes -> 0 .. FD_MAX]
  BY SocketAssumption DEF Init
<1>4. QED BY <1>1, <1>2, <1>3 DEF Init, SockInv

\* Every step keeps the invariant.
LEMMA SockInvStep == SockInv /\ [Next]_vars => SockInv'
<1>. SUFFICES ASSUME SockInv, [Next]_vars PROVE SockInv'
  OBVIOUS
<1>1. ASSUME NEW s \in Switches, SwitchRuns(s) PROVE SockInv'
  BY <1>1, HearsNoneType, HearsType, DiesType, SendType DEF SwitchRuns, Nodes
<1>2. ASSUME NEW h \in Hosts, HostSends(h) \/ HostReads(h) \/ Send(h) PROVE SockInv'
  BY <1>2, HostSendsType, HostReadsType, SendType DEF Nodes
<1>3. CASE UNCHANGED vars
  BY <1>3 DEF vars, sockVars, switchVars, SockInv, WireTypeOK, SwitchTypeOK
<1>. QED  BY <1>1, <1>2, <1>3 DEF Next

\* Each variable has its type, and of each node at most one connection waits
\* without its packet, in the queue of the node that it is about to send to
\* (packet.c:68-81); no queue is longer than its listener allows.
THEOREM SockTypeCorrect == Spec => []SockTypeOK
<1>. QED  BY SockInvIsType, SockInvInit, SockInvStep, PTL DEF Spec

=============================================================================
