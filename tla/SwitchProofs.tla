---------------------------- MODULE SwitchProofs -----------------------------
(***************************************************************************)
(* What a read and a write of a pipe do to the packets in it, and what the *)
(* scan of the ports and learning do: lemmas for the networks of switches, *)
(* whose links are pipes (SwitchNetProofs) or also sockets (SockNetProofs).*)
(***************************************************************************)
EXTENDS Switch, FiniteSetTheorems, SequenceTheorems, TLAPS

-----------------------------------------------------------------------------
(* What a pipe does to the packets in it.                                  *)

\* A host's id survives the conversion to a char (main.h, struct packet).
LEMMA CharOfHost == \A h \in Hosts : Char(h) = h
BY HostIdAssumption DEF Char

\* The total of a pipe is a number of bytes.
LEMMA TotalType == ASSUME NEW q \in Seq(Chunk) PROVE Total(q) \in Int
<1>1. CASE q = << >>
  BY <1>1 DEF Total
<1>2. CASE q # << >>
  <2>1. Len(q) \in 1 .. Len(q)
    BY <1>2, EmptySeq, LenProperties
  <2>2. q[Len(q)] \in Chunk
    BY <2>1, ElementOfSeq
  <2>. QED  BY <1>2, <2>2 DEF Total, Chunk
<1>. QED  BY <1>1, <1>2

\* A packet of the model has the type of the bytes it stands for, so a chunk
\* made of one is a chunk.
LEMMA PushType ==
    ASSUME NEW q \in Seq(Chunk), NEW p \in PacketSet
    PROVE  Push(q, p) \in Seq(Chunk)
<1>1. Size(p) \in Int
  BY DEF Size, HeaderSize, PacketSet
<1>2. Total(q) \in Int
  BY TotalType
<1>3. [pkt |-> p, end |-> Total(q) + Size(p)] \in Chunk
  BY <1>1, <1>2 DEF Chunk
<1>. QED  BY <1>3 DEF Push

\* packet_send adds its packet to a pipe or leaves the pipe as it is.
LEMMA PushPackets ==
    ASSUME NEW q \in Seq(Chunk), NEW p \in PacketSet,
           NEW i \in DOMAIN Push(q, p)
    PROVE  \/ Push(q, p)[i].pkt = p
           \/ i \in DOMAIN q /\ Push(q, p)[i].pkt = q[i].pkt
<1>. DEFINE c == [pkt |-> p, end |-> Total(q) + Size(p)]
<1>1. CASE Push(q, p) = q
  BY <1>1
<1>2. CASE Push(q, p) = Append(q, c)
  <2>1. i \in 1 .. Len(q) + 1
    BY <1>2
  <2>2. CASE i = Len(q) + 1
    BY <1>2, <2>2
  <2>3. CASE i \in 1 .. Len(q)
    BY <1>2, <2>3
  <2>. QED  BY <2>1, <2>2, <2>3
<1>. QED  BY <1>1, <1>2 DEF Push

\* As FS_Interval says, for the interval that is the domain of a sequence.
LEMMA IntervalFromOne ==
    ASSUME NEW n \in Nat
    PROVE  IsFiniteSet(1 .. n) /\ Cardinality(1 .. n) = n
<1>1. /\ IsFiniteSet(1 .. n)
      /\ Cardinality(1 .. n) = IF 1 > n THEN 0 ELSE n - 1 + 1
  BY FS_Interval
<1>2. (IF 1 > n THEN 0 ELSE n - 1 + 1) = n
  OBVIOUS
<1>. QED  BY <1>1, <1>2

\* A read takes some number of packets from the front of a pipe.
LEMMA WholeTakenBound ==
    ASSUME NEW q \in Seq(Chunk)
    PROVE  WholeTaken(q) \in 0 .. Len(q)
<1>. DEFINE T == {i \in DOMAIN q : q[i].end <= Taken(q)}
<1>. HIDE DEF T
<1>1. Len(q) \in Nat /\ T \subseteq 1 .. Len(q)
  BY LenProperties DEF T
<1>2. IsFiniteSet(1 .. Len(q)) /\ Cardinality(1 .. Len(q)) = Len(q)
  BY <1>1, IntervalFromOne
<1>3. IsFiniteSet(T) /\ Cardinality(T) <= Len(q)
  BY <1>1, <1>2, FS_Subset
<1>4. Cardinality(T) \in Nat
  BY <1>3, FS_CardinalityType
<1>. QED  BY <1>1, <1>3, <1>4 DEF WholeTaken, T

\* What a read leaves in a pipe was there before.
LEMMA RestPackets ==
    ASSUME NEW q \in Seq(Chunk)
    PROVE  /\ Rest(q) \in Seq(Chunk)
           /\ \A i \in DOMAIN Rest(q) : \E j \in DOMAIN q : Rest(q)[i].pkt = q[j].pkt
<1>. DEFINE n == WholeTaken(q)
            F(i) == [pkt |-> q[i + n].pkt, end |-> q[i + n].end - Taken(q)]
<1>1. n \in Nat /\ Len(q) - n \in Nat
  BY WholeTakenBound
<1>2. Taken(q) \in Int
  BY TotalType, SizeAssumption DEF Taken, ReadMax, HeaderSize
<1>3. ASSUME NEW i \in 1 .. Len(q) - n
      PROVE  i + n \in DOMAIN q /\ F(i) \in Chunk /\ F(i).pkt = q[i + n].pkt
  <2>1. i + n \in DOMAIN q
    BY <1>1
  <2>2. q[i + n] \in Chunk
    BY <2>1
  <2>. QED  BY <1>2, <2>1, <2>2 DEF Chunk
<1>4. Rest(q) = [i \in 1 .. Len(q) - n |-> F(i)]
  BY DEF Rest
<1>. HIDE DEF n, F
<1>5. Rest(q) \in Seq(Chunk)
  BY <1>1, <1>3, <1>4
<1>6. ASSUME NEW i \in DOMAIN Rest(q)
      PROVE  \E j \in DOMAIN q : Rest(q)[i].pkt = q[j].pkt
  <2>1. i \in 1 .. Len(q) - n /\ Rest(q)[i] = F(i)
    BY <1>4
  <2>. QED  BY <1>3, <2>1
<1>. QED  BY <1>5, <1>6

\* Every byte of a packet is a char.
LEMMA ByteType ==
    ASSUME NEW p \in PacketSet, NEW i \in Int
    PROVE  ByteAt(p, i) \subseteq -128..127
<1>1. /\ p.src \in -128..127 /\ p.dst \in -128..127
      /\ p.body \in Seq(Bytes) /\ Len(p.body) \in Int
  BY DEF PacketSet
<1>2. TypeBytes(p.type) \subseteq -128..127
  <2>1. CASE p.type \in DOMAIN TypeCode
    BY <2>1 DEF TypeBytes, TypeCode
  <2>2. CASE p.type \notin DOMAIN TypeCode
    <3>1. ASSUME NEW n \in Noises PROVE n.src \in -128..127
      BY NoiseAssumption DEF PacketSet
    <3>2. TypeBytes(p.type) = {n.src : n \in Noises}
      BY <2>2 DEF TypeBytes
    <3>. QED  BY <3>1, <3>2
  <2>. QED  BY <2>1, <2>2
<1>3. \A n \in Int : Char(n) \in -128..127
  BY DEF Char
<1>4. ASSUME NEW k \in DOMAIN p.body PROVE p.body[k] \in -128..127
  <2>1. p.body[k] \in Bytes
    BY <1>1, ElementOfSeq
  <2>. QED  BY <2>1, ByteAssumption
<1>5. CASE i \in {1, 2, 3, 4}
  BY <1>1, <1>2, <1>3, <1>5 DEF ByteAt
<1>6. CASE i \notin {1, 2, 3, 4}
  <2>1. ByteAt(p, i) = {p.body[k] : k \in {i - HeaderSize} \cap DOMAIN p.body}
    BY <1>6 DEF ByteAt
  <2>. QED  BY <1>4, <2>1
<1>. QED  BY <1>5, <1>6

\* A read reports the first packet that was in the pipe, or what is left of one
\* that was cut, which begins with a byte of it.
LEMMA ArrivalsPackets ==
    ASSUME NEW q \in Seq(Chunk), NEW p \in Arrivals(q)
    PROVE  /\ p \in PacketSet
           /\ q # << >> /\ 1 \in DOMAIN q
           /\ q[1].end = Size(q[1].pkt) => p = q[1].pkt
<1>1. q # << >> /\ 1 \in DOMAIN q /\ q[1] \in Chunk
  BY DEF Arrivals
<1>2. q[1].pkt \in PacketSet /\ q[1].end \in Int
  BY <1>1 DEF Chunk
<1>3. CASE q[1].end = Size(q[1].pkt)
  BY <1>1, <1>2, <1>3 DEF Arrivals
<1>4. CASE q[1].end # Size(q[1].pkt)
  <2>1. PICK n \in Noises, b \in FirstLeft(q[1]) : p = [n EXCEPT !.src = b]
    BY <1>1, <1>4 DEF Arrivals
  <2>2. Size(q[1].pkt) - q[1].end + 1 \in Int
    BY <1>2 DEF Size, HeaderSize, PacketSet
  <2>3. b \in -128..127
    BY <1>2, <2>1, <2>2, ByteType DEF FirstLeft
  <2>4. n \in PacketSet
    BY NoiseAssumption
  <2>. QED  BY <1>1, <1>4, <2>1, <2>3, <2>4 DEF PacketSet
<1>. QED  BY <1>1, <1>3, <1>4

-----------------------------------------------------------------------------
(* The same of all the pipes together.                                     *)

\* packet_send keeps the type of the pipes.
LEMMA SendToType ==
    ASSUME NEW w \in [Wires -> Seq(Chunk)], NEW n, NEW dests, NEW p \in PacketSet
    PROVE  SendTo(w, n, dests, p) \in [Wires -> Seq(Chunk)]
BY PushType DEF SendTo

\* packet_recv keeps the type of the pipes.
LEMMA ReadFromType ==
    ASSUME NEW w \in [Wires -> Seq(Chunk)], NEW e \in Wires
    PROVE  ReadFrom(w, e) \in [Wires -> Seq(Chunk)]
BY RestPackets DEF ReadFrom

\* Whatever is in a pipe after node n has sent p was there before or is p, in a
\* pipe that n writes to.
LEMMA SendToPackets ==
    ASSUME NEW w \in [Wires -> Seq(Chunk)], NEW n, NEW dests, NEW p \in PacketSet,
           NEW e \in Wires, NEW i \in DOMAIN SendTo(w, n, dests, p)[e]
    PROVE  \/ e[1] = n /\ SendTo(w, n, dests, p)[e][i].pkt = p
           \/ \E j \in DOMAIN w[e] : SendTo(w, n, dests, p)[e][i].pkt = w[e][j].pkt
<1>1. CASE e[1] = n /\ e[2] \in dests
  <2>1. SendTo(w, n, dests, p)[e] = Push(w[e], p)
    BY <1>1 DEF SendTo
  <2>. QED  BY <1>1, <2>1, PushPackets
<1>2. CASE ~(e[1] = n /\ e[2] \in dests)
  BY <1>2 DEF SendTo
<1>. QED  BY <1>1, <1>2

\* Whatever is in a pipe after a read was there before.
LEMMA ReadFromPackets ==
    ASSUME NEW w \in [Wires -> Seq(Chunk)], NEW f \in Wires, NEW e \in Wires,
           NEW i \in DOMAIN ReadFrom(w, f)[e]
    PROVE  \E j \in DOMAIN w[e] : ReadFrom(w, f)[e][i].pkt = w[e][j].pkt
BY RestPackets DEF ReadFrom

\* The pipes that a node reads come from its neighbours.
LEMMA NeighbourWire ==
    ASSUME NEW a \in Nodes, NEW n \in Neighbours(a)
    PROVE  n \in Nodes /\ <<n, a>> \in Wires
<1>1. Ports[a] \in Seq(Nodes)
  BY PortAssumption
<1>2. PICK i \in DOMAIN Ports[a] : n = Ports[a][i]
  BY DEF Neighbours, Range
<1>3. n \in Nodes
  BY <1>1, <1>2
<1>4. a \in Neighbours(n)
  BY <1>3, PortAssumption
<1>. QED  BY <1>3, <1>4 DEF Wires

-----------------------------------------------------------------------------
(* Pipes that hold packets without payload alone: all are of one size, and *)
(* no read ends in the middle of one.                                      *)

\* A read takes a whole number of packets without payload (main.h:3: 100 + 4).
WholeHeaders == PAYLOAD_MAX % HeaderSize = 0

Headers == {p \in PacketSet : p.body = << >>}

\* Pipe q holds packets of S, headers all, from the first byte of one to the last
\* byte of one.
Whole(q, S) == \A i \in DOMAIN q : q[i].pkt \in S /\ q[i].end = HeaderSize * i

\* The bytes in such a pipe.
LEMMA WholeTotal ==
    ASSUME NEW S, S \subseteq Headers, NEW q \in Seq(Chunk), Whole(q, S)
    PROVE  Total(q) = HeaderSize * Len(q)
<1>1. CASE q = << >>
  BY <1>1 DEF Total, HeaderSize
<1>2. CASE q # << >>
  <2>1. Len(q) \in DOMAIN q
    BY <1>2, EmptySeq
  <2>2. QED BY <1>2, <2>1 DEF Total, Whole
<1>3. QED BY <1>1, <1>2

LEMMA PushWhole ==
    ASSUME NEW S, S \subseteq Headers, NEW q \in Seq(Chunk), Whole(q, S), NEW p \in S
    PROVE  Whole(Push(q, p), S)
<1>. DEFINE c == [pkt |-> p, end |-> Total(q) + Size(p)]
            r == Append(q, c)
<1>1. Len(q) \in Nat /\ DOMAIN q = 1 .. Len(q)
  OBVIOUS
<1>2. Size(p) = HeaderSize
  BY EmptySeq DEF Headers, Size, HeaderSize
<1>3. c.pkt = p /\ c.end = HeaderSize * (Len(q) + 1)
  BY <1>1, <1>2, WholeTotal DEF HeaderSize
<1>. HIDE DEF c
<1>4. DOMAIN r = 1 .. Len(q) + 1 /\ r[Len(q) + 1] = c /\ \A i \in DOMAIN q : r[i] = q[i]
  BY <1>1
<1>. HIDE DEF r
<1>5. Whole(r, S)
  <2>1. ASSUME NEW i \in DOMAIN r PROVE r[i].pkt \in S /\ r[i].end = HeaderSize * i
    <3>1. CASE i = Len(q) + 1
      BY <1>3, <1>4, <3>1
    <3>2. CASE i \in DOMAIN q
      BY <1>4, <3>2 DEF Whole
    <3>3. QED BY <1>1, <1>4, <2>1, <3>1, <3>2
  <2>2. QED BY <2>1 DEF Whole
<1>6. Push(q, p) = r \/ Push(q, p) = q
  BY DEF Push, r, c
<1>7. QED BY <1>5, <1>6

\* A read takes the last byte of every packet that it takes a byte of.
LEMMA RestWhole ==
    ASSUME NEW S, S \subseteq Headers, NEW q \in Seq(Chunk), Whole(q, S), WholeHeaders
    PROVE  Whole(Rest(q), S)
<1>1. Len(q) \in Nat /\ DOMAIN q = 1 .. Len(q)
  OBVIOUS
<1>2. PICK k \in Nat : ReadMax = HeaderSize * k
  <2>1. PAYLOAD_MAX = 4 * (PAYLOAD_MAX \div 4) /\ PAYLOAD_MAX \div 4 \in Nat
    BY SizeAssumption DEF WholeHeaders, HeaderSize
  <2>2. PICK j \in Nat : PAYLOAD_MAX = 4 * j
    BY <2>1
  <2>3. j + 1 \in Nat /\ ReadMax = HeaderSize * (j + 1)
    BY <2>2 DEF ReadMax, HeaderSize
  <2>4. QED BY <2>3
<1>3. PICK m \in 0 .. Len(q) : Taken(q) = HeaderSize * m
  <2>1. Total(q) = HeaderSize * Len(q)
    BY WholeTotal
  <2>2. CASE Total(q) <= ReadMax
    BY <1>1, <2>1, <2>2 DEF Taken
  <2>3. CASE ~(Total(q) <= ReadMax)
    <3>1. k \in 0 .. Len(q)
      BY <1>1, <1>2, <2>1, <2>3 DEF HeaderSize
    <3>2. QED BY <1>2, <2>3, <3>1 DEF Taken
  <2>4. QED BY <2>2, <2>3
<1>4. {i \in DOMAIN q : q[i].end <= Taken(q)} = 1 .. m
  <2>1. \A i \in DOMAIN q : q[i].end <= Taken(q) <=> i <= m
    BY <1>1, <1>3 DEF Whole, HeaderSize
  <2>2. QED BY <1>1, <2>1
<1>5. WholeTaken(q) = m
  <2>1. m \in Nat
    OBVIOUS
  <2>2. Cardinality(1 .. m) = m
    BY <2>1, IntervalFromOne
  <2>3. QED BY <1>4, <2>2 DEF WholeTaken
<1>6. Rest(q) = [i \in 1 .. Len(q) - m |-> [pkt |-> q[i + m].pkt,
                                            end |-> q[i + m].end - HeaderSize * m]]
  BY <1>3, <1>5 DEF Rest
<1>7. ASSUME NEW i \in 1 .. Len(q) - m
      PROVE  Rest(q)[i].pkt \in S /\ Rest(q)[i].end = HeaderSize * i
  <2>1. i + m \in DOMAIN q
    BY <1>1
  <2>2. q[i + m].pkt \in S /\ q[i + m].end = HeaderSize * (i + m)
    BY <2>1 DEF Whole
  <2>3. HeaderSize * (i + m) - HeaderSize * m = HeaderSize * i
    BY <1>1 DEF HeaderSize
  <2>4. QED BY <1>6, <2>2, <2>3
<1>8. DOMAIN Rest(q) = 1 .. Len(q) - m
  BY <1>6
<1>9. QED BY <1>7, <1>8 DEF Whole

\* A pipe of whole headers starts with one, which is what is read from it.
LEMMA ArrivesWhole ==
    ASSUME NEW S, S \subseteq Headers, NEW q \in Seq(Chunk), Whole(q, S), q # << >>
    PROVE  /\ q[1].end = Size(q[1].pkt)
           /\ \A p \in Arrivals(q) : p \in S
<1>1. 1 \in DOMAIN q
  BY EmptySeq
<1>2. q[1].pkt \in S /\ q[1].end = HeaderSize
  BY <1>1 DEF Whole, HeaderSize
<1>3. Size(q[1].pkt) = HeaderSize
  BY <1>2, EmptySeq DEF Headers, Size, HeaderSize
<1>4. QED BY <1>2, <1>3 DEF Arrivals

\* The same of all the pipes.
LEMMA SendToWhole ==
    ASSUME NEW S, S \subseteq Headers, NEW w, \A e \in Wires : w[e] \in Seq(Chunk) /\ Whole(w[e], S),
           NEW n, NEW dests, NEW p \in S, NEW e \in Wires
    PROVE  Whole(SendTo(w, n, dests, p)[e], S)
BY PushWhole DEF SendTo

LEMMA ReadFromWhole ==
    ASSUME WholeHeaders, NEW S, S \subseteq Headers, NEW w \in [Wires -> Seq(Chunk)], \A e \in Wires : Whole(w[e], S),
           NEW f \in Wires, NEW e \in Wires
    PROVE  Whole(ReadFrom(w, f)[e], S)
BY RestWhole DEF ReadFrom

-----------------------------------------------------------------------------
(* The scan of the ports and the table.                                    *)

\* The port a switch reads is a link to one of its neighbours.
LEMMA FromIsNeighbour ==
    ASSUME SwitchTypeOK, NEW s \in Switches
    PROVE  /\ From(s) \in Neighbours(s)
           /\ From(s) \in Nodes
           /\ <<From(s), s>> \in Wires
<1>1. s \in Nodes /\ sport[s] \in DOMAIN Ports[s]
  BY DEF SwitchTypeOK, Nodes
<1>2. From(s) \in Neighbours(s)
  BY <1>1 DEF From, Neighbours, Range
<1>. QED  BY <1>1, <1>2, NeighbourWire

\* The scan of the ports goes back to the first after the last.
LEMMA NextPortType ==
    ASSUME SwitchTypeOK, NEW s \in Switches
    PROVE  /\ NextPort(s) \in [Switches -> Nat \ {0}]
           /\ \A t \in Switches : NextPort(s)[t] \in DOMAIN Ports[t]
<1>. DEFINE n == Len(Ports[s])
<1>1. Ports[s] \in Seq(Nodes) /\ sport[s] \in DOMAIN Ports[s]
  BY PortAssumption DEF Nodes, SwitchTypeOK
<1>2. n \in Nat /\ DOMAIN Ports[s] = 1 .. n /\ sport[s] \in 1 .. n
  BY <1>1, LenProperties
<1>. HIDE DEF n
<1>3. (sport[s] % n) + 1 \in 1 .. n
  BY <1>2
<1>4. NextPort(s) = [sport EXCEPT ![s] = (sport[s] % n) + 1]
  BY DEF NextPort, n
<1>. QED  BY <1>2, <1>3, <1>4 DEF SwitchTypeOK

\* Learning puts neighbours in the table.
LEMMA LearnType ==
    ASSUME NEW t \in [TableIndex -> Nodes \cup {None}], NEW id, NEW n \in Nodes
    PROVE  Learn(t, id, n) \in [TableIndex -> Nodes \cup {None}]
BY DEF Learn

-----------------------------------------------------------------------------
(* The switches keep the types of what they write.                         *)

\* A switch starts at the first of its ports.
LEMMA SwitchTypeInit == SwitchInit => SwitchTypeOK
<1>1. ASSUME NEW s \in Switches PROVE 1 \in DOMAIN Ports[s]
  <2>1. Ports[s] \in Seq(Nodes) /\ Ports[s] # << >>
    BY PortAssumption, SwitchPortAssumption DEF Nodes
  <2>. QED  BY <2>1, EmptySeq, LenProperties
<1>. QED  BY <1>1 DEF SwitchInit, SwitchTypeOK

\* Every step of a switch keeps the types.
LEMMA SwitchTypeStep ==
    ASSUME WireTypeOK, SwitchTypeOK, NEW s \in Switches, SwitchStep(s)
    PROVE  WireTypeOK' /\ SwitchTypeOK'
<1>. USE DEF WireTypeOK
<1>1. CASE SwitchIdle(s)
  BY <1>1, NextPortType DEF SwitchIdle, SwitchTypeOK
<1>2. CASE SwitchRelay(s)
  <2>. DEFINE e == <<From(s), s>>
  <2>1. PICK p \in Arrivals(wire[e]) :
          LET learnt == Learn(table[s], p.src, From(s)) IN
          /\ table' = [table EXCEPT ![s] = learnt]
          /\ \E dests \in Outputs(s, learnt, p.dst) :
               wire' = SendTo(ReadFrom(wire, e), s, dests, p)
    BY <1>2 DEF SwitchRelay
  <2>2. e \in Wires /\ From(s) \in Nodes
    BY FromIsNeighbour
  <2>. HIDE DEF e
  <2>3. p \in PacketSet
    BY <2>2, ArrivalsPackets
  <2>4. PICK dests : wire' = SendTo(ReadFrom(wire, e), s, dests, p)
    BY <2>1
  <2>5. ReadFrom(wire, e) \in [Wires -> Seq(Chunk)]
    BY <2>2, ReadFromType
  <2>6. WireTypeOK'
    BY <2>3, <2>4, <2>5, SendToType
  <2>7. table' \in [Switches -> [TableIndex -> Nodes \cup {None}]]
    BY <2>1, <2>2, LearnType DEF SwitchTypeOK
  <2>8. sport' = NextPort(s) /\ alive' = alive
    BY <1>2 DEF SwitchRelay
  <2>. QED  BY <2>6, <2>7, <2>8, NextPortType DEF SwitchTypeOK
<1>3. CASE SwitchCrash(s)
  <2>. DEFINE e == <<From(s), s>>
  <2>1. PICK p \in Arrivals(wire[e]) :
          table' = [table EXCEPT ![s] = Learn(@, p.src, From(s))]
    BY <1>3 DEF SwitchCrash
  <2>2. e \in Wires /\ From(s) \in Nodes
    BY FromIsNeighbour
  <2>3. wire' = ReadFrom(wire, e) /\ alive' = alive \ {s} /\ sport' = sport
    BY <1>3 DEF SwitchCrash
  <2>. HIDE DEF e
  <2>4. WireTypeOK'
    BY <2>2, <2>3, ReadFromType
  <2>5. table' \in [Switches -> [TableIndex -> Nodes \cup {None}]]
    BY <2>1, <2>2, LearnType DEF SwitchTypeOK
  <2>. QED  BY <2>3, <2>4, <2>5 DEF SwitchTypeOK
<1>. QED  BY <1>1, <1>2, <1>3 DEF SwitchStep

=============================================================================
