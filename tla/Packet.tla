------------------------------- MODULE Packet -------------------------------
(***************************************************************************)
(* Packets and the pipes that carry them (packet.c, main.h, host.h).       *)
(*                                                                         *)
(* A link between two nodes is a pair of nonblocking pipes, one for each   *)
(* direction.  A pipe is a stream of BYTES: packet_send writes a header of *)
(* four bytes followed by the payload, packet_recv takes whatever is there *)
(* up to PAYLOAD_MAX + 4 bytes, parses ONE packet from the front of what   *)
(* it took and forgets the rest.  Nothing in the stream separates packets, *)
(* so a read that takes more than one packet loses the others, and one     *)
(* that cuts a packet in two leaves a tail that the next read parses as if *)
(* it were a header.                                                       *)
(***************************************************************************)
EXTENDS Integers, Sequences, FiniteSets, Functions

CONSTANTS
    Hosts,          \* ids of the host nodes
    Switches,       \* ids of the switch nodes
    Ports,          \* Ports[n]: the neighbours of node n in node_port[] order
    Bytes,          \* what payloads are made of
    PAYLOAD_MAX,    \* the largest payload, 100 in main.h
    PIPE_CAPACITY,  \* bytes a pipe holds before a write is refused
    Noises          \* what the tail of a cut packet may spell after its first byte

VARIABLE wire       \* wire[<<a, b>>]: the bytes in the pipe from a to b

-----------------------------------------------------------------------------
Nodes == Hosts \cup Switches

Neighbours(n) == Range(Ports[n])

\* One entry for each direction of each link of the configuration.
Wires == {e \in Nodes \X Nodes : e[2] \in Neighbours(e[1])}

\* The value of a C char, the type of the src, dst and length fields.
Char(i) == ((i + 128) % 256) - 128

PacketTypes == {"PING_REQ", "PING_REPLY", "UPLOAD_START", "UPLOAD_IN",
                "UPLOAD_END", "DOWNLOAD_REQ", "OTHER"}

\* "length" is Len(body).
PacketSet == [src : -128..127, dst : -128..127, type : PacketTypes,
              body : Seq(Bytes)]

ASSUME NodeAssumption ==
    /\ Hosts \subseteq Nat
    /\ Switches \subseteq Nat
    /\ Hosts \cap Switches = {}

ASSUME PortAssumption ==
    /\ Ports \in [Nodes -> Seq(Nodes)]
    /\ \A a, b \in Nodes : b \in Neighbours(a) => a \in Neighbours(b)

ASSUME SizeAssumption ==
    /\ PAYLOAD_MAX \in Nat
    /\ PIPE_CAPACITY \in Nat

\* The src field holds one char: a network has no more than 128 nodes.
ASSUME HostIdAssumption == Hosts \subseteq 0 .. 127

\* A payload is an array of chars.
ASSUME ByteAssumption == Bytes \subseteq -128..127

ASSUME NoiseAssumption == Noises # {} /\ Noises \subseteq PacketSet

-----------------------------------------------------------------------------
(* One pipe.  Its bytes are kept as the packets they were written as, each *)
(* with the distance in bytes from the read end of the pipe to the end of  *)
(* that packet.  The first packet is cut when fewer than all its bytes are *)
(* left.                                                                   *)

HeaderSize == 4
Size(p) == HeaderSize + Len(p.body)
ReadMax == PAYLOAD_MAX + HeaderSize

Chunk == [pkt : PacketSet, end : Int]

Total(q) == IF q = << >> THEN 0 ELSE q[Len(q)].end

\* A write of at most PIPE_BUF bytes to a nonblocking pipe happens as a whole
\* or, when it does not fit, not at all; packet_send ignores which.
Push(q, p) ==
    IF Total(q) + Size(p) <= PIPE_CAPACITY
    THEN Append(q, [pkt |-> p, end |-> Total(q) + Size(p)])
    ELSE q

Taken(q) == IF Total(q) <= ReadMax THEN Total(q) ELSE ReadMax

\* How many packets at the front of q a read takes the last byte of.
WholeTaken(q) == Cardinality({i \in DOMAIN q : q[i].end <= Taken(q)})

\* The pipe after one read.
Rest(q) ==
    [i \in 1 .. Len(q) - WholeTaken(q) |->
        [pkt |-> q[i + WholeTaken(q)].pkt,
         end |-> q[i + WholeTaken(q)].end - Taken(q)]]

\* The type as it is sent.  What the type field of a packet of none of the types
\* holds is left open.
TypeCode == [PING_REQ |-> 0, PING_REPLY |-> 1, UPLOAD_START |-> 2,
             UPLOAD_END |-> 3, UPLOAD_IN |-> 4, DOWNLOAD_REQ |-> 5]
TypeBytes(type) ==
    IF type \in DOMAIN TypeCode THEN {TypeCode[type]} ELSE {n.src : n \in Noises}

\* The byte that is in place i of packet p, the header first.
ByteAt(p, i) ==
    CASE i = 1 -> {p.src}
      [] i = 2 -> {p.dst}
      [] i = 3 -> TypeBytes(p.type)
      [] i = 4 -> {Char(Len(p.body))}
      [] OTHER -> {p.body[k] : k \in {i - HeaderSize} \cap DOMAIN p.body}

\* The first byte that is left of a packet of the pipe.
FirstLeft(c) == ByteAt(c.pkt, Size(c.pkt) - c.end + 1)

\* The packets one read may report: the first one when the read starts at its
\* first byte.  Otherwise the first byte found there is taken for a source; what
\* it and the bytes behind it spell for the rest is left open.
Arrivals(q) ==
    IF q = << >> THEN {}
    ELSE IF q[1].end = Size(q[1].pkt) THEN {q[1].pkt}
    ELSE {[n EXCEPT !.src = b] : n \in Noises, b \in FirstLeft(q[1])}

-----------------------------------------------------------------------------
(* The pipes of the network.                                               *)

\* packet_send of p by node n on its ports to the nodes in dests.
SendTo(w, n, dests, p) ==
    [e \in Wires |-> IF e[1] = n /\ e[2] \in dests THEN Push(w[e], p) ELSE w[e]]

\* One read of the pipe e.
ReadFrom(w, e) == [w EXCEPT ![e] = Rest(@)]

WireInit == wire = [e \in Wires |-> << >>]

WireTypeOK == wire \in [Wires -> Seq(Chunk)]

=============================================================================
