------------------------------ MODULE SockNet -------------------------------
(***************************************************************************)
(* Links made of sockets (the SOCKET branches of packet.c, switch.c).      *)
(* Every node listens at one address.  Each packet is a connection of its  *)
(* own: the sender connects, which may block it for as long as the queue   *)
(* of the listener is full, sends and closes; the receiver accepts what is *)
(* first in its queue, reads once without waiting, and never closes.  When *)
(* there is nothing to accept the result is not initialised, and in the    *)
(* program as it is built the receiver handles the contents of memory as a *)
(* packet.                                                                 *)
(*                                                                         *)
(* Since a send may block, relaying is not one step here: out[n] is what a *)
(* node has still to send before it does anything else.                    *)
(***************************************************************************)
EXTENDS Switch, Lists

CONSTANTS
    Sockets,    \* the pairs of neighbours whose link is made of sockets
    QUEUE,      \* connections a listening socket holds, BACKLOG + 1
    FD_MAX,     \* descriptors that accept may use up
    Phantoms,   \* what uninitialised memory may spell
    Traffic,    \* the packets that hosts may send
    Toward      \* the neighbour of a switch on the path to a host

VARIABLES
    backlog,    \* backlog[n]: connections n has not accepted
    out,        \* out[n]: a packet and the ports it is still to be sent to
    dialled,    \* the nodes that have connected and not sent yet
    fds         \* fds[n]: connections n has accepted; newfd is not closed

sockVars == <<backlog, out, dialled, fds>>
vars == <<wire, switchVars, sockVars>>

ASSUME SocketAssumption ==
    /\ Sockets \subseteq Wires
    /\ \A e \in Sockets : <<e[2], e[1]>> \in Sockets
    /\ QUEUE \in Nat \ {0} /\ FD_MAX \in Nat

ASSUME SockTrafficAssumption == Traffic \subseteq PacketSet

ASSUME PhantomAssumption == Phantoms \subseteq PacketSet

ASSUME TowardAssumption ==
    \A s \in Switches : \A h \in Hosts \cap Neighbours(s) : Toward[s][h] = h

\* No two switches are linked by pipes, as in all configurations of the repository.
SwitchLinksAreSockets == \A e \in Wires : e \in Switches \X Switches => e \in Sockets

-----------------------------------------------------------------------------
Up == Hosts \cup alive

Nothing == [pkt |-> << >>, to |-> << >>]

Init ==
    /\ WireInit /\ SwitchInit
    /\ backlog = [n \in Nodes |-> << >>]
    /\ out = [n \in Nodes |-> Nothing]
    /\ dialled = {}
    /\ fds = [n \in Nodes |-> 0]

-----------------------------------------------------------------------------
(* Sending (packet_send).                                                  *)

Sending(n) == n \in Up /\ out[n].to # << >>
To(n) == Head(out[n].to)

\* out after the packet has been sent to its first port, or has failed to.
OutRest(n) ==
    [out EXCEPT ![n] = IF Len(out[n].to) = 1 THEN Nothing
                       ELSE [pkt |-> out[n].pkt, to |-> Tail(out[n].to)]]

WritePipe(n) ==
    /\ Sending(n) /\ <<n, To(n)>> \notin Sockets
    /\ wire' = SendTo(wire, n, {To(n)}, out[n].pkt)
    /\ out' = OutRest(n)
    /\ UNCHANGED <<switchVars, backlog, dialled, fds>>

Connects(n) ==
    /\ Sending(n) /\ <<n, To(n)>> \in Sockets /\ n \notin dialled
    /\ UNCHANGED <<wire, switchVars, fds>>

Connect(n) ==
    /\ Connects(n)
    /\ To(n) \in Up /\ fds[n] < FD_MAX /\ Len(backlog[To(n)]) < QUEUE
    /\ backlog' = [backlog EXCEPT ![To(n)] = Append(@, [from |-> n, data |-> << >>])]
    /\ dialled' = dialled \cup {n}
    /\ UNCHANGED out

\* Mutant of ConnectFails: the address is tried again.
ConnectAgain(n) ==
    /\ Connects(n)
    /\ To(n) \notin Up \/ fds[n] = FD_MAX \/ Len(backlog[To(n)]) = QUEUE
    /\ UNCHANGED <<backlog, dialled, out>>

\* No listener, no descriptor, or a queue that was full until connect gave up.
ConnectFails(n) ==
    /\ Connects(n)
    /\ To(n) \notin Up \/ fds[n] = FD_MAX \/ Len(backlog[To(n)]) = QUEUE
    /\ out' = OutRest(n)
    /\ UNCHANGED <<backlog, dialled>>

\* Mutant of SendData: the connection is kept for the next packet.
SendDataKeeps(n) ==
    /\ Sending(n) /\ n \in dialled
    /\ backlog' = [backlog EXCEPT ![To(n)] =
            [i \in DOMAIN @ |->
                IF @[i] = [from |-> n, data |-> << >>]
                THEN [@[i] EXCEPT !.data = <<out[n].pkt>>] ELSE @[i]]]
    /\ out' = OutRest(n)
    /\ UNCHANGED <<wire, switchVars, dialled, fds>>

\* send and close.  The connection that has been accepted already is not read
\* again.
SendData(n) ==
    /\ Sending(n) /\ n \in dialled
    /\ backlog' = [backlog EXCEPT ![To(n)] =
            [i \in DOMAIN @ |->
                IF @[i] = [from |-> n, data |-> << >>]
                THEN [@[i] EXCEPT !.data = <<out[n].pkt>>] ELSE @[i]]]
    /\ dialled' = dialled \ {n}
    /\ out' = OutRest(n)
    /\ UNCHANGED <<wire, switchVars, fds>>

Send(n) == WritePipe(n) \/ Connect(n) \/ ConnectFails(n) \/ SendData(n)

-----------------------------------------------------------------------------
(* Receiving (packet_recv, switch_packet_recv).                            *)

CanAccept(n) == backlog[n] # << >> /\ fds[n] < FD_MAX

\* The packets that n may find on its port to m, and whether it may find none.
Found(n, m) ==
    IF <<m, n>> \notin Sockets THEN Arrivals(wire[<<m, n>>])
    ELSE IF CanAccept(n) THEN Range(backlog[n][1].data) ELSE Phantoms
FindsNone(n, m) ==
    IF <<m, n>> \notin Sockets THEN wire[<<m, n>>] = << >>
    ELSE CanAccept(n) => backlog[n][1].data = << >>

\* The ports of a node that are sockets share one queue.
TakeOne(n, m) ==
    IF <<m, n>> \notin Sockets
    THEN wire' = ReadFrom(wire, <<m, n>>) /\ UNCHANGED <<backlog, fds>>
    ELSE /\ backlog' = IF CanAccept(n) THEN [backlog EXCEPT ![n] = Tail(@)] ELSE backlog
         /\ fds' = IF CanAccept(n) THEN [fds EXCEPT ![n] = @ + 1] ELSE fds
         /\ UNCHANGED wire

-----------------------------------------------------------------------------
(* The switch.                                                             *)

Polls(s) == s \in alive /\ out[s].to = << >>

\* Mutant of Learnt: sockets are learnt from like pipes.
LearntAnywhere(s, p) == Learn(table[s], p.src, From(s))

\* "TODO: Determine where a packet came from if it came from a socket".
Learnt(s, p) ==
    IF <<From(s), s>> \in Sockets THEN table[s] ELSE Learn(table[s], p.src, From(s))

SwitchHearsNone(s) ==
    /\ Polls(s) /\ FindsNone(s, From(s))
    /\ TakeOne(s, From(s))
    /\ sport' = NextPort(s)
    /\ UNCHANGED <<table, alive, out, dialled>>

SwitchHears(s) ==
    /\ Polls(s)
    /\ \E p \in Found(s, From(s)) :
         /\ table' = [table EXCEPT ![s] = Learnt(s, p)]
         /\ \E dests \in Outputs(s, Learnt(s, p), p.dst) :
              out' = [out EXCEPT ![s] =
                        [pkt |-> p, to |-> Chosen(Ports[s], dests)]]
    /\ TakeOne(s, From(s))
    /\ sport' = NextPort(s)
    /\ UNCHANGED <<alive, dialled>>

\* The process dies of what is beyond the table, and its queue with it.
SwitchDies(s) ==
    /\ Polls(s)
    /\ \E p \in Found(s, From(s)) : p.dst \notin TableIndex
    /\ alive' = alive \ {s}
    /\ backlog' = [backlog EXCEPT ![s] = << >>]
    /\ UNCHANGED <<wire, table, sport, out, dialled, fds>>

SwitchRuns(s) == SwitchHearsNone(s) \/ SwitchHears(s) \/ SwitchDies(s) \/ Send(s)

-----------------------------------------------------------------------------
(* A host, of which as little is assumed as in SwitchNet.                  *)

HostSends(h) ==
    /\ out[h].to = << >>
    /\ \E p \in Traffic :
         /\ p.src = Char(h)
         /\ out' = [out EXCEPT ![h] = [pkt |-> p, to |-> Ports[h]]]
    /\ UNCHANGED <<wire, switchVars, backlog, dialled, fds>>

HostReads(h) ==
    /\ out[h].to = << >>
    /\ \E m \in Neighbours(h) :
         /\ IF <<m, h>> \in Sockets THEN CanAccept(h) ELSE wire[<<m, h>>] # << >>
         /\ TakeOne(h, m)
    /\ UNCHANGED <<switchVars, out, dialled>>

Next ==
    \/ \E s \in Switches : SwitchRuns(s)
    \/ \E h \in Hosts : HostSends(h) \/ HostReads(h) \/ Send(h)

\* Every process polls; a host need not send.
Spec ==
    /\ Init /\ [][Next]_vars
    /\ \A s \in Switches : WF_vars(SwitchRuns(s))
    /\ \A h \in Hosts : WF_vars(Send(h)) /\ WF_vars(HostReads(h))

-----------------------------------------------------------------------------
\* Every variable has its type; at most one connection of a node is without its
\* packet, and it is the one the node is about to send on (packet.c:68, 81).
SockTypeOK ==
    /\ WireTypeOK /\ SwitchTypeOK
    /\ dialled \subseteq Nodes
    /\ \A n \in dialled : out[n].to # << >> /\ <<n, To(n)>> \in Sockets
    /\ \A n \in Nodes :
         /\ Range(out[n].to) \subseteq Neighbours(n)
         /\ fds[n] \in 0 .. FD_MAX
         /\ Len(backlog[n]) <= QUEUE
         /\ \A i \in DOMAIN backlog[n] :
              LET c == backlog[n][i] IN
              /\ <<c.from, n>> \in Sockets
              /\ c.data = << >> =>
                   /\ c.from \in dialled /\ To(c.from) = n
                   /\ \A j \in DOMAIN backlog[n] : backlog[n][j] = c => j = i
              /\ Len(c.data) <= 1

Net == INSTANCE SwitchNet

\* Where switches are linked to each other by sockets alone, what they learn is
\* right, whatever uninitialised memory they take for packets and send on
\* (switch.c:220-230).
RoutesPointHome == Net!RoutesPointHome

\* switch.c:8, "Relay packets from one host to another": two switches never both
\* take the other to be on the way to a host, and send what is for it back and
\* forth.
NoLoop ==
    \A s, t \in Switches, h \in Hosts \cap TableIndex :
        ~(table[s][h] = t /\ table[t][h] = s)

\* Two switches that are both blocked in connect, each with a full queue that
\* only the other makes room in, do not wait for ever (packet.c:68-72): whoever
\* sends gets to the end of its ports.
SendersGoOn == \A n \in Nodes : out[n].to # << >> ~> (out[n].to = << >> \/ n \notin Up)

\* A full queue is served, until the descriptors that are never closed are used
\* up (packet.c:122, 182).
QueuesMove ==
    \A s \in Switches :
        Len(backlog[s]) = QUEUE
            ~> (Len(backlog[s]) < QUEUE \/ fds[s] = FD_MAX)

=============================================================================
