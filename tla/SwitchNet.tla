----------------------------- MODULE SwitchNet ------------------------------
(***************************************************************************)
(* The switches of a network with hosts of which only this is assumed: a   *)
(* host puts its own id in the src field of what it sends, sends on all    *)
(* its ports and never passes on what it receives (host.c,                 *)
(* JOB_SEND_PKT_ALL_PORTS and the scan of the ports).  NetSim, which has   *)
(* the hosts of the code, is shown to implement this specification.        *)
(***************************************************************************)
EXTENDS Switch

CONSTANTS
    Traffic,   \* the packets that hosts may send
    Toward     \* Toward[s][h]: the neighbour of switch s on the path to host h

vars == <<wire, switchVars>>

ASSUME TrafficAssumption == Traffic \subseteq PacketSet

\* The links form a tree: of two adjacent switches one is nearer to h.
ASSUME TreeAssumption ==
    /\ Toward \in [Switches -> [Hosts -> Nodes]]
    /\ \A s \in Switches, h \in Hosts :
         /\ Toward[s][h] \in Neighbours(s)
         /\ Toward[s][h] \in Hosts => Toward[s][h] = h
         /\ h \in Neighbours(s) => Toward[s][h] = h
         /\ \A t \in Neighbours(s) \cap Switches :
              Toward[s][h] = t \/ Toward[t][h] = s

-----------------------------------------------------------------------------
Init == WireInit /\ SwitchInit

\* A host runs a JOB_SEND_PKT_ALL_PORTS job.
HostInject(h) ==
    /\ \E p \in Traffic :
         /\ p.src = Char(h)
         /\ wire' = SendTo(wire, h, Neighbours(h), p)
    /\ UNCHANGED switchVars

\* A host reads one of its ports.
HostDrain(h) ==
    /\ \E n \in Neighbours(h) :
         /\ wire[<<n, h>>] # << >>
         /\ wire' = ReadFrom(wire, <<n, h>>)
    /\ UNCHANGED switchVars

Next ==
    \/ \E s \in Switches : SwitchStep(s)
    \/ \E h \in Hosts : HostInject(h) \/ HostDrain(h)

Spec == Init /\ [][Next]_vars

-----------------------------------------------------------------------------
\* Every variable has its type.
TypeOK == WireTypeOK /\ SwitchTypeOK

\* What a switch has learnt about a host is the neighbour on the path to that
\* host, although packets flooded by a switch come back to the switches they
\* came from, with the source they left with (switch.c:225-230, 249-252).  That
\* is so while TailsAreForeign is.
RoutesPointHome ==
    \A s \in Switches, h \in Hosts \cap TableIndex :
        table[s][h] # None => table[s][h] = Toward[s][h]

\* A learnt route has no gap: when a switch sends a packet for h to another
\* switch by its table, that switch does not need to flood (switch.c:244-247).
\* That, too, is so while TailsAreForeign is.
RoutesReachHome ==
    \A s \in Switches, h \in Hosts \cap TableIndex :
        (table[s][h] # None /\ Toward[s][h] \in Switches)
            => table[Toward[s][h]][h] # None

\* The source of a packet that a switch has sent is known to the switch, whatever
\* it took for a source; the packets a host has sent are its own.
SourcesKnown ==
    \A e \in Wires : \A i \in DOMAIN wire[e] :
        LET src == wire[e][i].pkt.src IN
        src \in Hosts \cap TableIndex =>
            IF e[1] \in Switches THEN table[e[1]][src] # None ELSE e[1] = src

RoutingInv == RoutesPointHome /\ RoutesReachHome /\ SourcesKnown
RightRoutes == RoutesPointHome /\ RoutesReachHome

\* Wherever packets are cut, flooded, lost or refused, only a read of a tail that
\* begins with a host's id can turn right routes into a wrong one
\* (packet.c:156-161, switch.c:225-230).
RoutesStayRight == [][RightRoutes /\ TailsAreForeign => RoutesPointHome']_vars

\* Nor can anything else make the gap in which a switch that was chosen by a
\* table floods (switch.c:244-256).
RoutesStayWhole == [][RightRoutes /\ TailsAreForeign => RoutesReachHome']_vars

=============================================================================
