------------------------------- MODULE Switch -------------------------------
(***************************************************************************)
(* The switch process (switch.c): it polls its ports in turn; a packet     *)
(* found on a port teaches it the port of the packet's source, unless it   *)
(* already has one, and is sent to the port learnt for its destination or, *)
(* when there is none, to every port, the one it came from included.       *)
(*                                                                         *)
(* Handling one packet is one step: the switch reads one pipe and then     *)
(* writes to others, of which it is the only writer.                       *)
(***************************************************************************)
EXTENDS Packet

CONSTANTS
    TABLE_SIZE,   \* entries of the forwarding table, 100 in switch.c
    None          \* a table entry that is NULL

VARIABLES
    table,        \* table[s][id]: the neighbour learnt for id, or None
    sport,        \* sport[s]: index in Ports[s] of the port read next
    alive         \* the switch processes that have not crashed

switchVars == <<table, sport, alive>>

ASSUME TableAssumption == TABLE_SIZE \in Nat /\ None \notin Nodes

ASSUME SwitchPortAssumption == \A s \in Switches : Ports[s] # << >>

-----------------------------------------------------------------------------
TableIndex == 0 .. TABLE_SIZE - 1

SwitchInit ==
    /\ table = [s \in Switches |-> [id \in TableIndex |-> None]]
    /\ sport = [s \in Switches |-> 1]
    /\ alive = Switches

\* Mutants of Learn: the entry is always overwritten; learning resets the other
\* entries; id 0 is left out.
LearnAlways(t, id, port) ==
    IF id \in TableIndex THEN [t EXCEPT ![id] = port] ELSE t
LearnResets(t, id, port) ==
    IF id \in TableIndex /\ t[id] = None
    THEN [i \in TableIndex |-> IF i = id THEN port ELSE None] ELSE t
LearnPositive(t, id, port) ==
    IF id \in TableIndex \ {0} /\ t[id] = None THEN [t EXCEPT ![id] = port] ELSE t

\* The first port a source is seen on stays its port for ever.
Learn(t, id, port) ==
    IF id \in TableIndex /\ t[id] = None THEN [t EXCEPT ![id] = port] ELSE t

From(s) == Ports[s][sport[s]]

\* Mutant of NextPort: the scan runs past the last port.
NextPortPastLast(s) == [sport EXCEPT ![s] = @ + 1]

NextPort(s) == [sport EXCEPT ![s] = (@ % Len(Ports[s])) + 1]

\* The sets of ports a packet for dst may be sent to.  Nothing keeps dst within
\* the table: beyond it the code reads memory that may hold NULL or one of the
\* pointers of node_port[], or anything else (SwitchCrash).
Outputs(s, t, dst) ==
    IF dst \in TableIndex
    THEN {IF t[dst] = None THEN Neighbours(s) ELSE {t[dst]}}
    ELSE {Neighbours(s)} \cup {{n} : n \in Neighbours(s)}

-----------------------------------------------------------------------------
SwitchIdle(s) ==
    /\ s \in alive
    /\ wire[<<From(s), s>>] = << >>
    /\ sport' = NextPort(s)
    /\ UNCHANGED <<wire, table, alive>>

SwitchRelay(s) ==
    /\ s \in alive
    /\ \E p \in Arrivals(wire[<<From(s), s>>]) :
         LET learnt == Learn(table[s], p.src, From(s)) IN
         /\ table' = [table EXCEPT ![s] = learnt]
         /\ \E dests \in Outputs(s, learnt, p.dst) :
              wire' = SendTo(ReadFrom(wire, <<From(s), s>>), s, dests, p)
    /\ sport' = NextPort(s)
    /\ UNCHANGED alive

\* The word beyond the table is not a port: the process dies on it.
SwitchCrash(s) ==
    /\ s \in alive
    /\ \E p \in Arrivals(wire[<<From(s), s>>]) :
         /\ p.dst \notin TableIndex
         /\ table' = [table EXCEPT ![s] = Learn(@, p.src, From(s))]
    /\ wire' = ReadFrom(wire, <<From(s), s>>)
    /\ alive' = alive \ {s}
    /\ UNCHANGED sport

SwitchStep(s) == SwitchIdle(s) \/ SwitchRelay(s) \/ SwitchCrash(s)

-----------------------------------------------------------------------------
SwitchTypeOK ==
    /\ table \in [Switches -> [TableIndex -> Nodes \cup {None}]]
    /\ sport \in [Switches -> Nat \ {0}]
    /\ \A s \in Switches : sport[s] \in DOMAIN Ports[s]
    /\ alive \subseteq Switches

\* What a read has left of a packet does not begin with a host's id: the switch
\* that reads it next takes that byte for a source and learns it.
TailsAreForeign ==
    \A e \in Wires :
        (/\ e[2] \in Switches
         /\ wire[e] # << >>
         /\ wire[e][1].end # Size(wire[e][1].pkt))
            => \A p \in Arrivals(wire[e]) : p.src \notin Hosts

=============================================================================
