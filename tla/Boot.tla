-------------------------------- MODULE Boot --------------------------------
(***************************************************************************)
(* How the program starts and ends (main.c, net.c and the set-up at the    *)
(* top of host_main and switch_main): the configuration is read and turned *)
(* into linked lists, a process is forked for each node and takes its own  *)
(* ports out of its copy of the lists, the parent becomes the manager, and *)
(* quitting kills everything.  A linked list is the sequence of its        *)
(* elements, an insertion at its head a concatenation in front.            *)
(***************************************************************************)
EXTENDS Integers, Lists

CONSTANTS
    Configs,   \* the configuration files that may be given
    MaxNode,   \* no node has a greater id
    None       \* no ports yet, no listening socket

\* What a file says, read as records: its nodes and its links are sequences.
ASSUME ConfigsAssumption ==
    \A c \in Configs :
        /\ c.nodes \in Seq([type : STRING, id : Int])
        /\ c.links \in Seq(Range(c.links))

\* The address that is bound is none that a file can give.
ASSUME NoneIsNoAddress ==
    \A c \in Configs : \A i \in DOMAIN c.links :
        c.links[i].type # "PIPE" => c.links[i].listen # None

VARIABLES
    config,      \* the file whose name is typed
    stage,       \* where main() is
    nodeList,    \* g_node_list
    portList,    \* g_port_list as it is when the processes are forked
    manList,     \* the hosts of g_man_man_port_list
    toFork,      \* the nodes from p_node on
    proc,        \* proc[n]: the process of node n
    ports,       \* ports[n]: node_port[] of node n
    listening    \* listening[n]: the address its socket is bound to

bootVars == <<config, stage, nodeList, portList, manList, toFork, proc, ports, listening>>

-----------------------------------------------------------------------------
(* net.c                                                                   *)

NodeIds == {i - 1 : i \in DOMAIN config.nodes}

\* An unknown letter leaves node_id at the id of the node before.
LoadOK ==
    /\ config.readable
    /\ config.nodes # << >>
    /\ \A i \in DOMAIN config.nodes :
         config.nodes[i].type \in {"HOST", "SWITCH"} /\ config.nodes[i].id = i - 1
    /\ config.links # << >>

create_node_list ==
    InsertAll([i \in DOMAIN config.nodes |->
                  <<[id |-> i - 1, type |-> config.nodes[i].type]>>])

\* The ports of link i; the pipes fd01 and fd10 are <<i, 0>> and <<i, 1>>.
LinkPorts(i) ==
    LET l == config.links[i] IN
    IF l.type = "PIPE"
    THEN << [type |-> "PIPE", node |-> l.node0, send |-> <<i, 0>>, recv |-> <<i, 1>>],
            [type |-> "PIPE", node |-> l.node1, send |-> <<i, 1>>, recv |-> <<i, 0>>] >>
    ELSE << [type |-> "SOCKET", node |-> l.node, listen |-> l.listen,
             connect |-> l.connect] >>

\* Mutant of create_port_list: the list goes on from the first of the two ports.
PortListShort == InsertAll([i \in DOMAIN config.links |-> <<Head(LinkPorts(i))>>])

create_port_list == InsertAll([i \in DOMAIN config.links |-> LinkPorts(i)])

create_man_ports(nodes) ==
    InsertAll([k \in DOMAIN nodes |->
                  IF nodes[k].type = "HOST" THEN <<nodes[k].id>> ELSE << >>])

\* Mutant of net_get_port_list: a port is put at the end of the new list.
PortListAppended(n) == SelectSeq(portList, LAMBDA p : p.node = n)

net_get_port_list(n) ==
    InsertAll([k \in DOMAIN portList |->
                  IF portList[k].node = n THEN <<portList[k]>> ELSE << >>])

-----------------------------------------------------------------------------
(* main.c                                                                  *)

Init ==
    /\ config \in Configs
    /\ stage = "load"
    /\ nodeList = << >> /\ portList = << >> /\ manList = << >> /\ toFork = << >>
    /\ proc = [n \in NodeIds |-> "none"]
    /\ ports = [n \in NodeIds |-> None]
    /\ listening = [n \in NodeIds |-> None]

\* Nobody looks at what net_init returns.
NetInit ==
    /\ stage = "load"
    /\ nodeList' = IF LoadOK THEN create_node_list ELSE << >>
    /\ portList' = IF LoadOK THEN create_port_list ELSE << >>
    /\ manList' = create_man_ports(nodeList')
    /\ toFork' = nodeList'
    /\ stage' = "fork"
    /\ UNCHANGED <<config, proc, ports, listening>>

\* Mutant of Fork: the loop ends at the last node.
ForkButLast ==
    /\ stage = "fork" /\ toFork # << >>
    /\ proc' = IF Len(toFork) = 1 THEN proc ELSE [proc EXCEPT ![toFork[1].id] = "forked"]
    /\ toFork' = Tail(toFork)
    /\ UNCHANGED <<config, stage, nodeList, portList, manList, ports, listening>>

Fork ==
    /\ stage = "fork" /\ toFork # << >>
    /\ proc' = [proc EXCEPT ![toFork[1].id] = "forked"]
    /\ toFork' = Tail(toFork)
    /\ UNCHANGED <<config, stage, nodeList, portList, manList, ports, listening>>

\* The parent returns; the children that it has go on.
ForkFails ==
    /\ stage = "fork" /\ toFork # << >>
    /\ stage' = "fork failed"
    /\ UNCHANGED <<config, nodeList, portList, manList, toFork, proc, ports, listening>>

\* man_main takes the id of the first host, and dies if there is none.
ManagerStarts ==
    /\ stage = "fork" /\ toFork = << >>
    /\ stage' = IF manList = << >> THEN "crashed" ELSE "manager"
    /\ UNCHANGED <<config, nodeList, portList, manList, toFork, proc, ports, listening>>

\* Mutant of Quit: main() returns without the kill.
QuitOnly ==
    /\ stage = "manager"
    /\ stage' = "killed"
    /\ UNCHANGED <<config, nodeList, portList, manList, toFork, proc, ports, listening>>

\* kill(0, SIGKILL) reaches every process, started or not.
Quit ==
    /\ stage = "manager"
    /\ stage' = "killed"
    /\ proc' = [n \in NodeIds |-> "ended"]
    /\ listening' = [n \in NodeIds |-> None]
    /\ UNCHANGED <<config, nodeList, portList, manList, toFork, ports>>

-----------------------------------------------------------------------------
(* The top of host_main and switch_main.                                   *)

TypeOf(n) == config.nodes[n + 1].type
Sockets(list) == Chosen(list, {p \in Range(list) : p.type = "SOCKET"})

\* Addresses that other programs use, or that are not this machine's, are busy.
Busy == config.busy \cup {listening[n] : n \in NodeIds}

\* A node without sockets has nothing to listen to.
NodeStarts(n) ==
    /\ proc[n] = "forked"
    /\ ports' = [ports EXCEPT ![n] = net_get_port_list(n)]
    /\ Sockets(ports'[n]) = << >>
    /\ proc' = [proc EXCEPT ![n] = "running"]
    /\ UNCHANGED <<config, stage, nodeList, portList, manList, toFork, listening>>

\* Mutant of NodeListens: every port of its kind is bound, also at one address.
NodeListensOnAll(n) ==
    /\ proc[n] = "forked"
    /\ ports' = [ports EXCEPT ![n] = net_get_port_list(n)]
    /\ Sockets(ports'[n]) # << >>
    /\ Sockets(ports'[n])[1].listen \notin Busy
    /\ LET l == Sockets(ports'[n]) IN
       IF \E k \in DOMAIN l \ {1} : l[k].listen = l[1].listen
       THEN listening' = listening /\ proc' = [proc EXCEPT ![n] = "ended"]
       ELSE /\ listening' = [listening EXCEPT ![n] = l[1].listen]
            /\ proc' = [proc EXCEPT ![n] = "running"]
    /\ UNCHANGED <<config, stage, nodeList, portList, manList, toFork>>

\* One socket, at the listening address of the first port of its kind.
NodeListens(n) ==
    /\ proc[n] = "forked"
    /\ ports' = [ports EXCEPT ![n] = net_get_port_list(n)]
    /\ Sockets(ports'[n]) # << >>
    /\ Sockets(ports'[n])[1].listen \notin Busy
    /\ listening' = [listening EXCEPT ![n] = Sockets(ports'[n])[1].listen]
    /\ proc' = [proc EXCEPT ![n] = "running"]
    /\ UNCHANGED <<config, stage, nodeList, portList, manList, toFork>>

\* exit(1)
NodeCannotListen(n) ==
    /\ proc[n] = "forked"
    /\ ports' = [ports EXCEPT ![n] = net_get_port_list(n)]
    /\ Sockets(ports'[n]) # << >>
    /\ Sockets(ports'[n])[1].listen \in Busy
    /\ proc' = [proc EXCEPT ![n] = "ended"]
    /\ UNCHANGED <<config, stage, nodeList, portList, manList, toFork, listening>>

\* init_table reads the first of no ports, and follows it.
SwitchWithoutPorts(n) ==
    /\ proc[n] = "forked" /\ TypeOf(n) = "SWITCH"
    /\ ports' = [ports EXCEPT ![n] = net_get_port_list(n)]
    /\ ports'[n] = << >>
    /\ proc' = [proc EXCEPT ![n] = "ended"]
    /\ UNCHANGED <<config, stage, nodeList, portList, manList, toFork, listening>>

NodeBegins(n) ==
    NodeStarts(n) \/ NodeListens(n) \/ NodeCannotListen(n) \/ SwitchWithoutPorts(n)

Started == {n \in NodeIds : ports[n] # None}
Alive == {n \in NodeIds : proc[n] \in {"forked", "running"}}

Main == NetInit \/ Fork \/ ForkFails \/ ManagerStarts

\* The parent is gone and no child has anything left to begin.
Settled ==
    /\ stage \in {"fork failed", "crashed", "killed"}
    /\ \A n \in NodeIds : proc[n] # "forked"
    /\ UNCHANGED bootVars

Next == Main \/ Quit \/ (\E n \in NodeIds : NodeBegins(n)) \/ Settled

\* The user need not quit.
Spec ==
    /\ Init /\ [][Next]_bootVars
    /\ WF_bootVars(Main) /\ WF_bootVars(\E n \in NodeIds : NodeBegins(n))

-----------------------------------------------------------------------------
\* The links of the file that node n has an end of, in the order of the file.
Touches(l, n) == IF l.type = "PIPE" THEN n \in {l.node0, l.node1} ELSE n = l.node
LinksOf(n) ==
    Chosen([i \in DOMAIN config.links |-> i],
           {i \in DOMAIN config.links : Touches(config.links[i], n)})

\* Inserting at the head twice keeps the order: the ports of a node, whenever
\* it is forked and starts, are the ends of its links in the order of the file
\* (net.c:448-450, 150-173), and the manager's first host is the one with the
\* lowest id (net.c:313-361, 370-376).
ListsInFileOrder ==
    /\ \A n \in Started :
         /\ Len(ports[n]) = Len(LinksOf(n))
         /\ \A k \in DOMAIN ports[n] :
              ports[n][k] \in Range(LinkPorts(LinksOf(n)[k])) /\ ports[n][k].node = n
    /\ stage = "manager" =>
         manList = Chosen([i \in DOMAIN config.nodes |-> i - 1],
                          {n \in NodeIds : TypeOf(n) = "HOST"})

\* The two nodes of a pipe link, once they have both started, each have a port by
\* which they write what the other reads, on two pipes (net.c:407-445).
LinkEndsMeet ==
    \A i \in DOMAIN config.links :
        LET l == config.links[i] IN
        (l.type = "PIPE" /\ {l.node0, l.node1} \subseteq Started) =>
            \E p \in Range(ports[l.node0]), q \in Range(ports[l.node1]) :
                p.type = "PIPE" /\ q.type = "PIPE"
                    /\ p.send = q.recv /\ q.send = p.recv /\ p.send # q.send

\* main.c:63-66, "The following will terminate all the children processes":
\* nodes outlive the parent only when a fork failed, or when there was no host
\* for the manager to begin with.
NoOrphans ==
    (stage \in {"crashed", "killed"} /\ Alive # {})
        => \A i \in DOMAIN config.nodes : config.nodes[i].type # "HOST"

\* Where node n listens, going by the file, if anywhere.
ListensAt(n) ==
    LET mine == Chosen(LinksOf(n), {i \in DOMAIN config.links : config.links[i].type # "PIPE"})
    IN
    IF mine = << >> THEN {} ELSE {config.links[mine[1]].listen}

\* Nothing in the file stands in the way of node n.
Sound(n) ==
    /\ LoadOK /\ n \in NodeIds
    /\ TypeOf(n) = "SWITCH" => LinksOf(n) # << >>
    /\ ListensAt(n) \cap config.busy = {}
    /\ \A m \in NodeIds \ {n} : ListensAt(n) \cap ListensAt(m) = {}

\* Such a node that has begun is there until the user quits, and listens where its
\* first socket link says, or nowhere if it has none: no order of the processes,
\* and no other node, takes its address or ends it (host.c:289-333).
SoundNodesStay ==
    \A n \in Started : Sound(n) /\ stage # "killed" =>
        n \in Alive /\ ListensAt(n) = {listening[n]} \ {None}

\* Every such node comes up and listens where its first socket link says, in
\* whatever order the processes run and whichever other nodes fail, unless a
\* fork fails or the user quits first (main.c:37-55, host.c:289-333).
NodesComeUp ==
    \A n \in 0 .. MaxNode :
        (stage = "load" /\ Sound(n))
            ~> \/ /\ n \in Alive /\ n \in Started
                  /\ ListensAt(n) = {listening[n]} \ {None}
               \/ stage \in {"fork failed", "killed"}

=============================================================================
