------------------------------- MODULE MCBoot -------------------------------
(***************************************************************************)
(* Configurations in the shape of those of the repository and ones that    *)
(* are wrong: a file that is not there, one without nodes or links, nodes  *)
(* out of order, an unknown letter, a link to no node, no host, and two    *)
(* nodes that listen at one address.                                       *)
(***************************************************************************)
EXTENDS Boot

HOST(id) == [type |-> "HOST", id |-> id]
SWITCH(id) == [type |-> "SWITCH", id |-> id]
PIPE(a, b) == [type |-> "PIPE", node0 |-> a, node1 |-> b]
SOCKET(n, l, c) == [type |-> "SOCKET", node |-> n, listen |-> l, connect |-> c]

File(nodes, links) ==
    [readable |-> TRUE, nodes |-> nodes, links |-> links, busy |-> {3009}]

\* switch.config and socket.config with a host less.
SwitchConfig ==
    File(<<HOST(0), HOST(1), SWITCH(2), HOST(3)>>, <<PIPE(0, 2), PIPE(1, 2), PIPE(2, 3)>>)
SocketConfig ==
    File(<<HOST(0), SWITCH(1), HOST(2)>>,
         <<PIPE(0, 1), SOCKET(1, 3000, 3001), SOCKET(1, 3000, 3002), SOCKET(2, 3001, 3000)>>)

MCConfigs ==
    {SwitchConfig, SocketConfig,
     [SwitchConfig EXCEPT !.readable = FALSE],
     File(<< >>, << >>),
     File(<<HOST(0), HOST(1)>>, << >>),
     File(<<HOST(0), HOST(2)>>, <<PIPE(0, 2)>>),
     File(<<HOST(0), [type |-> "X", id |-> 1]>>, <<PIPE(0, 1)>>),
     File(<<SWITCH(0), SWITCH(1)>>, <<PIPE(1, 0)>>),
     File(<<HOST(0), SWITCH(1), HOST(2)>>, <<PIPE(2, 0), PIPE(0, 7)>>),
     File(<<HOST(0), HOST(1), HOST(2)>>,
          <<SOCKET(0, 3000, 3001), PIPE(1, 0), SOCKET(1, 3000, 3001), SOCKET(2, 3009, 3000)>>)}

=============================================================================
