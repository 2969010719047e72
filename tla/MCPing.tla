------------------------------- MODULE MCPing -------------------------------
(***************************************************************************)
(* Hosts 0 and 1 on switch 2, the shape of switch.config, and a user who   *)
(* pings and asks for a host's state.                                      *)
(***************************************************************************)
EXTENDS NetSim, TLC

MCHosts == {0, 1}
MCSwitches == {2}
MCPorts == (0 :> <<2>>) @@ (1 :> <<2>>) @@ (2 :> <<0, 1>>)
MCToward == 2 :> (0 :> 0 @@ 1 :> 1)
MCBytes == {7}
MCNoises == {[src |-> 7, dst |-> 7, type |-> "OTHER", body |-> <<>>]}
MCDirs == {<<7>>}
MCFiles == << >>

\* 5 is in the switch's table but no node's id.
Ids == {0, 1, 5}

MCTraffic ==
    [src : Hosts, dst : Ids, type : PingTypes, body : {<<>>}]

Command(op, dst, name) == [op |-> op, dst |-> dst, name |-> name]

MCPings ==
    {Command("s", 0, <<>>)} \cup {Command("p", d, <<>>) : d \in Ids}

=============================================================================
