---------------------------- MODULE MCTwoSwitch -----------------------------
(***************************************************************************)
(* Host 0 on switch 2 and host 1 on switch 3, the switches linked: a       *)
(* packet for an id that neither switch has learnt is flooded by each back *)
(* to the other.                                                           *)
(***************************************************************************)
EXTENDS NetSim, TLC

MCHosts == {0, 1}
MCSwitches == {2, 3}
MCPorts == (0 :> <<2>>) @@ (1 :> <<3>>) @@ (2 :> <<0, 3>>) @@ (3 :> <<2, 1>>)
MCToward == (2 :> (0 :> 0 @@ 1 :> 3)) @@ (3 :> (0 :> 2 @@ 1 :> 1))
MCBytes == {7}
MCNoises == {[src |-> 7, dst |-> 7, type |-> "OTHER", body |-> <<>>]}
MCDirs == {<<7>>}
MCFiles == << >>

\* 5 is in the switch's table but no node's id.
MCTraffic == [src : Hosts, dst : Hosts \cup {5}, type : PingTypes, body : {<<>>}]

Ping(d) == [op |-> "p", dst |-> d, name |-> <<>>]
MCPingNobody == {Ping(5)}

\* The user neither changes the host nor quits, and ping_reply_received, which
\* nobody reads before HostPing clears it, is not left to chance.
OneUserSpec ==
    /\ Init /\ acked = [h \in Hosts |-> FALSE]
    /\ [][Next /\ UNCHANGED <<curr, running>>]_vars
    /\ Fairness

=============================================================================
