----------------------------- MODULE MCSockets ------------------------------
(***************************************************************************)
(* Two networks.  In one, switches 1 and 2 are linked by sockets and host  *)
(* 0 is on switch 1 by pipes.  In the other, the mixed one, switches 2 and *)
(* 3 are linked by pipes, host 0 is on switch 2 by pipes and host 1 on     *)
(* switch 3 by sockets.                                                    *)
(***************************************************************************)
EXTENDS SockNet, TLC

MCHosts == {0}
MCSwitches == {1, 2}
MCPorts == (0 :> <<1>>) @@ (1 :> <<0, 2>>) @@ (2 :> <<1>>)
MCToward == (1 :> (0 :> 0)) @@ (2 :> (0 :> 1))
MCSockets == {<<1, 2>>, <<2, 1>>}
MCBytes == {5}

MCPacket(src, dst) == [src |-> src, dst |-> dst, type |-> "PING_REQ", body |-> <<>>]

\* 3 is in the table but no node's id.
MCTraffic == {MCPacket(0, 3)}
MCNoises == {MCPacket(5, 5)}

\* Memory that spells the id of a host on the other side, or a destination
\* beyond the table.
MCPhantoms == {MCPacket(0, 3), MCPacket(0, -17)}

-----------------------------------------------------------------------------
MixedHosts == {0, 1}
MixedSwitches == {2, 3}
MixedPorts == (0 :> <<2>>) @@ (1 :> <<3>>) @@ (2 :> <<0, 3>>) @@ (3 :> <<2, 1>>)
MixedToward == (2 :> (0 :> 0 @@ 1 :> 3)) @@ (3 :> (0 :> 2 @@ 1 :> 1))
MixedSockets == {<<1, 3>>, <<3, 1>>}
MixedTraffic == {MCPacket(0, 1), MCPacket(1, 0)}
NoPhantoms == {}

=============================================================================
