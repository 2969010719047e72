---------------------------- MODULE MCSwitchNet -----------------------------
(***************************************************************************)
(* Two switches, 2 and 3, linked to each other; host 0 on switch 2, host   *)
(* 1 on switch 3.  Payloads of at most 4 bytes: one read takes two         *)
(* headers, as a read of 104 bytes takes 26, and cuts a 6-byte packet.     *)
(***************************************************************************)
EXTENDS SwitchNet, TLC

CONSTANT MaxInFlight   \* bound on the packets in all the pipes together

MCHosts == {0, 1}
MCSwitches == {2, 3}
MCPorts == (0 :> <<2>>) @@ (1 :> <<3>>) @@ (2 :> <<0, 3>>) @@ (3 :> <<2, 1>>)
MCToward == (2 :> (0 :> 0 @@ 1 :> 3)) @@ (3 :> (0 :> 2 @@ 1 :> 1))
MCBytes == {5}

MCPacket(src, dst, type, body) ==
    [src |-> src, dst |-> dst, type |-> type, body |-> body]

\* 4 is in the table but no node's id, 6 is beyond a table of 6 entries.
MCTraffic ==
    {MCPacket(0, 1, "PING_REPLY", <<>>), MCPacket(0, 4, "UPLOAD_END", <<5, 5>>),
     MCPacket(1, 6, "PING_REQ", <<>>)}

\* What the tail of a cut packet spells after its first byte, which is 5 in the
\* payload and the next packet's type, 1 in a PING_REPLY, in a header.
MCNoises == {MCPacket(5, 0, "OTHER", <<>>)}

InFlight == {<<e, i>> \in Wires \X (1 .. PIPE_CAPACITY) : i \in DOMAIN wire[e]}
FewInFlight == Cardinality(InFlight) <= MaxInFlight

=============================================================================
