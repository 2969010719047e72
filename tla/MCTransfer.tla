----------------------------- MODULE MCTransfer -----------------------------
(***************************************************************************)
(* Hosts 0 and 1 linked to each other, as in p2p.config, and a user who    *)
(* sets directories and moves files.  The file takes two full payloads and *)
(* a last one of one byte, and is one byte longer than the receiver's      *)
(* buffer.                                                                 *)
(***************************************************************************)
EXTENDS NetSim, TLC

MCHosts == {0, 1}
MCSwitches == {}
MCPorts == (0 :> <<1>>) @@ (1 :> <<0>>)
MCToward == << >>

\* Two directories, a file name, the glue, its first letter, and noise that
\* is no node's id.
DirA == <<11>>
DirB == <<12>>
Name == <<13>>
MCGlue == 14
MCLetter == 16
MCBytes == 1 .. 5 \cup 11 .. 16
MCNoises == {[src |-> 15, dst |-> 15, type |-> "OTHER", body |-> <<>>]}
MCDirs == {DirA, DirB}
MCFiles == <<DirB, Name>> :> <<1, 2, 3, 4, 5>>

MCTraffic ==
    [src : Hosts, dst : Hosts,
     type : {"UPLOAD_START", "UPLOAD_IN", "UPLOAD_END", "DOWNLOAD_REQ"},
     body : {Name, <<1, 2>>, <<3, 4>>, <<5>>, <<>>}]

Command(op, dst, name) == [op |-> op, dst |-> dst, name |-> name]

\* Every command, sent to a host that may not have read the one before.
MCConsole ==
    {Command("s", 0, <<>>), Command("m", 0, DirB), Command("p", 1, <<>>),
     Command("u", 0, Name), Command("d", 1, Name)}

MCSetAndAsk == {Command("s", 0, <<>>), Command("m", 0, DirA)}

=============================================================================
