------------------------------- MODULE MCStar -------------------------------
(***************************************************************************)
(* Hosts 0 and 1 on switch 2, and two files: one of one full payload, whose*)
(* last packet is empty, and one of two full payloads and one byte, which  *)
(* is a byte longer than the receiver's buffer.                            *)
(***************************************************************************)
EXTENDS NetSim, TLC

MCHosts == {0, 1}
MCSwitches == {2}
MCPorts == (0 :> <<2>>) @@ (1 :> <<2>>) @@ (2 :> <<0, 1>>)
MCToward == 2 :> (0 :> 0 @@ 1 :> 1)

DirA == <<11>>
DirB == <<12>>
DirC == <<14>>
Exact == <<13>>
Long == <<16>>
MCGlue == 17
MCLetter == 18
MCBytes == 1 .. 5 \cup 11 .. 18
MCNoises == {[src |-> 15, dst |-> 15, type |-> "OTHER", body |-> <<>>]}
MCDirs == {DirA, DirB, DirC}
MCFiles == (<<DirB, Exact>> :> <<1, 2>>) @@ (<<DirB, Long>> :> <<1, 2, 3, 4, 5>>)

MCTraffic ==
    [src : Hosts, dst : Hosts,
     type : {"UPLOAD_START", "UPLOAD_IN", "UPLOAD_END", "DOWNLOAD_REQ"},
     body : {Exact, Long, <<1, 2>>, <<3, 4>>, <<5>>, <<>>}]

Command(op, dst, name) == [op |-> op, dst |-> dst, name |-> name]
MCDownload ==
    {Command("d", 1, Exact), Command("d", 1, Long), Command("m", 0, DirC)}

\* The user has set the directory of each host and come back to host 0.
DirsSet ==
    /\ WireInit /\ SwitchInit /\ ManPortInit
    /\ phase = [h \in Hosts |-> 0]
    /\ dir = (0 :> DirA) @@ (1 :> DirB)
    /\ jobs = [h \in Hosts |-> << >>]
    /\ acked = [h \in Hosts |-> FALSE]
    /\ fbuf = [h \in Hosts |-> [name |-> << >>, data |-> << >>]]
    /\ disk = Files
    /\ curr = 0 /\ pending = NoCmd /\ issued = 2 /\ shown = << >>
    /\ running = TRUE

\* The user stays at host 0, which asks host 1 for files, and may change its
\* directory, but not to host 1's.
DirsSetSpec ==
    DirsSet /\ [][PacedNext /\ UNCHANGED curr]_vars /\ PacedFairness

=============================================================================
