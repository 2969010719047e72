------------------------------- MODULE NetSim -------------------------------
(***************************************************************************)
(* The whole simulator: the manager, the hosts and the switches, each a    *)
(* process of its own, with the pipes between them (main.c, net.c).        *)
(***************************************************************************)
EXTENDS Host, Manager, Switch

CONSTANTS
    Traffic,   \* the packets that hosts may send, see SwitchNet
    Toward     \* the neighbour of a switch on the path to a host

vars == <<wire, switchVars, manPortVars, hostVars, managerVars>>

ASSUME NoCmdAssumption == NoCmd \notin CommandSet

-----------------------------------------------------------------------------
Init == WireInit /\ SwitchInit /\ ManPortInit /\ HostInit /\ ManagerInit

Manages == ManagerStep /\ UNCHANGED <<wire, switchVars, hostVars>>

HostRuns(h) ==
    running /\ HostStep(h) /\ UNCHANGED <<switchVars, managerVars>>

SwitchRuns(s) ==
    running /\ SwitchStep(s) /\ UNCHANGED <<manPortVars, hostVars, managerVars>>

\* main() returns after the kill.
Terminated == ~running /\ UNCHANGED vars

Next ==
    \/ Manages
    \/ \E h \in Hosts : HostRuns(h)
    \/ \E s \in Switches : SwitchRuns(s)
    \/ Terminated

\* Every process polls for ever, without waiting for another, until it is
\* killed; the user need not type anything.
Fairness ==
    /\ \A h \in Hosts : WF_vars(HostRuns(h))
    /\ \A s \in Switches : WF_vars(SwitchRuns(s))
    /\ WF_vars(Collect /\ UNCHANGED <<wire, switchVars, hostVars>>)

Spec == Init /\ [][Next]_vars /\ Fairness

-----------------------------------------------------------------------------
\* Every variable has its type.
TypeOK ==
    /\ WireTypeOK
    /\ SwitchTypeOK
    /\ ManPortTypeOK
    /\ HostTypeOK
    /\ ManagerTypeOK

-----------------------------------------------------------------------------
(* The manager and the hosts.                                              *)

Talk == IF pending = NoCmd THEN "idle"
        ELSE IF rsp[curr] = << >> THEN "asked" ELSE "answered"

AR == INSTANCE AskReply WITH talk <- Talk

\* Questions put one at a time to hosts that have read everything sent before
\* are answered, in order (man.c:125-132, 173-181; host.c:348-353, 574-594).
QuestionsAnswered == AR!Spec

\* The part of it that says what may not happen, which holds also of commands
\* that are not waited for and are read together with a question.
QuestionsInTurn == AR!Init /\ [][AR!Next]_Talk

\* The same of the question "s" alone: man.c:114, "Wait for reply from host".
StateAnswered == (pending # NoCmd /\ pending.op = "s") ~> (pending = NoCmd)

\* The questions in a sequence of commands, and the waits in one of jobs.
Questions(q) == {i \in DOMAIN q : q[i].op \in Answered}
Waits(q) == {i \in DOMAIN q : q[i].type = "PING_WAIT"}

\* What the manager waits for has at most one carrier, and no host it does not
\* wait for will ever write to it: a question on its way, a job that waits for
\* the ping's reply, or a reply.  A second one would be taken for the reply to
\* a later question (man.c:131, 180).
OneAnswer ==
    \A h \in Hosts :
        Cardinality(Questions(cmd[h])) + Cardinality(Waits(jobs[h])) + Len(rsp[h])
            <= IF pending # NoCmd /\ h = curr THEN 1 ELSE 0

\* The reply to "s" is put on the console.
StateIsShown == pending # NoCmd /\ pending.op = "s" /\ pending' = NoCmd

\* The directory shown is the one the host has when it is shown, up to its first
\* space, and with none in it the id shown is the host's: it is no older reply and
\* no other host's, and no command on its way changes the directory meanwhile
\* (host.c:151-168, man.c:129-136).
StateShownIsCurrent ==
    [][StateIsShown =>
         /\ shown'[1].dir = FirstWord(dir[curr])
         /\ Glue \notin Range(dir[curr]) => shown' = <<StateOf(curr, dir[curr])>>]_vars

\* host.c:575, "Wait for a ping reply packet", and man.c:158-160, "'p' followed by
\* the id of the host to ping": a ping of an id that no host has is never
\* acknowledged.
AckMeansReachable ==
    (pending # NoCmd /\ pending.op = "p" /\ pending.dst \notin Hosts)
        => [kind |-> "acked"] \notin Range(rsp[curr])

-----------------------------------------------------------------------------
(* Packets.                                                                *)

SwitchNetwork == INSTANCE SwitchNet

\* To the switches, the hosts are the environment that SwitchNet assumes.
ImplementsSwitchNet == SwitchNetwork!Spec

PingTypes == {"PING_REQ", "PING_REPLY"}

\* The copies of pings and their replies that can still reach the host they are
\* for: in a switch's pipe, in that host's, or in the queue of a host.
LivePackets ==
    UNION {{<<e, i>> : i \in {k \in DOMAIN wire[e] :
                LET p == wire[e][k].pkt IN
                p.type \in PingTypes /\ e[2] \in Switches \cup {p.dst}}}
           : e \in Wires}
LiveJobs ==
    UNION {{<<h, i>> : i \in {k \in DOMAIN jobs[h] :
                /\ jobs[h][k].type \in {"SEND_ALL", "PING_SEND_REPLY"}
                /\ jobs[h][k].pkt.type \in PingTypes}}
           : h \in Hosts}

\* With one switch, flooding (switch.c:250-252) and learning between two floods
\* never make two live copies of a ping or of its reply.
NoDuplicatePings == Cardinality(LivePackets) + Cardinality(LiveJobs) <= issued

\* What the hosts sent leaves the network: nothing goes round for ever
\* (switch.c:8, "Relay packets from one host to another").
Quiesces == <>[](~running \/ \A e \in Wires : wire[e] = << >>)

-----------------------------------------------------------------------------
(* Files.                                                                  *)

\* Readers keep up with writers: a packet is read before the next one is
\* written to its pipe.  This is what the sleeps of 5 and 10 ms are for.
Paced == \A e \in Wires : Len(wire'[e]) <= 1

PacedNext == Next /\ Paced

PacedFairness ==
    /\ \A h \in Hosts : WF_vars(HostRuns(h) /\ Paced)
    /\ \A s \in Switches : WF_vars(SwitchRuns(s) /\ Paced)

PacedSpec == Init /\ [][PacedNext]_vars /\ PacedFairness

\* What a receiver can hold of a file.
Kept(data) == IF Len(data) <= MAX_FILE_BUFFER THEN data
              ELSE SubSeq(data, 1, MAX_FILE_BUFFER)

\* A host has opened the file and not closed it.
Open(f) == \E h \in Hosts : phase[h] = FilePhase(h) /\ Target(h) = f

\* host.c:642-644, 727-747: however many packets it took, and whatever else the
\* hosts were doing, a file that has been closed is a file of that name, up to
\* the receiver's buffer.
FilesIntact ==
    \A f \in DOMAIN disk : Open(f) \/ \E g \in DOMAIN Files :
        g[2] = f[2] /\ disk[f] \in {Files[g], Kept(Files[g])}

\* h is about to ask g for the file called name, which g has.
Requested(h, g, name) ==
    /\ SendAll(Packet(h, g, "DOWNLOAD_REQ", name)) \in Range(jobs[h])
    /\ dir[h] \in Dirs
    /\ <<dir[g], name>> \in DOMAIN disk

\* A download, once queued, puts the file in the requesting host's directory
\* unless one of the two directories is changed meanwhile (host.c:401-422,
\* 495-504, 600-698, 752-783).
DownloadCompletes ==
    \A h, g \in Hosts, f \in DOMAIN Files :
        Requested(h, g, f[2])
            ~> \/ <<dir[h], f[2]>> \in DOMAIN disk /\ ~Open(<<dir[h], f[2]>>)
               \/ dir[h] \notin Dirs
               \/ <<dir[g], f[2]>> \notin DOMAIN disk
               \/ ~running

=============================================================================
