---------------------------- MODULE NetSimProofs ----------------------------
(***************************************************************************)
(* Proofs about the whole simulator, for any network, commands, files and  *)
(* sizes: every variable keeps its type, the manager's question has one    *)
(* answer, the directory shown is the host's, to the switches the hosts    *)
(* are the environment that SwitchNet assumes, and one switch makes no     *)
(* second copy of a ping.                                                  *)
(***************************************************************************)
EXTENDS NetSim, SwitchProofs

-----------------------------------------------------------------------------
(* Packets and jobs.                                                       *)

\* What is written to a char fits in it (main.h, struct packet).
LEMMA CharType == \A i \in Int : Char(i) \in -128..127
BY DEF Char

\* What a host writes in a packet is a packet with its own source.
LEMMA PacketType ==
    ASSUME NEW h \in Hosts, NEW dst \in Int, NEW type \in PacketTypes,
           NEW body \in Seq(Bytes)
    PROVE  Packet(h, dst, type, body) \in PacketSet
           /\ Packet(h, dst, type, body).src = Char(h)
<1>1. h \in Int
  BY NodeAssumption
<1>. QED  BY <1>1, CharType DEF Packet, PacketSet

\* The jobs of host h: those that send are to send a packet of its own.
JobsOf(h) == {j \in JobSet : j.type = "SEND_ALL" => j.pkt.src = Char(h)}

\* The jobs that a host adds to send what it has made itself.
OwnSends(h) == {SendAll(p) : p \in {q \in PacketSet : q.src = Char(h)}}

\* The types of the jobs that have a packet.
PacketJobs == {"SEND_ALL", "PING_SEND_REPLY", "RECV_START", "RECV_IN", "RECV_END"}

LEMMA PacketJobTypes == {"SEND_ALL"} \cup Range(JobOfType) = PacketJobs
BY DEF Range, JobOfType, PacketJobs

\* The fields of a job of each type.
LEMMA JobFields ==
    ASSUME NEW j \in JobSet
    PROVE  /\ j.type = "PING_WAIT" => j.timer \in Nat
           /\ j.type = "UPLOAD_SEND" => j.dst \in Int /\ j.name \in Names
           /\ j.type \in PacketJobs => j.pkt \in PacketSet
<1>1. \/ j \in [type : PacketJobs, pkt : PacketSet]
      \/ j \in [type : {"PING_WAIT"}, timer : Nat]
      \/ j \in [type : {"UPLOAD_SEND"}, dst : Int, name : Names]
  BY PacketJobTypes DEF JobSet
<1>. QED  BY <1>1 DEF PacketJobs

\* Jobs that the host makes are jobs of the host, and wait for no reply.
LEMMA JobsMade ==
    ASSUME NEW h \in Hosts
    PROVE  /\ OwnSends(h) \subseteq {j \in JobsOf(h) : j.type = "SEND_ALL"}
           /\ \A t \in Nat : PingWait(t) \in JobsOf(h) /\ PingWait(t).type = "PING_WAIT"
           /\ \A dst \in Int, name \in Names :
                UploadSend(dst, name) \in {j \in JobsOf(h) : j.type = "UPLOAD_SEND"}
           /\ \A type \in DOMAIN JobOfType, p \in PacketSet :
                [type |-> JobOfType[type], pkt |-> p]
                  \in {j \in JobsOf(h) : j.type # "PING_WAIT"}
<1>. USE PacketJobTypes DEF JobSet, JobsOf
<1>1. OwnSends(h) \subseteq {j \in JobsOf(h) : j.type = "SEND_ALL"}
  BY DEF OwnSends, SendAll, PacketJobs
<1>2. \A t \in Nat : PingWait(t) \in JobsOf(h) /\ PingWait(t).type = "PING_WAIT"
  BY DEF PingWait
<1>3. \A dst \in Int, name \in Names :
        UploadSend(dst, name) \in {j \in JobsOf(h) : j.type = "UPLOAD_SEND"}
  BY DEF UploadSend
<1>4. \A type \in DOMAIN JobOfType :
        JobOfType[type] \in PacketJobs \ {"SEND_ALL"}
  BY DEF JobOfType, PacketJobs
<1>5. \A type \in DOMAIN JobOfType, p \in PacketSet :
        [type |-> JobOfType[type], pkt |-> p]
          \in {j \in JobsOf(h) : j.type # "PING_WAIT"}
  BY <1>4 DEF PacketJobs
<1>. QED  BY <1>1, <1>2, <1>3, <1>5

\* A piece of a sequence within its bounds.
LEMMA PieceType ==
    ASSUME NEW S, NEW s \in Seq(S), NEW m \in Nat \ {0}, NEW n \in Int, n <= Len(s)
    PROVE  SubSeq(s, m, n) \in Seq(S)
<1>1. \A i \in m .. n : s[i] \in S
  BY ElementOfSeq
<1>. QED  BY <1>1, SubSeqProperties

\* The jobs that send a piece of a file.
FileSends(h) ==
    {j \in OwnSends(h) : j.pkt.type \in {"UPLOAD_START", "UPLOAD_IN", "UPLOAD_END"}}

\* The jobs of an upload send packets of the host (host.c:600-698).
LEMMA UploadJobsType ==
    ASSUME NEW h \in Hosts, NEW dst \in Int, NEW name \in Names,
           NEW data \in Seq(Bytes)
    PROVE  /\ UploadJobs(h, dst, name, data) \in Seq(FileSends(h))
           /\ UploadJobs(h, dst, name, data) \in Seq(OwnSends(h))
<1>. DEFINE full == Len(data) \div PAYLOAD_MAX
            Part(i) == SubSeq(data, (i - 1) * PAYLOAD_MAX + 1, i * PAYLOAD_MAX)
            rest == SubSeq(data, full * PAYLOAD_MAX + 1, Len(data))
            Send(type, body) == SendAll(Packet(h, dst, type, body))
<1>1. Len(data) \in Nat /\ PAYLOAD_MAX \in Nat /\ PAYLOAD_MAX > 0
  BY SizeAssumption, HostAssumption
<1>2. full \in Nat /\ full * PAYLOAD_MAX \in Nat /\ full * PAYLOAD_MAX <= Len(data)
  BY <1>1
<1>3. ASSUME NEW type \in {"UPLOAD_START", "UPLOAD_IN", "UPLOAD_END"}, NEW body \in Seq(Bytes)
      PROVE  Send(type, body) \in FileSends(h)
  <2>1. Packet(h, dst, type, body) \in {q \in PacketSet : q.src = Char(h)}
    BY PacketType DEF PacketTypes
  <2>2. Send(type, body) \in OwnSends(h)
    BY <2>1 DEF OwnSends
  <2>3. QED BY <2>2 DEF FileSends, SendAll, Packet
<1>4. ASSUME NEW i \in 1 .. full PROVE Part(i) \in Seq(Bytes)
  <2>1. i * PAYLOAD_MAX <= full * PAYLOAD_MAX /\ i * PAYLOAD_MAX \in Nat
    BY <1>1, <1>2
  <2>2. (i - 1) * PAYLOAD_MAX + 1 \in Nat \ {0}
    BY <1>1, <1>2
  <2>. QED  BY <1>1, <1>2, <2>1, <2>2, PieceType
<1>5. rest \in Seq(Bytes)
  BY <1>1, <1>2, PieceType
<1>. HIDE DEF full, Part, rest
<1>6. <<Send("UPLOAD_START", name)>> \in Seq(FileSends(h))
  BY <1>3 DEF Names
<1>7. [i \in 1 .. full |-> Send("UPLOAD_IN", Part(i))] \in Seq(FileSends(h))
  BY <1>2, <1>3, <1>4
<1>8. <<Send("UPLOAD_END", rest)>> \in Seq(FileSends(h))
  BY <1>3, <1>5
<1>. HIDE DEF Send
<1>9. <<Send("UPLOAD_START", name)>>
        \o [i \in 1 .. full |-> Send("UPLOAD_IN", Part(i))]
        \o <<Send("UPLOAD_END", rest)>> \in Seq(FileSends(h))
  BY <1>6, <1>7, <1>8, ConcatProperties
<1>10. FileSends(h) \subseteq OwnSends(h)
  BY DEF FileSends
<1>. QED  BY <1>9, <1>10, SeqMonotonic DEF UploadJobs, full, Part, rest, Send

-----------------------------------------------------------------------------
(* Type correctness.  It needs that the jobs of a host are its own.        *)

PhaseOK == phase \in [Hosts -> Nat] /\ \A h \in Hosts : phase[h] <= FilePhase(h)

JobsOK == /\ jobs \in [Hosts -> Seq(JobSet)]
          /\ \A h \in Hosts : jobs[h] \in Seq(JobsOf(h))

FbufOK == /\ fbuf \in [Hosts -> [name : Names, data : Seq(Bytes)]]
          /\ \A h \in Hosts : Len(fbuf[h].data) <= MAX_FILE_BUFFER

DiskOK == /\ DOMAIN disk \subseteq Dirs \X Names
          /\ \A f \in DOMAIN disk : disk[f] \in Seq(Bytes)

\* What a host keeps has its type and its jobs are its own.
HostOK == /\ PhaseOK /\ JobsOK /\ FbufOK /\ DiskOK
          /\ dir \in [Hosts -> Names]
          /\ acked \in [Hosts -> BOOLEAN]

TypeInv == WireTypeOK /\ SwitchTypeOK /\ ManPortTypeOK /\ HostOK /\ ManagerTypeOK

LEMMA TypeInvImplies == TypeInv => TypeOK
BY DEF TypeInv, TypeOK, HostOK, HostTypeOK, PhaseOK, JobsOK, FbufOK, DiskOK

\* At the start every variable has its type.
LEMMA TypeInvInit == Init => TypeInv
<1>. SUFFICES ASSUME Init PROVE TypeInv
  OBVIOUS
<1>1. WireTypeOK
  BY EmptySeq DEF Init, WireInit, WireTypeOK
<1>2. SwitchTypeOK
  BY SwitchTypeInit DEF Init
<1>3. ManPortTypeOK
  BY EmptySeq DEF Init, ManPortInit, ManPortTypeOK
<1>4. ManagerTypeOK
  BY MaxCmdsAssumption, EmptySeq DEF Init, ManagerInit, ManagerTypeOK
<1>5. PhaseOK
  <2>1. \A h \in Hosts : Len(Ports[h]) \in Nat
    BY PortAssumption, LenProperties DEF Nodes
  <2>. QED  BY <2>1 DEF Init, HostInit, PhaseOK, FilePhase, JobPhase
<1>6. JobsOK
  BY EmptySeq DEF Init, HostInit, JobsOK
<1>7. FbufOK
  <2>1. << >> \in Seq(Bytes) /\ Len(<< >>) = 0
    BY EmptySeq
  <2>2. 0 <= MAX_FILE_BUFFER
    BY HostAssumption
  <2>3. fbuf = [h \in Hosts |-> [name |-> << >>, data |-> << >>]]
    BY DEF Init, HostInit
  <2>. QED  BY <2>1, <2>2, <2>3 DEF FbufOK, Names
<1>8. DiskOK
  BY HostAssumption DEF Init, HostInit, DiskOK
<1>9. dir \in [Hosts -> Names] /\ acked \in [Hosts -> BOOLEAN]
  BY EmptySeq DEF Init, HostInit, NoDir, Names
<1>. QED  BY <1>1, <1>2, <1>3, <1>4, <1>5, <1>6, <1>7, <1>8, <1>9 DEF TypeInv, HostOK

\* The places in a host's loop.
LEMMA PhaseStep ==
    ASSUME PhaseOK, NEW h \in Hosts,
           Advance(h) \/ phase' = phase
             \/ (\E n \in {0, FilePhase(h)} : phase' = [phase EXCEPT ![h] = n])
    PROVE  PhaseOK'
<1>1. JobPhase(h) \in Nat \ {0} /\ FilePhase(h) = JobPhase(h) + 1
  BY PortAssumption, LenProperties DEF Nodes, JobPhase, FilePhase
<1>2. FilePhase(h)' = FilePhase(h) /\ \A k \in Hosts : FilePhase(k)' = FilePhase(k)
  BY DEF FilePhase, JobPhase
<1>3. CASE Advance(h)
  <2>. DEFINE n == (phase[h] + 1) % (JobPhase(h) + 1)
  <2>1. n \in 0 .. FilePhase(h)
    BY <1>1 DEF PhaseOK
  <2>2. phase' = [phase EXCEPT ![h] = n]
    BY <1>3 DEF Advance
  <2>. HIDE DEF n
  <2>. QED  BY <1>1, <1>2, <2>1, <2>2 DEF PhaseOK
<1>4. CASE phase' = phase
  BY <1>2, <1>4 DEF PhaseOK
<1>5. ASSUME NEW n \in {0, FilePhase(h)}, phase' = [phase EXCEPT ![h] = n]
      PROVE  PhaseOK'
  <2>1. n \in Nat /\ n <= FilePhase(h)
    BY <1>1
  <2>. QED  BY <1>2, <1>5, <2>1 DEF PhaseOK
<1>. QED  BY <1>3, <1>4, <1>5

\* Jobs of the host are added to its queue.
LEMMA AddType ==
    ASSUME JobsOK, NEW h \in Hosts, NEW more \in Seq(JobsOf(h)), Add(h, more)
    PROVE  JobsOK'
<1>1. jobs[h] \o more \in Seq(JobsOf(h))
  BY ConcatProperties DEF JobsOK
<1>2. JobsOf(h) \subseteq JobSet
  BY DEF JobsOf
<1>3. jobs[h] \o more \in Seq(JobSet)
  BY <1>1, <1>2, SeqMonotonic
<1>4. jobs' = [jobs EXCEPT ![h] = jobs[h] \o more]
  BY DEF Add
<1>. HIDE DEF JobSet, JobsOf
<1>. QED  BY <1>1, <1>3, <1>4 DEF JobsOK

\* A job is done and jobs of the host are added to its queue.
LEMMA DoneType ==
    ASSUME JobsOK, NEW h \in Hosts, jobs[h] # << >>,
           NEW more \in Seq(JobsOf(h)), Done(h, more)
    PROVE  JobsOK' /\ Job(h) \in JobsOf(h)
<1>1. Tail(jobs[h]) \in Seq(JobsOf(h)) /\ Job(h) \in JobsOf(h)
  BY HeadTailProperties DEF JobsOK, Job
<1>2. Tail(jobs[h]) \o more \in Seq(JobsOf(h))
  BY <1>1, ConcatProperties
<1>3. JobsOf(h) \subseteq JobSet
  BY DEF JobsOf
<1>4. Tail(jobs[h]) \o more \in Seq(JobSet)
  BY <1>2, <1>3, SeqMonotonic
<1>5. jobs' = [jobs EXCEPT ![h] = Tail(jobs[h]) \o more]
  BY DEF Done
<1>. HIDE DEF JobSet, JobsOf
<1>. QED  BY <1>1, <1>2, <1>4, <1>5 DEF JobsOK

\* A command that a host hears is a command, and its name is a name although
\* other commands may be part of it (host.c:131, get_man_command).
LEMMA HeardType ==
    ASSUME ManPortTypeOK, NEW h \in Hosts, cmd[h] # << >>
    PROVE  Heard(cmd[h]) \in CommandSet
<1>1. cmd[h][1] \in CommandSet
  BY EmptySeq DEF ManPortTypeOK
<1>2. Append(cmd[h][1].name, Glue) \in Names
  BY <1>1, AppendProperties, ManPortAssumption DEF CommandSet, Names
<1>. HIDE DEF Names
<1>. QED  BY <1>1, <1>2 DEF Heard, CommandSet

\* The pipes to and from the manager.
LEMMA TalkType ==
    ASSUME ManPortTypeOK, NEW h \in Hosts,
           Hear(h) \/ cmd' = cmd,
           (\E r \in ReplySet : Reply(h, r)) \/ rsp' = rsp
    PROVE  ManPortTypeOK'
<1>1. cmd' \in [Hosts -> Seq(CommandSet)]
  BY EmptySeq DEF Hear, ManPortTypeOK
<1>2. rsp' \in [Hosts -> Seq(ReplySet)]
  <2>1. CASE rsp' = rsp
    BY <2>1 DEF ManPortTypeOK
  <2>2. ASSUME NEW r \in ReplySet, Reply(h, r) PROVE rsp' \in [Hosts -> Seq(ReplySet)]
    BY <2>2, AppendProperties DEF Reply, ManPortTypeOK
  <2>. QED  BY <2>1, <2>2
<1>. QED  BY <1>1, <1>2 DEF ManPortTypeOK

\* The source and the payload of a packet.
LEMMA PacketFields ==
    ASSUME NEW p \in PacketSet
    PROVE  p.src \in Int /\ p.body \in Names
<1>1. p.src \in -128..127 /\ p.body \in Names
  BY DEF PacketSet, Names
<1>. QED  BY <1>1

\* What a host finds on a port is a packet, and the pipe keeps its type.
LEMMA ReceivesType ==
    ASSUME WireTypeOK, NEW h \in Hosts, NEW p, Receives(h, p)
    PROVE  /\ p \in PacketSet
           /\ WireTypeOK'
           /\ \E n \in Neighbours(h) :
                wire[<<n, h>>] # << >> /\ wire' = ReadFrom(wire, <<n, h>>)
<1>. DEFINE n == Ports[h][phase[h]]
<1>1. n \in Neighbours(h) /\ Link(h) = <<n, h>>
  BY DEF Receives, AtPort, Neighbours, Range, Link
<1>2. <<n, h>> \in Wires
  BY <1>1, NeighbourWire DEF Nodes
<1>. HIDE DEF n
<1>3. p \in Arrivals(wire[<<n, h>>]) /\ wire' = ReadFrom(wire, <<n, h>>)
  BY <1>1 DEF Receives
<1>4. p \in PacketSet
  BY <1>2, <1>3, ArrivalsPackets DEF WireTypeOK
<1>5. WireTypeOK'
  BY <1>2, <1>3, ReadFromType DEF WireTypeOK
<1>6. wire[<<n, h>>] # << >>
  BY <1>3 DEF Arrivals
<1>. QED  BY <1>1, <1>3, <1>4, <1>5, <1>6

\* The commands of the manager keep the types (host.c:131-180, 348-430).
LEMMA CommandType ==
    ASSUME TypeInv, NEW h \in Hosts, HostCommand(h)
    PROVE  WireTypeOK' /\ ManPortTypeOK' /\ HostOK'
<1>. USE DEF TypeInv, HostOK
<1>1. CASE HostNoCommand(h)
  BY <1>1, PhaseStep
     DEF HostNoCommand, WireTypeOK, manPortVars, ManPortTypeOK, JobsOK, FbufOK, DiskOK
<1>2. ASSUME NEW op, AtCommand(h, op)
      PROVE  PhaseOK' /\ Hear(h) /\ Heard(cmd[h]) \in CommandSet
  BY <1>2, PhaseStep, HeardType DEF AtCommand
<1>3. CASE HostState(h)
  <2>1. [kind |-> "state", dir |-> dir[h]] \in ReplySet
    BY DEF ReplySet
  <2>2. ManPortTypeOK'
    BY <1>2, <1>3, <2>1, TalkType DEF HostState
  <2>. QED  BY <1>2, <1>3, <2>2 DEF HostState, WireTypeOK, JobsOK, FbufOK, DiskOK
<1>4. CASE HostSetDir(h)
  <2>1. ManPortTypeOK'
    BY <1>2, <1>4, TalkType DEF HostSetDir
  <2>2. dir' \in [Hosts -> Names]
    BY <1>2, <1>4 DEF HostSetDir, CommandSet
  <2>. QED  BY <1>2, <1>4, <2>1, <2>2 DEF HostSetDir, WireTypeOK, JobsOK, FbufOK, DiskOK
<1>5. CASE HostPing(h)
  <2>. DEFINE c == Heard(cmd[h])
              send == SendAll(Packet(h, c.dst, "PING_REQ", << >>))
  <2>1. c.dst \in Int
    BY <1>2, <1>5 DEF HostPing, CommandSet
  <2>2. Packet(h, c.dst, "PING_REQ", << >>) \in {q \in PacketSet : q.src = Char(h)}
    BY <2>1, PacketType, EmptySeq DEF PacketTypes
  <2>. HIDE DEF c
  <2>3. send \in JobsOf(h) /\ PingWait(PING_TIMER) \in JobsOf(h)
    BY <2>2, JobsMade, HostAssumption DEF OwnSends
  <2>. HIDE DEF send
  <2>4. <<send, PingWait(PING_TIMER)>> \in Seq(JobsOf(h))
    BY <2>3
  <2>5. JobsOK'
    BY <1>5, <2>4, AddType DEF HostPing, send, c
  <2>6. ManPortTypeOK'
    BY <1>2, <1>5, TalkType DEF HostPing
  <2>. QED  BY <1>2, <1>5, <2>5, <2>6 DEF HostPing, WireTypeOK, FbufOK, DiskOK
<1>6. CASE HostUpload(h)
  <2>. DEFINE c == Heard(cmd[h])
  <2>1. c.dst \in Int /\ c.name \in Names
    BY <1>2, <1>6 DEF HostUpload, CommandSet
  <2>. HIDE DEF c
  <2>2. UploadSend(c.dst, c.name) \in JobsOf(h)
    BY <2>1, JobsMade
  <2>3. <<UploadSend(c.dst, c.name)>> \in Seq(JobsOf(h))
    BY <2>2
  <2>4. JobsOK'
    BY <1>6, <2>3, AddType DEF HostUpload, c
  <2>5. ManPortTypeOK'
    BY <1>2, <1>6, TalkType DEF HostUpload
  <2>. QED  BY <1>2, <1>6, <2>4, <2>5 DEF HostUpload, WireTypeOK, FbufOK, DiskOK
<1>7. CASE HostDownload(h)
  <2>. DEFINE c == Heard(cmd[h])
              send == SendAll(Packet(h, c.dst, "DOWNLOAD_REQ", c.name))
  <2>1. c.dst \in Int /\ c.name \in Seq(Bytes)
    BY <1>2, <1>7 DEF HostDownload, CommandSet, Names
  <2>2. Packet(h, c.dst, "DOWNLOAD_REQ", c.name) \in {q \in PacketSet : q.src = Char(h)}
    BY <2>1, PacketType DEF PacketTypes
  <2>. HIDE DEF c
  <2>3. send \in JobsOf(h)
    BY <2>2, JobsMade DEF OwnSends
  <2>. HIDE DEF send
  <2>4. <<send>> \in Seq(JobsOf(h))
    BY <2>3
  <2>5. JobsOK'
    BY <1>7, <2>4, AddType DEF HostDownload, send, c
  <2>6. ManPortTypeOK'
    BY <1>2, <1>7, TalkType DEF HostDownload
  <2>. QED  BY <1>2, <1>7, <2>5, <2>6 DEF HostDownload, WireTypeOK, FbufOK, DiskOK
<1>. QED  BY <1>1, <1>3, <1>4, <1>5, <1>6, <1>7 DEF HostCommand

\* The scan of the ports keeps the types (host.c:433-505).
LEMMA PortType ==
    ASSUME TypeInv, NEW h \in Hosts, HostPort(h)
    PROVE  WireTypeOK' /\ ManPortTypeOK' /\ HostOK'
<1>. USE DEF TypeInv, HostOK
<1>1. CASE HostNoPacket(h)
  BY <1>1, PhaseStep
     DEF HostNoPacket, WireTypeOK, manPortVars, ManPortTypeOK, JobsOK, FbufOK, DiskOK
<1>2. ASSUME NEW p, Receives(h, p)
      PROVE  PhaseOK' /\ WireTypeOK' /\ p \in PacketSet
  BY <1>2, PhaseStep, ReceivesType DEF Receives
<1>3. CASE HostIgnore(h)
  BY <1>2, <1>3 DEF HostIgnore, manPortVars, ManPortTypeOK, JobsOK, FbufOK, DiskOK
<1>4. CASE HostPingReply(h)
  BY <1>2, <1>4 DEF HostPingReply, manPortVars, ManPortTypeOK, JobsOK, FbufOK, DiskOK
<1>5. CASE HostQueue(h)
  <2>1. PICK p : /\ p.type \in DOMAIN JobOfType
                 /\ Receives(h, p)
                 /\ Add(h, <<[type |-> JobOfType[p.type], pkt |-> p]>>)
    BY <1>5 DEF HostQueue
  <2>2. [type |-> JobOfType[p.type], pkt |-> p] \in JobsOf(h)
    BY <1>2, <2>1, JobsMade
  <2>3. <<[type |-> JobOfType[p.type], pkt |-> p]>> \in Seq(JobsOf(h))
    BY <2>2
  <2>4. JobsOK'
    BY <2>1, <2>3, AddType
  <2>. QED  BY <1>2, <1>5, <2>1, <2>4 DEF HostQueue, manPortVars, ManPortTypeOK, FbufOK, DiskOK
<1>6. CASE HostDownloadRequest(h)
  <2>1. PICK p : Receives(h, p) /\ Add(h, <<UploadSend(p.src, p.body)>>)
    BY <1>6 DEF HostDownloadRequest
  <2>2. p.src \in Int /\ p.body \in Names
    BY <1>2, <2>1, PacketFields
  <2>3. UploadSend(p.src, p.body) \in JobsOf(h)
    BY <2>2, JobsMade
  <2>4. <<UploadSend(p.src, p.body)>> \in Seq(JobsOf(h))
    BY <2>3
  <2>5. JobsOK'
    BY <2>1, <2>4, AddType
  <2>. QED  BY <1>2, <1>6, <2>1, <2>5
            DEF HostDownloadRequest, manPortVars, ManPortTypeOK, FbufOK, DiskOK
<1>. QED  BY <1>1, <1>3, <1>4, <1>5, <1>6 DEF HostPort

\* What file_buf_add leaves in the buffer fits in it (host.c:86-101).
LEMMA BufAddType ==
    ASSUME NEW f \in [name : Names, data : Seq(Bytes)], NEW body \in Seq(Bytes)
    PROVE  /\ BufAdd(f, body) \in [name : Names, data : Seq(Bytes)]
           /\ BufAdd(f, body).name = f.name
           /\ Len(BufAdd(f, body).data) <= MAX_FILE_BUFFER
<1>. DEFINE all == f.data \o body
            kept == IF Len(all) <= MAX_FILE_BUFFER THEN all
                    ELSE SubSeq(all, 1, MAX_FILE_BUFFER)
<1>1. all \in Seq(Bytes) /\ Len(all) \in Nat /\ MAX_FILE_BUFFER \in Nat
  BY ConcatProperties, LenProperties, HostAssumption
<1>. HIDE DEF all
<1>2. CASE Len(all) <= MAX_FILE_BUFFER
  BY <1>1, <1>2 DEF BufAdd, all
<1>3. CASE ~(Len(all) <= MAX_FILE_BUFFER)
  <2>1. /\ SubSeq(all, 1, MAX_FILE_BUFFER) \in Seq(Bytes)
        /\ Len(SubSeq(all, 1, MAX_FILE_BUFFER)) <= MAX_FILE_BUFFER
    <3>1. \A i \in 1 .. MAX_FILE_BUFFER : all[i] \in Bytes
      BY <1>1, <1>3, ElementOfSeq
    <3>. QED  BY <1>1, <3>1, SubSeqProperties
  <2>2. BufAdd(f, body) = [f EXCEPT !.data = SubSeq(all, 1, MAX_FILE_BUFFER)]
    BY <1>3 DEF BufAdd, all
  <2>. QED  BY <2>1, <2>2
<1>. QED  BY <1>2, <1>3

\* The jobs keep the types (host.c:508-795).
LEMMA JobType ==
    ASSUME TypeInv, NEW h \in Hosts, HostJob(h)
    PROVE  WireTypeOK' /\ ManPortTypeOK' /\ HostOK'
<1>. USE DEF HostOK
<1>0. WireTypeOK /\ ManPortTypeOK /\ HostOK
  BY DEF TypeInv
<1>1. CASE HostNoJob(h)
  BY <1>0, <1>1, PhaseStep
     DEF HostNoJob, WireTypeOK, manPortVars, ManPortTypeOK, JobsOK, FbufOK, DiskOK
<1>2. ASSUME NEW type, Runs(h, type)
      PROVE  /\ jobs[h] # << >> /\ Job(h).type = type
             /\ Job(h) \in JobsOf(h) /\ Job(h) \in JobSet
  <2>1. jobs[h] # << >> /\ Job(h).type = type
    BY <1>2 DEF Runs
  <2>2. Job(h) \in JobsOf(h)
    BY <1>0, <2>1, HeadTailProperties DEF JobsOK, Job
  <2>. QED  BY <2>1, <2>2 DEF JobsOf
<1>3. ASSUME NEW type, AtJob(h, type)
      PROVE  PhaseOK' /\ Runs(h, type)
  BY <1>0, <1>3, PhaseStep DEF AtJob
<1>4. << >> \in Seq(JobsOf(h))
  BY EmptySeq
<1>5. CASE JobSendAll(h)
  <2>1. Runs(h, "SEND_ALL") /\ PhaseOK'
    BY <1>3, <1>5 DEF JobSendAll
  <2>2. JobsOK'
    BY <1>0, <1>2, <1>4, <1>5, <2>1, DoneType DEF JobSendAll
  <2>3. Job(h).pkt \in PacketSet
    BY <1>2, <2>1, JobFields DEF PacketJobs
  <2>4. WireTypeOK'
    BY <1>0, <1>5, <2>3, SendToType DEF JobSendAll, WireTypeOK
  <2>. QED  BY <1>0, <1>5, <2>1, <2>2, <2>4
            DEF JobSendAll, manPortVars, ManPortTypeOK, FbufOK, DiskOK
<1>6. CASE JobPingSendReply(h)
  <2>. DEFINE send == SendAll(Packet(h, Job(h).pkt.src, "PING_REPLY", << >>))
  <2>1. Runs(h, "PING_SEND_REPLY") /\ PhaseOK'
    BY <1>3, <1>6 DEF JobPingSendReply
  <2>2. Job(h).pkt \in PacketSet
    BY <1>2, <2>1, JobFields DEF PacketJobs
  <2>3. Job(h).pkt.src \in Int
    BY <2>2, PacketFields
  <2>4. send \in OwnSends(h)
    BY <2>3, PacketType, EmptySeq DEF PacketTypes, OwnSends
  <2>. HIDE DEF send
  <2>5. <<send>> \in Seq(JobsOf(h))
    BY <2>4, JobsMade
  <2>6. JobsOK'
    BY <1>0, <1>2, <1>6, <2>1, <2>5, DoneType DEF JobPingSendReply, send
  <2>. QED  BY <1>0, <1>6, <2>1, <2>6
            DEF JobPingSendReply, WireTypeOK, manPortVars, ManPortTypeOK, FbufOK, DiskOK
<1>7. CASE JobPingAcked(h)
  <2>1. Runs(h, "PING_WAIT") /\ PhaseOK'
    BY <1>3, <1>7 DEF JobPingAcked
  <2>2. JobsOK'
    BY <1>0, <1>2, <1>4, <1>7, <2>1, DoneType DEF JobPingAcked
  <2>3. [kind |-> "acked"] \in ReplySet
    BY DEF ReplySet
  <2>4. ManPortTypeOK'
    BY <1>0, <1>7, <2>3, TalkType DEF JobPingAcked
  <2>. QED  BY <1>0, <1>7, <2>1, <2>2, <2>4 DEF JobPingAcked, WireTypeOK, FbufOK, DiskOK
<1>8. CASE JobPingWait(h)
  <2>1. Runs(h, "PING_WAIT") /\ PhaseOK'
    BY <1>3, <1>8 DEF JobPingWait
  <2>2. Job(h).timer - 1 \in Nat
    BY <1>2, <1>8, <2>1, JobFields DEF JobPingWait
  <2>3. <<PingWait(Job(h).timer - 1)>> \in Seq(JobsOf(h))
    BY <2>2, JobsMade
  <2>4. JobsOK'
    BY <1>0, <1>2, <1>8, <2>1, <2>3, DoneType DEF JobPingWait
  <2>. QED  BY <1>0, <1>8, <2>1, <2>4
            DEF JobPingWait, WireTypeOK, manPortVars, ManPortTypeOK, FbufOK, DiskOK
<1>9. CASE JobPingTimeOut(h)
  <2>1. Runs(h, "PING_WAIT") /\ PhaseOK'
    BY <1>3, <1>9 DEF JobPingTimeOut
  <2>2. JobsOK'
    BY <1>0, <1>2, <1>4, <1>9, <2>1, DoneType DEF JobPingTimeOut
  <2>3. [kind |-> "timeout"] \in ReplySet
    BY DEF ReplySet
  <2>4. ManPortTypeOK'
    BY <1>0, <1>9, <2>3, TalkType DEF JobPingTimeOut
  <2>. QED  BY <1>0, <1>9, <2>1, <2>2, <2>4 DEF JobPingTimeOut, WireTypeOK, FbufOK, DiskOK
<1>10. CASE JobUploadSend(h)
  <2>. DEFINE file == <<dir[h], Job(h).name>>
              more == IF file \in DOMAIN disk
                      THEN UploadJobs(h, Job(h).dst, Job(h).name, disk[file])
                      ELSE << >>
  <2>1. Runs(h, "UPLOAD_SEND") /\ PhaseOK'
    BY <1>3, <1>10 DEF JobUploadSend
  <2>2. Job(h).dst \in Int /\ Job(h).name \in Names
    BY <1>2, <2>1, JobFields
  <2>3. more \in Seq(OwnSends(h))
    BY <1>0, <2>2, UploadJobsType, EmptySeq DEF DiskOK
  <2>4. Done(h, more)
    BY <1>10 DEF JobUploadSend
  <2>. HIDE DEF more
  <2>5. more \in Seq(JobsOf(h))
    <3>1. OwnSends(h) \subseteq JobsOf(h)
      BY JobsMade
    <3>. QED  BY <2>3, <3>1, SeqMonotonic
  <2>6. JobsOK'
    BY <1>0, <1>2, <2>1, <2>4, <2>5, DoneType
  <2>. QED  BY <1>0, <1>10, <2>1, <2>6
            DEF JobUploadSend, WireTypeOK, manPortVars, ManPortTypeOK, FbufOK, DiskOK
<1>11. ASSUME Runs(h, "RECV_START") \/ Runs(h, "RECV_IN") \/ Runs(h, "RECV_END"),
              Done(h, << >>)
       PROVE  JobsOK' /\ Job(h).pkt.body \in Seq(Bytes)
  <2>1. Job(h).pkt \in PacketSet
    BY <1>2, <1>11, JobFields DEF PacketJobs
  <2>. QED  BY <1>0, <1>2, <1>4, <1>11, <2>1, DoneType DEF PacketSet
<1>12. ASSUME Job(h).pkt.body \in Seq(Bytes),
              fbuf' = [fbuf EXCEPT ![h] = BufAdd(@, Job(h).pkt.body)]
       PROVE  FbufOK'
  <2>1. fbuf[h] \in [name : Names, data : Seq(Bytes)]
    BY <1>0 DEF FbufOK
  <2>. QED  BY <1>0, <1>12, <2>1, BufAddType DEF FbufOK
<1>13. CASE JobRecvStart(h)
  <2>1. Runs(h, "RECV_START") /\ PhaseOK'
    BY <1>3, <1>13 DEF JobRecvStart
  <2>2. JobsOK' /\ Job(h).pkt.body \in Seq(Bytes)
    BY <1>11, <1>13, <2>1 DEF JobRecvStart
  <2>3. FbufOK'
    <3>1. << >> \in Seq(Bytes) /\ Len(<< >>) = 0 /\ 0 <= MAX_FILE_BUFFER
      BY EmptySeq, HostAssumption
    <3>2. fbuf' = [fbuf EXCEPT ![h] = [name |-> Job(h).pkt.body, data |-> << >>]]
      BY <1>13 DEF JobRecvStart
    <3>. QED  BY <1>0, <2>2, <3>1, <3>2 DEF FbufOK, Names
  <2>. QED  BY <1>0, <1>13, <2>1, <2>2, <2>3
            DEF JobRecvStart, WireTypeOK, manPortVars, ManPortTypeOK, DiskOK
<1>14. CASE JobRecvIn(h)
  <2>1. Runs(h, "RECV_IN") /\ PhaseOK'
    BY <1>3, <1>14 DEF JobRecvIn
  <2>2. JobsOK' /\ FbufOK'
    BY <1>11, <1>12, <1>14, <2>1 DEF JobRecvIn
  <2>. QED  BY <1>0, <1>14, <2>1, <2>2
            DEF JobRecvIn, WireTypeOK, manPortVars, ManPortTypeOK, DiskOK
<1>15. CASE JobRecvEndNoFile(h)
  <2>1. Runs(h, "RECV_END") /\ PhaseOK'
    BY <1>3, <1>15 DEF JobRecvEndNoFile
  <2>2. JobsOK' /\ FbufOK'
    BY <1>11, <1>12, <1>15, <2>1 DEF JobRecvEndNoFile
  <2>. QED  BY <1>0, <1>15, <2>1, <2>2
            DEF JobRecvEndNoFile, WireTypeOK, manPortVars, ManPortTypeOK, DiskOK
<1>16. CASE JobRecvEnd(h)
  <2>1. Runs(h, "RECV_END")
    BY <1>16 DEF JobRecvEnd
  <2>2. JobsOK' /\ FbufOK'
    BY <1>11, <1>12, <1>16, <2>1 DEF JobRecvEnd
  <2>3. PhaseOK'
    BY <1>0, <1>16, PhaseStep DEF JobRecvEnd
  <2>4. DiskOK'
    <3>1. disk' = [f \in DOMAIN disk \cup {Target(h)} |->
                     IF f = Target(h) THEN << >> ELSE disk[f]]
      BY <1>16 DEF JobRecvEnd
    <3>2. Target(h) \in Dirs \X Names
      BY <1>0, <1>16 DEF JobRecvEnd, CanCreate, Target, FbufOK
    <3>3. << >> \in Seq(Bytes)
      BY EmptySeq
    <3>. QED  BY <1>0, <3>1, <3>2, <3>3 DEF DiskOK
  <2>. QED  BY <1>0, <1>16, <2>2, <2>3, <2>4
            DEF JobRecvEnd, WireTypeOK, manPortVars, ManPortTypeOK
<1>17. CASE JobFileWritten(h)
  <2>. DEFINE data == fbuf[h].data
              old == disk[Target(h)]
  <2>1. PhaseOK'
    BY <1>0, <1>17, PhaseStep DEF JobFileWritten
  <2>2. data \in Seq(Bytes) /\ Len(data) \in Nat
    BY <1>0, LenProperties DEF FbufOK
  <2>3. disk' = [disk EXCEPT ![Target(h)] = data \o SubSeq(old, Len(data) + 1, Len(old))]
    BY <1>17 DEF JobFileWritten
  <2>4. ASSUME Target(h) \in DOMAIN disk
        PROVE  data \o SubSeq(old, Len(data) + 1, Len(old)) \in Seq(Bytes)
    <3>1. old \in Seq(Bytes) /\ Len(old) \in Nat
      BY <1>0, <2>4, LenProperties DEF DiskOK
    <3>2. SubSeq(old, Len(data) + 1, Len(old)) \in Seq(Bytes)
      BY <2>2, <3>1, PieceType
    <3>. QED  BY <2>2, <3>2, ConcatProperties
  <2>. HIDE DEF data, old
  <2>5. DiskOK'
    BY <1>0, <2>3, <2>4 DEF DiskOK
  <2>6. FbufOK'
    <3>1. << >> \in Seq(Bytes) /\ Len(<< >>) = 0 /\ 0 <= MAX_FILE_BUFFER
      BY EmptySeq, HostAssumption
    <3>2. fbuf' = [fbuf EXCEPT ![h].data = << >>]
      BY <1>17 DEF JobFileWritten
    <3>. QED  BY <1>0, <3>1, <3>2 DEF FbufOK
  <2>. QED  BY <1>0, <1>17, <2>1, <2>5, <2>6
            DEF JobFileWritten, WireTypeOK, manPortVars, ManPortTypeOK, JobsOK
<1>. QED  BY <1>1, <1>5, <1>6, <1>7, <1>8, <1>9, <1>10, <1>13, <1>14, <1>15, <1>16,
             <1>17 DEF HostJob

\* What is shown of a reply is a line, and of the reply to "s" the directory it
\* holds, up to a space, and when there is none the host.
LEMMA PrintedIs ==
    ASSUME curr \in Hosts, NEW q \in ReplySet, NEW r \in Printed(q)
    PROVE  /\ r \in Lines
           /\ pending.op = "s" /\ q.kind = "state" =>
                /\ r.dir = FirstWord(q.dir)
                /\ Glue \notin Range(q.dir) => r = StateOf(curr, q.dir)
<1>1. CASE ~(pending.op = "s" /\ q.kind = "state")
  <2>1. r = q
    BY <1>1 DEF Printed
  <2>. QED  BY <1>1, <2>1 DEF Lines
<1>2. CASE pending.op = "s" /\ q.kind = "state"
  <2>1. q.dir \in Names
    BY <1>2 DEF ReplySet
  <2>2. PICK d \in Names : d = q.dir
    BY <2>1
  <2>3. r \in ScannedState(curr, d)
    BY <1>2, <2>2 DEF Printed
  <2>4. FirstWord(d) \in Names
    <3>1. d \in Seq(Bytes)
      BY DEF Names
    <3>2. ASSUME NEW i \in DOMAIN d
          PROVE  (IF d[i] = Glue THEN Letter ELSE d[i]) \in Bytes
      BY <3>1, ElementOfSeq, LetterAssumption
    <3>3. DOMAIN d = 1 .. Len(d) /\ Len(d) \in Nat
      BY <3>1, LenProperties
    <3>. QED  BY <3>2, <3>3 DEF FirstWord, Names
  <2>5. CASE Glue \in Range(d)
    <3>1. PICK id \in Hosts \cup {-1} : r = StateOf(id, FirstWord(d))
      BY <2>3, <2>5 DEF ScannedState
    <3>2. id \in Int
      BY NodeAssumption
    <3>3. r \in Lines /\ r.dir = FirstWord(d)
      BY <2>4, <3>1, <3>2 DEF StateOf, Lines
    <3>. QED  BY <2>2, <2>5, <3>3
  <2>6. CASE Glue \notin Range(d)
    <3>1. r = StateOf(curr, d)
      BY <2>3, <2>6 DEF ScannedState
    <3>2. curr \in Int
      BY NodeAssumption
    <3>3. r \in Lines /\ r.dir = d
      BY <3>1, <3>2 DEF StateOf, Lines
    <3>4. FirstWord(d) = d
      <4>1. \A i \in DOMAIN d : d[i] # Glue
        BY <2>6 DEF Range
      <4>2. d = [i \in DOMAIN d |-> d[i]]
        BY DEF Names
      <4>. QED  BY <4>1, <4>2 DEF FirstWord
    <3>. QED  BY <2>2, <3>1, <3>3, <3>4
  <2>. QED  BY <2>5, <2>6
<1>. QED  BY <1>1, <1>2

\* A step that shows something shows the reply that it takes out of the pipe.
LEMMA CollectShows ==
    ASSUME TypeInv, Collect
    PROVE  /\ curr \in Hosts /\ 1 \in DOMAIN rsp[curr] /\ rsp[curr][1] \in ReplySet
           /\ \E r \in Printed(rsp[curr][1]) : shown' = <<r>>
<1>1. rsp[curr] \in Seq(ReplySet) /\ rsp[curr] # << >> /\ curr \in Hosts
  BY DEF TypeInv, ManPortTypeOK, ManagerTypeOK, Collect
<1>2. 1 \in DOMAIN rsp[curr] /\ Head(rsp[curr]) = rsp[curr][1]
  BY <1>1, EmptySeq
<1>3. rsp[curr][1] \in ReplySet
  BY <1>1, <1>2, ElementOfSeq
<1>. QED  BY <1>1, <1>2, <1>3 DEF Collect

\* The manager keeps the types.
LEMMA ManagerType ==
    ASSUME TypeInv, ManagerStep
    PROVE  ManPortTypeOK' /\ ManagerTypeOK'
<1>1. ManPortTypeOK /\ ManagerTypeOK
  BY DEF TypeInv
<1>2. CASE Issue
  <2>1. PICK c \in UserCmds :
          Ask(curr, c) /\ pending' = IF c.op \in Answered THEN c ELSE NoCmd
    BY <1>2 DEF Issue
  <2>2. c \in CommandSet
    BY ManPortAssumption
  <2>3. cmd' \in [Hosts -> Seq(CommandSet)]
    BY <1>1, <2>1, <2>2, AppendProperties DEF Ask, ManPortTypeOK, ManagerTypeOK
  <2>4. issued' \in 0 .. MaxCmds
    BY <1>1, <1>2, MaxCmdsAssumption DEF Issue, ManagerTypeOK
  <2>5. shown' \in Seq(Lines)
    BY <1>2, EmptySeq DEF Issue
  <2>. QED  BY <1>1, <1>2, <2>1, <2>2, <2>3, <2>4, <2>5
            DEF Issue, ManPortTypeOK, ManagerTypeOK
<1>3. CASE ChangeHost
  BY <1>1, <1>3 DEF ChangeHost, manPortVars, ManPortTypeOK, ManagerTypeOK
<1>4. CASE Collect
  <2>1. PICK r \in Lines : shown' = <<r>>
    BY <1>4, CollectShows, PrintedIs
  <2>2. shown' \in Seq(Lines)
    BY <2>1
  <2>. QED  BY <1>1, <1>4, <2>2, EmptySeq DEF Collect, ManPortTypeOK, ManagerTypeOK
<1>5. CASE Quit
  BY <1>1, <1>5 DEF Quit, manPortVars, ManPortTypeOK, ManagerTypeOK
<1>. QED  BY <1>2, <1>3, <1>4, <1>5 DEF ManagerStep

\* What one process does not write keeps its type.
LEMMA TypeFrames ==
    ASSUME TypeInv
    PROVE  /\ wire' = wire => WireTypeOK'
           /\ UNCHANGED switchVars => SwitchTypeOK'
           /\ UNCHANGED manPortVars => ManPortTypeOK'
           /\ UNCHANGED hostVars => HostOK'
           /\ UNCHANGED managerVars => ManagerTypeOK'
<1>. USE DEF TypeInv
<1>1. wire' = wire => WireTypeOK'
  BY DEF WireTypeOK
<1>2. UNCHANGED switchVars => SwitchTypeOK'
  BY DEF switchVars, SwitchTypeOK
<1>3. UNCHANGED manPortVars => ManPortTypeOK'
  BY DEF manPortVars, ManPortTypeOK
<1>4. UNCHANGED hostVars => HostOK'
  BY DEF hostVars, HostOK, PhaseOK, FilePhase, JobPhase, JobsOK, FbufOK, DiskOK
<1>5. UNCHANGED managerVars => ManagerTypeOK'
  BY DEF managerVars, ManagerTypeOK
<1>. QED  BY <1>1, <1>2, <1>3, <1>4, <1>5

\* Every step keeps the types.
LEMMA TypeInvStep == TypeInv /\ [Next]_vars => TypeInv'
<1>. SUFFICES ASSUME TypeInv, [Next]_vars PROVE TypeInv'
  OBVIOUS
<1>1. CASE Manages
  BY <1>1, ManagerType, TypeFrames DEF Manages, TypeInv
<1>2. ASSUME NEW h \in Hosts, HostRuns(h) PROVE TypeInv'
  <2>1. WireTypeOK' /\ ManPortTypeOK' /\ HostOK'
    BY <1>2, CommandType, PortType, JobType DEF HostRuns, HostStep
  <2>2. UNCHANGED switchVars /\ UNCHANGED managerVars
    BY <1>2 DEF HostRuns
  <2>. QED  BY <2>1, <2>2, TypeFrames DEF TypeInv
<1>3. ASSUME NEW s \in Switches, SwitchRuns(s) PROVE TypeInv'
  <2>1. WireTypeOK' /\ SwitchTypeOK'
    BY <1>3, SwitchTypeStep DEF SwitchRuns, TypeInv
  <2>2. UNCHANGED manPortVars /\ UNCHANGED hostVars /\ UNCHANGED managerVars
    BY <1>3 DEF SwitchRuns
  <2>. QED  BY <2>1, <2>2, TypeFrames DEF TypeInv
<1>4. CASE UNCHANGED vars
  <2>1. /\ wire' = wire /\ UNCHANGED switchVars /\ UNCHANGED manPortVars
        /\ UNCHANGED hostVars /\ UNCHANGED managerVars
    BY <1>4 DEF vars
  <2>. QED  BY <2>1, TypeFrames DEF TypeInv
<1>. QED  BY <1>1, <1>2, <1>3, <1>4 DEF Next, Terminated

\* Every variable of the simulator always has its type: a host's buffer holds no
\* more than it has room for (host.c:86-101), the place in its loop is one of
\* its ports or jobs, and what is in the pipes are packets, commands and replies.
THEOREM SimulatorTypeCorrect == Spec => []TypeOK
BY TypeInvInit, TypeInvStep, TypeInvImplies, PTL DEF Spec

-----------------------------------------------------------------------------
(* To the switches the hosts are those of SwitchNet.                       *)

\* The operators of SwitchNet are those of NetSim.
LEMMA SameSendTo ==
    ASSUME NEW w, NEW n, NEW dests, NEW p
    PROVE  SwitchNetwork!SendTo(w, n, dests, p) = SendTo(w, n, dests, p)
BY DEF SwitchNetwork!SendTo, SwitchNetwork!Push, SwitchNetwork!Total,
       SwitchNetwork!Size, SwitchNetwork!HeaderSize, SwitchNetwork!Wires,
       SwitchNetwork!Nodes, SwitchNetwork!Neighbours, SwitchNetwork!Range, Range,
       SendTo, Push, Total, Size, HeaderSize, Wires, Nodes, Neighbours

LEMMA SameReadFrom ==
    ASSUME NEW w, NEW e
    PROVE  SwitchNetwork!ReadFrom(w, e) = ReadFrom(w, e)
BY DEF SwitchNetwork!ReadFrom, SwitchNetwork!Rest, SwitchNetwork!WholeTaken,
       SwitchNetwork!Taken, SwitchNetwork!Total, SwitchNetwork!ReadMax,
       SwitchNetwork!HeaderSize, SwitchNetwork!Cardinality, Cardinality,
       ReadFrom, Rest, WholeTaken, Taken, Total, ReadMax, HeaderSize

LEMMA SameByteAt ==
    ASSUME NEW p, NEW i
    PROVE  SwitchNetwork!ByteAt(p, i) = ByteAt(p, i)
BY DEF SwitchNetwork!ByteAt, SwitchNetwork!TypeBytes, SwitchNetwork!TypeCode,
       SwitchNetwork!Char, SwitchNetwork!HeaderSize, ByteAt, TypeBytes, TypeCode,
       Char, HeaderSize

LEMMA SameArrivals ==
    ASSUME NEW q
    PROVE  SwitchNetwork!Arrivals(q) = Arrivals(q)
<1>1. \A c : SwitchNetwork!FirstLeft(c) = FirstLeft(c)
  BY SameByteAt DEF SwitchNetwork!FirstLeft, SwitchNetwork!Size,
                    SwitchNetwork!HeaderSize, FirstLeft, Size, HeaderSize
<1>2. PICK B : B = FirstLeft(q[1]) /\ B = SwitchNetwork!FirstLeft(q[1])
  BY <1>1
<1>. DEFINE Cut == {[n EXCEPT !.src = b] : n \in Noises, b \in B}
<1>3. Arrivals(q) = IF q = << >> THEN {}
                    ELSE IF q[1].end = Size(q[1].pkt) THEN {q[1].pkt} ELSE Cut
  BY <1>2 DEF Arrivals
<1>4. SwitchNetwork!Arrivals(q) = IF q = << >> THEN {}
                    ELSE IF q[1].end = Size(q[1].pkt) THEN {q[1].pkt} ELSE Cut
  BY <1>2 DEF SwitchNetwork!Arrivals, SwitchNetwork!Size, SwitchNetwork!HeaderSize, Size, HeaderSize
<1>. QED  BY <1>3, <1>4

LEMMA SameNeighbours ==
    ASSUME NEW n
    PROVE  SwitchNetwork!Neighbours(n) = Neighbours(n)
BY DEF SwitchNetwork!Neighbours, SwitchNetwork!Range, Neighbours, Range

LEMMA SameTable ==
    /\ SwitchNetwork!TableIndex = TableIndex
    /\ \A t, id, n : SwitchNetwork!Learn(t, id, n) = Learn(t, id, n)
    /\ \A s, t, dst : SwitchNetwork!Outputs(s, t, dst) = Outputs(s, t, dst)
    /\ \A s : SwitchNetwork!From(s) = From(s)
    /\ \A s : SwitchNetwork!NextPort(s) = NextPort(s)
BY SameNeighbours
   DEF SwitchNetwork!TableIndex, SwitchNetwork!Learn, SwitchNetwork!Outputs,
       SwitchNetwork!From, SwitchNetwork!NextPort,
       TableIndex, Learn, Outputs, From, NextPort

\* A step of a switch of the simulator is one of a switch of SwitchNet.
LEMMA SwitchIsSwitch ==
    ASSUME NEW s \in Switches, SwitchRuns(s)
    PROVE  SwitchNetwork!SwitchStep(s)
<1>. USE SameSendTo, SameReadFrom, SameArrivals, SameTable
<1>1. SwitchStep(s)
  BY DEF SwitchRuns
<1>2. SwitchIdle(s) => SwitchNetwork!SwitchIdle(s)
  BY DEF SwitchIdle, SwitchNetwork!SwitchIdle
<1>3. ASSUME SwitchRelay(s) PROVE SwitchNetwork!SwitchRelay(s)
  BY <1>3 DEF SwitchRelay, SwitchNetwork!SwitchRelay
<1>4. SwitchCrash(s) => SwitchNetwork!SwitchCrash(s)
  BY DEF SwitchCrash, SwitchNetwork!SwitchCrash
<1>. QED  BY <1>1, <1>2, <1>3, <1>4 DEF SwitchStep, SwitchNetwork!SwitchStep

\* A host reads a port.
LEMMA ReceivesIsDrain ==
    ASSUME TypeInv, NEW h \in Hosts, NEW p, Receives(h, p), UNCHANGED switchVars
    PROVE  SwitchNetwork!HostDrain(h)
<1>1. PICK n \in Neighbours(h) :
        wire[<<n, h>>] # << >> /\ wire' = ReadFrom(wire, <<n, h>>)
  BY ReceivesType DEF TypeInv
<1>. QED  BY <1>1, SameReadFrom, SameNeighbours
          DEF SwitchNetwork!HostDrain, SwitchNetwork!switchVars, switchVars

\* A step of a host of the simulator sends a packet under the host's id, reads a
\* port, or leaves the network as it is: a host never passes on what it has read
\* (host.c:433-505, 527-555).
LEMMA HostIsEnvironment ==
    ASSUME TypeInv, PacketSet \subseteq Traffic, NEW h \in Hosts, HostRuns(h)
    PROVE  \/ SwitchNetwork!HostInject(h)
           \/ SwitchNetwork!HostDrain(h)
           \/ UNCHANGED <<wire, switchVars>>
<1>1. HostStep(h) /\ UNCHANGED switchVars
  BY DEF HostRuns
<1>2. CASE HostCommand(h)
  <2>1. wire' = wire
    BY <1>2 DEF HostCommand, HostNoCommand, HostState, HostSetDir, HostPing,
                HostUpload, HostDownload
  <2>. QED  BY <1>1, <2>1
<1>3. CASE HostPort(h)
  <2>1. CASE HostNoPacket(h)
    BY <1>1, <2>1 DEF HostNoPacket
  <2>2. CASE HostIgnore(h)
    <3>1. PICK p : Receives(h, p)
      BY <2>2 DEF HostIgnore
    <3>. QED  BY <1>1, <3>1, ReceivesIsDrain
  <2>3. CASE HostPingReply(h)
    <3>1. PICK p : Receives(h, p)
      BY <2>3 DEF HostPingReply
    <3>. QED  BY <1>1, <3>1, ReceivesIsDrain
  <2>4. CASE HostQueue(h)
    <3>1. PICK p : Receives(h, p)
      BY <2>4 DEF HostQueue
    <3>. QED  BY <1>1, <3>1, ReceivesIsDrain
  <2>5. CASE HostDownloadRequest(h)
    <3>1. PICK p : Receives(h, p)
      BY <2>5 DEF HostDownloadRequest
    <3>. QED  BY <1>1, <3>1, ReceivesIsDrain
  <2>. QED  BY <1>3, <2>1, <2>2, <2>3, <2>4, <2>5 DEF HostPort
<1>4. CASE JobSendAll(h)
  <2>1. jobs[h] # << >> /\ Job(h).type = "SEND_ALL"
    BY <1>4 DEF JobSendAll, AtJob, Runs
  <2>2. Job(h) \in JobsOf(h)
    BY <2>1, HeadTailProperties DEF TypeInv, HostOK, JobsOK, Job
  <2>3. Job(h) \in JobSet /\ Job(h).pkt.src = Char(h)
    BY <2>1, <2>2 DEF JobsOf
  <2>4. Job(h).pkt \in Traffic
    BY <2>1, <2>3, JobFields DEF PacketJobs
  <2>5. wire' = SendTo(wire, h, Neighbours(h), Job(h).pkt)
    BY <1>4 DEF JobSendAll
  <2>6. SwitchNetwork!Char(h) = Char(h)
    BY DEF SwitchNetwork!Char, Char
  <2>7. SwitchNetwork!HostInject(h)
    BY <1>1, <2>3, <2>4, <2>5, <2>6, SameSendTo, SameNeighbours
       DEF SwitchNetwork!HostInject, SwitchNetwork!switchVars, switchVars
  <2>. QED  BY <2>7
<1>5. CASE HostJob(h) /\ ~JobSendAll(h)
  <2>1. wire' = wire
    BY <1>5 DEF HostJob, HostNoJob, JobPingSendReply, JobPingAcked, JobPingWait,
                JobPingTimeOut, JobUploadSend, JobRecvStart, JobRecvIn,
                JobRecvEndNoFile, JobRecvEnd, JobFileWritten
  <2>. QED  BY <1>1, <2>1
<1>. QED  BY <1>1, <1>2, <1>3, <1>4, <1>5 DEF HostStep

\* Each step of the simulator is one that SwitchNet allows, or leaves the network
\* as it is.
LEMMA StepsAreSwitchNet ==
    ASSUME PacketSet \subseteq Traffic
    PROVE  Init /\ [][Next]_vars => ImplementsSwitchNet
<1>1. Init => SwitchNetwork!Init
  BY DEF Init, WireInit, SwitchInit, SwitchNetwork!Init, SwitchNetwork!WireInit,
         SwitchNetwork!SwitchInit, SwitchNetwork!Wires, SwitchNetwork!Nodes,
         SwitchNetwork!Neighbours, SwitchNetwork!Range, SwitchNetwork!TableIndex,
         Wires, Nodes, Neighbours, Range, TableIndex
<1>2. ASSUME TypeInv, [Next]_vars
      PROVE  [SwitchNetwork!Next]_(SwitchNetwork!vars)
  <2>. USE DEF SwitchNetwork!vars, SwitchNetwork!switchVars
  <2>1. CASE UNCHANGED <<wire, switchVars>>
    BY <2>1 DEF switchVars
  <2>2. ASSUME NEW h \in Hosts, HostRuns(h)
        PROVE  [SwitchNetwork!Next]_(SwitchNetwork!vars)
    BY <1>2, <2>1, <2>2, HostIsEnvironment DEF SwitchNetwork!Next
  <2>3. ASSUME NEW s \in Switches, SwitchRuns(s)
        PROVE  SwitchNetwork!Next
    BY <2>3, SwitchIsSwitch DEF SwitchNetwork!Next
  <2>4. Manages => UNCHANGED <<wire, switchVars>>
    BY DEF Manages
  <2>5. Terminated \/ UNCHANGED vars => UNCHANGED <<wire, switchVars>>
    BY DEF Terminated, vars
  <2>. QED  BY <1>2, <2>1, <2>2, <2>3, <2>4, <2>5 DEF Next
<1>. QED  BY <1>1, <1>2, TypeInvInit, TypeInvStep, PTL
          DEF ImplementsSwitchNet, SwitchNetwork!Spec

\* Whatever the hosts do for the manager and for one another, what they do to
\* the pipes is what SwitchNet allows them: so what is proved of its switches
\* holds of those of the simulator (host.c, switch.c).
THEOREM SimulatorIsSwitchNet ==
    ASSUME PacketSet \subseteq Traffic
    PROVE  Spec => ImplementsSwitchNet
BY StepsAreSwitchNet, PTL DEF Spec

-----------------------------------------------------------------------------
(* The manager's question.                                                 *)

\* OneAnswer is not inductive: a command that is read with a question is lost,
\* and a reply must not meet a question still to be read.  What carries the
\* answer of the host h is one of three things, each of the kind that the manager
\* waits for, and when it is not the question the host has read all its commands.
Carried(h) ==
    \/ Questions(cmd[h]) = {} /\ Waits(jobs[h]) = {} /\ rsp[h] = << >>
    \/ /\ pending # NoCmd /\ h = curr
       /\ \/ /\ \E i : Questions(cmd[h]) = {i} /\ cmd[h][i] = pending
             /\ Waits(jobs[h]) = {} /\ rsp[h] = << >>
          \/ /\ cmd[h] = << >> /\ rsp[h] = << >>
             /\ \E i : Waits(jobs[h]) = {i}
             /\ pending.op = "p"
          \/ /\ cmd[h] = << >> /\ Waits(jobs[h]) = {}
             /\ Len(rsp[h]) = 1
             /\ pending.op = "s" => rsp[h][1] = [kind |-> "state", dir |-> dir[h]]

AnswerInv == \A h \in Hosts : Carried(h)

\* With one carrier for each question there is one answer.
LEMMA AnswerInvImplies == TypeInv /\ AnswerInv => OneAnswer
<1>. SUFFICES ASSUME TypeInv, AnswerInv PROVE OneAnswer
  OBVIOUS
<1>1. ASSUME NEW h \in Hosts
      PROVE  Cardinality(Questions(cmd[h])) + Cardinality(Waits(jobs[h])) + Len(rsp[h])
               <= IF pending # NoCmd /\ h = curr THEN 1 ELSE 0
  <2>1. /\ Carried(h)
        /\ rsp[h] = << >> => Len(rsp[h]) = 0
    BY EmptySeq DEF AnswerInv
  <2>2. Questions(<< >>) = {}
    BY EmptySeq DEF Questions
  <2>3. Cardinality({}) = 0 /\ \A i : Cardinality({i}) = 1
    BY FS_EmptySet, FS_Singleton
  <2>. DEFINE Q == Questions(cmd[h])
              W == Waits(jobs[h])
  <2>4. (Q = {} \/ \E i : Q = {i}) => Cardinality(Q) \in {0, 1}
    BY <2>3
  <2>5. (W = {} \/ \E i : W = {i}) => Cardinality(W) \in {0, 1}
    BY <2>3
  <2>6. (Q = {} => Cardinality(Q) = 0) /\ (W = {} => Cardinality(W) = 0)
    BY <2>3
  <2>7. CASE Q = {} /\ W = {} /\ rsp[h] = << >>
    BY <2>1, <2>6, <2>7
  <2>8. CASE /\ pending # NoCmd /\ h = curr
             /\ \E i : Q = {i}
             /\ W = {} /\ rsp[h] = << >>
    <3>1. Cardinality(Q) \in {0, 1} /\ Cardinality(W) = 0 /\ Len(rsp[h]) = 0
      BY <2>1, <2>4, <2>6, <2>8
    <3>. QED  BY <2>8, <3>1
  <2>9. CASE /\ pending # NoCmd /\ h = curr
             /\ cmd[h] = << >> /\ rsp[h] = << >>
             /\ \E i : W = {i}
    <3>1. Cardinality(Q) = 0 /\ Cardinality(W) \in {0, 1} /\ Len(rsp[h]) = 0
      BY <2>1, <2>2, <2>5, <2>6, <2>9
    <3>. QED  BY <2>9, <3>1
  <2>10. CASE /\ pending # NoCmd /\ h = curr
              /\ cmd[h] = << >> /\ W = {} /\ Len(rsp[h]) = 1
    BY <2>2, <2>6, <2>10
  <2>. QED  BY <2>1, <2>7, <2>8, <2>9, <2>10 DEF Carried
<1>. QED  BY <1>1 DEF OneAnswer

\* At the start nobody waits.
LEMMA AnswerInvInit == Init => AnswerInv
<1>. SUFFICES ASSUME Init, NEW h \in Hosts PROVE Carried(h)
  BY DEF AnswerInv
<1>1. cmd[h] = << >> /\ rsp[h] = << >> /\ jobs[h] = << >>
  BY DEF Init, ManPortInit, HostInit
<1>2. Questions(<< >>) = {} /\ Waits(<< >>) = {}
  BY EmptySeq DEF Questions, Waits
<1>. QED  BY <1>1, <1>2 DEF Carried

\* The waits of two queues put together.
LEMMA WaitsConcat ==
    ASSUME NEW q \in Seq(JobSet), NEW more \in Seq(JobSet)
    PROVE  /\ Waits(more) = {} => Waits(q \o more) = Waits(q)
           /\ Waits(q) = {} /\ (\E i : Waits(more) = {i})
                => \E i : Waits(q \o more) = {i}
<1>1. /\ q \o more \in Seq(JobSet) /\ Len(q \o more) = Len(q) + Len(more)
      /\ \A i \in 1 .. Len(q) + Len(more) :
           (q \o more)[i] = IF i <= Len(q) THEN q[i] ELSE more[i - Len(q)]
  BY ConcatProperties
<1>2. /\ Len(q) \in Nat /\ DOMAIN q = 1 .. Len(q)
      /\ Len(more) \in Nat /\ DOMAIN more = 1 .. Len(more)
      /\ DOMAIN (q \o more) = 1 .. Len(q) + Len(more)
  BY <1>1, LenProperties
<1>3. ASSUME NEW i \in 1 .. Len(q) + Len(more), i > Len(q)
      PROVE  i \in Waits(q \o more) <=> i - Len(q) \in Waits(more)
  <2>1. /\ i - Len(q) \in DOMAIN more /\ (q \o more)[i] = more[i - Len(q)]
        /\ i \in DOMAIN (q \o more)
    BY <1>1, <1>2, <1>3
  <2>. QED  BY <2>1 DEF Waits
<1>4. ASSUME NEW i \in 1 .. Len(q)
      PROVE  i \in Waits(q \o more) <=> i \in Waits(q)
  <2>1. (q \o more)[i] = q[i] /\ i \in DOMAIN (q \o more) /\ i \in DOMAIN q
    BY <1>1, <1>2
  <2>. QED  BY <2>1 DEF Waits
<1>5. /\ Waits(q \o more) \subseteq 1 .. Len(q) + Len(more)
      /\ Waits(q) \subseteq 1 .. Len(q)
      /\ Waits(more) \subseteq 1 .. Len(more)
  BY <1>2 DEF Waits
<1>6. ASSUME Waits(more) = {} PROVE Waits(q \o more) = Waits(q)
  <2>1. \A i \in 1 .. Len(q) + Len(more) : i \in Waits(q \o more) => i \in Waits(q)
    BY <1>2, <1>3, <1>4, <1>6
  <2>2. \A i \in 1 .. Len(q) : i \in Waits(q) => i \in Waits(q \o more)
    BY <1>4
  <2>. QED  BY <1>5, <2>1, <2>2
<1>7. ASSUME Waits(q) = {}, NEW i, Waits(more) = {i}
      PROVE  Waits(q \o more) = {i + Len(q)}
  <2>1. i \in 1 .. Len(more)
    BY <1>5, <1>7
  <2>2. i + Len(q) \in 1 .. Len(q) + Len(more) /\ i + Len(q) > Len(q)
    BY <1>2, <2>1
  <2>3. i + Len(q) \in Waits(q \o more)
    <3>1. (i + Len(q)) - Len(q) = i
      BY <1>2, <2>1
    <3>. QED  BY <1>3, <1>7, <2>2, <3>1
  <2>4. ASSUME NEW k \in Waits(q \o more) PROVE k = i + Len(q)
    <3>1. k \in 1 .. Len(q) + Len(more)
      BY <1>5
    <3>2. k > Len(q)
      BY <1>2, <1>4, <1>7, <3>1
    <3>3. k - Len(q) = i
      BY <1>3, <1>7, <3>1, <3>2
    <3>. QED  BY <1>2, <2>1, <3>1, <3>3
  <2>. QED  BY <2>3, <2>4
<1>. QED  BY <1>6, <1>7

\* Jobs of which none waits.
LEMMA NoWaits ==
    ASSUME NEW S, NEW more \in Seq(S), \A j \in S : j.type # "PING_WAIT"
    PROVE  Waits(more) = {}
<1>1. ASSUME NEW i \in DOMAIN more PROVE more[i] \in S
  OBVIOUS
<1>. QED  BY <1>1 DEF Waits

\* The first job leaves a queue in which at most one waits.
LEMMA WaitsTail ==
    ASSUME NEW q \in Seq(JobSet), q # << >>
    PROVE  /\ Waits(q) = {} => Waits(Tail(q)) = {}
           /\ (\E i : Waits(q) = {i}) /\ Head(q).type = "PING_WAIT"
                => Waits(Tail(q)) = {}
           /\ (\E i : Waits(q) = {i}) /\ Head(q).type # "PING_WAIT"
                => \E i : Waits(Tail(q)) = {i}
<1>1. /\ Tail(q) \in Seq(JobSet) /\ Len(Tail(q)) = Len(q) - 1
      /\ \A i \in 1 .. Len(q) - 1 : Tail(q)[i] = q[i + 1]
  BY HeadTailProperties
<1>2. /\ Len(q) \in Nat \ {0} /\ DOMAIN q = 1 .. Len(q)
      /\ DOMAIN Tail(q) = 1 .. Len(q) - 1
  BY <1>1, EmptySeq, LenProperties
<1>3. Head(q) = q[1] /\ 1 \in DOMAIN q
  BY <1>2
<1>4. ASSUME NEW i PROVE i \in Waits(Tail(q)) <=> i \in Nat \ {0} /\ i + 1 \in Waits(q)
  BY <1>1, <1>2 DEF Waits
<1>5. Waits(q) \subseteq Nat \ {0} /\ (1 \in Waits(q) <=> Head(q).type = "PING_WAIT")
  BY <1>2, <1>3 DEF Waits
<1>6. ASSUME NEW i, Waits(q) = {i}, Head(q).type = "PING_WAIT"
      PROVE  Waits(Tail(q)) = {}
  BY <1>4, <1>5, <1>6
<1>7. ASSUME NEW i, Waits(q) = {i}, Head(q).type # "PING_WAIT"
      PROVE  Waits(Tail(q)) = {i - 1}
  <2>1. i \in Nat \ {0, 1}
    BY <1>5, <1>7
  <2>2. \A k : k \in Waits(Tail(q)) <=> k = i - 1
    BY <1>4, <1>7, <2>1
  <2>. QED  BY <2>2
<1>8. Waits(q) = {} => Waits(Tail(q)) = {}
  BY <1>4
<1>. QED  BY <1>6, <1>7, <1>8

\* The manager puts one question at a time.
LEMMA ManagerAnswers ==
    ASSUME TypeInv, AnswerInv, Manages
    PROVE  AnswerInv'
<1>. SUFFICES ASSUME NEW h \in Hosts PROVE Carried(h)'
  BY DEF AnswerInv
<1>1. /\ Carried(h) /\ jobs' = jobs /\ dir' = dir
      /\ cmd \in [Hosts -> Seq(CommandSet)] /\ curr \in Hosts
      /\ rsp \in [Hosts -> Seq(ReplySet)]
  BY DEF AnswerInv, TypeInv, ManPortTypeOK, ManagerTypeOK, Manages, hostVars
<1>2. ASSUME pending = NoCmd
      PROVE  Questions(cmd[h]) = {} /\ Waits(jobs[h]) = {} /\ rsp[h] = << >>
  BY <1>1, <1>2 DEF Carried
<1>3. CASE Issue
  <2>1. PICK c \in UserCmds :
          Ask(curr, c) /\ pending' = IF c.op \in Answered THEN c ELSE NoCmd
    BY <1>3 DEF Issue
  <2>2. c \in CommandSet /\ pending = NoCmd /\ rsp' = rsp /\ curr' = curr
    BY <1>3, ManPortAssumption DEF Issue, AtPrompt
  <2>3. CASE h # curr
    BY <1>1, <1>2, <2>1, <2>2, <2>3 DEF Ask, Carried
  <2>4. CASE h = curr
    <3>1. cmd'[h] = Append(cmd[h], c) /\ cmd[h] \in Seq(CommandSet)
      BY <1>1, <2>1, <2>4 DEF Ask
    <3>2. /\ Append(cmd[h], c) \in Seq(CommandSet)
          /\ Len(Append(cmd[h], c)) = Len(cmd[h]) + 1
          /\ \A i \in 1 .. Len(cmd[h]) : Append(cmd[h], c)[i] = cmd[h][i]
          /\ Append(cmd[h], c)[Len(cmd[h]) + 1] = c
      BY <2>2, <3>1, AppendProperties
    <3>3. /\ Len(cmd[h]) \in Nat /\ DOMAIN cmd[h] = 1 .. Len(cmd[h])
          /\ DOMAIN Append(cmd[h], c) = 1 .. Len(cmd[h]) + 1
      BY <3>1, <3>2, LenProperties
    <3>4. Questions(Append(cmd[h], c))
            = IF c.op \in Answered THEN {Len(cmd[h]) + 1} ELSE {}
      <4>1. \A i \in 1 .. Len(cmd[h]) : cmd[h][i].op \notin Answered
        BY <1>2, <2>2, <3>3 DEF Questions
      <4>2. \A i \in 1 .. Len(cmd[h]) + 1 : i \in 1 .. Len(cmd[h]) \/ i = Len(cmd[h]) + 1
        BY <3>3
      <4>. QED  BY <3>2, <3>3, <4>1, <4>2 DEF Questions
    <3>5. c.op \in Answered => pending' # NoCmd /\ pending' = c
      BY <2>1, <2>2, NoCmdAssumption
    <3>6. Questions(cmd[h])' = IF c.op \in Answered THEN {Len(cmd[h]) + 1} ELSE {}
      BY <3>1, <3>4 DEF Questions
    <3>7. Waits(jobs[h])' = {} /\ rsp'[h] = << >> /\ h = curr'
      BY <1>1, <1>2, <2>2, <2>4 DEF Waits
    <3>8. cmd'[h][Len(cmd[h]) + 1] = c
      BY <3>1, <3>2
    <3>. QED  BY <3>5, <3>6, <3>7, <3>8 DEF Carried
  <2>. QED  BY <2>3, <2>4
<1>4. CASE ChangeHost \/ Quit
  <2>1. pending = NoCmd /\ cmd' = cmd /\ rsp' = rsp
    BY <1>4 DEF ChangeHost, Quit, AtPrompt, manPortVars
  <2>2. Questions(cmd[h])' = {} /\ Waits(jobs[h])' = {} /\ rsp'[h] = << >>
    BY <1>1, <1>2, <2>1 DEF Questions, Waits
  <2>. QED  BY <2>2 DEF Carried
<1>5. CASE Collect
  <2>1. /\ rsp[curr] # << >> /\ rsp' = [rsp EXCEPT ![curr] = << >>]
        /\ cmd' = cmd
    BY <1>5 DEF Collect
  <2>2. Questions(<< >>) = {}
    BY EmptySeq DEF Questions
  <2>3. Questions(cmd[h]) = {} /\ Waits(jobs[h]) = {} /\ rsp'[h] = << >>
    BY <1>1, <2>1, <2>2 DEF Carried
  <2>4. Questions(cmd[h])' = {} /\ Waits(jobs[h])' = {}
    BY <1>1, <2>1, <2>3 DEF Questions, Waits
  <2>. QED  BY <2>3, <2>4 DEF Carried
<1>. QED  BY <1>3, <1>4, <1>5 DEF Manages, ManagerStep

\* A host writes nothing of another's.
LEMMA HostFrame ==
    ASSUME TypeInv, NEW h \in Hosts, NEW k \in Hosts, k # h, HostStep(h)
    PROVE  /\ cmd'[k] = cmd[k] /\ rsp'[k] = rsp[k]
           /\ jobs'[k] = jobs[k] /\ dir'[k] = dir[k]
<1>1. /\ DOMAIN cmd = Hosts /\ DOMAIN rsp = Hosts
      /\ DOMAIN jobs = Hosts /\ DOMAIN dir = Hosts
  BY DEF TypeInv, ManPortTypeOK, HostOK, JobsOK
<1>2. CASE HostCommand(h)
  BY <1>1, <1>2 DEF HostCommand, HostNoCommand, HostState, HostSetDir, HostPing,
       HostUpload, HostDownload, AtCommand, Hear, Reply, Add, manPortVars
<1>3. CASE HostPort(h)
  BY <1>1, <1>3 DEF HostPort, HostNoPacket, HostIgnore, HostPingReply, HostQueue,
       HostDownloadRequest, Add, manPortVars
<1>4. CASE HostJob(h)
  BY <1>1, <1>4 DEF HostJob, HostNoJob, JobSendAll, JobPingSendReply, JobPingAcked,
       JobPingWait, JobPingTimeOut, JobUploadSend, JobRecvStart, JobRecvIn,
       JobRecvEndNoFile, JobRecvEnd, JobFileWritten, Reply, Done, manPortVars
<1>. QED  BY <1>2, <1>3, <1>4 DEF HostStep

\* A step that leaves the waits, the commands and the replies of a host alone.
LEMMA CarriedSame ==
    ASSUME NEW h \in Hosts, Carried(h), UNCHANGED managerVars,
           cmd'[h] = cmd[h], rsp'[h] = rsp[h], dir'[h] = dir[h],
           Waits(jobs[h]) = {} => Waits(jobs'[h]) = {},
           (\E i : Waits(jobs[h]) = {i}) => \E i : Waits(jobs'[h]) = {i}
    PROVE  Carried(h)'
<1>1. Questions(cmd[h])' = Questions(cmd[h])
  BY DEF Questions
<1>2. Waits(jobs[h])' = Waits(jobs'[h])
  BY DEF Waits
<1>3. pending' = pending /\ curr' = curr
  BY DEF managerVars
<1>. QED  BY <1>1, <1>2, <1>3 DEF Carried

\* The queue of a host after jobs have been added, or one has been done.
LEMMA QueueWaits ==
    ASSUME TypeInv, NEW h \in Hosts, NEW more \in Seq(JobSet), Waits(more) = {}
    PROVE  /\ Add(h, more) => Waits(jobs'[h]) = Waits(jobs[h])
           /\ jobs[h] # << >> /\ Job(h).type # "PING_WAIT" /\ Done(h, more) =>
                /\ Waits(jobs[h]) = {} => Waits(jobs'[h]) = {}
                /\ (\E i : Waits(jobs[h]) = {i}) => \E i : Waits(jobs'[h]) = {i}
<1>1. jobs[h] \in Seq(JobSet) /\ h \in DOMAIN jobs
  BY DEF TypeInv, HostOK, JobsOK
<1>2. ASSUME Add(h, more) PROVE Waits(jobs'[h]) = Waits(jobs[h])
  <2>1. jobs'[h] = jobs[h] \o more
    BY <1>1, <1>2 DEF Add
  <2>. QED  BY <1>1, <2>1, WaitsConcat
<1>3. ASSUME jobs[h] # << >>, Job(h).type # "PING_WAIT", Done(h, more)
      PROVE  /\ Waits(jobs[h]) = {} => Waits(jobs'[h]) = {}
             /\ (\E i : Waits(jobs[h]) = {i}) => \E i : Waits(jobs'[h]) = {i}
  <2>1. jobs'[h] = Tail(jobs[h]) \o more
    BY <1>1, <1>3 DEF Done
  <2>2. Tail(jobs[h]) \in Seq(JobSet)
    BY <1>1, <1>3, HeadTailProperties
  <2>3. Waits(jobs'[h]) = Waits(Tail(jobs[h]))
    BY <2>1, <2>2, WaitsConcat
  <2>. QED  BY <1>1, <1>3, <2>3, WaitsTail DEF Job
<1>. QED  BY <1>2, <1>3

\* A host that reads a command.
LEMMA CommandAnswers ==
    ASSUME TypeInv, NEW h \in Hosts, Carried(h), HostCommand(h), UNCHANGED managerVars
    PROVE  Carried(h)'
<1>1. CASE HostNoCommand(h)
  BY <1>1, CarriedSame DEF HostNoCommand, manPortVars
<1>2. /\ jobs[h] \in Seq(JobSet) /\ h \in DOMAIN jobs /\ h \in DOMAIN cmd
      /\ h \in DOMAIN rsp /\ cmd[h] \in Seq(CommandSet) /\ h \in DOMAIN dir
  BY DEF TypeInv, HostOK, JobsOK, ManPortTypeOK
<1>3. Questions(<< >>) = {}
  BY EmptySeq DEF Questions
<1>4. ASSUME NEW op, AtCommand(h, op)
      PROVE  /\ cmd'[h] = << >> /\ Questions(cmd[h])' = {}
             /\ Waits(jobs[h]) = {} /\ rsp[h] = << >>
             /\ Heard(cmd[h]) \in CommandSet
             /\ op \in Answered => pending' # NoCmd /\ h = curr' /\ pending'.op = op
  <2>1. cmd[h] # << >> /\ Heard(cmd[h]).op = op /\ cmd'[h] = << >>
    BY <1>2, <1>4 DEF AtCommand, Hear
  <2>2. Questions(cmd[h])' = {}
    BY <1>3, <2>1 DEF Questions
  <2>3. Waits(jobs[h]) = {} /\ rsp[h] = << >>
    BY <2>1 DEF Carried
  <2>4. Heard(cmd[h]) \in CommandSet
    BY <2>1, HeardType DEF TypeInv
  <2>5. 1 \in DOMAIN cmd[h] /\ cmd[h][1] \in CommandSet
    BY <1>2, <2>1, EmptySeq
  <2>6. cmd[h][1].op = op
    BY <2>1, <2>5 DEF Heard, CommandSet
  <2>7. op \in Answered => 1 \in Questions(cmd[h])
    BY <2>5, <2>6 DEF Questions
  <2>8. op \in Answered => pending # NoCmd /\ h = curr /\ pending.op = op
    <3>1. ASSUME op \in Answered
          PROVE  /\ pending # NoCmd /\ h = curr
                 /\ \E i : Questions(cmd[h]) = {i} /\ cmd[h][i] = pending
      BY <2>1, <2>7, <3>1 DEF Carried
    <3>. QED  BY <2>6, <2>7, <3>1
  <2>. QED  BY <2>1, <2>2, <2>3, <2>4, <2>8 DEF managerVars
<1>5. CASE HostState(h)
  <2>1. AtCommand(h, "s")
    BY <1>5 DEF HostState
  <2>2. cmd'[h] = << >> /\ rsp[h] = << >> /\ Waits(jobs[h]) = {}
        /\ pending' # NoCmd /\ h = curr'
    BY <1>4, <2>1 DEF Answered
  <2>3. Waits(jobs[h])' = {} /\ dir' = dir
    BY <1>5, <2>2 DEF HostState, Waits
  <2>4. rsp'[h] = Append(<< >>, [kind |-> "state", dir |-> dir[h]])
    BY <1>2, <1>5, <2>2 DEF HostState, Reply
  <2>5. Len(rsp'[h]) = 1 /\ rsp'[h][1] = [kind |-> "state", dir |-> dir'[h]]
    BY <2>3, <2>4
  <2>. QED  BY <2>2, <2>3, <2>5 DEF Carried
<1>6. CASE HostPing(h)
  <2>. DEFINE send == SendAll(Packet(h, Heard(cmd[h]).dst, "PING_REQ", << >>))
              more == <<send, PingWait(PING_TIMER)>>
  <2>1. AtCommand(h, "p") /\ rsp' = rsp /\ jobs'[h] = jobs[h] \o more
    BY <1>2, <1>6 DEF HostPing, Add
  <2>2. /\ cmd'[h] = << >> /\ rsp[h] = << >> /\ Waits(jobs[h]) = {}
        /\ pending' # NoCmd /\ h = curr' /\ pending'.op = "p"
        /\ Heard(cmd[h]) \in CommandSet
    BY <1>4, <2>1 DEF Answered
  <2>3. Packet(h, Heard(cmd[h]).dst, "PING_REQ", << >>) \in
          {q \in PacketSet : q.src = Char(h)}
    <3>1. Heard(cmd[h]).dst \in Int
      BY <2>2 DEF CommandSet
    <3>. QED  BY <3>1, PacketType, EmptySeq DEF PacketTypes
  <2>4. /\ send \in JobSet /\ send.type # "PING_WAIT"
        /\ PingWait(PING_TIMER) \in JobSet
        /\ PingWait(PING_TIMER).type = "PING_WAIT"
    BY <2>3, JobsMade, HostAssumption DEF OwnSends, JobsOf
  <2>. HIDE DEF send
  <2>5. more \in Seq(JobSet) /\ Waits(more) = {2}
    BY <2>4 DEF Waits
  <2>6. \E i : Waits(jobs'[h]) = {i}
    <3>. HIDE DEF more
    <3>1. \E i : Waits(more) = {i}
      BY <2>5
    <3>2. \E i : Waits(jobs[h] \o more) = {i}
      BY <1>2, <2>2, <2>5, <3>1, WaitsConcat
    <3>. QED  BY <2>1, <3>2
  <2>7. \E i : Waits(jobs[h])' = {i}
    BY <2>6 DEF Waits
  <2>. QED  BY <2>1, <2>2, <2>7 DEF Carried
<1>7. ASSUME NEW op, AtCommand(h, op), rsp' = rsp, NEW more \in Seq(JobSet),
             Waits(more) = {}, Add(h, more) \/ jobs' = jobs
      PROVE  Carried(h)'
  <2>1. Waits(jobs'[h]) = Waits(jobs[h])
    BY <1>7, QueueWaits
  <2>2. Waits(jobs[h])' = {} /\ Questions(cmd[h])' = {} /\ rsp'[h] = << >>
    BY <1>4, <1>7, <2>1 DEF Waits
  <2>. QED  BY <2>2 DEF Carried
<1>8. CASE HostSetDir(h)
  <2>1. << >> \in Seq(JobSet) /\ Waits(<< >>) = {}
    BY EmptySeq DEF Waits
  <2>. QED  BY <1>7, <1>8, <2>1 DEF HostSetDir
<1>9. CASE HostUpload(h)
  <2>. DEFINE j == UploadSend(Heard(cmd[h]).dst, Heard(cmd[h]).name)
  <2>1. AtCommand(h, "u") /\ rsp' = rsp /\ Add(h, <<j>>)
    BY <1>9 DEF HostUpload
  <2>2. Heard(cmd[h]) \in CommandSet
    BY <1>4, <2>1
  <2>3. Heard(cmd[h]).dst \in Int /\ Heard(cmd[h]).name \in Names
    BY <2>2 DEF CommandSet
  <2>4. j \in JobSet /\ j.type # "PING_WAIT"
    BY <2>3, JobsMade DEF JobsOf
  <2>. HIDE DEF j
  <2>5. <<j>> \in Seq(JobSet) /\ Waits(<<j>>) = {}
    BY <2>4 DEF Waits
  <2>. QED  BY <1>7, <2>1, <2>5
<1>10. CASE HostDownload(h)
  <2>. DEFINE c == Heard(cmd[h])
              j == SendAll(Packet(h, c.dst, "DOWNLOAD_REQ", c.name))
  <2>1. AtCommand(h, "d") /\ rsp' = rsp /\ Add(h, <<j>>)
    BY <1>10 DEF HostDownload
  <2>2. c \in CommandSet
    BY <1>4, <2>1
  <2>. HIDE DEF c
  <2>3. c.dst \in Int /\ c.name \in Seq(Bytes)
    BY <2>2 DEF CommandSet, Names
  <2>4. Packet(h, c.dst, "DOWNLOAD_REQ", c.name) \in
          {q \in PacketSet : q.src = Char(h)}
    BY <2>3, PacketType DEF PacketTypes
  <2>5. j \in JobSet /\ j.type # "PING_WAIT"
    BY <2>4, JobsMade DEF OwnSends, JobsOf
  <2>. HIDE DEF j
  <2>6. <<j>> \in Seq(JobSet) /\ Waits(<<j>>) = {}
    BY <2>5 DEF Waits
  <2>. QED  BY <1>7, <2>1, <2>6
<1>. QED  BY <1>1, <1>5, <1>6, <1>8, <1>9, <1>10 DEF HostCommand

\* A host that reads a port.
LEMMA PortAnswers ==
    ASSUME TypeInv, NEW h \in Hosts, Carried(h), HostPort(h), UNCHANGED managerVars
    PROVE  Carried(h)'
<1>1. cmd' = cmd /\ rsp' = rsp /\ dir' = dir
  BY DEF HostPort, HostNoPacket, HostIgnore, HostPingReply, HostQueue,
         HostDownloadRequest, manPortVars
<1>2. CASE HostNoPacket(h) \/ HostIgnore(h) \/ HostPingReply(h)
  BY <1>1, <1>2, CarriedSame DEF HostNoPacket, HostIgnore, HostPingReply
<1>3. ASSUME NEW j \in JobSet, j.type # "PING_WAIT", Add(h, <<j>>)
      PROVE  Carried(h)'
  <2>1. <<j>> \in Seq(JobSet) /\ Waits(<<j>>) = {}
    BY <1>3 DEF Waits
  <2>2. Waits(jobs'[h]) = Waits(jobs[h])
    BY <1>3, <2>1, QueueWaits
  <2>. QED  BY <1>1, <2>2, CarriedSame
<1>4. CASE HostQueue(h)
  <2>1. PICK p : /\ p.type \in DOMAIN JobOfType
                 /\ Receives(h, p)
                 /\ Add(h, <<[type |-> JobOfType[p.type], pkt |-> p]>>)
    BY <1>4 DEF HostQueue
  <2>2. p \in PacketSet
    BY <2>1, ReceivesType DEF TypeInv
  <2>3. [type |-> JobOfType[p.type], pkt |-> p] \in {j \in JobsOf(h) : j.type # "PING_WAIT"}
    BY <2>1, <2>2, JobsMade
  <2>. QED  BY <1>3, <2>1, <2>3 DEF JobsOf
<1>5. CASE HostDownloadRequest(h)
  <2>1. PICK p : Receives(h, p) /\ Add(h, <<UploadSend(p.src, p.body)>>)
    BY <1>5 DEF HostDownloadRequest
  <2>2. p \in PacketSet
    BY <2>1, ReceivesType DEF TypeInv
  <2>3. UploadSend(p.src, p.body) \in {j \in JobsOf(h) : j.type = "UPLOAD_SEND"}
    BY <2>2, PacketFields, JobsMade
  <2>. QED  BY <1>3, <2>1, <2>3 DEF JobsOf
<1>. QED  BY <1>2, <1>4, <1>5 DEF HostPort

\* A host that runs a job.
LEMMA JobAnswers ==
    ASSUME TypeInv, NEW h \in Hosts, Carried(h), HostJob(h), UNCHANGED managerVars
    PROVE  Carried(h)'
<1>1. /\ jobs[h] \in Seq(JobSet) /\ h \in DOMAIN jobs /\ h \in DOMAIN rsp
      /\ jobs[h] # << >> => Job(h) \in JobSet
  BY HeadTailProperties DEF TypeInv, HostOK, JobsOK, ManPortTypeOK, Job
<1>2. << >> \in Seq(JobSet) /\ Waits(<< >>) = {}
  BY EmptySeq DEF Waits
<1>3. CASE HostNoJob(h) \/ JobFileWritten(h)
  BY <1>3, CarriedSame DEF HostNoJob, JobFileWritten, manPortVars
<1>4. ASSUME NEW type, type # "PING_WAIT", Runs(h, type), UNCHANGED manPortVars,
             dir' = dir, NEW more \in Seq(JobSet), Waits(more) = {}, Done(h, more)
      PROVE  Carried(h)'
  BY <1>4, QueueWaits, CarriedSame DEF Runs, manPortVars
<1>5. CASE JobSendAll(h)
  BY <1>2, <1>4, <1>5 DEF JobSendAll, AtJob
<1>6. CASE JobPingSendReply(h)
  <2>. DEFINE j == SendAll(Packet(h, Job(h).pkt.src, "PING_REPLY", << >>))
  <2>1. Runs(h, "PING_SEND_REPLY") /\ Done(h, <<j>>) /\ UNCHANGED manPortVars /\ dir' = dir
    BY <1>6 DEF JobPingSendReply, AtJob
  <2>2. Job(h).pkt \in PacketSet
    BY <1>1, <2>1, JobFields DEF Runs, PacketJobs
  <2>3. Packet(h, Job(h).pkt.src, "PING_REPLY", << >>) \in
          {q \in PacketSet : q.src = Char(h)}
    BY <2>2, PacketFields, PacketType, EmptySeq DEF PacketTypes
  <2>4. j \in JobSet /\ j.type # "PING_WAIT"
    BY <2>3, JobsMade DEF OwnSends, JobsOf
  <2>. HIDE DEF j
  <2>5. <<j>> \in Seq(JobSet) /\ Waits(<<j>>) = {}
    BY <2>4 DEF Waits
  <2>. QED  BY <1>4, <2>1, <2>5
<1>7. CASE JobUploadSend(h)
  <2>. DEFINE file == <<dir[h], Job(h).name>>
              more == IF file \in DOMAIN disk
                      THEN UploadJobs(h, Job(h).dst, Job(h).name, disk[file])
                      ELSE << >>
  <2>1. Runs(h, "UPLOAD_SEND") /\ Done(h, more) /\ UNCHANGED manPortVars /\ dir' = dir
    BY <1>7 DEF JobUploadSend, AtJob
  <2>2. Job(h).dst \in Int /\ Job(h).name \in Names
    BY <1>1, <2>1, JobFields DEF Runs
  <2>3. more \in Seq(OwnSends(h))
    BY <2>2, UploadJobsType, EmptySeq DEF TypeInv, HostOK, DiskOK
  <2>. HIDE DEF more
  <2>4. \A j \in OwnSends(h) : j \in JobSet /\ j.type # "PING_WAIT"
    BY JobsMade DEF JobsOf
  <2>5. more \in Seq(JobSet) /\ Waits(more) = {}
    BY <2>3, <2>4, SeqMonotonic, NoWaits
  <2>. QED  BY <1>4, <2>1, <2>5
<1>8. CASE JobRecvStart(h) \/ JobRecvIn(h)
  BY <1>2, <1>4, <1>8 DEF JobRecvStart, JobRecvIn, AtJob
<1>9. CASE JobRecvEndNoFile(h) \/ JobRecvEnd(h)
  BY <1>2, <1>4, <1>9 DEF JobRecvEndNoFile, JobRecvEnd, AtJob
<1>10. ASSUME Runs(h, "PING_WAIT")
       PROVE  /\ cmd[h] = << >> /\ rsp[h] = << >> /\ jobs[h] # << >>
              /\ pending' # NoCmd /\ h = curr' /\ pending'.op = "p"
              /\ Waits(Tail(jobs[h])) = {} /\ Tail(jobs[h]) \in Seq(JobSet)
  <2>1. jobs[h] # << >> /\ Head(jobs[h]).type = "PING_WAIT"
    BY <1>10 DEF Runs, Job
  <2>2. 1 \in Waits(jobs[h])
    BY <1>1, <2>1, EmptySeq DEF Waits
  <2>3. /\ cmd[h] = << >> /\ rsp[h] = << >> /\ pending # NoCmd /\ h = curr
        /\ pending.op = "p"
        /\ \E i : Waits(jobs[h]) = {i}
    BY <2>2 DEF Carried
  <2>4. Waits(Tail(jobs[h])) = {} /\ Tail(jobs[h]) \in Seq(JobSet)
    BY <1>1, <2>1, <2>3, WaitsTail, HeadTailProperties
  <2>. QED  BY <2>1, <2>3, <2>4 DEF managerVars
<1>11. ASSUME Runs(h, "PING_WAIT"), NEW r, Reply(h, r),
              Done(h, << >>), cmd' = cmd
       PROVE  Carried(h)'
  <2>1. jobs'[h] = Tail(jobs[h]) \o << >>
    BY <1>1, <1>11 DEF Done
  <2>2. Waits(jobs'[h]) = {}
    BY <1>2, <1>10, <1>11, <2>1, WaitsConcat
  <2>3. Waits(jobs[h])' = {}
    BY <2>2 DEF Waits
  <2>4. rsp'[h] = Append(<< >>, r)
    BY <1>1, <1>10, <1>11 DEF Reply
  <2>5. Len(rsp'[h]) = 1 /\ rsp'[h][1] = r
    BY <2>4
  <2>. QED  BY <1>10, <1>11, <2>3, <2>5 DEF Carried
<1>12. CASE JobPingAcked(h)
  BY <1>11, <1>12 DEF JobPingAcked, AtJob
<1>13. CASE JobPingTimeOut(h)
  BY <1>11, <1>13 DEF JobPingTimeOut, AtJob
<1>14. CASE JobPingWait(h)
  <2>. DEFINE j == PingWait(Job(h).timer - 1)
  <2>1. /\ Runs(h, "PING_WAIT") /\ Done(h, <<j>>) /\ UNCHANGED manPortVars
        /\ Job(h).timer > 1
    BY <1>14 DEF JobPingWait, AtJob
  <2>2. Job(h).timer \in Nat
    BY <1>1, <2>1, JobFields DEF Runs
  <2>3. Job(h).timer - 1 \in Nat
    BY <2>1, <2>2
  <2>4. j \in JobSet /\ j.type = "PING_WAIT"
    BY <2>3, JobsMade DEF JobsOf
  <2>. HIDE DEF j
  <2>5. <<j>> \in Seq(JobSet) /\ Waits(<<j>>) = {1}
    BY <2>4 DEF Waits
  <2>6. jobs'[h] = Tail(jobs[h]) \o <<j>>
    BY <1>1, <2>1 DEF Done
  <2>7. \E i : Waits(jobs'[h]) = {i}
    <3>1. \E i : Waits(<<j>>) = {i}
      BY <2>5
    <3>2. \E i : Waits(Tail(jobs[h]) \o <<j>>) = {i}
      BY <1>10, <2>1, <2>5, <3>1, WaitsConcat
    <3>. QED  BY <2>6, <3>2
  <2>8. \E i : Waits(jobs[h])' = {i}
    BY <2>7 DEF Waits
  <2>. QED  BY <1>10, <2>1, <2>8 DEF Carried, manPortVars
<1>. QED  BY <1>3, <1>5, <1>6, <1>7, <1>8, <1>9, <1>12, <1>13, <1>14 DEF HostJob

\* Every step keeps one carrier for each question.
LEMMA AnswerInvStep == TypeInv /\ AnswerInv /\ [Next]_vars => AnswerInv'
<1>. SUFFICES ASSUME TypeInv, AnswerInv, [Next]_vars PROVE AnswerInv'
  OBVIOUS
<1>1. CASE Manages
  BY <1>1, ManagerAnswers
<1>2. ASSUME NEW h \in Hosts, HostRuns(h) PROVE AnswerInv'
  <2>1. HostStep(h) /\ UNCHANGED managerVars
    BY <1>2 DEF HostRuns
  <2>2. Carried(h)'
    BY <2>1, CommandAnswers, PortAnswers, JobAnswers DEF HostStep, AnswerInv
  <2>3. ASSUME NEW k \in Hosts, k # h PROVE Carried(k)'
    BY <2>1, <2>3, HostFrame, CarriedSame DEF AnswerInv
  <2>. QED  BY <2>2, <2>3 DEF AnswerInv
<1>3. ASSUME UNCHANGED <<manPortVars, hostVars, managerVars>> PROVE AnswerInv'
  <2>1. cmd' = cmd /\ rsp' = rsp /\ dir' = dir /\ jobs' = jobs
    BY <1>3 DEF manPortVars, hostVars
  <2>. QED  BY <1>3, <2>1, CarriedSame DEF AnswerInv
<1>4. ASSUME NEW s \in Switches, SwitchRuns(s) PROVE AnswerInv'
  BY <1>3, <1>4 DEF SwitchRuns
<1>5. Terminated \/ UNCHANGED vars => UNCHANGED <<manPortVars, hostVars, managerVars>>
  BY DEF Terminated, vars
<1>. QED  BY <1>1, <1>2, <1>3, <1>4, <1>5 DEF Next

\* Whatever the user types and however late a host reads it, what the manager
\* waits for is answered once: there is never a second reply, nor one for a
\* question that is not asked (man.c:114-132, 158-181).
THEOREM AnswersCorrect == Spec => []OneAnswer
BY TypeInvInit, TypeInvStep, AnswerInvInit, AnswerInvStep, AnswerInvImplies, PTL DEF Spec

\* The step that shows the reply to "s" shows the directory that the host has then.
LEMMA StateShownStep ==
    ASSUME TypeInv, AnswerInv, [Next]_vars, StateIsShown
    PROVE  /\ shown'[1].dir = FirstWord(dir[curr])
           /\ Glue \notin Range(dir[curr]) => shown' = <<StateOf(curr, dir[curr])>>
<1>1. Collect
  <2>1. pending # NoCmd /\ pending' = NoCmd
    BY DEF StateIsShown
  <2>2. UNCHANGED managerVars => pending' = pending
    BY DEF managerVars
  <2>3. CASE Manages
    BY <2>1, <2>3 DEF Manages, ManagerStep, Issue, ChangeHost, Quit, AtPrompt
  <2>4. CASE \E h \in Hosts : HostRuns(h)
    BY <2>1, <2>2, <2>4 DEF HostRuns
  <2>5. CASE \E s \in Switches : SwitchRuns(s)
    BY <2>1, <2>2, <2>5 DEF SwitchRuns
  <2>6. CASE Terminated \/ UNCHANGED vars
    BY <2>1, <2>2, <2>6 DEF Terminated, vars
  <2>. QED  BY <2>3, <2>4, <2>5, <2>6 DEF Next
<1>2. PICK q \in ReplySet : q = rsp[curr][1]
  BY <1>1, CollectShows
<1>3. PICK r \in Printed(q) : shown' = <<r>>
  BY <1>1, <1>2, CollectShows
<1>4. curr \in Hosts /\ Carried(curr) /\ rsp[curr] # << >> /\ pending.op = "s"
  BY <1>1, CollectShows DEF AnswerInv, Collect, StateIsShown
<1>5. q = [kind |-> "state", dir |-> dir[curr]]
  BY <1>2, <1>4 DEF Carried
<1>6. /\ r.dir = FirstWord(q.dir)
      /\ Glue \notin Range(q.dir) => r = StateOf(curr, q.dir)
  BY <1>4, <1>5, PrintedIs
<1>. QED  BY <1>3, <1>5, <1>6

\* The directory shown is the one the host has when it is shown, up to a space, and
\* the id with it is the host's when there is no space, although commands that
\* change the directory may be on their way when it is asked for, and whatever else
\* the hosts do meanwhile (host.c:151-168, man.c:129-136).
THEOREM StateShownCorrect == Spec => StateShownIsCurrent
BY TypeInvInit, TypeInvStep, AnswerInvInit, AnswerInvStep, StateShownStep, PTL
   DEF Spec, StateShownIsCurrent

\* A host takes no reply back.
LEMMA RepliesStay ==
    ASSUME TypeInv, NEW h \in Hosts, HostStep(h), rsp[h] # << >>
    PROVE  rsp'[h] # << >>
<1>1. h \in DOMAIN rsp /\ rsp[h] \in Seq(ReplySet)
  BY DEF TypeInv, ManPortTypeOK
<1>2. rsp' = rsp \/ \E r : Reply(h, r)
  <2>1. CASE HostCommand(h)
    BY <2>1 DEF HostCommand, HostNoCommand, HostState, HostSetDir, HostPing,
                HostUpload, HostDownload, manPortVars
  <2>2. CASE HostPort(h)
    BY <2>2 DEF HostPort, HostNoPacket, HostIgnore, HostPingReply, HostQueue,
                HostDownloadRequest, manPortVars
  <2>3. CASE HostJob(h)
    BY <2>3 DEF HostJob, HostNoJob, JobSendAll, JobPingSendReply, JobPingAcked,
                JobPingWait, JobPingTimeOut, JobUploadSend, JobRecvStart, JobRecvIn,
                JobRecvEndNoFile, JobRecvEnd, JobFileWritten, manPortVars
  <2>. QED  BY <2>1, <2>2, <2>3 DEF HostStep
<1>3. ASSUME NEW r, Reply(h, r) PROVE rsp'[h] # << >>
  <2>1. rsp'[h] = Append(rsp[h], r)
    BY <1>1, <1>3 DEF Reply
  <2>. QED  BY <1>1, <2>1
<1>. QED  BY <1>2, <1>3

\* Question, answer and showing come in turn, at every step of the simulator,
\* for any commands and any network: the manager never shows a reply that is not
\* to its question and no host replies unasked (man.c:114-132, 158-181).
THEOREM TalkInTurn == Spec => QuestionsInTurn
<1>1. Init => AR!Init
  BY DEF Init, ManagerInit, AR!Init, Talk
<1>2. ASSUME TypeInv, AnswerInv, [Next]_vars
      PROVE  [AR!Next]_Talk
  <2>. USE DEF AR!Next, AR!Question, AR!Answer, AR!Show
  <2>1. ASSUME pending = NoCmd, pending' = NoCmd PROVE [AR!Next]_Talk
    BY <2>1 DEF Talk
  <2>2. CASE Manages
    <3>1. CASE Issue
      <4>1. PICK c \in UserCmds : pending' = IF c.op \in Answered THEN c ELSE NoCmd
        BY <3>1 DEF Issue
      <4>2. pending = NoCmd /\ rsp' = rsp /\ curr' = curr /\ curr \in Hosts
        BY <1>2, <3>1 DEF Issue, AtPrompt, TypeInv, ManagerTypeOK
      <4>3. rsp[curr] = << >>
        BY <1>2, <4>2 DEF AnswerInv, Carried
      <4>4. CASE pending' = NoCmd
        BY <2>1, <4>2, <4>4
      <4>5. CASE pending' # NoCmd
        BY <4>2, <4>3, <4>5 DEF Talk
      <4>. QED  BY <4>4, <4>5
    <3>2. CASE ChangeHost \/ Quit
      BY <2>1, <3>2 DEF ChangeHost, Quit, AtPrompt
    <3>3. CASE Collect
      BY <3>3 DEF Collect, Talk
    <3>. QED  BY <2>2, <3>1, <3>2, <3>3 DEF Manages, ManagerStep
  <2>3. ASSUME NEW h \in Hosts, HostRuns(h) PROVE [AR!Next]_Talk
    <3>1. HostStep(h) /\ pending' = pending /\ curr' = curr /\ curr \in Hosts
      BY <1>2, <2>3 DEF HostRuns, managerVars, TypeInv, ManagerTypeOK
    <3>2. rsp[curr] # << >> => rsp'[curr] # << >>
      BY <1>2, <3>1, HostFrame, RepliesStay
    <3>. QED  BY <3>1, <3>2 DEF Talk
  <2>4. ASSUME UNCHANGED <<manPortVars, managerVars>> PROVE [AR!Next]_Talk
    BY <2>4 DEF manPortVars, managerVars, Talk
  <2>5. ASSUME NEW s \in Switches, SwitchRuns(s) PROVE [AR!Next]_Talk
    BY <2>4, <2>5 DEF SwitchRuns
  <2>6. Terminated \/ UNCHANGED vars => UNCHANGED <<manPortVars, managerVars>>
    BY DEF Terminated, vars
  <2>. QED  BY <1>2, <2>2, <2>3, <2>4, <2>5, <2>6 DEF Next
<1>. QED  BY <1>1, <1>2, TypeInvInit, TypeInvStep, AnswerInvInit, AnswerInvStep, PTL
          DEF Spec, QuestionsInTurn

-----------------------------------------------------------------------------
(* What the switches of the whole simulator learn: SimulatorIsSwitchNet    *)
(* carries RoutesCorrect and RoutesHaveNoGap of SwitchNet over to it.      *)

Routes == INSTANCE SwitchNetProofs

-----------------------------------------------------------------------------
(* Routes and SwitchNetwork are the same specification.                    *)

LEMMA RoutesSendTo ==
    ASSUME NEW w, NEW n, NEW dests, NEW p
    PROVE  Routes!SendTo(w, n, dests, p) = SendTo(w, n, dests, p)
BY DEF Routes!SendTo, Routes!Push, Routes!Total, Routes!Size, Routes!HeaderSize,
       Routes!Wires, Routes!Nodes, Routes!Neighbours, Routes!Range, Range,
       SendTo, Push, Total, Size, HeaderSize, Wires, Nodes, Neighbours

LEMMA RoutesReadFrom ==
    ASSUME NEW w, NEW e
    PROVE  Routes!ReadFrom(w, e) = ReadFrom(w, e)
BY DEF Routes!ReadFrom, Routes!Rest, Routes!WholeTaken, Routes!Taken,
       Routes!Total, Routes!ReadMax, Routes!HeaderSize, Routes!Cardinality,
       Cardinality, ReadFrom, Rest, WholeTaken, Taken, Total, ReadMax, HeaderSize

LEMMA RoutesNeighbours ==
    ASSUME NEW n
    PROVE  Routes!Neighbours(n) = Neighbours(n)
BY DEF Routes!Neighbours, Routes!Range, Neighbours, Range

LEMMA RoutesByteAt ==
    ASSUME NEW p, NEW i
    PROVE  Routes!ByteAt(p, i) = ByteAt(p, i)
BY DEF Routes!ByteAt, Routes!TypeBytes, Routes!TypeCode, Routes!Char,
       Routes!HeaderSize, ByteAt, TypeBytes, TypeCode, Char, HeaderSize

LEMMA RoutesArrivals ==
    ASSUME NEW q
    PROVE  Routes!Arrivals(q) = Arrivals(q)
<1>1. \A c : Routes!FirstLeft(c) = FirstLeft(c)
  BY RoutesByteAt DEF Routes!FirstLeft, Routes!Size, Routes!HeaderSize,
                      FirstLeft, Size, HeaderSize
<1>2. PICK B : B = FirstLeft(q[1]) /\ B = Routes!FirstLeft(q[1])
  BY <1>1
<1>. DEFINE Cut == {[n EXCEPT !.src = b] : n \in Noises, b \in B}
<1>3. Arrivals(q) = IF q = << >> THEN {}
                    ELSE IF q[1].end = Size(q[1].pkt) THEN {q[1].pkt} ELSE Cut
  BY <1>2 DEF Arrivals
<1>4. Routes!Arrivals(q) = IF q = << >> THEN {}
                    ELSE IF q[1].end = Size(q[1].pkt) THEN {q[1].pkt} ELSE Cut
  BY <1>2 DEF Routes!Arrivals, Routes!Size, Routes!HeaderSize, Size, HeaderSize
<1>. QED  BY <1>3, <1>4

LEMMA RoutesTails == TailsAreForeign => Routes!TailsAreForeign
<1>1. Routes!Wires = Wires
  BY RoutesNeighbours DEF Routes!Wires, Routes!Nodes, Wires, Nodes
<1>2. \A p : Routes!Size(p) = Size(p)
  BY DEF Routes!Size, Routes!HeaderSize, Size, HeaderSize
<1>. QED  BY <1>1, <1>2, RoutesArrivals DEF TailsAreForeign, Routes!TailsAreForeign

LEMMA RoutesTable ==
    /\ Routes!TableIndex = TableIndex
    /\ \A t, id, n : Routes!Learn(t, id, n) = Learn(t, id, n)
    /\ \A s, t, dst : Routes!Outputs(s, t, dst) = Outputs(s, t, dst)
    /\ \A s : Routes!From(s) = From(s)
    /\ \A s : Routes!NextPort(s) = NextPort(s)
BY RoutesNeighbours
   DEF Routes!TableIndex, Routes!Learn, Routes!Outputs, Routes!From,
       Routes!NextPort, TableIndex, Learn, Outputs, From, NextPort

LEMMA RoutesInit == SwitchNetwork!Init => Routes!Init
BY DEF SwitchNetwork!Init, SwitchNetwork!WireInit, SwitchNetwork!SwitchInit,
       SwitchNetwork!Wires, SwitchNetwork!Nodes, SwitchNetwork!Neighbours,
       SwitchNetwork!Range, SwitchNetwork!TableIndex, Routes!Init,
       Routes!WireInit, Routes!SwitchInit, Routes!Wires, Routes!Nodes,
       Routes!Neighbours, Routes!Range, Routes!TableIndex

LEMMA RoutesSwitchStep ==
    ASSUME NEW s \in Switches, SwitchNetwork!SwitchStep(s)
    PROVE  Routes!SwitchStep(s)
<1>. USE SameSendTo, SameReadFrom, SameArrivals, SameTable,
         RoutesSendTo, RoutesReadFrom, RoutesArrivals, RoutesTable
<1>1. SwitchNetwork!SwitchIdle(s) => Routes!SwitchIdle(s)
  BY DEF SwitchNetwork!SwitchIdle, Routes!SwitchIdle
<1>2. ASSUME SwitchNetwork!SwitchRelay(s) PROVE Routes!SwitchRelay(s)
  BY <1>2 DEF SwitchNetwork!SwitchRelay, Routes!SwitchRelay
<1>3. SwitchNetwork!SwitchCrash(s) => Routes!SwitchCrash(s)
  BY DEF SwitchNetwork!SwitchCrash, Routes!SwitchCrash
<1>. QED  BY <1>1, <1>2, <1>3 DEF SwitchNetwork!SwitchStep, Routes!SwitchStep

LEMMA RoutesNext == SwitchNetwork!Next => Routes!Next
<1>. USE SameSendTo, SameReadFrom, SameNeighbours,
         RoutesSendTo, RoutesReadFrom, RoutesNeighbours
     DEF SwitchNetwork!switchVars, Routes!switchVars
<1>1. ASSUME NEW h \in Hosts, SwitchNetwork!HostInject(h)
      PROVE  Routes!HostInject(h)
  BY <1>1 DEF SwitchNetwork!HostInject, Routes!HostInject,
              SwitchNetwork!Char, Routes!Char
<1>2. ASSUME NEW h \in Hosts, SwitchNetwork!HostDrain(h)
      PROVE  Routes!HostDrain(h)
  BY <1>2 DEF SwitchNetwork!HostDrain, Routes!HostDrain
<1>. QED  BY <1>1, <1>2, RoutesSwitchStep DEF SwitchNetwork!Next, Routes!Next

LEMMA RoutesSpec == SwitchNetwork!Spec => Routes!Spec
<1>1. SwitchNetwork!vars = Routes!vars
  BY DEF SwitchNetwork!vars, SwitchNetwork!switchVars, Routes!vars,
         Routes!switchVars
<1>2. [SwitchNetwork!Next]_(SwitchNetwork!vars) => [Routes!Next]_(Routes!vars)
  BY <1>1, RoutesNext DEF SwitchNetwork!vars, SwitchNetwork!switchVars,
                          Routes!vars, Routes!switchVars
<1>. QED  BY <1>2, RoutesInit, PTL DEF SwitchNetwork!Spec, Routes!Spec

-----------------------------------------------------------------------------
\* What SwitchNetProofs assumes of a network is assumed of the simulator's.
LEMMA RoutesAssumptions ==
    /\ Routes!NodeAssumption /\ Routes!PortAssumption /\ Routes!SizeAssumption
    /\ Routes!HostIdAssumption /\ Routes!NoiseAssumption /\ Routes!ByteAssumption
    /\ Routes!TableAssumption /\ Routes!SwitchPortAssumption
<1>1. Routes!NodeAssumption /\ Routes!SizeAssumption /\ Routes!HostIdAssumption
  BY NodeAssumption, SizeAssumption, HostIdAssumption
     DEF Routes!NodeAssumption, Routes!SizeAssumption, Routes!HostIdAssumption
<1>2. Routes!PortAssumption
  BY PortAssumption DEF Routes!PortAssumption, Routes!Nodes, Nodes,
                        Routes!Neighbours, Neighbours, Routes!Range, Range
<1>3. Routes!NoiseAssumption /\ Routes!ByteAssumption
  BY NoiseAssumption, ByteAssumption
     DEF Routes!NoiseAssumption, Routes!ByteAssumption, Routes!PacketSet,
         PacketSet, Routes!PacketTypes, PacketTypes
<1>4. Routes!TableAssumption /\ Routes!SwitchPortAssumption
  BY TableAssumption, SwitchPortAssumption
     DEF Routes!TableAssumption, Routes!SwitchPortAssumption, Routes!Nodes, Nodes
<1>. QED  BY <1>1, <1>2, <1>3, <1>4

\* What SwitchNetProofs proves of the switches holds of the simulator's.
LEMMA RoutedIfForeign ==
    ASSUME Traffic = PacketSet, SwitchNetwork!TreeAssumption
    PROVE  Init /\ [][Next]_vars /\ []TailsAreForeign
              => [](SwitchNetwork!RoutesPointHome /\ SwitchNetwork!RoutesReachHome)
<1>1. Init /\ [][Next]_vars => SwitchNetwork!Spec
  BY StepsAreSwitchNet DEF ImplementsSwitchNet
<1>2. Routes!TrafficAssumption
  BY DEF Routes!TrafficAssumption, Routes!PacketSet, PacketSet,
         Routes!PacketTypes, PacketTypes
<1>3. Routes!TreeAssumption
  BY DEF SwitchNetwork!TreeAssumption, Routes!TreeAssumption, SwitchNetwork!Nodes,
         Routes!Nodes, SwitchNetwork!Neighbours, Routes!Neighbours,
         SwitchNetwork!Range, Routes!Range
<1>4. Routes!Spec /\ []Routes!TailsAreForeign
        => [](Routes!RoutesPointHome /\ Routes!RoutesReachHome)
  BY <1>2, <1>3, RoutesAssumptions, Routes!RoutesCorrect,
     Routes!RoutesHaveNoGap, PTL
<1>5. Routes!RoutesPointHome /\ Routes!RoutesReachHome
        => SwitchNetwork!RoutesPointHome /\ SwitchNetwork!RoutesReachHome
  BY SameTable, RoutesTable
     DEF Routes!RoutesPointHome, Routes!RoutesReachHome,
         SwitchNetwork!RoutesPointHome, SwitchNetwork!RoutesReachHome
<1>. QED  BY <1>1, <1>4, <1>5, RoutesSpec, RoutesTails, PTL

\* Whatever the user does and the hosts send, as long as no read leaves a tail
\* that begins with a host's id (packet.c:156-161), what a switch of the simulator
\* has learnt of a host is the neighbour on the path to it, and the next switch on
\* the path knows the host too (switch.c:220-256).  Without that it goes wrong, see the run
\* header_cut; PingsAreRouted says of which users it is so.
THEOREM SimulatorRoutesCorrect ==
    ASSUME Traffic = PacketSet, SwitchNetwork!TreeAssumption
    PROVE  Spec /\ []TailsAreForeign
              => [](SwitchNetwork!RoutesPointHome /\ SwitchNetwork!RoutesReachHome)
BY RoutedIfForeign, PTL DEF Spec

-----------------------------------------------------------------------------
(* One switch makes no second copy of a ping that can still arrive.  It    *)
(* floods what it has no port for, and may learn a port between two        *)
(* floods, so there can be many copies of a packet; but only one of them   *)
(* goes to the host it is for.  The others are counted out, and what is    *)
(* left never exceeds the commands that the user has typed: a command      *)
(* that is heard becomes a job, a job a packet, a packet a job.            *)

\* The network of switch.config: every host is linked to the one switch, and to
\* nothing else.
Star(hub) ==
    /\ Switches = {hub} /\ Neighbours(hub) \subseteq Hosts
    /\ \A h \in Hosts : Neighbours(h) \subseteq {hub}

\* The tail of a packet that a read has cut spells no ping: the types of the
\* pings are the bytes 0 and 1 (main.h:50-51), which no text has.  A read that
\* ends inside a header may leave such a tail.
NoPingNoise == \A p \in Noises : p.type \notin PingTypes

\* No packet is cut: every pipe starts with the first byte of a packet.
Uncut ==
    \A e \in Wires : wire[e] # << >> => wire[e][1].end = Size(wire[e][1].pkt)

\* A packet in pipe e, and a job, that LivePackets and LiveJobs count.
LivePing(p, e) == p.type \in PingTypes /\ e[2] \in Switches \cup {p.dst}
LiveJob(j) == j.type \in {"SEND_ALL", "PING_SEND_REPLY"} /\ j.pkt.type \in PingTypes

PingsIn(w) ==
    UNION {{<<e, i>> : i \in {k \in DOMAIN w[e] : LivePing(w[e][k].pkt, e)}} : e \in Wires}
PingJobs(j) ==
    UNION {{<<h, i>> : i \in {k \in DOMAIN j[h] : LiveJob(j[h][k])}} : h \in Hosts}

\* The commands that the hosts have not read.
Unheard(c) == UNION {{<<h, i>> : i \in DOMAIN c[h]} : h \in Hosts}

\* Of the pipes from node n to dests, a ping p counts only in the one to m.
OneWay(p, n, dests, m) ==
    \A e \in Wires : e[1] = n /\ e[2] \in dests /\ LivePing(p, e) => e[2] = m

\* A ping has no payload.
Bare(p) == p.type \in PingTypes => p.body = << >>

\* The pings in a pipe have no payload, and no byte is beyond the last one.
PipesOK(w) ==
    \A e \in Wires : \A i \in DOMAIN w[e] :
        /\ w[e][i].end <= Total(w[e])
        /\ w[e][i].pkt.type \in PingTypes => w[e][i].pkt.body = << >>

\* The jobs that send pings send no payload; what is replied to is a ping.
PingJobOK(j) ==
    /\ j.type = "SEND_ALL" /\ j.pkt.type \in PingTypes => j.pkt.body = << >>
    /\ j.type = "PING_SEND_REPLY" => j.pkt.type \in PingTypes
QueuesOK(j) == \A h \in Hosts : \A i \in DOMAIN j[h] : PingJobOK(j[h][i])

Counted(w, j, c, n) ==
    /\ IsFiniteSet(PingsIn(w)) /\ IsFiniteSet(PingJobs(j)) /\ IsFiniteSet(Unheard(c))
    /\ Cardinality(PingsIn(w)) + Cardinality(PingJobs(j)) + Cardinality(Unheard(c)) <= n

PingInv ==
    /\ TypeInv /\ PipesOK(wire) /\ QueuesOK(jobs)
    /\ Counted(wire, jobs, cmd, issued)

\* What a step may take from a set that is counted, or add to it.
Bit(P) == IF P THEN 1 ELSE 0
Without(T, x, d) == IF d = 1 THEN T \ {x} ELSE T
With(T, x, d) == IF d = 1 THEN T \cup {x} ELSE T

-----------------------------------------------------------------------------
(* The sets that are counted.                                              *)

LEMMA InPings ==
    ASSUME NEW w
    PROVE  /\ \A e \in Wires : \A i \in DOMAIN w[e] :
                LivePing(w[e][i].pkt, e) => <<e, i>> \in PingsIn(w)
           /\ \A x \in PingsIn(w) : \E e \in Wires : \E i \in DOMAIN w[e] :
                x = <<e, i>> /\ LivePing(w[e][i].pkt, e)
<1>1. ASSUME NEW e \in Wires, NEW i \in DOMAIN w[e], LivePing(w[e][i].pkt, e)
      PROVE  <<e, i>> \in PingsIn(w)
  <2>1. i \in {k \in DOMAIN w[e] : LivePing(w[e][k].pkt, e)}
    BY <1>1
  <2>2. QED BY <2>1 DEF PingsIn
<1>2. ASSUME NEW x \in PingsIn(w)
      PROVE  \E e \in Wires : \E i \in DOMAIN w[e] :
               x = <<e, i>> /\ LivePing(w[e][i].pkt, e)
  BY DEF PingsIn
<1>3. QED BY <1>1, <1>2

LEMMA InJobs ==
    ASSUME NEW j
    PROVE  /\ \A h \in Hosts : \A i \in DOMAIN j[h] :
                LiveJob(j[h][i]) => <<h, i>> \in PingJobs(j)
           /\ \A x \in PingJobs(j) : \E h \in Hosts : \E i \in DOMAIN j[h] :
                x = <<h, i>> /\ LiveJob(j[h][i])
<1>1. ASSUME NEW h \in Hosts, NEW i \in DOMAIN j[h], LiveJob(j[h][i])
      PROVE  <<h, i>> \in PingJobs(j)
  <2>1. i \in {k \in DOMAIN j[h] : LiveJob(j[h][k])}
    BY <1>1
  <2>2. QED BY <2>1 DEF PingJobs
<1>2. ASSUME NEW x \in PingJobs(j)
      PROVE  \E h \in Hosts : \E i \in DOMAIN j[h] : x = <<h, i>> /\ LiveJob(j[h][i])
  BY DEF PingJobs
<1>3. QED BY <1>1, <1>2

LEMMA InUnheard ==
    ASSUME NEW c
    PROVE  /\ \A h \in Hosts : \A i \in DOMAIN c[h] : <<h, i>> \in Unheard(c)
           /\ \A x \in Unheard(c) : \E h \in Hosts : \E i \in DOMAIN c[h] : x = <<h, i>>
BY DEF Unheard

\* A set that goes into another without one of its elements is smaller by one.
LEMMA Smaller ==
    ASSUME NEW S, NEW T, IsFiniteSet(T), NEW x, NEW d \in {0, 1}, d = 1 => x \in T,
           NEW g \in Injection(S, Without(T, x, d))
    PROVE  /\ IsFiniteSet(S) /\ Cardinality(S) + d <= Cardinality(T)
           /\ Cardinality(S) \in Nat /\ Cardinality(T) \in Nat
<1>1. CASE d = 1
  <2>1. IsFiniteSet(T \ {x}) /\ Cardinality(T \ {x}) = Cardinality(T) - 1
    BY <1>1, FS_RemoveElement
  <2>2. g \in Injection(S, T \ {x})
    BY <1>1 DEF Without
  <2>3. IsFiniteSet(S) /\ Cardinality(S) <= Cardinality(T \ {x})
    BY <2>1, <2>2, FS_Injection
  <2>4. Cardinality(S) \in Nat /\ Cardinality(T) \in Nat
    BY <2>3, FS_CardinalityType
  <2>5. QED BY <1>1, <2>1, <2>3, <2>4
<1>2. CASE d = 0
  <2>1. g \in Injection(S, T)
    BY <1>2 DEF Without
  <2>2. IsFiniteSet(S) /\ Cardinality(S) <= Cardinality(T)
    BY <2>1, FS_Injection
  <2>3. Cardinality(S) \in Nat /\ Cardinality(T) \in Nat
    BY <2>2, FS_CardinalityType
  <2>4. QED BY <1>2, <2>2, <2>3
<1>3. QED BY <1>1, <1>2

\* A set that has at most one element more than another.
LEMMA Larger ==
    ASSUME NEW S, NEW T, IsFiniteSet(T), NEW x, NEW d \in {0, 1},
           S \subseteq With(T, x, d)
    PROVE  /\ IsFiniteSet(S) /\ Cardinality(S) <= Cardinality(T) + d
           /\ Cardinality(S) \in Nat /\ Cardinality(T) \in Nat
<1>1. PICK U : U = With(T, x, d)
  OBVIOUS
<1>2. IsFiniteSet(U) /\ Cardinality(T) \in Nat /\ Cardinality(U) <= Cardinality(T) + d
  <2>1. Cardinality(T) \in Nat
    BY FS_CardinalityType
  <2>2. IsFiniteSet(T \cup {x})
        /\ Cardinality(T \cup {x}) = IF x \in T THEN Cardinality(T) ELSE Cardinality(T) + 1
    BY FS_AddElement
  <2>3. QED BY <1>1, <2>1, <2>2 DEF With
<1>3. S \subseteq U
  BY <1>1
<1>4. IsFiniteSet(S) /\ Cardinality(S) <= Cardinality(U)
  BY <1>2, <1>3, FS_Subset
<1>5. Cardinality(S) \in Nat /\ Cardinality(U) \in Nat
  BY <1>2, <1>4, FS_CardinalityType
<1>6. QED BY <1>2, <1>4, <1>5

-----------------------------------------------------------------------------
(* The pipes.                                                              *)

\* A read that begins with a packet that is a ping takes all of it.
LEMMA PingIsTaken ==
    ASSUME NEW q \in Seq(Chunk), q # << >>, q[1].end = HeaderSize, q[1].end <= Total(q)
    PROVE  WholeTaken(q) \in 1 .. Len(q)
<1>. DEFINE T == {i \in DOMAIN q : q[i].end <= Taken(q)}
<1>1. WholeTaken(q) \in 0 .. Len(q)
  BY WholeTakenBound
<1>2. 1 \in DOMAIN q /\ DOMAIN q = 1 .. Len(q) /\ Len(q) \in Nat
  BY EmptySeq
<1>3. q[1].end <= Taken(q)
  BY TotalType, SizeAssumption DEF Taken, ReadMax, HeaderSize
<1>4. T # {}
  BY <1>2, <1>3
<1>5. IsFiniteSet(T)
  <2>1. IsFiniteSet(1 .. Len(q))
    BY <1>2, IntervalFromOne
  <2>2. QED BY <1>2, <2>1, FS_Subset
<1>6. WholeTaken(q) # 0
  BY <1>4, <1>5, FS_EmptySet DEF WholeTaken
<1>7. QED BY <1>1, <1>2, <1>6

\* The total of what is left after a read, and of what is after a write.
LEMMA RestEnds ==
    ASSUME NEW q \in Seq(Chunk), \A i \in DOMAIN q : q[i].end <= Total(q)
    PROVE  \A i \in DOMAIN Rest(q) : Rest(q)[i].end <= Total(Rest(q))
<1>. DEFINE n == WholeTaken(q)
<1>1. n \in 0 .. Len(q) /\ Len(q) \in Nat /\ DOMAIN q = 1 .. Len(q) /\ Taken(q) \in Int
  BY WholeTakenBound, TotalType, SizeAssumption DEF Taken, ReadMax, HeaderSize
<1>2. \A i \in DOMAIN q : q[i].end \in Int
  <2>1. \A i \in DOMAIN q : q[i] \in Chunk
    BY <1>1
  <2>2. QED BY <2>1 DEF Chunk
<1>3. Rest(q) = [i \in 1 .. Len(q) - n |->
                   [pkt |-> q[i + n].pkt, end |-> q[i + n].end - Taken(q)]]
  BY DEF Rest
<1>. HIDE DEF n
<1>4. Rest(q) \in Seq(Chunk)
  BY RestPackets
<1>5. DOMAIN Rest(q) = 1 .. Len(q) - n /\ Len(Rest(q)) = Len(q) - n
  BY <1>1, <1>3, <1>4
<1>6. ASSUME NEW i \in 1 .. Len(q) - n PROVE Rest(q)[i].end <= Total(Rest(q))
  <2>1. Len(q) - n \in 1 .. Len(q) - n /\ Rest(q) # << >> /\ q # << >>
        /\ i + n \in DOMAIN q /\ Len(q) \in DOMAIN q /\ Len(q) - n + n = Len(q)
    BY <1>1, <1>5, <1>6
  <2>2. Total(Rest(q)) = q[Len(q)].end - Taken(q)
    BY <1>3, <1>5, <2>1 DEF Total
  <2>3. q[i + n].end <= q[Len(q)].end
    BY <2>1 DEF Total
  <2>4. Rest(q)[i].end = q[i + n].end - Taken(q)
    BY <1>3, <1>6
  <2>5. QED BY <1>1, <1>2, <2>1, <2>2, <2>3, <2>4
<1>7. QED BY <1>5, <1>6

LEMMA PushEnds ==
    ASSUME NEW q \in Seq(Chunk), NEW p \in PacketSet, \A i \in DOMAIN q : q[i].end <= Total(q)
    PROVE  \A i \in DOMAIN Push(q, p) : Push(q, p)[i].end <= Total(Push(q, p))
<1>. DEFINE c == [pkt |-> p, end |-> Total(q) + Size(p)]
            r == Append(q, c)
<1>1. Size(p) \in Nat /\ Total(q) \in Int /\ Len(q) \in Nat /\ DOMAIN q = 1 .. Len(q)
  BY TotalType DEF Size, HeaderSize, PacketSet
<1>2. \A i \in DOMAIN q : q[i].end \in Int
  <2>1. \A i \in DOMAIN q : q[i] \in Chunk
    BY <1>1
  <2>2. QED BY <2>1 DEF Chunk
<1>3. c \in Chunk /\ c.end = Total(q) + Size(p)
  BY <1>1 DEF Chunk
<1>. HIDE DEF c
<1>4. r \in Seq(Chunk) /\ DOMAIN r = 1 .. Len(q) + 1 /\ Len(r) = Len(q) + 1
      /\ r[Len(q) + 1] = c /\ \A i \in DOMAIN q : r[i] = q[i]
  BY <1>1, <1>3
<1>. HIDE DEF r
<1>5. Total(r) = c.end
  BY <1>1, <1>4, EmptySeq DEF Total
<1>6. \A i \in DOMAIN r : r[i].end <= Total(r)
  <2>1. ASSUME NEW i \in DOMAIN r PROVE r[i].end <= Total(r)
    <3>1. CASE i = Len(q) + 1
      BY <1>1, <1>3, <1>4, <1>5, <3>1
    <3>2. CASE i \in DOMAIN q
      BY <1>1, <1>2, <1>3, <1>4, <1>5, <3>2
    <3>3. QED BY <1>1, <1>4, <2>1, <3>1, <3>2
  <2>2. QED BY <2>1
<1>7. Push(q, p) = r \/ Push(q, p) = q
  BY DEF Push, r, c
<1>8. QED BY <1>6, <1>7

\* A read leaves the pings that were not first; when it reports one there is one
\* less.
LEMMA ReadCount ==
    ASSUME NEW w \in [Wires -> Seq(Chunk)], PipesOK(w), IsFiniteSet(PingsIn(w)),
           NEW e \in Wires, w[e] # << >>, NEW p \in Arrivals(w[e]),
           NoPingNoise \/ w[e][1].end = Size(w[e][1].pkt)
    PROVE  /\ PipesOK(ReadFrom(w, e)) /\ IsFiniteSet(PingsIn(ReadFrom(w, e)))
           /\ Cardinality(PingsIn(ReadFrom(w, e))) + Bit(LivePing(p, e))
                <= Cardinality(PingsIn(w))
           /\ Cardinality(PingsIn(ReadFrom(w, e))) \in Nat
           /\ Cardinality(PingsIn(w)) \in Nat
           /\ p.type \in PingTypes => p.body = << >>
<1>. DEFINE q == w[e]
            n == WholeTaken(q)
            v == ReadFrom(w, e)
<1>1. q \in Seq(Chunk) /\ n \in 0 .. Len(q) /\ Len(q) \in Nat /\ DOMAIN q = 1 .. Len(q)
      /\ 1 \in DOMAIN q
  BY WholeTakenBound, EmptySeq
<1>2. \A f \in Wires : v[f] = IF f = e THEN Rest(q) ELSE w[f]
  BY DEF ReadFrom
<1>3. Rest(q) = [i \in 1 .. Len(q) - n |->
                   [pkt |-> q[i + n].pkt, end |-> q[i + n].end - Taken(q)]]
  BY DEF Rest
<1>4. \A i \in DOMAIN q : q[i].end <= Total(q)
                          /\ (q[i].pkt.type \in PingTypes => q[i].pkt.body = << >>)
  BY DEF PipesOK
<1>. HIDE DEF n, v
<1>5. PipesOK(v)
  <2>1. ASSUME NEW f \in Wires, NEW i \in DOMAIN v[f]
        PROVE  /\ v[f][i].end <= Total(v[f])
               /\ v[f][i].pkt.type \in PingTypes => v[f][i].pkt.body = << >>
    <3>1. CASE f # e
      BY <1>2, <2>1, <3>1 DEF PipesOK
    <3>2. CASE f = e
      <4>1. v[f] = Rest(q) /\ i \in 1 .. Len(q) - n
        BY <1>1, <1>2, <1>3, <2>1, <3>2
      <4>2. v[f][i].pkt = q[i + n].pkt /\ i + n \in DOMAIN q
        BY <1>1, <1>3, <4>1
      <4>3. v[f][i].end <= Total(v[f])
        BY <1>1, <1>4, <2>1, <4>1, RestEnds
      <4>4. QED BY <1>4, <4>2, <4>3
    <3>3. QED BY <3>1, <3>2
  <2>2. QED BY <2>1 DEF PipesOK
<1>6. p.type \in PingTypes => p = q[1].pkt /\ q[1].end = Size(q[1].pkt)
  <2>1. CASE q[1].end = Size(q[1].pkt)
    BY <2>1 DEF Arrivals
  <2>2. CASE q[1].end # Size(q[1].pkt)
    <3>1. PICK k \in Noises, b \in FirstLeft(q[1]) : p = [k EXCEPT !.src = b]
      BY <2>2 DEF Arrivals
    <3>2. k \in PacketSet
      BY NoiseAssumption
    <3>3. p.type = k.type
      BY <3>1, <3>2 DEF PacketSet
    <3>4. QED BY <2>2, <3>3 DEF NoPingNoise
  <2>3. QED BY <2>1, <2>2
<1>7. ASSUME LivePing(p, e) PROVE n \in 1 .. Len(q) /\ <<e, 1>> \in PingsIn(w)
  <2>1. p = q[1].pkt /\ q[1].end = HeaderSize
    BY <1>1, <1>4, <1>6, <1>7, EmptySeq DEF LivePing, Size, HeaderSize
  <2>2. n \in 1 .. Len(q)
    BY <1>1, <1>4, <2>1, PingIsTaken DEF n
  <2>3. <<e, 1>> \in PingsIn(w)
    BY <1>1, <1>7, <2>1, InPings
  <2>4. QED BY <2>2, <2>3
<1>. DEFINE g == [x \in PingsIn(v) |-> IF x[1] = e THEN <<e, x[2] + n>> ELSE x]
<1>8. ASSUME NEW x \in PingsIn(v)
      PROVE  /\ g[x] \in PingsIn(w)
             /\ n \in 1 .. Len(q) => g[x] # <<e, 1>>
             /\ \E f \in Wires, i \in Nat : x = <<f, i>>
  <2>1. PICK f \in Wires : \E i \in DOMAIN v[f] : x = <<f, i>> /\ LivePing(v[f][i].pkt, f)
    BY InPings
  <2>2. PICK i \in DOMAIN v[f] : x = <<f, i>> /\ LivePing(v[f][i].pkt, f)
    BY <2>1
  <2>3. CASE f # e
    <3>1. v[f] = w[f] /\ w[f] \in Seq(Chunk) /\ i \in Nat
      BY <1>2, <2>2, <2>3
    <3>2. x \in PingsIn(w)
      BY <2>2, <3>1, InPings
    <3>3. g[x] = x /\ x # <<e, 1>>
      BY <2>2, <2>3
    <3>4. QED BY <2>2, <3>1, <3>2, <3>3
  <2>4. CASE f = e
    <3>1. v[f] = Rest(q) /\ i \in 1 .. Len(q) - n
      BY <1>1, <1>2, <1>3, <2>2, <2>4
    <3>2. v[f][i].pkt = q[i + n].pkt /\ i + n \in DOMAIN q /\ i \in Nat \ {0}
      BY <1>1, <1>3, <3>1
    <3>3. <<e, i + n>> \in PingsIn(w)
      BY <2>2, <2>4, <3>2, InPings
    <3>4. g[x] = <<e, i + n>>
      BY <2>2, <2>4
    <3>5. n \in 1 .. Len(q) => i + n # 1
      BY <1>1, <3>2
    <3>6. QED BY <2>2, <3>2, <3>3, <3>4, <3>5
  <2>5. QED BY <2>3, <2>4
<1>9. ASSUME NEW x \in PingsIn(v), NEW y \in PingsIn(v), g[x] = g[y] PROVE x = y
  <2>1. PICK f \in Wires, i \in Nat : x = <<f, i>>
    BY <1>8
  <2>2. PICK f2 \in Wires, i2 \in Nat : y = <<f2, i2>>
    BY <1>8
  <2>3. g[x] = (IF f = e THEN <<e, i + n>> ELSE <<f, i>>)
        /\ g[y] = (IF f2 = e THEN <<e, i2 + n>> ELSE <<f2, i2>>)
    BY <2>1, <2>2
  <2>4. f = f2 /\ i = i2
    BY <1>1, <1>9, <2>3
  <2>5. QED BY <2>1, <2>2, <2>4
<1>10. g \in [PingsIn(v) -> PingsIn(w)]
  BY <1>8
<1>. HIDE DEF g
<1>. DEFINE d == Bit(LivePing(p, e))
<1>11. /\ IsFiniteSet(PingsIn(v)) /\ Cardinality(PingsIn(v)) + d <= Cardinality(PingsIn(w))
       /\ Cardinality(PingsIn(v)) \in Nat /\ Cardinality(PingsIn(w)) \in Nat
  <2>1. d \in {0, 1} /\ (d = 1 => LivePing(p, e))
    BY DEF Bit
  <2>. HIDE DEF d
  <2>2. d = 1 => <<e, 1>> \in PingsIn(w) /\ \A y \in PingsIn(v) : g[y] # <<e, 1>>
    BY <1>7, <1>8, <2>1
  <2>3. g \in Injection(PingsIn(v), Without(PingsIn(w), <<e, 1>>, d))
    BY <1>9, <1>10, <2>2 DEF Injection, IsInjective, Without
  <2>4. QED BY <2>1, <2>2, <2>3, Smaller
<1>12. p.type \in PingTypes => p.body = << >>
  BY <1>1, <1>4, <1>6
<1>13. QED BY <1>5, <1>11, <1>12 DEF v

\* A write adds at most one ping that can arrive, when it can arrive by one of
\* the pipes only.
LEMMA WriteCount ==
    ASSUME NEW w \in [Wires -> Seq(Chunk)], PipesOK(w), IsFiniteSet(PingsIn(w)),
           NEW n, NEW dests, NEW p \in PacketSet, Bare(p), NEW m, OneWay(p, n, dests, m)
    PROVE  /\ PipesOK(SendTo(w, n, dests, p)) /\ IsFiniteSet(PingsIn(SendTo(w, n, dests, p)))
           /\ Cardinality(PingsIn(SendTo(w, n, dests, p)))
                <= Cardinality(PingsIn(w)) + Bit(p.type \in PingTypes)
           /\ Cardinality(PingsIn(SendTo(w, n, dests, p))) \in Nat
           /\ Cardinality(PingsIn(w)) \in Nat
<1>. DEFINE v == SendTo(w, n, dests, p)
            new == <<<<n, m>>, Len(w[<<n, m>>]) + 1>>
<1>1. \A f \in Wires : v[f] = (IF f[1] = n /\ f[2] \in dests THEN Push(w[f], p) ELSE w[f])
  BY DEF SendTo
<1>. HIDE DEF v
<1>2. \A f \in Wires : w[f] \in Seq(Chunk) /\ \A i \in DOMAIN w[f] : w[f][i].end <= Total(w[f])
  BY DEF PipesOK
<1>3. ASSUME NEW f \in Wires, NEW i \in DOMAIN v[f]
      PROVE  /\ v[f][i].end <= Total(v[f])
             /\ \/ i \in DOMAIN w[f] /\ v[f][i].pkt = w[f][i].pkt
                \/ /\ f[1] = n /\ f[2] \in dests /\ v[f][i].pkt = p
                   /\ i = Len(w[f]) + 1
  <2>1. CASE v[f] = w[f]
    BY <1>2, <1>3, <2>1
  <2>2. CASE f[1] = n /\ f[2] \in dests /\ v[f] = Push(w[f], p) /\ v[f] # w[f]
    <3>1. v[f][i].end <= Total(v[f])
      BY <1>2, <1>3, <2>2, PushEnds
    <3>2. v[f] = Append(w[f], [pkt |-> p, end |-> Total(w[f]) + Size(p)])
      BY <2>2 DEF Push
    <3>3. \/ i \in DOMAIN w[f] /\ v[f][i].pkt = w[f][i].pkt
          \/ i = Len(w[f]) + 1 /\ v[f][i].pkt = p
      BY <1>2, <1>3, <3>2
    <3>4. QED BY <2>2, <3>1, <3>3
  <2>3. QED BY <1>1, <2>1, <2>2
<1>4. PipesOK(v)
  BY <1>3 DEF PipesOK, Bare
<1>5. ASSUME NEW x \in PingsIn(v)
      PROVE  x \in PingsIn(w) \/ (p.type \in PingTypes /\ x = new)
  <2>1. PICK f \in Wires : \E i \in DOMAIN v[f] : x = <<f, i>> /\ LivePing(v[f][i].pkt, f)
    BY InPings
  <2>2. PICK i \in DOMAIN v[f] : x = <<f, i>> /\ LivePing(v[f][i].pkt, f)
    BY <2>1
  <2>3. CASE i \in DOMAIN w[f] /\ v[f][i].pkt = w[f][i].pkt
    BY <2>2, <2>3, InPings
  <2>4. CASE /\ f[1] = n /\ f[2] \in dests /\ v[f][i].pkt = p /\ i = Len(w[f]) + 1
    <3>1. f[2] = m /\ p.type \in PingTypes
      BY <2>2, <2>4 DEF LivePing, OneWay
    <3>2. f = <<n, m>>
      BY <2>4, <3>1 DEF Wires
    <3>3. QED BY <2>2, <2>4, <3>1, <3>2
  <2>5. QED BY <1>3, <2>3, <2>4
<1>. DEFINE d == Bit(p.type \in PingTypes)
<1>6. d \in {0, 1} /\ (p.type \in PingTypes => d = 1)
  BY DEF Bit
<1>. HIDE DEF new, d
<1>7. PingsIn(v) \subseteq With(PingsIn(w), new, d)
  BY <1>5, <1>6 DEF With
<1>8. /\ IsFiniteSet(PingsIn(v)) /\ Cardinality(PingsIn(v)) <= Cardinality(PingsIn(w)) + d
      /\ Cardinality(PingsIn(v)) \in Nat /\ Cardinality(PingsIn(w)) \in Nat
  BY <1>6, <1>7, Larger
<1>9. QED BY <1>4, <1>8 DEF v, d

-----------------------------------------------------------------------------
(* The queues.                                                             *)

\* The job that is done is counted no more.
LEMMA TailCount ==
    ASSUME NEW j \in [Hosts -> Seq(JobSet)], QueuesOK(j), IsFiniteSet(PingJobs(j)),
           NEW h \in Hosts, j[h] # << >>, NEW v, v = [j EXCEPT ![h] = Tail(j[h])]
    PROVE  /\ v \in [Hosts -> Seq(JobSet)] /\ QueuesOK(v) /\ IsFiniteSet(PingJobs(v))
           /\ Cardinality(PingJobs(v)) + Bit(LiveJob(Head(j[h]))) <= Cardinality(PingJobs(j))
           /\ Cardinality(PingJobs(v)) \in Nat /\ Cardinality(PingJobs(j)) \in Nat
<1>. DEFINE q == j[h]
<1>1. q \in Seq(JobSet) /\ Len(q) \in Nat /\ Len(q) # 0 /\ DOMAIN q = 1 .. Len(q)
      /\ 1 \in DOMAIN q /\ Head(q) = q[1]
  BY EmptySeq
<1>2. Tail(q) \in Seq(JobSet) /\ DOMAIN Tail(q) = 1 .. Len(q) - 1
      /\ \A i \in 1 .. Len(q) - 1 : Tail(q)[i] = q[i + 1] /\ i + 1 \in DOMAIN q
                                    /\ i \in Nat /\ i + 1 # 1
  BY <1>1
<1>3. v \in [Hosts -> Seq(JobSet)] /\ v[h] = Tail(q)
      /\ \A k \in Hosts \ {h} : v[k] = j[k]
  BY <1>2
<1>4. QueuesOK(v)
  BY <1>2, <1>3 DEF QueuesOK
<1>5. ASSUME NEW x \in PingJobs(v)
       PROVE  \E k \in Hosts : \E i \in DOMAIN v[k] : x = <<k, i>> /\ LiveJob(v[k][i])
  BY <1>5 DEF PingJobs
<1>. DEFINE g == [x \in PingJobs(v) |-> IF x[1] = h THEN <<h, x[2] + 1>> ELSE x]
<1>6. ASSUME NEW x \in PingJobs(v)
      PROVE  /\ g[x] \in PingJobs(j) /\ g[x] # <<h, 1>>
             /\ \E k \in Hosts, i \in Nat : x = <<k, i>>
  <2>1. PICK k \in Hosts : \E i \in DOMAIN v[k] : x = <<k, i>> /\ LiveJob(v[k][i])
    BY <1>5
  <2>2. PICK i \in DOMAIN v[k] : x = <<k, i>> /\ LiveJob(v[k][i])
    BY <2>1
  <2>3. CASE k # h
    <3>1. v[k] = j[k] /\ j[k] \in Seq(JobSet) /\ i \in Nat
      BY <1>3, <2>2, <2>3
    <3>2. x \in PingJobs(j)
      BY <2>2, <3>1, InJobs
    <3>3. g[x] = x /\ x # <<h, 1>>
      BY <2>2, <2>3
    <3>4. QED BY <2>2, <3>1, <3>2, <3>3
  <2>4. CASE k = h
    <3>1. v[k][i] = q[i + 1] /\ i + 1 \in DOMAIN q /\ i \in Nat /\ i + 1 # 1
      BY <1>2, <1>3, <2>2, <2>4
    <3>2. <<h, i + 1>> \in PingJobs(j)
      BY <2>2, <2>4, <3>1, InJobs
    <3>3. g[x] = <<h, i + 1>>
      BY <2>2, <2>4
    <3>4. QED BY <2>2, <3>1, <3>2, <3>3
  <2>5. QED BY <2>3, <2>4
<1>7. ASSUME NEW x \in PingJobs(v), NEW y \in PingJobs(v), g[x] = g[y] PROVE x = y
  <2>1. PICK k \in Hosts, i \in Nat : x = <<k, i>>
    BY <1>6
  <2>2. PICK k2 \in Hosts, i2 \in Nat : y = <<k2, i2>>
    BY <1>6
  <2>3. g[x] = (IF k = h THEN <<h, i + 1>> ELSE <<k, i>>)
        /\ g[y] = (IF k2 = h THEN <<h, i2 + 1>> ELSE <<k2, i2>>)
    BY <2>1, <2>2
  <2>4. k = k2 /\ i = i2
    BY <1>7, <2>3
  <2>5. QED BY <2>1, <2>2, <2>4
<1>8. g \in [PingJobs(v) -> PingJobs(j)]
  BY <1>6
<1>. HIDE DEF g
<1>. DEFINE d == Bit(LiveJob(Head(q)))
<1>9. d \in {0, 1} /\ (d = 1 => LiveJob(Head(q)))
  BY DEF Bit
<1>. HIDE DEF d
<1>10. d = 1 => <<h, 1>> \in PingJobs(j)
  BY <1>1, <1>9, InJobs
<1>11. g \in Injection(PingJobs(v), Without(PingJobs(j), <<h, 1>>, d))
  BY <1>6, <1>7, <1>8 DEF Injection, IsInjective, Without
<1>12. /\ IsFiniteSet(PingJobs(v)) /\ Cardinality(PingJobs(v)) + d <= Cardinality(PingJobs(j))
       /\ Cardinality(PingJobs(v)) \in Nat /\ Cardinality(PingJobs(j)) \in Nat
  BY <1>9, <1>10, <1>11, Smaller
<1>13. QED BY <1>3, <1>4, <1>12 DEF d

\* Of the jobs that are added at most the first is counted.
LEMMA MoreCount ==
    ASSUME NEW j \in [Hosts -> Seq(JobSet)], QueuesOK(j), IsFiniteSet(PingJobs(j)),
           NEW h \in Hosts, NEW more \in Seq(JobSet),
           NEW v, v = [j EXCEPT ![h] = j[h] \o more], NEW d \in {0, 1},
           \A i \in DOMAIN more : /\ PingJobOK(more[i])
                                  /\ LiveJob(more[i]) => i = 1 /\ d = 1
    PROVE  /\ QueuesOK(v) /\ IsFiniteSet(PingJobs(v))
           /\ Cardinality(PingJobs(v)) <= Cardinality(PingJobs(j)) + d
           /\ Cardinality(PingJobs(v)) \in Nat /\ Cardinality(PingJobs(j)) \in Nat
<1>. DEFINE q == j[h]
            new == <<h, Len(q) + 1>>
<1>1. q \in Seq(JobSet) /\ Len(q) \in Nat /\ Len(more) \in Nat
      /\ DOMAIN q = 1 .. Len(q) /\ DOMAIN more = 1 .. Len(more)
  OBVIOUS
<1>2. v[h] = q \o more /\ \A k \in Hosts \ {h} : v[k] = j[k]
  OBVIOUS
<1>3. DOMAIN (q \o more) = 1 .. Len(q) + Len(more)
      /\ \A i \in 1 .. Len(q) + Len(more) :
           (q \o more)[i] = IF i <= Len(q) THEN q[i] ELSE more[i - Len(q)]
  BY <1>1, ConcatProperties
<1>4. ASSUME NEW k \in Hosts, NEW i \in DOMAIN v[k]
      PROVE  \/ i \in DOMAIN j[k] /\ v[k][i] = j[k][i]
             \/ k = h /\ i \in Nat /\ i - Len(q) \in DOMAIN more /\ v[k][i] = more[i - Len(q)]
  <2>1. CASE k = h
    <3>1. i \in 1 .. Len(q) + Len(more) /\ v[k][i] = IF i <= Len(q) THEN q[i] ELSE more[i - Len(q)]
      BY <1>2, <1>3, <1>4, <2>1
    <3>2. QED BY <1>1, <2>1, <3>1
  <2>2. QED BY <1>2, <1>4, <2>1
<1>5. QueuesOK(v)
  BY <1>4 DEF QueuesOK
<1>6. ASSUME NEW x \in PingJobs(v) PROVE x \in PingJobs(j) \/ (d = 1 /\ x = new)
  <2>1. PICK k \in Hosts : \E i \in DOMAIN v[k] : x = <<k, i>> /\ LiveJob(v[k][i])
    BY InJobs
  <2>2. PICK i \in DOMAIN v[k] : x = <<k, i>> /\ LiveJob(v[k][i])
    BY <2>1
  <2>3. CASE i \in DOMAIN j[k] /\ v[k][i] = j[k][i]
    BY <2>2, <2>3, InJobs
  <2>4. CASE k = h /\ i \in Nat /\ i - Len(q) \in DOMAIN more /\ v[k][i] = more[i - Len(q)]
    <3>1. i - Len(q) = 1 /\ d = 1
      BY <2>2, <2>4
    <3>2. i = Len(q) + 1
      BY <1>1, <2>4, <3>1
    <3>3. QED BY <2>2, <2>4, <3>1, <3>2
  <2>5. QED BY <1>4, <2>3, <2>4
<1>. HIDE DEF new
<1>7. PingJobs(v) \subseteq With(PingJobs(j), new, d)
  BY <1>6 DEF With
<1>8. QED BY <1>5, <1>7, Larger

\* A host that hears takes at least one command.
LEMMA HearCount ==
    ASSUME NEW c \in [Hosts -> Seq(CommandSet)], IsFiniteSet(Unheard(c)),
           NEW h \in Hosts, c[h] # << >>, NEW v, v = [c EXCEPT ![h] = << >>]
    PROVE  /\ IsFiniteSet(Unheard(v)) /\ Cardinality(Unheard(v)) + 1 <= Cardinality(Unheard(c))
           /\ Cardinality(Unheard(v)) \in Nat /\ Cardinality(Unheard(c)) \in Nat
<1>1. c[h] \in Seq(CommandSet) /\ 1 \in DOMAIN c[h]
  BY EmptySeq
<1>2. <<h, 1>> \in Unheard(c)
  BY <1>1, InUnheard
<1>3. ASSUME NEW x \in Unheard(v) PROVE x \in Unheard(c) \ {<<h, 1>>}
  <2>1. PICK k \in Hosts : \E i \in DOMAIN v[k] : x = <<k, i>>
    BY InUnheard
  <2>2. PICK i \in DOMAIN v[k] : x = <<k, i>>
    BY <2>1
  <2>3. k # h
    BY <2>2, EmptySeq
  <2>4. v[k] = c[k] /\ x # <<h, 1>>
    BY <2>2, <2>3
  <2>5. QED BY <2>2, <2>4, InUnheard
<1>4. IsFiniteSet(Unheard(c) \ {<<h, 1>>})
      /\ Cardinality(Unheard(c) \ {<<h, 1>>}) = Cardinality(Unheard(c)) - 1
  BY <1>2, FS_RemoveElement
<1>5. Unheard(v) \subseteq Unheard(c) \ {<<h, 1>>}
  BY <1>3
<1>6. IsFiniteSet(Unheard(v))
      /\ Cardinality(Unheard(v)) <= Cardinality(Unheard(c) \ {<<h, 1>>})
  BY <1>4, <1>5, FS_Subset
<1>7. Cardinality(Unheard(v)) \in Nat /\ Cardinality(Unheard(c)) \in Nat
  BY <1>6, FS_CardinalityType
<1>8. QED BY <1>4, <1>6, <1>7

\* The user types one.
LEMMA AskCount ==
    ASSUME NEW c \in [Hosts -> Seq(CommandSet)], IsFiniteSet(Unheard(c)),
           NEW h \in Hosts, NEW m \in CommandSet, NEW v, v = [c EXCEPT ![h] = Append(c[h], m)]
    PROVE  /\ IsFiniteSet(Unheard(v)) /\ Cardinality(Unheard(v)) <= Cardinality(Unheard(c)) + 1
           /\ Cardinality(Unheard(v)) \in Nat /\ Cardinality(Unheard(c)) \in Nat
<1>. DEFINE new == <<h, Len(c[h]) + 1>>
<1>1. c[h] \in Seq(CommandSet) /\ Len(c[h]) \in Nat /\ DOMAIN c[h] = 1 .. Len(c[h])
      /\ DOMAIN Append(c[h], m) = 1 .. Len(c[h]) + 1
  BY AppendProperties
<1>2. ASSUME NEW x \in Unheard(v) PROVE x \in Unheard(c) \/ x = new
  <2>1. PICK k \in Hosts : \E i \in DOMAIN v[k] : x = <<k, i>>
    BY InUnheard
  <2>2. PICK i \in DOMAIN v[k] : x = <<k, i>>
    BY <2>1
  <2>3. i \in DOMAIN c[k] \/ (k = h /\ i = Len(c[h]) + 1)
    BY <1>1, <2>2
  <2>4. QED BY <2>2, <2>3, InUnheard
<1>. HIDE DEF new
<1>3. Unheard(v) \subseteq With(Unheard(c), new, 1)
  BY <1>2 DEF With
<1>4. QED BY <1>3, Larger

-----------------------------------------------------------------------------
(* The steps of the processes.                                             *)

PingKept ==
    /\ PipesOK(wire') /\ QueuesOK(jobs') /\ Counted(wire', jobs', cmd', issued')

\* The parts of the invariant.
LEMMA PingParts ==
    ASSUME PingInv
    PROVE  /\ wire \in [Wires -> Seq(Chunk)] /\ jobs \in [Hosts -> Seq(JobSet)]
           /\ cmd \in [Hosts -> Seq(CommandSet)] /\ issued \in Nat
           /\ PipesOK(wire) /\ QueuesOK(jobs) /\ Counted(wire, jobs, cmd, issued)
           /\ Cardinality(PingsIn(wire)) \in Nat /\ Cardinality(PingJobs(jobs)) \in Nat
           /\ Cardinality(Unheard(cmd)) \in Nat
<1>1. issued \in Nat
  BY MaxCmdsAssumption DEF PingInv, TypeInv, ManagerTypeOK
<1>2. /\ wire \in [Wires -> Seq(Chunk)] /\ jobs \in [Hosts -> Seq(JobSet)]
      /\ cmd \in [Hosts -> Seq(CommandSet)]
  BY DEF PingInv, TypeInv, WireTypeOK, HostOK, JobsOK, ManPortTypeOK
<1>3. PipesOK(wire) /\ QueuesOK(jobs) /\ Counted(wire, jobs, cmd, issued)
  BY DEF PingInv
<1>4. QED BY <1>1, <1>2, <1>3, FS_CardinalityType DEF Counted

\* A step that touches nothing that is counted.
LEMMA PingStutter ==
    ASSUME PingInv, UNCHANGED <<wire, jobs, cmd, issued>>
    PROVE  PingKept
BY PingParts DEF PingKept

\* A command that is heard may become one ping.
LEMMA HearsJobs ==
    ASSUME PingInv, NEW h \in Hosts, cmd[h] # << >>, Hear(h), wire' = wire, issued' = issued,
           NEW more \in Seq(JobSet), Add(h, more),
           \A i \in DOMAIN more : PingJobOK(more[i]) /\ (LiveJob(more[i]) => i = 1)
    PROVE  PingKept
<1>1. /\ jobs \in [Hosts -> Seq(JobSet)] /\ cmd \in [Hosts -> Seq(CommandSet)] /\ issued \in Nat
      /\ PipesOK(wire) /\ QueuesOK(jobs) /\ Counted(wire, jobs, cmd, issued)
      /\ Cardinality(PingsIn(wire)) \in Nat
  BY PingParts
<1>2. /\ IsFiniteSet(Unheard(cmd'))
      /\ Cardinality(Unheard(cmd')) + 1 <= Cardinality(Unheard(cmd))
      /\ Cardinality(Unheard(cmd')) \in Nat /\ Cardinality(Unheard(cmd)) \in Nat
  BY <1>1, HearCount DEF Hear, Counted
<1>3. jobs' = [jobs EXCEPT ![h] = jobs[h] \o more]
  BY DEF Add
<1>4. /\ QueuesOK(jobs') /\ IsFiniteSet(PingJobs(jobs'))
      /\ Cardinality(PingJobs(jobs')) <= Cardinality(PingJobs(jobs)) + 1
      /\ Cardinality(PingJobs(jobs')) \in Nat /\ Cardinality(PingJobs(jobs)) \in Nat
  BY <1>1, <1>3, MoreCount DEF Counted
<1>5. QED BY <1>1, <1>2, <1>4 DEF PingKept, Counted

\* The commands of the manager (host.c:348-430).
LEMMA CommandPings ==
    ASSUME PingInv, NEW h \in Hosts, HostCommand(h), issued' = issued
    PROVE  PingKept
<1>1. CASE HostNoCommand(h)
  BY <1>1, PingStutter DEF HostNoCommand, manPortVars
<1>2. ASSUME NEW op, AtCommand(h, op)
      PROVE  cmd[h] # << >> /\ Hear(h) /\ Heard(cmd[h]) \in CommandSet
  BY <1>2, HeardType DEF AtCommand, PingInv, TypeInv
<1>3. CASE HostState(h) \/ HostSetDir(h)
  <2>1. cmd[h] # << >> /\ Hear(h) /\ wire' = wire /\ jobs' = jobs
    BY <1>2, <1>3 DEF HostState, HostSetDir
  <2>2. jobs \in [Hosts -> Seq(JobSet)]
    BY PingParts
  <2>3. Add(h, << >>)
    BY <2>1, <2>2 DEF Add
  <2>4. << >> \in Seq(JobSet) /\ DOMAIN << >> = {}
    BY EmptySeq
  <2>5. QED BY <2>1, <2>3, <2>4, HearsJobs
<1>4. CASE HostPing(h)
  <2>. DEFINE p == Packet(h, Heard(cmd[h]).dst, "PING_REQ", << >>)
              more == <<SendAll(p), PingWait(PING_TIMER)>>
  <2>1. cmd[h] # << >> /\ Hear(h) /\ wire' = wire /\ Add(h, more)
        /\ Heard(cmd[h]).dst \in Int
    BY <1>2, <1>4 DEF HostPing, CommandSet
  <2>2. p \in {q \in PacketSet : q.src = Char(h)} /\ p.body = << >>
    BY <2>1, PacketType, EmptySeq DEF PacketTypes, Packet
  <2>. HIDE DEF p
  <2>3. SendAll(p) \in JobSet /\ PingWait(PING_TIMER) \in JobSet
    BY <2>2, JobsMade, HostAssumption DEF OwnSends, JobsOf
  <2>4. PingJobOK(SendAll(p)) /\ PingJobOK(PingWait(PING_TIMER))
        /\ ~LiveJob(PingWait(PING_TIMER))
    BY <2>2 DEF PingJobOK, LiveJob, SendAll, PingWait
  <2>5. more \in Seq(JobSet)
        /\ \A i \in DOMAIN more : PingJobOK(more[i]) /\ (LiveJob(more[i]) => i = 1)
    BY <2>3, <2>4
  <2>6. QED BY <2>1, <2>5, HearsJobs
<1>5. CASE HostUpload(h) \/ HostDownload(h)
  <2>. DEFINE c == Heard(cmd[h])
              send == SendAll(Packet(h, c.dst, "DOWNLOAD_REQ", c.name))
  <2>1. cmd[h] # << >> /\ Hear(h) /\ wire' = wire /\ c.dst \in Int /\ c.name \in Names
        /\ (Add(h, <<UploadSend(c.dst, c.name)>>) \/ Add(h, <<send>>))
    BY <1>2, <1>5 DEF HostUpload, HostDownload, CommandSet
  <2>. HIDE DEF c
  <2>2. UploadSend(c.dst, c.name) \in JobSet
    BY <2>1, JobsMade DEF JobsOf
  <2>3. Packet(h, c.dst, "DOWNLOAD_REQ", c.name) \in {q \in PacketSet : q.src = Char(h)}
    BY <2>1, PacketType DEF PacketTypes, Names
  <2>4. send \in JobSet
    BY <2>3, JobsMade DEF OwnSends, JobsOf
  <2>5. ~LiveJob(UploadSend(c.dst, c.name)) /\ PingJobOK(UploadSend(c.dst, c.name))
    BY DEF LiveJob, PingJobOK, UploadSend
  <2>6. ~LiveJob(send) /\ PingJobOK(send)
    BY DEF LiveJob, PingJobOK, SendAll, Packet, PingTypes
  <2>. HIDE DEF send
  <2>7. PICK j \in JobSet : Add(h, <<j>>) /\ PingJobOK(j) /\ ~LiveJob(j)
    BY <2>1, <2>2, <2>4, <2>5, <2>6
  <2>8. <<j>> \in Seq(JobSet)
        /\ \A i \in DOMAIN <<j>> : PingJobOK(<<j>>[i]) /\ (LiveJob(<<j>>[i]) => i = 1)
    BY <2>7
  <2>9. QED BY <2>1, <2>7, <2>8, HearsJobs
<1>6. QED BY <1>1, <1>3, <1>4, <1>5 DEF HostCommand

\* A packet that is received may become one job, a ping only if it is one.
LEMMA ReceivesJobs ==
    ASSUME PingInv, NoPingNoise \/ Uncut, NEW h \in Hosts, NEW p, Receives(h, p),
           cmd' = cmd, issued' = issued, NEW more \in Seq(JobSet), Add(h, more),
           \A i \in DOMAIN more : /\ PingJobOK(more[i])
                                  /\ LiveJob(more[i]) => i = 1 /\ LivePing(p, Link(h))
    PROVE  PingKept
<1>. DEFINE e == Link(h)
            d == Bit(LivePing(p, e))
<1>1. /\ wire \in [Wires -> Seq(Chunk)] /\ jobs \in [Hosts -> Seq(JobSet)] /\ issued \in Nat
      /\ PipesOK(wire) /\ QueuesOK(jobs) /\ Counted(wire, jobs, cmd, issued)
      /\ Cardinality(Unheard(cmd)) \in Nat
  BY PingParts
<1>2. e \in Wires
  <2>1. Ports[h][phase[h]] \in Neighbours(h)
    BY DEF Receives, AtPort, Neighbours, Range
  <2>2. QED BY <2>1, NeighbourWire DEF Link, Nodes
<1>3. p \in Arrivals(wire[e]) /\ wire' = ReadFrom(wire, e) /\ wire[e] # << >>
  BY DEF Receives, Arrivals
<1>4. NoPingNoise \/ wire[e][1].end = Size(wire[e][1].pkt)
  BY <1>2, <1>3 DEF Uncut
<1>. HIDE DEF e
<1>5. /\ PipesOK(wire') /\ IsFiniteSet(PingsIn(wire'))
      /\ Cardinality(PingsIn(wire')) + d <= Cardinality(PingsIn(wire))
      /\ Cardinality(PingsIn(wire')) \in Nat /\ Cardinality(PingsIn(wire)) \in Nat
  BY <1>1, <1>2, <1>3, <1>4, ReadCount DEF Counted
<1>6. d \in {0, 1} /\ (LivePing(p, e) => d = 1)
  BY DEF Bit
<1>. HIDE DEF d
<1>7. \A i \in DOMAIN more : PingJobOK(more[i]) /\ (LiveJob(more[i]) => i = 1 /\ d = 1)
  BY <1>6 DEF e
<1>8. jobs' = [jobs EXCEPT ![h] = jobs[h] \o more]
  BY DEF Add
<1>9. /\ QueuesOK(jobs') /\ IsFiniteSet(PingJobs(jobs'))
      /\ Cardinality(PingJobs(jobs')) <= Cardinality(PingJobs(jobs)) + d
      /\ Cardinality(PingJobs(jobs')) \in Nat /\ Cardinality(PingJobs(jobs)) \in Nat
  BY <1>1, <1>6, <1>7, <1>8, MoreCount DEF Counted
<1>10. QED BY <1>1, <1>5, <1>6, <1>9 DEF PingKept, Counted

\* The packets that a host receives (host.c:433-520).
LEMMA PortPings ==
    ASSUME PingInv, NoPingNoise \/ Uncut, NEW h \in Hosts, HostPort(h), issued' = issued
    PROVE  PingKept
<1>0. jobs \in [Hosts -> Seq(JobSet)] /\ wire \in [Wires -> Seq(Chunk)]
  BY PingParts
<1>1. CASE HostNoPacket(h)
  BY <1>1, PingStutter DEF HostNoPacket, manPortVars
<1>2. ASSUME NEW p, Receives(h, p) PROVE p \in PacketSet /\ Link(h)[2] = h
  <2>1. p \in PacketSet
    BY <1>2, ReceivesType DEF PingInv, TypeInv
  <2>2. QED BY <2>1 DEF Link
<1>3. CASE HostIgnore(h) \/ HostPingReply(h)
  <2>1. PICK p : Receives(h, p)
    BY <1>3 DEF HostIgnore, HostPingReply
  <2>2. cmd' = cmd /\ jobs' = jobs
    BY <1>3 DEF HostIgnore, HostPingReply, manPortVars
  <2>3. Add(h, << >>)
    BY <1>0, <2>2 DEF Add
  <2>4. << >> \in Seq(JobSet) /\ DOMAIN << >> = {}
    BY EmptySeq
  <2>5. QED BY <2>1, <2>2, <2>3, <2>4, ReceivesJobs
<1>4. CASE HostQueue(h)
  <2>1. PICK p : /\ p.dst = h /\ p.type \in DOMAIN JobOfType /\ Receives(h, p)
                 /\ Add(h, <<[type |-> JobOfType[p.type], pkt |-> p]>>)
    BY <1>4 DEF HostQueue
  <2>. DEFINE j == [type |-> JobOfType[p.type], pkt |-> p]
  <2>2. cmd' = cmd
    BY <1>4 DEF HostQueue, manPortVars
  <2>3. j \in JobSet
    BY <1>2, <2>1, JobsMade DEF JobsOf
  <2>4. j.type \in {"PING_SEND_REPLY", "RECV_START", "RECV_IN", "RECV_END"}
        /\ (j.type = "PING_SEND_REPLY" => p.type = "PING_REQ")
    BY <2>1 DEF JobOfType
  <2>5. PingJobOK(j)
    BY <2>4 DEF PingJobOK, PingTypes
  <2>6. LiveJob(j) => LivePing(p, Link(h))
    BY <1>2, <2>1, <2>4 DEF LiveJob, LivePing, PingTypes
  <2>. HIDE DEF j
  <2>7. <<j>> \in Seq(JobSet)
        /\ \A i \in DOMAIN <<j>> : PingJobOK(<<j>>[i])
                                   /\ (LiveJob(<<j>>[i]) => i = 1 /\ LivePing(p, Link(h)))
    BY <2>3, <2>5, <2>6
  <2>8. Receives(h, p) /\ Add(h, <<j>>)
    BY <2>1 DEF j
  <2>9. QED BY <2>2, <2>7, <2>8, ReceivesJobs
<1>5. CASE HostDownloadRequest(h)
  <2>1. PICK p : Receives(h, p) /\ Add(h, <<UploadSend(p.src, p.body)>>)
    BY <1>5 DEF HostDownloadRequest
  <2>. DEFINE j == UploadSend(p.src, p.body)
  <2>2. cmd' = cmd
    BY <1>5 DEF HostDownloadRequest, manPortVars
  <2>3. j \in JobSet
    BY <1>2, <2>1, PacketFields, JobsMade DEF JobsOf
  <2>4. PingJobOK(j) /\ ~LiveJob(j)
    BY DEF PingJobOK, LiveJob, UploadSend
  <2>. HIDE DEF j
  <2>5. <<j>> \in Seq(JobSet)
        /\ \A i \in DOMAIN <<j>> : PingJobOK(<<j>>[i])
                                   /\ (LiveJob(<<j>>[i]) => i = 1 /\ LivePing(p, Link(h)))
    BY <2>3, <2>4
  <2>6. Receives(h, p) /\ Add(h, <<j>>)
    BY <2>1 DEF j
  <2>7. QED BY <2>2, <2>5, <2>6, ReceivesJobs
<1>6. QED BY <1>1, <1>3, <1>4, <1>5 DEF HostPort

\* A job that is done may become one ping only if it was one.
LEMMA DoneJobs ==
    ASSUME PingInv, NEW h \in Hosts, jobs[h] # << >>, NEW more \in Seq(JobSet), Done(h, more),
           \A i \in DOMAIN more : /\ PingJobOK(more[i])
                                  /\ LiveJob(more[i]) => i = 1 /\ LiveJob(Job(h))
    PROVE  /\ QueuesOK(jobs') /\ IsFiniteSet(PingJobs(jobs'))
           /\ Cardinality(PingJobs(jobs')) <= Cardinality(PingJobs(jobs))
           /\ (more = << >> => Cardinality(PingJobs(jobs')) + Bit(LiveJob(Job(h)))
                                 <= Cardinality(PingJobs(jobs)))
           /\ Cardinality(PingJobs(jobs')) \in Nat /\ Cardinality(PingJobs(jobs)) \in Nat
<1>. DEFINE v == [jobs EXCEPT ![h] = Tail(jobs[h])]
            d == Bit(LiveJob(Job(h)))
<1>1. jobs \in [Hosts -> Seq(JobSet)] /\ QueuesOK(jobs) /\ IsFiniteSet(PingJobs(jobs))
  BY PingParts DEF Counted
<1>2. PICK u : u = v
  OBVIOUS
<1>3. /\ u \in [Hosts -> Seq(JobSet)] /\ QueuesOK(u) /\ IsFiniteSet(PingJobs(u))
      /\ Cardinality(PingJobs(u)) + d <= Cardinality(PingJobs(jobs))
      /\ Cardinality(PingJobs(u)) \in Nat /\ Cardinality(PingJobs(jobs)) \in Nat
  BY <1>1, <1>2, TailCount DEF Job
<1>4. jobs' = [u EXCEPT ![h] = u[h] \o more]
  BY <1>1, <1>2 DEF Done
<1>5. d \in {0, 1} /\ (LiveJob(Job(h)) => d = 1)
  BY DEF Bit
<1>. HIDE DEF v, d
<1>6. \A i \in DOMAIN more : PingJobOK(more[i]) /\ (LiveJob(more[i]) => i = 1 /\ d = 1)
  BY <1>5
<1>7. /\ QueuesOK(jobs') /\ IsFiniteSet(PingJobs(jobs'))
      /\ Cardinality(PingJobs(jobs')) <= Cardinality(PingJobs(u)) + d
      /\ Cardinality(PingJobs(jobs')) \in Nat
  BY <1>3, <1>4, <1>5, <1>6, MoreCount
<1>8. more = << >> => Cardinality(PingJobs(jobs')) <= Cardinality(PingJobs(u))
  <2>1. SUFFICES ASSUME more = << >> PROVE jobs' = u
    BY <1>3
  <2>2. u[h] \o << >> = u[h]
    BY <1>3
  <2>3. QED BY <1>3, <1>4, <2>1, <2>2
<1>9. QED BY <1>3, <1>5, <1>7, <1>8 DEF d

\* A job that sends nothing at once.
LEMMA QuietJobs ==
    ASSUME PingInv, NEW h \in Hosts, jobs[h] # << >>, NEW more \in Seq(JobSet), Done(h, more),
           wire' = wire, cmd' = cmd, issued' = issued,
           \A i \in DOMAIN more : /\ PingJobOK(more[i])
                                  /\ LiveJob(more[i]) => i = 1 /\ LiveJob(Job(h))
    PROVE  PingKept
<1>1. /\ issued \in Nat /\ PipesOK(wire) /\ Counted(wire, jobs, cmd, issued)
      /\ Cardinality(PingsIn(wire)) \in Nat /\ Cardinality(Unheard(cmd)) \in Nat
  BY PingParts
<1>2. /\ QueuesOK(jobs') /\ IsFiniteSet(PingJobs(jobs'))
      /\ Cardinality(PingJobs(jobs')) <= Cardinality(PingJobs(jobs))
      /\ Cardinality(PingJobs(jobs')) \in Nat /\ Cardinality(PingJobs(jobs)) \in Nat
  BY DoneJobs
<1>3. QED BY <1>1, <1>2 DEF PingKept, Counted

\* A packet goes from the queue to the one port of its host.
LEMMA SendPings ==
    ASSUME PingInv, NEW hub, Star(hub), NEW h \in Hosts, JobSendAll(h), issued' = issued
    PROVE  PingKept
<1>. DEFINE p == Job(h).pkt
            d == Bit(LiveJob(Job(h)))
<1>1. /\ issued \in Nat /\ PipesOK(wire) /\ Counted(wire, jobs, cmd, issued)
      /\ jobs \in [Hosts -> Seq(JobSet)] /\ QueuesOK(jobs)
      /\ wire \in [Wires -> Seq(Chunk)] /\ Cardinality(Unheard(cmd)) \in Nat
  BY PingParts
<1>2. /\ jobs[h] # << >> /\ Job(h).type = "SEND_ALL" /\ Done(h, << >>)
      /\ wire' = SendTo(wire, h, Neighbours(h), p) /\ cmd' = cmd
  BY DEF JobSendAll, AtJob, Runs, manPortVars
<1>3. 1 \in DOMAIN jobs[h] /\ Job(h) = jobs[h][1] /\ Job(h) \in JobSet
  BY <1>1, <1>2, EmptySeq DEF Job
<1>4. p \in PacketSet
  BY <1>2, <1>3, JobFields DEF PacketJobs
<1>5. Bare(p) /\ (p.type \in PingTypes => LiveJob(Job(h)))
  BY <1>1, <1>2, <1>3 DEF QueuesOK, PingJobOK, LiveJob, Bare
<1>6. OneWay(p, h, Neighbours(h), hub)
  BY DEF Star, OneWay
<1>7. /\ QueuesOK(jobs') /\ IsFiniteSet(PingJobs(jobs'))
      /\ Cardinality(PingJobs(jobs')) + d <= Cardinality(PingJobs(jobs))
      /\ Cardinality(PingJobs(jobs')) \in Nat /\ Cardinality(PingJobs(jobs)) \in Nat
  <2>1. << >> \in Seq(JobSet) /\ DOMAIN << >> = {}
    BY EmptySeq
  <2>2. QED BY <1>2, <2>1, DoneJobs
<1>8. Bit(p.type \in PingTypes) \in Nat /\ Bit(p.type \in PingTypes) <= d /\ d \in Nat
  BY <1>5 DEF Bit
<1>. HIDE DEF p, d
<1>9. /\ PipesOK(wire') /\ IsFiniteSet(PingsIn(wire'))
      /\ Cardinality(PingsIn(wire')) <= Cardinality(PingsIn(wire)) + Bit(p.type \in PingTypes)
      /\ Cardinality(PingsIn(wire')) \in Nat /\ Cardinality(PingsIn(wire)) \in Nat
  BY <1>1, <1>2, <1>4, <1>5, <1>6, WriteCount DEF Counted
<1>10. QED BY <1>1, <1>2, <1>7, <1>8, <1>9 DEF PingKept, Counted

\* The jobs of a host (host.c:522-790).
LEMMA JobPings ==
    ASSUME PingInv, NEW hub, Star(hub), NEW h \in Hosts, HostJob(h), issued' = issued
    PROVE  PingKept
<1>1. jobs \in [Hosts -> Seq(JobSet)] /\ << >> \in Seq(JobSet) /\ DOMAIN << >> = {}
  BY PingParts, EmptySeq
<1>2. jobs[h] # << >> => Job(h) \in JobSet
  BY <1>1 DEF Job
<1>3. CASE HostNoJob(h) \/ JobFileWritten(h)
  BY <1>3, PingStutter DEF HostNoJob, JobFileWritten, manPortVars
<1>4. CASE JobSendAll(h)
  BY <1>4, SendPings
<1>5. CASE JobPingSendReply(h)
  <2>1. /\ jobs[h] # << >> /\ Job(h).type = "PING_SEND_REPLY"
        /\ Done(h, <<SendAll(Packet(h, Job(h).pkt.src, "PING_REPLY", << >>))>>)
        /\ wire' = wire /\ cmd' = cmd
    BY <1>5 DEF JobPingSendReply, AtJob, Runs, manPortVars
  <2>. DEFINE q == Packet(h, Job(h).pkt.src, "PING_REPLY", << >>)
              j == SendAll(q)
  <2>2. Job(h).pkt.src \in Int
    BY <1>2, <2>1, JobFields, PacketFields DEF PacketJobs
  <2>3. q \in {r \in PacketSet : r.src = Char(h)} /\ q.body = << >>
    BY <2>2, PacketType, EmptySeq DEF PacketTypes, Packet
  <2>. HIDE DEF q
  <2>4. j \in JobSet /\ PingJobOK(j)
    BY <2>3, JobsMade DEF OwnSends, JobsOf, PingJobOK, SendAll
  <2>5. LiveJob(Job(h))
    <3>1. 1 \in DOMAIN jobs[h] /\ Job(h) = jobs[h][1]
      BY <1>1, <2>1, EmptySeq DEF Job
    <3>2. PingJobOK(Job(h))
      BY <3>1, PingParts DEF QueuesOK
    <3>3. QED BY <2>1, <3>2 DEF PingJobOK, LiveJob
  <2>. HIDE DEF j
  <2>6. <<j>> \in Seq(JobSet)
        /\ \A i \in DOMAIN <<j>> : PingJobOK(<<j>>[i])
                                   /\ (LiveJob(<<j>>[i]) => i = 1 /\ LiveJob(Job(h)))
    BY <2>4, <2>5
  <2>7. Done(h, <<j>>)
    BY <2>1 DEF j, q
  <2>8. QED BY <2>1, <2>6, <2>7, QuietJobs
<1>6. CASE JobPingWait(h)
  <2>. DEFINE j == PingWait(Job(h).timer - 1)
  <2>1. /\ jobs[h] # << >> /\ Job(h).type = "PING_WAIT" /\ Job(h).timer > 1
        /\ Done(h, <<j>>) /\ wire' = wire /\ cmd' = cmd
    BY <1>6 DEF JobPingWait, AtJob, Runs, manPortVars
  <2>2. Job(h).timer - 1 \in Nat
    BY <1>2, <2>1, JobFields
  <2>3. j \in JobSet
    BY <2>2, JobsMade DEF JobsOf
  <2>4. PingJobOK(j) /\ ~LiveJob(j)
    BY DEF PingJobOK, LiveJob, PingWait
  <2>. HIDE DEF j
  <2>5. <<j>> \in Seq(JobSet)
        /\ \A i \in DOMAIN <<j>> : PingJobOK(<<j>>[i])
                                   /\ (LiveJob(<<j>>[i]) => i = 1 /\ LiveJob(Job(h)))
    BY <2>3, <2>4
  <2>6. QED BY <2>1, <2>5, QuietJobs
<1>7. CASE JobUploadSend(h)
  <2>. DEFINE file == <<dir[h], Job(h).name>>
              more == IF file \in DOMAIN disk
                      THEN UploadJobs(h, Job(h).dst, Job(h).name, disk[file])
                      ELSE << >>
  <2>1. /\ jobs[h] # << >> /\ Job(h).type = "UPLOAD_SEND" /\ Done(h, more)
        /\ wire' = wire /\ cmd' = cmd
    BY <1>7 DEF JobUploadSend, AtJob, Runs, manPortVars
  <2>2. Job(h).dst \in Int /\ Job(h).name \in Names
    BY <1>2, <2>1, JobFields
  <2>3. more \in Seq(FileSends(h))
    BY <2>2, UploadJobsType, EmptySeq DEF PingInv, TypeInv, HostOK, DiskOK
  <2>. HIDE DEF more
  <2>4. \A j \in FileSends(h) : j \in JobSet /\ PingJobOK(j) /\ ~LiveJob(j)
    BY JobsMade DEF FileSends, JobsOf, PingJobOK, LiveJob, PingTypes
  <2>5. more \in Seq(JobSet)
    BY <2>3, <2>4, SeqMonotonic
  <2>6. ASSUME NEW i \in DOMAIN more PROVE PingJobOK(more[i]) /\ ~LiveJob(more[i])
    BY <2>3, <2>4
  <2>7. QED BY <2>1, <2>5, <2>6, QuietJobs
<1>8. CASE \/ JobPingAcked(h) \/ JobPingTimeOut(h) \/ JobRecvStart(h)
           \/ JobRecvIn(h) \/ JobRecvEndNoFile(h) \/ JobRecvEnd(h)
  <2>1. jobs[h] # << >> /\ Done(h, << >>) /\ wire' = wire /\ cmd' = cmd
    BY <1>8 DEF JobPingAcked, JobPingTimeOut, JobRecvStart, JobRecvIn, JobRecvEndNoFile,
                JobRecvEnd, AtJob, Runs, manPortVars
  <2>2. QED BY <1>1, <2>1, QuietJobs
<1>9. QED BY <1>3, <1>4, <1>5, <1>6, <1>7, <1>8 DEF HostJob

\* The switch reads a packet and sends it on, but to the host it is for only once.
LEMMA SwitchPings ==
    ASSUME PingInv, NoPingNoise \/ Uncut, NEW hub, Star(hub), NEW s \in Switches,
           SwitchStep(s), UNCHANGED <<jobs, cmd, issued>>
    PROVE  PingKept
<1>. DEFINE e == <<From(s), s>>
<1>1. /\ issued \in Nat /\ PipesOK(wire) /\ QueuesOK(jobs) /\ Counted(wire, jobs, cmd, issued)
      /\ wire \in [Wires -> Seq(Chunk)] /\ Cardinality(Unheard(cmd)) \in Nat
      /\ Cardinality(PingJobs(jobs)) \in Nat
  BY PingParts
<1>2. s = hub /\ Neighbours(s) \subseteq Hosts /\ Hosts \cap Switches = {}
  BY NodeAssumption DEF Star
<1>3. e \in Wires
  BY FromIsNeighbour DEF PingInv, TypeInv
<1>4. ASSUME NEW p \in Arrivals(wire[e])
      PROVE  /\ PipesOK(ReadFrom(wire, e)) /\ IsFiniteSet(PingsIn(ReadFrom(wire, e)))
             /\ Cardinality(PingsIn(ReadFrom(wire, e))) + Bit(LivePing(p, e))
                  <= Cardinality(PingsIn(wire))
             /\ Cardinality(PingsIn(ReadFrom(wire, e))) \in Nat
             /\ Cardinality(PingsIn(wire)) \in Nat
             /\ p.type \in PingTypes => p.body = << >>
             /\ Bit(LivePing(p, e)) = Bit(p.type \in PingTypes) /\ Bit(LivePing(p, e)) \in Nat
             /\ p \in PacketSet /\ ReadFrom(wire, e) \in [Wires -> Seq(Chunk)]
  <2>1. wire[e] # << >>
    BY DEF Arrivals
  <2>2. NoPingNoise \/ wire[e][1].end = Size(wire[e][1].pkt)
    BY <1>3, <2>1 DEF Uncut
  <2>3. LivePing(p, e) <=> p.type \in PingTypes
    BY DEF LivePing
  <2>. HIDE DEF e
  <2>4. p \in PacketSet /\ ReadFrom(wire, e) \in [Wires -> Seq(Chunk)]
    BY <1>1, <1>3, ArrivalsPackets, ReadFromType
  <2>5. /\ PipesOK(ReadFrom(wire, e)) /\ IsFiniteSet(PingsIn(ReadFrom(wire, e)))
        /\ Cardinality(PingsIn(ReadFrom(wire, e))) + Bit(LivePing(p, e))
             <= Cardinality(PingsIn(wire))
        /\ Cardinality(PingsIn(ReadFrom(wire, e))) \in Nat
        /\ Cardinality(PingsIn(wire)) \in Nat
        /\ p.type \in PingTypes => p.body = << >>
    BY <1>1, <1>3, <2>1, <2>2, ReadCount DEF Counted
  <2>6. Bit(LivePing(p, e)) = Bit(p.type \in PingTypes) /\ Bit(LivePing(p, e)) \in Nat
    BY <2>3 DEF Bit
  <2>7. QED BY <2>4, <2>5, <2>6
<1>5. CASE SwitchIdle(s)
  BY <1>5, PingStutter DEF SwitchIdle
<1>6. CASE SwitchCrash(s)
  <2>1. PICK p \in Arrivals(wire[e]) : TRUE
    BY <1>6 DEF SwitchCrash
  <2>2. wire' = ReadFrom(wire, e)
    BY <1>6 DEF SwitchCrash
  <2>. HIDE DEF e
  <2>3. /\ PipesOK(wire') /\ IsFiniteSet(PingsIn(wire'))
        /\ Cardinality(PingsIn(wire')) <= Cardinality(PingsIn(wire))
        /\ Cardinality(PingsIn(wire')) \in Nat /\ Cardinality(PingsIn(wire)) \in Nat
    BY <1>4, <2>1, <2>2
  <2>4. QED BY <1>1, <2>3 DEF PingKept, Counted
<1>7. CASE SwitchRelay(s)
  <2>1. PICK p \in Arrivals(wire[e]) :
          \E dests : wire' = SendTo(ReadFrom(wire, e), s, dests, p)
    BY <1>7 DEF SwitchRelay
  <2>2. PICK dests : wire' = SendTo(ReadFrom(wire, e), s, dests, p)
    BY <2>1
  <2>3. OneWay(p, s, dests, p.dst)
    <3>1. \A f \in Wires : f[1] = s => f[2] \in Hosts
      BY <1>2 DEF Wires
    <3>2. QED BY <1>2, <3>1 DEF LivePing, OneWay
  <2>. HIDE DEF e
  <2>4. PICK v : v = ReadFrom(wire, e)
    OBVIOUS
  <2>5. /\ PipesOK(v) /\ IsFiniteSet(PingsIn(v))
        /\ Cardinality(PingsIn(v)) + Bit(p.type \in PingTypes) <= Cardinality(PingsIn(wire))
        /\ Cardinality(PingsIn(wire)) \in Nat /\ Bit(p.type \in PingTypes) \in Nat
        /\ Bare(p) /\ p \in PacketSet /\ v \in [Wires -> Seq(Chunk)]
    BY <1>4, <2>1, <2>4 DEF Bare
  <2>6. wire' = SendTo(v, s, dests, p)
    BY <2>2, <2>4
  <2>7. /\ PipesOK(wire') /\ IsFiniteSet(PingsIn(wire'))
        /\ Cardinality(PingsIn(wire')) <= Cardinality(PingsIn(v)) + Bit(p.type \in PingTypes)
        /\ Cardinality(PingsIn(wire')) \in Nat /\ Cardinality(PingsIn(v)) \in Nat
    BY <2>3, <2>5, <2>6, WriteCount
  <2>8. QED BY <1>1, <2>5, <2>7 DEF PingKept, Counted
<1>8. QED BY <1>5, <1>6, <1>7 DEF SwitchStep

\* The user.
LEMMA ManagerPings ==
    ASSUME PingInv, Manages
    PROVE  PingKept
<1>1. wire' = wire /\ jobs' = jobs
  BY DEF Manages, hostVars
<1>2. CASE Issue
  <2>1. PICK c \in UserCmds : Ask(curr, c)
    BY <1>2 DEF Issue
  <2>2. issued' = issued + 1 /\ c \in CommandSet /\ curr \in Hosts
    BY <1>2, ManPortAssumption DEF Issue, PingInv, TypeInv, ManagerTypeOK
  <2>3. /\ issued \in Nat /\ PipesOK(wire) /\ QueuesOK(jobs)
        /\ Counted(wire, jobs, cmd, issued) /\ cmd \in [Hosts -> Seq(CommandSet)]
        /\ Cardinality(PingsIn(wire)) \in Nat /\ Cardinality(PingJobs(jobs)) \in Nat
    BY PingParts
  <2>4. cmd' = [cmd EXCEPT ![curr] = Append(cmd[curr], c)]
    BY <2>1 DEF Ask
  <2>5. /\ IsFiniteSet(Unheard(cmd'))
        /\ Cardinality(Unheard(cmd')) <= Cardinality(Unheard(cmd)) + 1
        /\ Cardinality(Unheard(cmd')) \in Nat /\ Cardinality(Unheard(cmd)) \in Nat
    BY <2>2, <2>3, <2>4, AskCount DEF Counted
  <2>6. QED BY <1>1, <2>2, <2>3, <2>5 DEF PingKept, Counted
<1>3. CASE ChangeHost \/ Collect \/ Quit
  BY <1>1, <1>3, PingStutter DEF ChangeHost, Collect, Quit, manPortVars
<1>4. QED BY <1>2, <1>3 DEF Manages, ManagerStep

-----------------------------------------------------------------------------
\* At the start there is nothing to count.
LEMMA PingInit == Init => PingInv
<1>. SUFFICES ASSUME Init PROVE PingInv
  OBVIOUS
<1>1. TypeInv
  BY TypeInvInit
<1>2. /\ \A e \in Wires : wire[e] = << >>
      /\ \A h \in Hosts : jobs[h] = << >> /\ cmd[h] = << >>
      /\ issued = 0 /\ DOMAIN << >> = {}
  BY EmptySeq DEF Init, WireInit, HostInit, ManPortInit, ManagerInit
<1>3. PipesOK(wire) /\ QueuesOK(jobs)
  BY <1>2 DEF PipesOK, QueuesOK
<1>4. PingsIn(wire) = {}
  BY <1>2, InPings
<1>5. PingJobs(jobs) = {}
  BY <1>2, InJobs
<1>6. Unheard(cmd) = {}
  BY <1>2, InUnheard
<1>7. Counted(wire, jobs, cmd, issued)
  BY <1>2, <1>4, <1>5, <1>6, FS_EmptySet DEF Counted
<1>8. QED BY <1>1, <1>3, <1>7 DEF PingInv

\* Every step keeps the count, unless a tail is taken for a ping.
LEMMA PingStep ==
    ASSUME NEW hub, Star(hub)
    PROVE  PingInv /\ (NoPingNoise \/ Uncut) /\ [Next]_vars => PingInv'
<1>. SUFFICES ASSUME PingInv, NoPingNoise \/ Uncut, [Next]_vars PROVE PingInv'
  OBVIOUS
<1>1. ASSUME Manages PROVE PingKept
  BY <1>1, ManagerPings
<1>2. ASSUME NEW h \in Hosts, HostRuns(h) PROVE PingKept
  <2>1. HostStep(h) /\ issued' = issued
    BY <1>2 DEF HostRuns, managerVars
  <2>2. QED BY <2>1, CommandPings, PortPings, JobPings DEF HostStep
<1>3. ASSUME NEW s \in Switches, SwitchRuns(s) PROVE PingKept
  <2>1. SwitchStep(s) /\ UNCHANGED <<jobs, cmd, issued>>
    BY <1>3 DEF SwitchRuns, manPortVars, hostVars, managerVars
  <2>2. QED BY <2>1, SwitchPings
<1>4. ASSUME UNCHANGED vars PROVE PingKept
  BY <1>4, PingStutter DEF vars, manPortVars, hostVars, managerVars
<1>5. PingKept
  BY <1>1, <1>2, <1>3, <1>4 DEF Next, Terminated
<1>6. TypeInv'
  BY TypeInvStep DEF PingInv
<1>7. QED BY <1>5, <1>6 DEF PingKept, PingInv

\* What is counted is what NoDuplicatePings counts, and the commands.
LEMMA PingInvImplies == PingInv => NoDuplicatePings
<1>. SUFFICES ASSUME PingInv PROVE NoDuplicatePings
  OBVIOUS
<1>1. LivePackets = PingsIn(wire)
  BY DEF LivePackets, PingsIn, LivePing
<1>2. LiveJobs = PingJobs(jobs)
  BY DEF LiveJobs, PingJobs, LiveJob
<1>3. /\ Cardinality(PingsIn(wire)) \in Nat /\ Cardinality(PingJobs(jobs)) \in Nat
      /\ Cardinality(Unheard(cmd)) \in Nat /\ issued \in Nat
      /\ Counted(wire, jobs, cmd, issued)
  BY PingParts
<1>4. QED BY <1>1, <1>2, <1>3 DEF NoDuplicatePings, Counted

\* With one switch, flooding and learning between two floods never make two live
\* copies of a ping or of its reply (switch.c:217-256), for any number of hosts,
\* any commands and files and any losses, as long as no tail of a packet that was
\* cut is taken for a ping (packet.c:88-118).
THEOREM OneCopy ==
    ASSUME NEW hub, Star(hub)
    PROVE  Spec /\ [](NoPingNoise \/ Uncut) => []NoDuplicatePings
<1>. QED  BY PingInit, PingStep, PingInvImplies, PTL DEF Spec

-----------------------------------------------------------------------------
(* A user who moves no files: then every packet is a ping, all packets     *)
(* have the same size, and no read ends in the middle of one.              *)

\* The commands that move no file, and a user who types only those.
QuietCommands == {c \in CommandSet : c.op \in {"s", "m", "p"}}
NoTransfers == UserCmds \subseteq QuietCommands

Pings == {p \in PacketSet : p.type \in PingTypes /\ p.body = << >>}

LEMMA PingsAreHeaders == Pings \subseteq Headers
BY DEF Pings, Headers

\* The jobs of a host that only pings and is pinged.
PingWork == [type : {"SEND_ALL"}, pkt : Pings]
            \cup [type : {"PING_SEND_REPLY"}, pkt : PacketSet]
            \cup [type : {"PING_WAIT"}, timer : Nat]

QuietInv ==
    /\ TypeInv
    /\ cmd \in [Hosts -> Seq(QuietCommands)]
    /\ jobs \in [Hosts -> Seq(PingWork)]
    /\ \A e \in Wires : Whole(wire[e], Pings)

\* The fields of a job of each type.
LEMMA WorkFields ==
    ASSUME NEW j \in PingWork
    PROVE  /\ j.type \in {"SEND_ALL", "PING_SEND_REPLY", "PING_WAIT"}
           /\ j.type = "SEND_ALL" => j.pkt \in Pings
           /\ j.type = "PING_SEND_REPLY" => j.pkt \in PacketSet
           /\ j.type = "PING_WAIT" => j.timer \in Nat
BY DEF PingWork

\* A ping that a host makes is sent as it is.
LEMMA WorkMade ==
    ASSUME NEW h \in Hosts, NEW dst \in Int, NEW type \in PingTypes
    PROVE  SendAll(Packet(h, dst, type, << >>)) \in PingWork
<1>1. Packet(h, dst, type, << >>) \in PacketSet
  BY PacketType, EmptySeq DEF PingTypes, PacketTypes
<1>2. Packet(h, dst, type, << >>) \in Pings
  BY <1>1 DEF Pings, Packet
<1>3. QED BY <1>2 DEF SendAll, PingWork

\* What a step leaves of QuietInv, but for the types.
QuietKept ==
    /\ (cmd \in [Hosts -> Seq(QuietCommands)])'
    /\ (jobs \in [Hosts -> Seq(PingWork)])'
    /\ (\A e \in Wires : Whole(wire[e], Pings))'

LEMMA QuietStutter ==
    ASSUME QuietInv, UNCHANGED <<wire, jobs, cmd>>
    PROVE  QuietKept
BY DEF QuietInv, QuietKept

\* A host that hears a command hears a quiet one.
LEMMA QuietCommand ==
    ASSUME QuietInv, NEW h \in Hosts, HostCommand(h)
    PROVE  QuietKept
<1>1. CASE HostNoCommand(h)
  BY <1>1, QuietStutter DEF HostNoCommand, manPortVars
<1>2. ASSUME NEW op, AtCommand(h, op)
      PROVE  /\ (cmd \in [Hosts -> Seq(QuietCommands)])'
             /\ op \in {"s", "m", "p"} /\ Heard(cmd[h]).dst \in Int
  <2>1. cmd[h] # << >> /\ Hear(h) /\ Heard(cmd[h]).op = op
    BY <1>2 DEF AtCommand
  <2>2. cmd[h][1] \in QuietCommands
    BY <2>1, EmptySeq DEF QuietInv
  <2>3. Heard(cmd[h]).op = cmd[h][1].op
    BY <2>2 DEF Heard, QuietCommands, CommandSet
  <2>4. Heard(cmd[h]) \in CommandSet
    BY <2>1, HeardType DEF QuietInv, TypeInv
  <2>5. (cmd \in [Hosts -> Seq(QuietCommands)])'
    BY <2>1, EmptySeq DEF Hear, QuietInv
  <2>6. QED BY <2>1, <2>2, <2>3, <2>4, <2>5 DEF QuietCommands, CommandSet
<1>3. CASE HostState(h) \/ HostSetDir(h)
  BY <1>2, <1>3 DEF HostState, HostSetDir, QuietInv, QuietKept
<1>4. CASE HostPing(h)
  <2>. DEFINE a == SendAll(Packet(h, Heard(cmd[h]).dst, "PING_REQ", << >>))
              b == PingWait(PING_TIMER)
  <2>1. /\ AtCommand(h, "p") /\ Add(h, <<a, b>>) /\ wire' = wire
    BY <1>4 DEF HostPing
  <2>2. a \in PingWork
    BY <1>2, <2>1, WorkMade DEF PingTypes
  <2>3. b \in PingWork
    BY HostAssumption DEF PingWait, PingWork
  <2>. HIDE DEF a, b
  <2>4. jobs[h] \o <<a, b>> \in Seq(PingWork)
    BY <2>2, <2>3 DEF QuietInv
  <2>5. (jobs \in [Hosts -> Seq(PingWork)])'
    BY <2>1, <2>4 DEF Add, QuietInv
  <2>6. QED BY <1>2, <2>1, <2>5 DEF QuietInv, QuietKept
<1>5. CASE HostUpload(h) \/ HostDownload(h)
  BY <1>2, <1>5 DEF HostUpload, HostDownload
<1>6. QED BY <1>1, <1>3, <1>4, <1>5 DEF HostCommand

\* A host receives pings, and answers those that are for it.
LEMMA QuietPort ==
    ASSUME QuietInv, WholeHeaders, NEW h \in Hosts, HostPort(h)
    PROVE  QuietKept
<1>1. CASE HostNoPacket(h)
  BY <1>1, QuietStutter DEF HostNoPacket, manPortVars
<1>2. ASSUME NEW p, Receives(h, p)
      PROVE  p \in Pings /\ (\A e \in Wires : Whole(wire[e], Pings))'
  <2>. DEFINE f == Link(h)
  <2>1. f \in Wires
    <3>1. Ports[h][phase[h]] \in Neighbours(h)
      BY <1>2 DEF Receives, AtPort, Neighbours, Range
    <3>2. QED BY <3>1, NeighbourWire DEF Link, Nodes
  <2>2. p \in Arrivals(wire[f]) /\ wire' = ReadFrom(wire, f) /\ wire[f] # << >>
    BY <1>2 DEF Receives, Arrivals
  <2>. HIDE DEF f
  <2>3. wire \in [Wires -> Seq(Chunk)] /\ \A e \in Wires : Whole(wire[e], Pings)
    BY DEF QuietInv, TypeInv, WireTypeOK
  <2>4. p \in Pings
    BY <2>1, <2>2, <2>3, ArrivesWhole, PingsAreHeaders
  <2>5. QED BY <2>1, <2>2, <2>3, <2>4, ReadFromWhole, PingsAreHeaders
<1>3. CASE HostIgnore(h) \/ HostPingReply(h)
  BY <1>2, <1>3 DEF HostIgnore, HostPingReply, manPortVars, QuietInv, QuietKept
<1>4. CASE HostQueue(h)
  <2>1. PICK p : /\ p.type \in DOMAIN JobOfType /\ Receives(h, p)
                 /\ Add(h, <<[type |-> JobOfType[p.type], pkt |-> p]>>)
    BY <1>4 DEF HostQueue
  <2>. DEFINE j == [type |-> JobOfType[p.type], pkt |-> p]
  <2>2. p \in PacketSet /\ p.type = "PING_REQ"
    BY <1>2, <2>1 DEF Pings, PingTypes, JobOfType
  <2>3. j \in PingWork
    BY <2>2 DEF JobOfType, PingWork
  <2>. HIDE DEF j
  <2>4. jobs[h] \o <<j>> \in Seq(PingWork)
    BY <2>3 DEF QuietInv
  <2>5. jobs' = [jobs EXCEPT ![h] = jobs[h] \o <<j>>]
    BY <2>1 DEF Add, j
  <2>6. (jobs \in [Hosts -> Seq(PingWork)])'
    BY <2>4, <2>5 DEF QuietInv
  <2>7. cmd' = cmd
    BY <1>4 DEF HostQueue, manPortVars
  <2>8. QED BY <1>2, <2>1, <2>6, <2>7 DEF QuietInv, QuietKept
<1>5. CASE HostDownloadRequest(h)
  BY <1>2, <1>5 DEF HostDownloadRequest, Pings, PingTypes
<1>6. QED BY <1>1, <1>3, <1>4, <1>5 DEF HostPort

\* The end of a job, whatever is sent.
LEMMA QuietDone ==
    ASSUME QuietInv, NEW h \in Hosts, jobs[h] # << >>, cmd' = cmd,
           (\A e \in Wires : Whole(wire[e], Pings))',
           NEW more \in Seq(PingWork), Done(h, more)
    PROVE  QuietKept
<1>1. Tail(jobs[h]) \in Seq(PingWork)
  BY HeadTailProperties DEF QuietInv
<1>2. Tail(jobs[h]) \o more \in Seq(PingWork)
  BY <1>1
<1>3. (jobs \in [Hosts -> Seq(PingWork)])'
  BY <1>2 DEF Done, QuietInv
<1>4. QED BY <1>3 DEF QuietInv, QuietKept

\* A host sends its pings, answers pings and waits for answers.
LEMMA QuietJob ==
    ASSUME QuietInv, NEW h \in Hosts, HostJob(h)
    PROVE  QuietKept
<1>1. CASE HostNoJob(h) \/ JobFileWritten(h)
  BY <1>1, QuietStutter DEF HostNoJob, JobFileWritten, manPortVars
<1>2. ASSUME jobs[h] # << >> PROVE Job(h) \in PingWork
  BY <1>2, HeadTailProperties DEF QuietInv, Job
<1>3. << >> \in Seq(PingWork)
  BY EmptySeq
<1>4. wire' = wire => (\A e \in Wires : Whole(wire[e], Pings))'
  BY DEF QuietInv
<1>5. CASE JobSendAll(h)
  <2>1. /\ jobs[h] # << >> /\ Job(h).type = "SEND_ALL" /\ Done(h, << >>)
        /\ wire' = SendTo(wire, h, Neighbours(h), Job(h).pkt) /\ cmd' = cmd
    BY <1>5 DEF JobSendAll, AtJob, Runs, manPortVars
  <2>2. Job(h).pkt \in Pings
    BY <1>2, <2>1, WorkFields
  <2>3. \A e \in Wires : wire[e] \in Seq(Chunk) /\ Whole(wire[e], Pings)
    BY DEF QuietInv, TypeInv, WireTypeOK
  <2>4. (\A e \in Wires : Whole(wire[e], Pings))'
    BY <2>1, <2>2, <2>3, SendToWhole, PingsAreHeaders
  <2>5. QED BY <1>3, <2>1, <2>4, QuietDone
<1>6. CASE JobPingSendReply(h)
  <2>. DEFINE j == SendAll(Packet(h, Job(h).pkt.src, "PING_REPLY", << >>))
  <2>1. /\ jobs[h] # << >> /\ Job(h).type = "PING_SEND_REPLY" /\ Done(h, <<j>>)
        /\ wire' = wire /\ cmd' = cmd
    BY <1>6 DEF JobPingSendReply, AtJob, Runs, manPortVars
  <2>2. Job(h).pkt.src \in Int
    BY <1>2, <2>1, WorkFields, PacketFields
  <2>3. j \in PingWork
    BY <2>2, WorkMade DEF PingTypes
  <2>. HIDE DEF j
  <2>4. <<j>> \in Seq(PingWork)
    BY <2>3
  <2>5. QED BY <1>4, <2>1, <2>4, QuietDone
<1>7. CASE JobPingWait(h)
  <2>. DEFINE j == PingWait(Job(h).timer - 1)
  <2>1. /\ jobs[h] # << >> /\ Job(h).type = "PING_WAIT" /\ Job(h).timer > 1
        /\ Done(h, <<j>>) /\ wire' = wire /\ cmd' = cmd
    BY <1>7 DEF JobPingWait, AtJob, Runs, manPortVars
  <2>2. Job(h).timer - 1 \in Nat
    BY <1>2, <2>1, WorkFields
  <2>3. j \in PingWork
    BY <2>2 DEF PingWait, PingWork
  <2>. HIDE DEF j
  <2>4. <<j>> \in Seq(PingWork)
    BY <2>3
  <2>5. QED BY <1>4, <2>1, <2>4, QuietDone
<1>8. CASE JobPingAcked(h) \/ JobPingTimeOut(h)
  <2>1. jobs[h] # << >> /\ Done(h, << >>) /\ wire' = wire /\ cmd' = cmd
    BY <1>8 DEF JobPingAcked, JobPingTimeOut, AtJob, Runs
  <2>2. QED BY <1>3, <1>4, <2>1, QuietDone
<1>9. CASE \/ JobUploadSend(h) \/ JobRecvStart(h) \/ JobRecvIn(h)
           \/ JobRecvEndNoFile(h) \/ JobRecvEnd(h)
  <2>1. /\ jobs[h] # << >>
        /\ Job(h).type \in {"UPLOAD_SEND", "RECV_START", "RECV_IN", "RECV_END"}
    BY <1>9 DEF JobUploadSend, JobRecvStart, JobRecvIn, JobRecvEndNoFile, JobRecvEnd,
                AtJob, Runs
  <2>2. QED BY <1>2, <2>1, WorkFields
<1>10. QED BY <1>1, <1>5, <1>6, <1>7, <1>8, <1>9 DEF HostJob

\* A switch reads a ping and sends it on.
LEMMA QuietSwitch ==
    ASSUME QuietInv, WholeHeaders, NEW s \in Switches, SwitchStep(s), UNCHANGED <<jobs, cmd>>
    PROVE  QuietKept
<1>. DEFINE f == <<From(s), s>>
<1>1. f \in Wires /\ wire \in [Wires -> Seq(Chunk)] /\ \A e \in Wires : Whole(wire[e], Pings)
  BY FromIsNeighbour DEF QuietInv, TypeInv, WireTypeOK
<1>2. \/ wire' = wire \/ wire' = ReadFrom(wire, f)
      \/ \E p \in Arrivals(wire[f]) : \E dests : wire' = SendTo(ReadFrom(wire, f), s, dests, p)
  BY DEF SwitchStep, SwitchIdle, SwitchRelay, SwitchCrash
<1>. HIDE DEF f
<1>3. PICK w : w = ReadFrom(wire, f)
  OBVIOUS
<1>4. \A e \in Wires : w[e] \in Seq(Chunk) /\ Whole(w[e], Pings)
  <2>1. w \in [Wires -> Seq(Chunk)]
    BY <1>1, <1>3, ReadFromType
  <2>2. \A e \in Wires : Whole(w[e], Pings)
    BY <1>1, <1>3, ReadFromWhole, PingsAreHeaders
  <2>3. QED BY <2>1, <2>2
<1>5. ASSUME NEW p \in Arrivals(wire[f]), NEW dests, wire' = SendTo(w, s, dests, p)
      PROVE  (\A e \in Wires : Whole(wire[e], Pings))'
  <2>1. wire[f] # << >>
    BY <1>5 DEF Arrivals
  <2>2. p \in Pings
    BY <1>1, <2>1, ArrivesWhole, PingsAreHeaders
  <2>3. QED BY <1>4, <1>5, <2>2, SendToWhole, PingsAreHeaders
<1>6. (\A e \in Wires : Whole(wire[e], Pings))'
  BY <1>1, <1>2, <1>3, <1>4, <1>5
<1>7. QED BY <1>6 DEF QuietInv, QuietKept

\* The user types a quiet command.
LEMMA QuietManager ==
    ASSUME QuietInv, NoTransfers, Manages
    PROVE  QuietKept
<1>1. wire' = wire /\ jobs' = jobs
  BY DEF Manages, hostVars
<1>2. CASE Issue
  <2>1. PICK c \in QuietCommands : Ask(curr, c)
    BY <1>2 DEF Issue, NoTransfers
  <2>2. (cmd \in [Hosts -> Seq(QuietCommands)])'
    BY <2>1, AppendProperties DEF Ask, QuietInv
  <2>3. QED BY <1>1, <2>2 DEF QuietInv, QuietKept
<1>3. CASE ChangeHost \/ Collect \/ Quit
  BY <1>1, <1>3, QuietStutter DEF ChangeHost, Collect, Quit, manPortVars
<1>4. QED BY <1>2, <1>3 DEF Manages, ManagerStep

LEMMA QuietInit == Init => QuietInv
<1>. SUFFICES ASSUME Init PROVE QuietInv
  OBVIOUS
<1>1. /\ \A e \in Wires : wire[e] = << >>
      /\ jobs = [h \in Hosts |-> << >>] /\ cmd = [h \in Hosts |-> << >>]
  BY DEF Init, WireInit, HostInit, ManPortInit
<1>2. \A e \in Wires : Whole(wire[e], Pings)
  BY <1>1, EmptySeq DEF Whole
<1>3. jobs \in [Hosts -> Seq(PingWork)] /\ cmd \in [Hosts -> Seq(QuietCommands)]
  BY <1>1, EmptySeq
<1>4. QED BY <1>2, <1>3, TypeInvInit DEF QuietInv

LEMMA QuietStep ==
    ASSUME NoTransfers, WholeHeaders
    PROVE  QuietInv /\ [Next]_vars => QuietInv'
<1>. SUFFICES ASSUME QuietInv, [Next]_vars PROVE QuietInv'
  OBVIOUS
<1>1. ASSUME Manages PROVE QuietKept
  BY <1>1, QuietManager
<1>2. ASSUME NEW h \in Hosts, HostRuns(h) PROVE QuietKept
  BY <1>2, QuietCommand, QuietPort, QuietJob DEF HostRuns, HostStep
<1>3. ASSUME NEW s \in Switches, SwitchRuns(s) PROVE QuietKept
  BY <1>3, QuietSwitch DEF SwitchRuns, manPortVars, hostVars
<1>4. ASSUME UNCHANGED vars PROVE QuietKept
  BY <1>4, QuietStutter DEF vars, manPortVars, hostVars
<1>5. QuietKept
  BY <1>1, <1>2, <1>3, <1>4 DEF Next, Terminated
<1>6. TypeInv'
  BY TypeInvStep DEF QuietInv
<1>7. QED BY <1>5, <1>6 DEF QuietKept, QuietInv

LEMMA QuietIsUncut == QuietInv => Uncut
<1>. SUFFICES ASSUME QuietInv, NEW e \in Wires, wire[e] # << >>
              PROVE  wire[e][1].end = Size(wire[e][1].pkt)
  BY DEF Uncut
<1>1. wire[e] \in Seq(Chunk) /\ Whole(wire[e], Pings)
  BY DEF QuietInv, TypeInv, WireTypeOK
<1>2. QED BY <1>1, ArrivesWhole, PingsAreHeaders

\* While no file is moved no read cuts a packet: a header is 4 bytes, and a read
\* takes PAYLOAD_MAX + 4, which is 26 headers (packet.c:88-118, main.h:3).
THEOREM PingsUncut ==
    ASSUME NoTransfers, WholeHeaders
    PROVE  Spec => []Uncut
<1>. QED  BY QuietInit, QuietStep, QuietIsUncut, PTL DEF Spec

LEMMA UncutIsForeign == Uncut => TailsAreForeign
BY DEF Uncut, TailsAreForeign

\* So a user who moves no files, in a network of any size and with any losses, is
\* routed right: what a switch has learnt of a host is the neighbour on the path to
\* it and the next switch on the path knows it too (switch.c:220-256), with
\* nothing assumed of the bytes in the pipes.
THEOREM PingsAreRouted ==
    ASSUME Traffic = PacketSet, SwitchNetwork!TreeAssumption, NoTransfers, WholeHeaders
    PROVE  Spec => [](SwitchNetwork!RoutesPointHome /\ SwitchNetwork!RoutesReachHome)
<1>. QED  BY SimulatorRoutesCorrect, PingsUncut, UncutIsForeign, PTL

\* Nor does such a user, however many hosts there are and whatever is lost, ever
\* make two live copies of a ping or of its reply (switch.c:217-256).
COROLLARY OneCopyOfPings ==
    ASSUME NEW hub, Star(hub), NoTransfers, WholeHeaders
    PROVE  Spec => []NoDuplicatePings
<1>. QED  BY OneCopy, PingsUncut, PTL
=============================================================================
