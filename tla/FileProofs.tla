----------------------------- MODULE FileProofs -----------------------------
(***************************************************************************)
(* Proof that files arrive whole through one switch when the readers keep  *)
(* up: what a receiver writes under a name is the file of that name.       *)
(*                                                                         *)
(* A file goes as a list of packets: a job of the sender for each, a       *)
(* packet in the pipe to the switch, one in the pipe to the receiver, a    *)
(* job of the receiver.  Read from the receiver back, these four places    *)
(* hold one stream of packets from s to r, and a step takes from its       *)
(* front, moves within it, or adds a whole upload at its end.  The         *)
(* invariant says of every stream that, were its packets handled in turn,  *)
(* the receiver's buffer would hold a whole file at each UPLOAD_END.       *)
(*                                                                         *)
(* There are four parts: no packet is cut; what a receiver makes of a      *)
(* list of packets, and of those of an upload; how each step changes the   *)
(* streams; the invariant.  Two things are left to assume, that no two     *)
(* hosts send files to one receiver at once and that no host reads a file  *)
(* another has open; the last part derives them for the use of host.c      *)
(* that leaves no doubt: one host has the files, and no directory is       *)
(* shared.                                                                 *)
(***************************************************************************)
EXTENDS NetSimProofs, ListProofs

-----------------------------------------------------------------------------
(* Readers that keep up: no packet is cut and none is lost with another.   *)

\* The names that the user gives fit in one packet, also with what was read
\* after them (host.c:393, 416).
NamesFit ==
    \A c \in UserCmds : c.op \in {"u", "d"} => Len(c.name) < PAYLOAD_MAX

\* A packet that node n may send: it fits in one read, and a host sends under
\* its own id.
FitPacket(p, n) ==
    /\ p \in PacketSet /\ Len(p.body) <= PAYLOAD_MAX /\ p.src \in Hosts
    /\ n \in Hosts => p.src = n

\* A pipe that node n writes holds one whole packet or nothing.
OnePacket(q, n) ==
    q = << >> \/ (Len(q) = 1 /\ q[1].end = Size(q[1].pkt) /\ FitPacket(q[1].pkt, n))

OneInEach(w) == \A e \in Wires : OnePacket(w[e], e[1])

FitCommands == {c \in CommandSet : c.op \in {"u", "d"} => Len(c.name) < PAYLOAD_MAX}

FileTypes == {"UPLOAD_START", "UPLOAD_IN", "UPLOAD_END"}
RecvTypes == {"RECV_START", "RECV_IN", "RECV_END"}

\* A job of host h: what it sends, or will send, fits in packets; what it
\* receives is for h, from a host, and is handled by its type.
FitJob(j, h) ==
    /\ j.type = "SEND_ALL" => FitPacket(j.pkt, h)
    /\ j.type = "UPLOAD_SEND" => Len(j.name) <= PAYLOAD_MAX
    /\ j.type \in RecvTypes =>
         /\ j.pkt.src \in Hosts /\ j.pkt.dst = h
         /\ j.pkt.type \in FileTypes /\ j.type = JobOfType[j.pkt.type]
FitJobs(h) == {j \in JobSet : FitJob(j, h)}

FitInv ==
    /\ TypeInv
    /\ OneInEach(wire)
    /\ \A h \in Hosts : jobs[h] \in Seq(FitJobs(h))
    /\ \A h \in Hosts : cmd[h] \in Seq(FitCommands)

\* What a step leaves of FitInv, but for the types.
FitKept ==
    /\ OneInEach(wire')
    /\ \A h \in Hosts : jobs'[h] \in Seq(FitJobs(h))
    /\ \A h \in Hosts : cmd'[h] \in Seq(FitCommands)

\* A read of such a pipe takes all that is there, and reports it.
LEMMA ReadOne ==
    ASSUME NEW q \in Seq(Chunk), NEW n, OnePacket(q, n), q # << >>
    PROVE  /\ Rest(q) = << >> /\ Arrivals(q) = {q[1].pkt}
           /\ FitPacket(q[1].pkt, n) /\ q = <<q[1]>>
<1>1. Len(q) = 1 /\ q[1].end = Size(q[1].pkt) /\ FitPacket(q[1].pkt, n) /\ DOMAIN q = {1}
  BY DEF OnePacket
<1>2. q[1].end \in Int /\ q[1].end <= ReadMax
  <2>1. Len(q[1].pkt.body) \in Nat /\ Len(q[1].pkt.body) <= PAYLOAD_MAX
    BY <1>1 DEF FitPacket, PacketSet
  <2>2. QED BY <1>1, <2>1, SizeAssumption DEF Size, HeaderSize, ReadMax
<1>3. Taken(q) = q[1].end
  BY <1>1, <1>2 DEF Taken, Total
<1>4. WholeTaken(q) = 1
  <2>1. {i \in DOMAIN q : q[i].end <= Taken(q)} = {1}
    BY <1>1, <1>2, <1>3
  <2>2. QED BY <2>1, FS_Singleton DEF WholeTaken
<1>5. Rest(q) = << >>
  <2>1. 1 .. Len(q) - WholeTaken(q) = {}
    BY <1>1, <1>4
  <2>2. DOMAIN Rest(q) = {} /\ Rest(q) \in Seq(Chunk)
    BY <2>1, RestPackets DEF Rest
  <2>3. QED BY <2>2, EmptySeq
<1>6. q = <<q[1]>>
  BY <1>1
<1>7. QED BY <1>1, <1>5, <1>6 DEF Arrivals

\* A packet is added to a pipe only when the pipe is empty.
LEMMA PushOne ==
    ASSUME NEW q \in Seq(Chunk), NEW n, OnePacket(q, n), NEW p, FitPacket(p, n),
           Len(Push(q, p)) <= 1
    PROVE  /\ OnePacket(Push(q, p), n)
           /\ Push(q, p) = q \/ (q = << >> /\ Push(q, p) = <<[pkt |-> p, end |-> Size(p)]>>)
<1>. DEFINE c == [pkt |-> p, end |-> Total(q) + Size(p)]
<1>1. CASE Push(q, p) = q
  BY <1>1
<1>2. CASE Push(q, p) = Append(q, c)
  <2>1. Len(q) = 0
    <3>1. c \in Chunk
      <4>1. Size(p) \in Int
        BY DEF Size, HeaderSize, PacketSet, FitPacket
      <4>2. Total(q) \in Int
        BY TotalType
      <4>3. QED BY <4>1, <4>2 DEF Chunk, FitPacket
    <3>. HIDE DEF c
    <3>2. QED BY <1>2, <3>1
  <2>2. q = << >> /\ Total(q) = 0
    BY <2>1, EmptySeq DEF Total
  <2>3. Size(p) \in Int
    BY DEF Size, HeaderSize, PacketSet, FitPacket
  <2>4. Push(q, p) = <<[pkt |-> p, end |-> Size(p)]>>
    BY <1>2, <2>2, <2>3
  <2>5. QED BY <2>2, <2>4 DEF OnePacket
<1>3. QED BY <1>1, <1>2 DEF Push

\* The same of all the pipes.
LEMMA SendOne ==
    ASSUME NEW w \in [Wires -> Seq(Chunk)], OneInEach(w), NEW n, NEW p, FitPacket(p, n),
           NEW dests, \A e \in Wires : Len(SendTo(w, n, dests, p)[e]) <= 1
    PROVE  OneInEach(SendTo(w, n, dests, p))
<1>1. ASSUME NEW e \in Wires PROVE OnePacket(SendTo(w, n, dests, p)[e], e[1])
  <2>1. CASE e[1] = n /\ e[2] \in dests
    <3>1. SendTo(w, n, dests, p)[e] = Push(w[e], p)
      BY <2>1 DEF SendTo
    <3>2. QED BY <1>1, <2>1, <3>1, PushOne DEF OneInEach
  <2>2. CASE ~(e[1] = n /\ e[2] \in dests)
    BY <2>2 DEF SendTo, OneInEach
  <2>3. QED BY <2>1, <2>2
<1>2. QED BY <1>1 DEF OneInEach

\* A read empties the pipe and returns the one packet in it, whole (net.c:457-474).
LEMMA ReadsOne ==
    ASSUME NEW w \in [Wires -> Seq(Chunk)], OneInEach(w), NEW e \in Wires, w[e] # << >>
    PROVE  /\ ReadFrom(w, e) = [w EXCEPT ![e] = << >>]
           /\ OneInEach(ReadFrom(w, e))
           /\ Arrivals(w[e]) = {w[e][1].pkt} /\ FitPacket(w[e][1].pkt, e[1])
<1>1. /\ Rest(w[e]) = << >> /\ Arrivals(w[e]) = {w[e][1].pkt}
      /\ FitPacket(w[e][1].pkt, e[1])
  BY ReadOne DEF OneInEach
<1>2. ReadFrom(w, e) = [w EXCEPT ![e] = << >>]
  BY <1>1 DEF ReadFrom
<1>3. OneInEach(ReadFrom(w, e))
  BY <1>2 DEF OneInEach, OnePacket
<1>4. QED BY <1>1, <1>2, <1>3


\* The parts of FitInv as they are used.
LEMMA FitParts ==
    ASSUME FitInv
    PROVE  /\ wire \in [Wires -> Seq(Chunk)] /\ OneInEach(wire)
           /\ jobs \in [Hosts -> Seq(JobSet)] /\ cmd \in [Hosts -> Seq(CommandSet)]
           /\ \A h \in Hosts : jobs[h] \in Seq(FitJobs(h)) /\ cmd[h] \in Seq(FitCommands)
           /\ WireTypeOK /\ SwitchTypeOK /\ ManPortTypeOK /\ HostOK /\ ManagerTypeOK
           /\ \A h \in Hosts : jobs[h] \in Seq(JobsOf(h))
BY DEF FitInv, TypeInv, WireTypeOK, ManPortTypeOK, HostOK, JobsOK

\* A step that changes no pipe, queue or command line.
LEMMA FitStutter ==
    ASSUME FitInv, UNCHANGED <<wire, jobs, cmd>>
    PROVE  FitKept
BY DEF FitInv, FitKept

\* Jobs that fit are added to a queue.
LEMMA FitAdd ==
    ASSUME FitInv, NEW h \in Hosts, NEW more \in Seq(FitJobs(h)),
           Add(h, more) \/ (Done(h, more) /\ jobs[h] # << >>)
    PROVE  \A g \in Hosts : jobs'[g] \in Seq(FitJobs(g))
<1>1. jobs \in [Hosts -> Seq(JobSet)] /\ \A g \in Hosts : jobs[g] \in Seq(FitJobs(g))
  BY FitParts
<1>2. jobs[h] \o more \in Seq(FitJobs(h))
  BY <1>1, ConcatProperties
<1>3. jobs[h] # << >> => Tail(jobs[h]) \o more \in Seq(FitJobs(h))
  <2>1. jobs[h] # << >> => Tail(jobs[h]) \in Seq(FitJobs(h))
    BY <1>1, HeadTailProperties
  <2>2. QED BY <2>1, ConcatProperties
<1>4. PICK q \in Seq(FitJobs(h)) : jobs' = [jobs EXCEPT ![h] = q]
  BY <1>2, <1>3 DEF Add, Done
<1>5. QED BY <1>1, <1>4

\* The jobs that the handlers make fit.
LEMMA FitMade ==
    ASSUME NEW h \in Hosts
    PROVE  /\ \A dst \in Int, type \in PacketTypes, body \in Seq(Bytes) :
                Len(body) <= PAYLOAD_MAX
                  => SendAll(Packet(h, dst, type, body)) \in FitJobs(h)
           /\ \A t \in Nat : PingWait(t) \in FitJobs(h)
           /\ \A dst \in Int, name \in Names :
                Len(name) <= PAYLOAD_MAX => UploadSend(dst, name) \in FitJobs(h)
           /\ \A p \in PacketSet : p.src \in Hosts /\ p.dst = h /\ p.type \in DOMAIN JobOfType
                => [type |-> JobOfType[p.type], pkt |-> p] \in FitJobs(h)
<1>1. ASSUME NEW dst \in Int, NEW type \in PacketTypes, NEW body \in Seq(Bytes),
             Len(body) <= PAYLOAD_MAX
      PROVE  SendAll(Packet(h, dst, type, body)) \in FitJobs(h)
  <2>1. FitPacket(Packet(h, dst, type, body), h)
    BY <1>1, PacketType, CharOfHost DEF FitPacket, Packet
  <2>2. SendAll(Packet(h, dst, type, body)) \in JobSet
    BY <2>1, PacketJobTypes DEF FitPacket, SendAll, JobSet, PacketJobs
  <2>3. QED BY <2>1, <2>2 DEF SendAll, FitJobs, FitJob, RecvTypes
<1>2. ASSUME NEW t \in Nat PROVE PingWait(t) \in FitJobs(h)
  <2>1. PingWait(t) \in JobSet
    BY DEF PingWait, JobSet
  <2>2. QED BY <2>1 DEF PingWait, FitJobs, FitJob, RecvTypes
<1>3. ASSUME NEW dst \in Int, NEW name \in Names, Len(name) <= PAYLOAD_MAX
      PROVE  UploadSend(dst, name) \in FitJobs(h)
  <2>1. UploadSend(dst, name) \in JobSet
    BY DEF UploadSend, JobSet
  <2>2. QED BY <1>3, <2>1 DEF UploadSend, FitJobs, FitJob, RecvTypes
<1>4. ASSUME NEW p \in PacketSet, p.src \in Hosts, p.dst = h, p.type \in DOMAIN JobOfType
      PROVE  [type |-> JobOfType[p.type], pkt |-> p] \in FitJobs(h)
  <2>1. [type |-> JobOfType[p.type], pkt |-> p] \in JobsOf(h)
    BY <1>4, JobsMade
  <2>2. [type |-> JobOfType[p.type], pkt |-> p] \in JobSet
    BY <2>1 DEF JobsOf
  <2>3. JobOfType[p.type] \in {"PING_SEND_REPLY"} \cup RecvTypes
        /\ (JobOfType[p.type] \in RecvTypes => p.type \in FileTypes)
    BY <1>4 DEF JobOfType, RecvTypes, FileTypes
  <2>4. QED BY <1>4, <2>2, <2>3 DEF FitJobs, FitJob, RecvTypes
<1>5. QED BY <1>1, <1>2, <1>3, <1>4

\* The name a host hears fits in a packet.
LEMMA FitHeard ==
    ASSUME FitInv, NEW h \in Hosts, cmd[h] # << >>, Heard(cmd[h]).op \in {"u", "d"}
    PROVE  Heard(cmd[h]) \in CommandSet /\ Len(Heard(cmd[h]).name) <= PAYLOAD_MAX
<1>1. cmd[h] \in Seq(FitCommands) /\ ManPortTypeOK
  BY FitParts
<1>2. cmd[h][1] \in FitCommands
  BY <1>1, EmptySeq
<1>3. cmd[h][1].op = Heard(cmd[h]).op /\ cmd[h][1].name \in Names
  BY <1>2 DEF Heard, FitCommands, CommandSet
<1>4. Len(cmd[h][1].name) < PAYLOAD_MAX
  BY <1>2, <1>3 DEF FitCommands
<1>5. /\ Len(cmd[h][1].name) \in Nat
      /\ Len(Append(cmd[h][1].name, Glue)) = Len(cmd[h][1].name) + 1
  BY <1>3, ManPortAssumption DEF Names
<1>6. Heard(cmd[h]).name \in {cmd[h][1].name, Append(cmd[h][1].name, Glue)}
  BY <1>2 DEF Heard, FitCommands, CommandSet
<1>7. QED BY <1>1, <1>4, <1>5, <1>6, SizeAssumption, HeardType

\* What a host queues for a command of the user fits (host.c:342-424).
LEMMA FitCommandStep ==
    ASSUME FitInv, NEW h \in Hosts, HostCommand(h)
    PROVE  FitKept
<1>1. CASE HostNoCommand(h)
  BY <1>1, FitStutter DEF HostNoCommand, manPortVars
<1>2. ASSUME NEW op, AtCommand(h, op)
      PROVE  /\ \A g \in Hosts : cmd'[g] \in Seq(FitCommands)
             /\ cmd[h] # << >> /\ Heard(cmd[h]).op = op /\ Heard(cmd[h]) \in CommandSet
  <2>1. cmd[h] # << >> /\ Hear(h) /\ Heard(cmd[h]).op = op
    BY <1>2 DEF AtCommand
  <2>2. cmd \in [Hosts -> Seq(CommandSet)] /\ \A g \in Hosts : cmd[g] \in Seq(FitCommands)
    BY FitParts
  <2>3. \A g \in Hosts : cmd'[g] \in Seq(FitCommands)
    <3>1. << >> \in Seq(FitCommands)
      BY EmptySeq
    <3>2. QED BY <2>1, <2>2, <3>1 DEF Hear
  <2>4. QED BY <2>1, <2>3, HeardType, FitParts
<1>3. CASE HostState(h) \/ HostSetDir(h)
  <2>1. wire' = wire /\ jobs' = jobs /\ \A g \in Hosts : cmd'[g] \in Seq(FitCommands)
    BY <1>2, <1>3 DEF HostState, HostSetDir
  <2>2. QED BY <2>1, FitParts DEF FitKept
<1>4. ASSUME NEW op, AtCommand(h, op), wire' = wire,
             NEW more \in Seq(FitJobs(h)), Add(h, more)
      PROVE  FitKept
  BY <1>2, <1>4, FitAdd, FitParts DEF FitKept
<1>5. CASE HostPing(h)
  <2>. DEFINE c == Heard(cmd[h])
              j == SendAll(Packet(h, c.dst, "PING_REQ", << >>))
              k == PingWait(PING_TIMER)
  <2>1. AtCommand(h, "p") /\ wire' = wire /\ Add(h, <<j, k>>)
    BY <1>5 DEF HostPing
  <2>2. c.dst \in Int
    BY <1>2, <2>1 DEF CommandSet
  <2>3. j \in FitJobs(h) /\ k \in FitJobs(h)
    <3>1. << >> \in Seq(Bytes) /\ Len(<< >>) <= PAYLOAD_MAX /\ "PING_REQ" \in PacketTypes
      BY EmptySeq, SizeAssumption DEF PacketTypes
    <3>2. j \in FitJobs(h)
      BY <2>2, <3>1, FitMade
    <3>3. k \in FitJobs(h)
      BY FitMade, HostAssumption
    <3>4. QED BY <3>2, <3>3
  <2>. HIDE DEF j, k
  <2>4. <<j, k>> \in Seq(FitJobs(h))
    BY <2>3
  <2>5. QED BY <1>4, <2>1, <2>4
<1>6. CASE HostUpload(h)
  <2>. DEFINE c == Heard(cmd[h])
              j == UploadSend(c.dst, c.name)
  <2>1. AtCommand(h, "u") /\ wire' = wire /\ Add(h, <<j>>)
    BY <1>6 DEF HostUpload
  <2>2. c.dst \in Int /\ c.name \in Names /\ Len(c.name) <= PAYLOAD_MAX
    BY <1>2, <2>1, FitHeard DEF CommandSet
  <2>3. j \in FitJobs(h)
    BY <2>2, FitMade
  <2>. HIDE DEF j
  <2>4. <<j>> \in Seq(FitJobs(h))
    BY <2>3
  <2>5. QED BY <1>4, <2>1, <2>4
<1>7. CASE HostDownload(h)
  <2>. DEFINE c == Heard(cmd[h])
              j == SendAll(Packet(h, c.dst, "DOWNLOAD_REQ", c.name))
  <2>1. AtCommand(h, "d") /\ wire' = wire /\ Add(h, <<j>>)
    BY <1>7 DEF HostDownload
  <2>2. c.dst \in Int /\ c.name \in Seq(Bytes) /\ Len(c.name) <= PAYLOAD_MAX
    BY <1>2, <2>1, FitHeard DEF CommandSet, Names
  <2>3. j \in FitJobs(h)
    BY <2>2, FitMade DEF PacketTypes
  <2>. HIDE DEF j
  <2>4. <<j>> \in Seq(FitJobs(h))
    BY <2>3
  <2>5. QED BY <1>4, <2>1, <2>4
<1>8. QED BY <1>1, <1>3, <1>5, <1>6, <1>7 DEF HostCommand


\* What a host takes from its port is all that was there.
LEMMA ReceivesOne ==
    ASSUME FitInv, NEW h \in Hosts, NEW p, Receives(h, p)
    PROVE  \E n \in Neighbours(h) :
             /\ <<n, h>> \in Wires /\ wire[<<n, h>>] # << >>
             /\ p = wire[<<n, h>>][1].pkt /\ FitPacket(p, n)
             /\ wire' = [wire EXCEPT ![<<n, h>>] = << >>]
             /\ OneInEach(wire') /\ Link(h) = <<n, h>>
<1>. DEFINE n == Ports[h][phase[h]]
            e == <<n, h>>
<1>1. n \in Neighbours(h) /\ Link(h) = e
  BY DEF Receives, AtPort, Neighbours, Range, Link
<1>2. e \in Wires
  BY <1>1, NeighbourWire DEF Nodes
<1>3. p \in Arrivals(wire[e]) /\ wire' = ReadFrom(wire, e)
  BY <1>1 DEF Receives
<1>4. wire[e] # << >>
  BY <1>3 DEF Arrivals
<1>5. e[1] = n
  OBVIOUS
<1>. HIDE DEF n, e
<1>6. /\ wire' = [wire EXCEPT ![e] = << >>] /\ OneInEach(wire')
      /\ p = wire[e][1].pkt /\ FitPacket(p, e[1])
  <2>1. wire \in [Wires -> Seq(Chunk)] /\ OneInEach(wire)
    BY FitParts
  <2>2. /\ ReadFrom(wire, e) = [wire EXCEPT ![e] = << >>]
        /\ OneInEach(ReadFrom(wire, e))
        /\ Arrivals(wire[e]) = {wire[e][1].pkt} /\ FitPacket(wire[e][1].pkt, e[1])
    BY <1>2, <1>4, <2>1, ReadsOne
  <2>3. QED BY <1>3, <2>2
<1>7. QED BY <1>1, <1>2, <1>4, <1>5, <1>6 DEF e

\* What a host queues for a packet it has read fits (host.c:434-513).
LEMMA FitPort ==
    ASSUME FitInv, NEW h \in Hosts, HostPort(h)
    PROVE  FitKept
<1>1. CASE HostNoPacket(h)
  BY <1>1, FitStutter DEF HostNoPacket, manPortVars
<1>2. ASSUME NEW p, Receives(h, p)
      PROVE  OneInEach(wire') /\ p \in PacketSet /\ p.src \in Hosts /\ Len(p.body) <= PAYLOAD_MAX
  BY <1>2, ReceivesOne DEF FitPacket
<1>3. CASE HostIgnore(h) \/ HostPingReply(h)
  <2>1. OneInEach(wire') /\ jobs' = jobs /\ cmd' = cmd
    BY <1>2, <1>3 DEF HostIgnore, HostPingReply, manPortVars
  <2>2. QED BY <2>1, FitParts DEF FitKept
<1>4. ASSUME NEW p, Receives(h, p), cmd' = cmd, NEW j \in FitJobs(h), Add(h, <<j>>)
      PROVE  FitKept
  <2>1. <<j>> \in Seq(FitJobs(h))
    OBVIOUS
  <2>2. QED BY <1>2, <1>4, <2>1, FitAdd, FitParts DEF FitKept
<1>5. CASE HostQueue(h)
  <2>1. PICK p \in Arrivals(wire[Link(h)]) :
          /\ p.dst = h /\ p.type \in DOMAIN JobOfType /\ Receives(h, p)
          /\ Add(h, <<[type |-> JobOfType[p.type], pkt |-> p]>>)
    BY <1>5 DEF HostQueue
  <2>. DEFINE j == [type |-> JobOfType[p.type], pkt |-> p]
  <2>2. j \in FitJobs(h)
    BY <1>2, <2>1, FitMade
  <2>. HIDE DEF j
  <2>3. cmd' = cmd /\ Add(h, <<j>>)
    BY <1>5, <2>1 DEF HostQueue, manPortVars, j
  <2>4. QED BY <1>4, <2>1, <2>2, <2>3
<1>6. CASE HostDownloadRequest(h)
  <2>1. PICK p \in Arrivals(wire[Link(h)]) :
          Receives(h, p) /\ Add(h, <<UploadSend(p.src, p.body)>>)
    BY <1>6 DEF HostDownloadRequest
  <2>. DEFINE j == UploadSend(p.src, p.body)
  <2>2. p.src \in Int /\ p.body \in Names
    BY <1>2, <2>1, PacketFields
  <2>3. j \in FitJobs(h)
    BY <1>2, <2>1, <2>2, FitMade
  <2>. HIDE DEF j
  <2>4. cmd' = cmd /\ Add(h, <<j>>)
    BY <1>6, <2>1 DEF HostDownloadRequest, manPortVars, j
  <2>5. QED BY <1>4, <2>1, <2>3, <2>4
<1>7. QED BY <1>1, <1>3, <1>5, <1>6 DEF HostPort

\* The first job of a host that has one, and what its fields are.
LEMMA FirstJob ==
    ASSUME FitInv, NEW h \in Hosts, jobs[h] # << >>
    PROVE  Job(h) \in FitJobs(h) /\ Job(h) \in JobSet /\ FitJob(Job(h), h)
           /\ (Job(h).type = "UPLOAD_SEND" => Job(h).dst \in Int /\ Job(h).name \in Names)
           /\ (Job(h).type \in PacketJobs => Job(h).pkt \in PacketSet)
           /\ (Job(h).type = "PING_WAIT" => Job(h).timer \in Nat)
<1>1. Job(h) \in FitJobs(h)
  BY FitParts, HeadTailProperties DEF Job
<1>2. Job(h) \in JobSet /\ FitJob(Job(h), h)
  BY <1>1 DEF FitJobs
<1>3. QED BY <1>1, <1>2, JobFields

\* The parts of a file that are sent fit in a packet (host.c:634-668).
LEMMA UploadFits ==
    ASSUME NEW h \in Hosts, NEW dst \in Int, NEW name \in Names, Len(name) <= PAYLOAD_MAX,
           NEW data \in Seq(Bytes)
    PROVE  UploadJobs(h, dst, name, data) \in Seq(FitJobs(h))
<1>. DEFINE full == Len(data) \div PAYLOAD_MAX
            Part(i) == SubSeq(data, (i - 1) * PAYLOAD_MAX + 1, i * PAYLOAD_MAX)
            rest == SubSeq(data, full * PAYLOAD_MAX + 1, Len(data))
            Send(type, body) == SendAll(Packet(h, dst, type, body))
<1>1. Len(data) \in Nat /\ PAYLOAD_MAX \in Nat /\ PAYLOAD_MAX > 0
  BY SizeAssumption, HostAssumption
<1>2. full \in Nat /\ full * PAYLOAD_MAX \in Nat /\ full * PAYLOAD_MAX <= Len(data)
      /\ Len(data) - full * PAYLOAD_MAX <= PAYLOAD_MAX
  BY <1>1
<1>3. ASSUME NEW type \in FileTypes, NEW body \in Seq(Bytes), Len(body) <= PAYLOAD_MAX
      PROVE  Send(type, body) \in FitJobs(h)
  BY <1>3, FitMade DEF FileTypes, PacketTypes
<1>4. ASSUME NEW i \in 1 .. full PROVE Part(i) \in Seq(Bytes) /\ Len(Part(i)) <= PAYLOAD_MAX
  <2>1. i * PAYLOAD_MAX <= full * PAYLOAD_MAX /\ i * PAYLOAD_MAX \in Nat
    BY <1>1, <1>2
  <2>2. (i - 1) * PAYLOAD_MAX + 1 \in Nat \ {0} /\ (i - 1) * PAYLOAD_MAX \in Nat
        /\ (i - 1) * PAYLOAD_MAX = i * PAYLOAD_MAX - PAYLOAD_MAX
    BY <1>1, <1>2
  <2>3. PICK a \in Nat, b \in Nat : a = (i - 1) * PAYLOAD_MAX /\ b = i * PAYLOAD_MAX
    BY <2>1, <2>2
  <2>4. b = a + PAYLOAD_MAX /\ b <= Len(data) /\ Part(i) = SubSeq(data, a + 1, b)
    BY <1>1, <1>2, <2>1, <2>2, <2>3
  <2>5. Part(i) \in Seq(Bytes)
    <3>1. a + 1 \in Nat \ {0} /\ b \in Int
      OBVIOUS
    <3>2. SubSeq(data, a + 1, b) \in Seq(Bytes)
      BY <1>1, <2>4, <3>1, PieceType
    <3>3. QED BY <2>4, <3>2
  <2>6. Len(Part(i)) = PAYLOAD_MAX
    <3>1. Len(SubSeq(data, a + 1, b)) = IF a + 1 <= b THEN b - (a + 1) + 1 ELSE 0
      OBVIOUS
    <3>2. QED BY <1>1, <2>4, <3>1
  <2>. QED  BY <1>1, <2>5, <2>6
<1>5. rest \in Seq(Bytes) /\ Len(rest) <= PAYLOAD_MAX
  <2>1. PICK a \in Nat : a = full * PAYLOAD_MAX
    BY <1>2
  <2>2. rest = SubSeq(data, a + 1, Len(data)) /\ a <= Len(data) /\ Len(data) - a <= PAYLOAD_MAX
    BY <1>1, <1>2, <2>1
  <2>3. rest \in Seq(Bytes)
    BY <1>1, <2>2, PieceType
  <2>4. Len(SubSeq(data, a + 1, Len(data)))
          = IF a + 1 <= Len(data) THEN Len(data) - (a + 1) + 1 ELSE 0
    BY <1>1
  <2>5. QED BY <1>1, <2>2, <2>3, <2>4
<1>. HIDE DEF full, Part, rest
<1>6. <<Send("UPLOAD_START", name)>> \in Seq(FitJobs(h))
  BY <1>3 DEF Names, FileTypes
<1>7. [i \in 1 .. full |-> Send("UPLOAD_IN", Part(i))] \in Seq(FitJobs(h))
  BY <1>2, <1>3, <1>4 DEF FileTypes
<1>8. <<Send("UPLOAD_END", rest)>> \in Seq(FitJobs(h))
  BY <1>3, <1>5 DEF FileTypes
<1>. HIDE DEF Send
<1>9. <<Send("UPLOAD_START", name)>>
        \o [i \in 1 .. full |-> Send("UPLOAD_IN", Part(i))]
        \o <<Send("UPLOAD_END", rest)>> \in Seq(FitJobs(h))
  BY <1>6, <1>7, <1>8, ConcatProperties
<1>. QED  BY <1>9 DEF UploadJobs, full, Part, rest, Send


\* What a host sends, queues or asks for when it runs a job fits (host.c:519-790).
LEMMA FitJobStep ==
    ASSUME FitInv, NEW h \in Hosts, HostJob(h), Paced
    PROVE  FitKept
<1>1. CASE HostNoJob(h)
  BY <1>1, FitStutter DEF HostNoJob, manPortVars
<1>2. ASSUME jobs[h] # << >>, NEW more \in Seq(FitJobs(h)), Done(h, more),
             cmd' = cmd, OneInEach(wire')
      PROVE  FitKept
  BY <1>2, FitAdd, FitParts DEF FitKept
<1>3. << >> \in Seq(FitJobs(h)) /\ OneInEach(wire)
  BY EmptySeq, FitParts
<1>4. CASE JobSendAll(h)
  <2>1. /\ jobs[h] # << >> /\ Job(h).type = "SEND_ALL" /\ Done(h, << >>) /\ cmd' = cmd
        /\ wire' = SendTo(wire, h, Neighbours(h), Job(h).pkt)
    BY <1>4 DEF JobSendAll, AtJob, Runs, manPortVars
  <2>2. FitPacket(Job(h).pkt, h)
    BY <2>1, FirstJob DEF FitJob
  <2>3. OneInEach(wire')
    <3>1. \A e \in Wires : Len(SendTo(wire, h, Neighbours(h), Job(h).pkt)[e]) <= 1
      BY <2>1 DEF Paced
    <3>2. QED BY <2>1, <2>2, <3>1, SendOne, FitParts
  <2>4. QED BY <1>2, <1>3, <2>1, <2>3
<1>5. CASE JobPingSendReply(h)
  <2>. DEFINE j == SendAll(Packet(h, Job(h).pkt.src, "PING_REPLY", << >>))
  <2>1. /\ jobs[h] # << >> /\ Job(h).type = "PING_SEND_REPLY" /\ Done(h, <<j>>)
        /\ cmd' = cmd /\ wire' = wire
    BY <1>5 DEF JobPingSendReply, AtJob, Runs, manPortVars
  <2>2. j \in FitJobs(h)
    <3>1. Job(h).pkt.src \in Int
      BY <2>1, FirstJob, PacketFields DEF PacketJobs
    <3>2. << >> \in Seq(Bytes) /\ Len(<< >>) <= PAYLOAD_MAX /\ "PING_REPLY" \in PacketTypes
      BY EmptySeq, SizeAssumption DEF PacketTypes
    <3>3. QED BY <3>1, <3>2, FitMade
  <2>. HIDE DEF j
  <2>3. <<j>> \in Seq(FitJobs(h))
    BY <2>2
  <2>4. QED BY <1>2, <1>3, <2>1, <2>3
<1>6. CASE JobPingAcked(h) \/ JobPingTimeOut(h)
  BY <1>2, <1>3, <1>6 DEF JobPingAcked, JobPingTimeOut, AtJob, Runs
<1>7. CASE JobPingWait(h)
  <2>. DEFINE j == PingWait(Job(h).timer - 1)
  <2>1. /\ jobs[h] # << >> /\ Job(h).type = "PING_WAIT" /\ Job(h).timer > 1 /\ Done(h, <<j>>)
        /\ cmd' = cmd /\ wire' = wire
    BY <1>7 DEF JobPingWait, AtJob, Runs, manPortVars
  <2>2. Job(h).timer - 1 \in Nat
    BY <2>1, FirstJob
  <2>3. j \in FitJobs(h)
    BY <2>2, FitMade
  <2>. HIDE DEF j
  <2>4. <<j>> \in Seq(FitJobs(h))
    BY <2>3
  <2>5. QED BY <1>2, <1>3, <2>1, <2>4
<1>8. CASE JobUploadSend(h)
  <2>. DEFINE file == <<dir[h], Job(h).name>>
              more == IF file \in DOMAIN disk
                      THEN UploadJobs(h, Job(h).dst, Job(h).name, disk[file]) ELSE << >>
  <2>1. /\ jobs[h] # << >> /\ Job(h).type = "UPLOAD_SEND" /\ Done(h, more)
        /\ cmd' = cmd /\ wire' = wire
    BY <1>8 DEF JobUploadSend, AtJob, Runs, manPortVars
  <2>2. Job(h).dst \in Int /\ Job(h).name \in Names /\ Len(Job(h).name) <= PAYLOAD_MAX
    BY <2>1, FirstJob DEF FitJob
  <2>3. file \in DOMAIN disk => disk[file] \in Seq(Bytes)
    BY FitParts DEF HostOK, DiskOK
  <2>4. more \in Seq(FitJobs(h))
    BY <1>3, <2>2, <2>3, UploadFits
  <2>. HIDE DEF more
  <2>5. QED BY <1>2, <1>3, <2>1, <2>4
<1>9. CASE JobRecvStart(h) \/ JobRecvIn(h) \/ JobRecvEndNoFile(h) \/ JobRecvEnd(h)
  <2>1. jobs[h] # << >> /\ Done(h, << >>) /\ cmd' = cmd /\ wire' = wire
    BY <1>9 DEF JobRecvStart, JobRecvIn, JobRecvEndNoFile, JobRecvEnd, AtJob, Runs, manPortVars
  <2>2. QED BY <1>2, <1>3, <2>1
<1>10. CASE JobFileWritten(h)
  BY <1>10, FitStutter DEF JobFileWritten, manPortVars
<1>11. QED BY <1>1, <1>4, <1>5, <1>6, <1>7, <1>8, <1>9, <1>10 DEF HostJob

\* What a switch does to such pipes.
LEMMA SwitchOne ==
    ASSUME FitInv, NEW s \in Switches, SwitchStep(s)
    PROVE  \/ wire' = wire /\ table' = table
           \/ \E e \in Wires :
                /\ e = <<From(s), s>> /\ wire[e] # << >>
                /\ FitPacket(wire[e][1].pkt, e[1])
                /\ table' = [table EXCEPT ![s] = Learn(@, wire[e][1].pkt.src, e[1])]
                /\ OneInEach([wire EXCEPT ![e] = << >>])
                /\ [wire EXCEPT ![e] = << >>] \in [Wires -> Seq(Chunk)]
                /\ \/ /\ wire[e][1].pkt.dst \notin TableIndex
                      /\ wire' = [wire EXCEPT ![e] = << >>]
                   \/ \E dests \in Outputs(s, table'[s], wire[e][1].pkt.dst) :
                        wire' = SendTo([wire EXCEPT ![e] = << >>], s, dests, wire[e][1].pkt)
<1>. DEFINE e == <<From(s), s>>
<1>1. CASE SwitchIdle(s)
  BY <1>1 DEF SwitchIdle
<1>2. e \in Wires
  BY FromIsNeighbour, FitParts
<1>3. CASE SwitchRelay(s) \/ SwitchCrash(s)
  <2>1. PICK p \in Arrivals(wire[e]) :
          /\ table' = [table EXCEPT ![s] = Learn(@, p.src, From(s))]
          /\ \/ p.dst \notin TableIndex /\ wire' = ReadFrom(wire, e)
             \/ \E dests \in Outputs(s, Learn(table[s], p.src, From(s)), p.dst) :
                  wire' = SendTo(ReadFrom(wire, e), s, dests, p)
    BY <1>3 DEF SwitchRelay, SwitchCrash
  <2>2. wire[e] # << >>
    BY <2>1 DEF Arrivals
  <2>3. e[1] = From(s)
    OBVIOUS
  <2>4. table'[s] = Learn(table[s], p.src, From(s))
    BY <2>1, FitParts DEF SwitchTypeOK
  <2>. HIDE DEF e
  <2>5. wire \in [Wires -> Seq(Chunk)] /\ OneInEach(wire)
    BY FitParts
  <2>6. /\ ReadFrom(wire, e) = [wire EXCEPT ![e] = << >>]
        /\ OneInEach(ReadFrom(wire, e))
        /\ Arrivals(wire[e]) = {wire[e][1].pkt} /\ FitPacket(wire[e][1].pkt, e[1])
    BY <1>2, <2>2, <2>5, ReadsOne
  <2>7. ReadFrom(wire, e) \in [Wires -> Seq(Chunk)]
    BY <1>2, <2>5, ReadFromType
  <2>8. p = wire[e][1].pkt
    BY <2>1, <2>6
  <2>9. e = <<From(s), s>>
    BY DEF e
  <2>10. table' = [table EXCEPT ![s] = Learn(table[s], wire[e][1].pkt.src, e[1])]
    BY <2>1, <2>3, <2>8
  <2>11. \/ /\ wire[e][1].pkt.dst \notin TableIndex
            /\ wire' = [wire EXCEPT ![e] = << >>]
         \/ \E dests \in Outputs(s, table'[s], wire[e][1].pkt.dst) :
              wire' = SendTo([wire EXCEPT ![e] = << >>], s, dests, wire[e][1].pkt)
    <3>1. \/ p.dst \notin TableIndex /\ wire' = ReadFrom(wire, e)
          \/ \E dests \in Outputs(s, table'[s], p.dst) :
               wire' = SendTo(ReadFrom(wire, e), s, dests, p)
      BY <2>1, <2>4
    <3>2. PICK x : x = ReadFrom(wire, e) /\ x = [wire EXCEPT ![e] = << >>]
      BY <2>6
    <3>3. QED BY <2>8, <3>1, <3>2
  <2>12. QED BY <1>2, <2>2, <2>6, <2>7, <2>9, <2>10, <2>11
<1>4. QED BY <1>1, <1>3 DEF SwitchStep

\* A switch passes on what it has read, whole (switch.c).
LEMMA FitSwitch ==
    ASSUME FitInv, NEW s \in Switches, SwitchStep(s), UNCHANGED <<jobs, cmd>>, Paced
    PROVE  FitKept
<1>1. CASE wire' = wire
  BY <1>1, FitStutter
<1>2. CASE \E e \in Wires : OneInEach([wire EXCEPT ![e] = << >>])
                            /\ wire' = [wire EXCEPT ![e] = << >>]
  BY <1>2, FitParts DEF FitKept
<1>3. CASE \E e \in Wires : \E dests :
             /\ FitPacket(wire[e][1].pkt, e[1]) /\ OneInEach([wire EXCEPT ![e] = << >>])
             /\ [wire EXCEPT ![e] = << >>] \in [Wires -> Seq(Chunk)]
             /\ wire' = SendTo([wire EXCEPT ![e] = << >>], s, dests, wire[e][1].pkt)
  <2>0. PICK e \in Wires : \E dests :
             /\ FitPacket(wire[e][1].pkt, e[1]) /\ OneInEach([wire EXCEPT ![e] = << >>])
             /\ [wire EXCEPT ![e] = << >>] \in [Wires -> Seq(Chunk)]
             /\ wire' = SendTo([wire EXCEPT ![e] = << >>], s, dests, wire[e][1].pkt)
    BY <1>3
  <2>1. PICK dests :
             /\ FitPacket(wire[e][1].pkt, e[1]) /\ OneInEach([wire EXCEPT ![e] = << >>])
             /\ [wire EXCEPT ![e] = << >>] \in [Wires -> Seq(Chunk)]
             /\ wire' = SendTo([wire EXCEPT ![e] = << >>], s, dests, wire[e][1].pkt)
    BY <2>0
  <2>2. FitPacket(wire[e][1].pkt, s)
    BY <2>1, NodeAssumption DEF FitPacket
  <2>3. \A f \in Wires : Len(wire'[f]) <= 1
    BY DEF Paced
  <2>4. PICK w : w = [wire EXCEPT ![e] = << >>]
    OBVIOUS
  <2>5. OneInEach(wire')
    BY <2>1, <2>2, <2>3, <2>4, SendOne
  <2>6. QED BY <2>5, FitParts DEF FitKept
<1>4. QED BY <1>1, <1>2, <1>3, SwitchOne

\* The manager touches no pipe between nodes, and gives commands that fit.
LEMMA FitManager ==
    ASSUME FitInv, NamesFit, Manages
    PROVE  FitKept
<1>1. wire' = wire /\ jobs' = jobs
  BY DEF Manages, hostVars
<1>2. CASE Issue
  <2>1. PICK c \in UserCmds : Ask(curr, c)
    BY <1>2 DEF Issue
  <2>2. c \in FitCommands
    BY ManPortAssumption DEF NamesFit, FitCommands
  <2>3. cmd \in [Hosts -> Seq(CommandSet)] /\ \A h \in Hosts : cmd[h] \in Seq(FitCommands)
    BY FitParts
  <2>4. \A h \in Hosts : cmd'[h] \in Seq(FitCommands)
    BY <2>1, <2>2, <2>3, AppendProperties DEF Ask
  <2>5. QED BY <1>1, <2>4, FitParts DEF FitKept
<1>3. CASE ChangeHost \/ Collect \/ Quit
  BY <1>1, <1>3, FitStutter DEF ChangeHost, Collect, Quit, manPortVars
<1>4. QED BY <1>2, <1>3 DEF Manages, ManagerStep

\* The simulator starts with nothing on the way.
LEMMA FitInit == Init => FitInv
<1>. SUFFICES ASSUME Init PROVE FitInv
  OBVIOUS
<1>1. /\ \A e \in Wires : wire[e] = << >>
      /\ \A h \in Hosts : jobs[h] = << >> /\ cmd[h] = << >>
  BY DEF Init, WireInit, HostInit, ManPortInit
<1>2. QED BY <1>1, EmptySeq, TypeInvInit DEF FitInv, OneInEach, OnePacket

\* Every step of readers that keep up.
LEMMA FitStep ==
    ASSUME NamesFit
    PROVE  FitInv /\ [PacedNext]_vars => FitInv'
<1>. SUFFICES ASSUME FitInv, [PacedNext]_vars PROVE FitInv'
  OBVIOUS
<1>1. ASSUME Manages PROVE FitKept
  BY <1>1, FitManager
<1>2. ASSUME NEW h \in Hosts, HostRuns(h), Paced PROVE FitKept
  BY <1>2, FitCommandStep, FitPort, FitJobStep DEF HostRuns, HostStep
<1>3. ASSUME NEW s \in Switches, SwitchRuns(s), Paced PROVE FitKept
  <2>1. SwitchStep(s) /\ UNCHANGED <<jobs, cmd>>
    BY <1>3 DEF SwitchRuns, manPortVars, hostVars
  <2>2. QED BY <1>3, <2>1, FitSwitch
<1>4. ASSUME UNCHANGED vars PROVE FitKept
  BY <1>4, FitStutter DEF vars, manPortVars, hostVars
<1>5. FitKept
  BY <1>1, <1>2, <1>3, <1>4 DEF PacedNext, Next, Terminated
<1>6. TypeInv'
  BY TypeInvStep DEF FitInv, PacedNext
<1>7. QED BY <1>5, <1>6 DEF FitKept, FitInv

\* When the readers keep up no packet is cut (net.c:457-474): every pipe starts with
\* the first byte of a packet, as OneCopy asks.
THEOREM PacedUncut ==
    ASSUME NamesFit
    PROVE  PacedSpec => []Uncut
<1>1. Init => FitInv
  BY FitInit
<1>2. FitInv /\ [PacedNext]_vars => FitInv'
  BY FitStep
<1>3. FitInv => Uncut
  BY DEF FitInv, OneInEach, OnePacket, Uncut
<1>4. QED BY <1>1, <1>2, <1>3, PTL DEF PacedSpec

\* And so no tail is taken for a packet, and what a switch has learnt of a host is
\* the neighbour on the path to it, which knows the host too if it is a switch
\* (switch.c:220-256), also while files are moved.
THEOREM RoutedWhenPaced ==
    ASSUME Traffic = PacketSet, SwitchNetwork!TreeAssumption, NamesFit
    PROVE  PacedSpec => [](SwitchNetwork!RoutesPointHome /\ SwitchNetwork!RoutesReachHome)
<1>1. [PacedNext]_vars => [Next]_vars
  BY DEF PacedNext
<1>2. PacedSpec => Init /\ [][Next]_vars
  BY <1>1, PTL DEF PacedSpec
<1>3. PacedSpec => []TailsAreForeign
  BY PacedUncut, UncutIsForeign, PTL
<1>4. QED BY <1>2, <1>3, RoutedIfForeign, PTL

\* And so one switch makes no second copy of a ping (switch.c:217-256), also while
\* files are moved.
THEOREM OneCopyWhenPaced ==
    ASSUME NEW hub, Star(hub), NamesFit
    PROVE  PacedSpec => []NoDuplicatePings
<1>1. FitInv => Uncut
  BY DEF FitInv, OneInEach, OnePacket, Uncut
<1>2. Init => FitInv /\ PingInv
  BY FitInit, PingInit
<1>3. FitInv /\ PingInv /\ [PacedNext]_vars => (FitInv /\ PingInv)'
  BY <1>1, FitStep, PingStep DEF PacedNext
<1>4. QED BY <1>2, <1>3, PingInvImplies, PTL DEF PacedSpec

-----------------------------------------------------------------------------
(* What a receiver makes of a sequence of packets.                         *)

Buffers == [name : Names, data : Seq(Bytes)]

\* The buffer of a receiver after it has handled packet p of a file.
Handle(p, f) == IF p.type = "UPLOAD_START" THEN [name |-> p.body, data |-> << >>]
                ELSE BufAdd(f, p.body)

\* The buffer holds a whole file, or as much of it as it can.
Complete(f) == \E g \in DOMAIN Files : g[2] = f.name /\ f.data = Kept(Files[g])

\* c[k] is the buffer after the first k packets of S, with f before them; after
\* the last packet of a file it holds the file.
History(c, f, S) ==
    /\ c \in [0 .. Len(S) -> Buffers] /\ c[0] = f
    /\ \A k \in 1 .. Len(S) :
         c[k] = Handle(S[k], c[k - 1]) /\ (S[k].type = "UPLOAD_END" => Complete(c[k]))

\* A file ends before the next begins, and the last one ends.
WellFramed(S) ==
    \A k \in 1 .. Len(S) :
        S[k].type = "UPLOAD_END" <=> (k = Len(S) \/ S[k + 1].type = "UPLOAD_START")

\* The rest of a file of which f has come, and whole files.
Parsed(f, S) == WellFramed(S) /\ \E c : History(c, f, S)

\* Whole files only.
Fresh(S) == S = << >> \/ S[1].type = "UPLOAD_START"

\* Nothing to come can be wrong.
LEMMA ParsedEmpty ==
    ASSUME NEW f \in Buffers
    PROVE  Parsed(f, << >>) /\ Fresh(<< >>)
<1>1. History([k \in 0 .. 0 |-> f], f, << >>)
  BY DEF History
<1>2. WellFramed(<< >>)
  BY DEF WellFramed
<1>3. QED BY <1>1, <1>2 DEF Parsed, Fresh

\* A limit on the length twice is the limit once (host.c:74-104, file_buf_add).
LEMMA KeptTwice ==
    ASSUME NEW x \in Seq(Bytes), NEW y \in Seq(Bytes)
    PROVE  /\ Kept(x) \in Seq(Bytes) /\ Kept(Kept(x)) = Kept(x)
           /\ Kept(Kept(x) \o y) = Kept(x \o y)
<1>. DEFINE M == MAX_FILE_BUFFER
<1>1. M \in Nat /\ Len(x) \in Nat /\ Len(y) \in Nat
  BY HostAssumption
<1>2. CASE Len(x) <= M
  BY <1>1, <1>2 DEF Kept
<1>3. CASE ~(Len(x) <= M)
  <2>1. PICK z : z = SubSeq(x, 1, M)
    OBVIOUS
  <2>2. z \in Seq(Bytes) /\ Len(z) = M /\ \A i \in 1 .. M : z[i] = x[i]
    BY <1>1, <1>3, <2>1
  <2>3. Kept(x) = z /\ Kept(z) = z
    BY <1>1, <1>3, <2>1, <2>2 DEF Kept
  <2>4. Kept(z \o y) = z
    <3>1. /\ z \o y \in Seq(Bytes) /\ Len(z \o y) = M + Len(y)
          /\ \A i \in 1 .. M : (z \o y)[i] = z[i]
      BY <1>1, <2>2
    <3>2. SubSeq(z \o y, 1, M) \in Seq(Bytes) /\ Len(SubSeq(z \o y, 1, M)) = M
          /\ \A i \in 1 .. M : SubSeq(z \o y, 1, M)[i] = z[i]
      BY <1>1, <3>1
    <3>3. SubSeq(z \o y, 1, M) = z
      BY <2>2, <3>2, SeqEqual
    <3>4. CASE Len(y) = 0
      <4>1. z \o y = z
        BY <2>2, <3>4, EmptySeq
      <4>2. QED BY <2>3, <4>1
    <3>5. CASE Len(y) > 0
      BY <1>1, <3>1, <3>3, <3>5 DEF Kept
    <3>6. QED BY <1>1, <3>4, <3>5
  <2>5. Kept(x \o y) = z
    <3>1. /\ x \o y \in Seq(Bytes) /\ Len(x \o y) = Len(x) + Len(y)
          /\ \A i \in 1 .. M : (x \o y)[i] = z[i]
      BY <1>1, <1>3, <2>2
    <3>2. SubSeq(x \o y, 1, M) \in Seq(Bytes) /\ Len(SubSeq(x \o y, 1, M)) = M
          /\ \A i \in 1 .. M : SubSeq(x \o y, 1, M)[i] = z[i]
      BY <1>1, <1>3, <3>1
    <3>3. SubSeq(x \o y, 1, M) = z
      BY <2>2, <3>2, SeqEqual
    <3>4. QED BY <1>1, <1>3, <3>1, <3>3 DEF Kept
  <2>6. QED BY <2>2, <2>3, <2>4, <2>5
<1>4. QED BY <1>2, <1>3

\* file_buf_add keeps of the bytes what fits.
LEMMA BufAddKeeps ==
    ASSUME NEW f \in Buffers, NEW body \in Seq(Bytes)
    PROVE  BufAdd(f, body) = [name |-> f.name, data |-> Kept(f.data \o body)]
<1>1. BufAdd(f, body) = [f EXCEPT !.data = Kept(f.data \o body)]
  BY DEF BufAdd, Kept
<1>2. PICK k : k = Kept(f.data \o body)
  OBVIOUS
<1>3. [f EXCEPT !.data = k] = [name |-> f.name, data |-> k]
  BY DEF Buffers
<1>4. QED BY <1>1, <1>2, <1>3

\* A receiver that handles a packet has a buffer.
LEMMA HandleType ==
    ASSUME NEW p \in PacketSet, NEW f \in Buffers
    PROVE  Handle(p, f) \in Buffers
<1>1. p.body \in Seq(Bytes) /\ f.name \in Names /\ f.data \in Seq(Bytes)
  BY DEF PacketSet, Buffers
<1>2. Kept(f.data \o p.body) \in Seq(Bytes)
  <2>1. f.data \o p.body \in Seq(Bytes)
    BY <1>1
  <2>2. QED BY <1>1, <2>1, KeptTwice
<1>3. BufAdd(f, p.body) = [name |-> f.name, data |-> Kept(f.data \o p.body)]
  BY <1>1, BufAddKeeps
<1>4. QED BY <1>1, <1>2, <1>3, EmptySeq DEF Handle, Buffers, Names

\* The first packet is handled; if it is the last of a file, the file is there.
LEMMA ParsedHead ==
    ASSUME NEW p \in PacketSet, NEW S \in Seq(PacketSet), NEW f, Parsed(f, <<p>> \o S)
    PROVE  /\ Parsed(Handle(p, f), S)
           /\ p.type = "UPLOAD_END" => Complete(Handle(p, f)) /\ Fresh(S)
<1>. DEFINE T == <<p>> \o S
<1>1. /\ T \in Seq(PacketSet) /\ Len(S) \in Nat /\ Len(T) = Len(S) + 1 /\ T[1] = p
      /\ \A k \in 1 .. Len(S) : T[k + 1] = S[k]
  OBVIOUS
<1>2. WellFramed(T) /\ \E c : History(c, f, T)
  BY DEF Parsed
<1>. HIDE DEF T
<1>3. PICK c : History(c, f, T)
  BY <1>2
<1>. DEFINE d == [k \in 0 .. Len(S) |-> c[k + 1]]
<1>4. /\ c \in [0 .. Len(T) -> Buffers] /\ c[0] = f
      /\ \A k \in 1 .. Len(T) :
           c[k] = Handle(T[k], c[k - 1]) /\ (T[k].type = "UPLOAD_END" => Complete(c[k]))
  BY <1>3 DEF History
<1>5. d[0] = Handle(p, f) /\ (p.type = "UPLOAD_END" => Complete(d[0]))
  <2>1. 1 \in 1 .. Len(T) /\ 1 - 1 = 0 /\ 0 + 1 = 1 /\ 0 \in 0 .. Len(S)
    BY <1>1
  <2>2. QED BY <1>1, <1>4, <2>1
<1>6. History(d, Handle(p, f), S)
  <2>1. d \in [0 .. Len(S) -> Buffers]
    BY <1>1, <1>4
  <2>2. ASSUME NEW k \in 1 .. Len(S)
        PROVE  d[k] = Handle(S[k], d[k - 1]) /\ (S[k].type = "UPLOAD_END" => Complete(d[k]))
    <3>1. /\ k + 1 \in 1 .. Len(T) /\ (k + 1) - 1 = k /\ (k - 1) + 1 = k
          /\ k \in 0 .. Len(S) /\ k - 1 \in 0 .. Len(S)
      BY <1>1
    <3>2. d[k] = c[k + 1] /\ d[k - 1] = c[k] /\ T[k + 1] = S[k]
      BY <1>1, <3>1
    <3>3. c[k + 1] = Handle(T[k + 1], c[k]) /\ (T[k + 1].type = "UPLOAD_END" => Complete(c[k + 1]))
      BY <1>4, <3>1
    <3>4. QED BY <3>2, <3>3
  <2>. HIDE DEF d
  <2>3. QED BY <1>5, <2>1, <2>2 DEF History
<1>7. WellFramed(S) /\ (p.type = "UPLOAD_END" => Fresh(S))
  <2>1. \A k \in 1 .. Len(T) :
          T[k].type = "UPLOAD_END" <=> (k = Len(T) \/ T[k + 1].type = "UPLOAD_START")
    BY <1>2 DEF WellFramed
  <2>2. ASSUME NEW k \in 1 .. Len(S)
        PROVE  S[k].type = "UPLOAD_END" <=> (k = Len(S) \/ S[k + 1].type = "UPLOAD_START")
    <3>1. k + 1 \in 1 .. Len(T) /\ T[k + 1] = S[k] /\ (k + 1 = Len(T) <=> k = Len(S))
      BY <1>1
    <3>2. k # Len(S) => T[(k + 1) + 1] = S[k + 1]
      BY <1>1
    <3>3. QED BY <2>1, <3>1, <3>2
  <2>3. ASSUME p.type = "UPLOAD_END" PROVE Fresh(S)
    <3>1. CASE Len(S) = 0
      BY <3>1, EmptySeq DEF Fresh
    <3>2. CASE Len(S) > 0
      <4>1. 1 \in 1 .. Len(T) /\ 1 # Len(T) /\ T[1 + 1] = S[1]
        BY <1>1, <3>2
      <4>2. QED BY <1>1, <2>1, <2>3, <4>1 DEF Fresh
    <3>3. QED BY <1>1, <3>1, <3>2
  <2>4. QED BY <2>2, <2>3 DEF WellFramed
<1>. HIDE DEF d
<1>8. QED BY <1>5, <1>6, <1>7 DEF Parsed

\* What comes next does not depend on the buffer if a file begins.
LEMMA ParsedFresh ==
    ASSUME NEW S \in Seq(PacketSet), NEW f, Parsed(f, S), Fresh(S), NEW g \in Buffers
    PROVE  Parsed(g, S)
<1>1. PICK c : History(c, f, S)
  BY DEF Parsed
<1>. DEFINE d == [k \in 0 .. Len(S) |-> IF k = 0 THEN g ELSE c[k]]
<1>2. /\ c \in [0 .. Len(S) -> Buffers] /\ Len(S) \in Nat
      /\ \A k \in 1 .. Len(S) :
           c[k] = Handle(S[k], c[k - 1]) /\ (S[k].type = "UPLOAD_END" => Complete(c[k]))
  BY <1>1 DEF History
<1>3. d \in [0 .. Len(S) -> Buffers] /\ d[0] = g
  BY <1>2
<1>4. ASSUME NEW k \in 1 .. Len(S)
      PROVE  d[k] = Handle(S[k], d[k - 1]) /\ (S[k].type = "UPLOAD_END" => Complete(d[k]))
  <2>1. d[k] = c[k] /\ k \in 0 .. Len(S) /\ k - 1 \in 0 .. Len(S)
    BY <1>2
  <2>2. CASE k = 1
    <3>1. S[1].type = "UPLOAD_START"
      BY <1>2, <1>4, EmptySeq DEF Fresh
    <3>2. QED BY <1>2, <2>1, <2>2, <3>1 DEF Handle
  <2>3. CASE k # 1
    <3>1. d[k - 1] = c[k - 1]
      BY <1>2, <2>1, <2>3
    <3>2. QED BY <1>2, <2>1, <3>1
  <2>4. QED BY <2>2, <2>3
<1>. HIDE DEF d
<1>5. QED BY <1>3, <1>4 DEF Parsed, History

\* A file that is sent is sent behind the others.
LEMMA ParsedConcat ==
    ASSUME NEW S \in Seq(PacketSet), NEW U \in Seq(PacketSet), NEW f,
           Parsed(f, S), Fresh(U), \A g \in Buffers : Parsed(g, U)
    PROVE  Parsed(f, S \o U) /\ (Fresh(S) => Fresh(S \o U))
<1>. DEFINE T == S \o U
            n == Len(S)
            m == Len(U)
<1>1. /\ T \in Seq(PacketSet) /\ n \in Nat /\ m \in Nat /\ Len(T) = n + m
      /\ \A k \in 1 .. n : T[k] = S[k]
      /\ \A k \in 1 .. m : T[n + k] = U[k]
  OBVIOUS
<1>2. WellFramed(S) /\ WellFramed(U)
  <2>1. PICK g \in Buffers : TRUE
    <3>1. [name |-> << >>, data |-> << >>] \in Buffers
      BY EmptySeq DEF Buffers, Names
    <3>2. QED BY <3>1
  <2>2. QED BY <2>1 DEF Parsed
<1>3. PICK c : History(c, f, S)
  BY DEF Parsed
<1>. HIDE DEF T, n, m
<1>4. /\ c \in [0 .. n -> Buffers] /\ c[0] = f
      /\ \A k \in 1 .. n :
           c[k] = Handle(S[k], c[k - 1]) /\ (S[k].type = "UPLOAD_END" => Complete(c[k]))
  BY <1>3 DEF History, n
<1>5. c[n] \in Buffers
  BY <1>1, <1>4
<1>6. PICK b : History(b, c[n], U)
  BY <1>5 DEF Parsed
<1>7. /\ b \in [0 .. m -> Buffers] /\ b[0] = c[n]
      /\ \A k \in 1 .. m :
           b[k] = Handle(U[k], b[k - 1]) /\ (U[k].type = "UPLOAD_END" => Complete(b[k]))
  BY <1>6 DEF History, m
<1>. DEFINE d == [k \in 0 .. n + m |-> IF k <= n THEN c[k] ELSE b[k - n]]
<1>8. d \in [0 .. n + m -> Buffers] /\ d[0] = f
  BY <1>1, <1>4, <1>7
<1>9. ASSUME NEW k \in 1 .. n + m
      PROVE  d[k] = Handle(T[k], d[k - 1]) /\ (T[k].type = "UPLOAD_END" => Complete(d[k]))
  <2>1. k \in 0 .. n + m /\ k - 1 \in 0 .. n + m
    BY <1>1
  <2>2. CASE k \in 1 .. n
    <3>1. d[k] = c[k] /\ d[k - 1] = c[k - 1] /\ T[k] = S[k]
      BY <1>1, <2>1, <2>2
    <3>2. QED BY <1>4, <2>2, <3>1
  <2>3. CASE k \notin 1 .. n
    <3>1. k - n \in 1 .. m /\ n + (k - n) = k /\ (k - n) - 1 = (k - 1) - n
      BY <1>1, <2>3
    <3>2. d[k] = b[k - n] /\ T[k] = U[k - n]
      BY <1>1, <2>1, <2>3, <3>1
    <3>3. d[k - 1] = b[(k - n) - 1]
      <4>1. CASE k = n + 1
        BY <1>1, <1>7, <2>1, <4>1
      <4>2. CASE k # n + 1
        <5>1. ~(k - 1 <= n)
          BY <1>1, <2>3, <4>2
        <5>2. QED BY <2>1, <3>1, <5>1
      <4>3. QED BY <4>1, <4>2
    <3>4. QED BY <1>7, <3>1, <3>2, <3>3
  <2>4. QED BY <2>2, <2>3
<1>. HIDE DEF d
<1>10. History(d, f, T)
  BY <1>1, <1>8, <1>9 DEF History
<1>11. WellFramed(T)
  <2>1. ASSUME NEW k \in 1 .. n + m
        PROVE  T[k].type = "UPLOAD_END" <=> (k = n + m \/ T[k + 1].type = "UPLOAD_START")
    <3>1. CASE k \in 1 .. n
      <4>1. S[k].type = "UPLOAD_END" <=> (k = n \/ S[k + 1].type = "UPLOAD_START")
        BY <1>2, <3>1 DEF WellFramed, n
      <4>2. T[k] = S[k]
        BY <1>1, <3>1
      <4>3. CASE k # n
        <5>1. T[k + 1] = S[k + 1] /\ k # n + m
          BY <1>1, <3>1, <4>3
        <5>2. QED BY <4>1, <4>2, <4>3, <5>1
      <4>4. CASE k = n
        <5>1. CASE m = 0
          BY <1>1, <4>1, <4>2, <4>4, <5>1
        <5>2. CASE m > 0
          <6>1. T[k + 1] = U[1]
            BY <1>1, <4>4, <5>2
          <6>2. U[1].type = "UPLOAD_START"
            BY <5>2, EmptySeq DEF Fresh, m
          <6>3. QED BY <4>1, <4>2, <4>4, <6>1, <6>2
        <5>3. QED BY <1>1, <5>1, <5>2
      <4>5. QED BY <4>3, <4>4
    <3>2. CASE k \notin 1 .. n
      <4>1. k - n \in 1 .. m /\ n + (k - n) = k
        BY <1>1, <3>2
      <4>2. U[k - n].type = "UPLOAD_END" <=> (k - n = m \/ U[(k - n) + 1].type = "UPLOAD_START")
        BY <1>2, <4>1 DEF WellFramed, m
      <4>3. T[k] = U[k - n] /\ (k - n = m <=> k = n + m)
        BY <1>1, <4>1
      <4>4. k # n + m => T[k + 1] = U[(k - n) + 1]
        <5>1. k # n + m => (k - n) + 1 \in 1 .. m /\ n + ((k - n) + 1) = k + 1
          BY <1>1, <4>1
        <5>2. QED BY <1>1, <5>1
      <4>5. QED BY <4>2, <4>3, <4>4
    <3>3. QED BY <3>1, <3>2
  <2>2. QED BY <1>1, <2>1 DEF WellFramed
<1>12. Fresh(S) => Fresh(T)
  <2>1. CASE n = 0
    <3>1. S = << >> /\ T = U
      BY <2>1, EmptySeq DEF n, T
    <3>2. QED BY <3>1
  <2>2. CASE n > 0
    <3>1. S # << >> /\ T[1] = S[1]
      BY <1>1, <2>2, EmptySeq DEF n
    <3>2. QED BY <3>1 DEF Fresh
  <2>3. QED BY <1>1, <2>1, <2>2
<1>13. QED BY <1>10, <1>11, <1>12 DEF Parsed, T

-----------------------------------------------------------------------------
(* The packets of an upload.                                               *)

\* The packet of each job.
Pkts(q) == [k \in DOMAIN q |-> q[k].pkt]

\* A file of that name is a file of the start, or what a receiver keeps of one.
Intact(name, data) ==
    \E g \in DOMAIN Files : g[2] = name /\ data \in {Files[g], Kept(Files[g])}

\* Two pieces that follow each other.
LEMMA TwoPieces ==
    ASSUME NEW data \in Seq(Bytes), NEW a \in Nat, NEW b \in Nat, a <= b, b <= Len(data)
    PROVE  /\ SubSeq(data, 1, a) \o SubSeq(data, a + 1, b) = SubSeq(data, 1, b)
           /\ SubSeq(data, 1, a) \in Seq(Bytes) /\ SubSeq(data, a + 1, b) \in Seq(Bytes)
<1>1. PICK x, y, z : x = SubSeq(data, 1, a) /\ y = SubSeq(data, a + 1, b) /\ z = SubSeq(data, 1, b)
  OBVIOUS
<1>2. x \in Seq(Bytes) /\ Len(x) = a /\ \A i \in 1 .. a : x[i] = data[i]
  BY <1>1
<1>3. y \in Seq(Bytes) /\ Len(y) = b - a /\ \A i \in 1 .. b - a : y[i] = data[a + i]
  BY <1>1
<1>4. z \in Seq(Bytes) /\ Len(z) = b /\ \A i \in 1 .. b : z[i] = data[i]
  BY <1>1
<1>5. /\ x \o y \in Seq(Bytes) /\ Len(x \o y) = a + (b - a)
      /\ \A i \in 1 .. a : (x \o y)[i] = x[i]
      /\ \A i \in 1 .. b - a : (x \o y)[a + i] = y[i]
  <2>1. /\ x \o y \in Seq(Bytes) /\ Len(x \o y) = Len(x) + Len(y)
        /\ \A k \in 1 .. Len(x) : (x \o y)[k] = x[k]
        /\ \A k \in 1 .. Len(y) : (x \o y)[Len(x) + k] = y[k]
    <3>1. x \in Seq(Bytes) /\ y \in Seq(Bytes)
      BY <1>2, <1>3
    <3>2. QED BY <3>1, ConcatFacts
  <2>2. Len(x) = a /\ Len(y) = b - a
    BY <1>2, <1>3
  <2>3. QED BY <2>1, <2>2
<1>6. ASSUME NEW i \in 1 .. b PROVE (x \o y)[i] = z[i]
  <2>1. CASE i <= a
    <3>1. i \in 1 .. a
      BY <2>1
    <3>2. QED BY <1>2, <1>4, <1>5, <3>1
  <2>2. CASE ~(i <= a)
    <3>1. PICK j \in 1 .. b - a : i = a + j
      <4>1. i - a \in 1 .. b - a /\ i = a + (i - a)
        BY <2>2
      <4>2. QED BY <4>1
    <3>2. (x \o y)[i] = y[j] /\ y[j] = data[i]
      BY <1>3, <1>5, <3>1
    <3>3. QED BY <1>4, <3>2
  <2>3. QED BY <2>1, <2>2
<1>7. x \o y = z
  <2>1. Len(x \o y) = b
    BY <1>5
  <2>2. QED BY <1>4, <1>5, <1>6, <2>1, SeqEqual
<1>8. QED BY <1>1, <1>2, <1>3, <1>7

\* U has the packets of an upload of full full payloads.
IsUpload(U, full, h, dst, name, data) ==
    /\ full \in Nat /\ U \in Seq(PacketSet) /\ Len(U) = full + 2
    /\ U[1] = Packet(h, dst, "UPLOAD_START", name)
    /\ \A i \in 1 .. full :
         U[i + 1] = Packet(h, dst, "UPLOAD_IN",
                           SubSeq(data, (i - 1) * PAYLOAD_MAX + 1, i * PAYLOAD_MAX))
    /\ U[full + 2] = Packet(h, dst, "UPLOAD_END",
                            SubSeq(data, full * PAYLOAD_MAX + 1, Len(data)))

\* Where the packets are, and what each has (host.c:620-668).
LEMMA UploadPackets ==
    ASSUME NEW h \in Hosts, NEW dst \in Int, NEW name \in Names, NEW data \in Seq(Bytes),
           NEW U, U = Pkts(UploadJobs(h, dst, name, data)),
           NEW full, full = Len(data) \div PAYLOAD_MAX
    PROVE  IsUpload(U, full, h, dst, name, data)
<1>. DEFINE J == UploadJobs(h, dst, name, data)
            Part(i) == SubSeq(data, (i - 1) * PAYLOAD_MAX + 1, i * PAYLOAD_MAX)
            rest == SubSeq(data, full * PAYLOAD_MAX + 1, Len(data))
            A == <<SendAll(Packet(h, dst, "UPLOAD_START", name))>>
            B == [i \in 1 .. full |-> SendAll(Packet(h, dst, "UPLOAD_IN", Part(i)))]
            C == <<SendAll(Packet(h, dst, "UPLOAD_END", rest))>>
            E == OwnSends(h)
<1>1. full \in Nat
  <2>1. Len(data) \in Nat /\ PAYLOAD_MAX \in Nat /\ PAYLOAD_MAX > 0
    BY SizeAssumption, HostAssumption
  <2>2. Len(data) \div PAYLOAD_MAX \in Nat
    BY <2>1
  <2>3. QED BY <2>2
<1>2. J \in Seq(E)
  BY UploadJobsType
<1>3. J = A \o B \o C
  BY DEF UploadJobs
<1>4. /\ A \in Seq({A[1]}) /\ Len(A) = 1 /\ C \in Seq({C[1]}) /\ Len(C) = 1
      /\ B \in Seq(Range(B)) /\ Len(B) = full
  <2>1. B \in Seq(Range(B)) /\ Len(B) = full
    <3>1. \A i \in 1 .. full : B[i] \in Range(B)
      BY DEF Range
    <3>2. B \in [1 .. full -> Range(B)]
      BY <3>1
    <3>. HIDE DEF B
    <3>3. QED BY <1>1, <3>2
  <2>2. \A x : <<x>> \in Seq({x}) /\ Len(<<x>>) = 1 /\ <<x>>[1] = x
    OBVIOUS
  <2>. HIDE DEF B
  <2>3. /\ A \in Seq({A[1]}) /\ Len(A) = 1 /\ C \in Seq({C[1]}) /\ Len(C) = 1
    BY <2>2
  <2>4. QED BY <2>1, <2>3
<1>5. \A i \in 1 .. full : B[i] = SendAll(Packet(h, dst, "UPLOAD_IN", Part(i)))
  OBVIOUS
<1>6. /\ A[1] = SendAll(Packet(h, dst, "UPLOAD_START", name))
      /\ C[1] = SendAll(Packet(h, dst, "UPLOAD_END", rest))
  OBVIOUS
<1>. HIDE DEF A, B, C, J, E, Part, rest
<1>7. /\ Len(J) = full + 2 /\ J[1] = A[1] /\ J[full + 2] = C[1]
      /\ \A i \in 1 .. full : J[i + 1] = B[i]
  <2>1. PICK D : \A x \in {A[1], C[1]} \cup Range(B) : x \in D
    OBVIOUS
  <2>2. A \in Seq(D) /\ B \in Seq(D) /\ C \in Seq(D)
    BY <1>4, <2>1, SeqMonotonic
  <2>3. /\ A \o B \in Seq(D) /\ Len(A \o B) = full + 1 /\ (A \o B)[1] = A[1]
        /\ \A i \in 1 .. full : (A \o B)[i + 1] = B[i]
    <3>1. /\ A \o B \in Seq(D) /\ Len(A \o B) = Len(A) + Len(B)
          /\ \A i \in 1 .. Len(A) : (A \o B)[i] = A[i]
          /\ \A i \in 1 .. Len(B) : (A \o B)[Len(A) + i] = B[i]
      BY <2>2, ConcatFacts
    <3>2. \A i \in 1 .. full : i + 1 = 1 + i
      BY <1>1
    <3>3. QED BY <1>1, <1>4, <3>1, <3>2
  <2>4. /\ Len((A \o B) \o C) = full + 2
        /\ \A i \in 1 .. full + 1 : ((A \o B) \o C)[i] = (A \o B)[i]
        /\ ((A \o B) \o C)[full + 2] = C[1]
    <3>1. PICK F : F = A \o B
      OBVIOUS
    <3>2. /\ F \o C \in Seq(D) /\ Len(F \o C) = Len(F) + Len(C)
          /\ \A i \in 1 .. Len(F) : (F \o C)[i] = F[i]
          /\ \A i \in 1 .. Len(C) : (F \o C)[Len(F) + i] = C[i]
      BY <2>2, <2>3, <3>1, ConcatFacts
    <3>3. Len(F) = full + 1 /\ Len(C) = 1 /\ (full + 1) + 1 = full + 2
      BY <1>1, <1>4, <2>3, <3>1
    <3>4. F[1] = A[1] /\ (F \o C)[Len(F) + 1] = C[1]
      <4>1. 1 \in 1 .. Len(C)
        BY <3>3
      <4>2. F[1] = A[1]
        BY <2>3, <3>1
      <4>3. QED BY <3>2, <4>1, <4>2
    <3>5. Len(F) + 1 = full + 2
      BY <3>3
    <3>6. /\ Len(F \o C) = full + 2 /\ (F \o C)[full + 2] = C[1]
          /\ \A i \in 1 .. full + 1 : (F \o C)[i] = F[i]
      BY <3>2, <3>3, <3>4, <3>5
    <3>7. QED BY <3>1, <3>6
  <2>5. \A i \in 1 .. full : i + 1 \in 1 .. full + 1
    BY <1>1
  <2>6. 1 \in 1 .. full + 1
    BY <1>1
  <2>7. QED BY <1>3, <2>3, <2>4, <2>5, <2>6
<1>8. /\ DOMAIN J = 1 .. full + 2 /\ U = [k \in 1 .. full + 2 |-> J[k].pkt]
      /\ \A k \in 1 .. full + 2 : J[k] \in E
  <2>1. DOMAIN J = 1 .. full + 2 /\ \A k \in 1 .. full + 2 : J[k] \in E
    BY <1>2, <1>7
  <2>2. U = [k \in DOMAIN J |-> J[k].pkt]
    BY DEF Pkts, J
  <2>3. QED BY <2>1, <2>2
<1>9. \A j \in E : j.pkt \in PacketSet
  BY DEF E, OwnSends, SendAll
<1>10. U \in Seq(PacketSet) /\ Len(U) = full + 2
  BY <1>1, <1>8, <1>9
<1>11. /\ 1 \in 1 .. full + 2 /\ full + 2 \in 1 .. full + 2
       /\ \A i \in 1 .. full : i + 1 \in 1 .. full + 2
  BY <1>1
<1>12. \A p : SendAll(p).pkt = p
  BY DEF SendAll
<1>13. U[1] = Packet(h, dst, "UPLOAD_START", name)
  BY <1>6, <1>7, <1>8, <1>11, <1>12
<1>14. U[full + 2] = Packet(h, dst, "UPLOAD_END", rest)
  BY <1>6, <1>7, <1>8, <1>11, <1>12
<1>15. \A i \in 1 .. full : U[i + 1] = Packet(h, dst, "UPLOAD_IN", Part(i))
  BY <1>5, <1>7, <1>8, <1>11, <1>12
<1>16. QED BY <1>1, <1>10, <1>13, <1>14, <1>15 DEF IsUpload, Part, rest

\* An upload of a file that is intact gives a receiver the file, whatever the
\* receiver has had before (host.c:600-747).
LEMMA UploadParsed ==
    ASSUME NEW h \in Hosts, NEW dst \in Int, NEW name \in Names, NEW data \in Seq(Bytes),
           Intact(name, data), NEW U, U = Pkts(UploadJobs(h, dst, name, data))
    PROVE  U \in Seq(PacketSet) /\ Fresh(U) /\ \A g \in Buffers : Parsed(g, U)
<1>1. PICK full : full = Len(data) \div PAYLOAD_MAX
  OBVIOUS
<1>2. /\ full \in Nat /\ U \in Seq(PacketSet) /\ Len(U) = full + 2
      /\ U[1] = Packet(h, dst, "UPLOAD_START", name)
      /\ \A i \in 1 .. full :
           U[i + 1] = Packet(h, dst, "UPLOAD_IN",
                             SubSeq(data, (i - 1) * PAYLOAD_MAX + 1, i * PAYLOAD_MAX))
      /\ U[full + 2] = Packet(h, dst, "UPLOAD_END",
                              SubSeq(data, full * PAYLOAD_MAX + 1, Len(data)))
  <2>1. IsUpload(U, full, h, dst, name, data)
    BY <1>1, UploadPackets
  <2>2. QED BY <2>1 DEF IsUpload
<1>3. PAYLOAD_MAX \in Nat /\ Len(data) \in Nat /\ full * PAYLOAD_MAX <= Len(data)
  <2>1. Len(data) \in Nat /\ PAYLOAD_MAX \in Nat /\ PAYLOAD_MAX > 0
    BY SizeAssumption, HostAssumption
  <2>2. PICK m : m = Len(data)
    OBVIOUS
  <2>3. m \in Nat /\ (m \div PAYLOAD_MAX) * PAYLOAD_MAX <= m
    BY <2>1, <2>2
  <2>4. QED BY <1>1, <2>1, <2>2, <2>3
<1>. DEFINE Upto(i) == SubSeq(data, 1, i * PAYLOAD_MAX)
            Had(d) == [name |-> name, data |-> d]
<1>4. \A d \in Seq(Bytes) : Had(Kept(d)) \in Buffers
  BY KeptTwice DEF Buffers
<1>5. ASSUME NEW i \in 0 .. full
      PROVE  i * PAYLOAD_MAX \in Nat /\ i * PAYLOAD_MAX <= Len(data) /\ Upto(i) \in Seq(Bytes)
  <2>1. i * PAYLOAD_MAX \in Nat /\ i * PAYLOAD_MAX <= full * PAYLOAD_MAX
    BY <1>2, <1>3
  <2>2. PICK a \in Nat : a = i * PAYLOAD_MAX
    BY <2>1
  <2>3. SubSeq(data, 1, a) \in Seq(Bytes)
    <3>1. a <= Len(data)
      BY <1>2, <1>3, <2>1, <2>2
    <3>2. QED BY <1>3, <2>2, <3>1, TwoPieces
  <2>4. i * PAYLOAD_MAX <= Len(data)
    <3>1. PICK b : b = full * PAYLOAD_MAX
      OBVIOUS
    <3>2. b \in Int /\ b <= Len(data) /\ a <= b
      BY <1>2, <1>3, <2>1, <2>2, <3>1
    <3>3. QED BY <1>3, <2>2, <3>2
  <2>5. QED BY <2>1, <2>2, <2>3, <2>4
<1>6. SUFFICES ASSUME NEW g \in Buffers PROVE Parsed(g, U)
  <2>1. Fresh(U)
    BY <1>2 DEF Fresh, Packet
  <2>2. QED BY <1>2, <1>6, <2>1
<1>. DEFINE c == [k \in 0 .. full + 2 |-> IF k = 0 THEN g
                                          ELSE IF k = full + 2 THEN Had(Kept(data))
                                          ELSE Had(Kept(Upto(k - 1)))]
<1>7. c \in [0 .. full + 2 -> Buffers] /\ c[0] = g
  <2>1. ASSUME NEW k \in 0 .. full + 2, k # 0, k # full + 2 PROVE Had(Kept(Upto(k - 1))) \in Buffers
    <3>1. k - 1 \in 0 .. full
      BY <1>2, <2>1
    <3>. HIDE DEF Had, Upto
    <3>2. QED BY <1>4, <1>5, <3>1
  <2>2. Had(Kept(data)) \in Buffers
    BY <1>4
  <2>. HIDE DEF Had, Upto
  <2>3. QED BY <1>2, <2>1, <2>2
<1>8. /\ c[full + 2] = Had(Kept(data))
      /\ \A i \in 0 .. full : c[i + 1] = Had(Kept(Upto(i)))
  <2>1. full + 2 \in 0 .. full + 2 /\ full + 2 # 0
    BY <1>2
  <2>2. ASSUME NEW i \in 0 .. full PROVE c[i + 1] = Had(Kept(Upto(i)))
    <3>1. i + 1 \in 0 .. full + 2 /\ i + 1 # 0 /\ i + 1 # full + 2 /\ (i + 1) - 1 = i
      BY <1>2
    <3>. HIDE DEF Had, Upto
    <3>2. QED BY <3>1
  <2>. HIDE DEF Had, Upto
  <2>3. QED BY <2>1, <2>2
<1>9. Complete(Had(Kept(data)))
  <2>1. PICK f \in DOMAIN Files : f[2] = name /\ data \in {Files[f], Kept(Files[f])}
    BY DEF Intact
  <2>2. Files[f] \in Seq(Bytes)
    BY HostAssumption
  <2>3. Kept(data) = Kept(Files[f])
    <3>1. Kept(Kept(Files[f])) = Kept(Files[f])
      BY <2>2, KeptTwice
    <3>2. QED BY <2>1, <3>1
  <2>4. QED BY <2>1, <2>3 DEF Complete
\* What the receiver adds to what it kept of a part is what it keeps of both.
<1>10. ASSUME NEW type, type # "UPLOAD_START", NEW body \in Seq(Bytes), NEW d \in Seq(Bytes)
       PROVE  Handle(Packet(h, dst, type, body), Had(Kept(d))) = Had(Kept(d \o body))
  <2>1. Had(Kept(d)) \in Buffers
    BY <1>4
  <2>2. BufAdd(Had(Kept(d)), body) = Had(Kept(Kept(d) \o body))
    BY <2>1, BufAddKeeps
  <2>3. Kept(Kept(d) \o body) = Kept(d \o body)
    BY KeptTwice
  <2>4. Packet(h, dst, type, body).type = type /\ Packet(h, dst, type, body).body = body
    BY DEF Packet
  <2>5. QED BY <1>10, <2>2, <2>3, <2>4 DEF Handle
<1>11. ASSUME NEW k \in 1 .. full + 2
       PROVE  c[k] = Handle(U[k], c[k - 1]) /\ (U[k].type = "UPLOAD_END" => Complete(c[k]))
  <2>1. CASE k = 1
    <3>1. c[1] = Had(Kept(Upto(0)))
      <4>1. 0 \in 0 .. full /\ 0 + 1 = 1
        BY <1>2
      <4>. HIDE DEF c, Had, Upto
      <4>2. QED BY <1>8, <4>1
    <3>2. Kept(Upto(0)) = << >>
      <4>1. 0 * PAYLOAD_MAX = 0
        BY <1>3
      <4>2. SubSeq(data, 1, 0) = << >>
        OBVIOUS
      <4>3. Kept(<< >>) = << >>
        BY EmptySeq, HostAssumption DEF Kept
      <4>4. QED BY <4>1, <4>2, <4>3
    <3>3. U[1].type = "UPLOAD_START" /\ U[1].body = name
      BY <1>2 DEF Packet
    <3>. HIDE DEF c, Upto
    <3>4. QED BY <2>1, <3>1, <3>2, <3>3 DEF Handle
  <2>2. CASE k \in 2 .. full + 1
    <3>1. PICK i \in 1 .. full : k = i + 1
      <4>1. k - 1 \in 1 .. full /\ k = (k - 1) + 1
        BY <1>2, <2>2
      <4>2. QED BY <4>1
    <3>2. i \in 0 .. full /\ i - 1 \in 0 .. full /\ (i - 1) + 1 = i /\ k - 1 = i
      BY <1>2, <3>1
    <3>3. c[k] = Had(Kept(Upto(i))) /\ c[k - 1] = Had(Kept(Upto(i - 1)))
      <4>. HIDE DEF c, Had, Upto
      <4>1. QED BY <1>8, <3>1, <3>2
    <3>4. PICK a \in Nat, b \in Nat : a = (i - 1) * PAYLOAD_MAX /\ b = i * PAYLOAD_MAX
      BY <1>5, <3>2
    <3>5. a <= b /\ b <= Len(data)
      <4>1. b = a + PAYLOAD_MAX
        BY <1>2, <1>3, <3>1, <3>4
      <4>2. QED BY <1>3, <1>5, <3>2, <3>4, <4>1
    <3>6. PICK part : part = SubSeq(data, a + 1, b)
      OBVIOUS
    <3>7. Upto(i) = Upto(i - 1) \o part /\ part \in Seq(Bytes) /\ Upto(i - 1) \in Seq(Bytes)
      BY <3>4, <3>5, <3>6, TwoPieces
    <3>8. U[k] = Packet(h, dst, "UPLOAD_IN", part) /\ U[k].type = "UPLOAD_IN"
      <4>1. U[i + 1] = Packet(h, dst, "UPLOAD_IN", SubSeq(data, (i - 1) * PAYLOAD_MAX + 1, i * PAYLOAD_MAX))
        BY <1>2
      <4>2. U[k] = Packet(h, dst, "UPLOAD_IN", part)
        BY <3>1, <3>4, <3>6, <4>1
      <4>3. QED BY <4>2 DEF Packet
    <3>. HIDE DEF c, Had, Upto
    <3>9. QED BY <1>10, <3>3, <3>7, <3>8
  <2>3. CASE k = full + 2
    <3>1. c[k - 1] = Had(Kept(Upto(full)))
      <4>1. k - 1 = full + 1 /\ full \in 0 .. full
        BY <1>2, <2>3
      <4>. HIDE DEF c, Had, Upto
      <4>2. QED BY <1>8, <4>1
    <3>2. PICK a \in Nat : a = full * PAYLOAD_MAX
      BY <1>2, <1>3
    <3>3. PICK rest : rest = SubSeq(data, a + 1, Len(data))
      OBVIOUS
    <3>4. data = Upto(full) \o rest /\ rest \in Seq(Bytes) /\ Upto(full) \in Seq(Bytes)
      <4>1. SubSeq(data, 1, Len(data)) = data
        BY <1>3
      <4>2. a <= Len(data) /\ Upto(full) = SubSeq(data, 1, a)
        BY <1>3, <3>2
      <4>3. /\ SubSeq(data, 1, a) \o SubSeq(data, a + 1, Len(data)) = SubSeq(data, 1, Len(data))
            /\ SubSeq(data, 1, a) \in Seq(Bytes) /\ SubSeq(data, a + 1, Len(data)) \in Seq(Bytes)
        <5>1. PICK b \in Nat : b = Len(data)
          BY <1>3
        <5>2. a <= b /\ b <= Len(data)
          BY <4>2, <5>1
        <5>3. QED BY <5>1, <5>2, TwoPieces
      <4>. HIDE DEF Upto
      <4>4. QED BY <3>3, <4>1, <4>2, <4>3
    <3>5. U[k] = Packet(h, dst, "UPLOAD_END", rest)
      BY <1>2, <2>3, <3>2, <3>3
    <3>. HIDE DEF c, Had, Upto
    <3>6. Handle(U[k], c[k - 1]) = Had(Kept(data))
      BY <1>10, <3>1, <3>4, <3>5
    <3>7. QED BY <1>8, <1>9, <2>3, <3>6
  <2>4. QED BY <1>2, <2>1, <2>2, <2>3
<1>. HIDE DEF c
<1>12. History(c, g, U)
  BY <1>2, <1>7, <1>11 DEF History
<1>13. WellFramed(U)
  <2>1. U[1].type = "UPLOAD_START" /\ U[full + 2].type = "UPLOAD_END"
        /\ \A i \in 1 .. full : U[i + 1].type = "UPLOAD_IN"
    <3>1. \A type, body : Packet(h, dst, type, body).type = type
      BY DEF Packet
    <3>2. QED BY <1>2, <3>1
  <2>2. ASSUME NEW k \in 1 .. full + 2
        PROVE  U[k].type = "UPLOAD_END" <=> (k = full + 2 \/ U[k + 1].type = "UPLOAD_START")
    <3>1. \A i \in 2 .. full + 1 : U[i].type = "UPLOAD_IN"
      <4>1. \A i \in 2 .. full + 1 : i - 1 \in 1 .. full /\ (i - 1) + 1 = i
        BY <1>2
      <4>2. QED BY <2>1, <4>1
    <3>2. CASE k = full + 2
      BY <2>1, <3>2
    <3>3. CASE k # full + 2
      <4>1. U[k].type \in {"UPLOAD_START", "UPLOAD_IN"}
        BY <1>2, <2>1, <3>1, <3>3
      <4>2. k + 1 \in 2 .. full + 2
        BY <1>2, <3>3
      <4>3. U[k + 1].type \in {"UPLOAD_IN", "UPLOAD_END"}
        BY <1>2, <2>1, <3>1, <4>2
      <4>4. QED BY <3>3, <4>1, <4>3
    <3>4. QED BY <3>2, <3>3
  <2>3. QED BY <1>2, <2>2 DEF WellFramed
<1>14. QED BY <1>12, <1>13 DEF Parsed

\* Jobs of which each holds one packet: the packets of the queue.
LEMMA PacketsOfAll ==
    ASSUME NEW E, NEW f, Maps(f, E, Seq(PacketSet)),
           NEW D, D \subseteq E, \A e \in D : f[e] = <<e.pkt>>
    PROVE  \A q \in Seq(D) : Packets(f, q) = Pkts(q)
<1>. DEFINE T == {q \in Seq(D) : Packets(f, q) = Pkts(q)}
<1>1. /\ Packets(f, << >>) = << >>
      /\ \A a \in Seq(E) : Packets(f, a) \in Seq(PacketSet)
      /\ \A e \in E : Packets(f, <<e>>) = f[e]
      /\ \A a, b \in Seq(E) : Packets(f, a \o b) = Packets(f, a) \o Packets(f, b)
  BY PacketsParts DEF InTurn
<1>2. << >> \in T
  <2>1. Pkts(<< >>) = << >>
    BY EmptySeq DEF Pkts
  <2>2. << >> \in Seq(D)
    OBVIOUS
  <2>3. QED BY <1>1, <2>1, <2>2
<1>3. ASSUME NEW q \in Seq(D), NEW e \in D, q \in T PROVE Append(q, e) \in T
  <2>1. Append(q, e) \in Seq(D) /\ Append(q, e) = q \o <<e>> /\ <<e>> \in Seq(D)
    OBVIOUS
  <2>2. q \in Seq(E) /\ <<e>> \in Seq(E) /\ e \in E
    BY <2>1, SeqMonotonic
  <2>3. PICK x, y, l : x = Pkts(q) /\ y = e.pkt /\ l = Append(q, e)
    OBVIOUS
  <2>4. x \in Seq(PacketSet) /\ Packets(f, l) = x \o <<y>>
    BY <1>1, <1>3, <2>1, <2>2, <2>3
  <2>5. y \in PacketSet
    <3>1. <<y>> \in Seq(PacketSet)
      BY <2>2, <2>3 DEF Maps
    <3>2. QED BY <3>1
  <2>6. DOMAIN x = 1 .. Len(q) /\ Len(x) = Len(q) /\ \A k \in 1 .. Len(q) : x[k] = q[k].pkt
    BY <2>3, <2>4 DEF Pkts
  <2>7. x \o <<y>> = Append(x, y) /\ Append(x, y) \in Seq(PacketSet)
    BY <2>4, <2>5
  <2>8. /\ DOMAIN l = 1 .. Len(q) + 1 /\ l[Len(q) + 1] = e
        /\ \A k \in 1 .. Len(q) : l[k] = q[k]
    BY <2>3
  <2>9. PICK m : m = Append(x, y)
    OBVIOUS
  <2>10. /\ m \in Seq(PacketSet) /\ Len(m) = Len(q) + 1 /\ Len(q) \in Nat /\ m[Len(q) + 1] = y
         /\ \A k \in 1 .. Len(q) : m[k] = x[k]
    BY <2>4, <2>5, <2>6, <2>9
  <2>11. Pkts(l) = [k \in 1 .. Len(q) + 1 |-> l[k].pkt]
    BY <2>8 DEF Pkts
  <2>12. Pkts(l) = Append(x, y)
    <3>1. \A k \in 1 .. Len(q) + 1 : l[k].pkt = m[k]
      BY <2>3, <2>6, <2>8, <2>10
    <3>2. DOMAIN m = 1 .. Len(q) + 1 /\ m = [k \in DOMAIN m |-> m[k]]
      BY <2>10
    <3>3. Pkts(l) = m
      BY <2>11, <3>1, <3>2
    <3>4. QED BY <2>9, <3>3
  <2>13. QED BY <2>1, <2>3, <2>4, <2>7, <2>12
<1>. HIDE DEF T
<1>4. Seq(D) \subseteq T
  BY <1>2, <1>3, SeqInduction
<1>5. QED BY <1>4 DEF T

-----------------------------------------------------------------------------
(* The file packets on their way from one host to another.                 *)

\* The network of switch.config: every host on the one switch, whose table has
\* an entry for each, and pipes that hold two packets of any size.
FileStar(hub) ==
    /\ Switches = {hub} /\ Neighbours(hub) = Hosts
    /\ \A h \in Hosts : Neighbours(h) = {hub}
    /\ Hosts \subseteq TableIndex
    /\ 2 * ReadMax <= PIPE_CAPACITY

ForFile(p, s, r) == p.type \in FileTypes /\ p.src = s /\ p.dst = r

\* The packet in a pipe, and those of the jobs, if they are for a file from s to r.
Wired(q, s, r) == IF q # << >> /\ ForFile(q[1].pkt, s, r) THEN <<q[1].pkt>> ELSE << >>
RecvOf(s, r) ==
    [j \in JobSet |-> IF j.type \in RecvTypes /\ ForFile(j.pkt, s, r) THEN <<j.pkt>> ELSE << >>]
SendOf(s, r) ==
    [j \in JobSet |-> IF j.type = "SEND_ALL" /\ ForFile(j.pkt, s, r) THEN <<j.pkt>> ELSE << >>]
Rcv(q, s, r) == Packets(RecvOf(s, r), q)
Snd(q, s, r) == Packets(SendOf(s, r), q)

InLine(a, b, c, d) == a \o (b \o (c \o d))

\* What r will receive from s: the packets that wait at r, the one on the way
\* from the switch, the one on the way to it, and those that wait at s.
StreamOf(hub, w, q, s, r) ==
    InLine(Rcv(q[r], s, r), Wired(w[<<hub, r>>], s, r),
           Wired(w[<<s, hub>>], s, r), Snd(q[s], s, r))
Stream(hub, s, r) == StreamOf(hub, wire, jobs, s, r)

\* Jobs that neither send nor receive a packet of a file.
OtherJobs ==
    {j \in JobSet : j.type \notin RecvTypes /\ (j.type = "SEND_ALL" => j.pkt.type \notin FileTypes)}

\* The packets of a job are a list of packets.
LEMMA JobMaps ==
    ASSUME NEW s, NEW r
    PROVE  Maps(RecvOf(s, r), JobSet, Seq(PacketSet)) /\ Maps(SendOf(s, r), JobSet, Seq(PacketSet))
<1>1. ASSUME NEW j \in JobSet
      PROVE  RecvOf(s, r)[j] \in Seq(PacketSet) /\ SendOf(s, r)[j] \in Seq(PacketSet)
  <2>1. j.type \in RecvTypes \cup {"SEND_ALL"} => j.pkt \in PacketSet
    BY JobFields DEF RecvTypes, PacketJobs
  <2>2. << >> \in Seq(PacketSet) /\ \A p \in PacketSet : <<p>> \in Seq(PacketSet)
    OBVIOUS
  <2>3. QED BY <2>1, <2>2 DEF RecvOf, SendOf
<1>2. QED BY <1>1 DEF Maps

\* The packets received and not handled, job by job.
LEMMA RcvParts ==
    ASSUME NEW s, NEW r
    PROVE  /\ Rcv(<< >>, s, r) = << >>
           /\ \A a \in Seq(JobSet) : Rcv(a, s, r) \in Seq(PacketSet)
           /\ \A j \in JobSet : Rcv(<<j>>, s, r) = RecvOf(s, r)[j]
           /\ \A a, b \in Seq(JobSet) : Rcv(a \o b, s, r) = Rcv(a, s, r) \o Rcv(b, s, r)
<1>1. Maps(RecvOf(s, r), JobSet, Seq(PacketSet))
  BY JobMaps
<1>2. InTurn(RecvOf(s, r), JobSet, PacketSet)
  BY <1>1, PacketsParts
<1>3. QED BY <1>2 DEF InTurn, Rcv

\* The packets to send, job by job.
LEMMA SndParts ==
    ASSUME NEW s, NEW r
    PROVE  /\ Snd(<< >>, s, r) = << >>
           /\ \A a \in Seq(JobSet) : Snd(a, s, r) \in Seq(PacketSet)
           /\ \A j \in JobSet : Snd(<<j>>, s, r) = SendOf(s, r)[j]
           /\ \A a, b \in Seq(JobSet) : Snd(a \o b, s, r) = Snd(a, s, r) \o Snd(b, s, r)
<1>1. Maps(SendOf(s, r), JobSet, Seq(PacketSet))
  BY JobMaps
<1>2. InTurn(SendOf(s, r), JobSet, PacketSet)
  BY <1>1, PacketsParts
<1>3. QED BY <1>2 DEF InTurn, Snd

\* Jobs that hold no file packets, none received, or none to send.
LEMMA NoPackets ==
    ASSUME NEW s, NEW r
    PROVE  /\ \A q \in Seq(OtherJobs) : Rcv(q, s, r) = << >> /\ Snd(q, s, r) = << >>
           /\ \A q \in Seq({j \in JobSet : j.type \notin RecvTypes}) : Rcv(q, s, r) = << >>
           /\ \A q \in Seq({j \in JobSet : j.type # "SEND_ALL"}) : Snd(q, s, r) = << >>
<1>. DEFINE A == {j \in JobSet : j.type \notin RecvTypes}
            B == {j \in JobSet : j.type = "SEND_ALL" => j.pkt.type \notin FileTypes}
            C == {j \in JobSet : j.type # "SEND_ALL"}
<1>1. \A q \in Seq(A) : Rcv(q, s, r) = << >>
  <2>1. PICK f : f = RecvOf(s, r) /\ Maps(f, JobSet, Seq(PacketSet))
    BY JobMaps
  <2>2. A \subseteq JobSet /\ \A j \in A : f[j] = << >>
    BY <2>1 DEF RecvOf
  <2>. HIDE DEF A
  <2>3. QED BY <2>1, <2>2, PacketsNone DEF Rcv
<1>2. \A q \in Seq(B) : Snd(q, s, r) = << >>
  <2>1. PICK f : f = SendOf(s, r) /\ Maps(f, JobSet, Seq(PacketSet))
    BY JobMaps
  <2>2. B \subseteq JobSet /\ \A j \in B : f[j] = << >>
    BY <2>1 DEF SendOf, ForFile
  <2>. HIDE DEF B
  <2>3. QED BY <2>1, <2>2, PacketsNone DEF Snd
<1>3. OtherJobs \subseteq A /\ OtherJobs \subseteq B /\ C \subseteq B
  BY DEF OtherJobs
<1>. HIDE DEF A, B, C
<1>4. Seq(OtherJobs) \subseteq Seq(A) /\ Seq(OtherJobs) \subseteq Seq(B) /\ Seq(C) \subseteq Seq(B)
  BY <1>3, SeqMonotonic
<1>5. QED BY <1>1, <1>2, <1>4 DEF A, C

\* The parts of a stream.
LEMMA StreamParts ==
    ASSUME NEW hub, FileStar(hub), NEW s \in Hosts, NEW r \in Hosts,
           NEW w \in [Wires -> Seq(Chunk)], NEW q \in [Hosts -> Seq(JobSet)]
    PROVE  /\ hub \notin Hosts /\ <<hub, r>> \in Wires /\ <<s, hub>> \in Wires
           /\ Rcv(q[r], s, r) \in Seq(PacketSet) /\ Snd(q[s], s, r) \in Seq(PacketSet)
           /\ Wired(w[<<hub, r>>], s, r) \in Seq(PacketSet)
           /\ Wired(w[<<s, hub>>], s, r) \in Seq(PacketSet)
           /\ StreamOf(hub, w, q, s, r) \in Seq(PacketSet)
<1>1. hub \notin Hosts /\ hub \in Nodes /\ s \in Nodes /\ r \in Nodes
  BY NodeAssumption DEF FileStar, Nodes
<1>2. <<hub, r>> \in Wires /\ <<s, hub>> \in Wires
  BY <1>1 DEF FileStar, Wires
<1>3. Rcv(q[r], s, r) \in Seq(PacketSet) /\ Snd(q[s], s, r) \in Seq(PacketSet)
  <2>1. q[r] \in Seq(JobSet) /\ q[s] \in Seq(JobSet)
    OBVIOUS
  <2>2. QED BY <2>1, RcvParts, SndParts
<1>4. ASSUME NEW c \in Seq(Chunk) PROVE Wired(c, s, r) \in Seq(PacketSet)
  <2>1. c # << >> => c[1].pkt \in PacketSet
    <3>1. c # << >> => c[1] \in Chunk
      BY EmptySeq, ElementOfSeq
    <3>2. QED BY <3>1 DEF Chunk
  <2>2. << >> \in Seq(PacketSet) /\ \A p \in PacketSet : <<p>> \in Seq(PacketSet)
    OBVIOUS
  <2>3. QED BY <2>1, <2>2 DEF Wired
<1>5. Wired(w[<<hub, r>>], s, r) \in Seq(PacketSet) /\ Wired(w[<<s, hub>>], s, r) \in Seq(PacketSet)
  BY <1>2, <1>4
<1>6. QED BY <1>1, <1>2, <1>3, <1>5, ConcatProperties DEF StreamOf, InLine

\* Concatenation under a name of its own, for the provers.
Concat(a, b) == a \o b

\* Lists end to end.
LEMMA ConcatLaws ==
    ASSUME NEW E
    PROVE  \A a, b, c \in Seq(E) :
             /\ Concat(a, b) \in Seq(E) /\ Concat(<< >>, a) = a
             /\ Concat(Concat(a, b), c) = Concat(a, Concat(b, c))
<1>1. TAKE a, b, c \in Seq(E)
<1>2. a \o b \in Seq(E) /\ << >> \o a = a
  BY ConcatFacts
<1>3. (a \o b) \o c = a \o (b \o c)
  BY ConcatAssociates
<1>4. QED BY <1>2, <1>3 DEF Concat

\* A packet moves on in a stream to where the receiver's jobs are, to the pipe
\* from the switch, and to the pipe to it.
LEMMA MoveOn ==
    ASSUME NEW E, NEW a \in Seq(E), NEW b \in Seq(E), NEW c \in Seq(E), NEW d \in Seq(E)
    PROVE  InLine(a \o b, << >>, c, d) = InLine(a, b, c, d)
<1>1. \A t, u, v \in Seq(E) :
        /\ Concat(t, u) \in Seq(E) /\ Concat(<< >>, t) = t
        /\ Concat(Concat(t, u), v) = Concat(t, Concat(u, v))
  BY ConcatLaws
<1>2. Concat(Concat(a, b), Concat(<< >>, Concat(c, d))) = Concat(a, Concat(b, Concat(c, d)))
  BY <1>1
<1>3. QED BY <1>2 DEF Concat, InLine

\* A packet that the switch passes on stays in its place in the stream.
LEMMA MoveOver ==
    ASSUME NEW E, NEW a \in Seq(E), NEW c \in Seq(E), NEW d \in Seq(E)
    PROVE  InLine(a, c, << >>, d) = InLine(a, << >>, c, d)
<1>1. \A t, u, v \in Seq(E) :
        /\ Concat(t, u) \in Seq(E) /\ Concat(<< >>, t) = t
        /\ Concat(Concat(t, u), v) = Concat(t, Concat(u, v))
  BY ConcatLaws
<1>2. Concat(a, Concat(c, Concat(<< >>, d))) = Concat(a, Concat(<< >>, Concat(c, d)))
  BY <1>1
<1>3. QED BY <1>2 DEF Concat, InLine

\* So does a packet that the sender writes.
LEMMA MoveOut ==
    ASSUME NEW E, NEW a \in Seq(E), NEW b \in Seq(E), NEW c \in Seq(E), NEW d \in Seq(E)
    PROVE  InLine(a, b, c, d) = InLine(a, b, << >>, c \o d)
<1>1. \A t, u, v \in Seq(E) :
        /\ Concat(t, u) \in Seq(E) /\ Concat(<< >>, t) = t
        /\ Concat(Concat(t, u), v) = Concat(t, Concat(u, v))
  BY ConcatLaws
<1>2. Concat(a, Concat(b, Concat(c, d))) = Concat(a, Concat(b, Concat(<< >>, Concat(c, d))))
  BY <1>1
<1>3. QED BY <1>2 DEF Concat, InLine

\* A packet leaves a stream at its front; others are put at its end.
LEMMA FrontOf ==
    ASSUME NEW E, NEW a \in Seq(E), NEW b \in Seq(E), NEW c \in Seq(E), NEW d \in Seq(E),
           NEW x \in Seq(E)
    PROVE  InLine(Concat(x, a), b, c, d) = Concat(x, InLine(a, b, c, d))
<1>1. \A t, u, v \in Seq(E) :
        /\ Concat(t, u) \in Seq(E) /\ Concat(<< >>, t) = t
        /\ Concat(Concat(t, u), v) = Concat(t, Concat(u, v))
  BY ConcatLaws
<1>2. Concat(Concat(x, a), Concat(b, Concat(c, d))) = Concat(x, Concat(a, Concat(b, Concat(c, d))))
  BY <1>1
<1>3. \A t, u, v, w : InLine(t, u, v, w) = Concat(t, Concat(u, Concat(v, w)))
  BY DEF Concat, InLine
<1>4. QED BY <1>2, <1>3

\* What is queued last comes last.
LEMMA EndOf ==
    ASSUME NEW E, NEW a \in Seq(E), NEW b \in Seq(E), NEW c \in Seq(E), NEW d \in Seq(E),
           NEW x \in Seq(E)
    PROVE  InLine(a, b, c, Concat(d, x)) = Concat(InLine(a, b, c, d), x)
<1>1. \A t, u, v \in Seq(E) :
        /\ Concat(t, u) \in Seq(E) /\ Concat(<< >>, t) = t
        /\ Concat(Concat(t, u), v) = Concat(t, Concat(u, v))
  BY ConcatLaws
<1>2. Concat(a, Concat(b, Concat(c, Concat(d, x)))) = Concat(Concat(a, Concat(b, Concat(c, d))), x)
  BY <1>1
<1>3. \A t, u, v, w : InLine(t, u, v, w) = Concat(t, Concat(u, Concat(v, w)))
  BY DEF Concat, InLine
<1>4. QED BY <1>2, <1>3

\* Where nothing is on its way the stream is empty.
LEMMA NoneInLine == InLine(<< >>, << >>, << >>, << >>) = << >>
<1>1. \A z \in Seq(PacketSet) : << >> \o z = z
  BY ConcatFacts
<1>2. << >> \in Seq(PacketSet)
  OBVIOUS
<1>3. QED BY <1>1, <1>2 DEF InLine

\* What is added to a queue is put at the end of what it sends or receives.
LEMMA AddParts ==
    ASSUME FitInv, NEW h \in Hosts, NEW more \in Seq(JobSet), Add(h, more)
    PROVE  /\ \A g \in Hosts : g # h => jobs'[g] = jobs[g]
           /\ \A s, r : /\ Rcv(jobs'[h], s, r) = Rcv(jobs[h], s, r) \o Rcv(more, s, r)
                        /\ Snd(jobs'[h], s, r) = Snd(jobs[h], s, r) \o Snd(more, s, r)
<1>1. jobs \in [Hosts -> Seq(JobSet)]
  BY FitParts
<1>2. jobs'[h] = jobs[h] \o more /\ \A g \in Hosts : g # h => jobs'[g] = jobs[g]
  BY <1>1 DEF Add
<1>3. jobs[h] \in Seq(JobSet)
  BY <1>1
<1>4. ASSUME NEW s, NEW r
      PROVE  /\ Rcv(jobs'[h], s, r) = Rcv(jobs[h], s, r) \o Rcv(more, s, r)
             /\ Snd(jobs'[h], s, r) = Snd(jobs[h], s, r) \o Snd(more, s, r)
  <2>1. /\ Rcv(jobs[h] \o more, s, r) = Rcv(jobs[h], s, r) \o Rcv(more, s, r)
        /\ Snd(jobs[h] \o more, s, r) = Snd(jobs[h], s, r) \o Snd(more, s, r)
    BY <1>3, RcvParts, SndParts
  <2>2. QED BY <1>2, <2>1
<1>5. QED BY <1>2, <1>4

\* The first job is taken from the front.
LEMMA DoneParts ==
    ASSUME FitInv, NEW h \in Hosts, jobs[h] # << >>, NEW more \in Seq(JobSet), Done(h, more)
    PROVE  /\ \A g \in Hosts : g # h => jobs'[g] = jobs[g]
           /\ Job(h) \in JobSet /\ Tail(jobs[h]) \in Seq(JobSet)
           /\ \A s, r :
                /\ Rcv(jobs[h], s, r) = RecvOf(s, r)[Job(h)] \o Rcv(Tail(jobs[h]), s, r)
                /\ Snd(jobs[h], s, r) = SendOf(s, r)[Job(h)] \o Snd(Tail(jobs[h]), s, r)
                /\ Rcv(jobs'[h], s, r) = Rcv(Tail(jobs[h]), s, r) \o Rcv(more, s, r)
                /\ Snd(jobs'[h], s, r) = Snd(Tail(jobs[h]), s, r) \o Snd(more, s, r)
<1>1. jobs \in [Hosts -> Seq(JobSet)]
  BY FitParts
<1>2. jobs'[h] = Tail(jobs[h]) \o more /\ \A g \in Hosts : g # h => jobs'[g] = jobs[g]
  BY <1>1 DEF Done
<1>3. PICK j, t : j = Job(h) /\ t = Tail(jobs[h])
  OBVIOUS
<1>4. j \in JobSet /\ t \in Seq(JobSet) /\ jobs[h] = <<j>> \o t /\ <<j>> \in Seq(JobSet)
  <2>1. PICK q \in Seq(JobSet) : q = jobs[h]
    BY <1>1
  <2>2. q # << >> => Head(q) \in JobSet /\ Tail(q) \in Seq(JobSet) /\ q = <<Head(q)>> \o Tail(q)
    OBVIOUS
  <2>3. QED BY <1>3, <2>1, <2>2 DEF Job
<1>5. jobs'[h] = t \o more
  BY <1>2, <1>3
<1>6. ASSUME NEW s, NEW r
      PROVE  /\ Rcv(jobs[h], s, r) = RecvOf(s, r)[j] \o Rcv(t, s, r)
             /\ Snd(jobs[h], s, r) = SendOf(s, r)[j] \o Snd(t, s, r)
             /\ Rcv(jobs'[h], s, r) = Rcv(t, s, r) \o Rcv(more, s, r)
             /\ Snd(jobs'[h], s, r) = Snd(t, s, r) \o Snd(more, s, r)
  <2>1. /\ Rcv(<<j>> \o t, s, r) = Rcv(<<j>>, s, r) \o Rcv(t, s, r)
        /\ Rcv(<<j>>, s, r) = RecvOf(s, r)[j]
        /\ Rcv(t \o more, s, r) = Rcv(t, s, r) \o Rcv(more, s, r)
    BY <1>4, RcvParts
  <2>2. /\ Snd(<<j>> \o t, s, r) = Snd(<<j>>, s, r) \o Snd(t, s, r)
        /\ Snd(<<j>>, s, r) = SendOf(s, r)[j]
        /\ Snd(t \o more, s, r) = Snd(t, s, r) \o Snd(more, s, r)
    BY <1>4, SndParts
  <2>3. QED BY <1>4, <1>5, <2>1, <2>2
<1>7. QED BY <1>2, <1>3, <1>4, <1>6

-----------------------------------------------------------------------------
(* Steps that leave every stream as it is.                                 *)

StreamsKept(hub) ==
    \A s, r \in Hosts : StreamOf(hub, wire', jobs', s, r) = StreamOf(hub, wire, jobs, s, r)

\* A job that has nothing to do with files adds nothing to a stream.
LEMMA OtherParts ==
    ASSUME NEW j \in OtherJobs
    PROVE  \A s, r : RecvOf(s, r)[j] = << >> /\ SendOf(s, r)[j] = << >>
BY DEF OtherJobs, RecvOf, SendOf, ForFile

\* Jobs that have nothing to do with files come and go.
LEMMA OthersKept ==
    ASSUME NEW hub, FileStar(hub), FitInv, NEW h \in Hosts, NEW more \in Seq(OtherJobs),
           Add(h, more) \/ (jobs[h] # << >> /\ Job(h) \in OtherJobs /\ Done(h, more)),
           wire' = wire
    PROVE  StreamsKept(hub)
<1>1. more \in Seq(JobSet) /\ jobs \in [Hosts -> Seq(JobSet)]
  <2>1. OtherJobs \subseteq JobSet
    BY DEF OtherJobs
  <2>2. QED BY <2>1, SeqMonotonic, FitParts
<1>2. \A s, r : Rcv(more, s, r) = << >> /\ Snd(more, s, r) = << >>
  BY NoPackets
<1>3. \A s, r : Rcv(jobs[h], s, r) \in Seq(PacketSet) /\ Snd(jobs[h], s, r) \in Seq(PacketSet)
  <2>1. jobs[h] \in Seq(JobSet)
    BY <1>1
  <2>2. QED BY <2>1, RcvParts, SndParts
<1>4. \A x \in Seq(PacketSet) : x \o << >> = x /\ << >> \o x = x
  BY ConcatFacts
<1>5. ASSUME NEW g \in Hosts, NEW s, NEW r
      PROVE  Rcv(jobs'[g], s, r) = Rcv(jobs[g], s, r) /\ Snd(jobs'[g], s, r) = Snd(jobs[g], s, r)
  <2>1. CASE Add(h, more)
    <3>1. g # h => jobs'[g] = jobs[g]
      BY <1>1, <2>1, AddParts
    <3>2. /\ Rcv(jobs'[h], s, r) = Rcv(jobs[h], s, r) \o << >>
          /\ Snd(jobs'[h], s, r) = Snd(jobs[h], s, r) \o << >>
      <4>1. /\ Rcv(jobs'[h], s, r) = Rcv(jobs[h], s, r) \o Rcv(more, s, r)
            /\ Snd(jobs'[h], s, r) = Snd(jobs[h], s, r) \o Snd(more, s, r)
        BY <1>1, <2>1, AddParts
      <4>2. QED BY <1>2, <4>1
    <3>3. QED BY <1>3, <1>4, <3>1, <3>2
  <2>2. CASE jobs[h] # << >> /\ Job(h) \in OtherJobs /\ Done(h, more)
    <3>1. g # h => jobs'[g] = jobs[g]
      BY <1>1, <2>2, DoneParts
    <3>2. /\ Tail(jobs[h]) \in Seq(JobSet)
          /\ Rcv(jobs[h], s, r) = << >> \o Rcv(Tail(jobs[h]), s, r)
          /\ Snd(jobs[h], s, r) = << >> \o Snd(Tail(jobs[h]), s, r)
          /\ Rcv(jobs'[h], s, r) = Rcv(Tail(jobs[h]), s, r) \o << >>
          /\ Snd(jobs'[h], s, r) = Snd(Tail(jobs[h]), s, r) \o << >>
      <4>1. /\ Tail(jobs[h]) \in Seq(JobSet)
            /\ Rcv(jobs[h], s, r) = RecvOf(s, r)[Job(h)] \o Rcv(Tail(jobs[h]), s, r)
            /\ Snd(jobs[h], s, r) = SendOf(s, r)[Job(h)] \o Snd(Tail(jobs[h]), s, r)
            /\ Rcv(jobs'[h], s, r) = Rcv(Tail(jobs[h]), s, r) \o Rcv(more, s, r)
            /\ Snd(jobs'[h], s, r) = Snd(Tail(jobs[h]), s, r) \o Snd(more, s, r)
        <5>1. more \in Seq(JobSet) /\ jobs[h] # << >> /\ Done(h, more)
          BY <1>1, <2>2
        <5>2. /\ Tail(jobs[h]) \in Seq(JobSet)
              /\ \A t, u :
                   /\ Rcv(jobs[h], t, u) = RecvOf(t, u)[Job(h)] \o Rcv(Tail(jobs[h]), t, u)
                   /\ Snd(jobs[h], t, u) = SendOf(t, u)[Job(h)] \o Snd(Tail(jobs[h]), t, u)
                   /\ Rcv(jobs'[h], t, u) = Rcv(Tail(jobs[h]), t, u) \o Rcv(more, t, u)
                   /\ Snd(jobs'[h], t, u) = Snd(Tail(jobs[h]), t, u) \o Snd(more, t, u)
          BY <5>1, DoneParts
        <5>3. QED BY <5>2
      <4>2. RecvOf(s, r)[Job(h)] = << >> /\ SendOf(s, r)[Job(h)] = << >>
        BY <2>2, OtherParts
      <4>3. QED BY <1>2, <4>1, <4>2
    <3>3. Rcv(Tail(jobs[h]), s, r) \in Seq(PacketSet) /\ Snd(Tail(jobs[h]), s, r) \in Seq(PacketSet)
      BY <3>2, RcvParts, SndParts
    <3>4. QED BY <1>4, <3>1, <3>2, <3>3
  <2>3. QED BY <2>1, <2>2
<1>6. ASSUME NEW s \in Hosts, NEW r \in Hosts
      PROVE  StreamOf(hub, wire', jobs', s, r) = StreamOf(hub, wire, jobs, s, r)
  BY <1>5 DEF StreamOf
<1>7. QED BY <1>6 DEF StreamsKept

\* A packet that a host takes from its port becomes the last of what waits
\* there, if it is for a file to that host.
LEMMA ReceiveKept ==
    ASSUME NEW hub, FileStar(hub), FitInv, NEW h \in Hosts, NEW p, Receives(h, p),
           NEW more \in Seq(JobSet), Add(h, more) \/ (jobs' = jobs /\ more = << >>),
           \A s \in Hosts : Rcv(more, s, h) = IF ForFile(p, s, h) THEN <<p>> ELSE << >>,
           \A s, r : Snd(more, s, r) = << >>
    PROVE  StreamsKept(hub)
<1>. DEFINE e == <<hub, h>>
<1>1. /\ e \in Wires /\ wire[e] # << >> /\ p = wire[e][1].pkt
      /\ wire' = [wire EXCEPT ![e] = << >>]
  <2>1. PICK n \in Neighbours(h) :
          /\ <<n, h>> \in Wires /\ wire[<<n, h>>] # << >>
          /\ p = wire[<<n, h>>][1].pkt /\ wire' = [wire EXCEPT ![<<n, h>>] = << >>]
    BY ReceivesOne
  <2>2. n = hub
    BY DEF FileStar
  <2>3. QED BY <2>1, <2>2
<1>2. wire \in [Wires -> Seq(Chunk)] /\ jobs \in [Hosts -> Seq(JobSet)]
  BY FitParts
<1>3. \A x \in Seq(PacketSet) : x \o << >> = x
  BY ConcatFacts
<1>4. \A s, r : Rcv(jobs[h], s, r) \in Seq(PacketSet) /\ Snd(jobs[h], s, r) \in Seq(PacketSet)
  <2>1. jobs[h] \in Seq(JobSet)
    BY <1>2
  <2>2. QED BY <2>1, RcvParts, SndParts
<1>5. /\ \A g \in Hosts : g # h => jobs'[g] = jobs[g]
      /\ \A s, r : /\ Rcv(jobs'[h], s, r) = Rcv(jobs[h], s, r) \o Rcv(more, s, r)
                   /\ Snd(jobs'[h], s, r) = Snd(jobs[h], s, r)
  <2>1. CASE Add(h, more)
    <3>1. /\ \A g \in Hosts : g # h => jobs'[g] = jobs[g]
          /\ \A s, r : /\ Rcv(jobs'[h], s, r) = Rcv(jobs[h], s, r) \o Rcv(more, s, r)
                       /\ Snd(jobs'[h], s, r) = Snd(jobs[h], s, r) \o << >>
      <4>1. /\ \A g \in Hosts : g # h => jobs'[g] = jobs[g]
            /\ \A s, r : /\ Rcv(jobs'[h], s, r) = Rcv(jobs[h], s, r) \o Rcv(more, s, r)
                         /\ Snd(jobs'[h], s, r) = Snd(jobs[h], s, r) \o Snd(more, s, r)
        BY <2>1, AddParts
      <4>2. \A s, r : Snd(more, s, r) = << >>
        OBVIOUS
      <4>3. QED BY <4>1, <4>2
    <3>2. QED BY <1>3, <1>4, <3>1
  <2>2. CASE jobs' = jobs /\ more = << >>
    <3>1. \A s, r : Rcv(<< >>, s, r) = << >>
      BY RcvParts
    <3>2. QED BY <1>3, <1>4, <2>2, <3>1
  <2>3. QED BY <2>1, <2>2
<1>6. ASSUME NEW s \in Hosts, NEW r \in Hosts
      PROVE  StreamOf(hub, wire', jobs', s, r) = StreamOf(hub, wire, jobs, s, r)
  <2>1. PICK a, b, c, d : /\ a = Rcv(jobs[r], s, r) /\ b = Wired(wire[<<hub, r>>], s, r)
                          /\ c = Wired(wire[<<s, hub>>], s, r) /\ d = Snd(jobs[s], s, r)
    OBVIOUS
  <2>2. /\ a \in Seq(PacketSet) /\ b \in Seq(PacketSet) /\ c \in Seq(PacketSet)
        /\ d \in Seq(PacketSet) /\ hub \notin Hosts
        /\ <<hub, r>> \in Wires /\ <<s, hub>> \in Wires
    BY <1>2, <2>1, StreamParts
  <2>3. c = Wired(wire'[<<s, hub>>], s, r)
    <3>1. <<s, hub>> # e
      BY <2>2
    <3>. HIDE DEF e
    <3>2. QED BY <1>1, <1>2, <2>1, <2>2, <3>1
  <2>4. d = Snd(jobs'[s], s, r)
    BY <1>5, <2>1
  <2>5. StreamOf(hub, wire, jobs, s, r) = InLine(a, b, c, d)
    BY <2>1 DEF StreamOf
  <2>6. CASE r # h
    <3>1. <<hub, r>> # e
      BY <2>6
    <3>2. b = Wired(wire'[<<hub, r>>], s, r)
      <4>. HIDE DEF e
      <4>1. QED BY <1>1, <1>2, <2>1, <2>2, <3>1
    <3>3. a = Rcv(jobs'[r], s, r)
      BY <1>5, <2>1, <2>6
    <3>4. QED BY <2>3, <2>4, <2>5, <3>2, <3>3 DEF StreamOf
  <2>7. CASE r = h
    <3>1. Wired(wire'[<<hub, r>>], s, r) = << >>
      <4>1. wire'[e] = << >>
        BY <1>1, <1>2
      <4>2. QED BY <2>7, <4>1 DEF Wired
    <3>2. b = Rcv(more, s, h)
      BY <1>1, <2>1, <2>7 DEF Wired
    <3>3. Rcv(jobs'[r], s, r) = a \o b
      BY <1>5, <2>1, <2>7, <3>2
    <3>4. StreamOf(hub, wire', jobs', s, r) = InLine(a \o b, << >>, c, d)
      BY <2>3, <2>4, <3>1, <3>3 DEF StreamOf
    <3>5. InLine(a \o b, << >>, c, d) = InLine(a, b, c, d)
      BY <2>2, MoveOn
    <3>6. QED BY <2>5, <3>4, <3>5
  <2>8. QED BY <2>6, <2>7
<1>7. QED BY <1>6 DEF StreamsKept

\* Where there is room for two packets, a packet is written, and the reader has
\* taken the one before.
LEMMA PushEmpty ==
    ASSUME NEW q \in Seq(Chunk), NEW n, OnePacket(q, n), NEW p, FitPacket(p, n),
           Len(Push(q, p)) <= 1, 2 * ReadMax <= PIPE_CAPACITY
    PROVE  q = << >> /\ Push(q, p) # << >> /\ Push(q, p)[1].pkt = p
<1>1. Len(p.body) \in Nat /\ Size(p) \in Int /\ Size(p) <= ReadMax /\ ReadMax \in Int
  <2>1. Len(p.body) \in Nat /\ Len(p.body) <= PAYLOAD_MAX
    BY DEF FitPacket, PacketSet
  <2>2. QED BY <2>1, SizeAssumption DEF Size, ReadMax, HeaderSize
<1>2. Total(q) \in Int /\ Total(q) <= ReadMax
  <2>1. CASE q = << >>
    BY <1>1, <2>1, SizeAssumption DEF Total, ReadMax, HeaderSize
  <2>2. CASE q # << >>
    <3>1. Len(q) = 1 /\ q[1].end = Size(q[1].pkt) /\ FitPacket(q[1].pkt, n)
      BY <2>2 DEF OnePacket
    <3>2. Len(q[1].pkt.body) \in Nat /\ Len(q[1].pkt.body) <= PAYLOAD_MAX
      BY <3>1 DEF FitPacket, PacketSet
    <3>3. QED BY <2>2, <3>1, <3>2, SizeAssumption DEF Total, Size, ReadMax, HeaderSize
  <2>3. QED BY <2>1, <2>2
<1>3. PICK c : c = [pkt |-> p, end |-> Total(q) + Size(p)]
  OBVIOUS
<1>4. c \in Chunk /\ c.pkt = p
  BY <1>1, <1>2, <1>3 DEF Chunk, FitPacket
<1>5. Push(q, p) = Append(q, c)
  <2>1. Total(q) + Size(p) <= PIPE_CAPACITY
    BY <1>1, <1>2, SizeAssumption
  <2>2. QED BY <1>3, <2>1 DEF Push
<1>6. Len(q) = 0
  BY <1>4, <1>5
<1>7. q = << >>
  BY <1>6, EmptySeq
<1>8. QED BY <1>4, <1>5, <1>7

-----------------------------------------------------------------------------
\* A packet that a host sends was the first of what it had to send.
LEMMA SendKept ==
    ASSUME NEW hub, FileStar(hub), FitInv, NEW h \in Hosts, Paced,
           jobs[h] # << >>, Job(h).type = "SEND_ALL", Done(h, << >>),
           wire' = SendTo(wire, h, Neighbours(h), Job(h).pkt)
    PROVE  StreamsKept(hub)
<1>. DEFINE e == <<h, hub>>
            p == Job(h).pkt
<1>1. hub \notin Hosts /\ e \in Wires /\ Neighbours(h) = {hub}
  <2>1. h \in Nodes /\ hub \in Nodes
    BY DEF FileStar, Nodes
  <2>2. QED BY <2>1, NodeAssumption DEF FileStar, Wires
<1>2. wire \in [Wires -> Seq(Chunk)] /\ OneInEach(wire) /\ jobs \in [Hosts -> Seq(JobSet)]
  BY FitParts
<1>3. FitPacket(p, h) /\ Job(h) \in JobSet
  BY FirstJob DEF FitJob
<1>4. wire'[e] = Push(wire[e], p) /\ \A f \in Wires : f # e => wire'[f] = wire[f]
  <2>1. e[1] = h /\ e[2] = hub
    OBVIOUS
  <2>2. \A f \in Wires : f[1] = h /\ f[2] \in {hub} => f = e
    BY DEF Wires
  <2>. HIDE DEF e, p
  <2>3. wire' = [f \in Wires |-> IF f[1] = h /\ f[2] \in {hub} THEN Push(wire[f], p) ELSE wire[f]]
    BY <1>1 DEF SendTo, p
  <2>4. QED BY <1>1, <2>1, <2>2, <2>3
<1>5. wire[e] = << >> /\ wire'[e] # << >> /\ wire'[e][1].pkt = p
  <2>1. e[1] = h
    OBVIOUS
  <2>. HIDE DEF e, p
  <2>2. Len(Push(wire[e], p)) <= 1
    BY <1>1, <1>4 DEF Paced
  <2>3. OnePacket(wire[e], h)
    BY <1>1, <1>2, <2>1 DEF OneInEach
  <2>4. wire[e] \in Seq(Chunk)
    BY <1>1, <1>2
  <2>5. 2 * ReadMax <= PIPE_CAPACITY
    BY DEF FileStar
  <2>6. QED BY <1>3, <1>4, <2>2, <2>3, <2>4, <2>5, PushEmpty
<1>6. /\ \A g \in Hosts : g # h => jobs'[g] = jobs[g]
      /\ Tail(jobs[h]) \in Seq(JobSet)
      /\ \A s, r :
           /\ Rcv(jobs[h], s, r) = RecvOf(s, r)[Job(h)] \o Rcv(Tail(jobs[h]), s, r)
           /\ Snd(jobs[h], s, r) = SendOf(s, r)[Job(h)] \o Snd(Tail(jobs[h]), s, r)
           /\ Rcv(jobs'[h], s, r) = Rcv(Tail(jobs[h]), s, r) \o Rcv(<< >>, s, r)
           /\ Snd(jobs'[h], s, r) = Snd(Tail(jobs[h]), s, r) \o Snd(<< >>, s, r)
  <2>1. << >> \in Seq(JobSet)
    OBVIOUS
  <2>2. QED BY <2>1, DoneParts
<1>7. ASSUME NEW s, NEW r
      PROVE  /\ Rcv(jobs'[h], s, r) = Rcv(jobs[h], s, r)
             /\ Snd(jobs'[h], s, r) \in Seq(PacketSet)
             /\ Snd(jobs[h], s, r) = SendOf(s, r)[Job(h)] \o Snd(jobs'[h], s, r)
             /\ SendOf(s, r)[Job(h)] = IF ForFile(p, s, r) THEN <<p>> ELSE << >>
  <2>1. RecvOf(s, r)[Job(h)] = << >>
    BY <1>3 DEF RecvOf, RecvTypes
  <2>2. SendOf(s, r)[Job(h)] = IF ForFile(p, s, r) THEN <<p>> ELSE << >>
    BY <1>3 DEF SendOf
  <2>3. PICK a, b : a = Rcv(Tail(jobs[h]), s, r) /\ b = Snd(Tail(jobs[h]), s, r)
    OBVIOUS
  <2>4. a \in Seq(PacketSet) /\ b \in Seq(PacketSet)
    BY <1>6, <2>3, RcvParts, SndParts
  <2>5. << >> \o a = a /\ a \o << >> = a /\ b \o << >> = b
    BY <2>4, ConcatFacts
  <2>6. Rcv(<< >>, s, r) = << >> /\ Snd(<< >>, s, r) = << >>
    BY RcvParts, SndParts
  <2>7. /\ Rcv(jobs[h], s, r) = << >> \o a
        /\ Snd(jobs[h], s, r) = SendOf(s, r)[Job(h)] \o b
        /\ Rcv(jobs'[h], s, r) = a \o << >>
        /\ Snd(jobs'[h], s, r) = b \o << >>
    BY <1>6, <2>1, <2>3, <2>6
  <2>8. QED BY <2>2, <2>4, <2>5, <2>7
<1>. HIDE DEF e, p
<1>8. ASSUME NEW s \in Hosts, NEW r \in Hosts
      PROVE  StreamOf(hub, wire', jobs', s, r) = StreamOf(hub, wire, jobs, s, r)
  <2>1. PICK a, b, c, d : /\ a = Rcv(jobs[r], s, r) /\ b = Wired(wire[<<hub, r>>], s, r)
                          /\ c = Wired(wire[<<s, hub>>], s, r) /\ d = Snd(jobs[s], s, r)
    OBVIOUS
  <2>2. /\ a \in Seq(PacketSet) /\ b \in Seq(PacketSet) /\ c \in Seq(PacketSet)
        /\ d \in Seq(PacketSet)
        /\ <<hub, r>> \in Wires /\ <<s, hub>> \in Wires
    BY <1>2, <2>1, StreamParts
  <2>3. a = Rcv(jobs'[r], s, r)
    BY <1>6, <1>7, <2>1
  <2>4. b = Wired(wire'[<<hub, r>>], s, r)
    <3>1. <<hub, r>> # e
      BY <1>1 DEF e
    <3>2. QED BY <1>4, <2>1, <2>2, <3>1
  <2>5. StreamOf(hub, wire, jobs, s, r) = InLine(a, b, c, d)
    BY <2>1 DEF StreamOf
  <2>6. CASE s # h
    <3>1. <<s, hub>> # e
      BY <2>6 DEF e
    <3>2. c = Wired(wire'[<<s, hub>>], s, r)
      BY <1>4, <2>1, <2>2, <3>1
    <3>3. d = Snd(jobs'[s], s, r)
      BY <1>6, <2>1, <2>6
    <3>4. QED BY <2>3, <2>4, <2>5, <3>2, <3>3 DEF StreamOf
  <2>7. CASE s = h
    <3>1. PICK x, y : x = SendOf(s, r)[Job(h)] /\ y = Snd(jobs'[h], s, r)
      OBVIOUS
    <3>2. d = x \o y /\ y \in Seq(PacketSet) /\ x = IF ForFile(p, s, r) THEN <<p>> ELSE << >>
      BY <1>7, <2>1, <2>7, <3>1
    <3>3. c = << >>
      BY <1>5, <2>1, <2>7 DEF Wired, e
    <3>4. Wired(wire'[<<s, hub>>], s, r) = x
      BY <1>5, <2>7, <3>2 DEF Wired, e
    <3>5. StreamOf(hub, wire', jobs', s, r) = InLine(a, b, x, y)
      BY <2>3, <2>4, <2>7, <3>1, <3>4 DEF StreamOf
    <3>6. x \in Seq(PacketSet)
      BY <1>3, <3>2 DEF FitPacket
    <3>7. InLine(a, b, x, y) = InLine(a, b, << >>, x \o y)
      <4>1. /\ a \in Seq(PacketSet) /\ b \in Seq(PacketSet)
            /\ x \in Seq(PacketSet) /\ y \in Seq(PacketSet)
        BY <2>2, <3>2, <3>6
      <4>2. QED BY <4>1, MoveOut
    <3>8. QED BY <2>5, <3>2, <3>3, <3>5, <3>7
  <2>8. QED BY <2>6, <2>7
<1>9. QED BY <1>8 DEF StreamsKept

TableOK(hub, t) == \A h \in Hosts : t[hub][h] \in {None, h}

\* A switch learns the right port, and passes a packet on to where it is for.
LEMMA SwitchKept ==
    ASSUME NEW hub, FileStar(hub), FitInv, TableOK(hub, table), Paced, SwitchStep(hub),
           jobs' = jobs
    PROVE  StreamsKept(hub) /\ TableOK(hub, table')
<1>1. hub \in Switches /\ hub \notin Hosts /\ Hosts \subseteq TableIndex /\ From(hub) \in Hosts
  <2>1. hub \in Switches
    BY DEF FileStar
  <2>2. From(hub) \in Neighbours(hub)
    BY <2>1, FromIsNeighbour, FitParts
  <2>3. QED BY <2>1, <2>2, NodeAssumption DEF FileStar
<1>2. wire \in [Wires -> Seq(Chunk)] /\ jobs \in [Hosts -> Seq(JobSet)]
      /\ table \in [Switches -> [TableIndex -> Nodes \cup {None}]]
  BY FitParts DEF SwitchTypeOK
<1>3. CASE wire' = wire /\ table' = table
  BY <1>3 DEF StreamsKept
<1>4. ASSUME NEW e \in Wires, e = <<From(hub), hub>>, wire[e] # << >>,
             NEW p, p = wire[e][1].pkt, FitPacket(p, e[1]),
             NEW w, w = [wire EXCEPT ![e] = << >>], OneInEach(w), w \in [Wires -> Seq(Chunk)],
             table' = [table EXCEPT ![hub] = Learn(@, p.src, e[1])],
             \/ p.dst \notin TableIndex /\ wire' = w
             \/ \E dests \in Outputs(hub, table'[hub], p.dst) : wire' = SendTo(w, hub, dests, p)
      PROVE  StreamsKept(hub) /\ TableOK(hub, table')
  <2>1. p.src = From(hub) /\ e[1] = From(hub)
    BY <1>1, <1>4 DEF FitPacket
  <2>2. TableOK(hub, table')
    <3>1. PICK g \in Hosts : g = From(hub)
      BY <1>1
    <3>2. table' = [table EXCEPT ![hub] = Learn(@, g, g)]
      BY <1>4, <2>1, <3>1
    <3>3. table'[hub] = Learn(table[hub], g, g)
      BY <1>1, <1>2, <3>2
    <3>4. table[hub] \in [TableIndex -> Nodes \cup {None}]
      BY <1>1, <1>2
    <3>5. QED BY <1>1, <3>3, <3>4 DEF TableOK, Learn
  <2>3. \A s \in Hosts : <<s, hub>> \in Wires /\ <<s, hub>> # e =>
          wire'[<<s, hub>>] = wire[<<s, hub>>]
    BY <1>1, <1>2, <1>4 DEF SendTo
  <2>4. wire'[e] = << >>
    <3>1. w[e] = << >>
      BY <1>2, <1>4
    <3>2. e[1] # hub
      BY <1>1, <2>1
    <3>3. QED BY <1>4, <3>1, <3>2 DEF SendTo
\* What arrives at the port of r.
  <2>5. ASSUME NEW r \in Hosts, <<hub, r>> \in Wires
        PROVE  \/ wire'[<<hub, r>>] = wire[<<hub, r>>] /\ p.dst # r
               \/ /\ wire[<<hub, r>>] = << >> /\ wire'[<<hub, r>>] # << >>
                  /\ wire'[<<hub, r>>][1].pkt = p
    <3>. DEFINE o == <<hub, r>>
    <3>1. o # e /\ o[1] = hub /\ o[2] = r
      BY <1>1, <1>4
    <3>2. w[o] = wire[o]
      BY <1>2, <1>4, <2>5, <3>1
    <3>3. CASE p.dst \notin TableIndex /\ wire' = w
      BY <1>1, <3>2, <3>3
    <3>4. ASSUME NEW dests \in Outputs(hub, table'[hub], p.dst), wire' = SendTo(w, hub, dests, p)
          PROVE  \/ wire'[o] = wire[o] /\ p.dst # r
                 \/ wire[o] = << >> /\ wire'[o] # << >> /\ wire'[o][1].pkt = p
      <4>1. p.dst = r => r \in dests
        <5>1. ASSUME p.dst = r PROVE r \in dests
          <6>1. dests = IF table'[hub][r] = None THEN Hosts ELSE {table'[hub][r]}
            BY <1>1, <3>4, <5>1 DEF Outputs, FileStar
          <6>2. table'[hub][r] \in {None, r}
            BY <2>2 DEF TableOK
          <6>3. QED BY <6>1, <6>2
        <5>2. QED BY <5>1
      <4>2. CASE r \notin dests
        BY <2>5, <3>1, <3>2, <3>4, <4>1, <4>2 DEF SendTo
      <4>3. CASE r \in dests
        <5>. HIDE DEF o
        <5>1. o \in Wires
          BY <2>5 DEF o
        <5>2. wire'[o] = Push(w[o], p)
          BY <3>1, <3>4, <4>3, <5>1 DEF SendTo
        <5>3. OnePacket(w[o], hub) /\ w[o] \in Seq(Chunk)
          BY <1>4, <3>1, <5>1 DEF OneInEach
        <5>4. FitPacket(p, hub)
          BY <1>1, <1>4 DEF FitPacket
        <5>5. Len(Push(w[o], p)) <= 1
          BY <5>1, <5>2 DEF Paced
        <5>6. 2 * ReadMax <= PIPE_CAPACITY
          BY DEF FileStar
        <5>7. w[o] = << >> /\ Push(w[o], p) # << >> /\ Push(w[o], p)[1].pkt = p
          BY <5>3, <5>4, <5>5, <5>6, PushEmpty
        <5>8. QED BY <3>2, <5>2, <5>7
      <4>4. QED BY <4>2, <4>3
    <3>5. QED BY <1>4, <3>3, <3>4
  <2>6. ASSUME NEW s \in Hosts, NEW r \in Hosts
        PROVE  StreamOf(hub, wire', jobs', s, r) = StreamOf(hub, wire, jobs, s, r)
    <3>1. PICK a, b, c, d : /\ a = Rcv(jobs[r], s, r) /\ b = Wired(wire[<<hub, r>>], s, r)
                            /\ c = Wired(wire[<<s, hub>>], s, r) /\ d = Snd(jobs[s], s, r)
      OBVIOUS
    <3>2. PICK b1, c1 : b1 = Wired(wire'[<<hub, r>>], s, r) /\ c1 = Wired(wire'[<<s, hub>>], s, r)
      OBVIOUS
    <3>3. /\ a \in Seq(PacketSet) /\ b \in Seq(PacketSet) /\ c \in Seq(PacketSet)
          /\ d \in Seq(PacketSet) /\ <<hub, r>> \in Wires /\ <<s, hub>> \in Wires
      BY <1>2, <3>1, StreamParts
    <3>4. StreamOf(hub, wire, jobs, s, r) = InLine(a, b, c, d)
          /\ StreamOf(hub, wire', jobs', s, r) = InLine(a, b1, c1, d)
      BY <3>1, <3>2 DEF StreamOf
    <3>5. CASE ForFile(p, s, r)
      <4>1. p.dst = r /\ s = From(hub) /\ <<s, hub>> = e
        BY <1>4, <2>1, <3>5 DEF ForFile
      <4>2. c = <<p>> /\ c1 = << >>
        BY <1>4, <2>4, <3>1, <3>2, <3>5, <4>1 DEF Wired
      <4>3. b = << >> /\ b1 = <<p>>
        BY <2>5, <3>1, <3>2, <3>3, <3>5, <4>1 DEF Wired
      <4>4. InLine(a, c, << >>, d) = InLine(a, << >>, c, d)
        BY <3>3, MoveOver
      <4>5. QED BY <3>4, <4>2, <4>3, <4>4
    <3>6. CASE ~ForFile(p, s, r)
      <4>1. c1 = c
        BY <1>4, <2>3, <2>4, <3>1, <3>2, <3>3, <3>6 DEF Wired
      <4>2. b1 = b
        BY <2>5, <3>1, <3>2, <3>3, <3>6 DEF Wired
      <4>3. QED BY <3>4, <4>1, <4>2
    <3>7. QED BY <3>5, <3>6
  <2>7. QED BY <2>2, <2>6 DEF StreamsKept
<1>5. QED
  <2>1. CASE ~(wire' = wire /\ table' = table)
    <3>1. PICK e \in Wires :
            /\ e = <<From(hub), hub>> /\ wire[e] # << >>
            /\ FitPacket(wire[e][1].pkt, e[1])
            /\ table' = [table EXCEPT ![hub] = Learn(@, wire[e][1].pkt.src, e[1])]
            /\ OneInEach([wire EXCEPT ![e] = << >>])
            /\ [wire EXCEPT ![e] = << >>] \in [Wires -> Seq(Chunk)]
            /\ \/ /\ wire[e][1].pkt.dst \notin TableIndex
                  /\ wire' = [wire EXCEPT ![e] = << >>]
               \/ \E dests \in Outputs(hub, table'[hub], wire[e][1].pkt.dst) :
                    wire' = SendTo([wire EXCEPT ![e] = << >>], hub, dests, wire[e][1].pkt)
      BY <1>1, <2>1, SwitchOne
    <3>2. PICK p, w : p = wire[e][1].pkt /\ w = [wire EXCEPT ![e] = << >>]
      OBVIOUS
    <3>3. /\ FitPacket(p, e[1]) /\ OneInEach(w) /\ w \in [Wires -> Seq(Chunk)]
          /\ table' = [table EXCEPT ![hub] = Learn(@, p.src, e[1])]
          /\ \/ p.dst \notin TableIndex /\ wire' = w
             \/ \E dests \in Outputs(hub, table'[hub], p.dst) : wire' = SendTo(w, hub, dests, p)
      BY <3>1, <3>2
    <3>4. QED BY <1>4, <3>1, <3>2, <3>3
  <2>2. QED BY <1>3, <2>1

-----------------------------------------------------------------------------
(* The invariant.                                                          *)

\* What comes to r completes the file that r has in its buffer; a receiver that
\* is about to write one has no more of it to come.
Receiving(hub) ==
    \A s, r \in Hosts :
        /\ Parsed(fbuf[r], Stream(hub, s, r))
        /\ phase[r] = FilePhase(r) => Fresh(Stream(hub, s, r))

\* A file that is open is empty, and what will be written to it is whole.
Opened ==
    \A h \in Hosts : phase[h] = FilePhase(h) =>
        /\ Complete(fbuf[h]) /\ CanCreate(dir[h], fbuf[h].name)
        /\ Target(h) \in DOMAIN disk /\ disk[Target(h)] = << >>

FileInv(hub) ==
    /\ FitInv /\ TableOK(hub, table) /\ Receiving(hub) /\ Opened /\ FilesIntact

\* Nothing is received and nothing written.
FilesSame ==
    /\ fbuf' = fbuf /\ disk' = disk
    /\ \A h \in Hosts : /\ phase'[h] = FilePhase(h) <=> phase[h] = FilePhase(h)
                        /\ phase[h] = FilePhase(h) => dir'[h] = dir[h]

\* The files that hosts have open are left alone, and nothing is written.
HeldSame ==
    /\ disk' = disk
    /\ \A h \in Hosts : /\ phase'[h] = FilePhase(h) <=> phase[h] = FilePhase(h)
                        /\ phase[h] = FilePhase(h) => dir'[h] = dir[h] /\ fbuf'[h] = fbuf[h]

\* A step that changes nothing that a host holds of a file, nor an open file.
LEMMA HeldKeeps ==
    ASSUME NEW hub, FileInv(hub), FitInv', Receiving(hub)', HeldSame, TableOK(hub, table')
    PROVE  FileInv(hub)'
<1>1. \A h \in Hosts : FilePhase(h)' = FilePhase(h)
  BY DEF FilePhase, JobPhase
<1>2. ASSUME NEW h \in Hosts, phase'[h] = FilePhase(h)
      PROVE  /\ Complete(fbuf'[h]) /\ CanCreate(dir'[h], fbuf'[h].name)
             /\ Target(h)' = Target(h) /\ Target(h) \in DOMAIN disk' /\ disk'[Target(h)] = << >>
  BY <1>2 DEF FileInv, Opened, HeldSame, Target
<1>3. Opened'
  BY <1>1, <1>2 DEF Opened, Target
<1>4. FilesIntact'
  <2>1. ASSUME NEW f, Open(f) PROVE Open(f)'
    <3>1. PICK h \in Hosts : phase[h] = FilePhase(h) /\ Target(h) = f
      BY <2>1 DEF Open
    <3>2. phase'[h] = FilePhase(h)
      BY <3>1 DEF HeldSame
    <3>3. Target(h)' = f
      BY <1>2, <3>1, <3>2
    <3>4. QED BY <1>1, <3>2, <3>3 DEF Open
  <2>2. QED BY <2>1 DEF FileInv, FilesIntact, HeldSame
<1>5. QED BY <1>3, <1>4 DEF FileInv

\* A step that leaves the streams, the buffers and the files as they are.
LEMMA SameKeeps ==
    ASSUME NEW hub, FileInv(hub), FitInv', StreamsKept(hub), FilesSame, TableOK(hub, table')
    PROVE  FileInv(hub)'
<1>1. ASSUME NEW s \in Hosts, NEW r \in Hosts
      PROVE  /\ Parsed(fbuf'[r], StreamOf(hub, wire', jobs', s, r))
             /\ phase'[r] = FilePhase(r) => Fresh(StreamOf(hub, wire', jobs', s, r))
  <2>1. StreamOf(hub, wire', jobs', s, r) = StreamOf(hub, wire, jobs, s, r)
    BY DEF StreamsKept
  <2>2. /\ Parsed(fbuf[r], StreamOf(hub, wire, jobs, s, r))
        /\ phase[r] = FilePhase(r) => Fresh(StreamOf(hub, wire, jobs, s, r))
    BY DEF FileInv, Receiving, Stream
  <2>3. QED BY <2>1, <2>2 DEF FilesSame
<1>2. \A h \in Hosts : FilePhase(h)' = FilePhase(h)
  BY DEF FilePhase, JobPhase
<1>3. Receiving(hub)'
  BY <1>1, <1>2 DEF Receiving, Stream
<1>4. HeldSame
  BY DEF FilesSame, HeldSame
<1>5. QED BY <1>3, <1>4, HeldKeeps

\* A host that goes on to its next port or job.
LEMMA AdvancePhases ==
    ASSUME FitInv, NEW h \in Hosts, Advance(h), phase[h] # FilePhase(h)
    PROVE  \A g \in Hosts : phase'[g] = FilePhase(g) <=> phase[g] = FilePhase(g)
<1>1. /\ phase \in [Hosts -> Nat] /\ phase[h] <= FilePhase(h)
      /\ JobPhase(h) \in Nat /\ FilePhase(h) = JobPhase(h) + 1
  <2>1. phase \in [Hosts -> Nat] /\ phase[h] <= FilePhase(h)
    BY FitParts DEF HostOK, PhaseOK
  <2>2. h \in Nodes
    BY DEF Nodes
  <2>3. QED BY <2>1, <2>2, PortAssumption, LenProperties DEF JobPhase, FilePhase
<1>2. (phase[h] + 1) % (JobPhase(h) + 1) \in 0 .. JobPhase(h)
  BY <1>1
<1>3. phase' = [phase EXCEPT ![h] = (phase[h] + 1) % (JobPhase(h) + 1)]
  BY DEF Advance
<1>4. QED BY <1>1, <1>2, <1>3

\* The jobs that commands and packets make, but for those of an upload.
LEMMA OthersMade ==
    ASSUME NEW h \in Hosts
    PROVE  /\ \A dst \in Int, type \in PacketTypes \ FileTypes, body \in Seq(Bytes) :
                SendAll(Packet(h, dst, type, body)) \in OtherJobs
           /\ \A t \in Nat : PingWait(t) \in OtherJobs
           /\ \A dst \in Int, name \in Names : UploadSend(dst, name) \in OtherJobs
<1>1. ASSUME NEW dst \in Int, NEW type \in PacketTypes \ FileTypes, NEW body \in Seq(Bytes)
      PROVE  SendAll(Packet(h, dst, type, body)) \in OtherJobs
  <2>1. PICK p : p = Packet(h, dst, type, body)
    OBVIOUS
  <2>2. p \in PacketSet /\ p.type = type /\ p.src = Char(h)
    BY <2>1, PacketType DEF Packet
  <2>3. SendAll(p) \in {j \in JobsOf(h) : j.type = "SEND_ALL"}
    BY <2>2, JobsMade DEF OwnSends
  <2>4. SendAll(p).pkt = p /\ SendAll(p).type = "SEND_ALL"
    BY DEF SendAll
  <2>5. QED BY <2>1, <2>2, <2>3, <2>4 DEF OtherJobs, JobsOf, RecvTypes
<1>2. \A t \in Nat : PingWait(t) \in OtherJobs
  BY JobsMade DEF OtherJobs, JobsOf, RecvTypes
<1>3. \A dst \in Int, name \in Names : UploadSend(dst, name) \in OtherJobs
  BY JobsMade DEF OtherJobs, JobsOf, RecvTypes
<1>4. QED BY <1>1, <1>2, <1>3

\* A command of the user (host.c:342-424): it adds no packet of a file.
LEMMA CommandFiles ==
    ASSUME NEW hub, FileStar(hub), FileInv(hub), FitInv', NEW h \in Hosts, HostCommand(h),
           UNCHANGED switchVars
    PROVE  FileInv(hub)'
<1>1. FitInv /\ jobs \in [Hosts -> Seq(JobSet)] /\ dir \in [Hosts -> Names]
  BY FitParts DEF FileInv, HostOK
<1>2. phase[h] = 0 /\ Advance(h) /\ fbuf' = fbuf /\ disk' = disk /\ wire' = wire /\ table' = table
      /\ (dir' = dir \/ \E n : dir' = [dir EXCEPT ![h] = n])
  BY DEF HostCommand, HostNoCommand, HostState, HostSetDir, HostPing, HostUpload, HostDownload,
         AtCommand, switchVars
<1>3. FilesSame
  <2>1. phase[h] # FilePhase(h)
    <3>1. JobPhase(h) \in Nat /\ FilePhase(h) = JobPhase(h) + 1
      <4>1. h \in Nodes
        BY DEF Nodes
      <4>2. QED BY <4>1, PortAssumption, LenProperties DEF JobPhase, FilePhase
    <3>2. QED BY <1>2, <3>1
  <2>2. \A g \in Hosts : g # h => dir'[g] = dir[g]
    BY <1>1, <1>2
  <2>3. \A g \in Hosts : phase'[g] = FilePhase(g) <=> phase[g] = FilePhase(g)
    BY <1>1, <1>2, <2>1, AdvancePhases
  <2>4. QED BY <1>2, <2>1, <2>2, <2>3 DEF FilesSame
<1>4. ASSUME jobs' = jobs \/ \E more \in Seq(OtherJobs) : Add(h, more) PROVE FileInv(hub)'
  <2>1. StreamsKept(hub)
    <3>1. CASE jobs' = jobs
      BY <1>2, <3>1 DEF StreamsKept
    <3>2. ASSUME NEW more \in Seq(OtherJobs), Add(h, more) PROVE StreamsKept(hub)
      BY <1>1, <1>2, <3>2, OthersKept
    <3>3. QED BY <1>4, <3>1, <3>2
  <2>2. TableOK(hub, table')
    BY <1>2 DEF FileInv
  <2>3. QED BY <1>3, <2>1, <2>2, SameKeeps
<1>5. CASE HostNoCommand(h) \/ HostState(h) \/ HostSetDir(h)
  <2>1. jobs' = jobs
    BY <1>5 DEF HostNoCommand, HostState, HostSetDir
  <2>2. QED BY <1>4, <2>1
<1>6. ASSUME cmd[h] # << >> PROVE Heard(cmd[h]).dst \in Int /\ Heard(cmd[h]).name \in Names
  <2>1. Heard(cmd[h]) \in CommandSet
    BY <1>1, <1>6, HeardType, FitParts DEF ManPortTypeOK
  <2>2. QED BY <2>1 DEF CommandSet
<1>7. CASE HostPing(h)
  <2>. DEFINE j == SendAll(Packet(h, Heard(cmd[h]).dst, "PING_REQ", << >>))
              k == PingWait(PING_TIMER)
  <2>1. Add(h, <<j, k>>) /\ cmd[h] # << >>
    BY <1>7 DEF HostPing, AtCommand
  <2>2. "PING_REQ" \in PacketTypes \ FileTypes /\ << >> \in Seq(Bytes)
    BY EmptySeq DEF PacketTypes, FileTypes
  <2>3. j \in OtherJobs /\ k \in OtherJobs
    BY <1>6, <2>1, <2>2, OthersMade, HostAssumption
  <2>. HIDE DEF j, k
  <2>4. <<j, k>> \in Seq(OtherJobs)
    BY <2>3
  <2>5. QED BY <1>4, <2>1, <2>4
<1>8. CASE HostUpload(h)
  <2>. DEFINE j == UploadSend(Heard(cmd[h]).dst, Heard(cmd[h]).name)
  <2>1. Add(h, <<j>>) /\ cmd[h] # << >>
    BY <1>8 DEF HostUpload, AtCommand
  <2>2. j \in OtherJobs
    BY <1>6, <2>1, OthersMade
  <2>. HIDE DEF j
  <2>3. <<j>> \in Seq(OtherJobs)
    BY <2>2
  <2>4. QED BY <1>4, <2>1, <2>3
<1>9. CASE HostDownload(h)
  <2>. DEFINE j == SendAll(Packet(h, Heard(cmd[h]).dst, "DOWNLOAD_REQ", Heard(cmd[h]).name))
  <2>1. Add(h, <<j>>) /\ cmd[h] # << >>
    BY <1>9 DEF HostDownload, AtCommand
  <2>2. "DOWNLOAD_REQ" \in PacketTypes \ FileTypes
    BY DEF PacketTypes, FileTypes
  <2>3. j \in OtherJobs
    BY <1>6, <2>1, <2>2, OthersMade DEF Names
  <2>. HIDE DEF j
  <2>4. <<j>> \in Seq(OtherJobs)
    BY <2>3
  <2>5. QED BY <1>4, <2>1, <2>4
<1>10. QED BY <1>5, <1>7, <1>8, <1>9 DEF HostCommand

\* A packet is read (host.c:434-513): it goes from the pipe to the queue.
LEMMA PortFiles ==
    ASSUME NEW hub, FileStar(hub), FileInv(hub), FitInv', NEW h \in Hosts, HostPort(h),
           UNCHANGED switchVars
    PROVE  FileInv(hub)'
<1>1. FitInv /\ jobs \in [Hosts -> Seq(JobSet)]
  BY FitParts DEF FileInv
<1>2. AtPort(h) /\ Advance(h) /\ fbuf' = fbuf /\ disk' = disk /\ dir' = dir /\ table' = table
  BY DEF HostPort, HostNoPacket, HostIgnore, HostPingReply, HostQueue, HostDownloadRequest,
         Receives, switchVars
<1>3. FilesSame
  <2>1. phase[h] # FilePhase(h)
    <3>1. h \in Nodes
      BY DEF Nodes
    <3>2. Ports[h] \in Seq(Nodes)
      BY <3>1, PortAssumption
    <3>3. QED BY <1>2, <3>2 DEF AtPort, JobPhase, FilePhase
  <2>2. \A g \in Hosts : phase'[g] = FilePhase(g) <=> phase[g] = FilePhase(g)
    BY <1>1, <1>2, <2>1, AdvancePhases
  <2>3. QED BY <1>2, <2>2 DEF FilesSame
<1>4. ASSUME StreamsKept(hub) PROVE FileInv(hub)'
  <2>1. TableOK(hub, table')
    BY <1>2 DEF FileInv
  <2>2. QED BY <1>3, <1>4, <2>1, SameKeeps
<1>5. CASE HostNoPacket(h)
  <2>1. wire' = wire /\ jobs' = jobs
    BY <1>5 DEF HostNoPacket
  <2>2. StreamsKept(hub)
    BY <2>1 DEF StreamsKept
  <2>3. QED BY <1>4, <2>2
<1>6. << >> \in Seq(JobSet) /\ \A s, r : Rcv(<< >>, s, r) = << >> /\ Snd(<< >>, s, r) = << >>
  <2>1. << >> \in Seq(JobSet)
    OBVIOUS
  <2>2. QED BY <2>1, RcvParts, SndParts
<1>7. CASE HostIgnore(h) \/ HostPingReply(h)
  <2>1. PICK p : Receives(h, p) /\ (p.dst # h \/ p.type \in {"OTHER", "PING_REPLY"})
    BY <1>7 DEF HostIgnore, HostPingReply
  <2>2. jobs' = jobs
    BY <1>7 DEF HostIgnore, HostPingReply
  <2>3. \A s : ~ForFile(p, s, h)
    BY <2>1 DEF ForFile, FileTypes
  <2>4. StreamsKept(hub)
    BY <1>1, <1>6, <2>1, <2>2, <2>3, ReceiveKept
  <2>5. QED BY <1>4, <2>4
<1>8. CASE HostQueue(h)
  <2>1. PICK p : /\ p.dst = h /\ p.type \in DOMAIN JobOfType /\ Receives(h, p)
                 /\ Add(h, <<[type |-> JobOfType[p.type], pkt |-> p]>>)
    BY <1>8 DEF HostQueue
  <2>2. PICK j : j = [type |-> JobOfType[p.type], pkt |-> p]
    OBVIOUS
  <2>3. p \in PacketSet
    BY <1>1, <2>1, ReceivesType, FitParts
  <2>4. j \in JobSet /\ <<j>> \in Seq(JobSet)
    <3>1. j \in JobSet
      BY <2>1, <2>2, <2>3, JobsMade DEF JobsOf
    <3>2. QED BY <3>1
  <2>5. /\ j.type # "SEND_ALL" /\ j.pkt = p
        /\ j.type \in RecvTypes <=> p.type \in FileTypes
    BY <2>1, <2>2 DEF JobOfType, RecvTypes, FileTypes
  <2>6. ASSUME NEW s \in Hosts
        PROVE  Rcv(<<j>>, s, h) = IF ForFile(p, s, h) THEN <<p>> ELSE << >>
    <3>1. Rcv(<<j>>, s, h) = RecvOf(s, h)[j]
      BY <2>4, RcvParts
    <3>2. QED BY <2>4, <2>5, <3>1 DEF RecvOf, ForFile
  <2>7. \A s, r : Snd(<<j>>, s, r) = << >>
    <3>1. \A s, r : Snd(<<j>>, s, r) = SendOf(s, r)[j]
      BY <2>4, SndParts
    <3>2. QED BY <2>4, <2>5, <3>1 DEF SendOf
  <2>8. StreamsKept(hub)
    BY <1>1, <2>1, <2>2, <2>4, <2>6, <2>7, ReceiveKept
  <2>9. QED BY <1>4, <2>8
<1>9. CASE HostDownloadRequest(h)
  <2>1. PICK p : /\ p.type = "DOWNLOAD_REQ" /\ Receives(h, p)
                 /\ Add(h, <<UploadSend(p.src, p.body)>>)
    BY <1>9 DEF HostDownloadRequest
  <2>2. PICK j : j = UploadSend(p.src, p.body)
    OBVIOUS
  <2>3. p \in PacketSet
    BY <1>1, <2>1, ReceivesType, FitParts
  <2>4. j \in OtherJobs
    BY <2>2, <2>3, PacketFields, OthersMade
  <2>5. j \in JobSet /\ <<j>> \in Seq(JobSet) /\ <<j>> \in Seq(OtherJobs)
    BY <2>4 DEF OtherJobs
  <2>6. \A s, r : Rcv(<<j>>, s, r) = << >> /\ Snd(<<j>>, s, r) = << >>
    BY <2>5, NoPackets
  <2>7. \A s : ~ForFile(p, s, h)
    BY <2>1 DEF ForFile, FileTypes
  <2>8. StreamsKept(hub)
    BY <1>1, <2>1, <2>2, <2>5, <2>6, <2>7, ReceiveKept
  <2>9. QED BY <1>4, <2>8
<1>10. QED BY <1>5, <1>7, <1>8, <1>9 DEF HostPort

\* A job that opens no file.
LEMMA JobPhases ==
    ASSUME FitInv, NEW h \in Hosts, phase[h] = JobPhase(h)
    PROVE  /\ phase[h] # FilePhase(h)
           /\ Advance(h) => \A g \in Hosts : phase'[g] = FilePhase(g) <=> phase[g] = FilePhase(g)
           /\ \A g \in Hosts : FilePhase(g)' = FilePhase(g)
<1>1. phase[h] # FilePhase(h)
  <2>1. h \in Nodes
    BY DEF Nodes
  <2>2. Ports[h] \in Seq(Nodes)
    BY <2>1, PortAssumption
  <2>3. QED BY <2>2 DEF JobPhase, FilePhase
<1>2. \A g \in Hosts : FilePhase(g)' = FilePhase(g)
  BY DEF FilePhase, JobPhase
<1>3. QED BY <1>1, <1>2, AdvancePhases

-----------------------------------------------------------------------------
(* Jobs that change a stream.                                              *)

\* What the first job of h takes from a stream, and what its jobs add to one.
Off(h, s, r) == IF r = h THEN RecvOf(s, r)[Job(h)] ELSE << >>
Onto(h, more, s, r) == IF s = h THEN Snd(more, s, r) ELSE << >>

Moved(hub, h, more, s, r) ==
    \E t \in Seq(PacketSet) :
        /\ StreamOf(hub, wire, jobs, s, r) = Concat(Off(h, s, r), t)
        /\ StreamOf(hub, wire', jobs', s, r) = Concat(t, Onto(h, more, s, r))

NoneReceived(more) == \A s, r : Rcv(more, s, r) = << >>

\* The packet of the first job leaves the front of a stream to h, those of the
\* jobs it makes are put at the end of one from h.
LEMMA JobStreams ==
    ASSUME NEW hub, FileStar(hub), FitInv, NEW h \in Hosts, jobs[h] # << >>,
           NEW more \in Seq(JobSet), Done(h, more), wire' = wire, Job(h).type # "SEND_ALL",
           NoneReceived(more), NEW s \in Hosts, NEW r \in Hosts
    PROVE  Moved(hub, h, more, s, r)
<1>1. wire \in [Wires -> Seq(Chunk)] /\ jobs \in [Hosts -> Seq(JobSet)]
  BY FitParts
<1>2. /\ \A g \in Hosts : g # h => jobs'[g] = jobs[g]
      /\ Job(h) \in JobSet /\ Tail(jobs[h]) \in Seq(JobSet)
      /\ \A t, u :
           /\ Rcv(jobs[h], t, u) = RecvOf(t, u)[Job(h)] \o Rcv(Tail(jobs[h]), t, u)
           /\ Snd(jobs[h], t, u) = SendOf(t, u)[Job(h)] \o Snd(Tail(jobs[h]), t, u)
           /\ Rcv(jobs'[h], t, u) = Rcv(Tail(jobs[h]), t, u) \o Rcv(more, t, u)
           /\ Snd(jobs'[h], t, u) = Snd(Tail(jobs[h]), t, u) \o Snd(more, t, u)
  BY DoneParts
<1>0. PICK x, y : /\ x = IF r = h THEN RecvOf(s, r)[Job(h)] ELSE << >>
                  /\ y = IF s = h THEN Snd(more, s, r) ELSE << >>
  OBVIOUS
<1>3. SendOf(s, r)[Job(h)] = << >>
  BY <1>2 DEF SendOf
<1>4. PICK a, b, c, d : /\ a = Rcv(jobs[r], s, r) /\ b = Wired(wire[<<hub, r>>], s, r)
                        /\ c = Wired(wire[<<s, hub>>], s, r) /\ d = Snd(jobs[s], s, r)
  OBVIOUS
<1>5. /\ a \in Seq(PacketSet) /\ b \in Seq(PacketSet) /\ c \in Seq(PacketSet)
      /\ d \in Seq(PacketSet)
  BY <1>1, <1>4, StreamParts
<1>6. PICK a1, d1 : /\ a1 = IF r = h THEN Rcv(Tail(jobs[h]), s, r) ELSE a
                    /\ d1 = IF s = h THEN Snd(Tail(jobs[h]), s, r) ELSE d
  OBVIOUS
<1>7. /\ a1 \in Seq(PacketSet) /\ d1 \in Seq(PacketSet)
      /\ x \in Seq(PacketSet) /\ y \in Seq(PacketSet)
  <2>1. Rcv(Tail(jobs[h]), s, r) \in Seq(PacketSet) /\ Snd(Tail(jobs[h]), s, r) \in Seq(PacketSet)
        /\ Snd(more, s, r) \in Seq(PacketSet)
    BY <1>2, RcvParts, SndParts
  <2>2. RecvOf(s, r)[Job(h)] \in Seq(PacketSet)
    BY <1>2, JobMaps DEF Maps
  <2>3. << >> \in Seq(PacketSet)
    OBVIOUS
  <2>4. QED BY <1>0, <1>5, <1>6, <2>1, <2>2, <2>3
<1>8. \A z \in Seq(PacketSet) : << >> \o z = z /\ z \o << >> = z
  BY ConcatFacts
<1>9. a = x \o a1 /\ d = d1
  <2>1. r = h => a = x \o a1
    BY <1>0, <1>2, <1>4, <1>6
  <2>2. r # h => a = x \o a1
    BY <1>0, <1>5, <1>6, <1>8
  <2>3. s = h => d = << >> \o d1
    BY <1>2, <1>3, <1>4, <1>6
  <2>4. s # h => d = d1
    BY <1>6
  <2>5. QED BY <1>7, <1>8, <2>1, <2>2, <2>3, <2>4
<1>10. Rcv(jobs'[r], s, r) = a1 /\ Snd(jobs'[s], s, r) = d1 \o y
  <2>1. r = h => Rcv(jobs'[r], s, r) = a1 \o << >>
    <3>1. Rcv(more, s, r) = << >>
      BY DEF NoneReceived
    <3>2. QED BY <1>2, <1>6, <3>1
  <2>2. r # h => Rcv(jobs'[r], s, r) = a1
    BY <1>2, <1>4, <1>6
  <2>3. s = h => Snd(jobs'[s], s, r) = d1 \o y
    BY <1>0, <1>2, <1>6
  <2>4. s # h => Snd(jobs'[s], s, r) = d1 /\ y = << >>
    BY <1>0, <1>2, <1>4, <1>6
  <2>5. QED BY <1>7, <1>8, <2>1, <2>2, <2>3, <2>4
<1>11. PICK t : t = InLine(a1, b, c, d1)
  OBVIOUS
<1>12. t \in Seq(PacketSet)
  <2>1. c \o d1 \in Seq(PacketSet)
    BY <1>5, <1>7, ConcatProperties
  <2>2. b \o (c \o d1) \in Seq(PacketSet)
    BY <1>5, <2>1, ConcatProperties
  <2>3. QED BY <1>7, <1>11, <2>2, ConcatProperties DEF InLine
<1>13. StreamOf(hub, wire, jobs, s, r) = Concat(x, t)
  <2>1. InLine(Concat(x, a1), b, c, d1) = Concat(x, InLine(a1, b, c, d1))
    <3>1. /\ a1 \in Seq(PacketSet) /\ b \in Seq(PacketSet) /\ c \in Seq(PacketSet)
          /\ d1 \in Seq(PacketSet) /\ x \in Seq(PacketSet)
      BY <1>5, <1>7
    <3>2. QED BY <3>1, FrontOf
  <2>2. StreamOf(hub, wire, jobs, s, r) = InLine(a, b, c, d)
    BY <1>4 DEF StreamOf
  <2>3. a = Concat(x, a1) /\ d = d1
    BY <1>9 DEF Concat
  <2>4. QED BY <1>11, <2>1, <2>2, <2>3
<1>14. StreamOf(hub, wire', jobs', s, r) = Concat(t, y)
  <2>1. InLine(a1, b, c, Concat(d1, y)) = Concat(InLine(a1, b, c, d1), y)
    <3>1. /\ a1 \in Seq(PacketSet) /\ b \in Seq(PacketSet) /\ c \in Seq(PacketSet)
          /\ d1 \in Seq(PacketSet) /\ y \in Seq(PacketSet)
      BY <1>5, <1>7
    <3>2. QED BY <3>1, EndOf
  <2>0. Rcv(jobs'[r], s, r) = a1 /\ Snd(jobs'[s], s, r) = Concat(d1, y)
    BY <1>10 DEF Concat
  <2>2. StreamOf(hub, wire', jobs', s, r) = InLine(a1, b, c, Concat(d1, y))
    BY <1>4, <2>0 DEF StreamOf
  <2>3. QED BY <1>11, <2>1, <2>2
<1>15. x = Off(h, s, r) /\ y = Onto(h, more, s, r)
  BY <1>0 DEF Off, Onto
<1>16. QED BY <1>12, <1>13, <1>14, <1>15 DEF Moved

\* The next stream from s to r.
StreamAfter(hub, s, r) == StreamOf(hub, wire', jobs', s, r)

\* Packet p of a job of h is the first of its stream, and leaves it.
Leaves(hub, h, p) ==
    /\ p \in PacketSet /\ p.src \in Hosts /\ p.type \in FileTypes
    /\ Job(h).type = JobOfType[p.type]
    /\ Stream(hub, p.src, h) = <<p>> \o StreamAfter(hub, p.src, h)
    /\ \A s, r \in Hosts :
         /\ StreamAfter(hub, s, r) \in Seq(PacketSet)
         /\ s # p.src \/ r # h => StreamAfter(hub, s, r) = Stream(hub, s, r)

\* A packet of a file is taken from the front of its stream.
LEMMA ReceiveStreams ==
    ASSUME NEW hub, FileStar(hub), FitInv, NEW h \in Hosts, jobs[h] # << >>,
           Done(h, << >>), wire' = wire, Job(h).type \in RecvTypes,
           NEW p, p = Job(h).pkt
    PROVE  Leaves(hub, h, p)
<1>1. FitJob(Job(h), h) /\ Job(h) \in JobSet /\ (Job(h).type \in PacketJobs => p \in PacketSet)
  BY FirstJob
<1>2. /\ p \in PacketSet /\ p.src \in Hosts /\ p.dst = h /\ p.type \in FileTypes
      /\ Job(h).type = JobOfType[p.type] /\ Job(h).type # "SEND_ALL"
  BY <1>1 DEF FitJob, RecvTypes, PacketJobs
<1>3. << >> \in Seq(JobSet) /\ \A s, r : Rcv(<< >>, s, r) = << >> /\ Snd(<< >>, s, r) = << >>
  <2>1. << >> \in Seq(JobSet)
    OBVIOUS
  <2>2. QED BY <2>1, RcvParts, SndParts
<1>4. \A z \in Seq(PacketSet) : << >> \o z = z /\ z \o << >> = z
  BY ConcatFacts
<1>5. ASSUME NEW s \in Hosts, NEW r \in Hosts
      PROVE  /\ StreamAfter(hub, s, r) \in Seq(PacketSet)
             /\ s = p.src /\ r = h => Stream(hub, s, r) = <<p>> \o StreamAfter(hub, s, r)
             /\ s # p.src \/ r # h => StreamAfter(hub, s, r) = Stream(hub, s, r)
  <2>1. PICK x, y : x = Off(h, s, r) /\ y = Onto(h, << >>, s, r)
    OBVIOUS
  <2>2. PICK t \in Seq(PacketSet) :
             /\ StreamOf(hub, wire, jobs, s, r) = Concat(x, t)
             /\ StreamOf(hub, wire', jobs', s, r) = Concat(t, y)
    <3>1. PICK more : more = << >>
      OBVIOUS
    <3>2. more \in Seq(JobSet) /\ Done(h, more) /\ NoneReceived(more)
      BY <1>3, <3>1 DEF NoneReceived
    <3>3. y = Onto(h, more, s, r)
      BY <2>1, <3>1
    <3>4. Moved(hub, h, more, s, r)
      BY <1>2, <3>2, JobStreams
    <3>5. QED BY <2>1, <3>3, <3>4 DEF Moved
  <2>3. y = << >>
    BY <1>3, <2>1 DEF Onto
  <2>4. x = IF s = p.src /\ r = h THEN <<p>> ELSE << >>
    BY <1>1, <1>2, <2>1 DEF Off, RecvOf, ForFile
  <2>5. StreamAfter(hub, s, r) = t /\ Stream(hub, s, r) = x \o t
    BY <1>4, <2>2, <2>3 DEF StreamAfter, Stream, Concat
  <2>6. QED BY <1>4, <2>4, <2>5
<1>6. QED BY <1>2, <1>5 DEF Leaves

-----------------------------------------------------------------------------
\* At most one host has parts of files on the way to r.
OneUploadEach(hub) ==
    \A r, s, t \in Hosts :
        s # t => Stream(hub, s, r) = << >> \/ Stream(hub, t, r) = << >>

\* Host h has put packet p in its buffer.
Received(hub, h, p) ==
    /\ \A s, r \in Hosts : Parsed(fbuf'[r], StreamAfter(hub, s, r))
    /\ \A g \in Hosts : g # h => fbuf'[g] = fbuf[g]
    /\ \A s, r \in Hosts : r # h => StreamAfter(hub, s, r) = Stream(hub, s, r)
    /\ fbuf'[h] = Handle(p, fbuf[h])
    /\ p.type = "UPLOAD_END" =>
         Complete(fbuf'[h]) /\ \A s \in Hosts : Fresh(StreamAfter(hub, s, h))

\* The job for a received packet takes it off its stream and into the buffer.
LEMMA ReceiveBuffers ==
    ASSUME NEW hub, FileStar(hub), FileInv(hub), OneUploadEach(hub), NEW h \in Hosts,
           jobs[h] # << >>, Done(h, << >>), wire' = wire, Job(h).type \in RecvTypes,
           NEW p, p = Job(h).pkt, fbuf' = [fbuf EXCEPT ![h] = Handle(p, @)]
    PROVE  Received(hub, h, p)
<1>1. FitInv /\ Receiving(hub)
  BY DEF FileInv
<1>2. /\ p \in PacketSet /\ p.src \in Hosts /\ p.type \in FileTypes
      /\ Stream(hub, p.src, h) = <<p>> \o StreamAfter(hub, p.src, h)
      /\ \A s, r \in Hosts :
           /\ StreamAfter(hub, s, r) \in Seq(PacketSet)
           /\ s # p.src \/ r # h => StreamAfter(hub, s, r) = Stream(hub, s, r)
  <2>1. Leaves(hub, h, p)
    BY <1>1, ReceiveStreams
  <2>2. QED BY <2>1 DEF Leaves
<1>3. fbuf \in [Hosts -> Buffers]
  BY <1>1, FitParts DEF HostOK, FbufOK, Buffers
<1>4. fbuf'[h] = Handle(p, fbuf[h]) /\ \A g \in Hosts : g # h => fbuf'[g] = fbuf[g]
  BY <1>3
<1>5. fbuf'[h] \in Buffers
  BY <1>2, <1>3, <1>4, HandleType
<1>6. /\ Parsed(fbuf'[h], StreamAfter(hub, p.src, h))
      /\ p.type = "UPLOAD_END" => Complete(fbuf'[h]) /\ Fresh(StreamAfter(hub, p.src, h))
  <2>1. PICK S \in Seq(PacketSet) : S = StreamAfter(hub, p.src, h)
    BY <1>2
  <2>2. Parsed(fbuf[h], <<p>> \o S)
    BY <1>1, <1>2, <2>1 DEF Receiving
  <2>3. PICK f : f = fbuf[h]
    OBVIOUS
  <2>4. Parsed(Handle(p, f), S) /\ (p.type = "UPLOAD_END" => Complete(Handle(p, f)) /\ Fresh(S))
    BY <1>2, <2>2, <2>3, ParsedHead
  <2>5. QED BY <1>4, <2>1, <2>3, <2>4
<1>7. Stream(hub, p.src, h) # << >>
  <2>1. PICK S \in Seq(PacketSet) : S = StreamAfter(hub, p.src, h)
    BY <1>2
  <2>2. <<p>> \o S # << >>
    BY <1>2
  <2>3. QED BY <1>2, <2>1, <2>2
<1>8. \A s \in Hosts : s # p.src => StreamAfter(hub, s, h) = << >>
  BY <1>2, <1>7 DEF OneUploadEach
<1>9. ASSUME NEW s \in Hosts, NEW r \in Hosts PROVE Parsed(fbuf'[r], StreamAfter(hub, s, r))
  <2>1. CASE r # h
    <3>1. Parsed(fbuf[r], Stream(hub, s, r))
      BY <1>1 DEF Receiving
    <3>2. QED BY <1>2, <1>4, <2>1, <3>1
  <2>2. CASE r = h /\ s = p.src
    BY <1>6, <2>2
  <2>3. CASE r = h /\ s # p.src
    <3>1. Parsed(fbuf'[h], << >>)
      BY <1>5, ParsedEmpty
    <3>2. QED BY <1>8, <2>3, <3>1
  <2>4. QED BY <2>1, <2>2, <2>3
<1>10. p.type = "UPLOAD_END" => \A s \in Hosts : Fresh(StreamAfter(hub, s, h))
  BY <1>6, <1>8 DEF Fresh
<1>11. QED BY <1>2, <1>4, <1>6, <1>9, <1>10 DEF Received

-----------------------------------------------------------------------------
(* Jobs that open a file, write one or send one.                           *)

\* No host is about to send, or writes, a file that another host has open.
NoFileShared ==
    /\ \A h \in Hosts : Runs(h, "UPLOAD_SEND") => ~Open(<<dir[h], Job(h).name>>)
    /\ \A g, h \in Hosts : g # h /\ phase[g] = FilePhase(g) /\ phase[h] = FilePhase(h)
                              => Target(g) # Target(h)

UploadsTo(J, h, dst) ==
    /\ J \in Seq(JobSet) /\ NoneReceived(J)
    /\ \A r \in Hosts : Snd(J, h, r) = IF Char(dst) = r THEN Pkts(J) ELSE << >>

\* The packets of an upload are all to its destination.
LEMMA UploadTo ==
    ASSUME NEW h \in Hosts, NEW dst \in Int, NEW name \in Names, NEW data \in Seq(Bytes),
           NEW J, J = UploadJobs(h, dst, name, data)
    PROVE  UploadsTo(J, h, dst)
<1>1. J \in Seq(FileSends(h))
  BY UploadJobsType
<1>. DEFINE D == {j \in FileSends(h) : j.pkt.dst = Char(dst)}
<1>2. ASSUME NEW j \in FileSends(h)
      PROVE  j \in JobSet /\ j.type = "SEND_ALL" /\ j.pkt.src = h /\ j.pkt.type \in FileTypes
  <2>1. j \in {i \in JobsOf(h) : i.type = "SEND_ALL"} /\ j.pkt.type \in FileTypes
    BY JobsMade DEF FileSends, FileTypes
  <2>2. QED BY <2>1, CharOfHost DEF JobsOf
<1>3. J \in Seq(D)
  <2>1. PICK U, full : U = Pkts(J) /\ full = Len(data) \div PAYLOAD_MAX
    OBVIOUS
  <2>2. IsUpload(U, full, h, dst, name, data)
    BY <2>1, UploadPackets
  <2>3. full \in Nat /\ Len(U) = full + 2 /\ Len(J) \in Nat
    BY <1>1, <2>2 DEF IsUpload
  <2>4. Len(J) = full + 2 /\ \A k \in 1 .. Len(J) : U[k] = J[k].pkt
    <3>1. DOMAIN J = 1 .. Len(J) /\ DOMAIN U = DOMAIN J
      BY <1>1, <2>1 DEF Pkts
    <3>2. U = [k \in 1 .. Len(J) |-> J[k].pkt]
      BY <2>1, <3>1 DEF Pkts
    <3>3. Len(U) = Len(J)
      BY <2>3, <3>2
    <3>4. QED BY <2>3, <3>2, <3>3
  <2>5. \A type, body : Packet(h, dst, type, body).dst = Char(dst)
    BY DEF Packet
  <2>6. ASSUME NEW k \in 1 .. Len(J) PROVE J[k] \in D
    <3>1. J[k] \in FileSends(h)
      BY <1>1, ElementOfSeq
    <3>2. k = 1 \/ k = full + 2 \/ (k - 1 \in 1 .. full /\ (k - 1) + 1 = k)
      BY <2>3, <2>4
    <3>3. U[k].dst = Char(dst)
      <4>1. CASE k = 1
        BY <2>2, <2>5, <4>1 DEF IsUpload
      <4>2. CASE k = full + 2
        BY <2>2, <2>5, <4>2 DEF IsUpload
      <4>3. CASE k - 1 \in 1 .. full /\ (k - 1) + 1 = k
        BY <2>2, <2>5, <4>3 DEF IsUpload
      <4>4. QED BY <3>2, <4>1, <4>2, <4>3
    <3>4. QED BY <2>4, <3>1, <3>3
  <2>. HIDE DEF D
  <2>7. QED BY <1>1, <2>6
<1>. HIDE DEF D
<1>4. D \subseteq JobSet /\ D \subseteq {j \in JobSet : j.type \notin RecvTypes}
  BY <1>2 DEF D, RecvTypes
<1>5. J \in Seq(JobSet) /\ J \in Seq({j \in JobSet : j.type \notin RecvTypes})
  BY <1>3, <1>4, SeqMonotonic
<1>6. NoneReceived(J)
  BY <1>5, NoPackets DEF NoneReceived
<1>7. ASSUME NEW r \in Hosts
      PROVE  Snd(J, h, r) = IF Char(dst) = r THEN Pkts(J) ELSE << >>
  <2>1. PICK f : f = SendOf(h, r) /\ Maps(f, JobSet, Seq(PacketSet))
    BY JobMaps
  <2>2. CASE Char(dst) = r
    <3>1. \A j \in D : f[j] = <<j.pkt>>
      BY <1>2, <2>1, <2>2 DEF D, SendOf, ForFile
    <3>2. Packets(f, J) = Pkts(J)
      BY <1>3, <1>4, <2>1, <3>1, PacketsOfAll
    <3>3. QED BY <2>1, <2>2, <3>2 DEF Snd
  <2>3. CASE Char(dst) # r
    <3>1. \A j \in D : f[j] = << >>
      BY <1>2, <2>1, <2>3 DEF D, SendOf, ForFile
    <3>2. Packets(f, J) = << >>
      BY <1>3, <1>4, <2>1, <3>1, PacketsNone
    <3>3. QED BY <2>1, <2>3, <3>2 DEF Snd
  <2>4. QED BY <2>2, <2>3
<1>8. QED BY <1>5, <1>6, <1>7 DEF UploadsTo

\* A file that nobody has open is sent behind what is on the way.
LEMMA UploadFiles ==
    ASSUME NEW hub, FileStar(hub), FileInv(hub), FitInv', NoFileShared, NEW h \in Hosts,
           JobUploadSend(h), UNCHANGED switchVars
    PROVE  FileInv(hub)'
<1>. DEFINE file == <<dir[h], Job(h).name>>
<1>1. /\ FitInv /\ Receiving(hub) /\ TableOK(hub, table) /\ Opened /\ FilesIntact
  BY DEF FileInv
<1>2. /\ phase[h] = JobPhase(h) /\ jobs[h] # << >> /\ Job(h).type = "UPLOAD_SEND"
      /\ Runs(h, "UPLOAD_SEND") /\ Advance(h) /\ wire' = wire /\ table' = table
      /\ dir' = dir /\ fbuf' = fbuf /\ disk' = disk
  BY DEF JobUploadSend, AtJob, Runs, switchVars
<1>3. Job(h).dst \in Int /\ Job(h).name \in Names /\ Job(h) \in JobSet
  BY <1>1, <1>2, FirstJob
<1>4. ASSUME NEW more \in Seq(JobSet), Done(h, more), NoneReceived(more),
             NEW U \in [Hosts -> Seq(PacketSet)],
             \A r \in Hosts : Snd(more, h, r) = U[r],
             \A r \in Hosts : Fresh(U[r]) /\ \A g \in Buffers : Parsed(g, U[r])
      PROVE  FileInv(hub)'
  <2>1. ASSUME NEW s \in Hosts, NEW r \in Hosts
        PROVE  /\ Parsed(fbuf[r], StreamAfter(hub, s, r))
               /\ Fresh(Stream(hub, s, r)) => Fresh(StreamAfter(hub, s, r))
    <3>1. PICK x, y : x = Off(h, s, r) /\ y = Onto(h, more, s, r)
      OBVIOUS
    <3>2. PICK t \in Seq(PacketSet) :
             /\ StreamOf(hub, wire, jobs, s, r) = Concat(x, t)
             /\ StreamOf(hub, wire', jobs', s, r) = Concat(t, y)
      <4>1. Job(h).type # "SEND_ALL"
        BY <1>2
      <4>2. Moved(hub, h, more, s, r)
        BY <1>1, <1>2, <1>4, <4>1, JobStreams
      <4>3. QED BY <3>1, <4>2 DEF Moved
    <3>3. x = << >>
      BY <1>2, <1>3, <3>1 DEF Off, RecvOf, RecvTypes
    <3>4. \A z \in Seq(PacketSet) : Concat(<< >>, z) = z /\ Concat(z, << >>) = z
      BY ConcatFacts DEF Concat
    <3>5. Stream(hub, s, r) = t /\ StreamAfter(hub, s, r) = Concat(t, y)
      BY <3>2, <3>3, <3>4 DEF Stream, StreamAfter
    <3>6. Parsed(fbuf[r], t)
      BY <1>1, <3>5 DEF Receiving
    <3>7. CASE s # h
      <4>1. y = << >>
        BY <3>1, <3>7 DEF Onto
      <4>2. StreamAfter(hub, s, r) = t
        BY <3>4, <3>5, <4>1
      <4>3. QED BY <3>5, <3>6, <4>2
    <3>8. CASE s = h
      <4>1. y = U[r] /\ y \in Seq(PacketSet)
        BY <1>4, <3>1, <3>8 DEF Onto
      <4>2. Fresh(y) /\ \A g \in Buffers : Parsed(g, y)
        BY <1>4, <4>1
      <4>3. PICK f : f = fbuf[r]
        OBVIOUS
      <4>4. Parsed(f, t)
        BY <3>6, <4>3
      <4>5. Parsed(f, t \o y) /\ (Fresh(t) => Fresh(t \o y))
        BY <4>1, <4>2, <4>4, ParsedConcat
      <4>6. QED BY <3>5, <4>3, <4>5 DEF Concat
    <3>9. QED BY <3>7, <3>8
  <2>2. /\ \A g \in Hosts : FilePhase(g)' = FilePhase(g)
        /\ \A g \in Hosts : phase'[g] = FilePhase(g) <=> phase[g] = FilePhase(g)
    BY <1>1, <1>2, JobPhases
  <2>3. Receiving(hub)'
    BY <1>1, <1>2, <2>1, <2>2 DEF Receiving, Stream, StreamAfter
  <2>4. HeldSame
    BY <1>2, <2>2 DEF HeldSame
  <2>5. TableOK(hub, table')
    BY <1>1, <1>2
  <2>6. QED BY <2>3, <2>4, <2>5, HeldKeeps
<1>5. CASE file \notin DOMAIN disk
  <2>1. PICK more : more = << >>
    OBVIOUS
  <2>2. Done(h, more)
    BY <1>5, <2>1 DEF JobUploadSend
  <2>3. more \in Seq(JobSet) /\ NoneReceived(more) /\ \A r \in Hosts : Snd(more, h, r) = << >>
    BY <2>1, RcvParts, SndParts DEF NoneReceived
  <2>4. PICK U : U = [r \in Hosts |-> << >>]
    OBVIOUS
  <2>5. U \in [Hosts -> Seq(PacketSet)] /\ \A r \in Hosts : U[r] = << >>
    BY <2>4
  <2>6. \A r \in Hosts : Fresh(U[r]) /\ \A g \in Buffers : Parsed(g, U[r])
    BY <2>5, ParsedEmpty DEF Fresh
  <2>7. QED BY <1>4, <2>2, <2>3, <2>5, <2>6
<1>6. CASE file \in DOMAIN disk
  <2>1. PICK data, name, dst : data = disk[file] /\ name = Job(h).name /\ dst = Job(h).dst
    OBVIOUS
  <2>2. data \in Seq(Bytes) /\ name \in Names /\ dst \in Int
    BY <1>1, <1>3, <1>6, <2>1, FitParts DEF HostOK, DiskOK
  <2>3. Intact(name, data)
    <3>1. ~Open(file)
      BY <1>2 DEF NoFileShared
    <3>2. file[2] = name
      BY <2>1
    <3>. HIDE DEF file
    <3>3. QED BY <1>1, <1>6, <2>1, <3>1, <3>2 DEF FilesIntact, Intact
  <2>4. PICK J : J = UploadJobs(h, dst, name, data)
    OBVIOUS
  <2>5. Done(h, J)
    BY <1>6, <2>1, <2>4 DEF JobUploadSend
  <2>6. /\ J \in Seq(JobSet) /\ NoneReceived(J)
        /\ \A r \in Hosts : Snd(J, h, r) = IF Char(dst) = r THEN Pkts(J) ELSE << >>
    <3>1. UploadsTo(J, h, dst)
      BY <2>2, <2>4, UploadTo
    <3>2. QED BY <3>1 DEF UploadsTo
  <2>7. PICK V : V = Pkts(J)
    OBVIOUS
  <2>8. V \in Seq(PacketSet) /\ Fresh(V) /\ \A g \in Buffers : Parsed(g, V)
    BY <2>2, <2>3, <2>4, <2>7, UploadParsed
  <2>9. PICK U : U = [r \in Hosts |-> IF Char(dst) = r THEN V ELSE << >>]
    OBVIOUS
  <2>10. /\ U \in [Hosts -> Seq(PacketSet)]
         /\ \A r \in Hosts : U[r] = IF Char(dst) = r THEN V ELSE << >>
    BY <2>8, <2>9
  <2>11. \A r \in Hosts : Snd(J, h, r) = U[r]
    BY <2>6, <2>7, <2>10
  <2>12. \A r \in Hosts : Fresh(U[r]) /\ \A g \in Buffers : Parsed(g, U[r])
    BY <2>8, <2>10, ParsedEmpty DEF Fresh
  <2>13. QED BY <1>4, <2>5, <2>6, <2>10, <2>11, <2>12
<1>7. QED BY <1>5, <1>6

\* A packet goes into the buffer, and no file is opened.
LEMMA BufferFiles ==
    ASSUME NEW hub, FileStar(hub), FileInv(hub), FitInv', OneUploadEach(hub), NEW h \in Hosts,
           JobRecvStart(h) \/ JobRecvIn(h) \/ JobRecvEndNoFile(h), UNCHANGED switchVars
    PROVE  FileInv(hub)'
<1>. DEFINE p == Job(h).pkt
<1>1. /\ phase[h] = JobPhase(h) /\ jobs[h] # << >> /\ Job(h).type \in RecvTypes
      /\ Advance(h) /\ Done(h, << >>) /\ wire' = wire /\ table' = table
      /\ dir' = dir /\ disk' = disk
  BY DEF JobRecvStart, JobRecvIn, JobRecvEndNoFile, AtJob, Runs, switchVars, RecvTypes
<1>2. FitInv /\ Receiving(hub) /\ TableOK(hub, table)
  BY DEF FileInv
<1>3. fbuf' = [fbuf EXCEPT ![h] = Handle(p, @)]
  <2>1. p.type \in FileTypes /\ Job(h).type = JobOfType[p.type]
    BY <1>1, <1>2, FirstJob DEF FitJob
  <2>2. p.type = "UPLOAD_START" <=> Job(h).type = "RECV_START"
    BY <2>1 DEF FileTypes, JobOfType
  <2>3. QED BY <2>2 DEF JobRecvStart, JobRecvIn, JobRecvEndNoFile, AtJob, Runs, Handle
<1>. HIDE DEF p
<1>4. Received(hub, h, p)
  <2>1. p = Job(h).pkt
    BY DEF p
  <2>2. QED BY <1>1, <1>3, <2>1, ReceiveBuffers
<1>5. /\ phase[h] # FilePhase(h)
      /\ \A g \in Hosts : phase'[g] = FilePhase(g) <=> phase[g] = FilePhase(g)
      /\ \A g \in Hosts : FilePhase(g)' = FilePhase(g)
  BY <1>1, <1>2, JobPhases
<1>6. Receiving(hub)'
  <2>1. ASSUME NEW s \in Hosts, NEW r \in Hosts
        PROVE  /\ Parsed(fbuf'[r], StreamAfter(hub, s, r))
               /\ phase'[r] = FilePhase(r)' => Fresh(StreamAfter(hub, s, r))
    BY <1>2, <1>4, <1>5 DEF Receiving, Received
  <2>2. QED BY <2>1 DEF Receiving, Stream, StreamAfter
<1>7. HeldSame
  BY <1>1, <1>4, <1>5 DEF HeldSame, Received
<1>8. TableOK(hub, table')
  BY <1>1, <1>2
<1>9. QED BY <1>6, <1>7, <1>8, HeldKeeps

\* The last packet of a file: the file is opened, and emptied.
LEMMA OpenFiles ==
    ASSUME NEW hub, FileStar(hub), FileInv(hub), FitInv', OneUploadEach(hub), NEW h \in Hosts,
           JobRecvEnd(h), UNCHANGED switchVars
    PROVE  FileInv(hub)'
<1>. DEFINE p == Job(h).pkt
<1>1. /\ phase[h] = JobPhase(h) /\ jobs[h] # << >> /\ Job(h).type = "RECV_END"
      /\ CanCreate(dir[h], fbuf[h].name) /\ fbuf' = [fbuf EXCEPT ![h] = BufAdd(@, p.body)]
      /\ disk' = [f \in DOMAIN disk \cup {Target(h)} |-> IF f = Target(h) THEN << >> ELSE disk[f]]
      /\ phase' = [phase EXCEPT ![h] = FilePhase(h)]
      /\ Done(h, << >>) /\ wire' = wire /\ table' = table /\ dir' = dir
  BY DEF JobRecvEnd, Runs, switchVars
<1>2. FitInv /\ Receiving(hub) /\ TableOK(hub, table) /\ Opened /\ FilesIntact
  BY DEF FileInv
<1>3. /\ p \in PacketSet /\ p.type = "UPLOAD_END" /\ Job(h).type \in RecvTypes
      /\ fbuf' = [fbuf EXCEPT ![h] = Handle(p, @)]
  <2>1. p.type \in FileTypes /\ Job(h).type = JobOfType[p.type] /\ Job(h).type \in RecvTypes
        /\ p \in PacketSet
    BY <1>1, <1>2, FirstJob DEF FitJob, RecvTypes, PacketJobs
  <2>2. p.type = "UPLOAD_END"
    BY <1>1, <2>1 DEF FileTypes, JobOfType
  <2>3. QED BY <1>1, <2>1, <2>2 DEF Handle
<1>. HIDE DEF p
<1>4. Received(hub, h, p)
  <2>1. p = Job(h).pkt
    BY DEF p
  <2>2. QED BY <1>1, <1>3, <2>1, ReceiveBuffers
<1>5. /\ phase[h] # FilePhase(h)
      /\ \A g \in Hosts : FilePhase(g)' = FilePhase(g)
      /\ phase'[h] = FilePhase(h) /\ \A g \in Hosts : g # h => phase'[g] = phase[g]
  <2>1. phase \in [Hosts -> Nat]
    BY <1>2, FitParts DEF HostOK, PhaseOK
  <2>2. QED BY <1>1, <1>2, <2>1, JobPhases
<1>6. Receiving(hub)'
  <2>1. ASSUME NEW s \in Hosts, NEW r \in Hosts
        PROVE  /\ Parsed(fbuf'[r], StreamAfter(hub, s, r))
               /\ phase'[r] = FilePhase(r)' => Fresh(StreamAfter(hub, s, r))
    BY <1>2, <1>3, <1>4, <1>5 DEF Receiving, Received
  <2>2. QED BY <2>1 DEF Receiving, Stream, StreamAfter
<1>7. fbuf'[h].name = fbuf[h].name /\ Complete(fbuf'[h]) /\ \A g \in Hosts : g # h => fbuf'[g] = fbuf[g]
  <2>1. fbuf[h] \in Buffers /\ p.body \in Seq(Bytes)
    BY <1>2, <1>3, FitParts DEF HostOK, FbufOK, Buffers, PacketSet
  <2>2. BufAdd(fbuf[h], p.body) = [name |-> fbuf[h].name, data |-> Kept(fbuf[h].data \o p.body)]
    BY <2>1, BufAddKeeps
  <2>3. fbuf'[h] = BufAdd(fbuf[h], p.body)
    BY <1>3, <1>4 DEF Received, Handle
  <2>4. QED BY <1>3, <1>4, <2>2, <2>3 DEF Received
<1>8. PICK t : t = Target(h)
  OBVIOUS
<1>9. /\ DOMAIN disk' = DOMAIN disk \cup {t}
      /\ \A f \in DOMAIN disk' : disk'[f] = IF f = t THEN << >> ELSE disk[f]
  BY <1>1, <1>8
<1>10. ASSUME NEW g \in Hosts, phase'[g] = FilePhase(g)
       PROVE  /\ Complete(fbuf'[g]) /\ CanCreate(dir'[g], fbuf'[g].name)
              /\ Target(g)' = Target(g) /\ Target(g) \in DOMAIN disk' /\ disk'[Target(g)] = << >>
  <2>1. CASE g = h
    BY <1>1, <1>7, <1>8, <1>9, <2>1 DEF Target
  <2>2. CASE g # h
    <3>1. phase[g] = FilePhase(g)
      BY <1>5, <1>10, <2>2
    <3>2. /\ Complete(fbuf[g]) /\ CanCreate(dir[g], fbuf[g].name)
          /\ Target(g) \in DOMAIN disk /\ disk[Target(g)] = << >>
      BY <1>2, <3>1 DEF Opened
    <3>3. QED BY <1>1, <1>7, <1>9, <2>2, <3>2 DEF Target
  <2>3. QED BY <2>1, <2>2
<1>11. Opened'
  BY <1>5, <1>10 DEF Opened
<1>12. FilesIntact'
  <2>1. ASSUME NEW f \in DOMAIN disk'
        PROVE  Open(f)' \/ \E g \in DOMAIN Files :
                 g[2] = f[2] /\ disk'[f] \in {Files[g], Kept(Files[g])}
    <3>1. CASE f = t
      BY <1>5, <1>8, <1>10, <3>1 DEF Open
    <3>2. CASE f # t /\ Open(f)
      <4>1. PICK g \in Hosts : phase[g] = FilePhase(g) /\ Target(g) = f
        BY <3>2 DEF Open
      <4>2. phase'[g] = FilePhase(g)
        BY <1>5, <4>1
      <4>3. Target(g)' = f
        BY <1>10, <4>1, <4>2
      <4>4. QED BY <1>5, <4>2, <4>3 DEF Open
    <3>3. CASE f # t /\ ~Open(f)
      <4>1. f \in DOMAIN disk /\ disk'[f] = disk[f]
        BY <1>9, <3>3
      <4>2. QED BY <1>2, <3>3, <4>1 DEF FilesIntact
    <3>4. QED BY <3>1, <3>2, <3>3
  <2>2. QED BY <2>1 DEF FilesIntact
<1>13. TableOK(hub, table')
  BY <1>1, <1>2
<1>14. QED BY <1>6, <1>11, <1>12, <1>13 DEF FileInv

\* A file is written and closed.
LEMMA WrittenFiles ==
    ASSUME NEW hub, FileStar(hub), FileInv(hub), FitInv', NoFileShared, NEW h \in Hosts,
           JobFileWritten(h), UNCHANGED switchVars
    PROVE  FileInv(hub)'
<1>1. FitInv /\ Receiving(hub) /\ TableOK(hub, table) /\ Opened /\ FilesIntact
  BY DEF FileInv
<1>2. PICK t, data : t = Target(h) /\ data = fbuf[h].data
  OBVIOUS
<1>3. /\ phase[h] = FilePhase(h)
      /\ disk' = [disk EXCEPT ![t] = data \o SubSeq(@, Len(data) + 1, Len(@))]
      /\ fbuf' = [fbuf EXCEPT ![h].data = << >>] /\ phase' = [phase EXCEPT ![h] = 0]
      /\ wire' = wire /\ table' = table /\ dir' = dir /\ jobs' = jobs
  BY <1>2 DEF JobFileWritten, switchVars
<1>4. /\ Complete(fbuf[h]) /\ t \in DOMAIN disk /\ disk[t] = << >> /\ t[2] = fbuf[h].name
  BY <1>1, <1>2, <1>3 DEF Opened, Target
<1>5. /\ fbuf \in [Hosts -> Buffers] /\ phase \in [Hosts -> Nat] /\ data \in Seq(Bytes)
  BY <1>1, <1>2, FitParts DEF HostOK, FbufOK, PhaseOK, Buffers
<1>6. disk'[t] = data /\ DOMAIN disk' = DOMAIN disk /\ \A f \in DOMAIN disk : f # t => disk'[f] = disk[f]
  <2>1. PICK e : e = << >>
    OBVIOUS
  <2>2. disk' = [disk EXCEPT ![t] = data \o SubSeq(@, Len(data) + 1, Len(@))] /\ disk[t] = e
    BY <1>3, <1>4, <2>1
  <2>3. disk'[t] = data \o SubSeq(e, Len(data) + 1, Len(e))
    BY <1>4, <2>2
  <2>4. SubSeq(e, Len(data) + 1, Len(e)) = << >>
    <3>1. Len(data) \in Nat /\ Len(e) = 0
      BY <1>5, <2>1
    <3>2. QED BY <2>1, <3>1
  <2>5. data \o << >> = data
    BY <1>5, ConcatFacts
  <2>6. QED BY <1>3, <2>3, <2>4, <2>5
<1>7. /\ fbuf'[h] = [name |-> fbuf[h].name, data |-> << >>] /\ fbuf'[h] \in Buffers
      /\ \A g \in Hosts : g # h => fbuf'[g] = fbuf[g]
      /\ phase'[h] = 0 /\ \A g \in Hosts : g # h => phase'[g] = phase[g]
  <2>1. fbuf'[h] = [name |-> fbuf[h].name, data |-> << >>]
    <3>1. fbuf'[h] = [fbuf[h] EXCEPT !.data = << >>]
      BY <1>3, <1>5
    <3>2. QED BY <1>5, <3>1 DEF Buffers
  <2>2. fbuf[h].name \in Names /\ << >> \in Seq(Bytes)
    BY <1>5, EmptySeq DEF Buffers
  <2>3. QED BY <1>3, <1>5, <2>1, <2>2 DEF Buffers
<1>8. \A g \in Hosts : FilePhase(g)' = FilePhase(g)
  BY DEF FilePhase, JobPhase
<1>9. FilePhase(h) # 0
  <2>1. h \in Nodes
    BY DEF Nodes
  <2>2. Len(Ports[h]) \in Nat
    BY <2>1, PortAssumption, LenProperties
  <2>3. QED BY <2>2 DEF JobPhase, FilePhase
<1>10. Receiving(hub)'
  <2>1. ASSUME NEW s \in Hosts, NEW r \in Hosts
        PROVE  /\ Parsed(fbuf'[r], Stream(hub, s, r))
               /\ phase'[r] = FilePhase(r)' => Fresh(Stream(hub, s, r))
    <3>1. CASE r # h
      BY <1>1, <1>7, <1>8, <3>1 DEF Receiving
    <3>2. CASE r = h
      <4>1. PICK S : S = Stream(hub, s, h)
        OBVIOUS
      <4>2. Parsed(fbuf[h], S) /\ Fresh(S)
        BY <1>1, <1>3, <4>1 DEF Receiving
      <4>3. S \in Seq(PacketSet)
        <5>1. wire \in [Wires -> Seq(Chunk)] /\ jobs \in [Hosts -> Seq(JobSet)]
          BY <1>1, FitParts
        <5>2. QED BY <4>1, <5>1, StreamParts DEF Stream
      <4>4. PICK f, g : f = fbuf[h] /\ g = fbuf'[h]
        OBVIOUS
      <4>5. Parsed(g, S)
        BY <1>7, <4>2, <4>3, <4>4, ParsedFresh
      <4>6. QED BY <1>7, <1>8, <1>9, <3>2, <4>1, <4>4, <4>5
    <3>3. QED BY <3>1, <3>2
  <2>2. \A s, r : StreamOf(hub, wire', jobs', s, r) = StreamOf(hub, wire, jobs, s, r)
    BY <1>3
  <2>3. QED BY <2>1, <2>2 DEF Receiving, Stream
<1>11. ASSUME NEW g \in Hosts, g # h, phase[g] = FilePhase(g)
       PROVE  /\ Complete(fbuf'[g]) /\ CanCreate(dir'[g], fbuf'[g].name)
              /\ Target(g)' = Target(g) /\ Target(g) \in DOMAIN disk' /\ disk'[Target(g)] = << >>
  <2>1. Target(g) # t
    BY <1>2, <1>3, <1>11 DEF NoFileShared
  <2>2. /\ Complete(fbuf[g]) /\ CanCreate(dir[g], fbuf[g].name)
        /\ Target(g) \in DOMAIN disk /\ disk[Target(g)] = << >>
    BY <1>1, <1>11 DEF Opened
  <2>3. QED BY <1>3, <1>6, <1>7, <1>11, <2>1, <2>2 DEF Target
<1>12. Opened'
  BY <1>7, <1>8, <1>9, <1>11 DEF Opened
<1>13. FilesIntact'
  <2>1. ASSUME NEW f \in DOMAIN disk'
        PROVE  Open(f)' \/ \E g \in DOMAIN Files :
                 g[2] = f[2] /\ disk'[f] \in {Files[g], Kept(Files[g])}
    <3>1. CASE f = t
      BY <1>2, <1>4, <1>6, <3>1 DEF Complete
    <3>2. CASE f # t /\ Open(f)
      <4>1. PICK g \in Hosts : phase[g] = FilePhase(g) /\ Target(g) = f
        BY <3>2 DEF Open
      <4>2. g # h
        BY <1>2, <3>2, <4>1
      <4>3. phase'[g] = FilePhase(g)' /\ Target(g)' = f
        BY <1>7, <1>8, <1>11, <4>1, <4>2
      <4>4. QED BY <4>3 DEF Open
    <3>3. CASE f # t /\ ~Open(f)
      BY <1>1, <1>6, <3>3 DEF FilesIntact
    <3>4. QED BY <3>1, <3>2, <3>3
  <2>2. QED BY <2>1 DEF FilesIntact
<1>14. TableOK(hub, table')
  BY <1>1, <1>3
<1>15. QED BY <1>10, <1>12, <1>13, <1>14 DEF FileInv

-----------------------------------------------------------------------------
(* The theorem.                                                            *)

\* A job of a host (host.c:519-790).
LEMMA JobFiles ==
    ASSUME NEW hub, FileStar(hub), FileInv(hub), FitInv', OneUploadEach(hub), NoFileShared,
           NEW h \in Hosts, HostJob(h), Paced, UNCHANGED switchVars
    PROVE  FileInv(hub)'
<1>1. FitInv /\ TableOK(hub, table) /\ table' = table
  BY DEF FileInv, switchVars
<1>2. ASSUME Runs(h, Job(h).type) \/ HostNoJob(h), Advance(h),
             fbuf' = fbuf, disk' = disk, dir' = dir, StreamsKept(hub)
      PROVE  FileInv(hub)'
  <2>1. phase[h] = JobPhase(h)
    BY <1>2 DEF Runs, HostNoJob
  <2>2. FilesSame
    BY <1>1, <1>2, <2>1, JobPhases DEF FilesSame
  <2>3. TableOK(hub, table')
    BY <1>1
  <2>4. QED BY <1>2, <2>2, <2>3, SameKeeps
<1>3. CASE HostNoJob(h)
  <2>1. StreamsKept(hub)
    BY <1>3 DEF HostNoJob, StreamsKept
  <2>2. Advance(h) /\ fbuf' = fbuf /\ disk' = disk /\ dir' = dir
    BY <1>3 DEF HostNoJob
  <2>3. QED BY <1>2, <1>3, <2>1, <2>2
<1>4. CASE JobSendAll(h)
  <2>1. /\ Runs(h, "SEND_ALL") /\ Advance(h) /\ fbuf' = fbuf /\ disk' = disk /\ dir' = dir
        /\ Done(h, << >>) /\ wire' = SendTo(wire, h, Neighbours(h), Job(h).pkt)
    BY <1>4 DEF JobSendAll, AtJob
  <2>2. jobs[h] # << >> /\ Job(h).type = "SEND_ALL" /\ Runs(h, Job(h).type)
    BY <2>1 DEF Runs
  <2>3. StreamsKept(hub)
    BY <1>1, <2>1, <2>2, SendKept
  <2>4. QED BY <1>2, <2>1, <2>2, <2>3
<1>5. ASSUME NEW type \in {"PING_SEND_REPLY", "PING_WAIT"}, AtJob(h, type),
             NEW more \in Seq(OtherJobs), Done(h, more),
             wire' = wire, fbuf' = fbuf, disk' = disk, dir' = dir
      PROVE  FileInv(hub)'
  <2>1. jobs[h] # << >> /\ Job(h).type = type /\ Runs(h, Job(h).type) /\ Advance(h)
    BY <1>5 DEF AtJob, Runs
  <2>2. Job(h) \in OtherJobs
    <3>1. Job(h) \in JobSet
      BY <1>1, <2>1, FirstJob
    <3>2. QED BY <1>5, <2>1, <3>1 DEF OtherJobs, RecvTypes
  <2>3. StreamsKept(hub)
    BY <1>1, <1>5, <2>1, <2>2, OthersKept
  <2>4. QED BY <1>2, <1>5, <2>1, <2>3
<1>6. CASE JobPingSendReply(h)
  <2>. DEFINE j == SendAll(Packet(h, Job(h).pkt.src, "PING_REPLY", << >>))
  <2>1. AtJob(h, "PING_SEND_REPLY") /\ Done(h, <<j>>)
    BY <1>6 DEF JobPingSendReply
  <2>2. Job(h).pkt.src \in Int
    <3>1. jobs[h] # << >> /\ Job(h).type = "PING_SEND_REPLY"
      BY <2>1 DEF AtJob, Runs
    <3>2. QED BY <1>1, <3>1, FirstJob, PacketFields DEF PacketJobs
  <2>3. "PING_REPLY" \in PacketTypes \ FileTypes /\ << >> \in Seq(Bytes)
    BY EmptySeq DEF PacketTypes, FileTypes
  <2>4. j \in OtherJobs
    BY <2>2, <2>3, OthersMade
  <2>. HIDE DEF j
  <2>5. <<j>> \in Seq(OtherJobs)
    BY <2>4
  <2>6. wire' = wire /\ fbuf' = fbuf /\ disk' = disk /\ dir' = dir
    BY <1>6 DEF JobPingSendReply
  <2>7. QED BY <1>5, <2>1, <2>5, <2>6
<1>7. CASE JobPingAcked(h) \/ JobPingTimeOut(h)
  <2>1. /\ AtJob(h, "PING_WAIT") /\ Done(h, << >>)
        /\ wire' = wire /\ fbuf' = fbuf /\ disk' = disk /\ dir' = dir
    BY <1>7 DEF JobPingAcked, JobPingTimeOut
  <2>2. << >> \in Seq(OtherJobs)
    OBVIOUS
  <2>3. QED BY <1>5, <2>1, <2>2
<1>8. CASE JobPingWait(h)
  <2>. DEFINE j == PingWait(Job(h).timer - 1)
  <2>1. /\ AtJob(h, "PING_WAIT") /\ Done(h, <<j>>) /\ Job(h).timer > 1
        /\ wire' = wire /\ fbuf' = fbuf /\ disk' = disk /\ dir' = dir
    BY <1>8 DEF JobPingWait
  <2>2. Job(h).timer - 1 \in Nat
    <3>1. jobs[h] # << >> /\ Job(h).type = "PING_WAIT"
      BY <2>1 DEF AtJob, Runs
    <3>2. Job(h).timer \in Nat
      BY <1>1, <3>1, FirstJob
    <3>3. QED BY <2>1, <3>2
  <2>3. j \in OtherJobs
    BY <2>2, OthersMade
  <2>. HIDE DEF j
  <2>4. <<j>> \in Seq(OtherJobs)
    BY <2>3
  <2>5. QED BY <1>5, <2>1, <2>4
<1>9. CASE JobUploadSend(h)
  BY <1>9, UploadFiles
<1>10. CASE JobRecvStart(h) \/ JobRecvIn(h) \/ JobRecvEndNoFile(h)
  BY <1>10, BufferFiles
<1>11. CASE JobRecvEnd(h)
  BY <1>11, OpenFiles
<1>12. CASE JobFileWritten(h)
  BY <1>12, WrittenFiles
<1>13. QED BY <1>3, <1>4, <1>6, <1>7, <1>8, <1>9, <1>10, <1>11, <1>12 DEF HostJob

\* At the start no stream holds a packet, and no file is open.
LEMMA FileInit ==
    ASSUME NEW hub, FileStar(hub), Init
    PROVE  FileInv(hub)
<1>1. FitInv
  BY FitInit
<1>2. /\ wire = [e \in Wires |-> << >>] /\ jobs = [h \in Hosts |-> << >>] /\ disk = Files
      /\ fbuf = [h \in Hosts |-> [name |-> << >>, data |-> << >>]]
      /\ phase = [h \in Hosts |-> 0]
      /\ table = [s \in Switches |-> [i \in TableIndex |-> None]]
  BY DEF Init, WireInit, HostInit, SwitchInit
<1>3. TableOK(hub, table)
  BY <1>2 DEF TableOK, FileStar
<1>4. ASSUME NEW h \in Hosts PROVE phase[h] # FilePhase(h)
  <2>1. h \in Nodes
    BY DEF Nodes
  <2>2. Len(Ports[h]) \in Nat
    BY <2>1, PortAssumption, LenProperties
  <2>3. QED BY <1>2, <2>2 DEF JobPhase, FilePhase
<1>5. Opened
  BY <1>4 DEF Opened
<1>6. ASSUME NEW s \in Hosts, NEW r \in Hosts PROVE Parsed(fbuf[r], Stream(hub, s, r))
  <2>1. <<hub, r>> \in Wires /\ <<s, hub>> \in Wires
    <3>1. wire \in [Wires -> Seq(Chunk)] /\ jobs \in [Hosts -> Seq(JobSet)]
      BY <1>1, FitParts
    <3>2. QED BY <3>1, StreamParts
  <2>2. /\ Rcv(jobs[r], s, r) = << >> /\ Snd(jobs[s], s, r) = << >>
        /\ Wired(wire[<<hub, r>>], s, r) = << >> /\ Wired(wire[<<s, hub>>], s, r) = << >>
    BY <1>2, <2>1, RcvParts, SndParts DEF Wired
  <2>3. InLine(<< >>, << >>, << >>, << >>) = << >>
    BY NoneInLine
  <2>4. Stream(hub, s, r) = << >>
    BY <2>2, <2>3 DEF Stream, StreamOf
  <2>5. fbuf[r] \in Buffers
    BY <1>1, FitParts DEF HostOK, FbufOK, Buffers
  <2>6. QED BY <2>4, <2>5, ParsedEmpty
<1>7. Receiving(hub)
  BY <1>4, <1>6 DEF Receiving
<1>8. FilesIntact
  BY <1>2 DEF FilesIntact
<1>9. QED BY <1>1, <1>3, <1>5, <1>7, <1>8 DEF FileInv

\* Every step of readers that keep up, with one sender to each receiver and no
\* open file read.
LEMMA FileStep ==
    ASSUME NEW hub, FileStar(hub), NamesFit, FileInv(hub), OneUploadEach(hub), NoFileShared,
           [PacedNext]_vars
    PROVE  FileInv(hub)'
<1>1. FitInv' /\ TableOK(hub, table)
  BY FitStep DEF FileInv
<1>2. CASE Manages \/ UNCHANGED vars
  <2>1. /\ wire' = wire /\ jobs' = jobs /\ table' = table
        /\ fbuf' = fbuf /\ disk' = disk /\ dir' = dir /\ phase' = phase
    BY <1>2 DEF Manages, vars, hostVars, switchVars
  <2>2. StreamsKept(hub) /\ FilesSame /\ TableOK(hub, table')
    BY <1>1, <2>1 DEF StreamsKept, FilesSame
  <2>3. QED BY <1>1, <2>2, SameKeeps
<1>3. ASSUME NEW h \in Hosts, HostRuns(h), Paced PROVE FileInv(hub)'
  <2>1. HostStep(h) /\ UNCHANGED switchVars
    BY <1>3 DEF HostRuns
  <2>2. QED BY <1>1, <1>3, <2>1, CommandFiles, PortFiles, JobFiles DEF HostStep
<1>4. ASSUME NEW s \in Switches, SwitchRuns(s), Paced PROVE FileInv(hub)'
  <2>1. s = hub
    BY DEF FileStar
  <2>2. /\ SwitchStep(hub) /\ jobs' = jobs
        /\ fbuf' = fbuf /\ disk' = disk /\ dir' = dir /\ phase' = phase
    BY <1>4, <2>1 DEF SwitchRuns, hostVars
  <2>3. StreamsKept(hub) /\ TableOK(hub, table')
    BY <1>1, <1>4, <2>2, SwitchKept DEF FileInv
  <2>4. FilesSame
    BY <2>2 DEF FilesSame
  <2>5. QED BY <1>1, <2>3, <2>4, SameKeeps
<1>5. QED BY <1>2, <1>3, <1>4 DEF PacedNext, Next, Terminated

\* Every file that is closed is whole: a file of the start, or what MAX_FILE_BUFFER
\* keeps of one, under its name (host.c:709-762).  It is so on one switch, for
\* names that fit, if no receiver has two senders at once and no open file is read.
THEOREM FilesArrive ==
    ASSUME NEW hub, FileStar(hub), NamesFit
    PROVE  PacedSpec /\ [](OneUploadEach(hub) /\ NoFileShared) => []FilesIntact
<1>1. Init => FileInv(hub)
  BY FileInit
<1>2. FileInv(hub) /\ (OneUploadEach(hub) /\ NoFileShared) /\ [PacedNext]_vars => FileInv(hub)'
  BY FileStep
<1>3. FileInv(hub) => FilesIntact
  BY DEF FileInv
<1>4. QED BY <1>1, <1>2, <1>3, PTL DEF PacedSpec

-----------------------------------------------------------------------------
(* Files that all come from one host.                                      *)

\* The user only asks for files, and only asks host s for them.
OneServer(s) ==
    /\ s \in Hosts
    /\ \A c \in UserCmds : c.op # "u" /\ (c.op = "d" => Char(c.dst) = s)

\* What is sent of a file is sent by s, and only s is asked for one.
Served(p, s) ==
    /\ p.type \in FileTypes => p.src = s
    /\ p.type = "DOWNLOAD_REQ" => p.dst = s

ServedJobs(h, s) ==
    {j \in JobSet : /\ j.type \in PacketJobs => Served(j.pkt, s)
                    /\ j.type = "UPLOAD_SEND" => h = s}
ServedCommands(s) ==
    {c \in CommandSet : c.op # "u" /\ (c.op = "d" => Char(c.dst) = s)}

ServedIn(q, s) == q # << >> => Served(q[1].pkt, s)
ServedWires(w, s) == \A e \in Wires : ServedIn(w[e], s)

ServerInv(s) ==
    /\ ServedWires(wire, s)
    /\ \A h \in Hosts : jobs[h] \in Seq(ServedJobs(h, s)) /\ cmd[h] \in Seq(ServedCommands(s))

\* The rest of the step, once the pipes are known.
LEMMA ServedAdd ==
    ASSUME FitInv, NEW s, ServerInv(s), NEW h \in Hosts, NEW more \in Seq(ServedJobs(h, s)),
           Add(h, more) \/ (Done(h, more) /\ jobs[h] # << >>)
    PROVE  \A g \in Hosts : jobs'[g] \in Seq(ServedJobs(g, s))
<1>1. jobs \in [Hosts -> Seq(JobSet)] /\ \A g \in Hosts : jobs[g] \in Seq(ServedJobs(g, s))
  BY FitParts DEF ServerInv
<1>2. jobs[h] \o more \in Seq(ServedJobs(h, s))
  BY <1>1, ConcatProperties
<1>3. jobs[h] # << >> => Tail(jobs[h]) \o more \in Seq(ServedJobs(h, s))
  <2>1. jobs[h] # << >> => Tail(jobs[h]) \in Seq(ServedJobs(h, s))
    BY <1>1, HeadTailProperties
  <2>2. QED BY <2>1, ConcatProperties
<1>4. PICK q \in Seq(ServedJobs(h, s)) : jobs' = [jobs EXCEPT ![h] = q]
  BY <1>2, <1>3 DEF Add, Done
<1>5. QED BY <1>1, <1>4

\* A packet that s may send, or that asks s, goes into pipes.
LEMMA ServedSend ==
    ASSUME NEW w \in [Wires -> Seq(Chunk)], NEW s, ServedWires(w, s), NEW n, NEW dests,
           NEW p \in PacketSet, Served(p, s)
    PROVE  ServedWires(SendTo(w, n, dests, p), s)
<1>1. ASSUME NEW e \in Wires PROVE ServedIn(Push(w[e], p), s)
  <2>1. PICK c : c = [pkt |-> p, end |-> Total(w[e]) + Size(p)]
    OBVIOUS
  <2>2. w[e] \in Seq(Chunk) /\ c.pkt = p /\ ServedIn(w[e], s)
    BY <2>1 DEF ServedWires
  <2>3. CASE Push(w[e], p) = w[e]
    BY <2>2, <2>3
  <2>4. CASE Push(w[e], p) = Append(w[e], c)
    <3>1. Append(w[e], c)[1] = IF w[e] = << >> THEN c ELSE w[e][1]
      BY <2>2, EmptySeq, AppendProperties
    <3>2. QED BY <2>2, <2>4, <3>1 DEF ServedIn
  <2>5. QED BY <2>1, <2>3, <2>4 DEF Push
<1>2. ASSUME NEW e \in Wires PROVE ServedIn(SendTo(w, n, dests, p)[e], s)
  <2>1. SendTo(w, n, dests, p)[e] \in {Push(w[e], p), w[e]}
    BY DEF SendTo
  <2>2. QED BY <1>1, <2>1 DEF ServedWires
<1>3. QED BY <1>2 DEF ServedWires

\* One packet is read.
LEMMA ServedRead ==
    ASSUME FitInv, NEW s, ServerInv(s), NEW e \in Wires, wire[e] # << >>
    PROVE  Served(wire[e][1].pkt, s) /\ ServedWires([wire EXCEPT ![e] = << >>], s)
<1>1. wire \in [Wires -> Seq(Chunk)] /\ ServedWires(wire, s)
  BY FitParts DEF ServerInv
<1>2. Served(wire[e][1].pkt, s)
  BY <1>1 DEF ServedWires, ServedIn
<1>3. ASSUME NEW f \in Wires PROVE ServedIn([wire EXCEPT ![e] = << >>][f], s)
  BY <1>1 DEF ServedWires, ServedIn
<1>4. QED BY <1>2, <1>3 DEF ServedWires

\* The jobs that are made.
LEMMA ServedMade ==
    ASSUME NEW h \in Hosts, NEW s
    PROVE  /\ \A dst \in Int, type \in PacketTypes \ FileTypes, body \in Seq(Bytes) :
                type # "DOWNLOAD_REQ" \/ Char(dst) = s
                  => SendAll(Packet(h, dst, type, body)) \in ServedJobs(h, s)
           /\ \A t \in Nat : PingWait(t) \in ServedJobs(h, s)
           /\ \A dst \in Int, name \in Names : h = s => UploadSend(dst, name) \in ServedJobs(h, s)
           /\ \A p \in PacketSet : p.type \in DOMAIN JobOfType /\ Served(p, s)
                => [type |-> JobOfType[p.type], pkt |-> p] \in ServedJobs(h, s)
<1>1. ASSUME NEW dst \in Int, NEW type \in PacketTypes \ FileTypes, NEW body \in Seq(Bytes),
             type # "DOWNLOAD_REQ" \/ Char(dst) = s
      PROVE  SendAll(Packet(h, dst, type, body)) \in ServedJobs(h, s)
  <2>1. SendAll(Packet(h, dst, type, body)) \in OtherJobs
    BY OthersMade
  <2>2. SendAll(Packet(h, dst, type, body)).type = "SEND_ALL"
        /\ SendAll(Packet(h, dst, type, body)).pkt = Packet(h, dst, type, body)
    BY DEF SendAll
  <2>3. Served(Packet(h, dst, type, body), s)
    BY <1>1 DEF Packet, Served
  <2>4. QED BY <2>1, <2>2, <2>3 DEF OtherJobs, ServedJobs
<1>2. ASSUME NEW t \in Nat PROVE PingWait(t) \in ServedJobs(h, s)
  BY OthersMade DEF OtherJobs, ServedJobs, PingWait, PacketJobs
<1>3. ASSUME NEW dst \in Int, NEW name \in Names, h = s
      PROVE  UploadSend(dst, name) \in ServedJobs(h, s)
  <2>1. UploadSend(dst, name) \in JobSet
    BY OthersMade DEF OtherJobs
  <2>2. UploadSend(dst, name).type = "UPLOAD_SEND"
    BY DEF UploadSend
  <2>3. QED BY <1>3, <2>1, <2>2 DEF ServedJobs, PacketJobs
<1>4. ASSUME NEW p \in PacketSet, p.type \in DOMAIN JobOfType, Served(p, s)
      PROVE  [type |-> JobOfType[p.type], pkt |-> p] \in ServedJobs(h, s)
  <2>1. PICK j : j = [type |-> JobOfType[p.type], pkt |-> p]
    OBVIOUS
  <2>2. j \in JobSet
    BY <1>4, <2>1, JobsMade DEF JobsOf
  <2>3. j.pkt = p /\ j.type # "UPLOAD_SEND"
    BY <1>4, <2>1 DEF JobOfType
  <2>4. QED BY <1>4, <2>1, <2>2, <2>3 DEF ServedJobs
<1>5. QED BY <1>1, <1>2, <1>3, <1>4

\* A command asks only host s for a file.
LEMMA ServedCommandStep ==
    ASSUME FitInv, NEW s, ServerInv(s), NEW h \in Hosts, HostCommand(h)
    PROVE  ServerInv(s)'
<1>1. /\ ServedWires(wire, s) /\ wire' = wire
      /\ \A g \in Hosts : jobs[g] \in Seq(ServedJobs(g, s)) /\ cmd[g] \in Seq(ServedCommands(s))
      /\ cmd \in [Hosts -> Seq(CommandSet)]
  BY FitParts DEF ServerInv, HostCommand, HostNoCommand, HostState, HostSetDir, HostPing,
                  HostUpload, HostDownload
<1>2. CASE HostNoCommand(h)
  BY <1>1, <1>2 DEF HostNoCommand, manPortVars, ServerInv
<1>3. ASSUME NEW op, AtCommand(h, op)
      PROVE  /\ \A g \in Hosts : cmd'[g] \in Seq(ServedCommands(s))
             /\ Heard(cmd[h]) \in CommandSet /\ op # "u"
             /\ op = "d" => Char(Heard(cmd[h]).dst) = s
  <2>1. cmd[h] # << >> /\ Hear(h) /\ Heard(cmd[h]).op = op
    BY <1>3 DEF AtCommand
  <2>2. \A g \in Hosts : cmd'[g] \in Seq(ServedCommands(s))
    <3>1. << >> \in Seq(ServedCommands(s))
      BY EmptySeq
    <3>2. QED BY <1>1, <2>1, <3>1 DEF Hear
  <2>3. cmd[h][1] \in ServedCommands(s)
    BY <1>1, <2>1, EmptySeq
  <2>4. Heard(cmd[h]).op = cmd[h][1].op /\ Heard(cmd[h]).dst = cmd[h][1].dst
    BY <2>3 DEF Heard, ServedCommands, CommandSet
  <2>5. Heard(cmd[h]) \in CommandSet
    BY <2>1, HeardType, FitParts
  <2>6. QED BY <2>1, <2>2, <2>3, <2>4, <2>5 DEF ServedCommands
<1>4. CASE HostState(h) \/ HostSetDir(h)
  <2>1. jobs' = jobs /\ \A g \in Hosts : cmd'[g] \in Seq(ServedCommands(s))
    BY <1>3, <1>4 DEF HostState, HostSetDir
  <2>2. QED BY <1>1, <2>1 DEF ServerInv
<1>5. ASSUME NEW op, AtCommand(h, op), NEW more \in Seq(ServedJobs(h, s)), Add(h, more)
      PROVE  ServerInv(s)'
  BY <1>1, <1>3, <1>5, ServedAdd DEF ServerInv
<1>6. CASE HostPing(h)
  <2>. DEFINE j == SendAll(Packet(h, Heard(cmd[h]).dst, "PING_REQ", << >>))
              k == PingWait(PING_TIMER)
  <2>1. AtCommand(h, "p") /\ Add(h, <<j, k>>)
    BY <1>6 DEF HostPing
  <2>2. Heard(cmd[h]).dst \in Int
    BY <1>3, <2>1 DEF CommandSet
  <2>3. "PING_REQ" \in PacketTypes \ FileTypes /\ << >> \in Seq(Bytes)
    BY EmptySeq DEF PacketTypes, FileTypes
  <2>4. j \in ServedJobs(h, s) /\ k \in ServedJobs(h, s)
    BY <2>2, <2>3, ServedMade, HostAssumption
  <2>. HIDE DEF j, k
  <2>5. <<j, k>> \in Seq(ServedJobs(h, s))
    BY <2>4
  <2>6. QED BY <1>5, <2>1, <2>5
<1>7. CASE HostUpload(h)
  BY <1>3, <1>7 DEF HostUpload
<1>8. CASE HostDownload(h)
  <2>. DEFINE j == SendAll(Packet(h, Heard(cmd[h]).dst, "DOWNLOAD_REQ", Heard(cmd[h]).name))
  <2>1. AtCommand(h, "d") /\ Add(h, <<j>>)
    BY <1>8 DEF HostDownload
  <2>2. Heard(cmd[h]).dst \in Int /\ Heard(cmd[h]).name \in Seq(Bytes)
        /\ Char(Heard(cmd[h]).dst) = s
    BY <1>3, <2>1 DEF CommandSet, Names
  <2>3. "DOWNLOAD_REQ" \in PacketTypes \ FileTypes
    BY DEF PacketTypes, FileTypes
  <2>4. j \in ServedJobs(h, s)
    BY <2>2, <2>3, ServedMade
  <2>. HIDE DEF j
  <2>5. <<j>> \in Seq(ServedJobs(h, s))
    BY <2>4
  <2>6. QED BY <1>5, <2>1, <2>5
<1>9. QED BY <1>2, <1>4, <1>6, <1>7, <1>8 DEF HostCommand

\* A packet that is read is queued as it came.
LEMMA ServedPort ==
    ASSUME FitInv, NEW s, ServerInv(s), NEW h \in Hosts, HostPort(h)
    PROVE  ServerInv(s)'
<1>1. \A g \in Hosts : jobs[g] \in Seq(ServedJobs(g, s)) /\ cmd[g] \in Seq(ServedCommands(s))
  BY DEF ServerInv
<1>2. CASE HostNoPacket(h)
  BY <1>2 DEF HostNoPacket, manPortVars, ServerInv, ServedWires
<1>3. ASSUME NEW p, Receives(h, p)
      PROVE  ServedWires(wire', s) /\ p \in PacketSet /\ Served(p, s)
  <2>1. PICK n \in Neighbours(h) :
          /\ <<n, h>> \in Wires /\ wire[<<n, h>>] # << >>
          /\ p = wire[<<n, h>>][1].pkt /\ FitPacket(p, n)
          /\ wire' = [wire EXCEPT ![<<n, h>>] = << >>]
    BY <1>3, ReceivesOne
  <2>2. PICK e \in Wires : e = <<n, h>>
    BY <2>1
  <2>3. Served(wire[e][1].pkt, s) /\ ServedWires([wire EXCEPT ![e] = << >>], s)
    BY <2>1, <2>2, ServedRead
  <2>4. QED BY <2>1, <2>2, <2>3 DEF FitPacket
<1>4. CASE HostIgnore(h) \/ HostPingReply(h)
  <2>1. ServedWires(wire', s) /\ jobs' = jobs /\ cmd' = cmd
    BY <1>3, <1>4 DEF HostIgnore, HostPingReply, manPortVars
  <2>2. QED BY <1>1, <2>1 DEF ServerInv
<1>5. ASSUME NEW p, Receives(h, p), cmd' = cmd, NEW j \in ServedJobs(h, s), Add(h, <<j>>)
      PROVE  ServerInv(s)'
  <2>1. <<j>> \in Seq(ServedJobs(h, s))
    OBVIOUS
  <2>2. \A g \in Hosts : jobs'[g] \in Seq(ServedJobs(g, s))
    BY <1>5, <2>1, ServedAdd
  <2>3. QED BY <1>1, <1>3, <1>5, <2>2 DEF ServerInv
<1>6. CASE HostQueue(h)
  <2>1. PICK p \in Arrivals(wire[Link(h)]) :
          /\ p.type \in DOMAIN JobOfType /\ Receives(h, p)
          /\ Add(h, <<[type |-> JobOfType[p.type], pkt |-> p]>>)
    BY <1>6 DEF HostQueue
  <2>. DEFINE j == [type |-> JobOfType[p.type], pkt |-> p]
  <2>2. j \in ServedJobs(h, s)
    BY <1>3, <2>1, ServedMade
  <2>. HIDE DEF j
  <2>3. cmd' = cmd /\ Add(h, <<j>>)
    BY <1>6, <2>1 DEF HostQueue, manPortVars, j
  <2>4. QED BY <1>5, <2>1, <2>2, <2>3
<1>7. CASE HostDownloadRequest(h)
  <2>1. PICK p \in Arrivals(wire[Link(h)]) :
          /\ p.dst = h /\ p.type = "DOWNLOAD_REQ" /\ Receives(h, p)
          /\ Add(h, <<UploadSend(p.src, p.body)>>)
    BY <1>7 DEF HostDownloadRequest
  <2>. DEFINE j == UploadSend(p.src, p.body)
  <2>2. p.src \in Int /\ p.body \in Names /\ h = s
    BY <1>3, <2>1, PacketFields DEF Served
  <2>3. j \in ServedJobs(h, s)
    BY <2>2, ServedMade
  <2>. HIDE DEF j
  <2>4. cmd' = cmd /\ Add(h, <<j>>)
    BY <1>7, <2>1 DEF HostDownloadRequest, manPortVars, j
  <2>5. QED BY <1>5, <2>1, <2>3, <2>4
<1>8. QED BY <1>2, <1>4, <1>6, <1>7 DEF HostPort

\* Only host s is asked for a file, so only host s sends one.
LEMMA ServedJobStep ==
    ASSUME FitInv, NEW s, ServerInv(s), NEW h \in Hosts, HostJob(h)
    PROVE  ServerInv(s)'
<1>1. /\ ServedWires(wire, s) /\ wire \in [Wires -> Seq(Chunk)]
      /\ \A g \in Hosts : jobs[g] \in Seq(ServedJobs(g, s)) /\ cmd[g] \in Seq(ServedCommands(s))
  BY FitParts DEF ServerInv
<1>2. CASE HostNoJob(h) \/ JobFileWritten(h)
  BY <1>1, <1>2 DEF HostNoJob, JobFileWritten, manPortVars, ServerInv
<1>3. ASSUME jobs[h] # << >>, NEW more \in Seq(ServedJobs(h, s)), Done(h, more),
             cmd' = cmd, ServedWires(wire', s)
      PROVE  ServerInv(s)'
  BY <1>1, <1>3, ServedAdd DEF ServerInv
<1>4. << >> \in Seq(ServedJobs(h, s))
  BY EmptySeq
<1>5. jobs[h] # << >> => Job(h) \in ServedJobs(h, s)
  BY <1>1, HeadTailProperties DEF Job
<1>6. CASE JobSendAll(h)
  <2>1. /\ jobs[h] # << >> /\ Job(h).type = "SEND_ALL" /\ Done(h, << >>) /\ cmd' = cmd
        /\ wire' = SendTo(wire, h, Neighbours(h), Job(h).pkt)
    BY <1>6 DEF JobSendAll, AtJob, Runs, manPortVars
  <2>2. Job(h).pkt \in PacketSet
    BY <2>1, FirstJob DEF PacketJobs
  <2>3. Served(Job(h).pkt, s)
    BY <1>5, <2>1 DEF ServedJobs, PacketJobs
  <2>4. ServedWires(wire', s)
    BY <1>1, <2>1, <2>2, <2>3, ServedSend
  <2>5. QED BY <1>3, <1>4, <2>1, <2>4
<1>7. CASE JobPingSendReply(h)
  <2>. DEFINE j == SendAll(Packet(h, Job(h).pkt.src, "PING_REPLY", << >>))
  <2>1. /\ jobs[h] # << >> /\ Job(h).type = "PING_SEND_REPLY" /\ Done(h, <<j>>)
        /\ cmd' = cmd /\ wire' = wire
    BY <1>7 DEF JobPingSendReply, AtJob, Runs, manPortVars
  <2>2. Job(h).pkt.src \in Int
    BY <2>1, FirstJob, PacketFields DEF PacketJobs
  <2>3. "PING_REPLY" \in PacketTypes \ FileTypes /\ << >> \in Seq(Bytes)
    BY EmptySeq DEF PacketTypes, FileTypes
  <2>4. j \in ServedJobs(h, s)
    BY <2>2, <2>3, ServedMade
  <2>. HIDE DEF j
  <2>5. <<j>> \in Seq(ServedJobs(h, s))
    BY <2>4
  <2>6. QED BY <1>1, <1>3, <2>1, <2>5
<1>8. CASE JobPingAcked(h) \/ JobPingTimeOut(h) \/ JobRecvStart(h) \/ JobRecvIn(h)
           \/ JobRecvEndNoFile(h) \/ JobRecvEnd(h)
  <2>1. jobs[h] # << >> /\ Done(h, << >>) /\ cmd' = cmd /\ wire' = wire
    BY <1>8 DEF JobPingAcked, JobPingTimeOut, JobRecvStart, JobRecvIn, JobRecvEndNoFile,
                JobRecvEnd, AtJob, Runs, manPortVars
  <2>2. QED BY <1>1, <1>3, <1>4, <2>1
<1>9. CASE JobPingWait(h)
  <2>. DEFINE j == PingWait(Job(h).timer - 1)
  <2>1. /\ jobs[h] # << >> /\ Job(h).type = "PING_WAIT" /\ Job(h).timer > 1 /\ Done(h, <<j>>)
        /\ cmd' = cmd /\ wire' = wire
    BY <1>9 DEF JobPingWait, AtJob, Runs, manPortVars
  <2>2. Job(h).timer - 1 \in Nat
    BY <2>1, FirstJob
  <2>3. j \in ServedJobs(h, s)
    BY <2>2, ServedMade
  <2>. HIDE DEF j
  <2>4. <<j>> \in Seq(ServedJobs(h, s))
    BY <2>3
  <2>5. QED BY <1>1, <1>3, <2>1, <2>4
<1>10. CASE JobUploadSend(h)
  <2>. DEFINE file == <<dir[h], Job(h).name>>
              more == IF file \in DOMAIN disk
                      THEN UploadJobs(h, Job(h).dst, Job(h).name, disk[file]) ELSE << >>
  <2>1. /\ jobs[h] # << >> /\ Job(h).type = "UPLOAD_SEND" /\ Done(h, more)
        /\ cmd' = cmd /\ wire' = wire
    BY <1>10 DEF JobUploadSend, AtJob, Runs, manPortVars
  <2>2. Job(h).dst \in Int /\ Job(h).name \in Names
    BY <2>1, FirstJob
  <2>3. file \in DOMAIN disk => disk[file] \in Seq(Bytes)
    BY FitParts DEF HostOK, DiskOK
  <2>4. h = s
    BY <1>5, <2>1 DEF ServedJobs
  <2>5. FileSends(h) \subseteq ServedJobs(h, s)
    <3>1. ASSUME NEW j \in FileSends(h) PROVE j \in ServedJobs(h, s)
      <4>1. j \in {i \in JobsOf(h) : i.type = "SEND_ALL"} /\ j.pkt.type \in FileTypes
        BY JobsMade DEF FileSends, FileTypes
      <4>2. j \in JobSet /\ j.type = "SEND_ALL" /\ j.pkt.src = h
        BY <4>1, CharOfHost DEF JobsOf
      <4>3. j.pkt.type # "DOWNLOAD_REQ"
        BY <4>1 DEF FileTypes
      <4>4. QED BY <2>4, <4>2, <4>3 DEF ServedJobs, Served
    <3>2. QED BY <3>1
  <2>6. more \in Seq(ServedJobs(h, s))
    <3>1. file \in DOMAIN disk => more \in Seq(FileSends(h))
      BY <2>2, <2>3, UploadJobsType
    <3>2. Seq(FileSends(h)) \subseteq Seq(ServedJobs(h, s))
      BY <2>5, SeqMonotonic
    <3>3. QED BY <1>4, <3>1, <3>2
  <2>. HIDE DEF more
  <2>7. QED BY <1>1, <1>3, <2>1, <2>6
<1>11. QED BY <1>2, <1>6, <1>7, <1>8, <1>9, <1>10 DEF HostJob

\* Every step.
LEMMA ServedStep ==
    ASSUME NEW s, OneServer(s), FitInv, ServerInv(s), [PacedNext]_vars
    PROVE  ServerInv(s)'
<1>1. /\ ServedWires(wire, s) /\ wire \in [Wires -> Seq(Chunk)]
      /\ \A g \in Hosts : jobs[g] \in Seq(ServedJobs(g, s)) /\ cmd[g] \in Seq(ServedCommands(s))
      /\ cmd \in [Hosts -> Seq(CommandSet)]
  BY FitParts DEF ServerInv
<1>2. CASE UNCHANGED <<wire, jobs, cmd>>
  BY <1>1, <1>2 DEF ServerInv
<1>3. CASE Manages
  <2>1. wire' = wire /\ jobs' = jobs
    BY <1>3 DEF Manages, hostVars
  <2>2. CASE Issue
    <3>1. PICK c \in UserCmds : Ask(curr, c)
      BY <2>2 DEF Issue
    <3>2. c \in ServedCommands(s)
      BY ManPortAssumption DEF OneServer, ServedCommands
    <3>3. \A h \in Hosts : cmd'[h] \in Seq(ServedCommands(s))
      BY <1>1, <3>1, <3>2, AppendProperties DEF Ask
    <3>4. QED BY <1>1, <2>1, <3>3 DEF ServerInv
  <2>3. CASE ChangeHost \/ Collect \/ Quit
    BY <1>2, <2>1, <2>3 DEF ChangeHost, Collect, Quit, manPortVars
  <2>4. QED BY <1>3, <2>2, <2>3 DEF Manages, ManagerStep
<1>4. ASSUME NEW h \in Hosts, HostRuns(h) PROVE ServerInv(s)'
  BY <1>4, ServedCommandStep, ServedPort, ServedJobStep DEF HostRuns, HostStep
<1>5. ASSUME NEW t \in Switches, SwitchRuns(t) PROVE ServerInv(s)'
  <2>1. SwitchStep(t) /\ jobs' = jobs /\ cmd' = cmd
    BY <1>5 DEF SwitchRuns, manPortVars, hostVars
  <2>2. ASSUME NEW e \in Wires, wire[e] # << >>, FitPacket(wire[e][1].pkt, e[1]),
               [wire EXCEPT ![e] = << >>] \in [Wires -> Seq(Chunk)],
               \/ wire' = [wire EXCEPT ![e] = << >>]
               \/ \E dests : wire' = SendTo([wire EXCEPT ![e] = << >>], t, dests, wire[e][1].pkt)
        PROVE  ServedWires(wire', s)
    <3>1. PICK w, p : w = [wire EXCEPT ![e] = << >>] /\ p = wire[e][1].pkt
      OBVIOUS
    <3>2. Served(p, s) /\ ServedWires(w, s) /\ p \in PacketSet /\ w \in [Wires -> Seq(Chunk)]
      BY <2>2, <3>1, ServedRead DEF FitPacket
    <3>3. CASE wire' = w
      BY <3>2, <3>3
    <3>4. ASSUME NEW dests, wire' = SendTo(w, t, dests, p) PROVE ServedWires(wire', s)
      BY <3>2, <3>4, ServedSend
    <3>5. QED BY <2>2, <3>1, <3>3, <3>4
  <2>3. CASE wire' = wire
    BY <1>2, <2>1, <2>3
  <2>4. CASE wire' # wire
    <3>1. PICK e \in Wires :
                /\ wire[e] # << >> /\ FitPacket(wire[e][1].pkt, e[1])
                /\ [wire EXCEPT ![e] = << >>] \in [Wires -> Seq(Chunk)]
                /\ \/ wire' = [wire EXCEPT ![e] = << >>]
                   \/ \E dests : wire' = SendTo([wire EXCEPT ![e] = << >>], t, dests, wire[e][1].pkt)
      BY <2>1, <2>4, SwitchOne
    <3>2. ServedWires(wire', s)
      BY <2>2, <3>1
    <3>3. QED BY <1>1, <2>1, <3>2 DEF ServerInv
  <2>5. QED BY <2>3, <2>4
<1>6. CASE UNCHANGED vars
  BY <1>2, <1>6 DEF vars, manPortVars, hostVars
<1>7. QED BY <1>3, <1>4, <1>5, <1>6 DEF PacedNext, Next, Terminated

\* At the start nobody sends.
LEMMA ServedInit ==
    ASSUME Init, NEW s
    PROVE  ServerInv(s)
<1>1. /\ \A e \in Wires : wire[e] = << >>
      /\ \A h \in Hosts : jobs[h] = << >> /\ cmd[h] = << >>
  BY DEF Init, WireInit, HostInit, ManPortInit
<1>2. QED BY <1>1, EmptySeq DEF ServerInv, ServedWires, ServedIn

\* Nothing of a file is on the way from any other host.
LEMMA ServedStreams ==
    ASSUME NEW hub, FileStar(hub), FitInv, NEW s, ServerInv(s)
    PROVE  OneUploadEach(hub)
<1>1. /\ wire \in [Wires -> Seq(Chunk)] /\ ServedWires(wire, s)
      /\ jobs \in [Hosts -> Seq(JobSet)] /\ \A h \in Hosts : jobs[h] \in Seq(ServedJobs(h, s))
  BY FitParts DEF ServerInv
<1>2. ASSUME NEW t \in Hosts, NEW r \in Hosts, t # s PROVE Stream(hub, t, r) = << >>
  <2>1. <<hub, r>> \in Wires /\ <<t, hub>> \in Wires
    BY <1>1, StreamParts
  <2>2. Wired(wire[<<hub, r>>], t, r) = << >> /\ Wired(wire[<<t, hub>>], t, r) = << >>
    BY <1>1, <1>2, <2>1 DEF ServedWires, ServedIn, Served, Wired, ForFile
  <2>3. \A h \in Hosts : ServedJobs(h, s) \subseteq JobSet
    BY DEF ServedJobs
  <2>4. Rcv(jobs[r], t, r) = << >>
    <3>1. PICK f : f = RecvOf(t, r) /\ Maps(f, JobSet, Seq(PacketSet))
      BY JobMaps
    <3>2. \A j \in ServedJobs(r, s) : f[j] = << >>
      BY <1>2, <3>1 DEF RecvOf, ForFile, ServedJobs, Served, RecvTypes, PacketJobs
    <3>3. Packets(f, jobs[r]) = << >>
      BY <1>1, <2>3, <3>1, <3>2, PacketsNone
    <3>4. QED BY <3>1, <3>3 DEF Rcv
  <2>5. Snd(jobs[t], t, r) = << >>
    <3>1. PICK f : f = SendOf(t, r) /\ Maps(f, JobSet, Seq(PacketSet))
      BY JobMaps
    <3>2. \A j \in ServedJobs(t, s) : f[j] = << >>
      BY <1>2, <3>1 DEF SendOf, ForFile, ServedJobs, Served, PacketJobs
    <3>3. Packets(f, jobs[t]) = << >>
      BY <1>1, <2>3, <3>1, <3>2, PacketsNone
    <3>4. QED BY <3>1, <3>3 DEF Snd
  <2>6. InLine(<< >>, << >>, << >>, << >>) = << >>
    BY NoneInLine
  <2>7. QED BY <2>2, <2>4, <2>5, <2>6 DEF Stream, StreamOf
<1>3. QED BY <1>2 DEF OneUploadEach

-----------------------------------------------------------------------------
\* No two hosts have their main directory in the same place.
DirsApart == \A g, h \in Hosts : g # h /\ dir[g] \in Dirs => dir[g] # dir[h]

\* Hosts whose directories are apart have no file in common.
LEMMA ApartNotShared ==
    ASSUME FitInv, Opened, DirsApart
    PROVE  NoFileShared
<1>1. ASSUME NEW h \in Hosts, Runs(h, "UPLOAD_SEND"), NEW name, Open(<<dir[h], name>>)
      PROVE  FALSE
  <2>1. PICK g \in Hosts : phase[g] = FilePhase(g) /\ Target(g) = <<dir[h], name>>
    BY <1>1 DEF Open
  <2>2. dir[g] \in Dirs /\ dir[g] = dir[h]
    BY <2>1 DEF Opened, CanCreate, Target
  <2>3. g # h
    BY <1>1, <2>1, JobPhases DEF Runs
  <2>4. QED BY <2>2, <2>3 DEF DirsApart
<1>2. ASSUME NEW g \in Hosts, NEW h \in Hosts, g # h, phase[g] = FilePhase(g)
      PROVE  Target(g) # Target(h)
  <2>1. dir[g] \in Dirs
    BY <1>2 DEF Opened, CanCreate
  <2>2. dir[g] # dir[h]
    BY <1>2, <2>1 DEF DirsApart
  <2>3. QED BY <2>2 DEF Target
<1>3. QED BY <1>1, <1>2 DEF NoFileShared

\* Every file that is closed is whole (host.c:709-762), if the user asks one host
\* for files and gives no directory to two hosts, whatever the order of commands.
THEOREM FilesArriveFromOne ==
    ASSUME NEW hub, FileStar(hub), NamesFit, NEW s, OneServer(s)
    PROVE  PacedSpec /\ []DirsApart => []FilesIntact
<1>. DEFINE Inv == FileInv(hub) /\ ServerInv(s)
<1>1. Init => Inv
  BY FileInit, ServedInit
<1>2. Inv /\ DirsApart /\ [PacedNext]_vars => Inv'
  <2>. SUFFICES ASSUME FileInv(hub), ServerInv(s), DirsApart, [PacedNext]_vars PROVE Inv'
    OBVIOUS
  <2>1. FitInv /\ Opened
    BY DEF FileInv
  <2>2. OneUploadEach(hub) /\ NoFileShared
    BY <2>1, ServedStreams, ApartNotShared
  <2>3. FileInv(hub)'
    BY <2>2, FileStep
  <2>4. ServerInv(s)'
    BY <2>1, ServedStep
  <2>5. QED BY <2>3, <2>4
<1>3. Inv => FilesIntact
  BY DEF FileInv
<1>. HIDE DEF Inv
<1>4. QED BY <1>1, <1>2, <1>3, PTL DEF PacedSpec
=============================================================================
