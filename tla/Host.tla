-------------------------------- MODULE Host --------------------------------
(***************************************************************************)
(* The host process (host.c): a loop that reads the manager's pipe, then   *)
(* each of its ports, then runs one job.  Each of these is one step, and   *)
(* phase[h] says which is next.  A packet that arrives becomes a job; a    *)
(* job may send a packet, reply to the manager, read or write a file, and  *)
(* put further jobs at the end of the queue.  A file is emptied when it is *)
(* opened and written when it is closed, in two steps: other hosts may     *)
(* have their main directory in the same place.                            *)
(***************************************************************************)
EXTENDS ManPort

CONSTANTS
    PING_TIMER,        \* runs of the waiting job before it gives up, 10
    MAX_FILE_BUFFER,   \* bytes of a file that a receiver holds, 1000
    Dirs,              \* the directories that exist
    Files              \* the files at the start: <<directory, name>> -> bytes

VARIABLES
    phase,   \* phase[h]: 0 command, k port k, then a job, then a file to write
    dir,     \* dir[h]: the main directory, NoDir while dir_valid is 0
    jobs,    \* jobs[h]: job_q
    acked,   \* acked[h]: ping_reply_received
    fbuf,    \* fbuf[h]: f_buf_upload, the file being received
    disk     \* the files, <<directory, name>> -> bytes; the hosts share them

hostVars == <<phase, dir, jobs, acked, fbuf, disk>>

NoDir == << >>

ASSUME HostAssumption ==
    /\ PAYLOAD_MAX > 0
    /\ PING_TIMER \in Nat \ {0}
    /\ MAX_FILE_BUFFER \in Nat
    /\ Dirs \subseteq Names \ {NoDir}
    /\ Files \in [DOMAIN Files -> Seq(Bytes)]
    /\ DOMAIN Files \subseteq Dirs \X (Names \ {<< >>})

-----------------------------------------------------------------------------
(* Jobs and packets.                                                       *)

\* Mutant of Packet: source and destination exchanged.
PacketSwapped(h, dst, type, body) ==
    [src |-> Char(dst), dst |-> Char(h), type |-> type, body |-> body]

Packet(h, dst, type, body) ==
    [src |-> Char(h), dst |-> Char(dst), type |-> type, body |-> body]

SendAll(p) == [type |-> "SEND_ALL", pkt |-> p]
PingWait(t) == [type |-> "PING_WAIT", timer |-> t]
UploadSend(dst, name) == [type |-> "UPLOAD_SEND", dst |-> dst, name |-> name]

\* The job that a packet of each of these types becomes.
JobOfType == [PING_REQ     |-> "PING_SEND_REPLY", UPLOAD_START |-> "RECV_START",
              UPLOAD_IN    |-> "RECV_IN",         UPLOAD_END   |-> "RECV_END"]

JobSet == [type : {"SEND_ALL"} \cup Range(JobOfType), pkt : PacketSet]
          \cup [type : {"PING_WAIT"}, timer : Nat]
          \cup [type : {"UPLOAD_SEND"}, dst : Int, name : Names]

\* Mutant of UploadJobs: no last packet when nothing is left to send.
UploadJobsNoEmptyEnd(h, dst, name, data) ==
    LET full == Len(data) \div PAYLOAD_MAX
        Part(i) == SubSeq(data, (i - 1) * PAYLOAD_MAX + 1, i * PAYLOAD_MAX)
        rest == SubSeq(data, full * PAYLOAD_MAX + 1, Len(data))
    IN <<SendAll(Packet(h, dst, "UPLOAD_START", name))>>
       \o [i \in 1 .. full |-> SendAll(Packet(h, dst, "UPLOAD_IN", Part(i)))]
       \o (IF rest = << >> THEN << >>
           ELSE <<SendAll(Packet(h, dst, "UPLOAD_END", rest))>>)

\* The packets of an upload: the name; every full payload that fread gives; and
\* what is left, which is nothing when the file ends with a full payload.
UploadJobs(h, dst, name, data) ==
    LET full == Len(data) \div PAYLOAD_MAX
        Part(i) == SubSeq(data, (i - 1) * PAYLOAD_MAX + 1, i * PAYLOAD_MAX)
        rest == SubSeq(data, full * PAYLOAD_MAX + 1, Len(data))
    IN <<SendAll(Packet(h, dst, "UPLOAD_START", name))>>
       \o [i \in 1 .. full |-> SendAll(Packet(h, dst, "UPLOAD_IN", Part(i)))]
       \o <<SendAll(Packet(h, dst, "UPLOAD_END", rest))>>

\* Mutants of BufAdd: the oldest bytes are overwritten; there is no limit.
BufAddWraps(f, body) ==
    LET all == f.data \o body IN
    [f EXCEPT !.data = IF Len(all) <= MAX_FILE_BUFFER THEN all
                       ELSE SubSeq(all, Len(all) - MAX_FILE_BUFFER + 1, Len(all))]
BufAddUnlimited(f, body) == [f EXCEPT !.data = @ \o body]

\* file_buf_add: bytes beyond the buffer's capacity are dropped.
BufAdd(f, body) ==
    LET all == f.data \o body IN
    [f EXCEPT !.data = IF Len(all) <= MAX_FILE_BUFFER THEN all
                       ELSE SubSeq(all, 1, MAX_FILE_BUFFER)]

\* fopen(name, "w") creates a file in a directory that exists.
CanCreate(d, name) == d \in Dirs /\ name # << >>

Job(h) == Head(jobs[h])
Add(h, more) == jobs' = [jobs EXCEPT ![h] = @ \o more]
Done(h, more) == jobs' = [jobs EXCEPT ![h] = Tail(@) \o more]

HostInit ==
    /\ phase = [h \in Hosts |-> 0]
    /\ dir = [h \in Hosts |-> NoDir]
    /\ jobs = [h \in Hosts |-> << >>]
    /\ acked \in [Hosts -> BOOLEAN]     \* the variable is not initialised
    /\ fbuf = [h \in Hosts |-> [name |-> << >>, data |-> << >>]]
    /\ disk = Files

-----------------------------------------------------------------------------
(* The command of the manager.                                             *)

JobPhase(h) == Len(Ports[h]) + 1
FilePhase(h) == JobPhase(h) + 1
Advance(h) == phase' = [phase EXCEPT ![h] = (@ + 1) % (JobPhase(h) + 1)]

AtCommand(h, op) ==
    /\ phase[h] = 0
    /\ cmd[h] # << >>
    /\ Heard(cmd[h]).op = op
    /\ Hear(h)
    /\ Advance(h)

HostNoCommand(h) ==
    /\ phase[h] = 0
    /\ cmd[h] = << >>
    /\ Advance(h)
    /\ UNCHANGED <<wire, manPortVars, dir, jobs, acked, fbuf, disk>>

HostState(h) ==
    /\ AtCommand(h, "s")
    /\ Reply(h, [kind |-> "state", dir |-> dir[h]])
    /\ UNCHANGED <<wire, dir, jobs, acked, fbuf, disk>>

\* Mutant of HostSetDir: the host confirms.
HostSetDirReplies(h) ==
    /\ AtCommand(h, "m")
    /\ dir' = [dir EXCEPT ![h] = Heard(cmd[h]).name]
    /\ Reply(h, [kind |-> "state", dir |-> dir'[h]])
    /\ UNCHANGED <<wire, jobs, acked, fbuf, disk>>

HostSetDir(h) ==
    /\ AtCommand(h, "m")
    /\ dir' = [dir EXCEPT ![h] = Heard(cmd[h]).name]
    /\ UNCHANGED <<wire, rsp, jobs, acked, fbuf, disk>>

HostPing(h) ==
    /\ AtCommand(h, "p")
    /\ Add(h, <<SendAll(Packet(h, Heard(cmd[h]).dst, "PING_REQ", << >>)),
                PingWait(PING_TIMER)>>)
    /\ acked' = [acked EXCEPT ![h] = FALSE]
    /\ UNCHANGED <<wire, rsp, dir, fbuf, disk>>

HostUpload(h) ==
    /\ AtCommand(h, "u")
    /\ LET c == Heard(cmd[h]) IN Add(h, <<UploadSend(c.dst, c.name)>>)
    /\ UNCHANGED <<wire, rsp, dir, acked, fbuf, disk>>

HostDownload(h) ==
    /\ AtCommand(h, "d")
    /\ LET c == Heard(cmd[h]) IN
       Add(h, <<SendAll(Packet(h, c.dst, "DOWNLOAD_REQ", c.name))>>)
    /\ UNCHANGED <<wire, rsp, dir, acked, fbuf, disk>>

HostCommand(h) == \/ HostNoCommand(h) \/ HostState(h) \/ HostSetDir(h)
                  \/ HostPing(h) \/ HostUpload(h) \/ HostDownload(h)

-----------------------------------------------------------------------------
(* One port.                                                               *)

AtPort(h) == phase[h] \in DOMAIN Ports[h]
Link(h) == <<Ports[h][phase[h]], h>>

\* Host h reads its port and takes p for the packet found there.
Receives(h, p) ==
    /\ AtPort(h)
    /\ p \in Arrivals(wire[Link(h)])
    /\ wire' = ReadFrom(wire, Link(h))
    /\ Advance(h)

HostNoPacket(h) ==
    /\ AtPort(h)
    /\ wire[Link(h)] = << >>
    /\ Advance(h)
    /\ UNCHANGED <<wire, manPortVars, dir, jobs, acked, fbuf, disk>>

\* A packet for another node, or of no known type.
HostIgnore(h) ==
    /\ AtPort(h)
    /\ \E p \in Arrivals(wire[Link(h)]) :
         /\ p.dst # h \/ p.type = "OTHER"
         /\ Receives(h, p)
    /\ UNCHANGED <<manPortVars, dir, jobs, acked, fbuf, disk>>

\* Whichever ping it answers.
HostPingReply(h) ==
    /\ AtPort(h)
    /\ \E p \in Arrivals(wire[Link(h)]) :
         /\ p.dst = h /\ p.type = "PING_REPLY"
         /\ Receives(h, p)
    /\ acked' = [acked EXCEPT ![h] = TRUE]
    /\ UNCHANGED <<manPortVars, dir, jobs, fbuf, disk>>

\* Mutant of HostQueue: the packet need not be for this host.
HostQueueAny(h) ==
    /\ AtPort(h)
    /\ \E p \in Arrivals(wire[Link(h)]) :
         /\ p.type \in DOMAIN JobOfType
         /\ Receives(h, p)
         /\ Add(h, <<[type |-> JobOfType[p.type], pkt |-> p]>>)
    /\ UNCHANGED <<manPortVars, dir, acked, fbuf, disk>>

HostQueue(h) ==
    /\ AtPort(h)
    /\ \E p \in Arrivals(wire[Link(h)]) :
         /\ p.dst = h /\ p.type \in DOMAIN JobOfType
         /\ Receives(h, p)
         /\ Add(h, <<[type |-> JobOfType[p.type], pkt |-> p]>>)
    /\ UNCHANGED <<manPortVars, dir, acked, fbuf, disk>>

HostDownloadRequest(h) ==
    /\ AtPort(h)
    /\ \E p \in Arrivals(wire[Link(h)]) :
         /\ p.dst = h /\ p.type = "DOWNLOAD_REQ"
         /\ Receives(h, p)
         /\ Add(h, <<UploadSend(p.src, p.body)>>)
    /\ UNCHANGED <<manPortVars, dir, acked, fbuf, disk>>

HostPort(h) == \/ HostNoPacket(h) \/ HostIgnore(h) \/ HostPingReply(h)
               \/ HostQueue(h) \/ HostDownloadRequest(h)

-----------------------------------------------------------------------------
(* One job.                                                                *)

Runs(h, type) ==
    /\ phase[h] = JobPhase(h)
    /\ jobs[h] # << >>
    /\ Job(h).type = type

AtJob(h, type) == Runs(h, type) /\ Advance(h)

HostNoJob(h) ==
    /\ phase[h] = JobPhase(h)
    /\ jobs[h] = << >>
    /\ Advance(h)
    /\ UNCHANGED <<wire, manPortVars, dir, jobs, acked, fbuf, disk>>

JobSendAll(h) ==
    /\ AtJob(h, "SEND_ALL")
    /\ wire' = SendTo(wire, h, Neighbours(h), Job(h).pkt)
    /\ Done(h, << >>)
    /\ UNCHANGED <<manPortVars, dir, acked, fbuf, disk>>

\* Mutant of JobPingSendReply: the reply is a request.
JobPingSendRequest(h) ==
    /\ AtJob(h, "PING_SEND_REPLY")
    /\ Done(h, <<SendAll(Packet(h, Job(h).pkt.src, "PING_REQ", << >>))>>)
    /\ UNCHANGED <<wire, manPortVars, dir, acked, fbuf, disk>>

JobPingSendReply(h) ==
    /\ AtJob(h, "PING_SEND_REPLY")
    /\ Done(h, <<SendAll(Packet(h, Job(h).pkt.src, "PING_REPLY", << >>))>>)
    /\ UNCHANGED <<wire, manPortVars, dir, acked, fbuf, disk>>

\* Mutant of JobPingAcked: the job is put back.
JobPingAckedAgain(h) ==
    /\ AtJob(h, "PING_WAIT")
    /\ acked[h]
    /\ Reply(h, [kind |-> "acked"])
    /\ Done(h, <<Job(h)>>)
    /\ UNCHANGED <<wire, cmd, dir, acked, fbuf, disk>>

\* The reply, when there is one, was to any ping this host has sent.
JobPingAcked(h) ==
    /\ AtJob(h, "PING_WAIT")
    /\ acked[h]
    /\ Reply(h, [kind |-> "acked"])
    /\ Done(h, << >>)
    /\ UNCHANGED <<wire, cmd, dir, acked, fbuf, disk>>

\* Mutant of JobPingWait: the timer stands still.
JobPingWaitForEver(h) ==
    /\ AtJob(h, "PING_WAIT")
    /\ ~acked[h]
    /\ Job(h).timer > 1
    /\ Done(h, <<Job(h)>>)
    /\ UNCHANGED <<wire, manPortVars, dir, acked, fbuf, disk>>

JobPingWait(h) ==
    /\ AtJob(h, "PING_WAIT")
    /\ ~acked[h]
    /\ Job(h).timer > 1
    /\ Done(h, <<PingWait(Job(h).timer - 1)>>)
    /\ UNCHANGED <<wire, manPortVars, dir, acked, fbuf, disk>>

JobPingTimeOut(h) ==
    /\ AtJob(h, "PING_WAIT")
    /\ ~acked[h]
    /\ Job(h).timer <= 1
    /\ Reply(h, [kind |-> "timeout"])
    /\ Done(h, << >>)
    /\ UNCHANGED <<wire, cmd, dir, acked, fbuf, disk>>

\* Nobody is told when there is no such file.
JobUploadSend(h) ==
    /\ AtJob(h, "UPLOAD_SEND")
    /\ LET file == <<dir[h], Job(h).name>> IN
       Done(h, IF file \in DOMAIN disk
               THEN UploadJobs(h, Job(h).dst, Job(h).name, disk[file])
               ELSE << >>)
    /\ UNCHANGED <<wire, manPortVars, dir, acked, fbuf, disk>>

JobRecvStart(h) ==
    /\ AtJob(h, "RECV_START")
    /\ fbuf' = [fbuf EXCEPT ![h] = [name |-> Job(h).pkt.body, data |-> << >>]]
    /\ Done(h, << >>)
    /\ UNCHANGED <<wire, manPortVars, dir, acked, disk>>

JobRecvIn(h) ==
    /\ AtJob(h, "RECV_IN")
    /\ fbuf' = [fbuf EXCEPT ![h] = BufAdd(@, Job(h).pkt.body)]
    /\ Done(h, << >>)
    /\ UNCHANGED <<wire, manPortVars, dir, acked, disk>>

\* The file that host h receives.
Target(h) == <<dir[h], fbuf[h].name>>

\* There is no directory to write it in: the buffer keeps the bytes.
JobRecvEndNoFile(h) ==
    /\ AtJob(h, "RECV_END")
    /\ ~CanCreate(dir[h], fbuf[h].name)
    /\ fbuf' = [fbuf EXCEPT ![h] = BufAdd(@, Job(h).pkt.body)]
    /\ Done(h, << >>)
    /\ UNCHANGED <<wire, manPortVars, dir, acked, disk>>

\* fopen(name, "w") empties the file, or creates it.
JobRecvEnd(h) ==
    /\ Runs(h, "RECV_END")
    /\ CanCreate(dir[h], fbuf[h].name)
    /\ fbuf' = [fbuf EXCEPT ![h] = BufAdd(@, Job(h).pkt.body)]
    /\ disk' = [f \in DOMAIN disk \cup {Target(h)} |->
                  IF f = Target(h) THEN << >> ELSE disk[f]]
    /\ phase' = [phase EXCEPT ![h] = FilePhase(h)]
    /\ Done(h, << >>)
    /\ UNCHANGED <<wire, manPortVars, dir, acked>>

\* fclose writes the bytes at the start of the file, over those that another
\* host may have written since it was opened.
JobFileWritten(h) ==
    /\ phase[h] = FilePhase(h)
    /\ LET data == fbuf[h].data IN
       disk' = [disk EXCEPT ![Target(h)] = data \o SubSeq(@, Len(data) + 1, Len(@))]
    /\ fbuf' = [fbuf EXCEPT ![h].data = << >>]
    /\ phase' = [phase EXCEPT ![h] = 0]
    /\ UNCHANGED <<wire, manPortVars, dir, jobs, acked>>

HostJob(h) == \/ HostNoJob(h) \/ JobSendAll(h) \/ JobPingSendReply(h)
              \/ JobPingAcked(h) \/ JobPingWait(h) \/ JobPingTimeOut(h)
              \/ JobUploadSend(h) \/ JobRecvStart(h) \/ JobRecvIn(h)
              \/ JobRecvEndNoFile(h) \/ JobRecvEnd(h) \/ JobFileWritten(h)

HostStep(h) == HostCommand(h) \/ HostPort(h) \/ HostJob(h)

HostTypeOK ==
    /\ phase \in [Hosts -> Nat]
    /\ \A h \in Hosts : phase[h] <= FilePhase(h)
    /\ dir \in [Hosts -> Names]
    /\ jobs \in [Hosts -> Seq(JobSet)]
    /\ acked \in [Hosts -> BOOLEAN]
    /\ fbuf \in [Hosts -> [name : Names, data : Seq(Bytes)]]
    /\ \A h \in Hosts : Len(fbuf[h].data) <= MAX_FILE_BUFFER
    /\ DOMAIN disk \subseteq Dirs \X Names
    /\ \A f \in DOMAIN disk : disk[f] \in Seq(Bytes)

=============================================================================
