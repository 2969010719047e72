# Verification of the network simulator

TLA+ specifications of the simulator in `src/`: a manager at the console, host
processes that ping each other and move files, and switch processes that relay
packets, joined by nonblocking pipes or by sockets. TLC checks small networks;
TLAPS proves, for every network and size, what the switches learn, that the manager's
question has one answer, that one switch doubles no ping, that files arrive whole
through one switch when readers keep up, that a configuration becomes the ports it
describes, and that the host's buffer and queue are what the host takes them for.

## The system

| part | state | operations | talks to |
|---|---|---|---|
| packets and pipes (`packet.c`, `main.h`) | the bytes in each pipe of each link | `packet_send`, `packet_recv`, `switch_packet_recv` | – |
| switch (`switch.c`) | forwarding table, the port scanned next | scan a port: learn the source, forward or flood | hosts and switches, by packets |
| host (`host.c`) | main directory, job queue, `ping_reply_received`, `f_buf_upload`, the place in its loop | five commands, seven kinds of packet, seven kinds of job | manager by the manager pipes, nodes by packets, other hosts by the file system |
| manager (`man.c`) | current host, the reply it waits for | `s m h c p u d q` | hosts, by commands and replies |
| processes (`main.c`) | which processes live | fork each node, run the manager, kill all | – |
| configuration (`net.c`) | lists of nodes and ports | read the file, create pipes, hand out ports | every other part, at the start |
| sockets (`packet.c`, set-up in `host.c` and `switch.c`) | the queue of each listening socket, connections not yet closed | listen; connect–send–close; accept–receive | nodes, also of another simulator |
| `tests/` | – | a chat server and client of their own | not linked with the simulator |

What is hard about it:

- a pipe is a stream of bytes and nothing separates packets or commands: a read
  that comes late takes several and loses all but the first, or cuts one, and the
  tail is read as a header; a full pipe refuses a packet and nobody looks;
- a socket link has a connection for each packet: connecting may block the sender,
  the data may come after the only read, no accepted connection is ever closed, and a
  read of nothing returns an uninitialised result that is taken for a packet;
- every process polls at its own pace, so any two steps can come in any order;
- switches flood to every port, so copies come back;
- a host has one flag for all its pings and one buffer for all uploads to it;
- hosts share the file system, and a file is empty from its opening to its closing;
- the manager waits for a reply without a limit;
- the program starts whatever it could read, and nodes that fail tell nobody.

What makes each part correct: a switch's table points to the host, and with no gap
on the way; a packet is not doubled and does not go round for ever; no sender
waits for ever; the manager's question is answered once, by the state or ping it
asked for; a file that is written is the file that was sent; the ring is a queue of
bytes and the list a queue of jobs; every node gets its own ends of its links.

## The modules

| module | models |
|---|---|
| `Packet` | packets, pipes, what one read and one write do to a pipe |
| `Switch` | `switch_main` on pipes |
| `SwitchNet` | any number of switches with hosts that only send under their own id and read; `RoutingInv` |
| `SockNet` | switches and hosts some of whose links are sockets |
| `ManPort` | the manager's pipes, commands read together |
| `Host` | `host_main` |
| `FileBuf`, `ByteQueue` | the ring of `file_buf`, and the bounded queue it implements |
| `JobQueue` | the linked list of `job_queue` |
| `Manager` | `man_main` and the kill at the end of `main` |
| `AskReply` | what the user relies on: question, answer, shown, in turn |
| `NetSim` | all the processes together; implements `SwitchNet` and `AskReply` |
| `Boot` | `net_init`, the forks, the set-up of a node, the kill |
| `SwitchProofs` | lemmas about pipes, the scan of the ports, learning and the types of a switch |
| `SwitchNetProofs`, `SockNetProofs` | the proofs about `SwitchNet` and `SockNet` |
| `NetSimProofs` | the proofs about `NetSim`, but for those about files |
| `FileProofs` | the proofs about `NetSim` when readers keep up: packets stay whole and files arrive |
| `StoreProofs` | the proofs about the ring and the list |
| `Lists`, `ListProofs` | the list made by insertion at the head and the choice of some of a list's elements; lemmas about both |
| `BootProofs` | the proofs about `Boot` |
| `MC*` | networks, commands and bounds for TLC |

`Switch` and `ManPort` extend `Packet`; `Host` and `Manager` extend `ManPort`;
`NetSim` extends `Host`, `Manager` and `Switch`; `SwitchNet` and `SockNet` extend
`Switch`; `SockNet` and `Boot` extend `Lists`. `FileBuf` and `JobQueue` stand alone: `Host` has in place of the
ring and the list the sequences that they are shown to be, and in place of the lists of
`net.c` the constant `Ports`, the sequences that `ListsInFileOrder` describes. The
definitions called mutants are the code with a plausible bug; no specification uses them.

**Pipes.** `wire[<<a, b>>]` is the pipe from `a` to `b`. Its bytes are kept as
the packets they were written as, each with the distance from the read end to its
own end. A read takes at most `PAYLOAD_MAX + 4` bytes: it reports the first packet
if the read begins at the packet's first byte. Otherwise it reports a packet whose source
is the first byte that is left of the cut one, which `ByteAt` gives: a byte of the
payload, or the `src`, `dst`, type or length when the cut went through the header. The rest
of such a packet is that of any of `Noises`. The read removes every packet whose end it takes
and leaves the cut one with a shorter distance. A write of more than the pipe has
room for does nothing (a write of 104 bytes to a pipe is never partial).

Nothing is assumed of the bytes. The tail of a header begins with a small number, which may
be the id of a host, and then the switch that reads it learns that host on the wrong
port: `header_cut` shows it. `TailsAreForeign` is the state predicate that no tail
that a switch is to read begins with a host's id; what is said of routes is said while it holds
(`RoutesStayRight` and `RoutesStayWhole` say it of each step), and the theorems say of which hosts and users it
always does.

**Switch.** One step reads one port and relays what it found. `table` has an entry
for each id below `TABLE_SIZE`. The code checks the source against the table but not
the destination; for one beyond it `Outputs` allows a flood, any one port, and
`SwitchCrash` the death of the process. Relaying is one step because only this
switch writes to the pipes it relays to and only it reads the pipe it read.

**Host.** `phase[h]` is the place in the loop: the command, each port, one job, and,
after a transfer has ended, the file that is open. Each is one step. A job that is
removed and the jobs it adds change in the same step. `acked` is the flag
`ping_reply_received`, which starts with any value. `fbuf` is the bytes the file buffer
holds, `jobs` the jobs in the queue, and `disk` the one file system of all the hosts.
`JobRecvEnd` opens the file, which empties it, and `JobFileWritten` writes and closes
it; at most 1000 bytes are written, less than stdio's buffer, so that the file has
nothing before the close. A file is read whole in one step, also an empty one that
another host has open.

**The buffer and the queue of a host.** `FileBuf` has the array and `head`, `tail` and
`occ`; one action is one call. A loop of `k` passes is the function that it computes:
`Turn(slot)` is the pass that fills a slot. `Contents`, the bytes from `head` on, is
the refinement mapping to `ByteQueue`. `JobQueue` has the `next` pointers of the cells
of memory, any of which may be reused once its job is freed; `tail` stays on the job
removed last.

**Sockets.** In `SockNet` a link of `Sockets` is a pair of listening addresses.
`backlog[n]` is the queue of the connections that `n` has not accepted, each with the
packet once it is sent. A switch that relays a packet may block in `connect`, so relaying
is not one step: `out[n]` is the packet and the ports still to do, and a node does nothing
else until they are done. `fds[n]` counts the connections accepted, up to `FD_MAX`: the code
does not close them. On a port with nothing to accept, and on one whose packet has not
come, the switch may find nothing or any of `Phantoms`, what uninitialised memory spells.
Hosts are as in `SwitchNet`. All sockets of a node share one listening socket.

**The start.** A configuration file is a record of `Configs`. `Boot` builds the lists
of `net.c` as the code does, each insertion at the head in its place
(`create_node_list`, `create_port_list`, `net_get_port_list`), forks the nodes in the
order of the list, and lets each take its ports, listen, fail or die in any order. A
fork may fail at any node.

**Manager.** `pending` is the command whose reply it is waiting for. `issued` counts the
commands, up to `MaxCmds`. `Heard` is the command a host takes out of its pipe: the
first, with its name extended by `Glue` when others were read with it. `shown` is what the
console shows. The state of a host is a text that `display_host_state` parses with
`"%s %d"`: when the name of the directory has a space, which is in `Glue`, what is shown is the
name up to there (`FirstWord`) and any number (`ScannedState`).

## What is checked

| run | network | shows |
|---|---|---|
| `switch_net` | hosts 0, 1; switches 2–3 | `SourcesKnown`, `RoutesStayRight`, `RoutesStayWhole` with hosts that send what and when they like, packets cut anywhere and writes that are refused: no step but the read of a tail that begins with a host's id spoils a route |
| `ping` | star: hosts 0, 1; switch 2 | `QuestionsAnswered`, `NoDuplicatePings`, `Quiesces`, `ImplementsSwitchNet` |
| `console` | hosts 0–1 | `OneAnswer`, `StateShownIsCurrent`, `QuestionsInTurn` with commands sent before the host has read the last: the directory shown is the host's, up to its first space |
| `star` | star | `FilesIntact`, `DownloadCompletes` when readers keep up, of a file whose last packet is empty and of one longer than the buffer, also while the receiver changes its directory |
| `store` | – | `RingOK`, `ImplementsByteQueue`, `ListIsQueue` |
| `boot` | ten files | `ListsInFileOrder`, `LinkEndsMeet`, `NoOrphans`, `SoundNodesStay`, `NodesComeUp` |
| `sockets` | host 0 by pipe on switch 1, socket link to switch 2 | `RoutesPointHome` with phantoms, `SendersGoOn`, `QueuesMove` |
| `header_cut` | hosts 0, 1; switches 2–3 | finding: the type byte of a packet cut in its header is learnt as a host on the wrong port |
| `storm` | hosts 0, 1; switches 2–3 | finding: a ping of nobody goes round for ever |
| `late_reply` | star | finding: a ping of nobody is acknowledged |
| `glue` | hosts 0–1 | finding: the manager waits for ever |
| `misroute` | host 0 by pipe, host 1 by socket; switches 2–3 by pipe | finding: two switches send a host's packets back and forth |

The last five expect TLC to find the property violated; `PROJECT.json` says under
"findings" which line does it and which comment it goes against.

What two of the passing properties mean for the code. `SendersGoOn`: two switches that
are both in `connect` to the other, each queue full, is a state of `sockets`; they get out
of it because `connect` gives up in the end, which the kernel does after minutes.
`NoOrphans` does not say that nothing is left running: it says that a fork that failed
and a configuration without hosts are the only ways.

**Bounds.** Payloads are at most 2 or 4 bytes instead of 100. A full payload with its
header must be more than a header, several headers must fit in a read, and with 4 a
read of 8 bytes takes exactly two headers, as one of 104 takes 26, so that pings are
lost together but never cut, as in the code. Pipes hold two or three packets: enough for a read to
take two. `switch_net` and `header_cut` explore states with at most three
packets in all the pipes (`FewInFlight`) of 10 bytes. That is enough for a packet of 6
bytes and one of 4, of which a read of 8 leaves the last two bytes, type and length, or
the first leaves two of its payload; and for a write that is refused. In `ping` and
`star` no write is refused: two commands never fill a pipe of three headers, and paced
readers keep pipes empty. The ping timer is 2 instead of 10: a ping that times
out, one that is answered in time and one answered late all occur. The longer file of
`star` takes two full payloads and one more byte and is a byte longer than the
buffer. Two commands in `ping` are what a late reply needs; three in `console` are two
that are read together and one more. `star` starts when the directories are set, a state the
program reaches by as many commands, and has two more, among them a third directory for
host 0. With the directory of host 1 in its place and one command more TLC finds
`FilesIntact` violated: host 0 has opened, and so emptied, the file that host 1 reads to
send it again. The user stays at host 0, for with
transfers both ways `PacedNext` makes hosts and switch wait on each other, which writes
that never block do not. `storm` takes a user who stays at one
host and does not quit (`OneUserSpec`), and fixes the flag that the first ping clears. `store` has a buffer of 3
bytes in 4 slots, so that it goes round with every addition, strings shorter and longer
than what is left, and 3 cells for jobs. `boot` has up to four nodes and four links in ten
files: two in the shape of the repository's and eight with one thing wrong each. `sockets`
has queues of one connection instead of 11, the smallest that fills, and two descriptors, so that a
listener serves its queue and then runs out.

**Fairness.** Every host and every switch is scheduled again and again (each is a loop
that polls and sleeps and never blocks: all the pipes are nonblocking), and so is the
manager while it polls for a reply. The user need do nothing. `PacedSpec` adds that a
packet is read before the next is written to its pipe; that is what the 5 and 10 ms
sleeps make likely and nothing makes certain; without it TLC finds `FilesIntact` violated.
In `SockNet` fairness is weak too, for each switch and for the sending and reading of
each host; a `connect` that fails is part of sending, so that a sender whose peer's queue
stays full is let go. In `Boot` `main` and the nodes go on, the user need not quit and no
fork need fail.

**Refinements.** `NetSim` implements `SwitchNet` with the same variables
(`ImplementsSwitchNet`): the hosts of the code send only under their own id and pass
nothing on, so what is proved of `SwitchNet` is true of the program's switches.
`NetSim` implements `AskReply` with `talk` idle, asked or answered as `pending` and
the reply pipe say (`QuestionsAnswered`), liveness included, as long as every command
is one that is waited for; with `m`, `u` and `d` the question may never be answered
(`glue`), but question, answer and shown still come in turn, which is the safety part of
`AskReply` (`QuestionsInTurn`). `FileBuf`
implements `ByteQueue` with `Contents` for its data (`ImplementsByteQueue`).

## What is proved

| theorem | says, for every value of the constants |
|---|---|
| `SwitchNetProofs.TypeCorrect` | `Spec => []TypeOK` |
| `SwitchNetProofs.SourcesCorrect` | `Spec => []SourcesKnown` |
| `SwitchNetProofs.RoutingCorrect` | `Spec /\ []TailsAreForeign => []RoutingInv` |
| `SwitchNetProofs.RoutesStay` | `Spec => RoutesStayRight /\ RoutesStayWhole` |
| `SwitchNetProofs.RoutesCorrect` | `Spec /\ []TailsAreForeign => []RoutesPointHome` |
| `SwitchNetProofs.RoutesHaveNoGap` | `Spec /\ []TailsAreForeign => []RoutesReachHome` |
| `SwitchNetProofs.HeadersRouted` | when hosts send headers alone, `Spec => [](RoutesPointHome /\ RoutesReachHome)` |
| `SockNetProofs.SocketRoutesCorrect` | `Spec /\ SwitchLinksAreSockets /\ []TailsAreForeign => []RoutesPointHome` |
| `SockNetProofs.SocketHeadersRouted` | when hosts send headers alone, `Spec /\ SwitchLinksAreSockets => []RoutesPointHome` |
| `SockNetProofs.SockTypeCorrect` | `Spec => []SockTypeOK` |
| `NetSimProofs.SimulatorTypeCorrect` | `Spec => []TypeOK` |
| `NetSimProofs.SimulatorIsSwitchNet` | `PacketSet \subseteq Traffic` implies `Spec => ImplementsSwitchNet` |
| `NetSimProofs.SimulatorRoutesCorrect` | on a tree of switches, `Spec /\ []TailsAreForeign => [](RoutesPointHome /\ RoutesReachHome)` |
| `NetSimProofs.PingsAreRouted` | on a tree of switches, for a user who moves no file, `Spec => [](RoutesPointHome /\ RoutesReachHome)` |
| `NetSimProofs.AnswersCorrect` | `Spec => []OneAnswer` |
| `NetSimProofs.StateShownCorrect` | `Spec => []StateShownIsCurrent` |
| `NetSimProofs.TalkInTurn` | `Spec => QuestionsInTurn` |
| `NetSimProofs.OneCopy` | on one switch, `Spec /\ [](NoPingNoise \/ Uncut) => []NoDuplicatePings` |
| `NetSimProofs.PingsUncut` | for a user who moves no file, `Spec => []Uncut` |
| `NetSimProofs.OneCopyOfPings` | on one switch, for a user who moves no file, `Spec => []NoDuplicatePings` |
| `FileProofs.PacedUncut` | when names fit, `PacedSpec => []Uncut` |
| `FileProofs.RoutedWhenPaced` | on a tree of switches, when names fit, `PacedSpec => [](RoutesPointHome /\ RoutesReachHome)` |
| `FileProofs.OneCopyWhenPaced` | on one switch, when names fit, `PacedSpec => []NoDuplicatePings` |
| `FileProofs.FilesArrive` | on one switch, when names fit, `PacedSpec /\ [](OneUploadEach(hub) /\ NoFileShared) => []FilesIntact` |
| `FileProofs.FilesArriveFromOne` | on one switch, when names fit and the user asks one host for files, `PacedSpec /\ []DirsApart => []FilesIntact` |
| `BootProofs.FileOrderHolds` | when no link joins a node to itself, `Spec => []ListsInFileOrder` |
| `BootProofs.LinkEndsMeetHolds` | `Spec => []LinkEndsMeet` |
| `BootProofs.NoOrphansHolds` | `Spec => []NoOrphans` |
| `BootProofs.SoundNodesStayHolds` | when no link joins a node to itself, `Spec => []SoundNodesStay` |
| `StoreProofs.RingCorrect` | `FileBufSpec => []RingOK` |
| `StoreProofs.RingIsQueue` | `FileBufSpec => ImplementsByteQueue` |
| `StoreProofs.ListCorrect` | `JobQueueSpec => []ListIsQueue` |

Assumptions, stated in the modules and evaluated by TLC for the runs: node ids and
port lists fit together; host ids are 0 to 127, for the id is sent as a char;
`Toward` describes a tree (of two adjacent switches one is nearer to a host; in
`SockNet` only that a neighbour is its own next hop); payloads are made of
`Bytes`, which are chars, and the letter of a command is one; the user gives a number of
commands, which are commands of the manager; `NULL` is no cell; a configuration has a sequence of nodes and one of links; what a switch
takes uninitialised memory for is a packet; every socket link has an address (`NoneIsNoAddress`).
`Traffic` matters to `SwitchNet` alone: the theorems about the
switches of `NetSim` take it to be every packet.

**Switches on pipes.** `RoutesPointHome` is not inductive: a switch learns the port that a
packet came from, and a packet may have been flooded by a switch that lies behind
the wrong port. Say switch *s* has no entry for host *h* and reads a packet of *h*
from switch *a*. *a* has sent it, so *a* knows *h* (`SourcesKnown`), and its entry is
right. Were *a* on the wrong side, *s* would be next on *a*'s way to *h*, and since
there is no gap (`RoutesReachHome`) *s* would have an entry. So *a* is on the way to
*h*. The entry is new, points home, and leaves no gap because *a* knows *h*. The
three are inductive together, as long as what is read is a packet of *h* and no tail that
begins with *h*'s id (`TailsAreForeign`). `SourcesKnown` alone needs no such condition, since a
switch learns what it takes for the source, whatever it is, before it sends. That a read
or a write only takes packets away or adds the one that is sent is in the lemmas about `Push`, `Rest` and `Arrivals`.

The condition is false of some behaviours of the code (`header_cut`), so the theorems have
it as a hypothesis and others discharge it where no read leaves a tail. Packets without payload are
headers of 4 bytes, and since a read takes 26 of them (`WholeHeaders`, true of
`PAYLOAD_MAX = 100`) the `i`-th packet of a pipe always ends at `4 * i` (`Whole`): so hosts that send headers
alone are routed right (`HeadersRouted`), and so is the whole program when the user moves no
file (`PingsAreRouted`). With files it is when readers keep up (`RoutedWhenPaced`).
What is left is a user who moves files while a switch falls behind, and there a route can
be wrong.

**Switches on sockets.** A switch learns from pipes only. Where no two switches are
linked by pipes, each pipe it reads comes from a host, and a host's pipe and what the
host has still to send are under its own id (`HostsSpeakForThemselves`); what a switch sends
on, phantoms included, nobody learns from. Without that condition the theorem
is false: that is `misroute`. A tail in a host's pipe may still begin with another host's id,
so `TailsAreForeign` is a hypothesis here too, and `SocketHeadersRouted` discharges it for
hosts that send headers alone.

**The simulator.** That `TypeOK` is kept needs more than types: a job that sends has a
packet under the host's own id (`JobsOf`), for the packets of a host are made by it and
those it reads are never queued to be sent; a port in turn exists, and the host that a command
or reply goes to is one. With that each step of `NetSim` is a step of `SwitchNet` or leaves
the pipes and the switches alone, and `RoutesCorrect` holds of it, under the condition that
`PingsAreRouted` and `RoutedWhenPaced` discharge.

**The question.** `OneAnswer` is not inductive: it would let a host turn a question into
an answer while it still has another to read. `AnswerInv` says where the answer of the
manager's question is: a question among the commands that are still in the pipe, or a
job that waits for a ping, or the reply, and in the last two the pipe of commands is
empty, because the host has read it whole and the manager sends nothing while it waits.
What is read with another command is lost, which leaves the host with nothing, and never
makes a second answer. A ping is either answered or waited for again by the one job, so
`Waits` never has two. The directory cannot change while a reply is on its way, for the
change would be a command; so the directory shown is the one the host has, as far as the
parse lets it through (`StateShownIsCurrent`). `QuestionsInTurn` follows since a reply of which there is one
is taken out by the manager only.

**The ring.** `RingOK` says that `tail` is `occ - 1` slots after `head`, round the ring
of `MAX_FILE_BUFFER + 1`. It is inductive. For the refinement, adding `k` bytes fills the slots
`head + occ` to `head + occ + k - 1`, which differ from the `occ` slots in use because
`occ + k` is at most `MAX_FILE_BUFFER`; so `Contents` is extended by the first `k` bytes.
Removing moves `head`, and what is left is the rest of the sequence.

**The list.** `ListIsQueue` is inductive as it stands: the job that is added is not in the
list, so changing its pointer and the last job's disturbs no other.

**The queues of connections.** That no queue is longer than its listener allows is not
inductive with the types alone: it needs that a connection without its packet is in the
queue of the node that its sender is about to send to, and that there is one of each
sender (`SockInv`). `connect` adds one at the end of a queue that has room, only when the
sender has none; `SendData` puts the packet into that one; an accept takes the first
whether its packet has come or not; giving up takes nothing. The argument about which
places of a queue still wait is over sequences of any length, by the places and not by
induction.

**One copy.** `NoDuplicatePings` is not inductive: it says nothing of the commands that a
host has not read, which become pings later. `PingInv` counts the live packets, the jobs
that send a ping and the unread commands together, and their number is at most `issued`. Each
step is shown to map what it leaves, one to one, into what there was, less what it has
used up (`Smaller`): a command becomes one job, a job one packet, a packet one job or
none. A flood makes many copies, of which one is live, because on a star the pipe to
the host it is for is one (`OneWay`); a read that takes several packets only loses some.
What could break the count is a read that begins in the middle of a packet and spells a
ping of the bytes it finds. The types of the pings are the bytes 0 and 1. No text has them, but the tail of
a header does, and of a tail of less than three bytes the type is read from the packet
behind it or from what memory held. So `NoPingNoise` is a
hypothesis of `OneCopy` and not an assumption of the model; the other hypothesis
that suffices is that no packet is cut. `PingsUncut` discharges that one for a user who
types only `s`, `m` and `p`: all packets are then headers and whole in their pipes
(`Whole`). `OneCopyOfPings` has no condition on what is read. `OneCopyWhenPaced` has none either and
allows files, but needs readers that keep up.

**Files.** `FilesIntact` says that what is on the disk under a name, unless a host has it open,
is the file of that name. It is about the last of the four places where a file is on its
way: the jobs of the sender, the pipe to the switch, the pipe to the receiver and the jobs of
the receiver, before the buffer. The invariant puts the four in line: `Stream(hub, s, r)` is
the sequence of the packets of files from *s* to *r*, the oldest first. Each step does one of
four things to it. A job that handles a packet takes off its front (`Leaves`). A read, a
relay or a write of a packet moves it from one place to the next and leaves the sequence as
it is (`StreamsKept`); that is true because a pipe holds at most one packet, which is whole
(`FitInv`), and because the switch has room for it, so that a flood and a forward come to the
same for the one pipe that counts. The job that starts an upload adds to the end all the
packets of a file (`UploadParsed`). The rest does not touch it.

`Parsed(f, S)` says of a buffer `f` and a stream `S` what will come of them: there is a
history of buffers, from `f`, one for each packet handled, and after each `UPLOAD_END` the
buffer is the whole file of its name, or as much as `MAX_FILE_BUFFER` keeps of it
(`Complete`). It survives the loss of its first packet, and an upload may be added to it
since what follows an `UPLOAD_END`, or begins an empty stream, begins with `UPLOAD_START`, which
resets the buffer. While a file is open the buffer is `Complete` for it (`Opened`) and the
stream is fresh. So what is written is the file. What a reader takes from the disk to send
is intact by the invariant itself.

What the hypotheses keep out, each found by TLC to break `FilesIntact` when it is let in, but
for the first: names that do not fit one packet with what was read after them (`NamesFit`);
readers that fall behind (`Spec` in place of `PacedSpec`); two hosts that send to one receiver, whose packets are mixed
in its one buffer (`OneUploadEach`); a file read, or written, while another host has it open
(`NoFileShared`). The last two are about what the program does, not about what the user
types, and no state of it rules them out. `FilesArriveFromOne` has them from the user's
commands: when all files are asked of one host, each receiver has that one sender
(`ServerInv`), and when no two hosts are given the same directory no file is shared.
`FileStar` asks that the hub has a table entry for each host and that a pipe holds two packets;
both are so in the program (100 entries, 64 KB). All the constants of `star` satisfy the
hypotheses of `FilesArriveFromOne`.

**The start.** `BootInv` says what each list is at each stage, as a function of the file:
the lists are those that `create_node_list`, `create_port_list` and `create_man_ports` give,
and a node that has begun has what `net_get_port_list` gives it. It is inductive because
those depend on the file alone. What the lists contain is the work. A loop that puts
pieces at the head is `InsertAll`, a fold, and `ListProofs` shows by induction on the
number of pieces that its elements are those of the pieces, that it commutes with a map
from each element to a piece (`Each`), and that doing it twice gives the order of the
file again. Induction is possible there because the statement is put as a set of
numbers that contains 0 and successors, not as an operator handed to a theorem of the
library. `ListsInFileOrder` then needs that a link gives each node at most one port. A link
of a node to itself gives it two, and the theorem leaves such files out (`LinksJoinTwo`);
`LinkEndsMeet` and `NoOrphans` hold of them too.

`SoundNodesStay` is what `NodesComeUp` leaves to progress: a node that has begun and that the
file does not stand in the way of runs and listens where it should. It is about all the nodes
at once, for one could take the address of another that begins later. `StayInv` says that what
a node is bound to is the one address that the file gives it (`SocketsOfNode`), so that two
nodes meet only at an address both have in the file, and then neither is `Sound`; and that the
nodes still to be forked are different ones and none has begun (`NodesDiffer`), so that no node
begins twice and finds its own address taken.

Only model-checked: `NodesComeUp`, `DownloadCompletes` and the other liveness properties,
which are out of the prover's reach. Every invariant and every safety property that a
passing run checks is proved.

## Not modelled

- What a host does with uninitialised memory on a socket port (the switch's part of it
  is), and the uninitialised length that is passed to `accept`.
- Reading the text of the configuration: an unknown letter for the first node or for
  a link leaves memory uninitialised. Names and addresses are values; a name
  that cannot be resolved is an address in use (both end the node).
- Names longer than their buffers; memory that is not freed (the job of an upload of a
  file that is not there); the manager's pipes filling up (64 KB of typed commands).
- `tests/`, a program of its own.
- The job queue of the switch and the functions of `net.c` that close and free the
  manager's ports, which are never used.
- That a node with several ports scans a socket several times in one pass is in the
  model; the time that passes in `usleep` is not.

## Plan

What would come next:

1. A run of two hosts that work in one directory (`host.c:762`), which TLC shows to break
   `FilesIntact` with five commands; `star` keeps the directories apart. And runs of two senders to one
   receiver (`host.c:712`) and of readers that fall behind (`packet.c:99`), which break it too.
2. `FilesIntact` through several switches: a stream is then as long as the path, and a flood
   must be shown to leave one copy on it.
3. A `NetSim` with socket links: hosts and manager as they are, on the links of `SockNet`.
