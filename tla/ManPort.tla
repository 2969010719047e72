------------------------------ MODULE ManPort -------------------------------
(***************************************************************************)
(* The pair of nonblocking pipes between the manager and a host (man.h,    *)
(* net.c create_man_ports).  Commands and replies are texts with nothing   *)
(* between them: one read by the host takes every command that is there,   *)
(* runs the first and makes the others part of its argument.               *)
(***************************************************************************)
EXTENDS Packet

CONSTANTS
    UserCmds,   \* the commands the user may type
    Glue        \* what a name ends in when another command was read with it

VARIABLES
    cmd,        \* cmd[h]: the commands in the pipe to host h
    rsp         \* rsp[h]: the replies in the pipe from host h

manPortVars == <<cmd, rsp>>

-----------------------------------------------------------------------------
Names == Seq(Bytes)

\* "s", "m name", "p dst", "u dst name", "d dst name".
CommandSet == [op : {"s", "m", "p", "u", "d"}, dst : Int, name : Names]

\* The state of the host, or the outcome of a ping.
ReplySet == [kind : {"state"}, dir : Names] \cup [kind : {"acked", "timeout"}]

ASSUME ManPortAssumption == UserCmds \subseteq CommandSet /\ Glue \in Bytes

\* The command a read of the nonempty pipe q gives.
Heard(q) ==
    IF Len(q) = 1 THEN q[1] ELSE [q[1] EXCEPT !.name = Append(@, Glue)]

Ask(h, c) == cmd' = [cmd EXCEPT ![h] = Append(@, c)]

\* get_man_command empties the pipe.
Hear(h) == cmd' = [cmd EXCEPT ![h] = << >>]

Reply(h, r) == rsp' = [rsp EXCEPT ![h] = Append(@, r)]

ManPortInit ==
    /\ cmd = [h \in Hosts |-> << >>]
    /\ rsp = [h \in Hosts |-> << >>]

ManPortTypeOK ==
    /\ cmd \in [Hosts -> Seq(CommandSet)]
    /\ rsp \in [Hosts -> Seq(ReplySet)]

=============================================================================
