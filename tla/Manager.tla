------------------------------ MODULE Manager -------------------------------
(***************************************************************************)
(* The manager (man.c) and the main program that ends with it (main.c).    *)
(* The user's command goes to the current host.  After "s" and "p" the     *)
(* manager polls for the host's reply, for as long as it takes, and does   *)
(* nothing else; the others it takes to be done as soon as they are sent.  *)
(* Quitting kills every process, whatever it is doing.                     *)
(***************************************************************************)
EXTENDS ManPort

CONSTANTS
    MaxCmds,   \* bound on the commands the user types
    NoCmd,     \* the manager is not waiting
    Letter     \* what a scan up to a space leaves of Glue: a command's letter

VARIABLES
    curr,      \* the current host, curr_host
    pending,   \* the command whose reply the manager waits for
    issued,    \* how many commands the user has typed
    shown,     \* what the console shows since the last command, if anything
    running    \* the program has not quit

managerVars == <<curr, pending, issued, shown, running>>

Answered == {"s", "p"}

ASSUME MaxCmdsAssumption == MaxCmds \in Nat

ASSUME LetterAssumption == Letter \in Bytes

-----------------------------------------------------------------------------
\* The list of hosts is in the order of the configuration.
ManagerInit ==
    /\ curr \in Hosts /\ \A h \in Hosts : curr <= h
    /\ pending = NoCmd
    /\ issued = 0
    /\ shown = << >>
    /\ running = TRUE

AtPrompt == running /\ pending = NoCmd

\* Mutant of Issue: the manager goes on without the reply.
IssueOnly ==
    /\ AtPrompt
    /\ issued < MaxCmds
    /\ \E c \in UserCmds : Ask(curr, c)
    /\ issued' = issued + 1
    /\ shown' = << >>
    /\ UNCHANGED <<rsp, pending, curr, running>>

\* write() of a command and, for "s" and "p", the start of the wait.
Issue ==
    /\ AtPrompt
    /\ issued < MaxCmds
    /\ \E c \in UserCmds :
         /\ Ask(curr, c)
         /\ pending' = IF c.op \in Answered THEN c ELSE NoCmd
    /\ issued' = issued + 1
    /\ shown' = << >>
    /\ UNCHANGED <<rsp, curr, running>>

\* "c": an id that is not on the list changes nothing.
ChangeHost ==
    /\ AtPrompt
    /\ \E h \in Hosts \ {curr} : curr' = h
    /\ UNCHANGED <<manPortVars, pending, issued, shown, running>>

StateOf(h, d) == [kind |-> "state", dir |-> d, host |-> h]

\* What the console may show.
Lines == ReplySet \cup [kind : {"state"}, dir : Names, host : Int]

\* A name up to its first space.  Of the commands that may have become the end of
\* a directory's name only "s" has none, and after that one no reply comes.
FirstWord(name) ==
    [i \in DOMAIN name |-> IF name[i] = Glue THEN Letter ELSE name[i]]

\* sscanf(reply, "%s %d") of the state of host h.  When the directory's name has a
\* space the number is not where it is looked for: host_id is not set, or is a
\* number of the command that became the end of the name.  -1 is any number that
\* is no host's id.
ScannedState(h, d) ==
    IF Glue \in Range(d)
    THEN {StateOf(id, FirstWord(d)) : id \in Hosts \cup {-1}}
    ELSE {StateOf(h, d)}

\* What display_host_state prints of the reply r, and ping.
Printed(r) ==
    IF pending.op = "s" /\ r.kind = "state" THEN ScannedState(curr, r.dir) ELSE {r}

\* The end of the wait in display_host_state and in ping: whatever is read from
\* the pipe is taken for the reply.
Collect ==
    /\ running
    /\ pending # NoCmd
    /\ rsp[curr] # << >>
    /\ rsp' = [rsp EXCEPT ![curr] = << >>]
    /\ pending' = NoCmd
    /\ \E r \in Printed(Head(rsp[curr])) : shown' = <<r>>
    /\ UNCHANGED <<cmd, curr, issued, running>>

\* "q", then kill(0, SIGKILL).
Quit ==
    /\ AtPrompt
    /\ running' = FALSE
    /\ UNCHANGED <<manPortVars, curr, pending, issued, shown>>

ManagerStep == Issue \/ ChangeHost \/ Collect \/ Quit

ManagerTypeOK ==
    /\ curr \in Hosts
    /\ pending \in CommandSet \cup {NoCmd}
    /\ issued \in 0 .. MaxCmds
    /\ shown \in Seq(Lines)
    /\ running \in BOOLEAN

=============================================================================
