------------------------------ MODULE FileBuf -------------------------------
(***************************************************************************)
(* The file buffer of a host (host.c, struct file_buf): a ring with one    *)
(* slot more than it may hold bytes.  tail is the slot of the last byte,   *)
(* head that of the first, and occ alone says how many there are: head and *)
(* tail are one slot apart when the buffer is empty and two when it is     *)
(* full.                                                                   *)
(***************************************************************************)
EXTENDS Integers, Sequences

CONSTANTS
    MAX_FILE_BUFFER,   \* bytes the buffer holds, 1000 in host.c
    Bytes,             \* what files are made of
    Strings,           \* the payloads that are added
    Lengths            \* how many bytes a caller asks for, PKT_PAYLOAD_MAX

VARIABLES
    buffer,    \* the slots
    head, tail, occ,
    string     \* what the last call of file_buf_remove stored

bufVars == <<buffer, head, tail, occ, string>>

ASSUME FileBufAssumption ==
    /\ MAX_FILE_BUFFER \in Nat
    /\ Strings \subseteq Seq(Bytes)
    /\ Lengths \subseteq Nat

-----------------------------------------------------------------------------
Slots == 0 .. MAX_FILE_BUFFER
Ring == MAX_FILE_BUFFER + 1

Fewer(a, b) == IF a <= b THEN a ELSE b

\* The slots of a new buffer hold whatever the stack held.
FileBufInit ==
    /\ buffer \in [Slots -> Bytes]
    /\ head = 0 /\ tail = MAX_FILE_BUFFER /\ occ = 0
    /\ string = << >>

\* Mutant of FileBufReset: the tail stays where it is.
FileBufResetHead ==
    /\ head' = 0 /\ occ' = 0
    /\ UNCHANGED <<buffer, tail, string>>

\* file_buf_init, also when a transfer starts while another is unfinished.
FileBufReset ==
    /\ head' = 0 /\ tail' = MAX_FILE_BUFFER /\ occ' = 0
    /\ UNCHANGED <<buffer, string>>

\* The loop of file_buf_add: k bytes go to the k slots after tail.
FileBufAdd(s) ==
    LET k == Fewer(Len(s), MAX_FILE_BUFFER - occ)
        Turn(slot) == (slot - tail - 1) % Ring   \* the pass that fills slot
    IN /\ buffer' = [slot \in Slots |->
                        IF Turn(slot) < k THEN s[Turn(slot) + 1] ELSE buffer[slot]]
       /\ tail' = (tail + k) % Ring
       /\ occ' = occ + k
       /\ UNCHANGED <<head, string>>

\* Mutant of FileBufRemove: head goes round a slot early.
FileBufRemoveWraps(n) ==
    LET k == Fewer(n, occ) IN
    /\ string' = [i \in 1 .. k |-> buffer[(head + i - 1) % Ring]]
    /\ head' = (head + k) % MAX_FILE_BUFFER
    /\ occ' = occ - k
    /\ UNCHANGED <<buffer, tail>>

\* The loop of file_buf_remove.
FileBufRemove(n) ==
    LET k == Fewer(n, occ) IN
    /\ string' = [i \in 1 .. k |-> buffer[(head + i - 1) % Ring]]
    /\ head' = (head + k) % Ring
    /\ occ' = occ - k
    /\ UNCHANGED <<buffer, tail>>

FileBufNext ==
    \/ FileBufReset
    \/ \E s \in Strings : FileBufAdd(s)
    \/ \E n \in Lengths : FileBufRemove(n)

FileBufSpec == FileBufInit /\ [][FileBufNext]_bufVars

-----------------------------------------------------------------------------
\* The bytes held, oldest first.
Contents == [i \in 1 .. occ |-> buffer[(head + i - 1) % Ring]]

\* head, tail and occ agree: the last byte is occ - 1 slots after the first
\* (host.c:52-54, 94, 112).
RingOK ==
    /\ buffer \in [Slots -> Bytes]
    /\ head \in Slots
    /\ tail = (head + occ + MAX_FILE_BUFFER) % Ring
    /\ occ \in 0 .. MAX_FILE_BUFFER

\* Whatever is added and removed, in pieces of any size and round the end of the
\* array, what comes out is what went in, in order, up to the buffer's capacity
\* (host.c:86-118).
BQ == INSTANCE ByteQueue WITH data <- Contents

ImplementsByteQueue == BQ!Spec

=============================================================================
