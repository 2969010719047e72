----------------------------- MODULE ByteQueue ------------------------------
(***************************************************************************)
(* What the file buffer is to the rest of the host: a queue of bytes that  *)
(* holds at most MAX_FILE_BUFFER of them and drops what does not fit.      *)
(***************************************************************************)
EXTENDS Integers, Sequences

CONSTANTS
    MAX_FILE_BUFFER,   \* bytes the queue holds, 1000 in host.c
    Strings,           \* the strings that are put in
    Lengths            \* how many bytes may be asked for

VARIABLES
    data,      \* the bytes in the queue, oldest first
    string     \* the bytes last taken out

Smaller(a, b) == IF a <= b THEN a ELSE b

Init == data = << >> /\ string = << >>

Clear == data' = << >> /\ UNCHANGED string

Put(s) ==
    /\ data' = data \o SubSeq(s, 1, Smaller(Len(s), MAX_FILE_BUFFER - Len(data)))
    /\ UNCHANGED string

Take(n) ==
    LET k == Smaller(n, Len(data)) IN
    /\ string' = SubSeq(data, 1, k)
    /\ data' = SubSeq(data, k + 1, Len(data))

Next == Clear \/ (\E s \in Strings : Put(s)) \/ (\E n \in Lengths : Take(n))

Spec == Init /\ [][Next]_<<data, string>>

=============================================================================
