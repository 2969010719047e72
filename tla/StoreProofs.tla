---------------------------- MODULE StoreProofs -----------------------------
(***************************************************************************)
(* Proofs about what a host stores.  The file buffer, for every capacity,  *)
(* alphabet, set of strings added and set of lengths asked for: its three  *)
(* numbers always agree, and it is the bounded queue of bytes that the     *)
(* host takes it for.  The job queue, for any number of places in memory:  *)
(* its pointers are the list of the jobs, in the order they were added.    *)
(***************************************************************************)
EXTENDS FileBuf, JobQueue, SequenceTheorems, TLAPS

-----------------------------------------------------------------------------
(* Going round the ring.                                                   *)

\* A number of slots counted from 0 is less than three turns.
LEMMA Wrap ==
    ASSUME NEW x \in Int, -Ring <= x, x < 3 * Ring
    PROVE  x % Ring = IF x < 0 THEN x + Ring
                      ELSE IF x < Ring THEN x
                      ELSE IF x < 2 * Ring THEN x - Ring ELSE x - 2 * Ring
<1>. DEFINE R == Ring
<1>1. R \in Nat \ {0}
  BY FileBufAssumption DEF Ring
<1>. HIDE DEF R
<1>2. ASSUME -R <= x, x < 0 PROVE x % R = x + R
  BY <1>1, <1>2, SMT
<1>3. ASSUME 0 <= x, x < R PROVE x % R = x
  BY <1>1, <1>3, SMT
<1>4. ASSUME R <= x, x < 2 * R PROVE x % R = x - R
  BY <1>1, <1>4, SMT
<1>5. ASSUME 2 * R <= x, x < 3 * R PROVE x % R = x - 2 * R
  BY <1>1, <1>5, SMT
<1>. QED  BY <1>1, <1>2, <1>3, <1>4, <1>5 DEF R

\* The slot that is i slots after slot h.
LEMMA SlotAfter ==
    ASSUME NEW h \in Slots, NEW i \in 0 .. MAX_FILE_BUFFER
    PROVE  /\ (h + i) % Ring \in Slots
           /\ (h + i) % Ring = IF h + i < Ring THEN h + i ELSE h + i - Ring
<1>. DEFINE x == h + i
<1>1. MAX_FILE_BUFFER \in Nat /\ h \in 0 .. MAX_FILE_BUFFER
  BY FileBufAssumption DEF Slots
<1>2. x \in Int /\ -Ring <= x /\ x < 3 * Ring /\ x < 2 * Ring /\ x >= 0
  BY <1>1 DEF Ring
<1>. HIDE DEF x
<1>3. x % Ring = IF x < 0 THEN x + Ring
                 ELSE IF x < Ring THEN x
                 ELSE IF x < 2 * Ring THEN x - Ring ELSE x - 2 * Ring
  BY <1>2, Wrap
<1>4. x % Ring = IF x < Ring THEN x ELSE x - Ring
  BY <1>1, <1>2, <1>3 DEF Ring
<1>5. x % Ring \in Slots
  BY <1>1, <1>2, <1>4 DEF Ring, Slots
<1>6. x = h + i /\ x \in Int /\ Ring \in Int
  BY <1>1 DEF x, Ring
<1>. QED  BY <1>1, <1>4, <1>5, <1>6

\* The slot before the one that is o slots after slot h.
LEMMA SlotBefore ==
    ASSUME NEW h \in Slots, NEW o \in 0 .. MAX_FILE_BUFFER
    PROVE  /\ (h + o + MAX_FILE_BUFFER) % Ring \in Slots
           /\ (h + o + MAX_FILE_BUFFER) % Ring =
                IF h + o = 0 THEN MAX_FILE_BUFFER
                ELSE IF h + o <= Ring THEN h + o - 1 ELSE h + o - 1 - Ring
<1>. DEFINE x == h + o + MAX_FILE_BUFFER
<1>1. MAX_FILE_BUFFER \in Nat /\ h \in 0 .. MAX_FILE_BUFFER
  BY FileBufAssumption DEF Slots
<1>2. x \in Int /\ -Ring <= x /\ x < 3 * Ring
  BY <1>1 DEF Ring
<1>3. x = h + o + MAX_FILE_BUFFER
  OBVIOUS
<1>. HIDE DEF x
<1>4. x % Ring = IF x < 0 THEN x + Ring
                 ELSE IF x < Ring THEN x
                 ELSE IF x < 2 * Ring THEN x - Ring ELSE x - 2 * Ring
  BY <1>2, Wrap
<1>5. x % Ring = IF h + o = 0 THEN MAX_FILE_BUFFER
                 ELSE IF h + o <= Ring THEN h + o - 1 ELSE h + o - 1 - Ring
  BY <1>1, <1>2, <1>3, <1>4 DEF Ring
<1>6. x % Ring \in Slots
  BY <1>1, <1>5 DEF Ring, Slots
<1>7. Ring \in Int
  BY <1>1 DEF Ring
<1>. QED  BY <1>1, <1>2, <1>3, <1>5, <1>6, <1>7

\* How many bytes after slot t a slot comes.
LEMMA TurnOfSlot ==
    ASSUME NEW t \in Slots, NEW slot \in Slots
    PROVE  /\ (slot - t - 1) % Ring \in 0 .. MAX_FILE_BUFFER
           /\ (slot - t - 1) % Ring =
                IF slot <= t THEN slot - t - 1 + Ring ELSE slot - t - 1
<1>1. /\ MAX_FILE_BUFFER \in Nat /\ t \in 0 .. MAX_FILE_BUFFER
      /\ slot \in 0 .. MAX_FILE_BUFFER
  BY FileBufAssumption DEF Slots
<1>2. /\ slot - t - 1 \in Int
      /\ -Ring <= slot - t - 1 /\ slot - t - 1 < Ring
  BY <1>1 DEF Ring
<1>3. Ring \in Int
  BY <1>1 DEF Ring
<1>4. (slot - t - 1) % Ring =
        IF slot - t - 1 < 0 THEN slot - t - 1 + Ring ELSE slot - t - 1
  BY <1>2, <1>3, Wrap
<1>. QED  BY <1>1, <1>4 DEF Ring

\* How many bytes a call moves.
LEMMA FewerType ==
    ASSUME NEW a \in Nat, NEW b \in Nat
    PROVE  Fewer(a, b) \in Nat /\ Fewer(a, b) <= a /\ Fewer(a, b) <= b
BY DEF Fewer

-----------------------------------------------------------------------------
(* The three numbers agree.                                                *)

LEMMA RingInit == FileBufInit => RingOK
<1>. SUFFICES ASSUME FileBufInit PROVE RingOK
  OBVIOUS
<1>1. MAX_FILE_BUFFER \in Nat /\ 0 \in Slots /\ 0 \in 0 .. MAX_FILE_BUFFER
  BY FileBufAssumption DEF Slots
<1>2. (0 + 0 + MAX_FILE_BUFFER) % Ring = MAX_FILE_BUFFER
  BY <1>1, SlotBefore
<1>. QED  BY <1>1, <1>2 DEF FileBufInit, RingOK

\* The buffer after k bytes of s have been added.
LEMMA AddSlots ==
    ASSUME RingOK, NEW s \in Strings, FileBufAdd(s),
           NEW k, k = Fewer(Len(s), MAX_FILE_BUFFER - occ)
    PROVE  /\ k \in 0 .. MAX_FILE_BUFFER - occ /\ k <= Len(s)
           /\ \A slot \in Slots :
                LET turn == IF slot <= tail THEN slot - tail - 1 + Ring
                            ELSE slot - tail - 1
                IN buffer'[slot] = IF turn < k THEN s[turn + 1] ELSE buffer[slot]
           /\ buffer' \in [Slots -> Bytes]
<1>1. /\ MAX_FILE_BUFFER \in Nat /\ s \in Seq(Bytes) /\ Len(s) \in Nat
      /\ head \in Slots /\ occ \in 0 .. MAX_FILE_BUFFER
  BY FileBufAssumption DEF RingOK
<1>2. tail \in Slots
  BY <1>1, SlotBefore DEF RingOK
<1>3. k \in 0 .. MAX_FILE_BUFFER - occ /\ k <= Len(s)
  BY <1>1, FewerType
<1>4. ASSUME NEW slot \in Slots
      PROVE  LET turn == IF slot <= tail THEN slot - tail - 1 + Ring
                         ELSE slot - tail - 1
             IN /\ (slot - tail - 1) % Ring = turn
                /\ turn \in 0 .. MAX_FILE_BUFFER
  BY <1>2, TurnOfSlot
<1>5. buffer' = [slot \in Slots |->
                    IF (slot - tail - 1) % Ring < k
                    THEN s[((slot - tail - 1) % Ring) + 1] ELSE buffer[slot]]
  BY DEF FileBufAdd
<1>6. ASSUME NEW slot \in Slots
      PROVE  LET turn == IF slot <= tail THEN slot - tail - 1 + Ring
                         ELSE slot - tail - 1
             IN buffer'[slot] = IF turn < k THEN s[turn + 1] ELSE buffer[slot]
  BY <1>4, <1>5
<1>7. ASSUME NEW slot \in Slots PROVE buffer'[slot] \in Bytes
  <2>. DEFINE turn == IF slot <= tail THEN slot - tail - 1 + Ring ELSE slot - tail - 1
  <2>1. turn \in 0 .. MAX_FILE_BUFFER
    BY <1>4
  <2>2. buffer'[slot] = IF turn < k THEN s[turn + 1] ELSE buffer[slot]
    BY <1>6
  <2>. HIDE DEF turn
  <2>3. turn < k => turn + 1 \in 1 .. Len(s)
    BY <1>1, <1>3, <2>1
  <2>4. turn < k => s[turn + 1] \in Bytes
    BY <1>1, <2>3, ElementOfSeq
  <2>. QED  BY <2>2, <2>4 DEF RingOK
<1>8. buffer' \in [Slots -> Bytes]
  BY <1>5, <1>7
<1>. QED  BY <1>3, <1>6, <1>8

\* Adding moves tail as far as it moves occ, removing moves head as far as it
\* moves occ back.
LEMMA RingStep == RingOK /\ [FileBufNext]_bufVars => RingOK'
<1>. SUFFICES ASSUME RingOK, [FileBufNext]_bufVars PROVE RingOK'
  OBVIOUS
<1>1. /\ MAX_FILE_BUFFER \in Nat /\ head \in Slots
      /\ occ \in 0 .. MAX_FILE_BUFFER /\ buffer \in [Slots -> Bytes]
  BY FileBufAssumption DEF RingOK
<1>2. CASE FileBufReset
  <2>1. 0 \in Slots /\ 0 \in 0 .. MAX_FILE_BUFFER
    BY <1>1 DEF Slots
  <2>2. (0 + 0 + MAX_FILE_BUFFER) % Ring = MAX_FILE_BUFFER
    BY <1>1, <2>1, SlotBefore
  <2>. QED  BY <1>1, <1>2, <2>1, <2>2 DEF FileBufReset, RingOK
<1>3. ASSUME NEW s \in Strings, FileBufAdd(s) PROVE RingOK'
  <2>. DEFINE k == Fewer(Len(s), MAX_FILE_BUFFER - occ)
  <2>1. k \in 0 .. MAX_FILE_BUFFER - occ /\ buffer' \in [Slots -> Bytes]
    BY <1>3, AddSlots
  <2>2. tail' = (tail + k) % Ring /\ occ' = occ + k /\ head' = head
    BY <1>3 DEF FileBufAdd
  <2>. HIDE DEF k
  <2>3. occ' \in 0 .. MAX_FILE_BUFFER /\ k \in 0 .. MAX_FILE_BUFFER
    BY <1>1, <2>1, <2>2
  <2>4. tail \in Slots
        /\ tail = IF head + occ = 0 THEN MAX_FILE_BUFFER
                  ELSE IF head + occ <= Ring THEN head + occ - 1
                  ELSE head + occ - 1 - Ring
    BY <1>1, SlotBefore DEF RingOK
  <2>5. tail' = IF tail + k < Ring THEN tail + k ELSE tail + k - Ring
    BY <2>2, <2>3, <2>4, SlotAfter
  <2>6. (head + occ' + MAX_FILE_BUFFER) % Ring =
            IF head + occ' = 0 THEN MAX_FILE_BUFFER
            ELSE IF head + occ' <= Ring THEN head + occ' - 1
            ELSE head + occ' - 1 - Ring
    BY <1>1, <2>3, SlotBefore
  <2>7. tail' = (head + occ' + MAX_FILE_BUFFER) % Ring
    BY <1>1, <2>1, <2>2, <2>3, <2>4, <2>5, <2>6 DEF Ring, Slots
  <2>. QED  BY <1>1, <2>1, <2>2, <2>3, <2>7 DEF RingOK
<1>4. ASSUME NEW n \in Lengths, FileBufRemove(n) PROVE RingOK'
  <2>. DEFINE k == Fewer(n, occ)
  <2>0. n \in Nat /\ occ \in Nat
    BY <1>1, FileBufAssumption
  <2>1. k \in 0 .. occ
    BY <2>0, FewerType
  <2>2. /\ head' = (head + k) % Ring /\ occ' = occ - k
        /\ tail' = tail /\ buffer' = buffer
    BY <1>4 DEF FileBufRemove
  <2>. HIDE DEF k
  <2>3. occ' \in 0 .. MAX_FILE_BUFFER /\ k \in 0 .. MAX_FILE_BUFFER
    BY <1>1, <2>1, <2>2
  <2>4. head' \in Slots
        /\ head' = IF head + k < Ring THEN head + k ELSE head + k - Ring
    BY <1>1, <2>2, <2>3, SlotAfter
  <2>5. tail = IF head + occ = 0 THEN MAX_FILE_BUFFER
               ELSE IF head + occ <= Ring THEN head + occ - 1
               ELSE head + occ - 1 - Ring
    BY <1>1, SlotBefore DEF RingOK
  <2>6. (head' + occ' + MAX_FILE_BUFFER) % Ring =
            IF head' + occ' = 0 THEN MAX_FILE_BUFFER
            ELSE IF head' + occ' <= Ring THEN head' + occ' - 1
            ELSE head' + occ' - 1 - Ring
    BY <2>3, <2>4, SlotBefore
  <2>7. tail = (head' + occ' + MAX_FILE_BUFFER) % Ring
    BY <1>1, <2>1, <2>2, <2>3, <2>4, <2>5, <2>6 DEF Ring, Slots
  <2>. QED  BY <1>1, <2>2, <2>3, <2>4, <2>7 DEF RingOK
<1>5. CASE UNCHANGED bufVars
  BY <1>5 DEF bufVars, RingOK
<1>. QED  BY <1>2, <1>3, <1>4, <1>5 DEF FileBufNext

\* Whatever is added and removed, round the end of the array too, tail is where
\* head and occ say, and no more than MAX_FILE_BUFFER bytes are held
\* (host.c:86-118).
THEOREM RingCorrect == FileBufSpec => []RingOK
BY RingInit, RingStep, PTL DEF FileBufSpec

-----------------------------------------------------------------------------
(* The buffer is a queue.                                                  *)

\* The bytes in o slots of b from slot h on.
Held(b, h, o) == [i \in 1 .. o |-> b[(h + i - 1) % Ring]]

\* They are a sequence of bytes.
LEMMA HeldType ==
    ASSUME NEW b \in [Slots -> Bytes], NEW h \in Slots, NEW o \in 0 .. MAX_FILE_BUFFER
    PROVE  /\ Held(b, h, o) \in Seq(Bytes)
           /\ Len(Held(b, h, o)) = o
           /\ \A i \in 1 .. o :
                LET slot == IF h + i - 1 < Ring THEN h + i - 1 ELSE h + i - 1 - Ring
                IN slot \in Slots /\ Held(b, h, o)[i] = b[slot]
<1>1. MAX_FILE_BUFFER \in Nat /\ h \in 0 .. MAX_FILE_BUFFER /\ o \in Nat
  BY FileBufAssumption DEF Slots
<1>2. ASSUME NEW i \in 1 .. o
      PROVE  LET slot == IF h + i - 1 < Ring THEN h + i - 1 ELSE h + i - 1 - Ring
             IN slot \in Slots /\ (h + i - 1) % Ring = slot
  <2>1. i - 1 \in 0 .. MAX_FILE_BUFFER /\ h + i - 1 = h + (i - 1)
    BY <1>1
  <2>. QED  BY <1>1, <2>1, SlotAfter
<1>3. ASSUME NEW i \in 1 .. o PROVE b[(h + i - 1) % Ring] \in Bytes
  BY <1>2
<1>4. Held(b, h, o) \in [1 .. o -> Bytes]
  BY <1>3 DEF Held
<1>5. Held(b, h, o) \in Seq(Bytes) /\ Len(Held(b, h, o)) = o
  BY <1>1, <1>4
<1>6. ASSUME NEW i \in 1 .. o PROVE Held(b, h, o)[i] = b[(h + i - 1) % Ring]
  BY DEF Held
<1>. QED  BY <1>2, <1>5, <1>6

\* file_buf_add puts the bytes that fit after those that are there.
LEMMA AddIsPut ==
    ASSUME RingOK, RingOK', NEW s \in Strings, FileBufAdd(s)
    PROVE  BQ!Put(s)
<1>. DEFINE k == Fewer(Len(s), MAX_FILE_BUFFER - occ)
            new == SubSeq(s, 1, k)
<1>1. /\ MAX_FILE_BUFFER \in Nat /\ s \in Seq(Bytes) /\ Len(s) \in Nat
      /\ head \in Slots /\ occ \in 0 .. MAX_FILE_BUFFER /\ buffer \in [Slots -> Bytes]
  BY FileBufAssumption DEF RingOK
<1>2. /\ k \in 0 .. MAX_FILE_BUFFER - occ /\ k <= Len(s)
      /\ \A slot \in Slots :
           LET turn == IF slot <= tail THEN slot - tail - 1 + Ring ELSE slot - tail - 1
           IN buffer'[slot] = IF turn < k THEN s[turn + 1] ELSE buffer[slot]
  BY AddSlots
<1>3. occ' = occ + k /\ head' = head /\ string' = string
  BY DEF FileBufAdd
<1>4. /\ tail \in Slots
      /\ tail = IF head + occ = 0 THEN MAX_FILE_BUFFER
                ELSE IF head + occ <= Ring THEN head + occ - 1
                ELSE head + occ - 1 - Ring
  BY <1>1, SlotBefore DEF RingOK
<1>5. /\ Contents \in Seq(Bytes) /\ Len(Contents) = occ
      /\ \A i \in 1 .. occ :
           LET slot == IF head + i - 1 < Ring THEN head + i - 1 ELSE head + i - 1 - Ring
           IN slot \in Slots /\ Contents[i] = buffer[slot]
  BY <1>1, HeldType DEF Contents, Held
<1>6. occ' \in 0 .. MAX_FILE_BUFFER /\ buffer' \in [Slots -> Bytes] /\ head' \in Slots
  BY DEF RingOK
<1>7. /\ Contents' \in Seq(Bytes) /\ Len(Contents') = occ'
      /\ \A i \in 1 .. occ' :
           LET slot == IF head + i - 1 < Ring THEN head + i - 1 ELSE head + i - 1 - Ring
           IN slot \in Slots /\ Contents'[i] = buffer'[slot]
  BY <1>3, <1>6, HeldType DEF Contents, Held
<1>8. /\ new \in Seq(Bytes) /\ Len(new) = k
      /\ \A i \in 1 .. k : new[i] = s[i]
  BY <1>1, <1>2
<1>9. /\ Contents \o new \in Seq(Bytes) /\ Len(Contents \o new) = occ + k
      /\ \A i \in 1 .. occ : (Contents \o new)[i] = Contents[i]
      /\ \A i \in occ + 1 .. occ + k : (Contents \o new)[i] = new[i - occ]
  BY <1>1, <1>2, <1>5, <1>8, ConcatProperties
<1>. HIDE DEF k, new
<1>10. ASSUME NEW i \in 1 .. occ PROVE Contents'[i] = Contents[i]
  <2>. DEFINE slot == IF head + i - 1 < Ring THEN head + i - 1 ELSE head + i - 1 - Ring
              turn == IF slot <= tail THEN slot - tail - 1 + Ring ELSE slot - tail - 1
  <2>1. slot \in Slots /\ Contents[i] = buffer[slot] /\ Contents'[i] = buffer'[slot]
    BY <1>1, <1>2, <1>3, <1>5, <1>7
  <2>2. turn >= k
    BY <1>1, <1>2, <1>4 DEF Ring, Slots
  <2>3. buffer'[slot] = IF turn < k THEN s[turn + 1] ELSE buffer[slot]
    BY <1>2, <2>1
  <2>4. turn \in Int /\ k \in Int
    BY <1>1, <1>2, <1>4 DEF Ring, Slots
  <2>. HIDE DEF slot, turn
  <2>. QED  BY <2>1, <2>2, <2>3, <2>4
<1>11. ASSUME NEW i \in occ + 1 .. occ + k PROVE Contents'[i] = new[i - occ]
  <2>. DEFINE slot == IF head + i - 1 < Ring THEN head + i - 1 ELSE head + i - 1 - Ring
              turn == IF slot <= tail THEN slot - tail - 1 + Ring ELSE slot - tail - 1
  <2>1. slot \in Slots /\ Contents'[i] = buffer'[slot]
    BY <1>1, <1>2, <1>3, <1>7
  <2>2. turn = i - occ - 1
    BY <1>1, <1>2, <1>4 DEF Ring, Slots
  <2>3. buffer'[slot] = IF turn < k THEN s[turn + 1] ELSE buffer[slot]
    BY <1>2, <2>1
  <2>. HIDE DEF slot, turn
  <2>4. buffer'[slot] = s[i - occ]
    BY <1>1, <1>2, <2>2, <2>3
  <2>. QED  BY <1>1, <1>2, <1>8, <2>1, <2>4
<1>12. Contents' = Contents \o new
  <2>1. ASSUME NEW i \in 1 .. Len(Contents') PROVE Contents'[i] = (Contents \o new)[i]
    <3>1. occ \in Int /\ k \in Int /\ i \in 1 .. occ + k
      BY <1>1, <1>2, <1>3, <1>7
    <3>2. i \in 1 .. occ \/ i \in occ + 1 .. occ + k
      BY <3>1
    <3>3. CASE i \in 1 .. occ
      BY <1>9, <1>10, <3>3
    <3>4. CASE i \in occ + 1 .. occ + k
      BY <1>9, <1>11, <3>4
    <3>. QED  BY <3>2, <3>3, <3>4
  <2>. QED  BY <1>3, <1>7, <1>9, <2>1, SeqEqual
<1>. QED  BY <1>3, <1>5, <1>12 DEF BQ!Put, BQ!Smaller, Fewer, k, new

\* file_buf_remove stores the first bytes and leaves the others.
LEMMA RemoveIsTake ==
    ASSUME RingOK, RingOK', NEW n \in Lengths, FileBufRemove(n)
    PROVE  BQ!Take(n)
<1>. DEFINE k == Fewer(n, occ)
<1>1. /\ MAX_FILE_BUFFER \in Nat /\ n \in Nat
      /\ head \in Slots /\ occ \in 0 .. MAX_FILE_BUFFER /\ buffer \in [Slots -> Bytes]
  BY FileBufAssumption DEF RingOK
<1>2. k \in 0 .. occ /\ occ \in Nat
  BY <1>1, FewerType
<1>3. /\ string' = Held(buffer, head, k)
      /\ head' = (head + k) % Ring /\ occ' = occ - k /\ buffer' = buffer
  BY DEF FileBufRemove, Held
<1>4. /\ Contents \in Seq(Bytes) /\ Len(Contents) = occ
      /\ \A i \in 1 .. occ :
           LET slot == IF head + i - 1 < Ring THEN head + i - 1 ELSE head + i - 1 - Ring
           IN slot \in Slots /\ Contents[i] = buffer[slot]
  BY <1>1, HeldType DEF Contents, Held
<1>. HIDE DEF k
<1>5. k \in 0 .. MAX_FILE_BUFFER
  BY <1>1, <1>2
<1>6. head' = IF head + k < Ring THEN head + k ELSE head + k - Ring
  BY <1>1, <1>3, <1>5, SlotAfter
<1>7. occ' \in 0 .. MAX_FILE_BUFFER /\ head' \in Slots
  BY DEF RingOK
<1>8. Contents' = Held(buffer, head', occ')
  BY <1>3 DEF Contents, Held
<1>9. /\ Contents' \in Seq(Bytes) /\ Len(Contents') = occ'
      /\ \A i \in 1 .. occ' :
           LET slot == IF head' + i - 1 < Ring THEN head' + i - 1
                       ELSE head' + i - 1 - Ring
           IN slot \in Slots /\ Contents'[i] = buffer[slot]
  BY <1>1, <1>7, <1>8, HeldType
<1>10. string' = SubSeq(Contents, 1, k)
  <2>1. /\ string' \in Seq(Bytes) /\ Len(string') = k
        /\ \A i \in 1 .. k :
             LET slot == IF head + i - 1 < Ring THEN head + i - 1
                         ELSE head + i - 1 - Ring
             IN slot \in Slots /\ string'[i] = buffer[slot]
    BY <1>1, <1>3, <1>5, HeldType
  <2>2. /\ SubSeq(Contents, 1, k) \in Seq(Bytes) /\ Len(SubSeq(Contents, 1, k)) = k
        /\ \A i \in 1 .. k : SubSeq(Contents, 1, k)[i] = Contents[i]
    BY <1>2, <1>4
  <2>3. ASSUME NEW i \in 1 .. k PROVE string'[i] = SubSeq(Contents, 1, k)[i]
    <3>1. i \in 1 .. occ
      BY <1>2
    <3>. QED  BY <1>4, <2>1, <2>2, <3>1
  <2>. QED  BY <2>1, <2>2, <2>3, SeqEqual
<1>11. Contents' = SubSeq(Contents, k + 1, Len(Contents))
  <2>. DEFINE rest == SubSeq(Contents, k + 1, occ)
  <2>1. /\ rest \in Seq(Bytes) /\ Len(rest) = occ - k
        /\ \A i \in 1 .. occ - k : rest[i] = Contents[k + i]
    BY <1>2, <1>4
  <2>. HIDE DEF rest
  <2>2. ASSUME NEW i \in 1 .. occ - k PROVE Contents'[i] = rest[i]
    <3>1. k + i \in 1 .. occ
      BY <1>2
    <3>2. (IF head' + i - 1 < Ring THEN head' + i - 1 ELSE head' + i - 1 - Ring)
            = (IF head + (k + i) - 1 < Ring THEN head + (k + i) - 1
               ELSE head + (k + i) - 1 - Ring)
      BY <1>1, <1>2, <1>6, <1>7 DEF Ring, Slots
    <3>3. Contents'[i] = Contents[k + i]
      BY <1>3, <1>4, <1>9, <3>1, <3>2
    <3>. QED  BY <2>1, <3>3
  <2>3. Contents' = rest
    BY <1>3, <1>9, <2>1, <2>2, SeqEqual
  <2>. QED  BY <1>4, <2>3 DEF rest
<1>. QED  BY <1>4, <1>10, <1>11 DEF BQ!Take, BQ!Smaller, Fewer, k

\* file_buf_init empties the queue.
LEMMA ResetIsClear ==
    ASSUME RingOK, FileBufReset
    PROVE  BQ!Clear
<1>1. occ' = 0 /\ string' = string
  BY DEF FileBufReset
<1>2. Contents' = << >>
  BY <1>1 DEF Contents
<1>. QED  BY <1>1, <1>2 DEF BQ!Clear

\* The ring is a bounded queue of bytes, whatever its size: what comes out is
\* what went in, in order, cut where the buffer was full (host.c:86-118).
THEOREM RingIsQueue == FileBufSpec => ImplementsByteQueue
<1>1. FileBufInit => BQ!Init
  BY DEF FileBufInit, BQ!Init, Contents
<1>2. ASSUME RingOK, RingOK', [FileBufNext]_bufVars
      PROVE  [BQ!Next]_<<Contents, string>>
  <2>1. CASE FileBufReset
    BY <1>2, <2>1, ResetIsClear DEF BQ!Next
  <2>2. ASSUME NEW s \in Strings, FileBufAdd(s) PROVE BQ!Next
    BY <1>2, <2>2, AddIsPut DEF BQ!Next
  <2>3. ASSUME NEW n \in Lengths, FileBufRemove(n) PROVE BQ!Next
    BY <1>2, <2>3, RemoveIsTake DEF BQ!Next
  <2>4. CASE UNCHANGED bufVars
    BY <2>4 DEF bufVars, Contents
  <2>. QED  BY <1>2, <2>1, <2>2, <2>3, <2>4 DEF FileBufNext
<1>. QED  BY <1>1, <1>2, RingCorrect, PTL DEF FileBufSpec, ImplementsByteQueue, BQ!Spec

-----------------------------------------------------------------------------
(* The job queue.                                                          *)

\* The list that job_q_init makes, whatever malloc leaves in the jobs.
LEMMA ListInit == JobQueueInit => ListIsQueue
BY EmptySeq DEF JobQueueInit, ListIsQueue

\* job_q_add puts a job behind the last.
LEMMA ListAdd ==
    ASSUME ListIsQueue, NEW c \in Cells, JobQueueAdd(c)
    PROVE  ListIsQueue'
<1>. DEFINE n == Len(jobs)
<1>1. /\ jobs \in Seq(Cells) /\ n \in Nat /\ qocc = n
      /\ next \in [Cells -> Cells \cup {NULL}]
  BY DEF ListIsQueue
<1>2. /\ jobs' = Append(jobs, c) /\ jobs' \in Seq(Cells) /\ Len(jobs') = n + 1
      /\ \A i \in 1 .. n : jobs'[i] = jobs[i] /\ jobs[i] \in Cells
      /\ jobs'[n + 1] = c
  BY <1>1, AppendProperties, ElementOfSeq DEF JobQueueAdd
<1>3. \A i \in 1 .. n : jobs[i] # c
  BY <1>1 DEF JobQueueAdd, Range
<1>4. n = 0 <=> jobs = << >>
  BY <1>1, EmptySeq
<1>. HIDE DEF n
<1>5. \A i, j \in DOMAIN jobs' : jobs'[i] = jobs'[j] => i = j
  <2>1. DOMAIN jobs' = 1 .. n + 1 /\ DOMAIN jobs = 1 .. n
    BY <1>1, <1>2, LenProperties DEF n
  <2>2. \A i, j \in 1 .. n : jobs[i] = jobs[j] => i = j
    BY <2>1 DEF ListIsQueue
  <2>3. \A i \in 1 .. n + 1 : i \in 1 .. n \/ i = n + 1
    BY <1>1
  <2>. QED  BY <1>2, <1>3, <2>1, <2>2, <2>3
<1>6. CASE n = 0
  <2>1. qhead = NULL
    BY <1>4, <1>6 DEF ListIsQueue
  <2>2. /\ qhead' = c /\ qtail' = c /\ qocc' = 1
        /\ next' = [next EXCEPT ![c] = NULL]
    BY <2>1 DEF JobQueueAdd
  <2>. QED  BY <1>1, <1>2, <1>5, <1>6, <2>2 DEF ListIsQueue
<1>7. CASE n # 0
  <2>1. /\ qhead = jobs[1] /\ qtail = jobs[n] /\ next[qtail] = NULL
        /\ \A i \in 1 .. n - 1 : next[jobs[i]] = jobs[i + 1]
    BY <1>4, <1>7 DEF ListIsQueue, n
  <2>2. 1 \in 1 .. n /\ n \in 1 .. n
    BY <1>1, <1>7
  <2>3. qhead # NULL /\ qtail \in Cells /\ qtail # c
    BY <1>2, <1>3, <2>1, <2>2, JobQueueAssumption
  <2>4. /\ next' = [next EXCEPT ![qtail] = c, ![c] = NULL]
        /\ qocc' = qocc + 1 /\ qhead' = qhead /\ qtail' = c
    BY <2>3 DEF JobQueueAdd
  <2>5. /\ next' \in [Cells -> Cells \cup {NULL}]
        /\ next'[c] = NULL /\ next'[qtail] = c
        /\ \A d \in Cells \ {c, qtail} : next'[d] = next[d]
    BY <1>1, <2>3, <2>4
  <2>6. ASSUME NEW i \in 1 .. n PROVE next'[jobs'[i]] = jobs'[i + 1]
    <3>1. CASE i = n
      BY <1>2, <2>1, <2>2, <2>5, <3>1
    <3>2. CASE i # n
      <4>1. i \in 1 .. n - 1 /\ i + 1 \in 1 .. n
        BY <1>1, <3>2
      <4>2. jobs[i] # qtail
        <5>1. DOMAIN jobs = 1 .. n
          BY <1>1, LenProperties DEF n
        <5>. QED  BY <2>1, <2>2, <3>2, <5>1 DEF ListIsQueue
      <4>3. jobs[i] \in Cells \ {c, qtail}
        BY <1>2, <1>3, <4>2
      <4>4. next'[jobs[i]] = next[jobs[i]]
        BY <2>5, <4>3
      <4>5. jobs'[i] = jobs[i] /\ jobs'[i + 1] = jobs[i + 1]
        BY <1>2, <4>1
      <4>. QED  BY <2>1, <4>1, <4>4, <4>5
    <3>. QED  BY <3>1, <3>2
  <2>7. qocc' = Len(jobs') /\ jobs' # << >> /\ qhead' = jobs'[1] /\ qtail' = jobs'[Len(jobs')]
    BY <1>1, <1>2, <2>1, <2>2, <2>4
  <2>8. \A i \in 1 .. Len(jobs') - 1 : next'[jobs'[i]] = jobs'[i + 1]
    BY <1>1, <1>2, <2>6
  <2>. QED  BY <1>2, <1>5, <2>4, <2>5, <2>7, <2>8 DEF ListIsQueue
<1>. QED  BY <1>6, <1>7

\* job_q_remove takes the first job out, and leaves NULL at head when it was the
\* only one.
LEMMA ListRemove ==
    ASSUME ListIsQueue, JobQueueRemove
    PROVE  ListIsQueue'
<1>. DEFINE n == Len(jobs)
<1>1. /\ jobs \in Seq(Cells) /\ n \in Nat /\ qocc = n /\ n > 0
      /\ next \in [Cells -> Cells \cup {NULL}]
  BY DEF ListIsQueue, JobQueueRemove
<1>2. jobs # << >>
  BY <1>1, EmptySeq
<1>3. /\ jobs' = Tail(jobs) /\ jobs' \in Seq(Cells) /\ Len(jobs') = n - 1
      /\ \A i \in 1 .. n - 1 : jobs'[i] = jobs[i + 1]
  BY <1>1, <1>2, HeadTailProperties DEF JobQueueRemove
<1>4. /\ qhead = jobs[1] /\ qtail = jobs[n] /\ next[qtail] = NULL
      /\ \A i \in 1 .. n - 1 : next[jobs[i]] = jobs[i + 1]
  BY <1>2 DEF ListIsQueue
<1>5. qhead' = next[jobs[1]] /\ qocc' = n - 1 /\ next' = next /\ qtail' = qtail
  BY <1>1, <1>4 DEF JobQueueRemove
<1>6. DOMAIN jobs = 1 .. n /\ DOMAIN jobs' = 1 .. n - 1
  BY <1>1, <1>3, LenProperties
<1>. HIDE DEF n
<1>7. \A i, j \in DOMAIN jobs' : jobs'[i] = jobs'[j] => i = j
  <2>1. ASSUME NEW i \in 1 .. n - 1, NEW j \in 1 .. n - 1, jobs'[i] = jobs'[j]
        PROVE  i = j
    <3>1. i + 1 \in 1 .. n /\ j + 1 \in 1 .. n /\ jobs[i + 1] = jobs[j + 1]
      BY <1>1, <1>3, <2>1
    <3>2. i + 1 = j + 1
      BY <1>6, <3>1 DEF ListIsQueue
    <3>. QED  BY <1>1, <3>2
  <2>. QED  BY <1>6, <2>1
<1>8. CASE n = 1
  BY <1>1, <1>3, <1>4, <1>5, <1>7, <1>8, EmptySeq DEF ListIsQueue
<1>9. CASE n # 1
  <2>1. 1 \in 1 .. n - 1 /\ n - 1 \in 1 .. n - 1 /\ n - 1 # 0
    BY <1>1, <1>9
  <2>2. jobs' # << >> /\ qhead' = jobs'[1] /\ qtail' = jobs'[n - 1]
    <3>1. jobs' # << >>
      BY <1>3, <2>1, EmptySeq
    <3>2. next[jobs[1]] = jobs[1 + 1] /\ jobs'[1] = jobs[1 + 1]
      BY <1>3, <1>4, <2>1
    <3>3. jobs'[n - 1] = jobs[n - 1 + 1] /\ n - 1 + 1 = n
      BY <1>1, <1>3, <2>1
    <3>. QED  BY <1>4, <1>5, <3>1, <3>2, <3>3
  <2>3. \A i \in 1 .. n - 2 : next'[jobs'[i]] = jobs'[i + 1]
    <3>1. ASSUME NEW i \in 1 .. n - 2 PROVE next'[jobs'[i]] = jobs'[i + 1]
      <4>1. i \in 1 .. n - 1 /\ i + 1 \in 1 .. n - 1
        BY <1>1, <3>1
      <4>2. jobs'[i] = jobs[i + 1] /\ jobs'[i + 1] = jobs[(i + 1) + 1]
        BY <1>3, <4>1
      <4>3. next[jobs[i + 1]] = jobs[(i + 1) + 1]
        BY <1>4, <4>1
      <4>. QED  BY <1>5, <4>2, <4>3
    <3>. QED  BY <3>1
  <2>4. \A i \in 1 .. Len(jobs') - 1 : next'[jobs'[i]] = jobs'[i + 1]
    <3>1. Len(jobs') - 1 = n - 2
      BY <1>1, <1>3
    <3>. QED  BY <2>3, <3>1
  <2>. QED  BY <1>1, <1>3, <1>4, <1>5, <1>7, <2>2, <2>4 DEF ListIsQueue
<1>. QED  BY <1>8, <1>9

\* Every step keeps the list a queue.
LEMMA ListStep == ListIsQueue /\ [JobQueueNext]_queueVars => ListIsQueue'
<1>1. ASSUME ListIsQueue, UNCHANGED queueVars PROVE ListIsQueue'
  BY <1>1 DEF queueVars, ListIsQueue
<1>. QED  BY <1>1, ListAdd, ListRemove DEF JobQueueNext

\* The linked list of jobs is a queue, although removing the last job leaves
\* tail pointing to it and malloc clears no pointer: no job is lost, none is run
\* that was not added, and the counter that job_q_remove goes by and the pointer
\* that job_q_add goes by agree on when it is empty (host.c:175-214).
THEOREM ListCorrect == JobQueueSpec => []ListIsQueue
BY ListInit, ListStep, PTL DEF JobQueueSpec

=============================================================================
