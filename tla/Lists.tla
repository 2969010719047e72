------------------------------- MODULE Lists --------------------------------
(***************************************************************************)
(* Two ways to make a sequence out of others that the modules share.       *)
(***************************************************************************)
EXTENDS Sequences, SequencesExt

\* The list that a loop makes which puts each of the pieces, in turn, at the
\* head of what it has.
InsertAll(pieces) == FoldLeft(LAMBDA list, piece : piece \o list, << >>, pieces)

\* The elements of s that are in T, in their order: SelectSeq, written so that
\* the provers can unfold it.
Chosen(s, T) == FlattenSeq([k \in DOMAIN s |-> IF s[k] \in T THEN <<s[k]>> ELSE << >>])

=============================================================================
