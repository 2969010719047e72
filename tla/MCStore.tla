------------------------------ MODULE MCStore -------------------------------
(***************************************************************************)
(* A host's file buffer and its job queue, used one at a time.             *)
(***************************************************************************)
EXTENDS FileBuf, JobQueue

MCBytes == {1, 2}
MCStrings == {<<1>>, <<1, 2>>, <<2, 1, 1, 2>>}
MCLengths == {1, 2}

Init == FileBufInit /\ JobQueueInit

Spec ==
    /\ Init
    /\ [][\/ FileBufNext /\ UNCHANGED queueVars
          \/ JobQueueNext /\ UNCHANGED bufVars]_<<bufVars, queueVars>>

=============================================================================
