------------------------------ MODULE JobQueue ------------------------------
(***************************************************************************)
(* The job queue of a host (host.c, struct job_queue): a linked list of    *)
(* jobs with its ends and its length.  Removing the last job leaves tail   *)
(* pointing to it, although the host frees it or adds it again at once.    *)
(***************************************************************************)
EXTENDS Integers, Sequences, Functions

CONSTANTS
    Cells,   \* the places in memory that malloc gives for a job
    NULL

VARIABLES
    next,              \* next[c]: the pointer in the job at c
    qhead, qtail, qocc,
    jobs               \* the jobs in the order they were added: Host's jobs[h]

queueVars == <<next, qhead, qtail, qocc, jobs>>

ASSUME JobQueueAssumption == NULL \notin Cells

-----------------------------------------------------------------------------
\* malloc does not clear the pointer in a job.
JobQueueInit ==
    /\ next \in [Cells -> Cells \cup {NULL}]
    /\ qocc = 0 /\ qhead = NULL /\ qtail = NULL
    /\ jobs = << >>

\* Mutant of JobQueueAdd: the job's pointer is left as it is.
JobQueueAddOpen(c) ==
    /\ c \notin Range(jobs)
    /\ IF qhead = NULL
       THEN qhead' = c /\ qocc' = 1 /\ UNCHANGED next
       ELSE next' = [next EXCEPT ![qtail] = c] /\ qocc' = qocc + 1 /\ UNCHANGED qhead
    /\ qtail' = c
    /\ jobs' = Append(jobs, c)

\* job_q_add of a job that is not in the queue: a new one, one at a place that has
\* been freed, or the waiting job that was just removed.
JobQueueAdd(c) ==
    /\ c \notin Range(jobs)
    /\ IF qhead = NULL
       THEN qhead' = c /\ qocc' = 1 /\ next' = [next EXCEPT ![c] = NULL]
       ELSE /\ next' = [next EXCEPT ![qtail] = c, ![c] = NULL]
            /\ qocc' = qocc + 1
            /\ UNCHANGED qhead
    /\ qtail' = c
    /\ jobs' = Append(jobs, c)

\* job_q_remove of the job at head, with the test of job_q_num before it.
JobQueueRemove ==
    /\ qocc > 0
    /\ qhead' = next[qhead]
    /\ qocc' = qocc - 1
    /\ jobs' = Tail(jobs)
    /\ UNCHANGED <<next, qtail>>

JobQueueNext == (\E c \in Cells : JobQueueAdd(c)) \/ JobQueueRemove

JobQueueSpec == JobQueueInit /\ [][JobQueueNext]_queueVars

-----------------------------------------------------------------------------
\* The list is the queue: it starts at head, ends at tail, has occ jobs, and is
\* empty for job_q_add (head is NULL) when it is empty for job_q_remove (occ is
\* 0) (host.c:175-214).
ListIsQueue ==
    /\ jobs \in Seq(Cells)
    /\ \A i, j \in DOMAIN jobs : jobs[i] = jobs[j] => i = j
    /\ next \in [Cells -> Cells \cup {NULL}]
    /\ qocc = Len(jobs)
    /\ jobs = << >> => qhead = NULL
    /\ jobs # << >> =>
         /\ qhead = jobs[1]
         /\ qtail = jobs[Len(jobs)]
         /\ next[qtail] = NULL
         /\ \A i \in 1 .. Len(jobs) - 1 : next[jobs[i]] = jobs[i + 1]

=============================================================================
