------------------------------ MODULE JobFifo ------------------------------
(***************************************************************************)
(* What the print spooler of cw08 promises: a bounded first-in first-out   *)
(* queue of print jobs.  A user submits a job, the job enters the queue at *)
(* the back when there is room, a printer takes the job at the front and   *)
(* prints it once.  Nothing is lost, duplicated, reordered or overwritten. *)
(***************************************************************************)
EXTENDS Naturals, Sequences

CONSTANTS Users, Printers, Jobs, NoJob, QUEUE_SIZE

VARIABLES
    fifo,       \* the accepted jobs, oldest first
    sending,    \* per user: the job it is trying to enqueue, or NoJob
    printing    \* per printer: the job it took and has not printed, or NoJob

absVars == <<fifo, sending, printing>>

Init ==
    /\ fifo = <<>>
    /\ sending = [u \in Users |-> NoJob]
    /\ printing = [p \in Printers |-> NoJob]

\* A user makes a new job.
Submit(u) ==
    /\ sending[u] = NoJob
    /\ \E j \in Jobs : sending' = [sending EXCEPT ![u] = j]
    /\ UNCHANGED <<fifo, printing>>

\* The user's job is accepted, behind every job accepted before it.
Put(u) ==
    /\ sending[u] # NoJob
    /\ Len(fifo) < QUEUE_SIZE
    /\ fifo' = Append(fifo, sending[u])
    /\ sending' = [sending EXCEPT ![u] = NoJob]
    /\ UNCHANGED printing

\* A printer with nothing in hand takes the oldest accepted job.
Take(p) ==
    /\ printing[p] = NoJob
    /\ fifo # <<>>
    /\ printing' = [printing EXCEPT ![p] = Head(fifo)]
    /\ fifo' = Tail(fifo)
    /\ UNCHANGED sending

\* The printer has printed the job in its hand.
Finish(p) ==
    /\ printing[p] # NoJob
    /\ printing' = [printing EXCEPT ![p] = NoJob]
    /\ UNCHANGED <<fifo, sending>>

Next ==
    \/ \E u \in Users : Submit(u) \/ Put(u)
    \/ \E p \in Printers : Take(p) \/ Finish(p)

Spec == Init /\ [][Next]_absVars

=============================================================================
