----------------------------- MODULE PrintQueue -----------------------------
(***************************************************************************)
(* The print spooler of cw08/assignment/main.c: N_USERS user processes and *)
(* M_PRINTERS printer processes share a ring of QUEUE_SIZE job slots in    *)
(* POSIX shared memory, guarded by three named semaphores.                 *)
(*                                                                         *)
(* Every call of enqueue_job and dequeue_job is cut at each semaphore      *)
(* operation and at each write to the shared ring, because a process may   *)
(* be preempted, or killed, between any two of them.  A job is a model     *)
(* value: its ten random letters are never looked at by the program.       *)
(***************************************************************************)
EXTENDS Naturals, FiniteSets, Sequences

CONSTANTS
    Users,          \* the user processes
    Printers,       \* the printer processes
    QUEUE_SIZE,     \* slots of the ring
    Jobs,           \* what a user may send
    NoJob           \* content of a slot or buffer nobody has written

ASSUME QueueAssumption ==
    /\ QUEUE_SIZE \in Nat \ {0}
    /\ IsFiniteSet(Users) /\ IsFiniteSet(Printers)
    /\ Users \cap Printers = {}
    /\ NoJob \notin Jobs

VARIABLES
    jobs, head, tail,                   \* JobQueue *queue, in shared memory
    sem_mutex, sem_full, sem_empty,     \* the named semaphores' values
    pc,                                 \* where each process is
    job                                 \* each process's local job buffer

ring == <<jobs, head, tail>>
sems == <<sem_mutex, sem_full, sem_empty>>
vars == <<jobs, head, tail, sem_mutex, sem_full, sem_empty, pc, job>>

Processes == Users \cup Printers
Slots == 0 .. QUEUE_SIZE - 1

UserPC == {"idle", "wait_empty", "lock", "copy", "advance", "unlock", "post_full"}
PrinterPC == {"wait_full", "lock", "copy", "advance", "unlock", "post_empty", "print"}

(***************************************************************************)
(* The semaphore operations and the ring index.                            *)
(***************************************************************************)
SemWait(sem) == sem > 0 /\ sem' = sem - 1
SemPost(sem) == sem' = sem + 1

\* Mutant: the index does not wrap.
NextIndex_NoWrap(i) == i + 1

NextIndex(i) == (i + 1) % QUEUE_SIZE

Step(p, from, to) == pc[p] = from /\ pc' = [pc EXCEPT ![p] = to]

-----------------------------------------------------------------------------
(***************************************************************************)
(* main() maps the segment, resets head and tail, and opens the semaphores *)
(* with O_CREAT: the initial values are used only when they do not exist.  *)
(***************************************************************************)
StartPC == [p \in Processes |-> IF p \in Users THEN "idle" ELSE "wait_full"]

Init ==
    /\ jobs = [i \in Slots |-> NoJob]
    /\ head = 0 /\ tail = 0
    /\ sem_mutex = 1 /\ sem_full = 0 /\ sem_empty = QUEUE_SIZE
    /\ pc = StartPC
    /\ job = [p \in Processes |-> NoJob]

\* user_process: make up a job.
MakeJob(u) ==
    /\ Step(u, "idle", "wait_empty")
    /\ \E j \in Jobs : job' = [job EXCEPT ![u] = j]
    /\ UNCHANGED <<ring, sems>>

\* Mutant: the room check is forgotten.
EnqueueWait_NoRoomCheck(u) ==
    /\ Step(u, "wait_empty", "lock")
    /\ sem_empty' = IF sem_empty > 0 THEN sem_empty - 1 ELSE 0
    /\ UNCHANGED <<ring, sem_mutex, sem_full, job>>

\* enqueue_job: sem_wait(sem_empty)
EnqueueWait(u) ==
    /\ Step(u, "wait_empty", "lock")
    /\ SemWait(sem_empty)
    /\ UNCHANGED <<ring, sem_mutex, sem_full, job>>

\* enqueue_job: sem_wait(sem_mutex)
EnqueueLock(u) ==
    /\ Step(u, "lock", "copy")
    /\ SemWait(sem_mutex)
    /\ UNCHANGED <<ring, sem_full, sem_empty, job>>

\* enqueue_job: strcpy(queue->jobs[queue->tail], job)
EnqueueCopy(u) ==
    /\ Step(u, "copy", "advance")
    /\ jobs' = [jobs EXCEPT ![tail] = job[u]]
    /\ UNCHANGED <<head, tail, sems, job>>

\* enqueue_job: queue->tail = (queue->tail + 1) % QUEUE_SIZE
EnqueueAdvance(u) ==
    /\ Step(u, "advance", "unlock")
    /\ tail' = NextIndex(tail)
    /\ UNCHANGED <<jobs, head, sems, job>>

\* enqueue_job: sem_post(sem_mutex)
EnqueueUnlock(u) ==
    /\ Step(u, "unlock", "post_full")
    /\ SemPost(sem_mutex)
    /\ UNCHANGED <<ring, sem_full, sem_empty, job>>

\* Mutant: the waiting printers are never told about the job.
EnqueuePost_Forgotten(u) ==
    /\ Step(u, "post_full", "idle")
    /\ UNCHANGED <<ring, sems, job>>

\* enqueue_job: sem_post(sem_full); user_process then sleeps.
EnqueuePost(u) ==
    /\ Step(u, "post_full", "idle")
    /\ SemPost(sem_full)
    /\ UNCHANGED <<ring, sem_mutex, sem_empty, job>>

\* dequeue_job: sem_wait(sem_full)
DequeueWait(p) ==
    /\ Step(p, "wait_full", "lock")
    /\ SemWait(sem_full)
    /\ UNCHANGED <<ring, sem_mutex, sem_empty, job>>

\* Mutant: the printer reads the ring without taking sem_mutex.
DequeueLock_NoLock(p) ==
    /\ Step(p, "lock", "copy")
    /\ UNCHANGED <<ring, sems, job>>

\* dequeue_job: sem_wait(sem_mutex)
DequeueLock(p) ==
    /\ Step(p, "lock", "copy")
    /\ SemWait(sem_mutex)
    /\ UNCHANGED <<ring, sem_full, sem_empty, job>>

\* dequeue_job: strcpy(job_buf, queue->jobs[queue->head])
DequeueCopy(p) ==
    /\ Step(p, "copy", "advance")
    /\ job' = [job EXCEPT ![p] = jobs[head]]
    /\ UNCHANGED <<ring, sems>>

\* dequeue_job: queue->head = (queue->head + 1) % QUEUE_SIZE
DequeueAdvance(p) ==
    /\ Step(p, "advance", "unlock")
    /\ head' = NextIndex(head)
    /\ UNCHANGED <<jobs, tail, sems, job>>

\* dequeue_job: sem_post(sem_mutex)
DequeueUnlock(p) ==
    /\ Step(p, "unlock", "post_empty")
    /\ SemPost(sem_mutex)
    /\ UNCHANGED <<ring, sem_full, sem_empty, job>>

\* dequeue_job: sem_post(sem_empty)
DequeuePost(p) ==
    /\ Step(p, "post_empty", "print")
    /\ SemPost(sem_empty)
    /\ UNCHANGED <<ring, sem_mutex, sem_full, job>>

\* printer_process: print the letters, one a second, and come back.
PrintJob(p) ==
    /\ Step(p, "print", "wait_full")
    /\ UNCHANGED <<ring, sems, job>>

User(u) ==
    \/ MakeJob(u) \/ EnqueueWait(u) \/ EnqueueLock(u) \/ EnqueueCopy(u)
    \/ EnqueueAdvance(u) \/ EnqueueUnlock(u) \/ EnqueuePost(u)

Printer(p) ==
    \/ DequeueWait(p) \/ DequeueLock(p) \/ DequeueCopy(p) \/ DequeueAdvance(p)
    \/ DequeueUnlock(p) \/ DequeuePost(p) \/ PrintJob(p)

Next ==
    \/ \E u \in Users : User(u)
    \/ \E p \in Printers : Printer(p)

Spec == Init /\ [][Next]_vars

(***************************************************************************)
(* Nothing in the code ends these loops, so main never reaches its         *)
(* sem_unlink and shm_unlink calls: the program is stopped by a signal to  *)
(* its process group, and started again it finds the semaphores with the   *)
(* values they had and the segment with its old content.  main resets head *)
(* and tail only.                                                          *)
(***************************************************************************)
\* Mutant: sem_empty is opened afresh while sem_full keeps its value.
KillAndRestart_FreshEmpty ==
    /\ head' = 0 /\ tail' = 0
    /\ pc' = StartPC
    /\ job' = [p \in Processes |-> NoJob]
    /\ sem_empty' = QUEUE_SIZE
    /\ UNCHANGED <<jobs, sem_mutex, sem_full>>

KillAndRestart ==
    /\ head' = 0 /\ tail' = 0
    /\ pc' = StartPC
    /\ job' = [p \in Processes |-> NoJob]
    /\ UNCHANGED <<jobs, sems>>

KillNext == Next \/ KillAndRestart
KillSpec == Init /\ [][KillNext]_vars

(***************************************************************************)
(* Scheduling: a runnable process runs eventually.  No fairness among the  *)
(* waiters of one semaphore is assumed, because sem_wait promises none.    *)
(***************************************************************************)
Fairness ==
    /\ \A u \in Users : WF_vars(User(u))
    /\ \A p \in Printers : WF_vars(Printer(p))

FairSpec == Spec /\ Fairness

-----------------------------------------------------------------------------
(***************************************************************************)
(* Properties.                                                             *)
(***************************************************************************)
\* Indices stay in the ring, semaphores do not go below zero, every process is at
\* a statement of its own loop and copies jobs only.
TypeOK ==
    /\ jobs \in [Slots -> Jobs \cup {NoJob}]
    /\ head \in Slots /\ tail \in Slots
    /\ sem_mutex \in Nat /\ sem_full \in Nat /\ sem_empty \in Nat
    /\ pc \in [Processes -> UserPC \cup PrinterPC]
    /\ \A u \in Users : pc[u] \in UserPC
    /\ \A p \in Printers : pc[p] \in PrinterPC
    /\ job \in [Processes -> Jobs \cup {NoJob}]

\* Holding sem_mutex: between its sem_wait and its sem_post.
InCriticalSection(p) == pc[p] \in {"copy", "advance", "unlock"}

\* Between the first sem_wait of a call and its last sem_post: the process
\* holds one token, taken from sem_empty or sem_full and not yet posted.
HoldsToken(p) ==
    pc[p] \in {"lock", "copy", "advance", "unlock", "post_full", "post_empty"}

TokenHolders == {p \in Processes : HoldsToken(p)}

Tokens == sem_empty + sem_full + Cardinality(TokenHolders)

\* Two processes are never both inside the part of enqueue_job and dequeue_job
\* that touches the ring, whatever the order of their semaphore calls; this
\* survives any number of kills.
MutualExclusion ==
    \A p, q \in Processes :
        InCriticalSection(p) /\ InCriticalSection(q) => p = q

\* Each slot is accounted for exactly once: it is free (sem_empty), it holds a
\* job (sem_full), or one process is in the middle of filling or emptying it.
TokenConservation == Tokens = QUEUE_SIZE

\* The number of tokens never grows: a kill loses those of the killed processes for
\* good, since sem_open finds the semaphores of the runs before (main.c:84-86), and no
\* restart makes up for them.  It says nothing of which slot a token stands for: head
\* and tail are reset (main.c:87), so after a kill a printer and a user can
\* each hold a token and come to the same slot.
TokensOnlyLost == [][Tokens' <= Tokens]_vars

\* A kill inside the critical section leaves sem_mutex at 0 with no holder.
MutexLost == sem_mutex = 0 /\ \A p \in Processes : ~InCriticalSection(p)

\* Nothing the program does, restarting included, repairs a mutex lost by a
\* kill: from then on no process ever touches the ring.
LostMutexStaysLost == [][MutexLost => MutexLost']_vars

\* The jobs in the ring, oldest first.  Their number is not stored anywhere: it
\* is what sem_full says, plus the jobs whose writer has not yet posted
\* sem_full, plus the jobs whose reader took a token and has not moved head.
Announcing == {u \in Users : pc[u] \in {"unlock", "post_full"}}
Fetching == {p \in Printers : pc[p] \in {"lock", "copy", "advance"}}
Count == sem_full + Cardinality(Announcing) + Cardinality(Fetching)
Queue == [i \in 1 .. Count |-> jobs[(head + i - 1) % QUEUE_SIZE]]

\* The spooler implements the bounded FIFO of JobFifo: a job is in the queue
\* from the step that moves tail to the step that moves head.
Fifo == INSTANCE JobFifo WITH
    fifo <- Queue,
    sending <- [u \in Users |->
        IF pc[u] \in {"wait_empty", "lock", "copy", "advance"} THEN job[u] ELSE NoJob],
    printing <- [p \in Printers |->
        IF pc[p] \in {"unlock", "post_empty", "print"} THEN job[p] ELSE NoJob]

\* Every behaviour of the spooler is a behaviour of the FIFO queue: jobs are
\* printed once each, in the order in which they were enqueued, and never more
\* than QUEUE_SIZE of them wait.
ImplementsFifo == Fifo!Spec

\* Every job that got into the ring comes out of a printer, although the
\* semaphores give no waiter precedence over another.
EveryJobPrinted ==
    \A j \in Jobs :
        (\E i \in DOMAIN Queue : Queue[i] = j)
            ~> (\E p \in Printers : pc[p] = "print" /\ job[p] = j)

=============================================================================
