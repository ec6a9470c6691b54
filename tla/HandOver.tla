------------------------------ MODULE HandOver ------------------------------
(***************************************************************************)
(* The four pairs sender.c and receiver.c of Funkcje: a sender hands a     *)
(* number to a receiver through a kernel object that both find by a fixed  *)
(* name or key.  They differ in the object: a queue (KolKom POSIX: "mq",   *)
(* KolKom SysV: "msg") or a memory (PamiecWsp POSIX: "shm", PamiecWsp      *)
(* SysV: "shmSysV"), and in who removes it.                                *)
(*                                                                         *)
(* The receiver's sleep(1) orders nothing for sure, so it is not modelled. *)
(* An object is called by the process that made it, and the number of a    *)
(* sender by the sender.                                                   *)
(***************************************************************************)
EXTENDS Naturals, Sequences, FiniteSets

CONSTANTS
    Senders, Receivers,
    Nobody,
    Zero            \* what a memory holds before a write

ASSUME HandOverAssumption ==
    /\ Senders \cap Receivers = {} /\ Nobody \notin Senders \cup Receivers
    /\ Zero \notin Senders \cup {Nobody}

VARIABLES
    ipc,            \* which of the four pairs
    boundTo,        \* the object that has the name or key, or Nobody
    content,        \* a queue's messages; a memory's word, <<>> if it has size 0
    removed,        \* the objects marked with IPC_RMID
    at,             \* where each process is
    object,         \* the object each process found
    result,         \* the number each receiver prints
    sight           \* history: what each receiver found in its memory

overVars == <<ipc, boundTo, content, removed, at, object, result, sight>>

Procs == Senders \cup Receivers
IsQueue == ipc \in {"mq", "msg"}

OverInit ==
    /\ ipc \in {"mq", "msg", "shm", "shmSysV"}
    /\ boundTo = Nobody /\ removed = {}
    /\ content = [p \in Procs |-> <<>>]
    /\ at = [p \in Procs |-> "start"]
    /\ object = [p \in Procs |-> Nobody]
    /\ result = [r \in Receivers |-> Nobody]
    /\ sight = [r \in Receivers |-> <<>>]

Move(p, from, to) == at[p] = from /\ at' = [at EXCEPT ![p] = to]
Fill(o, c) == content' = [content EXCEPT ![o] = c]

Find(p, o) ==
    /\ object' = [object EXCEPT ![p] = o]
    /\ sight' = [r \in Receivers |-> IF r = p /\ ~IsQueue THEN content[o] ELSE sight[r]]

\* mq_open, msgget, shm_open and shmget, with the flag that makes a new object if
\* there is none; the size of a System V memory is set as it is made.
OpenOrMake(p) ==
    LET o == IF boundTo = Nobody THEN p ELSE boundTo IN
        /\ Move(p, "start", "opened")
        /\ boundTo' = o /\ Find(p, o)
        /\ IF o = p /\ ipc = "shmSysV" THEN Fill(p, <<Zero>>) ELSE UNCHANGED content
        /\ UNCHANGED <<ipc, removed, result>>

\* Without it, as the receivers look for a memory.
OpenOnly(r) ==
    /\ IF boundTo = Nobody
       THEN Move(r, "start", "failed") /\ UNCHANGED <<object, sight>>
       ELSE Move(r, "start", "opened") /\ Find(r, boundTo)
    /\ UNCHANGED <<ipc, boundTo, content, removed, result>>

Open(p) == IF p \in Senders \/ IsQueue THEN OpenOrMake(p) ELSE OpenOnly(p)

\* A removed System V memory is destroyed when nobody has it attached.
Destroyed(o) ==
    o \in removed /\ ~\E p \in Procs : object[p] = o /\ at[p] \in {"mapped", "used"}

\* Mutant: ftruncate sets the word to zero.
Resized_Emptied(c) == <<Zero>>

\* ftruncate
Resized(c) == IF c = <<>> THEN <<Zero>> ELSE c

\* The sender's ftruncate and mmap, the receiver's mmap; or shmat.
MapMemory(p) ==
    /\ ~IsQueue
    /\ Move(p, "opened", IF Destroyed(object[p]) THEN "failed" ELSE "mapped")
    /\ IF p \in Senders /\ ipc = "shm"
       THEN Fill(object[p], Resized(content[object[p]])) ELSE UNCHANGED content
    /\ UNCHANGED <<ipc, boundTo, removed, object, result, sight>>

Before == IF IsQueue THEN "opened" ELSE "mapped"
QueueGone(p) == IsQueue /\ object[p] \in removed

\* mq_send, msgsnd, or the write to the memory.
Put(s) ==
    /\ Move(s, Before, IF QueueGone(s) THEN "failed" ELSE "used")
    /\ IF QueueGone(s) THEN UNCHANGED content
       ELSE Fill(object[s], IF IsQueue THEN Append(content[object[s]], s) ELSE <<s>>)
    /\ UNCHANGED <<ipc, boundTo, removed, object, result, sight>>

\* Mutant: the message stays in the queue.
Rest_Same(c) == c

\* What the receiver leaves behind.
Rest(c) == IF IsQueue THEN Tail(c) ELSE c

\* mq_receive, msgrcv, or the read of the memory.
Take(r) ==
    LET o == object[r] IN
        /\ Move(r, Before, "used")
        /\ ~QueueGone(r) /\ content[o] # <<>>
        /\ result' = [result EXCEPT ![r] = Head(content[o])]
        /\ Fill(o, Rest(content[o]))
        /\ UNCHANGED <<ipc, boundTo, removed, object, sight>>

\* Mutant: a receiver that waits is not told that its queue is removed.
TakeFails_Memory(r) ==
    /\ Move(r, Before, "SIGBUS")
    /\ ~IsQueue /\ content[object[r]] = <<>>
    /\ UNCHANGED <<ipc, boundTo, content, removed, object, result, sight>>

\* msgrcv fails when the queue is removed; the first page of a memory of size 0
\* cannot be read.
TakeFails(r) ==
    /\ Move(r, Before, IF IsQueue THEN "failed" ELSE "SIGBUS")
    /\ QueueGone(r) \/ (~IsQueue /\ content[object[r]] = <<>>)
    /\ UNCHANGED <<ipc, boundTo, content, removed, object, result, sight>>

\* The receivers remove the object, of the senders only that of "mq".
CleanObject(p) ==
    /\ Move(p, "used", "ended")
    /\ IF p \in Senders /\ ipc # "mq" THEN UNCHANGED <<boundTo, removed>>
       ELSE IF ipc \in {"mq", "shm"} THEN boundTo' = Nobody /\ UNCHANGED removed
       ELSE /\ removed' = removed \cup {object[p]}
            /\ boundTo' = IF boundTo = object[p] THEN Nobody ELSE boundTo
    /\ UNCHANGED <<ipc, content, object, result, sight>>

Process(p) ==
    \/ Open(p) \/ MapMemory(p) \/ CleanObject(p)
    \/ p \in Senders /\ Put(p)
    \/ p \in Receivers /\ (Take(p) \/ TakeFails(p))

OverNext == \E p \in Procs : Process(p)
OverSpec == OverInit /\ [][OverNext]_overVars
OverFairness == \A p \in Procs : WF_overVars(Process(p))

-----------------------------------------------------------------------------
OverTypeOK ==
    /\ boundTo \in Procs \cup {Nobody} /\ removed \subseteq Procs
    /\ at \in [Procs -> {"start", "opened", "mapped", "used", "ended", "failed", "SIGBUS"}]
    /\ object \in [Procs -> Procs \cup {Nobody}]
    /\ result \in [Receivers -> Senders \cup {Nobody, Zero}]
    /\ \A o \in Procs : \A i \in DOMAIN content[o] : content[o][i] \in Senders \cup {Zero}

Sent(s) == at[s] \in {"used", "ended"}
TakenBy(s) == {r \in Receivers : result[r] = s}

\* A number sent through a queue was printed by one receiver that had the same
\* queue, or is in the queue or was when it was removed, whoever removes names and
\* queues meanwhile (KolKom POSIX sender.c:35-41, receiver.c:31-39; KolKom SysV).
HandedToOne ==
    IsQueue => \A s \in Senders : Sent(s) =>
        LET waiting == {i \in DOMAIN content[object[s]] : content[object[s]][i] = s} IN
            /\ Cardinality(waiting) + Cardinality(TakenBy(s)) = 1
            /\ \A r \in TakenBy(s) : object[r] = object[s]

\* A receiver that finds a number in the memory prints a number that was
\* sent, though other senders open and resize the memory before it reads (PamiecWsp
\* POSIX sender.c:30-50); only one that was there before the write prints a zero
\* or is killed.
PrintsWhatItFound ==
    \A r \in Receivers : sight[r] \notin {<<>>, <<Zero>>} =>
        result[r] # Zero /\ at[r] # "SIGBUS"

\* A queue's number goes to one receiver of that queue or is lost with it; who finds a
\* number in the memory prints one.  Of a receiver that comes to the memory before the
\* write nothing is said.
HandedOver == OverTypeOK /\ HandedToOne /\ PrintsWhatItFound

\* Receivers that share a queue with fewer senders than there are of them.
Outnumbered(r) ==
    Cardinality({p \in Receivers : object[p] = object[r]})
        > Cardinality({s \in Senders : object[s] = object[r] /\ Sent(s)})

\* A receiver gets a number or fails, unless more receivers than senders have its
\* queue: so waits for ever the receiver that comes after the sender removed
\* the name, which makes a queue of its own (KolKom POSIX receiver.c:25, sender.c:41).
ReceiverEnds ==
    \A r \in Receivers : at[r] = "opened" ~> at[r] # "opened" \/ Outnumbered(r)

=============================================================================
