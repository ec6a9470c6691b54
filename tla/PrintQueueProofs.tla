-------------------------- MODULE PrintQueueProofs --------------------------
(***************************************************************************)
(* Proofs about the print spooler, for every number of users, printers and *)
(* slots and every set of jobs.  What survives kills and restarts is       *)
(* proved of KillSpec, and holds of Spec because Spec implies KillSpec.    *)
(***************************************************************************)
EXTENDS PrintQueue, FiniteSetTheorems, SequenceTheorems, TLAPS

\* Advancing an index of the ring by one, without the modulus.
LEMMA NextIndexValue ==
    ASSUME NEW i \in Slots
    PROVE  NextIndex(i) = IF i + 1 = QUEUE_SIZE THEN 0 ELSE i + 1
BY QueueAssumption DEF NextIndex, Slots

\* The ring index stays inside the ring.
LEMMA NextIndexType ==
    ASSUME NEW i \in Slots
    PROVE  NextIndex(i) \in Slots
BY NextIndexValue, QueueAssumption DEF Slots

-----------------------------------------------------------------------------
(* Types. *)

LEMMA InitType == Init => TypeOK
BY QueueAssumption
   DEF Init, TypeOK, StartPC, Slots, Processes, UserPC, PrinterPC

LEMMA UserType ==
    ASSUME TypeOK, NEW u \in Users, User(u)
    PROVE  TypeOK'
<1> USE QueueAssumption DEF TypeOK, Step, ring, sems, Processes, UserPC, PrinterPC
<1>1. CASE MakeJob(u)         BY <1>1 DEF MakeJob
<1>2. CASE EnqueueWait(u)     BY <1>2 DEF EnqueueWait, SemWait
<1>3. CASE EnqueueLock(u)     BY <1>3 DEF EnqueueLock, SemWait
<1>4. CASE EnqueueCopy(u)     BY <1>4 DEF EnqueueCopy
<1>5. CASE EnqueueAdvance(u)  BY <1>5, NextIndexType DEF EnqueueAdvance
<1>6. CASE EnqueueUnlock(u)   BY <1>6 DEF EnqueueUnlock, SemPost
<1>7. CASE EnqueuePost(u)     BY <1>7 DEF EnqueuePost, SemPost
<1>8. QED
  BY <1>1, <1>2, <1>3, <1>4, <1>5, <1>6, <1>7 DEF User

LEMMA PrinterType ==
    ASSUME TypeOK, NEW p \in Printers, Printer(p)
    PROVE  TypeOK'
<1> USE QueueAssumption DEF TypeOK, Step, ring, sems, Processes, UserPC, PrinterPC
<1>1. CASE DequeueWait(p)     BY <1>1 DEF DequeueWait, SemWait
<1>2. CASE DequeueLock(p)     BY <1>2 DEF DequeueLock, SemWait
<1>3. CASE DequeueCopy(p)     BY <1>3 DEF DequeueCopy
<1>4. CASE DequeueAdvance(p)  BY <1>4, NextIndexType DEF DequeueAdvance
<1>5. CASE DequeueUnlock(p)   BY <1>5 DEF DequeueUnlock, SemPost
<1>6. CASE DequeuePost(p)     BY <1>6 DEF DequeuePost, SemPost
<1>7. CASE PrintJob(p)        BY <1>7 DEF PrintJob
<1>8. QED
  BY <1>1, <1>2, <1>3, <1>4, <1>5, <1>6, <1>7 DEF Printer

LEMMA KillType ==
    ASSUME TypeOK, KillAndRestart
    PROVE  TypeOK'
BY QueueAssumption
   DEF TypeOK, KillAndRestart, StartPC, sems, Slots, Processes, UserPC, PrinterPC

\* Every variable keeps its type whatever the processes do and however often
\* the program is killed and started again.
THEOREM KillTypeCorrect == KillSpec => []TypeOK
<1>1. TypeOK /\ [KillNext]_vars => TypeOK'
  <2> SUFFICES ASSUME TypeOK, [KillNext]_vars PROVE TypeOK'
    OBVIOUS
  <2>1. CASE \E u \in Users : User(u)        BY <2>1, UserType
  <2>2. CASE \E p \in Printers : Printer(p)  BY <2>2, PrinterType
  <2>3. CASE KillAndRestart                  BY <2>3, KillType
  <2>4. CASE UNCHANGED vars                  BY <2>4 DEF vars, TypeOK
  <2>5. QED
    BY <2>1, <2>2, <2>3, <2>4 DEF KillNext, Next
<1>2. QED
  BY InitType, <1>1, PTL DEF KillSpec

\* Spec is KillSpec without the kills.
LEMMA SpecIsKillSpec == Spec => KillSpec
<1>1. [Next]_vars => [KillNext]_vars
  BY DEF KillNext
<1>2. QED
  BY <1>1, PTL DEF Spec, KillSpec

\* The same of a program that is never killed.
THEOREM TypeCorrect == Spec => []TypeOK
BY SpecIsKillSpec, KillTypeCorrect, PTL

-----------------------------------------------------------------------------
(***************************************************************************)
(* Mutual exclusion.  By itself it is not inductive: the invariant adds    *)
(* that sem_mutex is 0 while somebody is in the critical section.  It does *)
(* not say the converse, which a kill can break.                           *)
(***************************************************************************)
MutexInv ==
    /\ sem_mutex \in {0, 1}
    /\ \A p \in Processes : InCriticalSection(p) => sem_mutex = 0
    /\ MutualExclusion

LEMMA UserMutex ==
    ASSUME TypeOK, MutexInv, NEW u \in Users, User(u)
    PROVE  MutexInv'
<1> USE QueueAssumption DEF TypeOK, MutexInv, MutualExclusion, InCriticalSection,
        Step, ring, sems, Processes
<1>1. CASE MakeJob(u)         BY <1>1 DEF MakeJob
<1>2. CASE EnqueueWait(u)     BY <1>2 DEF EnqueueWait, SemWait
<1>3. CASE EnqueueLock(u)     BY <1>3 DEF EnqueueLock, SemWait
<1>4. CASE EnqueueCopy(u)     BY <1>4 DEF EnqueueCopy
<1>5. CASE EnqueueAdvance(u)  BY <1>5 DEF EnqueueAdvance
<1>6. CASE EnqueueUnlock(u)   BY <1>6 DEF EnqueueUnlock, SemPost
<1>7. CASE EnqueuePost(u)     BY <1>7 DEF EnqueuePost, SemPost
<1>8. QED
  BY <1>1, <1>2, <1>3, <1>4, <1>5, <1>6, <1>7 DEF User

LEMMA PrinterMutex ==
    ASSUME TypeOK, MutexInv, NEW p \in Printers, Printer(p)
    PROVE  MutexInv'
<1> USE QueueAssumption DEF TypeOK, MutexInv, MutualExclusion, InCriticalSection,
        Step, ring, sems, Processes
<1>1. CASE DequeueWait(p)     BY <1>1 DEF DequeueWait, SemWait
<1>2. CASE DequeueLock(p)     BY <1>2 DEF DequeueLock, SemWait
<1>3. CASE DequeueCopy(p)     BY <1>3 DEF DequeueCopy
<1>4. CASE DequeueAdvance(p)  BY <1>4 DEF DequeueAdvance
<1>5. CASE DequeueUnlock(p)   BY <1>5 DEF DequeueUnlock, SemPost
<1>6. CASE DequeuePost(p)     BY <1>6 DEF DequeuePost, SemPost
<1>7. CASE PrintJob(p)        BY <1>7 DEF PrintJob
<1>8. QED
  BY <1>1, <1>2, <1>3, <1>4, <1>5, <1>6, <1>7 DEF Printer

LEMMA MutexInvariant == KillSpec => []MutexInv
<1>1. Init => MutexInv
  BY DEF Init, MutexInv, MutualExclusion, InCriticalSection, StartPC
<1>2. TypeOK /\ MutexInv /\ [KillNext]_vars => MutexInv'
  <2> SUFFICES ASSUME TypeOK, MutexInv, [KillNext]_vars PROVE MutexInv'
    OBVIOUS
  <2>1. CASE \E u \in Users : User(u)        BY <2>1, UserMutex
  <2>2. CASE \E p \in Printers : Printer(p)  BY <2>2, PrinterMutex
  <2>3. CASE KillAndRestart
    BY <2>3 DEF KillAndRestart, StartPC, sems, MutexInv, MutualExclusion,
                InCriticalSection
  <2>4. CASE UNCHANGED vars
    BY <2>4 DEF vars, MutexInv, MutualExclusion, InCriticalSection
  <2>5. QED
    BY <2>1, <2>2, <2>3, <2>4 DEF KillNext, Next
<1>3. QED
  BY <1>1, <1>2, KillTypeCorrect, PTL DEF KillSpec

\* At most one process is in the critical section, kills or no kills.
THEOREM KillMutualExclusion == KillSpec => []MutualExclusion
<1>1. MutexInv => MutualExclusion
  BY DEF MutexInv
<1>2. QED
  BY <1>1, MutexInvariant, PTL

\* A mutex lost by a kill is never found again: leaving the critical section
\* is the only way to post it, and entering it is the only way to be inside.
THEOREM KillLostMutexStaysLost == KillSpec => LostMutexStaysLost
<1>1. TypeOK /\ [KillNext]_vars => [MutexLost => MutexLost']_vars
  <2> SUFFICES ASSUME TypeOK, MutexLost, [KillNext]_vars PROVE MutexLost'
    OBVIOUS
  <2> USE QueueAssumption DEF TypeOK, MutexLost, InCriticalSection, Step, ring,
          sems, Processes, SemWait, SemPost
  <2>1. ASSUME NEW u \in Users, User(u) PROVE MutexLost'
    BY <2>1 DEF User, MakeJob, EnqueueWait, EnqueueLock, EnqueueCopy,
                EnqueueAdvance, EnqueueUnlock, EnqueuePost
  <2>2. ASSUME NEW p \in Printers, Printer(p) PROVE MutexLost'
    BY <2>2 DEF Printer, DequeueWait, DequeueLock, DequeueCopy, DequeueAdvance,
                DequeueUnlock, DequeuePost, PrintJob
  <2>3. CASE KillAndRestart
    BY <2>3 DEF KillAndRestart, StartPC
  <2>4. CASE UNCHANGED vars
    BY <2>4 DEF vars
  <2>5. QED
    BY <2>1, <2>2, <2>3, <2>4 DEF KillNext, Next
<1>2. QED
  BY <1>1, KillTypeCorrect, PTL DEF KillSpec, LostMutexStaysLost

-----------------------------------------------------------------------------
(***************************************************************************)
(* Counting processes.  When one process moves, the number of processes at *)
(* a set of labels changes by whether it left and whether it arrived.      *)
(***************************************************************************)
LEMMA AddOne ==
    ASSUME NEW S, IsFiniteSet(S), NEW x
    PROVE  /\ x \in S => Cardinality(S \cup {x}) = Cardinality(S)
           /\ x \notin S => Cardinality(S \cup {x}) = Cardinality(S) + 1
BY FS_AddElement

LEMMA RemoveOne ==
    ASSUME NEW S, IsFiniteSet(S), NEW x
    PROVE  /\ x \notin S => Cardinality(S \ {x}) = Cardinality(S)
           /\ x \in S => Cardinality(S \ {x}) = Cardinality(S) - 1
BY FS_RemoveElement

At(at, A, labels) == {q \in A : at[q] \in labels}

LEMMA AtFinite ==
    ASSUME NEW A, IsFiniteSet(A), NEW at, NEW labels
    PROVE  IsFiniteSet(At(at, A, labels)) /\ Cardinality(At(at, A, labels)) \in Nat
<1>1. At(at, A, labels) \subseteq A
  BY DEF At
<1>2. QED
  BY <1>1, FS_Subset, FS_CardinalityType

LEMMA AtStep ==
    ASSUME NEW A, IsFiniteSet(A), NEW p \in A, NEW labels, NEW at, NEW next,
           \A q \in A \ {p} : next[q] = at[q]
    PROVE  /\ at[p] \in labels /\ next[p] \in labels =>
                Cardinality(At(next, A, labels)) = Cardinality(At(at, A, labels))
           /\ at[p] \notin labels /\ next[p] \in labels =>
                Cardinality(At(next, A, labels)) = Cardinality(At(at, A, labels)) + 1
           /\ at[p] \in labels /\ next[p] \notin labels =>
                Cardinality(At(next, A, labels)) = Cardinality(At(at, A, labels)) - 1
           /\ at[p] \notin labels /\ next[p] \notin labels =>
                Cardinality(At(next, A, labels)) = Cardinality(At(at, A, labels))
<1> DEFINE S == At(at, A, labels)
           R == At(next, A, labels)
<1>1. IsFiniteSet(S)
  BY AtFinite
<1>2. p \in S <=> at[p] \in labels
  BY DEF At
<1>3. CASE next[p] \in labels
  <2>1. R = S \cup {p}
    BY <1>3 DEF At
  <2> HIDE DEF S, R
  <2>2. /\ p \in S => Cardinality(R) = Cardinality(S)
        /\ p \notin S => Cardinality(R) = Cardinality(S) + 1
    BY <1>1, <2>1, AddOne
  <2>3. QED
    BY <1>2, <1>3, <2>2 DEF S, R
<1>4. CASE next[p] \notin labels
  <2>1. R = S \ {p}
    BY <1>4 DEF At
  <2> HIDE DEF S, R
  <2>2. /\ p \notin S => Cardinality(R) = Cardinality(S)
        /\ p \in S => Cardinality(R) = Cardinality(S) - 1
    BY <1>1, <2>1, RemoveOne
  <2>3. QED
    BY <1>2, <1>4, <2>2 DEF S, R
<1>5. QED
  BY <1>3, <1>4

\* One process of the set moves, all the others stay where they are.
LEMMA MoveCount ==
    ASSUME TypeOK, NEW p \in Processes, NEW from, NEW to, Step(p, from, to),
           NEW A, A \subseteq Processes, p \in A, NEW labels
    PROVE  /\ from \in labels /\ to \in labels =>
                Cardinality(At(pc', A, labels)) = Cardinality(At(pc, A, labels))
           /\ from \notin labels /\ to \in labels =>
                Cardinality(At(pc', A, labels)) = Cardinality(At(pc, A, labels)) + 1
           /\ from \in labels /\ to \notin labels =>
                Cardinality(At(pc', A, labels)) = Cardinality(At(pc, A, labels)) - 1
           /\ from \notin labels /\ to \notin labels =>
                Cardinality(At(pc', A, labels)) = Cardinality(At(pc, A, labels))
           /\ Cardinality(At(pc, A, labels)) \in Nat
<1>1. IsFiniteSet(A)
  BY QueueAssumption, FS_Union, FS_Subset DEF Processes
<1>2. (\A q \in A \ {p} : pc'[q] = pc[q]) /\ pc[p] = from /\ pc'[p] = to
  BY DEF TypeOK, Step
<1>3. Cardinality(At(pc, A, labels)) \in Nat
  BY <1>1, AtFinite
<1>4. QED
  BY <1>1, <1>2, <1>3, AtStep

\* A process outside the set moves.
LEMMA MoveOutside ==
    ASSUME TypeOK, NEW p \in Processes, NEW from, NEW to, Step(p, from, to),
           NEW A, A \subseteq Processes, p \notin A, NEW labels
    PROVE  /\ At(pc', A, labels) = At(pc, A, labels)
           /\ Cardinality(At(pc, A, labels)) \in Nat
<1>1. IsFiniteSet(A)
  BY QueueAssumption, FS_Union, FS_Subset DEF Processes
<1>2. \A q \in A : pc'[q] = pc[q]
  BY DEF TypeOK, Step
<1>3. At(pc', A, labels) = At(pc, A, labels)
  BY <1>2 DEF At
<1>4. QED
  BY <1>1, <1>3, AtFinite

-----------------------------------------------------------------------------
(***************************************************************************)
(* Tokens.                                                                 *)
(***************************************************************************)
TokenLabels == {"lock", "copy", "advance", "unlock", "post_full", "post_empty"}

LEMMA HoldersAt ==
    /\ TokenHolders = At(pc, Processes, TokenLabels)
    /\ TokenHolders' = At(pc', Processes, TokenLabels)
BY DEF TokenHolders, HoldsToken, At, TokenLabels

LEMMA HoldersFinite ==
    IsFiniteSet(TokenHolders) /\ Cardinality(TokenHolders) \in Nat
BY QueueAssumption, FS_Union, AtFinite, HoldersAt DEF Processes

\* What a step of one process does to the number of token holders.
LEMMA HoldersStep ==
    ASSUME TypeOK, NEW p \in Processes, NEW from, NEW to, Step(p, from, to)
    PROVE  /\ from \in TokenLabels /\ to \in TokenLabels =>
                Cardinality(TokenHolders') = Cardinality(TokenHolders)
           /\ from \notin TokenLabels /\ to \in TokenLabels =>
                Cardinality(TokenHolders') = Cardinality(TokenHolders) + 1
           /\ from \in TokenLabels /\ to \notin TokenLabels =>
                Cardinality(TokenHolders') = Cardinality(TokenHolders) - 1
           /\ from \notin TokenLabels /\ to \notin TokenLabels =>
                Cardinality(TokenHolders') = Cardinality(TokenHolders)
           /\ Cardinality(TokenHolders) \in Nat
BY MoveCount, HoldersAt

LEMMA UserTokens ==
    ASSUME TypeOK, NEW u \in Users, User(u)
    PROVE  Tokens' = Tokens
<1> u \in Processes
  BY DEF Processes
<1> USE HoldersStep DEF TypeOK, Tokens, ring, sems, SemWait, SemPost, TokenLabels
<1>1. CASE MakeJob(u)         BY <1>1 DEF MakeJob
<1>2. CASE EnqueueWait(u)     BY <1>2 DEF EnqueueWait
<1>3. CASE EnqueueLock(u)     BY <1>3 DEF EnqueueLock
<1>4. CASE EnqueueCopy(u)     BY <1>4 DEF EnqueueCopy
<1>5. CASE EnqueueAdvance(u)  BY <1>5 DEF EnqueueAdvance
<1>6. CASE EnqueueUnlock(u)   BY <1>6 DEF EnqueueUnlock
<1>7. CASE EnqueuePost(u)     BY <1>7 DEF EnqueuePost
<1>8. QED
  BY <1>1, <1>2, <1>3, <1>4, <1>5, <1>6, <1>7 DEF User

LEMMA PrinterTokens ==
    ASSUME TypeOK, NEW p \in Printers, Printer(p)
    PROVE  Tokens' = Tokens
<1> p \in Processes
  BY DEF Processes
<1> USE HoldersStep DEF TypeOK, Tokens, ring, sems, SemWait, SemPost, TokenLabels
<1>1. CASE DequeueWait(p)     BY <1>1 DEF DequeueWait
<1>2. CASE DequeueLock(p)     BY <1>2 DEF DequeueLock
<1>3. CASE DequeueCopy(p)     BY <1>3 DEF DequeueCopy
<1>4. CASE DequeueAdvance(p)  BY <1>4 DEF DequeueAdvance
<1>5. CASE DequeueUnlock(p)   BY <1>5 DEF DequeueUnlock
<1>6. CASE DequeuePost(p)     BY <1>6 DEF DequeuePost
<1>7. CASE PrintJob(p)        BY <1>7 DEF PrintJob
<1>8. QED
  BY <1>1, <1>2, <1>3, <1>4, <1>5, <1>6, <1>7 DEF Printer

\* Each of the QUEUE_SIZE slots is free, full, or in the hands of one process.
THEOREM TokensConserved == Spec => []TokenConservation
<1>1. Init => TokenConservation
  <2> SUFFICES ASSUME Init PROVE TokenConservation
    OBVIOUS
  <2>1. TokenHolders = {}
    BY DEF Init, TokenHolders, HoldsToken, StartPC
  <2>2. QED
    BY <2>1, FS_EmptySet, QueueAssumption DEF Init, TokenConservation, Tokens
<1>2. TypeOK /\ TokenConservation /\ [Next]_vars => TokenConservation'
  <2>1. UNCHANGED vars => Tokens' = Tokens
    BY DEF vars, Tokens, TokenHolders, HoldsToken
  <2>2. QED
    BY <2>1, UserTokens, PrinterTokens DEF Next, TokenConservation
<1>3. QED
  BY <1>1, <1>2, TypeCorrect, PTL DEF Spec

\* The number of tokens never grows, whatever is killed and started again.
THEOREM KillTokensOnlyLost == KillSpec => TokensOnlyLost
<1>1. TypeOK /\ [KillNext]_vars => [Tokens' <= Tokens]_vars
  <2> SUFFICES ASSUME TypeOK, [KillNext]_vars PROVE Tokens' <= Tokens \/ UNCHANGED vars
    OBVIOUS
  <2>1. Tokens \in Nat
    BY HoldersFinite DEF Tokens, TypeOK
  <2>2. CASE Next
    BY <2>1, <2>2, UserTokens, PrinterTokens DEF Next
  <2>3. CASE KillAndRestart
    <3>1. TokenHolders' = {}
      BY <2>3 DEF KillAndRestart, TokenHolders, HoldsToken, StartPC
    <3>2. QED
      BY <2>3, <3>1, HoldersFinite, FS_EmptySet DEF KillAndRestart, sems, Tokens, TypeOK
  <2>4. QED
    BY <2>2, <2>3 DEF KillNext
<1>2. QED
  BY <1>1, KillTypeCorrect, PTL DEF KillSpec, TokensOnlyLost

-----------------------------------------------------------------------------
(***************************************************************************)
(* The spooler implements the FIFO queue of JobFifo.  The ring stores no    *)
(* number of jobs; the invariant says that Count, which is read off the    *)
(* semaphore and the places of the processes, is the distance from head to *)
(* tail, that the slots between them hold jobs, and that whoever stands    *)
(* between the copy and the index has the job of that slot.                *)
(***************************************************************************)
Wrap(x) == IF x < QUEUE_SIZE THEN x ELSE x - QUEUE_SIZE

SendingLabels == {"wait_empty", "lock", "copy", "advance"}
FillingLabels == {"lock", "copy", "advance"}
AnnouncingLabels == {"unlock", "post_full"}
FetchingLabels == {"lock", "copy", "advance"}
EmptiedLabels == {"unlock", "post_empty"}
PrintingLabels == {"unlock", "post_empty", "print"}

Filling == At(pc, Users, FillingLabels)
Emptied == At(pc, Printers, EmptiedLabels)

CountOK == /\ Count \in Nat
           /\ sem_empty + Cardinality(Filling) + Count + Cardinality(Emptied) = QUEUE_SIZE

RingOK == /\ tail = Wrap(head + Count)
          /\ \A i \in 1 .. Count : jobs[Wrap(head + i - 1)] \in Jobs

BuffersOK ==
    /\ \A u \in Users : pc[u] \in SendingLabels => job[u] \in Jobs
    /\ \A u \in Users : pc[u] = "advance" => jobs[tail] = job[u]
    /\ \A p \in Printers : pc[p] = "advance" => job[p] = jobs[head]
    /\ \A p \in Printers : pc[p] \in PrintingLabels => job[p] \in Jobs

FifoInv == TypeOK /\ MutexInv /\ CountOK /\ RingOK /\ BuffersOK

\* Up to twice round the ring the modulus is one subtraction.
LEMMA WrapIsMod ==
    ASSUME NEW x \in Nat, x < 2 * QUEUE_SIZE
    PROVE  x % QUEUE_SIZE = Wrap(x)
BY QueueAssumption DEF Wrap

LEMMA CountAt ==
    /\ Announcing = At(pc, Users, AnnouncingLabels)
    /\ Announcing' = At(pc', Users, AnnouncingLabels)
    /\ Fetching = At(pc, Printers, FetchingLabels)
    /\ Fetching' = At(pc', Printers, FetchingLabels)
BY DEF Announcing, Fetching, At, AnnouncingLabels, FetchingLabels

\* What a step of a user does to the numbers the count is made of.
LEMMA UserNumbers ==
    ASSUME TypeOK, NEW u \in Users, NEW from, NEW to, Step(u, from, to)
    PROVE  /\ pc[u] = from
           /\ Cardinality(Fetching') = Cardinality(Fetching)
           /\ Cardinality(Emptied') = Cardinality(Emptied)
           /\ Cardinality(Announcing') =
                Cardinality(Announcing) + (IF to \in AnnouncingLabels THEN 1 ELSE 0)
                                        - (IF from \in AnnouncingLabels THEN 1 ELSE 0)
           /\ Cardinality(Filling') =
                Cardinality(Filling) + (IF to \in FillingLabels THEN 1 ELSE 0)
                                     - (IF from \in FillingLabels THEN 1 ELSE 0)
           /\ Cardinality(Announcing) \in Nat /\ Cardinality(Fetching) \in Nat
           /\ Cardinality(Filling) \in Nat /\ Cardinality(Emptied) \in Nat
<1>1. u \in Processes /\ Users \subseteq Processes /\ Printers \subseteq Processes
  BY DEF Processes
<1>2. u \notin Printers
  BY QueueAssumption
<1>3. /\ Fetching' = Fetching /\ Cardinality(Fetching) \in Nat
      /\ Emptied' = Emptied /\ Cardinality(Emptied) \in Nat
  BY <1>1, <1>2, MoveOutside, CountAt DEF Emptied
<1>4. /\ Cardinality(Announcing') =
           Cardinality(Announcing) + (IF to \in AnnouncingLabels THEN 1 ELSE 0)
                                   - (IF from \in AnnouncingLabels THEN 1 ELSE 0)
      /\ Cardinality(Announcing) \in Nat
  BY <1>1, MoveCount, CountAt
<1>5. /\ Cardinality(Filling') =
           Cardinality(Filling) + (IF to \in FillingLabels THEN 1 ELSE 0)
                                - (IF from \in FillingLabels THEN 1 ELSE 0)
      /\ Cardinality(Filling) \in Nat
  BY <1>1, MoveCount DEF Filling
<1>6. QED
  BY <1>3, <1>4, <1>5 DEF Step

\* The same for a printer.
LEMMA PrinterNumbers ==
    ASSUME TypeOK, NEW p \in Printers, NEW from, NEW to, Step(p, from, to)
    PROVE  /\ pc[p] = from
           /\ Cardinality(Announcing') = Cardinality(Announcing)
           /\ Cardinality(Filling') = Cardinality(Filling)
           /\ Cardinality(Fetching') =
                Cardinality(Fetching) + (IF to \in FetchingLabels THEN 1 ELSE 0)
                                      - (IF from \in FetchingLabels THEN 1 ELSE 0)
           /\ Cardinality(Emptied') =
                Cardinality(Emptied) + (IF to \in EmptiedLabels THEN 1 ELSE 0)
                                     - (IF from \in EmptiedLabels THEN 1 ELSE 0)
           /\ Cardinality(Announcing) \in Nat /\ Cardinality(Fetching) \in Nat
           /\ Cardinality(Filling) \in Nat /\ Cardinality(Emptied) \in Nat
           /\ from \in FetchingLabels => Cardinality(Fetching) > 0
<1>1. p \in Processes /\ Users \subseteq Processes /\ Printers \subseteq Processes
  BY DEF Processes
<1>2. p \notin Users
  BY QueueAssumption
<1>3. /\ Announcing' = Announcing /\ Cardinality(Announcing) \in Nat
      /\ Filling' = Filling /\ Cardinality(Filling) \in Nat
  BY <1>1, <1>2, MoveOutside, CountAt DEF Filling
<1>4. /\ Cardinality(Fetching') =
           Cardinality(Fetching) + (IF to \in FetchingLabels THEN 1 ELSE 0)
                                 - (IF from \in FetchingLabels THEN 1 ELSE 0)
      /\ Cardinality(Fetching) \in Nat
  BY <1>1, MoveCount, CountAt
<1>5. /\ Cardinality(Emptied') =
           Cardinality(Emptied) + (IF to \in EmptiedLabels THEN 1 ELSE 0)
                                - (IF from \in EmptiedLabels THEN 1 ELSE 0)
      /\ Cardinality(Emptied) \in Nat
  BY <1>1, MoveCount DEF Emptied
<1>6. ASSUME from \in FetchingLabels PROVE Cardinality(Fetching) > 0
  <2>1. p \in Fetching
    BY <1>6, CountAt DEF At, Step
  <2>2. IsFiniteSet(Fetching)
    BY QueueAssumption, AtFinite, CountAt
  <2>3. QED
    BY <1>4, <2>1, <2>2, FS_EmptySet
<1>7. QED
  BY <1>3, <1>4, <1>5, <1>6 DEF Step

LEMMA FillingNotEmpty ==
    ASSUME NEW u \in Users, pc[u] \in FillingLabels
    PROVE  Cardinality(Filling) > 0
<1>1. IsFiniteSet(Filling) /\ Cardinality(Filling) \in Nat
  BY QueueAssumption, AtFinite DEF Filling
<1>2. u \in Filling
  BY DEF Filling, At
<1>3. QED
  BY <1>1, <1>2, FS_EmptySet

\* Only the step that moves tail changes the count, and there is room for it.
LEMMA UserCount ==
    ASSUME TypeOK, CountOK, NEW u \in Users, User(u)
    PROVE  /\ CountOK'
           /\ Count' = IF pc[u] = "advance" THEN Count + 1 ELSE Count
           /\ pc[u] \in FillingLabels => Count < QUEUE_SIZE
<1>1. pc[u] \in FillingLabels => Count < QUEUE_SIZE
  <2>1. Cardinality(Filling) \in Nat /\ Cardinality(Emptied) \in Nat
    BY QueueAssumption, AtFinite DEF Filling, Emptied
  <2>2. QED
    BY <2>1, FillingNotEmpty, QueueAssumption DEF CountOK, TypeOK
<1> USE UserNumbers, QueueAssumption
    DEF TypeOK, CountOK, Count, ring, sems, SemWait, SemPost, AnnouncingLabels, FillingLabels
<1>2. CASE MakeJob(u)         BY <1>1, <1>2 DEF MakeJob
<1>3. CASE EnqueueWait(u)     BY <1>1, <1>3 DEF EnqueueWait
<1>4. CASE EnqueueLock(u)     BY <1>1, <1>4 DEF EnqueueLock
<1>5. CASE EnqueueCopy(u)     BY <1>1, <1>5 DEF EnqueueCopy
<1>6. CASE EnqueueAdvance(u)  BY <1>1, <1>6 DEF EnqueueAdvance
<1>7. CASE EnqueueUnlock(u)   BY <1>1, <1>7 DEF EnqueueUnlock
<1>8. CASE EnqueuePost(u)     BY <1>1, <1>8 DEF EnqueuePost
<1>9. QED
  BY <1>2, <1>3, <1>4, <1>5, <1>6, <1>7, <1>8 DEF User

\* Only the step that moves head changes the count, and there is a job for it.
LEMMA PrinterCount ==
    ASSUME TypeOK, CountOK, NEW p \in Printers, Printer(p)
    PROVE  /\ CountOK'
           /\ Count' = IF pc[p] = "advance" THEN Count - 1 ELSE Count
           /\ pc[p] \in FetchingLabels => Count > 0
<1> USE PrinterNumbers, QueueAssumption
    DEF TypeOK, CountOK, Count, ring, sems, SemWait, SemPost, FetchingLabels, EmptiedLabels
<1>1. CASE DequeueWait(p)     BY <1>1 DEF DequeueWait
<1>2. CASE DequeueLock(p)     BY <1>2 DEF DequeueLock
<1>3. CASE DequeueCopy(p)     BY <1>3 DEF DequeueCopy
<1>4. CASE DequeueAdvance(p)  BY <1>4 DEF DequeueAdvance
<1>5. CASE DequeueUnlock(p)   BY <1>5 DEF DequeueUnlock
<1>6. CASE DequeuePost(p)     BY <1>6 DEF DequeuePost
<1>7. CASE PrintJob(p)        BY <1>7 DEF PrintJob
<1>8. QED
  BY <1>1, <1>2, <1>3, <1>4, <1>5, <1>6, <1>7 DEF Printer

LEMMA CountRange ==
    ASSUME TypeOK, CountOK
    PROVE  Count \in 0 .. QUEUE_SIZE
<1>1. Cardinality(Filling) \in Nat /\ Cardinality(Emptied) \in Nat
  BY QueueAssumption, AtFinite DEF Filling, Emptied
<1>2. QED
  BY <1>1, QueueAssumption DEF CountOK, TypeOK

\* What is between head and tail, and what processes hold, after a step of a user.
LEMMA UserRing ==
    ASSUME FifoInv, NEW u \in Users, User(u)
    PROVE  FifoInv'
<1>1. TypeOK' /\ MutexInv'
  BY UserType, UserMutex DEF FifoInv
<1>2. /\ CountOK'
      /\ Count' = IF pc[u] = "advance" THEN Count + 1 ELSE Count
      /\ pc[u] \in FillingLabels => Count < QUEUE_SIZE
  BY UserCount DEF FifoInv
<1>3. Count \in 0 .. QUEUE_SIZE /\ QUEUE_SIZE \in Nat \ {0}
  BY CountRange, QueueAssumption DEF FifoInv
<1>4. u \in Processes /\ u \notin Printers /\ Users \subseteq Processes
      /\ Printers \subseteq Processes
  BY QueueAssumption DEF Processes
<1>5. pc[u] \in {"copy", "advance"} =>
        \A q \in Processes \ {u} : pc[q] \notin {"copy", "advance"}
  BY <1>4 DEF FifoInv, MutexInv, MutualExclusion, InCriticalSection
<1>6. CASE UNCHANGED ring /\ pc[u] # "advance" /\ pc'[u] # "advance" /\ (MakeJob(u) \/ job' = job)
  <2>1. RingOK'
    BY <1>2, <1>6 DEF FifoInv, RingOK, ring
  <2>2. /\ pc' = [pc EXCEPT ![u] = pc'[u]]
        /\ pc'[u] \in SendingLabels => pc[u] \in SendingLabels \/ MakeJob(u)
    BY <1>6 DEF User, MakeJob, EnqueueWait, EnqueueLock, EnqueueCopy, EnqueueAdvance,
                EnqueueUnlock, EnqueuePost, Step, SendingLabels, FifoInv, TypeOK
  <2>3. /\ \A q \in Processes \ {u} : job'[q] = job[q] /\ pc'[q] = pc[q]
        /\ MakeJob(u) => job'[u] \in Jobs
        /\ ~MakeJob(u) => job'[u] = job[u]
    <3>1. \A q \in Processes \ {u} : pc'[q] = pc[q]
      BY <2>2 DEF FifoInv, TypeOK
    <3>2. MakeJob(u) => job'[u] \in Jobs /\ \A q \in Processes \ {u} : job'[q] = job[q]
      BY <1>4 DEF MakeJob, FifoInv, TypeOK
    <3>3. ~MakeJob(u) => job' = job
      BY <1>6
    <3>4. QED
      BY <3>1, <3>2, <3>3
  <2>4. BuffersOK'
    BY <1>4, <1>6, <2>2, <2>3 DEF FifoInv, BuffersOK, ring
  <2>5. QED
    BY <1>1, <1>2, <2>1, <2>4 DEF FifoInv
<1>7. CASE EnqueueCopy(u)
  <2>1. /\ pc[u] = "copy" /\ pc' = [pc EXCEPT ![u] = "advance"]
        /\ jobs' = [jobs EXCEPT ![tail] = job[u]]
        /\ UNCHANGED <<head, tail, job>>
    BY <1>7 DEF EnqueueCopy, Step
  <2>2. \A i \in 1 .. Count : Wrap(head + i - 1) # tail /\ Wrap(head + i - 1) \in Slots
    BY <1>2, <1>3, <2>1 DEF FifoInv, RingOK, TypeOK, Slots, Wrap, FillingLabels
  <2>3. RingOK'
    BY <1>2, <2>1, <2>2 DEF FifoInv, RingOK, TypeOK
  <2>4. BuffersOK'
    BY <1>4, <1>5, <2>1 DEF FifoInv, BuffersOK, TypeOK, SendingLabels
  <2>5. QED
    BY <1>1, <1>2, <2>3, <2>4 DEF FifoInv
<1>8. CASE EnqueueAdvance(u)
  <2>1. /\ pc[u] = "advance" /\ pc' = [pc EXCEPT ![u] = "unlock"]
        /\ tail' = NextIndex(tail)
        /\ UNCHANGED <<head, jobs, job>>
    BY <1>8 DEF EnqueueAdvance, Step
  <2>2. jobs[tail] = job[u] /\ job[u] \in Jobs
    BY <2>1 DEF FifoInv, BuffersOK, SendingLabels
  <2>3. tail' = Wrap(head + Count + 1)
    BY <1>2, <1>3, <2>1, NextIndexValue
       DEF FifoInv, RingOK, TypeOK, Slots, Wrap, FillingLabels
  <2>4. RingOK'
    <3>1. ASSUME NEW i \in 1 .. Count + 1 PROVE jobs[Wrap(head + i - 1)] \in Jobs
      <4>1. CASE i = Count + 1
        BY <1>3, <2>2, <4>1 DEF FifoInv, RingOK, TypeOK, Slots
      <4>2. CASE i \in 1 .. Count
        BY <4>2 DEF FifoInv, RingOK
      <4>3. QED
        BY <1>3, <4>1, <4>2
    <3>2. tail' = Wrap(head + (Count + 1))
      BY <1>3, <2>3 DEF FifoInv, TypeOK, Slots
    <3>3. QED
      BY <1>2, <2>1, <3>1, <3>2 DEF RingOK
  <2>5. BuffersOK'
    BY <1>4, <1>5, <2>1 DEF FifoInv, BuffersOK, TypeOK, SendingLabels
  <2>6. QED
    BY <1>1, <1>2, <2>4, <2>5 DEF FifoInv
<1>9. QED
  BY <1>6, <1>7, <1>8 DEF User, MakeJob, EnqueueWait, EnqueueLock, EnqueueUnlock,
                          EnqueuePost, Step, FifoInv, TypeOK, Processes

\* The same for a printer.
LEMMA PrinterRing ==
    ASSUME FifoInv, NEW p \in Printers, Printer(p)
    PROVE  FifoInv'
<1>1. TypeOK' /\ MutexInv'
  BY PrinterType, PrinterMutex DEF FifoInv
<1>2. /\ CountOK'
      /\ Count' = IF pc[p] = "advance" THEN Count - 1 ELSE Count
      /\ pc[p] \in FetchingLabels => Count > 0
  BY PrinterCount DEF FifoInv
<1>3. Count \in 0 .. QUEUE_SIZE /\ QUEUE_SIZE \in Nat \ {0}
  BY CountRange, QueueAssumption DEF FifoInv
<1>4. p \in Processes /\ p \notin Users /\ Users \subseteq Processes
      /\ Printers \subseteq Processes
  BY QueueAssumption DEF Processes
<1>5. pc[p] \in {"copy", "advance"} =>
        \A q \in Processes \ {p} : pc[q] \notin {"copy", "advance"}
  BY <1>4 DEF FifoInv, MutexInv, MutualExclusion, InCriticalSection
<1>6. CASE UNCHANGED <<ring, job>> /\ pc[p] # "advance" /\ pc'[p] # "advance"
  <2>1. RingOK'
    BY <1>2, <1>6 DEF FifoInv, RingOK, ring
  <2>2. /\ pc' = [pc EXCEPT ![p] = pc'[p]]
        /\ pc'[p] \in PrintingLabels => pc[p] \in PrintingLabels
    BY <1>6 DEF Printer, DequeueWait, DequeueLock, DequeueCopy, DequeueAdvance,
                DequeueUnlock, DequeuePost, PrintJob, Step, PrintingLabels, FifoInv, TypeOK
  <2>3. BuffersOK'
    BY <1>4, <1>6, <2>2 DEF FifoInv, BuffersOK, TypeOK, ring
  <2>4. QED
    BY <1>1, <1>2, <2>1, <2>3 DEF FifoInv
<1>7. CASE DequeueCopy(p)
  <2>1. /\ pc[p] = "copy" /\ pc' = [pc EXCEPT ![p] = "advance"]
        /\ job' = [job EXCEPT ![p] = jobs[head]]
        /\ UNCHANGED ring
    BY <1>7 DEF DequeueCopy, Step
  <2>2. RingOK'
    BY <1>2, <2>1 DEF FifoInv, RingOK, ring
  <2>3. BuffersOK'
    BY <1>4, <1>5, <2>1 DEF FifoInv, BuffersOK, TypeOK, PrintingLabels, ring
  <2>4. QED
    BY <1>1, <1>2, <2>2, <2>3 DEF FifoInv
<1>8. CASE DequeueAdvance(p)
  <2>1. /\ pc[p] = "advance" /\ pc' = [pc EXCEPT ![p] = "unlock"]
        /\ head' = NextIndex(head)
        /\ UNCHANGED <<tail, jobs, job>>
    BY <1>8 DEF DequeueAdvance, Step
  <2>2. Count > 0 /\ Count' = Count - 1
    BY <1>2, <2>1 DEF FetchingLabels
  <2>3. head' = IF head + 1 = QUEUE_SIZE THEN 0 ELSE head + 1
    BY <2>1, NextIndexValue DEF FifoInv, TypeOK
  <2>4. job[p] \in Jobs
    <3>1. Wrap(head + 1 - 1) = head
      BY <1>3 DEF FifoInv, TypeOK, Slots, Wrap
    <3>2. jobs[Wrap(head + 1 - 1)] \in Jobs
      BY <1>3, <2>2 DEF FifoInv, RingOK
    <3>3. QED
      BY <2>1, <3>1, <3>2 DEF FifoInv, BuffersOK
  <2>5. RingOK'
    <3>1. Wrap(head' + (Count - 1)) = Wrap(head + Count)
      BY <1>3, <2>2, <2>3 DEF FifoInv, TypeOK, Slots, Wrap
    <3>2. ASSUME NEW i \in 1 .. Count - 1 PROVE jobs[Wrap(head' + i - 1)] \in Jobs
      <4>1. Wrap(head' + i - 1) = Wrap(head + (i + 1) - 1)
        BY <1>3, <2>3 DEF FifoInv, TypeOK, Slots, Wrap
      <4>2. i + 1 \in 1 .. Count
        BY <1>3
      <4>3. QED
        BY <4>1, <4>2 DEF FifoInv, RingOK
    <3>3. QED
      BY <2>1, <2>2, <3>1, <3>2 DEF FifoInv, RingOK
  <2>6. BuffersOK'
    BY <1>4, <1>5, <2>1, <2>4 DEF FifoInv, BuffersOK, TypeOK, PrintingLabels
  <2>7. QED
    BY <1>1, <1>2, <2>5, <2>6 DEF FifoInv
<1>9. QED
  BY <1>6, <1>7, <1>8 DEF Printer, DequeueWait, DequeueLock, DequeueUnlock, DequeuePost,
                          PrintJob, Step, FifoInv, TypeOK, Processes

LEMMA InitFifo == Init => FifoInv
<1> SUFFICES ASSUME Init PROVE FifoInv
  OBVIOUS
<1>1. TypeOK
  BY InitType
<1>2. MutexInv
  BY DEF Init, MutexInv, MutualExclusion, InCriticalSection, StartPC
<1>3. Announcing = {} /\ Fetching = {} /\ Filling = {} /\ Emptied = {}
  BY QueueAssumption DEF Init, StartPC, Processes, Announcing, Fetching, Filling, Emptied,
        At, FillingLabels, EmptiedLabels
<1>4. Count = 0 /\ CountOK
  BY <1>3, FS_EmptySet, QueueAssumption DEF Init, Count, CountOK
<1>5. RingOK
  BY <1>4, QueueAssumption DEF Init, RingOK, Wrap
<1>6. BuffersOK
  BY QueueAssumption DEF Init, BuffersOK, StartPC, Processes, SendingLabels, PrintingLabels
<1>7. QED
  BY <1>1, <1>2, <1>4, <1>5, <1>6 DEF FifoInv

\* The invariant under which the spooler is a FIFO queue.
LEMMA FifoInvariant == Spec => []FifoInv
<1>1. FifoInv /\ [Next]_vars => FifoInv'
  <2> SUFFICES ASSUME FifoInv, [Next]_vars PROVE FifoInv'
    OBVIOUS
  <2>1. CASE \E u \in Users : User(u)        BY <2>1, UserRing
  <2>2. CASE \E p \in Printers : Printer(p)  BY <2>2, PrinterRing
  <2>3. CASE UNCHANGED vars
    BY <2>3 DEF vars, FifoInv, TypeOK, MutexInv, MutualExclusion, InCriticalSection,
                CountOK, Count, Announcing, Fetching, Filling, Emptied, At, RingOK, BuffersOK
  <2>4. QED
    BY <2>1, <2>2, <2>3 DEF Next
<1>2. QED
  BY InitFifo, <1>1, PTL DEF Spec

-----------------------------------------------------------------------------
(* Every step is one of the FIFO queue or changes nothing there. *)

Sending == [u \in Users |->
    IF pc[u] \in {"wait_empty", "lock", "copy", "advance"} THEN job[u] ELSE NoJob]
Printing == [p \in Printers |->
    IF pc[p] \in {"unlock", "post_empty", "print"} THEN job[p] ELSE NoJob]

\* The queue as a sequence of jobs.
QueueReads ==
    /\ Queue \in Seq(Jobs) /\ Len(Queue) = Count
    /\ \A i \in 1 .. Count : Queue[i] = jobs[Wrap(head + i - 1)]

LEMMA QueueIs == FifoInv => QueueReads
<1> SUFFICES ASSUME FifoInv PROVE QueueReads
  OBVIOUS
<1>1. Count \in 0 .. QUEUE_SIZE /\ QUEUE_SIZE \in Nat \ {0} /\ head \in 0 .. QUEUE_SIZE - 1
  BY CountRange, QueueAssumption DEF FifoInv, TypeOK, Slots
<1>2. ASSUME NEW i \in 1 .. Count PROVE (head + i - 1) % QUEUE_SIZE = Wrap(head + i - 1)
  <2>1. head + i - 1 \in Nat /\ head + i - 1 < 2 * QUEUE_SIZE
    BY <1>1
  <2>2. QED
    BY <2>1, WrapIsMod
<1>3. \A i \in 1 .. Count : Queue[i] = jobs[Wrap(head + i - 1)]
  BY <1>2 DEF Queue
<1>4. Queue \in [1 .. Count -> Jobs]
  BY <1>2 DEF Queue, FifoInv, RingOK
<1>5. Queue \in Seq(Jobs)
  BY <1>1, <1>4
<1>6. Len(Queue) = Count
  BY <1>1, <1>4
<1>7. QED
  BY <1>3, <1>5, <1>6 DEF QueueReads

LEMMA QueueIsNext == FifoInv' => QueueReads'
BY QueueIs, PTL

\* Two queues of the same length with the same jobs are the same.
LEMMA SameQueue ==
    ASSUME FifoInv, FifoInv', UNCHANGED <<jobs, head>>, Count' = Count
    PROVE  Queue' = Queue
BY DEF Queue

\* A step inside a call, which moves no index, is a step of nobody.
LEMMA UserMaps ==
    ASSUME FifoInv, FifoInv', NEW u \in Users, User(u)
    PROVE  \/ Fifo!Submit(u) \/ Fifo!Put(u)
           \/ UNCHANGED <<Queue, Sending, Printing>>
<1>1. /\ Count' = IF pc[u] = "advance" THEN Count + 1 ELSE Count
      /\ pc[u] \in FillingLabels => Count < QUEUE_SIZE
      /\ Count \in 0 .. QUEUE_SIZE
  BY UserCount, CountRange DEF FifoInv
<1>2. u \in Processes /\ u \notin Printers /\ Users \subseteq Processes
      /\ Printers \subseteq Processes /\ NoJob \notin Jobs /\ QUEUE_SIZE \in Nat \ {0}
  BY QueueAssumption DEF Processes
<1>3. QueueReads /\ QueueReads'
  BY QueueIs, QueueIsNext
<1>4. /\ pc = [q \in Processes |-> pc[q]] /\ job = [q \in Processes |-> job[q]]
  BY DEF FifoInv, TypeOK
<1>5. CASE MakeJob(u)
  <2>1. /\ pc[u] = "idle" /\ pc' = [pc EXCEPT ![u] = "wait_empty"]
        /\ UNCHANGED ring
    BY <1>5 DEF MakeJob, Step
  <2>2. PICK j \in Jobs : job' = [job EXCEPT ![u] = j]
    BY <1>5 DEF MakeJob
  <2>3. Queue' = Queue
    BY <1>1, <2>1, SameQueue DEF ring
  <2>4. Sending[u] = NoJob /\ Sending' = [Sending EXCEPT ![u] = j]
    BY <1>2, <1>4, <2>1, <2>2 DEF Sending
  <2>5. Printing' = Printing
    BY <1>2, <1>4, <2>1, <2>2 DEF Printing
  <2>6. QED
    BY <2>3, <2>4, <2>5 DEF Fifo!Submit, Sending, Printing
<1>6. CASE EnqueueAdvance(u)
  <2>1. /\ pc[u] = "advance" /\ pc' = [pc EXCEPT ![u] = "unlock"]
        /\ UNCHANGED <<jobs, head, job>>
    BY <1>6 DEF EnqueueAdvance, Step
  <2>2. /\ Sending[u] = job[u] /\ job[u] \in Jobs /\ jobs[tail] = job[u]
        /\ Sending' = [Sending EXCEPT ![u] = NoJob]
    BY <1>2, <1>4, <2>1 DEF Sending, FifoInv, BuffersOK, SendingLabels
  <2>3. Printing' = Printing
    BY <1>2, <1>4, <2>1 DEF Printing
  <2>4. Len(Queue) < QUEUE_SIZE
    BY <1>1, <1>3, <2>1 DEF QueueReads, FillingLabels
  <2>5. Queue' = Append(Queue, job[u])
    <3>1. /\ Append(Queue, job[u]) \in Seq(Jobs)
          /\ Len(Append(Queue, job[u])) = Count + 1
          /\ \A i \in 1 .. Count : Append(Queue, job[u])[i] = Queue[i]
          /\ Append(Queue, job[u])[Count + 1] = job[u]
      BY <1>1, <1>3, <2>2 DEF QueueReads
    <3>2. /\ Queue' \in Seq(Jobs) /\ Len(Queue') = Count + 1
          /\ \A i \in 1 .. Count + 1 : Queue'[i] = jobs[Wrap(head + i - 1)]
      BY <1>1, <1>3, <2>1 DEF QueueReads
    <3>3. Queue'[Count + 1] = job[u]
      <4>1. head + (Count + 1) - 1 = head + Count
        BY <1>1 DEF FifoInv, TypeOK, Slots
      <4>2. QED
        BY <1>1, <2>2, <3>2, <4>1 DEF FifoInv, RingOK
    <3>4. \A i \in 1 .. Count : Queue'[i] = Queue[i]
      BY <1>1, <1>3, <3>2 DEF QueueReads
    <3>5. \A i \in 1 .. Count + 1 : Queue'[i] = Append(Queue, job[u])[i]
      BY <1>1, <3>1, <3>3, <3>4
    <3>6. QED
      BY <3>1, <3>2, <3>5, SeqEqual
  <2>6. QED
    BY <1>2, <2>2, <2>3, <2>4, <2>5 DEF Fifo!Put, Sending, Printing
<1>7. CASE EnqueueCopy(u)
  <2>1. /\ pc[u] = "copy" /\ pc' = [pc EXCEPT ![u] = "advance"]
        /\ jobs' = [jobs EXCEPT ![tail] = job[u]]
        /\ UNCHANGED <<head, tail, job>>
    BY <1>7 DEF EnqueueCopy, Step
  <2>2. Count < QUEUE_SIZE /\ Count' = Count
    BY <1>1, <2>1 DEF FillingLabels
  <2>3. \A i \in 1 .. Count : Wrap(head + i - 1) # tail
    BY <1>1, <1>2, <2>2 DEF FifoInv, RingOK, TypeOK, Slots, Wrap
  <2>4. \A i \in 1 .. Count : jobs'[Wrap(head + i - 1)] = jobs[Wrap(head + i - 1)]
    BY <2>1, <2>3 DEF FifoInv, TypeOK
  <2>5. Queue' = Queue
    BY <1>3, <2>1, <2>2, <2>4, SeqEqual DEF QueueReads
  <2>6. Sending' = Sending /\ Printing' = Printing
    BY <1>2, <1>4, <2>1 DEF Sending, Printing
  <2>7. QED
    BY <2>5, <2>6
<1>8. CASE EnqueueWait(u) \/ EnqueueLock(u) \/ EnqueueUnlock(u) \/ EnqueuePost(u)
  <2>1. UNCHANGED <<ring, job>> /\ pc[u] # "advance"
    BY <1>8 DEF EnqueueWait, EnqueueLock, EnqueueUnlock, EnqueuePost, Step
  <2>2. /\ pc' = [pc EXCEPT ![u] = pc'[u]]
        /\ pc'[u] \in SendingLabels <=> pc[u] \in SendingLabels
    BY <1>4, <1>8 DEF EnqueueWait, EnqueueLock, EnqueueUnlock, EnqueuePost, Step, SendingLabels
  <2>3. Queue' = Queue
    BY <1>1, <2>1, SameQueue DEF ring
  <2>4. Sending' = Sending /\ Printing' = Printing
    BY <1>2, <1>4, <2>1, <2>2 DEF Sending, Printing, SendingLabels
  <2>5. QED
    BY <2>3, <2>4
<1>9. QED
  BY <1>5, <1>6, <1>7, <1>8 DEF User

LEMMA PrinterMaps ==
    ASSUME FifoInv, FifoInv', NEW p \in Printers, Printer(p)
    PROVE  \/ Fifo!Take(p) \/ Fifo!Finish(p)
           \/ UNCHANGED <<Queue, Sending, Printing>>
<1>1. /\ Count' = IF pc[p] = "advance" THEN Count - 1 ELSE Count
      /\ pc[p] \in FetchingLabels => Count > 0
      /\ Count \in 0 .. QUEUE_SIZE
  BY PrinterCount, CountRange DEF FifoInv
<1>2. p \in Processes /\ p \notin Users /\ Users \subseteq Processes
      /\ Printers \subseteq Processes /\ NoJob \notin Jobs /\ QUEUE_SIZE \in Nat \ {0}
  BY QueueAssumption DEF Processes
<1>3. QueueReads /\ QueueReads'
  BY QueueIs, QueueIsNext
<1>4. /\ pc = [q \in Processes |-> pc[q]] /\ job = [q \in Processes |-> job[q]]
  BY DEF FifoInv, TypeOK
<1>5. CASE PrintJob(p)
  <2>1. /\ pc[p] = "print" /\ pc' = [pc EXCEPT ![p] = "wait_full"]
        /\ UNCHANGED <<ring, job>>
    BY <1>5 DEF PrintJob, Step
  <2>2. Queue' = Queue
    BY <1>1, <2>1, SameQueue DEF ring
  <2>3. Printing[p] # NoJob /\ Printing' = [Printing EXCEPT ![p] = NoJob]
    BY <1>2, <1>4, <2>1 DEF Printing, FifoInv, BuffersOK, PrintingLabels
  <2>4. Sending' = Sending
    BY <1>2, <1>4, <2>1 DEF Sending
  <2>5. QED
    BY <2>2, <2>3, <2>4 DEF Fifo!Finish, Sending, Printing
<1>6. CASE DequeueAdvance(p)
  <2>1. /\ pc[p] = "advance" /\ pc' = [pc EXCEPT ![p] = "unlock"]
        /\ head' = NextIndex(head)
        /\ UNCHANGED <<jobs, tail, job>>
    BY <1>6 DEF DequeueAdvance, Step
  <2>2. Count > 0 /\ Count' = Count - 1
    BY <1>1, <2>1 DEF FetchingLabels
  <2>3. Queue # <<>> /\ Queue \in Seq(Jobs) /\ Len(Queue) = Count
    BY <1>1, <1>3, <2>2 DEF QueueReads
  <2>4. Head(Queue) = job[p]
    <3>1. Head(Queue) = Queue[1] /\ 1 \in 1 .. Count
      BY <1>1, <2>2, <2>3
    <3>2. Wrap(head + 1 - 1) = head
      BY <1>2 DEF FifoInv, TypeOK, Slots, Wrap
    <3>3. QED
      BY <1>3, <2>1, <3>1, <3>2 DEF QueueReads, FifoInv, BuffersOK
  <2>5. Queue' = Tail(Queue)
    <3>1. head' = IF head + 1 = QUEUE_SIZE THEN 0 ELSE head + 1
      BY <2>1, NextIndexValue DEF FifoInv, TypeOK
    <3>2. /\ Tail(Queue) \in Seq(Jobs) /\ Len(Tail(Queue)) = Count - 1
          /\ \A i \in 1 .. Count - 1 : Tail(Queue)[i] = Queue[i + 1]
      BY <2>3, HeadTailProperties
    <3>3. /\ Queue' \in Seq(Jobs) /\ Len(Queue') = Count - 1
          /\ \A i \in 1 .. Count - 1 : Queue'[i] = jobs[Wrap(head' + i - 1)]
      BY <1>3, <2>1, <2>2 DEF QueueReads
    <3>4. ASSUME NEW i \in 1 .. Count - 1 PROVE Queue'[i] = Queue[i + 1]
      <4>1. Wrap(head' + i - 1) = Wrap(head + (i + 1) - 1)
        BY <1>1, <1>2, <3>1 DEF FifoInv, TypeOK, Slots, Wrap
      <4>2. i + 1 \in 1 .. Count
        BY <1>1
      <4>3. QED
        BY <1>3, <3>3, <4>1, <4>2 DEF QueueReads
    <3>5. QED
      BY <3>2, <3>3, <3>4, SeqEqual
  <2>6. Printing[p] = NoJob /\ Printing' = [Printing EXCEPT ![p] = job[p]]
    BY <1>2, <1>4, <2>1 DEF Printing
  <2>7. Sending' = Sending
    BY <1>2, <1>4, <2>1 DEF Sending
  <2>8. QED
    BY <2>3, <2>4, <2>5, <2>6, <2>7 DEF Fifo!Take, Sending, Printing
<1>7. CASE DequeueCopy(p)
  <2>1. /\ pc[p] = "copy" /\ pc' = [pc EXCEPT ![p] = "advance"]
        /\ job' = [job EXCEPT ![p] = jobs[head]] /\ UNCHANGED ring
    BY <1>7 DEF DequeueCopy, Step
  <2>2. Queue' = Queue
    BY <1>1, <2>1, SameQueue DEF ring
  <2>3. Sending' = Sending /\ Printing' = Printing
    BY <1>2, <1>4, <2>1 DEF Sending, Printing
  <2>4. QED
    BY <2>2, <2>3
<1>8. CASE DequeueWait(p) \/ DequeueLock(p) \/ DequeueUnlock(p) \/ DequeuePost(p)
  <2>1. UNCHANGED <<ring, job>> /\ pc[p] # "advance"
    BY <1>8 DEF DequeueWait, DequeueLock, DequeueUnlock, DequeuePost, Step
  <2>2. /\ pc' = [pc EXCEPT ![p] = pc'[p]]
        /\ pc'[p] \in PrintingLabels <=> pc[p] \in PrintingLabels
    BY <1>4, <1>8
       DEF DequeueWait, DequeueLock, DequeueUnlock, DequeuePost, Step, PrintingLabels
  <2>3. Queue' = Queue
    BY <1>1, <2>1, SameQueue DEF ring
  <2>4. Sending' = Sending /\ Printing' = Printing
    BY <1>2, <1>4, <2>1, <2>2 DEF Sending, Printing, PrintingLabels
  <2>5. QED
    BY <2>3, <2>4
<1>9. QED
  BY <1>5, <1>6, <1>7, <1>8 DEF Printer

\* The spooler implements the bounded FIFO queue: every job sent is printed at most
\* once, in the order of the queue, and nothing is overwritten, for every number of
\* users, printers and slots.
THEOREM SpoolerImplementsFifo == Spec => ImplementsFifo
<1>1. Init => Fifo!Init
  <2> SUFFICES ASSUME Init PROVE Fifo!Init
    OBVIOUS
  <2>1. FifoInv
    BY InitFifo
  <2>2. Count = 0
    <3>1. Announcing = {} /\ Fetching = {}
      BY QueueAssumption DEF Init, StartPC, Processes, Announcing, Fetching
    <3>2. QED
      BY <3>1, FS_EmptySet DEF Init, Count
  <2>3. Queue = <<>>
    BY <2>1, <2>2, QueueIs, EmptySeq DEF QueueReads
  <2>4. /\ Sending = [u \in Users |-> NoJob]
        /\ Printing = [p \in Printers |-> NoJob]
    BY QueueAssumption DEF Init, StartPC, Processes, Sending, Printing
  <2>5. QED
    BY <2>3, <2>4 DEF Fifo!Init, Sending, Printing
<1>2. FifoInv /\ FifoInv' /\ [Next]_vars => [Fifo!Next]_(Fifo!absVars)
  <2> SUFFICES ASSUME FifoInv, FifoInv', [Next]_vars
               PROVE  Fifo!Next \/ UNCHANGED <<Queue, Sending, Printing>>
    BY DEF Fifo!absVars, Sending, Printing
  <2>1. CASE \E u \in Users : User(u)
    BY <2>1, UserMaps DEF Fifo!Next
  <2>2. CASE \E p \in Printers : Printer(p)
    BY <2>2, PrinterMaps DEF Fifo!Next
  <2>3. CASE UNCHANGED vars
    BY <2>3 DEF vars, Queue, Count, Announcing, Fetching, Sending, Printing
  <2>4. QED
    BY <2>1, <2>2, <2>3 DEF Next
<1>3. QED
  BY <1>1, <1>2, FifoInvariant, PTL DEF Spec, Fifo!Spec, ImplementsFifo
=============================================================================
