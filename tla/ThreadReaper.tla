---------------------------- MODULE ThreadReaper ----------------------------
(***************************************************************************)
(* The example of Funkcje/Mutex/main.c: the main thread joins its threads  *)
(* in the order in which they end.  It waits on the condition variable     *)
(* threadDied, on which an ending thread broadcasts after it has given     *)
(* the mutex back; and it joins while it holds the mutex.                  *)
(*                                                                         *)
(* What a thread does with the mutex is one step.  The main thread has it  *)
(* from the end of its wait to its unlock, while it is "reaping".          *)
(***************************************************************************)
EXTENDS Naturals, FiniteSets

CONSTANT totThreads     \* argc - 1

ASSUME ReaperAssumption == totThreads \in Nat \ {0}

VARIABLES
    state,                  \* thread[].state, without the prefix TS_
    numLive, numUnjoined,
    worker,                 \* where each thread is
    reaper                  \* where the main thread is

reaperVars == <<state, numLive, numUnjoined, worker, reaper>>

Threads == 0 .. totThreads - 1
InState(s) == {t \in Threads : state[t] = s}

ReaperInit ==
    /\ state = [t \in Threads |-> "ALIVE"]
    /\ numLive = 0 /\ numUnjoined = 0
    /\ worker = [t \in Threads |-> "none"]
    /\ reaper = "create"

\* pthread_create, in the order of the array.
CreateThread(t) ==
    /\ reaper = "create" /\ worker[t] = "none"
    /\ \A u \in 0 .. t - 1 : worker[u] # "none"
    /\ worker' = [worker EXCEPT ![t] = "running"]
    /\ UNCHANGED <<state, numLive, numUnjoined, reaper>>

AllCreated ==
    /\ reaper = "create" /\ \A t \in Threads : worker[t] # "none"
    /\ numLive' = totThreads /\ reaper' = "lock"
    /\ UNCHANGED <<state, numUnjoined, worker>>

\* threadFunc, with the mutex.
Terminate(t) ==
    /\ worker[t] = "running" /\ reaper # "reaping"
    /\ numUnjoined' = numUnjoined + 1
    /\ state' = [state EXCEPT ![t] = "TERMINATED"]
    /\ worker' = [worker EXCEPT ![t] = "unlocked"]
    /\ UNCHANGED <<numLive, reaper>>

\* Mutant: the condition variable is not signalled.
Broadcast_Not(t) ==
    /\ worker[t] = "unlocked"
    /\ worker' = [worker EXCEPT ![t] = "ended"]
    /\ UNCHANGED <<state, numLive, numUnjoined, reaper>>

\* threadFunc, without it: pthread_cond_broadcast and return.
Broadcast(t) ==
    /\ worker[t] = "unlocked"
    /\ worker' = [worker EXCEPT ![t] = "ended"]
    /\ reaper' = IF reaper = "waiting" THEN "lock" ELSE reaper
    /\ UNCHANGED <<state, numLive, numUnjoined>>

\* The mutex is taken, and given back by pthread_cond_wait if nobody has ended.
LockAndTest ==
    /\ reaper = "lock"
    /\ reaper' = IF numUnjoined = 0 THEN "waiting" ELSE "reaping"
    /\ UNCHANGED <<state, numLive, numUnjoined, worker>>

\* pthread_cond_wait may return without a signal.
WakeSpuriously ==
    /\ reaper = "waiting" /\ reaper' = "lock"
    /\ UNCHANGED <<state, numLive, numUnjoined, worker>>

\* Mutant: the thread joined stays counted as unjoined.
JoinThread_StaysCounted(t) ==
    /\ reaper = "reaping" /\ state[t] = "TERMINATED" /\ worker[t] = "ended"
    /\ state' = [state EXCEPT ![t] = "JOINED"]
    /\ numLive' = numLive - 1
    /\ UNCHANGED <<numUnjoined, worker, reaper>>

\* pthread_join returns when the thread has; lower indices were joined before.
JoinThread(t) ==
    /\ reaper = "reaping" /\ state[t] = "TERMINATED" /\ worker[t] = "ended"
    /\ \A u \in 0 .. t - 1 : state[u] # "TERMINATED"
    /\ state' = [state EXCEPT ![t] = "JOINED"]
    /\ numLive' = numLive - 1 /\ numUnjoined' = numUnjoined - 1
    /\ UNCHANGED <<worker, reaper>>

Unlock ==
    /\ reaper = "reaping" /\ InState("TERMINATED") = {}
    /\ reaper' = IF numLive > 0 THEN "lock" ELSE "exited"
    /\ UNCHANGED <<state, numLive, numUnjoined, worker>>

Reap ==
    \/ AllCreated \/ LockAndTest \/ Unlock
    \/ \E t \in Threads : CreateThread(t) \/ JoinThread(t)
Work(t) == Terminate(t) \/ Broadcast(t)

ReaperNext == Reap \/ WakeSpuriously \/ \E t \in Threads : Work(t)
ReaperSpec == ReaperInit /\ [][ReaperNext]_reaperVars

ReaperFairness == WF_reaperVars(Reap) /\ \A t \in Threads : WF_reaperVars(Work(t))

-----------------------------------------------------------------------------
\* Every thread has one of the three states, and no counter leaves 0 .. totThreads.
ReaperTypeOK ==
    /\ state \in [Threads -> {"ALIVE", "TERMINATED", "JOINED"}]
    /\ numLive \in 0 .. totThreads /\ numUnjoined \in 0 .. totThreads
    /\ worker \in [Threads -> {"none", "running", "unlocked", "ended"}]
    /\ reaper \in {"create", "lock", "waiting", "reaping", "exited"}

\* The counters agree with the states in the array, also while threads end
\* before all of them are created: numUnjoined counts the terminated ones, numLive
\* (set after the loop, main.c:103) all that are not joined.
ThreadsCounted ==
    /\ numUnjoined = Cardinality(InState("TERMINATED"))
    /\ reaper # "create" => numLive = totThreads - Cardinality(InState("JOINED"))

\* The broadcast comes after the mutex was given back (main.c:58-63), and yet none
\* is missed: while the main thread waits, nobody is to be joined or the
\* thread that is has its broadcast before it.
ReaperNotMissed ==
    reaper = "waiting" /\ numUnjoined > 0 => \E t \in Threads : worker[t] = "unlocked"

\* The main thread joins every thread and exits: it never waits for a thread that
\* waits for the mutex it holds (main.c:125).
AllJoined ==
    \A t \in Threads : worker[t] = "running" ~> reaper = "exited" /\ state[t] = "JOINED"

=============================================================================
