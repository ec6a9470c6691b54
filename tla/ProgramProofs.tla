--------------------------- MODULE ProgramProofs ---------------------------
(***************************************************************************)
(* What TLAPS proves of the small programs, for every value of their       *)
(* constants: ThreadReaper, SignalModes, Collatz, Integral, CommonFile and *)
(* HandOver, one after the other.  Their modules share no variable, and    *)
(* each theorem is about the specification of its own program.             *)
(***************************************************************************)
EXTENDS ThreadReaper, CommonFile, HandOver, SignalModes, Integral, Collatz,
        FiniteSetTheorems, SequenceTheorems, TLAPS

-----------------------------------------------------------------------------
(* ThreadReaper.                                                           *)

\* Where a thread is says whether it has marked its entry, and nothing is joined
\* before all threads are created.
WorkersMatch ==
    /\ \A t \in Threads : worker[t] \in {"none", "running"} <=> state[t] = "ALIVE"
    /\ reaper = "create" => InState("JOINED") = {}

\* The types, without the bounds of the counters, which follow from ReaperInv.
ReaperTypes ==
    /\ state \in [Threads -> {"ALIVE", "TERMINATED", "JOINED"}]
    /\ numLive \in Int /\ numUnjoined \in Int
    /\ worker \in [Threads -> {"none", "running", "unlocked", "ended"}]
    /\ reaper \in {"create", "lock", "waiting", "reaping", "exited"}

ReaperInv == ReaperTypes /\ WorkersMatch /\ ThreadsCounted /\ ReaperNotMissed
          /\ (reaper = "create" => numLive = 0)

LEMMA ThreadsFinite ==
    /\ IsFiniteSet(Threads) /\ Cardinality(Threads) = totThreads
    /\ \A s : /\ IsFiniteSet(InState(s)) /\ Cardinality(InState(s)) \in 0 .. totThreads
<1>1. IsFiniteSet(Threads) /\ Cardinality(Threads) = totThreads
  BY FS_Interval, ReaperAssumption DEF Threads
<1>2. ASSUME NEW s
      PROVE  IsFiniteSet(InState(s)) /\ Cardinality(InState(s)) \in 0 .. totThreads
  <2>1. InState(s) \subseteq Threads
    BY DEF InState
  <2>2. IsFiniteSet(InState(s)) /\ Cardinality(InState(s)) <= totThreads
    BY <1>1, <2>1, FS_Subset
  <2>3. QED
    BY <2>2, FS_CardinalityType, ReaperAssumption
<1>3. QED
  BY <1>1, <1>2

\* The array entry of one thread changes: one set loses the thread, one gains it.
LEMMA EntryMoves ==
    ASSUME state \in [Threads -> {"ALIVE", "TERMINATED", "JOINED"}],
           NEW t \in Threads, NEW from, NEW to, from # to,
           state[t] = from, state' = [state EXCEPT ![t] = to]
    PROVE  /\ Cardinality(InState(from)') = Cardinality(InState(from)) - 1
           /\ Cardinality(InState(to)') = Cardinality(InState(to)) + 1
<1>1. InState(from)' = InState(from) \ {t} /\ t \in InState(from)
  BY DEF InState
<1>2. InState(to)' = InState(to) \cup {t} /\ t \notin InState(to)
  BY DEF InState
<1>3. Cardinality(InState(from) \ {t}) = Cardinality(InState(from)) - 1
  BY <1>1, ThreadsFinite, FS_RemoveElement
<1>4. Cardinality(InState(to) \cup {t}) = Cardinality(InState(to)) + 1
  BY <1>2, ThreadsFinite, FS_AddElement
<1>5. QED
  BY <1>1, <1>2, <1>3, <1>4

LEMMA ReaperInitInv == ReaperInit => ReaperInv
<1>1. SUFFICES ASSUME ReaperInit PROVE ReaperInv
  OBVIOUS
<1>2. InState("TERMINATED") = {} /\ InState("JOINED") = {}
  BY <1>1 DEF ReaperInit, InState
<1>3. QED
  BY <1>1, <1>2, FS_EmptySet
     DEF ReaperInit, ReaperInv, ReaperTypes, WorkersMatch, ThreadsCounted, ReaperNotMissed

LEMMA ReaperStepInv ==
    ASSUME ReaperInv, [ReaperNext]_reaperVars
    PROVE  ReaperInv'
<1> USE DEF ReaperInv, ReaperTypes
<1>1. ASSUME NEW t \in Threads, CreateThread(t)
      PROVE  ReaperInv'
  BY <1>1 DEF CreateThread, WorkersMatch, ThreadsCounted, ReaperNotMissed, InState
<1>2. CASE AllCreated
  <2>1. Cardinality(InState("JOINED")) = 0
    BY <1>2, FS_EmptySet DEF AllCreated, WorkersMatch
  <2>2. QED
    BY <1>2, <2>1, ReaperAssumption
       DEF AllCreated, WorkersMatch, ThreadsCounted, ReaperNotMissed, InState
<1>3. ASSUME NEW t \in Threads, Terminate(t)
      PROVE  ReaperInv'
  <2>1. state[t] = "ALIVE"
    BY <1>3 DEF Terminate, WorkersMatch
  <2>2. /\ Cardinality(InState("TERMINATED")') = Cardinality(InState("TERMINATED")) + 1
        /\ InState("JOINED")' = InState("JOINED")
    <3>1. InState("JOINED")' = InState("JOINED")
      BY <1>3, <2>1 DEF Terminate, InState
    <3>2. QED
      BY <1>3, <2>1, <3>1, EntryMoves DEF Terminate
  <2>3. ReaperTypes' /\ WorkersMatch'
    BY <1>3, <2>2 DEF Terminate, WorkersMatch
  <2>4. ThreadsCounted'
    BY <1>3, <2>2 DEF Terminate, ThreadsCounted
  <2>5. ReaperNotMissed' /\ (reaper = "create" => numLive = 0)'
    BY <1>3 DEF Terminate, ReaperNotMissed
  <2>6. QED
    BY <2>3, <2>4, <2>5
<1>4. ASSUME NEW t \in Threads, Broadcast(t)
      PROVE  ReaperInv'
  BY <1>4 DEF Broadcast, WorkersMatch, ThreadsCounted, ReaperNotMissed, InState
<1>5. CASE LockAndTest
  BY <1>5 DEF LockAndTest, WorkersMatch, ThreadsCounted, ReaperNotMissed, InState
<1>6. CASE WakeSpuriously
  BY <1>6 DEF WakeSpuriously, WorkersMatch, ThreadsCounted, ReaperNotMissed, InState
<1>7. ASSUME NEW t \in Threads, JoinThread(t)
      PROVE  ReaperInv'
  <2>1. /\ Cardinality(InState("TERMINATED")') = Cardinality(InState("TERMINATED")) - 1
        /\ Cardinality(InState("JOINED")') = Cardinality(InState("JOINED")) + 1
    BY <1>7, EntryMoves DEF JoinThread
  <2>2. ReaperTypes' /\ WorkersMatch'
    BY <1>7 DEF JoinThread, WorkersMatch
  <2>3. ThreadsCounted'
    BY <1>7, <2>1, ThreadsFinite, ReaperAssumption DEF JoinThread, ThreadsCounted
  <2>4. ReaperNotMissed' /\ (reaper = "create" => numLive = 0)'
    BY <1>7 DEF JoinThread, ReaperNotMissed
  <2>5. QED
    BY <2>2, <2>3, <2>4
<1>8. CASE Unlock
  BY <1>8 DEF Unlock, WorkersMatch, ThreadsCounted, ReaperNotMissed, InState
<1>9. CASE UNCHANGED reaperVars
  BY <1>9 DEF reaperVars, WorkersMatch, ThreadsCounted, ReaperNotMissed, InState
<1>10. QED
  BY <1>1, <1>2, <1>3, <1>4, <1>5, <1>6, <1>7, <1>8, <1>9 DEF ReaperNext, Reap, Work

\* The inductive invariant holds of every run.
LEMMA ReaperInvHolds == ReaperSpec => []ReaperInv
BY ReaperInitInv, ReaperStepInv, PTL DEF ReaperSpec

LEMMA ReaperInvType == ReaperInv => ReaperTypeOK
BY ThreadsFinite, ReaperAssumption DEF ReaperInv, ReaperTypes, ThreadsCounted, ReaperTypeOK

\* The counters and the array have their types: no counter leaves 0 .. totThreads.
THEOREM ReaperType == ReaperSpec => []ReaperTypeOK
BY ReaperInvHolds, ReaperInvType, PTL

\* numUnjoined and numLive agree with the array, for every number of threads.
THEOREM ReaperCounts == ReaperSpec => []ThreadsCounted
<1>1. ReaperInv => ThreadsCounted
  BY DEF ReaperInv
<1>2. QED
  BY <1>1, ReaperInvHolds, PTL

\* The main thread never misses a broadcast.
THEOREM ReaperHears == ReaperSpec => []ReaperNotMissed
<1>1. ReaperInv => ReaperNotMissed
  BY DEF ReaperInv
<1>2. QED
  BY <1>1, ReaperInvHolds, PTL

-----------------------------------------------------------------------------
(* SignalModes.                                                            *)

\* A value on its way to the catcher, or handled and not confirmed, is the last
\* one of a sender that is not reading.
OneUnderWay ==
    /\ pending # NoSignal => LET s == pending.from IN
           shooter[s] # "read" /\ sent[s] = handled[s] + 1 /\ handling # s
    /\ handling # NoSignal => shooter[handling] # "read" /\ handled[handling] = sent[handling]

\* Between the test of timer_running and pause() the counter has been started by
\* the last signal only.
TestedOK == catcher = "tested" /\ timer_running => overlooked

ModesInv ==
    /\ ModeTypeOK /\ sent \in [Shooters -> Nat] /\ handled \in [Shooters -> Nat]
    /\ InStep /\ OneUnderWay /\ CounterRuns /\ TestedOK

LEMMA ModesStep == ModesInv /\ [ModeNext]_modeVars => ModesInv'
<1> SUFFICES ASSUME ModesInv, [ModeNext]_modeVars PROVE ModesInv'
  OBVIOUS
<1> USE ModesAssumption DEF ModesInv, ModeTypeOK, Alive, Free, mode, senders
<1>1. ASSUME NEW s \in Shooters, NEW v \in 1..5, Shoot(s, v)
      PROVE  ModesInv'
  <2>1. sent' = [sent EXCEPT ![s] = sent[s] + 1] /\ shooter' = [shooter EXCEPT ![s] = "sent"]
        /\ sent[s] = handled[s] /\ shooter[s] = "read"
        /\ UNCHANGED <<mode, catcher, handling, handled, overlooked>>
    BY <1>1 DEF Shoot, InStep
  <2>2. \/ pending' = pending
        \/ pending = NoSignal /\ pending' = [from |-> s, value |-> v]
    BY <1>1 DEF Shoot
  <2>3. ModeTypeOK' /\ sent' \in [Shooters -> Nat] /\ handled' \in [Shooters -> Nat]
    BY <2>1, <2>2
  <2>4. InStep' /\ CounterRuns' /\ TestedOK'
    BY <2>1 DEF InStep, CounterRuns, TestedOK
  <2>5. OneUnderWay'
    BY <2>1, <2>2 DEF OneUnderWay
  <2>6. QED
    BY <2>3, <2>4, <2>5
<1>2. ASSUME NEW s \in Shooters, Pause(s)
      PROVE  ModesInv'
  BY <1>2 DEF Pause, InStep, OneUnderWay, CounterRuns, TestedOK
<1>3. CASE Main
  BY <1>3 DEF Main, Count, Counting, Awake, CatcherPauses,
              InStep, OneUnderWay, CounterRuns, TestedOK
<1>4. CASE Handle
  <2> DEFINE s == pending.from
             v == pending.value
  <2>1. /\ s \in Shooters /\ v \in 1..5 /\ pending # NoSignal
        /\ shooter[s] # "read" /\ sent[s] = handled[s] + 1
    BY <1>4 DEF Handle, OneUnderWay
  <2>2. /\ pending' = NoSignal /\ handled' = [handled EXCEPT ![s] = handled[s] + 1]
        /\ UNCHANGED <<shooter, sent>> /\ handling = NoSignal
        /\ overlooked' = (catcher = "tested") /\ current_type' = v
    BY <1>4 DEF Handle
  <2>3. \/ catcher' = "exited" /\ handling' = NoSignal
        \/ catcher' = catcher /\ handling' = s
    BY <1>4, <2>2 DEF Handle
  <2>4. changes' \in Nat /\ timer_running' \in BOOLEAN
    <3>1. changes' \in {changes, changes + 1}
      BY <1>4 DEF Handle
    <3>2. changes' \in Nat
      BY <3>1
    <3>3. timer_running' = timer_running \/ timer_running' = (v = 2)
      BY <1>4 DEF Handle
    <3>4. timer_running' \in BOOLEAN
      BY <3>3
    <3>5. QED
      BY <3>2, <3>4
  <2>5. interrupt' \in {"default", "ignore", "handler"}
    BY <1>4 DEF Handle
  <2> HIDE DEF s, v
  <2>6. ModeTypeOK' /\ sent' \in [Shooters -> Nat] /\ handled' \in [Shooters -> Nat]
    BY <2>1, <2>2, <2>3, <2>4, <2>5
  <2>7. InStep' /\ OneUnderWay'
    BY <2>1, <2>2, <2>3 DEF InStep, OneUnderWay
  <2>8. CounterRuns' /\ TestedOK'
    BY <2>1, <2>2, <2>3 DEF CounterRuns, TestedOK
  <2>9. QED
    BY <2>6, <2>7, <2>8
<1>5. CASE Confirm
  <2>1. /\ handling \in Shooters /\ handling' = NoSignal
        /\ handled[handling] = sent[handling]
        /\ UNCHANGED <<mode, pending, sent, handled, overlooked>>
        /\ catcher' = Interrupted
    BY <1>5 DEF Confirm, OneUnderWay
  <2>2. /\ shooter' \in [Shooters -> {"read", "sent", "pausing"}]
        /\ \A s \in Shooters : s # handling => shooter'[s] = shooter[s]
    BY <1>5, <2>1 DEF Confirm, Confirmed
  <2>3. ModeTypeOK' /\ sent' \in [Shooters -> Nat] /\ handled' \in [Shooters -> Nat]
    BY <2>1, <2>2 DEF Interrupted
  <2>4. InStep' /\ OneUnderWay'
    BY <2>1, <2>2 DEF InStep, OneUnderWay
  <2>5. CounterRuns' /\ TestedOK'
    BY <2>1 DEF CounterRuns, TestedOK, Interrupted
  <2>6. QED
    BY <2>3, <2>4, <2>5
<1>6. CASE Interrupt
  <2>1. catcher' \in {"killed", catcher, Interrupted}
        /\ UNCHANGED <<mode, handling, pending, senders, handled, overlooked>>
    BY <1>6 DEF Interrupt
  <2>2. QED
    BY <2>1 DEF Interrupted, InStep, OneUnderWay, CounterRuns, TestedOK
<1>7. CASE UNCHANGED modeVars
  BY <1>7 DEF modeVars, InStep, OneUnderWay, CounterRuns, TestedOK
<1>8. QED
  BY <1>1, <1>2, <1>3, <1>4, <1>5, <1>6, <1>7 DEF ModeNext

\* For any number of senders and of values, a sender that reads its next value had
\* all its earlier ones handled, and the catcher does not pause in mode 2 with its counter
\* stopped unless a signal came before its pause() (sender.c:27-29,
\* catcher.c:35, 52-56).
THEOREM ModesAreKept == ModeSpec => []ModesKept
<1>1. ModeInit => ModesInv
  <2> SUFFICES ASSUME ModeInit PROVE ModesInv
    OBVIOUS
  <2>1. current_type \in 0..5 /\ changes \in Nat
    BY DEF ModeInit
  <2>2. timer_running \in BOOLEAN
    BY DEF ModeInit
  <2>3. ModeTypeOK
    BY <2>1, <2>2 DEF ModeInit, ModeTypeOK
  <2>4. sent \in [Shooters -> Nat] /\ handled = sent
    BY DEF ModeInit
  <2>5. QED
    BY <2>3, <2>4, ModesAssumption
       DEF ModeInit, ModesInv, InStep, OneUnderWay, CounterRuns, TestedOK
<1>2. ModesInv => ModesKept
  BY DEF ModesInv, ModesKept
<1>3. QED
  BY <1>1, <1>2, ModesStep, PTL DEF ModeSpec

-----------------------------------------------------------------------------
(* Collatz.                                                                *)

StepsOK ==
    /\ asked \in Int /\ max_iter \in Nat \ {0} /\ output \in Int
    /\ steps \in Seq(Int) /\ Len(steps) \in 1 .. max_iter
    /\ steps[1] = asked /\ steps[Len(steps)] = input
    /\ \A i \in 1 .. Len(steps) - 1 :
           steps[i] > 1 /\ steps[i + 1] = collatz_conjecture(steps[i])
    /\ output # -1 => output = Answer /\ ~(input > 1 /\ Within)

LEMMA StepsStep == StepsOK /\ [CollatzNext]_collatzVars => StepsOK'
<1> SUFFICES ASSUME StepsOK, [CollatzNext]_collatzVars PROVE StepsOK'
  OBVIOUS
<1>1. CASE Iterate
  <2> DEFINE next == collatz_conjecture(input)
  <2>1. /\ input' = next /\ steps' = Append(steps, next) /\ input > 1
        /\ Len(steps) < max_iter /\ output = -1 /\ UNCHANGED <<asked, max_iter, output>>
    BY <1>1 DEF Iterate, Within
  <2>2. input \in Int /\ Len(steps) \in Nat /\ Len(steps) >= 1
    <3>1. Len(steps) \in 1 .. max_iter /\ max_iter \in Nat
      BY DEF StepsOK
    <3>2. Len(steps) \in 1 .. Len(steps) /\ Len(steps) \in Nat /\ Len(steps) >= 1
      BY <3>1
    <3>3. steps[Len(steps)] \in Int
      BY <3>2, ElementOfSeq DEF StepsOK
    <3>4. QED
      BY <3>2, <3>3 DEF StepsOK
  <2>3. next \in Int
    BY <2>2 DEF collatz_conjecture, MaxInt
  <2> HIDE DEF next
  <2>4. /\ steps' \in Seq(Int) /\ Len(steps') = Len(steps) + 1
        /\ \A i \in 1 .. Len(steps) : steps'[i] = steps[i]
        /\ steps'[Len(steps) + 1] = next
    BY <2>1, <2>3, AppendProperties DEF StepsOK
  <2>5. /\ Len(steps') \in 1 .. max_iter
        /\ steps'[1] = asked /\ steps'[Len(steps')] = next
    BY <2>1, <2>2, <2>4 DEF StepsOK
  <2>6. ASSUME NEW i \in 1 .. Len(steps') - 1
        PROVE  steps'[i] > 1 /\ steps'[i + 1] = collatz_conjecture(steps'[i])
    <3>1. i \in 1 .. Len(steps) /\ steps'[i] = steps[i]
      BY <2>2, <2>4
    <3>2. CASE i = Len(steps)
      BY <2>1, <2>4, <3>1, <3>2 DEF StepsOK, next
    <3>3. CASE i # Len(steps)
      <4>1. i \in 1 .. Len(steps) - 1 /\ i + 1 \in 1 .. Len(steps)
        BY <2>2, <3>1, <3>3
      <4>2. steps'[i + 1] = steps[i + 1]
        BY <2>4, <4>1
      <4>3. QED
        BY <3>1, <4>1, <4>2 DEF StepsOK
    <3>4. QED
      BY <3>2, <3>3
  <2>7. QED
    BY <2>1, <2>4, <2>5, <2>6 DEF StepsOK
<1>2. CASE Return
  <2>1. Len(steps) \in Nat
    BY DEF StepsOK
  <2>2. output' = Answer /\ ~(input > 1 /\ Within) /\ UNCHANGED <<asked, max_iter, input, steps>>
    BY <1>2 DEF Return
  <2>3. output' \in Int
    BY <2>1, <2>2 DEF Answer
  <2>4. Answer' = Answer /\ Within' = Within
    BY <2>2 DEF Answer, Within
  <2>5. QED
    BY <2>2, <2>3, <2>4 DEF StepsOK
<1>3. CASE UNCHANGED collatzVars
  BY <1>3 DEF collatzVars, StepsOK, Answer, Within
<1>4. QED
  BY <1>1, <1>2, <1>3 DEF CollatzNext

\* A step that does not wrap is one of the conjecture's, and stays above 0.
LEMMA StepFollows ==
    ASSUME NEW n \in Int, n > 1, n % 2 = 0 \/ Triples(n)
    PROVE  Follows(collatz_conjecture(n), n) /\ collatz_conjecture(n) >= 1
<1>1. CASE n % 2 = 0
  BY <1>1 DEF Follows, collatz_conjecture
<1>2. CASE n % 2 # 0
  BY <1>2 DEF Follows, collatz_conjecture
<1>3. QED
  BY <1>1, <1>2

LEMMA StepsAnswer == StepsOK => SequenceRight
<1> SUFFICES ASSUME StepsOK PROVE SequenceRight
  OBVIOUS
<1>1. /\ Len(steps) \in Nat /\ Len(steps) >= 1 /\ Len(steps) <= max_iter
      /\ max_iter \in Nat /\ asked \in Int /\ output \in Int
      /\ \A i \in 1 .. Len(steps) : steps[i] \in Int
  BY ElementOfSeq DEF StepsOK
<1>2. input \in Int
  BY <1>1 DEF StepsOK
<1>3. InArray
  BY <1>1 DEF StepsOK, InArray, Answer
<1>4. ASSUME Fits, NEW i \in 1 .. Len(steps) - 1
      PROVE  steps[i] # 1 /\ Follows(steps[i + 1], steps[i]) /\ steps[i + 1] >= 1
  <2>1. steps[i] \in Int /\ steps[i] > 1 /\ steps[i + 1] = collatz_conjecture(steps[i])
    BY <1>1 DEF StepsOK
  <2>2. steps[i] % 2 = 0 \/ Triples(steps[i])
    BY <1>4 DEF Fits
  <2>3. QED
    BY <2>1, <2>2, StepFollows
<1>5. ASSUME output > 0, Fits
      PROVE  /\ Len(steps) = output + 1 /\ steps[output + 1] = 1
             /\ \A i \in 1..output : steps[i] # 1 /\ Follows(steps[i + 1], steps[i])
  <2>1. input = 1 /\ Len(steps) = output + 1
    BY <1>1, <1>5 DEF StepsOK, Answer
  <2>2. QED
    BY <1>1, <1>4, <1>5, <2>1 DEF StepsOK
<1>6. ASSUME output = 0, asked > 1, Len(steps) # max_iter
      PROVE  ~Fits
  <2>1. ~(input > 1) /\ output = Answer
    BY <1>1, <1>6 DEF StepsOK, Within
  <2>2. Len(steps) > 1
    <3>1. CASE Len(steps) = 1
      <4>1. input = asked
        BY <3>1 DEF StepsOK
      <4>2. input > 1
        BY <1>6, <4>1
      <4>3. QED
        BY <2>1, <4>2
    <3>2. QED
      BY <1>1, <3>1, SMTT(30)
  <2>3. input # 1
    BY <1>1, <1>6, <2>1, <2>2 DEF Answer
  <2>4. SUFFICES ASSUME Fits PROVE FALSE
    OBVIOUS
  <2>5. Len(steps) - 1 \in 1 .. Len(steps) - 1 /\ Len(steps) - 1 + 1 = Len(steps)
    BY <1>1, <2>2
  <2>6. steps[Len(steps)] >= 1
    BY <1>4, <2>4, <2>5
  <2>7. QED
    BY <1>2, <2>1, <2>3, <2>6 DEF StepsOK
<1>7. QED
  BY <1>1, <1>3, <1>5, <1>6 DEF SequenceRight, AnswerExplained

\* Whatever number and length it is called with, the library stays within the
\* client's array, and its answer counts the steps to 1 unless a term wrapped
\* (client.c:30-41).
THEOREM CollatzAnswers == CollatzSpec => []SequenceRight
<1>1. CollatzInit => StepsOK
  <2> SUFFICES ASSUME CollatzInit PROVE StepsOK
    OBVIOUS
  <2>1. asked \in Int /\ max_iter \in Nat \ {0} /\ steps = <<asked>> /\ input = asked /\ output = -1
    BY CollatzAssumption DEF CollatzInit
  <2>2. steps \in Seq(Int) /\ Len(steps) = 1 /\ steps[1] = asked
    BY <2>1
  <2>3. QED
    BY <2>1, <2>2 DEF StepsOK
<1>2. QED
  BY <1>1, StepsStep, StepsAnswer, PTL DEF CollatzSpec

-----------------------------------------------------------------------------
(* Integral.                                                               *)

SharesOK ==
    /\ num_threads \in Nat \ {0} /\ num_intervals \in Nat \ {0}
    /\ started \in Nat /\ started <= num_threads /\ joined \in Nat /\ joined <= num_threads
    /\ \A id \in 0 .. joined - 1 : id \in ended
    /\ results \in [Ids -> SUBSET Int] /\ ended \subseteq Ids
    /\ \A id \in ended : results[id] = ShareStart(id) .. ShareStart(id + 1) - 1
    /\ total # <<>> => ended = Ids

AreaInv == SharesOK /\ EveryPieceOnce

LEMMA TimesMonotone ==
    ASSUME NEW x \in Nat, NEW y \in Nat, NEW t \in Nat, x <= y
    PROVE  x * t \in Nat /\ y * t \in Nat /\ x * t <= y * t
OBVIOUS

\* The quotient of a division, by what it is between.
LEMMA QuotientBounds ==
    ASSUME NEW x \in Nat, NEW t \in Nat \ {0}
    PROVE  /\ x \div t \in Nat
           /\ (x \div t) * t <= x /\ x < (x \div t) * t + t
OBVIOUS

\* i * t + t and x compare as i + 1 and the quotient of x do.
LEMMA QuotientCompares ==
    ASSUME NEW x \in Nat, NEW t \in Nat \ {0}, NEW i \in Nat
    PROVE  x \div t <= i <=> x < i * t + t
<1> DEFINE q == x \div t
<1>1. q \in Nat /\ q * t <= x /\ x < q * t + t /\ q * t \in Nat /\ i * t \in Nat
  BY QuotientBounds
<1> HIDE DEF q
<1>2. CASE q <= i
  <2>1. q * t <= i * t
    BY <1>1, <1>2, TimesMonotone
  <2>2. QED
    BY <1>1, <1>2, <2>1 DEF q
<1>3. CASE i + 1 <= q
  <2>1. (i + 1) * t <= q * t /\ (i + 1) * t = i * t + t
    BY <1>1, <1>3, TimesMonotone
  <2>2. ~(x < i * t + t)
    BY <1>1, <2>1
  <2>3. QED
    BY <1>1, <1>3, <2>2 DEF q
<1>4. QED
  BY <1>1, <1>2, <1>3

\* The thread whose share has piece i, of n pieces and t threads.
LEMMA OneShareEach ==
    ASSUME NEW n \in Nat \ {0}, NEW t \in Nat \ {0}, NEW i \in 0 .. n - 1
    PROVE  \E k \in 0 .. t - 1 : \A id \in 0 .. t - 1 :
               i \in (id * n) \div t .. ((id + 1) * n) \div t - 1 <=> id = k
<1> DEFINE X == i * t + t
           k == (X - 1) \div n
<1>1. i \in Nat /\ i + 1 <= n /\ i * t \in Nat /\ X \in Nat /\ X >= 1 /\ X - 1 \in Nat
  OBVIOUS
<1>2. X <= n * t
  BY <1>1, TimesMonotone
<1>3. k \in Nat /\ k * n \in Nat /\ k * n <= X - 1 /\ X - 1 < k * n + n
  BY <1>1, QuotientBounds
<1> HIDE DEF X, k
<1>4. k \in 0 .. t - 1
  <2>1. CASE t <= k
    <3>1. t * n <= k * n
      BY <1>3, <2>1, TimesMonotone
    <3>2. t * n = n * t
      OBVIOUS
    <3>3. QED
      BY <1>1, <1>2, <1>3, <3>1, <3>2
  <2>2. QED
    BY <1>3, <2>1
<1>5. ASSUME NEW id \in 0 .. t - 1
      PROVE  i \in (id * n) \div t .. ((id + 1) * n) \div t - 1 <=> id = k
  <2> DEFINE low == (id * n) \div t
             high == ((id + 1) * n) \div t
  <2>1. id \in Nat /\ id * n \in Nat /\ (id + 1) * n \in Nat /\ (id + 1) * n = id * n + n
    OBVIOUS
  <2>2. low \in Nat /\ high \in Nat
    BY <2>1, QuotientBounds
  <2>3. low <= i <=> id * n < X
    BY <1>1, <2>1, QuotientCompares DEF X
  <2>4. high <= i <=> id * n + n < X
    BY <1>1, <2>1, QuotientCompares DEF X
  <2> HIDE DEF low, high
  <2>5. i \in low .. high - 1 <=> id * n <= X - 1 /\ X - 1 < id * n + n
    BY <1>1, <2>1, <2>2, <2>3, <2>4
  <2>6. CASE id = k
    BY <1>3, <2>5, <2>6 DEF low, high
  <2>7. CASE id + 1 <= k
    <3>1. (id + 1) * n <= k * n
      BY <1>3, <2>1, <2>7, TimesMonotone
    <3>2. QED
      BY <1>1, <1>3, <2>1, <2>5, <2>7, <3>1 DEF low, high
  <2>8. CASE k + 1 <= id
    <3>1. (k + 1) * n <= id * n /\ (k + 1) * n = k * n + n
      BY <1>3, <2>1, <2>8, TimesMonotone
    <3>2. QED
      BY <1>1, <1>3, <2>1, <2>5, <2>8, <3>1 DEF low, high
  <2>9. QED
    BY <1>3, <2>1, <2>6, <2>7, <2>8
<1>6. QED
  BY <1>4, <1>5

\* A product that fits does not wrap.
LEMMA ProductFits ==
    ASSUME NEW x \in Nat, NEW y \in Nat, x * y <= MaxLong
    PROVE  Product(x, y) = x * y
<1>1. MaxLong \in Nat /\ x * y \in Nat
  BY IntegralAssumption
<1> DEFINE p == x * y + MaxLong + 1
           m == 2 * MaxLong + 2
<1>2. p \in Nat /\ m \in Nat /\ p < m
  BY <1>1
<1>3. Product(x, y) = (p % m) - MaxLong - 1
  BY DEF Product
<1> HIDE DEF m
<1>4. p % m = p
  <2> HIDE DEF p
  <2>1. QED
    BY <1>2
<1>5. QED
  BY <1>1, <1>3, <1>4

LEMMA ShareStartIs ==
    ASSUME num_threads \in Nat \ {0}, num_intervals \in Nat \ {0},
           num_threads * num_intervals <= MaxLong, NEW id \in 0 .. num_threads
    PROVE  ShareStart(id) = (id * num_intervals) \div num_threads
<1>1. id * num_intervals <= num_threads * num_intervals /\ id * num_intervals \in Nat
  BY TimesMonotone
<1>2. id * num_intervals <= MaxLong
  BY <1>1, IntegralAssumption
<1>3. Product(id, num_intervals) = id * num_intervals
  BY <1>2, ProductFits
<1>4. QED
  BY <1>1, <1>3 DEF ShareStart

LEMMA AreaStep == AreaInv /\ [AreaNext]_areaVars => AreaInv'
<1> SUFFICES ASSUME AreaInv, [AreaNext]_areaVars PROVE AreaInv'
  OBVIOUS
<1> USE DEF AreaInv, SharesOK, Ids
<1>1. CASE StartThread
  BY <1>1 DEF StartThread, EveryPieceOnce, ShareStart, Product
<1>2. ASSUME NEW id \in Ids, SumShare(id) PROVE AreaInv'
  <2>1. /\ id \notin ended /\ ended' = ended \cup {id}
        /\ results' = [results EXCEPT ![id] = ShareStart(id) .. ShareStart(id + 1) - 1]
        /\ UNCHANGED <<num_threads, num_intervals, started, joined, total>>
    BY <1>2 DEF SumShare
  <2>2. total = <<>>
    BY <2>1
  <2>3. \A x : ShareStart(x)' = ShareStart(x)
    BY <2>1 DEF ShareStart, Product
  <2>4. ShareStart(id) .. ShareStart(id + 1) - 1 \in SUBSET Int
    OBVIOUS
  <2>5. results' \in [Ids -> SUBSET Int]
    BY <2>1, <2>4
  <2>6. \A x \in ended' : results'[x] = ShareStart(x) .. ShareStart(x + 1) - 1
    BY <2>1
  <2>7. SharesOK'
    BY <2>1, <2>2, <2>3, <2>5, <2>6
  <2>8. QED
    BY <2>1, <2>2, <2>7 DEF EveryPieceOnce
<1>3. CASE JoinNext
  <2>1. /\ joined \in ended /\ joined' = joined + 1
        /\ UNCHANGED <<num_threads, num_intervals, started, results, ended, total>>
    BY <1>3 DEF JoinNext
  <2>2. joined' \in Nat /\ joined' <= num_threads /\ \A x \in 0 .. joined' - 1 : x \in ended
    BY <2>1
  <2>3. QED
    BY <2>1, <2>2 DEF EveryPieceOnce, ShareStart, Product
<1>4. CASE AddUp
  <2>1. /\ joined = num_threads /\ total = <<>>
        /\ total' = [i \in 0 .. num_intervals - 1 |-> Cardinality({id \in Ids : i \in results[id]})]
        /\ UNCHANGED <<num_threads, num_intervals, started, joined, results, ended>>
    BY <1>4 DEF AddUp
  <2>2. ended = Ids
    BY <2>1
  <2>3. SharesOK'
    BY <2>1, <2>2 DEF ShareStart, Product
  <2>4. SUFFICES ASSUME num_threads * num_intervals <= MaxLong PROVE EveryPieceOnce'
    BY <2>1, <2>3 DEF EveryPieceOnce
  <2>5. ASSUME NEW id \in Ids
        PROVE  results[id] = (id * num_intervals) \div num_threads
                                 .. ((id + 1) * num_intervals) \div num_threads - 1
    <3>1. id \in 0 .. num_threads /\ id + 1 \in 0 .. num_threads
      OBVIOUS
    <3>2. results[id] = ShareStart(id) .. ShareStart(id + 1) - 1
      BY <2>2
    <3>3. QED
      BY <2>4, <3>1, <3>2, ShareStartIs
  <2>6. ASSUME NEW i \in 0 .. num_intervals - 1
        PROVE  \E k \in Ids : {id \in Ids : i \in results[id]} = {k}
    <3>1. PICK k \in Ids : \A id \in Ids :
              i \in (id * num_intervals) \div num_threads
                        .. ((id + 1) * num_intervals) \div num_threads - 1 <=> id = k
      BY OneShareEach
    <3>2. \A id \in Ids : i \in results[id] <=> id = k
      BY <2>5, <3>1
    <3>3. QED
      BY <3>2
  <2>7. ASSUME NEW id \in Ids, NEW j \in results[id]
        PROVE  j \in 0 .. num_intervals - 1
    <3>1. /\ id * num_intervals \in Nat /\ (id + 1) * num_intervals \in Nat
          /\ (id + 1) * num_intervals < num_intervals * num_threads + num_threads
      <4>1. id + 1 \in Nat /\ id + 1 <= num_threads /\ id \in Nat
        OBVIOUS
      <4>2. (id + 1) * num_intervals <= num_threads * num_intervals
        BY <4>1, TimesMonotone
      <4>3. QED
        BY <4>1, <4>2
    <3>2. ((id + 1) * num_intervals) \div num_threads <= num_intervals
      BY <3>1, QuotientCompares
    <3>3. /\ (id * num_intervals) \div num_threads \in Nat
          /\ ((id + 1) * num_intervals) \div num_threads \in Nat
      BY <3>1, QuotientBounds
    <3>4. QED
      BY <2>5, <3>2, <3>3
  <2>8. \A i \in DOMAIN total' : total'[i] = 1
    BY <2>1, <2>6, FS_Singleton
  <2>9. UNION {results[id] : id \in Ids} = 0 .. num_intervals - 1
    BY <2>6, <2>7
  <2>10. (UNION {results[id] : id \in Ids} = 0 .. num_intervals - 1)'
    BY <2>1, <2>9
  <2>11. (\A i \in DOMAIN total : total[i] = 1)'
    BY <2>8
  <2>12. QED
    BY <2>10, <2>11 DEF EveryPieceOnce
<1>5. CASE UNCHANGED areaVars
  BY <1>5 DEF areaVars, EveryPieceOnce, ShareStart, Product
<1>6. QED
  BY <1>1, <1>2, <1>3, <1>4, <1>5 DEF AreaNext

\* For any number of threads and pieces whose product is a long long, and in
\* whatever order the threads run, main's sum has every piece once (main.c:26-27).
THEOREM PiecesAddUp == AreaSpec => []EveryPieceOnce
<1>1. AreaInit => AreaInv
  BY IntegralAssumption DEF AreaInit, AreaInv, SharesOK, EveryPieceOnce, Ids
<1>2. AreaInv => EveryPieceOnce
  BY DEF AreaInv
<1>3. QED
  BY <1>1, <1>2, AreaStep, PTL DEF AreaSpec

-----------------------------------------------------------------------------
(* CommonFile.                                                             *)

FileTypeOK ==
    /\ kind \in {"POSIX", "SysV"} /\ named \in Runs \cup {NoRun}
    /\ value \in [Runs -> Nat] /\ sem_id \in [Runs -> Runs \cup {NoRun}]
    /\ stage \in [Runs -> {"start", "found", "loops", "ended", "killed", "failed"}]
    /\ place \in [Writers -> {"sleep", "file", "terminal", "unlock"}]
    /\ written \in [Runs -> Seq({"parent", "child"})]
    /\ terminal \in [Runs -> Seq({"parent", "child"})]
    /\ file \in Seq(Writers \cup {Hole}) /\ opened \subseteq Runs

Busy(w) == place[w] # "sleep"

\* What the file has of a run is in the place where the run wrote it; a run that no other
\* met in the file finds all of its lines there and no others.
FilePlaced ==
    /\ \A k \in DOMAIN file : file[k][1] \in Runs =>
           k <= Len(written[file[k][1]]) /\ file[k][2] = written[file[k][1]][k]
    /\ \A r \in opened \ mixed :
           Len(file) = Len(written[r]) /\ \A k \in DOMAIN file : file[k][1] = r
    /\ \A r \in Runs \ opened : written[r] = <<>>
    /\ \A w \in Writers : Busy(w) => w[1] \in opened

\* A POSIX run uses the semaphore it made.
OwnSemaphore ==
    /\ kind = "POSIX" => \A r \in Runs : stage[r] = "loops" => sem_id[r] = r
    /\ \A r \in Runs : stage[r] # "start" /\ (kind = "POSIX" => stage[r] = "loops")
           => sem_id[r] \in Runs
    /\ \A w \in Writers : stage[w[1]] \in {"start", "found", "failed"} => ~Busy(w)

Mine(r) == {r} \X {"parent", "child"}

\* A run in its loops that no other disturbs is alone with its semaphore, which lets
\* one writer in.
Alone(r) ==
    /\ sem_id[r] \in made
    /\ \A q \in Users(sem_id[r]) : q = r
    /\ \A v, w \in Mine(r) : Busy(v) /\ Busy(w) => v = w
    /\ (\E w \in Mine(r) : Busy(w)) => value[sem_id[r]] = 0
    /\ (\A w \in Mine(r) : ~Busy(w)) => value[sem_id[r]] = 1

\* Only a writer between its two writes makes a difference between the files.
SameLines(r) ==
    \/ written[r] = terminal[r] /\ \A w \in Mine(r) : place[w] # "terminal"
    \/ \E w \in Mine(r) :
           /\ place[w] = "terminal" /\ written[r] = Append(terminal[r], w[2])
           /\ \A v \in Mine(r) : v # w => ~Busy(v)

Undisturbed(r) == r \notin disturbed => (stage[r] = "loops" => Alone(r)) /\ SameLines(r)

FileInv == FileTypeOK /\ OwnSemaphore /\ FilePlaced /\ \A r \in Runs : Undisturbed(r)

LEMMA MineAreWriters ==
    /\ \A r \in Runs : \A w \in Mine(r) : w \in Writers /\ w[1] = r
    /\ \A w \in Writers : w[1] \in Runs /\ w[2] \in {"parent", "child"} /\ w \in Mine(w[1])
BY DEF Mine, Writers

LEMMA ExceptKeepsType ==
    ASSUME NEW D, NEW S, NEW f \in [D -> S], NEW d, NEW v \in S
    PROVE  [f EXCEPT ![d] = v] \in [D -> S]
OBVIOUS

\* A function on 1 .. n is a sequence of length n.
LEMMA SequenceOnRange ==
    ASSUME NEW S, NEW n \in Nat, NEW f \in [1 .. n -> S]
    PROVE  f \in Seq(S) /\ Len(f) = n
<1>1. f \in Seq(S)
  BY IsASeq
<1>2. QED
  BY <1>1, LenProperties

\* What a file holds after a write: the line at its offset, what was there elsewhere, and
\* holes up to it.
LEMMA Overwritten ==
    ASSUME NEW w \in Writers, NEW o \in Nat, file \in Seq(Writers \cup {Hole})
    PROVE  /\ Overwrite(o, w) \in Seq(Writers \cup {Hole})
           /\ o = Len(file) => Len(Overwrite(o, w)) = o + 1
           /\ \A k \in DOMAIN Overwrite(o, w) :
                  \/ k = o + 1 /\ Overwrite(o, w)[k] = w
                  \/ k \in DOMAIN file /\ k # o + 1 /\ Overwrite(o, w)[k] = file[k]
                  \/ k \in Nat \ 1 .. Len(file) /\ k # o + 1 /\ Overwrite(o, w)[k] = Hole
<1>1. PICK l \in Nat : l = Len(file) /\ DOMAIN file = 1 .. l
  BY LenProperties
<1>2. \A k \in 1 .. l : file[k] \in Writers \cup {Hole}
  BY <1>1, ElementOfSeq
<1>3. PICK n \in Nat : n = IF o < l THEN l ELSE o + 1
  <2>1. o + 1 \in Nat
    OBVIOUS
  <2>2. QED
    BY <2>1
<1>4. Overwrite(o, w) = [k \in 1 .. n |->
          IF k = o + 1 THEN w ELSE IF k <= l THEN file[k] ELSE Hole]
  BY <1>1, <1>3 DEF Overwrite
<1>5. ASSUME NEW k \in 1 .. n
      PROVE  \/ k = o + 1 /\ Overwrite(o, w)[k] = w
             \/ k \in 1 .. l /\ k # o + 1 /\ Overwrite(o, w)[k] = file[k]
             \/ k \in Nat \ 1 .. l /\ k # o + 1 /\ Overwrite(o, w)[k] = Hole
  <2>1. Overwrite(o, w)[k] = IF k = o + 1 THEN w ELSE IF k <= l THEN file[k] ELSE Hole
    BY <1>4
  <2>2. k \in Nat /\ 1 <= k /\ (k <= l <=> k \in 1 .. l)
    BY <1>1
  <2>3. QED
    BY <2>1, <2>2
<1>6. \A k \in 1 .. n : Overwrite(o, w)[k] \in Writers \cup {Hole}
  BY <1>2, <1>5
<1>7. Overwrite(o, w) \in [1 .. n -> Writers \cup {Hole}]
  BY <1>4, <1>6
<1>8. Overwrite(o, w) \in Seq(Writers \cup {Hole}) /\ Len(Overwrite(o, w)) = n
  BY <1>7, SequenceOnRange
<1>9. DOMAIN Overwrite(o, w) = 1 .. n
  BY <1>4
<1>10. o = Len(file) => Len(Overwrite(o, w)) = o + 1
  BY <1>1, <1>3, <1>8
<1>11. QED
  BY <1>1, <1>5, <1>8, <1>9, <1>10

LEMMA FileTypes ==
    FileTypeOK /\ OwnSemaphore /\ [FileNext]_fileVars => FileTypeOK' /\ OwnSemaphore'
<1> SUFFICES ASSUME FileTypeOK, OwnSemaphore, [FileNext]_fileVars
             PROVE  FileTypeOK' /\ OwnSemaphore'
  OBVIOUS
<1> USE CommonFileAssumption DEF FileTypeOK, OwnSemaphore, setup, loops, store, Busy, Enter
<1>1. ASSUME NEW r \in Runs, FindSemaphore(r) PROVE FileTypeOK' /\ OwnSemaphore'
  <2>1. /\ stage' = [stage EXCEPT ![r] = "found"] /\ UNCHANGED <<kind, value, loops>>
        /\ stage[r] = "start"
    BY <1>1 DEF FindSemaphore
  <2>2. \/ kind = "POSIX" /\ named' = NoRun /\ sem_id' = sem_id
        \/ /\ kind = "SysV" /\ named' \in Runs
           /\ \E s \in Runs : sem_id' = [sem_id EXCEPT ![r] = s]
    BY <1>1 DEF FindSemaphore, FreshName
  <2>3. FileTypeOK'
    <3>1. sem_id' \in [Runs -> Runs \cup {NoRun}] /\ named' \in Runs \cup {NoRun}
      BY <2>2, ExceptKeepsType, SMTT(30)
    <3>2. stage' \in [Runs -> {"start", "found", "loops", "ended", "killed", "failed"}]
      BY <2>1, ExceptKeepsType, SMTT(30)
    <3>3. QED
      BY <2>1, <3>1, <3>2
  <2>4. \A q \in Runs : q # r => stage'[q] = stage[q] /\ sem_id'[q] = sem_id[q]
    BY <2>1, <2>2
  <2>5. /\ stage'[r] = "found" /\ kind' = kind /\ place' = place
        /\ kind # "POSIX" => sem_id'[r] \in Runs
    BY <2>1, <2>2
  <2>6. kind' = "POSIX" => \A q \in Runs : stage'[q] = "loops" => sem_id'[q] = q
    BY <2>4, <2>5
  <2>7. \A q \in Runs : stage'[q] # "start" /\ (kind' = "POSIX" => stage'[q] = "loops")
            => sem_id'[q] \in Runs
    BY <2>1, <2>4, <2>5
  <2>8. \A w \in Writers : stage'[w[1]] \in {"start", "found", "failed"} => ~Busy(w)'
    <3>1. ASSUME NEW w \in Writers, stage'[w[1]] \in {"start", "found", "failed"}
          PROVE  stage[w[1]] \in {"start", "found", "failed"}
      BY <2>1, <2>4, <3>1, MineAreWriters
    <3>2. QED
      BY <2>5, <3>1
  <2>9. QED
    BY <2>3, <2>6, <2>7, <2>8
<1>2. ASSUME NEW r \in Runs, SetSemaphore(r) PROVE FileTypeOK' /\ OwnSemaphore'
  <2>1. /\ stage[r] = "found" /\ UNCHANGED <<kind, loops>>
        /\ \E to \in {"failed", "loops"} : stage' = [stage EXCEPT ![r] = to]
        /\ named' = named \/ named' = r
    BY <1>2 DEF SetSemaphore
  <2>2. value' = value \/ \E s : value' = [value EXCEPT ![s] = 1]
    BY <1>2 DEF SetSemaphore
  <2>3. value' \in [Runs -> Nat]
    BY <2>2, ExceptKeepsType
  <2>4. \/ kind = "SysV" /\ sem_id' = sem_id
        \/ kind = "POSIX" /\ sem_id' = sem_id /\ stage'[r] = "failed"
        \/ kind = "POSIX" /\ sem_id' = [sem_id EXCEPT ![r] = r]
    BY <1>2 DEF SetSemaphore
  <2>5. FileTypeOK'
    <3>1. sem_id' \in [Runs -> Runs \cup {NoRun}]
      BY <2>4
    <3>2. stage' \in [Runs -> {"start", "found", "loops", "ended", "killed", "failed"}]
      BY <2>1
    <3>3. QED
      BY <2>1, <2>3, <3>1, <3>2
  <2>6. QED
    BY <2>1, <2>4, <2>5
<1>3. ASSUME NEW r \in Runs, CleanUp(r) PROVE FileTypeOK' /\ OwnSemaphore'
  <2>1. /\ stage[r] = "loops" /\ stage' = [stage EXCEPT ![r] = "ended"]
        /\ UNCHANGED <<kind, value, sem_id, loops>> /\ named' \in {named, NoRun}
    BY <1>3 DEF CleanUp
  <2>2. QED
    BY <2>1
<1>4. ASSUME NEW r \in Runs, KillRun(r) PROVE FileTypeOK' /\ OwnSemaphore'
  BY <1>4 DEF KillRun
<1>5. ASSUME NEW w \in Writers, Writer(w) PROVE FileTypeOK' /\ OwnSemaphore'
  <2>1. /\ UNCHANGED setup /\ stage[w[1]] = "loops"
        /\ \E to \in {"sleep", "file", "terminal", "unlock"} : place' = [place EXCEPT ![w] = to]
    BY <1>5 DEF Writer, Lock, WriteFile, WriteTerminal, UnlockFile, Goes
  <2>2. value' \in [Runs -> Nat]
    <3>1. \/ value' = value
          \/ \E s : value[s] > 0 /\ value' = [value EXCEPT ![s] = value[s] - 1]
          \/ \E s : value' = [value EXCEPT ![s] = value[s] + 1]
      BY <1>5 DEF Writer, Lock, WriteFile, WriteTerminal, UnlockFile, SemaphoreWait, SemaphorePost
    <3>2. CASE value' = value
      BY <3>2
    <3>3. ASSUME NEW s, value[s] > 0, value' = [value EXCEPT ![s] = value[s] - 1]
          PROVE  value' \in [Runs -> Nat]
      <4>1. CASE s \in Runs
        <5>1. value[s] - 1 \in Nat
          BY <3>3, <4>1
        <5>2. QED
          BY <3>3, <5>1, ExceptKeepsType
      <4>2. CASE s \notin Runs
        BY <3>3, <4>2
      <4>3. QED
        BY <4>1, <4>2
    <3>4. ASSUME NEW s, value' = [value EXCEPT ![s] = value[s] + 1]
          PROVE  value' \in [Runs -> Nat]
      <4>1. CASE s \in Runs
        <5>1. value[s] + 1 \in Nat
          BY <3>4, <4>1
        <5>2. QED
          BY <3>4, <5>1, ExceptKeepsType
      <4>2. CASE s \notin Runs
        BY <3>4, <4>2
      <4>3. QED
        BY <4>1, <4>2
    <3>5. QED
      BY <3>1, <3>2, <3>3, <3>4
  <2>3. /\ written' = written \/ written' = [written EXCEPT ![w[1]] = Append(written[w[1]], w[2])]
        /\ terminal' = terminal
           \/ terminal' = [terminal EXCEPT ![w[1]] = Append(terminal[w[1]], w[2])]
    BY <1>5 DEF Writer, Lock, WriteFile, WriteTerminal, UnlockFile
  <2>4. \A s \in Seq({"parent", "child"}) : Append(s, w[2]) \in Seq({"parent", "child"})
    BY MineAreWriters, AppendProperties
  <2>5. /\ Append(written[w[1]], w[2]) \in Seq({"parent", "child"})
        /\ Append(terminal[w[1]], w[2]) \in Seq({"parent", "child"})
    BY <2>4, MineAreWriters
  <2>6. written' \in [Runs -> Seq({"parent", "child"})]
    BY <2>3, <2>5, ExceptKeepsType
  <2>7. terminal' \in [Runs -> Seq({"parent", "child"})]
    BY <2>3, <2>5, ExceptKeepsType
  <2>8. place' \in [Writers -> {"sleep", "file", "terminal", "unlock"}]
    BY <2>1
  <2>9. file' \in Seq(Writers \cup {Hole}) /\ opened' = opened
    <3>1. Offset(w) \in Nat
      BY MineAreWriters, LenProperties DEF Offset
    <3>2. opened' = opened /\ (file' = file \/ file' = Overwrite(Offset(w), w))
      BY <1>5 DEF Writer, Lock, WriteFile, WriteTerminal, UnlockFile
    <3>3. Overwrite(Offset(w), w) \in Seq(Writers \cup {Hole})
      BY <3>1, Overwritten
    <3>4. QED
      BY <3>2, <3>3
  <2>10. FileTypeOK'
    BY <2>1, <2>2, <2>6, <2>7, <2>8, <2>9 DEF Writers, Hole
  <2>11. QED
    BY <2>1, <2>10
<1>6. CASE UNCHANGED fileVars
  BY <1>6 DEF fileVars
<1>7. ASSUME NEW r \in Runs, NEW w \in {r} \X {"parent", "child"}, Writer(w)
      PROVE  FileTypeOK' /\ OwnSemaphore'
  BY <1>5, <1>7, MineAreWriters DEF Mine
<1>8. ASSUME NEW r \in Runs, OpenFile(r) PROVE FileTypeOK' /\ OwnSemaphore'
  <2>1. /\ UNCHANGED <<setup, value, place, written, terminal>>
        /\ file' = <<>> /\ opened' = opened \cup {r}
    BY <1>8 DEF OpenFile
  <2>2. file' \in Seq(Writers \cup {Hole})
    BY <2>1, EmptySeq
  <2>3. QED
    BY <2>1, <2>2 DEF Hole, Writers
<1>9. QED
  BY <1>1, <1>2, <1>3, <1>4, <1>6, <1>7, <1>8 DEF FileNext, Run

\* What a step of another run leaves alone.
LEMMA RunKept ==
    ASSUME FileTypeOK, NEW r \in Runs, Undisturbed(r), disturbed \subseteq disturbed',
           UNCHANGED <<stage[r], sem_id[r], written[r], terminal[r]>>,
           \A w \in Mine(r) : place'[w] = place[w],
           r \notin disturbed' /\ stage[r] = "loops" =>
               /\ sem_id[r] \in made' /\ value'[sem_id[r]] = value[sem_id[r]]
               /\ \A q \in Runs : stage'[q] = "loops" /\ sem_id'[q] = sem_id[r] => q = r
    PROVE  Undisturbed(r)'
<1>1. SUFFICES ASSUME r \notin disturbed'
               PROVE  (stage'[r] = "loops" => Alone(r)') /\ SameLines(r)'
  BY DEF Undisturbed
<1>2. \A w \in Mine(r) : Busy(w)' = Busy(w)
  BY DEF Busy
<1>3. SameLines(r) /\ (stage[r] = "loops" => Alone(r))
  BY <1>1 DEF Undisturbed
<1>4. SameLines(r)'
  BY <1>2, <1>3 DEF SameLines, Mine
<1>5. stage'[r] = "loops" => Alone(r)'
  BY <1>1, <1>2, <1>3 DEF Alone, Users, Mine
<1>6. QED
  BY <1>4, <1>5

\* A run that finds its semaphore touches no value.
LEMMA FindKeeps ==
    ASSUME FileInv, NEW q \in Runs, FindSemaphore(q), NEW r \in Runs
    PROVE  Undisturbed(r)'
<1> USE DEF FileInv, FileTypeOK
<1>1. /\ stage[q] = "start" /\ stage' = [stage EXCEPT ![q] = "found"]
      /\ UNCHANGED <<value, place, written, terminal, disturbed>> /\ made \subseteq made'
      /\ \A x \in Runs : x # q => sem_id'[x] = sem_id[x]
  BY DEF FindSemaphore, Enter, loops
<1>2. Undisturbed(r)
  OBVIOUS
<1>3. CASE r = q
  <2>1. stage'[r] = "found"
    BY <1>1, <1>3
  <2>2. SameLines(r)' <=> SameLines(r)
    BY <1>1 DEF SameLines, Busy
  <2>3. QED
    BY <1>1, <1>2, <2>1, <2>2 DEF Undisturbed
<1>4. CASE r # q
  <2>1. stage'[r] = stage[r] /\ sem_id'[r] = sem_id[r] /\ stage'[q] # "loops"
        /\ \A x \in Runs : stage'[x] = "loops" => stage[x] = "loops" /\ x # q
    BY <1>1, <1>4
  <2>2. r \notin disturbed /\ stage[r] = "loops" => Alone(r)
    BY <1>2 DEF Undisturbed
  <2>3. r \notin disturbed' /\ stage[r] = "loops" =>
            /\ sem_id[r] \in made' /\ value'[sem_id[r]] = value[sem_id[r]]
            /\ \A x \in Runs : stage'[x] = "loops" /\ sem_id'[x] = sem_id[r] => x = r
    BY <1>1, <2>1, <2>2 DEF Alone, Users
  <2>4. QED
    BY <1>1, <1>2, <2>1, <2>3, RunKept
<1>5. QED
  BY <1>3, <1>4

\* A run that sets the semaphore of another disturbs it, and is disturbed itself.
LEMMA SetKeeps ==
    ASSUME FileInv, NEW q \in Runs, SetSemaphore(q), NEW r \in Runs
    PROVE  Undisturbed(r)'
<1> USE DEF FileInv, FileTypeOK
<1>1. /\ stage[q] = "found" /\ UNCHANGED <<kind, place, written, terminal>>
      /\ disturbed \subseteq disturbed' /\ made \subseteq made'
      /\ \A x \in Runs : x # q => sem_id'[x] = sem_id[x] /\ stage'[x] = stage[x]
  BY DEF SetSemaphore, Enter, loops
<1>2. Undisturbed(r)
  OBVIOUS
<1>3. \A w \in Mine(q) : w \in Writers /\ ~Busy(w)
  BY <1>1, MineAreWriters DEF OwnSemaphore
<1>4. CASE stage'[q] # "loops"
  <2>1. UNCHANGED <<value, made>>
    BY <1>4 DEF SetSemaphore, Enter
  <2>2. CASE r = q
    <3>1. SameLines(r)' <=> SameLines(r)
      BY <1>1 DEF SameLines, Busy
    <3>2. QED
      BY <1>1, <1>2, <1>4, <2>2, <3>1 DEF Undisturbed
  <2>3. CASE r # q
    <3>1. r \notin disturbed /\ stage[r] = "loops" => Alone(r)
      BY <1>2 DEF Undisturbed
    <3>2. r \notin disturbed' /\ stage[r] = "loops" =>
              /\ sem_id[r] \in made' /\ value'[sem_id[r]] = value[sem_id[r]]
              /\ \A x \in Runs : stage'[x] = "loops" /\ sem_id'[x] = sem_id[r] => x = r
      BY <1>1, <1>4, <2>1, <3>1 DEF Alone, Users
    <3>3. QED
      BY <1>1, <1>2, <2>3, <3>2, RunKept
  <2>4. QED
    BY <2>2, <2>3
<1>5. CASE stage'[q] = "loops" /\ kind = "POSIX"
  <2>1. /\ sem_id' = [sem_id EXCEPT ![q] = q] /\ made' = made \cup {q}
        /\ value' = [value EXCEPT ![q] = 1] /\ disturbed' = disturbed
    BY <1>5 DEF SetSemaphore, Enter
  <2>2. \A x \in Runs : stage'[x] = "loops" => sem_id'[x] = x
    BY <1>1, <1>5, <2>1 DEF OwnSemaphore
  <2>3. CASE r = q
    <3>1. /\ sem_id'[r] \in made' /\ value'[sem_id'[r]] = 1
          /\ \A x \in Users(sem_id[r])' : x = r
      BY <2>1, <2>2, <2>3, <1>5 DEF Users
    <3>2. \A w \in Mine(r)' : ~Busy(w)'
      BY <1>1, <1>3, <2>3 DEF Busy, Mine
    <3>3. Alone(r)'
      BY <3>1, <3>2 DEF Alone, Mine
    <3>4. SameLines(r)' <=> SameLines(r)
      BY <1>1 DEF SameLines, Busy
    <3>5. QED
      BY <1>2, <2>1, <3>3, <3>4 DEF Undisturbed
  <2>4. CASE r # q
    <3>1. r \notin disturbed /\ stage[r] = "loops" => Alone(r)
      BY <1>2 DEF Undisturbed
    <3>2. r \notin disturbed' /\ stage[r] = "loops" =>
              /\ sem_id[r] \in made' /\ value'[sem_id[r]] = value[sem_id[r]]
              /\ \A x \in Runs : stage'[x] = "loops" /\ sem_id'[x] = sem_id[r] => x = r
      <4>1. SUFFICES ASSUME r \notin disturbed', stage[r] = "loops"
                     PROVE  /\ sem_id[r] \in made' /\ value'[sem_id[r]] = value[sem_id[r]]
                            /\ \A x \in Runs : stage'[x] = "loops" /\ sem_id'[x] = sem_id[r] => x = r
        OBVIOUS
      <4>2. sem_id[r] = r
        BY <1>1, <2>2, <2>4, <4>1
      <4>3. QED
        BY <1>1, <2>1, <2>2, <2>4, <3>1, <4>1, <4>2 DEF Alone
    <3>3. QED
      BY <1>1, <1>2, <2>4, <3>2, RunKept
  <2>5. QED
    BY <2>3, <2>4
<1>6. CASE stage'[q] = "loops" /\ kind # "POSIX"
  <2> DEFINE s == sem_id[q]
  <2>1. /\ value' = IF s \in made THEN [value EXCEPT ![s] = 1] ELSE value
        /\ disturbed' = disturbed \cup Users(s)
               \cup (IF Users(s) # {} \/ s \notin made THEN {q} ELSE {})
        /\ UNCHANGED <<made, sem_id>>
    BY <1>6 DEF SetSemaphore, Enter
  <2>2. s \in Runs
    BY <1>1, <1>6 DEF OwnSemaphore
  <2> HIDE DEF s
  <2>3. CASE r = q
    <3>1. SameLines(r)' <=> SameLines(r)
      BY <1>1 DEF SameLines, Busy
    <3>2. ASSUME r \notin disturbed'
          PROVE  Alone(r)'
      <4>1. Users(s) = {} /\ s \in made
        BY <2>1, <2>3, <3>2
      <4>2. sem_id'[r] \in made' /\ value'[sem_id'[r]] = 1
        BY <2>1, <2>2, <2>3, <4>1 DEF s
      <4>3. \A x \in Users(sem_id[r])' : x = r
        BY <1>1, <2>1, <2>3, <4>1 DEF Users, s
      <4>4. \A w \in Mine(r)' : ~Busy(w)'
        BY <1>1, <1>3, <2>3 DEF Busy, Mine
      <4>5. QED
        BY <4>2, <4>3, <4>4 DEF Alone, Mine
    <3>3. QED
      BY <1>1, <1>2, <3>1, <3>2 DEF Undisturbed
  <2>4. CASE r # q
    <3>1. r \notin disturbed /\ stage[r] = "loops" => Alone(r)
      BY <1>2 DEF Undisturbed
    <3>2. r \notin disturbed' /\ stage[r] = "loops" => sem_id[r] # s
      BY <2>1, <2>4 DEF Users
    <3>3. r \notin disturbed' /\ stage[r] = "loops" =>
              /\ sem_id[r] \in made' /\ value'[sem_id[r]] = value[sem_id[r]]
              /\ \A x \in Runs : stage'[x] = "loops" /\ sem_id'[x] = sem_id[r] => x = r
      <4>1. SUFFICES ASSUME r \notin disturbed', stage[r] = "loops"
                     PROVE  /\ sem_id[r] \in made' /\ value'[sem_id[r]] = value[sem_id[r]]
                            /\ \A x \in Runs : stage'[x] = "loops" /\ sem_id'[x] = sem_id[r] => x = r
        OBVIOUS
      <4>2. Alone(r) /\ sem_id[r] \in Runs /\ sem_id[r] # s
        BY <1>1, <3>1, <3>2, <4>1 DEF OwnSemaphore
      <4>3. value'[sem_id[r]] = value[sem_id[r]]
        BY <2>1, <4>2
      <4>4. sem_id'[q] = s
        BY <2>1 DEF s
      <4>5. QED
        BY <1>1, <2>1, <4>2, <4>3, <4>4 DEF Alone, Users
    <3>4. QED
      BY <1>1, <1>2, <2>1, <2>4, <3>3, RunKept
  <2>5. QED
    BY <2>3, <2>4
<1>7. QED
  BY <1>4, <1>5, <1>6

\* The writers of another run that is alone use another semaphore.
LEMMA OthersSemaphore ==
    ASSUME FileInv, NEW q \in Runs, stage[q] = "loops", NEW r \in Runs, r # q,
           r \notin disturbed, stage[r] = "loops"
    PROVE  sem_id[r] # sem_id[q] /\ sem_id[r] \in made
BY DEF FileInv, Undisturbed, Alone, Users

LEMMA WriterKeeps ==
    ASSUME FileInv, NEW q \in Runs, NEW w \in Mine(q), Writer(w), NEW r \in Runs
    PROVE  Undisturbed(r)'
<1> USE DEF FileInv, FileTypeOK
<1>1. /\ w \in Writers /\ w[1] = q /\ stage[q] = "loops"
      /\ UNCHANGED <<made, sem_id, stage, disturbed>>
  BY MineAreWriters
     DEF Writer, Lock, WriteFile, WriteTerminal, UnlockFile, Goes, setup
<1>2. /\ \A x \in Runs : x # q => written'[x] = written[x] /\ terminal'[x] = terminal[x]
      /\ \A v \in Writers : v # w => place'[v] = place[v]
      /\ \A x \in Runs : x # sem_id[q] => value'[x] = value[x]
  BY <1>1 DEF Writer, Lock, WriteFile, WriteTerminal, UnlockFile, Goes,
              SemaphoreWait, SemaphorePost
<1>3. CASE r # q
  <2>1. \A v \in Mine(r) : place'[v] = place[v]
    BY <1>1, <1>2, <1>3, MineAreWriters
  <2>2. ASSUME r \notin disturbed', stage[r] = "loops"
        PROVE  /\ sem_id[r] \in made' /\ value'[sem_id[r]] = value[sem_id[r]]
               /\ \A x \in Runs : stage'[x] = "loops" /\ sem_id'[x] = sem_id[r] => x = r
    <3>1. Alone(r) /\ sem_id[r] # sem_id[q]
      BY <1>1, <1>3, <2>2, OthersSemaphore DEF Undisturbed
    <3>2. sem_id[r] \in Runs
      BY <2>2 DEF OwnSemaphore
    <3>3. QED
      BY <1>1, <1>2, <3>1, <3>2 DEF Alone, Users
  <2>3. QED
    BY <1>1, <1>2, <1>3, <2>1, <2>2, RunKept
<1>4. CASE r = q
  <2>1. SUFFICES ASSUME q \notin disturbed PROVE Alone(q)' /\ SameLines(q)'
    BY <1>1, <1>4 DEF Undisturbed
  <2> DEFINE s == sem_id[q]
  <2>2. Alone(q) /\ SameLines(q)
    BY <1>1, <2>1 DEF Undisturbed
  <2>3. /\ s \in made /\ s \in Runs
        /\ \A x \in Users(s) : x = q
        /\ \A u, v \in Mine(q) : Busy(u) /\ Busy(v) => u = v
        /\ (\E v \in Mine(q) : Busy(v)) => value[s] = 0
        /\ (\A v \in Mine(q) : ~Busy(v)) => value[s] = 1
    BY <1>1, <2>2 DEF Alone, OwnSemaphore
  <2>4. sem_id'[q] = s /\ s \in made' /\ \A x \in Users(sem_id[q])' : x = q
    BY <1>1, <2>3 DEF Users
  <2>5. \A v \in Mine(q) : v \in Writers /\ (v # w => Busy(v)' = Busy(v))
    BY <1>2, MineAreWriters DEF Busy
  <2> HIDE DEF s
  <2>6. CASE Lock(w)
    <3>1. /\ place[w] = "sleep" /\ place' = [place EXCEPT ![w] = "file"]
          /\ SemaphoreWait(s) /\ UNCHANGED <<written, terminal>>
      BY <1>1, <2>6 DEF Lock, Goes, s
    <3>2. value[s] > 0 /\ value'[s] = value[s] - 1
      BY <2>3, <3>1 DEF SemaphoreWait
    <3>3. /\ \A v \in Mine(q) : ~Busy(v)
          /\ value'[s] = 0
      BY <2>3, <3>2
    <3>4. Busy(w)' /\ \A v \in Mine(q) : Busy(v)' <=> v = w
      BY <1>1, <2>5, <3>1, <3>3 DEF Busy
    <3>5. Alone(q)'
      BY <2>4, <3>3, <3>4 DEF Alone, Mine
    <3>6. SameLines(q)'
      BY <1>1, <2>2, <2>5, <3>1, <3>3 DEF SameLines, Mine, Busy
    <3>7. QED
      BY <3>5, <3>6
  <2>7. ASSUME NEW to, to # "sleep", Goes(w, place[w], to), Busy(w), value' = value
        PROVE  Alone(q)' /\ \A v \in Mine(q) : v # w => ~Busy(v) /\ ~Busy(v)'
    <3>1. Busy(w)'
      BY <1>1, <2>7 DEF Goes, Busy
    <3>2. \A v \in Mine(q) : v # w => ~Busy(v) /\ ~Busy(v)'
      BY <2>3, <2>5, <2>7
    <3>3. value'[s] = 0
      BY <2>3, <2>7
    <3>4. Alone(q)'
      BY <2>4, <3>1, <3>2, <3>3 DEF Alone, Mine
    <3>5. QED
      BY <3>2, <3>4
  <2>8. CASE WriteFile(w)
    <3>1. /\ place[w] = "file" /\ Goes(w, "file", "terminal") /\ UNCHANGED <<value, terminal>>
          /\ place'[w] = "terminal" /\ written'[q] = Append(written[q], w[2])
      BY <1>1, <2>8 DEF WriteFile, Goes
    <3>2. Alone(q)' /\ \A v \in Mine(q) : v # w => ~Busy(v) /\ ~Busy(v)'
      BY <2>7, <3>1 DEF Busy
    <3>3. written[q] = terminal[q]
      BY <2>2, <3>1, <3>2 DEF SameLines, Busy
    <3>4. written'[q] = Append(terminal'[q], w[2]) /\ w \in Mine(q)'
      BY <3>1, <3>3 DEF Mine
    <3>5. \A v \in Mine(q)' : v # w => ~Busy(v)'
      BY <3>2 DEF Mine
    <3>6. SameLines(q)'
      BY <3>1, <3>4, <3>5 DEF SameLines
    <3>7. QED
      BY <3>2, <3>6
  <2>9. CASE WriteTerminal(w)
    <3>1. /\ place[w] = "terminal" /\ Goes(w, "terminal", "unlock") /\ UNCHANGED <<value, written>>
          /\ place'[w] = "unlock" /\ terminal'[q] = Append(terminal[q], w[2])
      BY <1>1, <2>9 DEF WriteTerminal, Goes
    <3>2. Alone(q)' /\ \A v \in Mine(q) : v # w => ~Busy(v) /\ ~Busy(v)'
      BY <2>7, <3>1 DEF Busy
    <3>3. written[q] = Append(terminal[q], w[2])
      BY <2>2, <3>1, <3>2 DEF SameLines, Busy
    <3>4. SameLines(q)'
      BY <3>1, <3>2, <3>3 DEF SameLines, Mine, Busy
    <3>5. QED
      BY <3>2, <3>4
  <2>10. CASE UnlockFile(w)
    <3>1. /\ place[w] = "unlock" /\ place'[w] = "sleep" /\ UNCHANGED <<written, terminal>>
          /\ SemaphorePost(s)
      BY <1>1, <2>10 DEF UnlockFile, Goes, s
    <3>2. Busy(w) /\ ~Busy(w)' /\ \A v \in Mine(q) : v # w => ~Busy(v) /\ ~Busy(v)'
      BY <2>3, <2>5, <3>1 DEF Busy
    <3>3. value'[s] = 1
      BY <2>3, <3>1, <3>2 DEF SemaphorePost
    <3>4. Alone(q)'
      BY <2>4, <3>2, <3>3 DEF Alone, Mine
    <3>5. SameLines(q)'
      BY <2>2, <3>1, <3>2 DEF SameLines, Mine, Busy
    <3>6. QED
      BY <3>4, <3>5
  <2>11. QED
    BY <2>6, <2>8, <2>9, <2>10 DEF Writer
<1>5. QED
  BY <1>3, <1>4

\* A run that ends or is killed takes its semaphore from nobody it does not disturb.
LEMMA EndKeeps ==
    ASSUME FileInv, NEW q \in Runs, CleanUp(q) \/ KillRun(q), NEW r \in Runs
    PROVE  Undisturbed(r)'
<1> USE DEF FileInv, FileTypeOK
<1>1. /\ stage[q] = "loops" /\ stage'[q] # "loops"
      /\ \A x \in Runs : x # q => stage'[x] = stage[x]
      /\ UNCHANGED <<value, sem_id, place, written, terminal>>
      /\ disturbed \subseteq disturbed' /\ \A x : x # sem_id[q] /\ x \in made => x \in made'
  BY DEF CleanUp, KillRun, Enter, loops
<1>2. Undisturbed(r)
  OBVIOUS
<1>3. CASE r = q
  <2>1. SameLines(r)' <=> SameLines(r)
    BY <1>1 DEF SameLines, Busy
  <2>2. QED
    BY <1>1, <1>2, <1>3, <2>1 DEF Undisturbed
<1>4. CASE r # q
  <2>1. ASSUME r \notin disturbed', stage[r] = "loops"
        PROVE  /\ sem_id[r] \in made' /\ value'[sem_id[r]] = value[sem_id[r]]
               /\ \A x \in Runs : stage'[x] = "loops" /\ sem_id'[x] = sem_id[r] => x = r
    <3>1. r \notin disturbed
      BY <1>1, <2>1
    <3>2. Alone(r) /\ sem_id[r] # sem_id[q]
      BY <1>1, <1>2, <1>4, <2>1, <3>1, OthersSemaphore DEF Undisturbed
    <3>3. QED
      BY <1>1, <3>2 DEF Alone, Users
  <2>2. QED
    BY <1>1, <1>2, <1>4, <2>1, RunKept
<1>5. QED
  BY <1>3, <1>4

\* Opening the file has nothing to do with the semaphore.
LEMMA OpenKeeps ==
    ASSUME FileInv, NEW q \in Runs, OpenFile(q), NEW r \in Runs
    PROVE  Undisturbed(r)'
<1>1. UNCHANGED <<made, value, sem_id, stage, place, written, terminal, disturbed>>
  BY DEF OpenFile, setup
<1>2. Undisturbed(r)
  BY DEF FileInv
<1>3. QED
  BY <1>1, <1>2 DEF Undisturbed, Alone, SameLines, Busy, Users

\* A run's write is at the end of what the run wrote; opening leaves nothing in place.
LEMMA PlacesKept ==
    ASSUME FileInv, [FileNext]_fileVars
    PROVE  FilePlaced'
<1> USE CommonFileAssumption DEF FileInv, FileTypeOK
<1>1. CASE UNCHANGED <<place, store, written>>
  BY <1>1 DEF FilePlaced, Busy, store
<1>2. ASSUME NEW q \in Runs, OpenFile(q) PROVE FilePlaced'
  <2>1. /\ q \notin opened /\ opened' = opened \cup {q} /\ file' = <<>>
        /\ mixed' = mixed \cup opened /\ UNCHANGED <<place, written>>
    BY <1>2 DEF OpenFile
  <2>2. DOMAIN file' = {} /\ Len(file') = 0
    BY <2>1
  <2>3. written[q] = <<>>
    BY <2>1 DEF FilePlaced
  <2>4. \A r \in opened' \ mixed' : r = q
    BY <2>1
  <2>5. \A r \in opened' \ mixed' : Len(file') = Len(written'[r])
    BY <2>1, <2>3, <2>4
  <2>6. QED
    BY <2>1, <2>2, <2>5 DEF FilePlaced, Busy
<1>3. ASSUME NEW w \in Writers, Lock(w) \/ WriteTerminal(w) \/ UnlockFile(w)
      PROVE  FilePlaced'
  <2>1. /\ UNCHANGED <<opened, file, mixed, written>>
        /\ \A v \in Writers : v # w => place'[v] = place[v]
        /\ place[w] # "sleep" \/ w[1] \in opened
    BY <1>3 DEF Lock, WriteTerminal, UnlockFile, Goes, store
  <2>2. \A v \in Writers : Busy(v)' => v[1] \in opened'
    BY <2>1 DEF FilePlaced, Busy
  <2>3. QED
    BY <2>1, <2>2 DEF FilePlaced
<1>4. ASSUME NEW w \in Writers, WriteFile(w) PROVE FilePlaced'
  <2> DEFINE q == w[1]
             o == Len(written[q])
  <2>1. q \in Runs /\ w[2] \in {"parent", "child"} /\ w = <<q, w[2]>>
    BY DEF Writers
  <2>2. /\ place[w] = "file" /\ place' = [place EXCEPT ![w] = "terminal"]
        /\ opened' = opened /\ mixed' = mixed \cup (opened \ {q})
        /\ written' = [written EXCEPT ![q] = Append(written[q], w[2])]
        /\ file' = Overwrite(o, w)
    BY <1>4 DEF WriteFile, Goes, Offset
  <2>3. q \in opened /\ o \in Nat /\ written[q] \in Seq({"parent", "child"})
    BY <2>1, <2>2, LenProperties DEF FilePlaced, Busy
  <2> HIDE DEF q, o
  <2>4. /\ Len(written'[q]) = o + 1 /\ written'[q][o + 1] = w[2]
        /\ \A k \in 1 .. o : written'[q][k] = written[q][k]
        /\ \A r \in Runs : r # q => written'[r] = written[r]
    BY <2>1, <2>2, <2>3, AppendProperties DEF o
  <2>5. \A k \in DOMAIN file' :
            \/ k = o + 1 /\ file'[k] = w
            \/ k \in DOMAIN file /\ k # o + 1 /\ file'[k] = file[k]
            \/ k \in Nat \ 1 .. Len(file) /\ k # o + 1 /\ file'[k] = Hole
    BY <2>2, <2>3, Overwritten
  <2>6. ASSUME NEW k \in DOMAIN file', file'[k][1] \in Runs
        PROVE  k <= Len(written'[file'[k][1]]) /\ file'[k][2] = written'[file'[k][1]][k]
    <3>1. CASE k = o + 1 /\ file'[k] = w
      BY <2>1, <2>3, <2>4, <3>1 DEF q
    <3>2. CASE k \in DOMAIN file /\ k # o + 1 /\ file'[k] = file[k]
      <4>1. k <= Len(written[file[k][1]]) /\ file[k][2] = written[file[k][1]][k]
        BY <2>6, <3>2 DEF FilePlaced
      <4>2. CASE file[k][1] # q
        BY <2>4, <2>6, <3>2, <4>1, <4>2
      <4>3. CASE file[k][1] = q
        <5>1. k \in 1 .. Len(file)
          BY <3>2, LenProperties
        <5>2. Len(file) \in Nat
          BY LenProperties
        <5>3. k <= o
          BY <4>1, <4>3 DEF o
        <5>4. k \in 1 .. o
          BY <2>3, <5>1, <5>2, <5>3
        <5>5. QED
          BY <2>3, <2>4, <3>2, <4>1, <4>3, <5>4
      <4>4. QED
        BY <4>2, <4>3
    <3>3. CASE k \in Nat \ 1 .. Len(file) /\ k # o + 1 /\ file'[k] = Hole
      BY <2>6, <3>3 DEF Hole
    <3>4. QED
      BY <2>5, <3>1, <3>2, <3>3
  <2>7. ASSUME NEW r \in opened' \ mixed'
        PROVE  Len(file') = Len(written'[r]) /\ \A k \in DOMAIN file' : file'[k][1] = r
    <3>1. r = q /\ q \in opened \ mixed
      BY <2>2, <2>7
    <3>2. Len(file) = o /\ \A k \in DOMAIN file : file[k][1] = q
      BY <3>1 DEF FilePlaced, o
    <3>3. Len(file') = o + 1 /\ file' \in Seq(Writers \cup {Hole})
      BY <2>2, <2>3, <3>2, Overwritten
    <3>4. DOMAIN file' = 1 .. o + 1
      BY <3>3, LenProperties
    <3>5. ASSUME NEW k \in DOMAIN file' PROVE file'[k][1] = q
      <4>1. k \in 1 .. o + 1
        BY <3>4
      <4>2. ~(k \in Nat \ 1 .. Len(file) /\ k # o + 1)
        BY <2>3, <3>2, <4>1
      <4>3. QED
        BY <2>5, <3>2, <4>2 DEF q
    <3>6. QED
      BY <2>4, <3>1, <3>3, <3>5
  <2>8. \A r \in Runs \ opened' : written'[r] = <<>>
    BY <2>2, <2>3, <2>4 DEF FilePlaced
  <2>9. \A v \in Writers : Busy(v)' => v[1] \in opened'
    BY <2>2, <2>3 DEF FilePlaced, Busy, q
  <2>10. QED
    BY <2>6, <2>7, <2>8, <2>9 DEF FilePlaced
<1>5. ASSUME NEW q \in Runs,
             FindSemaphore(q) \/ SetSemaphore(q) \/ CleanUp(q) \/ KillRun(q)
      PROVE  FilePlaced'
  <2>1. UNCHANGED <<place, store, written>>
    BY <1>5 DEF FindSemaphore, SetSemaphore, CleanUp, KillRun, loops
  <2>2. QED
    BY <1>1, <2>1
<1>6. ASSUME NEW q \in Runs, NEW w \in {q} \X {"parent", "child"}, Writer(w)
      PROVE  FilePlaced'
  BY <1>3, <1>4, <1>6, MineAreWriters DEF Writer, Mine
<1>7. CASE UNCHANGED fileVars
  BY <1>1, <1>7 DEF fileVars, store
<1>8. QED
  BY <1>2, <1>5, <1>6, <1>7 DEF FileNext, Run

LEMMA FileStep == FileInv /\ [FileNext]_fileVars => FileInv'
<1> SUFFICES ASSUME FileInv, [FileNext]_fileVars PROVE FileInv'
  OBVIOUS
<1>1. FileTypeOK' /\ OwnSemaphore'
  BY FileTypes DEF FileInv
<1>2. FilePlaced'
  BY PlacesKept
<1>3. ASSUME NEW r \in Runs PROVE Undisturbed(r)'
  <2>1. CASE \E q \in Runs : FindSemaphore(q) \/ SetSemaphore(q) \/ CleanUp(q) \/ KillRun(q)
    BY <2>1, FindKeeps, SetKeeps, EndKeeps
  <2>2. CASE \E q \in Runs : \E w \in Mine(q) : Writer(w)
    BY <2>2, WriterKeeps
  <2>3. CASE \E q \in Runs : OpenFile(q)
    BY <2>3, OpenKeeps
  <2>4. CASE UNCHANGED fileVars
    <3>1. Undisturbed(r)
      BY DEF FileInv
    <3>2. QED
      BY <2>4, <3>1 DEF fileVars, Undisturbed, Alone, SameLines, Busy, Users
  <2>5. QED
    BY <2>1, <2>2, <2>3, <2>4 DEF FileNext, Run, Mine
<1>4. QED
  BY <1>1, <1>2, <1>3 DEF FileInv

\* For any number of runs and lines, all in one file: unless another run sets, removes
\* or keeps its semaphore, what the file has of a run is in the place of the same line
\* on its terminal, and all of it is there, and nothing else, as long as no other run
\* opens or writes the file after it (main.c:41-48, 67-80 and 101-114; SysV 51-58,
\* 73-82 and 99-108).
THEOREM FilesInSameOrder == FileSpec => []SameOrder
<1>1. FileInit => FileInv
  <2> SUFFICES ASSUME FileInit PROVE FileInv
    OBVIOUS
  <2>1. <<>> \in Seq({"parent", "child"}) /\ <<>> \in Seq(Writers \cup {Hole})
    BY EmptySeq
  <2>2. FileTypeOK
    BY <2>1 DEF FileInit, FileTypeOK
  <2>3. OwnSemaphore
    BY MineAreWriters DEF FileInit, OwnSemaphore, Busy
  <2>4. \A r \in Runs : Undisturbed(r)
    BY MineAreWriters DEF FileInit, Undisturbed, SameLines
  <2>5. FilePlaced
    BY DEF FileInit, FilePlaced, Busy
  <2>6. QED
    BY <2>2, <2>3, <2>4, <2>5 DEF FileInv
<1>2. FileInv => SameOrder
  <2> SUFFICES ASSUME FileInv, NEW r \in Runs, r \notin disturbed
               PROVE  /\ \A k \in DOMAIN file : file[k][1] = r =>
                             /\ k <= Len(terminal[r]) + 1
                             /\ k <= Len(terminal[r]) => file[k][2] = terminal[r][k]
                      /\ r \in opened \ mixed =>
                             /\ Len(file) \in {Len(terminal[r]), Len(terminal[r]) + 1}
                             /\ \A k \in DOMAIN file : file[k][1] = r
    BY DEF SameOrder
  <2>1. /\ terminal[r] \in Seq({"parent", "child"}) /\ Len(terminal[r]) \in Nat
        /\ file \in Seq(Writers \cup {Hole})
    BY LenProperties DEF FileInv, FileTypeOK
  <2>2. \/ written[r] = terminal[r]
        \/ \E x \in {"parent", "child"} : written[r] = Append(terminal[r], x)
    BY MineAreWriters DEF FileInv, Undisturbed, SameLines
  <2>3. /\ Len(written[r]) \in {Len(terminal[r]), Len(terminal[r]) + 1}
        /\ \A k \in 1 .. Len(terminal[r]) : written[r][k] = terminal[r][k]
    BY <2>1, <2>2, AppendProperties
  <2>4. ASSUME NEW k \in DOMAIN file, file[k][1] = r
        PROVE  /\ k <= Len(terminal[r]) + 1
               /\ k <= Len(terminal[r]) => file[k][2] = terminal[r][k]
    <3>1. k \in Nat /\ 1 <= k
      <4>1. DOMAIN file = 1 .. Len(file) /\ Len(file) \in Nat
        BY <2>1, LenProperties
      <4>2. QED
        BY <4>1
    <3>2. k <= Len(written[r]) /\ file[k][2] = written[r][k]
      BY <2>4 DEF FileInv, FilePlaced
    <3>3. k <= Len(terminal[r]) + 1
      BY <2>1, <2>3, <3>1, <3>2
    <3>4. ASSUME k <= Len(terminal[r]) PROVE file[k][2] = terminal[r][k]
      <4>1. k \in 1 .. Len(terminal[r])
        BY <2>1, <3>1, <3>4
      <4>2. QED
        BY <2>3, <3>2, <4>1
    <3>5. QED
      BY <3>3, <3>4
  <2>5. ASSUME r \in opened \ mixed
        PROVE  /\ Len(file) \in {Len(terminal[r]), Len(terminal[r]) + 1}
               /\ \A k \in DOMAIN file : file[k][1] = r
    BY <2>3, <2>5 DEF FileInv, FilePlaced
  <2>6. QED
    BY <2>4, <2>5
<1>3. QED
  BY <1>1, <1>2, FileStep, PTL DEF FileSpec

-----------------------------------------------------------------------------
(* HandOver.                                                               *)

Fresh == {<<>>, <<Zero>>}

\* Who has found an object, and which object may be found.
ObjectsOK ==
    /\ ipc \in {"mq", "msg", "shm", "shmSysV"}
    /\ content \in [Procs -> Seq(Senders \cup {Zero})]
    /\ sight \in [Receivers -> Seq(Senders \cup {Zero})]
    /\ \A p \in Procs : at[p] = "start" => content[p] = <<>> /\ boundTo # p
    /\ \A p, o \in Procs : object[p] = o => at[o] # "start"
    /\ \A p \in Procs : at[p] \in {"opened", "mapped", "used", "ended"} => object[p] \in Procs
    /\ \A r \in Receivers : at[r] \in {"start", "opened", "mapped"} => result[r] = Nobody
    /\ \A r \in Receivers : at[r] = "start" => sight[r] = <<>>

\* A queue's messages are those of its senders that no receiver has.
QueuesOK ==
    IsQueue =>
        /\ \A o \in Procs : \A i \in DOMAIN content[o] :
               /\ content[o][i] \in Senders /\ Sent(content[o][i])
               /\ object[content[o][i]] = o /\ TakenBy(content[o][i]) = {}
               /\ \A j \in DOMAIN content[o] : content[o][j] = content[o][i] => j = i
        /\ \A r \in Receivers : result[r] \in Senders =>
               /\ Sent(result[r]) /\ object[result[r]] = object[r]
               /\ \A q \in Receivers : result[q] = result[r] => q = r
        /\ \A r \in Receivers : result[r] # Zero /\ sight[r] = <<>>
        /\ \A s \in Senders : Sent(s) =>
               \/ \E i \in DOMAIN content[object[s]] : content[object[s]][i] = s
               \/ \E r \in Receivers : result[r] = s

\* A memory holds one word at most; a number in it stays, or another takes its place.
MemoriesOK ==
    ~IsQueue =>
        /\ \A o \in Procs : content[o] = <<>> \/ \E x \in Senders \cup {Zero} : content[o] = <<x>>
        /\ \A r \in Receivers : sight[r] \notin Fresh =>
               object[r] \in Procs /\ content[object[r]] \notin Fresh

OverInv == OverTypeOK /\ ObjectsOK /\ QueuesOK /\ MemoriesOK /\ PrintsWhatItFound

LEMMA ProcKinds ==
    /\ \A s \in Senders : s \in Procs /\ s \notin Receivers /\ s # Zero /\ s # Nobody
    /\ \A r \in Receivers : r \in Procs /\ r \notin Senders /\ r # Nobody
    /\ \A p \in Procs : (p \in Senders \/ p \in Receivers) /\ p # Nobody
    /\ Nobody # Zero
BY HandOverAssumption DEF Procs

\* What can be in an object.
LEMMA Contents ==
    /\ <<>> \in Seq(Senders \cup {Zero}) /\ <<Zero>> \in Seq(Senders \cup {Zero})
    /\ \A c \in Seq(Senders \cup {Zero}) : \A s \in Senders :
           /\ Append(c, s) \in Seq(Senders \cup {Zero}) /\ <<s>> \in Seq(Senders \cup {Zero})
           /\ Resized(c) \in Seq(Senders \cup {Zero})
    /\ \A c \in Seq(Senders \cup {Zero}) : c # <<>> =>
           /\ Head(c) \in Senders \cup {Zero} /\ Head(c) = c[1] /\ 1 \in DOMAIN c
           /\ Tail(c) \in Seq(Senders \cup {Zero})
           /\ DOMAIN Tail(c) = 1 .. Len(c) - 1
           /\ \A i \in 1 .. Len(c) - 1 : Tail(c)[i] = c[i + 1]
<1>1. <<>> \in Seq(Senders \cup {Zero}) /\ <<Zero>> \in Seq(Senders \cup {Zero})
  OBVIOUS
<1>2. ASSUME NEW c \in Seq(Senders \cup {Zero}), NEW s \in Senders
      PROVE  /\ Append(c, s) \in Seq(Senders \cup {Zero}) /\ <<s>> \in Seq(Senders \cup {Zero})
             /\ Resized(c) \in Seq(Senders \cup {Zero})
  <2>1. s \in Senders \cup {Zero}
    OBVIOUS
  <2>2. Append(c, s) \in Seq(Senders \cup {Zero}) /\ <<s>> \in Seq(Senders \cup {Zero})
    BY <2>1, AppendProperties
  <2>3. Resized(c) = <<Zero>> \/ Resized(c) = c
    BY DEF Resized
  <2>4. QED
    BY <1>1, <2>2, <2>3
<1>3. ASSUME NEW c \in Seq(Senders \cup {Zero}), c # <<>>
      PROVE  /\ Head(c) \in Senders \cup {Zero} /\ Head(c) = c[1] /\ 1 \in DOMAIN c
             /\ Tail(c) \in Seq(Senders \cup {Zero})
             /\ DOMAIN Tail(c) = 1 .. Len(c) - 1
             /\ \A i \in 1 .. Len(c) - 1 : Tail(c)[i] = c[i + 1]
  <2>1. Len(c) \in Nat \ {0} /\ DOMAIN c = 1 .. Len(c)
    BY <1>3, EmptySeq, LenProperties
  <2>2. /\ Head(c) \in Senders \cup {Zero} /\ Tail(c) \in Seq(Senders \cup {Zero})
        /\ Len(Tail(c)) = Len(c) - 1
        /\ \A i \in 1 .. Len(Tail(c)) : Tail(c)[i] = c[i + 1]
    BY <1>3, HeadTailProperties
  <2>3. Head(c) = c[1] /\ 1 \in DOMAIN c
    BY <1>3, <2>1
  <2>4. DOMAIN Tail(c) = 1 .. Len(c) - 1
    BY <2>2, LenProperties
  <2>5. QED
    BY <2>2, <2>3, <2>4
<1>4. QED
  BY <1>1, <1>2, <1>3

\* One process takes a step: where it was, where it goes, what it has found.
LEMMA ObjectsStep ==
    OverTypeOK /\ ObjectsOK /\ [OverNext]_overVars => OverTypeOK' /\ ObjectsOK'
<1> SUFFICES ASSUME OverTypeOK, ObjectsOK, [OverNext]_overVars
             PROVE  OverTypeOK' /\ ObjectsOK'
  OBVIOUS
<1> DEFINE C == Seq(Senders \cup {Zero})
<1>1. /\ boundTo \in Procs \cup {Nobody} /\ removed \subseteq Procs
      /\ at \in [Procs -> {"start", "opened", "mapped", "used", "ended", "failed", "SIGBUS"}]
      /\ object \in [Procs -> Procs \cup {Nobody}]
      /\ result \in [Receivers -> Senders \cup {Nobody, Zero}]
      /\ content \in [Procs -> C] /\ sight \in [Receivers -> C]
      /\ \A p \in Procs : object[p] \in Procs => at[object[p]] # "start"
  BY DEF OverTypeOK, ObjectsOK
<1>2. ASSUME content' \in [Procs -> C]
      PROVE  \A o \in Procs : \A i \in DOMAIN content'[o] : content'[o][i] \in Senders \cup {Zero}
  BY <1>2, LenProperties, ElementOfSeq
<1>3. ASSUME NEW p \in Procs, Open(p) PROVE OverTypeOK' /\ ObjectsOK'
  <2>1. CASE OpenOrMake(p)
    <3> DEFINE o == IF boundTo = Nobody THEN p ELSE boundTo
    <3>1. /\ at[p] = "start" /\ at' = [at EXCEPT ![p] = "opened"] /\ boundTo' = o
          /\ object' = [object EXCEPT ![p] = o]
          /\ sight' = [r \in Receivers |-> IF r = p /\ ~IsQueue THEN content[o] ELSE sight[r]]
          /\ content' = content \/ (o = p /\ content' = [content EXCEPT ![p] = <<Zero>>])
          /\ UNCHANGED <<ipc, removed, result>>
      BY <2>1 DEF OpenOrMake, Move, Find, Fill
    <3>2. o \in Procs /\ (o = p \/ at[o] # "start")
      BY <1>1, <3>1, ProcKinds DEF ObjectsOK
    <3> HIDE DEF o
    <3>3. content' \in [Procs -> C]
      BY <1>1, <3>1, Contents
    <3>4. sight' \in [Receivers -> C]
      BY <1>1, <3>1, <3>2
    <3>5. OverTypeOK'
      BY <1>1, <1>2, <3>1, <3>2, <3>3 DEF OverTypeOK
    <3> HIDE DEF C
    <3>6. ObjectsOK'
      BY <1>1, <3>1, <3>2, <3>3, <3>4, ProcKinds DEF ObjectsOK, C
    <3>7. QED
      BY <3>5, <3>6
  <2>2. CASE OpenOnly(p) /\ p \in Receivers
    <3>1. CASE boundTo = Nobody
      <4>1. /\ at[p] = "start" /\ at' = [at EXCEPT ![p] = "failed"]
            /\ UNCHANGED <<object, sight, ipc, boundTo, content, removed, result>>
        BY <2>2, <3>1 DEF OpenOnly, Move
      <4>2. QED
        BY <1>1, <1>2, <4>1 DEF OverTypeOK, ObjectsOK
    <3>2. CASE boundTo # Nobody
      <4>1. /\ at[p] = "start" /\ at' = [at EXCEPT ![p] = "opened"]
            /\ object' = [object EXCEPT ![p] = boundTo]
            /\ sight' = [r \in Receivers |-> IF r = p /\ ~IsQueue THEN content[boundTo] ELSE sight[r]]
            /\ UNCHANGED <<ipc, boundTo, content, removed, result>>
        BY <2>2, <3>2 DEF OpenOnly, Move, Find
      <4>2. boundTo \in Procs /\ at[boundTo] # "start"
        BY <1>1, <3>2 DEF ObjectsOK
      <4>3. sight' \in [Receivers -> C]
        BY <1>1, <4>1, <4>2
      <4>4. OverTypeOK'
        BY <1>1, <1>2, <4>1, <4>2 DEF OverTypeOK
      <4> HIDE DEF C
      <4>5. ObjectsOK'
        BY <1>1, <4>1, <4>2, <4>3, ProcKinds DEF ObjectsOK, C
      <4>6. QED
        BY <4>4, <4>5
    <3>3. QED
      BY <3>1, <3>2
  <2>3. QED
    BY <1>3, <2>1, <2>2, ProcKinds DEF Open
<1>4. ASSUME NEW p \in Procs, NEW to \in {"mapped", "used", "ended", "failed", "SIGBUS"},
             at[p] \in {"opened", "mapped", "used"}, to = "mapped" => at[p] = "opened",
             at' = [at EXCEPT ![p] = to],
             boundTo' \in {boundTo, Nobody}, removed' \subseteq removed \cup {object[p]},
             content' = content \/ \E c \in C : content' = [content EXCEPT ![object[p]] = c],
             \/ result' = result
             \/ to = "used" /\ \E x \in Senders \cup {Zero} : result' = [result EXCEPT ![p] = x],
             UNCHANGED <<ipc, object, sight>>
      PROVE  OverTypeOK' /\ ObjectsOK'
  <2>1. object[p] \in Procs /\ at[object[p]] # "start"
    BY <1>1, <1>4 DEF ObjectsOK
  <2>2. content' \in [Procs -> C]
    BY <1>1, <1>4
  <2>3. result' \in [Receivers -> Senders \cup {Nobody, Zero}]
    BY <1>1, <1>4
  <2>4. OverTypeOK'
    BY <1>1, <1>2, <1>4, <2>1, <2>2, <2>3 DEF OverTypeOK
  <2>5. \A q \in Procs : at'[q] = "start" => at[q] = "start" /\ q # p /\ content'[q] = content[q]
    BY <1>1, <1>4, <2>1
  <2>6. \A r \in Receivers : at'[r] \in {"start", "opened", "mapped"} => result'[r] = Nobody
    BY <1>1, <1>4, ProcKinds DEF ObjectsOK
  <2>7. \A q \in Procs : at'[q] \in {"opened", "mapped", "used", "ended"} => object[q] \in Procs
    BY <1>1, <1>4, <2>1 DEF ObjectsOK
  <2>8. \A q, o \in Procs : object[q] = o => at'[o] # "start"
    BY <2>5 DEF ObjectsOK
  <2>9. \A q \in Procs : at'[q] = "start" => content'[q] = <<>> /\ boundTo' # q
    BY <1>4, <2>5, ProcKinds DEF ObjectsOK
  <2>10. \A r \in Receivers : at'[r] = "start" => sight'[r] = <<>>
    BY <1>4, <2>5, ProcKinds DEF ObjectsOK
  <2>11. ipc' \in {"mq", "msg", "shm", "shmSysV"} /\ sight' \in [Receivers -> C]
    BY <1>1, <1>4 DEF ObjectsOK
  <2> HIDE DEF C
  <2>12. ObjectsOK'
    BY <1>4, <2>2, <2>6, <2>7, <2>8, <2>9, <2>10, <2>11 DEF ObjectsOK, C
  <2>13. QED
    BY <2>4, <2>12
<1>5. ASSUME NEW p \in Procs, MapMemory(p) PROVE OverTypeOK' /\ ObjectsOK'
  <2>1. object[p] \in Procs /\ at[p] = "opened"
    BY <1>1, <1>5 DEF MapMemory, Move, ObjectsOK
  <2>2. Resized(content[object[p]]) \in C
    BY <1>1, <2>1, Contents DEF Resized
  <2>3. \E to \in {"mapped", "failed"} : at' = [at EXCEPT ![p] = to]
    BY <1>5 DEF MapMemory, Move
  <2>4. content' = content \/ \E c \in C : content' = [content EXCEPT ![object[p]] = c]
    BY <1>5, <2>2 DEF MapMemory, Fill
  <2>5. UNCHANGED <<ipc, boundTo, removed, object, result, sight>>
    BY <1>5 DEF MapMemory
  <2> HIDE DEF C
  <2>6. QED
    BY <1>4, <2>1, <2>3, <2>4, <2>5
<1>6. ASSUME NEW p \in Senders, Put(p) PROVE OverTypeOK' /\ ObjectsOK'
  <2>1. p \in Procs /\ at[p] \in {"opened", "mapped"}
    BY <1>6, ProcKinds DEF Put, Move, Before
  <2>2. object[p] \in Procs
    BY <1>1, <2>1 DEF ObjectsOK
  <2>3. Append(content[object[p]], p) \in C /\ <<p>> \in C
    BY <1>1, <2>2, Contents
  <2>4. \E to \in {"used", "failed"} : at' = [at EXCEPT ![p] = to]
    BY <1>6 DEF Put, Move
  <2>5. content' = content \/ \E c \in C : content' = [content EXCEPT ![object[p]] = c]
    BY <1>6, <2>3 DEF Put, Fill
  <2>6. UNCHANGED <<ipc, boundTo, removed, object, result, sight>>
    BY <1>6 DEF Put
  <2> HIDE DEF C
  <2>7. QED
    BY <1>4, <2>1, <2>4, <2>5, <2>6
<1>7. ASSUME NEW p \in Receivers, Take(p) PROVE OverTypeOK' /\ ObjectsOK'
  <2>1. p \in Procs /\ at[p] \in {"opened", "mapped"} /\ content[object[p]] # <<>>
    BY <1>7, ProcKinds DEF Take, Move, Before
  <2>2. object[p] \in Procs
    BY <1>1, <2>1 DEF ObjectsOK
  <2>3. Head(content[object[p]]) \in Senders \cup {Zero} /\ Rest(content[object[p]]) \in C
    BY <1>1, <2>1, <2>2, Contents DEF Rest
  <2>4. at' = [at EXCEPT ![p] = "used"] /\ UNCHANGED <<ipc, boundTo, removed, object, sight>>
    BY <1>7 DEF Take, Move
  <2>5. \E c \in C : content' = [content EXCEPT ![object[p]] = c]
    BY <1>7, <2>3 DEF Take, Fill
  <2>6. \E x \in Senders \cup {Zero} : result' = [result EXCEPT ![p] = x]
    BY <1>7, <2>3 DEF Take
  <2> HIDE DEF C
  <2>7. QED
    BY <1>4, <2>1, <2>4, <2>5, <2>6
<1>8. ASSUME NEW p \in Receivers, TakeFails(p) PROVE OverTypeOK' /\ ObjectsOK'
  <2>1. p \in Procs /\ at[p] \in {"opened", "mapped"}
    BY <1>8, ProcKinds DEF TakeFails, Move, Before
  <2>2. /\ \E to \in {"failed", "SIGBUS"} : at' = [at EXCEPT ![p] = to]
        /\ UNCHANGED <<ipc, boundTo, content, removed, object, result, sight>>
    BY <1>8 DEF TakeFails, Move
  <2> HIDE DEF C
  <2>3. QED
    BY <1>4, <2>1, <2>2
<1>9. ASSUME NEW p \in Procs, CleanObject(p) PROVE OverTypeOK' /\ ObjectsOK'
  <2>1. /\ at[p] = "used" /\ at' = [at EXCEPT ![p] = "ended"]
        /\ UNCHANGED <<ipc, content, object, result, sight>>
        /\ boundTo' \in {boundTo, Nobody} /\ removed' \subseteq removed \cup {object[p]}
    BY <1>9 DEF CleanObject, Move
  <2> HIDE DEF C
  <2>2. QED
    BY <1>4, <2>1
<1>10. CASE UNCHANGED overVars
  BY <1>10 DEF overVars, OverTypeOK, ObjectsOK
<1>11. QED
  BY <1>3, <1>5, <1>6, <1>7, <1>8, <1>9, <1>10 DEF OverNext, Process

\* What every step but a Put and a Take leaves alone in a queue.
LEMMA QueueKept ==
    ASSUME OverTypeOK, ObjectsOK, QueuesOK, IsQueue, UNCHANGED <<ipc, content, result, sight>>,
           \A s \in Senders : Sent(s)' <=> Sent(s),
           \A p \in Procs : at[p] # "start" => object'[p] = object[p]
    PROVE  QueuesOK'
<1>1. \A s \in Senders : Sent(s) => object'[s] = object[s]
  BY ProcKinds DEF Sent
<1>2. \A r \in Receivers : result[r] \in Senders => object'[r] = object[r]
  BY ProcKinds DEF ObjectsOK
<1>3. IsQueue'
  BY DEF IsQueue
<1>4. \A s : TakenBy(s)' = TakenBy(s)
  BY DEF TakenBy
<1>5. QED
  BY <1>1, <1>2, <1>3, <1>4 DEF QueuesOK

LEMMA QueuesStep ==
    OverTypeOK /\ ObjectsOK /\ QueuesOK /\ [OverNext]_overVars => QueuesOK'
<1> SUFFICES ASSUME OverTypeOK, ObjectsOK, QueuesOK, [OverNext]_overVars, IsQueue
             PROVE  QueuesOK'
  BY DEF OverNext, Process, Open, OpenOrMake, OpenOnly, MapMemory, Put, Take, TakeFails,
         CleanObject, overVars, IsQueue, QueuesOK
<1>1. /\ at \in [Procs -> {"start", "opened", "mapped", "used", "ended", "failed", "SIGBUS"}]
      /\ object \in [Procs -> Procs \cup {Nobody}]
      /\ result \in [Receivers -> Senders \cup {Nobody, Zero}]
      /\ content \in [Procs -> Seq(Senders \cup {Zero})]
      /\ sight \in [Receivers -> Seq(Senders \cup {Zero})]
      /\ \A p \in Procs : at[p] = "opened" => object[p] \in Procs
  BY DEF OverTypeOK, ObjectsOK
<1>2. ASSUME NEW p \in Procs, Open(p) PROVE QueuesOK'
  <2>1. OpenOrMake(p)
    BY <1>2 DEF Open, OpenOnly, IsQueue, Process
  <2>2. /\ at[p] = "start" /\ at' = [at EXCEPT ![p] = "opened"]
        /\ \E o : object' = [object EXCEPT ![p] = o]
        /\ sight' = [r \in Receivers |-> sight[r]]
        /\ UNCHANGED <<ipc, content, result>>
    BY <2>1 DEF OpenOrMake, Move, Find, IsQueue
  <2>3. sight' = sight
    BY <1>1, <2>2
  <2>4. \A s \in Senders : Sent(s)' <=> Sent(s)
    BY <1>1, <2>2, ProcKinds DEF Sent
  <2>5. \A q \in Procs : at[q] # "start" => object'[q] = object[q]
    BY <1>1, <2>2
  <2>6. QED
    BY <2>2, <2>3, <2>4, <2>5, QueueKept
<1>3. ASSUME NEW p \in Senders, Put(p) PROVE QueuesOK'
  <2> DEFINE o == object[p]
             c == content[o]
  <2>1. at[p] = "opened" /\ p \in Procs /\ o \in Procs
        /\ UNCHANGED <<ipc, object, result, sight>>
    BY <1>1, <1>3, ProcKinds DEF Put, Move, Before
  <2>2. CASE QueueGone(p)
    <3>1. at' = [at EXCEPT ![p] = "failed"] /\ content' = content
      BY <1>3, <2>2 DEF Put, Move
    <3>2. \A s \in Senders : Sent(s)' <=> Sent(s)
      BY <1>1, <2>1, <3>1, ProcKinds DEF Sent
    <3>3. QED
      BY <2>1, <3>1, <3>2, QueueKept
  <2>3. CASE ~QueueGone(p)
    <3>1. /\ at' = [at EXCEPT ![p] = "used"]
          /\ content' = [content EXCEPT ![o] = Append(c, p)]
      BY <1>3, <2>3 DEF Put, Move, Fill
    <3>2. \A s \in Senders : Sent(s)' <=> Sent(s) \/ s = p
      BY <1>1, <2>1, <3>1, ProcKinds DEF Sent
    <3>3. /\ c \in Seq(Senders \cup {Zero}) /\ Len(c) \in Nat /\ DOMAIN c = 1 .. Len(c)
          /\ DOMAIN Append(c, p) = 1 .. Len(c) + 1
          /\ \A i \in 1 .. Len(c) : Append(c, p)[i] = c[i]
          /\ Append(c, p)[Len(c) + 1] = p
      <4>1. c \in Seq(Senders \cup {Zero}) /\ p \in Senders \cup {Zero}
        BY <1>1, <2>1
      <4> HIDE DEF c
      <4>2. /\ Append(c, p) \in Seq(Senders \cup {Zero}) /\ Len(Append(c, p)) = Len(c) + 1
            /\ \A i \in 1 .. Len(c) : Append(c, p)[i] = c[i]
            /\ Append(c, p)[Len(c) + 1] = p
        BY <4>1, AppendProperties
      <4>3. Len(c) \in Nat /\ DOMAIN c = 1 .. Len(c)
            /\ DOMAIN Append(c, p) = 1 .. Len(Append(c, p))
        BY <4>1, <4>2, LenProperties
      <4>4. QED
        BY <4>1, <4>2, <4>3
    <3>4. ~Sent(p)
      BY <2>1 DEF Sent
    <3>5. /\ \A x \in Procs : \A i \in DOMAIN content[x] : content[x][i] # p
          /\ \A r \in Receivers : result[r] # p
      BY <3>4 DEF QueuesOK
    <3>6. \A x \in Procs : x # o => content'[x] = content[x]
      BY <1>1, <3>1
    <3>7. content'[o] = Append(c, p)
      BY <1>1, <2>1, <3>1
    <3>8. TakenBy(p) = {} /\ \A s : TakenBy(s)' = TakenBy(s)
      BY <2>1, <3>5 DEF TakenBy
    <3> HIDE DEF c
    <3>9. ASSUME NEW x \in Procs, NEW i \in DOMAIN content'[x], NEW u, content'[x][i] = u
          PROVE  /\ u \in Senders /\ Sent(u)' /\ object'[u] = x /\ TakenBy(u)' = {}
                 /\ \A j \in DOMAIN content'[x] : content'[x][j] = u => j = i
      <4>1. CASE x # o
        BY <2>1, <3>2, <3>6, <3>8, <3>9, <4>1 DEF QueuesOK
      <4>2. CASE x = o /\ i = Len(c) + 1
        <5>1. u = p
          BY <3>3, <3>7, <3>9, <4>2
        <5>2. \A j \in DOMAIN content'[x] : content'[x][j] = p => j = i
          BY <2>1, <3>3, <3>5, <3>7, <4>2 DEF c
        <5>3. QED
          BY <2>1, <3>2, <3>8, <4>2, <5>1, <5>2
      <4>3. CASE x = o /\ i # Len(c) + 1
        <5>1. i \in DOMAIN c /\ u = c[i]
          BY <3>3, <3>7, <3>9, <4>3
        <5>2. /\ c[i] \in Senders /\ Sent(c[i]) /\ object[c[i]] = o /\ TakenBy(c[i]) = {}
              /\ \A j \in DOMAIN c : c[j] = c[i] => j = i
              /\ c[i] # p
          <6>1. c = content[o] /\ i \in DOMAIN content[o]
            BY <5>1 DEF c
          <6>2. /\ c[i] \in Senders /\ Sent(c[i]) /\ object[c[i]] = o /\ TakenBy(c[i]) = {}
                /\ \A j \in DOMAIN content[o] : content[o][j] = c[i] => j = i
            <7>1. /\ content[o][i] \in Senders /\ Sent(content[o][i])
                  /\ object[content[o][i]] = o /\ TakenBy(content[o][i]) = {}
                  /\ \A j \in DOMAIN content[o] : content[o][j] = content[o][i] => j = i
              <8>1. o \in Procs /\ i \in DOMAIN content[o]
                BY <2>1, <6>1
              <8> HIDE DEF o
              <8>2. QED
                BY <8>1, ZenonT(20) DEF QueuesOK
            <7>2. c[i] = content[o][i]
              BY <6>1
            <7>3. QED
              BY <7>1, <7>2
          <6>3. c[i] # p
            BY <2>1, <3>5, <6>1
          <6>4. QED
            BY <6>1, <6>2, <6>3
        <5>3. \A j \in DOMAIN content'[x] : content'[x][j] = u => j = i
          BY <3>3, <3>7, <4>3, <5>1, <5>2
        <5>4. QED
          BY <2>1, <3>2, <3>8, <4>3, <5>1, <5>2, <5>3
      <4>4. QED
        BY <4>1, <4>2, <4>3
    <3>10. ASSUME NEW s \in Senders, Sent(s)'
           PROVE  \/ \E i \in DOMAIN content'[object'[s]] : content'[object'[s]][i] = s
                  \/ \E r \in Receivers : result'[r] = s
      <4>1. CASE s = p
        BY <2>1, <3>3, <3>7, <4>1
      <4>2. CASE s # p
        <5>1. \/ \E i \in DOMAIN content[object[s]] : content[object[s]][i] = s
              \/ \E r \in Receivers : result[r] = s
          BY <3>2, <3>10, <4>2 DEF QueuesOK
        <5>2. object[s] \in Procs
          BY <3>2, <3>10, <4>2, ProcKinds DEF Sent, ObjectsOK
        <5>3. CASE object[s] = o
          <6>1. ASSUME NEW i \in DOMAIN c, c[i] = s
                PROVE  i \in DOMAIN content'[o] /\ content'[o][i] = s
            BY <3>3, <3>7, <6>1
          <6>2. content[o] = c /\ object'[s] = o /\ result' = result
            BY <2>1, <5>3 DEF c
          <6>3. QED
            BY <5>1, <5>3, <6>1, <6>2
        <5>4. CASE object[s] # o
          BY <2>1, <3>6, <5>1, <5>2, <5>4
        <5>5. QED
          BY <5>3, <5>4
      <4>3. QED
        BY <4>1, <4>2
    <3>11. ASSUME NEW r \in Receivers, NEW u \in Senders, result'[r] = u
           PROVE  /\ Sent(u)' /\ object'[u] = object'[r]
                  /\ \A q \in Receivers : result'[q] = u => q = r
      BY <2>1, <3>2, <3>11 DEF QueuesOK
    <3>12. \A r \in Receivers : result'[r] # Zero /\ sight'[r] = <<>>
      BY <2>1 DEF QueuesOK
    <3>13. QED
      BY <3>9, <3>10, <3>11, <3>12 DEF QueuesOK, Sent, TakenBy
  <2>4. QED
    BY <2>2, <2>3
<1>4. ASSUME NEW p \in Receivers, Take(p) PROVE QueuesOK'
  <2> DEFINE o == object[p]
             c == content[o]
             m == Head(c)
  <2>1. /\ at[p] = "opened" /\ at' = [at EXCEPT ![p] = "used"] /\ p \in Procs /\ o \in Procs
        /\ c # <<>> /\ content' = [content EXCEPT ![o] = Tail(c)]
        /\ result' = [result EXCEPT ![p] = m]
        /\ UNCHANGED <<ipc, object, sight>>
    BY <1>1, <1>4, ProcKinds DEF Take, Move, Before, Fill, Rest
  <2>2. \A s \in Senders : Sent(s)' <=> Sent(s)
    BY <1>1, <2>1, ProcKinds DEF Sent
  <2>3. c \in Seq(Senders \cup {Zero}) /\ Len(c) \in Nat /\ DOMAIN c = 1 .. Len(c)
    BY <1>1, <2>1, LenProperties
  <2>4. /\ m = c[1] /\ 1 \in DOMAIN c /\ DOMAIN Tail(c) = 1 .. Len(c) - 1
        /\ \A i \in 1 .. Len(c) - 1 : Tail(c)[i] = c[i + 1]
    BY <2>1, <2>3, Contents
  <2>5. /\ \A x \in Procs : x # o => content'[x] = content[x]
        /\ content'[o] = Tail(c)
    BY <1>1, <2>1
  <2>6. \A i \in DOMAIN c :
            /\ c[i] \in Senders /\ Sent(c[i]) /\ object[c[i]] = o /\ TakenBy(c[i]) = {}
            /\ \A j \in DOMAIN c : c[j] = c[i] => j = i
    BY <2>1 DEF QueuesOK
  <2>7. /\ \A r \in Receivers : r # p => result'[r] = result[r]
        /\ result'[p] = m /\ result[p] = Nobody
    BY <1>1, <2>1 DEF ObjectsOK
  <2>8. /\ m \in Senders /\ Sent(m) /\ object[m] = o
        /\ \A r \in Receivers : result[r] # m
    BY <2>4, <2>6 DEF TakenBy
  <2> HIDE DEF m
  <2>9. \A s \in Senders : s # m => TakenBy(s)' = TakenBy(s)
    BY <2>7, ProcKinds DEF TakenBy
  <2> HIDE DEF c
  <2>10. ASSUME NEW x \in Procs, NEW i \in DOMAIN content'[x], NEW u, content'[x][i] = u
         PROVE  /\ u \in Senders /\ Sent(u)' /\ object'[u] = x /\ TakenBy(u)' = {}
                /\ \A j \in DOMAIN content'[x] : content'[x][j] = u => j = i
    <3>1. CASE x # o
      <4>1. /\ content'[x] = content[x] /\ u \in Senders /\ Sent(u)
            /\ object[u] = x /\ TakenBy(u) = {}
            /\ \A j \in DOMAIN content[x] : content[x][j] = u => j = i
        BY <2>5, <2>10, <3>1 DEF QueuesOK
      <4>2. u # m
        BY <2>8, <3>1, <4>1
      <4>3. QED
        BY <2>1, <2>2, <2>9, <4>1, <4>2
    <3>2. CASE x = o
      <4>1. /\ i + 1 \in DOMAIN c /\ u = c[i + 1]
            /\ \A j \in DOMAIN content'[x] : j + 1 \in DOMAIN c /\ content'[x][j] = c[j + 1]
        BY <2>3, <2>4, <2>5, <2>10, <3>2
      <4>2. c[i + 1] # m
        BY <2>3, <2>4, <2>5, <2>6, <3>2, <4>1
      <4>3. \A j \in DOMAIN content'[x] : content'[x][j] = u => j = i
        BY <2>3, <2>4, <2>5, <2>6, <3>2, <4>1
      <4>4. QED
        BY <2>1, <2>2, <2>6, <2>9, <3>2, <4>1, <4>2, <4>3
    <3>3. QED
      BY <3>1, <3>2
  <2>11. ASSUME NEW s \in Senders, Sent(s)'
         PROVE  \/ \E i \in DOMAIN content'[object'[s]] : content'[object'[s]][i] = s
                \/ \E r \in Receivers : result'[r] = s
    <3>1. CASE s = m
      BY <2>7, <3>1
    <3>2. CASE s # m
      <4>1. \/ \E i \in DOMAIN content[object[s]] : content[object[s]][i] = s
            \/ \E r \in Receivers : result[r] = s
        BY <2>2, <2>11 DEF QueuesOK
      <4>2. object[s] \in Procs
        BY <2>2, <2>11, ProcKinds DEF Sent, ObjectsOK
      <4>3. CASE \E r \in Receivers : result[r] = s
        BY <2>7, <4>3, ProcKinds
      <4>4. ASSUME object[s] = o, NEW i \in DOMAIN c, c[i] = s
            PROVE  \E k \in DOMAIN content'[object'[s]] : content'[object'[s]][k] = s
        <5>1. i # 1
          BY <2>4, <3>2, <4>4
        <5>2. i - 1 \in 1 .. Len(c) - 1 /\ i - 1 + 1 = i
          BY <2>3, <4>4, <5>1
        <5>3. Tail(c)[i - 1] = s
          BY <2>4, <4>4, <5>2
        <5>4. QED
          BY <2>1, <2>4, <2>5, <4>4, <5>2, <5>3
      <4>5. CASE object[s] # o
        BY <2>1, <2>5, <2>7, <4>1, <4>2, <4>5, ProcKinds
      <4>6. QED
        BY <4>1, <4>3, <4>4, <4>5 DEF c
    <3>3. QED
      BY <3>1, <3>2
  <2>12. ASSUME NEW r \in Receivers, NEW u \in Senders, result'[r] = u
         PROVE  /\ Sent(u)' /\ object'[u] = object'[r]
                /\ \A q \in Receivers : result'[q] = u => q = r
    BY <2>1, <2>2, <2>7, <2>8, <2>12 DEF QueuesOK
  <2>13. \A r \in Receivers : result'[r] # Zero /\ sight'[r] = <<>>
    BY <2>1, <2>7, <2>8, ProcKinds DEF QueuesOK
  <2>14. QED
    BY <2>10, <2>11, <2>12, <2>13 DEF QueuesOK, Sent, TakenBy
<1>5. ASSUME NEW p \in Procs, (p \in Receivers /\ TakeFails(p)) \/ CleanObject(p)
      PROVE  QueuesOK'
  <2>1. /\ UNCHANGED <<ipc, content, object, result, sight>>
        /\ \/ p \in Receivers /\ \E to : at' = [at EXCEPT ![p] = to]
           \/ at[p] = "used" /\ at' = [at EXCEPT ![p] = "ended"]
    BY <1>5 DEF TakeFails, CleanObject, Move
  <2>2. \A s \in Senders : Sent(s)' <=> Sent(s)
    BY <1>1, <2>1, ProcKinds DEF Sent
  <2>3. QED
    BY <2>1, <2>2, QueueKept
<1>6. CASE UNCHANGED overVars
  BY <1>6, QueueKept DEF overVars, Sent
<1>7. QED
  BY <1>2, <1>3, <1>4, <1>5, <1>6, ProcKinds DEF OverNext, Process, MapMemory

\* A memory is never emptied of a number, so who found one in it reads one.
LEMMA MemoriesStep ==
    /\ OverTypeOK /\ ObjectsOK /\ QueuesOK /\ MemoriesOK /\ PrintsWhatItFound
    /\ [OverNext]_overVars
    => MemoriesOK' /\ PrintsWhatItFound'
<1> SUFFICES ASSUME OverTypeOK, ObjectsOK, QueuesOK, MemoriesOK, PrintsWhatItFound,
                    [OverNext]_overVars
             PROVE  MemoriesOK' /\ PrintsWhatItFound'
  OBVIOUS
<1>1. IsQueue' <=> IsQueue
  BY DEF OverNext, Process, Open, OpenOrMake, OpenOnly, MapMemory, Put, Take, TakeFails,
         CleanObject, overVars, IsQueue
<1>2. CASE IsQueue
  <2>1. QueuesOK'
    BY QueuesStep
  <2>2. \A r \in Receivers : sight'[r] = <<>>
    BY <1>1, <1>2, <2>1 DEF QueuesOK
  <2>3. PrintsWhatItFound'
    BY <2>2 DEF PrintsWhatItFound
  <2>4. QED
    BY <1>1, <1>2, <2>3 DEF MemoriesOK
<1>3. CASE ~IsQueue
  <2> DEFINE Word(c) == c = <<>> \/ \E x \in Senders \cup {Zero} : c = <<x>>
             Kept(r) == sight[r] \notin Fresh =>
                            /\ object[r] \in Procs /\ content[object[r]] \notin Fresh
                            /\ result[r] # Zero /\ at[r] # "SIGBUS"
  <2>1. /\ at \in [Procs -> {"start", "opened", "mapped", "used", "ended", "failed", "SIGBUS"}]
        /\ object \in [Procs -> Procs \cup {Nobody}]
        /\ result \in [Receivers -> Senders \cup {Nobody, Zero}]
        /\ content \in [Procs -> Seq(Senders \cup {Zero})]
        /\ sight \in [Receivers -> Seq(Senders \cup {Zero})]
    BY DEF OverTypeOK, ObjectsOK
  <2>2. /\ \A o \in Procs : Word(content[o])
        /\ \A r \in Receivers : Kept(r)
    BY <1>3 DEF MemoriesOK, PrintsWhatItFound, Fresh
  <2>3. ASSUME \A o \in Procs : Word(content'[o]), \A r \in Receivers : Kept(r)'
        PROVE  MemoriesOK' /\ PrintsWhatItFound'
    BY <1>1, <1>3, <2>3 DEF MemoriesOK, PrintsWhatItFound, Fresh
  <2>4. ASSUME NEW p \in Procs, Open(p) PROVE MemoriesOK' /\ PrintsWhatItFound'
    <3>1. CASE p \in Senders
      <4>1. OpenOrMake(p)
        BY <2>4, <3>1 DEF Open
      <4>2. /\ at[p] = "start" /\ at' = [at EXCEPT ![p] = "opened"] /\ result' = result
            /\ \E o : object' = [object EXCEPT ![p] = o]
            /\ sight' = [r \in Receivers |-> IF r = p /\ ~IsQueue THEN content'[object'[p]] ELSE sight[r]]
               \/ sight' = [r \in Receivers |-> sight[r]]
            /\ content' = content \/ content' = [content EXCEPT ![p] = <<Zero>>]
        BY <3>1, <4>1, ProcKinds DEF OpenOrMake, Move, Find, Fill
      <4>3. \A r \in Receivers : /\ r # p /\ object'[r] = object[r] /\ at'[r] = at[r]
                                 /\ sight'[r] = sight[r] /\ object[r] # p
        BY <2>1, <3>1, <4>2, ProcKinds DEF ObjectsOK
      <4>4. \A o \in Procs : content'[o] = content[o] \/ content'[o] = <<Zero>>
        BY <2>1, <4>2
      <4>5. \A o \in Procs : Word(content'[o])
        BY <2>2, <4>4
      <4>6. \A r \in Receivers : object[r] \in Procs => content'[object[r]] = content[object[r]]
        BY <2>1, <4>2, <4>3
      <4>7. \A r \in Receivers : Kept(r)'
        BY <2>2, <4>2, <4>3, <4>6
      <4>8. QED
        BY <2>3, <4>5, <4>7
    <3>2. CASE p \in Receivers
      <4>1. OpenOnly(p)
        BY <1>3, <2>4, <3>2, ProcKinds DEF Open
      <4>2. CASE boundTo = Nobody
        <5>1. /\ at' = [at EXCEPT ![p] = "failed"]
              /\ UNCHANGED <<content, object, sight, result>>
          BY <4>1, <4>2 DEF OpenOnly, Move
        <5>2. \A r \in Receivers : Kept(r)'
          BY <2>1, <2>2, <5>1, ProcKinds
        <5>3. QED
          BY <2>2, <2>3, <5>1, <5>2
      <4>3. CASE boundTo # Nobody
        <5>1. /\ at[p] = "start" /\ at' = [at EXCEPT ![p] = "opened"]
              /\ object' = [object EXCEPT ![p] = boundTo]
              /\ sight' = [r \in Receivers |-> IF r = p THEN content[boundTo] ELSE sight[r]]
              /\ UNCHANGED <<content, result>>
          BY <1>3, <4>1, <4>3 DEF OpenOnly, Move, Find
        <5>2. Kept(p)'
          <6>1. /\ sight'[p] = content[boundTo] /\ object'[p] = boundTo /\ at'[p] = "opened"
                /\ content' = content
            BY <2>1, <3>2, <5>1
          <6>2. result'[p] = Nobody /\ Nobody # Zero
            BY <3>2, <5>1, ProcKinds DEF ObjectsOK
          <6>3. boundTo \in Procs
            BY <4>3 DEF OverTypeOK
          <6>4. QED
            BY <6>1, <6>2, <6>3
        <5>3. ASSUME NEW r \in Receivers, r # p PROVE Kept(r)'
          <6>1. /\ sight'[r] = sight[r] /\ object'[r] = object[r] /\ at'[r] = at[r]
                /\ content' = content /\ result' = result
            BY <2>1, <5>1, <5>3, ProcKinds
          <6>2. QED
            BY <2>2, <6>1
        <5>4. QED
          BY <2>2, <2>3, <5>1, <5>2, <5>3
      <4>4. QED
        BY <4>2, <4>3
    <3>3. QED
      BY <3>1, <3>2, ProcKinds
  <2>5. ASSUME NEW p \in Procs, NEW c, c = content[object[p]],
               at[p] \in {"opened", "mapped"}, UNCHANGED <<object, sight, result>>,
               \E to \in {"mapped", "failed", "used"} : at' = [at EXCEPT ![p] = to],
               \/ content' = content
               \/ \E d : /\ content' = [content EXCEPT ![object[p]] = d]
                         /\ Word(c) => Word(d) /\ (c \notin Fresh => d \notin Fresh)
        PROVE  MemoriesOK' /\ PrintsWhatItFound'
    <3>1. object[p] \in Procs
      BY <2>5 DEF ObjectsOK
    <3>2. \A r \in Receivers : at'[r] = "SIGBUS" => at[r] = "SIGBUS"
      BY <2>1, <2>5, ProcKinds
    <3>3. \A o \in Procs : \/ content'[o] = content[o]
                           \/ o = object[p] /\ Word(content'[o])
                              /\ (content[o] \notin Fresh => content'[o] \notin Fresh)
      <4>1. Word(c)
        BY <2>2, <2>5, <3>1
      <4> HIDE DEF Word
      <4>2. QED
        BY <2>1, <2>5, <3>1, <4>1
    <3>4. \A o \in Procs : Word(content'[o])
      BY <2>2, <3>3
    <3>5. ASSUME NEW r \in Receivers, sight[r] \notin Fresh
          PROVE  object[r] \in Procs /\ content'[object[r]] \notin Fresh
      BY <2>2, <3>3, <3>5
    <3>6. \A r \in Receivers : Kept(r)'
      BY <2>2, <2>5, <3>2, <3>5
    <3>7. QED
      BY <2>3, <3>4, <3>6
  <2>6. ASSUME NEW p \in Procs, MapMemory(p) PROVE MemoriesOK' /\ PrintsWhatItFound'
    <3> DEFINE c == content[object[p]]
    <3>1. Word(c) => Word(Resized(c)) /\ (c \notin Fresh => Resized(c) \notin Fresh)
      BY DEF Resized, Fresh
    <3>2. \E to \in {"mapped", "failed"} : at' = [at EXCEPT ![p] = to]
      BY <2>6 DEF MapMemory, Move
    <3>3. /\ at[p] = "opened" /\ UNCHANGED <<object, sight, result>>
          /\ content' = content \/ content' = [content EXCEPT ![object[p]] = Resized(c)]
      BY <2>6 DEF MapMemory, Move, Fill
    <3> HIDE DEF Word
    <3>4. QED
      BY <2>5, <3>1, <3>2, <3>3
  <2>7. ASSUME NEW p \in Senders, Put(p) PROVE MemoriesOK' /\ PrintsWhatItFound'
    <3>1. /\ p \in Procs /\ at[p] = "mapped" /\ at' = [at EXCEPT ![p] = "used"]
          /\ content' = [content EXCEPT ![object[p]] = <<p>>]
          /\ UNCHANGED <<object, sight, result>>
      BY <1>3, <2>7, ProcKinds DEF Put, Move, Before, QueueGone, Fill
    <3>2. Word(<<p>>) /\ <<p>> \notin Fresh
      BY ProcKinds DEF Fresh
    <3> HIDE DEF Word
    <3>3. QED
      BY <2>5, <3>1, <3>2
  <2>8. ASSUME NEW p \in Receivers, Take(p) PROVE MemoriesOK' /\ PrintsWhatItFound'
    <3> DEFINE o == object[p]
    <3>1. /\ p \in Procs /\ at[p] = "mapped" /\ at' = [at EXCEPT ![p] = "used"]
          /\ content[o] # <<>> /\ content' = [content EXCEPT ![o] = content[o]]
          /\ result' = [result EXCEPT ![p] = Head(content[o])]
          /\ UNCHANGED <<object, sight>>
      BY <1>3, <2>8, ProcKinds DEF Take, Move, Before, Fill, Rest
    <3>2. o \in Procs
      BY <3>1 DEF ObjectsOK
    <3>3. content' = content
      BY <2>1, <3>1
    <3>4. content[o] \notin Fresh => Head(content[o]) # Zero
      <4>1. PICK x \in Senders \cup {Zero} : content[o] = <<x>>
        BY <2>2, <3>1, <3>2
      <4>2. Head(content[o]) = x
        BY <4>1
      <4>3. QED
        BY <4>1, <4>2 DEF Fresh
    <3>5. Kept(p)'
      BY <2>1, <2>2, <3>1, <3>3, <3>4
    <3>6. ASSUME NEW r \in Receivers, r # p PROVE Kept(r)'
      BY <2>1, <2>2, <3>1, <3>3, <3>6, ProcKinds
    <3>7. QED
      BY <2>2, <2>3, <3>3, <3>5, <3>6
  <2>9. ASSUME NEW p \in Receivers, TakeFails(p) PROVE MemoriesOK' /\ PrintsWhatItFound'
    <3>1. /\ content[object[p]] = <<>> /\ at' = [at EXCEPT ![p] = "SIGBUS"]
          /\ UNCHANGED <<content, object, sight, result>>
      BY <1>3, <2>9 DEF TakeFails, Move, QueueGone
    <3>2. sight[p] \in Fresh
      BY <2>2, <3>1 DEF Fresh
    <3>3. \A r \in Receivers : Kept(r)'
      BY <2>1, <2>2, <3>1, <3>2, ProcKinds
    <3>4. QED
      BY <2>2, <2>3, <3>1, <3>3
  <2>10. ASSUME NEW p \in Procs, CleanObject(p) PROVE MemoriesOK' /\ PrintsWhatItFound'
    <3>1. /\ at' = [at EXCEPT ![p] = "ended"]
          /\ UNCHANGED <<content, object, sight, result>>
      BY <2>10 DEF CleanObject, Move
    <3>2. \A r \in Receivers : Kept(r)'
      BY <2>1, <2>2, <3>1, ProcKinds
    <3>3. QED
      BY <2>2, <2>3, <3>1, <3>2
  <2>11. CASE UNCHANGED overVars
    BY <2>2, <2>3, <2>11 DEF overVars
  <2>12. QED
    BY <2>4, <2>6, <2>7, <2>8, <2>9, <2>10, <2>11 DEF OverNext, Process
<1>4. QED
  BY <1>2, <1>3

LEMMA OverInitInv == OverInit => OverInv
<1> SUFFICES ASSUME OverInit PROVE OverInv
  OBVIOUS
<1>1. /\ ipc \in {"mq", "msg", "shm", "shmSysV"}
      /\ \A p \in Procs : content[p] = <<>> /\ at[p] = "start" /\ object[p] = Nobody
      /\ \A r \in Receivers : at[r] = "start" /\ result[r] = Nobody /\ sight[r] = <<>>
  BY ProcKinds DEF OverInit
<1>2. OverTypeOK
  BY <1>1 DEF OverInit, OverTypeOK
<1>3. ObjectsOK
  BY <1>1, ProcKinds, Contents DEF OverInit, ObjectsOK
<1>4. QueuesOK
  BY <1>1, ProcKinds DEF QueuesOK, Sent
<1>5. MemoriesOK /\ PrintsWhatItFound
  BY <1>1 DEF MemoriesOK, PrintsWhatItFound, Fresh
<1>6. QED
  BY <1>2, <1>3, <1>4, <1>5 DEF OverInv

LEMMA OverInvHolds == OverSpec => []OverInv
<1>1. OverInv /\ [OverNext]_overVars => OverInv'
  BY ObjectsStep, QueuesStep, MemoriesStep DEF OverInv
<1>2. QED
  BY <1>1, OverInitInv, PTL DEF OverSpec

\* A number is in one place: in its queue once, or with one receiver.
LEMMA InOnePlace == OverInv => HandedToOne
<1> SUFFICES ASSUME OverInv, IsQueue, NEW s \in Senders, Sent(s)
             PROVE  LET waiting == {i \in DOMAIN content[object[s]] : content[object[s]][i] = s} IN
                        /\ Cardinality(waiting) + Cardinality(TakenBy(s)) = 1
                        /\ \A r \in TakenBy(s) : object[r] = object[s]
  BY DEF HandedToOne
<1> DEFINE c == content[object[s]]
           waiting == {i \in DOMAIN c : c[i] = s}
<1>1. object[s] \in Procs
  BY ProcKinds DEF OverInv, ObjectsOK, Sent
<1>2. \A r \in TakenBy(s) : object[r] = object[s] /\ \A q \in TakenBy(s) : q = r
  BY DEF OverInv, QueuesOK, TakenBy
<1>3. CASE waiting = {}
  <2>1. PICK r \in Receivers : result[r] = s
    BY <1>3 DEF OverInv, QueuesOK
  <2>2. TakenBy(s) = {r}
    BY <1>2, <2>1 DEF TakenBy
  <2>3. Cardinality(TakenBy(s)) = 1 /\ Cardinality(waiting) = 0
    BY <1>3, <2>2, FS_Singleton, FS_EmptySet
  <2>4. QED
    BY <1>2, <2>3
<1>4. ASSUME NEW i \in waiting
      PROVE  Cardinality(waiting) + Cardinality(TakenBy(s)) = 1
  <2>1. /\ TakenBy(s) = {} /\ \A j \in waiting : j = i
    <3> DEFINE o == object[s]
    <3>1. o \in Procs /\ i \in DOMAIN content[o] /\ content[o][i] = s
      BY <1>1, <1>4
    <3> HIDE DEF o
    <3>2. /\ TakenBy(content[o][i]) = {}
          /\ \A j \in DOMAIN content[o] : content[o][j] = content[o][i] => j = i
      BY <3>1, ZenonT(20) DEF OverInv, QueuesOK
    <3>3. QED
      BY <3>1, <3>2 DEF o
  <2>2. waiting = {i}
    BY <1>4, <2>1
  <2>3. Cardinality(TakenBy(s)) = 0 /\ Cardinality(waiting) = 1
    BY <2>1, <2>2, FS_Singleton, FS_EmptySet
  <2>4. QED
    BY <2>3
<1>5. QED
  BY <1>2, <1>3, <1>4

\* HandedOver, for any senders and receivers, through any of the four objects: a
\* number put into a queue is in it or with one receiver, and a receiver that finds
\* a number in a memory prints one (KolKom and PamiecWsp, sender.c and receiver.c).
THEOREM HandedOverOnce == OverSpec => []HandedOver
<1>1. OverInv => HandedOver
  BY InOnePlace DEF OverInv, HandedOver
<1>2. QED
  BY <1>1, OverInvHolds, PTL

=============================================================================
