---------------------------- MODULE SignalModes ----------------------------
(***************************************************************************)
(* The programs cw05/assignment/catcher.c and sender.c: a sender queues a  *)
(* mode, 1 to 5, with SIGUSR1 and pauses until the catcher confirms it     *)
(* with SIGUSR1; the catcher keeps the mode, the number of its changes, a  *)
(* counter that runs in mode 2, and what it does on SIGINT.                *)
(*                                                                         *)
(* SIGUSR1 is a standard signal: while one is pending, others are dropped, *)
(* also with sigqueue.  It is blocked while its handler runs.              *)
(***************************************************************************)
EXTENDS Naturals

CONSTANTS
    Shooters,       \* the senders
    NoSignal,
    MaxSent         \* bound: values each sender sends

ASSUME ModesAssumption ==
    NoSignal \notin Shooters /\ NoSignal \notin [from : Shooters, value : 1..5]

VARIABLES
    current_type, changes, timer_running,
    interrupt,      \* what SIGINT does to the catcher
    catcher,        \* where main of the catcher is, or how it ended
    handling,       \* the sender the handler is to confirm, or NoSignal
    pending,        \* the signal that waits for the catcher, or NoSignal
    shooter,        \* where each sender is
    sent, handled,  \* history: values of each sender sent, and handled
    lost,           \* history: whose signal was dropped or confirmation came too early
    overlooked      \* history: a signal was handled between the test and pause()

modeVars == <<current_type, changes, timer_running, interrupt, catcher, handling, pending,
              shooter, sent, handled, lost, overlooked>>
mode == <<current_type, changes, timer_running, interrupt>>
senders == <<shooter, sent, lost>>

Alive == catcher \notin {"exited", "killed"}
Free == Alive /\ handling = NoSignal

ModeInit ==
    /\ current_type = 0 /\ changes = 0 /\ timer_running = FALSE
    /\ interrupt = "default" /\ catcher = "test"
    /\ handling = NoSignal /\ pending = NoSignal
    /\ shooter = [s \in Shooters |-> "read"]
    /\ sent = [s \in Shooters |-> 0] /\ handled = sent
    /\ lost = {} /\ overlooked = FALSE

\* sigqueue, which says nothing of a signal dropped or of a catcher that ended.
Shoot(s, v) ==
    /\ shooter[s] = "read" /\ sent[s] < MaxSent
    /\ shooter' = [shooter EXCEPT ![s] = "sent"]
    /\ sent' = [sent EXCEPT ![s] = @ + 1]
    /\ IF Alive /\ pending = NoSignal
       THEN pending' = [from |-> s, value |-> v] /\ UNCHANGED lost
       ELSE lost' = lost \cup {s} /\ UNCHANGED pending
    /\ UNCHANGED <<mode, catcher, handling, handled, overlooked>>

Pause(s) ==
    /\ shooter[s] = "sent" /\ shooter' = [shooter EXCEPT ![s] = "pausing"]
    /\ UNCHANGED <<mode, catcher, handling, pending, sent, handled, lost, overlooked>>

\* Mutant: the counter is not looked at again.
Counting_Not == FALSE

\* while (timer_running) { print; sleep(1); }
Counting == timer_running

Count ==
    /\ Free /\ catcher = "test"
    /\ catcher' = IF Counting THEN "sleeping" ELSE "tested"
    /\ UNCHANGED <<mode, handling, pending, senders, handled, overlooked>>

Awake ==
    /\ Free /\ catcher = "sleeping" /\ catcher' = "test"
    /\ UNCHANGED <<mode, handling, pending, senders, handled, overlooked>>

CatcherPauses ==
    /\ Free /\ catcher = "tested" /\ catcher' = "pausing"
    /\ UNCHANGED <<mode, handling, pending, senders, handled, overlooked>>

\* A signal ends sleep() and pause() when its handler is done.
Interrupted == IF catcher \in {"sleeping", "pausing"} THEN "test" ELSE catcher

Changed(v) == v # current_type

\* sig_handler up to the confirmation.
Handle ==
    LET s == pending.from
        v == pending.value IN
    /\ Free /\ pending # NoSignal /\ pending' = NoSignal
    /\ current_type' = v
    /\ changes' = IF Changed(v) THEN changes + 1 ELSE changes
    /\ timer_running' = IF Changed(v) THEN v = 2 ELSE timer_running
    /\ interrupt' = CASE v = 3 -> "ignore" [] v = 4 -> "handler" [] OTHER -> interrupt
    /\ handled' = [handled EXCEPT ![s] = @ + 1]
    /\ IF v = 5 THEN catcher' = "exited" /\ UNCHANGED handling
                ELSE handling' = s /\ UNCHANGED catcher
    /\ overlooked' = (catcher = "tested")
    /\ UNCHANGED senders

\* Mutant: the confirmation goes to whoever pauses.
Confirmed_Any(s) == {t \in Shooters : shooter[t] = "pausing"}

\* Mutant: nothing is confirmed.
Confirmed_Never(s) == {}

\* Whom kill(sender_pid, SIGUSR1) goes to.
Confirmed(s) == {s}

\* kill, and the sender's handler: it ends the pause, if there is one.
Confirm ==
    /\ Alive /\ handling # NoSignal /\ handling' = NoSignal
    /\ catcher' = Interrupted
    /\ shooter' = [s \in Shooters |->
           IF s \in Confirmed(handling) /\ shooter[s] = "pausing" THEN "read" ELSE shooter[s]]
    /\ lost' = lost \cup {s \in Confirmed(handling) : shooter[s] = "sent"}
    /\ UNCHANGED <<mode, pending, sent, handled, overlooked>>

\* Somebody types Ctrl+C; the signal may come while sig_handler runs.
Interrupt ==
    /\ Alive
    /\ catcher' = CASE interrupt = "default" -> "killed"
                    [] interrupt = "ignore" -> catcher
                    [] interrupt = "handler" -> Interrupted
    /\ UNCHANGED <<mode, handling, pending, senders, handled, overlooked>>

Main == Count \/ Awake \/ CatcherPauses
ModeNext ==
    \/ Main \/ Handle \/ Confirm \/ Interrupt
    \/ \E s \in Shooters : Pause(s) \/ \E v \in 1..5 : Shoot(s, v)
ModeSpec == ModeInit /\ [][ModeNext]_modeVars

\* The kernel delivers a pending signal, and every process runs.
ModeFairness ==
    /\ WF_modeVars(Main) /\ WF_modeVars(Handle) /\ WF_modeVars(Confirm)
    /\ \A s \in Shooters : WF_modeVars(Pause(s))

-----------------------------------------------------------------------------
ModeTypeOK ==
    /\ current_type \in 0..5 /\ changes \in Nat /\ timer_running \in BOOLEAN
    /\ interrupt \in {"default", "ignore", "handler"}
    /\ catcher \in {"test", "tested", "sleeping", "pausing", "exited", "killed"}
    /\ handling \in Shooters \cup {NoSignal}
    /\ pending \in [from : Shooters, value : 1..5] \cup {NoSignal}
    /\ shooter \in [Shooters -> {"read", "sent", "pausing"}]

\* A sender that reads its next value had all its earlier ones handled, though
\* confirmations of other senders come and the signals of several merge (sender.c:27-29,
\* catcher.c:35).
InStep == \A s \in Shooters : shooter[s] = "read" => handled[s] = sent[s]

\* A sender waits for ever only if its signal was dropped because another was
\* pending, its confirmation came before its pause (sender.c:28), or the catcher
\* ended, with mode 5 or Ctrl+C, before it confirmed (catcher.c:31).
PauseExplained ==
    \A s \in Shooters : shooter[s] = "pausing" ~> shooter[s] = "read" \/ s \in lost \/ ~Alive

\* The catcher pauses in mode 2 with its counter stopped only if the mode came
\* between the test of timer_running and pause() (catcher.c:52-56).
CounterRuns ==
    catcher = "pausing" /\ handling = NoSignal /\ timer_running => overlooked

\* Senders and catcher agree on what was handled, and the catcher does what its mode
\* says unless a signal slipped in before its pause.
ModesKept == ModeTypeOK /\ InStep /\ CounterRuns

=============================================================================
