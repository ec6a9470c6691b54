----------------------------- MODULE CommonFile -----------------------------
(***************************************************************************)
(* The examples Funkcje/Semafor POSIX/main.c and Funkcje/Semafor           *)
(* SysV/main.c: a parent and its child write lines to a common file and to *)
(* the terminal, two writes with a semaphore around them.                  *)
(*                                                                         *)
(* Semaphore and file have fixed names, so other runs of the program meet  *)
(* them.  A POSIX run unlinks the semaphore's name and makes one of its    *)
(* own; a System V run takes the one there is, sets it to 1, and removes   *)
(* it at its end.  A semaphore is called by the run that made it.  The     *)
(* file is common.txt for all: opening it empties it, and a run writes at  *)
(* an offset of its own, whatever others have written there.               *)
(*                                                                         *)
(* Lines have one length, as they do while their numbers have one digit:   *)
(* a place in the file is that of a line.                                  *)
(***************************************************************************)
EXTENDS Naturals, Sequences, FiniteSets

CONSTANTS
    Runs,       \* runs of the program, in one directory
    NoRun,
    Lines       \* lines of each parent and each child

ASSUME CommonFileAssumption == NoRun \notin Runs

VARIABLES
    kind,           \* which of the two programs
    named,          \* the semaphore that has the name or key, or NoRun
    made, value,    \* the semaphores there are, the value of each
    sem_id,         \* the semaphore each run uses
    stage,          \* where each run is, apart from its loops
    place, left,    \* of each writer: its place in the loop, lines to write
    opened,         \* the runs that have opened the file
    file,           \* the file: which writer's line is in each place
    written,        \* of each run: who wrote each line to the file so far, in order
    terminal,       \* of each run: who wrote each line to the terminal, in order
    mixed,          \* history: another run opened or wrote the file after it
    disturbed       \* history: another run set, removed or kept the semaphore in use, or
                    \* took the name between sem_unlink and sem_open

fileVars == <<kind, named, made, value, sem_id, stage, place, left, opened, file, written,
             terminal, mixed, disturbed>>
setup == <<kind, named, made, sem_id, stage>>
store == <<opened, file, mixed>>
loops == <<place, left, store, written, terminal>>

Writers == Runs \X {"parent", "child"}
Users(s) == {r \in Runs : stage[r] = "loops" /\ sem_id[r] = s}

FileInit ==
    /\ kind \in {"POSIX", "SysV"}
    /\ named = NoRun
    /\ made = {} /\ value = [r \in Runs |-> 0]
    /\ sem_id = [r \in Runs |-> NoRun]
    /\ stage = [r \in Runs |-> "start"]
    /\ place = [w \in Writers |-> "sleep"]
    /\ left = [w \in Writers |-> Lines]
    /\ opened = {} /\ file = <<>> /\ mixed = {}
    /\ written = [r \in Runs |-> <<>>] /\ terminal = written
    /\ disturbed = {}

Enter(r, to) == stage' = [stage EXCEPT ![r] = to]

\* Mutant: the name of an earlier run is not unlinked.
FreshName_Kept == named

\* sem_unlink(SEM_NAME)
FreshName == NoRun

\* POSIX: unlink the name.  System V: semget.
FindSemaphore(r) ==
    /\ stage[r] = "start" /\ Enter(r, "found")
    /\ IF kind = "POSIX"
       THEN named' = FreshName /\ UNCHANGED <<made, sem_id>>
       ELSE LET s == IF named = NoRun THEN r ELSE named IN
                /\ named' = s
                /\ sem_id' = [sem_id EXCEPT ![r] = s]
                /\ made' = made \cup {s}
    /\ UNCHANGED <<kind, value, loops, disturbed>>

\* POSIX: sem_open with O_EXCL, which fails if another run was quicker.
\* System V: SETVAL, if the semaphore was not removed meanwhile.
SetSemaphore(r) ==
    /\ stage[r] = "found"
    /\ IF kind = "POSIX"
       THEN IF named # NoRun
            THEN /\ Enter(r, "failed") /\ UNCHANGED <<named, made, value, sem_id>>
                 /\ disturbed' = disturbed
                        \cup (IF stage[named] = "loops" THEN {r} ELSE {})
            ELSE /\ Enter(r, "loops") /\ named' = r
                 /\ sem_id' = [sem_id EXCEPT ![r] = r]
                 /\ made' = made \cup {r} /\ value' = [value EXCEPT ![r] = 1]
                 /\ UNCHANGED disturbed
       ELSE LET s == sem_id[r]
                others == Users(s) IN
            /\ Enter(r, "loops")
            /\ value' = IF s \in made THEN [value EXCEPT ![s] = 1] ELSE value
            /\ disturbed' = disturbed \cup others
                   \cup (IF others # {} \/ s \notin made THEN {r} ELSE {})
            /\ UNCHANGED <<named, made, sem_id>>
    /\ UNCHANGED <<kind, loops>>

\* open with O_TRUNC, whoever else has the file open; then fork, so that parent and
\* child have one offset.
OpenFile(r) ==
    /\ stage[r] = "loops" /\ r \notin opened
    /\ opened' = opened \cup {r}
    /\ file' = <<>>
    /\ mixed' = mixed \cup opened
    /\ UNCHANGED <<setup, value, place, left, written, terminal, disturbed>>

Goes(w, from, to) == stage[w[1]] = "loops" /\ place[w] = from /\ place' = [place EXCEPT ![w] = to]

\* Mutant: the semaphore is not waited for.
SemaphoreWait_Not(s) == UNCHANGED value

\* sem_wait or semop(-1); semop fails at once on a semaphore that was removed, and
\* nobody looks at its result.
SemaphoreWait(s) ==
    IF s \notin made THEN UNCHANGED value
    ELSE value[s] > 0 /\ value' = [value EXCEPT ![s] = @ - 1]

Lock(w) ==
    /\ left[w] > 0 /\ w[1] \in opened /\ Goes(w, "sleep", "file")
    /\ SemaphoreWait(sem_id[w[1]])
    /\ UNCHANGED <<setup, left, store, written, terminal, disturbed>>

\* A place beyond the end of a file that another run has emptied.
Hole == <<NoRun, "nobody">>

\* Mutant: opened after the fork, so that each writer has its own offset.
Offset_OfEach(w) == Cardinality({k \in DOMAIN written[w[1]] : written[w[1]][k] = w[2]})

\* The offset of a run's descriptor: it starts at 0 and only its writes move it.
Offset(w) == Len(written[w[1]])

\* The file after a write at an offset.
Overwrite(o, w) ==
    [k \in 1 .. (IF o < Len(file) THEN Len(file) ELSE o + 1) |->
        IF k = o + 1 THEN w ELSE IF k <= Len(file) THEN file[k] ELSE Hole]

WriteFile(w) ==
    /\ Goes(w, "file", "terminal")
    /\ file' = Overwrite(Offset(w), w)
    /\ written' = [written EXCEPT ![w[1]] = Append(@, w[2])]
    /\ mixed' = mixed \cup (opened \ {w[1]})
    /\ UNCHANGED <<setup, value, left, opened, terminal, disturbed>>

WriteTerminal(w) ==
    /\ Goes(w, "terminal", "unlock")
    /\ terminal' = [terminal EXCEPT ![w[1]] = Append(@, w[2])]
    /\ UNCHANGED <<setup, value, left, store, written, disturbed>>

\* sem_post or semop(+1)
SemaphorePost(s) ==
    value' = IF s \in made THEN [value EXCEPT ![s] = @ + 1] ELSE value

UnlockFile(w) ==
    /\ Goes(w, "unlock", "sleep")
    /\ left' = [left EXCEPT ![w] = @ - 1]
    /\ SemaphorePost(sem_id[w[1]])
    /\ UNCHANGED <<setup, store, written, terminal, disturbed>>

\* The parent has waited for the child: sem_unlink, or IPC_RMID.
CleanUp(r) ==
    /\ stage[r] = "loops" /\ r \in opened /\ Enter(r, "ended")
    /\ \A w \in {r} \X {"parent", "child"} : left[w] = 0
    /\ IF kind = "POSIX"
       THEN named' = NoRun /\ UNCHANGED <<made, disturbed>>
       ELSE LET s == sem_id[r] IN
            /\ named' = IF named = s THEN NoRun ELSE named
            /\ made' = made \ {s}
            /\ disturbed' = disturbed \cup (Users(s) \ {r})
    /\ UNCHANGED <<kind, value, sem_id, loops>>

\* Parent and child are killed, perhaps between wait and post.
KillRun(r) ==
    /\ stage[r] = "loops" /\ Enter(r, "killed")
    /\ disturbed' = disturbed \cup (Users(sem_id[r]) \ {r})
           \cup {q \in Runs : kind = "POSIX" /\ stage[q] = "found"}
    /\ UNCHANGED <<kind, named, made, value, sem_id, loops>>

Writer(w) == Lock(w) \/ WriteFile(w) \/ WriteTerminal(w) \/ UnlockFile(w)
Run(r) ==
    \/ FindSemaphore(r) \/ SetSemaphore(r) \/ OpenFile(r) \/ CleanUp(r)
    \/ \E w \in {r} \X {"parent", "child"} : Writer(w)

FileNext == \E r \in Runs : Run(r) \/ KillRun(r)
FileSpec == FileInit /\ [][FileNext]_fileVars
FileFairness == \A r \in Runs : WF_fileVars(Run(r))

-----------------------------------------------------------------------------
\* A POSIX run has its semaphore to itself whatever other runs start, end or are
\* killed; a System V run as long as no other sets, removes or keeps its
\* semaphore.  Then what the file has of the run's lines is in the place of the same
\* line on its terminal, but for a line not on the terminal yet, and as long as no other run
\* opened or wrote the file after it, all its lines are there and no others
\* (main.c:41-48, 67-80 and 101-114; SysV 51-58, 73-82 and 99-108).  Other runs may
\* empty the file under it, write over its lines and leave holes: O_TRUNC without
\* O_APPEND.
SameOrder ==
    \A r \in Runs : r \notin disturbed =>
        /\ \A k \in DOMAIN file : file[k][1] = r =>
               /\ k <= Len(terminal[r]) + 1
               /\ k <= Len(terminal[r]) => file[k][2] = terminal[r][k]
        /\ r \in opened \ mixed =>
               /\ Len(file) \in {Len(terminal[r]), Len(terminal[r]) + 1}
               /\ \A k \in DOMAIN file : file[k][1] = r

\* A run started after one that was killed inside the semaphore is neither held up
\* nor refused because of what that left behind: both programs begin with a semaphore
\* of value 1 (main.c:34-35; SysV 46).  Only a run that another disturbs can be
\* stuck or fail.
RunsComplete ==
    \A r \in Runs : stage[r] = "found" ~> stage[r] \in {"ended", "killed"} \/ r \in disturbed

=============================================================================
