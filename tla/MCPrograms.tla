----------------------------- MODULE MCPrograms -----------------------------
\* The small programs for TLC: one behaviour is one of them, chosen at first,
\* and the variables of the others keep their first values.
EXTENDS ThreadReaper, CommonFile, HandOver, SignalModes, Integral, Collatz

CONSTANTS r1, r2, s1, s2, d1, d2, a, b

VARIABLE prog

programVars == <<prog, reaperVars, fileVars, overVars, modeVars, areaVars, collatzVars>>

MCRuns == {r1, r2}
MCSenders == {s1, s2}
MCReceivers == {d1, d2}
MCShooters == {a, b}

\* The client's list, the ends of the range, and a number that wraps to 6.
MCAsked == {-5, 0, 1, 2, 6, 19, 27, 837799, 1431655767}
MCLimits == {1, 9, 300}

ProgramsInit ==
    /\ ReaperInit /\ FileInit /\ OverInit /\ ModeInit /\ AreaInit /\ CollatzInit
    /\ prog \in {"reaper", "file", "over", "modes", "area", "collatz"}
    /\ prog # "file" => kind = "POSIX"
    /\ prog # "over" => ipc = "mq"
    /\ prog # "area" => num_threads = 1 /\ num_intervals = 1
    /\ prog # "collatz" => asked = 1 /\ max_iter = 1

InReaper(A) == prog = "reaper" /\ A
    /\ UNCHANGED <<prog, fileVars, overVars, modeVars, areaVars, collatzVars>>
InFile(A) == prog = "file" /\ A
    /\ UNCHANGED <<prog, reaperVars, overVars, modeVars, areaVars, collatzVars>>
InOver(A) == prog = "over" /\ A
    /\ UNCHANGED <<prog, reaperVars, fileVars, modeVars, areaVars, collatzVars>>
InModes(A) == prog = "modes" /\ A
    /\ UNCHANGED <<prog, reaperVars, fileVars, overVars, areaVars, collatzVars>>
InArea(A) == prog = "area" /\ A
    /\ UNCHANGED <<prog, reaperVars, fileVars, overVars, modeVars, collatzVars>>
InCollatz(A) == prog = "collatz" /\ A
    /\ UNCHANGED <<prog, reaperVars, fileVars, overVars, modeVars, areaVars>>

ProgramsNext ==
    \/ InReaper(ReaperNext) \/ InFile(FileNext) \/ InOver(OverNext)
    \/ InModes(ModeNext) \/ InArea(AreaNext) \/ InCollatz(CollatzNext)

\* The fairness of the modules, for the program that runs.
ProgramsFairness ==
    /\ WF_programVars(InReaper(Reap))
    /\ \A t \in Threads : WF_programVars(InReaper(Work(t)))
    /\ \A r \in Runs : WF_programVars(InFile(Run(r)))
    /\ \A p \in Procs : WF_programVars(InOver(Process(p)))
    /\ WF_programVars(InModes(Main)) /\ WF_programVars(InModes(Handle))
    /\ WF_programVars(InModes(Confirm))
    /\ \A s \in Shooters : WF_programVars(InModes(Pause(s)))

ProgramsSpec == ProgramsInit /\ [][ProgramsNext]_programVars /\ ProgramsFairness

=============================================================================
