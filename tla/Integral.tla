------------------------------ MODULE Integral ------------------------------
(***************************************************************************)
(* cw09/assignment/main.c: the interval [0, 1] is cut into num_intervals   *)
(* pieces, each of num_threads threads sums the areas over its share, and  *)
(* main adds their results when it has joined them.  A sum of areas is the *)
(* set of the pieces in it, so floating point is left out.                 *)
(***************************************************************************)
EXTENDS Integers, FiniteSets

CONSTANTS
    MaxThreads,     \* 1024 in the code
    MaxIntervals,   \* bound: the smallest dx
    MaxLong         \* of long long

ASSUME IntegralAssumption == MaxThreads \in Nat /\ MaxIntervals \in Nat /\ MaxLong \in Nat

VARIABLES num_threads, num_intervals,
    started, joined,    \* how many threads are created and joined
    results,            \* the pieces each thread stored; {} is calloc's 0
    ended,              \* the threads that returned
    total               \* main's sum: how often each piece is in it

areaVars == <<num_threads, num_intervals, started, joined, results, ended, total>>

Ids == 0 .. num_threads - 1

AreaInit ==
    /\ num_threads \in 1..MaxThreads /\ num_intervals \in 1..MaxIntervals
    /\ started = 0 /\ joined = 0 /\ ended = {}
    /\ results = [id \in Ids |-> {}] /\ total = <<>>

\* A product of long long: signed, it wraps in the builds at hand.
Product(a, b) == ((a * b + MaxLong + 1) % (2 * MaxLong + 2)) - MaxLong - 1

\* Mutant: the length of a share is divided first, and the rest of it lost.
ShareStart_Rounded(id) == id * (num_intervals \div num_threads)

\* start of thread id and end of the one before; C's division rounds to 0.
ShareStart(id) ==
    LET p == Product(id, num_intervals) IN
        IF p >= 0 THEN p \div num_threads ELSE -((-p) \div num_threads)

StartThread ==
    /\ started < num_threads /\ started' = started + 1
    /\ UNCHANGED <<num_threads, num_intervals, joined, results, ended, total>>

\* thread_function
SumShare(id) ==
    /\ id < started /\ id \notin ended /\ ended' = ended \cup {id}
    /\ results' = [results EXCEPT ![id] = ShareStart(id) .. ShareStart(id + 1) - 1]
    /\ UNCHANGED <<num_threads, num_intervals, started, joined, total>>

JoinNext ==
    /\ started = num_threads /\ joined \in ended /\ joined' = joined + 1
    /\ UNCHANGED <<num_threads, num_intervals, started, results, ended, total>>

AddUp ==
    /\ joined = num_threads /\ total = <<>>
    /\ total' = [i \in 0 .. num_intervals - 1 |-> Cardinality({id \in Ids : i \in results[id]})]
    /\ UNCHANGED <<num_threads, num_intervals, started, joined, results, ended>>

AreaNext == StartThread \/ JoinNext \/ AddUp \/ \E id \in Ids : SumShare(id)
AreaSpec == AreaInit /\ [][AreaNext]_areaVars

-----------------------------------------------------------------------------
\* The sum that main prints has every piece once, whatever the threads' order and
\* though their number need not divide that of the pieces, nor be smaller (main.c:26-27),
\* as long as their product is a long long.
EveryPieceOnce ==
    total # <<>> /\ num_threads * num_intervals <= MaxLong =>
        /\ \A i \in DOMAIN total : total[i] = 1
        /\ UNION {results[id] : id \in Ids} = 0 .. num_intervals - 1

=============================================================================
