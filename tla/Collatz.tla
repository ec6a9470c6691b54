------------------------------ MODULE Collatz ------------------------------
(***************************************************************************)
(* The library cw02/assignment/collatz.c with numbers of 32 bits, one call *)
(* of test_collatz_convergence.  MaxInt is the largest int; a 3n+1 beyond  *)
(* it wraps, as in the builds of the makefile.                             *)
(***************************************************************************)
EXTENDS Integers, Sequences

CONSTANTS
    Asked, Limits   \* the numbers and the max_iter it is called with

ASSUME CollatzAssumption == Asked \subseteq Int /\ Limits \subseteq Nat \ {0}

MaxInt == 2147483647

VARIABLES asked, max_iter, input,
    steps,          \* the array written so far, from 1; its length is cnt
    output          \* what the call returns, or -1 before

collatzVars == <<asked, max_iter, input, steps, output>>

CollatzInit ==
    /\ asked \in Asked /\ max_iter \in Limits
    /\ input = asked /\ steps = <<asked>> /\ output = -1

\* 3 * n + 1 is an int.
Triples(n) == n <= (MaxInt - 1) \div 3

\* The terms are added such that none leaves the range (TLC's numbers are ints).
collatz_conjecture(n) ==
    IF n % 2 = 0 THEN n \div 2
    ELSE IF Triples(n) THEN 3 * n + 1
    ELSE (n - MaxInt - 1) + n + (n - MaxInt - 1) + 1

\* Mutant: one more step is taken when the array is full.
Within_Late == Len(steps) <= max_iter

\* cnt < max_iter
Within == Len(steps) < max_iter

Iterate ==
    /\ output = -1 /\ input > 1 /\ Within
    /\ input' = collatz_conjecture(input)
    /\ steps' = Append(steps, input')
    /\ UNCHANGED <<asked, max_iter, output>>

\* Mutant: the number of terms is returned, not that of steps.
Answer_Terms == IF input = 1 THEN Len(steps) ELSE 0

Answer == IF input = 1 THEN Len(steps) - 1 ELSE 0

Return ==
    /\ output = -1 /\ ~(input > 1 /\ Within)
    /\ output' = Answer
    /\ UNCHANGED <<asked, max_iter, input, steps>>

CollatzNext == Iterate \/ Return
CollatzSpec == CollatzInit /\ [][CollatzNext]_collatzVars

-----------------------------------------------------------------------------
\* The array is never left: the client has max_iter ints (client.c:30, 40-41).
InArray == Len(steps) <= max_iter /\ output < max_iter

Follows(m, n) == IF n % 2 = 0 THEN 2 * m = n ELSE m = 3 * n + 1

\* No term wraps.
Fits == \A i \in 1 .. Len(steps) - 1 : steps[i] % 2 = 0 \/ Triples(steps[i])

\* A positive answer is the number of steps from the number to 1, unless a term
\* wrapped on the way.  With 0 ("did not converge", client.c:34) the number was 1
\* already or not positive, the array is full, or a term wrapped: so with 837799 of
\* the client's own list (client.c:10).
AnswerExplained ==
    /\ output > 0 /\ Fits =>
        /\ Len(steps) = output + 1 /\ steps[output + 1] = 1
        /\ \A i \in 1..output : steps[i] # 1 /\ Follows(steps[i + 1], steps[i])
    /\ output = 0 => asked <= 1 \/ Len(steps) = max_iter \/ ~Fits

\* The library stays within its client's array, and its answer is what it should be.
SequenceRight == InArray /\ AnswerExplained

=============================================================================
