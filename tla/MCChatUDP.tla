----------------------------- MODULE MCChatUDP -----------------------------
(* Instances of ChatUDP for TLC. *)
EXTENDS ChatUDP, TLC

CONSTANTS n1, n2, long

\* A name of 31 characters or less is stored as it is; a longer one that begins like n1
\* is stored as n1.
MCStored == [n \in Names |-> IF n = long THEN n1 ELSE n]

\* Clients run the same code.
Symmetry == Permutations(Clients)
=============================================================================
