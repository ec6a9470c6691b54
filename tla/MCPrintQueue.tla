---------------------------- MODULE MCPrintQueue ----------------------------
(* Instances of PrintQueue for TLC. *)
EXTENDS PrintQueue, TLC

\* Processes of one kind run the same code and are interchangeable.
Symmetry == Permutations(Users) \cup Permutations(Printers)
=============================================================================
