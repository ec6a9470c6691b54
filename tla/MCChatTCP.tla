----------------------------- MODULE MCChatTCP -----------------------------
(* Instances of ChatTCP for TLC. *)
EXTENDS ChatTCP, TLC

\* Clients are interchangeable, and names are only compared.
Symmetry == Permutations(Conns) \cup Permutations(Names)
=============================================================================
