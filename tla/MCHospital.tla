----------------------------- MODULE MCHospital -----------------------------
(* Instances of Hospital for TLC. *)
EXTENDS Hospital, TLC

\* Patients run the same code and are interchangeable, and so are pharmacists.
Symmetry == Permutations(UNION Crowds) \cup Permutations(Pharmacists)
=============================================================================
