----------------------------- MODULE MCConnection -----------------------------
(* An instance of Connection for TLC. *)
EXTENDS Connection, TLC

\* The ids are interchangeable.
IdSymmetry == Permutations(Ids)

=============================================================================
