------------------------------ MODULE MCProfiles ------------------------------
(* Model values for the run of Profiles. *)
EXTENDS Profiles, TLC

\* Users, files and workers are interchangeable.
Symmetry == Permutations(User) \cup Permutations(File) \cup Permutations(Worker)
=============================================================================
