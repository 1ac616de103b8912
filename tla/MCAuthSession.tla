--------------------------- MODULE MCAuthSession ---------------------------
(* Model values for the runs of AuthSession. *)
EXTENDS AuthSession, TLC

\* Users, sessions, token ids and workers are interchangeable.
Symmetry == Permutations(User) \cup Permutations(Session)
               \cup Permutations(Jti) \cup Permutations(Worker)
=============================================================================
