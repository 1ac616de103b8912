------------------------- MODULE MCChatMembership -------------------------
(* Model values for the runs of ChatMembership. *)
EXTENDS ChatMembership, TLC

\* Users, chats, rows and workers are interchangeable.
Symmetry == Permutations(User) \cup Permutations(ChatId)
               \cup Permutations(RowId) \cup Permutations(Worker)
=============================================================================
