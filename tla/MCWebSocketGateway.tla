------------------------ MODULE MCWebSocketGateway ------------------------
(* Model values for the runs of WebSocketGateway. *)
EXTENDS WebSocketGateway, TLC

CONSTANTS u1, u2, i1, i2

\* Every instance has an app_host of its own, or there is one with the default.
OwnHost == [i \in {i1, i2} |-> i]
OnlyHost == [i \in Instance |-> "0.0.0.0"]

Symmetry == Permutations(User) \cup Permutations(Socket)
=============================================================================
