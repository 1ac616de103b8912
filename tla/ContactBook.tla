----------------------------- MODULE ContactBook -----------------------------
(***************************************************************************)
(* What the contacts of the user-service promise: a book that says of each *)
(* pair of users how the first has the second among the contacts, and      *)
(* requests that each write at most once, what they asked for and where.   *)
(***************************************************************************)
CONSTANTS User, Worker, None

VARIABLES
    book,   \* the status of each pair
    wish    \* what each request in flight asks for

Status == {"FRIEND", "BLOCKED"}
NotAContact == "NONE"
Pair == {p \in User \X User : p[1] # p[2]}

Init == /\ book = [p \in Pair |-> NotAContact]
        /\ wish = [w \in Worker |-> None]

Ask(w) ==
    /\ wish[w] = None
    /\ \E p \in Pair, s \in Status \cup {NotAContact} :
          wish' = [wish EXCEPT ![w] = [pair |-> p, status |-> s, written |-> FALSE]]
    /\ UNCHANGED book

\* The request may be answered with the same step.
Write(w) ==
    /\ wish[w] # None
    /\ ~wish[w].written
    /\ book' = [book EXCEPT ![wish[w].pair] = wish[w].status]
    /\ \/ wish' = [wish EXCEPT ![w].written = TRUE]
       \/ wish' = [wish EXCEPT ![w] = None]

\* It may also end without having written, because it failed or because there
\* was nothing to do.
Answer(w) ==
    /\ wish[w] # None
    /\ wish' = [wish EXCEPT ![w] = None]
    /\ UNCHANGED book

Next == \E w \in Worker : Ask(w) \/ Write(w) \/ Answer(w)

Spec == Init /\ [][Next]_<<book, wish>>
=============================================================================
