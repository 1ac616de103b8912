----------------------------- MODULE ProfileBook -----------------------------
(***************************************************************************)
(* What the user-service promises of changes to profiles.  A request finds *)
(* out which columns hold what it asks for already, and then writes all    *)
(* the others together, once, whatever the table holds by then; the other  *)
(* columns it leaves alone.  If it fails, that was before or after.        *)
(***************************************************************************)
CONSTANTS User, Column, Content, Worker, None

VARIABLES
    book,   \* the profile of each user
    wish    \* what each request in flight still has to change

Init == /\ book \in [User -> [Column -> Content]]
        /\ wish = [w \in Worker |-> None]

Wish(u, todo, step) == [user |-> u, todo |-> todo, step |-> step]

Becomes(w, x) == wish' = [wish EXCEPT ![w] = x]

At(w, step) == wish[w] # None /\ wish[w].step = step

Ask(w) ==
    /\ wish[w] = None
    /\ \E u \in User, C \in SUBSET Column : \E todo \in [C -> Content] :
          Becomes(w, Wish(u, todo, "asked"))
    /\ UNCHANGED book

\* The columns that would change.
Left(u, todo) == {c \in DOMAIN todo : todo[c] # book[u][c]}

Settle(w) ==
    /\ At(w, "asked")
    /\ LET x == wish[w]
       IN  Becomes(w, Wish(x.user, [c \in Left(x.user, x.todo) |-> x.todo[c]], "settled"))
    /\ UNCHANGED book

Write(w) ==
    /\ At(w, "settled")
    /\ LET x == wish[w]
       IN  /\ book' = [book EXCEPT ![x.user] =
                 [c \in Column |-> IF c \in DOMAIN x.todo THEN x.todo[c] ELSE book[x.user][c]]]
           /\ Becomes(w, Wish(x.user, <<>>, "written"))

\* It is answered, or it fails.
End(w) ==
    /\ wish[w] # None
    /\ Becomes(w, None)
    /\ UNCHANGED book

Next == \E w \in Worker : Ask(w) \/ Settle(w) \/ Write(w) \/ End(w)

Spec == Init /\ [][Next]_<<book, wish>>
=============================================================================
