------------------------------ MODULE Identity ------------------------------
(***************************************************************************)
(* What the auth- and the user-service promise together of who a user is.  *)
(* A profile is made for a person who is being registered; while that goes *)
(* on, and only then, the person may be admitted to log in, as what the    *)
(* profile says.  A profile whose registration failed is abandoned for     *)
(* good: it keeps its username and email, and nobody else is admitted as   *)
(* its user.                                                               *)
(***************************************************************************)
CONSTANTS Username, Email, UserId, None

VARIABLES
    profile,    \* of each user
    login,      \* what each user that was admitted logs in as
    pending     \* the users whose registration goes on

Init == /\ profile = [i \in UserId |-> None]
        /\ login = [i \in UserId |-> None]
        /\ pending = {}

\* Nobody but i has it.
NameFree(table, i, u) == \A j \in UserId \ {i} : table[j] # None => table[j].username # u
EmailFree(table, i, e) == \A j \in UserId \ {i} : table[j] # None => table[j].email # e

\* A profile of a new user, for a registration that goes on or has just failed.
Reserve(i) ==
    /\ profile[i] = None
    /\ \E u \in Username, e \in Email :
        /\ NameFree(profile, i, u) /\ EmailFree(profile, i, e)
        /\ profile' = [profile EXCEPT ![i] = [username |-> u, email |-> e]]
    /\ pending' \in {pending, pending \cup {i}}
    /\ UNCHANGED login

Admit(i) ==
    /\ i \in pending
    /\ NameFree(login, i, profile[i].username) /\ EmailFree(login, i, profile[i].email)
    /\ login' = [login EXCEPT ![i] = [username |-> profile[i].username,
                                      email |-> profile[i].email, verified |-> FALSE]]
    /\ pending' = pending \ {i}
    /\ UNCHANGED profile

Abandon(i) ==
    /\ i \in pending
    /\ pending' = pending \ {i}
    /\ UNCHANGED <<profile, login>>

Verify(i) ==
    /\ login[i] # None
    /\ login' = [login EXCEPT ![i].verified = TRUE]
    /\ UNCHANGED <<profile, pending>>

\* The login keeps the old one.
ChangeEmail(i) ==
    /\ login[i] # None
    /\ \E e \in Email :
        /\ EmailFree(profile, i, e)
        /\ profile' = [profile EXCEPT ![i].email = e]
    /\ UNCHANGED <<login, pending>>

Next == \E i \in UserId : Reserve(i) \/ Admit(i) \/ Abandon(i) \/ Verify(i) \/ ChangeEmail(i)

Spec == Init /\ [][Next]_<<profile, login, pending>>
=============================================================================
