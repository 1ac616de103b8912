---------------------------- MODULE Registration ----------------------------
(***************************************************************************)
(* Who a user is, in two services with a database each: register_user and  *)
(* verify_email of the auth-service, create_user_profile_internal and the  *)
(* email part of update_users_me of the user-service.                      *)
(*                                                                         *)
(* A registration calls the user-service for a profile and then makes the  *)
(* local user of that id.  No transaction spans the two: the call may time *)
(* out here and still be served there, and nothing takes a profile back.   *)
(***************************************************************************)
EXTENDS Naturals, FiniteSets

CONSTANTS
    Username,
    Email,      \* may have names in common: a username may look like an email
    UserId,
    Code,       \* verification codes; they are drawn at random and may repeat
    Worker,     \* requests served by the auth-service at the same time
    Call,       \* calls served by the user-service at the same time
    None

VARIABLES
    profiles,   \* table user_profiles of the user-service
    accounts,   \* tables users and user_local_auth of the auth-service
    pc,         \* the next step of each request of the auth-service
    req,        \* what each of them was given
    calls       \* what the user-service is serving, and for which request

vars == <<profiles, accounts, pc, req, calls>>

-----------------------------------------------------------------------------
(* Definitions marked "mutant" are faulty versions of the one that follows, *)
(* for checking that a property notices.                                    *)

Profile == [username : Username, email : Email]

\* Whose email is not verified has a code to come.
Account == [username : Username, email : Email, code : Code, verified : {FALSE}]
           \cup [username : Username, email : Email, code : {None}, verified : {TRUE}]

\* id: the user it is about; call: the call it waits for; code: what verify_email
\* was given.
Registering == [username : Username, email : Email, id : UserId \cup {None}, call : Call \cup {None}]
Verifying == [id : UserId, code : Code]
Request == Registering \cup Verifying
Served == [step : {"username", "email", "insert", "answer"}, username : Username,
           email : Email, id : UserId \cup {None}]

ASSUME NoneAssumption == None \notin Profile \cup Account \cup Served

Rows(table) == {i \in UserId : table[i] # None}

Init == /\ profiles = [i \in UserId |-> None]
        /\ accounts = [i \in UserId |-> None]
        /\ pc = [w \in Worker |-> "idle"]
        /\ req = [w \in Worker |-> None]
        /\ calls = [c \in Call |-> None]

Goto(w, s, r) == /\ pc' = [pc EXCEPT ![w] = s]
                 /\ req' = [req EXCEPT ![w] = r]

Answer(w) == Goto(w, "idle", None)

-----------------------------------------------------------------------------
(* register_user. *)

\* is_email_taken; 409 if it is.
Register(w) ==
    /\ pc[w] = "idle"
    /\ \E u \in Username, e \in Email :
        /\ \A i \in Rows(accounts) : accounts[i].email # e
        /\ Goto(w, "username", [username |-> u, email |-> e, id |-> None, call |-> None])
    /\ UNCHANGED <<profiles, accounts, calls>>

\* is_username_taken, 409 if it is; then the call is sent.
CheckUsername(w) ==
    /\ pc[w] = "username"
    /\ \/ /\ \E i \in Rows(accounts) : accounts[i].username = req[w].username
          /\ Answer(w)
          /\ UNCHANGED calls
       \/ /\ \A i \in Rows(accounts) : accounts[i].username # req[w].username
          /\ \E c \in Call :
                /\ calls[c] = None
                /\ calls' = [calls EXCEPT ![c] =
                       [step |-> "username", username |-> req[w].username,
                        email |-> req[w].email, id |-> None]]
                /\ Goto(w, "call", [req[w] EXCEPT !.call = c])
    /\ UNCHANGED <<profiles, accounts>>

\* The answer of the call has come and can be read.
Receive(w) ==
    /\ pc[w] = "call"
    /\ calls[req[w].call] # None
    /\ calls[req[w].call].step = "answer"
    /\ Goto(w, "create", [req[w] EXCEPT !.id = calls[req[w].call].id, !.call = None])
    /\ calls' = [calls EXCEPT ![req[w].call] = None]
    /\ UNCHANGED <<profiles, accounts>>

\* The constraints of users and user_local_auth.
AccountFits(r) == /\ r.id \notin Rows(accounts)
                  /\ \A i \in Rows(accounts) : /\ accounts[i].username # r.username
                                               /\ accounts[i].email # r.email

\* create_local_user; IntegrityError if it does not fit.
CreateLocalUser(w) ==
    /\ pc[w] = "create"
    /\ \/ /\ AccountFits(req[w])
          /\ \E k \in Code : accounts' = [accounts EXCEPT ![req[w].id] =
                 [username |-> req[w].username, email |-> req[w].email,
                  code |-> k, verified |-> FALSE]]
       \/ /\ ~AccountFits(req[w])
          /\ UNCHANGED accounts
    /\ Answer(w)
    /\ UNCHANGED <<profiles, calls>>

-----------------------------------------------------------------------------
(* create_user_profile_internal. *)

Waits(w, c) == pc[w] = "call" /\ req[w].call = c

\* An error, or no answer at all: the request that still waits for it ends too.
Drop(c) ==
    /\ calls' = [calls EXCEPT ![c] = None]
    /\ pc' = [w \in Worker |-> IF Waits(w, c) THEN "idle" ELSE pc[w]]
    /\ req' = [w \in Worker |-> IF Waits(w, c) THEN None ELSE req[w]]

Continue(c, s, i) == /\ calls' = [calls EXCEPT ![c].step = s, ![c].id = i]
                     /\ UNCHANGED <<pc, req>>

At(c, s) == calls[c] # None /\ calls[c].step = s

ServeUsername(c) ==
    /\ At(c, "username")
    /\ IF \E i \in Rows(profiles) : profiles[i].username = calls[c].username
       THEN Drop(c) ELSE Continue(c, "email", None)
    /\ UNCHANGED <<profiles, accounts>>

\* get_user_profile_by_email is given the username.
ServeEmail(c) ==
    /\ At(c, "email")
    /\ IF \E i \in Rows(profiles) : profiles[i].email = calls[c].username
       THEN Drop(c) ELSE Continue(c, "insert", None)
    /\ UNCHANGED <<profiles, accounts>>

\* mutant: usernames need not be unique.
ProfileFitsEmail(r) == \A i \in Rows(profiles) : profiles[i].email # r.email

\* The constraints of user_profiles.
ProfileFits(r) == \A i \in Rows(profiles) : /\ profiles[i].username # r.username
                                            /\ profiles[i].email # r.email

\* mutant: who is there already is answered as if made just now.
CreateProfileAgain(c) ==
    /\ At(c, "insert")
    /\ \/ /\ ProfileFits(calls[c])
          /\ \E i \in UserId \ Rows(profiles) :
                /\ profiles' = [profiles EXCEPT ![i] =
                       [username |-> calls[c].username, email |-> calls[c].email]]
                /\ Continue(c, "answer", i)
       \/ /\ \E i \in Rows(profiles) :
                /\ profiles[i].username = calls[c].username \/ profiles[i].email = calls[c].email
                /\ Continue(c, "answer", i)
          /\ UNCHANGED profiles
    /\ UNCHANGED accounts

\* The id is a uuid4 of the user-service; IntegrityError if the row does not fit.
CreateProfile(c) ==
    /\ At(c, "insert")
    /\ \/ /\ ProfileFits(calls[c])
          /\ \E i \in UserId \ Rows(profiles) :
                /\ profiles' = [profiles EXCEPT ![i] =
                       [username |-> calls[c].username, email |-> calls[c].email]]
                /\ Continue(c, "answer", i)
       \/ /\ ~ProfileFits(calls[c])
          /\ Drop(c)
          /\ UNCHANGED profiles
    /\ UNCHANGED accounts

-----------------------------------------------------------------------------
(* What a user does afterwards. *)

\* update_users_me, by a user who can log in: the email of the profile only.
ChangeEmail(i) ==
    /\ i \in Rows(accounts) \cap Rows(profiles)
    /\ \E e \in Email :
        /\ \A j \in Rows(profiles) \ {i} : profiles[j].email # e
        /\ profiles' = [profiles EXCEPT ![i].email = e]
    /\ UNCHANGED <<accounts, pc, req, calls>>

\* verify_email: get_user_by_verification_code wants the code to be of one user.
FindCode(w) ==
    /\ pc[w] = "idle"
    /\ \E k \in Code, i \in Rows(accounts) :
        /\ {j \in Rows(accounts) : accounts[j].code = k} = {i}
        /\ Goto(w, "verify", [id |-> i, code |-> k])
    /\ UNCHANGED <<profiles, accounts, calls>>

\* mutant: the code stays good.
VerifiedOnly(a) == [a EXCEPT !.verified = TRUE]
Verified(a) == [a EXCEPT !.verified = TRUE, !.code = None]

\* mutant: an UPDATE without its WHERE.
MarkAll(w) ==
    /\ pc[w] = "verify"
    /\ accounts' = [i \in UserId |-> IF accounts[i] = None THEN None ELSE Verified(accounts[i])]
    /\ Answer(w)
    /\ UNCHANGED <<profiles, calls>>

\* mark_email_as_verified.
MarkVerified(w) ==
    /\ pc[w] = "verify"
    /\ accounts' = [accounts EXCEPT ![req[w].id] = Verified(@)]
    /\ Answer(w)
    /\ UNCHANGED <<profiles, calls>>

-----------------------------------------------------------------------------
\* An await raises in a request: a time-out of the call, an answer that cannot
\* be read, a failure of the database.  The call is not taken back.
Abort(w) ==
    /\ pc[w] # "idle"
    /\ Answer(w)
    /\ UNCHANGED <<profiles, accounts, calls>>

\* The same in the user-service, or its answer is lost.
AbortCall(c) ==
    /\ calls[c] # None
    /\ Drop(c)
    /\ UNCHANGED <<profiles, accounts>>

Next == \/ \E w \in Worker : \/ Register(w) \/ CheckUsername(w) \/ Receive(w)
                             \/ CreateLocalUser(w) \/ FindCode(w) \/ MarkVerified(w) \/ Abort(w)
        \/ \E c \in Call : \/ ServeUsername(c) \/ ServeEmail(c) \/ CreateProfile(c) \/ AbortCall(c)
        \/ \E i \in UserId : ChangeEmail(i)

Spec == Init /\ [][Next]_vars

-----------------------------------------------------------------------------
(* Properties. *)

\* The tables, the requests and the calls hold values of their types.
TypeOK ==
    /\ profiles \in [UserId -> Profile \cup {None}]
    /\ accounts \in [UserId -> Account \cup {None}]
    /\ pc \in [Worker -> {"idle", "username", "call", "create", "verify"}]
    /\ req \in [Worker -> Request \cup {None}]
    /\ calls \in [Call -> Served \cup {None}]

\* A local user is made for a profile of its own, with the same username and
\* email: whatever fails or comes late, the two services mean the same person.
AccountsMatchProfiles ==
    [][\A i \in UserId : accounts[i] = None /\ accounts'[i] # None
          => profiles[i] = [username |-> accounts'[i].username, email |-> accounts'[i].email]]_vars

\* Who has got a profile has won the username, and create_local_user is not
\* refused: no other has made a local user of that name meanwhile, or of that
\* id; and the email can only be that of a user who has given it up since.
NameIsWon ==
    \A w \in Worker : pc[w] = "create" =>
        /\ accounts[req[w].id] = None
        /\ \A i \in Rows(accounts) : /\ accounts[i].username # req[w].username
                                     /\ accounts[i].email = req[w].email
                                           => profiles[i].email # req[w].email

\* An email is verified with the code that its own user was sent, even when
\* codes repeat and two requests present one at the same time.
VerifiedWithItsCode ==
    [][\A i \in Rows(accounts) : accounts'[i].verified /\ ~accounts[i].verified
          => \E w \in Worker : pc[w] = "verify" /\ req[w].code = accounts[i].code]_vars

\* What comes of a registration is what the two services promise together: who
\* is admitted is the person of the profile, as long as its registration goes on,
\* and a profile that was left behind by a failure is never taken up again.
HeldBy(w, i) ==
    \/ pc[w] = "create" /\ req[w].id = i
    \/ pc[w] = "call" /\ At(req[w].call, "answer") /\ calls[req[w].call].id = i
Pending == {i \in UserId : \E w \in Worker : HeldBy(w, i)}

Login == [username : Username, email : Email, verified : BOOLEAN]
ASSUME LoginAssumption == None \notin Login

LoginOf(a) == IF a = None THEN None
              ELSE [username |-> a.username, email |-> a.email, verified |-> a.verified]
Logins == [i \in UserId |-> LoginOf(accounts[i])]
Ids == INSTANCE Identity WITH profile <- profiles, login <- Logins, pending <- Pending
ImplementsIdentity == Ids!Spec
=============================================================================
