------------------------- MODULE RegistrationProofs -------------------------
(***************************************************************************)
(* Proofs about Registration, for any names, users, codes, and requests    *)
(* and calls in flight: types, and that the two services agree on who a    *)
(* user is.                                                                *)
(***************************************************************************)
EXTENDS Registration, TLAPS

\* What the constraints of user_profiles keep.
NamesUnique == \A i, j \in Rows(profiles) :
    i # j => /\ profiles[i].username # profiles[j].username
             /\ profiles[i].email # profiles[j].email

\* A local user has a profile; the username is never changed in either service.
HasProfile == \A i \in Rows(accounts) :
    i \in Rows(profiles) /\ profiles[i].username = accounts[i].username

\* The profile of r is as it was asked for, and its user is still to be made.
Owns(r) == /\ r.id \in UserId
           /\ profiles[r.id] = [username |-> r.username, email |-> r.email]
           /\ accounts[r.id] = None

Answered(c) == At(c, "answer") => Owns(calls[c])

RequestAt(w) ==
    /\ pc[w] \in {"username", "call", "create"} => req[w] \in Registering
    /\ pc[w] = "call" => /\ req[w].call \in Call
                         /\ calls[req[w].call] # None
                         /\ calls[req[w].call].username = req[w].username
                         /\ calls[req[w].call].email = req[w].email
    /\ pc[w] = "create" => Owns(req[w])
    /\ pc[w] = "verify" => /\ req[w] \in Verifying
                           /\ req[w].id \in Rows(accounts)
                           /\ ~accounts[req[w].id].verified => accounts[req[w].id].code = req[w].code

\* A call is waited for by one request, and a profile without a user is in the
\* hands of one call or request.
Apart ==
    /\ \A v, w \in Worker : pc[v] = "call" /\ pc[w] = "call" /\ req[v].call = req[w].call => v = w
    /\ \A v, w \in Worker : pc[v] = "create" /\ pc[w] = "create" /\ req[v].id = req[w].id => v = w
    /\ \A c, d \in Call : At(c, "answer") /\ At(d, "answer") /\ calls[c].id = calls[d].id => c = d
    /\ \A c \in Call, w \in Worker : At(c, "answer") /\ pc[w] = "create" => calls[c].id # req[w].id

IInv == /\ TypeOK
        /\ NamesUnique
        /\ HasProfile
        /\ \A c \in Call : Answered(c)
        /\ \A w \in Worker : RequestAt(w)
        /\ Apart

-----------------------------------------------------------------------------

\* At the start there is nothing.
LEMMA InitIInv == Init => IInv
BY DEF Init, IInv, TypeOK, NamesUnique, HasProfile, Answered, RequestAt, Apart, Rows, At

\* Ending a request preserves the invariant.
LEMMA AnswerKeeps ==
    ASSUME IInv, NEW w \in Worker, Answer(w), UNCHANGED <<profiles, accounts, calls>>
    PROVE  IInv'
<1>1. /\ pc'[w] = "idle"
      /\ \A v \in Worker \ {w} : pc'[v] = pc[v] /\ req'[v] = req[v]
  BY DEF Answer, Goto, IInv, TypeOK
<1>2. TypeOK'
  BY DEF Answer, Goto, IInv, TypeOK
<1>3. NamesUnique' /\ HasProfile' /\ \A c \in Call : Answered(c)'
  BY DEF IInv, NamesUnique, HasProfile, Answered, Owns, Rows, At
<1>4. ASSUME NEW v \in Worker PROVE RequestAt(v)'
  BY <1>1 DEF IInv, RequestAt, Owns, Rows
<1>5. Apart'
  BY <1>1 DEF IInv, Apart, At
<1> QED
  BY <1>2, <1>3, <1>4, <1>5 DEF IInv

\* Dropping a call, and with it the request that waits for it, does too.
LEMMA DropKeeps ==
    ASSUME IInv, NEW c \in Call, Drop(c), UNCHANGED <<profiles, accounts>>
    PROVE  IInv'
<1>1. /\ calls'[c] = None
      /\ \A d \in Call \ {c} : calls'[d] = calls[d]
      /\ \A w \in Worker : \/ pc'[w] = "idle"
                           \/ pc'[w] = pc[w] /\ req'[w] = req[w] /\ ~Waits(w, c)
  BY DEF Drop, IInv, TypeOK
<1>2. TypeOK'
  BY DEF Drop, IInv, TypeOK
<1>3. NamesUnique' /\ HasProfile' /\ \A d \in Call : Answered(d)'
  BY <1>1 DEF IInv, NamesUnique, HasProfile, Answered, Owns, Rows, At
<1>4. ASSUME NEW w \in Worker PROVE RequestAt(w)'
  BY <1>1 DEF IInv, RequestAt, Owns, Rows, Waits
<1>5. Apart'
  BY <1>1 DEF IInv, Apart, At
<1> QED
  BY <1>2, <1>3, <1>4, <1>5 DEF IInv

\* So does a check of the user-service that is passed.
LEMMA ContinueKeeps ==
    ASSUME IInv, NEW c \in Call, NEW s \in {"email", "insert"}, calls[c] # None,
           Continue(c, s, None), UNCHANGED <<profiles, accounts>>
    PROVE  IInv'
<1>1. calls[c] \in Served /\ calls'[c] = [calls[c] EXCEPT !.step = s, !.id = None]
  BY DEF Continue, IInv, TypeOK
<1>2. /\ calls'[c] \in Served /\ calls'[c] # None
      /\ calls'[c].step = s
      /\ calls'[c].username = calls[c].username
      /\ calls'[c].email = calls[c].email
      /\ \A d \in Call \ {c} : calls'[d] = calls[d]
  <2>1. calls'[c] \in Served
    BY <1>1 DEF Served
  <2>2. calls'[c] # None
    BY <2>1, NoneAssumption
  <2> QED
    BY <1>1, <2>1, <2>2 DEF Continue, IInv, TypeOK, Served
<1>3. TypeOK'
  BY <1>1, <1>2 DEF Continue, IInv, TypeOK
<1>4. NamesUnique' /\ HasProfile' /\ \A d \in Call : Answered(d)'
  BY <1>2 DEF IInv, NamesUnique, HasProfile, Answered, Owns, Rows, At
<1> UNCHANGED <<pc, req>>
  BY DEF Continue
<1>5. ASSUME NEW w \in Worker PROVE RequestAt(w)'
  <2>1. RequestAt(w)
    BY DEF IInv
  <2> QED
    BY <1>2, <2>1 DEF RequestAt, Owns, Rows
<1>6. Apart'
  <2>1. \A d \in Call : At(d, "answer")' => At(d, "answer") /\ calls'[d] = calls[d]
    BY <1>2 DEF At
  <2> QED
    BY <2>1 DEF IInv, Apart
<1> QED
  BY <1>3, <1>4, <1>5, <1>6 DEF IInv

\* The user that a request makes has the profile that the request was answered.
LEMMA CreateLocalUserKeeps ==
    ASSUME IInv, NEW w \in Worker, CreateLocalUser(w)
    PROVE  IInv'
<1>1. CASE UNCHANGED accounts
  BY <1>1, AnswerKeeps DEF CreateLocalUser
<1> SUFFICES ASSUME NEW k \in Code,
                    accounts' = [accounts EXCEPT ![req[w].id] =
                        [username |-> req[w].username, email |-> req[w].email,
                         code |-> k, verified |-> FALSE]]
             PROVE  IInv'
  BY <1>1 DEF CreateLocalUser
<1> DEFINE a == [username |-> req[w].username, email |-> req[w].email,
                 code |-> k, verified |-> FALSE]
<1>2. a \in Account /\ a # None /\ a.username = req[w].username
  <2>1. a \in Account
    BY DEF CreateLocalUser, IInv, RequestAt, Registering, Account
  <2> QED
    BY <2>1, NoneAssumption
<1>a. accounts' = [accounts EXCEPT ![req[w].id] = a]
  OBVIOUS
<1> HIDE DEF a
<1>3. /\ pc[w] = "create" /\ req[w] \in Registering /\ Owns(req[w])
      /\ UNCHANGED <<profiles, calls>>
  BY DEF CreateLocalUser, IInv, RequestAt
<1>4. /\ pc'[w] = "idle"
      /\ \A v \in Worker \ {w} : pc'[v] = pc[v] /\ req'[v] = req[v]
      /\ accounts'[req[w].id] = a
      /\ \A i \in UserId \ {req[w].id} : accounts'[i] = accounts[i]
  BY <1>3, <1>a DEF CreateLocalUser, Answer, Goto, IInv, TypeOK, Owns
<1>5. TypeOK'
  BY <1>2, <1>3, <1>a DEF CreateLocalUser, Answer, Goto, IInv, TypeOK, Owns
<1>6. NamesUnique'
  BY <1>3 DEF IInv, NamesUnique, Rows
<1>7. HasProfile'
  <2>1. req[w].id \in Rows(profiles) /\ profiles[req[w].id].username = req[w].username
    <3>1. [username |-> req[w].username, email |-> req[w].email] \in Profile
      BY <1>3 DEF Registering, Profile
    <3> QED
      BY <1>3, <3>1, NoneAssumption DEF Owns, Rows
  <2> QED
    BY <1>2, <1>3, <1>4, <2>1 DEF IInv, HasProfile, Rows
<1>8. ASSUME NEW c \in Call PROVE Answered(c)'
  BY <1>3, <1>4 DEF IInv, Answered, Owns, Apart, At
<1>9. ASSUME NEW v \in Worker PROVE RequestAt(v)'
  <2>1. CASE v = w
    BY <1>4, <2>1 DEF RequestAt
  <2>2. CASE v # w /\ pc[v] = "verify"
    <3>1. req[v].id # req[w].id
      BY <1>3, <2>2 DEF IInv, RequestAt, Owns, Rows
    <3> QED
      BY <1>3, <1>4, <2>2, <3>1 DEF IInv, RequestAt, Rows, Verifying
  <2>3. CASE v # w /\ pc[v] # "verify"
    BY <1>3, <1>4, <2>3 DEF IInv, RequestAt, Owns, Apart
  <2> QED
    BY <2>1, <2>2, <2>3
<1>10. Apart'
  BY <1>3, <1>4 DEF IInv, Apart, At
<1> QED
  BY <1>5, <1>6, <1>7, <1>8, <1>9, <1>10 DEF IInv

\* The profile that a call makes is in the hands of that call alone.
LEMMA CreateProfileKeeps ==
    ASSUME IInv, NEW c \in Call, CreateProfile(c)
    PROVE  IInv'
<1>1. CASE Drop(c) /\ UNCHANGED profiles
  BY <1>1, DropKeeps DEF CreateProfile
<1> DEFINE p == [username |-> calls[c].username, email |-> calls[c].email]
<1> SUFFICES ASSUME NEW i \in UserId \ Rows(profiles), ProfileFits(calls[c]),
                    profiles' = [profiles EXCEPT ![i] = p], Continue(c, "answer", i)
             PROVE  IInv'
  BY <1>1 DEF CreateProfile
<1>2. At(c, "insert") /\ calls[c] \in Served /\ UNCHANGED <<accounts, pc, req>>
  BY DEF CreateProfile, At, Continue, IInv, TypeOK
<1>3. p \in Profile /\ p # None /\ p.username = calls[c].username /\ p.email = calls[c].email
  <2>1. p \in Profile
    BY <1>2 DEF Served, Profile
  <2> QED
    BY <2>1, NoneAssumption
<1>4. /\ calls'[c] \in Served /\ calls'[c] # None
      /\ calls'[c].step = "answer" /\ calls'[c].id = i
      /\ calls'[c].username = calls[c].username
      /\ calls'[c].email = calls[c].email
      /\ \A d \in Call \ {c} : calls'[d] = calls[d]
  <2>1. calls'[c] = [calls[c] EXCEPT !.step = "answer", !.id = i]
    BY DEF Continue, IInv, TypeOK
  <2>2. calls'[c] \in Served
    BY <1>2, <2>1 DEF Served
  <2>3. calls'[c] # None
    BY <2>2, NoneAssumption
  <2> QED
    BY <1>2, <2>1, <2>2, <2>3 DEF Continue, IInv, TypeOK, Served
<1>5. profiles[i] = None /\ accounts[i] = None
  BY DEF Rows, IInv, HasProfile
<1>6. profiles'[i] = p /\ \A j \in UserId \ {i} : profiles'[j] = profiles[j]
  BY DEF IInv, TypeOK
<1> HIDE DEF p
<1>7. TypeOK'
  BY <1>2, <1>3, <1>4 DEF Continue, IInv, TypeOK
<1>8. NamesUnique'
  BY <1>3, <1>5, <1>6 DEF IInv, NamesUnique, Rows, ProfileFits
<1>9. HasProfile'
  BY <1>2, <1>5, <1>6 DEF IInv, HasProfile, Rows
<1>10. ASSUME NEW r, Owns(r), r.username \in Username, r.email \in Email
       PROVE  Owns(r)' /\ r.id # i
  <2>1. [username |-> r.username, email |-> r.email] \in Profile
    BY <1>10 DEF Profile
  <2>2. r.id # i
    BY <1>5, <1>10, <2>1, NoneAssumption DEF Owns
  <2> QED
    BY <1>2, <1>6, <1>10, <2>2 DEF Owns
<1>11. ASSUME NEW d \in Call, d # c, At(d, "answer")
       PROVE  Owns(calls[d])' /\ calls[d].id # i
  <2>1. calls[d].username \in Username /\ calls[d].email \in Email
    BY <1>11 DEF At, IInv, TypeOK, Served
  <2> QED
    BY <1>4, <1>10, <1>11, <2>1 DEF IInv, Answered, Owns
<1>12. ASSUME NEW w \in Worker, pc[w] = "create"
       PROVE  Owns(req[w])' /\ req[w].id # i
  <2>1. req[w].username \in Username /\ req[w].email \in Email /\ Owns(req[w])
    BY <1>12 DEF IInv, RequestAt, Registering
  <2> QED
    BY <1>2, <1>10, <2>1 DEF Owns
<1>13. ASSUME NEW d \in Call PROVE Answered(d)'
  <2>1. CASE d = c
    BY <1>2, <1>4, <1>5, <1>6, <2>1 DEF Answered, Owns, p
  <2>2. CASE d # c
    BY <1>4, <1>11, <2>2 DEF Answered, At
  <2> QED
    BY <2>1, <2>2
<1>14. ASSUME NEW w \in Worker PROVE RequestAt(w)'
  BY <1>2, <1>4, <1>12 DEF IInv, RequestAt, Rows
<1>15. Apart'
  BY <1>2, <1>4, <1>11, <1>12 DEF IInv, Apart, At
<1> QED
  BY <1>7, <1>8, <1>9, <1>13, <1>14, <1>15 DEF IInv

\* Every step of the two services preserves the invariant.
LEMMA StepIInv == IInv /\ [Next]_vars => IInv'
<1> SUFFICES ASSUME IInv, [Next]_vars PROVE IInv'
  OBVIOUS
<1>1. CASE UNCHANGED vars
  BY <1>1 DEF vars, IInv, TypeOK, NamesUnique, HasProfile, Answered, Owns, RequestAt, Apart, Rows, At
<1>2. ASSUME NEW w \in Worker, Register(w) PROVE IInv'
  <2>1. PICK r \in Registering : Goto(w, "username", r) /\ UNCHANGED <<profiles, accounts, calls>>
    BY <1>2 DEF Register, Registering
  <2>2. /\ pc'[w] = "username" /\ req'[w] = r
        /\ \A v \in Worker \ {w} : pc'[v] = pc[v] /\ req'[v] = req[v]
    BY <2>1 DEF Goto, IInv, TypeOK
  <2>3. TypeOK'
    BY <2>1 DEF Goto, IInv, TypeOK, Request
  <2>4. NamesUnique' /\ HasProfile' /\ \A c \in Call : Answered(c)'
    BY <2>1 DEF IInv, NamesUnique, HasProfile, Answered, Owns, Rows, At
  <2>5. ASSUME NEW v \in Worker PROVE RequestAt(v)'
    BY <2>1, <2>2 DEF IInv, RequestAt, Owns, Rows
  <2>6. Apart'
    BY <2>1, <2>2 DEF IInv, Apart, At
  <2> QED
    BY <2>3, <2>4, <2>5, <2>6 DEF IInv
<1>3. ASSUME NEW w \in Worker, CheckUsername(w) PROVE IInv'
  <2>1. CASE Answer(w) /\ UNCHANGED calls
    BY <1>3, <2>1, AnswerKeeps DEF CheckUsername
  <2>2. ASSUME NEW c \in Call, calls[c] = None,
               calls' = [calls EXCEPT ![c] =
                       [step |-> "username", username |-> req[w].username,
                        email |-> req[w].email, id |-> None]],
               Goto(w, "call", [req[w] EXCEPT !.call = c])
        PROVE  IInv'
    <3>1. req[w] \in Registering /\ UNCHANGED <<profiles, accounts>>
      BY <1>3 DEF CheckUsername, IInv, RequestAt
    <3> DEFINE r == [req[w] EXCEPT !.call = c]
               k == [step |-> "username", username |-> req[w].username,
                     email |-> req[w].email, id |-> None]
    <3>2. /\ r \in Registering /\ r.call = c
          /\ r.username = req[w].username /\ r.email = req[w].email
      BY <3>1 DEF Registering
    <3>3. k \in Served /\ k # None /\ k.step = "username"
          /\ k.username = req[w].username /\ k.email = req[w].email
      <4>1. k \in Served
        BY <3>1 DEF Served, Registering
      <4> QED
        BY <4>1, NoneAssumption
    <3>4. calls' = [calls EXCEPT ![c] = k] /\ Goto(w, "call", r)
      BY <2>2
    <3> HIDE DEF r, k
    <3>5. /\ pc'[w] = "call" /\ req'[w] = r
          /\ \A v \in Worker \ {w} : pc'[v] = pc[v] /\ req'[v] = req[v]
          /\ calls'[c] = k /\ \A d \in Call \ {c} : calls'[d] = calls[d]
      BY <3>4 DEF Goto, IInv, TypeOK
    <3>6. TypeOK'
      BY <3>1, <3>2, <3>3, <3>4 DEF Goto, IInv, TypeOK, Request
    <3>7. NamesUnique' /\ HasProfile' /\ \A d \in Call : Answered(d)'
      BY <3>1, <3>3, <3>5 DEF IInv, NamesUnique, HasProfile, Answered, Owns, Rows, At
    <3>8. ASSUME NEW v \in Worker PROVE RequestAt(v)'
      BY <2>2, <3>1, <3>2, <3>3, <3>5 DEF IInv, RequestAt, Owns, Rows
    <3>9. Apart'
      BY <2>2, <3>2, <3>3, <3>5 DEF IInv, Apart, At, RequestAt
    <3> QED
      BY <3>6, <3>7, <3>8, <3>9 DEF IInv
  <2> QED
    BY <1>3, <2>1, <2>2 DEF CheckUsername
<1>4. ASSUME NEW w \in Worker, Receive(w) PROVE IInv'
  <2> DEFINE c == req[w].call
             r == [req[w] EXCEPT !.id = calls[c].id, !.call = None]
  <2>1. /\ pc[w] = "call" /\ req[w] \in Registering /\ c \in Call /\ At(c, "answer")
        /\ calls[c].username = req[w].username /\ calls[c].email = req[w].email
        /\ Owns(calls[c])
        /\ UNCHANGED <<profiles, accounts>>
    BY <1>4 DEF Receive, IInv, RequestAt, Answered, At
  <2>2. /\ r \in Registering /\ r.id = calls[c].id
        /\ r.username = req[w].username /\ r.email = req[w].email
    BY <2>1 DEF Registering, Owns
  <2>3. Goto(w, "create", r) /\ calls' = [calls EXCEPT ![c] = None]
    BY <1>4 DEF Receive
  <2> HIDE DEF r, c
  <2>4. /\ pc'[w] = "create" /\ req'[w] = r
        /\ \A v \in Worker \ {w} : pc'[v] = pc[v] /\ req'[v] = req[v]
        /\ calls'[c] = None /\ \A d \in Call \ {c} : calls'[d] = calls[d]
    BY <2>1, <2>3 DEF Goto, IInv, TypeOK
  <2>5. TypeOK'
    BY <2>1, <2>2, <2>3 DEF Goto, IInv, TypeOK, Request
  <2>6. NamesUnique' /\ HasProfile' /\ \A d \in Call : Answered(d)'
    BY <2>1, <2>4 DEF IInv, NamesUnique, HasProfile, Answered, Owns, Rows, At
  <2>7. Owns(req[w])'
    BY <2>1, <2>2, <2>4 DEF Owns
  <2>8. ASSUME NEW v \in Worker PROVE RequestAt(v)'
    <3>1. CASE v = w
      BY <2>2, <2>4, <2>7, <3>1 DEF RequestAt
    <3>2. CASE v # w
      <4>1. pc[v] = "call" => req[v].call # c
        BY <2>1, <3>2 DEF IInv, Apart, c
      <4> QED
        BY <2>1, <2>4, <3>2, <4>1 DEF IInv, RequestAt, Owns, Rows
    <3> QED
      BY <3>1, <3>2
  <2>9. Apart'
    BY <2>1, <2>2, <2>4 DEF IInv, Apart, At
  <2> QED
    BY <2>5, <2>6, <2>8, <2>9 DEF IInv
<1>5. ASSUME NEW w \in Worker, FindCode(w) PROVE IInv'
  <2>1. PICK k \in Code, i \in UserId :
           /\ i \in Rows(accounts) /\ accounts[i].code = k
           /\ Goto(w, "verify", [id |-> i, code |-> k])
    BY <1>5 DEF FindCode, Rows
  <2>2. pc[w] = "idle" /\ UNCHANGED <<profiles, accounts, calls>>
    BY <1>5 DEF FindCode
  <2> DEFINE r == [id |-> i, code |-> k]
  <2>3. r \in Verifying /\ r.id = i /\ r.code = k
    BY DEF Verifying
  <2>4. /\ pc'[w] = "verify" /\ req'[w] = r
        /\ \A v \in Worker \ {w} : pc'[v] = pc[v] /\ req'[v] = req[v]
    BY <2>1 DEF Goto, IInv, TypeOK
  <2>5. TypeOK'
    BY <2>1, <2>2, <2>3 DEF Goto, IInv, TypeOK, Request
  <2> HIDE DEF r
  <2>6. NamesUnique' /\ HasProfile' /\ \A c \in Call : Answered(c)'
    BY <2>2 DEF IInv, NamesUnique, HasProfile, Answered, Owns, Rows, At
  <2>7. ASSUME NEW v \in Worker PROVE RequestAt(v)'
    BY <2>1, <2>2, <2>3, <2>4 DEF IInv, RequestAt, Owns, Rows
  <2>8. Apart'
    BY <2>2, <2>4 DEF IInv, Apart, At
  <2> QED
    BY <2>5, <2>6, <2>7, <2>8 DEF IInv
<1>6. ASSUME NEW w \in Worker, MarkVerified(w) PROVE IInv'
  <2> DEFINE i == req[w].id
             a == Verified(accounts[i])
  <2>1. /\ pc[w] = "verify" /\ i \in UserId /\ accounts[i] \in Account
        /\ accounts' = [accounts EXCEPT ![i] = a]
        /\ UNCHANGED <<profiles, calls>>
    BY <1>6, NoneAssumption DEF MarkVerified, IInv, RequestAt, TypeOK, Rows
  <2>2. a \in Account /\ a.username = accounts[i].username /\ a.verified
    BY <2>1 DEF Verified, Account
  <2>3. a # None /\ accounts[i] # None
    BY <2>1, <2>2, NoneAssumption
  <2> HIDE DEF a, i
  <2>4. /\ pc'[w] = "idle"
        /\ \A v \in Worker \ {w} : pc'[v] = pc[v] /\ req'[v] = req[v]
        /\ accounts'[i] = a /\ \A j \in UserId \ {i} : accounts'[j] = accounts[j]
    BY <1>6, <2>1 DEF MarkVerified, Answer, Goto, IInv, TypeOK
  <2>5. TypeOK'
    BY <1>6, <2>1, <2>2 DEF MarkVerified, Answer, Goto, IInv, TypeOK
  <2>6. NamesUnique' /\ HasProfile'
    BY <2>1, <2>2, <2>3, <2>4 DEF IInv, NamesUnique, HasProfile, Rows
  <2>7. \A r : Owns(r) => Owns(r)'
    BY <2>1, <2>3, <2>4 DEF Owns
  <2>8. \A c \in Call : Answered(c)'
    BY <2>1, <2>7 DEF IInv, Answered, At
  <2>9. ASSUME NEW v \in Worker PROVE RequestAt(v)'
    BY <2>1, <2>2, <2>3, <2>4, <2>7 DEF IInv, RequestAt, Rows, Verifying
  <2>10. Apart'
    BY <2>1, <2>4 DEF IInv, Apart, At
  <2> QED
    BY <2>5, <2>6, <2>8, <2>9, <2>10 DEF IInv
<1>7. ASSUME NEW i \in UserId, ChangeEmail(i) PROVE IInv'
  <2>1. PICK e \in Email :
           /\ \A j \in Rows(profiles) \ {i} : profiles[j].email # e
           /\ profiles' = [profiles EXCEPT ![i].email = e]
    BY <1>7 DEF ChangeEmail
  <2>2. profiles[i] \in Profile /\ accounts[i] # None /\ UNCHANGED <<accounts, pc, req, calls>>
    BY <1>7 DEF ChangeEmail, Rows, IInv, TypeOK
  <2>3. /\ profiles'[i] = [profiles[i] EXCEPT !.email = e]
        /\ \A j \in UserId \ {i} : profiles'[j] = profiles[j]
    BY <2>1 DEF IInv, TypeOK
  <2>4. /\ profiles'[i] \in Profile /\ profiles'[i] # None /\ profiles[i] # None
        /\ profiles'[i].username = profiles[i].username /\ profiles'[i].email = e
    <3>1. profiles'[i] \in Profile
      BY <2>2, <2>3 DEF Profile
    <3> QED
      BY <2>2, <2>3, <3>1, NoneAssumption DEF Profile
  <2>5. TypeOK'
    <3>1. profiles' \in [UserId -> Profile \cup {None}]
      BY <2>1, <2>3, <2>4 DEF IInv, TypeOK
    <3> QED
      BY <2>2, <3>1 DEF IInv, TypeOK
  <2>6. NamesUnique'
    BY <2>1, <2>3, <2>4 DEF IInv, NamesUnique, Rows
  <2>7. HasProfile'
    BY <2>2, <2>3, <2>4 DEF IInv, HasProfile, Rows
  <2>8. \A r : Owns(r) => Owns(r)'
    BY <2>2, <2>3 DEF Owns
  <2>9. \A c \in Call : Answered(c)'
    BY <2>2, <2>8 DEF IInv, Answered, At
  <2>10. ASSUME NEW w \in Worker PROVE RequestAt(w)'
    BY <2>2, <2>8 DEF IInv, RequestAt, Rows
  <2>11. Apart'
    BY <2>2 DEF IInv, Apart, At
  <2> QED
    BY <2>5, <2>6, <2>7, <2>9, <2>10, <2>11 DEF IInv
<1>8. ASSUME NEW w \in Worker, Abort(w) PROVE IInv'
  BY <1>8, AnswerKeeps DEF Abort
<1>9. ASSUME NEW c \in Call, ServeUsername(c) \/ ServeEmail(c) PROVE IInv'
  <2>1. calls[c] # None /\ UNCHANGED <<profiles, accounts>>
    BY <1>9 DEF ServeUsername, ServeEmail, At
  <2>2. Drop(c) \/ Continue(c, "email", None) \/ Continue(c, "insert", None)
    BY <1>9 DEF ServeUsername, ServeEmail
  <2> QED
    BY <2>1, <2>2, DropKeeps, ContinueKeeps
<1>10. ASSUME NEW c \in Call, AbortCall(c) PROVE IInv'
  BY <1>10, DropKeeps DEF AbortCall
<1> QED
  BY <1>1, <1>2, <1>3, <1>4, <1>5, <1>6, <1>7, <1>8, <1>9, <1>10,
     CreateLocalUserKeeps, CreateProfileKeeps DEF Next

-----------------------------------------------------------------------------

\* The invariant holds for every set of names, users, codes, requests and calls.
THEOREM Invariance == Spec => []IInv
BY InitIInv, StepIInv, PTL DEF Spec

\* Every variable keeps its type.
THEOREM TypeCorrect == Spec => []TypeOK
<1>1. IInv => TypeOK
  BY DEF IInv
<1> QED
  BY Invariance, <1>1, PTL

\* Who has got a profile has won the username.
THEOREM NameWon == Spec => []NameIsWon
<1>1. IInv => NameIsWon
  <2> SUFFICES ASSUME IInv, NEW w \in Worker, pc[w] = "create"
               PROVE  /\ accounts[req[w].id] = None
                      /\ \A i \in Rows(accounts) :
                            /\ accounts[i].username # req[w].username
                            /\ accounts[i].email = req[w].email
                                  => profiles[i].email # req[w].email
    BY DEF NameIsWon
  <2>1. /\ accounts[req[w].id] = None
        /\ req[w].id \in Rows(profiles)
        /\ profiles[req[w].id].username = req[w].username
        /\ profiles[req[w].id].email = req[w].email
    <3>1. Owns(req[w]) /\ [username |-> req[w].username, email |-> req[w].email] \in Profile
      BY DEF IInv, RequestAt, Registering, Profile
    <3> QED
      BY <3>1, NoneAssumption DEF Owns, Rows
  <2> QED
    BY <2>1 DEF IInv, HasProfile, NamesUnique, Rows
<1> QED
  BY Invariance, <1>1, PTL

\* A local user is made for the profile of the same person.
THEOREM SamePerson == Spec => AccountsMatchProfiles
<1>1. IInv /\ [Next]_vars => [\A i \in UserId : accounts[i] = None /\ accounts'[i] # None
          => profiles[i] = [username |-> accounts'[i].username, email |-> accounts'[i].email]]_vars
  <2> SUFFICES ASSUME IInv, Next, NEW i \in UserId, accounts[i] = None, accounts'[i] # None
               PROVE  profiles[i] = [username |-> accounts'[i].username, email |-> accounts'[i].email]
    OBVIOUS
  <2>1. PICK w \in Worker : CreateLocalUser(w) \/ MarkVerified(w)
    BY DEF Next, Register, CheckUsername, Receive, FindCode, Abort, ServeUsername, ServeEmail,
           CreateProfile, AbortCall, ChangeEmail
  <2>2. CASE MarkVerified(w)
    BY <2>2 DEF MarkVerified, IInv, TypeOK, RequestAt, Rows
  <2>3. CASE CreateLocalUser(w)
    <3>1. Owns(req[w])
      BY <2>3 DEF CreateLocalUser, IInv, RequestAt
    <3>2. PICK k \in Code : accounts' = [accounts EXCEPT ![req[w].id] =
                 [username |-> req[w].username, email |-> req[w].email,
                  code |-> k, verified |-> FALSE]]
      BY <2>3 DEF CreateLocalUser
    <3>3. i = req[w].id
      BY <3>2 DEF IInv, TypeOK
    <3>4. accounts'[i] = [username |-> req[w].username, email |-> req[w].email,
                          code |-> k, verified |-> FALSE]
      BY <3>2, <3>3 DEF IInv, TypeOK
    <3> QED
      BY <3>1, <3>3, <3>4 DEF Owns
  <2> QED
    BY <2>1, <2>2, <2>3
<1> QED
  BY <1>1, Invariance, PTL DEF Spec, AccountsMatchProfiles

\* Only the code of the user itself verifies its email.
THEOREM OwnCode == Spec => VerifiedWithItsCode
<1>1. IInv /\ [Next]_vars => [\A i \in Rows(accounts) : accounts'[i].verified /\ ~accounts[i].verified
          => \E w \in Worker : pc[w] = "verify" /\ req[w].code = accounts[i].code]_vars
  <2> SUFFICES ASSUME IInv, Next, NEW i \in Rows(accounts), accounts'[i].verified, ~accounts[i].verified
               PROVE  \E w \in Worker : pc[w] = "verify" /\ req[w].code = accounts[i].code
    OBVIOUS
  <2>1. PICK w \in Worker : CreateLocalUser(w) \/ MarkVerified(w)
    BY DEF Next, Register, CheckUsername, Receive, FindCode, Abort, ServeUsername, ServeEmail,
           CreateProfile, AbortCall, ChangeEmail
  <2>2. CASE CreateLocalUser(w)
    <3>1. Owns(req[w])
      BY <2>2 DEF CreateLocalUser, IInv, RequestAt
    <3>2. accounts'[i] = accounts[i]
      BY <2>2, <3>1 DEF CreateLocalUser, Owns, IInv, TypeOK, Rows
    <3> QED
      BY <3>2
  <2>3. CASE MarkVerified(w)
    <3>1. i = req[w].id
      BY <2>3 DEF MarkVerified, IInv, TypeOK, Rows
    <3> QED
      BY <2>3, <3>1 DEF MarkVerified, IInv, RequestAt
  <2> QED
    BY <2>1, <2>2, <2>3
<1> QED
  BY <1>1, Invariance, PTL DEF Spec, VerifiedWithItsCode

-----------------------------------------------------------------------------
(* What comes of a registration. *)

Nothing == UNCHANGED <<profiles, Logins, Pending>>

\* Whom a request holds has a profile and no local user, and no other holds it.
LEMMA HeldFacts ==
    ASSUME IInv, NEW w \in Worker, NEW i, HeldBy(w, i)
    PROVE  /\ i \in Pending /\ profiles[i] # None /\ accounts[i] = None
           /\ \A v \in Worker : HeldBy(v, i) => v = w
<1>1. ASSUME NEW r, Owns(r), r.id = i, r.username \in Username, r.email \in Email
      PROVE  i \in UserId /\ profiles[i] # None /\ accounts[i] = None
  <2>1. [username |-> r.username, email |-> r.email] \in Profile
    BY <1>1 DEF Profile
  <2> QED
    BY <1>1, <2>1, NoneAssumption DEF Owns
<1>2. CASE pc[w] = "create" /\ req[w].id = i
  <2>1. Owns(req[w]) /\ req[w] \in Registering
    BY <1>2 DEF IInv, RequestAt
  <2>2. i \in UserId /\ profiles[i] # None /\ accounts[i] = None
    BY <1>1, <1>2, <2>1 DEF Registering
  <2>3. \A v \in Worker : HeldBy(v, i) => v = w
    BY <1>2 DEF HeldBy, IInv, Apart, RequestAt
  <2> QED
    BY <2>2, <2>3 DEF Pending
<1>3. CASE pc[w] = "call" /\ At(req[w].call, "answer") /\ calls[req[w].call].id = i
  <2>1. req[w].call \in Call /\ Owns(calls[req[w].call]) /\ calls[req[w].call] \in Served
    BY <1>3 DEF IInv, RequestAt, Answered, TypeOK, At
  <2>2. i \in UserId /\ profiles[i] # None /\ accounts[i] = None
    BY <1>1, <1>3, <2>1 DEF Served
  <2>3. ASSUME NEW v \in Worker, HeldBy(v, i) PROVE v = w
    <3>1. CASE pc[v] = "create" /\ req[v].id = i
      BY <1>3, <2>1, <3>1 DEF IInv, Apart
    <3>2. CASE pc[v] = "call" /\ At(req[v].call, "answer") /\ calls[req[v].call].id = i
      <4>1. req[v].call \in Call
        BY <3>2 DEF IInv, RequestAt
      <4> QED
        BY <1>3, <2>1, <3>2, <4>1 DEF IInv, Apart
    <3> QED
      BY <2>3, <3>1, <3>2 DEF HeldBy
  <2> QED
    BY <2>2, <2>3 DEF Pending
<1> QED
  BY <1>2, <1>3 DEF HeldBy

\* Who has a local user may log in.
LEMMA LoginIsSome == \A a \in Account : LoginOf(a) # None
<1> TAKE a \in Account
<1>1. a # None
  BY NoneAssumption
<1>2. LoginOf(a) \in Login
  BY <1>1 DEF LoginOf, Login, Account
<1> QED
  BY <1>2, LoginAssumption

\* A change of one local user is a change of one login.
LEMMA LoginsAfter ==
    ASSUME TypeOK, NEW i \in UserId, NEW a, accounts' = [accounts EXCEPT ![i] = a]
    PROVE  Logins' = [Logins EXCEPT ![i] = LoginOf(a)]
<1>1. accounts'[i] = a /\ \A j \in UserId \ {i} : accounts'[j] = accounts[j]
  BY DEF TypeOK
<1>2. Logins' = [j \in UserId |-> LoginOf(accounts'[j])]
  BY DEF Logins, LoginOf
<1>3. Logins = [j \in UserId |-> LoginOf(accounts[j])]
  BY DEF Logins
<1>4. Logins' = [j \in UserId |-> IF j = i THEN LoginOf(a) ELSE Logins[j]]
  BY <1>1, <1>2, <1>3
<1>5. [Logins EXCEPT ![i] = LoginOf(a)] = [j \in UserId |-> IF j = i THEN LoginOf(a) ELSE Logins[j]]
  BY <1>3
<1> QED
  BY <1>4, <1>5

\* If nobody's hold changes, Pending does not.
LEMMA HoldsStay ==
    ASSUME \A v \in Worker, i \in UserId : HeldBy(v, i)' <=> HeldBy(v, i)
    PROVE  Pending' = Pending
BY DEF Pending

\* A request that lets go of whom it held, if anyone.
LEMMA LetGo ==
    ASSUME IInv, NEW w \in Worker,
           \A v \in Worker \ {w}, i \in UserId : HeldBy(v, i)' <=> HeldBy(v, i),
           \A i \in UserId : ~HeldBy(w, i)'
    PROVE  \/ Pending' = Pending /\ \A i : ~HeldBy(w, i)
           \/ \E i \in UserId : HeldBy(w, i) /\ Pending' = Pending \ {i}
<1>1. CASE \A i : ~HeldBy(w, i)
  BY <1>1 DEF Pending
<1>2. ASSUME NEW i, HeldBy(w, i) PROVE i \in UserId /\ Pending' = Pending \ {i}
  <2>1. i \in UserId /\ \A v \in Worker : HeldBy(v, i) => v = w
    BY <1>2, HeldFacts DEF Pending
  <2>2. \A j : HeldBy(w, j) => j = i
    BY <1>2 DEF HeldBy
  <2> QED
    BY <2>1, <2>2 DEF Pending
<1> QED
  BY <1>1, <1>2

\* A request that ends without an effect abandons whom it held.
LEMMA StepAway ==
    ASSUME IInv, NEW w \in Worker, UNCHANGED <<profiles, accounts>>,
           \A v \in Worker \ {w}, i \in UserId : HeldBy(v, i)' <=> HeldBy(v, i),
           \A i \in UserId : ~HeldBy(w, i)'
    PROVE  Nothing \/ \E i \in UserId : Ids!Abandon(i)
<1>1. UNCHANGED Logins
  BY DEF Logins, LoginOf
<1>2. CASE Pending' = Pending
  BY <1>1, <1>2 DEF Nothing
<1>3. ASSUME NEW i \in UserId, HeldBy(w, i), Pending' = Pending \ {i} PROVE Ids!Abandon(i)
  <2>1. i \in Pending
    BY <1>3 DEF Pending
  <2> QED
    BY <1>1, <1>3, <2>1 DEF Ids!Abandon
<1> QED
  BY <1>2, <1>3, LetGo

\* Ending one is such a step.
LEMMA AnswerAway ==
    ASSUME IInv, NEW w \in Worker, Answer(w), UNCHANGED <<profiles, accounts, calls>>
    PROVE  Nothing \/ \E i \in UserId : Ids!Abandon(i)
<1>1. /\ pc'[w] = "idle"
      /\ \A v \in Worker \ {w} : pc'[v] = pc[v] /\ req'[v] = req[v]
  BY DEF Answer, Goto, IInv, TypeOK
<1>2. \A v \in Worker \ {w}, i \in UserId : HeldBy(v, i)' <=> HeldBy(v, i)
  BY <1>1 DEF HeldBy, At
<1>3. \A i \in UserId : ~HeldBy(w, i)'
  BY <1>1 DEF HeldBy
<1> QED
  BY <1>2, <1>3, StepAway

\* So is dropping a call, of which a request waits for the answer at most.
LEMMA DropAway ==
    ASSUME IInv, NEW c \in Call, Drop(c), UNCHANGED <<profiles, accounts>>
    PROVE  Nothing \/ \E i \in UserId : Ids!Abandon(i)
<1>1. /\ calls'[c] = None
      /\ \A d \in Call \ {c} : calls'[d] = calls[d]
      /\ \A v \in Worker : IF Waits(v, c) THEN pc'[v] = "idle"
                                          ELSE pc'[v] = pc[v] /\ req'[v] = req[v]
  BY DEF Drop, IInv, TypeOK
<1>2. \A v \in Worker : pc[v] = "call" => req[v].call \in Call
  BY DEF IInv, RequestAt
<1>3. ASSUME NEW v \in Worker, ~Waits(v, c), NEW i \in UserId PROVE HeldBy(v, i)' <=> HeldBy(v, i)
  BY <1>1, <1>2, <1>3 DEF HeldBy, At, Waits
<1>4. ASSUME NEW v \in Worker, Waits(v, c), NEW i \in UserId PROVE ~HeldBy(v, i)'
  BY <1>1, <1>4 DEF HeldBy
<1>5. CASE \E w \in Worker : Waits(w, c)
  <2>1. PICK w \in Worker : Waits(w, c)
    BY <1>5
  <2>2. \A v \in Worker \ {w} : ~Waits(v, c)
    BY <2>1 DEF Waits, IInv, Apart
  <2> QED
    BY <1>3, <1>4, <2>1, <2>2, StepAway
<1>6. CASE \A w \in Worker : ~Waits(w, c)
  <2>1. Pending' = Pending
    BY <1>3, <1>6, HoldsStay
  <2>2. UNCHANGED Logins
    BY DEF Logins, LoginOf
  <2> QED
    BY <2>1, <2>2 DEF Nothing
<1> QED
  BY <1>5, <1>6

\* At the start there is nobody.
LEMMA InitIdentity == Init => Ids!Init
BY DEF Init, Ids!Init, Logins, LoginOf, Pending, HeldBy

\* A profile is made.
LEMMA StepReserve ==
    ASSUME IInv, NEW c \in Call, CreateProfile(c)
    PROVE  \/ Nothing
           \/ \E i \in UserId : Ids!Reserve(i) \/ Ids!Abandon(i)
<1>0. CASE Drop(c) /\ UNCHANGED profiles
  BY <1>0, DropAway DEF CreateProfile
<1> SUFFICES ASSUME NEW i \in UserId \ Rows(profiles), ProfileFits(calls[c]),
                    profiles' = [profiles EXCEPT ![i] =
                        [username |-> calls[c].username, email |-> calls[c].email]],
                    Continue(c, "answer", i)
             PROVE  Ids!Reserve(i)
  BY <1>0 DEF CreateProfile
<1>1. At(c, "insert") /\ calls[c] \in Served /\ UNCHANGED <<accounts, pc, req>>
  BY DEF CreateProfile, At, Continue, IInv, TypeOK
<1>2. profiles[i] = None
  BY DEF Rows
<1>3. UNCHANGED Logins
  BY <1>1 DEF Logins, LoginOf
<1>4. /\ calls[c].username \in Username /\ calls[c].email \in Email
      /\ Ids!NameFree(profiles, i, calls[c].username) /\ Ids!EmailFree(profiles, i, calls[c].email)
  BY <1>1 DEF Served, ProfileFits, Rows, Ids!NameFree, Ids!EmailFree
<1>5. /\ calls'[c].step = "answer" /\ calls'[c].id = i
      /\ \A d \in Call \ {c} : calls'[d] = calls[d]
  <2>1. calls'[c] = [calls[c] EXCEPT !.step = "answer", !.id = i]
    BY DEF Continue, IInv, TypeOK
  <2> QED
    BY <1>1, <2>1 DEF Continue, IInv, TypeOK, Served
<1>6. ASSUME NEW v \in Worker, NEW j \in UserId, j # i PROVE HeldBy(v, j)' <=> HeldBy(v, j)
  <2>1. CASE pc[v] = "call"
    <3>1. req[v].call \in Call
      BY <2>1 DEF IInv, RequestAt
    <3> QED
      BY <1>1, <1>5, <1>6, <2>1, <3>1 DEF HeldBy, At
  <2>2. CASE pc[v] # "call"
    BY <1>1, <2>2 DEF HeldBy
  <2> QED
    BY <2>1, <2>2
<1>7. \A j : j \in Pending' /\ j # i <=> j \in Pending /\ j # i
  BY <1>6 DEF Pending
<1>8. i \notin Pending
  BY <1>2, HeldFacts DEF Pending
<1>9. Pending' \in {Pending, Pending \cup {i}}
  BY <1>7, <1>8
<1> QED
  BY <1>2, <1>3, <1>4, <1>9 DEF Ids!Reserve

\* A local user is made, or refused.
LEMMA StepAdmit ==
    ASSUME IInv, NEW w \in Worker, CreateLocalUser(w)
    PROVE  \/ Nothing
           \/ \E i \in UserId : Ids!Admit(i) \/ Ids!Abandon(i)
<1>0. CASE UNCHANGED accounts
  BY <1>0, AnswerAway DEF CreateLocalUser
<1> DEFINE i == req[w].id
<1> SUFFICES ASSUME NEW k \in Code, AccountFits(req[w]),
                    accounts' = [accounts EXCEPT ![i] =
                        [username |-> req[w].username, email |-> req[w].email,
                         code |-> k, verified |-> FALSE]]
             PROVE  Ids!Admit(i) /\ i \in UserId
  BY <1>0 DEF CreateLocalUser
<1>1. /\ pc[w] = "create" /\ req[w] \in Registering /\ Owns(req[w])
      /\ Answer(w) /\ UNCHANGED <<profiles, calls>>
  BY DEF CreateLocalUser, IInv, RequestAt
<1>2. /\ i \in UserId /\ HeldBy(w, i)
      /\ profiles[i] = [username |-> req[w].username, email |-> req[w].email]
  BY <1>1 DEF Owns, HeldBy
<1> DEFINE a == [username |-> req[w].username, email |-> req[w].email,
                 code |-> k, verified |-> FALSE]
           l == [username |-> req[w].username, email |-> req[w].email, verified |-> FALSE]
<1>3. a # None
  <2>1. a \in Account
    BY <1>1 DEF Registering, Account
  <2> QED
    BY <2>1, NoneAssumption
<1>4. LoginOf(a) = l
  BY <1>3 DEF LoginOf
<1>5. accounts' = [accounts EXCEPT ![i] = a]
  OBVIOUS
<1> HIDE DEF a, i
<1>6. Logins' = [Logins EXCEPT ![i] = LoginOf(a)]
  BY <1>2, <1>5, LoginsAfter DEF IInv
<1>7. l = [username |-> profiles[i].username, email |-> profiles[i].email, verified |-> FALSE]
  BY <1>2
<1>8. \A j \in UserId : accounts[j] # None =>
         Logins[j].username = accounts[j].username /\ Logins[j].email = accounts[j].email
  BY DEF Logins, LoginOf
<1>9. /\ Ids!NameFree(Logins, i, profiles[i].username)
      /\ Ids!EmailFree(Logins, i, profiles[i].email)
  <2>1. \A j \in UserId : Logins[j] # None => accounts[j] # None
    BY DEF Logins, LoginOf
  <2> QED
    BY <1>2, <1>8, <2>1 DEF AccountFits, Rows, Ids!NameFree, Ids!EmailFree
<1>10. i \in Pending /\ Pending' = Pending \ {i}
  <2>1. /\ pc'[w] = "idle"
        /\ \A v \in Worker \ {w} : pc'[v] = pc[v] /\ req'[v] = req[v]
    BY <1>1 DEF Answer, Goto, IInv, TypeOK
  <2>2. \A v \in Worker \ {w}, j \in UserId : HeldBy(v, j)' <=> HeldBy(v, j)
    BY <1>1, <2>1 DEF HeldBy, At
  <2>3. \A j \in UserId : ~HeldBy(w, j)'
    BY <2>1 DEF HeldBy
  <2>4. PICK j \in UserId : HeldBy(w, j) /\ Pending' = Pending \ {j}
    BY <1>2, <2>2, <2>3, LetGo
  <2>5. j = i
    BY <1>2, <2>4 DEF HeldBy
  <2> QED
    BY <1>2, <2>4, <2>5 DEF Pending
<1> HIDE DEF l
<1> QED
  BY <1>1, <1>2, <1>4, <1>6, <1>7, <1>9, <1>10 DEF Ids!Admit

\* An email is verified.
LEMMA StepVerify ==
    ASSUME IInv, NEW w \in Worker, MarkVerified(w)
    PROVE  \E i \in UserId : Ids!Verify(i)
<1> DEFINE i == req[w].id
           a == Verified(accounts[i])
<1>1. /\ pc[w] = "verify" /\ i \in UserId /\ accounts[i] \in Account /\ accounts[i] # None
      /\ accounts' = [accounts EXCEPT ![i] = a]
      /\ Answer(w) /\ UNCHANGED <<profiles, calls>>
  BY NoneAssumption DEF MarkVerified, IInv, RequestAt, TypeOK, Rows
<1>2. /\ a \in Account /\ a.verified = TRUE
      /\ a.username = accounts[i].username /\ a.email = accounts[i].email
  BY <1>1 DEF Verified, Account
<1>3. a # None
  BY <1>2, NoneAssumption
<1> HIDE DEF a, i
<1>4. /\ Logins[i] = [username |-> accounts[i].username, email |-> accounts[i].email,
                     verified |-> accounts[i].verified]
      /\ LoginOf(a) = [username |-> accounts[i].username, email |-> accounts[i].email,
                       verified |-> TRUE]
  BY <1>1, <1>2, <1>3 DEF Logins, LoginOf
<1>5. LoginOf(a) = [Logins[i] EXCEPT !.verified = TRUE]
  <2>1. PICK yes, was : yes = TRUE /\ was = accounts[i].verified
    OBVIOUS
  <2>2. Logins[i] = [username |-> accounts[i].username, email |-> accounts[i].email, verified |-> was]
    BY <1>4, <2>1
  <2>3. [Logins[i] EXCEPT !.verified = yes]
           = [username |-> accounts[i].username, email |-> accounts[i].email, verified |-> yes]
    BY <2>2
  <2> QED
    BY <1>4, <2>1, <2>3
<1>6. Logins' = [Logins EXCEPT ![i] = LoginOf(a)]
  BY <1>1, LoginsAfter DEF IInv
<1>7. Logins' = [Logins EXCEPT ![i].verified = TRUE]
  BY <1>5, <1>6
<1>8. Logins[i] # None
  BY <1>1, LoginIsSome DEF Logins
<1>9. Pending' = Pending
  <2>1. /\ pc'[w] = "idle"
        /\ \A v \in Worker \ {w} : pc'[v] = pc[v] /\ req'[v] = req[v]
    BY <1>1 DEF Answer, Goto, IInv, TypeOK
  <2>2. \A v \in Worker, j \in UserId : HeldBy(v, j)' <=> HeldBy(v, j)
    BY <1>1, <2>1 DEF HeldBy, At
  <2> QED
    BY <2>2, HoldsStay
<1> QED
  BY <1>1, <1>7, <1>8, <1>9 DEF Ids!Verify

\* An email is changed.
LEMMA StepChangeEmail ==
    ASSUME IInv, NEW i \in UserId, ChangeEmail(i)
    PROVE  Ids!ChangeEmail(i)
<1>1. PICK e \in Email :
         /\ \A j \in Rows(profiles) \ {i} : profiles[j].email # e
         /\ profiles' = [profiles EXCEPT ![i].email = e]
  BY DEF ChangeEmail
<1>2. /\ accounts[i] \in Account /\ UNCHANGED <<accounts, pc, req, calls>>
  BY DEF ChangeEmail, Rows, IInv, TypeOK
<1>3. Logins[i] # None
  BY <1>2, LoginIsSome DEF Logins
<1>4. UNCHANGED <<Logins, Pending>>
  <2>1. UNCHANGED Logins
    BY <1>2 DEF Logins, LoginOf
  <2>2. UNCHANGED Pending
    BY <1>2 DEF Pending, HeldBy, At
  <2> QED
    BY <2>1, <2>2
<1>5. Ids!EmailFree(profiles, i, e)
  BY <1>1 DEF Rows, Ids!EmailFree
<1> QED
  BY <1>1, <1>3, <1>4, <1>5 DEF Ids!ChangeEmail

\* Every step of the two services is a step of the promise, or nothing to it.
LEMMA StepIdentity == IInv /\ [Next]_vars => [Ids!Next]_<<profiles, Logins, Pending>>
<1> SUFFICES ASSUME IInv, [Next]_vars
             PROVE  \/ Nothing
                    \/ \E i \in UserId : \/ Ids!Reserve(i) \/ Ids!Admit(i) \/ Ids!Abandon(i)
                                         \/ Ids!Verify(i) \/ Ids!ChangeEmail(i)
  BY DEF Ids!Next, Nothing
<1>1. CASE UNCHANGED vars
  <2>1. UNCHANGED Logins
    BY <1>1 DEF vars, Logins, LoginOf
  <2>2. UNCHANGED Pending
    BY <1>1 DEF vars, Pending, HeldBy, At
  <2> QED
    BY <1>1, <2>1, <2>2 DEF vars, Nothing
<1>2. ASSUME UNCHANGED <<profiles, accounts>>,
             \A v \in Worker, i \in UserId : HeldBy(v, i)' <=> HeldBy(v, i)
      PROVE  Nothing
  <2>1. UNCHANGED Logins
    BY <1>2 DEF Logins, LoginOf
  <2> QED
    BY <1>2, <2>1, HoldsStay DEF Nothing
<1>3. ASSUME NEW w \in Worker, Register(w) \/ FindCode(w) PROVE Nothing
  <2>1. PICK s \in {"username", "verify"} : \E r : Goto(w, s, r)
    BY <1>3 DEF Register, FindCode
  <2>2. pc[w] = "idle" /\ UNCHANGED <<profiles, accounts, calls>>
    BY <1>3 DEF Register, FindCode
  <2>3. /\ pc'[w] = s /\ \A v \in Worker \ {w} : pc'[v] = pc[v] /\ req'[v] = req[v]
    BY <2>1 DEF Goto, IInv, TypeOK
  <2>4. \A v \in Worker, i \in UserId : HeldBy(v, i)' <=> HeldBy(v, i)
    BY <2>2, <2>3 DEF HeldBy, At
  <2> QED
    BY <1>2, <2>2, <2>4
<1>4. ASSUME NEW w \in Worker, CheckUsername(w)
      PROVE  Nothing \/ \E i \in UserId : Ids!Abandon(i)
  <2>1. CASE Answer(w) /\ UNCHANGED calls
    BY <1>4, <2>1, AnswerAway DEF CheckUsername
  <2>2. ASSUME NEW c \in Call, calls[c] = None,
               calls' = [calls EXCEPT ![c] =
                       [step |-> "username", username |-> req[w].username,
                        email |-> req[w].email, id |-> None]],
               Goto(w, "call", [req[w] EXCEPT !.call = c])
        PROVE  Nothing
    <3>1. pc[w] = "username" /\ req[w] \in Registering /\ UNCHANGED <<profiles, accounts>>
      BY <1>4 DEF CheckUsername, IInv, RequestAt
    <3>2. [req[w] EXCEPT !.call = c].call = c
      BY <3>1 DEF Registering
    <3>3. /\ pc'[w] = "call" /\ req'[w].call = c
          /\ \A v \in Worker \ {w} : pc'[v] = pc[v] /\ req'[v] = req[v]
          /\ calls'[c].step = "username" /\ \A d \in Call \ {c} : calls'[d] = calls[d]
      BY <2>2, <3>2 DEF Goto, IInv, TypeOK
    <3>4. \A v \in Worker : pc[v] = "call" => req[v].call \in Call \ {c}
      BY <2>2 DEF IInv, RequestAt
    <3>5. \A v \in Worker, i \in UserId : HeldBy(v, i)' <=> HeldBy(v, i)
      <4>1. \A i \in UserId : ~HeldBy(w, i) /\ ~HeldBy(w, i)'
        BY <3>1, <3>3 DEF HeldBy, At
      <4>2. \A v \in Worker \ {w}, i \in UserId : HeldBy(v, i)' <=> HeldBy(v, i)
        BY <3>3, <3>4 DEF HeldBy, At
      <4> QED
        BY <4>1, <4>2
    <3> QED
      BY <1>2, <3>1, <3>5
  <2> QED
    BY <1>4, <2>1, <2>2 DEF CheckUsername
<1>5. ASSUME NEW w \in Worker, Receive(w) PROVE Nothing
  <2> DEFINE c == req[w].call
             r == [req[w] EXCEPT !.id = calls[c].id, !.call = None]
  <2>1. /\ pc[w] = "call" /\ req[w] \in Registering /\ c \in Call /\ At(c, "answer")
        /\ UNCHANGED <<profiles, accounts>>
    BY <1>5 DEF Receive, IInv, RequestAt, At
  <2>2. r.id = calls[c].id
    BY <2>1 DEF Registering
  <2>3. Goto(w, "create", r) /\ calls' = [calls EXCEPT ![c] = None]
    BY <1>5 DEF Receive
  <2>4. \A v \in Worker \ {w} : pc[v] = "call" => req[v].call \in Call \ {c}
    BY <2>1 DEF IInv, RequestAt, Apart
  <2>5. \A i : HeldBy(w, i) <=> i = calls[c].id
    BY <2>1 DEF HeldBy
  <2> HIDE DEF r, c
  <2>6. /\ pc'[w] = "create" /\ req'[w] = r
        /\ \A v \in Worker \ {w} : pc'[v] = pc[v] /\ req'[v] = req[v]
        /\ \A d \in Call \ {c} : calls'[d] = calls[d]
    BY <2>1, <2>3 DEF Goto, IInv, TypeOK
  <2>7. \A v \in Worker \ {w}, i \in UserId : HeldBy(v, i)' <=> HeldBy(v, i)
    BY <2>4, <2>6 DEF HeldBy, At
  <2>8. \A i \in UserId : HeldBy(w, i)' <=> HeldBy(w, i)
    BY <2>2, <2>5, <2>6 DEF HeldBy
  <2> QED
    BY <1>2, <2>1, <2>7, <2>8
<1>6. ASSUME NEW w \in Worker, Abort(w) PROVE Nothing \/ \E i \in UserId : Ids!Abandon(i)
  BY <1>6, AnswerAway DEF Abort
<1>7. ASSUME NEW c \in Call, ServeUsername(c) \/ ServeEmail(c)
      PROVE  Nothing \/ \E i \in UserId : Ids!Abandon(i)
  <2>1. CASE Drop(c)
    BY <1>7, <2>1, DropAway DEF ServeUsername, ServeEmail
  <2>2. ASSUME NEW s \in {"email", "insert"}, Continue(c, s, None) PROVE Nothing
    <3>1. /\ calls[c] \in Served /\ ~At(c, "answer") /\ UNCHANGED <<profiles, accounts, pc, req>>
      BY <1>7, <2>2 DEF ServeUsername, ServeEmail, At, Continue, IInv, TypeOK
    <3>2. calls' = [calls EXCEPT ![c] = [calls[c] EXCEPT !.step = s, !.id = None]]
      BY <2>2 DEF Continue
    <3>3. [calls[c] EXCEPT !.step = s, !.id = None].step = s
      BY <3>1 DEF Served
    <3>4. calls'[c].step = s /\ \A d \in Call \ {c} : calls'[d] = calls[d]
      BY <3>2, <3>3 DEF IInv, TypeOK
    <3>5. ~At(c, "answer")'
      BY <3>4 DEF At
    <3>6. \A v \in Worker, i \in UserId : HeldBy(v, i)' <=> HeldBy(v, i)
      <4>1. \A v \in Worker : pc[v] = "call" => req[v].call \in Call
        BY DEF IInv, RequestAt
      <4>2. \A d \in Call : At(d, "answer")' <=> At(d, "answer")
        BY <3>1, <3>4, <3>5 DEF At
      <4> QED
        BY <3>1, <3>4, <4>1, <4>2 DEF HeldBy, At
    <3> QED
      BY <1>2, <3>1, <3>6
  <2> QED
    BY <1>7, <2>1, <2>2 DEF ServeUsername, ServeEmail
<1>8. ASSUME NEW c \in Call, AbortCall(c) PROVE Nothing \/ \E i \in UserId : Ids!Abandon(i)
  BY <1>8, DropAway DEF AbortCall
<1> QED
  BY <1>1, <1>3, <1>4, <1>5, <1>6, <1>7, <1>8, StepReserve, StepAdmit, StepVerify, StepChangeEmail
     DEF Next

\* Who is admitted is the person of the profile, as long as its registration goes
\* on; a profile that a failure left behind is never taken up again.
THEOREM ImplementsIds == Spec => ImplementsIdentity
BY Invariance, InitIdentity, StepIdentity, PTL DEF Spec, ImplementsIdentity, Ids!Spec
=============================================================================
