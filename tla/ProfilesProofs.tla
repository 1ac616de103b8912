---------------------------- MODULE ProfilesProofs ----------------------------
(***************************************************************************)
(* Proofs about Profiles, for any number of users, columns, files and      *)
(* requests at the same time.                                              *)
(***************************************************************************)
EXTENDS Profiles, SequenceTheorems, TLAPS

Content == Value \cup File \cup {None}
Changes == UNION {[F -> Content] : F \in SUBSET Column}
Rows == UNION {[U -> Row] : U \in SUBSET User}
Request == [user : User \cup {None}, changes : Changes, rows : Rows, todo : SUBSET User]

\* The types, with what a request holds spelled out; one that changes a profile
\* has a user, and its row in the session once it was loaded.
Typed ==
    /\ profile \in [User -> Row]
    /\ uploader \in [File -> User \cup {None}]
    /\ pc \in [Worker -> Steps]
    /\ req \in [Worker -> Request]
    /\ versions \in [Worker -> SUBSET (User \X Row)]
    /\ saved \in [User -> Seq(File)]
    /\ \A w \in Worker :
          /\ pc[w] \in {"upload", "select", "commit", "refresh"} => req[w].user \in User
          /\ pc[w] \in {"commit", "refresh"} => DOMAIN req[w].rows = {req[w].user}

\* What the functions of Changes and Rows are.
LEMMA ChangesFacts ==
    /\ \A c \in Changes : /\ DOMAIN c \subseteq Column
                          /\ \A x \in DOMAIN c : c[x] \in Content
                          /\ c = [x \in DOMAIN c |-> c[x]]
    /\ \A F \in SUBSET Column : \A c \in [F -> Content] : c \in Changes
    /\ \A r \in Rows : DOMAIN r \subseteq User /\ \A u \in DOMAIN r : r[u] \in Row
    /\ \A U \in SUBSET User : \A r \in [U -> Row] : r \in Rows
BY DEF Changes, Rows

\* An idle request holds nothing.
LEMMA BlankFacts ==
    /\ Blank \in Request /\ Blank.user = None /\ DOMAIN Blank.changes = {}
    /\ DOMAIN Blank.rows = {} /\ Blank.todo = {}
<1>1. <<>> \in [{} -> Content] /\ <<>> \in [{} -> Row] /\ DOMAIN <<>> = {}
  OBVIOUS
<1>2. <<>> \in Changes /\ <<>> \in Rows
  <2>1. {} \in SUBSET Column /\ {} \in SUBSET User
    OBVIOUS
  <2> QED
    BY <1>1, <2>1, ChangesFacts
<1> QED
  BY <1>1, <1>2 DEF Blank, Request

\* A body sets fields to values or null.
LEMMA BodyFacts ==
    ASSUME NEW b \in Body
    PROVE  b \in Changes /\ DOMAIN b \subseteq Field /\ \A c \in DOMAIN b : b[c] \in Value \cup {None}
<1>1. PICK F \in SUBSET Field : b \in [F -> Value \cup {None}]
  BY DEF Body
<1>2. F \in SUBSET Column /\ b \in [F -> Content]
  BY <1>1 DEF Column, Content
<1> QED
  BY <1>1, <1>2, ChangesFacts

\* What UPDATE writes is a row.
LEMMA WrittenFacts ==
    ASSUME Typed, NEW w \in Worker, pc[w] = "commit"
    PROVE  /\ req[w].user \in User
           /\ Written(w) \in Row
           /\ \A c \in Column : Written(w)[c] = IF c \in Dirty(w) THEN req[w].changes[c]
                                                                 ELSE profile[req[w].user][c]
           /\ Dirty(w) \subseteq DOMAIN req[w].changes /\ DOMAIN req[w].changes \subseteq Column
           /\ Loaded(w) \in Row
<1>1. req[w].user \in User /\ req[w] \in Request
  BY DEF Typed
<1>2. /\ DOMAIN req[w].changes \subseteq Column
      /\ \A c \in DOMAIN req[w].changes : req[w].changes[c] \in Content
  BY <1>1, ChangesFacts DEF Request
<1>3. Dirty(w) \subseteq DOMAIN req[w].changes
  BY DEF Dirty
<1>4. \A c \in Column : profile[req[w].user][c] \in Content
  BY <1>1 DEF Typed, Row, Content
<1>5. \A c \in Column : Written(w)[c] = IF c \in Dirty(w) THEN req[w].changes[c]
                                                         ELSE profile[req[w].user][c]
  BY DEF Written
<1>6. Written(w) \in Row
  <2>1. \A c \in Column : (IF c \in Dirty(w) THEN req[w].changes[c] ELSE profile[req[w].user][c]) \in Content
    BY <1>2, <1>3, <1>4
  <2> QED
    BY <2>1 DEF Written, Row, Content
<1>7. Loaded(w) \in Row
  <2>1. req[w].user \in DOMAIN req[w].rows /\ req[w].rows \in Rows
    BY <1>1 DEF Typed, Request
  <2> QED
    BY <2>1, ChangesFacts DEF Loaded
<1> QED
  BY <1>1, <1>2, <1>3, <1>5, <1>6, <1>7

-----------------------------------------------------------------------------
(* Types. *)

\* The service starts with no requests.
LEMMA InitTyped == Init => Typed
<1> SUFFICES ASSUME Init PROVE Typed
  OBVIOUS
<1>1. req \in [Worker -> Request] /\ pc \in [Worker -> Steps] /\ \A w \in Worker : pc[w] = "idle"
  BY BlankFacts DEF Init, Steps
<1>2. profile \in [User -> Row] /\ saved \in [User -> Seq(File)]
  BY DEF Init, NewProfiles
<1> QED
  BY <1>1, <1>2 DEF Init, Typed

\* A request that goes to its next step, or an answer.
LEMMA GotoTyped ==
    ASSUME Typed, NEW w \in Worker, NEW s \in Steps, NEW r \in Request, Goto(w, s, r),
           s \in {"upload", "select", "commit", "refresh"} => r.user \in User,
           s \in {"commit", "refresh"} => DOMAIN r.rows = {r.user}
    PROVE  /\ pc' \in [Worker -> Steps] /\ req' \in [Worker -> Request]
           /\ pc'[w] = s /\ req'[w] = r
           /\ \A v \in Worker : v # w => pc'[v] = pc[v] /\ req'[v] = req[v]
           /\ \A v \in Worker :
                /\ pc'[v] \in {"upload", "select", "commit", "refresh"} => req'[v].user \in User
                /\ pc'[v] \in {"commit", "refresh"} => DOMAIN req'[v].rows = {req'[v].user}
BY DEF Typed, Goto

\* A request that comes, with the present rows of those it is about.
LEMMA AcceptTyped ==
    ASSUME Typed, NEW w \in Worker, NEW s \in Steps, NEW r \in Request, NEW about \in SUBSET User,
           Accept(w, s, r, about), UNCHANGED <<profile, uploader, saved>>,
           s \in {"upload", "select"} => r.user \in User, s \notin {"commit", "refresh"}
    PROVE  /\ Typed'
           /\ pc'[w] = s /\ req'[w] = r /\ versions'[w] = {<<u, profile[u]>> : u \in about}
           /\ \A v \in Worker : v # w => pc'[v] = pc[v] /\ req'[v] = req[v] /\ versions'[v] = versions[v]
<1> DEFINE new == {<<u, profile[u]>> : u \in about}
<1>1. new \in SUBSET (User \X Row)
  BY DEF Typed
<1>2. versions' = [versions EXCEPT ![w] = new] /\ Goto(w, s, r)
  BY DEF Accept
<1> HIDE DEF new
<1>3. /\ versions' \in [Worker -> SUBSET (User \X Row)] /\ versions'[w] = new
      /\ \A v \in Worker : v # w => versions'[v] = versions[v]
  BY <1>1, <1>2 DEF Typed
<1> QED
  BY <1>2, <1>3, GotoTyped DEF Typed, new

-----------------------------------------------------------------------------
(* What the steps do. *)

\* The other requests are left alone.
OthersSame(w) ==
    \A v \in Worker : v # w => pc'[v] = pc[v] /\ req'[v] = req[v] /\ versions'[v] = versions[v]

\* A request comes: a change of one's own profile, or a page to be shown.
Comes(w, s, r, about) ==
    /\ Typed' /\ OthersSame(w) /\ UNCHANGED <<profile, uploader, saved>>
    /\ pc'[w] = s /\ req'[w] = r /\ versions'[w] = {<<u, profile[u]>> : u \in about}
    /\ \/ /\ s = "select" /\ r.user \in User /\ about = {r.user}
          /\ \A c \in DOMAIN r.changes : c \in Field /\ r.changes[c] \notin File
       \/ /\ s = "upload" /\ r.user \in User /\ about = {r.user} /\ DOMAIN r.changes = {}
       \/ /\ s = "sign" /\ DOMAIN r.changes = {}
          /\ DOMAIN r.rows = about /\ \A u \in about : r.rows[u] = profile[u]
       \/ /\ s = "contacts" /\ DOMAIN r.changes = {} /\ DOMAIN r.rows = {} /\ r.todo = about

\* The requests that come.
LEMMA ComeFacts ==
    ASSUME Typed, NEW w \in Worker,
           \/ UpdateMe(w) \/ UploadAvatar(w) \/ GetContacts(w)
           \/ \E pages \in SUBSET (SUBSET User) : Show(w, pages)
    PROVE  \E s \in Steps, r \in Request, about \in SUBSET User : Comes(w, s, r, about)
<1>1. CASE UpdateMe(w)
  <2> DEFINE r(u, b) == [Blank EXCEPT !.user = u, !.changes = b]
  <2>1. PICK u \in User, b \in Body : Accept(w, "select", r(u, b), {u})
    BY <1>1 DEF UpdateMe
  <2>2. UNCHANGED <<profile, uploader, saved>>
    BY <1>1 DEF UpdateMe
  <2>3. r(u, b) \in Request /\ r(u, b).user = u /\ r(u, b).changes = b
    BY BlankFacts, BodyFacts DEF Request
  <2>4. \A c \in DOMAIN b : c \in Field /\ b[c] \notin File
    BY BodyFacts, ProfilesAssumption
  <2> HIDE DEF r
  <2>5. Comes(w, "select", r(u, b), {u})
    BY <2>1, <2>2, <2>3, <2>4, AcceptTyped DEF Comes, OthersSame, Steps
  <2> QED
    BY <2>3, <2>5 DEF Steps
<1>2. CASE UploadAvatar(w)
  <2> DEFINE r(u) == [Blank EXCEPT !.user = u]
  <2>1. PICK u \in User : Accept(w, "upload", r(u), {u})
    BY <1>2 DEF UploadAvatar
  <2>2. UNCHANGED <<profile, uploader, saved>>
    BY <1>2 DEF UploadAvatar
  <2>3. r(u) \in Request /\ r(u).user = u /\ DOMAIN r(u).changes = {}
    BY BlankFacts DEF Request
  <2> HIDE DEF r
  <2>4. Comes(w, "upload", r(u), {u})
    BY <2>1, <2>2, <2>3, AcceptTyped DEF Comes, OthersSame, Steps
  <2> QED
    BY <2>3, <2>4 DEF Steps
<1>3. CASE GetContacts(w)
  <2> DEFINE r(a) == [Blank EXCEPT !.todo = a]
  <2>1. PICK a \in SUBSET User : Accept(w, "contacts", r(a), a)
    BY <1>3 DEF GetContacts
  <2>2. UNCHANGED <<profile, uploader, saved>>
    BY <1>3 DEF GetContacts
  <2>3. r(a) \in Request /\ DOMAIN r(a).changes = {} /\ DOMAIN r(a).rows = {} /\ r(a).todo = a
    BY BlankFacts DEF Request
  <2> HIDE DEF r
  <2>4. Comes(w, "contacts", r(a), a)
    BY <2>1, <2>2, <2>3, AcceptTyped DEF Comes, OthersSame, Steps
  <2> QED
    BY <2>3, <2>4 DEF Steps
<1>4. CASE \E pages \in SUBSET (SUBSET User) : Show(w, pages)
  <2> DEFINE rows(a) == [u \in a |-> profile[u]]
             r(a) == [Blank EXCEPT !.rows = rows(a)]
  <2>1. PICK a \in SUBSET User : Accept(w, "sign", r(a), a)
    BY <1>4 DEF Show
  <2>2. UNCHANGED <<profile, uploader, saved>>
    BY <1>4 DEF Show
  <2>3. rows(a) \in Rows /\ DOMAIN rows(a) = a /\ \A u \in a : rows(a)[u] = profile[u]
    <3>1. rows(a) \in [a -> Row]
      BY DEF Typed
    <3> QED
      BY <3>1, ChangesFacts
  <2> HIDE DEF rows
  <2>4. r(a) \in Request /\ DOMAIN r(a).changes = {} /\ r(a).rows = rows(a)
    BY <2>3, BlankFacts DEF Request
  <2> HIDE DEF r
  <2>5. Comes(w, "sign", r(a), a)
    BY <2>1, <2>2, <2>3, <2>4, AcceptTyped DEF Comes, OthersSame, Steps
  <2> QED
    BY <2>4, <2>5 DEF Steps
<1> QED
  BY <1>1, <1>2, <1>3, <1>4

\* A request ends; a file may have been stored for nobody to refer to.
LEMMA AnswerFacts ==
    ASSUME Typed, NEW w \in Worker, UploadFails(w) \/ Sign(w) \/ Abort(w)
    PROVE  /\ Typed' /\ OthersSame(w) /\ UNCHANGED <<profile, saved>>
           /\ pc'[w] = "idle" /\ DOMAIN req'[w].changes = {}
           /\ \A f \in File : uploader[f] # None => uploader'[f] = uploader[f]
<1>1. Answer(w) /\ UNCHANGED <<profile, saved>>
  BY DEF UploadFails, Sign, Abort
<1>2. versions' = [versions EXCEPT ![w] = {}] /\ Goto(w, "idle", Blank)
  BY <1>1 DEF Answer
<1>3. /\ versions' \in [Worker -> SUBSET (User \X Row)]
      /\ \A v \in Worker : v # w => versions'[v] = versions[v]
  BY <1>2 DEF Typed
<1>4. /\ uploader' \in [File -> User \cup {None}]
      /\ \A f \in File : uploader[f] # None => uploader'[f] = uploader[f]
  <2>1. CASE UploadFails(w)
    <3>1. req[w].user \in User
      BY <2>1 DEF UploadFails, Typed
    <3> QED
      BY <2>1, <3>1 DEF UploadFails, Typed
  <2>2. CASE Sign(w) \/ Abort(w)
    BY <2>2 DEF Sign, Abort, Typed
  <2> QED
    BY <2>1, <2>2
<1> QED
  BY <1>1, <1>2, <1>3, <1>4, GotoTyped, BlankFacts DEF Typed, OthersSame, Steps

\* The File service stores a file that nobody refers to.
LEMMA UploadFacts ==
    ASSUME Typed, NEW w \in Worker, UploadFile(w)
    PROVE  \E f \in File :
              /\ Typed' /\ OthersSame(w) /\ UNCHANGED <<profile, saved>> /\ versions' = versions
              /\ uploader[f] = None /\ uploader'[f] = req[w].user
              /\ \A g \in File : g # f => uploader'[g] = uploader[g]
              /\ req[w].user \in User
              /\ pc'[w] = "select" /\ req'[w].user = req[w].user
              /\ DOMAIN req'[w].changes = {"avatar_file_id"} /\ req'[w].changes["avatar_file_id"] = f
<1>1. PICK f \in File :
        /\ uploader[f] = None /\ uploader' = [uploader EXCEPT ![f] = req[w].user]
        /\ Goto(w, "select", [req[w] EXCEPT !.changes = [c \in {"avatar_file_id"} |-> f]])
  BY DEF UploadFile
<1>2. UNCHANGED <<profile, versions, saved>> /\ pc[w] = "upload"
  BY DEF UploadFile
<1>3. req[w].user \in User /\ req[w] \in Request
  BY <1>2 DEF Typed
<1> DEFINE c0 == [c \in {"avatar_file_id"} |-> f]
           r == [req[w] EXCEPT !.changes = c0]
<1>4. c0 \in Changes /\ DOMAIN c0 = {"avatar_file_id"} /\ c0["avatar_file_id"] = f
  <2>1. c0 \in [{"avatar_file_id"} -> Content] /\ {"avatar_file_id"} \in SUBSET Column
    BY DEF Content, Column
  <2> QED
    BY <2>1, ChangesFacts
<1> HIDE DEF c0
<1>5. r \in Request /\ r.user = req[w].user /\ r.changes = c0
  BY <1>3, <1>4 DEF Request
<1>6. Goto(w, "select", r)
  BY <1>1 DEF c0
<1> HIDE DEF r
<1>7. /\ uploader' \in [File -> User \cup {None}] /\ uploader'[f] = req[w].user
      /\ \A g \in File : g # f => uploader'[g] = uploader[g]
  BY <1>1, <1>3 DEF Typed
<1>8. Typed' /\ OthersSame(w) /\ pc'[w] = "select" /\ req'[w] = r
  BY <1>2, <1>3, <1>5, <1>6, <1>7, GotoTyped DEF Typed, OthersSame, Steps
<1> QED
  BY <1>1, <1>2, <1>3, <1>4, <1>5, <1>7, <1>8

\* The session loads the row of the request.
LEMMA LoadFacts ==
    ASSUME Typed, NEW w \in Worker, Select(w) \/ Refresh(w)
    PROVE  /\ Typed' /\ OthersSame(w) /\ UNCHANGED <<profile, uploader, saved, versions>>
           /\ req[w].user \in User
           /\ \/ pc[w] = "select" /\ pc'[w] = "commit"
              \/ pc[w] = "refresh" /\ pc'[w] = "sign"
           /\ req'[w].user = req[w].user /\ req'[w].changes = req[w].changes
           /\ DOMAIN req'[w].rows = {req[w].user}
           /\ req'[w].rows[req[w].user] = profile[req[w].user]
<1> DEFINE rows == Load(w)
           r == [req[w] EXCEPT !.rows = rows]
<1>1. req[w] \in Request /\ req[w].user \in User
  BY DEF Typed, Select, Refresh
<1>2. rows \in Rows /\ DOMAIN rows = {req[w].user} /\ rows[req[w].user] = profile[req[w].user]
  <2>1. rows \in [{req[w].user} -> Row] /\ {req[w].user} \in SUBSET User
    BY <1>1 DEF Typed, Load
  <2> QED
    BY <2>1, ChangesFacts DEF Load
<1>3. /\ \/ pc[w] = "select" /\ Goto(w, "commit", r)
         \/ pc[w] = "refresh" /\ Goto(w, "sign", r)
      /\ UNCHANGED <<profile, uploader, saved, versions>>
  BY DEF Select, Refresh
<1> HIDE DEF rows
<1>4. r \in Request /\ r.user = req[w].user /\ r.changes = req[w].changes /\ r.rows = rows
  BY <1>1, <1>2 DEF Request
<1> HIDE DEF r
<1>5. CASE pc[w] = "select" /\ Goto(w, "commit", r)
  BY <1>1, <1>2, <1>3, <1>4, <1>5, GotoTyped DEF Typed, OthersSame, Steps
<1>6. CASE pc[w] = "refresh" /\ Goto(w, "sign", r)
  BY <1>1, <1>2, <1>3, <1>4, <1>6, GotoTyped DEF Typed, OthersSame, Steps
<1> QED
  BY <1>3, <1>5, <1>6

\* UPDATE writes the row, which everybody who waits for it may see.
LEMMA CommitFacts ==
    ASSUME Typed, NEW w \in Worker, Commit(w),
           "avatar_file_id" \in DOMAIN req[w].changes => req[w].changes["avatar_file_id"] \in File
    PROVE  LET u == req[w].user
           IN  /\ Typed' /\ uploader' = uploader /\ u \in User
               /\ pc[w] = "commit" /\ pc'[w] = "refresh" /\ req' = req
               /\ \A v \in Worker : v # w => pc'[v] = pc[v]
               /\ profile'[u] = Written(w) /\ \A t \in User : t # u => profile'[t] = profile[t]
               /\ \A v \in Worker : /\ versions[v] \subseteq versions'[v]
                                    /\ (\E y \in versions[v] : y[1] = u) => <<u, Written(w)>> \in versions'[v]
               /\ \A t \in User : t # u => saved'[t] = saved[t]
               /\ saved'[u] = IF "avatar_file_id" \in Dirty(w)
                              THEN Append(saved[u], req[w].changes["avatar_file_id"]) ELSE saved[u]
<1> DEFINE u == req[w].user
           row == Written(w)
<1>1. /\ pc[w] = "commit" /\ profile' = [profile EXCEPT ![u] = row] /\ uploader' = uploader
      /\ versions' = [v \in Worker |-> versions[v] \cup {<<u, row>> : x \in {y \in versions[v] : y[1] = u}}]
      /\ saved' = IF "avatar_file_id" \in Dirty(w)
                  THEN [saved EXCEPT ![u] = Append(@, req[w].changes["avatar_file_id"])] ELSE saved
      /\ Goto(w, "refresh", req[w])
  BY DEF Commit
<1>2. u \in User /\ row \in Row /\ req[w] \in Request
  BY <1>1, WrittenFacts DEF Typed
<1>3. DOMAIN req[w].rows = {u}
  BY <1>1 DEF Typed
<1>4. /\ saved' \in [User -> Seq(File)]
      /\ \A t \in User : t # u => saved'[t] = saved[t]
      /\ saved'[u] = IF "avatar_file_id" \in Dirty(w)
                     THEN Append(saved[u], req[w].changes["avatar_file_id"]) ELSE saved[u]
  <2>1. CASE "avatar_file_id" \in Dirty(w)
    <3>1. req[w].changes["avatar_file_id"] \in File
      BY <2>1 DEF Dirty
    <3>2. Append(saved[u], req[w].changes["avatar_file_id"]) \in Seq(File)
      BY <1>2, <3>1, AppendProperties DEF Typed
    <3> HIDE DEF u
    <3> QED
      BY <1>1, <1>2, <2>1, <3>2 DEF Typed
  <2>2. CASE "avatar_file_id" \notin Dirty(w)
    BY <1>1, <2>2 DEF Typed
  <2> QED
    BY <2>1, <2>2
<1>5. /\ profile' \in [User -> Row] /\ profile'[u] = row
      /\ \A t \in User : t # u => profile'[t] = profile[t]
  BY <1>1, <1>2 DEF Typed
<1>6. /\ pc' \in [Worker -> Steps] /\ req' = req /\ pc'[w] = "refresh"
      /\ \A v \in Worker : v # w => pc'[v] = pc[v]
  BY <1>1 DEF Typed, Goto, Steps
<1> HIDE DEF u, row
<1>7. ASSUME NEW v \in Worker
      PROVE  /\ versions'[v] \subseteq User \X Row /\ versions[v] \subseteq versions'[v]
             /\ (\E y \in versions[v] : y[1] = u) => <<u, row>> \in versions'[v]
  <2>1. versions[v] \subseteq User \X Row
    BY DEF Typed
  <2> QED
    BY <1>1, <1>2, <2>1
<1>8. versions' \in [Worker -> SUBSET (User \X Row)]
  BY <1>1, <1>7
<1>9. Typed'
  BY <1>1, <1>2, <1>3, <1>4, <1>5, <1>6, <1>8 DEF Typed, u
<1> QED
  BY <1>1, <1>2, <1>4, <1>5, <1>6, <1>7, <1>9 DEF u, row

\* A contact is looked up, or there is none left.
LEMMA ContactFacts ==
    ASSUME Typed, NEW w \in Worker, LookUpContact(w)
    PROVE  /\ Typed' /\ OthersSame(w) /\ UNCHANGED <<profile, uploader, saved, versions>>
           /\ pc[w] = "contacts" /\ req'[w].changes = req[w].changes
           /\ \/ /\ pc'[w] = "sign" /\ req'[w].rows = req[w].rows
              \/ /\ pc'[w] = "contacts" /\ req'[w].todo \subseteq req[w].todo
                 /\ \E u \in req[w].todo :
                       /\ DOMAIN req'[w].rows = DOMAIN req[w].rows \cup {u}
                       /\ \A x \in DOMAIN req'[w].rows :
                             req'[w].rows[x] = IF x = u THEN profile[u] ELSE req[w].rows[x]
<1>1. pc[w] = "contacts" /\ req[w] \in Request /\ UNCHANGED <<profile, uploader, versions, saved>>
  BY DEF LookUpContact, Typed
<1>2. CASE Goto(w, "sign", req[w])
  BY <1>1, <1>2, GotoTyped DEF Typed, OthersSame, Steps
<1>3. ASSUME NEW u \in req[w].todo,
             Goto(w, "contacts", [req[w] EXCEPT !.todo = @ \ {u},
                     !.rows = [x \in DOMAIN req[w].rows \cup {u} |->
                                  IF x = u THEN profile[u] ELSE req[w].rows[x]]])
      PROVE  /\ Typed' /\ OthersSame(w) /\ pc'[w] = "contacts"
             /\ req'[w].changes = req[w].changes /\ req'[w].todo \subseteq req[w].todo
             /\ DOMAIN req'[w].rows = DOMAIN req[w].rows \cup {u}
             /\ \A x \in DOMAIN req'[w].rows :
                   req'[w].rows[x] = IF x = u THEN profile[u] ELSE req[w].rows[x]
  <2> DEFINE rows == [x \in DOMAIN req[w].rows \cup {u} |-> IF x = u THEN profile[u] ELSE req[w].rows[x]]
             todo == req[w].todo \ {u}
             r == [req[w] EXCEPT !.todo = todo, !.rows = rows]
  <2>1. u \in User /\ req[w].rows \in Rows /\ todo \subseteq User
    BY <1>1 DEF Request
  <2>2. /\ rows \in Rows /\ DOMAIN rows = DOMAIN req[w].rows \cup {u}
        /\ \A x \in DOMAIN rows : rows[x] = IF x = u THEN profile[u] ELSE req[w].rows[x]
    <3>1. rows \in [DOMAIN req[w].rows \cup {u} -> Row]
      BY <2>1, ChangesFacts DEF Typed
    <3>2. DOMAIN req[w].rows \cup {u} \in SUBSET User
      BY <2>1, ChangesFacts
    <3> QED
      BY <3>1, <3>2, ChangesFacts
  <2>3. Goto(w, "contacts", r)
    BY <1>3
  <2> HIDE DEF rows
  <2>4. r \in Request /\ r.changes = req[w].changes /\ r.rows = rows /\ r.todo \subseteq req[w].todo
    BY <1>1, <2>1, <2>2 DEF Request
  <2> HIDE DEF r
  <2> QED
    BY <1>1, <2>2, <2>3, <2>4, GotoTyped DEF Typed, OthersSame, Steps
<1> QED
  BY <1>1, <1>2, <1>3 DEF LookUpContact

\* A step is one of these.
LEMMA StepCases ==
    ASSUME [Next]_vars
    PROVE  \/ UNCHANGED vars
           \/ \E w \in Worker :
                 \/ UpdateMe(w) \/ UploadAvatar(w) \/ GetContacts(w)
                    \/ \E pages \in SUBSET (SUBSET User) : Show(w, pages)
                 \/ UploadFails(w) \/ Sign(w) \/ Abort(w)
                 \/ UploadFile(w)
                 \/ Select(w) \/ Refresh(w)
                 \/ Commit(w)
                 \/ LookUpContact(w)
<1>1. One \in SUBSET (SUBSET User) /\ One \cup {{}} \in SUBSET (SUBSET User)
      /\ SUBSET User \in SUBSET (SUBSET User)
  BY DEF One
<1> QED
  BY <1>1 DEF Next, ReadUsersMe, ReadUserProfile, SearchUsers

-----------------------------------------------------------------------------
(* The files. *)

Avatar == "avatar_file_id"
Sets(w) == Avatar \in DOMAIN req[w].changes
TheFile(w) == req[w].changes[Avatar]
WasSaved(f) == \E u \in User : f \in ToSet(saved[u])

\* The file of a request that has not committed: its user's, and nobody else's.
Waiting(w) == pc[w] \in {"select", "commit"} /\ Sets(w)

FileOf(w) ==
    /\ Waiting(w) => /\ TheFile(w) \in File /\ uploader[TheFile(w)] = req[w].user
                     /\ ~WasSaved(TheFile(w))
                     /\ \A v \in Worker : v # w /\ Waiting(v) => TheFile(v) # TheFile(w)
    /\ pc[w] = "commit" => Loaded(w)[Avatar] = None \/ WasSaved(Loaded(w)[Avatar])
    /\ pc[w] \in {"refresh", "sign"} /\ Sets(w) =>
          req[w].user \in User /\ TheFile(w) \in ToSet(saved[req[w].user])
    /\ pc[w] \in {"idle", "upload", "contacts"} => DOMAIN req[w].changes = {}
    /\ \A c \in DOMAIN req[w].changes : c # Avatar => req[w].changes[c] \notin File

AvatarOf(u) ==
    /\ profile[u][Avatar] = IF saved[u] = <<>> THEN None ELSE Last(saved[u])
    /\ \A f \in ToSet(saved[u]) : uploader[f] = u

FileInv == (\A u \in User : AvatarOf(u)) /\ (\A w \in Worker : FileOf(w))

\* A file becomes the last of those that were saved.
LEMMA SaveFacts ==
    ASSUME Typed, NEW u \in User, NEW f \in File, saved'[u] = Append(saved[u], f)
    PROVE  saved'[u] # <<>> /\ Last(saved'[u]) = f /\ ToSet(saved'[u]) = ToSet(saved[u]) \cup {f}
<1> DEFINE l == saved[u]
<1>1. l \in Seq(File)
  BY DEF Typed
<1>2. /\ Len(Append(l, f)) = Len(l) + 1 /\ Append(l, f)[Len(l) + 1] = f
      /\ Append(l, f) \in Seq(File) /\ Len(l) \in Nat
      /\ \A k \in 1..Len(l) : Append(l, f)[k] = l[k]
  BY <1>1, AppendProperties
<1>3. DOMAIN l = 1..Len(l) /\ DOMAIN Append(l, f) = 1..Len(l)+1
  BY <1>1, <1>2
<1> HIDE DEF l
<1>4. ToSet(Append(l, f)) = ToSet(l) \cup {f}
  <2>1. \A k \in 1..Len(l)+1 : k \in 1..Len(l) \/ k = Len(l) + 1
    BY <1>2
  <2>2. 1..Len(l) \subseteq 1..Len(l)+1 /\ Len(l) + 1 \in 1..Len(l)+1
    BY <1>2
  <2>3. ToSet(Append(l, f)) \subseteq ToSet(l) \cup {f}
    BY <1>2, <1>3, <2>1 DEF ToSet
  <2>4. ToSet(l) \cup {f} \subseteq ToSet(Append(l, f))
    BY <1>2, <1>3, <2>2 DEF ToSet
  <2> QED
    BY <2>3, <2>4
<1>5. Append(l, f) # <<>> /\ Last(Append(l, f)) = f
  BY <1>2, <1>3 DEF Last
<1> QED
  BY <1>4, <1>5 DEF l

\* Nothing is stored or saved when the service starts.
LEMMA InitFile == Init => FileInv
<1> SUFFICES ASSUME Init PROVE FileInv
  OBVIOUS
<1>1. \A u \in User : saved[u] = <<>> /\ profile[u][Avatar] = None /\ ToSet(saved[u]) = {}
  BY DEF Init, NewProfiles, Avatar, ToSet
<1>2. \A w \in Worker : pc[w] = "idle" /\ DOMAIN req[w].changes = {}
  BY BlankFacts DEF Init
<1> QED
  BY <1>1, <1>2 DEF FileInv, AvatarOf, FileOf, Waiting, Sets

\* A request that keeps its step and what it holds keeps its part, when files are
\* only added, nothing is saved and nobody else's file is its own.
LEMMA SameFile ==
    ASSUME Typed, FileInv, NEW w \in Worker, pc'[w] = pc[w], req'[w] = req[w], saved' = saved,
           \A f \in File : uploader[f] # None => uploader'[f] = uploader[f],
           \A v \in Worker : v # w /\ Waiting(w) /\ Waiting(v)' => TheFile(v)' # TheFile(w)
    PROVE  FileOf(w)'
<1>1. FileOf(w) /\ (Waiting(w)' <=> Waiting(w)) /\ TheFile(w)' = TheFile(w)
  BY DEF FileInv, Waiting, Sets, TheFile
<1>2. Waiting(w) => req[w].user # None
  BY ProfilesAssumption DEF Waiting, Typed
<1>3. Waiting(w)' => /\ TheFile(w)' \in File /\ uploader'[TheFile(w)'] = req'[w].user
                     /\ ~WasSaved(TheFile(w))'
                     /\ \A v \in Worker : v # w /\ Waiting(v)' => TheFile(v)' # TheFile(w)'
  BY <1>1, <1>2 DEF FileOf, WasSaved
<1> QED
  BY <1>1, <1>3 DEF FileOf, Loaded, WasSaved, Sets, TheFile

\* The users' avatars stay when nothing is saved.
LEMMA SameAvatar ==
    ASSUME FileInv, Typed, NEW u \in User, profile'[u] = profile[u], saved'[u] = saved[u],
           \A f \in File : uploader[f] # None => uploader'[f] = uploader[f]
    PROVE  AvatarOf(u)'
<1>1. ToSet(saved[u]) \subseteq File
  BY DEF Typed, ToSet
<1>2. u # None
  BY ProfilesAssumption
<1> QED
  BY <1>1, <1>2 DEF FileInv, AvatarOf

\* What is said of the request of w alone, after a step of w, is enough when
\* nothing is saved and the file of w stays its own.
LEMMA OwnStep ==
    ASSUME Typed, Typed', FileInv, NEW w \in Worker, OthersSame(w), saved' = saved, profile' = profile,
           \A f \in File : uploader[f] # None => uploader'[f] = uploader[f],
           FileOf(w)',
           \A v \in Worker : v # w /\ Waiting(v) /\ Waiting(w)' => TheFile(w)' # TheFile(v)
    PROVE  FileInv'
<1>1. ASSUME NEW v \in Worker PROVE FileOf(v)'
  <2>1. CASE v # w
    <3>1. pc'[v] = pc[v] /\ req'[v] = req[v]
      BY <2>1 DEF OthersSame
    <3>2. ASSUME NEW x \in Worker, x # v, Waiting(v), Waiting(x)' PROVE TheFile(x)' # TheFile(v)
      <4>1. CASE x = w
        BY <2>1, <3>2, <4>1
      <4>2. CASE x # w
        <5>1. Waiting(x) /\ TheFile(x)' = TheFile(x)
          BY <3>2, <4>2 DEF OthersSame, Waiting, Sets, TheFile
        <5> QED
          BY <3>2, <5>1 DEF FileInv, FileOf
      <4> QED
        BY <4>1, <4>2
    <3> QED
      BY <3>1, <3>2, SameFile
  <2> QED
    BY <2>1
<1>2. \A u \in User : AvatarOf(u)'
  BY SameAvatar
<1> QED
  BY <1>1, <1>2 DEF FileInv

\* Every step keeps the files right.
LEMMA FileStep == Typed /\ FileInv /\ [Next]_vars => Typed' /\ FileInv'
<1> SUFFICES ASSUME Typed, FileInv, [Next]_vars PROVE Typed' /\ FileInv'
  OBVIOUS
<1>1. CASE UNCHANGED vars
  BY <1>1 DEF vars, Typed, FileInv, FileOf, AvatarOf, Waiting, Sets, TheFile, WasSaved, Loaded
<1>2. ASSUME NEW w \in Worker,
             \/ UpdateMe(w) \/ UploadAvatar(w) \/ GetContacts(w)
             \/ \E pages \in SUBSET (SUBSET User) : Show(w, pages)
      PROVE  Typed' /\ FileInv'
  <2>1. PICK s \in Steps, r \in Request, about \in SUBSET User : Comes(w, s, r, about)
    BY <1>2, ComeFacts
  <2>2. FileOf(w)' /\ ~Waiting(w)'
    <3>1. Avatar \notin Field
      BY ProfilesAssumption DEF Avatar
    <3> QED
      BY <2>1, <3>1 DEF Comes, FileOf, Waiting, Sets
  <2> QED
    BY <2>1, <2>2, OwnStep DEF Comes
<1>3. ASSUME NEW w \in Worker, UploadFails(w) \/ Sign(w) \/ Abort(w) PROVE Typed' /\ FileInv'
  <2>1. /\ Typed' /\ OthersSame(w) /\ UNCHANGED <<profile, saved>>
        /\ pc'[w] = "idle" /\ DOMAIN req'[w].changes = {}
        /\ \A f \in File : uploader[f] # None => uploader'[f] = uploader[f]
    BY <1>3, AnswerFacts
  <2>2. FileOf(w)' /\ ~Waiting(w)'
    BY <2>1 DEF FileOf, Waiting, Sets
  <2> QED
    BY <2>1, <2>2, OwnStep
<1>4. ASSUME NEW w \in Worker, UploadFile(w) PROVE Typed' /\ FileInv'
  <2>1. PICK f \in File :
          /\ Typed' /\ OthersSame(w) /\ UNCHANGED <<profile, saved>>
          /\ uploader[f] = None /\ uploader'[f] = req[w].user
          /\ \A g \in File : g # f => uploader'[g] = uploader[g]
          /\ pc'[w] = "select" /\ req'[w].user = req[w].user
          /\ DOMAIN req'[w].changes = {Avatar} /\ req'[w].changes[Avatar] = f
    BY <1>4, UploadFacts DEF Avatar
  <2>2. ~WasSaved(f)
    BY <2>1, ProfilesAssumption DEF WasSaved, FileInv, AvatarOf
  <2>3. ASSUME NEW v \in Worker, Waiting(v) PROVE TheFile(v) # f
    BY <2>1, <2>3, ProfilesAssumption DEF FileInv, FileOf, Typed, Waiting
  <2>4. TheFile(w)' = f
    BY <2>1 DEF TheFile
  <2>5. FileOf(w)'
    <3>1. ~WasSaved(f)'
      BY <2>1, <2>2 DEF WasSaved
    <3>2. \A v \in Worker : v # w /\ Waiting(v)' => TheFile(v)' # f
      BY <2>1, <2>3 DEF OthersSame, Waiting, Sets, TheFile
    <3>3. TheFile(w)' \in File /\ uploader'[TheFile(w)'] = req'[w].user /\ ~WasSaved(TheFile(w))'
      BY <2>1, <2>4, <3>1 DEF WasSaved
    <3> QED
      BY <2>1, <2>4, <3>2, <3>3 DEF FileOf
  <2> QED
    BY <2>1, <2>3, <2>4, <2>5, OwnStep
<1>5. ASSUME NEW w \in Worker, Select(w) \/ Refresh(w) PROVE Typed' /\ FileInv'
  <2>1. /\ Typed' /\ OthersSame(w) /\ UNCHANGED <<profile, uploader, saved>>
        /\ req[w].user \in User
        /\ \/ pc[w] = "select" /\ pc'[w] = "commit"
           \/ pc[w] = "refresh" /\ pc'[w] = "sign"
        /\ req'[w].user = req[w].user /\ req'[w].changes = req[w].changes
        /\ req'[w].rows[req[w].user] = profile[req[w].user]
    BY <1>5, LoadFacts
  <2>2. (Waiting(w)' => Waiting(w)) /\ TheFile(w)' = TheFile(w) /\ (Sets(w)' <=> Sets(w))
    BY <2>1 DEF Waiting, Sets, TheFile
  <2>3. Loaded(w)'[Avatar] = None \/ WasSaved(Loaded(w)'[Avatar])
    <3> DEFINE u == req[w].user
    <3>1. AvatarOf(u) /\ Loaded(w)' = profile[u] /\ saved[u] \in Seq(File)
      BY <2>1 DEF FileInv, Loaded, Typed
    <3>2. CASE saved[u] = <<>>
      BY <3>1, <3>2 DEF AvatarOf
    <3>3. CASE saved[u] # <<>>
      <4>1. Last(saved[u]) \in ToSet(saved[u])
        BY <3>1, <3>3 DEF Last, ToSet
      <4> QED
        BY <2>1, <3>1, <3>3, <4>1 DEF AvatarOf, WasSaved
    <3> QED
      BY <3>2, <3>3
  <2>4. FileOf(w)'
    <3>1. FileOf(w)
      BY DEF FileInv
    <3>2. Waiting(w)' => /\ TheFile(w)' \in File /\ uploader'[TheFile(w)'] = req'[w].user
                         /\ ~WasSaved(TheFile(w))'
                         /\ \A v \in Worker : v # w /\ Waiting(v)' => TheFile(v)' # TheFile(w)'
      <4>1. \A v \in Worker : v # w /\ Waiting(v)' => Waiting(v) /\ TheFile(v)' = TheFile(v)
        BY <2>1 DEF OthersSame, Waiting, Sets, TheFile
      <4> QED
        BY <2>1, <2>2, <3>1, <4>1 DEF FileOf, WasSaved
    <3>3. pc'[w] = "commit" => Loaded(w)'[Avatar] = None \/ WasSaved(Loaded(w)[Avatar])'
      BY <2>1, <2>3 DEF WasSaved
    <3> QED
      BY <2>1, <2>2, <3>1, <3>2, <3>3 DEF FileOf
  <2>5. \A v \in Worker : v # w /\ Waiting(v) /\ Waiting(w)' => TheFile(w)' # TheFile(v)
    BY <2>2 DEF FileInv, FileOf
  <2> QED
    BY <2>1, <2>4, <2>5, OwnStep
<1>6. ASSUME NEW w \in Worker, LookUpContact(w) PROVE Typed' /\ FileInv'
  <2>1. /\ Typed' /\ OthersSame(w) /\ UNCHANGED <<profile, uploader, saved>>
        /\ pc[w] = "contacts" /\ req'[w].changes = req[w].changes /\ pc'[w] \in {"sign", "contacts"}
    BY <1>6, ContactFacts
  <2>2. FileOf(w)' /\ ~Waiting(w)'
    BY <2>1 DEF FileInv, FileOf, Waiting, Sets
  <2> QED
    BY <2>1, <2>2, OwnStep
<1>7. ASSUME NEW w \in Worker, Commit(w) PROVE Typed' /\ FileInv'
  <2> DEFINE f == TheFile(w)
  <2>0. PICK u \in User : u = req[w].user
    BY <1>7 DEF Commit, Typed
  <2>1. pc[w] = "commit" /\ FileOf(w) /\ (Sets(w) => Waiting(w) /\ f \in File)
    BY <1>7 DEF Commit, FileInv, FileOf, Waiting
  <2>2. /\ Typed' /\ uploader' = uploader
        /\ pc'[w] = "refresh" /\ req' = req
        /\ \A v \in Worker : v # w => pc'[v] = pc[v]
        /\ profile'[u] = Written(w) /\ \A t \in User : t # u => profile'[t] = profile[t]
        /\ \A t \in User : t # u => saved'[t] = saved[t]
        /\ saved'[u] = IF Avatar \in Dirty(w) THEN Append(saved[u], f) ELSE saved[u]
    BY <1>7, <2>0, <2>1, CommitFacts DEF Sets, TheFile, Avatar
  <2>3. Avatar \in Dirty(w) <=> Sets(w)
    <3>1. Sets(w) => f # Loaded(w)[Avatar]
      BY <2>1, ProfilesAssumption DEF FileOf
    <3> QED
      BY <3>1 DEF Dirty, Sets, TheFile
  <2>4. Avatar \in Column /\ Written(w)[Avatar] = IF Sets(w) THEN f ELSE profile[u][Avatar]
    BY <2>0, <2>1, <2>3, WrittenFacts DEF TheFile, Column, Avatar
  <2> HIDE DEF f
  <2>5. ASSUME NEW t \in User
        PROVE  ToSet(saved[t]) \subseteq ToSet(saved'[t]) /\ ToSet(saved'[t]) \subseteq ToSet(saved[t]) \cup {f}
    <3>1. CASE t = u /\ Sets(w)
      <4>1. f \in File /\ saved'[u] = Append(saved[u], f)
        BY <2>1, <2>2, <2>3, <3>1
      <4>2. ToSet(saved'[u]) = ToSet(saved[u]) \cup {f}
        BY <4>1, SaveFacts
      <4> QED
        BY <3>1, <4>2
    <3>2. CASE t # u \/ ~Sets(w)
      <4>1. saved'[t] = saved[t]
        BY <2>2, <2>3, <3>2
      <4> QED
        BY <4>1
    <3> QED
      BY <3>1, <3>2
  <2>6. ASSUME NEW t \in User PROVE AvatarOf(t)'
    <3>1. CASE t = u /\ Sets(w)
      <4>1. saved'[u] # <<>> /\ Last(saved'[u]) = f /\ ToSet(saved'[u]) = ToSet(saved[u]) \cup {f}
        BY <2>1, <2>2, <2>3, <3>1, SaveFacts
      <4>2. uploader[f] = u /\ AvatarOf(u)
        BY <2>0, <2>1, <3>1 DEF FileOf, f, FileInv
      <4> QED
        BY <2>2, <2>4, <3>1, <4>1, <4>2 DEF AvatarOf
    <3>2. CASE t # u \/ ~Sets(w)
      <4>1. saved'[t] = saved[t] /\ profile'[t][Avatar] = profile[t][Avatar]
        BY <2>2, <2>3, <2>4, <3>2
      <4> QED
        BY <2>2, <4>1 DEF FileInv, AvatarOf
    <3> QED
      BY <3>1, <3>2
  <2>7. \A g : (WasSaved(g) => WasSaved(g)') /\ (WasSaved(g)' => WasSaved(g) \/ (Sets(w) /\ g = f))
    BY <2>2, <2>3, <2>5 DEF WasSaved
  <2>8. ASSUME NEW v \in Worker PROVE FileOf(v)'
    <3>1. /\ req'[v] = req[v] /\ FileOf(v) /\ TheFile(v)' = TheFile(v) /\ (Sets(v)' <=> Sets(v))
          /\ Loaded(v)' = Loaded(v)
      BY <2>2 DEF FileInv, TheFile, Sets, Loaded
    <3>2. \A x \in Worker : Waiting(x)' => x # w /\ Waiting(x) /\ TheFile(x)' = TheFile(x)
      BY <2>2 DEF Waiting, Sets, TheFile
    <3>3. CASE v = w
      <4>1. Sets(w) => f \in ToSet(saved'[u])
        BY <2>1, <2>2, <2>3, SaveFacts
      <4> QED
        BY <2>0, <2>2, <3>1, <3>2, <3>3, <4>1 DEF FileOf, f
    <3>4. CASE v # w
      <4>1. Waiting(v) /\ Sets(w) => TheFile(v) # f
        BY <2>1, <3>4 DEF FileOf, f
      <4>2. Waiting(v)' => /\ TheFile(v)' \in File /\ uploader'[TheFile(v)'] = req'[v].user
                           /\ ~WasSaved(TheFile(v))'
                           /\ \A x \in Worker : x # v /\ Waiting(x)' => TheFile(x)' # TheFile(v)'
        <5>1. ASSUME Waiting(v)' PROVE ~WasSaved(TheFile(v))'
          <6>1. Waiting(v) /\ ~WasSaved(TheFile(v))
            BY <3>1, <3>2, <5>1 DEF FileOf
          <6>2. PICK g : g = TheFile(v)
            OBVIOUS
          <6>3. ~WasSaved(g)'
            BY <2>7, <4>1, <6>1, <6>2
          <6> QED
            BY <3>1, <6>2, <6>3 DEF WasSaved
        <5> QED
          BY <2>2, <3>1, <3>2, <5>1 DEF FileOf
      <4>3. pc'[v] = pc[v]
        BY <2>2, <3>4
      <4>4. pc'[v] = "commit" => Loaded(v)'[Avatar] = None \/ WasSaved(Loaded(v)[Avatar])'
        BY <2>5, <3>1, <4>3 DEF FileOf, WasSaved
      <4>5. pc'[v] \in {"refresh", "sign"} /\ Sets(v)' =>
               req'[v].user \in User /\ TheFile(v)' \in ToSet(saved'[req'[v].user])
        BY <2>5, <3>1, <4>3 DEF FileOf
      <4> QED
        BY <3>1, <4>2, <4>3, <4>4, <4>5 DEF FileOf
    <3> QED
      BY <3>3, <3>4
  <2> QED
    BY <2>2, <2>6, <2>8 DEF FileInv
<1> QED
  BY <1>1, <1>2, <1>3, <1>4, <1>5, <1>6, <1>7, StepCases

-----------------------------------------------------------------------------
(* What the tables have been. *)

Seen(w, u, row) == <<u, row>> \in versions[w]

\* Whoever has not loaded the rows of the request yet will find them among what
\* they have been, and what was committed has been there.
VersionOf(w) ==
    /\ pc[w] \in {"upload", "select", "commit", "refresh"} => Seen(w, req[w].user, profile[req[w].user])
    /\ pc[w] = "contacts" => \A u \in req[w].todo : Seen(w, u, profile[u])
    /\ pc[w] \in {"contacts", "sign"} => \A u \in DOMAIN req[w].rows : Seen(w, u, req[w].rows[u])
    /\ pc[w] = "commit" => Seen(w, req[w].user, Loaded(w))
    /\ pc[w] \in {"refresh", "sign"} =>
          \A c \in DOMAIN req[w].changes :
              \E v \in versions[w] : v[1] = req[w].user /\ v[2][c] = req[w].changes[c]

VersionInv == \A w \in Worker : VersionOf(w)

\* A request that keeps what it holds keeps its part while the profiles stay.
LEMMA SameVersion ==
    ASSUME VersionInv, NEW w \in Worker, pc'[w] = pc[w], req'[w] = req[w],
           versions'[w] = versions[w], profile' = profile
    PROVE  VersionOf(w)'
BY DEF VersionInv, VersionOf, Seen, Loaded

\* And so it is enough to look at the request that takes the step.
LEMMA OthersVersion ==
    ASSUME VersionInv, NEW w \in Worker, profile' = profile, OthersSame(w), VersionOf(w)'
    PROVE  VersionInv'
<1>1. ASSUME NEW v \in Worker, v # w PROVE VersionOf(v)'
  BY <1>1, SameVersion DEF OthersSame
<1> QED
  BY <1>1 DEF VersionInv

\* No request holds anything when the service starts.
LEMMA InitVersion == Init => VersionInv
BY BlankFacts DEF Init, VersionInv, VersionOf

\* After UPDATE the new row has been in the table, and so has the one before.
LEMMA CommitVersion ==
    ASSUME Typed, FileInv, VersionInv, NEW w \in Worker, Commit(w)
    PROVE  VersionInv'
<1>0. PICK u \in User : u = req[w].user
  BY DEF Commit, Typed
<1> DEFINE row == Written(w)
<1>1. Avatar \in DOMAIN req[w].changes => req[w].changes[Avatar] \in File
  BY DEF Commit, FileInv, FileOf, Waiting, Sets, TheFile
<1>2. /\ pc[w] = "commit" /\ pc'[w] = "refresh" /\ req' = req
      /\ \A v \in Worker : v # w => pc'[v] = pc[v]
      /\ profile'[u] = row /\ \A t \in User : t # u => profile'[t] = profile[t]
      /\ \A v \in Worker : /\ versions[v] \subseteq versions'[v]
                           /\ (\E y \in versions[v] : y[1] = u) => <<u, row>> \in versions'[v]
  BY <1>0, <1>1, CommitFacts DEF Avatar
<1>3. /\ \A c \in Column : row[c] = IF c \in Dirty(w) THEN req[w].changes[c] ELSE profile[u][c]
      /\ DOMAIN req[w].changes \subseteq Column
  BY <1>0, <1>2, WrittenFacts
<1> HIDE DEF row
<1>4. ASSUME NEW v \in Worker, NEW t \in User, Seen(v, t, profile[t])
      PROVE  Seen(v, t, profile[t])'
  <2>1. CASE t # u
    BY <1>2, <1>4, <2>1 DEF Seen
  <2>2. CASE t = u
    <3>1. <<u, profile[u]>> \in versions[v] /\ <<u, profile[u]>>[1] = u
      BY <1>4, <2>2 DEF Seen
    <3>2. <<u, row>> \in versions'[v]
      BY <1>2, <3>1
    <3> QED
      BY <1>2, <2>2, <3>2 DEF Seen
  <2> QED
    BY <2>1, <2>2
<1>5. \A v \in Worker : \A t, r : Seen(v, t, r) => <<t, r>> \in versions'[v]
  BY <1>2 DEF Seen
<1>6. ASSUME NEW v \in Worker, v # w PROVE VersionOf(v)'
  <2>1. pc'[v] = pc[v] /\ req'[v] = req[v] /\ versions[v] \subseteq versions'[v] /\ VersionOf(v)
    BY <1>2, <1>6 DEF VersionInv
  <2>2. /\ pc[v] \in {"upload", "select", "commit", "refresh"} => req[v].user \in User
        /\ req[v].todo \subseteq User
    BY DEF Typed, Request
  <2>3. pc'[v] \in {"upload", "select", "commit", "refresh"}
          => Seen(v, req[v].user, profile[req[v].user])'
    <3>1. SUFFICES ASSUME pc'[v] \in {"upload", "select", "commit", "refresh"}
                   PROVE  Seen(v, req[v].user, profile[req[v].user])'
      OBVIOUS
    <3>2. PICK t \in User : t = req[v].user
      BY <2>1, <2>2, <3>1
    <3>3. Seen(v, t, profile[t])'
      BY <1>4, <2>1, <3>1, <3>2 DEF VersionOf
    <3> QED
      BY <2>1, <3>2, <3>3 DEF Seen
  <2>4. pc'[v] = "contacts" => \A t \in req'[v].todo : Seen(v, t, profile[t])'
    BY <1>4, <2>1, <2>2 DEF VersionOf
  <2>5. pc'[v] \in {"contacts", "sign"} => \A t \in DOMAIN req'[v].rows : Seen(v, t, req[v].rows[t])'
    BY <1>5, <2>1 DEF VersionOf, Seen
  <2>6. pc'[v] = "commit" => Seen(v, req[v].user, Loaded(v))'
    BY <1>5, <2>1 DEF VersionOf, Seen, Loaded
  <2>7. pc'[v] \in {"refresh", "sign"} =>
          \A c \in DOMAIN req'[v].changes :
              \E x \in versions'[v] : x[1] = req'[v].user /\ x[2][c] = req'[v].changes[c]
    BY <2>1 DEF VersionOf
  <2> QED
    BY <2>3, <2>4, <2>5, <2>6, <2>7 DEF VersionOf, Seen
<1>7. VersionOf(w)'
  <2>1. VersionOf(w) /\ pc[w] = "commit" /\ pc'[w] = "refresh" /\ req'[w] = req[w]
    BY <1>2 DEF VersionInv
  <2>2. Seen(w, u, profile[u])'
    BY <1>0, <1>4, <2>1 DEF VersionOf
  <2>3. <<u, row>> \in versions'[w] /\ <<u, Loaded(w)>> \in versions'[w]
    BY <1>0, <1>2, <1>5, <2>1, <2>2 DEF VersionOf, Seen
  <2>4. ASSUME NEW c \in DOMAIN req[w].changes
        PROVE  \E x \in versions'[w] : x[1] = u /\ x[2][c] = req[w].changes[c]
    <3>1. CASE c \in Dirty(w)
      <4>1. row[c] = req[w].changes[c]
        BY <1>3, <3>1
      <4> QED
        BY <2>3, <4>1
    <3>2. CASE c \notin Dirty(w)
      <4>1. Loaded(w)[c] = req[w].changes[c]
        BY <3>2 DEF Dirty
      <4> QED
        BY <2>3, <4>1
    <3> QED
      BY <3>1, <3>2
  <2> QED
    BY <1>0, <2>1, <2>2, <2>4 DEF VersionOf, Seen
<1> QED
  BY <1>6, <1>7 DEF VersionInv

\* Every step keeps the versions right.
LEMMA VersionStep == Typed /\ FileInv /\ VersionInv /\ [Next]_vars => VersionInv'
<1> SUFFICES ASSUME Typed, FileInv, VersionInv, [Next]_vars PROVE VersionInv'
  OBVIOUS
<1>1. CASE UNCHANGED vars
  BY <1>1 DEF vars, VersionInv, VersionOf, Seen, Loaded
<1>2. ASSUME NEW w \in Worker,
             \/ UpdateMe(w) \/ UploadAvatar(w) \/ GetContacts(w)
             \/ \E pages \in SUBSET (SUBSET User) : Show(w, pages)
      PROVE  VersionInv'
  <2>1. PICK s \in Steps, r \in Request, about \in SUBSET User : Comes(w, s, r, about)
    BY <1>2, ComeFacts
  <2>2. \A u \in about : <<u, profile'[u]>> \in versions'[w]
    BY <2>1 DEF Comes
  <2>3. VersionOf(w)'
    BY <2>1, <2>2 DEF Comes, VersionOf, Seen
  <2> QED
    BY <2>1, <2>3, OthersVersion DEF Comes
<1>3. ASSUME NEW w \in Worker, UploadFails(w) \/ Sign(w) \/ Abort(w) PROVE VersionInv'
  <2>1. OthersSame(w) /\ profile' = profile /\ pc'[w] = "idle"
    BY <1>3, AnswerFacts
  <2>2. VersionOf(w)'
    BY <2>1 DEF VersionOf
  <2> QED
    BY <2>1, <2>2, OthersVersion
<1>4. ASSUME NEW w \in Worker, UploadFile(w) PROVE VersionInv'
  <2>1. OthersSame(w) /\ profile' = profile /\ versions' = versions
        /\ pc'[w] = "select" /\ req'[w].user = req[w].user
    BY <1>4, UploadFacts
  <2>2. pc[w] = "upload" /\ VersionOf(w)
    BY <1>4 DEF UploadFile, VersionInv
  <2>3. VersionOf(w)'
    BY <2>1, <2>2 DEF VersionOf, Seen
  <2> QED
    BY <2>1, <2>3, OthersVersion
<1>5. ASSUME NEW w \in Worker, Select(w) \/ Refresh(w) PROVE VersionInv'
  <2>1. /\ OthersSame(w) /\ profile' = profile /\ versions' = versions
        /\ \/ pc[w] = "select" /\ pc'[w] = "commit"
           \/ pc[w] = "refresh" /\ pc'[w] = "sign"
        /\ req'[w].user = req[w].user /\ req'[w].changes = req[w].changes
        /\ DOMAIN req'[w].rows = {req[w].user}
        /\ req'[w].rows[req[w].user] = profile[req[w].user]
    BY <1>5, LoadFacts
  <2>2. VersionOf(w)
    BY DEF VersionInv
  <2>3. VersionOf(w)'
    BY <2>1, <2>2 DEF VersionOf, Seen, Loaded
  <2> QED
    BY <2>1, <2>3, OthersVersion
<1>6. ASSUME NEW w \in Worker, LookUpContact(w) PROVE VersionInv'
  <2>1. /\ OthersSame(w) /\ profile' = profile /\ versions' = versions
        /\ pc[w] = "contacts" /\ req'[w].changes = req[w].changes
        /\ \/ /\ pc'[w] = "sign" /\ req'[w].rows = req[w].rows
           \/ /\ pc'[w] = "contacts" /\ req'[w].todo \subseteq req[w].todo
              /\ \E u \in req[w].todo :
                    /\ DOMAIN req'[w].rows = DOMAIN req[w].rows \cup {u}
                    /\ \A x \in DOMAIN req'[w].rows :
                          req'[w].rows[x] = IF x = u THEN profile[u] ELSE req[w].rows[x]
    BY <1>6, ContactFacts
  <2>2. VersionOf(w) /\ DOMAIN req[w].changes = {}
    BY <2>1 DEF VersionInv, FileInv, FileOf
  <2>3. VersionOf(w)'
    BY <2>1, <2>2 DEF VersionOf, Seen
  <2> QED
    BY <2>1, <2>3, OthersVersion
<1>7. ASSUME NEW w \in Worker, Commit(w) PROVE VersionInv'
  BY <1>7, CommitVersion
<1> QED
  BY <1>1, <1>2, <1>3, <1>4, <1>5, <1>6, <1>7, StepCases

-----------------------------------------------------------------------------
(* Theorems. *)

\* The inductive invariant.
LEMMA AllInv == Spec => [](Typed /\ FileInv /\ VersionInv)
<1>1. Init => Typed /\ FileInv /\ VersionInv
  BY InitTyped, InitFile, InitVersion
<1>2. Typed /\ FileInv /\ VersionInv /\ [Next]_vars => (Typed /\ FileInv /\ VersionInv)'
  BY FileStep, VersionStep
<1> QED
  BY <1>1, <1>2, PTL DEF Spec

\* The rows of user_profiles, the files and what update_users_me, the upload of an
\* avatar and the read endpoints hold between their awaits are of their types.
THEOREM TypeCorrect == Spec => []TypeOK
<1>1. Typed => TypeOK
  <2> SUFFICES ASSUME Typed PROVE TypeOK
    OBVIOUS
  <2>1. ASSUME NEW w \in Worker
        PROVE  /\ req[w].user \in User \cup {None}
               /\ req[w].changes \in Changes /\ req[w].rows \in Rows /\ req[w].todo \subseteq User
               /\ versions[w] \subseteq User \X Row
    BY DEF Typed, Request
  <2>2. ASSUME NEW w \in Worker
        PROVE  /\ DOMAIN req[w].changes \subseteq Column
               /\ \A c \in DOMAIN req[w].changes : req[w].changes[c] \in Value \cup File \cup {None}
               /\ DOMAIN req[w].rows \subseteq User
               /\ \A u \in DOMAIN req[w].rows : req[w].rows[u] \in Row
    BY <2>1, ChangesFacts DEF Content
  <2> QED
    BY <2>1, <2>2 DEF Typed, TypeOK
<1> QED
  BY <1>1, AllInv, PTL

\* Whatever the endpoints that show profiles read between which commits, they
\* show rows that were in user_profiles while the request was served.
THEOREM ShownWasThere == Spec => []ShownIsAVersion
<1>1. VersionInv => ShownIsAVersion
  BY DEF VersionInv, VersionOf, Seen, ShownIsAVersion
<1> QED
  BY <1>1, AllInv, PTL

\* Each column that update_user_profile or update_user_avatar was to set had
\* that value before the request is answered, however many updates interleave.
THEOREM AskedWasThere == Spec => []AskedWasInTheTable
<1>1. VersionInv => AskedWasInTheTable
  BY DEF VersionInv, VersionOf, AskedWasInTheTable
<1> QED
  BY <1>1, AllInv, PTL

\* avatar_file_id is the file that update_user_avatar committed last, it was
\* uploaded by the user whose avatar it is, and whoever is told of a new avatar
\* has had it: whatever the File service answers or does not.
THEOREM AvatarIsSaved == Spec => []AvatarIsTheLastSaved
<1>1. Typed /\ FileInv => AvatarIsTheLastSaved
  <2> SUFFICES ASSUME Typed, FileInv PROVE AvatarIsTheLastSaved
    OBVIOUS
  <2>1. \A u \in User : /\ profile[u]["avatar_file_id"] = IF saved[u] = <<>> THEN None ELSE Last(saved[u])
                        /\ \A f \in ToSet(saved[u]) : uploader[f] = u
    BY DEF FileInv, AvatarOf, Avatar
  <2>2. ASSUME NEW w \in Worker, NEW f \in File, pc[w] = "sign",
               NEW c \in DOMAIN req[w].changes, req[w].changes[c] = f
        PROVE  f \in ToSet(saved[req[w].user])
    <3>1. FileOf(w)
      BY DEF FileInv
    <3>2. c = Avatar
      BY <2>2, <3>1 DEF FileOf
    <3> QED
      BY <2>2, <3>1, <3>2 DEF FileOf, Sets, TheFile
  <2> QED
    BY <2>1, <2>2 DEF AvatarIsTheLastSaved
<1> QED
  BY <1>1, AllInv, PTL

\* update_users_me and upload_user_avatar of one user may both load the row
\* before either commits: each column changes only to what a request about this
\* column asked for, and so none is set back to what had been loaded.
THEOREM ColumnsApart == Spec => ColumnsAreIndependent
<1> DEFINE Apart == \A u \in User, c \in Column : profile'[u][c] # profile[u][c] =>
                       \E w \in Worker : /\ pc[w] = "commit" /\ req[w].user = u
                                         /\ c \in DOMAIN req[w].changes
                                         /\ profile'[u][c] = req[w].changes[c]
<1>1. Typed /\ FileInv /\ [Next]_vars => [Apart]_vars
  <2> SUFFICES ASSUME Typed, FileInv, [Next]_vars, NEW u \in User, NEW c \in Column,
                      profile'[u][c] # profile[u][c]
               PROVE  \E w \in Worker : /\ pc[w] = "commit" /\ req[w].user = u
                                        /\ c \in DOMAIN req[w].changes
                                        /\ profile'[u][c] = req[w].changes[c]
    OBVIOUS
  <2>1. profile' # profile
    OBVIOUS
  <2>2. PICK w \in Worker : Commit(w)
    <3>1. \A w \in Worker : UploadFails(w) \/ Sign(w) \/ Abort(w) \/ UploadFile(w) \/ Select(w)
                            \/ Refresh(w) \/ LookUpContact(w) \/ UpdateMe(w) \/ UploadAvatar(w)
                            \/ GetContacts(w) \/ (\E pages \in SUBSET (SUBSET User) : Show(w, pages))
                            => profile' = profile
      BY DEF UploadFails, Sign, Abort, UploadFile, Select, Refresh, LookUpContact, UpdateMe,
             UploadAvatar, GetContacts, Show
    <3> QED
      BY <2>1, <3>1, StepCases DEF vars
  <2>3. Avatar \in DOMAIN req[w].changes => req[w].changes[Avatar] \in File
    BY <2>2 DEF Commit, FileInv, FileOf, Waiting, Sets, TheFile
  <2>4. /\ pc[w] = "commit" /\ req[w].user \in User /\ profile'[req[w].user] = Written(w)
        /\ \A t \in User : t # req[w].user => profile'[t] = profile[t]
    BY <2>2, <2>3, CommitFacts DEF Avatar
  <2>5. u = req[w].user
    BY <2>4
  <2>6. Written(w)[c] = (IF c \in Dirty(w) THEN req[w].changes[c] ELSE profile[u][c])
        /\ Dirty(w) \subseteq DOMAIN req[w].changes
    BY <2>4, <2>5, WrittenFacts
  <2>7. c \in Dirty(w)
    BY <2>4, <2>5, <2>6
  <2> QED
    BY <2>4, <2>5, <2>6, <2>7
<1>2. Spec => [][Apart]_vars
  BY <1>1, AllInv, PTL DEF Spec
<1> QED
  BY <1>2 DEF ColumnsAreIndependent

-----------------------------------------------------------------------------
(* The book of the profiles. *)

Nothing == UNCHANGED <<profile, WishMap>>

\* A request that looks up contacts is not about a change.
ReaderInv == \A w \in Worker : pc[w] = "contacts" => req[w].user = None

\* Only GET /users/me/contacts starts to look up contacts.
LEMMA ReaderStep == Typed /\ ReaderInv /\ [Next]_vars => ReaderInv'
<1> SUFFICES ASSUME Typed, ReaderInv, [Next]_vars PROVE ReaderInv'
  OBVIOUS
<1>1. ASSUME NEW w \in Worker, NEW s, NEW r, Goto(w, s, r), s = "contacts" => r.user = None
      PROVE  ReaderInv'
  BY <1>1 DEF Typed, Goto, ReaderInv
<1>2. CASE UNCHANGED vars
  BY <1>2 DEF vars, ReaderInv
<1>3. ASSUME NEW w \in Worker, GetContacts(w) PROVE ReaderInv'
  <2>1. PICK a : Goto(w, "contacts", [Blank EXCEPT !.todo = a])
    BY <1>3 DEF GetContacts, Accept
  <2>2. [Blank EXCEPT !.todo = a].user = None
    BY DEF Blank
  <2> QED
    BY <1>1, <2>1, <2>2
<1>4. ASSUME NEW w \in Worker, LookUpContact(w) PROVE ReaderInv'
  <2>1. pc[w] = "contacts" /\ req[w].user = None /\ req[w] \in Request
    BY <1>4 DEF LookUpContact, ReaderInv, Typed
  <2>2. CASE Goto(w, "sign", req[w])
    BY <1>1, <2>2
  <2>3. ASSUME NEW t, NEW rows, Goto(w, "contacts", [req[w] EXCEPT !.todo = t, !.rows = rows])
        PROVE  ReaderInv'
    <3>1. [req[w] EXCEPT !.todo = t, !.rows = rows].user = None
      BY <2>1 DEF Request
    <3> QED
      BY <1>1, <2>3, <3>1
  <2> QED
    BY <1>4, <2>2, <2>3 DEF LookUpContact
<1>5. ASSUME NEW w \in Worker,
             \/ UpdateMe(w) \/ UploadAvatar(w) \/ (\E pages \in SUBSET (SUBSET User) : Show(w, pages))
             \/ UploadFails(w) \/ Sign(w) \/ Abort(w) \/ UploadFile(w)
             \/ Select(w) \/ Refresh(w) \/ Commit(w)
      PROVE  ReaderInv'
  <2>1. ASSUME NEW s \in Steps \ {"contacts"}, \E r : Goto(w, s, r) PROVE ReaderInv'
    BY <1>1, <2>1
  <2>2. CASE UpdateMe(w)
    BY <2>1, <2>2 DEF UpdateMe, Accept, Steps
  <2>3. CASE UploadAvatar(w)
    BY <2>1, <2>3 DEF UploadAvatar, Accept, Steps
  <2>4. CASE \E pages \in SUBSET (SUBSET User) : Show(w, pages)
    BY <2>1, <2>4 DEF Show, Accept, Steps
  <2>5. CASE UploadFails(w) \/ Sign(w) \/ Abort(w)
    BY <2>1, <2>5 DEF UploadFails, Sign, Abort, Answer, Steps
  <2>6. CASE UploadFile(w)
    BY <2>1, <2>6 DEF UploadFile, Steps
  <2>7. CASE Select(w) \/ Refresh(w) \/ Commit(w)
    BY <2>1, <2>7 DEF Select, Refresh, Commit, Steps
  <2> QED
    BY <1>5, <2>2, <2>3, <2>4, <2>5, <2>6, <2>7
<1> QED
  BY <1>2, <1>3, <1>4, <1>5, StepCases

\* A change that is under way is a wish, and nothing else is.
LEMMA WishFacts ==
    ASSUME Typed, NEW w \in Worker
    PROVE  /\ pc[w] = "select" => WishOf(w) = WishFor(req[w].user, req[w].changes, "asked")
           /\ pc[w] = "commit" => WishOf(w) =
                 WishFor(req[w].user, [c \in Dirty(w) |-> req[w].changes[c]], "settled")
           /\ pc[w] \in {"refresh", "sign"} /\ req[w].user # None =>
                 WishOf(w) = WishFor(req[w].user, <<>>, "written")
           /\ pc[w] \in {"idle", "upload", "contacts"} => WishOf(w) = None
           /\ pc[w] = "sign" /\ req[w].user = None => WishOf(w) = None
           /\ pc[w] \in {"select", "commit", "refresh"} => WishOf(w) # None
           /\ pc[w] = "sign" /\ req[w].user # None => WishOf(w) # None
<1>1. /\ req[w] \in Request
      /\ pc[w] \in {"select", "commit", "refresh"} => req[w].user \in User
  BY DEF Typed
<1>2. \A u \in User, t \in Changes, s \in {"asked", "settled", "written"} : WishFor(u, t, s) # None
  <2>1. \A u \in User, t \in Changes, s \in {"asked", "settled", "written"} :
           WishFor(u, t, s) \in Wishes
    BY DEF WishFor, Wishes, Changes, Content
  <2> QED
    BY <2>1, WishAssumption
<1>3. <<>> \in Changes /\ req[w].changes \in Changes
  BY <1>1, BlankFacts DEF Blank, Request
<1>4. pc[w] = "commit" => [c \in Dirty(w) |-> req[w].changes[c]] \in Changes
  <2> HAVE pc[w] = "commit"
  <2> DEFINE todo == [c \in Dirty(w) |-> req[w].changes[c]]
  <2>1. Dirty(w) \in SUBSET Column /\ \A c \in Dirty(w) : req[w].changes[c] \in Content
    BY <1>1, WrittenFacts, ChangesFacts DEF Request
  <2>2. todo \in [Dirty(w) -> Content]
    BY <2>1
  <2> QED
    BY <2>1, <2>2, ChangesFacts
<1>5. /\ pc[w] = "select" => WishOf(w) = WishFor(req[w].user, req[w].changes, "asked")
      /\ pc[w] = "commit" => WishOf(w) =
            WishFor(req[w].user, [c \in Dirty(w) |-> req[w].changes[c]], "settled")
      /\ pc[w] \in {"refresh", "sign"} /\ req[w].user # None =>
            WishOf(w) = WishFor(req[w].user, <<>>, "written")
      /\ pc[w] \in {"idle", "upload", "contacts"} => WishOf(w) = None
      /\ pc[w] = "sign" /\ req[w].user = None => WishOf(w) = None
  BY DEF WishOf
<1>6. pc[w] = "sign" /\ req[w].user # None => req[w].user \in User
  BY <1>1 DEF Request
<1>7. pc[w] = "refresh" => req[w].user # None
  BY <1>1, ProfilesAssumption
<1>8. /\ pc[w] \in {"select", "commit", "refresh"} => WishOf(w) # None
      /\ pc[w] = "sign" /\ req[w].user # None => WishOf(w) # None
  BY <1>1, <1>2, <1>3, <1>4, <1>5, <1>6, <1>7
<1> QED
  BY <1>5, <1>8

\* A step of one request changes its own wish only.
LEMMA WishAfter ==
    ASSUME Typed, Typed', NEW w \in Worker,
           \A v \in Worker : v # w => pc'[v] = pc[v] /\ req'[v] = req[v]
    PROVE  /\ WishMap[w] = WishOf(w)
           /\ WishMap' = [WishMap EXCEPT ![w] = WishOf(w)']
           /\ WishOf(w)' = WishOf(w) => WishMap' = WishMap
<1>1. \A v \in Worker : v # w => WishOf(v)' = WishOf(v)
  BY DEF WishOf, WishFor, Dirty, Loaded
<1>2. WishMap' = [v \in Worker |-> WishOf(v)'] /\ WishMap = [v \in Worker |-> WishOf(v)]
  BY DEF WishMap
<1> QED
  BY <1>1, <1>2

\* Nobody has a wish at the start.
LEMMA InitBook == Init => Book!Init
<1> SUFFICES ASSUME Init PROVE Book!Init
  OBVIOUS
<1>1. WishMap = [w \in Worker |-> None]
  BY InitTyped, WishFacts DEF Init, WishMap
<1> QED
  BY <1>1 DEF Init, Book!Init, NewProfiles, Row

\* A request ends: so does its wish, if it has one.
LEMMA StepEnds ==
    ASSUME Typed, Typed', NEW w \in Worker, UNCHANGED profile, pc'[w] = "idle",
           \A v \in Worker : v # w => pc'[v] = pc[v] /\ req'[v] = req[v]
    PROVE  Nothing \/ Book!End(w)
<1>1. WishOf(w)' = None
  BY DEF WishOf
<1>2. WishMap[w] = WishOf(w) /\ WishMap' = [WishMap EXCEPT ![w] = None]
  BY <1>1, WishAfter
<1>3. CASE WishMap[w] = None
  BY <1>2, <1>3 DEF Nothing, WishMap
<1>4. CASE WishMap[w] # None
  BY <1>2, <1>4 DEF Book!End, Book!Becomes
<1> QED
  BY <1>3, <1>4

\* A request comes to "select" with what it is to change.
LEMMA StepAsks ==
    ASSUME Typed, Typed', NEW w \in Worker, UNCHANGED profile, pc[w] \in {"idle", "upload"},
           pc'[w] = "select",
           \A v \in Worker : v # w => pc'[v] = pc[v] /\ req'[v] = req[v]
    PROVE  Book!Ask(w)
<1> DEFINE u == req'[w].user
           todo == req'[w].changes
<1>1. WishOf(w) = None
  BY WishFacts
<1>2. WishOf(w)' = WishFor(u, todo, "asked")
  BY DEF WishOf, WishFor
<1>3. WishMap[w] = None /\ WishMap' = [WishMap EXCEPT ![w] = WishFor(u, todo, "asked")]
  BY <1>1, <1>2, WishAfter
<1>4. u \in User /\ todo \in Changes
  BY DEF Typed, Request
<1> HIDE DEF u, todo
<1>5. PICK C \in SUBSET Column : todo \in [C -> Value \cup File \cup {None}]
  BY <1>4 DEF Changes, Content
<1> QED
  BY <1>3, <1>4, <1>5 DEF Book!Ask, Book!Becomes, Book!Wish, WishFor

\* It finds out what is left to change.
LEMMA StepSettles ==
    ASSUME Typed, NEW w \in Worker, Select(w)
    PROVE  Book!Settle(w)
<1> DEFINE u == req[w].user
           t == req[w].changes
           left == {c \in DOMAIN t : t[c] # profile[u][c]}
<1>1. /\ Typed' /\ OthersSame(w) /\ UNCHANGED profile
      /\ pc[w] = "select" /\ pc'[w] = "commit"
      /\ req'[w].user = u /\ req'[w].changes = t /\ req'[w].rows[u] = profile[u]
  BY LoadFacts DEF Select
<1>2. Dirty(w)' = left
  BY <1>1 DEF Dirty, Loaded
<1>3. WishOf(w)' = WishFor(u, [c \in left |-> t[c]], "settled")
  BY <1>1, <1>2 DEF WishOf, WishFor
<1>4. WishMap[w] = WishFor(u, t, "asked") /\ WishMap[w] # None
  BY <1>1, WishFacts, WishAfter DEF OthersSame
<1>5. WishMap' = [WishMap EXCEPT ![w] = WishFor(u, [c \in left |-> t[c]], "settled")]
  BY <1>1, <1>3, WishAfter DEF OthersSame
<1>6. WishMap[w].user = u /\ WishMap[w].todo = t /\ WishMap[w].step = "asked"
  BY <1>4 DEF WishFor
<1>7. Book!Left(u, t) = left
  BY DEF Book!Left
<1> HIDE DEF u, t, left
<1> QED
  BY <1>1, <1>4, <1>5, <1>6, <1>7 DEF Book!Settle, Book!At, Book!Becomes, Book!Wish, WishFor

\* It writes that.
LEMMA StepWrites ==
    ASSUME Typed, FileInv, NEW w \in Worker, Commit(w)
    PROVE  Book!Write(w)
<1> DEFINE u == req[w].user
           todo == [c \in Dirty(w) |-> req[w].changes[c]]
<1>0. "avatar_file_id" \in DOMAIN req[w].changes => req[w].changes["avatar_file_id"] \in File
  BY DEF Commit, FileInv, FileOf, Waiting, Sets, TheFile, Avatar
<1>1. /\ Typed' /\ u \in User /\ pc[w] = "commit" /\ pc'[w] = "refresh" /\ req' = req
      /\ \A v \in Worker : v # w => pc'[v] = pc[v]
  BY <1>0, CommitFacts
<1>2. profile' = [profile EXCEPT ![u] = Written(w)]
  BY DEF Commit
<1>3. Written(w) = [c \in Column |-> IF c \in DOMAIN todo THEN todo[c] ELSE profile[u][c]]
  BY DEF Written
<1>4. WishOf(w)' = WishFor(u, <<>>, "written")
  BY <1>1, ProfilesAssumption DEF WishOf, WishFor
<1>5. WishMap[w] = WishFor(u, todo, "settled") /\ WishMap[w] # None
  BY <1>1, WishFacts DEF WishMap
<1>6. WishMap' = [WishMap EXCEPT ![w] = WishFor(u, <<>>, "written")]
  BY <1>1, <1>4, WishAfter
<1> HIDE DEF u, todo
<1>7. WishMap[w].user = u /\ WishMap[w].todo = todo /\ WishMap[w].step = "settled"
  BY <1>5 DEF WishFor
<1> QED
  BY <1>2, <1>3, <1>5, <1>6, <1>7 DEF Book!Write, Book!At, Book!Becomes, Book!Wish, WishFor

\* Every step of a request is a step of the book, or nothing to it.
LEMMA StepBook == Typed /\ FileInv /\ ReaderInv /\ [Next]_vars => [Book!Next]_<<profile, WishMap>>
<1> SUFFICES ASSUME Typed, FileInv, ReaderInv, [Next]_vars
             PROVE  Nothing \/ \E w \in Worker : Book!Ask(w) \/ Book!Settle(w) \/ Book!Write(w) \/ Book!End(w)
  BY DEF Book!Next, Nothing
<1>0. CASE UNCHANGED vars
  BY <1>0 DEF vars, Nothing, WishMap, WishOf, WishFor, Dirty, Loaded
<1>typed. Typed'
  BY FileStep
<1>1. ASSUME NEW w \in Worker, OthersSame(w), UNCHANGED profile, WishOf(w)' = WishOf(w)
      PROVE  Nothing
  BY <1>typed, <1>1, WishAfter DEF OthersSame, Nothing
<1>2. ASSUME NEW w \in Worker, UpdateMe(w) \/ UploadAvatar(w) \/ GetContacts(w)
      PROVE  Nothing \/ Book!Ask(w)
  <2>1. pc[w] = "idle" /\ WishOf(w) = None
    BY <1>2, WishFacts DEF UpdateMe, UploadAvatar, GetContacts, Accept
  <2>2. OthersSame(w) /\ UNCHANGED profile /\ pc'[w] \in {"select", "upload", "contacts"}
    BY <1>2 DEF UpdateMe, UploadAvatar, GetContacts, Accept, Goto, OthersSame, Typed
  <2>3. CASE pc'[w] = "select"
    BY <1>typed, <2>1, <2>2, <2>3, StepAsks DEF OthersSame
  <2>4. CASE pc'[w] # "select"
    <3>1. WishOf(w)' = None
      BY <2>2, <2>4 DEF WishOf
    <3> QED
      BY <1>1, <2>1, <2>2, <3>1
  <2> QED
    BY <2>3, <2>4
<1>3. ASSUME NEW w \in Worker, NEW pages \in SUBSET (SUBSET User), Show(w, pages) PROVE Nothing
  <2>1. PICK rows : Goto(w, "sign", [Blank EXCEPT !.rows = rows])
    BY <1>3 DEF Show, Accept
  <2>2. [Blank EXCEPT !.rows = rows].user = None
    BY DEF Blank
  <2>3. pc'[w] = "sign" /\ req'[w].user = None
    BY <2>1, <2>2 DEF Goto, Typed
  <2>4. WishOf(w)' = None
    BY <2>3 DEF WishOf
  <2>5. WishOf(w) = None
    BY <1>3, WishFacts DEF Show, Accept
  <2>6. OthersSame(w) /\ UNCHANGED profile
    BY <1>3 DEF Show, Accept, Goto, OthersSame, Typed
  <2> QED
    BY <1>1, <2>4, <2>5, <2>6
<1>4. ASSUME NEW w \in Worker, UploadFails(w) \/ Sign(w) \/ Abort(w) PROVE Nothing \/ Book!End(w)
  BY <1>typed, <1>4, AnswerFacts, StepEnds DEF OthersSame
<1>5. ASSUME NEW w \in Worker, UploadFile(w) PROVE Book!Ask(w)
  <2>1. OthersSame(w) /\ UNCHANGED profile /\ pc'[w] = "select" /\ pc[w] = "upload"
    BY <1>5, UploadFacts DEF UploadFile
  <2> QED
    BY <1>typed, <2>1, StepAsks DEF OthersSame
<1>6. ASSUME NEW w \in Worker, Refresh(w) PROVE Nothing
  <2>1. /\ OthersSame(w) /\ UNCHANGED profile /\ req[w].user \in User
        /\ pc[w] = "refresh" /\ pc'[w] = "sign" /\ req'[w].user = req[w].user
    BY <1>6, LoadFacts DEF Refresh
  <2>2. req[w].user # None
    BY <2>1, ProfilesAssumption
  <2>3. WishOf(w)' = WishOf(w)
    BY <2>1, <2>2 DEF WishOf, WishFor
  <2> QED
    BY <1>1, <2>1, <2>3
<1>7. ASSUME NEW w \in Worker, LookUpContact(w) PROVE Nothing
  <2>1. /\ OthersSame(w) /\ UNCHANGED profile /\ pc[w] = "contacts" /\ pc'[w] \in {"sign", "contacts"}
    BY <1>7, ContactFacts
  <2>2. req'[w].user = None
    <3>1. req[w].user = None /\ req[w] \in Request
      BY <2>1 DEF ReaderInv, Typed
    <3>2. ASSUME NEW t, NEW rows, Goto(w, "contacts", [req[w] EXCEPT !.todo = t, !.rows = rows])
          PROVE  req'[w].user = None
      <4>1. [req[w] EXCEPT !.todo = t, !.rows = rows].user = None
        BY <3>1 DEF Request
      <4> QED
        BY <3>2, <4>1 DEF Goto, Typed
    <3>3. CASE Goto(w, "sign", req[w])
      BY <3>1, <3>3 DEF Goto, Typed
    <3> QED
      BY <1>7, <3>2, <3>3 DEF LookUpContact
  <2>3. WishOf(w)' = None /\ WishOf(w) = None
    BY <2>1, <2>2 DEF WishOf
  <2> QED
    BY <1>1, <2>1, <2>3
<1> QED
  BY <1>0, <1>2, <1>3, <1>4, <1>5, <1>6, <1>7, StepSettles, StepWrites, StepCases

\* update_users_me and upload_user_avatar settle the columns that have the value
\* already when they load the row, and write the others together, once.
THEOREM ImplementsBook == Spec => ImplementsProfileBook
<1>1. Init => ReaderInv
  BY DEF Init, ReaderInv
<1>2. Spec => []ReaderInv
  BY <1>1, AllInv, ReaderStep, PTL DEF Spec
<1> QED
  BY <1>2, AllInv, InitBook, StepBook, PTL DEF Spec, ImplementsProfileBook, Book!Spec
=============================================================================
