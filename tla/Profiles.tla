------------------------------- MODULE Profiles -------------------------------
(***************************************************************************)
(* The profiles of the user-service: update_users_me and                   *)
(* upload_user_avatar of app/api.py, which write columns of one row of     *)
(* user_profiles each, the endpoints that show profiles, and the calls of  *)
(* both to the File service.                                               *)
(*                                                                         *)
(* A database call is one atomic step.  The session of a request holds the *)
(* row as it was loaded; on commit it writes the columns that differ from  *)
(* that, and no others.  Rows are never deleted.  Emails, which are unique *)
(* across rows, are in Registration.                                       *)
(***************************************************************************)
EXTENDS Naturals, Sequences, FiniteSets, SequencesExt

CONSTANTS
    User,       \* users with a profile
    Field,      \* columns that update_users_me may set: display_name, bio, custom_status
    Value,      \* what they may hold, besides null
    File,       \* files of the File service
    Worker,     \* requests being served at the same time
    None

ASSUME ProfilesAssumption ==
    /\ None \notin User \cup Value \cup File
    /\ Value \cap File = {}
    /\ "avatar_file_id" \notin Field

VARIABLES
    profile,    \* table user_profiles
    uploader,   \* the user whose token each file came with; None: there is no such file
    pc,         \* the next step of each request
    req,        \* what each request holds
    versions,   \* history: what the rows a request is about have been since it came
    saved       \* history: the files that became the avatar of each user, in order

vars == <<profile, uploader, pc, req, versions, saved>>

Column == Field \cup {"avatar_file_id"}
Row == [Column -> Value \cup File \cup {None}]

\* The fields that a body of update_users_me sets; the others are left alone.
Body == UNION {[F -> Value \cup {None}] : F \in SUBSET Field}

Steps == {"idle", "upload", "select", "commit", "refresh", "contacts", "sign"}

\* changes: what is to be set; rows: the rows in the session; todo: the
\* contacts still to be looked up.
Blank == [user |-> None, changes |-> <<>>, rows |-> <<>>, todo |-> {}]

\* What create_user_profile leaves: no avatar yet.
NewProfiles == {r \in Row : r["avatar_file_id"] = None /\ \A c \in Field : r[c] \notin File}

Init == /\ profile \in [User -> NewProfiles]
        /\ uploader = [f \in File |-> None]
        /\ pc = [w \in Worker |-> "idle"]
        /\ req = [w \in Worker |-> Blank]
        /\ versions = [w \in Worker |-> {}]
        /\ saved = [u \in User |-> <<>>]

Goto(w, s, r) == /\ pc' = [pc EXCEPT ![w] = s]
                 /\ req' = [req EXCEPT ![w] = r]

\* A request about the users in about comes.
Accept(w, s, r, about) ==
    /\ pc[w] = "idle"
    /\ Goto(w, s, r)
    /\ versions' = [versions EXCEPT ![w] = {<<u, profile[u]>> : u \in about}]

Answer(w) == /\ Goto(w, "idle", Blank)
             /\ versions' = [versions EXCEPT ![w] = {}]

-----------------------------------------------------------------------------
(* The File service. *)

\* upload_file got no answer in 30 seconds, a status of an error, or nothing at
\* all: 500.  The file may be there all the same.
UploadFails(w) ==
    /\ pc[w] = "upload"
    /\ \/ \E f \in File : /\ uploader[f] = None
                          /\ uploader' = [uploader EXCEPT ![f] = req[w].user]
       \/ UNCHANGED uploader
    /\ Answer(w)
    /\ UNCHANGED <<profile, saved>>

\* mutant: the status is not looked at, and the file need not be there.
UploadUnchecked(w) ==
    /\ pc[w] = "upload"
    /\ \E f \in File :
        /\ uploader[f] = None
        /\ \/ uploader' = [uploader EXCEPT ![f] = req[w].user]
           \/ UNCHANGED uploader
        /\ Goto(w, "select", [req[w] EXCEPT !.changes = [c \in {"avatar_file_id"} |-> f]])
    /\ UNCHANGED <<profile, versions, saved>>

\* mutant: the wrong id of the answer.
UploadOwner(w) ==
    /\ pc[w] = "upload"
    /\ \E f \in File :
        /\ uploader[f] = None
        /\ uploader' = [uploader EXCEPT ![f] = req[w].user]
        /\ Goto(w, "select", [req[w] EXCEPT !.changes = [c \in {"avatar_file_id"} |-> req[w].user]])
    /\ UNCHANGED <<profile, versions, saved>>

UploadFile(w) ==
    /\ pc[w] = "upload"
    /\ \E f \in File :
        /\ uploader[f] = None
        /\ uploader' = [uploader EXCEPT ![f] = req[w].user]
        /\ Goto(w, "select", [req[w] EXCEPT !.changes = [c \in {"avatar_file_id"} |-> f]])
    /\ UNCHANGED <<profile, versions, saved>>

\* get_signed_url, for each row that is shown and has an avatar.  Without an
\* answer in 5 seconds, or with an error, the profile is shown without a URL.
Sign(w) ==
    /\ pc[w] = "sign"
    /\ Answer(w)
    /\ UNCHANGED <<profile, uploader, saved>>

-----------------------------------------------------------------------------
(* PUT /users/me and POST /users/me/avatar. *)

UpdateMe(w) ==
    /\ \E u \in User, body \in Body :
          Accept(w, "select", [Blank EXCEPT !.user = u, !.changes = body], {u})
    /\ UNCHANGED <<profile, uploader, saved>>

UploadAvatar(w) ==
    /\ \E u \in User : Accept(w, "upload", [Blank EXCEPT !.user = u], {u})
    /\ UNCHANGED <<profile, uploader, saved>>

\* What the session holds of the request's own row.
Loaded(w) == req[w].rows[req[w].user]

Load(w) == [u \in {req[w].user} |-> profile[u]]

\* get_user_profile_by_id.
Select(w) ==
    /\ pc[w] = "select"
    /\ Goto(w, "commit", [req[w] EXCEPT !.rows = Load(w)])
    /\ UNCHANGED <<profile, uploader, versions, saved>>

\* mutant: null is taken for "not set".
DirtyUnlessNull(w) == {c \in DOMAIN req[w].changes : req[w].changes[c] \notin {None, Loaded(w)[c]}}

\* The columns that were set to something else than what had been loaded.
Dirty(w) == {c \in DOMAIN req[w].changes : req[w].changes[c] # Loaded(w)[c]}

\* mutant: every column as the session has it.
WrittenWhole(w) == [c \in Column |-> IF c \in Dirty(w) THEN req[w].changes[c] ELSE Loaded(w)[c]]

\* UPDATE user_profiles SET the dirty columns WHERE id.
Written(w) == [c \in Column |-> IF c \in Dirty(w) THEN req[w].changes[c]
                                                  ELSE profile[req[w].user][c]]

Commit(w) ==
    /\ pc[w] = "commit"
    /\ LET u == req[w].user
           row == Written(w)
       IN  /\ profile' = [profile EXCEPT ![u] = row]
           /\ versions' = [v \in Worker |->
                 versions[v] \cup {<<u, row>> : x \in {y \in versions[v] : y[1] = u}}]
           /\ saved' = IF "avatar_file_id" \in Dirty(w)
                       THEN [saved EXCEPT ![u] = Append(@, req[w].changes["avatar_file_id"])]
                       ELSE saved
    /\ Goto(w, "refresh", req[w])
    /\ UNCHANGED uploader

\* mutant: shows the session's copy with the changes instead.
RefreshNothing(w) ==
    /\ pc[w] = "refresh"
    /\ Goto(w, "sign", [req[w] EXCEPT !.rows = [u \in {req[w].user} |->
           [c \in Column |-> IF c \in DOMAIN req[w].changes
                             THEN req[w].changes[c] ELSE Loaded(w)[c]]]])
    /\ UNCHANGED <<profile, uploader, versions, saved>>

\* db.refresh, in a transaction of its own.
Refresh(w) ==
    /\ pc[w] = "refresh"
    /\ Goto(w, "sign", [req[w] EXCEPT !.rows = Load(w)])
    /\ UNCHANGED <<profile, uploader, versions, saved>>

-----------------------------------------------------------------------------
(* GET /users/me, /users/{id}, /users/search and /users/me/contacts. *)

\* One query for the rows of one of the pages.
Show(w, pages) ==
    /\ \E page \in pages :
          Accept(w, "sign", [Blank EXCEPT !.rows = [u \in page |-> profile[u]]], page)
    /\ UNCHANGED <<profile, uploader, saved>>

One == {{u} : u \in User}

ReadUsersMe(w) == Show(w, One)

\* 404 if nobody has the id.
ReadUserProfile(w) == Show(w, One \cup {{}})

\* Whoever matches, from the offset to the limit.
SearchUsers(w) == Show(w, SUBSET User)

\* get_user_contacts, one query for the ids.
GetContacts(w) ==
    /\ \E contacts \in SUBSET User :
          Accept(w, "contacts", [Blank EXCEPT !.todo = contacts], contacts)
    /\ UNCHANGED <<profile, uploader, saved>>

\* A query for each, and between two of them the URL of the one before.
LookUpContact(w) ==
    /\ pc[w] = "contacts"
    /\ \/ /\ req[w].todo = {}
          /\ Goto(w, "sign", req[w])
       \/ \E u \in req[w].todo :
             Goto(w, "contacts", [req[w] EXCEPT !.todo = @ \ {u},
                     !.rows = [x \in DOMAIN req[w].rows \cup {u} |->
                                  IF x = u THEN profile[u] ELSE req[w].rows[x]]])
    /\ UNCHANGED <<profile, uploader, versions, saved>>

-----------------------------------------------------------------------------
\* An await raises or the process stops: what was uploaded and committed stays.
Abort(w) ==
    /\ pc[w] # "idle"
    /\ Answer(w)
    /\ UNCHANGED <<profile, uploader, saved>>

Next == \E w \in Worker :
           \/ UpdateMe(w) \/ UploadAvatar(w) \/ UploadFile(w) \/ UploadFails(w)
           \/ Select(w) \/ Commit(w) \/ Refresh(w) \/ Sign(w)
           \/ ReadUsersMe(w) \/ ReadUserProfile(w) \/ SearchUsers(w)
           \/ GetContacts(w) \/ LookUpContact(w)
           \/ Abort(w)

Spec == Init /\ [][Next]_vars

-----------------------------------------------------------------------------
(* Properties. *)

\* The table, the files, the requests and what has been noted are of their types.
TypeOK ==
    /\ profile \in [User -> Row]
    /\ uploader \in [File -> User \cup {None}]
    /\ pc \in [Worker -> Steps]
    /\ \A w \in Worker :
          /\ req[w].user \in User \cup {None}
          /\ DOMAIN req[w].changes \subseteq Column
          /\ \A c \in DOMAIN req[w].changes :
                req[w].changes[c] \in Value \cup File \cup {None}
          /\ DOMAIN req[w].rows \subseteq User
          /\ \A u \in DOMAIN req[w].rows : req[w].rows[u] \in Row
          /\ req[w].todo \subseteq User
    /\ \A w \in Worker : versions[w] \subseteq User \X Row
    /\ saved \in [User -> Seq(File)]

\* A change of one column is never undone by a request about another: whatever
\* was loaded before, a column changes only to what a request about it asked for.
ColumnsAreIndependent ==
    [][\A u \in User, c \in Column : profile'[u][c] # profile[u][c] =>
          \E w \in Worker : /\ pc[w] = "commit" /\ req[w].user = u
                            /\ c \in DOMAIN req[w].changes
                            /\ profile'[u][c] = req[w].changes[c]]_vars

\* A profile that is shown is one that was in the table while the request was
\* served: no mixture of the columns before and after another's change.
ShownIsAVersion ==
    \A w \in Worker : pc[w] = "sign" =>
        \A u \in DOMAIN req[w].rows : <<u, req[w].rows[u]>> \in versions[w]

\* Who is told that a profile was updated, may be told of a later value; but each
\* value asked for was in the table while the request was served, also a null.
AskedWasInTheTable ==
    \A w \in Worker : pc[w] = "sign" =>
        \A c \in DOMAIN req[w].changes :
            \E v \in versions[w] : v[1] = req[w].user /\ v[2][c] = req[w].changes[c]

\* The avatar of a user is the file that was saved last, and a file that this user
\* uploaded.  What is left in the File service without a reference was replaced,
\* or came with an upload that failed: a file that somebody is told was saved has
\* been the avatar.
AvatarIsTheLastSaved ==
    /\ \A u \in User :
          /\ profile[u]["avatar_file_id"] = IF saved[u] = <<>> THEN None ELSE Last(saved[u])
          /\ \A f \in ToSet(saved[u]) : uploader[f] = u
    /\ \A w \in Worker : \A f \in File :
          pc[w] = "sign" /\ f \in {req[w].changes[c] : c \in DOMAIN req[w].changes} =>
             f \in ToSet(saved[req[w].user])

\* The requests that change profiles implement the book: whatever the session had
\* loaded, a change settles the columns that have the value already and writes the
\* others at once, and only then somebody is told.
Wishes == [user : User, todo : UNION {[C -> Value \cup File \cup {None}] : C \in SUBSET Column},
           step : {"asked", "settled", "written"}]
ASSUME WishAssumption == None \notin Wishes

WishFor(u, todo, step) == [user |-> u, todo |-> todo, step |-> step]
WishOf(w) ==
    CASE pc[w] = "select" -> WishFor(req[w].user, req[w].changes, "asked")
      [] pc[w] = "commit" ->
            WishFor(req[w].user, [c \in Dirty(w) |-> req[w].changes[c]], "settled")
      [] pc[w] \in {"refresh", "sign"} /\ req[w].user # None -> WishFor(req[w].user, <<>>, "written")
      [] OTHER -> None
WishMap == [w \in Worker |-> WishOf(w)]

Book == INSTANCE ProfileBook WITH
           book <- profile, wish <- WishMap, Content <- Value \cup File \cup {None}
ImplementsProfileBook == Book!Spec
=============================================================================
