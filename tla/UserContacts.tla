---------------------------- MODULE UserContacts ----------------------------
(***************************************************************************)
(* The contacts of the user-service: add_friend, block_user and            *)
(* remove_contact of app/api.py over the table user_contacts.              *)
(*                                                                         *)
(* One action per database round trip.  A request has a session of its own *)
(* with an identity map: a row that it has loaded keeps the status it had  *)
(* then, until a rollback.                                                 *)
(***************************************************************************)
EXTENDS Naturals, FiniteSets

CONSTANTS
    User,       \* users with a profile (profiles are never deleted)
    RowId,      \* primary keys of user_contacts
    Worker,     \* requests being served at the same time
    None

ASSUME NoneAssumption == None \notin RowId

VARIABLES
    contacts,   \* table user_contacts, by its unique (owner_id, contact_id)
    pc,         \* the next step of each request
    req,        \* what each request was given and has loaded
    held        \* history: what it asks for was so at some time since it arrived

vars == <<contacts, pc, req, held>>

-----------------------------------------------------------------------------
(* Definitions marked "mutant" are faulty versions of the one that follows, *)
(* for checking that a property notices.                                    *)

Status == {"FRIEND", "BLOCKED"}
NotAContact == "NONE"
AnyStatus == Status \cup {NotAContact}

\* The handlers refuse the current user as the contact.
Pair == {p \in User \X User : p[1] # p[2]}

NoRow == [id |-> None, status |-> NotAContact]
Row == [id : RowId, status : Status] \cup {NoRow}

Steps == {"idle", "select", "insert", "update", "refresh", "delete"}

\* row: the primary key it works on; seen: the status the session has for it;
\* cached: the row that came along with the profile of the contact.
Request == [pair : Pair, status : AnyStatus, row : RowId \cup {None},
            seen : AnyStatus, cached : Row]

Ask(p, s, c) == [pair |-> p, status |-> s, row |-> None, seen |-> NotAContact, cached |-> c]
Holding(r, id, s) == [r EXCEPT !.row = id, !.seen = s]

\* uuid4.
FreshRow(r) == /\ \A p \in Pair : contacts[p].id # r
               /\ \A w \in Worker : req[w] # None => r \notin {req[w].row, req[w].cached.id}

TheRow(w) == contacts[req[w].pair]

Init == /\ contacts = [p \in Pair |-> NoRow]
        /\ pc = [w \in Worker |-> "idle"]
        /\ req = [w \in Worker |-> None]
        /\ held = [w \in Worker |-> FALSE]

Goto(w, s, r) == /\ pc' = [pc EXCEPT ![w] = s]
                 /\ req' = [req EXCEPT ![w] = r]

Answer(w) == Goto(w, "idle", None)

-----------------------------------------------------------------------------
(* add_friend and block_user. *)

\* get_user_profile_by_id of the contact loads its contacts in both directions
\* too (lazy="selectin"), and with them the row in question, if there is one.
Put(w) ==
    /\ pc[w] = "idle"
    /\ \E p \in Pair, s \in Status : Goto(w, "select", Ask(p, s, contacts[p]))
    /\ UNCHANGED contacts

\* The session returns the object it has for a primary key.
Loaded(r, m) == IF m.id = r.cached.id THEN r.cached.status ELSE m.status

\* get_contact_entry.
Select(w) ==
    /\ pc[w] = "select"
    /\ \/ TheRow(w) # NoRow /\ Goto(w, "update", Holding(req[w], TheRow(w).id,
                                                         Loaded(req[w], TheRow(w))))
       \/ TheRow(w) = NoRow /\ Goto(w, "insert", req[w])
    /\ UNCHANGED contacts

\* mutants: an update that finds no row makes one, or goes unnoticed.
CommitUpdateBlind(w) ==
    /\ pc[w] = "update"
    /\ contacts' = [contacts EXCEPT ![req[w].pair].status = req[w].status]
    /\ Goto(w, "refresh", req[w])
CommitUpdateUnnoticed(w) ==
    /\ pc[w] = "update"
    /\ contacts' = [contacts EXCEPT ![req[w].pair].status =
                       IF TheRow(w).id = req[w].row THEN req[w].status ELSE @]
    /\ Goto(w, "refresh", req[w])

\* UPDATE by primary key, sent only if the status differs from the one loaded;
\* StaleDataError when the row is gone.
CommitUpdate(w) ==
    /\ pc[w] = "update"
    /\ \/ /\ req[w].status = req[w].seen
          /\ Goto(w, "refresh", req[w])
          /\ UNCHANGED contacts
       \/ /\ req[w].status # req[w].seen
          /\ TheRow(w).id = req[w].row
          /\ contacts' = [contacts EXCEPT ![req[w].pair].status = req[w].status]
          /\ Goto(w, "refresh", req[w])
       \/ /\ req[w].status # req[w].seen
          /\ TheRow(w).id # req[w].row
          /\ Answer(w)
          /\ UNCHANGED contacts

\* mutant: only the insert is tried again.
InsertAgain(w) == Goto(w, "insert", req[w])
\* IntegrityError: the rollback expires what the session has loaded, and
\* add_or_update_contact starts over.
Retry(w) == Goto(w, "select", [req[w] EXCEPT !.cached = NoRow])

CommitInsert(w) ==
    /\ pc[w] = "insert"
    /\ \/ /\ TheRow(w) = NoRow
          /\ \E r \in RowId :
                /\ FreshRow(r)
                /\ contacts' = [contacts EXCEPT ![req[w].pair] =
                                   [id |-> r, status |-> req[w].status]]
                /\ Goto(w, "refresh", [req[w] EXCEPT !.row = r])
       \/ /\ TheRow(w) # NoRow
          /\ Retry(w)
          /\ UNCHANGED contacts

\* The row is read again for the answer; an error when it is gone.
Refresh(w) ==
    /\ pc[w] = "refresh"
    /\ Answer(w)
    /\ UNCHANGED contacts

-----------------------------------------------------------------------------
(* remove_contact. *)

\* 404 when there is no such contact.
Remove(w) ==
    /\ pc[w] = "idle"
    /\ \E p \in Pair :
        /\ contacts[p] # NoRow
        /\ Goto(w, "delete", Holding(Ask(p, NotAContact, NoRow), contacts[p].id, contacts[p].status))
    /\ UNCHANGED contacts

\* mutant: takes the user off the contact's list too.
CommitDeleteBoth(w) ==
    /\ pc[w] = "delete"
    /\ LET p == req[w].pair
       IN  contacts' = [q \in Pair |-> IF q \in {p, <<p[2], p[1]>>} THEN NoRow ELSE contacts[q]]
    /\ Answer(w)

\* DELETE by primary key: no error when the row is gone already.
CommitDelete(w) ==
    /\ pc[w] = "delete"
    /\ \/ /\ TheRow(w).id = req[w].row
          /\ contacts' = [contacts EXCEPT ![req[w].pair] = NoRow]
       \/ /\ TheRow(w).id # req[w].row
          /\ UNCHANGED contacts
    /\ Answer(w)

-----------------------------------------------------------------------------
\* An await raises; what was committed stays.
Abort(w) ==
    /\ pc[w] # "idle"
    /\ Answer(w)
    /\ UNCHANGED contacts

Handle(w) == \/ Select(w) \/ CommitUpdate(w) \/ CommitInsert(w)
             \/ Refresh(w) \/ CommitDelete(w)

\* The pair is as the request wants it.
Granted(w) == TheRow(w).status = req[w].status

Remember == held' = [w \in Worker |-> pc'[w] # "idle" /\ (held[w] \/ Granted(w)')]

Next == /\ \E w \in Worker : Put(w) \/ Remove(w) \/ Handle(w) \/ Abort(w)
        /\ Remember

\* The event loop resumes a request, and the database answers it; nobody has
\* to send one, and nothing has to fail.
Fairness == \A w \in Worker : WF_vars(Handle(w) /\ Remember)

Spec == Init /\ [][Next]_vars
FairSpec == Spec /\ Fairness

-----------------------------------------------------------------------------
(* Properties. *)

\* The table and the requests hold values of their types.
TypeOK ==
    /\ contacts \in [Pair -> Row]
    /\ pc \in [Worker -> Steps]
    /\ req \in [Worker -> Request \cup {None}]
    /\ held \in [Worker -> BOOLEAN]

\* A request that is about to be answered as done: the contact was as it asks
\* at some time since it arrived, although its UPDATE may have been left out on
\* the word of a row loaded earlier, and others may have changed it since.
WishWasGranted == \A w \in Worker : pc[w] = "refresh" => held[w]

\* add_or_update_contact starts over as long as others get in between: once all
\* other requests are answered, so is this one.
AnsweredWhenAlone ==
    \A w \in Worker :
        <>[](\A v \in Worker \ {w} : pc[v] = "idle") => []<>(pc[w] = "idle")

\* Each request writes its own pair, at most once, and what it was asked to:
\* the requests implement the book of contacts.
Wish == [pair : Pair, status : AnyStatus, written : BOOLEAN]
ASSUME WishAssumption == None \notin Wish

WishOf(s, r) ==
    IF s = "idle" THEN None
    ELSE [pair |-> r.pair, status |-> r.status,
          written |-> s = "refresh" /\ r.seen # r.status]
BookOf == [p \in Pair |-> contacts[p].status]
Wishes == [w \in Worker |-> WishOf(pc[w], req[w])]
Book == INSTANCE ContactBook WITH book <- BookOf, wish <- Wishes
ImplementsContactBook == Book!Spec
=============================================================================
