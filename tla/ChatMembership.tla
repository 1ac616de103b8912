--------------------------- MODULE ChatMembership ---------------------------
(***************************************************************************)
(* The chat-service: chats and their member rows in PostgreSQL, the HTTP   *)
(* handlers of app/api.py that change them, and the Kafka topic of chat    *)
(* events.                                                                 *)
(*                                                                         *)
(* A handler is a coroutine, and every await in it lets other handlers     *)
(* run: the model has one action per database round trip.  A request past  *)
(* an await holds only what it loaded (its role check, the primary key and *)
(* the role of the row it found), which may be out of date when it         *)
(* commits.  The database runs at READ COMMITTED, so each statement sees   *)
(* every earlier commit, and the statements flushed by one commit take     *)
(* effect together.                                                        *)
(***************************************************************************)
EXTENDS Naturals, Sequences, FiniteSets

CONSTANTS
    User,       \* user ids, as they come out of a token or of a URL
    ChatId,     \* primary keys of chats (uuid4, never used twice)
    RowId,      \* primary keys of chat_members
    Worker,     \* requests being served at the same time
    RetainedEvents, \* how many of the last events the Kafka topic keeps
    None

ASSUME NoneAssumption == None \notin User \cup ChatId \cup RowId
ASSUME RetentionAssumption == RetainedEvents \in Nat

VARIABLES
    chat,       \* table chats: the type of each row; "unused" and "deleted" ids have none
    members,    \* table chat_members
    pc,         \* the next step of each request
    req,        \* what each request was given and has loaded so far
    topic       \* the events retained by Kafka, oldest first

vars == <<chat, members, pc, req, topic>>

-----------------------------------------------------------------------------
(* The tables and the requests.  Definitions marked "mutant" are faulty     *)
(* versions of the one that follows, for checking that a property notices. *)

ChatType == {"DM", "GROUP", "CHANNEL"}
MemberRole == {"OWNER", "ADMIN", "MEMBER"}
MembersToo == {"OWNER", "ADMIN", "MEMBER"}   \* mutant
Managers == {"OWNER", "ADMIN"}

Row == [id : RowId, chat : ChatId, user : User, role : MemberRole]

\* The endpoints that open with get_member(chat, caller) and a role check.
ManagerOps == {"update", "add", "remove"}
OwnerOps == {"role", "delete"}
CheckedOps == ManagerOps \cup OwnerOps \cup {"leave"}
CreateOps == {"GROUP", "CHANNEL"}
Op == CheckedOps \cup CreateOps \cup {"dm"}

Steps == {"idle", "insert", "reload", "load", "commit", "publish"}

Request == [op : Op \cup {None}, user : User \cup {None}, chat : ChatId \cup {None},
            target : User \cup {None}, role : MemberRole \cup {None},
            row : RowId \cup {None}, seen : MemberRole \cup {None}]

\* A request as it arrives, with a row that it has loaded, and when it loads one
\* more: the session returns the object it already has for a primary key, with
\* the role it had then.
Ask(o, u, c, t, x) == [op |-> o, user |-> u, chat |-> c, target |-> t, role |-> x,
                       row |-> None, seen |-> None]
Holding(r, m) == [r EXCEPT !.row = m.id, !.seen = m.role]
Loading(r, m) == IF m.id = r.row THEN r ELSE Holding(r, m)

Blank == Ask(None, None, None, None, None)

EventType == {"chat_created", "chat_updated", "chat_deleted", "participant_added",
              "participant_removed", "participant_left", "role_updated"}
Event == [type : EventType, chat : ChatId \cup {None}, user : User \cup {None},
          role : MemberRole \cup {None}]

\* The rows a chat has, and the result of get_member's SELECT.
RowsOf(c) == {m \in members : m.chat = c}
RowsFor(c, u) == {m \in members : m.chat = c /\ m.user = u}

\* The chat row exists: for a SELECT, and for the foreign key of a member row.
ChatWasCreated(c) == chat[c] # "unused"     \* mutant
ChatExists(c) == chat[c] \in ChatType

\* A uuid4 is new: not in the table, and no request still holds it.
FreshRow(r) == /\ \A m \in members : m.id # r
               /\ \A w \in Worker : req[w].row # r

-----------------------------------------------------------------------------
(* Control flow of a request. *)

Init == /\ chat = [c \in ChatId |-> "unused"]
        /\ members = {}
        /\ pc = [w \in Worker |-> "idle"]
        /\ req = [w \in Worker |-> Blank]
        /\ topic = <<>>

\* The request goes on to step s, having loaded what r says.
Goto(w, s, r) == /\ pc' = [pc EXCEPT ![w] = s]
                 /\ req' = [req EXCEPT ![w] = r]

\* The response is sent, an error or not, and the session is closed.
Answer(w) == Goto(w, "idle", Blank)

At(w, s, ops) == pc[w] = s /\ req[w].op \in ops

-----------------------------------------------------------------------------
(* Creating chats.  A handler reaches its first statement without having   *)
(* read anything, so a request arrives with it.  A request that is refused *)
(* there (400, 403, or an exception of the query) changes nothing: it is   *)
(* the absence of an action.                                               *)

\* mutant: counts the rows of the caller only.
DmsOfCaller(u, t) ==
    {c \in ChatId : chat[c] = "DM" /\ Cardinality({m \in RowsOf(c) : m.user = u}) = 2}

\* The DM chats in which the two users have two rows between them.
DmsOf(u, t) ==
    {c \in ChatId : /\ chat[c] = "DM"
                    /\ Cardinality({m \in RowsOf(c) : m.user \in {u, t}}) = 2}

AnyTarget(u, t) == TRUE    \* mutant
NotYourself(u, t) == u # t

\* POST /chats/dm/{target_user_id}.  scalar_one_or_none: no DM -> make one,
\* one -> return it, more than one -> it raises.
GetOrCreateDm(w) ==
    /\ pc[w] = "idle"
    /\ \E u, t \in User :
        /\ NotYourself(u, t)
        /\ \/ DmsOf(u, t) = {} /\ Goto(w, "insert", Ask("dm", u, None, t, None))
           \/ \E c \in ChatId :
                 DmsOf(u, t) = {c} /\ Goto(w, "reload", Ask("dm", u, c, t, None))
    /\ UNCHANGED <<chat, members, topic>>

InsertDm(w) ==
    /\ At(w, "insert", {"dm"})
    /\ \E c \in ChatId, r, s \in RowId :
        /\ chat[c] = "unused" /\ FreshRow(r) /\ FreshRow(s) /\ r # s
        /\ chat' = [chat EXCEPT ![c] = "DM"]
        /\ members' = members \cup
              {[id |-> r, chat |-> c, user |-> req[w].user, role |-> "MEMBER"],
               [id |-> s, chat |-> c, user |-> req[w].target, role |-> "MEMBER"]}
        /\ Goto(w, "reload", [req[w] EXCEPT !.chat = c])
    /\ UNCHANGED topic

\* POST /chats/group and POST /chats/channel.
CreateRoom(w) ==
    /\ pc[w] = "idle"
    /\ \E u \in User, t \in CreateOps, c \in ChatId, r \in RowId :
        /\ chat[c] = "unused" /\ FreshRow(r)
        /\ chat' = [chat EXCEPT ![c] = t]
        /\ members' = members \cup {[id |-> r, chat |-> c, user |-> u, role |-> "OWNER"]}
        /\ Goto(w, "reload", Ask(t, u, c, None, None))
    /\ UNCHANGED topic

\* get_chat_with_members after the commit: the handler needs the chat to be
\* there still, chat.id fails on None.
ReloadChat(w) ==
    /\ At(w, "reload", CreateOps \cup {"dm"})
    /\ \/ ChatExists(req[w].chat) /\ Goto(w, "publish", req[w])
       \/ ~ChatExists(req[w].chat) /\ Answer(w)
    /\ UNCHANGED <<chat, members, topic>>

-----------------------------------------------------------------------------
(* The endpoints under /chats/{chat_id}.  Any caller may name any chat.    *)

\* get_member(c, u) finds one row m (it raises on two: scalar_one_or_none).
TheRowFor(c, u, m) == RowsFor(c, u) = {m}

\* mutant: any member will do.
CheckMembership(w, s, r, roles) ==
    /\ pc[w] = "idle"
    /\ \E m \in members : TheRowFor(r.chat, r.user, m) /\ Goto(w, s, Holding(r, m))
    /\ UNCHANGED <<chat, members, topic>>

\* The caller's one row has a role that suffices; else 403.
CheckCaller(w, s, r, roles) ==
    /\ pc[w] = "idle"
    /\ \E m \in members :
        /\ TheRowFor(r.chat, r.user, m)
        /\ m.role \in roles
        /\ Goto(w, s, Holding(r, m))
    /\ UNCHANGED <<chat, members, topic>>

UpdateChat(w) ==
    \E u \in User, c \in ChatId :
        CheckCaller(w, "load", Ask("update", u, c, None, None), Managers)

AddParticipant(w) ==
    \E u, t \in User, c \in ChatId :
        CheckCaller(w, "commit", Ask("add", u, c, t, None), Managers)

RemoveParticipant(w) ==
    \E u, t \in User, c \in ChatId :
        CheckCaller(w, "load", Ask("remove", u, c, t, None), Managers)

\* mutant: admins change roles too.
UpdateRoleByManager(w) ==
    \E u, t \in User, c \in ChatId, x \in MemberRole :
        CheckCaller(w, "load", Ask("role", u, c, t, x), Managers)

UpdateRole(w) ==
    \E u, t \in User, c \in ChatId, x \in MemberRole :
        CheckCaller(w, "load", Ask("role", u, c, t, x), {"OWNER"})

\* mutant: any member deletes.
DeleteChatByMember(w) ==
    \E u \in User, c \in ChatId :
        CheckCaller(w, "commit", Ask("delete", u, c, None, None), MemberRole)

\* mutant: the event goes out before the delete.
DeleteChatTooLate(w) ==
    \E u \in User, c \in ChatId :
        CheckCaller(w, "publish", Ask("delete", u, c, None, None), {"OWNER"})

DeleteChat(w) ==
    \E u \in User, c \in ChatId :
        CheckCaller(w, "commit", Ask("delete", u, c, None, None), {"OWNER"})

MayLeave(m) == m.role # "OWNER"

\* The caller's own row is the one to delete, unless it is an owner's.
LeaveChat(w) ==
    /\ pc[w] = "idle"
    /\ \E m \in members :
        /\ TheRowFor(m.chat, m.user, m)
        /\ MayLeave(m)
        /\ Goto(w, "commit", Holding(Ask("leave", m.user, m.chat, None, None), m))
    /\ UNCHANGED <<chat, members, topic>>

\* get_member(chat, target) of remove_participant and update_role.
LoadTarget(w) ==
    /\ At(w, "load", {"remove", "role"})
    /\ \/ \E m \in members :
            /\ TheRowFor(req[w].chat, req[w].target, m)
            /\ Goto(w, "commit", Loading(req[w], m))
       \/ /\ ~ \E m \in members : TheRowFor(req[w].chat, req[w].target, m)
          /\ Answer(w)
    /\ UNCHANGED <<chat, members, topic>>

\* get_chat_with_members of update_chat.
LoadChat(w) ==
    /\ At(w, "load", {"update"})
    /\ \/ ChatExists(req[w].chat) /\ Goto(w, "commit", req[w])
       \/ ~ChatExists(req[w].chat) /\ Answer(w)
    /\ UNCHANGED <<chat, members, topic>>

-----------------------------------------------------------------------------
(* The commits. *)

\* Only a changed name is written (a change inside the JSON settings is not
\* noticed by the ORM); the UPDATE of a deleted chat fails.
CommitUpdate(w) ==
    /\ At(w, "commit", {"update"})
    /\ \/ Goto(w, "publish", req[w])
       \/ ~ChatExists(req[w].chat) /\ Answer(w)
    /\ UNCHANGED <<chat, members, topic>>

\* A new row, whatever rows there are already; the foreign key needs the chat.
CommitAdd(w) ==
    /\ At(w, "commit", {"add"})
    /\ \/ /\ ChatExists(req[w].chat)
          /\ \E r \in RowId :
                /\ FreshRow(r)
                /\ members' = members \cup {[id |-> r, chat |-> req[w].chat,
                                             user |-> req[w].target, role |-> "MEMBER"]}
          /\ Goto(w, "publish", req[w])
       \/ /\ ~ChatExists(req[w].chat)
          /\ Answer(w)
          /\ UNCHANGED members
    /\ UNCHANGED <<chat, topic>>

\* mutant: deletes the row only as it was loaded, silently not otherwise.
CommitRemoveUnchanged(w) ==
    /\ At(w, "commit", {"remove", "leave"})
    /\ members' = {m \in members : m.id # req[w].row \/ m.role # req[w].seen}
    /\ Goto(w, "publish", req[w])
    /\ UNCHANGED <<chat, topic>>

\* DELETE by primary key: no error when the row is gone already.
CommitRemove(w) ==
    /\ At(w, "commit", {"remove", "leave"})
    /\ members' = {m \in members : m.id # req[w].row}
    /\ Goto(w, "publish", req[w])
    /\ UNCHANGED <<chat, topic>>

\* mutant: UPDATE by the chat of the row.
SetRoleInChat(m, r, x) == IF \E n \in members : n.id = r /\ n.chat = m.chat
                          THEN [m EXCEPT !.role = x] ELSE m

SetRole(m, r, x) == IF m.id = r THEN [m EXCEPT !.role = x] ELSE m

\* UPDATE by primary key, sent only if the role differs from the one loaded;
\* StaleDataError when the row is gone.
CommitRole(w) ==
    /\ At(w, "commit", {"role"})
    /\ \/ /\ req[w].role = req[w].seen
          /\ Goto(w, "publish", req[w])
          /\ UNCHANGED members
       \/ /\ req[w].role # req[w].seen
          /\ \E m \in members : m.id = req[w].row
          /\ members' = {SetRole(m, req[w].row, req[w].role) : m \in members}
          /\ Goto(w, "publish", req[w])
       \/ /\ req[w].role # req[w].seen
          /\ \A m \in members : m.id # req[w].row
          /\ Answer(w)
          /\ UNCHANGED members
    /\ UNCHANGED <<chat, topic>>

\* DELETE FROM chats cascades to the member rows; no error when it is gone already.
CommitDelete(w) ==
    /\ At(w, "commit", {"delete"})
    /\ chat' = [chat EXCEPT ![req[w].chat] = "deleted"]
    /\ members' = {m \in members : m.chat # req[w].chat}
    /\ Goto(w, "publish", req[w])
    /\ UNCHANGED topic

-----------------------------------------------------------------------------
(* The event, and what may go wrong at any await. *)

EventOf(r) ==
    [type |-> CASE r.op \in CreateOps \cup {"dm"} -> "chat_created"
                [] r.op = "update" -> "chat_updated"
                [] r.op = "delete" -> "chat_deleted"
                [] r.op = "add" -> "participant_added"
                [] r.op = "remove" -> "participant_removed"
                [] r.op = "leave" -> "participant_left"
                [] r.op = "role" -> "role_updated",
     chat |-> r.chat,
     user |-> CASE r.op = "leave" -> r.user
                [] r.op \in {"add", "remove", "role"} -> r.target
                [] OTHER -> None,
     role |-> r.role]

RetainAll(s) == s    \* mutant

\* Kafka appends the event and drops the oldest beyond its retention.
Retain(s) == IF Len(s) <= RetainedEvents THEN s ELSE Tail(s)

\* publish_event: send_and_wait, then the response.
Publish(w) ==
    /\ pc[w] = "publish"
    /\ topic' = Retain(Append(topic, EventOf(req[w])))
    /\ Answer(w)
    /\ UNCHANGED <<chat, members>>

\* An await raises (database or broker unreachable, process killed): what was
\* not committed is rolled back, what was committed stays, the event is lost.
Abort(w) ==
    /\ pc[w] # "idle"
    /\ Answer(w)
    /\ UNCHANGED <<chat, members, topic>>

Arrive(w) == \/ GetOrCreateDm(w) \/ CreateRoom(w) \/ UpdateChat(w) \/ AddParticipant(w)
             \/ RemoveParticipant(w) \/ UpdateRole(w) \/ LeaveChat(w) \/ DeleteChat(w)

Handle(w) == \/ InsertDm(w) \/ ReloadChat(w) \/ LoadTarget(w) \/ LoadChat(w)
             \/ CommitUpdate(w) \/ CommitAdd(w) \/ CommitRemove(w)
             \/ CommitRole(w) \/ CommitDelete(w) \/ Publish(w)

Next == \E w \in Worker : Arrive(w) \/ Handle(w) \/ Abort(w)

Spec == Init /\ [][Next]_vars

-----------------------------------------------------------------------------
(* What the service keeps true. *)

\* The tables, the requests and the topic hold values of their types.
TypeOK ==
    /\ chat \in [ChatId -> ChatType \cup {"unused", "deleted"}]
    /\ members \subseteq Row
    /\ pc \in [Worker -> Steps]
    /\ req \in [Worker -> Request]
    /\ topic \in Seq(Event)
    /\ Len(topic) <= RetainedEvents

\* Every member row belongs to a chat that exists: a chat deleted between the
\* caller's check and the commit of add_participant leaves no row behind.
RowsHaveTheirChat == \A m \in members : chat[m.chat] \in ChatType

\* A request of the endpoints under /chats/{chat_id} that has passed the role
\* check of its caller and may still change the chat.
Cleared(w, ops, c) == /\ req[w].op \in ops
                      /\ req[w].chat = c
                      /\ pc[w] \in {"load", "commit", "publish"}

\* Nobody may change the roles in c or delete it: no row holds OWNER, and no
\* request was cleared while one did.
Unowned(c) == /\ chat[c] # "unused"
              /\ \A m \in RowsOf(c) : m.role # "OWNER"
              /\ \A w \in Worker : ~Cleared(w, OwnerOps, c)

\* Nobody may add to c or remove others from it either.
Unmanaged(c) == /\ chat[c] # "unused"
                /\ \A m \in RowsOf(c) : m.role \notin Managers
                /\ \A w \in Worker : ~Cleared(w, OwnerOps \cup ManagerOps, c)

\* Ownership is only ever passed on by an owner (update_role's check): once c
\* is unowned it stays so, whatever requests race, its rows keep the roles
\* they have, new rows are plain members, and c is never deleted.
RolesComeFromOwners ==
    [][\A c \in ChatId : Unowned(c) =>
          /\ Unowned(c)'
          /\ chat'[c] = chat[c]
          /\ \A m \in RowsOf(c)' : m \in members \/ m.role = "MEMBER"]_vars

\* Only owners and admins let people in: once c has none it stays so, and its
\* membership only shrinks (by leave_chat).
MembersComeFromManagers ==
    [][\A c \in ChatId : Unmanaged(c) =>
          Unmanaged(c)' /\ RowsOf(c)' \subseteq RowsOf(c)]_vars

\* A DM is between the two users it was made for: nobody else has a row in
\* it, nobody has two, and both are plain members.
DmIsAPair ==
    \A c \in ChatId : chat[c] = "DM" =>
        /\ \E u, t \in User : \A m \in RowsOf(c) : m.user \in {u, t} /\ m.role = "MEMBER"
        /\ \A m, n \in RowsOf(c) : m.user = n.user => m = n

\* No endpoint adds a third person to a DM, changes a role in it or deletes it.
DmOnlyShrinks ==
    [][\A c \in ChatId : chat[c] = "DM" =>
          chat'[c] = "DM" /\ RowsOf(c)' \subseteq RowsOf(c)]_vars

\* The answer of get_or_create_dm always has a chat to show: the re-read after
\* the commit, or after finding it, never comes back empty.
DmIsThereToReturn ==
    \A w \in Worker : At(w, "reload", {"dm"}) => chat[req[w].chat] = "DM"

\* An event tells of something that is committed and final, even if it was
\* overtaken by other events on its way: the chat was created, a chat reported
\* deleted is gone for good, and a DM is only ever reported created or left.
EventsAreTrue ==
    \A i \in 1..Len(topic) :
        LET e == topic[i]
        IN  /\ chat[e.chat] # "unused"
            /\ e.type = "chat_deleted" => chat[e.chat] = "deleted"
            /\ chat[e.chat] = "DM" => e.type \in {"chat_created", "participant_left"}

\* The row reported removed or left is no longer in the table.
RemovalIsDone ==
    \A w \in Worker : At(w, "publish", {"remove", "leave"}) =>
        \A m \in members : m.id # req[w].row

\* The requests implement the roster: whatever they load and whenever they
\* commit, each changes the chats at most once, as its caller was allowed to when
\* it came, in the chat and about the user that it names.
Wish == [op : Op, chat : ChatId, target : User \cup {None}, role : MemberRole \cup {None},
         done : BOOLEAN]
ASSUME WishAssumption == None \notin Wish

WishOf(s, r) ==
    IF r.op \in CheckedOps /\ s \in {"load", "commit", "publish"}
    THEN [op |-> r.op, chat |-> r.chat, target |-> IF r.op = "leave" THEN r.user ELSE r.target,
          role |-> r.role, done |-> s = "publish"]
    ELSE None
Wishes == [w \in Worker |-> WishOf(pc[w], req[w])]
RosterOf(rows) == {[chat |-> m.chat, user |-> m.user, role |-> m.role] : m \in rows}
Roster == INSTANCE ChatRoster WITH kind <- chat, roster <- RosterOf(members), wish <- Wishes
ImplementsChatRoster == Roster!Spec

-----------------------------------------------------------------------------
(* What the code and its tests say, and overlapping requests break. *)

\* Two users who are both in a DM have no other: get_or_create_dm returns the
\* one there is.
OneDmPerPair ==
    \A c, d \in ChatId :
        LET UsersOf(x) == {m.user : m \in RowsOf(x)}
        IN  /\ chat[c] = "DM" /\ chat[d] = "DM"
            /\ UsersOf(c) = UsersOf(d) /\ Cardinality(UsersOf(c)) = 2
            => c = d

\* "Owner cannot leave": the row that leave_chat deletes is never an owner's.
OwnerNeverLeaves ==
    [][\A w \in Worker : At(w, "commit", {"leave"}) /\ pc'[w] = "publish" =>
          \A m \in members : m.id = req[w].row => m.role # "OWNER"]_vars
=============================================================================
