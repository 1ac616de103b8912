------------------------ MODULE ChatMembershipProofs ------------------------
(***************************************************************************)
(* Proofs about ChatMembership, for any sets of users, chats, rows and     *)
(* workers.                                                                *)
(*                                                                         *)
(* The properties of the tables are not inductive by themselves: whether a *)
(* commit respects them depends on what its request loaded earlier.  The   *)
(* invariant IInv therefore also says what a request in flight knows: a    *)
(* request cleared by a role check names a chat that is not a DM, and the  *)
(* row it holds, if that is still in the table, is a row of the chat it    *)
(* names.                                                                  *)
(***************************************************************************)
EXTENDS ChatMembership, TLAPS

\* What is known of the arguments r of a request at step s.
RequestAt(s, r) ==
    /\ s = "insert" => /\ r.op = "dm"
                       /\ r.user \in User
                       /\ r.target \in User
                       /\ r.user # r.target
                       /\ r.row = None
    /\ s = "reload" => r.op \in CreateOps \cup {"dm"} /\ r.chat \in ChatId
    /\ s \in {"load", "commit", "publish"} => r.op \in Op /\ r.chat \in ChatId
    /\ s = "commit" /\ r.op = "add" => r.target \in User
    /\ s \in {"load", "commit"} /\ r.op = "role" => r.role \in MemberRole

RequestsOK == \A w \in Worker : RequestAt(pc[w], req[w])

Typed == TypeOK /\ RequestsOK

-----------------------------------------------------------------------------

\* Ask makes a well-formed request.
LEMMA AskType ==
    ASSUME NEW o \in Op \cup {None}, NEW u \in User \cup {None}, NEW c \in ChatId \cup {None},
           NEW t \in User \cup {None}, NEW x \in MemberRole \cup {None}
    PROVE  Ask(o, u, c, t, x) \in Request
BY DEF Ask, Request

\* The blank request is one.
LEMMA BlankIsRequest == Blank \in Request
BY AskType DEF Blank

\* Holding changes nothing of a request but the row it has loaded.
LEMMA HoldingType ==
    ASSUME NEW r \in Request, NEW m \in Row
    PROVE  /\ Holding(r, m) \in Request
           /\ Holding(r, m).op = r.op
           /\ Holding(r, m).user = r.user
           /\ Holding(r, m).chat = r.chat
           /\ Holding(r, m).target = r.target
           /\ Holding(r, m).role = r.role
           /\ Holding(r, m).row = m.id
           /\ Holding(r, m).seen = m.role
BY DEF Holding, Request, Row

\* Nor does Loading, which names the same row.
LEMMA LoadingType ==
    ASSUME NEW r \in Request, NEW m \in Row
    PROVE  /\ Loading(r, m) \in Request
           /\ Loading(r, m).op = r.op
           /\ Loading(r, m).chat = r.chat
           /\ Loading(r, m).target = r.target
           /\ Loading(r, m).role = r.role
           /\ Loading(r, m).row = m.id
<1>1. CASE m.id = r.row
  BY <1>1 DEF Loading
<1>2. CASE m.id # r.row
  BY <1>2, HoldingType DEF Loading
<1> QED
  BY <1>1, <1>2

\* The topic never grows beyond its retention.
LEMMA RetainType ==
    ASSUME NEW s \in Seq(Event), Len(s) <= RetainedEvents, NEW e \in Event
    PROVE  /\ Retain(Append(s, e)) \in Seq(Event)
           /\ Len(Retain(Append(s, e))) <= RetainedEvents
BY RetentionAssumption DEF Retain

\* Every endpoint has an event to publish.
LEMMA EventOfType ==
    ASSUME NEW r \in Request, r.op \in Op
    PROVE  EventOf(r) \in Event
BY DEF Request, Op, CheckedOps, ManagerOps, OwnerOps, CreateOps, EventOf, Event, EventType

\* Going on to a step that suits the request keeps the requests well-formed.
LEMMA GotoTyped ==
    ASSUME Typed, NEW w \in Worker, NEW s \in Steps, NEW r \in Request,
           RequestAt(s, r), Goto(w, s, r)
    PROVE  /\ pc' \in [Worker -> Steps]
           /\ req' \in [Worker -> Request]
           /\ RequestsOK'
BY DEF Typed, TypeOK, RequestsOK, Goto

\* So does answering it.
LEMMA AnswerTyped ==
    ASSUME Typed, NEW w \in Worker, Answer(w)
    PROVE  /\ pc' \in [Worker -> Steps]
           /\ req' \in [Worker -> Request]
           /\ RequestsOK'
<1>1. RequestAt("idle", Blank)
  BY DEF RequestAt
<1> QED
  BY <1>1, GotoTyped, BlankIsRequest DEF Answer, Steps

\* The service starts with empty tables and no requests.
LEMMA InitTyped == Init => Typed
BY BlankIsRequest, RetentionAssumption
   DEF Init, Typed, TypeOK, RequestsOK, RequestAt, Steps

\* A caller that passes its check arrives with a well-formed request.
LEMMA CheckCallerTyped ==
    ASSUME Typed, NEW w \in Worker, NEW s \in {"load", "commit"}, NEW r \in Request, NEW roles,
           RequestAt(s, r), CheckCaller(w, s, r, roles)
    PROVE  Typed'
<1> USE DEF Typed, TypeOK
<1>1. PICK m \in members : Goto(w, s, Holding(r, m)) /\ UNCHANGED <<chat, members, topic>>
  BY DEF CheckCaller
<1>2. Holding(r, m) \in Request /\ RequestAt(s, Holding(r, m))
  <2>1. m \in Row
    OBVIOUS
  <2> QED
    BY <2>1, HoldingType DEF RequestAt
<1> QED
  BY <1>1, <1>2, GotoTyped DEF Steps

\* Every step of every handler preserves the types.
LEMMA StepTyped == Typed /\ [Next]_vars => Typed'
<1> SUFFICES ASSUME Typed, [Next]_vars PROVE Typed'
  OBVIOUS
<1> USE DEF Typed, TypeOK, Steps
<1>1. ASSUME NEW w \in Worker, GetOrCreateDm(w) PROVE Typed'
  <2>1. PICK u, t \in User :
           /\ u # t
           /\ \/ Goto(w, "insert", Ask("dm", u, None, t, None))
              \/ \E c \in ChatId : Goto(w, "reload", Ask("dm", u, c, t, None))
    BY <1>1 DEF GetOrCreateDm, NotYourself
  <2>2. RequestAt("insert", Ask("dm", u, None, t, None))
    BY <2>1 DEF RequestAt, Ask
  <2>3. \A c \in ChatId : RequestAt("reload", Ask("dm", u, c, t, None))
    BY DEF RequestAt, Ask
  <2>4. \A c \in ChatId \cup {None} : Ask("dm", u, c, t, None) \in Request
    BY AskType DEF Op
  <2> QED
    BY <1>1, <2>1, <2>2, <2>3, <2>4, GotoTyped DEF GetOrCreateDm
<1>2. ASSUME NEW w \in Worker, CreateRoom(w) PROVE Typed'
  <2>1. PICK u \in User, t \in CreateOps, c \in ChatId, r \in RowId :
           /\ chat' = [chat EXCEPT ![c] = t]
           /\ members' = members \cup {[id |-> r, chat |-> c, user |-> u, role |-> "OWNER"]}
           /\ Goto(w, "reload", Ask(t, u, c, None, None))
    BY <1>2 DEF CreateRoom
  <2>2. RequestAt("reload", Ask(t, u, c, None, None))
    BY DEF RequestAt, Ask, CreateOps
  <2>3. Ask(t, u, c, None, None) \in Request
    BY AskType DEF Op
  <2>4. members' \subseteq Row /\ chat' \in [ChatId -> ChatType \cup {"unused", "deleted"}]
    BY <2>1 DEF Row, MemberRole, CreateOps, ChatType
  <2> QED
    BY <1>2, <2>1, <2>2, <2>3, <2>4, GotoTyped DEF CreateRoom
<1>3. ASSUME NEW w \in Worker, UpdateChat(w) PROVE Typed'
  <2>1. PICK u \in User, c \in ChatId :
           CheckCaller(w, "load", Ask("update", u, c, None, None), Managers)
    BY <1>3 DEF UpdateChat
  <2>2. RequestAt("load", Ask("update", u, c, None, None))
    BY DEF RequestAt, Ask, Op, CheckedOps, ManagerOps
  <2>3. Ask("update", u, c, None, None) \in Request
    BY AskType DEF Op, CheckedOps, ManagerOps
  <2> QED
    BY <2>1, <2>2, <2>3, CheckCallerTyped
<1>4. ASSUME NEW w \in Worker, AddParticipant(w) PROVE Typed'
  <2>1. PICK u, t \in User, c \in ChatId :
           CheckCaller(w, "commit", Ask("add", u, c, t, None), Managers)
    BY <1>4 DEF AddParticipant
  <2>2. RequestAt("commit", Ask("add", u, c, t, None))
    BY DEF RequestAt, Ask, Op, CheckedOps, ManagerOps
  <2>3. Ask("add", u, c, t, None) \in Request
    BY AskType DEF Op, CheckedOps, ManagerOps
  <2> QED
    BY <2>1, <2>2, <2>3, CheckCallerTyped
<1>5. ASSUME NEW w \in Worker, RemoveParticipant(w) PROVE Typed'
  <2>1. PICK u, t \in User, c \in ChatId :
           CheckCaller(w, "load", Ask("remove", u, c, t, None), Managers)
    BY <1>5 DEF RemoveParticipant
  <2>2. RequestAt("load", Ask("remove", u, c, t, None))
    BY DEF RequestAt, Ask, Op, CheckedOps, ManagerOps
  <2>3. Ask("remove", u, c, t, None) \in Request
    BY AskType DEF Op, CheckedOps, ManagerOps
  <2> QED
    BY <2>1, <2>2, <2>3, CheckCallerTyped
<1>6. ASSUME NEW w \in Worker, UpdateRole(w) PROVE Typed'
  <2>1. PICK u, t \in User, c \in ChatId, x \in MemberRole :
           CheckCaller(w, "load", Ask("role", u, c, t, x), {"OWNER"})
    BY <1>6 DEF UpdateRole
  <2>2. RequestAt("load", Ask("role", u, c, t, x))
    BY DEF RequestAt, Ask, Op, CheckedOps, OwnerOps
  <2>3. Ask("role", u, c, t, x) \in Request
    BY AskType DEF Op, CheckedOps, OwnerOps
  <2> QED
    BY <2>1, <2>2, <2>3, CheckCallerTyped
<1>7. ASSUME NEW w \in Worker, DeleteChat(w) PROVE Typed'
  <2>1. PICK u \in User, c \in ChatId :
           CheckCaller(w, "commit", Ask("delete", u, c, None, None), {"OWNER"})
    BY <1>7 DEF DeleteChat
  <2>2. RequestAt("commit", Ask("delete", u, c, None, None))
    BY DEF RequestAt, Ask, Op, CheckedOps, OwnerOps
  <2>3. Ask("delete", u, c, None, None) \in Request
    BY AskType DEF Op, CheckedOps, OwnerOps
  <2> QED
    BY <2>1, <2>2, <2>3, CheckCallerTyped
<1>8. ASSUME NEW w \in Worker, LeaveChat(w) PROVE Typed'
  <2>1. PICK m \in members :
           Goto(w, "commit", Holding(Ask("leave", m.user, m.chat, None, None), m))
    BY <1>8 DEF LeaveChat
  <2>2. m \in Row /\ m.user \in User /\ m.chat \in ChatId
    BY DEF Row
  <2>3. Ask("leave", m.user, m.chat, None, None) \in Request
    BY <2>2, AskType DEF Op, CheckedOps
  <2>4. RequestAt("commit", Holding(Ask("leave", m.user, m.chat, None, None), m))
    BY <2>2, <2>3, HoldingType DEF RequestAt, Ask, Op, CheckedOps
  <2> QED
    BY <1>8, <2>1, <2>2, <2>3, <2>4, HoldingType, GotoTyped DEF LeaveChat
<1>9. ASSUME NEW w \in Worker, InsertDm(w) PROVE Typed'
  <2>1. PICK c \in ChatId, r, s \in RowId :
           /\ chat' = [chat EXCEPT ![c] = "DM"]
           /\ members' = members \cup
                 {[id |-> r, chat |-> c, user |-> req[w].user, role |-> "MEMBER"],
                  [id |-> s, chat |-> c, user |-> req[w].target, role |-> "MEMBER"]}
           /\ Goto(w, "reload", [req[w] EXCEPT !.chat = c])
    BY <1>9 DEF InsertDm
  <2>2. /\ req[w] \in Request /\ req[w].op = "dm"
        /\ req[w].user \in User /\ req[w].target \in User
    BY <1>9 DEF InsertDm, At, RequestsOK, RequestAt
  <2>3. [req[w] EXCEPT !.chat = c] \in Request
    BY <2>2 DEF Request
  <2>4. RequestAt("reload", [req[w] EXCEPT !.chat = c])
    BY <2>2 DEF RequestAt, Request
  <2>5. members' \subseteq Row /\ chat' \in [ChatId -> ChatType \cup {"unused", "deleted"}]
    BY <2>1, <2>2 DEF Row, MemberRole, ChatType
  <2> QED
    BY <1>9, <2>1, <2>3, <2>4, <2>5, GotoTyped DEF InsertDm
<1>10. ASSUME NEW w \in Worker, ReloadChat(w) \/ LoadChat(w) \/ CommitUpdate(w) PROVE Typed'
  <2>1. req[w] \in Request
    OBVIOUS
  <2>2. \/ Answer(w)
        \/ Goto(w, "publish", req[w]) /\ RequestAt("publish", req[w])
        \/ Goto(w, "commit", req[w]) /\ RequestAt("commit", req[w])
    BY <1>10 DEF ReloadChat, LoadChat, CommitUpdate, At, RequestsOK, RequestAt, Op
  <2> QED
    BY <1>10, <2>1, <2>2, AnswerTyped, GotoTyped DEF ReloadChat, LoadChat, CommitUpdate
<1>11. ASSUME NEW w \in Worker, LoadTarget(w) PROVE Typed'
  <2>1. /\ req[w] \in Request
        /\ req[w].op \in {"remove", "role"} /\ RequestAt("load", req[w])
    BY <1>11 DEF LoadTarget, At, RequestsOK
  <2>2. CASE Answer(w)
    BY <1>11, <2>2, AnswerTyped DEF LoadTarget
  <2>3. ASSUME NEW m \in members, Goto(w, "commit", Loading(req[w], m)) PROVE Typed'
    <3>1. m \in Row
      OBVIOUS
    <3>2. RequestAt("commit", Loading(req[w], m))
      BY <2>1, <3>1, LoadingType DEF RequestAt
    <3> QED
      BY <1>11, <2>1, <2>3, <3>1, <3>2, LoadingType, GotoTyped DEF LoadTarget
  <2> QED
    BY <1>11, <2>2, <2>3 DEF LoadTarget
<1>12. ASSUME NEW w \in Worker, CommitAdd(w) PROVE Typed'
  <2>1. /\ req[w] \in Request /\ RequestAt("publish", req[w])
        /\ req[w].chat \in ChatId /\ req[w].target \in User
    BY <1>12 DEF CommitAdd, At, RequestsOK, RequestAt
  <2>2. members' \subseteq Row
    BY <1>12, <2>1 DEF CommitAdd, Row, MemberRole
  <2> QED
    BY <1>12, <2>1, <2>2, AnswerTyped, GotoTyped DEF CommitAdd
<1>13. ASSUME NEW w \in Worker, CommitRemove(w) PROVE Typed'
  <2>1. req[w] \in Request /\ RequestAt("publish", req[w])
    BY <1>13 DEF CommitRemove, At, RequestsOK, RequestAt
  <2> QED
    BY <1>13, <2>1, GotoTyped DEF CommitRemove
<1>14. ASSUME NEW w \in Worker, CommitRole(w) PROVE Typed'
  <2>1. /\ req[w] \in Request /\ RequestAt("publish", req[w])
        /\ req[w].role \in MemberRole
    BY <1>14 DEF CommitRole, At, RequestsOK, RequestAt
  <2>2. members' \subseteq Row
    BY <1>14, <2>1 DEF CommitRole, SetRole, Row
  <2> QED
    BY <1>14, <2>1, <2>2, AnswerTyped, GotoTyped DEF CommitRole
<1>15. ASSUME NEW w \in Worker, CommitDelete(w) PROVE Typed'
  <2>1. req[w] \in Request /\ RequestAt("publish", req[w])
    BY <1>15 DEF CommitDelete, At, RequestsOK, RequestAt
  <2> QED
    BY <1>15, <2>1, GotoTyped DEF CommitDelete
<1>16. ASSUME NEW w \in Worker, Publish(w) PROVE Typed'
  <2>1. req[w] \in Request /\ req[w].op \in Op
    BY <1>16 DEF Publish, RequestsOK, RequestAt
  <2> QED
    BY <1>16, <2>1, RetainType, EventOfType, AnswerTyped DEF Publish
<1>17. ASSUME NEW w \in Worker, Abort(w) PROVE Typed'
  BY <1>17, AnswerTyped DEF Abort
<1>18. CASE UNCHANGED vars
  BY <1>18 DEF vars, RequestsOK
<1> QED
  BY <1>1, <1>2, <1>3, <1>4, <1>5, <1>6, <1>7, <1>8, <1>9, <1>10, <1>11, <1>12, <1>13,
     <1>14, <1>15, <1>16, <1>17, <1>18 DEF Next, Arrive, Handle

\* Chats, rows, requests and events keep their types (TypeOK), whatever the
\* interleaving of the handlers.
THEOREM TypeCorrect == Spec => []TypeOK
<1>1. Typed => TypeOK
  BY DEF Typed
<1> QED
  BY InitTyped, StepTyped, <1>1, PTL DEF Spec

-----------------------------------------------------------------------------
(* The tables, and what a request in flight knows about them. *)

RowIdsAreUnique == \A m, n \in members : m.id = n.id => m = n

Tables == RowIdsAreUnique /\ RowsHaveTheirChat /\ DmIsAPair

\* Whom a request is about.
Subject(r) == IF r.op = "leave" THEN r.user ELSE r.target

\* What a request r at step s may rely on, in tables ch and ms that others go
\* on changing.
PlacedIn(ch, ms, s, r) ==
    /\ s \in {"reload", "publish"} /\ r.op = "dm" => ch[r.chat] = "DM"
    /\ s \in {"reload", "load", "commit", "publish"} => ch[r.chat] # "unused"
    /\ s \in {"load", "commit", "publish"} /\ r.op \in ManagerOps \cup OwnerOps
          => ch[r.chat] # "DM"
    /\ \A m \in ms : m.id = r.row => m.chat = r.chat
    /\ s = "commit" /\ r.op \in {"remove", "leave", "role"}
          => \A m \in ms : m.id = r.row => m.user = Subject(r)
    /\ s = "publish" /\ r.op \in {"remove", "leave"} => \A m \in ms : m.id # r.row
    /\ s = "publish" /\ r.op = "delete" => ch[r.chat] = "deleted"

RequestsPlaced == \A w \in Worker : PlacedIn(chat, members, pc[w], req[w])

IInv == Typed /\ Tables /\ RequestsPlaced

\* How any step may change the tables: an id is given to a new chat, or a chat
\* that is not a DM is deleted; a row keeps its chat and user, and a new row
\* has an id that no request holds.
TableStep ==
    /\ \A c \in ChatId : \/ chat'[c] = chat[c]
                         \/ chat[c] = "unused"
                         \/ chat[c] # "DM" /\ chat'[c] = "deleted"
    /\ \A m \in members' : \/ \E n \in members : n.id = m.id /\ n.chat = m.chat /\ n.user = m.user
                           \/ \A w \in Worker : req[w].row # m.id

\* The inductive invariant holds of empty tables.
LEMMA InitIInv == Init => IInv
<1> SUFFICES ASSUME Init PROVE IInv
  OBVIOUS
<1>1. Typed
  BY InitTyped
<1>2. Tables
  BY DEF Init, Tables, RowIdsAreUnique, RowsHaveTheirChat, DmIsAPair, RowsOf
<1>3. RequestsPlaced
  BY DEF Init, RequestsPlaced, PlacedIn
<1> QED
  BY <1>1, <1>2, <1>3 DEF IInv

\* Every step is a TableStep.  The chat a delete names is not a DM because the
\* request was cleared.
LEMMA StepTables ==
    ASSUME IInv, Next
    PROVE  TableStep
<1> USE DEF IInv, Typed, TypeOK, TableStep
<1>1. ASSUME NEW w \in Worker, Arrive(w), UNCHANGED <<chat, members>> PROVE TableStep
  BY <1>1
<1>2. ASSUME NEW w \in Worker, CreateRoom(w) PROVE TableStep
  BY <1>2 DEF CreateRoom, FreshRow
<1>3. ASSUME NEW w \in Worker, InsertDm(w) PROVE TableStep
  BY <1>3 DEF InsertDm, FreshRow
<1>4. ASSUME NEW w \in Worker, CommitAdd(w) PROVE TableStep
  BY <1>4 DEF CommitAdd, FreshRow
<1>5. ASSUME NEW w \in Worker, CommitRemove(w) PROVE TableStep
  BY <1>5 DEF CommitRemove
<1>6. ASSUME NEW w \in Worker, CommitRole(w) PROVE TableStep
  <2>1. ASSUME NEW m \in members PROVE /\ SetRole(m, req[w].row, req[w].role).id = m.id
                                       /\ SetRole(m, req[w].row, req[w].role).chat = m.chat
                                       /\ SetRole(m, req[w].row, req[w].role).user = m.user
    BY DEF SetRole, Row
  <2> QED
    BY <1>6, <2>1 DEF CommitRole
<1>7. ASSUME NEW w \in Worker, CommitDelete(w) PROVE TableStep
  <2>1. req[w].chat \in ChatId /\ chat[req[w].chat] # "DM"
    BY <1>7 DEF CommitDelete, At, RequestsOK, RequestAt, RequestsPlaced, PlacedIn, OwnerOps
  <2> QED
    BY <1>7, <2>1 DEF CommitDelete
<1>8. ASSUME NEW w \in Worker, Handle(w) \/ Abort(w), UNCHANGED <<chat, members>> PROVE TableStep
  BY <1>8
<1>9. ASSUME NEW w \in Worker, Arrive(w) PROVE CreateRoom(w) \/ UNCHANGED <<chat, members>>
  BY <1>9 DEF Arrive, GetOrCreateDm, UpdateChat, AddParticipant, RemoveParticipant,
              UpdateRole, DeleteChat, LeaveChat, CheckCaller
<1>10. ASSUME NEW w \in Worker, Handle(w)
       PROVE  \/ InsertDm(w) \/ CommitAdd(w) \/ CommitRemove(w) \/ CommitRole(w)
              \/ CommitDelete(w) \/ UNCHANGED <<chat, members>>
  BY <1>10 DEF Handle, ReloadChat, LoadTarget, LoadChat, CommitUpdate, Publish
<1>11. ASSUME NEW w \in Worker, Abort(w) PROVE UNCHANGED <<chat, members>>
  BY <1>11 DEF Abort
<1> QED
  BY <1>1, <1>2, <1>3, <1>4, <1>5, <1>6, <1>7, <1>8, <1>9, <1>10, <1>11 DEF Next

\* What a request may rely on survives the steps of the others.
LEMMA PlacedSurvives ==
    ASSUME IInv, TableStep, NEW w \in Worker
    PROVE  PlacedIn(chat', members', pc[w], req[w])
BY DEF IInv, Typed, RequestsOK, RequestAt, RequestsPlaced, TableStep, PlacedIn

\* When a request goes on to a step it may rely on, the others keep what they had.
LEMMA GotoPlaced ==
    ASSUME IInv, TableStep, NEW w \in Worker, NEW s, NEW r, Goto(w, s, r),
           PlacedIn(chat', members', s, r)
    PROVE  RequestsPlaced'
BY PlacedSurvives DEF IInv, Typed, TypeOK, Goto, RequestsPlaced

\* A request that is answered relies on nothing any more.
LEMMA AnswerPlaced ==
    ASSUME IInv, TableStep, NEW w \in Worker, Answer(w), members' \subseteq Row
    PROVE  RequestsPlaced'
<1>1. PlacedIn(chat', members', "idle", Blank)
  BY NoneAssumption DEF PlacedIn, Blank, Ask, Row
<1> QED
  BY <1>1, GotoPlaced DEF Answer

\* A caller with enough of a role is not in a DM, where everybody is a plain
\* member; and the chat it names exists, because its row does.
LEMMA CheckCallerPlaced ==
    ASSUME IInv, TableStep, NEW w \in Worker, NEW s \in {"load", "commit"}, NEW r \in Request,
           NEW roles \in SUBSET Managers, CheckCaller(w, s, r, roles),
           s = "commit" => r.op \in {"add", "delete"}
    PROVE  RequestsPlaced'
<1> USE DEF IInv, Typed, TypeOK
<1>1. PICK m \in members : m.chat = r.chat /\ m.role \in roles /\ Goto(w, s, Holding(r, m))
  BY DEF CheckCaller, TheRowFor, RowsFor
<1>2. chat[r.chat] \in ChatType /\ chat[r.chat] # "DM" /\ UNCHANGED <<chat, members>>
  BY <1>1 DEF CheckCaller, Tables, RowsHaveTheirChat, DmIsAPair, RowsOf, Managers, Row
<1>3. PlacedIn(chat', members', s, Holding(r, m))
  <2>1. Holding(r, m).chat = r.chat /\ Holding(r, m).row = m.id /\ Holding(r, m).op = r.op
    BY HoldingType
  <2> QED
    BY <1>1, <1>2, <2>1 DEF PlacedIn, ChatType, Tables, RowIdsAreUnique
<1> QED
  BY <1>1, <1>3, GotoPlaced

\* Every step leaves every request what it may rely on.
LEMMA StepPlaced ==
    ASSUME IInv, Next, TableStep, Typed'
    PROVE  RequestsPlaced'
<1> USE DEF IInv, Typed, TypeOK
<1>1. ASSUME NEW w \in Worker, GetOrCreateDm(w) PROVE RequestsPlaced'
  <2>1. PICK u, t \in User :
           \/ Goto(w, "insert", Ask("dm", u, None, t, None))
           \/ \E c \in ChatId : DmsOf(u, t) = {c} /\ Goto(w, "reload", Ask("dm", u, c, t, None))
    BY <1>1 DEF GetOrCreateDm
  <2>2. PlacedIn(chat, members, "insert", Ask("dm", u, None, t, None))
    BY NoneAssumption DEF PlacedIn, Ask, Row
  <2>3. ASSUME NEW c \in ChatId, DmsOf(u, t) = {c}
        PROVE  PlacedIn(chat, members, "reload", Ask("dm", u, c, t, None))
    BY <2>3, NoneAssumption DEF DmsOf, PlacedIn, Ask, Row
  <2> QED
    BY <1>1, <2>1, <2>2, <2>3, GotoPlaced DEF GetOrCreateDm
<1>2. ASSUME NEW w \in Worker, CreateRoom(w) PROVE RequestsPlaced'
  <2>1. PICK u \in User, t \in CreateOps, c \in ChatId :
           chat' = [chat EXCEPT ![c] = t] /\ Goto(w, "reload", Ask(t, u, c, None, None))
    BY <1>2 DEF CreateRoom
  <2>2. PlacedIn(chat', members', "reload", Ask(t, u, c, None, None))
    BY <2>1, NoneAssumption DEF PlacedIn, Ask, Row, CreateOps
  <2> QED
    BY <2>1, <2>2, GotoPlaced
<1>3. ASSUME NEW w \in Worker,
             \/ UpdateChat(w) \/ AddParticipant(w) \/ RemoveParticipant(w)
             \/ UpdateRole(w) \/ DeleteChat(w)
      PROVE  RequestsPlaced'
  <2>1. PICK o \in ManagerOps \cup OwnerOps, u \in User, c \in ChatId, t \in User \cup {None},
             x \in MemberRole \cup {None}, s \in {"load", "commit"}, roles \in SUBSET Managers :
           /\ CheckCaller(w, s, Ask(o, u, c, t, x), roles)
           /\ s = "commit" => o \in {"add", "delete"}
    BY <1>3 DEF UpdateChat, AddParticipant, RemoveParticipant, UpdateRole, DeleteChat,
                ManagerOps, OwnerOps, Managers
  <2>2. Ask(o, u, c, t, x) \in Request
    BY AskType DEF Op, CheckedOps
  <2> QED
    BY <2>1, <2>2, CheckCallerPlaced DEF Ask
<1>4. ASSUME NEW w \in Worker, LeaveChat(w) PROVE RequestsPlaced'
  <2>1. PICK m \in members :
           Goto(w, "commit", Holding(Ask("leave", m.user, m.chat, None, None), m))
    BY <1>4 DEF LeaveChat
  <2> DEFINE r == Ask("leave", m.user, m.chat, None, None)
  <2>2. m \in Row /\ r \in Request /\ r.op = "leave" /\ r.chat = m.chat
    BY AskType DEF Row, Op, CheckedOps, Ask
  <2>3. /\ Holding(r, m).op = "leave" /\ Holding(r, m).chat = m.chat
        /\ Holding(r, m).user = m.user
        /\ Holding(r, m).row = m.id /\ chat[m.chat] # "unused"
    BY <2>2, HoldingType DEF Tables, RowsHaveTheirChat, ChatType, Ask
  <2>4. PlacedIn(chat, members, "commit", Holding(r, m))
    BY <2>2, <2>3 DEF PlacedIn, Tables, RowIdsAreUnique, ManagerOps, OwnerOps, Subject
  <2> QED
    BY <1>4, <2>1, <2>4, GotoPlaced DEF LeaveChat
<1>5. ASSUME NEW w \in Worker, InsertDm(w) PROVE RequestsPlaced'
  <2>1. PICK c \in ChatId, q, s \in RowId :
           /\ FreshRow(q) /\ FreshRow(s)
           /\ chat' = [chat EXCEPT ![c] = "DM"]
           /\ members' = members \cup
                 {[id |-> q, chat |-> c, user |-> req[w].user, role |-> "MEMBER"],
                  [id |-> s, chat |-> c, user |-> req[w].target, role |-> "MEMBER"]}
           /\ Goto(w, "reload", [req[w] EXCEPT !.chat = c])
    BY <1>5 DEF InsertDm
  <2>2. req[w] \in Request /\ req[w].op = "dm" /\ req[w].row = None
    BY <1>5 DEF InsertDm, At, RequestsOK, RequestAt
  <2>3. PlacedIn(chat', members', "reload", [req[w] EXCEPT !.chat = c])
    BY <2>1, <2>2, NoneAssumption DEF PlacedIn, Request, Row, ManagerOps, OwnerOps
  <2> QED
    BY <2>1, <2>3, GotoPlaced
<1>6. ASSUME NEW w \in Worker, ReloadChat(w) PROVE RequestsPlaced'
  <2>1. CASE Answer(w)
    BY <1>6, <2>1, AnswerPlaced
  <2>2. CASE Goto(w, "publish", req[w])
    <3>1. At(w, "reload", CreateOps \cup {"dm"}) /\ UNCHANGED <<chat, members>>
      BY <1>6 DEF ReloadChat
    <3>2. PlacedIn(chat', members', "publish", req[w])
      BY <3>1 DEF At, PlacedIn, RequestsPlaced, ManagerOps, OwnerOps, CreateOps
    <3> QED
      BY <2>2, <3>2, GotoPlaced
  <2> QED
    BY <1>6, <2>1, <2>2 DEF ReloadChat
<1>7. ASSUME NEW w \in Worker, LoadTarget(w) PROVE RequestsPlaced'
  <2>1. CASE Answer(w)
    BY <1>7, <2>1, AnswerPlaced
  <2>2. ASSUME NEW m \in members, TheRowFor(req[w].chat, req[w].target, m),
               Goto(w, "commit", Loading(req[w], m))
        PROVE  RequestsPlaced'
    <3>1. /\ At(w, "load", {"remove", "role"}) /\ UNCHANGED <<chat, members>>
          /\ m.chat = req[w].chat /\ m.user = req[w].target
      BY <1>7, <2>2 DEF LoadTarget, TheRowFor, RowsFor
    <3>2. /\ Loading(req[w], m).op = req[w].op /\ Loading(req[w], m).chat = req[w].chat
          /\ Loading(req[w], m).target = req[w].target
          /\ Loading(req[w], m).row = m.id
      BY LoadingType
    <3>3. PlacedIn(chat', members', "commit", Loading(req[w], m))
      BY <3>1, <3>2 DEF At, PlacedIn, RequestsPlaced, Tables, RowIdsAreUnique, Subject
    <3> QED
      BY <2>2, <3>3, GotoPlaced
  <2> QED
    BY <1>7, <2>1, <2>2 DEF LoadTarget
<1>8. ASSUME NEW w \in Worker, LoadChat(w) \/ CommitUpdate(w) PROVE RequestsPlaced'
  <2>1. CASE Answer(w)
    BY <1>8, <2>1, AnswerPlaced DEF LoadChat, CommitUpdate
  <2>2. ASSUME NEW s \in {"commit", "publish"}, Goto(w, s, req[w]) PROVE RequestsPlaced'
    <3>1. pc[w] \in {"load", "commit"} /\ req[w].op = "update" /\ UNCHANGED <<chat, members>>
      BY <1>8 DEF LoadChat, CommitUpdate, At
    <3>2. PlacedIn(chat', members', s, req[w])
      BY <3>1 DEF PlacedIn, RequestsPlaced, ManagerOps
    <3> QED
      BY <2>2, <3>2, GotoPlaced
  <2> QED
    BY <1>8, <2>1, <2>2 DEF LoadChat, CommitUpdate
<1>9. ASSUME NEW w \in Worker, CommitAdd(w) PROVE RequestsPlaced'
  <2>1. CASE Answer(w)
    BY <1>9, <2>1, AnswerPlaced
  <2>2. CASE Goto(w, "publish", req[w])
    <3>1. At(w, "commit", {"add"})
      BY <1>9 DEF CommitAdd
    <3>2. PlacedIn(chat', members', "commit", req[w])
      BY <3>1, PlacedSurvives DEF At
    <3>3. PlacedIn(chat', members', "publish", req[w])
      BY <3>1, <3>2 DEF At, PlacedIn
    <3> QED
      BY <2>2, <3>3, GotoPlaced
  <2> QED
    BY <1>9, <2>1, <2>2 DEF CommitAdd
<1>10. ASSUME NEW w \in Worker, CommitRemove(w) PROVE RequestsPlaced'
  <2>1. PlacedIn(chat', members', "publish", req[w])
    BY <1>10 DEF CommitRemove, At, PlacedIn, RequestsPlaced
  <2> QED
    BY <1>10, <2>1, GotoPlaced DEF CommitRemove
<1>11. ASSUME NEW w \in Worker, CommitRole(w) PROVE RequestsPlaced'
  <2>1. CASE Answer(w)
    BY <1>11, <2>1, AnswerPlaced
  <2>2. CASE Goto(w, "publish", req[w])
    <3>1. At(w, "commit", {"role"})
      BY <1>11 DEF CommitRole
    <3>2. PlacedIn(chat', members', "commit", req[w])
      BY <3>1, PlacedSurvives DEF At
    <3>3. PlacedIn(chat', members', "publish", req[w])
      BY <3>1, <3>2 DEF At, PlacedIn
    <3> QED
      BY <2>2, <3>3, GotoPlaced
  <2> QED
    BY <1>11, <2>1, <2>2 DEF CommitRole
<1>12. ASSUME NEW w \in Worker, CommitDelete(w) PROVE RequestsPlaced'
  <2>1. req[w].chat \in ChatId
    BY <1>12 DEF CommitDelete, At, RequestsOK, RequestAt
  <2>2. PlacedIn(chat', members', "publish", req[w])
    BY <1>12, <2>1 DEF CommitDelete, At, PlacedIn, RequestsPlaced
  <2> QED
    BY <1>12, <2>2, GotoPlaced DEF CommitDelete
<1>13. ASSUME NEW w \in Worker, Publish(w) \/ Abort(w) PROVE RequestsPlaced'
  BY <1>13, AnswerPlaced DEF Publish, Abort
<1> QED
  BY <1>1, <1>2, <1>3, <1>4, <1>5, <1>6, <1>7, <1>8, <1>9, <1>10, <1>11, <1>12, <1>13
     DEF Next, Arrive, Handle

-----------------------------------------------------------------------------
(* The rows of a chat change only as a cleared request, a leaver or the    *)
(* creation of the chat says.                                              *)

\* In one step a chat that exists gets a row or a changed role, or is deleted,
\* only from a request that was cleared for it.
LEMMA StepRows ==
    ASSUME IInv, Next, NEW c \in ChatId, chat[c] # "unused",
           \A w \in Worker : ~Cleared(w, OwnerOps, c)
    PROVE  /\ chat'[c] = chat[c]
           /\ \A m \in RowsOf(c)' : m \in members \/ m.role = "MEMBER"
           /\ (\A w \in Worker : ~Cleared(w, ManagerOps, c)) => RowsOf(c)' \subseteq RowsOf(c)
<1> DEFINE Goal == /\ chat'[c] = chat[c]
                   /\ \A m \in members' : m.chat = c => m \in members \/ m.role = "MEMBER"
                   /\ (\A w \in Worker : ~Cleared(w, ManagerOps, c))
                         => \A m \in members' : m.chat = c => m \in members
<1> USE DEF IInv, Typed, TypeOK
<1>1. ASSUME UNCHANGED <<chat, members>> PROVE Goal
  BY <1>1
<1>2. ASSUME NEW w \in Worker, CreateRoom(w) PROVE Goal
  BY <1>2 DEF CreateRoom
<1>3. ASSUME NEW w \in Worker, InsertDm(w) PROVE Goal
  BY <1>3 DEF InsertDm
<1>4. ASSUME NEW w \in Worker, CommitAdd(w) PROVE Goal
  <2>1. req[w].chat = c => ~ \A v \in Worker : ~Cleared(v, ManagerOps, c)
    BY <1>4 DEF CommitAdd, At, Cleared, ManagerOps
  <2>2. UNCHANGED chat
    BY <1>4 DEF CommitAdd
  <2>3. \A m \in members' : m \in members \/ (m.chat = req[w].chat /\ m.role = "MEMBER")
    BY <1>4 DEF CommitAdd
  <2> QED
    BY <2>1, <2>2, <2>3
<1>5. ASSUME NEW w \in Worker, CommitRemove(w) PROVE Goal
  BY <1>5 DEF CommitRemove
<1>6. ASSUME NEW w \in Worker, CommitRole(w) PROVE Goal
  <2>1. req[w].chat # c
    BY <1>6 DEF CommitRole, At, Cleared, OwnerOps
  <2>2. ASSUME NEW m \in members, SetRole(m, req[w].row, req[w].role).chat = c
        PROVE  SetRole(m, req[w].row, req[w].role) = m
    BY <2>1, <2>2 DEF SetRole, RequestsPlaced, PlacedIn, Row
  <2> QED
    BY <1>6, <2>2 DEF CommitRole
<1>7. ASSUME NEW w \in Worker, CommitDelete(w) PROVE Goal
  <2>1. req[w].chat # c
    BY <1>7 DEF CommitDelete, At, Cleared, OwnerOps
  <2> QED
    BY <1>7, <2>1 DEF CommitDelete
<1>8. ASSUME NEW w \in Worker, Arrive(w) PROVE CreateRoom(w) \/ UNCHANGED <<chat, members>>
  BY <1>8 DEF Arrive, GetOrCreateDm, UpdateChat, AddParticipant, RemoveParticipant,
              UpdateRole, DeleteChat, LeaveChat, CheckCaller
<1>9. ASSUME NEW w \in Worker, Handle(w)
      PROVE  \/ InsertDm(w) \/ CommitAdd(w) \/ CommitRemove(w) \/ CommitRole(w)
             \/ CommitDelete(w) \/ UNCHANGED <<chat, members>>
  BY <1>9 DEF Handle, ReloadChat, LoadTarget, LoadChat, CommitUpdate, Publish
<1>10. Goal
  <2>1. ASSUME NEW w \in Worker, Abort(w) PROVE UNCHANGED <<chat, members>>
    BY <2>1 DEF Abort
  <2> HIDE DEF Goal
  <2> QED
    BY <2>1, <1>1, <1>2, <1>3, <1>4, <1>5, <1>6, <1>7, <1>8, <1>9 DEF Next
<1> QED
  BY <1>10 DEF RowsOf

\* In one step a request is cleared for c only if it was already, or if its
\* caller has a row in c with the role that its endpoint asks for.
LEMMA StepCleared ==
    ASSUME IInv, Next, NEW c \in ChatId, NEW ops \in SUBSET (ManagerOps \cup OwnerOps),
           NEW v \in Worker, Cleared(v, ops, c)', ~Cleared(v, ops, c)
    PROVE  \/ /\ ops \cap ManagerOps # {}
              /\ \E m \in RowsOf(c) : m.role \in Managers
           \/ \E m \in RowsOf(c) : m.role = "OWNER"
<1> DEFINE Goal == \/ /\ ops \cap ManagerOps # {}
                      /\ \E m \in members : m.chat = c /\ m.role \in Managers
                   \/ \E m \in members : m.chat = c /\ m.role = "OWNER"
<1> USE DEF IInv, Typed, TypeOK
<1>1. ASSUME NEW w \in Worker, NEW s \in Steps, NEW o \in ManagerOps, NEW d \in ChatId,
             NEW u \in User, NEW t, CheckCaller(w, s, Ask(o, u, d, t, None), Managers)
      PROVE  Goal
  BY <1>1 DEF CheckCaller, Goto, Holding, Cleared, Ask, TheRowFor, RowsFor
<1>2. ASSUME NEW w \in Worker, NEW s \in Steps, NEW o \in OwnerOps, NEW d \in ChatId,
             NEW u \in User, NEW t, NEW x, CheckCaller(w, s, Ask(o, u, d, t, x), {"OWNER"})
      PROVE  Goal
  BY <1>2 DEF CheckCaller, Goto, Holding, Cleared, Ask, TheRowFor, RowsFor
<1>3. ASSUME NEW w \in Worker,
             UpdateChat(w) \/ AddParticipant(w) \/ RemoveParticipant(w)
      PROVE  Goal
  BY <1>1, <1>3 DEF UpdateChat, AddParticipant, RemoveParticipant, ManagerOps, Steps
<1>4. ASSUME NEW w \in Worker, UpdateRole(w) \/ DeleteChat(w) PROVE Goal
  BY <1>2, <1>4 DEF UpdateRole, DeleteChat, OwnerOps, Steps
<1>5. ASSUME NEW w \in Worker, Answer(w) \/ Goto(w, "publish", req[w]) \/ Goto(w, "commit", req[w]),
             pc[w] \in {"load", "commit", "publish"} \/ req[w].op \in CreateOps \cup {"dm"} \/ Answer(w)
      PROVE  FALSE
  BY <1>5 DEF Answer, Goto, Cleared, Blank, Ask, CreateOps, ManagerOps, OwnerOps
<1>6. ASSUME NEW w \in Worker, GetOrCreateDm(w) \/ CreateRoom(w) \/ InsertDm(w) PROVE FALSE
  BY <1>6 DEF GetOrCreateDm, CreateRoom, InsertDm, Goto, Cleared, Ask
<1>7. ASSUME NEW w \in Worker, LeaveChat(w) PROVE FALSE
  <2>1. PICK m \in members :
           Goto(w, "commit", Holding(Ask("leave", m.user, m.chat, None, None), m))
    BY <1>7 DEF LeaveChat
  <2>2. Ask("leave", m.user, m.chat, None, None) \in Request
    BY AskType DEF Op, CheckedOps, Row
  <2>3. Holding(Ask("leave", m.user, m.chat, None, None), m).op = "leave"
    BY <2>2, HoldingType DEF Ask
  <2> QED
    BY <2>1, <2>3 DEF Goto, Cleared, ManagerOps, OwnerOps
<1>8. ASSUME NEW w \in Worker, LoadTarget(w) PROVE FALSE
  <2>1. ASSUME NEW m \in members, Goto(w, "commit", Loading(req[w], m)) PROVE FALSE
    <3>1. Loading(req[w], m).op = req[w].op /\ Loading(req[w], m).chat = req[w].chat
      BY LoadingType
    <3> QED
      BY <1>8, <2>1, <3>1 DEF LoadTarget, At, Goto, Cleared
  <2> QED
    BY <1>5, <1>8, <2>1 DEF LoadTarget
<1>9. ASSUME NEW w \in Worker,
             \/ ReloadChat(w) \/ LoadChat(w) \/ CommitUpdate(w) \/ CommitAdd(w) \/ CommitRemove(w)
             \/ CommitRole(w) \/ CommitDelete(w) \/ Publish(w) \/ Abort(w)
      PROVE  FALSE
  BY <1>5, <1>9 DEF ReloadChat, LoadChat, CommitUpdate, CommitAdd, CommitRemove,
                    CommitRole, CommitDelete, Publish, Abort, At
<1>10. Goal
  BY <1>3, <1>4, <1>6, <1>7, <1>8, <1>9 DEF Next, Arrive, Handle
<1> QED
  BY <1>10 DEF RowsOf

-----------------------------------------------------------------------------
(* The table invariants, and the theorems. *)

\* Nobody is an owner or an admin of a DM, and no request is cleared for one.
LEMMA DmIsUnmanaged ==
    ASSUME IInv, NEW c \in ChatId, chat[c] = "DM"
    PROVE  Unmanaged(c) /\ Unowned(c)
BY DEF IInv, Tables, DmIsAPair, RowsOf, Unmanaged, Unowned, Managers, Cleared,
       RequestsPlaced, PlacedIn

\* A DM is not managed, so its type stays and its rows only go.
LEMMA StepDm ==
    ASSUME IInv, Next, NEW c \in ChatId, chat[c] = "DM"
    PROVE  chat'[c] = "DM" /\ RowsOf(c)' \subseteq RowsOf(c)
<1>1. Unmanaged(c) /\ Unowned(c)
  BY DmIsUnmanaged
<1>2. /\ \A w \in Worker : ~Cleared(w, OwnerOps, c)
      /\ \A w \in Worker : ~Cleared(w, ManagerOps, c)
  BY <1>1 DEF Unmanaged, Unowned, Cleared
<1> QED
  BY <1>2, StepRows

\* No step gives two rows the same id.
LEMMA StepRowIds ==
    ASSUME IInv, Next
    PROVE  RowIdsAreUnique'
<1> USE DEF IInv, Typed, TypeOK, Tables, RowIdsAreUnique
<1>1. ASSUME NEW w \in Worker, CreateRoom(w) PROVE RowIdsAreUnique'
  BY <1>1 DEF CreateRoom, FreshRow
<1>2. ASSUME NEW w \in Worker, InsertDm(w) PROVE RowIdsAreUnique'
  BY <1>2 DEF InsertDm, FreshRow
<1>3. ASSUME NEW w \in Worker, CommitAdd(w) PROVE RowIdsAreUnique'
  BY <1>3 DEF CommitAdd, FreshRow
<1>4. ASSUME NEW w \in Worker, CommitRemove(w) \/ CommitDelete(w) PROVE RowIdsAreUnique'
  BY <1>4 DEF CommitRemove, CommitDelete
<1>5. ASSUME NEW w \in Worker, CommitRole(w) PROVE RowIdsAreUnique'
  <2>1. \A m \in members : SetRole(m, req[w].row, req[w].role).id = m.id
    BY DEF SetRole, Row
  <2> QED
    BY <1>5, <2>1 DEF CommitRole
<1>6. ASSUME UNCHANGED members PROVE RowIdsAreUnique'
  BY <1>6
<1> QED
  BY <1>1, <1>2, <1>3, <1>4, <1>5, <1>6
     DEF Next, Arrive, Handle, GetOrCreateDm, UpdateChat, AddParticipant, RemoveParticipant,
         UpdateRole, DeleteChat, LeaveChat, CheckCaller, ReloadChat, LoadTarget, LoadChat,
         CommitUpdate, Publish, Abort

\* Only CommitAdd adds a row to an old chat, and the foreign key checks it.
LEMMA StepRowsHaveTheirChat ==
    ASSUME IInv, Next
    PROVE  RowsHaveTheirChat'
<1> USE DEF IInv, Typed, TypeOK, Tables, RowsHaveTheirChat
<1>1. ASSUME NEW w \in Worker, CreateRoom(w) PROVE RowsHaveTheirChat'
  BY <1>1 DEF CreateRoom, CreateOps, ChatType, Row
<1>2. ASSUME NEW w \in Worker, InsertDm(w) PROVE RowsHaveTheirChat'
  BY <1>2 DEF InsertDm, ChatType, Row
<1>3. ASSUME NEW w \in Worker, CommitAdd(w) PROVE RowsHaveTheirChat'
  BY <1>3 DEF CommitAdd, ChatExists
<1>4. ASSUME NEW w \in Worker, CommitRemove(w) PROVE RowsHaveTheirChat'
  BY <1>4 DEF CommitRemove
<1>5. ASSUME NEW w \in Worker, CommitDelete(w) PROVE RowsHaveTheirChat'
  BY <1>5 DEF CommitDelete, Row
<1>6. ASSUME NEW w \in Worker, CommitRole(w) PROVE RowsHaveTheirChat'
  <2>1. \A m \in members : SetRole(m, req[w].row, req[w].role).chat = m.chat
    BY DEF SetRole, Row
  <2> QED
    BY <1>6, <2>1 DEF CommitRole
<1>7. ASSUME UNCHANGED <<chat, members>> PROVE RowsHaveTheirChat'
  BY <1>7
<1> QED
  BY <1>1, <1>2, <1>3, <1>4, <1>5, <1>6, <1>7
     DEF Next, Arrive, Handle, GetOrCreateDm, UpdateChat, AddParticipant, RemoveParticipant,
         UpdateRole, DeleteChat, LeaveChat, CheckCaller, ReloadChat, LoadTarget, LoadChat,
         CommitUpdate, Publish, Abort

\* A new DM has the two rows of InsertDm, and an old one only loses rows.
LEMMA StepDmIsAPair ==
    ASSUME IInv, Next
    PROVE  DmIsAPair'
<1> USE DEF IInv, Typed, TypeOK, Tables
<1> SUFFICES ASSUME NEW c \in ChatId, chat'[c] = "DM"
             PROVE  /\ \E u, t \in User : \A m \in RowsOf(c)' :
                          m.user \in {u, t} /\ m.role = "MEMBER"
                    /\ \A m, n \in RowsOf(c)' : m.user = n.user => m = n
  BY DEF DmIsAPair
<1>1. CASE chat[c] = "DM"
  <2>1. RowsOf(c)' \subseteq RowsOf(c)
    BY <1>1, StepDm
  <2> QED
    BY <1>1, <2>1 DEF DmIsAPair
<1>2. CASE chat[c] # "DM"
  <2>1. \E w \in Worker : InsertDm(w) /\ chat[c] = "unused"
    BY <1>2, ZenonT(60) DEF Next, Arrive, Handle, GetOrCreateDm, UpdateChat, AddParticipant,
         RemoveParticipant, UpdateRole, DeleteChat, LeaveChat, CheckCaller, ReloadChat,
         LoadTarget, LoadChat, CommitUpdate, Publish, Abort, CreateRoom, CreateOps, InsertDm,
         CommitAdd, CommitRemove, CommitRole, CommitDelete
  <2>2. PICK w \in Worker : InsertDm(w)
    BY <2>1
  <2>3. /\ req[w].user \in User /\ req[w].target \in User
        /\ req[w].user # req[w].target
    BY <2>2 DEF InsertDm, At, RequestsOK, RequestAt
  <2>4. PICK d \in ChatId, r, s \in RowId :
           /\ chat' = [chat EXCEPT ![d] = "DM"]
           /\ members' = members \cup
                 {[id |-> r, chat |-> d, user |-> req[w].user, role |-> "MEMBER"],
                  [id |-> s, chat |-> d, user |-> req[w].target, role |-> "MEMBER"]}
    BY <2>2 DEF InsertDm
  <2>5. c = d /\ \A m \in members : m.chat # c
    BY <1>2, <2>1, <2>4 DEF RowsHaveTheirChat, ChatType
  <2>6. RowsOf(c)' = {[id |-> r, chat |-> c, user |-> req[w].user, role |-> "MEMBER"],
                      [id |-> s, chat |-> c, user |-> req[w].target, role |-> "MEMBER"]}
    BY <2>4, <2>5 DEF RowsOf
  <2> QED
    BY <2>3, <2>6
<1> QED
  BY <1>1, <1>2

\* The invariant is inductive.
LEMMA StepIInv == IInv /\ [Next]_vars => IInv'
<1> SUFFICES ASSUME IInv, [Next]_vars PROVE IInv'
  OBVIOUS
<1>1. Typed'
  BY StepTyped DEF IInv
<1>2. CASE Next
  <2>1. TableStep
    BY <1>2, StepTables
  <2>2. RequestsPlaced'
    BY <1>1, <1>2, <2>1, StepPlaced
  <2> QED
    BY <1>1, <1>2, <2>2, StepRowIds, StepRowsHaveTheirChat, StepDmIsAPair DEF IInv, Tables
<1>3. CASE UNCHANGED vars
  BY <1>1, <1>3 DEF IInv, vars, Tables, RowIdsAreUnique, RowsHaveTheirChat, DmIsAPair, RowsOf,
                    RequestsPlaced
<1> QED
  BY <1>2, <1>3

\* The inductive invariant holds in every reachable state.
THEOREM Invariance == Spec => []IInv
BY InitIInv, StepIInv, PTL DEF Spec

\* No handler leaves a member row behind without its chat.
THEOREM MembersOfChats == Spec => []RowsHaveTheirChat
<1>1. IInv => RowsHaveTheirChat
  BY DEF IInv, Tables
<1> QED
  BY Invariance, <1>1, PTL

\* A DM has no rows but those of its two users, one each, plain members.
THEOREM DmPair == Spec => []DmIsAPair
<1>1. IInv => DmIsAPair
  BY DEF IInv, Tables
<1> QED
  BY Invariance, <1>1, PTL

\* get_or_create_dm always has a DM to return.
THEOREM DmReturned == Spec => []DmIsThereToReturn
<1>1. IInv => DmIsThereToReturn
  BY DEF IInv, RequestsPlaced, PlacedIn, DmIsThereToReturn, At
<1> QED
  BY Invariance, <1>1, PTL

\* What is reported removed or left is gone.
THEOREM RemovalDone == Spec => []RemovalIsDone
<1>1. IInv => RemovalIsDone
  BY DEF IInv, RequestsPlaced, PlacedIn, RemovalIsDone, At
<1> QED
  BY Invariance, <1>1, PTL

\* A DM only loses rows, and is never deleted.
THEOREM DmShrinks == Spec => DmOnlyShrinks
<1>1. IInv /\ [Next]_vars =>
         [\A c \in ChatId : chat[c] = "DM" =>
             chat'[c] = "DM" /\ RowsOf(c)' \subseteq RowsOf(c)]_vars
  BY StepDm
<1> QED
  BY Invariance, <1>1, PTL DEF Spec, DmOnlyShrinks

\* An unowned chat never gets an owner, a changed role, or a deletion.
THEOREM OwnersPassOnOwnership == Spec => RolesComeFromOwners
<1>1. ASSUME IInv, Next, NEW c \in ChatId, Unowned(c)
      PROVE  /\ Unowned(c)'
             /\ chat'[c] = chat[c]
             /\ \A m \in RowsOf(c)' : m \in members \/ m.role = "MEMBER"
  <2>1. /\ chat'[c] = chat[c]
        /\ \A m \in RowsOf(c)' : m \in members \/ m.role = "MEMBER"
    BY <1>1, StepRows DEF Unowned
  <2>2. \A m \in RowsOf(c)' : m.role # "OWNER"
    BY <1>1, <2>1 DEF Unowned, RowsOf
  <2>3. ASSUME NEW w \in Worker, Cleared(w, OwnerOps, c)' PROVE FALSE
    BY <1>1, <2>3, StepCleared DEF Unowned, ManagerOps, OwnerOps
  <2> QED
    BY <1>1, <2>1, <2>2, <2>3 DEF Unowned
<1>2. IInv /\ [Next]_vars =>
         [\A c \in ChatId : Unowned(c) =>
             /\ Unowned(c)'
             /\ chat'[c] = chat[c]
             /\ \A m \in RowsOf(c)' : m \in members \/ m.role = "MEMBER"]_vars
  BY <1>1
<1> QED
  BY Invariance, <1>2, PTL DEF Spec, RolesComeFromOwners

\* A chat that nobody manages never gets another member.
THEOREM ManagersLetIn == Spec => MembersComeFromManagers
<1>1. ASSUME IInv, Next, NEW c \in ChatId, Unmanaged(c)
      PROVE  Unmanaged(c)' /\ RowsOf(c)' \subseteq RowsOf(c)
  <2>1. /\ \A w \in Worker : ~Cleared(w, OwnerOps, c)
        /\ \A w \in Worker : ~Cleared(w, ManagerOps, c)
    BY <1>1 DEF Unmanaged, Cleared
  <2>2. chat'[c] = chat[c] /\ RowsOf(c)' \subseteq RowsOf(c)
    BY <1>1, <2>1, StepRows DEF Unmanaged
  <2>3. ASSUME NEW w \in Worker, Cleared(w, OwnerOps \cup ManagerOps, c)' PROVE FALSE
    BY <1>1, <2>3, StepCleared DEF Unmanaged, Managers
  <2> QED
    BY <1>1, <2>2, <2>3 DEF Unmanaged
<1>2. IInv /\ [Next]_vars =>
         [\A c \in ChatId : Unmanaged(c) =>
             Unmanaged(c)' /\ RowsOf(c)' \subseteq RowsOf(c)]_vars
  BY <1>1
<1> QED
  BY Invariance, <1>2, PTL DEF Spec, MembersComeFromManagers

-----------------------------------------------------------------------------
(* The topic. *)

\* What an event e says, of the chats in ch.
TrueIn(ch, e) == /\ e.chat \in ChatId
                 /\ ch[e.chat] # "unused"
                 /\ e.type = "chat_deleted" => ch[e.chat] = "deleted"
                 /\ ch[e.chat] = "DM" => e.type \in {"chat_created", "participant_left"}

TopicInv == \A i \in 1..Len(topic) : TrueIn(chat, topic[i])

\* What the topic holds after an event is that event or was there before.
LEMMA RetainElements ==
    ASSUME NEW s \in Seq(Event), NEW e \in Event, NEW i \in 1..Len(Retain(Append(s, e)))
    PROVE  Retain(Append(s, e))[i] = e \/ \E j \in 1..Len(s) : Retain(Append(s, e))[i] = s[j]
BY RetentionAssumption DEF Retain

\* A published event is true, and what events say stays true.
LEMMA StepTopic == IInv /\ TopicInv /\ [Next]_vars => TopicInv'
<1> SUFFICES ASSUME IInv, TopicInv, [Next]_vars PROVE TopicInv'
  OBVIOUS
<1> USE DEF IInv, Typed, TypeOK
<1>1. CASE UNCHANGED vars
  BY <1>1 DEF vars, TopicInv
<1>2. CASE Next
  <2>1. TableStep
    BY <1>2, StepTables
  <2>2. ASSUME NEW e, TrueIn(chat, e) PROVE TrueIn(chat', e)
    BY <2>1, <2>2 DEF TrueIn, TableStep
  <2>3. ASSUME NEW w \in Worker, Publish(w) PROVE TopicInv'
    <3>1. /\ req[w] \in Request /\ req[w].op \in Op /\ req[w].chat \in ChatId
          /\ PlacedIn(chat, members, "publish", req[w])
      BY <2>3 DEF Publish, RequestsOK, RequestAt, RequestsPlaced
    <3>2. EventOf(req[w]) \in Event /\ EventOf(req[w]).chat = req[w].chat
      BY <3>1, EventOfType DEF EventOf
    <3>3. /\ EventOf(req[w]).type = "chat_deleted" => req[w].op = "delete"
          /\ req[w].op \in CreateOps \cup {"dm"} => EventOf(req[w]).type = "chat_created"
          /\ req[w].op = "leave" => EventOf(req[w]).type = "participant_left"
      BY <3>1 DEF EventOf, Op, CheckedOps, ManagerOps, OwnerOps, CreateOps
    <3>4. TrueIn(chat, EventOf(req[w]))
      BY <3>1, <3>2, <3>3 DEF TrueIn, PlacedIn, Op, CheckedOps
    <3> QED
      BY <2>3, <3>2, <3>4, RetainElements DEF Publish, TopicInv
  <2>4. ASSUME UNCHANGED topic PROVE TopicInv'
    BY <2>2, <2>4 DEF TopicInv
  <2> QED
    BY <1>2, <2>3, <2>4
       DEF Next, Arrive, Handle, GetOrCreateDm, CreateRoom, UpdateChat, AddParticipant,
           RemoveParticipant, UpdateRole, DeleteChat, LeaveChat, CheckCaller, InsertDm,
           ReloadChat, LoadTarget, LoadChat, CommitUpdate, CommitAdd, CommitRemove,
           CommitRole, CommitDelete, Abort
<1> QED
  BY <1>1, <1>2

\* Every event on the topic tells of something committed and final, however
\* late it was published.
THEOREM TopicTellsTheTruth == Spec => []EventsAreTrue
<1>1. Init => TopicInv
  BY DEF Init, TopicInv
<1>2. TopicInv => EventsAreTrue
  BY DEF TopicInv, TrueIn, EventsAreTrue
<1> QED
  BY <1>1, <1>2, StepTopic, Invariance, PTL DEF Spec
=============================================================================
