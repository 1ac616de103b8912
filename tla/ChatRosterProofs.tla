-------------------------- MODULE ChatRosterProofs --------------------------
(***************************************************************************)
(* ChatMembership implements ChatRoster, for any number of users, chats,   *)
(* rows and requests.  What a request knows when it commits, that the row  *)
(* it holds is of the chat and the user it names, comes from the invariant *)
(* of ChatMembershipProofs.                                                *)
(***************************************************************************)
EXTENDS ChatMembershipProofs

EntryOf(m) == [chat |-> m.chat, user |-> m.user, role |-> m.role]
Same == UNCHANGED <<chat, members>>
Nothing == UNCHANGED <<chat, RosterOf(members), Wishes>>

-----------------------------------------------------------------------------
(* Rows and entries. *)

\* New rows are new entries.
LEMMA RosterOfMore ==
    ASSUME NEW ms, NEW more
    PROVE  RosterOf(ms \cup more) = RosterOf(ms) \cup RosterOf(more)
BY DEF RosterOf

\* Without the rows of a chat there are no entries of it.
LEMMA RosterOfOthers ==
    ASSUME NEW ms, NEW c
    PROVE  RosterOf({m \in ms : m.chat # c}) = {e \in RosterOf(ms) : e.chat # c}
BY DEF RosterOf

\* Without one row, its entry may be gone; if the user has another, it stays.
LEMMA RosterOfLess ==
    ASSUME RowIdsAreUnique, NEW n \in members
    PROVE  RosterOf({m \in members : m.id # n.id})
             \in {RosterOf(members), RosterOf(members) \ {EntryOf(n)}}
<1> DEFINE less == {m \in members : m.id # n.id}
<1>1. \A m \in members : m \in less \/ m = n
  BY DEF RowIdsAreUnique
<1>2. RosterOf(less) \subseteq RosterOf(members)
  BY DEF RosterOf
<1>3. \A e \in RosterOf(members) : e \in RosterOf(less) \/ e = EntryOf(n)
  BY <1>1 DEF RosterOf, EntryOf
<1> QED
  BY <1>2, <1>3

\* With another role in one row there is its new entry, and the old may be gone.
LEMMA RosterOfRole ==
    ASSUME RowIdsAreUnique, members \subseteq Row, NEW n \in members, NEW x
    PROVE  RosterOf({SetRole(m, n.id, x) : m \in members})
             \in {kept \cup {[chat |-> n.chat, user |-> n.user, role |-> x]} :
                     kept \in {RosterOf(members), RosterOf(members) \ {EntryOf(n)}}}
<1> DEFINE less == {m \in members : m.id # n.id}
           new == {SetRole(m, n.id, x) : m \in members}
           e == [chat |-> n.chat, user |-> n.user, role |-> x]
<1>1. \A m \in members : m.id = n.id => m = n
  BY DEF RowIdsAreUnique
<1>2. SetRole(n, n.id, x).chat = n.chat /\ SetRole(n, n.id, x).user = n.user
      /\ SetRole(n, n.id, x).role = x
  BY DEF SetRole, Row
<1>3. \A m \in less : SetRole(m, n.id, x) = m
  BY DEF SetRole
<1>4. new = less \cup {SetRole(n, n.id, x)}
  BY <1>1, <1>3
<1>5. RosterOf({SetRole(n, n.id, x)}) = {e}
  BY <1>2 DEF RosterOf
<1>6. RosterOf(new) = RosterOf(less) \cup {e}
  BY <1>4, <1>5, RosterOfMore
<1> HIDE DEF less, new, e
<1>7. RosterOf(less) \in {RosterOf(members), RosterOf(members) \ {EntryOf(n)}}
  BY RosterOfLess DEF less
<1> QED
  BY <1>6, <1>7 DEF e, new

-----------------------------------------------------------------------------
(* Requests and wishes. *)

\* The wish of a request in flight is none of the others'.
LEMMA WishFacts ==
    ASSUME NEW s, NEW r \in Request
    PROVE  /\ r.op \in CheckedOps /\ s \in {"load", "commit", "publish"} /\ r.chat \in ChatId
                => /\ WishOf(s, r) # None
                   /\ WishOf(s, r) = [op |-> r.op, chat |-> r.chat, target |-> Subject(r),
                                      role |-> r.role, done |-> s = "publish"]
           /\ r.op \notin CheckedOps \/ s \notin {"load", "commit", "publish"} => WishOf(s, r) = None
<1>1. ASSUME r.op \in CheckedOps, s \in {"load", "commit", "publish"}, r.chat \in ChatId
      PROVE  WishOf(s, r) \in Wish
  BY <1>1 DEF WishOf, Wish, Request, Op
<1> QED
  BY <1>1, WishAssumption DEF WishOf, Subject

\* A request that goes on changes its own wish only.
LEMMA WishAfter ==
    ASSUME Typed, NEW w \in Worker, NEW s, NEW r, Goto(w, s, r)
    PROVE  /\ Wishes[w] = WishOf(pc[w], req[w])
           /\ Wishes' = [Wishes EXCEPT ![w] = WishOf(s, r)]
           /\ WishOf(s, r) = WishOf(pc[w], req[w]) => Wishes' = Wishes
<1>1. \A v \in Worker : pc'[v] = (IF v = w THEN s ELSE pc[v]) /\ req'[v] = (IF v = w THEN r ELSE req[v])
  BY DEF Typed, TypeOK, Goto
<1>2. Wishes' = [v \in Worker |-> WishOf(pc'[v], req'[v])]
  BY DEF Wishes, WishOf
<1> QED
  BY <1>1, <1>2 DEF Wishes

\* A request that loads something, as the roster sees it: nothing.
LEMMA Unseen ==
    ASSUME Typed, NEW w \in Worker, NEW s, NEW r, Goto(w, s, r), Same,
           WishOf(s, r) = WishOf(pc[w], req[w])
    PROVE  Nothing
<1>1. Wishes' = Wishes
  BY WishAfter
<1> QED
  BY <1>1 DEF Nothing, Same, RosterOf

\* A request that is answered has no wish any more; some never had one.
LEMMA Answered ==
    ASSUME Typed, NEW w \in Worker, Answer(w), Same
    PROVE  Nothing \/ Roster!Answer(w)
<1>1. WishOf("idle", Blank) = None
  BY BlankIsRequest, WishFacts
<1>2. Wishes' = [Wishes EXCEPT ![w] = None]
  BY <1>1, WishAfter DEF Answer
<1>3. UNCHANGED <<chat, RosterOf(members)>>
  BY DEF Same, RosterOf
<1>4. CASE Wishes[w] = None
  BY <1>2, <1>3, <1>4 DEF Nothing, Wishes
<1>5. CASE Wishes[w] # None
  BY <1>2, <1>3, <1>5 DEF Roster!Answer
<1> QED
  BY <1>4, <1>5

\* A request that comes from a caller who may ask for it.
LEMMA Asked ==
    ASSUME Typed, NEW w \in Worker, pc[w] = "idle", NEW s \in {"load", "commit"}, NEW r \in Request,
           Goto(w, s, r), Same, r.op \in CheckedOps, NEW m \in members, m.chat = r.chat,
           m.role \in Roster!Granted[r.op], r.op = "leave" => Subject(r) = m.user
    PROVE  Roster!Ask(w)
<1>1. Wishes[w] = None
  BY WishAfter, WishFacts DEF Typed, TypeOK
<1>2. EntryOf(m) \in RosterOf(members) /\ m \in Row
  BY DEF RosterOf, EntryOf, Typed, TypeOK
<1>3. r.op \in DOMAIN Roster!Granted
  BY DEF CheckedOps, ManagerOps, OwnerOps, Roster!Granted
<1>4. r.chat \in ChatId
  BY <1>2 DEF Row
<1>5. (s = "publish") = FALSE
  OBVIOUS
<1>6. Wishes' = [Wishes EXCEPT ![w] = [op |-> r.op, chat |-> r.chat, target |-> Subject(r),
                                       role |-> r.role, done |-> FALSE]]
  <2>1. WishOf(s, r) = [op |-> r.op, chat |-> r.chat, target |-> Subject(r),
                        role |-> r.role, done |-> s = "publish"]
    BY <1>4, WishFacts
  <2>2. WishOf(s, r) = [op |-> r.op, chat |-> r.chat, target |-> Subject(r),
                        role |-> r.role, done |-> FALSE]
    BY <1>5, <2>1
  <2> QED
    BY <2>2, WishAfter
<1>7. Subject(r) \in User \cup {None} /\ r.role \in Roster!Role \cup {None}
  BY DEF Subject, Request, Roster!Role, MemberRole
<1>8. UNCHANGED <<chat, RosterOf(members)>>
  BY DEF Same, RosterOf
<1>9. EntryOf(m).chat = r.chat /\ EntryOf(m).role = m.role /\ EntryOf(m).user = m.user
  BY DEF EntryOf
<1> QED
  BY <1>1, <1>2, <1>3, <1>6, <1>7, <1>8, <1>9 DEF Roster!Ask

\* A request that commits: its wish is done.
LEMMA Done ==
    ASSUME Typed, NEW w \in Worker, pc[w] = "commit", req[w].op \in CheckedOps,
           Goto(w, "publish", req[w])
    PROVE  /\ Wishes[w] # None /\ ~Wishes[w].done
           /\ Wishes' = [Wishes EXCEPT ![w].done = TRUE]
           /\ Wishes[w].op = req[w].op /\ Wishes[w].chat = req[w].chat
           /\ Wishes[w].target = Subject(req[w]) /\ Wishes[w].role = req[w].role
<1> DEFINE r == req[w]
<1>1. r \in Request /\ r.chat \in ChatId
  BY DEF Typed, TypeOK, RequestsOK, RequestAt
<1>2. ("commit" = "publish") = FALSE /\ ("publish" = "publish") = TRUE
  OBVIOUS
<1>3. /\ WishOf("commit", r) # None
      /\ WishOf("commit", r) = [op |-> r.op, chat |-> r.chat, target |-> Subject(r),
                                role |-> r.role, done |-> FALSE]
      /\ WishOf("publish", r) = [op |-> r.op, chat |-> r.chat, target |-> Subject(r),
                                 role |-> r.role, done |-> TRUE]
  BY <1>1, <1>2, WishFacts
<1>4. Wishes[w] = WishOf("commit", r) /\ Wishes' = [Wishes EXCEPT ![w] = WishOf("publish", r)]
  BY WishAfter
<1>5. [Wishes[w] EXCEPT !.done = TRUE] = WishOf("publish", r)
  <2>1. PICK no, yes : no = FALSE /\ yes = TRUE
    OBVIOUS
  <2>2. Wishes[w] = [op |-> r.op, chat |-> r.chat, target |-> Subject(r), role |-> r.role, done |-> no]
    BY <1>3, <1>4, <2>1
  <2>3. [Wishes[w] EXCEPT !.done = yes]
           = [op |-> r.op, chat |-> r.chat, target |-> Subject(r), role |-> r.role, done |-> yes]
    BY <2>2
  <2> QED
    BY <1>3, <2>1, <2>3
<1>6. Wishes' = [Wishes EXCEPT ![w] = [Wishes[w] EXCEPT !.done = TRUE]]
  BY <1>4, <1>5
<1>7. Wishes' = [Wishes EXCEPT ![w].done = TRUE]
  BY <1>6
<1>8. /\ Wishes[w] # None /\ ~Wishes[w].done
      /\ Wishes[w].op = r.op /\ Wishes[w].chat = r.chat
      /\ Wishes[w].target = Subject(r) /\ Wishes[w].role = r.role
  BY <1>3, <1>4
<1> QED
  BY <1>7, <1>8

-----------------------------------------------------------------------------
(* The refinement. *)

\* At the start there are no chats, no members and no wishes.
LEMMA InitRoster == Init => Roster!Init
<1> SUFFICES ASSUME Init PROVE Roster!Init
  OBVIOUS
<1>1. Wishes = [w \in Worker |-> None]
  BY BlankIsRequest, WishFacts DEF Init, Wishes
<1> QED
  BY <1>1 DEF Init, Roster!Init, RosterOf

\* A role check lets a request come that the roster grants.
LEMMA CallerAsks ==
    ASSUME Typed, NEW w \in Worker, NEW s \in {"load", "commit"}, NEW r \in Request, NEW roles,
           CheckCaller(w, s, r, roles), r.op \in CheckedOps \ {"leave"},
           roles = Roster!Granted[r.op]
    PROVE  Roster!Ask(w)
<1>1. PICK m \in members : m.chat = r.chat /\ m.role \in roles /\ Goto(w, s, Holding(r, m))
  BY DEF CheckCaller, TheRowFor, RowsFor
<1>2. m \in Row
  BY DEF Typed, TypeOK
<1>3. Holding(r, m) \in Request /\ Holding(r, m).op = r.op /\ Holding(r, m).chat = r.chat
  BY <1>2, HoldingType
<1> QED
  BY <1>1, <1>3, Asked DEF CheckCaller, Same

\* Every step of a request is a step of the roster, or nothing to it.
LEMMA StepRoster == IInv /\ [Next]_vars => [Roster!Next]_<<chat, RosterOf(members), Wishes>>
<1> SUFFICES ASSUME IInv, [Next]_vars PROVE [Roster!Next]_<<chat, RosterOf(members), Wishes>>
  OBVIOUS
<1>0. CASE UNCHANGED vars
  BY <1>0 DEF vars, RosterOf, Wishes, WishOf
<1> SUFFICES ASSUME NEW w \in Worker, Arrive(w) \/ Handle(w) \/ Abort(w)
             PROVE  Nothing \/ Roster!Open \/ Roster!Ask(w) \/ Roster!Do(w) \/ Roster!Answer(w)
  BY <1>0 DEF Next, Roster!Next, Nothing
<1>typed. Typed /\ RowIdsAreUnique /\ members \subseteq Row /\ req[w] \in Request
          /\ RequestAt(pc[w], req[w]) /\ PlacedIn(chat, members, pc[w], req[w])
  BY DEF IInv, Typed, TypeOK, Tables, RequestsOK, RequestsPlaced
<1>1. CASE GetOrCreateDm(w)
  <2>1. PICK u, t \in User, c \in ChatId \cup {None}, s \in {"insert", "reload"} :
           Goto(w, s, Ask("dm", u, c, t, None))
    BY <1>1 DEF GetOrCreateDm
  <2>2. Ask("dm", u, c, t, None) \in Request /\ Ask("dm", u, c, t, None).op = "dm"
    BY AskType DEF Op, Ask
  <2>3. "dm" \notin CheckedOps
    BY DEF CheckedOps, ManagerOps, OwnerOps
  <2>4. WishOf(s, Ask("dm", u, c, t, None)) = None /\ WishOf(pc[w], req[w]) = None
    BY <1>1, <1>typed, <2>2, <2>3, WishFacts DEF GetOrCreateDm
  <2> QED
    BY <1>1, <1>typed, <2>1, <2>4, Unseen DEF GetOrCreateDm, Same
<1>2. CASE CreateRoom(w)
  <2>1. PICK u \in User, t \in CreateOps, c \in ChatId, r \in RowId :
           /\ chat[c] = "unused" /\ chat' = [chat EXCEPT ![c] = t]
           /\ members' = members \cup {[id |-> r, chat |-> c, user |-> u, role |-> "OWNER"]}
           /\ Goto(w, "reload", Ask(t, u, c, None, None))
    BY <1>2 DEF CreateRoom
  <2>2. Ask(t, u, c, None, None) \in Request
    BY AskType DEF Op
  <2>3. WishOf("reload", Ask(t, u, c, None, None)) = None /\ WishOf(pc[w], req[w]) = None
    BY <1>2, <1>typed, <2>2, WishFacts DEF CreateRoom
  <2>4. UNCHANGED Wishes
    BY <1>typed, <2>1, <2>3, WishAfter
  <2>5. RosterOf({[id |-> r, chat |-> c, user |-> u, role |-> "OWNER"]})
          = {Roster!Entry(c, u, "OWNER")}
    BY DEF RosterOf, Roster!Entry
  <2>6. RosterOf(members)' = RosterOf(members) \cup {Roster!Entry(c, u, "OWNER")}
    BY <2>1, <2>5, RosterOfMore DEF RosterOf
  <2>7. t \in Roster!Room
    BY DEF Roster!Room, CreateOps
  <2> QED
    BY <2>1, <2>4, <2>6, <2>7 DEF Roster!Open
<1>3. CASE UpdateChat(w)
  <2>1. PICK u \in User, c \in ChatId : CheckCaller(w, "load", Ask("update", u, c, None, None), Managers)
    BY <1>3 DEF UpdateChat
  <2>2. Ask("update", u, c, None, None) \in Request /\ Ask("update", u, c, None, None).op = "update"
    BY AskType DEF Op, CheckedOps, ManagerOps, Ask
  <2> QED
    BY <1>typed, <2>1, <2>2, CallerAsks DEF CheckedOps, ManagerOps, Managers, Roster!Granted
<1>4. CASE AddParticipant(w)
  <2>1. PICK u, t \in User, c \in ChatId : CheckCaller(w, "commit", Ask("add", u, c, t, None), Managers)
    BY <1>4 DEF AddParticipant
  <2>2. Ask("add", u, c, t, None) \in Request /\ Ask("add", u, c, t, None).op = "add"
    BY AskType DEF Op, CheckedOps, ManagerOps, Ask
  <2> QED
    BY <1>typed, <2>1, <2>2, CallerAsks DEF CheckedOps, ManagerOps, Managers, Roster!Granted
<1>5. CASE RemoveParticipant(w)
  <2>1. PICK u, t \in User, c \in ChatId : CheckCaller(w, "load", Ask("remove", u, c, t, None), Managers)
    BY <1>5 DEF RemoveParticipant
  <2>2. Ask("remove", u, c, t, None) \in Request /\ Ask("remove", u, c, t, None).op = "remove"
    BY AskType DEF Op, CheckedOps, ManagerOps, Ask
  <2> QED
    BY <1>typed, <2>1, <2>2, CallerAsks DEF CheckedOps, ManagerOps, Managers, Roster!Granted
<1>6. CASE UpdateRole(w)
  <2>1. PICK u, t \in User, c \in ChatId, x \in MemberRole :
           CheckCaller(w, "load", Ask("role", u, c, t, x), {"OWNER"})
    BY <1>6 DEF UpdateRole
  <2>2. Ask("role", u, c, t, x) \in Request /\ Ask("role", u, c, t, x).op = "role"
    BY AskType DEF Op, CheckedOps, OwnerOps, Ask
  <2>3. "role" \in CheckedOps \ {"leave"} /\ Roster!Granted["role"] = {"OWNER"}
    BY DEF CheckedOps, OwnerOps, Roster!Granted
  <2> QED
    BY <1>typed, <2>1, <2>2, <2>3, CallerAsks
<1>7. CASE DeleteChat(w)
  <2>1. PICK u \in User, c \in ChatId :
           CheckCaller(w, "commit", Ask("delete", u, c, None, None), {"OWNER"})
    BY <1>7 DEF DeleteChat
  <2>2. Ask("delete", u, c, None, None) \in Request /\ Ask("delete", u, c, None, None).op = "delete"
    BY AskType DEF Op, CheckedOps, OwnerOps, Ask
  <2>3. "delete" \in CheckedOps \ {"leave"} /\ Roster!Granted["delete"] = {"OWNER"}
    BY DEF CheckedOps, OwnerOps, Roster!Granted
  <2> QED
    BY <1>typed, <2>1, <2>2, <2>3, CallerAsks
<1>8. CASE LeaveChat(w)
  <2>1. PICK m \in members :
           MayLeave(m) /\ Goto(w, "commit", Holding(Ask("leave", m.user, m.chat, None, None), m))
    BY <1>8 DEF LeaveChat
  <2> DEFINE r == Holding(Ask("leave", m.user, m.chat, None, None), m)
  <2>2. m \in Row /\ m.user \in User /\ m.chat \in ChatId /\ m.role \in {"ADMIN", "MEMBER"}
    BY <1>typed, <2>1 DEF Row, MayLeave, MemberRole
  <2>3. Ask("leave", m.user, m.chat, None, None) \in Request
    BY <2>2, AskType DEF Op, CheckedOps
  <2>4. r \in Request /\ r.op = "leave" /\ r.user = m.user /\ r.chat = m.chat
    BY <2>2, <2>3, HoldingType DEF Ask
  <2> HIDE DEF r
  <2>5. Subject(r) = m.user /\ m.role \in Roster!Granted[r.op] /\ r.op \in CheckedOps
    BY <2>2, <2>4 DEF Subject, Roster!Granted, CheckedOps
  <2>6. Goto(w, "commit", r) /\ pc[w] = "idle" /\ Same
    BY <1>8, <2>1 DEF LeaveChat, Same, r
  <2> QED
    BY <1>typed, <2>4, <2>5, <2>6, Asked
<1>9. CASE InsertDm(w)
  <2>1. PICK c \in ChatId, r, s \in RowId :
           /\ chat[c] = "unused" /\ chat' = [chat EXCEPT ![c] = "DM"]
           /\ members' = members \cup
                 {[id |-> r, chat |-> c, user |-> req[w].user, role |-> "MEMBER"],
                  [id |-> s, chat |-> c, user |-> req[w].target, role |-> "MEMBER"]}
           /\ Goto(w, "reload", [req[w] EXCEPT !.chat = c])
    BY <1>9 DEF InsertDm
  <2> DEFINE u == req[w].user
             t == req[w].target
             rows == {[id |-> r, chat |-> c, user |-> u, role |-> "MEMBER"],
                      [id |-> s, chat |-> c, user |-> t, role |-> "MEMBER"]}
  <2>2. u \in User /\ t \in User /\ u # t /\ pc[w] = "insert"
    BY <1>9, <1>typed DEF InsertDm, At, RequestAt
  <2>3. [req[w] EXCEPT !.chat = c] \in Request
    BY <1>typed DEF Request
  <2>4. WishOf("reload", [req[w] EXCEPT !.chat = c]) = None /\ WishOf(pc[w], req[w]) = None
    BY <1>typed, <2>2, <2>3, WishFacts
  <2>5. UNCHANGED Wishes
    BY <1>typed, <2>1, <2>4, WishAfter
  <2>6. RosterOf(rows) = {Roster!Entry(c, u, "MEMBER"), Roster!Entry(c, t, "MEMBER")}
    BY DEF RosterOf, Roster!Entry
  <2>7. members' = members \cup rows
    BY <2>1
  <2> HIDE DEF rows, u, t
  <2>8. RosterOf(members)' = RosterOf(members) \cup RosterOf(rows)
    BY <2>7, RosterOfMore DEF RosterOf
  <2> QED
    BY <2>1, <2>2, <2>5, <2>6, <2>8, ZenonT(60) DEF Roster!Open
<1>10. CASE ReloadChat(w)
  <2>1. CASE Answer(w)
    BY <1>10, <1>typed, <2>1, Answered DEF ReloadChat, Same
  <2>2. CASE Goto(w, "publish", req[w])
    <3>1. pc[w] = "reload" /\ req[w].op \in CreateOps \cup {"dm"}
      BY <1>10 DEF ReloadChat, At
    <3>2. req[w].op \notin CheckedOps
      BY <3>1 DEF CheckedOps, ManagerOps, OwnerOps, CreateOps
    <3>3. WishOf("publish", req[w]) = WishOf(pc[w], req[w])
      BY <1>typed, <3>2, WishFacts
    <3> QED
      BY <1>10, <1>typed, <2>2, <3>3, Unseen DEF ReloadChat, Same
  <2> QED
    BY <1>10, <2>1, <2>2 DEF ReloadChat
<1>11. CASE LoadTarget(w)
  <2>1. CASE Answer(w)
    BY <1>11, <1>typed, <2>1, Answered DEF LoadTarget, Same
  <2>2. ASSUME NEW m \in members, Goto(w, "commit", Loading(req[w], m)) PROVE Nothing
    <3>1. pc[w] = "load" /\ req[w].op \in {"remove", "role"} /\ req[w].chat \in ChatId /\ m \in Row
      BY <1>11, <1>typed DEF LoadTarget, At, RequestAt
    <3> DEFINE r == Loading(req[w], m)
    <3>2. /\ r \in Request /\ r.op = req[w].op /\ r.chat = req[w].chat
          /\ r.target = req[w].target /\ r.role = req[w].role
      BY <1>typed, <3>1, LoadingType
    <3> HIDE DEF r
    <3>3. ("commit" = "publish") = (pc[w] = "publish")
      BY <3>1
    <3>4. WishOf("commit", r) = WishOf(pc[w], req[w])
      BY <3>1, <3>2, <3>3 DEF WishOf
    <3> QED
      BY <1>11, <1>typed, <2>2, <3>4, Unseen DEF LoadTarget, Same, r
  <2> QED
    BY <1>11, <2>1, <2>2 DEF LoadTarget
<1>12. CASE LoadChat(w)
  <2>1. CASE Answer(w)
    BY <1>12, <1>typed, <2>1, Answered DEF LoadChat, Same
  <2>2. CASE Goto(w, "commit", req[w])
    <3>1. pc[w] = "load"
      BY <1>12 DEF LoadChat, At
    <3>2. ("commit" = "publish") = (pc[w] = "publish")
      BY <3>1
    <3>3. WishOf("commit", req[w]) = WishOf(pc[w], req[w])
      BY <3>1, <3>2 DEF WishOf
    <3> QED
      BY <1>12, <1>typed, <2>2, <3>3, Unseen DEF LoadChat, Same
  <2> QED
    BY <1>12, <2>1, <2>2 DEF LoadChat
<1>13. CASE CommitUpdate(w)
  <2>1. CASE Answer(w)
    BY <1>13, <1>typed, <2>1, Answered DEF CommitUpdate, Same
  <2>2. CASE Goto(w, "publish", req[w])
    <3>1. pc[w] = "commit" /\ req[w].op \in CheckedOps
      BY <1>13 DEF CommitUpdate, At, CheckedOps, ManagerOps
    <3>2. UNCHANGED <<chat, RosterOf(members)>>
      BY <1>13 DEF CommitUpdate, RosterOf
    <3> QED
      BY <1>typed, <2>2, <3>1, <3>2, Done DEF Roster!Do
  <2> QED
    BY <1>13, <2>1, <2>2 DEF CommitUpdate
<1>14. CASE CommitAdd(w)
  <2>1. CASE Answer(w) /\ UNCHANGED members
    BY <1>14, <1>typed, <2>1, Answered DEF CommitAdd, Same
  <2>2. ASSUME NEW i \in RowId, ChatExists(req[w].chat), Goto(w, "publish", req[w]),
               members' = members \cup {[id |-> i, chat |-> req[w].chat,
                                         user |-> req[w].target, role |-> "MEMBER"]}
        PROVE  Roster!Do(w)
    <3> DEFINE c == req[w].chat
               t == req[w].target
    <3>1. pc[w] = "commit" /\ req[w].op = "add" /\ req[w].op \in CheckedOps /\ UNCHANGED chat
      BY <1>14 DEF CommitAdd, At, CheckedOps, ManagerOps
    <3>2. chat[c] \in Roster!Room
      BY <1>typed, <2>2, <3>1 DEF PlacedIn, ManagerOps, ChatExists, ChatType, Roster!Room
    <3>3. RosterOf({[id |-> i, chat |-> c, user |-> t, role |-> "MEMBER"]})
            = {Roster!Entry(c, t, "MEMBER")}
      BY DEF RosterOf, Roster!Entry
    <3>4. RosterOf(members)' = RosterOf(members) \cup {Roster!Entry(c, t, "MEMBER")}
      BY <2>2, <3>3, RosterOfMore DEF RosterOf
    <3>5. Subject(req[w]) = t
      BY <3>1 DEF Subject
    <3> HIDE DEF c, t
    <3>6. /\ Wishes[w] # None /\ ~Wishes[w].done
          /\ Wishes' = [Wishes EXCEPT ![w].done = TRUE]
          /\ Wishes[w].op = "add" /\ Wishes[w].chat = c /\ Wishes[w].target = t
      BY <1>typed, <2>2, <3>1, <3>5, Done DEF c
    <3> QED
      BY <3>1, <3>2, <3>4, <3>6 DEF Roster!Do
  <2> QED
    BY <1>14, <2>1, <2>2 DEF CommitAdd
<1>15. CASE CommitRemove(w)
  <2>1. /\ pc[w] = "commit" /\ req[w].op \in {"remove", "leave"} /\ req[w].op \in CheckedOps
        /\ members' = {m \in members : m.id # req[w].row} /\ UNCHANGED chat
        /\ Goto(w, "publish", req[w])
    BY <1>15 DEF CommitRemove, At, CheckedOps, ManagerOps
  <2>2. /\ Wishes[w] # None /\ ~Wishes[w].done
        /\ Wishes' = [Wishes EXCEPT ![w].done = TRUE]
        /\ Wishes[w].op = req[w].op /\ Wishes[w].chat = req[w].chat
        /\ Wishes[w].target = Subject(req[w])
    BY <1>typed, <2>1, Done
  <2>3. CASE \A m \in members : m.id # req[w].row
    <3>1. members' = members
      BY <2>1, <2>3
    <3>2. UNCHANGED <<chat, RosterOf(members)>>
      BY <2>1, <3>1 DEF RosterOf
    <3> QED
      BY <2>2, <3>2 DEF Roster!Do
  <2>4. ASSUME NEW n \in members, n.id = req[w].row PROVE Roster!Do(w)
    <3>1. n.chat = req[w].chat /\ n.user = Subject(req[w])
      BY <1>typed, <2>1, <2>4 DEF PlacedIn
    <3>2. EntryOf(n) \in Roster!Entries(Wishes[w].chat, Wishes[w].target)
      BY <2>2, <3>1 DEF Roster!Entries, RosterOf, EntryOf
    <3>3. members' = {m \in members : m.id # n.id}
      BY <2>1, <2>4
    <3>4. RosterOf(members)' \in {RosterOf(members), RosterOf(members) \ {EntryOf(n)}}
      BY <1>typed, <3>3, RosterOfLess DEF RosterOf
    <3> QED
      BY <2>1, <2>2, <3>2, <3>4 DEF Roster!Do
  <2> QED
    BY <2>3, <2>4
<1>16. CASE CommitRole(w)
  <2>1. pc[w] = "commit" /\ req[w].op = "role" /\ req[w].op \in CheckedOps /\ UNCHANGED chat
    BY <1>16 DEF CommitRole, At, CheckedOps, OwnerOps
  <2>2. CASE Answer(w) /\ UNCHANGED members
    BY <1>16, <1>typed, <2>2, Answered DEF CommitRole, Same
  <2>3. CASE Goto(w, "publish", req[w]) /\ UNCHANGED members
    <3>1. UNCHANGED <<chat, RosterOf(members)>>
      BY <2>1, <2>3 DEF RosterOf
    <3> QED
      BY <1>typed, <2>1, <2>3, <3>1, Done DEF Roster!Do
  <2>4. ASSUME NEW n \in members, n.id = req[w].row, Goto(w, "publish", req[w]),
               members' = {SetRole(m, req[w].row, req[w].role) : m \in members}
        PROVE  Roster!Do(w)
    <3>1. n.chat = req[w].chat /\ n.user = Subject(req[w])
      BY <1>typed, <2>1, <2>4 DEF PlacedIn
    <3>2. /\ Wishes[w] # None /\ ~Wishes[w].done
          /\ Wishes' = [Wishes EXCEPT ![w].done = TRUE]
          /\ Wishes[w].op = "role" /\ Wishes[w].chat = n.chat
          /\ Wishes[w].target = n.user /\ Wishes[w].role = req[w].role
      BY <1>typed, <2>1, <2>4, <3>1, Done
    <3>3. EntryOf(n) \in Roster!Entries(n.chat, n.user)
      BY DEF Roster!Entries, RosterOf, EntryOf
    <3>4. members' = {SetRole(m, n.id, req[w].role) : m \in members}
      BY <2>4
    <3>5. RosterOf(members)'
            \in {kept \cup {Roster!Entry(n.chat, n.user, req[w].role)} :
                    kept \in {RosterOf(members), RosterOf(members) \ {EntryOf(n)}}}
      BY <1>typed, <3>4, RosterOfRole DEF RosterOf, Roster!Entry
    <3> QED
      BY <2>1, <3>2, <3>3, <3>5 DEF Roster!Do
  <2> QED
    BY <1>16, <2>2, <2>3, <2>4 DEF CommitRole
<1>17. CASE CommitDelete(w)
  <2>1. /\ pc[w] = "commit" /\ req[w].op = "delete" /\ req[w].op \in CheckedOps
        /\ chat' = [chat EXCEPT ![req[w].chat] = "deleted"]
        /\ members' = {m \in members : m.chat # req[w].chat}
        /\ Goto(w, "publish", req[w])
    BY <1>17 DEF CommitDelete, At, CheckedOps, OwnerOps
  <2>2. RosterOf(members)' = {e \in RosterOf(members) : e.chat # req[w].chat}
    BY <2>1, RosterOfOthers DEF RosterOf
  <2> QED
    BY <1>typed, <2>1, <2>2, Done DEF Roster!Do
<1>18. CASE Publish(w) \/ Abort(w)
  BY <1>18, <1>typed, Answered DEF Publish, Abort, Same
<1> QED
  BY <1>1, <1>2, <1>3, <1>4, <1>5, <1>6, <1>7, <1>8, <1>9, <1>10, <1>11, <1>12, <1>13,
     <1>14, <1>15, <1>16, <1>17, <1>18 DEF Arrive, Handle

\* Whatever the handlers of the chat-service load and whenever they commit, chats
\* and their members change only as the role checks allowed when the requests
\* came, and by each request at most once: the handlers implement the roster.
THEOREM Implements == Spec => ImplementsChatRoster
BY InitRoster, StepRoster, Invariance, PTL DEF Spec, ImplementsChatRoster, Roster!Spec
=============================================================================
