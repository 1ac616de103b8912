------------------------- MODULE UserContactsProofs -------------------------
(***************************************************************************)
(* Proofs about UserContacts, for any users, rows and requests in flight:  *)
(* types, what a request may be answered with, and that the handlers       *)
(* implement the book of contacts.                                         *)
(***************************************************************************)
EXTENDS UserContacts, TLAPS

\* What is known of the request r at step s, with its history h: a put has not
\* touched a row before it has found one; and whenever the session has a row
\* with the status asked for, the table had it since the request arrived.
RequestAt(s, r, h) ==
    /\ s # "idle" => r \in Request
    /\ s \in {"select", "insert"} => r.seen = NotAContact
    /\ s \in {"select", "insert", "update", "refresh"} => r.status \in Status
    /\ s = "select" /\ r.cached.status = r.status => h
    /\ s = "update" => r.row \in RowId /\ (r.seen = r.status => h)
    /\ s = "refresh" => h
    /\ s = "delete" => r.row \in RowId /\ r.status = NotAContact

IInv == /\ contacts \in [Pair -> Row]
        /\ pc \in [Worker -> Steps]
        /\ req \in [Worker -> Request \cup {None}]
        /\ held \in [Worker -> BOOLEAN]
        /\ \A w \in Worker : RequestAt(pc[w], req[w], held[w])

-----------------------------------------------------------------------------

\* What a step does not lose: a request that stays where it is keeps what is
\* known of it, whatever the others do to the table.
LEMMA OthersKeep ==
    ASSUME IInv, Remember, NEW w \in Worker, pc'[w] = pc[w], req'[w] = req[w]
    PROVE  RequestAt(pc'[w], req'[w], held'[w])
<1>1. pc[w] # "idle" /\ held[w] => held'[w]
  BY DEF Remember
<1> QED
  BY <1>1 DEF IInv, RequestAt

\* Going on to a step that suits the request keeps the invariant.
LEMMA GotoKeeps ==
    ASSUME IInv, Remember, NEW w \in Worker, NEW s \in Steps, NEW r \in Request \cup {None},
           Goto(w, s, r), contacts' \in [Pair -> Row], RequestAt(s, r, held'[w])
    PROVE  IInv'
<1>1. /\ pc' \in [Worker -> Steps]
      /\ req' \in [Worker -> Request \cup {None}]
      /\ pc'[w] = s /\ req'[w] = r
      /\ \A v \in Worker \ {w} : pc'[v] = pc[v] /\ req'[v] = req[v]
  BY DEF IInv, Goto
<1>2. held' \in [Worker -> BOOLEAN]
  BY DEF Remember, IInv
<1>3. \A v \in Worker \ {w} : RequestAt(pc'[v], req'[v], held'[v])
  BY <1>1, OthersKeep
<1> QED
  BY <1>1, <1>2, <1>3 DEF IInv

\* So does answering the request.
LEMMA AnswerKeeps ==
    ASSUME IInv, Remember, NEW w \in Worker, Answer(w), contacts' \in [Pair -> Row]
    PROVE  IInv'
<1>1. RequestAt("idle", None, held'[w])
  BY DEF RequestAt
<1> QED
  BY <1>1, GotoKeeps DEF Answer, Steps

\* What a step leads to that grants the request's wish is remembered.
LEMMA Remembered ==
    ASSUME IInv, Remember, NEW w \in Worker, pc'[w] # "idle"
    PROVE  /\ held[w] => held'[w]
           /\ Granted(w)' => held'[w]
BY DEF Remember

\* At the start nothing is asked.
LEMMA InitIInv == Init => IInv
BY NoneAssumption DEF Init, IInv, RequestAt, Row, Steps

\* Every step of every request preserves the invariant.
LEMMA StepIInv == IInv /\ [Next]_vars => IInv'
<1> SUFFICES ASSUME IInv, [Next]_vars PROVE IInv'
  OBVIOUS
<1>1. CASE UNCHANGED vars
  BY <1>1 DEF vars, IInv
<1> SUFFICES ASSUME NEW w \in Worker, Remember, Put(w) \/ Remove(w) \/ Handle(w) \/ Abort(w)
             PROVE  IInv'
  BY <1>1 DEF Next
<1>2. RequestAt(pc[w], req[w], held[w]) /\ contacts \in [Pair -> Row] /\ pc[w] \in Steps
  BY DEF IInv
<1>3. CASE Put(w)
  <2>1. PICK p \in Pair, s \in Status : Goto(w, "select", Ask(p, s, contacts[p]))
    BY <1>3 DEF Put
  <2> DEFINE r == Ask(p, s, contacts[p])
  <2>2. r \in Request /\ r.seen = NotAContact /\ r.status = s /\ r.pair = p /\ r.cached = contacts[p]
    BY <1>2 DEF Ask, Request, AnyStatus
  <2>3. pc'[w] = "select" /\ req'[w] = r
    BY <2>1 DEF Goto, IInv
  <2>4. r.cached.status = r.status => held'[w]
    BY <1>3, <2>2, <2>3, Remembered DEF Put, Granted, TheRow
  <2>5. RequestAt("select", r, held'[w])
    BY <2>2, <2>4 DEF RequestAt
  <2> HIDE DEF r
  <2> QED
    BY <1>2, <1>3, <2>1, <2>2, <2>5, GotoKeeps DEF Put, Steps, r
<1>4. CASE Select(w)
  <2>1. pc[w] = "select" /\ req[w] \in Request /\ UNCHANGED contacts
    BY <1>2, <1>4 DEF Select, RequestAt
  <2>2. TheRow(w) \in Row /\ req[w].cached \in Row
    BY <1>2, <2>1 DEF TheRow, Request
  <2>3. CASE TheRow(w) # NoRow /\ Goto(w, "update", Holding(req[w], TheRow(w).id,
                                                            Loaded(req[w], TheRow(w))))
    <3> DEFINE l == Loaded(req[w], TheRow(w))
               r == Holding(req[w], TheRow(w).id, l)
    <3>1. l \in AnyStatus /\ TheRow(w).id \in RowId
      BY <2>2, <2>3 DEF Loaded, Row, NoRow, AnyStatus
    <3>2. /\ r \in Request /\ r.row \in RowId /\ r.seen = l
          /\ r.status = req[w].status /\ r.pair = req[w].pair
      BY <2>1, <3>1 DEF Holding, Request
    <3>3. pc'[w] = "update" /\ req'[w] = r
      BY <2>3 DEF Goto, IInv
    <3>4. l = req[w].status => held'[w]
      <4>1. CASE l = req[w].cached.status
        BY <1>2, <2>1, <3>3, <4>1, Remembered DEF RequestAt
      <4>2. CASE l = TheRow(w).status
        BY <2>1, <3>2, <3>3, <4>2, Remembered DEF Granted, TheRow
      <4> QED
        BY <4>1, <4>2 DEF Loaded
    <3>5. RequestAt("update", r, held'[w])
      BY <1>2, <2>1, <3>2, <3>4 DEF RequestAt
    <3> HIDE DEF r
    <3> QED
      BY <1>2, <2>1, <2>3, <3>2, <3>5, GotoKeeps DEF Steps, r
  <2>4. CASE Goto(w, "insert", req[w])
    <3>1. RequestAt("insert", req[w], held'[w])
      BY <1>2, <2>1 DEF RequestAt
    <3> QED
      BY <1>2, <2>1, <2>4, <3>1, GotoKeeps DEF Steps
  <2> QED
    BY <1>4, <2>3, <2>4 DEF Select
<1>5. CASE CommitUpdate(w)
  <2>1. pc[w] = "update" /\ req[w] \in Request /\ req[w].pair \in Pair
        /\ req[w].row \in RowId /\ req[w].status \in Status
    BY <1>2, <1>5 DEF CommitUpdate, RequestAt, Request
  <2>2. contacts' \in [Pair -> Row]
    <3>1. TheRow(w).id = req[w].row =>
             [contacts[req[w].pair] EXCEPT !.status = req[w].status] \in Row
      BY <1>2, <2>1, NoneAssumption DEF TheRow, Row, NoRow
    <3>2. \/ UNCHANGED contacts
          \/ /\ TheRow(w).id = req[w].row
             /\ contacts' = [contacts EXCEPT ![req[w].pair] =
                                [contacts[req[w].pair] EXCEPT !.status = req[w].status]]
      BY <1>5 DEF CommitUpdate
    <3> QED
      BY <1>2, <2>1, <3>1, <3>2
  <2>3. CASE Goto(w, "refresh", req[w])
    <3>1. pc'[w] = "refresh" /\ req'[w] = req[w]
      BY <2>3 DEF Goto, IInv
    <3>2. held'[w]
      <4>1. CASE req[w].status = req[w].seen
        BY <1>2, <2>1, <3>1, <4>1, Remembered DEF RequestAt
      <4>2. CASE req[w].status # req[w].seen /\ pc'[w] # "idle"
        <5>1. TheRow(w).id = req[w].row
              /\ contacts' = [contacts EXCEPT ![req[w].pair].status = req[w].status]
          BY <1>5, <3>1, <4>2 DEF CommitUpdate, Answer, Goto, IInv
        <5>2. contacts'[req[w].pair].status = req[w].status
          <6>1. contacts[req[w].pair] \in Row
            BY <1>2, <2>1
          <6> QED
            BY <1>2, <2>1, <5>1, <6>1 DEF Row, NoRow
        <5> QED
          BY <3>1, <5>2, Remembered DEF Granted, TheRow
      <4> QED
        BY <3>1, <4>1, <4>2
    <3>3. RequestAt("refresh", req[w], held'[w])
      BY <2>1, <3>2 DEF RequestAt
    <3> QED
      BY <2>1, <2>2, <2>3, <3>3, GotoKeeps DEF Steps
  <2> QED
    BY <1>5, <2>2, <2>3, AnswerKeeps DEF CommitUpdate
<1>6. CASE CommitInsert(w)
  <2>1. /\ pc[w] = "insert" /\ req[w] \in Request /\ req[w].pair \in Pair
        /\ req[w].status \in Status /\ req[w].seen = NotAContact
    BY <1>2, <1>6 DEF CommitInsert, RequestAt, Request
  <2>2. ASSUME NEW i \in RowId,
               contacts' = [contacts EXCEPT ![req[w].pair] = [id |-> i, status |-> req[w].status]],
               Goto(w, "refresh", [req[w] EXCEPT !.row = i])
        PROVE  IInv'
    <3> DEFINE r == [req[w] EXCEPT !.row = i]
    <3>1. r \in Request /\ r.status = req[w].status /\ r.pair = req[w].pair
      BY <2>1 DEF Request
    <3>2. pc'[w] = "refresh" /\ req'[w] = r
      BY <2>2 DEF Goto, IInv
    <3>3. contacts' \in [Pair -> Row] /\ contacts'[req[w].pair].status = req[w].status
      BY <1>2, <2>1, <2>2 DEF Row
    <3>4. held'[w]
      BY <3>1, <3>2, <3>3, Remembered DEF Granted, TheRow
    <3>5. RequestAt("refresh", r, held'[w])
      BY <2>1, <3>1, <3>4 DEF RequestAt
    <3> HIDE DEF r
    <3> QED
      BY <2>2, <3>1, <3>3, <3>5, GotoKeeps DEF Steps, r
  <2>3. ASSUME Retry(w), UNCHANGED contacts PROVE IInv'
    <3> DEFINE r == [req[w] EXCEPT !.cached = NoRow]
    <3>1. /\ r \in Request /\ r.status = req[w].status
          /\ r.seen = req[w].seen /\ r.cached = NoRow
      BY <2>1 DEF Request, Row
    <3>2. RequestAt("select", r, held'[w])
      BY <2>1, <3>1 DEF RequestAt, NoRow, Status, NotAContact
    <3> HIDE DEF r
    <3> QED
      BY <1>2, <2>3, <3>1, <3>2, GotoKeeps DEF Retry, Steps, r
  <2> QED
    BY <1>6, <2>2, <2>3 DEF CommitInsert
<1>7. CASE Refresh(w)
  BY <1>2, <1>7, AnswerKeeps DEF Refresh
<1>8. CASE CommitDelete(w)
  <2>1. contacts' \in [Pair -> Row]
    BY <1>2, <1>8 DEF CommitDelete, Row
  <2> QED
    BY <1>8, <2>1, AnswerKeeps DEF CommitDelete
<1>9. CASE Remove(w)
  <2>1. PICK p \in Pair :
           /\ contacts[p] # NoRow
           /\ Goto(w, "delete",
                   Holding(Ask(p, NotAContact, NoRow), contacts[p].id, contacts[p].status))
    BY <1>9 DEF Remove
  <2> DEFINE r == Holding(Ask(p, NotAContact, NoRow), contacts[p].id, contacts[p].status)
  <2>2. contacts[p] \in Row \ {NoRow}
    BY <1>2, <2>1
  <2>3. r \in Request /\ r.row \in RowId /\ r.status = NotAContact
    BY <2>2 DEF Holding, Ask, Request, Row, AnyStatus
  <2>4. RequestAt("delete", r, held'[w])
    BY <2>3 DEF RequestAt
  <2> HIDE DEF r
  <2> QED
    BY <1>2, <1>9, <2>1, <2>3, <2>4, GotoKeeps DEF Remove, Steps, r
<1>10. CASE Abort(w)
  BY <1>2, <1>10, AnswerKeeps DEF Abort
<1> QED
  BY <1>3, <1>4, <1>5, <1>6, <1>7, <1>8, <1>9, <1>10 DEF Handle

\* The invariant holds for every set of users, rows and requests.
THEOREM Invariance == Spec => []IInv
BY InitIInv, StepIInv, PTL DEF Spec

\* Every variable keeps its type.
THEOREM TypeCorrect == Spec => []TypeOK
<1>1. IInv => TypeOK
  BY DEF IInv, TypeOK
<1> QED
  BY Invariance, <1>1, PTL

\* add_friend and block_user answer only what was so while they were served.
THEOREM WishGranted == Spec => []WishWasGranted
<1>1. IInv => WishWasGranted
  BY DEF IInv, WishWasGranted, RequestAt
<1> QED
  BY Invariance, <1>1, PTL

-----------------------------------------------------------------------------
(* The requests implement the book of contacts.                            *)

\* What the book sees of a request that goes on to step s as r.
LEMMA WishAfter ==
    ASSUME IInv, NEW w \in Worker, NEW s, NEW r, Goto(w, s, r)
    PROVE  /\ Wishes' = [Wishes EXCEPT ![w] = WishOf(s, r)]
           /\ Wishes = [Wishes EXCEPT ![w] = WishOf(pc[w], req[w])]
           /\ Wishes[w] = WishOf(pc[w], req[w])
<1>1. /\ pc'[w] = s /\ req'[w] = r
      /\ \A v \in Worker \ {w} : pc'[v] = pc[v] /\ req'[v] = req[v]
  BY DEF IInv, Goto
<1> QED
  BY <1>1 DEF Wishes

\* A request in flight is one the book knows of.
LEMMA InFlight ==
    ASSUME NEW s \in Steps \ {"idle"}, NEW r \in Request
    PROVE  WishOf(s, r) \in Wish /\ WishOf(s, r) # None
<1>1. WishOf(s, r) \in Wish
  BY DEF WishOf, Wish, Request
<1> QED
  BY <1>1, WishAssumption

\* What the book says of a pair whose row is replaced.
LEMMA BookAfter ==
    ASSUME contacts \in [Pair -> Row], NEW p \in Pair, NEW r \in Row,
           contacts' = [contacts EXCEPT ![p] = r]
    PROVE  BookOf' = [BookOf EXCEPT ![p] = r.status]
BY DEF BookOf

\* A request that goes on without writing, as the book sees it: nothing.
LEMMA Unseen ==
    ASSUME IInv, NEW w \in Worker, NEW s, NEW r, Goto(w, s, r), UNCHANGED contacts,
           WishOf(s, r) = WishOf(pc[w], req[w])
    PROVE  UNCHANGED <<BookOf, Wishes>>
BY WishAfter DEF BookOf

\* A request that has arrived is one asked of the book.
LEMMA Asked ==
    ASSUME IInv, NEW w \in Worker, pc[w] = "idle", NEW s \in {"select", "delete"},
           NEW r \in Request, Goto(w, s, r), UNCHANGED contacts
    PROVE  Book!Ask(w)
<1>1. WishOf(pc[w], req[w]) = None
  BY DEF WishOf
<1>2. WishOf(s, r) = [pair |-> r.pair, status |-> r.status, written |-> FALSE]
  BY DEF WishOf
<1>3. r.pair \in Book!Pair /\ r.status \in Book!Status \cup {Book!NotAContact}
  BY DEF Request, AnyStatus, Status, NotAContact, Pair, Book!Pair, Book!Status, Book!NotAContact
<1>4. UNCHANGED BookOf
  BY DEF BookOf
<1> QED
  BY <1>1, <1>2, <1>3, <1>4, WishAfter DEF Book!Ask

\* A request that is answered without having written.
LEMMA Answered ==
    ASSUME IInv, NEW w \in Worker, pc[w] # "idle", Answer(w), UNCHANGED contacts
    PROVE  Book!Answer(w)
<1>1. WishOf(pc[w], req[w]) # None
  BY InFlight DEF IInv, RequestAt
<1>2. WishOf("idle", None) = None
  BY DEF WishOf
<1>3. UNCHANGED BookOf
  BY DEF BookOf
<1> QED
  BY <1>1, <1>2, <1>3, WishAfter DEF Answer, Book!Answer

\* A request that has written its pair, once and as asked, and is answered or not.
LEMMA Written ==
    ASSUME IInv, NEW w \in Worker, pc[w] \in {"update", "insert", "delete"},
           NEW s, NEW r, Goto(w, s, r), NEW row \in Row, row.status = req[w].status,
           contacts' = [contacts EXCEPT ![req[w].pair] = row],
           \/ s = "idle"
           \/ /\ s = "refresh" /\ r.pair = req[w].pair
              /\ r.status = req[w].status /\ r.seen # r.status
    PROVE  Book!Write(w)
<1>1. pc[w] \in Steps \ {"idle"} /\ req[w] \in Request /\ req[w].pair \in Pair
  BY DEF IInv, RequestAt, Request
<1>2. /\ WishOf(pc[w], req[w]) # None
      /\ WishOf(pc[w], req[w]) = [pair |-> req[w].pair, status |-> req[w].status, written |-> FALSE]
  <2>1. (pc[w] = "refresh" /\ req[w].seen # req[w].status) = FALSE
    OBVIOUS
  <2> QED
    BY <1>1, <2>1, InFlight DEF WishOf
<1>3. /\ Wishes[w] # None
      /\ ~Wishes[w].written
      /\ BookOf' = [BookOf EXCEPT ![Wishes[w].pair] = Wishes[w].status]
  <2>1. Wishes[w] = WishOf(pc[w], req[w])
    BY WishAfter
  <2>2. BookOf' = [BookOf EXCEPT ![req[w].pair] = req[w].status]
    BY <1>1, BookAfter DEF IInv
  <2> QED
    BY <1>2, <2>1, <2>2
<1>4. CASE s = "idle"
  <2>1. Wishes' = [Wishes EXCEPT ![w] = None]
    BY <1>4, WishAfter DEF WishOf
  <2> QED
    BY <1>3, <2>1 DEF Book!Write
<1>5. CASE s = "refresh" /\ r.pair = req[w].pair /\ r.status = req[w].status /\ r.seen # r.status
  <2>1. (s = "refresh" /\ r.seen # r.status) = TRUE
    BY <1>5
  <2>2. WishOf(s, r) = [pair |-> req[w].pair, status |-> req[w].status, written |-> TRUE]
    BY <1>5, <2>1 DEF WishOf
  <2>3. Wishes' = [Wishes EXCEPT ![w] = [Wishes[w] EXCEPT !.written = TRUE]]
    BY <1>2, <2>2, WishAfter
  <2> QED
    BY <1>3, <2>3 DEF Book!Write
<1> QED
  BY <1>4, <1>5

\* At the start the book is empty and nothing is asked of it.
LEMMA InitBook == Init => Book!Init
BY DEF Init, BookOf, Wishes, Book!Init, NoRow, WishOf, Pair, Book!Pair, NotAContact, Book!NotAContact

\* Every step of a request is a step of the book, or nothing to it.
LEMMA StepBook == IInv /\ [Next]_vars => [Book!Next]_<<BookOf, Wishes>>
<1> SUFFICES ASSUME IInv, [Next]_vars PROVE [Book!Next]_<<BookOf, Wishes>>
  OBVIOUS
<1> DEFINE Nothing == UNCHANGED <<BookOf, Wishes>>
<1>1. CASE UNCHANGED vars
  BY <1>1 DEF vars, BookOf, Wishes
<1> SUFFICES ASSUME NEW w \in Worker, Put(w) \/ Remove(w) \/ Handle(w) \/ Abort(w)
             PROVE  Nothing \/ Book!Ask(w) \/ Book!Write(w) \/ Book!Answer(w)
  BY <1>1 DEF Next, Book!Next
<1>2. RequestAt(pc[w], req[w], held[w]) /\ contacts \in [Pair -> Row]
  BY DEF IInv
<1>3. CASE Put(w)
  <2>1. PICK p \in Pair, s \in Status : Goto(w, "select", Ask(p, s, contacts[p]))
    BY <1>3 DEF Put
  <2>2. Ask(p, s, contacts[p]) \in Request
    BY <1>2 DEF Ask, Request, AnyStatus
  <2> QED
    BY <1>3, <2>1, <2>2, Asked DEF Put
<1>4. CASE Remove(w)
  <2>1. PICK p \in Pair :
           /\ contacts[p] # NoRow
           /\ Goto(w, "delete",
                   Holding(Ask(p, NotAContact, NoRow), contacts[p].id, contacts[p].status))
    BY <1>4 DEF Remove
  <2> DEFINE r == Holding(Ask(p, NotAContact, NoRow), contacts[p].id, contacts[p].status)
  <2>2. contacts[p] \in Row \ {NoRow}
    BY <1>2, <2>1
  <2>3. r \in Request
    BY <2>2 DEF Holding, Ask, Request, Row, AnyStatus
  <2> QED
    BY <1>4, <2>1, <2>3, Asked DEF Remove
<1>5. CASE Select(w)
  <2>1. pc[w] = "select" /\ req[w] \in Request /\ UNCHANGED contacts
    BY <1>2, <1>5 DEF Select, RequestAt
  <2>2. PICK s \in {"update", "insert"}, r \in {req[w], Holding(req[w], TheRow(w).id,
                                                    Loaded(req[w], TheRow(w)))} : Goto(w, s, r)
    BY <1>5 DEF Select
  <2>3. r.pair = req[w].pair /\ r.status = req[w].status
    BY <2>1 DEF Holding, Request
  <2>4. WishOf(s, r) = WishOf(pc[w], req[w])
    BY <2>1, <2>3 DEF WishOf
  <2> QED
    BY <2>1, <2>2, <2>4, Unseen
<1>6. CASE CommitUpdate(w)
  <2>1. /\ pc[w] = "update" /\ req[w] \in Request /\ req[w].pair \in Pair
        /\ req[w].row \in RowId /\ req[w].status \in Status
    BY <1>2, <1>6 DEF CommitUpdate, RequestAt, Request
  <2>2. ASSUME req[w].status = req[w].seen, Goto(w, "refresh", req[w]), UNCHANGED contacts
        PROVE  Nothing
    <3>1. WishOf("refresh", req[w]) = WishOf(pc[w], req[w])
      BY <2>1, <2>2 DEF WishOf
    <3> QED
      BY <2>2, <3>1, Unseen
  <2>3. ASSUME req[w].status # req[w].seen, TheRow(w).id = req[w].row, Goto(w, "refresh", req[w]),
               contacts' = [contacts EXCEPT ![req[w].pair].status = req[w].status]
        PROVE  Book!Write(w)
    <3> DEFINE row == [TheRow(w) EXCEPT !.status = req[w].status]
    <3>1. row \in Row /\ row.status = req[w].status
      BY <1>2, <2>1, <2>3, NoneAssumption DEF TheRow, Row, NoRow
    <3>2. contacts' = [contacts EXCEPT ![req[w].pair] = row]
      BY <2>3 DEF TheRow
    <3> QED
      BY <2>1, <2>3, <3>1, <3>2, Written
  <2> QED
    BY <1>6, <2>1, <2>2, <2>3, Answered DEF CommitUpdate
<1>7. CASE CommitInsert(w)
  <2>1. /\ pc[w] = "insert" /\ req[w] \in Request
        /\ req[w].status \in Status /\ req[w].seen = NotAContact
    BY <1>2, <1>7 DEF CommitInsert, RequestAt
  <2>2. ASSUME NEW i \in RowId, Goto(w, "refresh", [req[w] EXCEPT !.row = i]),
               contacts' = [contacts EXCEPT ![req[w].pair] = [id |-> i, status |-> req[w].status]]
        PROVE  Book!Write(w)
    <3> DEFINE r == [req[w] EXCEPT !.row = i]
               row == [id |-> i, status |-> req[w].status]
    <3>1. row \in Row /\ row.status = req[w].status
      BY <2>1 DEF Row
    <3>2. r.pair = req[w].pair /\ r.status = req[w].status /\ r.seen # r.status
      BY <2>1 DEF Request, Status, NotAContact
    <3> QED
      BY <2>1, <2>2, <3>1, <3>2, Written
  <2>3. ASSUME Retry(w), UNCHANGED contacts PROVE Nothing
    <3> DEFINE r == [req[w] EXCEPT !.cached = NoRow]
    <3>1. r.pair = req[w].pair /\ r.status = req[w].status
      BY <2>1 DEF Request
    <3>2. WishOf("select", r) = WishOf(pc[w], req[w])
      BY <2>1, <3>1 DEF WishOf
    <3> QED
      BY <2>3, <3>2, Unseen DEF Retry
  <2> QED
    BY <1>7, <2>2, <2>3 DEF CommitInsert
<1>8. CASE Refresh(w)
  BY <1>8, Answered DEF Refresh
<1>9. CASE CommitDelete(w)
  <2>1. pc[w] = "delete" /\ req[w].status = NotAContact /\ Answer(w)
    BY <1>2, <1>9 DEF CommitDelete, RequestAt
  <2>2. ASSUME contacts' = [contacts EXCEPT ![req[w].pair] = NoRow]
        PROVE  Book!Write(w)
    <3>1. NoRow \in Row /\ NoRow.status = req[w].status
      BY <2>1 DEF Row, NoRow
    <3> QED
      BY <2>1, <2>2, <3>1, Written DEF Answer
  <2> QED
    BY <1>9, <2>1, <2>2, Answered DEF CommitDelete
<1>10. CASE Abort(w)
  BY <1>10, Answered DEF Abort
<1> QED
  BY <1>3, <1>4, <1>5, <1>6, <1>7, <1>8, <1>9, <1>10 DEF Handle

\* Whatever the requests do at the same time, each writes its own pair, at most
\* once, and what it was asked to: the handlers implement the book.
THEOREM Implements == Spec => ImplementsContactBook
BY InitBook, StepBook, Invariance, PTL DEF Spec, ImplementsContactBook, Book!Spec
=============================================================================
