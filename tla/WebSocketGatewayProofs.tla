----------------------- MODULE WebSocketGatewayProofs -----------------------
(***************************************************************************)
(* Proofs about WebSocketGateway, for any number of users, sockets and     *)
(* instances: what the connection lists hold, that a presence key has a    *)
(* socket or a pending delete behind it, and that the messages sent on a   *)
(* socket are in the order of the topic.                                   *)
(***************************************************************************)
EXTENDS WebSocketGateway, SequenceTheorems, TLAPS

\* The types of the variables that the connection lists depend on; the owner of
\* a socket is set when it connects.
ConnTyped ==
    /\ active \in [Instance -> [User -> Seq(Socket)]]
    /\ sock \in [Socket -> SocketState]
    /\ owner \in [Socket -> [user : User \cup {None}, inst : Instance \cup {None}]]
    /\ presence \subseteq User
    /\ \A s \in Socket : sock[s] \in {"setting", "open", "stalled", "dropped", "deleting", "leaked"} =>
          owner[s].user \in User /\ owner[s].inst \in Instance
    /\ \A s \in Socket : owner[s].inst \notin Instance => sock[s] = "new"

ConnInv == ConnTyped /\ ListsAreRegistered

\* What RemoveAt leaves: everything before k where it was, the rest one place down.
LEMMA RemoveAtFacts ==
    ASSUME NEW l \in Seq(Socket), NEW k \in 1..Len(l)
    PROVE  /\ RemoveAt(l, k) \in Seq(Socket)
           /\ Len(RemoveAt(l, k)) = Len(l) - 1
           /\ \A j \in 1..Len(l)-1 : RemoveAt(l, k)[j] = IF j < k THEN l[j] ELSE l[j + 1]
<1> DEFINE a == SubSeq(l, 1, k - 1)
           b == SubSeq(l, k + 1, Len(l))
<1>1. /\ a \in Seq(Socket) /\ Len(a) = k - 1
      /\ \A j \in 1..k-1 : a[j] = l[j]
  BY SubSeqProperties
<1>2. /\ b \in Seq(Socket) /\ Len(b) = Len(l) - k
      /\ \A j \in 1..Len(l)-k : b[j] = l[k + j]
  <2>1. k + 1 \in 1..Len(l)+1 /\ Len(l) \in k..Len(l)
    OBVIOUS
  <2> QED
    BY <2>1, SubSeqProperties
<1>3. RemoveAt(l, k) = a \o b
  BY DEF RemoveAt
<1> HIDE DEF a, b
<1>4. /\ a \o b \in Seq(Socket) /\ Len(a \o b) = Len(l) - 1
      /\ \A j \in 1..Len(l)-1 : (a \o b)[j] = IF j < k THEN a[j] ELSE b[j - (k - 1)]
  <2>1. a \o b \in Seq(Socket) /\ Len(a \o b) = Len(a) + Len(b)
    BY <1>1, <1>2, ConcatProperties
  <2>2. \A j \in 1..Len(a)+Len(b) : (a \o b)[j] = IF j <= Len(a) THEN a[j] ELSE b[j - Len(a)]
    BY <1>1, <1>2, ConcatProperties
  <2>3. Len(a) = k - 1 /\ Len(b) = Len(l) - k /\ k \in Nat /\ Len(l) \in Nat
    BY <1>1, <1>2
  <2> HIDE <1>1, <1>2
  <2> QED
    BY <2>1, <2>2, <2>3
<1>5. ASSUME NEW j \in 1..Len(l)-1
      PROVE  (a \o b)[j] = IF j < k THEN l[j] ELSE l[j + 1]
  <2> USE <1>5
  <2>1. CASE j < k
    BY <1>1, <1>4, <2>1
  <2>2. CASE ~ (j < k)
    <3>1. j - (k - 1) \in 1..Len(l)-k /\ k + (j - (k - 1)) = j + 1
      BY <2>2
    <3> QED
      BY <1>2, <1>4, <2>2, <3>1
  <2> QED
    BY <2>1, <2>2
<1> QED
  BY <1>3, <1>4, <1>5

\* Taking out the one place where s stands leaves the others, each once.
LEMMA RemoveSocket ==
    ASSUME NEW l \in Seq(Socket), NEW s \in Socket,
           \E k \in DOMAIN l : l[k] = s,
           \A j, k \in DOMAIN l : l[j] = l[k] => j = k
    PROVE  LET r == RemoveAt(l, Index(l, s))
           IN  /\ r \in Seq(Socket)
               /\ \A j \in DOMAIN r : r[j] # s /\ \E k \in DOMAIN l : r[j] = l[k]
               /\ \A k \in DOMAIN l : l[k] # s => \E j \in DOMAIN r : j <= k /\ r[j] = l[k]
               /\ \A j, k \in DOMAIN r : r[j] = r[k] => j = k
<1> DEFINE i == Index(l, s)
           r == RemoveAt(l, i)
<1>1. i \in 1..Len(l) /\ l[i] = s
  BY DEF Index
<1>2. /\ r \in Seq(Socket) /\ Len(r) = Len(l) - 1
      /\ \A j \in 1..Len(l)-1 : r[j] = IF j < i THEN l[j] ELSE l[j + 1]
  BY <1>1, RemoveAtFacts
<1> HIDE DEF i, r
<1>3. ASSUME NEW j \in DOMAIN r PROVE r[j] # s /\ \E k \in DOMAIN l : r[j] = l[k]
  BY <1>1, <1>2, <1>3, SMTT(30)
<1>4. ASSUME NEW k \in DOMAIN l, l[k] # s PROVE \E j \in DOMAIN r : j <= k /\ r[j] = l[k]
  <2>1. CASE k < i
    BY <1>1, <1>2, <2>1
  <2>2. CASE k > i
    <3>1. k - 1 \in DOMAIN r /\ r[k - 1] = l[k]
      BY <1>1, <1>2, <2>2
    <3> QED
      BY <3>1
  <2> QED
    BY <1>1, <1>4, <2>1, <2>2
<1>5. ASSUME NEW j \in DOMAIN r, NEW k \in DOMAIN r, r[j] = r[k] PROVE j = k
  BY <1>1, <1>2, <1>5, SMTT(30)
<1> QED
  BY <1>2, <1>3, <1>4, <1>5 DEF i, r

-----------------------------------------------------------------------------
(* The connection lists: ConnInv is inductive. *)

\* A service that starts has no sockets and empty lists.
LEMMA InitConn == Init => ConnInv
<1> SUFFICES ASSUME Init PROVE ConnInv
  OBVIOUS
<1>1. ConnTyped
  BY GatewayAssumption DEF Init, ConnTyped, SocketState
<1>2. ListsAreRegistered
  BY DEF Init, ListsAreRegistered, Registered
<1> QED
  BY <1>1, <1>2 DEF ConnInv

\* A step that changes no list and no owner, and keeps every socket registered
\* or not as it was.
SameListsStep ==
    /\ active' = active /\ owner' = owner
    /\ sock' \in [Socket -> SocketState]
    /\ presence' \subseteq User
    /\ \A s \in Socket :
          /\ sock'[s] \in Registered <=> sock[s] \in Registered
          /\ \/ sock'[s] = sock[s]
             \/ /\ sock[s] \in {"setting", "open", "stalled", "dropped", "deleting", "leaked"}
                /\ sock'[s] # "new"

\* Such a step preserves the invariant (SetPresence, Drop, the failures, the worker).
LEMMA SameLists == ConnInv /\ SameListsStep => ConnInv'
<1> SUFFICES ASSUME ConnInv, SameListsStep PROVE ConnInv'
  OBVIOUS
<1> USE DEF SameListsStep
<1>1. ConnTyped'
  BY DEF ConnInv, ConnTyped
<1>2. ListsAreRegistered'
  <2>1. ASSUME NEW s \in Socket, sock'[s] \in Registered
        PROVE  \E k \in DOMAIN active[owner[s].inst][owner[s].user] :
                  active[owner[s].inst][owner[s].user][k] = s
    BY <2>1 DEF ConnInv, ListsAreRegistered
  <2>2. ASSUME NEW i \in Instance, NEW u \in User, NEW k \in DOMAIN active[i][u]
        PROVE  /\ sock'[active[i][u][k]] \in Registered
               /\ owner[active[i][u][k]] = [user |-> u, inst |-> i]
               /\ \A j \in DOMAIN active[i][u] : active[i][u][j] = active[i][u][k] => j = k
    <3>1. active[i][u] \in Seq(Socket)
      BY DEF ConnInv, ConnTyped
    <3>2. active[i][u][k] \in Socket
      BY <3>1, <2>2
    <3> QED
      BY <3>2 DEF ConnInv, ListsAreRegistered
  <2> QED
    BY <2>1, <2>2 DEF ListsAreRegistered
<1> QED
  BY <1>1, <1>2 DEF ConnInv

\* connect appends a socket that is in no list (manager.py: 16-18).
LEMMA ConnectStep ==
    ASSUME ConnInv, NEW s \in Socket, Connect(s)
    PROVE  ConnInv'
<1>1. PICK u \in User, i \in Instance :
         /\ owner' = [owner EXCEPT ![s] = [user |-> u, inst |-> i]]
         /\ active' = [active EXCEPT ![i][u] = Append(@, s)]
  BY DEF Connect
<1>2. /\ sock[s] = "new" /\ sock' = [sock EXCEPT ![s] = "setting"] /\ presence' = presence
      /\ s \notin {t \in Socket : sock[t] \in Registered}
  BY DEF Connect, Registered
<1>3. ConnTyped /\ ListsAreRegistered
  BY DEF ConnInv
<1>4. /\ active[i][u] \in Seq(Socket)
      /\ active'[i][u] = Append(active[i][u], s)
      /\ Append(active[i][u], s) \in Seq(Socket)
      /\ \A j \in Instance, v \in User : <<j, v>> # <<i, u>> => active'[j][v] = active[j][v]
  BY <1>1, <1>3, AppendProperties DEF ConnTyped
<1>5. /\ owner'[s] = [user |-> u, inst |-> i] /\ sock'[s] = "setting"
      /\ \A t \in Socket : t # s => owner'[t] = owner[t] /\ sock'[t] = sock[t]
  BY <1>1, <1>2, <1>3 DEF ConnTyped
<1>6. ConnTyped'
  <2>1. active' \in [Instance -> [User -> Seq(Socket)]]
    BY <1>1, <1>3, <1>4 DEF ConnTyped
  <2>2. /\ sock' \in [Socket -> SocketState]
        /\ owner' \in [Socket -> [user : User \cup {None}, inst : Instance \cup {None}]]
    BY <1>1, <1>2, <1>3 DEF ConnTyped, SocketState
  <2> QED
    BY <2>1, <2>2, <1>2, <1>3, <1>5 DEF ConnTyped
<1>7. ASSUME NEW j \in Instance, NEW v \in User, NEW k \in DOMAIN active[j][v]
      PROVE  /\ active[j][v][k] \in Socket /\ active[j][v][k] # s
             /\ sock[active[j][v][k]] \in Registered
             /\ owner[active[j][v][k]] = [user |-> v, inst |-> j]
  <2>1. active[j][v] \in Seq(Socket)
    BY <1>3 DEF ConnTyped
  <2>2. active[j][v][k] \in Socket
    BY <2>1, <1>7
  <2> QED
    BY <2>2, <1>2, <1>3 DEF ListsAreRegistered
<1>8. ASSUME NEW t \in Socket, sock'[t] \in Registered
      PROVE  \E k \in DOMAIN active'[owner'[t].inst][owner'[t].user] :
                active'[owner'[t].inst][owner'[t].user][k] = t
  <2>1. CASE t = s
    <3>1. /\ Len(active[i][u]) + 1 \in DOMAIN active'[i][u]
          /\ active'[i][u][Len(active[i][u]) + 1] = s
      BY <1>4, AppendProperties
    <3> QED
      BY <3>1, <2>1, <1>5
  <2>2. CASE t # s
    <3>1. owner'[t] = owner[t] /\ sock[t] \in Registered
      BY <1>5, <1>8, <2>2
    <3>2. PICK k \in DOMAIN active[owner[t].inst][owner[t].user] :
             active[owner[t].inst][owner[t].user][k] = t
      BY <1>3, <3>1 DEF ListsAreRegistered
    <3>3. owner[t].inst \in Instance /\ owner[t].user \in User
      BY <1>3, <3>1 DEF ConnTyped, Registered
    <3>4. CASE <<owner[t].inst, owner[t].user>> = <<i, u>>
      <4>1. k \in DOMAIN active'[i][u] /\ active'[i][u][k] = t
        BY <1>4, <3>2, <3>4, AppendProperties
      <4> QED
        BY <4>1, <3>1, <3>4
    <3>5. CASE <<owner[t].inst, owner[t].user>> # <<i, u>>
      BY <1>4, <3>1, <3>2, <3>3, <3>5, SMTT(30)
    <3> QED
      BY <3>4, <3>5
  <2> QED
    BY <2>1, <2>2
<1>9. ASSUME NEW j \in Instance, NEW v \in User, NEW k \in DOMAIN active'[j][v]
      PROVE  /\ sock'[active'[j][v][k]] \in Registered
             /\ owner'[active'[j][v][k]] = [user |-> v, inst |-> j]
             /\ \A m \in DOMAIN active'[j][v] : active'[j][v][m] = active'[j][v][k] => m = k
  <2>1. CASE <<j, v>> # <<i, u>>
    <3>1. active'[j][v] = active[j][v]
      BY <1>4, <2>1
    <3>2. /\ active[j][v][k] \in Socket /\ active[j][v][k] # s
          /\ sock[active[j][v][k]] \in Registered
          /\ owner[active[j][v][k]] = [user |-> v, inst |-> j]
      BY <1>7, <1>9, <3>1
    <3> QED
      BY <3>1, <3>2, <1>3, <1>5, <1>9 DEF ListsAreRegistered
  <2>2. CASE <<j, v>> = <<i, u>>
    <3> DEFINE l == active[i][u]
    <3>1. /\ DOMAIN active'[j][v] = 1..Len(l)+1 /\ Len(l) \in Nat /\ DOMAIN l = 1..Len(l)
          /\ active'[j][v][Len(l) + 1] = s
          /\ \A m \in 1..Len(l) : active'[j][v][m] = l[m]
      BY <1>4, <2>2, AppendProperties
    <3>2. \A m \in 1..Len(l) : l[m] \in Socket /\ l[m] # s
             /\ sock[l[m]] \in Registered /\ owner[l[m]] = [user |-> u, inst |-> i]
      BY <1>7, <3>1
    <3>3. \A m, n \in 1..Len(l) : l[m] = l[n] => m = n
      <4>1. \A m, n \in DOMAIN l : l[m] = l[n] => m = n
        BY <1>3 DEF ListsAreRegistered
      <4> QED
        BY <3>1, <4>1
    <3> HIDE DEF l
    <3>4. CASE k = Len(l) + 1
      BY <3>1, <3>2, <3>4, <2>2, <1>5 DEF Registered
    <3>5. CASE k \in 1..Len(l)
      BY <3>1, <3>2, <3>3, <3>5, <2>2, <1>5
    <3> QED
      BY <3>1, <3>4, <3>5, <1>9
  <2> QED
    BY <2>1, <2>2
<1> QED
  BY <1>6, <1>8, <1>9 DEF ConnInv, ListsAreRegistered

\* disconnect takes out the one place of the socket (manager.py: 25-29).
LEMMA DisconnectStep ==
    ASSUME ConnInv, NEW s \in Socket, Disconnect(s)
    PROVE  ConnInv'
<1> DEFINE u == owner[s].user
           i == owner[s].inst
           l == active[i][u]
           r == RemoveAt(l, Index(l, s))
<1>1. ConnTyped /\ ListsAreRegistered
  BY DEF ConnInv
<1>2. /\ sock[s] \in {"open", "dropped"}
      /\ active' = [active EXCEPT ![i][u] = r]
      /\ \E x \in {"deleting", "closed"} : sock' = [sock EXCEPT ![s] = x]
      /\ owner' = owner /\ presence' = presence
  BY DEF Disconnect
<1>3. u \in User /\ i \in Instance /\ l \in Seq(Socket)
  BY <1>1, <1>2 DEF ConnTyped
<1>4. /\ \E k \in DOMAIN l : l[k] = s
      /\ \A j, k \in DOMAIN l : l[j] = l[k] => j = k
  <2>1. sock[s] \in Registered
    BY <1>2 DEF Registered
  <2> QED
    BY <2>1, <1>1, <1>3 DEF ListsAreRegistered
<1>5. /\ r \in Seq(Socket)
      /\ \A j \in DOMAIN r : r[j] # s /\ \E k \in DOMAIN l : r[j] = l[k]
      /\ \A k \in DOMAIN l : l[k] # s => \E j \in DOMAIN r : r[j] = l[k]
      /\ \A j, k \in DOMAIN r : r[j] = r[k] => j = k
  BY <1>3, <1>4, RemoveSocket
<1>6. /\ active'[i][u] = r
      /\ \A j \in Instance, v \in User : <<j, v>> # <<i, u>> => active'[j][v] = active[j][v]
      /\ active' \in [Instance -> [User -> Seq(Socket)]]
  BY <1>1, <1>2, <1>3, <1>5 DEF ConnTyped
<1>7. /\ sock'[s] \in {"deleting", "closed"}
      /\ \A t \in Socket : t # s => sock'[t] = sock[t]
      /\ sock' \in [Socket -> SocketState]
  BY <1>1, <1>2 DEF ConnTyped, SocketState
<1> HIDE DEF r
<1>8. ConnTyped'
  BY <1>1, <1>2, <1>3, <1>6, <1>7 DEF ConnTyped
<1>9. ASSUME NEW j \in Instance, NEW v \in User, NEW k \in DOMAIN active[j][v]
      PROVE  /\ active[j][v][k] \in Socket
             /\ sock[active[j][v][k]] \in Registered
             /\ owner[active[j][v][k]] = [user |-> v, inst |-> j]
  <2>1. active[j][v] \in Seq(Socket)
    BY <1>1 DEF ConnTyped
  <2>2. active[j][v][k] \in Socket
    BY <2>1, <1>9
  <2> QED
    BY <2>2, <1>1 DEF ListsAreRegistered
<1>10. ASSUME NEW t \in Socket, sock'[t] \in Registered
       PROVE  \E k \in DOMAIN active'[owner[t].inst][owner[t].user] :
                 active'[owner[t].inst][owner[t].user][k] = t
  <2>1. t # s /\ sock[t] \in Registered
    BY <1>7, <1>10 DEF Registered
  <2>2. PICK k \in DOMAIN active[owner[t].inst][owner[t].user] :
           active[owner[t].inst][owner[t].user][k] = t
    BY <1>1, <2>1 DEF ListsAreRegistered
  <2>3. owner[t].inst \in Instance /\ owner[t].user \in User
    BY <1>1, <2>1 DEF ConnTyped, Registered
  <2>4. CASE owner[t].inst = i /\ owner[t].user = u
    <3>1. k \in DOMAIN l /\ l[k] = t /\ l[k] # s
      BY <2>1, <2>2, <2>4
    <3>2. \E j \in DOMAIN r : r[j] = t
      BY <1>5, <3>1
    <3> QED
      BY <3>2, <2>4, <1>6
  <2>5. CASE ~ (owner[t].inst = i /\ owner[t].user = u)
    <3>1. active'[owner[t].inst][owner[t].user] = active[owner[t].inst][owner[t].user]
      BY <1>6, <2>3, <2>5
    <3> QED
      BY <2>2, <3>1
  <2> QED
    BY <2>4, <2>5
<1>11. ASSUME NEW j \in Instance, NEW v \in User, NEW k \in DOMAIN active'[j][v]
       PROVE  /\ sock'[active'[j][v][k]] \in Registered
              /\ owner[active'[j][v][k]] = [user |-> v, inst |-> j]
              /\ \A m \in DOMAIN active'[j][v] : active'[j][v][m] = active'[j][v][k] => m = k
  <2>1. CASE <<j, v>> # <<i, u>>
    <3>1. active'[j][v] = active[j][v] /\ k \in DOMAIN active[j][v]
      BY <1>6, <1>11, <2>1
    <3>2. active[j][v][k] # s
      <4>1. owner[active[j][v][k]] = [user |-> v, inst |-> j]
        BY <1>9, <3>1
      <4>2. CASE active[j][v][k] = s
        <5>1. u = v /\ i = j
          BY <4>1, <4>2
        <5> QED
          BY <5>1, <2>1
      <4> QED
        BY <4>2
    <3>3. \A m \in DOMAIN active[j][v] : active[j][v][m] = active[j][v][k] => m = k
      BY <1>1, <3>1 DEF ListsAreRegistered
    <3> QED
      BY <3>1, <3>2, <3>3, <1>7, <1>9
  <2>2. CASE <<j, v>> = <<i, u>>
    <3>1. active'[j][v] = r /\ k \in DOMAIN r
      BY <1>6, <1>11, <2>2
    <3>2. PICK n \in DOMAIN l : r[k] = l[n]
      BY <1>5, <3>1
    <3>3. /\ r[k] \in Socket /\ r[k] # s /\ sock[r[k]] \in Registered
          /\ owner[r[k]] = [user |-> u, inst |-> i]
      BY <3>1, <3>2, <1>3, <1>5, <1>9
    <3> QED
      BY <3>1, <3>3, <2>2, <1>5, <1>7
  <2> QED
    BY <2>1, <2>2
<1>12. owner' = owner
  BY <1>2
<1>13. ListsAreRegistered'
  BY <1>10, <1>11, <1>12 DEF ListsAreRegistered
<1> QED
  BY <1>8, <1>13 DEF ConnInv

\* A crash empties the lists of the instance, whose sockets are closed.
LEMMA CrashStep ==
    ASSUME ConnInv, NEW i \in Instance, Crash(i)
    PROVE  ConnInv'
<1>1. ConnTyped /\ ListsAreRegistered
  BY DEF ConnInv
<1>2. /\ active' = [active EXCEPT ![i] = [u \in User |-> <<>>]]
      /\ sock' = [s \in Socket |-> IF owner[s].inst = i THEN "closed" ELSE sock[s]]
      /\ owner' = owner /\ presence' = presence
  BY DEF Crash
<1>3. /\ active' \in [Instance -> [User -> Seq(Socket)]]
      /\ \A u \in User : active'[i][u] = <<>>
      /\ \A j \in Instance : j # i => active'[j] = active[j]
  BY <1>1, <1>2 DEF ConnTyped
<1>4. ConnTyped'
  BY <1>1, <1>2, <1>3 DEF ConnTyped, SocketState
<1>5. ASSUME NEW t \in Socket, sock'[t] \in Registered
      PROVE  \E k \in DOMAIN active'[owner[t].inst][owner[t].user] :
                active'[owner[t].inst][owner[t].user][k] = t
  <2>1. owner[t].inst # i /\ sock[t] \in Registered
    BY <1>2, <1>5 DEF Registered
  <2>2. owner[t].inst \in Instance
    BY <1>1, <2>1 DEF ConnTyped, Registered
  <2> QED
    BY <1>1, <1>3, <2>1, <2>2 DEF ListsAreRegistered
<1>6. ASSUME NEW j \in Instance, NEW v \in User, NEW k \in DOMAIN active'[j][v]
      PROVE  /\ sock'[active'[j][v][k]] \in Registered
             /\ owner[active'[j][v][k]] = [user |-> v, inst |-> j]
             /\ \A m \in DOMAIN active'[j][v] : active'[j][v][m] = active'[j][v][k] => m = k
  <2>1. j # i /\ active'[j][v] = active[j][v]
    BY <1>3, <1>6
  <2>2. /\ sock[active[j][v][k]] \in Registered
        /\ owner[active[j][v][k]] = [user |-> v, inst |-> j]
        /\ \A m \in DOMAIN active[j][v] : active[j][v][m] = active[j][v][k] => m = k
    BY <1>1, <1>6, <2>1 DEF ListsAreRegistered
  <2>3. active[j][v][k] \in Socket
    <3>1. active[j][v] \in Seq(Socket)
      BY <1>1 DEF ConnTyped
    <3> QED
      BY <3>1, <2>1, <1>6
  <2>4. sock'[active[j][v][k]] = sock[active[j][v][k]]
    BY <1>2, <2>1, <2>2, <2>3
  <2> QED
    BY <2>1, <2>2, <2>4
<1>7. owner' = owner
  BY <1>2
<1>8. ListsAreRegistered'
  BY <1>5, <1>6, <1>7 DEF ListsAreRegistered
<1> QED
  BY <1>4, <1>8 DEF ConnInv

\* Every step of the service keeps the lists right.
LEMMA ConnStep == ConnInv /\ [Next]_vars => ConnInv'
<1> SUFFICES ASSUME ConnInv, [Next]_vars PROVE ConnInv'
  OBVIOUS
<1> USE DEF SocketState, Registered
<1>1. /\ sock \in [Socket -> SocketState] /\ presence \subseteq User
      /\ \A s \in Socket : sock[s] \in {"setting", "open", "stalled", "dropped", "deleting", "leaked"} =>
            owner[s].user \in User
  BY DEF ConnInv, ConnTyped
<1>2. ASSUME NEW s \in Socket, Endpoint(s) PROVE ConnInv'
  <2>1. CASE Connect(s)
    BY <2>1, ConnectStep
  <2>2. CASE SetPresence(s)
    BY <2>2, <1>1, SameLists DEF SameListsStep, SetPresence
  <2>3. CASE SetPresenceFails(s)
    BY <2>3, <1>1, SameLists DEF SameListsStep, SetPresenceFails
  <2>4. CASE Drop(s)
    BY <2>4, <1>1, SameLists DEF SameListsStep, Drop
  <2>5. CASE Disconnect(s)
    BY <2>5, DisconnectStep
  <2>6. CASE DeletePresence(s)
    BY <2>6, <1>1, SameLists DEF SameListsStep, DeletePresence
  <2>7. CASE DeletePresenceFails(s)
    BY <2>7, <1>1, SameLists DEF SameListsStep, DeletePresenceFails
  <2>8. CASE Stall(s)
    BY <2>8, <1>1, SameLists DEF SameListsStep, Stall
  <2>9. CASE EndStall(s)
    BY <2>9, <1>1, SameLists DEF SameListsStep, EndStall
  <2> QED
    BY <1>2, <2>1, <2>2, <2>3, <2>4, <2>5, <2>6, <2>7, <2>8, <2>9 DEF Endpoint
<1>3. ASSUME UNCHANGED <<active, sock, owner, presence>> PROVE ConnInv'
  BY <1>1, <1>3, SameLists DEF SameListsStep
<1>4. CASE Produce
  BY <1>3, <1>4 DEF Produce
<1>5. ASSUME NEW i \in Instance,
             StartConsumer(i) \/ Consume(i) \/ AutoCommit(i) \/ WorkerDies(i) \/ Work(i)
      PROVE  ConnInv'
  BY <1>3, <1>5 DEF StartConsumer, Consume, AutoCommit, WorkerDies,
                    Work, SkipUser, BeginList, NextSocket, EndList
<1>6. ASSUME NEW i \in Instance, Crash(i) PROVE ConnInv'
  BY <1>6, CrashStep
<1>7. ASSUME NEW u \in User, Expire(u) PROVE ConnInv'
  BY <1>1, <1>7, SameLists DEF SameListsStep, Expire
<1>8. CASE UNCHANGED vars
  BY <1>3, <1>8 DEF vars
<1> QED
  BY <1>2, <1>4, <1>5, <1>6, <1>7, <1>8 DEF Next

\* The connection lists of the manager hold exactly the registered sockets, each
\* once, whatever connects, disconnects, fails or crashes, and however the worker
\* goes through them (manager.py: connect, disconnect, send_personal_message).
THEOREM ListsRight == Spec => []ListsAreRegistered
<1>1. ConnInv => ListsAreRegistered
  BY DEF ConnInv
<1> QED
  BY InitConn, ConnStep, <1>1, PTL DEF Spec

-----------------------------------------------------------------------------
(* The presence keys. *)

\* With a Redis that answers and instances that stay up, a presence key has a
\* socket of its user behind it, or the call that deletes it: the last socket of
\* a list to leave makes that call, and any other leaves another one in the list.
\* With several instances too, whose calls nothing orders (manager.py: 21, 28-31).
THEOREM PresenceBacked ==
    ASSUME "redis" \notin Faults, "crash" \notin Faults
    PROVE  Spec => []PresenceIsBacked
<1>1. Init => PresenceIsBacked
  BY DEF Init, PresenceIsBacked
<1>2. ASSUME ConnInv, PresenceIsBacked, [Next]_vars PROVE PresenceIsBacked'
  <2> USE DEF Registered
  <2>1. /\ sock \in [Socket -> SocketState]
        /\ owner \in [Socket -> [user : User \cup {None}, inst : Instance \cup {None}]]
    BY <1>2 DEF ConnInv, ConnTyped
  <2>2. ASSUME NEW s \in Socket, owner' = owner, presence' \subseteq presence \cup {owner[s].user},
               sock'[s] \in Registered,
               \A t \in Socket : t # s => sock'[t] = sock[t]
        PROVE  PresenceIsBacked'
    BY <1>2, <2>2 DEF PresenceIsBacked
  <2>3. ASSUME NEW s \in Socket, Connect(s) PROVE PresenceIsBacked'
    <3>1. /\ sock[s] = "new" /\ presence' = presence
          /\ \A t \in Socket : t # s => sock'[t] = sock[t] /\ owner'[t] = owner[t]
      BY <2>1, <2>3 DEF Connect
    <3> QED
      BY <1>2, <3>1 DEF PresenceIsBacked
  <2>4. ASSUME NEW s \in Socket, SetPresence(s) PROVE PresenceIsBacked'
    BY <2>1, <2>2, <2>4 DEF SetPresence
  <2>5. ASSUME NEW s \in Socket, Drop(s) \/ Stall(s) \/ EndStall(s) PROVE PresenceIsBacked'
    BY <2>1, <2>2, <2>5 DEF Drop, Stall, EndStall
  <2>6. ASSUME NEW s \in Socket, Disconnect(s) PROVE PresenceIsBacked'
    <3> DEFINE u == owner[s].user
               i == owner[s].inst
               l == active[i][u]
               r == RemoveAt(l, Index(l, s))
    <3>1. ConnTyped /\ ListsAreRegistered
      BY <1>2 DEF ConnInv
    <3>2. /\ sock[s] \in {"open", "dropped"} /\ owner' = owner /\ presence' = presence
          /\ sock' = [sock EXCEPT ![s] = IF r = <<>> THEN "deleting" ELSE "closed"]
      BY <2>6 DEF Disconnect, IsEmptyList
    <3>3. u \in User /\ i \in Instance /\ l \in Seq(Socket)
      BY <3>1, <3>2 DEF ConnTyped
    <3>4. /\ \E k \in DOMAIN l : l[k] = s
          /\ \A j, k \in DOMAIN l : l[j] = l[k] => j = k
      BY <3>1, <3>2, <3>3, ZenonT(60) DEF ListsAreRegistered
    <3>5. /\ r \in Seq(Socket)
          /\ \A j \in DOMAIN r : r[j] # s /\ \E k \in DOMAIN l : r[j] = l[k]
      BY <3>3, <3>4, RemoveSocket
    <3> HIDE DEF r
    <3>6. /\ sock'[s] = IF r = <<>> THEN "deleting" ELSE "closed"
          /\ \A t \in Socket : t # s => sock'[t] = sock[t]
      BY <2>1, <3>2
    <3>7. CASE r = <<>>
      BY <1>2, <3>2, <3>6, <3>7 DEF PresenceIsBacked
    <3>8. CASE r # <<>>
      <4>1. 1 \in DOMAIN r
        BY <3>5, <3>8
      <4>2. PICK k \in DOMAIN l : r[1] = l[k] /\ l[k] # s
        BY <3>5, <4>1
      <4>3. l[k] \in Socket /\ sock[l[k]] \in Registered /\ owner[l[k]].user = u
        <5>1. l[k] \in Socket
          BY <3>3, <4>2
        <5>2. sock[l[k]] \in Registered /\ owner[l[k]] = [user |-> u, inst |-> i]
          BY <3>1, <3>3, <4>2 DEF ListsAreRegistered
        <5> QED
          BY <5>1, <5>2
      <4>4. sock'[l[k]] \in Registered
        BY <3>6, <4>2, <4>3
      <4>5. ASSUME NEW v \in presence'
            PROVE  \E t \in Socket : owner[t].user = v /\ sock'[t] \in Registered \cup {"deleting"}
        BY <1>2, <3>2, <3>6, <4>3, <4>4, <4>5 DEF PresenceIsBacked
      <4> QED
        BY <3>2, <4>5 DEF PresenceIsBacked
    <3> QED
      BY <3>7, <3>8
  <2>7. ASSUME NEW s \in Socket, DeletePresence(s) PROVE PresenceIsBacked'
    <3>1. /\ owner' = owner /\ presence' = presence \ {owner[s].user}
          /\ \A t \in Socket : t # s => sock'[t] = sock[t]
      BY <2>1, <2>7 DEF DeletePresence
    <3> QED
      BY <1>2, <3>1 DEF PresenceIsBacked
  <2>8. ASSUME UNCHANGED <<sock, owner>>, presence' \subseteq presence PROVE PresenceIsBacked'
    BY <1>2, <2>8 DEF PresenceIsBacked
  <2>9. ASSUME NEW i \in Instance,
               StartConsumer(i) \/ Consume(i) \/ AutoCommit(i) \/ WorkerDies(i) \/ Work(i)
        PROVE  PresenceIsBacked'
    BY <2>8, <2>9 DEF StartConsumer, Consume, AutoCommit, WorkerDies,
                      Work, SkipUser, BeginList, NextSocket, EndList
  <2>10. ASSUME NEW u \in User, Expire(u) PROVE PresenceIsBacked'
    BY <2>8, <2>10 DEF Expire
  <2>11. CASE Produce \/ UNCHANGED vars
    BY <2>8, <2>11 DEF Produce, vars
  <2>12. /\ \A s \in Socket : ~SetPresenceFails(s) /\ ~DeletePresenceFails(s)
         /\ \A i \in Instance : ~Crash(i)
    BY DEF SetPresenceFails, DeletePresenceFails, Crash
  <2> QED
    BY <1>2, <2>3, <2>4, <2>5, <2>6, <2>7, <2>9, <2>10, <2>11, <2>12 DEF Next, Endpoint
<1> QED
  BY InitConn, ConnStep, <1>1, <1>2, PTL DEF Spec

-----------------------------------------------------------------------------
(* The consumer. *)

\* The types of what the consumer of an instance keeps.
ConsumerTyped ==
    /\ log \in Seq(Seq(User)) /\ Len(log) <= MaxMessages
    /\ taken \in [Host -> SUBSET Message] /\ missed \in [Host -> SUBSET Message]
    /\ based \subseteq Host
    /\ pending \in [Instance -> SUBSET Message]
    /\ task \in [Instance -> {"starting", "running", "dead"}]

\* No message has been produced when the service starts.
LEMMA InitConsumer == Init => ConsumerTyped
<1> SUFFICES ASSUME Init PROVE ConsumerTyped
  OBVIOUS
<1>1. log \in Seq(Seq(User)) /\ Len(log) <= MaxMessages
  BY GatewayAssumption DEF Init
<1> QED
  BY <1>1 DEF Init, ConsumerTyped

\* The steps of the endpoints, of the loops and of Redis.
DeviceStep ==
    \/ \E s \in Socket : Endpoint(s)
    \/ \E i \in Instance : Work(i)
    \/ \E u \in User : Expire(u)
    \/ UNCHANGED vars

\* They leave the consumers alone.
LEMMA OtherSteps == DeviceStep => UNCHANGED <<log, kafkaVars>>
<1>1. ASSUME NEW s \in Socket, Endpoint(s) PROVE UNCHANGED <<log, kafkaVars>>
  BY <1>1 DEF Endpoint, Connect, SetPresence, SetPresenceFails, Drop, Stall, EndStall,
              Disconnect, DeletePresence, DeletePresenceFails, deviceVars, kafkaVars
<1>2. ASSUME NEW i \in Instance, Work(i) PROVE UNCHANGED <<log, kafkaVars>>
  BY <1>2 DEF Work, SkipUser, BeginList, NextSocket, EndList, deviceVars, kafkaVars
<1>3. ASSUME NEW u \in User, Expire(u) PROVE UNCHANGED <<log, kafkaVars>>
  BY <1>3 DEF Expire, deviceVars, kafkaVars
<1>4. CASE UNCHANGED vars
  BY <1>4 DEF vars, deviceVars, kafkaVars
<1> QED
  BY <1>1, <1>2, <1>3, <1>4 DEF DeviceStep

\* A message is for one user at least, and names none twice.
LEMMA RecipientsFacts ==
    ASSUME NEW r \in Recipients
    PROVE  r \in Seq(User) /\ r # <<>> /\ IsInjective(r)
<1>1. PICK n \in 1..Cardinality(User) : r \in [1..n -> User]
  BY DEF Recipients
<1>2. n \in Nat \ {0}
  BY <1>1
<1>3. r \in Seq(User) /\ Len(r) = n
  BY <1>1, <1>2
<1>4. IsInjective(r)
  BY DEF Recipients
<1> QED
  BY <1>2, <1>3, <1>4

\* The bounds of a fetched message.
LEMMA MessageOfLog ==
    ASSUME ConsumerTyped, NEW m \in 1..Len(log)
    PROVE  m \in Message /\ log[m] \in Seq(User)
BY GatewayAssumption DEF ConsumerTyped, Message

\* Every step keeps the types of the consumers.
LEMMA ConsumerStep == ConsumerTyped /\ [Next]_vars => ConsumerTyped'
<1> SUFFICES ASSUME ConsumerTyped, [Next]_vars PROVE ConsumerTyped'
  OBVIOUS
<1> USE DEF ConsumerTyped
<1>1. CASE UNCHANGED <<log, kafkaVars>>
  BY <1>1 DEF kafkaVars
<1>2. CASE Produce
  <2>1. PICK r \in Recipients : log' = Append(log, r)
    BY <1>2 DEF Produce
  <2>2. r \in Seq(User)
    BY <2>1, RecipientsFacts
  <2>3. log' \in Seq(Seq(User)) /\ Len(log') = Len(log) + 1
    BY <2>1, <2>2, AppendProperties
  <2> QED
    BY <1>2, <2>3, GatewayAssumption DEF Produce, kafkaVars
<1>3. ASSUME NEW i \in Instance, StartConsumer(i) PROVE ConsumerTyped'
  <2>1. HostOf[i] \in Host /\ 1..Len(log) \subseteq Message
    BY GatewayAssumption DEF Message
  <2> QED
    BY <1>3, <2>1 DEF StartConsumer
<1>4. ASSUME NEW i \in Instance, Consume(i) PROVE ConsumerTyped'
  <2>1. PICK m \in 1..Len(log) :
           /\ taken' = [taken EXCEPT ![HostOf[i]] = @ \cup {m}]
           /\ pending' = [pending EXCEPT ![i] = @ \cup {m}]
    BY <1>4 DEF Consume
  <2>2. UNCHANGED <<log, based, task, missed>>
    BY <1>4 DEF Consume
  <2>3. m \in Message
    BY MessageOfLog
  <2> QED
    BY <2>1, <2>2, <2>3
<1>5. ASSUME NEW i \in Instance, AutoCommit(i) \/ WorkerDies(i) PROVE ConsumerTyped'
  BY <1>5, GatewayAssumption DEF AutoCommit, WorkerDies, Committed
<1>6. ASSUME NEW i \in Instance, Crash(i) PROVE ConsumerTyped'
  BY <1>6 DEF Crash
<1> QED
  BY <1>1, <1>2, <1>3, <1>4, <1>5, <1>6, OtherSteps DEF Next, DeviceStep

-----------------------------------------------------------------------------
(* The loop over the devices. *)

\* The types of the worker and of what was sent: a worker with recipients to
\* serve has a message, and it waits for a socket only inside a list.
WorkerTyped ==
    /\ received \in [Socket -> Seq(Message)]
    /\ worker \in [Instance -> WorkerState]
    /\ \A i \in Instance :
          /\ worker[i].todo # <<>> => worker[i].msg \in Message
          /\ worker[i].on # None => worker[i].todo # <<>> /\ worker[i].cursor > 0

\* The workers have nothing to do when the service starts.
LEMMA InitWorker == Init => WorkerTyped
<1> SUFFICES ASSUME Init PROVE WorkerTyped
  OBVIOUS
<1>1. NoWork \in WorkerState
  <2>1. <<>> \in Seq(User) /\ 0 \in 0..MaxMessages
    BY GatewayAssumption
  <2> QED
    BY <2>1 DEF NoWork, WorkerState
<1> QED
  BY <1>1 DEF Init, WorkerTyped, NoWork

\* A worker in its loop has a recipient at its head, a list for it and the rest.
LEMMA HeadFacts ==
    ASSUME ConnTyped, WorkerTyped, NEW i \in Instance, worker[i].todo # <<>>
    PROVE  /\ Head(worker[i].todo) \in User /\ Head(worker[i].todo) = worker[i].todo[1]
           /\ worker[i].todo \in Seq(User) /\ 1 \in DOMAIN worker[i].todo
           /\ Len(worker[i].todo) \in Nat \ {0} /\ DOMAIN worker[i].todo = 1..Len(worker[i].todo)
           /\ TheList(i) \in Seq(Socket)
           /\ worker[i].msg \in Message
           /\ worker[i].cursor \in Nat
<1>1. worker[i].todo \in Seq(User) /\ worker[i].cursor \in Nat
  BY DEF WorkerTyped, WorkerState
<1>2. Head(worker[i].todo) \in User /\ Head(worker[i].todo) = worker[i].todo[1]
  BY <1>1
<1>3. TheList(i) \in Seq(Socket)
  BY <1>2 DEF ConnTyped, TheList
<1> QED
  BY <1>1, <1>2, <1>3 DEF WorkerTyped

\* A worker that is at the message m, before the lists of the recipients in t.
LEMMA AtMessage ==
    ASSUME NEW m, NEW t, NEW w, w = [NoWork EXCEPT !.msg = m, !.todo = t]
    PROVE  w = [msg |-> m, todo |-> t, cursor |-> 0, attached |-> FALSE, on |-> None, audience |-> {}]
BY DEF NoWork

\* The worker goes on to the next recipient, before the list of it; after the last
\* one it has gone through the message.
LEMMA NextUserFacts ==
    ASSUME ConnTyped, WorkerTyped, NEW i \in Instance, worker[i].todo # <<>>, NextUser(i)
    PROVE  /\ worker' \in [Instance -> WorkerState]
           /\ \A j \in Instance : j # i => worker'[j] = worker[j]
           /\ worker'[i].todo = Tail(worker[i].todo)
           /\ worker'[i].cursor = 0 /\ worker'[i].on = None
           /\ \/ /\ worker'[i].todo = <<>> /\ worker'[i].msg = 0
                 /\ finished' = [finished EXCEPT ![i] = @ \cup {worker[i].msg}]
              \/ /\ worker'[i].todo # <<>> /\ worker'[i].msg = worker[i].msg
                 /\ finished' = finished
<1> DEFINE w == worker[i]
           len == Len(w.todo)
           r == [msg |-> w.msg, todo |-> Tail(w.todo), cursor |-> 0, attached |-> FALSE,
                 on |-> None, audience |-> {}]
<1>1. worker \in [Instance -> WorkerState] /\ w \in WorkerState
  BY DEF WorkerTyped
<1>2. w.todo \in Seq(User) /\ w.msg \in 0..MaxMessages /\ len \in Nat \ {0}
  BY <1>1, HeadFacts DEF WorkerState
<1>3. Tail(w.todo) \in Seq(User) /\ Len(Tail(w.todo)) = len - 1
  BY <1>2
<1>4. \/ /\ len = 1
         /\ worker' = [worker EXCEPT ![i] = NoWork]
         /\ finished' = [finished EXCEPT ![i] = @ \cup {w.msg}]
      \/ len > 1 /\ worker' = [worker EXCEPT ![i] = r] /\ finished' = finished
  <2> DEFINE e == [NoWork EXCEPT !.msg = w.msg, !.todo = Tail(w.todo)]
  <2>1. \/ /\ len = 1
           /\ worker' = [worker EXCEPT ![i] = NoWork]
           /\ finished' = [finished EXCEPT ![i] = @ \cup {w.msg}]
        \/ len > 1 /\ worker' = [worker EXCEPT ![i] = e] /\ finished' = finished
    BY Zenon DEF NextUser
  <2>2. e = r
    BY AtMessage, Zenon
  <2> HIDE DEF e, r
  <2> QED
    BY <2>1, <2>2, Zenon
<1>5. /\ r \in WorkerState /\ r.todo = Tail(w.todo) /\ r.msg = w.msg
      /\ r.cursor = 0 /\ r.on = None
  BY <1>2, <1>3 DEF WorkerState
<1> HIDE DEF r, len
<1>6. CASE len = 1
  <2>1. <<>> \in Seq(User) /\ 0 \in 0..MaxMessages
    BY GatewayAssumption
  <2>2. /\ NoWork \in WorkerState /\ NoWork.todo = <<>> /\ NoWork.msg = 0
        /\ NoWork.cursor = 0 /\ NoWork.on = None
    BY <2>1 DEF NoWork, WorkerState
  <2>3. Tail(w.todo) = <<>>
    <3>1. Len(Tail(w.todo)) = 0
      BY <1>3, <1>6
    <3> QED
      BY <1>3, <3>1, EmptySeq
  <2>4. /\ worker' = [worker EXCEPT ![i] = NoWork]
        /\ finished' = [finished EXCEPT ![i] = @ \cup {w.msg}]
    BY <1>4, <1>2, <1>6
  <2> QED
    BY <1>1, <2>2, <2>3, <2>4
<1>7. CASE len > 1
  <2>1. worker' = [worker EXCEPT ![i] = r] /\ finished' = finished
    <3>1. len # 1
      BY <1>2, <1>7
    <3> QED
      BY <1>4, <3>1, Zenon
  <2>2. Tail(w.todo) # <<>>
    <3>1. Len(Tail(w.todo)) > 0
      BY <1>2, <1>3, <1>7
    <3> QED
      BY <3>1
  <2> QED
    BY <1>1, <1>5, <2>1, <2>2
<1> QED
  BY <1>4, <1>6, <1>7

\* The worker sends to the socket at place k of the list.
LEMMA SendFacts ==
    ASSUME ConnTyped, WorkerTyped, NEW i \in Instance, worker[i].todo # <<>>,
           NEW s \in Socket, Send(i, s)
    PROVE  /\ received' \in [Socket -> Seq(Message)]
           /\ \A t \in Socket : t # s => received'[t] = received[t]
           /\ \/ received'[s] = received[s]
              \/ received'[s] = Append(received[s], worker[i].msg) /\ sock[s] # "stalled"
           /\ WaitsOn(s) = s => sock[s] = "stalled" \/ s = None
<1>1. worker[i].msg \in Message
  BY HeadFacts
<1>2. Append(received[s], worker[i].msg) \in Seq(Message)
  BY <1>1, AppendProperties DEF WorkerTyped
<1> QED
  BY <1>2 DEF WorkerTyped, Send, WaitsOn

\* A step of the loop inside a list: the first socket, or the next one.
LEMMA LoopFacts ==
    ASSUME ConnTyped, WorkerTyped, NEW i \in Instance, BeginList(i) \/ NextSocket(i)
    PROVE  LET k == worker[i].cursor + 1
           IN  /\ worker[i].todo # <<>> /\ worker[i].on = None
               /\ k \in DOMAIN TheList(i) /\ TheList(i)[k] \in Socket
               /\ worker[i].cursor > 0 => worker[i].attached
               /\ Send(i, TheList(i)[k])
               /\ worker' \in [Instance -> WorkerState]
               /\ \A j \in Instance : j # i => worker'[j] = worker[j]
               /\ worker'[i].todo = worker[i].todo /\ worker'[i].msg = worker[i].msg
               /\ worker'[i].cursor = k /\ worker'[i].attached
               /\ worker'[i].on = WaitsOn(TheList(i)[k])
               /\ UNCHANGED <<active, sock, owner>>
<1> DEFINE w == worker[i]
           k == w.cursor + 1
           l == TheList(i)
<1>1. worker \in [Instance -> WorkerState] /\ w \in WorkerState /\ w.todo # <<>>
  BY DEF WorkerTyped, BeginList, NextSocket
<1>2. l \in Seq(Socket) /\ w.cursor \in Nat
  BY <1>1, HeadFacts
<1>3. w.on = None
  BY <1>2 DEF WorkerTyped, BeginList, NextSocket
<1>4. k \in DOMAIN l /\ l[k] \in Socket
  BY <1>2 DEF BeginList, NextSocket, HasMore
<1>5. w.cursor > 0 => w.attached
  BY <1>2 DEF BeginList, NextSocket, HasMore
<1>6. Send(i, l[k]) /\ UNCHANGED <<active, sock, owner>>
  BY <1>2 DEF BeginList, NextSocket, NextPosition
<1>7. WaitsOn(l[k]) \in Socket \cup {None} /\ ToSet(l) \in SUBSET Socket
  BY <1>2, <1>4 DEF WaitsOn, ToSet
<1>8. \E n \in WorkerState :
         /\ worker' = [worker EXCEPT ![i] = n]
         /\ n.todo = w.todo /\ n.msg = w.msg
         /\ n.cursor = k /\ n.attached /\ n.on = WaitsOn(l[k])
  <2>1. CASE BeginList(i)
    <3> DEFINE e == [w EXCEPT !.cursor = 1, !.attached = TRUE, !.on = WaitsOn(l[1]), !.audience = ToSet(l)]
    <3>1. w.cursor = 0
      BY <2>1 DEF BeginList
    <3>2. worker' = [worker EXCEPT ![i] = e]
      BY <2>1 DEF BeginList
    <3>3. k = 1
      BY <3>1
    <3> HIDE DEF l, k
    <3>4. /\ e \in WorkerState /\ e.todo = w.todo /\ e.msg = w.msg
          /\ e.cursor = 1 /\ e.attached /\ e.on = WaitsOn(l[1])
      BY <1>1, <1>7, <3>3 DEF WorkerState
    <3> HIDE DEF e
    <3> QED
      BY <3>2, <3>3, <3>4
  <2>2. CASE NextSocket(i)
    <3> DEFINE x == WaitsOn(l[k])
               e == [w EXCEPT !.cursor = @ + 1, !.on = x]
    <3>1. w.cursor > 0 /\ w.attached
      BY <1>1, <1>5, <2>2 DEF NextSocket, WorkerState
    <3>2. worker' = [worker EXCEPT ![i] = e]
      BY <2>2 DEF NextSocket, NextPosition
    <3>3. x \in Socket \cup {None} /\ w.cursor + 1 \in Nat
      BY <1>2, <1>7
    <3> HIDE DEF x
    <3>4. e \in WorkerState
      BY <1>1, <3>3 DEF WorkerState
    <3>5. /\ e.todo = w.todo /\ e.msg = w.msg /\ e.cursor = w.cursor + 1
          /\ e.attached = w.attached /\ e.on = x
      BY <1>1, <3>3 DEF WorkerState
    <3> HIDE DEF e
    <3> QED
      BY <3>1, <3>2, <3>4, <3>5 DEF x
  <2> QED
    BY <2>1, <2>2
<1> QED
  BY <1>1, <1>3, <1>4, <1>5, <1>6, <1>8

\* Every step keeps the types of the workers.
LEMMA WorkerStep == ConnTyped /\ ConsumerTyped /\ WorkerTyped /\ [Next]_vars => WorkerTyped'
<1> SUFFICES ASSUME ConnTyped, ConsumerTyped, WorkerTyped, [Next]_vars PROVE WorkerTyped'
  OBVIOUS
<1>1. CASE UNCHANGED <<worker, received>>
  BY <1>1 DEF WorkerTyped
<1>2. ASSUME NEW s \in Socket, EndStall(s) PROVE WorkerTyped'
  <2> DEFINE i == owner[s].inst
  <2>1. i \in Instance
    BY <1>2 DEF ConnTyped, EndStall
  <2>2. CASE ~Awaits(i, s)
    BY <1>1, <1>2, <2>2 DEF EndStall
  <2>3. CASE Awaits(i, s)
    <3> HIDE DEF i
    <3> DEFINE e == [worker[i] EXCEPT !.on = None]
    <3>1. worker[i].on # None /\ worker[i] \in WorkerState
      BY <2>1, <2>3, GatewayAssumption DEF Awaits, WorkerTyped
    <3>2. worker' = [worker EXCEPT ![i] = e]
      BY <1>2, <2>3 DEF EndStall, i
    <3>3. /\ e \in WorkerState /\ e.on = None
          /\ e.todo = worker[i].todo /\ e.msg = worker[i].msg
      BY <3>1 DEF WorkerState
    <3>4. received' \in [Socket -> Seq(Message)]
      <4>1. worker[i].msg \in Message
        BY <2>1, <3>1 DEF WorkerTyped
      <4>2. Append(received[s], worker[i].msg) \in Seq(Message)
        BY <4>1, AppendProperties DEF WorkerTyped
      <4> QED
        BY <1>2, <4>2 DEF EndStall, WorkerTyped, i
    <3> HIDE DEF e
    <3> QED
      BY <2>1, <3>2, <3>3, <3>4 DEF WorkerTyped
  <2> QED
    BY <2>2, <2>3
<1>3. ASSUME NEW s \in Socket, Disconnect(s) PROVE WorkerTyped'
  <2> DEFINE i == owner[s].inst
             e == [worker[i] EXCEPT !.attached = FALSE]
  <2>1. i \in Instance
    BY <1>3 DEF ConnTyped, Disconnect
  <2>2. (worker' = worker \/ worker' = [worker EXCEPT ![i] = e]) /\ received' = received
    BY <1>3 DEF Disconnect, deviceVars
  <2>3. worker[i] \in WorkerState
    BY <2>1 DEF WorkerTyped
  <2> HIDE DEF i
  <2>4. /\ e \in WorkerState /\ e.todo = worker[i].todo /\ e.msg = worker[i].msg
        /\ e.cursor = worker[i].cursor /\ e.on = worker[i].on
    BY <2>3 DEF WorkerState
  <2> HIDE DEF e
  <2> QED
    BY <2>1, <2>2, <2>4 DEF WorkerTyped
<1>4. ASSUME NEW s \in Socket, Endpoint(s), ~EndStall(s), ~Disconnect(s) PROVE WorkerTyped'
  BY <1>1, <1>4 DEF Endpoint, Connect, SetPresence, SetPresenceFails, Drop, Stall,
                    DeletePresence, DeletePresenceFails, deviceVars
<1>5. ASSUME NEW i \in Instance, Consume(i) PROVE WorkerTyped'
  <2>1. PICK m \in 1..Len(log) :
          worker' = [worker EXCEPT ![i] = [NoWork EXCEPT !.msg = m, !.todo = log[m]]]
    BY <1>5 DEF Consume
  <2> DEFINE e == [msg |-> m, todo |-> log[m], cursor |-> 0, attached |-> FALSE,
                   on |-> None, audience |-> {}]
  <2>2. worker' = [worker EXCEPT ![i] = e] /\ received' = received
    BY <1>5, <2>1 DEF Consume, NoWork
  <2>3. m \in Message /\ log[m] \in Seq(User)
    BY MessageOfLog
  <2>4. e \in WorkerState /\ e.msg = m /\ e.on = None
    BY <2>3, GatewayAssumption DEF WorkerState, Message
  <2> HIDE DEF e
  <2> QED
    BY <2>2, <2>3, <2>4 DEF WorkerTyped
<1>6. ASSUME NEW i \in Instance, SkipUser(i) \/ EndList(i) PROVE WorkerTyped'
  <2>1. worker[i].todo # <<>> /\ NextUser(i) /\ received' = received
    BY <1>6 DEF SkipUser, EndList, deviceVars
  <2>2. worker[i].msg \in Message
    BY <2>1, HeadFacts
  <2> QED
    BY <2>1, <2>2, NextUserFacts DEF WorkerTyped
<1>7. ASSUME NEW i \in Instance, BeginList(i) \/ NextSocket(i) PROVE WorkerTyped'
  <2> DEFINE k == worker[i].cursor + 1
  <2>1. /\ worker[i].todo # <<>> /\ TheList(i)[k] \in Socket /\ Send(i, TheList(i)[k])
        /\ worker' \in [Instance -> WorkerState]
        /\ \A j \in Instance : j # i => worker'[j] = worker[j]
        /\ worker'[i].todo = worker[i].todo /\ worker'[i].msg = worker[i].msg
        /\ worker'[i].cursor = k
    BY <1>7, LoopFacts
  <2>2. worker[i].msg \in Message /\ k \in Nat /\ k > 0
    BY <2>1, HeadFacts
  <2>3. received' \in [Socket -> Seq(Message)]
    BY <2>1, SendFacts
  <2> HIDE DEF k
  <2> QED
    BY <2>1, <2>2, <2>3 DEF WorkerTyped
<1>8. ASSUME NEW i \in Instance, Crash(i) PROVE WorkerTyped'
  <2>1. NoWork \in WorkerState /\ NoWork.todo = <<>> /\ NoWork.on = None
    <3>1. <<>> \in Seq(User) /\ 0 \in 0..MaxMessages
      BY GatewayAssumption
    <3> QED
      BY <3>1 DEF NoWork, WorkerState
  <2>2. worker' = [worker EXCEPT ![i] = NoWork] /\ received' = received
    BY <1>8 DEF Crash
  <2> QED
    BY <2>1, <2>2 DEF WorkerTyped
<1>9. ASSUME NEW i \in Instance, StartConsumer(i) \/ AutoCommit(i) \/ WorkerDies(i) PROVE WorkerTyped'
  BY <1>1, <1>9 DEF StartConsumer, AutoCommit, WorkerDies
<1>10. ASSUME NEW u \in User, Expire(u) PROVE WorkerTyped'
  BY <1>1, <1>10 DEF Expire, deviceVars
<1>11. CASE Produce \/ UNCHANGED vars
  BY <1>1, <1>11 DEF Produce, vars, deviceVars
<1> QED
  BY <1>2, <1>3, <1>4, <1>5, <1>6, <1>7, <1>8, <1>9, <1>10, <1>11 DEF Next, Work

-----------------------------------------------------------------------------
(* What is gone through, and what a crash may lose. *)

\* A worker without recipients to serve has no message; what it fetched and has not
\* committed it has gone through, or is at it.
LossOf(i) ==
    /\ worker[i].todo = <<>> => worker[i].msg = 0
    /\ pending[i] \subseteq finished[i] \cup {worker[i].msg}

LossInv == /\ finished \in [Instance -> SUBSET Message]
           /\ \A m \in DOMAIN log : log[m] # <<>>
           /\ \A i \in Instance : LossOf(i)

\* Nothing has been fetched when the service starts.
LEMMA InitLoss == Init => LossInv
BY DEF Init, LossInv, LossOf, NoWork

\* An endpoint that interferes with a loop leaves its message and recipients alone.
LEMMA EndpointWork ==
    ASSUME WorkerTyped, NEW s \in Socket, Endpoint(s), NEW i \in Instance
    PROVE  worker'[i].todo = worker[i].todo /\ worker'[i].msg = worker[i].msg
<1>1. worker \in [Instance -> WorkerState]
  BY DEF WorkerTyped
<1>2. CASE EndStall(s)
  <2> DEFINE e == [worker[i] EXCEPT !.on = None]
  <2>1. worker'[i] = worker[i] \/ worker'[i] = e
    BY <1>1, <1>2 DEF EndStall
  <2>2. e.todo = worker[i].todo /\ e.msg = worker[i].msg
    BY <1>1 DEF WorkerState
  <2> HIDE DEF e
  <2> QED
    BY <2>1, <2>2
<1>3. CASE Disconnect(s)
  <2> DEFINE e == [worker[i] EXCEPT !.attached = FALSE]
  <2>1. worker'[i] = worker[i] \/ worker'[i] = e
    BY <1>1, <1>3 DEF Disconnect
  <2>2. e.todo = worker[i].todo /\ e.msg = worker[i].msg
    BY <1>1 DEF WorkerState
  <2> HIDE DEF e
  <2> QED
    BY <2>1, <2>2
<1>4. CASE ~EndStall(s) /\ ~Disconnect(s)
  BY <1>4 DEF Endpoint, Connect, SetPresence, SetPresenceFails, Drop, Stall,
              DeletePresence, DeletePresenceFails
<1> QED
  BY <1>2, <1>3, <1>4

\* Steps that neither fetch a message nor leave one.
QuietSteps ==
    \/ \E s \in Socket : Endpoint(s)
    \/ \E i \in Instance : \/ BeginList(i) \/ NextSocket(i)
                          \/ StartConsumer(i) \/ AutoCommit(i) \/ WorkerDies(i)
    \/ \E u \in User : Expire(u)
    \/ Produce
    \/ UNCHANGED vars

\* They leave every worker at its message, and at most commit.
LEMMA QuietFacts ==
    ASSUME ConnTyped, ConsumerTyped, WorkerTyped, QuietSteps
    PROVE  /\ finished' = finished
           /\ \A j \in Instance : /\ worker'[j].todo = worker[j].todo /\ worker'[j].msg = worker[j].msg
                                  /\ pending'[j] \subseteq pending[j]
<1>1. ASSUME NEW s \in Socket, Endpoint(s)
      PROVE  UNCHANGED <<finished, pending>>
  BY <1>1 DEF Endpoint, Connect, SetPresence, SetPresenceFails, Drop, Stall, EndStall,
              Disconnect, DeletePresence, DeletePresenceFails, deviceVars, kafkaVars
<1>2. ASSUME NEW i \in Instance, BeginList(i) \/ NextSocket(i)
      PROVE  /\ UNCHANGED <<finished, pending>>
             /\ \A j \in Instance : worker'[j].todo = worker[j].todo /\ worker'[j].msg = worker[j].msg
  <2>1. UNCHANGED <<finished, pending>>
    BY <1>2 DEF BeginList, NextSocket, kafkaVars
  <2>2. /\ \A j \in Instance : j # i => worker'[j] = worker[j]
        /\ worker'[i].todo = worker[i].todo /\ worker'[i].msg = worker[i].msg
    BY <1>2, LoopFacts
  <2> QED
    BY <2>1, <2>2
<1>3. ASSUME NEW i \in Instance, StartConsumer(i) \/ AutoCommit(i) \/ WorkerDies(i)
      PROVE  /\ UNCHANGED <<finished, worker>>
             /\ pending' = pending \/ pending' = [pending EXCEPT ![i] = {}]
  BY <1>3 DEF StartConsumer, AutoCommit, WorkerDies, Committed
<1>4. CASE Produce \/ (\E u \in User : Expire(u)) \/ UNCHANGED vars
  BY <1>4 DEF Produce, Expire, vars, deviceVars, kafkaVars
<1>5. pending \in [Instance -> SUBSET Message]
  BY DEF ConsumerTyped
<1>6. CASE \E s \in Socket : Endpoint(s)
  BY <1>1, <1>6, EndpointWork
<1>7. CASE \E i \in Instance : StartConsumer(i) \/ AutoCommit(i) \/ WorkerDies(i)
  BY <1>3, <1>5, <1>7
<1> QED
  BY <1>2, <1>4, <1>6, <1>7 DEF QuietSteps

\* The other steps: a message is fetched, a recipient is done with, a process is killed.
LEMMA StepKinds ==
    [Next]_vars => \/ QuietSteps
                   \/ \E i \in Instance : Consume(i) \/ SkipUser(i) \/ EndList(i) \/ Crash(i)
BY DEF Next, Work, QuietSteps

\* Every step keeps what was fetched gone through, worked at or still to commit.
LEMMA LossStep == ConnTyped /\ ConsumerTyped /\ WorkerTyped /\ LossInv /\ [Next]_vars => LossInv'
<1> SUFFICES ASSUME ConnTyped, ConsumerTyped, WorkerTyped, LossInv, [Next]_vars PROVE LossInv'
  OBVIOUS
<1>1. /\ worker \in [Instance -> WorkerState] /\ pending \in [Instance -> SUBSET Message]
      /\ finished \in [Instance -> SUBSET Message] /\ \A j \in Instance : LossOf(j)
      /\ log \in Seq(Seq(User)) /\ \A m \in DOMAIN log : log[m] # <<>>
  BY DEF WorkerTyped, ConsumerTyped, LossInv
<1>0. \A m \in DOMAIN log' : log'[m] # <<>>
  <2>1. CASE Produce
    <3>1. PICK r \in Recipients : log' = Append(log, r)
      BY <2>1 DEF Produce
    <3>2. r \in Seq(User) /\ r # <<>>
      BY RecipientsFacts
    <3> QED
      BY <1>1, <3>1, <3>2
  <2>2. CASE log' = log
    BY <1>1, <2>2
  <2>3. ~Produce => log' = log
    <3>1. DeviceStep => log' = log
      BY OtherSteps
    <3> QED
      BY <3>1 DEF Next, DeviceStep, StartConsumer, Consume, AutoCommit, WorkerDies, Crash
  <2> QED
    BY <2>1, <2>2, <2>3
<1>2. CASE QuietSteps
  <2>1. /\ finished' = finished
        /\ \A j \in Instance : /\ worker'[j].todo = worker[j].todo /\ worker'[j].msg = worker[j].msg
                               /\ pending'[j] \subseteq pending[j]
    BY <1>2, QuietFacts
  <2> QED
    BY <1>0, <1>1, <2>1 DEF LossInv, LossOf
<1>3. ASSUME NEW i \in Instance, finished' \in [Instance -> SUBSET Message], LossOf(i)',
             \A j \in Instance : j # i => /\ worker'[j] = worker[j] /\ finished'[j] = finished[j]
                                          /\ pending'[j] = pending[j]
      PROVE  LossInv'
  <2>1. ASSUME NEW j \in Instance, j # i PROVE LossOf(j)'
    BY <1>1, <1>3, <2>1 DEF LossOf
  <2> QED
    BY <1>0, <1>3, <2>1 DEF LossInv
<1>4. ASSUME NEW i \in Instance, Consume(i) PROVE LossInv'
  <2>1. PICK m \in 1..Len(log) :
           /\ pending' = [pending EXCEPT ![i] = @ \cup {m}]
           /\ worker' = [worker EXCEPT ![i] = [NoWork EXCEPT !.msg = m, !.todo = log[m]]]
    BY <1>4 DEF Consume
  <2>2. worker[i].todo = <<>> /\ finished' = finished
    BY <1>4 DEF Consume
  <2>3. worker[i].msg = 0 /\ 0 \notin pending[i]
    BY <1>1, <2>2 DEF LossOf, Message
  <2>4. worker'[i].msg = m /\ pending'[i] = pending[i] \cup {m} /\ worker'[i].todo = log[m]
    BY <1>1, <2>1 DEF NoWork
  <2>5. LossOf(i)'
    BY <1>1, <2>2, <2>3, <2>4 DEF LossOf
  <2> QED
    BY <1>1, <1>3, <2>1, <2>2, <2>5
<1>5. ASSUME NEW i \in Instance, SkipUser(i) \/ EndList(i) PROVE LossInv'
  <2>1. worker[i].todo # <<>> /\ NextUser(i) /\ pending' = pending
    BY <1>5 DEF SkipUser, EndList, kafkaVars
  <2>2. worker[i].msg \in Message /\ \A j \in Instance : j # i => worker'[j] = worker[j]
    BY <2>1, HeadFacts, NextUserFacts
  <2>3. CASE /\ worker'[i].todo = <<>> /\ worker'[i].msg = 0
             /\ finished' = [finished EXCEPT ![i] = @ \cup {worker[i].msg}]
    BY <1>1, <1>3, <2>1, <2>2, <2>3 DEF LossOf
  <2>4. CASE worker'[i].todo # <<>> /\ worker'[i].msg = worker[i].msg /\ finished' = finished
    BY <1>1, <1>3, <2>1, <2>2, <2>4 DEF LossOf
  <2> QED
    BY <2>1, <2>3, <2>4, NextUserFacts
<1>6. ASSUME NEW i \in Instance, Crash(i) PROVE LossInv'
  <2>1. /\ worker' = [worker EXCEPT ![i] = NoWork] /\ finished' = finished
        /\ pending' = [pending EXCEPT ![i] = {}]
    BY <1>6 DEF Crash
  <2>2. worker'[i].msg = 0 /\ pending'[i] = {}
    BY <1>1, <2>1 DEF NoWork
  <2> QED
    BY <1>1, <1>3, <2>1, <2>2 DEF LossOf
<1> QED
  BY <1>2, <1>4, <1>5, <1>6, StepKinds

\* Every variable holds values of its type, whatever fails, stalls or crashes.
THEOREM TypeCorrect == Spec => []TypeOK
<1>1. ConnInv /\ ConsumerTyped /\ WorkerTyped /\ LossInv => TypeOK
  BY DEF ConnInv, ConnTyped, ConsumerTyped, WorkerTyped, LossInv, TypeOK
<1>2. ConnInv => ConnTyped
  BY DEF ConnInv
<1> QED
  BY InitConn, InitConsumer, InitWorker, InitLoss, ConnStep, ConsumerStep, WorkerStep, LossStep,
     <1>1, <1>2, PTL DEF Spec

-----------------------------------------------------------------------------
(* The order of the messages, when every instance has a group of its own. *)

OwnGroups == \A i, j \in Instance : HostOf[i] = HostOf[j] => i = j

\* A group is past a prefix of the topic, of which the instance has not committed
\* the end; the worker is busy with the last message of it.
Past(i) == taken[HostOf[i]]

OffsetsOf(i) ==
    /\ Past(i) \subseteq 1..Len(log)
    /\ \A n \in Past(i) : 1..n \subseteq Past(i)
    /\ pending[i] \subseteq Past(i)
    /\ \A n \in pending[i], k \in Past(i) : n <= k => k \in pending[i]
    /\ task[i] # "running" => pending[i] = {} /\ worker[i].todo = <<>>
    /\ worker[i].todo # <<>> =>
          /\ worker[i].msg \in Past(i)
          /\ \A n \in Past(i) : n <= worker[i].msg
          /\ IsInjective(worker[i].todo)

OffsetInv ==
    /\ \A m \in 1..Len(log) : IsInjective(log[m])
    /\ \A i \in Instance : OffsetsOf(i)

\* The rest of a list without repetition has none, and not its head.
LEMMA TailInjective ==
    ASSUME NEW t \in Seq(User), t # <<>>, IsInjective(t)
    PROVE  /\ IsInjective(Tail(t))
           /\ \A k \in DOMAIN Tail(t) : Tail(t)[k] # Head(t) /\ \E j \in DOMAIN t : t[j] = Tail(t)[k]
<1>1. /\ Len(t) \in Nat \ {0} /\ DOMAIN t = 1..Len(t) /\ Head(t) = t[1]
      /\ DOMAIN Tail(t) = 1..Len(t)-1
      /\ \A k \in 1..Len(t)-1 : Tail(t)[k] = t[k + 1]
  OBVIOUS
<1>2. \A j, k \in 1..Len(t) : t[j] = t[k] => j = k
  BY <1>1 DEF IsInjective
<1>3. ASSUME NEW k \in DOMAIN Tail(t)
      PROVE  Tail(t)[k] # Head(t) /\ \E j \in DOMAIN t : t[j] = Tail(t)[k]
  BY <1>1, <1>2
<1>4. ASSUME NEW j \in DOMAIN Tail(t), NEW k \in DOMAIN Tail(t), Tail(t)[j] = Tail(t)[k]
      PROVE  j = k
  BY <1>1, <1>2, <1>4
<1> QED
  BY <1>3, <1>4 DEF IsInjective

\* No group is past anything when the service starts.
LEMMA InitOffset == Init => OffsetInv
<1> SUFFICES ASSUME Init PROVE OffsetInv
  OBVIOUS
<1>1. log = <<>> /\ \A i \in Instance : Past(i) = {} /\ pending[i] = {} /\ worker[i].todo = <<>>
  BY GatewayAssumption DEF Init, Past, NoWork
<1> QED
  BY <1>1 DEF OffsetInv, OffsetsOf

\* An instance whose group and worker stand still keeps its part, whatever is produced.
LEMMA SameOffsets ==
    ASSUME NEW i \in Instance, OffsetsOf(i), Len(log) \in Nat, Len(log') \in Nat, Len(log) <= Len(log'),
           Past(i)' = Past(i), pending'[i] = pending[i], task'[i] = task[i],
           \/ worker'[i].todo = <<>>
           \/ worker'[i].todo = worker[i].todo /\ worker'[i].msg = worker[i].msg
    PROVE  OffsetsOf(i)'
<1>1. 1..Len(log) \subseteq 1..Len(log')
  OBVIOUS
<1> QED
  BY <1>1 DEF OffsetsOf

\* The steps of the endpoints and of the loop leave every worker at its message.
LEMMA SameWork ==
    ASSUME ConnTyped, WorkerTyped, OffsetInv, DeviceStep, NEW i \in Instance
    PROVE  \/ worker'[i].todo = <<>>
           \/ /\ worker'[i].msg = worker[i].msg
              /\ worker'[i].todo = worker[i].todo \/ (worker[i].todo # <<>> /\ worker'[i].todo = Tail(worker[i].todo))
<1>1. ASSUME NEW s \in Socket, Endpoint(s)
      PROVE  worker'[i].todo = worker[i].todo /\ worker'[i].msg = worker[i].msg
  BY <1>1, EndpointWork
<1>2. ASSUME NEW j \in Instance, BeginList(j) \/ NextSocket(j)
      PROVE  worker'[i].todo = worker[i].todo /\ worker'[i].msg = worker[i].msg
  BY <1>2, LoopFacts
<1>3. ASSUME NEW j \in Instance, SkipUser(j) \/ EndList(j)
      PROVE  \/ worker'[i].todo = <<>>
             \/ /\ worker'[i].msg = worker[i].msg
                /\ worker'[i].todo = worker[i].todo \/ (worker[i].todo # <<>> /\ worker'[i].todo = Tail(worker[i].todo))
  <2>1. worker[j].todo # <<>> /\ NextUser(j)
    BY <1>3 DEF SkipUser, EndList
  <2>2. CASE j = i
    BY <2>1, <2>2, NextUserFacts
  <2>3. CASE j # i
    BY <2>1, <2>3, NextUserFacts
  <2> QED
    BY <2>2, <2>3
<1>4. ASSUME NEW u \in User, Expire(u) PROVE worker' = worker
  BY <1>4 DEF Expire
<1>5. CASE UNCHANGED vars
  BY <1>5 DEF vars
<1> QED
  BY <1>1, <1>2, <1>3, <1>4, <1>5 DEF Work, DeviceStep

\* Every step keeps the offsets right.
LEMMA OffsetStep ==
    OwnGroups /\ ConnTyped /\ ConsumerTyped /\ WorkerTyped /\ OffsetInv /\ [Next]_vars => OffsetInv'
<1> SUFFICES ASSUME OwnGroups, ConnTyped, ConsumerTyped, WorkerTyped, OffsetInv, [Next]_vars
             PROVE  OffsetInv'
  OBVIOUS
<1>1. /\ Len(log) \in Nat /\ \A i \in Instance : OffsetsOf(i) /\ HostOf[i] \in Host
      /\ \A m \in 1..Len(log) : IsInjective(log[m])
  BY GatewayAssumption DEF OffsetInv, ConsumerTyped
<1>2. CASE DeviceStep
  <2>1. UNCHANGED <<log, taken, pending, task>>
    BY <1>2, OtherSteps DEF kafkaVars
  <2>2. ASSUME NEW i \in Instance PROVE OffsetsOf(i)'
    <3>1. CASE \/ worker'[i].todo = <<>>
               \/ worker'[i].todo = worker[i].todo /\ worker'[i].msg = worker[i].msg
      BY <1>1, <2>1, <3>1, SameOffsets DEF Past
    <3>2. CASE /\ worker[i].todo # <<>> /\ worker'[i].todo = Tail(worker[i].todo)
               /\ worker'[i].msg = worker[i].msg
      <4>1. worker[i].todo \in Seq(User)
        BY <3>2, HeadFacts
      <4>2. IsInjective(worker'[i].todo)
        BY <1>1, <3>2, <4>1, TailInjective DEF OffsetsOf
      <4>3. /\ task'[i] = "running" /\ pending'[i] = pending[i] /\ Past(i)' = Past(i)
            /\ worker'[i].msg \in Past(i) /\ \A n \in Past(i) : n <= worker'[i].msg
        BY <1>1, <2>1, <3>2 DEF OffsetsOf, Past, ConsumerTyped
      <4> QED
        BY <1>1, <2>1, <4>2, <4>3 DEF OffsetsOf
    <3>3. \/ worker'[i].todo = <<>>
          \/ /\ worker'[i].msg = worker[i].msg
             /\ worker'[i].todo = worker[i].todo \/ (worker[i].todo # <<>> /\ worker'[i].todo = Tail(worker[i].todo))
      BY <1>2, SameWork
    <3> QED
      BY <3>1, <3>2, <3>3
  <2> QED
    BY <1>1, <2>1, <2>2 DEF OffsetInv
<1>3. CASE Produce
  <2>1. PICK r \in Recipients : log' = Append(log, r)
    BY <1>3 DEF Produce
  <2>2. /\ Len(log') = Len(log) + 1 /\ log'[Len(log) + 1] = r
        /\ \A m \in 1..Len(log) : log'[m] = log[m]
    <3>1. log \in Seq(Seq(User)) /\ r \in Seq(User)
      BY <2>1, RecipientsFacts DEF ConsumerTyped
    <3> QED
      BY <2>1, <3>1, AppendProperties
  <2>3. IsInjective(r)
    BY <2>1, RecipientsFacts
  <2>4. \A m \in 1..Len(log') : IsInjective(log'[m])
    <3>1. \A m \in 1..Len(log') : m \in 1..Len(log) \/ m = Len(log) + 1
      BY <1>1, <2>2
    <3> QED
      BY <1>1, <2>2, <2>3, <3>1
  <2>5. UNCHANGED <<taken, pending, task, worker>>
    BY <1>3 DEF Produce, kafkaVars
  <2>6. \A i \in Instance : OffsetsOf(i)'
    BY <1>1, <2>2, <2>5, SameOffsets DEF Past
  <2> QED
    BY <2>4, <2>6 DEF OffsetInv
<1>4. ASSUME NEW i \in Instance, log' = log, OffsetsOf(i)',
             \A j \in Instance : j # i =>
                /\ pending'[j] = pending[j] /\ task'[j] = task[j] /\ worker'[j] = worker[j]
                /\ Past(j)' = Past(j)
      PROVE  OffsetInv'
  <2>1. ASSUME NEW j \in Instance, j # i PROVE OffsetsOf(j)'
    BY <1>1, <1>4, <2>1, SameOffsets
  <2> QED
    BY <1>1, <1>4, <2>1 DEF OffsetInv
<1>5. \A i, j \in Instance : j # i => HostOf[j] # HostOf[i]
  BY DEF OwnGroups
<1>6. ASSUME NEW i \in Instance, StartConsumer(i) PROVE OffsetInv'
  <2> DEFINE skipped == IF HasOffset(HostOf[i]) THEN {} ELSE (1..Len(log)) \ Past(i)
  <2>1. /\ task[i] = "starting" /\ task' = [task EXCEPT ![i] = "running"]
        /\ taken' = [taken EXCEPT ![HostOf[i]] = @ \cup skipped]
        /\ UNCHANGED <<log, pending, worker>>
    BY <1>6 DEF StartConsumer, Past
  <2>2. /\ Past(i)' = Past(i) \cup skipped /\ task'[i] = "running"
        /\ \A j \in Instance : j # i => Past(j)' = Past(j) /\ task'[j] = task[j]
    BY <1>1, <1>5, <2>1 DEF ConsumerTyped, Past
  <2>3. pending[i] = {} /\ worker[i].todo = <<>>
    BY <1>1, <2>1 DEF OffsetsOf
  <2>4. Past(i)' \in {Past(i), 1..Len(log)}
    <3>1. Past(i) \subseteq 1..Len(log)
      BY <1>1 DEF OffsetsOf
    <3> QED
      BY <2>2, <3>1
  <2>5. Past(i)' \subseteq 1..Len(log) /\ \A n \in Past(i)' : 1..n \subseteq Past(i)'
    BY <1>1, <2>4 DEF OffsetsOf
  <2> HIDE DEF skipped
  <2>6. OffsetsOf(i)'
    BY <2>1, <2>2, <2>3, <2>5 DEF OffsetsOf
  <2> QED
    BY <1>4, <2>1, <2>2, <2>6
<1>7. ASSUME NEW i \in Instance, Consume(i) PROVE OffsetInv'
  <2>1. PICK m \in 1..Len(log) :
          /\ m \notin Past(i) /\ \A n \in 1..m-1 : n \in Past(i)
          /\ taken' = [taken EXCEPT ![HostOf[i]] = @ \cup {m}]
          /\ pending' = [pending EXCEPT ![i] = @ \cup {m}]
          /\ worker' = [worker EXCEPT ![i] = [NoWork EXCEPT !.msg = m, !.todo = log[m]]]
    BY <1>7 DEF Consume, Past
  <2>2. task[i] = "running" /\ UNCHANGED <<log, task>>
    BY <1>7 DEF Consume
  <2>3. /\ Past(i)' = Past(i) \cup {m} /\ pending'[i] = pending[i] \cup {m}
        /\ \A j \in Instance : j # i => Past(j)' = Past(j) /\ pending'[j] = pending[j] /\ worker'[j] = worker[j]
    BY <1>1, <1>5, <2>1 DEF ConsumerTyped, WorkerTyped, Past
  <2>4. worker'[i].todo = log[m] /\ worker'[i].msg = m
    BY <2>1 DEF WorkerTyped, NoWork
  <2>5. \A n \in Past(i) : n < m
    <3>1. ASSUME NEW n \in Past(i), m <= n PROVE FALSE
      <4>1. n \in Nat /\ 1..n \subseteq Past(i)
        BY <1>1 DEF OffsetsOf
      <4> QED
        BY <2>1, <3>1, <4>1
    <3>2. Past(i) \subseteq Nat
      BY <1>1 DEF OffsetsOf
    <3> QED
      BY <3>1, <3>2
  <2>6. /\ Past(i)' \subseteq 1..Len(log) /\ \A n \in Past(i)' : 1..n \subseteq Past(i)'
        /\ pending'[i] \subseteq Past(i)'
    <3>1. 1..m \subseteq Past(i)'
      BY <2>1, <2>3
    <3> QED
      BY <1>1, <2>3, <3>1 DEF OffsetsOf
  <2>7. \A n \in pending'[i], k \in Past(i)' : n <= k => k \in pending'[i]
    BY <1>1, <2>3, <2>5 DEF OffsetsOf
  <2>8. /\ worker'[i].msg \in Past(i)' /\ IsInjective(worker'[i].todo)
        /\ \A n \in Past(i)' : n <= worker'[i].msg
    BY <1>1, <2>3, <2>4, <2>5 DEF OffsetsOf
  <2>9. OffsetsOf(i)'
    BY <2>2, <2>6, <2>7, <2>8 DEF OffsetsOf
  <2> QED
    BY <1>4, <2>2, <2>3, <2>9
<1>8. ASSUME NEW i \in Instance, AutoCommit(i) \/ WorkerDies(i) PROVE OffsetInv'
  <2>1. /\ UNCHANGED <<log, taken, worker>>
        /\ pending' = pending \/ pending' = [pending EXCEPT ![i] = {}]
        /\ task' = task \/ /\ task' = [task EXCEPT ![i] = "dead"] /\ worker[i].todo = <<>>
                           /\ task[i] = "starting" \/ pending' = [pending EXCEPT ![i] = {}]
    BY <1>1, <1>8 DEF AutoCommit, WorkerDies, Committed, OffsetsOf
  <2>2. /\ pending'[i] \in {{}, pending[i]}
        /\ task'[i] = task[i] \/ (worker[i].todo = <<>> /\ pending'[i] = {})
        /\ \A j \in Instance : j # i => pending'[j] = pending[j] /\ task'[j] = task[j]
    BY <1>1, <2>1 DEF ConsumerTyped, OffsetsOf
  <2>3. OffsetsOf(i)'
    BY <1>1, <2>1, <2>2 DEF OffsetsOf, Past
  <2> QED
    BY <1>4, <2>1, <2>2, <2>3 DEF Past
<1>9. ASSUME NEW i \in Instance, Crash(i) PROVE OffsetInv'
  <2>1. /\ log' = log /\ task' = [task EXCEPT ![i] = "starting"]
        /\ worker' = [worker EXCEPT ![i] = NoWork]
        /\ taken' = [taken EXCEPT ![HostOf[i]] = @ \ pending[i]]
        /\ pending' = [pending EXCEPT ![i] = {}]
    BY <1>9 DEF Crash
  <2>2. /\ Past(i)' = Past(i) \ pending[i] /\ pending'[i] = {} /\ worker'[i].todo = <<>>
        /\ \A j \in Instance : j # i => /\ Past(j)' = Past(j) /\ pending'[j] = pending[j]
                                        /\ worker'[j] = worker[j] /\ task'[j] = task[j]
    BY <1>1, <1>5, <2>1 DEF ConsumerTyped, WorkerTyped, Past, NoWork
  <2>3. \A n \in Past(i)' : 1..n \subseteq Past(i)'
    <3>1. ASSUME NEW n \in Past(i)', NEW k \in 1..n PROVE k \in Past(i)'
      <4>1. n \in Past(i) /\ n \notin pending[i] /\ n \in Nat
        BY <1>1, <2>2 DEF OffsetsOf
      <4>2. k \in Past(i) /\ k <= n
        BY <1>1, <4>1 DEF OffsetsOf
      <4>3. k \notin pending[i]
        BY <1>1, <4>1, <4>2 DEF OffsetsOf
      <4> QED
        BY <2>2, <4>2, <4>3
    <3> QED
      BY <3>1
  <2>4. OffsetsOf(i)'
    BY <1>1, <2>1, <2>2, <2>3 DEF OffsetsOf
  <2> QED
    BY <1>4, <2>1, <2>2, <2>4
<1> QED
  BY <1>2, <1>3, <1>6, <1>7, <1>8, <1>9 DEF Next, DeviceStep

\* The message m was sent on s.
Has(s, m) == \E k \in DOMAIN received[s] : received[s][k] = m

\* The loop of i is done with s: its user has been served, or s stands no further
\* in the list than the loop has come.
Visited(i, s) ==
    \/ \A k \in DOMAIN worker[i].todo : worker[i].todo[k] # owner[s].user
    \/ /\ owner[s].user = Head(worker[i].todo)
       /\ worker[i].cursor > 0
       /\ worker[i].attached =>
             \E k \in DOMAIN TheList(i) : k <= worker[i].cursor /\ TheList(i)[k] = s

\* A registered socket was sent what its group is past, and the message of the
\* worker only if the loop is done with it.
SentOf(i, s) ==
    sock[s] \in Registered /\ owner[s].inst = i =>
       /\ \A k \in DOMAIN received[s] : received[s][k] \in Past(i)
       /\ worker[i].todo # <<>> /\ (Has(s, worker[i].msg) \/ worker[i].on = s) => Visited(i, s)

\* The socket that a worker waits for has not been sent the message.
WaitOf(i) ==
    worker[i].on # None =>
       /\ sock[worker[i].on] = "stalled" /\ owner[worker[i].on].inst = i
       /\ ~Has(worker[i].on, worker[i].msg)

Increasing(s) == \A j, k \in DOMAIN received[s] : j < k => received[s][j] < received[s][k]

SentInv ==
    /\ \A s \in Socket : Increasing(s) /\ (sock[s] = "new" => received[s] = <<>>)
    /\ \A i \in Instance, s \in Socket : SentOf(i, s)
    /\ \A i \in Instance : WaitOf(i)

\* Nothing has been sent when the service starts.
LEMMA InitSent == Init => SentInv
<1> SUFFICES ASSUME Init PROVE SentInv
  OBVIOUS
<1>1. \A s \in Socket : received[s] = <<>> /\ sock[s] = "new"
  BY DEF Init
<1>2. \A i \in Instance : worker[i].on = None
  BY DEF Init, NoWork
<1> QED
  BY <1>1, <1>2 DEF SentInv, Increasing, SentOf, WaitOf, Registered

\* A message later than all that was sent keeps the order.
LEMMA AppendIncreasing ==
    ASSUME NEW s \in Socket, WorkerTyped, Increasing(s), NEW m \in Message,
           \A k \in DOMAIN received[s] : received[s][k] < m,
           received'[s] = Append(received[s], m)
    PROVE  /\ Increasing(s)'
           /\ \A k \in DOMAIN received'[s] : received'[s][k] = m \/ \E j \in DOMAIN received[s] : received'[s][k] = received[s][j]
<1> DEFINE r == received[s]
<1>1. r \in Seq(Message)
  BY DEF WorkerTyped
<1>2. /\ Len(r) \in Nat /\ DOMAIN r = 1..Len(r)
      /\ DOMAIN received'[s] = 1..Len(r)+1 /\ received'[s][Len(r) + 1] = m
      /\ \A k \in 1..Len(r) : received'[s][k] = r[k]
  BY <1>1, AppendProperties
<1>3. \A j, k \in 1..Len(r) : j < k => r[j] < r[k]
  BY <1>2 DEF Increasing
<1> HIDE DEF r
<1>4. ASSUME NEW j \in 1..Len(r)+1, NEW k \in 1..Len(r)+1, j < k
      PROVE  received'[s][j] < received'[s][k]
  <2>1. j \in 1..Len(r)
    BY <1>2, <1>4
  <2>2. CASE k = Len(r) + 1
    BY <1>2, <2>1, <2>2 DEF r
  <2>3. CASE k \in 1..Len(r)
    BY <1>2, <1>3, <1>4, <2>1, <2>3
  <2> QED
    BY <1>2, <2>2, <2>3
<1>5. ASSUME NEW k \in 1..Len(r)+1 PROVE received'[s][k] = m \/ \E j \in 1..Len(r) : received'[s][k] = r[j]
  BY <1>2
<1> QED
  BY <1>2, <1>4, <1>5 DEF Increasing, r

\* A socket that was sent nothing, of an instance whose loop forgets no visit,
\* keeps its part.
LEMMA SameSent ==
    ASSUME NEW i \in Instance, NEW s \in Socket, SentOf(i, s),
           sock'[s] \in Registered => sock[s] \in Registered, owner'[s] = owner[s],
           received'[s] = received[s], Past(i) \subseteq Past(i)',
           worker'[i].todo # <<>> => worker[i].todo # <<>> /\ worker'[i].msg = worker[i].msg,
           worker'[i].on = s => worker[i].on = s,
           worker'[i].todo # <<>> /\ sock[s] \in Registered /\ owner[s].inst = i /\ Visited(i, s)
              => Visited(i, s)'
    PROVE  SentOf(i, s)'
BY DEF SentOf, Has

\* Steps that leave the lists, the workers and what was sent alone, take no
\* group back, register no socket and end no stall.
LEMMA QuietStep ==
    ASSUME ConnTyped, WorkerTyped, SentInv, UNCHANGED <<active, owner, worker, received>>,
           \A i \in Instance : Past(i) \subseteq Past(i)',
           \A s \in Socket : /\ sock'[s] \in Registered => sock[s] \in Registered
                             /\ sock'[s] = "new" => sock[s] = "new"
                             /\ sock[s] = "stalled" => sock'[s] = "stalled"
    PROVE  SentInv'
<1>1. \A s \in Socket : Increasing(s)' /\ (sock'[s] = "new" => received'[s] = <<>>)
  BY DEF SentInv, Increasing
<1>2. ASSUME NEW i \in Instance, NEW s \in Socket PROVE SentOf(i, s)'
  <2>1. Visited(i, s) => Visited(i, s)'
    BY DEF Visited, TheList
  <2> QED
    BY <2>1, SameSent DEF SentInv
<1>3. ASSUME NEW i \in Instance PROVE WaitOf(i)'
  <2>1. worker[i].on \in Socket \cup {None} /\ WaitOf(i)
    BY DEF WorkerTyped, WorkerState, SentInv
  <2> QED
    BY <2>1 DEF WaitOf, Has
<1> QED
  BY <1>1, <1>2, <1>3 DEF SentInv

\* connect puts the new socket behind those that the loop has visited (manager.py: 16-18).
LEMMA ConnectSent ==
    ASSUME ConnInv, WorkerTyped, SentInv, NEW s \in Socket, Connect(s)
    PROVE  SentInv'
<1>1. PICK u \in User, j \in Instance :
         /\ owner' = [owner EXCEPT ![s] = [user |-> u, inst |-> j]]
         /\ active' = [active EXCEPT ![j][u] = Append(@, s)]
  BY DEF Connect
<1>2. /\ sock[s] = "new" /\ sock' = [sock EXCEPT ![s] = "setting"]
      /\ UNCHANGED <<worker, received, taken>>
  BY DEF Connect, deviceVars, kafkaVars
<1>3. /\ active \in [Instance -> [User -> Seq(Socket)]]
      /\ sock \in [Socket -> SocketState]
      /\ owner \in [Socket -> [user : User \cup {None}, inst : Instance \cup {None}]]
  BY DEF ConnInv, ConnTyped
<1>4. /\ sock'[s] = "setting" /\ received'[s] = <<>>
      /\ \A t \in Socket : t # s => owner'[t] = owner[t] /\ sock'[t] = sock[t]
  BY <1>1, <1>2, <1>3 DEF SentInv
<1>5. ASSUME NEW i \in Instance, NEW v \in User, NEW k \in DOMAIN active[i][v]
      PROVE  k \in DOMAIN active'[i][v] /\ active'[i][v][k] = active[i][v][k]
  <2>1. CASE i = j /\ v = u
    <3>1. active[j][u] \in Seq(Socket) /\ active'[j][u] = Append(active[j][u], s)
      BY <1>1, <1>3
    <3> QED
      BY <1>5, <2>1, <3>1, AppendProperties
  <2>2. CASE ~(i = j /\ v = u)
    BY <1>1, <1>3, <1>5, <2>2
  <2> QED
    BY <2>1, <2>2
<1>6. ASSUME NEW i \in Instance PROVE worker[i].on # s
  BY <1>2, GatewayAssumption DEF SentInv, WaitOf
<1>7. ASSUME NEW i \in Instance, NEW t \in Socket PROVE SentOf(i, t)'
  <2>1. CASE t = s
    <3>1. ~Has(s, worker[i].msg)' /\ \A k \in DOMAIN received'[s] : FALSE
      BY <1>4 DEF Has
    <3> QED
      BY <1>2, <1>6, <2>1, <3>1 DEF SentOf, Has
  <2>2. CASE t # s
    <3>1. ASSUME worker[i].todo # <<>>, Visited(i, t) PROVE Visited(i, t)'
      <4>1. Head(worker[i].todo) \in User
        BY <3>1, HeadFacts DEF ConnInv
      <4>2. \A k \in DOMAIN TheList(i) : k \in DOMAIN TheList(i)' /\ TheList(i)'[k] = TheList(i)[k]
        BY <1>2, <1>5, <4>1 DEF TheList
      <4> QED
        BY <1>2, <1>4, <2>2, <3>1, <4>2 DEF Visited
    <3> QED
      BY <1>2, <1>4, <2>2, <3>1, SameSent DEF SentInv, Past
  <2> QED
    BY <2>1, <2>2
<1>8. ASSUME NEW i \in Instance PROVE WaitOf(i)'
  <2>1. worker[i].on \in Socket \cup {None} /\ WaitOf(i)
    BY DEF WorkerTyped, WorkerState, SentInv
  <2> QED
    BY <1>2, <1>4, <1>6, <2>1 DEF WaitOf, Has
<1>9. \A t \in Socket : Increasing(t)' /\ (sock'[t] = "new" => received'[t] = <<>>)
  BY <1>2, <1>4 DEF SentInv, Increasing
<1> QED
  BY <1>7, <1>8, <1>9 DEF SentInv

\* disconnect moves no visited socket further (manager.py: 25-29).
LEMMA DisconnectSent ==
    ASSUME ConnInv, WorkerTyped, SentInv, NEW s \in Socket, Disconnect(s)
    PROVE  SentInv'
<1> DEFINE u == owner[s].user
           j == owner[s].inst
           l == active[j][u]
           r == RemoveAt(l, Index(l, s))
<1>1. ConnTyped /\ ListsAreRegistered
  BY DEF ConnInv
<1>2. /\ sock[s] \in {"open", "dropped"}
      /\ active' = [active EXCEPT ![j][u] = r]
      /\ \E x \in {"deleting", "closed"} : sock' = [sock EXCEPT ![s] = x]
      /\ UNCHANGED <<owner, received, taken>>
      /\ worker' = worker \/ worker' = [worker EXCEPT ![j].attached = FALSE]
  BY DEF Disconnect, deviceVars, kafkaVars
<1>3. u \in User /\ j \in Instance /\ l \in Seq(Socket)
  BY <1>1, <1>2 DEF ConnTyped
<1>4. /\ \E k \in DOMAIN l : l[k] = s
      /\ \A m, k \in DOMAIN l : l[m] = l[k] => m = k
  <2>1. sock[s] \in Registered
    BY <1>2 DEF Registered
  <2> QED
    BY <2>1, <1>1, <1>3 DEF ListsAreRegistered
<1>5. \A k \in DOMAIN l : l[k] # s => \E m \in DOMAIN r : m <= k /\ r[m] = l[k]
  BY <1>3, <1>4, RemoveSocket
<1>6. /\ active'[j][u] = r
      /\ \A i \in Instance, v \in User : <<i, v>> # <<j, u>> => active'[i][v] = active[i][v]
  BY <1>1, <1>2, <1>3 DEF ConnTyped
<1>7. /\ sock'[s] \in {"deleting", "closed"}
      /\ \A t \in Socket : t # s => sock'[t] = sock[t]
  BY <1>1, <1>2 DEF ConnTyped
<1>8. ASSUME NEW i \in Instance
      PROVE  /\ worker'[i].todo = worker[i].todo /\ worker'[i].msg = worker[i].msg
             /\ worker'[i].cursor = worker[i].cursor /\ worker'[i].on = worker[i].on
             /\ worker'[i].attached => worker[i].attached
  <2> DEFINE e == [worker[i] EXCEPT !.attached = FALSE]
  <2>1. worker \in [Instance -> WorkerState]
    BY DEF WorkerTyped
  <2>2. worker'[i] = worker[i] \/ worker'[i] = e
    BY <1>2, <2>1
  <2>3. /\ e.todo = worker[i].todo /\ e.msg = worker[i].msg /\ e.cursor = worker[i].cursor
        /\ e.on = worker[i].on /\ e.attached = FALSE
    BY <2>1 DEF WorkerState
  <2> HIDE DEF e
  <2> QED
    BY <2>2, <2>3
<1> HIDE DEF r
<1>9. ASSUME NEW i \in Instance, NEW t \in Socket PROVE SentOf(i, t)'
  <2>1. CASE t = s
    BY <1>7, <2>1 DEF SentOf, Registered
  <2>2. CASE t # s
    <3>1. ASSUME worker[i].todo # <<>>, Visited(i, t) PROVE Visited(i, t)'
      <4>1. Head(worker[i].todo) \in User /\ worker[i].cursor \in Nat
        BY <1>1, <3>1, HeadFacts
      <4>2. ASSUME NEW k \in DOMAIN TheList(i), k <= worker[i].cursor, TheList(i)[k] = t
            PROVE  \E m \in DOMAIN TheList(i)' : m <= worker[i].cursor /\ TheList(i)'[m] = t
        <5>1. CASE i = j /\ Head(worker[i].todo) = u
          <6>1. TheList(i) = l /\ TheList(i)' = r
            BY <1>6, <1>8, <5>1 DEF TheList
          <6>2. k \in DOMAIN l /\ l[k] = t /\ k \in Nat
            BY <1>3, <4>2, <6>1
          <6>3. PICK m \in DOMAIN r : m <= k /\ r[m] = t
            BY <1>5, <2>2, <6>2
          <6>4. m \in Nat
            <7>1. r \in Seq(Socket)
              BY <1>3, <1>4, RemoveSocket DEF r
            <7> QED
              BY <7>1
          <6> HIDE DEF l
          <6> QED
            BY <4>1, <4>2, <6>1, <6>2, <6>3, <6>4
        <5>2. CASE ~(i = j /\ Head(worker[i].todo) = u)
          <6>1. TheList(i)' = TheList(i)
            BY <1>6, <1>8, <4>1, <5>2 DEF TheList
          <6> QED
            BY <4>2, <6>1
        <5> QED
          BY <5>1, <5>2
      <4> QED
        BY <1>2, <1>8, <3>1, <4>2 DEF Visited
    <3> QED
      BY <1>2, <1>7, <1>8, <2>2, <3>1, SameSent DEF SentInv, Past
  <2> QED
    BY <2>1, <2>2
<1>10. ASSUME NEW i \in Instance PROVE WaitOf(i)'
  <2>1. worker[i].on \in Socket \cup {None} /\ WaitOf(i)
    BY DEF WorkerTyped, WorkerState, SentInv
  <2>2. worker[i].on # s
    BY <1>2, <2>1, GatewayAssumption DEF WaitOf
  <2> QED
    BY <1>2, <1>7, <1>8, <2>1, <2>2 DEF WaitOf, Has
<1>11. \A t \in Socket : Increasing(t)' /\ (sock'[t] = "new" => received'[t] = <<>>)
  BY <1>2, <1>7 DEF SentInv, Increasing
<1> QED
  BY <1>9, <1>10, <1>11 DEF SentInv

\* What the instances have sent is before the message of a socket not yet served.
LEMMA BeforeMessage ==
    ASSUME ConnTyped, WorkerTyped, OffsetInv, SentInv, NEW i \in Instance, NEW s \in Socket,
           worker[i].todo # <<>>, sock[s] \in Registered, owner[s].inst = i,
           ~Has(s, worker[i].msg)
    PROVE  \A k \in DOMAIN received[s] : received[s][k] < worker[i].msg
<1>1. worker[i].msg \in Past(i) /\ Past(i) \subseteq Nat /\ \A n \in Past(i) : n <= worker[i].msg
  BY DEF OffsetInv, OffsetsOf
<1>2. \A k \in DOMAIN received[s] : received[s][k] \in Past(i) /\ received[s][k] # worker[i].msg
  BY DEF SentInv, SentOf, Has
<1> QED
  BY <1>1, <1>2

\* The send that had to wait: the socket has not had the message before.
LEMMA EndStallSent ==
    ASSUME ConnTyped, WorkerTyped, OffsetInv, SentInv, NEW s \in Socket, EndStall(s)
    PROVE  SentInv'
<1>0. PICK i \in Instance : i = owner[s].inst
  BY DEF ConnTyped, EndStall
<1>1. PICK x \in {"open", "dropped"} :
         /\ sock' = [sock EXCEPT ![s] = x]
         /\ received' = IF x = "open" /\ Awaits(i, s)
                        THEN [received EXCEPT ![s] = Append(@, worker[i].msg)]
                        ELSE received
  BY <1>0 DEF EndStall
<1>2. /\ sock[s] = "stalled" /\ UNCHANGED <<active, owner, taken>>
      /\ worker' = IF Awaits(i, s) THEN [worker EXCEPT ![i].on = None] ELSE worker
  BY <1>0 DEF EndStall, kafkaVars
<1>3. owner[s].inst = i /\ sock \in [Socket -> SocketState] /\ worker \in [Instance -> WorkerState]
      /\ received \in [Socket -> Seq(Message)]
  BY <1>0 DEF ConnTyped, WorkerTyped
<1>4. /\ sock'[s] = x
      /\ \A t \in Socket : t # s => sock'[t] = sock[t] /\ received'[t] = received[t]
  BY <1>1, <1>3
<1>5. ASSUME NEW j \in Instance
      PROVE  /\ worker'[j].todo = worker[j].todo /\ worker'[j].msg = worker[j].msg
             /\ worker'[j].cursor = worker[j].cursor /\ worker'[j].attached = worker[j].attached
             /\ worker'[j].on # s
             /\ worker'[j].on # None => worker'[j].on = worker[j].on
  <2> DEFINE e == [worker[j] EXCEPT !.on = None]
  <2>1. /\ e.todo = worker[j].todo /\ e.msg = worker[j].msg /\ e.cursor = worker[j].cursor
        /\ e.attached = worker[j].attached /\ e.on = None
    BY <1>3 DEF WorkerState
  <2>2. worker[j].on = s => j = i
    BY <1>3, GatewayAssumption DEF SentInv, WaitOf
  <2>3. worker'[j] = IF j = i /\ Awaits(i, s) THEN e ELSE worker[j]
    BY <1>2, <1>3
  <2> HIDE DEF e
  <2> QED
    BY <2>1, <2>2, <2>3, GatewayAssumption DEF Awaits
<1>6. ASSUME NEW j \in Instance, NEW t \in Socket, Visited(j, t) PROVE Visited(j, t)'
  BY <1>2, <1>5, <1>6 DEF Visited, TheList
<1>7. ASSUME NEW j \in Instance, NEW t \in Socket, t # s \/ received'[t] = received[t] PROVE SentOf(j, t)'
  <2>1. sock'[t] \in Registered => sock[t] \in Registered
    BY <1>2, <1>4 DEF Registered
  <2>2. received'[t] = received[t] /\ owner'[t] = owner[t] /\ Past(j)' = Past(j)
    BY <1>2, <1>4, <1>7 DEF Past
  <2>3. worker'[j].on = t => worker[j].on = t
    BY <1>5, GatewayAssumption
  <2> QED
    BY <1>5, <1>6, <2>1, <2>2, <2>3, SameSent DEF SentInv
<1>8. ASSUME NEW j \in Instance PROVE WaitOf(j)'
  <2>1. CASE worker'[j].on = None
    BY <2>1 DEF WaitOf
  <2>2. CASE worker'[j].on # None
    <3>1. worker'[j].on = worker[j].on /\ worker[j].on # s /\ worker[j].on \in Socket
      BY <1>3, <1>5, <2>2 DEF WorkerState
    <3>2. WaitOf(j) /\ worker'[j].msg = worker[j].msg
      BY <1>5 DEF SentInv
    <3> QED
      BY <1>2, <1>4, <2>2, <3>1, <3>2 DEF WaitOf, Has
  <2> QED
    BY <2>1, <2>2
<1>9. CASE received'[s] = received[s]
  <2>1. \A t \in Socket : Increasing(t)' /\ (sock'[t] = "new" => received'[t] = <<>>)
    BY <1>1, <1>4, <1>9 DEF SentInv, Increasing
  <2> QED
    BY <1>7, <1>8, <1>9, <2>1 DEF SentInv
<1>10. CASE received'[s] # received[s]
  <2>1. Awaits(i, s) /\ received'[s] = Append(received[s], worker[i].msg)
    BY <1>1, <1>3, <1>10
  <2>2. worker[i].on # None /\ worker[i].on = s /\ worker[i].todo # <<>> /\ worker[i].msg \in Message
    BY <1>3, <2>1, GatewayAssumption DEF Awaits, WorkerTyped
  <2>3. owner[s].inst = i /\ sock[s] \in Registered /\ ~Has(s, worker[i].msg)
    BY <1>2, <1>3, <2>2 DEF SentInv, WaitOf, Registered
  <2>4. \A k \in DOMAIN received[s] : received[s][k] < worker[i].msg
    BY <1>3, <2>2, <2>3, BeforeMessage
  <2>5. /\ Increasing(s)'
        /\ \A k \in DOMAIN received'[s] :
              received'[s][k] = worker[i].msg \/ \E j \in DOMAIN received[s] : received'[s][k] = received[s][j]
    BY <2>1, <2>2, <2>4, AppendIncreasing DEF SentInv
  <2>6. SentOf(i, s)'
    <3>1. \A k \in DOMAIN received'[s] : received'[s][k] \in Past(i)'
      <4>1. worker[i].msg \in Past(i) /\ Past(i)' = Past(i)
        BY <1>2, <1>3, <2>2 DEF OffsetInv, OffsetsOf, Past
      <4>2. \A j \in DOMAIN received[s] : received[s][j] \in Past(i)
        BY <1>3, <2>3 DEF SentInv, SentOf
      <4> QED
        BY <2>5, <4>1, <4>2
    <3>2. Visited(i, s)'
      BY <1>3, <1>6, <2>2, <2>3 DEF SentInv, SentOf
    <3> QED
      BY <3>1, <3>2 DEF SentOf
  <2>7. ASSUME NEW j \in Instance, NEW t \in Socket PROVE SentOf(j, t)'
    <3>1. CASE t = s /\ j # i
      BY <1>2, <2>3, <3>1 DEF SentOf
    <3> QED
      BY <1>7, <2>6, <3>1
  <2>8. \A t \in Socket : Increasing(t)' /\ (sock'[t] = "new" => received'[t] = <<>>)
    BY <1>1, <1>4, <2>5 DEF SentInv, Increasing
  <2> QED
    BY <1>8, <2>7, <2>8 DEF SentInv
<1> QED
  BY <1>9, <1>10

\* The loop sends to the next place of the list, which it has not visited
\* (manager.py: 37-41).
LEMMA LoopSent ==
    ASSUME ConnInv, WorkerTyped, OffsetInv, SentInv, NEW i \in Instance, BeginList(i) \/ NextSocket(i)
    PROVE  SentInv'
<1> DEFINE w == worker[i]
           l == TheList(i)
<1>0. PICK k \in Nat, s \in Socket : k = w.cursor + 1 /\ k \in DOMAIN l /\ s = l[k]
  <2>1. w.cursor + 1 \in DOMAIN l /\ l[w.cursor + 1] \in Socket
    BY LoopFacts DEF ConnInv
  <2>2. w.cursor + 1 \in Nat
    BY DEF WorkerTyped, WorkerState
  <2> QED
    BY <2>1, <2>2
<1>1. /\ w.todo # <<>> /\ w.on = None
      /\ w.cursor > 0 => w.attached
      /\ Send(i, s)
      /\ \A j \in Instance : j # i => worker'[j] = worker[j]
      /\ worker'[i].todo = w.todo /\ worker'[i].msg = w.msg
      /\ worker'[i].cursor = k /\ worker'[i].attached /\ worker'[i].on = WaitsOn(s)
      /\ UNCHANGED <<active, sock, owner>>
  BY <1>0, LoopFacts DEF ConnInv
<1>2. /\ Head(w.todo) \in User /\ Head(w.todo) = w.todo[1] /\ 1 \in DOMAIN w.todo
      /\ w.msg \in Message /\ w.cursor \in Nat
  BY <1>1, HeadFacts DEF ConnInv
<1>3. /\ sock[s] \in Registered /\ owner[s].user = Head(w.todo) /\ owner[s].inst = i
      /\ \A j \in DOMAIN l : l[j] = s => j = k
  <2>1. l = active[i][Head(w.todo)] /\ Head(w.todo) \in User
    BY <1>2 DEF TheList
  <2> HIDE DEF l, w
  <2>2. /\ sock[l[k]] \in Registered /\ owner[l[k]] = [user |-> Head(w.todo), inst |-> i]
        /\ \A j \in DOMAIN l : l[j] = l[k] => j = k
    BY <1>0, <2>1 DEF ConnInv, ListsAreRegistered
  <2> QED
    BY <1>0, <2>2
<1>4. taken' = taken
  BY DEF BeginList, NextSocket, kafkaVars
<1>5. received \in [Socket -> Seq(Message)]
  BY DEF WorkerTyped
<1>6. TheList(i)' = l
  BY <1>1 DEF TheList
<1> HIDE DEF l
<1>7. ~Visited(i, s)
  BY <1>0, <1>1, <1>2, <1>3 DEF Visited, l
<1>8. ~Has(s, w.msg)
  BY <1>1, <1>3, <1>7 DEF SentInv, SentOf
<1>9. /\ \A t \in Socket : t # s => received'[t] = received[t]
      /\ \/ received'[s] = received[s]
         \/ received'[s] = Append(received[s], w.msg) /\ sock[s] # "stalled"
  BY <1>1, SendFacts DEF ConnInv
<1>10. Visited(i, s)'
  BY <1>0, <1>1, <1>2, <1>3, <1>6 DEF Visited
<1>11. ASSUME NEW t \in Socket, t # s, Visited(i, t) PROVE Visited(i, t)'
  <2>1. owner'[t].user = owner[t].user /\ w.cursor <= worker'[i].cursor /\ worker'[i].cursor > 0
    BY <1>0, <1>1, <1>2
  <2>2. CASE \A m \in DOMAIN w.todo : w.todo[m] # owner[t].user
    BY <1>1, <2>1, <2>2 DEF Visited
  <2>3. CASE /\ owner[t].user = Head(w.todo)
             /\ \E m \in DOMAIN l : m <= w.cursor /\ l[m] = t
    <3>1. l \in Seq(Socket)
      BY <1>1, HeadFacts DEF ConnInv, l
    <3>2. PICK m \in DOMAIN l : m <= w.cursor /\ l[m] = t
      BY <2>3
    <3>3. m \in Nat /\ m <= k
      BY <1>0, <1>2, <3>1, <3>2
    <3> QED
      BY <1>0, <1>1, <1>6, <2>1, <2>3, <3>2, <3>3 DEF Visited
  <2> QED
    BY <1>1, <1>11, <2>2, <2>3 DEF Visited, l
<1>12. \A m \in DOMAIN received[s] : received[s][m] < w.msg
  BY <1>1, <1>3, <1>8, BeforeMessage DEF ConnInv
<1>13. /\ Increasing(s)'
       /\ \A m \in DOMAIN received'[s] :
             received'[s][m] = w.msg \/ \E j \in DOMAIN received[s] : received'[s][m] = received[s][j]
  <2>1. CASE received'[s] = received[s]
    BY <1>1, <2>1 DEF SentInv, Increasing
  <2>2. CASE received'[s] = Append(received[s], w.msg)
    BY <1>1, <1>2, <1>12, <2>2, AppendIncreasing DEF SentInv
  <2> QED
    BY <1>9, <2>1, <2>2
<1>14. SentOf(i, s)'
  <2>1. w.msg \in Past(i) /\ Past(i)' = Past(i)
    BY <1>1, <1>4 DEF OffsetInv, OffsetsOf, Past
  <2>2. \A j \in DOMAIN received[s] : received[s][j] \in Past(i)
    BY <1>1, <1>3 DEF SentInv, SentOf
  <2> QED
    BY <1>10, <1>13, <2>1, <2>2 DEF SentOf
<1>15. ASSUME NEW j \in Instance, NEW t \in Socket PROVE SentOf(j, t)'
  <2>1. CASE j = i /\ t = s
    BY <1>14, <2>1
  <2>2. CASE j # i /\ t = s
    BY <1>1, <1>3, <2>2 DEF SentOf
  <2>3. CASE j = i /\ t # s
    <3>1. worker'[i].on # t
      BY <1>1, <2>3, GatewayAssumption DEF WaitsOn
    <3> QED
      BY <1>1, <1>4, <1>9, <1>11, <2>3, <3>1, SameSent DEF SentInv, Past
  <2>4. CASE j # i /\ t # s
    <3>1. worker'[j] = worker[j]
      BY <1>1, <2>4
    <3>2. Visited(j, t) => Visited(j, t)'
      BY <1>1, <3>1 DEF Visited, TheList
    <3> QED
      BY <1>1, <1>4, <1>9, <2>4, <3>1, <3>2, SameSent DEF SentInv, Past
  <2> QED
    BY <2>1, <2>2, <2>3, <2>4
<1>16. ASSUME NEW j \in Instance PROVE WaitOf(j)'
  <2>1. CASE j = i
    <3>1. CASE WaitsOn(s) = None
      BY <1>1, <2>1, <3>1 DEF WaitOf
    <3>2. CASE WaitsOn(s) = s /\ sock[s] = "stalled"
      BY <1>1, <1>3, <1>8, <1>9, <2>1, <3>2 DEF WaitOf, Has
    <3> QED
      BY <3>1, <3>2 DEF WaitsOn
  <2>2. CASE j # i
    <3>1. worker'[j] = worker[j] /\ worker[j].on \in Socket \cup {None} /\ WaitOf(j)
      BY <1>1, <2>2 DEF WorkerTyped, WorkerState, SentInv
    <3>2. worker[j].on # s
      BY <1>1, <1>3, <2>2, <3>1, GatewayAssumption DEF WaitOf
    <3> QED
      BY <1>1, <1>9, <3>1, <3>2 DEF WaitOf, Has
  <2> QED
    BY <2>1, <2>2
<1>17. \A t \in Socket : Increasing(t)' /\ (sock'[t] = "new" => received'[t] = <<>>)
  BY <1>1, <1>3, <1>9, <1>13 DEF SentInv, Increasing, Registered
<1> QED
  BY <1>15, <1>16, <1>17 DEF SentInv

\* The next recipient of a message is none that was served (worker.py: 34).
LEMMA NextUserSent ==
    ASSUME ConnTyped, WorkerTyped, OffsetInv, SentInv, NEW i \in Instance, SkipUser(i) \/ EndList(i)
    PROVE  SentInv'
<1>1. /\ worker[i].todo # <<>> /\ NextUser(i)
      /\ UNCHANGED <<active, sock, owner, received, taken>>
  BY DEF SkipUser, EndList, deviceVars, kafkaVars
<1>2. /\ \A j \in Instance : j # i => worker'[j] = worker[j]
      /\ worker'[i].todo = Tail(worker[i].todo)
      /\ worker'[i].todo # <<>> => worker'[i].msg = worker[i].msg
      /\ worker'[i].on = None
  BY <1>1, NextUserFacts
<1>3. ASSUME NEW s \in Socket, worker'[i].todo # <<>>, Visited(i, s) PROVE Visited(i, s)'
  <2>1. worker[i].todo \in Seq(User)
    BY <1>1, HeadFacts
  <2>2. \A k \in DOMAIN Tail(worker[i].todo) :
           /\ Tail(worker[i].todo)[k] # Head(worker[i].todo)
           /\ \E j \in DOMAIN worker[i].todo : worker[i].todo[j] = Tail(worker[i].todo)[k]
    BY <1>1, <2>1, TailInjective DEF OffsetInv, OffsetsOf
  <2>3. \A k \in DOMAIN Tail(worker[i].todo) : Tail(worker[i].todo)[k] # owner[s].user
    BY <1>3, <2>2 DEF Visited
  <2> QED
    BY <1>1, <1>2, <2>3 DEF Visited
<1>4. ASSUME NEW j \in Instance, NEW s \in Socket PROVE SentOf(j, s)'
  <2>1. Past(j)' = Past(j) /\ owner'[s] = owner[s] /\ received'[s] = received[s] /\ sock'[s] = sock[s]
    BY <1>1 DEF Past
  <2>2. CASE j = i
    BY <1>1, <1>2, <1>3, <2>1, <2>2, SameSent, GatewayAssumption DEF SentInv
  <2>3. CASE j # i
    <3>1. worker'[j] = worker[j]
      BY <1>2, <2>3
    <3>2. Visited(j, s) => Visited(j, s)'
      BY <1>1, <3>1 DEF Visited, TheList
    <3> QED
      BY <2>1, <3>1, <3>2, SameSent DEF SentInv
  <2> QED
    BY <2>2, <2>3
<1>5. ASSUME NEW j \in Instance PROVE WaitOf(j)'
  <2>1. CASE j = i
    BY <1>2, <2>1 DEF WaitOf
  <2>2. CASE j # i
    BY <1>1, <1>2, <2>2 DEF SentInv, WaitOf, Has
  <2> QED
    BY <2>1, <2>2
<1>6. \A t \in Socket : Increasing(t)' /\ (sock'[t] = "new" => received'[t] = <<>>)
  BY <1>1 DEF SentInv, Increasing
<1> QED
  BY <1>4, <1>5, <1>6 DEF SentInv

\* The message that is fetched has not been sent to any device (worker.py: 23).
LEMMA ConsumeSent ==
    ASSUME OwnGroups, ConsumerTyped, WorkerTyped, OffsetInv, SentInv, NEW i \in Instance, Consume(i)
    PROVE  SentInv'
<1>1. PICK m \in 1..Len(log) :
        /\ m \notin Past(i)
        /\ taken' = [taken EXCEPT ![HostOf[i]] = @ \cup {m}]
        /\ worker' = [worker EXCEPT ![i] = [NoWork EXCEPT !.msg = m, !.todo = log[m]]]
  BY DEF Consume, Past
<1>2. UNCHANGED <<active, sock, owner, received>>
  BY DEF Consume
<1>3. /\ worker'[i].msg = m /\ worker'[i].on = None
      /\ \A j \in Instance : j # i => worker'[j] = worker[j]
  BY <1>1 DEF WorkerTyped, NoWork
<1>4. /\ Past(i)' = Past(i) \cup {m}
      /\ \A j \in Instance : j # i => Past(j)' = Past(j)
  BY <1>1, GatewayAssumption DEF ConsumerTyped, Past, OwnGroups
<1>5. ASSUME NEW j \in Instance, NEW s \in Socket PROVE SentOf(j, s)'
  <2>1. CASE j = i
    <3>1. ASSUME sock[s] \in Registered, owner[s].inst = i
          PROVE  /\ \A k \in DOMAIN received[s] : received[s][k] \in Past(i)
                 /\ ~Has(s, m)
      BY <1>1, <3>1 DEF SentInv, SentOf, Has
    <3> QED
      BY <1>2, <1>3, <1>4, <2>1, <3>1, GatewayAssumption DEF SentOf, Has
  <2>2. CASE j # i
    <3>1. worker'[j] = worker[j]
      BY <1>3, <2>2
    <3>2. Visited(j, s) => Visited(j, s)'
      BY <1>2, <3>1 DEF Visited, TheList
    <3> QED
      BY <1>2, <1>4, <2>2, <3>1, <3>2, SameSent DEF SentInv
  <2> QED
    BY <2>1, <2>2
<1>6. ASSUME NEW j \in Instance PROVE WaitOf(j)'
  <2>1. CASE j = i
    BY <1>3, <2>1 DEF WaitOf
  <2>2. CASE j # i
    BY <1>2, <1>3, <2>2 DEF SentInv, WaitOf, Has
  <2> QED
    BY <2>1, <2>2
<1>7. \A t \in Socket : Increasing(t)' /\ (sock'[t] = "new" => received'[t] = <<>>)
  BY <1>2 DEF SentInv, Increasing
<1> QED
  BY <1>5, <1>6, <1>7 DEF SentInv

\* A crash closes every socket of the instance: what is handed out again goes to others.
LEMMA CrashSent ==
    ASSUME OwnGroups, ConnInv, ConsumerTyped, WorkerTyped, SentInv, NEW i \in Instance, Crash(i)
    PROVE  SentInv'
<1>1. /\ active' = [active EXCEPT ![i] = [u \in User |-> <<>>]]
      /\ sock' = [s \in Socket |-> IF owner[s].inst = i THEN "closed" ELSE sock[s]]
      /\ worker' = [worker EXCEPT ![i] = NoWork]
      /\ taken' = [taken EXCEPT ![HostOf[i]] = @ \ pending[i]]
      /\ UNCHANGED <<owner, received>>
  BY DEF Crash
<1>2. /\ worker'[i].on = None
      /\ \A j \in Instance : j # i => /\ worker'[j] = worker[j] /\ active'[j] = active[j]
                                      /\ Past(j)' = Past(j)
  BY <1>1, GatewayAssumption DEF ConnInv, ConnTyped, ConsumerTyped, WorkerTyped, NoWork, Past, OwnGroups
<1>3. ASSUME NEW j \in Instance, NEW s \in Socket PROVE SentOf(j, s)'
  <2>1. CASE j = i
    BY <1>1, <2>1 DEF SentOf, Registered
  <2>2. CASE j # i
    <3>1. worker'[j] = worker[j] /\ active'[j] = active[j] /\ Past(j)' = Past(j)
      BY <1>2, <2>2
    <3>2. Visited(j, s) => Visited(j, s)'
      BY <1>1, <3>1 DEF Visited, TheList
    <3>3. sock'[s] \in Registered => sock[s] \in Registered
      BY <1>1 DEF Registered
    <3> QED
      BY <1>1, <3>1, <3>2, <3>3, SameSent DEF SentInv
  <2> QED
    BY <2>1, <2>2
<1>4. ASSUME NEW j \in Instance PROVE WaitOf(j)'
  <2>1. CASE j = i
    BY <1>2, <2>1 DEF WaitOf
  <2>2. CASE j # i
    <3>1. worker'[j] = worker[j] /\ WaitOf(j) /\ worker[j].on \in Socket \cup {None}
      BY <1>2, <2>2 DEF SentInv, WorkerTyped, WorkerState
    <3> QED
      BY <1>1, <2>2, <3>1 DEF WaitOf, Has
  <2> QED
    BY <2>1, <2>2
<1>5. \A t \in Socket : Increasing(t)' /\ (sock'[t] = "new" => received'[t] = <<>>)
  BY <1>1 DEF SentInv, Increasing
<1> QED
  BY <1>3, <1>4, <1>5 DEF SentInv

\* Every step keeps what was sent in order.
LEMMA SentStep ==
    /\ OwnGroups /\ ConnInv /\ ConsumerTyped /\ WorkerTyped /\ OffsetInv /\ SentInv
    /\ [Next]_vars
    => SentInv'
<1> SUFFICES ASSUME OwnGroups, ConnInv, ConsumerTyped, WorkerTyped, OffsetInv, SentInv, [Next]_vars
             PROVE  SentInv'
  OBVIOUS
<1>1. ConnTyped
  BY DEF ConnInv
<1>2. ASSUME UNCHANGED <<active, owner, worker, received>>, taken' = taken,
             \/ sock' = sock
             \/ \E s \in Socket : \E x \in {"open", "stalled", "dropped", "closed", "leaked"} :
                   /\ sock' = [sock EXCEPT ![s] = x]
                   /\ sock[s] # "stalled" /\ (sock[s] \in Registered \/ x = "closed")
      PROVE  SentInv'
  <2>1. \A i \in Instance : Past(i) \subseteq Past(i)'
    BY <1>2 DEF Past
  <2>2. \A s \in Socket : /\ sock'[s] \in Registered => sock[s] \in Registered
                          /\ sock'[s] = "new" => sock[s] = "new"
                          /\ sock[s] = "stalled" => sock'[s] = "stalled"
    BY <1>1, <1>2 DEF ConnTyped, Registered
  <2> QED
    BY <1>1, <1>2, <2>1, <2>2, QuietStep
<1>3. ASSUME NEW s \in Socket, Endpoint(s) PROVE SentInv'
  <2>1. CASE Connect(s)
    BY <2>1, ConnectSent
  <2>2. CASE Disconnect(s)
    BY <2>2, DisconnectSent
  <2>3. CASE EndStall(s)
    BY <1>1, <2>3, EndStallSent
  <2>4. CASE SetPresence(s) \/ SetPresenceFails(s) \/ Drop(s) \/ Stall(s)
    BY <1>2, <2>4 DEF SetPresence, SetPresenceFails, Drop, Stall, Registered, deviceVars, kafkaVars
  <2>5. CASE DeletePresence(s) \/ DeletePresenceFails(s)
    BY <1>2, <2>5 DEF DeletePresence, DeletePresenceFails, deviceVars, kafkaVars
  <2> QED
    BY <1>3, <2>1, <2>2, <2>3, <2>4, <2>5 DEF Endpoint
<1>4. ASSUME NEW i \in Instance, StartConsumer(i) PROVE SentInv'
  <2>1. \A j \in Instance : Past(j) \subseteq Past(j)'
    BY <1>4, GatewayAssumption DEF StartConsumer, ConsumerTyped, Past
  <2>2. UNCHANGED <<active, sock, owner, worker, received>>
    BY <1>4 DEF StartConsumer
  <2> QED
    BY <1>1, <2>1, <2>2, QuietStep
<1>5. ASSUME NEW i \in Instance, AutoCommit(i) \/ WorkerDies(i) PROVE SentInv'
  BY <1>2, <1>5 DEF AutoCommit, WorkerDies
<1>6. CASE Produce \/ (\E u \in User : Expire(u)) \/ UNCHANGED vars
  BY <1>2, <1>6 DEF Produce, Expire, vars, deviceVars, kafkaVars
<1>7. ASSUME NEW i \in Instance, Work(i) PROVE SentInv'
  BY <1>1, <1>7, LoopSent, NextUserSent DEF Work
<1> QED
  BY <1>3, <1>4, <1>5, <1>6, <1>7, ConsumeSent, CrashSent DEF Next

\* When every instance has a consumer group of its own, a device gets messages in
\* the order of the topic and none twice, though the list that the loop goes
\* through changes under it, devices stall and instances crash (manager.py: 34-41).
THEOREM DevicesInOrder ==
    ASSUME \A i, j \in Instance : HostOf[i] = HostOf[j] => i = j
    PROVE  Spec => []InOrderOnce
<1>1. OwnGroups
  BY DEF OwnGroups
<1>2. ConnInv /\ ConsumerTyped /\ WorkerTyped /\ OffsetInv /\ SentInv /\ [Next]_vars
         => OffsetInv' /\ SentInv'
  BY <1>1, OffsetStep, SentStep DEF ConnInv
<1>3. SentInv => InOrderOnce
  BY DEF SentInv, Increasing, InOrderOnce
<1>4. ConnInv => ConnTyped
  BY DEF ConnInv
<1> QED
  BY InitConn, InitConsumer, InitWorker, InitOffset, InitSent,
     ConnStep, ConsumerStep, WorkerStep, <1>2, <1>3, <1>4, PTL DEF Spec
=============================================================================
