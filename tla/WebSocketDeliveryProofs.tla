----------------------- MODULE WebSocketDeliveryProofs -----------------------
(***************************************************************************)
(* Proofs of what the websocket-service promises of messages, for any      *)
(* number of users, sockets, instances and messages and under every fault: *)
(* the loop of send_personal_message over the live list of a user's        *)
(* connections reaches all of them when none leaves, only a crash makes an *)
(* instance lose a message, and the service implements MessageFeed.        *)
(***************************************************************************)
EXTENDS WebSocketGatewayProofs

InLoop(i) == worker[i].todo # <<>> /\ worker[i].cursor > 0

\* None of the devices that were there when the loop began has left the list.
Intact(i) == worker[i].audience \subseteq ToSet(TheList(i))

\* A device that receives, or may again when it stops stalling, has the message or
\* the worker waits for it.
Live == {"setting", "open", "stalled"}
Served(i, t) == sock[t] \in Live => Has(t, worker[i].msg) \/ worker[i].on = t

\* Devices that came since the loop began stand behind those it began with, of
\* which the loop has served all that it is past.
Prefix(i) ==
    /\ worker[i].attached
    /\ \A j, k \in DOMAIN TheList(i) :
          j < k /\ TheList(i)[k] \in worker[i].audience => TheList(i)[j] \in worker[i].audience
    /\ \A k \in DOMAIN TheList(i) :
          k <= worker[i].cursor /\ TheList(i)[k] \in worker[i].audience => Served(i, TheList(i)[k])

LoopOf(i) ==
    /\ worker[i].on # None => sock[worker[i].on] = "stalled" /\ owner[worker[i].on].inst = i
    /\ InLoop(i) => /\ worker[i].audience # {}
                    /\ \A t \in worker[i].audience : sock[t] # "new"
                    /\ Intact(i) => Prefix(i)

LoopInv == \A i \in Instance : LoopOf(i)

\* No loop has begun when the service starts.
LEMMA InitLoop == Init => LoopInv
BY DEF Init, LoopInv, LoopOf, InLoop, NoWork

-----------------------------------------------------------------------------
(* Steps that a loop does not notice. *)

\* A device keeps what it was sent; if it may receive now it could before, and
\* a send that waited for it is over only when it has the message.
SameDevice(i, t) ==
    /\ sock[t] # "new" => sock'[t] # "new"
    /\ sock'[t] \in Live => sock[t] \in Live
    /\ Has(t, worker[i].msg) => Has(t, worker[i].msg)'
    /\ worker[i].on = t /\ sock'[t] \in Live => worker'[i].on = t \/ Has(t, worker[i].msg)'

\* Up to the last of the devices that the loop began with the list is as it was.
SamePrefix(i) ==
    Intact(i)' =>
        /\ Intact(i)
        /\ worker[i].attached => worker'[i].attached
        /\ \A k \in DOMAIN TheList(i)' : TheList(i)'[k] \in worker[i].audience =>
              \A j \in 1..k : j \in DOMAIN TheList(i) /\ TheList(i)'[j] = TheList(i)[j]

SameWorker(i) ==
    /\ worker'[i].todo = worker[i].todo /\ worker'[i].msg = worker[i].msg
    /\ worker'[i].cursor = worker[i].cursor /\ worker'[i].audience = worker[i].audience
    /\ worker'[i].on # None => /\ worker'[i].on = worker[i].on
                               /\ sock'[worker[i].on] = "stalled"
                               /\ owner'[worker[i].on].inst = i

\* Such a step keeps what is known of the loop.
LEMMA LoopKept ==
    ASSUME ConnTyped', NEW i \in Instance, LoopOf(i), SameWorker(i), WorkerTyped',
           InLoop(i) => SamePrefix(i) /\ \A t \in worker[i].audience : SameDevice(i, t)
    PROVE  LoopOf(i)'
<1>1. worker'[i].on # None => sock'[worker'[i].on] = "stalled" /\ owner'[worker'[i].on].inst = i
  BY DEF SameWorker
<1>2. ASSUME InLoop(i)'
      PROVE  /\ InLoop(i) /\ worker'[i].audience # {}
             /\ \A t \in worker'[i].audience : sock'[t] # "new"
  BY <1>2 DEF InLoop, SameWorker, LoopOf, SameDevice
<1>3. ASSUME InLoop(i)', Intact(i)' PROVE Prefix(i)'
  <2> DEFINE l == TheList(i)
             a == worker[i].audience
  <2>0. PICK m : m = TheList(i)'
    OBVIOUS
  <2>1. /\ Prefix(i) /\ worker[i].attached /\ worker'[i].attached
        /\ \A k \in DOMAIN m : m[k] \in a => \A j \in 1..k : j \in DOMAIN l /\ m[j] = l[j]
    BY <1>2, <1>3, <2>0 DEF LoopOf, SamePrefix, Prefix
  <2>2. m \in Seq(Socket) /\ DOMAIN m = 1..Len(m) /\ Len(m) \in Nat
    <3>1. TheList(i)' \in Seq(Socket)
      <4>1. worker'[i].todo # <<>> /\ worker'[i].todo \in Seq(User)
        BY <1>3 DEF InLoop, WorkerTyped, WorkerState
      <4>2. Head(worker'[i].todo) \in User
        BY <4>1
      <4> QED
        BY <4>2 DEF TheList, ConnTyped
    <3> QED
      BY <2>0, <3>1
  <2>3. worker'[i].audience = a /\ worker'[i].cursor = worker[i].cursor /\ worker'[i].msg = worker[i].msg
    BY DEF SameWorker
  <2>4. /\ \A j, k \in DOMAIN l : j < k /\ l[k] \in a => l[j] \in a
        /\ \A k \in DOMAIN l : k <= worker[i].cursor /\ l[k] \in a => Served(i, l[k])
    BY <2>1 DEF Prefix
  <2>5. ASSUME NEW t \in a, Served(i, t) PROVE Served(i, t)'
    <3>1. SameDevice(i, t)
      BY <1>2, <1>3
    <3> QED
      BY <2>3, <2>5, <3>1 DEF Served, SameDevice, Has
  <2> HIDE DEF l, a
  <2>6. ASSUME NEW j \in DOMAIN m, NEW k \in DOMAIN m, j < k, m[k] \in a PROVE m[j] \in a
    <3>1. j \in 1..k /\ k \in 1..k
      BY <2>2, <2>6
    <3>2. j \in DOMAIN l /\ k \in DOMAIN l /\ m[j] = l[j] /\ m[k] = l[k]
      BY <2>1, <2>6, <3>1
    <3> QED
      BY <2>4, <2>6, <3>2
  <2>7. ASSUME NEW k \in DOMAIN m, k <= worker[i].cursor, m[k] \in a PROVE Served(i, m[k])'
    <3>1. k \in 1..k
      BY <2>2
    <3>2. k \in DOMAIN l /\ m[k] = l[k]
      BY <2>1, <2>7, <3>1
    <3>3. PICK t \in a : t = m[k]
      BY <2>7
    <3>4. Served(i, t)
      BY <2>4, <2>7, <3>2, <3>3
    <3>5. Served(i, t)'
      BY <2>5, <3>4
    <3> QED
      BY <3>3, <3>5 DEF Served, Has
  <2> QED
    BY <2>0, <2>1, <2>3, <2>6, <2>7 DEF Prefix, Served, Has
<1> QED
  BY <1>1, <1>2, <1>3 DEF LoopOf

\* A list that stays as it is, of a worker that stays in it.
LEMMA SameList ==
    ASSUME NEW i \in Instance, TheList(i)' = TheList(i), worker'[i].audience = worker[i].audience,
           worker'[i].attached = worker[i].attached, TheList(i) \in Seq(Socket)
    PROVE  SamePrefix(i)
<1>1. PICK l \in Seq(Socket) : l = TheList(i)
  OBVIOUS
<1>2. ASSUME NEW k \in DOMAIN l, NEW j \in 1..k PROVE j \in DOMAIN l
  BY <1>1
<1>3. Intact(i)' => Intact(i)
  BY DEF Intact
<1> QED
  BY <1>1, <1>2, <1>3 DEF SamePrefix

\* Steps that change no list and no worker, send nothing and end no stall.
LEMMA QuietLoop ==
    ASSUME ConnTyped, WorkerTyped, ConnTyped', WorkerTyped', LoopInv,
           UNCHANGED <<active, owner, worker, received>>,
           \A t \in Socket : /\ sock[t] # "new" => sock'[t] # "new"
                             /\ sock'[t] \in Live => sock[t] \in Live
                             /\ sock[t] = "stalled" => sock'[t] = "stalled"
    PROVE  LoopInv'
<1> SUFFICES ASSUME NEW i \in Instance PROVE LoopOf(i)'
  BY DEF LoopInv
<1>1. LoopOf(i) /\ worker[i].on \in Socket \cup {None} /\ worker[i].audience \subseteq Socket
  BY DEF LoopInv, WorkerTyped, WorkerState
<1>2. SameWorker(i)
  BY <1>1 DEF SameWorker, LoopOf
<1>3. ASSUME InLoop(i) PROVE SamePrefix(i)
  <2>1. TheList(i) \in Seq(Socket)
    BY <1>3, HeadFacts DEF InLoop
  <2>2. TheList(i)' = TheList(i)
    BY DEF TheList
  <2> QED
    BY <2>1, <2>2, SameList
<1>4. \A t \in worker[i].audience : SameDevice(i, t)
  BY <1>1 DEF SameDevice, Has
<1> QED
  BY <1>1, <1>2, <1>3, <1>4, LoopKept

\* A step of another instance that may send, but not change the lists of this one.
LEMMA OtherLoop ==
    ASSUME ConnTyped, WorkerTyped, ConnTyped', WorkerTyped', NEW i \in Instance, LoopOf(i),
           active'[i] = active[i], worker'[i] = worker[i], owner' = owner,
           \A t \in Socket : /\ sock[t] # "new" => sock'[t] # "new"
                             /\ sock'[t] \in Live => sock[t] \in Live
                             /\ owner[t].inst = i => sock'[t] = sock[t]
                             /\ \A m : Has(t, m) => \E k \in DOMAIN received'[t] : received'[t][k] = m
    PROVE  LoopOf(i)'
<1>1. worker[i].on \in Socket \cup {None} /\ worker[i].audience \subseteq Socket
  BY DEF WorkerTyped, WorkerState
<1>2. SameWorker(i)
  BY <1>1 DEF SameWorker, LoopOf
<1>3. ASSUME InLoop(i) PROVE SamePrefix(i)
  <2>1. TheList(i) \in Seq(Socket)
    BY <1>3, HeadFacts DEF InLoop
  <2>2. TheList(i)' = TheList(i)
    BY DEF TheList
  <2> QED
    BY <2>1, <2>2, SameList
<1>4. \A t \in worker[i].audience : SameDevice(i, t)
  BY <1>1 DEF SameDevice, Has
<1> QED
  BY <1>2, <1>3, <1>4, LoopKept

\* What was sent stays sent.
LEMMA StillHas ==
    ASSUME WorkerTyped, NEW s \in Socket, NEW m \in Message,
           received'[s] = received[s] \/ received'[s] = Append(received[s], m)
    PROVE  /\ \A n : Has(s, n) => \E k \in DOMAIN received'[s] : received'[s][k] = n
           /\ received'[s] = Append(received[s], m) => \E k \in DOMAIN received'[s] : received'[s][k] = m
<1> DEFINE r == received[s]
<1>1. r \in Seq(Message)
  BY DEF WorkerTyped
<1>2. CASE received'[s] = Append(r, m)
  <2>1. /\ Len(r) \in Nat /\ DOMAIN r = 1..Len(r)
        /\ DOMAIN received'[s] = 1..Len(r)+1 /\ received'[s][Len(r) + 1] = m
        /\ \A k \in 1..Len(r) : received'[s][k] = r[k]
    BY <1>1, <1>2, AppendProperties
  <2> HIDE DEF r
  <2>2. Len(r) + 1 \in 1..Len(r)+1 /\ \A k \in 1..Len(r) : k \in 1..Len(r)+1
    BY <2>1
  <2>3. \A n : (\E k \in DOMAIN r : r[k] = n) => \E k \in DOMAIN received'[s] : received'[s][k] = n
    BY <2>1, <2>2
  <2> QED
    BY <2>1, <2>2, <2>3 DEF Has, r
<1>3. CASE received'[s] = r /\ r # Append(r, m)
  BY <1>3 DEF Has
<1> QED
  BY <1>2, <1>3

-----------------------------------------------------------------------------
(* Steps that change the list, or what its devices have. *)

\* connect puts a new device behind the others (manager.py: 16-18).
LEMMA ConnectLoop ==
    ASSUME ConnInv, WorkerTyped, ConnTyped', WorkerTyped', LoopInv, NEW s \in Socket, Connect(s)
    PROVE  LoopInv'
<1> SUFFICES ASSUME NEW i \in Instance PROVE LoopOf(i)'
  BY DEF LoopInv
<1>1. PICK u \in User, j \in Instance :
         /\ owner' = [owner EXCEPT ![s] = [user |-> u, inst |-> j]]
         /\ active' = [active EXCEPT ![j][u] = Append(@, s)]
  BY DEF Connect
<1>2. /\ sock[s] = "new" /\ sock' = [sock EXCEPT ![s] = "setting"]
      /\ UNCHANGED <<worker, received>>
  BY DEF Connect, deviceVars
<1>3. /\ active \in [Instance -> [User -> Seq(Socket)]]
      /\ sock \in [Socket -> SocketState]
      /\ owner \in [Socket -> [user : User \cup {None}, inst : Instance \cup {None}]]
      /\ ConnTyped
  BY DEF ConnInv, ConnTyped
<1>4. LoopOf(i) /\ worker[i].on \in Socket \cup {None} /\ worker[i].audience \subseteq Socket
  BY DEF LoopInv, WorkerTyped, WorkerState
<1>5. /\ sock'[s] = "setting"
      /\ \A t \in Socket : t # s => owner'[t] = owner[t] /\ sock'[t] = sock[t]
  BY <1>1, <1>2, <1>3
<1>6. SameWorker(i)
  BY <1>2, <1>4, <1>5 DEF SameWorker, LoopOf
<1>7. ASSUME InLoop(i) PROVE \A t \in worker[i].audience : t # s /\ SameDevice(i, t)
  BY <1>2, <1>4, <1>5, <1>7 DEF SameDevice, Has, LoopOf
<1>8. ASSUME InLoop(i) PROVE SamePrefix(i)
  <2> DEFINE v == Head(worker[i].todo)
             l == TheList(i)
  <2>1. v \in User /\ l \in Seq(Socket) /\ l = active[i][v] /\ TheList(i)' = active'[i][v]
    BY <1>2, <1>3, <1>8, HeadFacts DEF InLoop, TheList
  <2>2. CASE i = j /\ v = u
    <3> HIDE DEF v, l
    <3>1. TheList(i)' = Append(l, s)
      BY <1>1, <1>3, <2>1, <2>2
    <3>2. /\ Len(l) \in Nat /\ DOMAIN l = 1..Len(l) /\ DOMAIN Append(l, s) = 1..Len(l)+1
          /\ Append(l, s)[Len(l) + 1] = s
          /\ \A k \in 1..Len(l) : Append(l, s)[k] = l[k]
      BY <2>1, AppendProperties
    <3>3. PICK m : m = Append(l, s)
      OBVIOUS
    <3>4. PICK a : a = worker[i].audience
      OBVIOUS
    <3>5. s \notin a
      BY <1>7, <1>8, <3>4
    <3>6. a \subseteq ToSet(m) => a \subseteq ToSet(l)
      BY <3>2, <3>3, <3>5 DEF ToSet
    <3>7. ASSUME NEW k \in DOMAIN m, m[k] \in a, NEW n \in 1..k
          PROVE  n \in DOMAIN l /\ m[n] = l[n]
      <4>1. k \in 1..Len(l)
        BY <3>2, <3>3, <3>5, <3>7
      <4> QED
        BY <3>2, <3>3, <4>1
    <3>8. TheList(i)' = m /\ worker'[i] = worker[i]
      BY <1>2, <3>1, <3>3
    <3> QED
      BY <3>4, <3>6, <3>7, <3>8 DEF SamePrefix, Intact, l
  <2>3. CASE ~(i = j /\ v = u)
    <3>1. TheList(i)' = l
      BY <1>1, <1>3, <2>1, <2>3
    <3> QED
      BY <1>2, <2>1, <3>1, SameList
  <2> QED
    BY <2>2, <2>3
<1> QED
  BY <1>4, <1>6, <1>7, <1>8, LoopKept

\* disconnect breaks the list up, or takes out a device that came late, behind
\* all those that the loop began with (manager.py: 25-29).
LEMMA DisconnectLoop ==
    ASSUME ConnInv, WorkerTyped, ConnTyped', WorkerTyped', LoopInv, NEW s \in Socket, Disconnect(s)
    PROVE  LoopInv'
<1> SUFFICES ASSUME NEW i \in Instance PROVE LoopOf(i)'
  BY DEF LoopInv
<1> DEFINE u == owner[s].user
           j == owner[s].inst
           l == active[j][u]
           r == RemoveAt(l, Index(l, s))
<1>1. ConnTyped /\ ListsAreRegistered
  BY DEF ConnInv
<1>2. /\ sock[s] \in {"open", "dropped"}
      /\ active' = [active EXCEPT ![j][u] = r]
      /\ \E x \in {"deleting", "closed"} : sock' = [sock EXCEPT ![s] = x]
      /\ UNCHANGED <<owner, received>>
      /\ \/ worker' = worker
         \/ /\ worker' = [worker EXCEPT ![j].attached = FALSE]
            /\ r = <<>> /\ Head(worker[j].todo) = u
  BY DEF Disconnect, deviceVars, IsEmptyList
<1>3. u \in User /\ j \in Instance /\ l \in Seq(Socket) /\ sock \in [Socket -> SocketState]
  BY <1>1, <1>2 DEF ConnTyped
<1>4. /\ \E k \in DOMAIN l : l[k] = s
      /\ \A m, k \in DOMAIN l : l[m] = l[k] => m = k
  <2>1. sock[s] \in Registered
    BY <1>2 DEF Registered
  <2> QED
    BY <2>1, <1>1, <1>3 DEF ListsAreRegistered
<1>5. PICK x \in 1..Len(l) : /\ l[x] = s
                             /\ r \in Seq(Socket) /\ Len(r) = Len(l) - 1
                             /\ \A k \in 1..Len(l)-1 : r[k] = IF k < x THEN l[k] ELSE l[k + 1]
                             /\ \A k \in DOMAIN r : r[k] # s
  <2>1. PICK x \in 1..Len(l) : x = Index(l, s) /\ l[x] = s
    BY <1>3, <1>4 DEF Index
  <2>2. /\ r \in Seq(Socket) /\ Len(r) = Len(l) - 1
        /\ \A k \in 1..Len(l)-1 : r[k] = IF k < x THEN l[k] ELSE l[k + 1]
    BY <1>3, <2>1, RemoveAtFacts
  <2>3. \A k \in DOMAIN r : r[k] # s
    BY <1>3, <1>4, RemoveSocket
  <2> QED
    BY <2>1, <2>2, <2>3
<1>6. /\ active'[j][u] = r
      /\ \A k \in Instance, v \in User : <<k, v>> # <<j, u>> => active'[k][v] = active[k][v]
  BY <1>1, <1>2, <1>3 DEF ConnTyped
<1>7. /\ sock'[s] \in {"deleting", "closed"}
      /\ \A t \in Socket : t # s => sock'[t] = sock[t]
  BY <1>2, <1>3
<1>8. LoopOf(i) /\ worker[i].on \in Socket \cup {None} /\ worker[i].audience \subseteq Socket
  BY DEF LoopInv, WorkerTyped, WorkerState
<1>9. /\ worker'[i].todo = worker[i].todo /\ worker'[i].msg = worker[i].msg
      /\ worker'[i].cursor = worker[i].cursor /\ worker'[i].on = worker[i].on
      /\ worker'[i].audience = worker[i].audience
      /\ \/ worker'[i].attached = worker[i].attached
         \/ i = j /\ r = <<>> /\ Head(worker[i].todo) = u
  <2> DEFINE e == [worker[i] EXCEPT !.attached = FALSE]
  <2>1. worker \in [Instance -> WorkerState]
    BY DEF WorkerTyped
  <2>2. worker'[i] = worker[i] \/ (worker'[i] = e /\ i = j /\ r = <<>> /\ Head(worker[i].todo) = u)
    BY <1>2, <1>3, <2>1
  <2>3. /\ e.todo = worker[i].todo /\ e.msg = worker[i].msg /\ e.cursor = worker[i].cursor
        /\ e.on = worker[i].on /\ e.audience = worker[i].audience
    BY <2>1 DEF WorkerState
  <2> HIDE DEF e
  <2> QED
    BY <2>2, <2>3
<1> HIDE DEF r
<1>10. SameWorker(i)
  <2>1. worker[i].on # s
    BY <1>2, <1>8, GatewayAssumption DEF LoopOf
  <2> QED
    BY <1>2, <1>7, <1>8, <1>9, <2>1 DEF SameWorker, LoopOf
<1>11. \A t \in worker[i].audience : SameDevice(i, t)
  BY <1>2, <1>7, <1>8, <1>9 DEF SameDevice, Has, Live
<1>12. ASSUME InLoop(i) PROVE SamePrefix(i)
  <2>1. /\ Head(worker[i].todo) \in User /\ TheList(i) \in Seq(Socket)
        /\ TheList(i) = active[i][Head(worker[i].todo)]
        /\ TheList(i)' = active'[i][Head(worker[i].todo)]
    BY <1>1, <1>9, <1>12, HeadFacts DEF InLoop, TheList
  <2>2. CASE i = j /\ Head(worker[i].todo) = u
    <3>1. TheList(i) = l /\ TheList(i)' = r
      BY <1>6, <2>1, <2>2
    <3>2. PICK a : a = worker[i].audience
      OBVIOUS
    <3> HIDE DEF l
    <3>3. SUFFICES ASSUME a \subseteq ToSet(r)
                   PROVE  /\ a \subseteq ToSet(l)
                          /\ worker[i].attached => worker'[i].attached
                          /\ \A k \in DOMAIN r : r[k] \in a => \A n \in 1..k : n \in DOMAIN l /\ r[n] = l[n]
      BY <1>9, <3>1, <3>2 DEF SamePrefix, Intact
    <3>4. /\ Len(l) \in Nat /\ DOMAIN l = 1..Len(l) /\ DOMAIN r = 1..Len(l)-1
          /\ x \in 1..Len(l)
      <4>1. \A q \in Seq(Socket) : Len(q) \in Nat /\ DOMAIN q = 1..Len(q)
        OBVIOUS
      <4>2. r \in Seq(Socket) /\ Len(r) = Len(l) - 1
        BY <1>5
      <4> QED
        BY <1>3, <4>1, <4>2
    <3>5. a # {} /\ s \notin a /\ r # <<>>
      BY <1>5, <1>8, <1>12, <3>2, <3>3 DEF LoopOf, ToSet
    <3>6. a \subseteq ToSet(l)
      <4>1. ASSUME NEW k \in DOMAIN r PROVE \E n \in DOMAIN l : l[n] = r[k]
        BY <1>5, <3>4
      <4> QED
        BY <3>3, <4>1 DEF ToSet
    <3>7. \A m, n \in DOMAIN l : m < n /\ l[n] \in a => l[m] \in a
      BY <1>8, <1>12, <3>1, <3>2, <3>6 DEF LoopOf, Intact, Prefix
    <3>8. ASSUME NEW k \in DOMAIN r, r[k] \in a, NEW n \in 1..k PROVE n \in DOMAIN l /\ r[n] = l[n]
      <4>1. k < x
        <5>1. CASE ~(k < x)
          <6>1. r[k] = l[k + 1] /\ k + 1 \in DOMAIN l /\ x < k + 1 /\ x \in DOMAIN l
            BY <1>5, <3>4, <5>1
          <6>2. l[x] \in a
            BY <3>7, <3>8, <6>1
          <6> QED
            BY <1>5, <3>5, <6>2
        <5> QED
          BY <5>1
      <4> QED
        BY <1>5, <3>4, <4>1
    <3> QED
      BY <1>9, <3>5, <3>6, <3>8
  <2>3. CASE ~(i = j /\ Head(worker[i].todo) = u)
    <3>1. TheList(i)' = TheList(i) /\ worker'[i].attached = worker[i].attached
      BY <1>6, <1>9, <2>1, <2>3
    <3> QED
      BY <1>9, <2>1, <3>1, SameList
  <2> QED
    BY <2>2, <2>3
<1> QED
  BY <1>8, <1>10, <1>11, <1>12, LoopKept

\* The end of a stall: who reads again has got what was on its way.
LEMMA EndStallLoop ==
    ASSUME ConnTyped, WorkerTyped, ConnTyped', WorkerTyped', LoopInv, NEW s \in Socket, EndStall(s)
    PROVE  LoopInv'
<1> SUFFICES ASSUME NEW i \in Instance PROVE LoopOf(i)'
  BY DEF LoopInv
<1>0. PICK j \in Instance : j = owner[s].inst
  BY DEF ConnTyped, EndStall
<1>1. PICK x \in {"open", "dropped"} :
         /\ sock' = [sock EXCEPT ![s] = x]
         /\ received' = IF x = "open" /\ Awaits(j, s)
                        THEN [received EXCEPT ![s] = Append(@, worker[j].msg)]
                        ELSE received
  BY <1>0 DEF EndStall
<1>2. /\ sock[s] = "stalled" /\ UNCHANGED <<active, owner>>
      /\ worker' = IF Awaits(j, s) THEN [worker EXCEPT ![j].on = None] ELSE worker
  BY <1>0 DEF EndStall
<1>3. /\ sock \in [Socket -> SocketState] /\ worker \in [Instance -> WorkerState]
      /\ received \in [Socket -> Seq(Message)]
  BY DEF ConnTyped, WorkerTyped
<1>4. /\ sock'[s] = x
      /\ \A t \in Socket : t # s => sock'[t] = sock[t] /\ received'[t] = received[t]
  BY <1>1, <1>3
<1>5. LoopOf(i) /\ worker[i].on \in Socket \cup {None} /\ worker[i].audience \subseteq Socket
  BY <1>3 DEF LoopInv, WorkerState
<1>6. worker[i].on = s => i = j /\ Awaits(j, s)
  BY <1>0, <1>5, GatewayAssumption DEF LoopOf, Awaits
<1>7. /\ worker'[i].todo = worker[i].todo /\ worker'[i].msg = worker[i].msg
      /\ worker'[i].cursor = worker[i].cursor /\ worker'[i].audience = worker[i].audience
      /\ worker'[i].attached = worker[i].attached
      /\ worker'[i].on = IF worker[i].on = s THEN None ELSE worker[i].on
  <2> DEFINE e == [worker[i] EXCEPT !.on = None]
  <2>1. /\ e.todo = worker[i].todo /\ e.msg = worker[i].msg /\ e.cursor = worker[i].cursor
        /\ e.attached = worker[i].attached /\ e.audience = worker[i].audience /\ e.on = None
    BY <1>3 DEF WorkerState
  <2>2. worker'[i] = IF worker[i].on = s THEN e ELSE worker[i]
    BY <1>2, <1>3, <1>6 DEF Awaits
  <2> HIDE DEF e
  <2> QED
    BY <2>1, <2>2
<1>8. SameWorker(i)
  BY <1>2, <1>4, <1>5, <1>7, GatewayAssumption DEF SameWorker, LoopOf
<1>9. ASSUME InLoop(i) PROVE SamePrefix(i)
  <2>1. TheList(i) \in Seq(Socket)
    BY <1>9, HeadFacts DEF InLoop
  <2>2. TheList(i)' = TheList(i)
    BY <1>2, <1>7 DEF TheList
  <2> QED
    BY <1>7, <2>1, <2>2, SameList
<1>10. ASSUME NEW t \in worker[i].audience PROVE SameDevice(i, t)
  <2>1. sock[t] # "new" => sock'[t] # "new"
    BY <1>4, <1>5
  <2>2. sock'[t] \in Live => sock[t] \in Live
    BY <1>2, <1>4, <1>5 DEF Live
  <2>3. Has(t, worker[i].msg) => Has(t, worker[i].msg)'
    <3>1. CASE received'[t] = received[t]
      BY <1>7, <3>1 DEF Has
    <3>2. CASE received'[t] # received[t]
      <4>1. t = s /\ received'[s] = Append(received[s], worker[j].msg) /\ Awaits(j, s)
        BY <1>1, <1>3, <1>4, <1>5, <3>2
      <4>2. worker[j].msg \in Message
        BY <4>1, GatewayAssumption DEF Awaits, WorkerTyped
      <4> QED
        BY <1>7, <4>1, <4>2, StillHas DEF Has
    <3> QED
      BY <3>1, <3>2
  <2>4. worker[i].on = t /\ sock'[t] \in Live => worker'[i].on = t \/ Has(t, worker[i].msg)'
    <3>1. CASE t # s
      BY <1>7, <3>1
    <3>2. ASSUME t = s, worker[i].on = s, sock'[s] \in Live PROVE Has(s, worker[i].msg)'
      <4>1. i = j /\ Awaits(j, s) /\ x = "open"
        BY <1>4, <1>6, <3>2 DEF Live
      <4>2. received'[s] = Append(received[s], worker[i].msg)
        BY <1>1, <1>3, <4>1
      <4>3. worker[i].msg \in Message
        BY <3>2, GatewayAssumption DEF WorkerTyped
      <4> QED
        BY <1>7, <4>2, <4>3, StillHas DEF Has
    <3> QED
      BY <3>1, <3>2 DEF Has
  <2> QED
    BY <2>1, <2>2, <2>3, <2>4 DEF SameDevice
<1> QED
  BY <1>5, <1>8, <1>9, <1>10, LoopKept

\* The loop serves the next device of the list, the first one it began with
\* included (manager.py: 37-41).
LEMMA SendLoop ==
    ASSUME ConnInv, WorkerTyped, ConnTyped', WorkerTyped', LoopInv,
           NEW i \in Instance, BeginList(i) \/ NextSocket(i)
    PROVE  LoopOf(i)'
<1> DEFINE w == worker[i]
           l == TheList(i)
<1>0. PICK k \in Nat, s \in Socket : k = w.cursor + 1 /\ k \in DOMAIN l /\ s = l[k]
  <2>1. w.cursor + 1 \in DOMAIN l /\ l[w.cursor + 1] \in Socket
    BY LoopFacts DEF ConnInv
  <2>2. w.cursor + 1 \in Nat
    BY DEF WorkerTyped, WorkerState
  <2> QED
    BY <2>1, <2>2
<1>1. /\ w.todo # <<>> /\ w.on = None /\ Send(i, s)
      /\ worker'[i].todo = w.todo /\ worker'[i].msg = w.msg
      /\ worker'[i].cursor = k /\ worker'[i].attached /\ worker'[i].on = WaitsOn(s)
      /\ UNCHANGED <<active, sock, owner>>
  BY <1>0, LoopFacts DEF ConnInv
<1>2. /\ Head(w.todo) \in User /\ w.msg \in Message /\ w.cursor \in Nat
      /\ l \in Seq(Socket) /\ l = active[i][Head(w.todo)]
  BY <1>1, HeadFacts DEF ConnInv, TheList
<1>3. /\ \A n \in DOMAIN l : l[n] \in Socket /\ sock[l[n]] \in Registered
      /\ owner[s].inst = i
  <2> HIDE DEF l, w
  <2>1. \A n \in DOMAIN l : /\ l[n] \in Socket /\ sock[l[n]] \in Registered
                            /\ owner[l[n]] = [user |-> Head(w.todo), inst |-> i]
    BY <1>2 DEF ConnInv, ListsAreRegistered
  <2> QED
    BY <1>0, <2>1
<1>4. TheList(i)' = l
  BY <1>1 DEF TheList
<1>5. /\ \A t \in Socket : t # s => received'[t] = received[t]
      /\ received'[s] = received[s] \/ received'[s] = Append(received[s], w.msg)
      /\ sock[s] \in {"setting", "open"} => received'[s] = Append(received[s], w.msg)
  BY <1>1, SendFacts DEF ConnInv, WorkerTyped, Send
<1>6. \A t \in Socket : Has(t, w.msg) => Has(t, w.msg)'
  BY <1>1, <1>2, <1>5, StillHas DEF Has
<1>7. Served(i, s)'
  <2>1. sock[s] \in {"setting", "open"} => Has(s, w.msg)'
    BY <1>1, <1>2, <1>5, StillHas DEF Has
  <2>2. sock[s] = "stalled" => worker'[i].on = s
    BY <1>1 DEF WaitsOn
  <2> QED
    BY <1>1, <2>1, <2>2 DEF Served, Has, Live
<1>8. worker'[i].on # None => sock'[worker'[i].on] = "stalled" /\ owner'[worker'[i].on].inst = i
  BY <1>1, <1>3 DEF WaitsOn
<1> HIDE DEF l
<1>9. CASE BeginList(i)
  <2>1. w.cursor = 0 /\ worker'[i].audience = ToSet(l) /\ k = 1
    BY <1>0, <1>9 DEF BeginList, WorkerTyped, WorkerState, l
  <2>2. /\ ToSet(l) # {}
        /\ \A t \in ToSet(l) : sock'[t] # "new"
    BY <1>0, <1>1, <1>3 DEF ToSet, Registered
  <2>3. Prefix(i)'
    <3>1. \A n \in DOMAIN l : l[n] \in ToSet(l)
      BY DEF ToSet
    <3>2. ASSUME NEW n \in DOMAIN l, n <= 1 PROVE n = k
      BY <1>2, <2>1, <3>2
    <3> QED
      BY <1>0, <1>1, <1>4, <1>7, <2>1, <3>1, <3>2 DEF Prefix
  <2> QED
    BY <1>8, <2>1, <2>2, <2>3 DEF LoopOf
<1>10. CASE NextSocket(i)
  <2>1. w.cursor > 0 /\ worker'[i].audience = w.audience
    BY <1>10 DEF NextSocket, WorkerTyped, WorkerState
  <2>2. w.audience # {} /\ (\A t \in w.audience : sock'[t] # "new") /\ (Intact(i) => Prefix(i))
    BY <1>1, <2>1 DEF LoopInv, LoopOf, InLoop
  <2>3. ASSUME Intact(i)' PROVE Prefix(i)'
    <3>1. Intact(i)
      BY <1>4, <2>1, <2>3 DEF Intact, l
    <3>2. /\ \A m, n \in DOMAIN l : m < n /\ l[n] \in w.audience => l[m] \in w.audience
          /\ \A n \in DOMAIN l : n <= w.cursor /\ l[n] \in w.audience => Served(i, l[n])
      BY <2>2, <3>1 DEF Prefix, l
    <3>3. ASSUME NEW n \in DOMAIN l, n <= k, l[n] \in w.audience, NEW t \in Socket, t = l[n]
          PROVE  Served(i, t)'
      <4>1. CASE n = k
        BY <1>0, <1>7, <3>3, <4>1
      <4>2. CASE n # k
        <5>1. n <= w.cursor
          <6>1. PICK c \in Nat : c = w.cursor /\ k = c + 1
            BY <1>0, <1>2
          <6>2. n \in Nat
            <7>1. l \in Seq(Socket)
              BY <1>2
            <7> QED
              BY <7>1
          <6>3. n <= c
            BY <3>3, <4>2, <6>1, <6>2
          <6> QED
            BY <6>1, <6>3
        <5>2. Served(i, t) /\ t # None
          BY <3>2, <3>3, <5>1, GatewayAssumption
        <5>3. sock[t] \in Live => Has(t, w.msg)'
          BY <1>1, <1>6, <5>2 DEF Served
        <5> QED
          BY <1>1, <5>3 DEF Served, Has
      <4> QED
        BY <4>1, <4>2
    <3>4. PICK m : m = l
      OBVIOUS
    <3>5. TheList(i)' = m /\ \A n \in DOMAIN m : m[n] \in Socket
      BY <1>3, <1>4, <3>4
    <3>6. ASSUME NEW n \in DOMAIN m, n <= k, m[n] \in w.audience PROVE Served(i, TheList(i)[n])'
      <4>1. PICK t \in Socket : t = m[n]
        BY <3>5
      <4>2. Served(i, t)'
        BY <3>3, <3>4, <3>6, <4>1
      <4> QED
        BY <3>5, <4>1, <4>2 DEF Served, Has
    <3> QED
      BY <1>1, <2>1, <3>2, <3>4, <3>5, <3>6 DEF Prefix
  <2> QED
    BY <1>1, <1>8, <2>1, <2>2, <2>3 DEF LoopOf
<1> QED
  BY <1>9, <1>10

-----------------------------------------------------------------------------
(* All steps. *)

\* A worker between two loops, or without work, knows nothing yet.
LEMMA NoLoop ==
    ASSUME NEW i \in Instance, worker'[i].on = None, worker'[i].cursor = 0
    PROVE  LoopOf(i)'
BY DEF LoopOf, InLoop

\* A step of the worker of one instance keeps what is known of all of them.
LEMMA WorkLoop ==
    ASSUME ConnInv, WorkerTyped, ConnTyped', WorkerTyped', LoopInv, NEW i \in Instance,
           Work(i) \/ Consume(i)
    PROVE  LoopInv'
<1>1. ConnTyped
  BY DEF ConnInv
<1>2. UNCHANGED <<active, sock, owner>>
  BY DEF Work, Consume, SkipUser, BeginList, NextSocket, EndList
<1>3. ASSUME NEW j \in Instance, j # i PROVE worker'[j] = worker[j]
  <2>1. CASE BeginList(i) \/ NextSocket(i)
    BY <1>1, <1>3, <2>1, LoopFacts
  <2>2. CASE SkipUser(i) \/ EndList(i)
    BY <1>1, <1>3, <2>2, NextUserFacts DEF SkipUser, EndList
  <2>3. CASE Consume(i)
    BY <1>3, <2>3 DEF Consume, WorkerTyped
  <2> QED
    BY <2>1, <2>2, <2>3 DEF Work
<1>4. ASSUME NEW t \in Socket, NEW m, Has(t, m) PROVE \E k \in DOMAIN received'[t] : received'[t][k] = m
  <2>1. CASE received'[t] = received[t]
    BY <1>4, <2>1 DEF Has
  <2>2. CASE BeginList(i) \/ NextSocket(i)
    <3>1. PICK s \in Socket : Send(i, s) /\ worker[i].todo # <<>>
      BY <1>1, <2>2, LoopFacts
    <3>2. received'[t] = received[t] \/ received'[t] = Append(received[t], worker[i].msg)
      BY <1>1, <3>1, SendFacts
    <3>3. worker[i].msg \in Message
      BY <3>1 DEF WorkerTyped
    <3> QED
      BY <1>4, <3>2, <3>3, StillHas
  <2>3. CASE SkipUser(i) \/ EndList(i) \/ Consume(i)
    BY <2>1, <2>3 DEF SkipUser, EndList, Consume, deviceVars
  <2> QED
    BY <2>2, <2>3 DEF Work
<1>5. ASSUME NEW j \in Instance, j # i PROVE LoopOf(j)'
  BY <1>1, <1>2, <1>3, <1>4, <1>5, OtherLoop DEF LoopInv
<1>6. LoopOf(i)'
  <2>1. CASE BeginList(i) \/ NextSocket(i)
    BY <2>1, SendLoop
  <2>2. CASE SkipUser(i) \/ EndList(i)
    BY <1>1, <2>2, NextUserFacts, NoLoop DEF SkipUser, EndList
  <2>3. CASE Consume(i)
    <3>1. PICK m \in 1..Len(log) :
            worker' = [worker EXCEPT ![i] = [NoWork EXCEPT !.msg = m, !.todo = log[m]]]
      BY <2>3 DEF Consume
    <3>2. worker'[i].on = None /\ worker'[i].cursor = 0
      BY <3>1 DEF WorkerTyped, NoWork
    <3> QED
      BY <3>2, NoLoop
  <2> QED
    BY <2>1, <2>2, <2>3 DEF Work
<1> QED
  BY <1>5, <1>6 DEF LoopInv

\* A crash ends the loop of the instance, and no device of another.
LEMMA CrashLoop ==
    ASSUME ConnTyped, WorkerTyped, ConnTyped', WorkerTyped', LoopInv, NEW i \in Instance, Crash(i)
    PROVE  LoopInv'
<1>1. /\ active' = [active EXCEPT ![i] = [u \in User |-> <<>>]]
      /\ sock' = [s \in Socket |-> IF owner[s].inst = i THEN "closed" ELSE sock[s]]
      /\ worker' = [worker EXCEPT ![i] = NoWork]
      /\ UNCHANGED <<owner, received>>
  BY DEF Crash
<1>2. worker'[i] = NoWork /\ \A j \in Instance : j # i => worker'[j] = worker[j] /\ active'[j] = active[j]
  BY <1>1 DEF ConnTyped, WorkerTyped
<1>3. ASSUME NEW j \in Instance, j # i PROVE LoopOf(j)'
  <2>1. \A t \in Socket : /\ sock[t] # "new" => sock'[t] # "new"
                          /\ sock'[t] \in Live => sock[t] \in Live
                          /\ owner[t].inst = j => sock'[t] = sock[t]
    BY <1>1, <1>3 DEF Live
  <2> QED
    BY <1>1, <1>2, <1>3, <2>1, OtherLoop DEF LoopInv, Has
<1>4. LoopOf(i)'
  BY <1>2, NoLoop DEF NoWork
<1> QED
  BY <1>3, <1>4 DEF LoopInv

\* Every step keeps what is known of the loops.
LEMMA LoopStep ==
    /\ ConnInv /\ WorkerTyped /\ ConnInv' /\ WorkerTyped' /\ LoopInv
    /\ [Next]_vars
    => LoopInv'
<1> SUFFICES ASSUME ConnInv, WorkerTyped, ConnInv', WorkerTyped', LoopInv, [Next]_vars
             PROVE  LoopInv'
  OBVIOUS
<1>1. ConnTyped /\ ConnTyped'
  BY DEF ConnInv
<1>2. sock \in [Socket -> SocketState]
  BY <1>1 DEF ConnTyped
<1>3. CASE UNCHANGED <<active, sock, owner, worker, received>>
  BY <1>1, <1>3, QuietLoop
<1>4. ASSUME NEW s \in Socket, Endpoint(s) PROVE LoopInv'
  <2>1. CASE Connect(s)
    BY <1>1, <2>1, ConnectLoop
  <2>2. CASE EndStall(s)
    BY <1>1, <2>2, EndStallLoop
  <2>3. CASE Disconnect(s)
    BY <1>1, <2>3, DisconnectLoop
  <2>4. CASE \/ SetPresence(s) \/ SetPresenceFails(s) \/ Drop(s) \/ Stall(s)
             \/ DeletePresence(s) \/ DeletePresenceFails(s)
    <3>1. UNCHANGED <<active, owner, worker, received>>
      BY <2>4 DEF SetPresence, SetPresenceFails, Drop, Stall, DeletePresence, DeletePresenceFails, deviceVars
    <3>2. \A t \in Socket : /\ sock[t] # "new" => sock'[t] # "new"
                            /\ sock'[t] \in Live => sock[t] \in Live
                            /\ sock[t] = "stalled" => sock'[t] = "stalled"
      BY <1>2, <2>4 DEF SetPresence, SetPresenceFails, Drop, Stall, DeletePresence,
                        DeletePresenceFails, Live
    <3> QED
      BY <1>1, <3>1, <3>2, QuietLoop
  <2> QED
    BY <1>4, <2>1, <2>2, <2>3, <2>4 DEF Endpoint
<1>5. ASSUME NEW i \in Instance, StartConsumer(i) \/ AutoCommit(i) \/ WorkerDies(i) PROVE LoopInv'
  BY <1>3, <1>5 DEF StartConsumer, AutoCommit, WorkerDies
<1>6. CASE Produce \/ (\E u \in User : Expire(u)) \/ UNCHANGED vars
  BY <1>3, <1>6 DEF Produce, Expire, vars, deviceVars
<1> QED
  BY <1>1, <1>4, <1>5, <1>6, WorkLoop, CrashLoop DEF Next

\* When none of the devices of a recipient that were connected as the loop began
\* has left, all that can still receive have been sent the message when it ends,
\* though others have come and left meanwhile (manager.py: 34-41).
THEOREM UndisturbedReached == Spec => UndisturbedSendReachesAll
<1>1. ASSUME ConnInv, WorkerTyped, LoopInv, NEW i \in Instance, EndList(i),
             worker[i].audience \subseteq ToSet(TheList(i))
      PROVE  Present(i) \subseteq Reached(i)
  <2>1. /\ worker[i].todo # <<>> /\ worker[i].cursor > 0 /\ worker[i].on = None
        /\ ~(worker[i].attached /\ worker[i].cursor < Len(TheList(i)))
    BY <1>1 DEF EndList, HasMore
  <2>2. Prefix(i)
    BY <1>1, <2>1 DEF LoopInv, LoopOf, InLoop, Intact
  <2>3. /\ TheList(i) \in Seq(Socket) /\ worker[i].cursor \in Nat
        /\ DOMAIN TheList(i) = 1..Len(TheList(i))
    BY <1>1, <2>1, HeadFacts DEF ConnInv
  <2>4. \A k \in DOMAIN TheList(i) : k <= worker[i].cursor
    BY <2>1, <2>2, <2>3 DEF Prefix
  <2>5. ASSUME NEW t \in Present(i) PROVE t \in Reached(i)
    <3>1. t \in worker[i].audience /\ sock[t] \in {"setting", "open"}
      BY DEF Present
    <3>2. PICK k \in DOMAIN TheList(i) : t = TheList(i)[k]
      BY <1>1, <3>1 DEF ToSet
    <3>3. Served(i, t)
      BY <2>2, <2>4, <3>1, <3>2 DEF Prefix
    <3>4. t \in Socket /\ t # None
      BY <2>3, <3>2, GatewayAssumption
    <3> QED
      BY <2>1, <3>1, <3>3, <3>4 DEF Served, Live, Has, Reached
  <2> QED
    BY <2>5
<1>2. ConnInv /\ WorkerTyped /\ LoopInv /\ [Next]_vars =>
      [\A i \in Instance :
          EndList(i) /\ worker[i].audience \subseteq ToSet(TheList(i))
             => Present(i) \subseteq Reached(i)]_vars
  BY <1>1
<1>3. ConnInv => ConnTyped
  BY DEF ConnInv
<1> QED
  BY InitConn, InitConsumer, InitWorker, InitLoop,
     ConnStep, ConsumerStep, WorkerStep, LoopStep, <1>2, <1>3, PTL DEF Spec, UndisturbedSendReachesAll
-----------------------------------------------------------------------------
(* What a consumer group goes through. *)

\* What a group may lose in a step.
MayLose(h, i) ==
    \/ Crash(i) /\ Lost(h)' = Lost(h) \cup {worker[i].msg}
    \/ /\ StartConsumer(i) /\ h \notin based
       /\ \A j \in Members(h) : task[j] # "running"

\* What a group has lost depends on what it is past, and on what its instances went
\* through and where they are.
LEMMA SameLost ==
    ASSUME NEW h \in Host, taken'[h] = taken[h],
           \A j \in Members(h) : finished'[j] = finished[j] /\ worker'[j].msg = worker[j].msg
    PROVE  Lost(h)' = Lost(h)
BY DEF Lost, Members

\* Only the crash of one of its instances changes it, or the first start.
LEMMA LostStep ==
    ASSUME ConnTyped, ConsumerTyped, WorkerTyped, LossInv, [Next]_vars,
           NEW h \in Host, Lost(h)' # Lost(h)
    PROVE  \E i \in Members(h) : MayLose(h, i)
<1>1. /\ taken \in [Host -> SUBSET Message] /\ pending \in [Instance -> SUBSET Message]
      /\ finished \in [Instance -> SUBSET Message] /\ worker \in [Instance -> WorkerState]
      /\ \A i \in Instance : LossOf(i)
  BY DEF ConsumerTyped, WorkerTyped, LossInv
<1>2. /\ 0 \notin taken[h] /\ Members(h) \subseteq Instance
      /\ \A j \in Instance : HostOf[j] \in Host /\ (j \in Members(h) <=> HostOf[j] = h)
  BY <1>1, GatewayAssumption DEF Message, Members
<1>3. ASSUME QuietSteps, \A j \in Instance : ~StartConsumer(j) PROVE FALSE
  <2>1. DeviceStep => UNCHANGED taken
    BY OtherSteps DEF kafkaVars
  <2>2. UNCHANGED taken
    BY <1>3, <2>1 DEF QuietSteps, DeviceStep, Work, AutoCommit, WorkerDies, Produce, kafkaVars
  <2> QED
    BY <1>2, <1>3, <2>2, QuietFacts, SameLost
<1>4. ASSUME NEW i \in Instance, StartConsumer(i) PROVE i \in Members(h) /\ MayLose(h, i)
  <2>1. PICK x : /\ x = IF HasOffset(HostOf[i]) THEN {} ELSE (1..Len(log)) \ taken[HostOf[i]]
                 /\ taken' = [taken EXCEPT ![HostOf[i]] = @ \cup x]
    BY <1>4 DEF StartConsumer
  <2>2. UNCHANGED <<finished, worker>>
    BY <1>4 DEF StartConsumer
  <2>3. taken'[h] # taken[h]
    BY <1>2, <2>2, SameLost
  <2>4. HostOf[i] = h /\ ~HasOffset(h)
    BY <1>1, <1>2, <2>1, <2>3
  <2> QED
    BY <1>2, <1>4, <2>4 DEF MayLose, HasOffset
<1>5. ASSUME NEW i \in Instance, Consume(i) PROVE FALSE
  <2>1. PICK m \in 1..Len(log) :
           /\ m \notin taken[HostOf[i]]
           /\ taken' = [taken EXCEPT ![HostOf[i]] = @ \cup {m}]
           /\ worker' = [worker EXCEPT ![i] = [NoWork EXCEPT !.msg = m, !.todo = log[m]]]
    BY <1>5 DEF Consume
  <2>2. worker[i].todo = <<>> /\ UNCHANGED finished
    BY <1>5 DEF Consume
  <2>3. /\ worker[i].msg = 0 /\ worker'[i].msg = m
        /\ \A j \in Instance : j # i => worker'[j] = worker[j]
    BY <1>1, <2>1, <2>2 DEF LossOf, NoWork
  <2>4. CASE HostOf[i] # h
    <3>1. taken'[h] = taken[h] /\ i \notin Members(h)
      BY <1>1, <1>2, <2>1, <2>4
    <3> QED
      BY <1>2, <2>2, <2>3, <3>1, SameLost
  <2>5. CASE HostOf[i] = h
    <3>1. taken'[h] = taken[h] \cup {m} /\ m \notin taken[h] /\ i \in Members(h)
      BY <1>1, <1>2, <2>1, <2>5
    <3>2. Lost(h)' = Lost(h)
      BY <1>2, <2>2, <2>3, <3>1 DEF Lost, Members
    <3> QED
      BY <3>2
  <2> QED
    BY <2>4, <2>5
<1>6. ASSUME NEW i \in Instance, SkipUser(i) \/ EndList(i) PROVE FALSE
  <2>1. worker[i].todo # <<>> /\ NextUser(i) /\ UNCHANGED taken
    BY <1>6 DEF SkipUser, EndList, kafkaVars
  <2>2. \A j \in Instance : j # i => worker'[j] = worker[j]
    BY <2>1, NextUserFacts
  <2>3. CASE worker'[i].msg = worker[i].msg /\ finished' = finished
    BY <1>2, <2>1, <2>2, <2>3, SameLost
  <2>4. CASE worker'[i].msg = 0 /\ finished' = [finished EXCEPT ![i] = @ \cup {worker[i].msg}]
    <3>1. /\ finished'[i] = finished[i] \cup {worker[i].msg}
          /\ \A j \in Instance : j # i => finished'[j] = finished[j]
      BY <1>1, <2>4
    <3>2. \A m \in taken[h], j \in Members(h) :
             (m \notin finished'[j] /\ worker'[j].msg # m) <=> (m \notin finished[j] /\ worker[j].msg # m)
      BY <1>2, <2>2, <2>4, <3>1
    <3>3. Lost(h)' = Lost(h)
      BY <2>1, <3>2 DEF Lost, Members
    <3> QED
      BY <3>3
  <2> QED
    BY <2>1, <2>3, <2>4, NextUserFacts
<1>7. ASSUME NEW i \in Instance, Crash(i) PROVE i \in Members(h) /\ MayLose(h, i)
  <2>1. /\ worker' = [worker EXCEPT ![i] = NoWork]
        /\ taken' = [taken EXCEPT ![HostOf[i]] = @ \ pending[i]]
        /\ UNCHANGED finished
    BY <1>7 DEF Crash
  <2>2. worker'[i].msg = 0 /\ \A j \in Instance : j # i => worker'[j] = worker[j]
    BY <1>1, <2>1 DEF NoWork
  <2>3. HostOf[i] = h
    <3>1. ASSUME HostOf[i] # h PROVE FALSE
      <4>1. taken'[h] = taken[h] /\ i \notin Members(h)
        BY <1>1, <1>2, <2>1, <3>1
      <4> QED
        BY <1>2, <2>1, <2>2, <4>1, SameLost
    <3> QED
      BY <3>1
  <2>4. taken'[h] = taken[h] \ pending[i] /\ i \in Members(h)
    BY <1>1, <1>2, <2>1, <2>3
  <2>5. pending[i] \subseteq finished[i] \cup {worker[i].msg}
    BY <1>1 DEF LossOf
  <2>6. Lost(h) \subseteq Lost(h)'
    BY <1>2, <2>1, <2>2, <2>4, <2>5 DEF Lost, Members
  <2>7. Lost(h)' \subseteq Lost(h) \cup {worker[i].msg}
    BY <1>2, <2>1, <2>2, <2>4 DEF Lost, Members
  <2>8. Lost(h)' = Lost(h) \cup {worker[i].msg}
    BY <2>6, <2>7
  <2> QED
    BY <1>7, <2>4, <2>8 DEF MayLose
<1> QED
  BY <1>3, <1>4, <1>5, <1>6, <1>7, StepKinds

\* Every message that a group gets past is gone through to the end by one of its
\* instances, whatever fails and however instances share groups, except the one that
\* an instance was at when it was killed, because the offset is committed while the
\* worker is at the message, and what was on the topic before the group had an offset
\* (worker.py: 12-23, 30-44).
THEOREM LossesExplained == Spec => OnlyCrashOrNewGroupLoses
<1>1. ConnInv /\ ConsumerTyped /\ WorkerTyped /\ LossInv /\ [Next]_vars =>
      [\A h \in Host : Lost(h)' # Lost(h) => \E i \in Members(h) : MayLose(h, i)]_vars
  BY LostStep DEF ConnInv
<1>2. ConnInv => ConnTyped
  BY DEF ConnInv
<1> QED
  BY InitConn, InitConsumer, InitWorker, InitLoss, ConnStep, ConsumerStep, WorkerStep, LossStep,
     <1>1, <1>2, PTL DEF Spec, OnlyCrashOrNewGroupLoses, MayLose
-----------------------------------------------------------------------------
(* The feed of each device: the service implements MessageFeed. *)

\* A worker serves recipients of a message that is on the topic, and what it waits
\* for is a device of the recipient it is at.
AddressOf(i) ==
    worker[i].todo # <<>> =>
        /\ worker[i].msg \in DOMAIN log
        /\ ToSet(worker[i].todo) \subseteq ToSet(log[worker[i].msg])
        /\ worker[i].on # None => owner[worker[i].on].user = Head(worker[i].todo)

AddressInv ==
    /\ \A i \in Instance : AddressOf(i)
    /\ \A s \in Socket : sock[s] = "new" => owner[s].user = None

\* No worker has a message when the service starts, no socket a user.
LEMMA InitAddress == Init => AddressInv
BY DEF Init, AddressInv, AddressOf, NoWork

\* A worker that stays at its recipients keeps its part.
LEMMA SameAddress ==
    ASSUME NEW i \in Instance, AddressOf(i),
           worker'[i].todo = worker[i].todo, worker'[i].msg = worker[i].msg,
           worker[i].msg \in DOMAIN log =>
              worker[i].msg \in DOMAIN log' /\ log'[worker[i].msg] = log[worker[i].msg],
           worker'[i].on # None => owner'[worker'[i].on].user = Head(worker[i].todo)
    PROVE  AddressOf(i)'
BY DEF AddressOf, ToSet

\* A socket of the list that the worker goes through belongs to the recipient.
LEMMA OwnerOfList ==
    ASSUME ConnInv, WorkerTyped, NEW i \in Instance, worker[i].todo # <<>>,
           NEW k \in DOMAIN TheList(i)
    PROVE  owner[TheList(i)[k]].user = Head(worker[i].todo)
<1>1. ConnTyped /\ Head(worker[i].todo) \in User
  BY HeadFacts DEF ConnInv
<1>2. owner[active[i][Head(worker[i].todo)][k]] = [user |-> Head(worker[i].todo), inst |-> i]
  BY <1>1 DEF ConnInv, ListsAreRegistered, TheList
<1> QED
  BY <1>2 DEF TheList

\* The rest of a list holds nothing new.
LEMMA TailOfList ==
    ASSUME NEW t \in Seq(User), t # <<>>
    PROVE  ToSet(Tail(t)) \subseteq ToSet(t) /\ Head(t) \in ToSet(t)
<1>1. /\ Len(t) \in Nat \ {0} /\ DOMAIN t = 1..Len(t) /\ Head(t) = t[1]
      /\ DOMAIN Tail(t) = 1..Len(t)-1
      /\ \A k \in 1..Len(t)-1 : Tail(t)[k] = t[k + 1]
  OBVIOUS
<1>2. ASSUME NEW k \in DOMAIN Tail(t) PROVE \E j \in DOMAIN t : Tail(t)[k] = t[j]
  BY <1>1
<1> QED
  BY <1>1, <1>2 DEF ToSet

\* Every step keeps the workers at recipients of their message.
LEMMA AddressStep ==
    ConnInv /\ ConsumerTyped /\ WorkerTyped /\ LoopInv /\ AddressInv /\ [Next]_vars => AddressInv'
<1> SUFFICES ASSUME ConnInv, ConsumerTyped, WorkerTyped, LoopInv, AddressInv, [Next]_vars
             PROVE  AddressInv'
  OBVIOUS
<1>1. /\ ConnTyped /\ \A i \in Instance : AddressOf(i)
      /\ \A s \in Socket : sock[s] = "new" => owner[s].user = None
      /\ worker \in [Instance -> WorkerState] /\ log \in Seq(Seq(User))
  BY DEF ConnInv, AddressInv, WorkerTyped, ConsumerTyped
<1>2. ASSUME NEW i \in Instance, worker[i].on # None
      PROVE  worker[i].todo # <<>> /\ owner[worker[i].on].user = Head(worker[i].todo)
  BY <1>1, <1>2 DEF WorkerTyped, AddressOf
<1>3. ASSUME NEW s \in Socket, sock'[s] = "new" PROVE owner'[s].user = None
  <2>1. sock[s] = "new" /\ owner'[s] = owner[s]
    <3>1. ASSUME NEW t \in Socket, Endpoint(t) PROVE sock[s] = "new" /\ owner'[s] = owner[s]
      BY <1>1, <1>3, <3>1 DEF Endpoint, Connect, SetPresence, SetPresenceFails, Drop, Stall, EndStall,
                   Disconnect, DeletePresence, DeletePresenceFails, ConnTyped
    <3>2. ASSUME NEW i \in Instance, Crash(i) PROVE sock[s] = "new" /\ owner'[s] = owner[s]
      BY <1>1, <1>3, <3>2 DEF Crash, ConnTyped
    <3>3. (\A t \in Socket : ~Endpoint(t)) /\ (\A i \in Instance : ~Crash(i)) => UNCHANGED <<sock, owner>>
      BY DEF Next, Produce, StartConsumer, Consume, AutoCommit, WorkerDies, Work, SkipUser,
             BeginList, NextSocket, EndList, Expire, vars
    <3> QED
      BY <1>3, <3>1, <3>2, <3>3
  <2> QED
    BY <1>1, <2>1
<1>4. ASSUME NEW i \in Instance, QuietSteps, \A j \in Instance : ~BeginList(j) /\ ~NextSocket(j)
      PROVE  AddressOf(i)'
  <2>1. worker'[i].todo = worker[i].todo /\ worker'[i].msg = worker[i].msg
    BY <1>1, <1>4, QuietFacts
  <2>2. worker[i].msg \in DOMAIN log =>
           worker[i].msg \in DOMAIN log' /\ log'[worker[i].msg] = log[worker[i].msg]
    <3>1. CASE Produce
      <4>1. PICK r \in Recipients : log' = Append(log, r)
        BY <3>1 DEF Produce
      <4>2. r \in Seq(User)
        BY RecipientsFacts
      <4> QED
        BY <1>1, <4>1, <4>2, AppendProperties
    <3>2. CASE log' = log
      BY <3>2
    <3>3. DeviceStep => log' = log
      BY OtherSteps
    <3> QED
      BY <1>4, <3>1, <3>2, <3>3 DEF QuietSteps, DeviceStep, StartConsumer, AutoCommit, WorkerDies
  <2>3. worker'[i].on \in {worker[i].on, None}
    <3>1. ASSUME NEW s \in Socket, Endpoint(s) PROVE worker'[i].on \in {worker[i].on, None}
      <4>1. /\ [worker[i] EXCEPT !.on = None].on = None
            /\ [worker[i] EXCEPT !.attached = FALSE].on = worker[i].on
        BY <1>1 DEF WorkerState
      <4>2. worker'[i] \in {worker[i], [worker[i] EXCEPT !.on = None], [worker[i] EXCEPT !.attached = FALSE]}
        BY <1>1, <3>1 DEF Endpoint, Connect, SetPresence, SetPresenceFails, Drop, Stall, EndStall,
                          Disconnect, DeletePresence, DeletePresenceFails
      <4> QED
        BY <4>1, <4>2
    <3>2. (\A s \in Socket : ~Endpoint(s)) => worker' = worker
      BY <1>4 DEF QuietSteps, StartConsumer, AutoCommit, WorkerDies, Produce, Expire, vars
    <3> QED
      BY <3>1, <3>2
  <2>4. ASSUME worker[i].on # None PROVE owner'[worker[i].on].user = owner[worker[i].on].user
    <3>1. sock[worker[i].on] = "stalled" /\ worker[i].on \in Socket
      BY <1>1, <2>4 DEF LoopInv, LoopOf, WorkerState
    <3>2. ASSUME NEW s \in Socket, Connect(s) PROVE owner'[worker[i].on] = owner[worker[i].on]
      BY <1>1, <3>1, <3>2 DEF Connect, ConnTyped
    <3>3. (\A s \in Socket : ~Connect(s)) => owner' = owner
      BY <1>4 DEF QuietSteps, StartConsumer, AutoCommit, WorkerDies, Produce, Expire, vars,
                  Endpoint, SetPresence, SetPresenceFails, Drop, Stall, EndStall,
                  Disconnect, DeletePresence, DeletePresenceFails
    <3> QED
      BY <3>2, <3>3
  <2> QED
    BY <1>1, <1>2, <2>1, <2>2, <2>3, <2>4, SameAddress
<1>5. ASSUME NEW i \in Instance, NEW j \in Instance, j # i, log' = log, owner' = owner,
             worker'[i] = worker[i]
      PROVE  AddressOf(i)'
  BY <1>1, <1>2, <1>5, SameAddress
<1>6. ASSUME NEW i \in Instance, NEW j \in Instance, BeginList(j) \/ NextSocket(j)
      PROVE  AddressOf(i)'
  <2>1. log' = log /\ owner' = owner
    BY <1>6 DEF BeginList, NextSocket
  <2>2. CASE j # i
    BY <1>1, <1>5, <1>6, <2>1, <2>2, LoopFacts
  <2>3. CASE j = i
    <3> DEFINE k == worker[i].cursor + 1
    <3>1. /\ worker[i].todo # <<>> /\ k \in DOMAIN TheList(i)
          /\ worker'[i].todo = worker[i].todo /\ worker'[i].msg = worker[i].msg
          /\ worker'[i].on = WaitsOn(TheList(i)[k])
      BY <1>1, <1>6, <2>3, LoopFacts
    <3>2. owner[TheList(i)[k]].user = Head(worker[i].todo)
      BY <3>1, OwnerOfList
    <3> HIDE DEF k
    <3>3. worker'[i].on # None => owner'[worker'[i].on].user = Head(worker[i].todo)
      BY <2>1, <3>1, <3>2 DEF WaitsOn
    <3> QED
      BY <1>1, <2>1, <3>1, <3>3, SameAddress
  <2> QED
    BY <2>2, <2>3
<1>7. ASSUME NEW i \in Instance, NEW j \in Instance, SkipUser(j) \/ EndList(j)
      PROVE  AddressOf(i)'
  <2>1. worker[j].todo # <<>> /\ NextUser(j) /\ log' = log /\ owner' = owner
    BY <1>7 DEF SkipUser, EndList
  <2>2. CASE j # i
    BY <1>1, <1>5, <2>1, <2>2, NextUserFacts
  <2>3. CASE j = i
    <3>1. /\ worker'[i].todo = Tail(worker[i].todo) /\ worker'[i].on = None
          /\ worker'[i].todo # <<>> => worker'[i].msg = worker[i].msg
      BY <1>1, <2>1, <2>3, NextUserFacts
    <3>2. ToSet(Tail(worker[i].todo)) \subseteq ToSet(worker[i].todo)
      BY <1>1, <2>1, <2>3, HeadFacts, TailOfList
    <3>3. worker[i].msg \in DOMAIN log /\ ToSet(worker[i].todo) \subseteq ToSet(log[worker[i].msg])
      BY <1>1, <2>1, <2>3 DEF AddressOf
    <3> QED
      BY <2>1, <3>1, <3>2, <3>3 DEF AddressOf
  <2> QED
    BY <2>2, <2>3
<1>8. ASSUME NEW i \in Instance, NEW j \in Instance, Consume(j) PROVE AddressOf(i)'
  <2>1. PICK m \in 1..Len(log) :
           worker' = [worker EXCEPT ![j] = [NoWork EXCEPT !.msg = m, !.todo = log[m]]]
    BY <1>8 DEF Consume
  <2>2. log' = log /\ owner' = owner
    BY <1>8 DEF Consume
  <2>3. CASE j # i
    BY <1>1, <1>5, <2>1, <2>2, <2>3
  <2>4. CASE j = i
    <3>1. worker'[i].msg = m /\ worker'[i].todo = log[m] /\ worker'[i].on = None
      BY <1>1, <2>1, <2>4 DEF NoWork
    <3> QED
      BY <1>1, <2>2, <3>1 DEF AddressOf, ToSet
  <2> QED
    BY <2>3, <2>4
<1>9. ASSUME NEW i \in Instance, NEW j \in Instance, Crash(j) PROVE AddressOf(i)'
  <2>1. worker' = [worker EXCEPT ![j] = NoWork] /\ log' = log /\ owner' = owner
    BY <1>9 DEF Crash
  <2>2. CASE j # i
    BY <1>1, <1>5, <2>1, <2>2
  <2>3. CASE j = i
    <3>1. worker'[i].todo = <<>>
      BY <1>1, <2>1, <2>3 DEF NoWork
    <3> QED
      BY <3>1 DEF AddressOf
  <2> QED
    BY <2>2, <2>3
<1>10. ASSUME NEW i \in Instance PROVE AddressOf(i)'
  BY <1>4, <1>6, <1>7, <1>8, <1>9, StepKinds
<1> QED
  BY <1>3, <1>10 DEF AddressInv
\* What a device of the abstract feed sees of the service: of a message, whom it is for.
Posts(l) == [m \in DOMAIN l |-> ToSet(l[m])]
Posted == Posts(log)
Holders == [s \in Socket |-> owner[s].user]
FeedVars == <<Posted, Holders, Online, received>>

\* A function on the first numbers is a sequence.
LEMMA SequenceOf ==
    ASSUME NEW S, NEW n \in Nat, NEW f \in [1..n -> S]
    PROVE  f \in Seq(S) /\ Len(f) = n
OBVIOUS

\* The topic without the order of the recipients is a sequence of sets of users.
LEMMA PostsFacts ==
    ASSUME NEW l \in Seq(Seq(User))
    PROVE  /\ Posts(l) \in Seq(SUBSET User) /\ Len(Posts(l)) = Len(l) /\ DOMAIN Posts(l) = DOMAIN l
           /\ \A m \in DOMAIN l : Posts(l)[m] = ToSet(l[m])
<1>1. /\ Len(l) \in Nat /\ DOMAIN l = 1..Len(l)
      /\ \A m \in DOMAIN l : ToSet(l[m]) \in SUBSET User
  BY DEF ToSet
<1>2. Posts(l) \in [1..Len(l) -> SUBSET User]
  <2>1. Posts(l) = [m \in 1..Len(l) |-> ToSet(l[m])] /\ \A m \in 1..Len(l) : ToSet(l[m]) \in SUBSET User
    BY <1>1 DEF Posts
  <2> QED
    BY <2>1
<1>3. Posts(l) \in Seq(SUBSET User) /\ Len(Posts(l)) = Len(l)
  BY <1>1, <1>2, SequenceOf
<1> QED
  BY <1>1, <1>3 DEF Posts

\* One more message.
LEMMA PostsAppend ==
    ASSUME NEW l \in Seq(Seq(User)), NEW r \in Seq(User)
    PROVE  Posts(Append(l, r)) = Append(Posts(l), ToSet(r))
<1> DEFINE k == Append(l, r)
           p == Posts(l)
           t == ToSet(r)
           a == Append(p, t)
           q == Posts(k)
<1>1. /\ k \in Seq(Seq(User)) /\ Len(k) = Len(l) + 1 /\ k[Len(l) + 1] = r
      /\ \A m \in 1..Len(l) : k[m] = l[m]
      /\ Len(l) \in Nat /\ DOMAIN l = 1..Len(l)
  BY AppendProperties
<1>2. t \in SUBSET User
  BY DEF ToSet
<1>3. /\ p \in Seq(SUBSET User) /\ Len(p) = Len(l)
      /\ \A m \in 1..Len(l) : p[m] = ToSet(l[m])
  BY <1>1, PostsFacts
<1> HIDE DEF k, p
<1>4. /\ q \in Seq(SUBSET User) /\ Len(q) = Len(l) + 1
      /\ \A m \in 1..Len(l)+1 : q[m] = ToSet(k[m])
  BY <1>1, PostsFacts
<1> HIDE DEF q
<1>5. q[Len(l) + 1] = t
  BY <1>1, <1>4
<1> HIDE DEF t
<1>6. /\ a \in Seq(SUBSET User) /\ Len(a) = Len(l) + 1 /\ a[Len(l) + 1] = t
      /\ \A m \in 1..Len(l) : a[m] = p[m]
  BY <1>1, <1>2, <1>3, AppendProperties
<1> HIDE DEF a
<1>7. ASSUME NEW m \in 1..Len(l) PROVE q[m] = a[m]
  <2>1. m \in 1..Len(l)+1
    BY <1>1
  <2>2. q[m] = ToSet(l[m])
    BY <1>1, <1>4, <2>1
  <2> QED
    BY <1>3, <1>6, <2>2
<1>8. ASSUME NEW m \in 1..Len(q) PROVE q[m] = a[m]
  <2>1. m \in 1..Len(l) \/ m = Len(l) + 1
    BY <1>1, <1>4
  <2>2. CASE m \in 1..Len(l)
    BY <1>7, <2>2
  <2>3. CASE m = Len(l) + 1
    BY <1>5, <1>6, <2>3
  <2> QED
    BY <2>1, <2>2, <2>3
<1>9. q = a
  BY <1>4, <1>6, <1>8, SeqEqual
<1> QED
  BY <1>9 DEF a, k, p, q, t

\* A service that starts has no messages and no devices.
LEMMA InitFeed == Init => Feed!Init
<1> SUFFICES ASSUME Init PROVE Feed!Init
  OBVIOUS
<1>1. Posted = <<>>
  <2>1. log = <<>>
    BY DEF Init
  <2>2. log \in Seq(Seq(User)) /\ Len(log) = 0
    BY <2>1
  <2>3. Posted \in Seq(SUBSET User) /\ Len(Posted) = 0
    BY <2>2, PostsFacts DEF Posted
  <2> QED
    BY <2>3, EmptySeq
<1>2. Holders = [s \in Socket |-> None] /\ Online = {} /\ received = [s \in Socket |-> <<>>]
  BY DEF Init, Holders, Online
<1> QED
  BY <1>1, <1>2 DEF Feed!Init, Posted, Posts, Holders

\* A step in which devices at most leave.
LEMMA LeaveStep ==
    ASSUME UNCHANGED <<log, Holders, received>>, Online' \subseteq Online
    PROVE  Feed!Next
<1>1. Feed!Leave(Online \ Online')
  <2>1. Online' = Online \ (Online \ Online')
    OBVIOUS
  <2> QED
    BY <2>1 DEF Feed!Leave, Posted, Posts, Holders
<1>2. Online \ Online' \in SUBSET Socket
  BY DEF Online
<1> QED
  BY <1>1, <1>2 DEF Feed!Next

\* The worker of i sends its message on s, which the worker has come to or waited for.
LEMMA PushStep ==
    ASSUME ConsumerTyped, WorkerTyped, AddressInv, NEW i \in Instance, NEW s \in Socket,
           worker[i].todo # <<>>, owner[s].user = Head(worker[i].todo),
           s \in Online, Increasing(s)',
           UNCHANGED <<log, owner, Online>>,
           received' = [received EXCEPT ![s] = Append(@, worker[i].msg)]
    PROVE  Feed!Next
<1> DEFINE m == worker[i].msg
<1>1. /\ m \in DOMAIN log /\ ToSet(worker[i].todo) \subseteq ToSet(log[m])
      /\ worker[i].todo \in Seq(User) /\ received[s] \in Seq(Message) /\ m \in Message
      /\ received'[s] = Append(received[s], m)
  BY DEF AddressInv, AddressOf, WorkerTyped, WorkerState
<1>2. Head(worker[i].todo) \in ToSet(worker[i].todo)
  BY <1>1, TailOfList
<1>3. m \in DOMAIN Posted /\ Holders[s] \in Posted[m]
  BY <1>1, <1>2, PostsFacts DEF ConsumerTyped, Posted, Holders
<1>4. ASSUME NEW k \in DOMAIN received[s] PROVE received[s][k] < m
  <2> DEFINE n == Len(received[s]) + 1
  <2>1. /\ k \in DOMAIN received'[s] /\ n \in DOMAIN received'[s] /\ k < n
        /\ received'[s][k] = received[s][k] /\ received'[s][n] = m
    BY <1>1, AppendProperties
  <2> QED
    BY <2>1 DEF Increasing
<1>5. Feed!Push(s)
  BY <1>3, <1>4 DEF Feed!Push, Posted, Posts, Holders
<1> QED
  BY <1>5 DEF Feed!Next

\* Every step of the service is a step of the feed, or none: what it sends goes to a
\* device of a recipient, which has later messages only after it.
LEMMA StepFeed ==
    ASSUME ConnInv, ConsumerTyped, WorkerTyped, LoopInv, AddressInv,
           \A t \in Socket : Increasing(t)', [Next]_vars
    PROVE  [Feed!Next]_FeedVars
<1>1. /\ ConnTyped /\ sock \in [Socket -> SocketState]
      /\ owner \in [Socket -> [user : User \cup {None}, inst : Instance \cup {None}]]
      /\ received \in [Socket -> Seq(Message)] /\ log \in Seq(Seq(User))
  BY DEF ConnInv, ConnTyped, WorkerTyped, ConsumerTyped
<1>2. ASSUME UNCHANGED <<log, owner, received>>, Online' \subseteq Online PROVE Feed!Next
  BY <1>2, LeaveStep DEF Holders
<1>3. ASSUME NEW s \in Socket, Connect(s) PROVE Feed!Next
  <2>1. PICK u \in User, i \in Instance : owner' = [owner EXCEPT ![s] = [user |-> u, inst |-> i]]
    BY <1>3 DEF Connect
  <2>2. /\ sock[s] = "new" /\ sock' = [sock EXCEPT ![s] = "setting"]
        /\ UNCHANGED <<log, received>>
    BY <1>3 DEF Connect, deviceVars
  <2>3. Holders[s] = None /\ Holders' = [Holders EXCEPT ![s] = u]
    BY <1>1, <2>1, <2>2 DEF Holders, AddressInv
  <2>4. Online' = Online \cup {s}
    BY <1>1, <2>2 DEF Online
  <2>5. Feed!Join(s)
    BY <2>2, <2>3, <2>4 DEF Feed!Join, Posted, Posts, Holders
  <2> QED
    BY <2>5 DEF Feed!Next
<1>4. ASSUME NEW s \in Socket,
             \/ SetPresence(s) \/ SetPresenceFails(s) \/ Drop(s) \/ Stall(s)
             \/ Disconnect(s) \/ DeletePresence(s) \/ DeletePresenceFails(s)
      PROVE  Feed!Next
  <2>1. UNCHANGED <<log, owner, received>>
    BY <1>4 DEF SetPresence, SetPresenceFails, Drop, Stall, Disconnect, DeletePresence,
                DeletePresenceFails, deviceVars
  <2>2. Online' \subseteq Online
    BY <1>1, <1>4 DEF SetPresence, SetPresenceFails, Drop, Stall, Disconnect, DeletePresence,
                DeletePresenceFails, Online
  <2> QED
    BY <1>2, <2>1, <2>2
<1>5. ASSUME NEW s \in Socket, EndStall(s) PROVE Feed!Next
  <2> DEFINE i == owner[s].inst
  <2>1. PICK x \in {"open", "dropped"} :
           /\ sock' = [sock EXCEPT ![s] = x]
           /\ received' = IF x = "open" /\ Awaits(i, s)
                          THEN [received EXCEPT ![s] = Append(@, worker[i].msg)]
                          ELSE received
    BY <1>5 DEF EndStall
  <2>2. sock[s] = "stalled" /\ UNCHANGED <<log, owner>>
    BY <1>5 DEF EndStall
  <2>3. i \in Instance
    BY <1>1, <2>2 DEF ConnTyped
  <2>4. Online' \subseteq Online /\ (x = "open" => Online' = Online) /\ s \in Online
    BY <1>1, <2>1, <2>2 DEF Online
  <2>5. CASE x = "open" /\ Awaits(i, s)
    <3>1. worker[i].on = s /\ worker[i].on # None
      BY <2>5, GatewayAssumption DEF Awaits
    <3>2. worker[i].todo # <<>> /\ owner[s].user = Head(worker[i].todo)
      BY <2>3, <3>1 DEF WorkerTyped, AddressInv, AddressOf
    <3> QED
      BY <2>1, <2>2, <2>3, <2>4, <2>5, <3>2, PushStep
  <2>6. CASE ~ (x = "open" /\ Awaits(i, s))
    BY <1>2, <2>1, <2>2, <2>4, <2>6
  <2> QED
    BY <2>5, <2>6
<1>6. CASE Produce
  <2>1. PICK r \in Recipients : log' = Append(log, r)
    BY <1>6 DEF Produce
  <2>2. UNCHANGED <<sock, owner, received>>
    BY <1>6 DEF Produce
  <2>3. r \in Seq(User) /\ ToSet(r) \in SUBSET User
    BY RecipientsFacts DEF ToSet
  <2>4. Posted' = Append(Posted, ToSet(r))
    BY <1>1, <2>1, <2>3, PostsAppend DEF Posted
  <2>5. Feed!Post
    BY <2>2, <2>3, <2>4 DEF Feed!Post, Posted, Posts, Holders, Online
  <2> QED
    BY <2>5 DEF Feed!Next
<1>7. ASSUME NEW i \in Instance, BeginList(i) \/ NextSocket(i) PROVE [Feed!Next]_FeedVars
  <2> DEFINE s == TheList(i)[worker[i].cursor + 1]
  <2>1. /\ worker[i].todo # <<>> /\ s \in Socket /\ Send(i, s) /\ UNCHANGED <<active, sock, owner>>
        /\ worker[i].cursor + 1 \in DOMAIN TheList(i)
    BY <1>1, <1>7, LoopFacts
  <2>2. log' = log /\ Online' = Online
    BY <1>7, <2>1 DEF BeginList, NextSocket, Online
  <2>3. owner[s].user = Head(worker[i].todo)
    BY <2>1, OwnerOfList
  <2> HIDE DEF s
  <2>4. CASE sock[s] \in {"setting", "open"}
    <3>1. received' = [received EXCEPT ![s] = Append(@, worker[i].msg)] /\ s \in Online
      BY <2>1, <2>4 DEF Send, Online
    <3> QED
      BY <2>1, <2>2, <2>3, <3>1, PushStep
  <2>5. CASE sock[s] \notin {"setting", "open"}
    BY <2>1, <2>2, <2>5 DEF Send, FeedVars, Posted, Posts, Holders
  <2> QED
    BY <2>4, <2>5
<1>8. ASSUME NEW i \in Instance, Crash(i) PROVE Feed!Next
  <2>1. UNCHANGED <<log, owner, received>>
    BY <1>8 DEF Crash
  <2>2. Online' \subseteq Online
    BY <1>1, <1>8 DEF Crash, Online
  <2> QED
    BY <1>2, <2>1, <2>2
<1>9. ASSUME UNCHANGED <<log, owner, sock, received>> PROVE [Feed!Next]_FeedVars
  BY <1>9 DEF FeedVars, Posted, Posts, Holders, Online
<1>10. ASSUME NEW i \in Instance,
              StartConsumer(i) \/ Consume(i) \/ AutoCommit(i) \/ WorkerDies(i) \/ SkipUser(i) \/ EndList(i)
       PROVE  [Feed!Next]_FeedVars
  BY <1>9, <1>10 DEF StartConsumer, Consume, AutoCommit, WorkerDies, SkipUser, EndList
<1>11. ASSUME NEW u \in User, Expire(u) PROVE [Feed!Next]_FeedVars
  BY <1>9, <1>11 DEF Expire, deviceVars
<1>12. CASE UNCHANGED vars
  BY <1>9, <1>12 DEF vars, deviceVars
<1> QED
  BY <1>3, <1>4, <1>5, <1>6, <1>7, <1>8, <1>10, <1>11, <1>12 DEF Next, Endpoint, Work

\* Whatever connects, stalls, leaves, fails or crashes while the workers go through
\* their lists, a device is sent only messages to its own user, in the order of the
\* topic, none twice, and none after it has left (worker.py: 30-40, manager.py:
\* 33-41): an instance with a consumer group to itself implements the feed.
THEOREM ImplementsFeed ==
    ASSUME OwnGroups
    PROVE  Spec => ImplementsMessageFeed
<1>1. SentInv => \A t \in Socket : Increasing(t)
  BY DEF SentInv
<1>2. ConnInv /\ ConsumerTyped /\ WorkerTyped /\ LoopInv /\ AddressInv /\ SentInv' /\ [Next]_vars
         => [Feed!Next]_FeedVars
  <2> SUFFICES ASSUME ConnInv, ConsumerTyped, WorkerTyped, LoopInv, AddressInv, SentInv', [Next]_vars
               PROVE  [Feed!Next]_FeedVars
    OBVIOUS
  <2>1. \A t \in Socket : Increasing(t)'
    BY DEF SentInv
  <2> QED
    BY <2>1, StepFeed
<1>3. ConnInv => ConnTyped
  BY DEF ConnInv
<1> QED
  BY InitConn, InitConsumer, InitWorker, InitLoop, InitOffset, InitSent, InitAddress, InitFeed,
     ConnStep, ConsumerStep, WorkerStep, LoopStep, OffsetStep, SentStep, AddressStep, <1>2, <1>3, PTL
  DEF Spec, ImplementsMessageFeed, Feed!Spec, FeedVars, Posted, Posts, Holders
=============================================================================
