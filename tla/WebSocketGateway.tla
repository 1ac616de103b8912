-------------------------- MODULE WebSocketGateway --------------------------
(***************************************************************************)
(* The websocket-service: instances that hold the devices' WebSockets, the *)
(* presence keys they share in Redis, and the Kafka worker of each that    *)
(* pushes messages to the devices connected to it.                         *)
(*                                                                         *)
(* An instance is one asyncio event loop: between two awaits a coroutine   *)
(* runs alone, so the actions are cut at the awaits (the Redis calls and   *)
(* send_json).  The endpoint of every socket has its own Redis client, so  *)
(* Redis serves the calls of two sockets in any order.                     *)
(***************************************************************************)
EXTENDS Naturals, Sequences, FiniteSets, SequencesExt

CONSTANTS
    User,
    Socket,         \* WebSocket objects, each used for one connection
    Instance,       \* running processes of the service
    Host,
    HostOf,         \* settings.app_host of each instance, which names its consumer group
    MaxMessages,    \* bound on the messages put on the topic
    Faults,         \* what the environment does: see below
    None

ASSUME GatewayAssumption ==
    /\ None \notin User \cup Instance \cup Socket
    /\ HostOf \in [Instance -> Host]
    /\ MaxMessages \in Nat
    /\ Faults \subseteq {"redis",       \* a Redis call raises
                         "expiry",      \* more than presence's 300 seconds go by
                         "drop",        \* a device vanishes before the server notices
                         "stall",       \* a device stops reading what is sent
                         "kafka",       \* a Kafka call raises
                         "crash"}       \* an instance is killed and started again

VARIABLES
    active,     \* manager.active_connections of each instance; <<>>: no such key
    sock,       \* where the endpoint of each socket is
    owner,      \* the user and the instance of each socket
    presence,   \* the users with a presence key in Redis
    log,        \* the topic: the recipients of each message
    taken,      \* the messages that each consumer group is past
    based,      \* the consumer groups that have committed an offset
    pending,    \* what each instance has fetched and not yet committed
    task,       \* the Kafka worker of each instance, as an asyncio task
    worker,     \* what the Kafka worker of each instance is sending
    missed,     \* history: the messages that each group passed over when it had no offset
    finished,   \* history: the messages that each instance has gone through to the end
    received    \* history: the messages sent on each socket, in order

kafkaVars == <<taken, based, pending, task, missed>>
deviceVars == <<log, kafkaVars, finished, received>>
vars == <<active, sock, owner, presence, worker, deviceVars>>

\* "setting" and "deleting" await Redis; a "stalled" device does not read;
\* "dropped" is open for the server only; "leaked" is registered but has no
\* endpoint any more.
SocketState == {"new", "setting", "open", "stalled", "dropped", "deleting", "closed", "leaked"}
Registered == {"setting", "open", "stalled", "dropped", "leaked"}

Message == 1..MaxMessages

\* Lists of recipients without repetition (the Message Service makes them).
Recipients == {s \in UNION {[1..n -> User] : n \in 1..Cardinality(User)} : IsInjective(s)}

\* todo: recipients still to serve; cursor: how far the loop over the list of
\* the first one has come, 0 before it; on: the socket whose send_json has not
\* returned; audience: history, that list as it was when the loop began.
NoWork == [msg |-> 0, todo |-> <<>>, cursor |-> 0, attached |-> FALSE, on |-> None,
           audience |-> {}]

Init ==
    /\ active = [i \in Instance |-> [u \in User |-> <<>>]]
    /\ sock = [s \in Socket |-> "new"]
    /\ owner = [s \in Socket |-> [user |-> None, inst |-> None]]
    /\ presence = {}
    /\ log = <<>>
    /\ taken = [h \in Host |-> {}]
    /\ based = {}
    /\ pending = [i \in Instance |-> {}]
    /\ task = [i \in Instance |-> "starting"]
    /\ missed = [h \in Host |-> {}]
    /\ worker = [i \in Instance |-> NoWork]
    /\ finished = [i \in Instance |-> {}]
    /\ received = [s \in Socket |-> <<>>]

-----------------------------------------------------------------------------
(* The endpoint of a socket: connect, receive until closed, disconnect.    *)

\* connect, after accept: the socket is registered, then Redis is called.
Connect(s) ==
    /\ sock[s] = "new"
    /\ \E u \in User, i \in Instance :
        /\ owner' = [owner EXCEPT ![s] = [user |-> u, inst |-> i]]
        /\ active' = [active EXCEPT ![i][u] = Append(@, s)]
    /\ sock' = [sock EXCEPT ![s] = "setting"]
    /\ UNCHANGED <<presence, worker, deviceVars>>

\* mutant: the wrong half of the key.
SetPresenceOfInstance(s) ==
    /\ sock[s] = "setting"
    /\ presence' = presence \cup {owner[s].inst}
    /\ sock' = [sock EXCEPT ![s] = "open"]
    /\ UNCHANGED <<active, owner, worker, deviceVars>>

SetPresence(s) ==
    /\ sock[s] = "setting"
    /\ presence' = presence \cup {owner[s].user}
    /\ sock' = [sock EXCEPT ![s] = "open"]
    /\ UNCHANGED <<active, owner, worker, deviceVars>>

\* connect is called outside the try block: when Redis fails the endpoint ends
\* and nobody takes the socket out of the list.
SetPresenceFails(s) ==
    /\ "redis" \in Faults
    /\ sock[s] = "setting"
    /\ sock' = [sock EXCEPT ![s] = "leaked"]
    /\ UNCHANGED <<active, owner, presence, worker, deviceVars>>

\* The device is gone; receive_text has not raised yet.
Drop(s) ==
    /\ "drop" \in Faults
    /\ sock[s] = "open"
    /\ sock' = [sock EXCEPT ![s] = "dropped"]
    /\ UNCHANGED <<active, owner, presence, worker, deviceVars>>

\* send_json on s has not returned to the worker of i.
Awaits(i, s) == worker[i].on = s

\* The device stops reading, and its buffers are full.
Stall(s) ==
    /\ "stall" \in Faults
    /\ sock[s] = "open"
    /\ sock' = [sock EXCEPT ![s] = "stalled"]
    /\ UNCHANGED <<active, owner, presence, worker, deviceVars>>

\* It reads again, or the WebSocket server gives it up for not answering a ping:
\* either way a send that waits for it is over.
EndStall(s) ==
    /\ sock[s] = "stalled"
    /\ \E x \in {"open", "dropped"} :
        /\ sock' = [sock EXCEPT ![s] = x]
        /\ received' = IF x = "open" /\ Awaits(owner[s].inst, s)
                       THEN [received EXCEPT ![s] = Append(@, worker[owner[s].inst].msg)]
                       ELSE received
    /\ worker' = IF Awaits(owner[s].inst, s)
                 THEN [worker EXCEPT ![owner[s].inst].on = None]
                 ELSE worker
    /\ UNCHANGED <<active, owner, presence, log, kafkaVars, finished>>

AnyIndex(l, s) == 1         \* mutant
Index(l, s) == CHOOSE k \in DOMAIN l : l[k] = s

NeverEmpty(l) == FALSE      \* mutant
IsEmptyList(l) == l = <<>>

\* disconnect: out of the list; the last one also drops the key (a worker in
\* the middle of that list keeps the empty list object) and calls Redis.
Disconnect(s) ==
    /\ sock[s] \in {"open", "dropped"}
    /\ LET u == owner[s].user
           i == owner[s].inst
           l == RemoveAt(active[i][u], Index(active[i][u], s))
       IN  /\ active' = [active EXCEPT ![i][u] = l]
           /\ sock' = [sock EXCEPT ![s] = IF IsEmptyList(l) THEN "deleting" ELSE "closed"]
           /\ worker' = IF /\ IsEmptyList(l)
                           /\ worker[i].todo # <<>> /\ Head(worker[i].todo) = u
                        THEN [worker EXCEPT ![i].attached = FALSE]
                        ELSE worker
    /\ UNCHANGED <<owner, presence, deviceVars>>

DeletePresence(s) ==
    /\ sock[s] = "deleting"
    /\ presence' = presence \ {owner[s].user}
    /\ sock' = [sock EXCEPT ![s] = "closed"]
    /\ UNCHANGED <<active, owner, worker, deviceVars>>

DeletePresenceFails(s) ==
    /\ "redis" \in Faults
    /\ sock[s] = "deleting"
    /\ sock' = [sock EXCEPT ![s] = "closed"]
    /\ UNCHANGED <<active, owner, presence, worker, deviceVars>>

-----------------------------------------------------------------------------
(* The consumer of an instance. *)

\* The Message Service puts a message on the topic.
Produce ==
    /\ Len(log) < MaxMessages
    /\ \E r \in Recipients : log' = Append(log, r)
    /\ UNCHANGED <<active, sock, owner, presence, worker, kafkaVars, finished, received>>

\* The group has an offset to go on from, or a member that knows where it is.
HasOffset(h) == h \in based \/ \E i \in Instance : HostOf[i] = h /\ task[i] = "running"

\* consumer.start: a group without an offset begins after the latest message.
StartConsumer(i) ==
    /\ task[i] = "starting"
    /\ task' = [task EXCEPT ![i] = "running"]
    /\ LET h == HostOf[i]
           skipped == IF HasOffset(h) THEN {} ELSE (1..Len(log)) \ taken[h]
       IN  /\ taken' = [taken EXCEPT ![h] = @ \cup skipped]
           /\ missed' = [missed EXCEPT ![h] = @ \cup skipped]
    /\ UNCHANGED <<active, sock, owner, presence, log, based, pending, worker, finished, received>>

\* mutant: starts from the latest message whenever it fetches.
ConsumeLatest(i) ==
    /\ task[i] = "running" /\ worker[i].todo = <<>>
    /\ \E m \in 1..Len(log) :
        /\ m = Len(log) /\ m \notin taken[HostOf[i]]
        /\ taken' = [taken EXCEPT ![HostOf[i]] = 1..m]
        /\ pending' = [pending EXCEPT ![i] = @ \cup {m}]
        /\ worker' = [worker EXCEPT ![i] = [NoWork EXCEPT !.msg = m, !.todo = log[m]]]
    /\ UNCHANGED <<active, sock, owner, presence, log, based, task, missed, finished, received>>

\* Each consumer group gets each message once, whichever instance fetches it, and
\* again only after a crash: the broker is taken not to expel a live consumer.
Consume(i) ==
    /\ task[i] = "running" /\ worker[i].todo = <<>>
    /\ \E m \in 1..Len(log) :
        /\ m \notin taken[HostOf[i]]
        /\ \A n \in 1..m-1 : n \in taken[HostOf[i]]
        /\ taken' = [taken EXCEPT ![HostOf[i]] = @ \cup {m}]
        /\ pending' = [pending EXCEPT ![i] = @ \cup {m}]
        /\ worker' = [worker EXCEPT ![i] = [NoWork EXCEPT !.msg = m, !.todo = log[m]]]
    /\ UNCHANGED <<active, sock, owner, presence, log, based, task, missed, finished, received>>

\* What was fetched counts, though the worker may be at it still.
Committed(i) == /\ based' = based \cup {HostOf[i]}
                /\ pending' = [pending EXCEPT ![i] = {}]

\* Every 5 seconds.  Only an instance that is killed misses it: stop commits too.
AutoCommit(i) ==
    /\ "crash" \in Faults
    /\ task[i] = "running"
    /\ Committed(i)
    /\ UNCHANGED <<active, sock, owner, presence, log, taken, task, worker, missed, finished, received>>

\* consumer.start raises, or the next message cannot be had: neither is inside
\* the inner try, and nobody starts the task again.  stop commits.
WorkerDies(i) ==
    /\ "kafka" \in Faults
    /\ task' = [task EXCEPT ![i] = "dead"]
    /\ \/ task[i] = "starting" /\ UNCHANGED <<based, pending>>
       \/ task[i] = "running" /\ worker[i].todo = <<>> /\ Committed(i)
    /\ UNCHANGED <<active, sock, owner, presence, log, taken, worker, missed, finished, received>>

-----------------------------------------------------------------------------
(* The loop over the devices of the recipients. *)

\* mutant: the devices of the first recipient, for all of them.
ListOfFirst(i) == active[i][Head(log[worker[i].msg])]

\* The list that send_personal_message goes through.
TheList(i) == active[i][Head(worker[i].todo)]

\* send_json on one socket; an exception is logged and the loop goes on.
Send(i, s) ==
    received' = IF sock[s] \in {"setting", "open"}
                THEN [received EXCEPT ![s] = Append(@, worker[i].msg)]
                ELSE received

\* It waits while the device does not read.
WaitsOn(s) == IF sock[s] = "stalled" THEN s ELSE None

\* mutant: goes through the devices of the same recipient again.
SameUser(i) ==
    /\ worker' = [worker EXCEPT ![i] =
                    [NoWork EXCEPT !.msg = worker[i].msg, !.todo = worker[i].todo]]
    /\ UNCHANGED finished

\* On to the next recipient, or to the next message.
NextUser(i) ==
    \/ /\ Len(worker[i].todo) = 1
       /\ worker' = [worker EXCEPT ![i] = NoWork]
       /\ finished' = [finished EXCEPT ![i] = @ \cup {worker[i].msg}]
    \/ /\ Len(worker[i].todo) > 1
       /\ worker' = [worker EXCEPT ![i] =
                       [NoWork EXCEPT !.msg = worker[i].msg, !.todo = Tail(worker[i].todo)]]
       /\ UNCHANGED finished

\* The recipient is not connected to this instance.
SkipUser(i) ==
    /\ worker[i].todo # <<>> /\ worker[i].cursor = 0
    /\ TheList(i) = <<>>
    /\ NextUser(i)
    /\ UNCHANGED <<active, sock, owner, presence, log, kafkaVars, received>>

BeginList(i) ==
    /\ worker[i].todo # <<>> /\ worker[i].cursor = 0
    /\ TheList(i) # <<>>
    /\ Send(i, TheList(i)[1])
    /\ worker' = [worker EXCEPT ![i].cursor = 1, ![i].attached = TRUE,
                                ![i].on = WaitsOn(TheList(i)[1]),
                                ![i].audience = ToSet(TheList(i))]
    /\ UNCHANGED <<active, sock, owner, presence, log, kafkaVars, finished>>

\* mutant: stops one short.
HasMoreShort(i) == worker[i].attached /\ worker[i].cursor < Len(TheList(i)) - 1
\* The list iterator: one position further in the list as it is now.
HasMore(i) == worker[i].attached /\ worker[i].cursor < Len(TheList(i))

SamePosition(i) == worker[i].cursor             \* mutant
NextPosition(i) == worker[i].cursor + 1

NextSocket(i) ==
    /\ worker[i].todo # <<>> /\ worker[i].cursor > 0 /\ worker[i].on = None
    /\ HasMore(i)
    /\ Send(i, TheList(i)[NextPosition(i)])
    /\ worker' = [worker EXCEPT ![i].cursor = @ + 1, ![i].on = WaitsOn(TheList(i)[NextPosition(i)])]
    /\ UNCHANGED <<active, sock, owner, presence, log, kafkaVars, finished>>

EndList(i) ==
    /\ worker[i].todo # <<>> /\ worker[i].cursor > 0 /\ worker[i].on = None
    /\ ~HasMore(i)
    /\ NextUser(i)
    /\ UNCHANGED <<active, sock, owner, presence, log, kafkaVars, received>>

-----------------------------------------------------------------------------
(* The environment. *)

\* The presence key outlives its 300 seconds: nothing sets it again while a
\* device stays connected.
Expire(u) ==
    /\ "expiry" \in Faults
    /\ u \in presence
    /\ presence' = presence \ {u}
    /\ UNCHANGED <<active, sock, owner, worker, deviceVars>>

\* The process is killed and started again: its sockets and what its worker was
\* doing are gone, its presence keys stay, and Kafka hands out again what it had
\* not committed.  A shutdown in order is the end of its sockets and a commit first.
Crash(i) ==
    /\ "crash" \in Faults
    /\ active' = [active EXCEPT ![i] = [u \in User |-> <<>>]]
    /\ sock' = [s \in Socket |-> IF owner[s].inst = i THEN "closed" ELSE sock[s]]
    /\ worker' = [worker EXCEPT ![i] = NoWork]
    /\ task' = [task EXCEPT ![i] = "starting"]
    /\ taken' = [taken EXCEPT ![HostOf[i]] = @ \ pending[i]]
    /\ pending' = [pending EXCEPT ![i] = {}]
    /\ UNCHANGED <<owner, presence, log, based, missed, finished, received>>

Endpoint(s) == \/ Connect(s) \/ SetPresence(s) \/ SetPresenceFails(s) \/ Drop(s)
               \/ Stall(s) \/ EndStall(s)
               \/ Disconnect(s) \/ DeletePresence(s) \/ DeletePresenceFails(s)
Work(i) == SkipUser(i) \/ BeginList(i) \/ NextSocket(i) \/ EndList(i)

Next == \/ \E s \in Socket : Endpoint(s)
        \/ Produce
        \/ \E i \in Instance : \/ StartConsumer(i) \/ Consume(i) \/ AutoCommit(i) \/ WorkerDies(i)
                              \/ Work(i) \/ Crash(i)
        \/ \E u \in User : Expire(u)

\* The worker goes on whenever it can: the event loop resumes it when a message
\* or the end of a send is there.  The WebSocket server ends every stall, by its
\* ping time-out at the latest.
\* Devices, producers and faults are free.
Fairness == /\ \A i \in Instance : WF_vars(StartConsumer(i) \/ Consume(i) \/ Work(i))
            /\ \A s \in Socket : WF_vars(EndStall(s))

Spec == Init /\ [][Next]_vars
FairSpec == Spec /\ Fairness

-----------------------------------------------------------------------------
(* Properties. *)

WorkerState == [msg : 0..MaxMessages, todo : Seq(User), cursor : Nat,
                attached : BOOLEAN, on : Socket \cup {None}, audience : SUBSET Socket]

\* Every variable holds values of its type.
TypeOK ==
    /\ active \in [Instance -> [User -> Seq(Socket)]]
    /\ sock \in [Socket -> SocketState]
    /\ owner \in [Socket -> [user : User \cup {None}, inst : Instance \cup {None}]]
    /\ presence \subseteq User
    /\ log \in Seq(Seq(User)) /\ Len(log) <= MaxMessages
    /\ taken \in [Host -> SUBSET Message] /\ missed \in [Host -> SUBSET Message]
    /\ based \subseteq Host
    /\ pending \in [Instance -> SUBSET Message]
    /\ task \in [Instance -> {"starting", "running", "dead"}]
    /\ worker \in [Instance -> WorkerState]
    /\ finished \in [Instance -> SUBSET Message]
    /\ received \in [Socket -> Seq(Message)]

\* A connection list holds exactly the sockets of its user and instance that
\* are registered, each once, at every await.
ListsAreRegistered ==
    /\ \A s \in Socket : sock[s] \in Registered =>
          \E k \in DOMAIN active[owner[s].inst][owner[s].user] :
             active[owner[s].inst][owner[s].user][k] = s
    /\ \A i \in Instance, u \in User : \A k \in DOMAIN active[i][u] :
          /\ sock[active[i][u][k]] \in Registered
          /\ owner[active[i][u][k]] = [user |-> u, inst |-> i]
          /\ \A j \in DOMAIN active[i][u] : active[i][u][j] = active[i][u][k] => j = k

\* Nobody is shown online who is not: behind a presence key there is a socket
\* still registered, or the call that will delete the key.  It takes the order
\* of the handlers: a socket is not disconnected before its own set returned.
PresenceIsBacked ==
    \A u \in presence : \E s \in Socket :
        owner[s].user = u /\ sock[s] \in Registered \cup {"deleting"}

\* When a device of u is connected and no Redis call for u is under way, u is
\* shown online.
OnlineIsShown ==
    \A s \in Socket : sock[s] = "open" =>
        \/ owner[s].user \in presence
        \/ \E t \in Socket : owner[t].user = owner[s].user /\ sock[t] \in {"setting", "deleting"}

\* A device gets the messages in the order of the topic and none twice, though
\* the list the worker goes through changes under it.
InOrderOnce ==
    \A s \in Socket : \A j, k \in DOMAIN received[s] :
        j < k => received[s][j] < received[s][k]

\* The devices that the current loop must have reached when it ends.
Reached(i) == {s \in Socket : \E k \in DOMAIN received[s] : received[s][k] = worker[i].msg}
Present(i) == {s \in worker[i].audience : sock[s] \in {"setting", "open"}}

\* If none of the devices that were connected when the loop began has left, all
\* of them have been sent the message when it ends.
UndisturbedSendReachesAll ==
    [][\A i \in Instance :
          EndList(i) /\ worker[i].audience \subseteq ToSet(TheList(i))
             => Present(i) \subseteq Reached(i)]_vars

\* The messages that a group is past and that no instance of it has gone through,
\* or is at.
Members(h) == {i \in Instance : HostOf[i] = h}
Lost(h) == {m \in taken[h] : \A i \in Members(h) : m \notin finished[i] /\ worker[i].msg # m}

\* However instances share groups, every message that a group gets past is gone
\* through to the end by one of its instances, with two exceptions: a crash loses
\* the message that the instance was at, if that was committed already, and a group
\* that has never committed passes over what is on the topic when it starts.
OnlyCrashOrNewGroupLoses ==
    [][\A h \in Host : Lost(h)' # Lost(h) =>
          \E i \in Members(h) :
             \/ Crash(i) /\ Lost(h)' = Lost(h) \cup {worker[i].msg}
             \/ /\ StartConsumer(i) /\ h \notin based
                /\ \A j \in Members(h) : task[j] # "running"]_vars

\* Whatever changes and fails while a worker goes through its lists, a device is
\* sent only messages to its own user, in the order of the topic, none twice, and
\* none after it has left: if every instance has a consumer group to itself.
Online == {s \in Socket : sock[s] \in {"setting", "open", "stalled"}}
Feed == INSTANCE MessageFeed WITH
           Device <- Socket,
           posted <- [m \in DOMAIN log |-> ToSet(log[m])],
           holder <- [s \in Socket |-> owner[s].user],
           online <- Online,
           feed <- received
ImplementsMessageFeed == Feed!Spec

\* Every message is gone through in the end, though devices stop reading for a
\* while and lists change while they are gone through, as long as only so many
\* devices connect meanwhile and the worker does not die.
PushedInTheEnd ==
    \A i \in Instance, m \in Message :
        (m <= Len(log)) ~> \/ m \in finished[i] \cup missed[HostOf[i]]
                           \/ task[i] = "dead"
=============================================================================
