----------------------------- MODULE MessageFeed -----------------------------
(***************************************************************************)
(* What the websocket-service promises of the messages it pushes: each     *)
(* device that is connected gets, of the messages on the topic, some that  *)
(* are addressed to its user, in the order of the topic, none twice and    *)
(* none to anybody else, and nothing once it has left.                     *)
(***************************************************************************)
EXTENDS Naturals, Sequences

CONSTANTS User, Device, None

VARIABLES
    posted,     \* the recipients of each message, in the order of the topic
    holder,     \* the user of each device; None before it connects
    online,     \* the devices that are connected and have not vanished
    feed        \* the messages that each device was sent

Init == /\ posted = <<>>
        /\ holder = [d \in Device |-> None]
        /\ online = {}
        /\ feed = [d \in Device |-> <<>>]

\* Somebody writes to some users.
Post == /\ \E to \in SUBSET User : posted' = Append(posted, to)
        /\ UNCHANGED <<holder, online, feed>>

\* A device connects once, for one user.
Join(d) == /\ holder[d] = None
           /\ \E u \in User : holder' = [holder EXCEPT ![d] = u]
           /\ online' = online \cup {d}
           /\ UNCHANGED <<posted, feed>>

\* A later message for its user than all that it was sent.
Push(d) == /\ d \in online
           /\ \E m \in DOMAIN posted :
                 /\ holder[d] \in posted[m]
                 /\ \A k \in DOMAIN feed[d] : feed[d][k] < m
                 /\ feed' = [feed EXCEPT ![d] = Append(@, m)]
           /\ UNCHANGED <<posted, holder, online>>

\* Devices leave, several at once when an instance is killed.
Leave(gone) == /\ gone \subseteq online
               /\ online' = online \ gone
               /\ UNCHANGED <<posted, holder, feed>>

Next == \/ Post
        \/ \E d \in Device : Join(d) \/ Push(d)
        \/ \E gone \in SUBSET Device : Leave(gone)

Spec == Init /\ [][Next]_<<posted, holder, online, feed>>
=============================================================================
