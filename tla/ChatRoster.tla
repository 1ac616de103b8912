----------------------------- MODULE ChatRoster -----------------------------
(***************************************************************************)
(* What the chat-service promises of its chats: a roster that says who is  *)
(* in which chat in which role, changed only by requests whose caller had  *)
(* the role for it when they asked, and by each of them at most once, in   *)
(* the chat it names and about the user it names.                          *)
(***************************************************************************)
CONSTANTS User, ChatId, Worker, None

VARIABLES
    kind,       \* of each chat
    roster,     \* who is where as what; that somebody is there twice does not show
    wish        \* what each request in flight was allowed to do

Role == {"OWNER", "ADMIN", "MEMBER"}
Room == {"GROUP", "CHANNEL"}

\* The roles that may ask for it.
Granted == [update |-> {"OWNER", "ADMIN"}, add |-> {"OWNER", "ADMIN"},
            remove |-> {"OWNER", "ADMIN"}, role |-> {"OWNER"}, delete |-> {"OWNER"},
            leave |-> {"ADMIN", "MEMBER"}]

Entry(c, u, x) == [chat |-> c, user |-> u, role |-> x]
Entries(c, u) == {e \in roster : e.chat = c /\ e.user = u}

Init == /\ kind = [c \in ChatId |-> "unused"]
        /\ roster = {}
        /\ wish = [w \in Worker |-> None]

\* Anybody opens a chat, as its owner or with one other user.
Open ==
    /\ \E c \in ChatId :
        /\ kind[c] = "unused"
        /\ \/ \E u \in User, t \in Room :
                 /\ kind' = [kind EXCEPT ![c] = t]
                 /\ roster' = roster \cup {Entry(c, u, "OWNER")}
           \/ \E u, t \in User :
                 /\ u # t
                 /\ kind' = [kind EXCEPT ![c] = "DM"]
                 /\ roster' = roster \cup {Entry(c, u, "MEMBER"), Entry(c, t, "MEMBER")}
    /\ UNCHANGED wish

\* Somebody in a role that suffices asks for something in that chat.
Ask(w) ==
    /\ wish[w] = None
    /\ \E caller \in roster, op \in DOMAIN Granted, t \in User \cup {None}, x \in Role \cup {None} :
        /\ caller.role \in Granted[op]
        /\ op = "leave" => t = caller.user
        /\ wish' = [wish EXCEPT ![w] = [op |-> op, chat |-> caller.chat, target |-> t,
                                        role |-> x, done |-> FALSE]]
    /\ UNCHANGED <<kind, roster>>

\* A request does what it was allowed to.  Meanwhile it may have been done by
\* another, or be impossible.
Do(w) ==
    /\ wish[w] # None
    /\ ~wish[w].done
    /\ wish' = [wish EXCEPT ![w].done = TRUE]
    /\ LET c == wish[w].chat
           t == wish[w].target
       IN  \/ UNCHANGED <<kind, roster>>
           \/ /\ wish[w].op = "add"
              /\ kind[c] \in Room
              /\ roster' = roster \cup {Entry(c, t, "MEMBER")}
              /\ UNCHANGED kind
           \/ /\ wish[w].op \in {"remove", "leave"}
              /\ \E e \in Entries(c, t) : roster' = roster \ {e}
              /\ UNCHANGED kind
           \/ /\ wish[w].op = "role"
              /\ \E e \in Entries(c, t) :
                    roster' \in {kept \cup {Entry(c, t, wish[w].role)} : kept \in {roster, roster \ {e}}}
              /\ UNCHANGED kind
           \/ /\ wish[w].op = "delete"
              /\ kind' = [kind EXCEPT ![c] = "deleted"]
              /\ roster' = {e \in roster : e.chat # c}

Answer(w) ==
    /\ wish[w] # None
    /\ wish' = [wish EXCEPT ![w] = None]
    /\ UNCHANGED <<kind, roster>>

Next == Open \/ \E w \in Worker : Ask(w) \/ Do(w) \/ Answer(w)

Spec == Init /\ [][Next]_<<kind, roster, wish>>
=============================================================================
