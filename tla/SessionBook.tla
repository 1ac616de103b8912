----------------------------- MODULE SessionBook -----------------------------
(***************************************************************************)
(* What the auth-service promises of its sessions: a book of who holds     *)
(* which session and of the tokens handed out for it.  A session is opened *)
(* by its holder's login, renewed by requests that found it live, and      *)
(* ended by whoever presents one of its tokens, or by one of the holder's  *)
(* for all of them; what has ended stays ended, also for the renewals that *)
(* were under way.                                                         *)
(***************************************************************************)
CONSTANTS User, Session, Jti, Worker, None

VARIABLES
    holder,     \* of each session
    state,      \* of each session
    granted,    \* the tokens handed out
    wish        \* what each request in flight was allowed to do

Init == /\ holder = [s \in Session |-> None]
        /\ state = [s \in Session |-> "unused"]
        /\ granted = {}
        /\ wish = [w \in Worker |-> None]

Wish(do, u, s) == [do |-> do, user |-> u, session |-> s]

Becomes(w, x) == wish' = [wish EXCEPT ![w] = x]
Done(w) == Becomes(w, None)

\* Somebody logs in, comes with a token of a live session to have it renewed, or
\* with any token to have its session ended, or all of its user's.
Ask(w) ==
    /\ wish[w] = None
    /\ \/ \E u \in User : Becomes(w, Wish("open", u, None))
       \/ \E t \in granted :
             \/ state[t.sid] = "live" /\ Becomes(w, Wish("renew", t.sub, t.sid))
             \/ Becomes(w, Wish("end", t.sub, t.sid))
             \/ Becomes(w, Wish("end_all", t.sub, t.sid))
    /\ UNCHANGED <<holder, state, granted>>

\* Two new tokens of a session for its holder, unless they are lost on the way.
Grant(s, u) ==
    \/ UNCHANGED granted
    \/ \E a, r \in Jti :
          /\ a # r
          /\ \A t \in granted : t.jti \notin {a, r}
          /\ granted' = granted \cup {[jti |-> j, sid |-> s, sub |-> u] : j \in {a, r}}

\* A session that was opened or renewed too slowly is over before it is used.
Fate == {"live", "lapsed"}

Open(w) ==
    /\ wish[w] # None
    /\ wish[w].do = "open"
    /\ \E s \in Session, x \in Fate :
        /\ state[s] = "unused"
        /\ holder' = [holder EXCEPT ![s] = wish[w].user]
        /\ state' = [state EXCEPT ![s] = x]
        /\ Grant(s, wish[w].user)
    /\ Done(w)

Renew(w) ==
    /\ wish[w] # None
    /\ wish[w].do = "renew"
    /\ \E x \in Fate : state' = [state EXCEPT ![wish[w].session] = IF @ = "ended" THEN @ ELSE x]
    /\ Grant(wish[w].session, wish[w].user)
    /\ Done(w)
    /\ UNCHANGED holder

End(w) ==
    /\ wish[w] # None
    /\ \/ /\ wish[w].do = "end"
          /\ state' = [state EXCEPT ![wish[w].session] = "ended"]
       \/ /\ wish[w].do = "end_all"
          /\ state' = [s \in Session |-> IF holder[s] = wish[w].user THEN "ended" ELSE state[s]]
    /\ Done(w)
    /\ UNCHANGED <<holder, granted>>

GiveUp(w) ==
    /\ wish[w] # None
    /\ Done(w)
    /\ UNCHANGED <<holder, state, granted>>

\* Time passes.
Lapse ==
    /\ \E lapsed \in SUBSET {s \in Session : state[s] = "live"} :
          state' = [s \in Session |-> IF s \in lapsed THEN "lapsed" ELSE state[s]]
    /\ UNCHANGED <<holder, granted, wish>>

Next == Lapse \/ \E w \in Worker : Ask(w) \/ Open(w) \/ Renew(w) \/ End(w) \/ GiveUp(w)

Spec == Init /\ [][Next]_<<holder, state, granted, wish>>
=============================================================================
