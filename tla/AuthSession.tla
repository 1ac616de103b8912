----------------------------- MODULE AuthSession -----------------------------
(***************************************************************************)
(* The sessions of the auth-service: login, refresh and logout of          *)
(* app/api.py over the table user_sessions, the JWTs it hands out, the     *)
(* blacklist in Redis of the tokens that were logged out, and what each    *)
(* service asks of a token: the auth-, user- and chat-service have         *)
(* get_current_user_data look at the blacklist, while the websocket-       *)
(* service and POST /auth/refresh do not.                                  *)
(*                                                                         *)
(* The clock advances between any two awaits.  It counts ticks, of which   *)
(* a second has TicksPerSecond: the service reads it exactly, while the    *)
(* exp of a JWT and the time to live of a Redis key are whole seconds.     *)
(***************************************************************************)
EXTENDS Integers, FiniteSets

CONSTANTS
    User,               \* users that may log in (active, email verified)
    Session,            \* primary keys of user_sessions
    Jti,                \* token ids (uuid4)
    Worker,             \* requests being served at the same time, by any of the services
    TicksPerSecond,
    AccessSeconds,      \* settings.access_token_expire_minutes
    RefreshSeconds,     \* settings.refresh_token_expire_days
    MaxTime,            \* bound on the clock
    None

ASSUME ClockAssumption ==
    /\ TicksPerSecond \in Nat \ {0}
    /\ AccessSeconds \in Nat /\ RefreshSeconds \in Nat
    /\ AccessSeconds <= RefreshSeconds
    /\ MaxTime \in Nat
ASSUME NoneAssumption == None \notin User \cup Session \cup Jti

VARIABLES
    now,        \* the clock
    session,    \* table user_sessions; a row without user is not in the table
    token,      \* history: the tokens handed out
    blacklist,  \* when the key of each token id in Redis expires
    pc,         \* the next step of each request
    req,        \* what each request holds
    revoked     \* history: the token ids that a logout has dealt with

vars == <<now, session, token, blacklist, pc, req, revoked>>

-----------------------------------------------------------------------------
(* Definitions marked "mutant" are faulty versions of the one that follows, *)
(* for checking that a property notices.                                    *)

NoRow == [user |-> None, active |-> FALSE, access |-> None, refresh |-> None, expires |-> 0]

\* mutant: signed before the session has its id.
TokenTooEarly(j, s, u, issued, life) ==
    [jti |-> j, sid |-> None, sub |-> u, exp |-> (issued + life * TicksPerSecond) \div TicksPerSecond]

\* create_jwt_token: exp is a datetime, which the JWT holds in whole seconds.
Token(j, s, u, issued, life) ==
    [jti |-> j, sid |-> s, sub |-> u, exp |-> (issued + life * TicksPerSecond) \div TicksPerSecond]

Pair(a, r, s, u, issued) == {Token(a, s, u, issued, AccessSeconds),
                             Token(r, s, u, issued, RefreshSeconds)}

\* decode_token: a token is expired from the second exp on.
Decodes(exp) == exp * TicksPerSecond > now

Blacklisted(j) == blacklist[j] > now

\* mutant: no look at is_active.
NotExpired(s) == session[s].expires > now

\* get_active_session.
Active(s) == session[s].active /\ session[s].expires > now

\* uuid4.
Fresh(j) == /\ \A t \in token : t.jti # j
            /\ \A s \in Session : j \notin {session[s].access, session[s].refresh}

Steps == {"idle", "insert", "rotate", "check", "serve", "blacklist", "deactivate"}

\* What a token is presented for at get_current_user_data: any endpoint behind it, or
\* a logout of one device or of all.
Purpose == {"call", "logout", "logout all"}

Blank == [user |-> None, sid |-> None, jti |-> None, exp |-> 0, issued |-> 0, for |-> "call"]

Init == /\ now = 0
        /\ session = [s \in Session |-> NoRow]
        /\ token = {}
        /\ blacklist = [j \in Jti |-> 0]
        /\ pc = [w \in Worker |-> "idle"]
        /\ req = [w \in Worker |-> Blank]
        /\ revoked = {}

Goto(w, s, r) == /\ pc' = [pc EXCEPT ![w] = s]
                 /\ req' = [req EXCEPT ![w] = r]

Answer(w) == Goto(w, "idle", Blank)

\* What a request holds that presents the token t.
Presenting(t) == [Blank EXCEPT !.user = t.sub, !.sid = t.sid, !.jti = t.jti, !.exp = t.exp]

-----------------------------------------------------------------------------
(* POST /auth/login. *)

\* Login and password are right; the times are set before the session is inserted.
Login(w) ==
    /\ pc[w] = "idle"
    /\ \E u \in User : Goto(w, "insert", [Blank EXCEPT !.user = u, !.issued = now])
    /\ UNCHANGED <<now, session, token, blacklist, revoked>>

\* create_user_session commits; its refresh of the row may still raise, and then
\* the tokens are not handed out.
InsertSession(w) ==
    /\ pc[w] = "insert"
    /\ \E s \in Session, a, r \in Jti :
        /\ session[s].user = None
        /\ Fresh(a) /\ Fresh(r) /\ a # r
        /\ session' = [session EXCEPT ![s] =
              [user |-> req[w].user, active |-> TRUE, access |-> a, refresh |-> r,
               expires |-> req[w].issued + RefreshSeconds * TicksPerSecond]]
        /\ \/ token' = token \cup Pair(a, r, s, req[w].user, req[w].issued)
           \/ UNCHANGED token
    /\ Answer(w)
    /\ UNCHANGED <<now, blacklist, revoked>>

(* POST /auth/refresh. *)

\* Any token that decodes names a session; that it is the refresh token of the
\* row is not asked, nor whether it was logged out: the session has to be active.
Refresh(w) ==
    /\ pc[w] = "idle"
    /\ \E t \in token :
        /\ Decodes(t.exp)
        /\ Active(t.sid)
        /\ Goto(w, "rotate", [Presenting(t) EXCEPT !.user = session[t.sid].user,
                                                   !.issued = now])
    /\ UNCHANGED <<now, session, token, blacklist, revoked>>

\* mutant: expires_at forgotten.
RotatedOnly(row, a, r, issued) == [row EXCEPT !.access = a, !.refresh = r]

\* mutant: the whole row as it was read.
RotatedRow(row, a, r, issued) ==
    [row EXCEPT !.active = TRUE, !.access = a, !.refresh = r,
                !.expires = issued + RefreshSeconds * TicksPerSecond]

\* update_session_after_refresh writes the columns it changed, not is_active.
Rotated(row, a, r, issued) ==
    [row EXCEPT !.access = a, !.refresh = r, !.expires = issued + RefreshSeconds * TicksPerSecond]

CommitRefresh(w) ==
    /\ pc[w] = "rotate"
    /\ \E a, r \in Jti :
        /\ Fresh(a) /\ Fresh(r) /\ a # r
        /\ session' = [session EXCEPT ![req[w].sid] = Rotated(@, a, r, req[w].issued)]
        /\ \/ token' = token \cup Pair(a, r, req[w].sid, req[w].user, req[w].issued)
           \/ UNCHANGED token
    /\ Answer(w)
    /\ UNCHANGED <<now, blacklist, revoked>>

(* GET /ws of the websocket-service. *)

\* validate_token decodes the token, and that is all it asks; what the socket does
\* then is in WebSocketGateway.
OpenSocket(w) ==
    /\ pc[w] = "idle"
    /\ \E t \in token : Decodes(t.exp)
    /\ Goto(w, "serve", Blank)
    /\ UNCHANGED <<now, session, token, blacklist, revoked>>

(* The endpoints behind get_current_user_data. *)

Present(w, purpose) ==
    /\ pc[w] = "idle"
    /\ \E t \in token :
        /\ Decodes(t.exp)
        /\ Goto(w, "check", [Presenting(t) EXCEPT !.for = purpose])
    /\ UNCHANGED <<now, session, token, blacklist, revoked>>

\* validate-token, and the endpoints of the user- and chat-service.
Call(w) == Present(w, "call")

\* POST /auth/logout.
Logout(w) == \E purpose \in {"logout", "logout all"} : Present(w, purpose)

\* The token is good: on to the endpoint, of whose work only the logout is modelled here.
Pass(w) == \/ /\ req[w].for = "call"
              /\ Goto(w, "serve", Blank)
           \/ /\ req[w].for # "call"
              /\ Goto(w, "blacklist", req[w])

\* mutant: an answer of Redis that says nothing lets the token pass.
CheckNothing(w) ==
    /\ pc[w] = "check"
    /\ Pass(w)
    /\ UNCHANGED <<now, session, token, blacklist, revoked>>

\* The key is looked up when the token has been decoded; 401 if it is there.
CheckBlacklist(w) ==
    /\ pc[w] = "check"
    /\ \/ /\ Blacklisted(req[w].jti)
          /\ Answer(w)
       \/ /\ ~Blacklisted(req[w].jti)
          /\ Pass(w)
    /\ UNCHANGED <<now, session, token, blacklist, revoked>>

\* What the endpoint does is in the module of its service.
Serve(w) ==
    /\ pc[w] = "serve"
    /\ Answer(w)
    /\ UNCHANGED <<now, session, token, blacklist, revoked>>

(* POST /auth/logout, past the check. *)

\* int(exp - now), of a token that decodes.
Ttl(exp) == (exp * TicksPerSecond - now) \div TicksPerSecond

\* The token is decoded again, at a later time.  setex replaces the key.
Blacklist(w) ==
    /\ pc[w] = "blacklist"
    /\ LET r == req[w]
       IN  /\ \/ /\ Decodes(r.exp) /\ Ttl(r.exp) > 0
                 /\ blacklist' = [blacklist EXCEPT ![r.jti] = now + Ttl(r.exp) * TicksPerSecond]
              \/ /\ ~(Decodes(r.exp) /\ Ttl(r.exp) > 0)
                 /\ UNCHANGED blacklist
           /\ revoked' = revoked \cup {r.jti}
           /\ Goto(w, "deactivate", [r EXCEPT !.jti = None, !.exp = 0])
    /\ UNCHANGED <<now, session, token>>

\* mutant: everybody's sessions.
EndsAny(r, s) == r.for = "logout all" \/ s = r.sid
\* deactivate_all_user_sessions, or deactivate_session.
Ends(r, s) == IF r.for = "logout all" THEN session[s].user = r.user ELSE s = r.sid

Deactivate(w) ==
    /\ pc[w] = "deactivate"
    /\ session' = [s \in Session |-> IF Ends(req[w], s) THEN [session[s] EXCEPT !.active = FALSE]
                                                        ELSE session[s]]
    /\ Answer(w)
    /\ UNCHANGED <<now, token, blacklist, revoked>>

-----------------------------------------------------------------------------
\* An await raises; what was committed or set stays.
Abort(w) ==
    /\ pc[w] # "idle"
    /\ Answer(w)
    /\ UNCHANGED <<now, session, token, blacklist, revoked>>

Tick ==
    /\ now < MaxTime
    /\ now' = now + 1
    /\ UNCHANGED <<session, token, blacklist, pc, req, revoked>>

Next == \/ Tick
        \/ \E w \in Worker :
              \/ Login(w) \/ InsertSession(w) \/ Refresh(w) \/ CommitRefresh(w)
              \/ Call(w) \/ Logout(w) \/ OpenSocket(w) \/ CheckBlacklist(w) \/ Serve(w)
              \/ Blacklist(w) \/ Deactivate(w) \/ Abort(w)

Spec == Init /\ [][Next]_vars

-----------------------------------------------------------------------------
(* Properties. *)

Row == [user : User \cup {None}, active : BOOLEAN, access : Jti \cup {None},
        refresh : Jti \cup {None}, expires : Nat]
TokenType == [jti : Jti, sid : Session, sub : User, exp : Nat]
Request == [user : User \cup {None}, sid : Session \cup {None}, jti : Jti \cup {None},
            exp : Nat, issued : Nat, for : Purpose]

\* The clock, the table, the tokens, the keys and the requests are of their types.
TypeOK ==
    /\ now \in 0..MaxTime
    /\ session \in [Session -> Row]
    /\ token \subseteq TokenType
    /\ blacklist \in [Jti -> Nat]
    /\ pc \in [Worker -> Steps]
    /\ req \in [Worker -> Request]
    /\ revoked \subseteq Jti

TokensOf(s) == {t \in token : t.sid = s}

\* The session was ended, and no refresh that found it active is under way.
Over(s) == /\ session[s].user # None /\ ~session[s].active
           /\ \A w \in Worker : ~(pc[w] = "rotate" /\ req[w].sid = s)

\* A session that is over stays over, and nobody gets another token of it,
\* whatever tokens are still presented.
OverForGood ==
    [][\A s \in Session : Over(s) => Over(s)' /\ TokensOf(s)' = TokensOf(s)]_vars

\* get_current_user_data, in each of the three services that have it, does not let
\* a token pass that was logged out before its last second, however long it takes:
\* the token may have been decoded before the logout, and the key in Redis is gone
\* before the token expires.  Nothing is said of OpenSocket and Refresh, which do
\* not look at the blacklist: what a logout does to renewals is OverForGood.
CheckRefusesRevoked ==
    [][\A w \in Worker :
          pc[w] = "check" /\ pc'[w] \in {"serve", "blacklist"} /\ req[w].jti \in revoked =>
             req[w].exp * TicksPerSecond - now < TicksPerSecond]_vars

\* Only a logout of its own user ends a session: the sub and the sid of a token
\* belong together, through every refresh.
LogoutEndsOwnSessions ==
    [][\A s \in Session : session[s].active /\ ~session'[s].active =>
          \E w \in Worker : pc[w] = "deactivate" /\ req[w].user = session[s].user]_vars

\* The tokens that a session names are good as long as the session is: none of
\* them outlives the row, whatever refreshes overlap.
RowOutlivesItsTokens ==
    \A t \in token : t.jti \in {session[t.sid].access, session[t.sid].refresh} =>
        t.exp * TicksPerSecond <= session[t.sid].expires

\* The requests implement the book of the sessions: whatever they check and
\* whenever they commit, a session goes from its holder's login to its end by its
\* holder, is renewed only for who found it live, and never comes back.
Wishes == [do : {"open", "renew", "end", "end_all"}, user : User, session : Session \cup {None}]
ASSUME WishAssumption == None \notin Wishes

WishFor(do, u, s) == [do |-> do, user |-> u, session |-> s]
WishOf(s, r) ==
    CASE s = "insert" -> WishFor("open", r.user, None)
      [] s = "rotate" -> WishFor("renew", r.user, r.sid)
      [] s \in {"blacklist", "deactivate"} ->
            WishFor(IF r.for = "logout all" THEN "end_all" ELSE "end", r.user, r.sid)
      [] OTHER -> None

StateOf(row, time) ==
    IF row.user = None THEN "unused"
    ELSE IF ~row.active THEN "ended"
    ELSE IF row.expires > time THEN "live" ELSE "lapsed"

HolderMap == [s \in Session |-> session[s].user]
StateMap == [s \in Session |-> StateOf(session[s], now)]
GrantsOf(tokens) == {[jti |-> t.jti, sid |-> t.sid, sub |-> t.sub] : t \in tokens}
WishMap == [w \in Worker |-> WishOf(pc[w], req[w])]
Book == INSTANCE SessionBook WITH
           holder <- HolderMap, state <- StateMap, granted <- GrantsOf(token), wish <- WishMap
ImplementsSessionBook == Book!Spec

(* What the code or its tests say and the handlers do not keep. *)

\* A refresh token that was exchanged for new ones is not accepted again.
ReuseIsRefused ==
    [][\A w \in Worker : pc[w] = "idle" /\ pc'[w] = "rotate" =>
          req'[w].jti \in {session[req'[w].sid].access, session[req'[w].sid].refresh}]_vars
=============================================================================
