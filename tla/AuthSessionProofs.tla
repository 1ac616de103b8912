-------------------------- MODULE AuthSessionProofs --------------------------
(***************************************************************************)
(* Proofs about AuthSession, for any users, sessions, tokens and requests  *)
(* in flight, any resolution of the clock and any token lifetimes.         *)
(***************************************************************************)
EXTENDS AuthSession, TLAPS

\* What is known of the arguments r of a request at step s, in the table ss and
\* with the tokens tt: whom it is for owns the session it names, and what it
\* presents was handed out.
RequestAt(ss, tt, s, r) ==
    /\ s \in {"insert", "rotate", "check", "blacklist", "deactivate"} => r.user \in User
    /\ s \in {"rotate", "check", "blacklist", "deactivate"} =>
          r.sid \in Session /\ ss[r.sid].user = r.user
    /\ s \in {"check", "blacklist"} =>
          \E t \in tt : t.jti = r.jti /\ t.exp = r.exp /\ t.sub = r.user /\ t.sid = r.sid

RequestsOK == \A w \in Worker : RequestAt(session, token, pc[w], req[w])

\* A token is known by its jti, and belongs to the user of its session.
TokensOK == /\ \A t \in token : session[t.sid].user = t.sub
            /\ \A t, x \in token : t.jti = x.jti => t = x
            /\ \A j \in revoked : \E t \in token : t.jti = j

IInv == TypeOK /\ RequestsOK /\ TokensOK

\* How a step may change the table and the tokens: a session keeps its user.
TableStep == /\ \A s \in Session : session[s].user # None => session'[s].user = session[s].user
             /\ token \subseteq token'

-----------------------------------------------------------------------------

\* The blank request is well-formed, and so is one that presents a token.
LEMMA RequestType ==
    /\ Blank \in Request
    /\ \A t \in TokenType : /\ Presenting(t) \in Request
                            /\ Presenting(t).user = t.sub /\ Presenting(t).sid = t.sid
                            /\ Presenting(t).jti = t.jti /\ Presenting(t).exp = t.exp
BY DEF Blank, Presenting, Request, Purpose, TokenType

\* Whole seconds of a number of ticks.
LEMMA Seconds ==
    ASSUME NEW d \in Int
    PROVE  LET q == d \div TicksPerSecond
           IN  /\ q \in Int
               /\ d >= 0 => q \in Nat
               /\ d - TicksPerSecond < q * TicksPerSecond
               /\ q > 0 \/ d < TicksPerSecond
BY ClockAssumption

\* What Pair makes are tokens of the types, with the ids, session and user given.
LEMMA PairType ==
    ASSUME NEW a \in Jti, NEW r \in Jti, NEW s \in Session, NEW u \in User, NEW issued \in Nat
    PROVE  /\ Pair(a, r, s, u, issued) \subseteq TokenType
           /\ \A t \in Pair(a, r, s, u, issued) :
                 t.jti \in {a, r} /\ t.sid = s /\ t.sub = u
           /\ a # r => \A t, x \in Pair(a, r, s, u, issued) : t.jti = x.jti => t = x
<1> DEFINE e(life) == (issued + life * TicksPerSecond) \div TicksPerSecond
<1>1. e(AccessSeconds) \in Nat /\ e(RefreshSeconds) \in Nat
  <2>1. \A life \in Nat : issued + life * TicksPerSecond \in Nat
    BY ClockAssumption
  <2>2. /\ issued + AccessSeconds * TicksPerSecond \in Nat
        /\ issued + RefreshSeconds * TicksPerSecond \in Nat
    BY <2>1, ClockAssumption
  <2> QED
    BY <2>2, Seconds
<1>2. Pair(a, r, s, u, issued) =
         {[jti |-> a, sid |-> s, sub |-> u, exp |-> e(AccessSeconds)],
          [jti |-> r, sid |-> s, sub |-> u, exp |-> e(RefreshSeconds)]}
  BY DEF Pair, Token
<1> HIDE DEF e
<1> QED
  BY <1>1, <1>2 DEF TokenType

\* A request may go on relying on what it knew, whatever the others do.
LEMMA RequestSurvives ==
    ASSUME TypeOK, TableStep, NEW s, NEW r, RequestAt(session, token, s, r)
    PROVE  RequestAt(session', token', s, r)
BY NoneAssumption DEF TableStep, RequestAt

\* Going on to a step that suits the request keeps all requests well-formed.
LEMMA GotoOK ==
    ASSUME TypeOK, RequestsOK, TableStep, NEW w \in Worker, NEW s \in Steps, NEW r \in Request,
           RequestAt(session', token', s, r), Goto(w, s, r)
    PROVE  /\ pc' \in [Worker -> Steps]
           /\ req' \in [Worker -> Request]
           /\ RequestsOK'
BY RequestSurvives DEF TypeOK, RequestsOK, Goto

\* So does answering one.
LEMMA AnswerOK ==
    ASSUME TypeOK, RequestsOK, TableStep, NEW w \in Worker, Answer(w)
    PROVE  /\ pc' \in [Worker -> Steps]
           /\ req' \in [Worker -> Request]
           /\ RequestsOK'
<1>1. RequestAt(session', token', "idle", Blank)
  BY DEF RequestAt
<1> QED
  BY <1>1, GotoOK, RequestType DEF Answer, Steps

\* The service starts without sessions and tokens.
LEMMA InitIInv == Init => IInv
BY ClockAssumption, RequestType
   DEF Init, IInv, TypeOK, RequestsOK, RequestAt, TokensOK, NoRow, Row, Steps

\* A pair of fresh tokens of the user of their session joins the others.
LEMMA PairJoins ==
    ASSUME IInv, NEW s \in Session, NEW u \in User, NEW a \in Jti, NEW r \in Jti, NEW issued \in Nat,
           Fresh(a), Fresh(r), a # r, session'[s].user = u,
           \A x \in Session : session[x].user # None => session'[x].user = session[x].user,
           \/ token' = token \cup Pair(a, r, s, u, issued)
           \/ UNCHANGED token,
           UNCHANGED revoked
    PROVE  token' \subseteq TokenType /\ TokensOK' /\ TableStep
<1> USE DEF IInv, TypeOK
<1>1. /\ \A t \in token : t \in TokenType /\ t.jti \notin {a, r}
      /\ \A t \in token : t.sid \in Session /\ session[t.sid].user # None
  BY NoneAssumption DEF Fresh, TokensOK, TokenType
<1>2. TableStep
  BY DEF TableStep
<1>3. CASE UNCHANGED token
  BY <1>1, <1>3, <1>2 DEF TokensOK
<1>4. CASE token' = token \cup Pair(a, r, s, u, issued)
  <2> DEFINE P == Pair(a, r, s, u, issued)
  <2>1. /\ P \subseteq TokenType
        /\ \A t \in P : t.jti \in {a, r} /\ t.sid = s /\ t.sub = u
        /\ \A t, x \in P : t.jti = x.jti => t = x
    BY PairType
  <2> HIDE DEF P
  <2>2. \A t \in token' : t \in token \/ t \in P
    BY <1>4 DEF P
  <2>3. \A t \in token' : session'[t.sid].user = t.sub
    BY <1>1, <2>1, <2>2 DEF TokensOK
  <2>4. \A t, x \in token' : t.jti = x.jti => t = x
    BY <1>1, <2>1, <2>2 DEF TokensOK
  <2>5. \A j \in revoked : \E t \in token' : t.jti = j
    BY <1>4 DEF TokensOK
  <2>6. token' \subseteq TokenType
    BY <1>1, <2>1, <2>2
  <2> QED
    BY <1>2, <2>3, <2>4, <2>5, <2>6 DEF TokensOK
<1> QED
  BY <1>3, <1>4

\* Every step of every request preserves the invariant.
LEMMA StepIInv == IInv /\ [Next]_vars => IInv'
<1> SUFFICES ASSUME IInv, [Next]_vars PROVE IInv'
  OBVIOUS
<1> USE DEF IInv, TypeOK
<1>1. ASSUME UNCHANGED <<session, token, revoked>> PROVE TableStep /\ TokensOK'
  BY <1>1 DEF TableStep, TokensOK
<1>2. ASSUME NEW w \in Worker, Login(w) PROVE IInv'
  <2>1. PICK u \in User : Goto(w, "insert", [Blank EXCEPT !.user = u, !.issued = now])
    BY <1>2 DEF Login
  <2> DEFINE r == [Blank EXCEPT !.user = u, !.issued = now]
  <2>2. r \in Request /\ r.user = u
    <3>1. now \in Nat
      BY ClockAssumption
    <3>2. \A v \in User, n \in Nat :
             LET x == [Blank EXCEPT !.user = v, !.issued = n]
             IN  x \in Request /\ x.user = v
      BY DEF Blank, Request, Purpose
    <3> QED
      BY <3>1, <3>2
  <2>3. RequestAt(session', token', "insert", r)
    BY <2>2 DEF RequestAt
  <2> HIDE DEF r
  <2> QED
    BY <1>1, <1>2, <2>1, <2>2, <2>3, GotoOK DEF Login, Steps, r
<1>3. ASSUME NEW w \in Worker, InsertSession(w) PROVE IInv'
  <2>1. PICK s \in Session, a \in Jti, q \in Jti :
           /\ session[s].user = None
           /\ Fresh(a) /\ Fresh(q) /\ a # q
           /\ session' = [session EXCEPT ![s] =
                 [user |-> req[w].user, active |-> TRUE, access |-> a, refresh |-> q,
                  expires |-> req[w].issued + RefreshSeconds * TicksPerSecond]]
           /\ \/ token' = token \cup Pair(a, q, s, req[w].user, req[w].issued)
              \/ UNCHANGED token
    BY <1>3 DEF InsertSession
  <2>2. req[w].user \in User /\ req[w].issued \in Nat
    BY <1>3 DEF InsertSession, RequestsOK, RequestAt, Request
  <2>3. req[w].issued + RefreshSeconds * TicksPerSecond \in Nat
    BY <2>2, ClockAssumption
  <2>4. session' \in [Session -> Row] /\ session'[s].user = req[w].user
    BY <2>1, <2>2, <2>3 DEF Row
  <2>5. \A x \in Session : session[x].user # None => session'[x].user = session[x].user
    BY <2>1
  <2>6. token' \subseteq TokenType /\ TokensOK' /\ TableStep
    BY <1>3, <2>1, <2>2, <2>4, <2>5, PairJoins DEF InsertSession
  <2> QED
    BY <1>3, <2>4, <2>6, AnswerOK DEF InsertSession
<1>4. ASSUME NEW w \in Worker, Refresh(w) PROVE IInv'
  <2>1. PICK t \in token :
           /\ Active(t.sid)
           /\ Goto(w, "rotate", [Presenting(t) EXCEPT !.user = session[t.sid].user, !.issued = now])
    BY <1>4 DEF Refresh
  <2> DEFINE r == [Presenting(t) EXCEPT !.user = session[t.sid].user, !.issued = now]
  <2>2. t \in TokenType /\ t.sid \in Session /\ session[t.sid].user = t.sub /\ t.sub \in User
    BY DEF TokensOK, TokenType
  <2>3. r \in Request /\ r.user = t.sub /\ r.sid = t.sid
    <3>1. now \in Nat
      BY ClockAssumption
    <3> DEFINE p == Presenting(t)
    <3>2. p \in Request /\ p.sid = t.sid
      BY <2>2, RequestType
    <3> HIDE DEF p
    <3>3. \A u \in User, n \in Nat :
             LET x == [p EXCEPT !.user = u, !.issued = n]
             IN  x \in Request /\ x.user = u /\ x.sid = p.sid
      BY <3>2 DEF Request
    <3> QED
      BY <2>2, <3>1, <3>2, <3>3 DEF p
  <2> HIDE DEF r
  <2>4. RequestAt(session', token', "rotate", r)
    BY <1>4, <2>2, <2>3 DEF RequestAt, Refresh
  <2> QED
    BY <1>1, <1>4, <2>1, <2>3, <2>4, GotoOK DEF Refresh, Steps, r
<1>5. ASSUME NEW w \in Worker, CommitRefresh(w) PROVE IInv'
  <2>1. PICK a \in Jti, q \in Jti :
           /\ Fresh(a) /\ Fresh(q) /\ a # q
           /\ session' = [session EXCEPT ![req[w].sid] = Rotated(@, a, q, req[w].issued)]
           /\ \/ token' = token \cup Pair(a, q, req[w].sid, req[w].user, req[w].issued)
              \/ UNCHANGED token
    BY <1>5 DEF CommitRefresh
  <2>2. /\ req[w].sid \in Session /\ req[w].user \in User /\ req[w].issued \in Nat
        /\ session[req[w].sid].user = req[w].user
    BY <1>5 DEF CommitRefresh, RequestsOK, RequestAt, Request
  <2>3. req[w].issued + RefreshSeconds * TicksPerSecond \in Nat
    BY <2>2, ClockAssumption
  <2>4. session' \in [Session -> Row]
    BY <2>1, <2>2, <2>3 DEF Row, Rotated
  <2>5. \A x \in Session : session'[x].user = session[x].user
    BY <2>1, <2>2 DEF Rotated, Row
  <2>6. token' \subseteq TokenType /\ TokensOK' /\ TableStep
    BY <1>5, <2>1, <2>2, <2>5, PairJoins DEF CommitRefresh
  <2> QED
    BY <1>5, <2>4, <2>6, AnswerOK DEF CommitRefresh
<1>6. ASSUME NEW w \in Worker, NEW purpose \in Purpose, Present(w, purpose) PROVE IInv'
  <2>1. PICK t \in token : Goto(w, "check", [Presenting(t) EXCEPT !.for = purpose])
    BY <1>6 DEF Present
  <2> DEFINE r == [Presenting(t) EXCEPT !.for = purpose]
  <2>2. t \in TokenType /\ t.sid \in Session /\ session[t.sid].user = t.sub /\ t.sub \in User
    BY DEF TokensOK, TokenType
  <2>3. r \in Request /\ r.user = t.sub /\ r.sid = t.sid /\ r.jti = t.jti /\ r.exp = t.exp
    BY <2>2, RequestType DEF Request
  <2> HIDE DEF r
  <2>4. RequestAt(session', token', "check", r)
    BY <1>6, <2>2, <2>3 DEF RequestAt, Present
  <2> QED
    BY <1>1, <1>6, <2>1, <2>3, <2>4, GotoOK DEF Present, Steps, r
<1>12. ASSUME NEW w \in Worker, CheckBlacklist(w) PROVE IInv'
  <2>1. /\ req[w] \in Request /\ RequestAt(session, token, "check", req[w])
        /\ UNCHANGED <<now, session, token, blacklist, revoked>>
    BY <1>12 DEF CheckBlacklist, RequestsOK
  <2>2. TableStep /\ TokensOK'
    BY <1>1, <2>1
  <2>3. RequestAt(session', token', "blacklist", req[w]) /\ RequestAt(session', token', "serve", Blank)
    BY <2>1 DEF RequestAt
  <2>4. CASE Answer(w)
    BY <2>1, <2>2, <2>4, AnswerOK
  <2>5. CASE Goto(w, "serve", Blank)
    BY <2>1, <2>2, <2>3, <2>5, GotoOK, RequestType DEF Steps
  <2>6. CASE Goto(w, "blacklist", req[w])
    BY <2>1, <2>2, <2>3, <2>6, GotoOK DEF Steps
  <2> QED
    BY <1>12, <2>4, <2>5, <2>6 DEF CheckBlacklist, Pass
<1>13. ASSUME NEW w \in Worker, Serve(w) PROVE IInv'
  BY <1>1, <1>13, AnswerOK DEF Serve
<1>14. ASSUME NEW w \in Worker, OpenSocket(w) PROVE IInv'
  <2>1. RequestAt(session', token', "serve", Blank)
    BY DEF RequestAt
  <2> QED
    BY <1>1, <1>14, <2>1, GotoOK, RequestType DEF OpenSocket, Steps
<1>7. ASSUME NEW w \in Worker, Blacklist(w) PROVE IInv'
  <2>1. /\ req[w] \in Request /\ RequestAt(session, token, "blacklist", req[w])
        /\ req[w].jti \in Jti /\ req[w].exp \in Nat
    BY <1>7 DEF Blacklist, RequestsOK, RequestAt, TokenType
  <2>2. blacklist' \in [Jti -> Nat]
    <3>1. CASE Decodes(req[w].exp) /\ Ttl(req[w].exp) > 0
      <4>1. Ttl(req[w].exp) \in Nat
        <5>1. req[w].exp * TicksPerSecond - now \in Int
          BY <2>1, ClockAssumption
        <5> QED
          BY <3>1, <5>1, Seconds DEF Ttl
      <4>2. now + Ttl(req[w].exp) * TicksPerSecond \in Nat
        BY <4>1, ClockAssumption
      <4> QED
        BY <1>7, <3>1, <4>2 DEF Blacklist
    <3> QED
      BY <1>7, <3>1 DEF Blacklist
  <2>3. TableStep
    BY <1>7 DEF Blacklist, TableStep
  <2> DEFINE r == [req[w] EXCEPT !.jti = None, !.exp = 0]
  <2>7. r \in Request /\ r.user = req[w].user /\ r.sid = req[w].sid
    BY <2>1 DEF Request
  <2> HIDE DEF r
  <2>4. RequestAt(session', token', "deactivate", r)
    BY <1>7, <2>1, <2>7 DEF Blacklist, RequestAt
  <2>5. TokensOK' /\ revoked' \subseteq Jti
    BY <1>7, <2>1 DEF Blacklist, TokensOK, RequestAt
  <2>6. pc' \in [Worker -> Steps] /\ req' \in [Worker -> Request] /\ RequestsOK'
    BY <1>7, <2>3, <2>4, <2>7, GotoOK DEF Blacklist, Steps, r
  <2> QED
    BY <1>7, <2>2, <2>5, <2>6 DEF Blacklist
<1>8. ASSUME NEW w \in Worker, Deactivate(w) PROVE IInv'
  <2>1. /\ session' \in [Session -> Row]
        /\ \A s \in Session : session'[s].user = session[s].user
    BY <1>8 DEF Deactivate, Row
  <2>2. TableStep /\ TokensOK'
    <3>1. \A t \in token : t.sid \in Session
      BY DEF TokenType
    <3> QED
      BY <1>8, <2>1, <3>1 DEF Deactivate, TableStep, TokensOK
  <2> QED
    BY <1>8, <2>1, <2>2, AnswerOK DEF Deactivate
<1>9. ASSUME NEW w \in Worker, Abort(w) PROVE IInv'
  BY <1>1, <1>9, AnswerOK DEF Abort
<1>10. CASE Tick
  <2>1. now' \in 0..MaxTime
    BY <1>10, ClockAssumption DEF Tick
  <2> QED
    BY <1>1, <1>10, <2>1 DEF Tick, RequestsOK
<1>11. CASE UNCHANGED vars
  BY <1>1, <1>11 DEF vars, RequestsOK
<1> QED
  BY <1>2, <1>3, <1>4, <1>5, <1>6, <1>7, <1>8, <1>9, <1>10, <1>11, <1>12, <1>13, <1>14
     DEF Next, Call, Logout, Purpose

\* The inductive invariant holds in every reachable state.
THEOREM Invariance == Spec => []IInv
BY InitIInv, StepIInv, PTL DEF Spec

\* Every variable keeps its type (user_sessions, the JWTs, the keys in Redis).
THEOREM TypeCorrect == Spec => []TypeOK
<1>1. IInv => TypeOK
  BY DEF IInv
<1> QED
  BY Invariance, <1>1, PTL

-----------------------------------------------------------------------------
(* The end of a session. *)

\* In one step a session that is over stays over, and gets no token.
LEMMA StepOver ==
    ASSUME IInv, Next, NEW s \in Session, Over(s)
    PROVE  Over(s)' /\ TokensOf(s)' = TokensOf(s)
<1> USE DEF IInv, TypeOK
<1>1. ASSUME UNCHANGED <<session, token>>,
             \A w \in Worker : pc'[w] = "rotate" =>
                (pc[w] = "rotate" /\ req'[w] = req[w]) \/ Active(req'[w].sid)
      PROVE  Over(s)' /\ TokensOf(s)' = TokensOf(s)
  BY <1>1 DEF Over, TokensOf, Active
<1>2. ASSUME NEW w \in Worker, NEW p \in Steps, NEW r, Goto(w, p, r),
             p # "rotate" \/ Active(r.sid),
             UNCHANGED <<session, token>>
      PROVE  Over(s)' /\ TokensOf(s)' = TokensOf(s)
  BY <1>1, <1>2 DEF Goto
<1>3. ASSUME NEW w \in Worker, Answer(w), session'[s] = session[s],
             \A t \in token' : t \in token \/ t.sid # s, token \subseteq token'
      PROVE  Over(s)' /\ TokensOf(s)' = TokensOf(s)
  <2>1. \A v \in Worker : pc'[v] = "rotate" => pc[v] = "rotate" /\ req'[v] = req[v]
    BY <1>3 DEF Answer, Goto
  <2>2. Over(s)'
    BY <1>3, <2>1 DEF Over
  <2>3. TokensOf(s)' = TokensOf(s)
    BY <1>3 DEF TokensOf
  <2> QED
    BY <2>2, <2>3
<1>4. ASSUME NEW w \in Worker, Login(w) PROVE Over(s)' /\ TokensOf(s)' = TokensOf(s)
  BY <1>2, <1>4 DEF Login, Steps
<1>5. ASSUME NEW w \in Worker, InsertSession(w) PROVE Over(s)' /\ TokensOf(s)' = TokensOf(s)
  <2>1. PICK x \in Session, a \in Jti, q \in Jti :
           /\ session[x].user = None
           /\ \A y \in Session : y # x => session'[y] = session[y]
           /\ \/ token' = token \cup Pair(a, q, x, req[w].user, req[w].issued)
              \/ UNCHANGED token
    BY <1>5 DEF InsertSession
  <2>2. x # s /\ Answer(w)
    BY <1>5, <2>1 DEF Over, InsertSession
  <2>3. req[w].user \in User /\ req[w].issued \in Nat
    BY <1>5 DEF InsertSession, RequestsOK, RequestAt, Request
  <2> QED
    BY <1>3, <2>1, <2>2, <2>3, PairType
<1>6. ASSUME NEW w \in Worker, Refresh(w) PROVE Over(s)' /\ TokensOf(s)' = TokensOf(s)
  <2>1. PICK t \in token :
           /\ Active(t.sid)
           /\ Goto(w, "rotate", [Presenting(t) EXCEPT !.user = session[t.sid].user, !.issued = now])
           /\ UNCHANGED <<session, token>>
    BY <1>6 DEF Refresh
  <2>2. [Presenting(t) EXCEPT !.user = session[t.sid].user, !.issued = now].sid = t.sid
    BY DEF Presenting, Blank
  <2> QED
    BY <1>2, <2>1, <2>2 DEF Steps
<1>7. ASSUME NEW w \in Worker, CommitRefresh(w) PROVE Over(s)' /\ TokensOf(s)' = TokensOf(s)
  <2>1. req[w].sid # s /\ Answer(w)
    BY <1>7 DEF Over, CommitRefresh
  <2>2. PICK a \in Jti, q \in Jti :
           /\ session' = [session EXCEPT ![req[w].sid] = Rotated(@, a, q, req[w].issued)]
           /\ \/ token' = token \cup Pair(a, q, req[w].sid, req[w].user, req[w].issued)
              \/ UNCHANGED token
    BY <1>7 DEF CommitRefresh
  <2>3. req[w].user \in User /\ req[w].issued \in Nat /\ req[w].sid \in Session
    BY <1>7 DEF CommitRefresh, RequestsOK, RequestAt, Request
  <2>4. session'[s] = session[s]
    BY <2>1, <2>2
  <2> QED
    BY <1>3, <2>1, <2>2, <2>3, <2>4, PairType
<1>8. ASSUME NEW w \in Worker,
             Call(w) \/ Logout(w) \/ OpenSocket(w) \/ CheckBlacklist(w) \/ Serve(w) \/ Blacklist(w)
      PROVE  Over(s)' /\ TokensOf(s)' = TokensOf(s)
  <2>1. UNCHANGED <<session, token>>
    BY <1>8 DEF Call, Logout, OpenSocket, Present, CheckBlacklist, Serve, Blacklist
  <2>2. \E p \in Steps : \E r : Goto(w, p, r) /\ p # "rotate"
    BY <1>8 DEF Call, Logout, OpenSocket, Present, CheckBlacklist, Pass, Answer, Serve, Blacklist, Steps
  <2> QED
    BY <1>2, <2>1, <2>2
<1>9. ASSUME NEW w \in Worker, Deactivate(w) PROVE Over(s)' /\ TokensOf(s)' = TokensOf(s)
  <2>1. session'[s] = session[s]
    <3>1. session[s] \in Row /\ session[s].active = FALSE
      BY DEF Over, Row
    <3>2. [session[s] EXCEPT !.active = FALSE] = session[s]
      BY <3>1 DEF Row
    <3> QED
      BY <1>9, <3>2 DEF Deactivate
  <2> QED
    BY <1>3, <1>9, <2>1 DEF Deactivate
<1>10. ASSUME NEW w \in Worker, Abort(w) PROVE Over(s)' /\ TokensOf(s)' = TokensOf(s)
  BY <1>3, <1>10 DEF Abort
<1>11. CASE Tick
  BY <1>1, <1>11 DEF Tick
<1> QED
  BY <1>4, <1>5, <1>6, <1>7, <1>8, <1>9, <1>10, <1>11 DEF Next

\* When a session was logged out and the refreshes that had found it active are
\* done, no token presented later brings it back or gets another token of it.
THEOREM SessionsEnd == Spec => OverForGood
<1>1. IInv /\ [Next]_vars =>
         [\A s \in Session : Over(s) => Over(s)' /\ TokensOf(s)' = TokensOf(s)]_vars
  BY StepOver
<1> QED
  BY Invariance, <1>1, PTL DEF Spec, OverForGood

\* A session is ended only by a logout of its own user.
THEOREM OwnLogout == Spec => LogoutEndsOwnSessions
<1> DEFINE Goal == \A s \in Session : session[s].active /\ ~session'[s].active =>
                      \E w \in Worker : pc[w] = "deactivate" /\ req[w].user = session[s].user
<1>1. ASSUME IInv, Next PROVE Goal
  <2> USE DEF IInv, TypeOK
  <2>1. ASSUME NEW w \in Worker, Deactivate(w) PROVE Goal
    <3>1. pc[w] = "deactivate" /\ session[req[w].sid].user = req[w].user
      BY <1>1, <2>1 DEF Deactivate, RequestsOK, RequestAt
    <3> QED
      BY <1>1, <2>1, <3>1 DEF Deactivate, Ends
  <2>2. ASSUME NEW w \in Worker, InsertSession(w) PROVE Goal
    BY <1>1, <2>2 DEF InsertSession
  <2>3. ASSUME NEW w \in Worker, CommitRefresh(w) PROVE Goal
    <3>1. PICK a \in Jti, q \in Jti :
             session' = [session EXCEPT ![req[w].sid] = Rotated(@, a, q, req[w].issued)]
      BY <2>3 DEF CommitRefresh
    <3>2. req[w].sid \in Session /\ session[req[w].sid] \in Row
      BY <1>1, <2>3 DEF CommitRefresh, RequestsOK, RequestAt
    <3>3. Rotated(session[req[w].sid], a, q, req[w].issued).active = session[req[w].sid].active
      BY <3>2 DEF Rotated, Row
    <3> QED
      BY <1>1, <3>1, <3>2, <3>3
  <2>4. CASE UNCHANGED session
    BY <2>4
  <2> QED
    BY <1>1, <2>1, <2>2, <2>3, <2>4
       DEF Next, Tick, Login, Refresh, Call, Logout, OpenSocket, Present, CheckBlacklist, Serve, Blacklist, Abort
<1>2. IInv /\ [Next]_vars => [Goal]_vars
  BY <1>1
<1> QED
  BY Invariance, <1>2, PTL DEF Spec, LogoutEndsOwnSessions

-----------------------------------------------------------------------------
(* The lifetimes of the row and of the tokens that it names. *)

\* No token of a pair is good for longer than the session that is written with it.
LEMMA PairLifetime ==
    ASSUME NEW a, NEW r, NEW s, NEW u, NEW issued \in Nat
    PROVE  \A t \in Pair(a, r, s, u, issued) :
              t.exp * TicksPerSecond <= issued + RefreshSeconds * TicksPerSecond
<1>1. ASSUME NEW life \in Nat, life <= RefreshSeconds
      PROVE  ((issued + life * TicksPerSecond) \div TicksPerSecond) * TicksPerSecond
                <= issued + RefreshSeconds * TicksPerSecond
  <2> DEFINE d == issued + life * TicksPerSecond
  <2>1. d \in Nat /\ life * TicksPerSecond <= RefreshSeconds * TicksPerSecond
    BY <1>1, ClockAssumption
  <2>2. (d \div TicksPerSecond) * TicksPerSecond <= d
    <3> HIDE DEF d
    <3> QED
      BY <2>1, ClockAssumption
  <2>3. d \div TicksPerSecond \in Int /\ RefreshSeconds * TicksPerSecond \in Nat
    BY <2>1, ClockAssumption
  <2>4. (d \div TicksPerSecond) * TicksPerSecond \in Int
    BY <2>3, ClockAssumption
  <2>5. d <= issued + RefreshSeconds * TicksPerSecond
    BY <2>1, <2>3, ClockAssumption
  <2> HIDE DEF d
  <2> QED
    BY <2>1, <2>2, <2>3, <2>4, <2>5 DEF d
<1>2. \A t \in Pair(a, r, s, u, issued) :
         \/ t.exp = (issued + AccessSeconds * TicksPerSecond) \div TicksPerSecond
         \/ t.exp = (issued + RefreshSeconds * TicksPerSecond) \div TicksPerSecond
  BY DEF Pair, Token
<1> QED
  BY <1>1, <1>2, ClockAssumption

\* A session whose row gets the ids a and r, with the tokens of these or without.
LEMMA RowWritten ==
    ASSUME IInv, RowOutlivesItsTokens, NEW s \in Session, NEW u \in User,
           NEW a \in Jti, NEW r \in Jti, NEW issued \in Nat, Fresh(a), Fresh(r),
           session'[s].access = a, session'[s].refresh = r,
           session'[s].expires = issued + RefreshSeconds * TicksPerSecond,
           \A x \in Session : x # s => session'[x] = session[x],
           \/ token' = token \cup Pair(a, r, s, u, issued)
           \/ UNCHANGED token
    PROVE  RowOutlivesItsTokens'
<1> DEFINE P == Pair(a, r, s, u, issued)
<1>1. \A t \in P : /\ t.sid = s
                    /\ t.exp * TicksPerSecond <= issued + RefreshSeconds * TicksPerSecond
  BY PairType, PairLifetime
<1>2. \A t \in token : t.sid \in Session /\ t.jti \notin {a, r}
  BY DEF IInv, TypeOK, TokenType, Fresh
<1> HIDE DEF P
<1>3. \A t \in token' : t \in token \/ t \in P
  BY DEF P
<1>4. ASSUME NEW t \in token', t.jti \in {session'[t.sid].access, session'[t.sid].refresh}
      PROVE  t.exp * TicksPerSecond <= session'[t.sid].expires
  <2>1. CASE t \in P
    BY <1>1, <2>1
  <2>2. CASE t \in token
    BY <1>2, <1>4, <2>2 DEF RowOutlivesItsTokens
  <2> QED
    BY <1>3, <2>1, <2>2
<1> QED
  BY <1>4 DEF RowOutlivesItsTokens

\* Only what writes a row or hands out tokens can disturb it.
LEMMA StepRowOutlives == IInv /\ RowOutlivesItsTokens /\ [Next]_vars => RowOutlivesItsTokens'
<1> SUFFICES ASSUME IInv, RowOutlivesItsTokens, [Next]_vars PROVE RowOutlivesItsTokens'
  OBVIOUS
<1> USE DEF IInv, TypeOK
<1>1. CASE UNCHANGED <<session, token>>
  BY <1>1 DEF RowOutlivesItsTokens
<1>2. ASSUME NEW w \in Worker, InsertSession(w) PROVE RowOutlivesItsTokens'
  <2>1. req[w].user \in User /\ req[w].issued \in Nat
    BY <1>2 DEF InsertSession, RequestsOK, RequestAt, Request
  <2>2. PICK s \in Session, a \in Jti, q \in Jti :
           /\ Fresh(a) /\ Fresh(q)
           /\ session' = [session EXCEPT ![s] =
                 [user |-> req[w].user, active |-> TRUE, access |-> a, refresh |-> q,
                  expires |-> req[w].issued + RefreshSeconds * TicksPerSecond]]
           /\ \/ token' = token \cup Pair(a, q, s, req[w].user, req[w].issued)
              \/ UNCHANGED token
    BY <1>2 DEF InsertSession
  <2> QED
    BY <2>1, <2>2, RowWritten
<1>3. ASSUME NEW w \in Worker, CommitRefresh(w) PROVE RowOutlivesItsTokens'
  <2>1. /\ req[w].user \in User /\ req[w].issued \in Nat /\ req[w].sid \in Session
        /\ session[req[w].sid] \in Row
    BY <1>3 DEF CommitRefresh, RequestsOK, RequestAt, Request
  <2>2. PICK a \in Jti, q \in Jti :
           /\ Fresh(a) /\ Fresh(q)
           /\ session' = [session EXCEPT ![req[w].sid] = Rotated(@, a, q, req[w].issued)]
           /\ \/ token' = token \cup Pair(a, q, req[w].sid, req[w].user, req[w].issued)
              \/ UNCHANGED token
    BY <1>3 DEF CommitRefresh
  <2>3. LET row == Rotated(session[req[w].sid], a, q, req[w].issued)
        IN  /\ row.access = a /\ row.refresh = q
            /\ row.expires = req[w].issued + RefreshSeconds * TicksPerSecond
    BY <2>1 DEF Rotated, Row
  <2> QED
    BY <2>1, <2>2, <2>3, RowWritten
<1>4. ASSUME NEW w \in Worker, Deactivate(w) PROVE RowOutlivesItsTokens'
  <2>1. \A s \in Session : /\ session'[s].access = session[s].access
                            /\ session'[s].refresh = session[s].refresh
                            /\ session'[s].expires = session[s].expires
    BY <1>4 DEF Deactivate, Row
  <2>2. \A t \in token : t.sid \in Session
    BY DEF TokenType
  <2> QED
    BY <1>4, <2>1, <2>2 DEF Deactivate, RowOutlivesItsTokens
<1> QED
  BY <1>1, <1>2, <1>3, <1>4
     DEF Next, Tick, Login, Refresh, Call, Logout, OpenSocket, Present, CheckBlacklist, Serve, Blacklist,
         Abort, vars

\* The session ends no sooner than any token that its row names, in whatever order
\* overlapping refreshes commit.
THEOREM RowOutlives == Spec => []RowOutlivesItsTokens
<1>1. Init => RowOutlivesItsTokens
  BY DEF Init, RowOutlivesItsTokens
<1> QED
  BY Invariance, <1>1, StepRowOutlives, PTL DEF Spec

-----------------------------------------------------------------------------
(* The blacklist. *)

\* The key of a token that was logged out expires in the last second of the
\* token, unless that second had begun.
BlacklistInv ==
    \A t \in token : t.jti \in revoked =>
        \/ blacklist[t.jti] > t.exp * TicksPerSecond - TicksPerSecond
        \/ t.exp * TicksPerSecond - now < TicksPerSecond

\* Only a logout changes a key, and time only brings the last second nearer.
LEMMA StepBlacklist == IInv /\ BlacklistInv /\ [Next]_vars => BlacklistInv'
<1> SUFFICES ASSUME IInv, BlacklistInv, [Next]_vars PROVE BlacklistInv'
  OBVIOUS
<1> USE DEF IInv, TypeOK
<1>1. \A t \in token : t.exp \in Nat /\ t.jti \in Jti /\ t.exp * TicksPerSecond \in Int
  BY ClockAssumption DEF TokenType
<1>2. ASSUME UNCHANGED <<blacklist, revoked, now>>,
             \A t \in token' : t \in token \/ t.jti \notin revoked
      PROVE  BlacklistInv'
  BY <1>2 DEF BlacklistInv
<1>3. ASSUME NEW w \in Worker, InsertSession(w) \/ CommitRefresh(w) PROVE BlacklistInv'
  <2>1. PICK a \in Jti, q \in Jti :
           /\ Fresh(a) /\ Fresh(q)
           /\ \A t \in token' : t \in token \/ t.jti \in {a, q}
    <3>1. CASE InsertSession(w)
      BY <3>1 DEF InsertSession, Pair, Token
    <3>2. CASE CommitRefresh(w)
      BY <3>2 DEF CommitRefresh, Pair, Token
    <3> QED
      BY <1>3, <3>1, <3>2
  <2>2. a \notin revoked /\ q \notin revoked
    BY <2>1 DEF Fresh, TokensOK
  <2> QED
    BY <1>2, <1>3, <2>1, <2>2 DEF InsertSession, CommitRefresh
<1>4. ASSUME NEW w \in Worker, Blacklist(w) PROVE BlacklistInv'
  <2> DEFINE j == req[w].jti
             e == req[w].exp
             d == e * TicksPerSecond - now
  <2>1. PICK t \in token : t.jti = j /\ t.exp = e
    BY <1>4 DEF Blacklist, RequestsOK, RequestAt
  <2>2. d \in Int /\ e \in Nat /\ j \in Jti
    BY <1>1, <2>1, ClockAssumption
  <2>3. /\ Ttl(e) \in Int
        /\ d - TicksPerSecond < Ttl(e) * TicksPerSecond
        /\ Ttl(e) > 0 \/ d < TicksPerSecond
    BY <2>2, Seconds DEF Ttl
  <2>4. UNCHANGED <<now, token>> /\ revoked' = revoked \cup {j}
    BY <1>4 DEF Blacklist
  <2>5. \A x \in token : x.jti # j => blacklist'[x.jti] = blacklist[x.jti]
    BY <1>4, <1>1 DEF Blacklist
  <2>6. blacklist'[j] > e * TicksPerSecond - TicksPerSecond \/ d < TicksPerSecond
    <3>1. CASE Decodes(e) /\ Ttl(e) > 0
      <4>1. blacklist'[j] = now + Ttl(e) * TicksPerSecond
        BY <1>4, <2>2, <3>1 DEF Blacklist
      <4>2. now \in Int /\ e * TicksPerSecond \in Int /\ Ttl(e) * TicksPerSecond \in Int
        BY <1>1, <2>1, <2>3, ClockAssumption
      <4> QED
        BY <2>3, <4>1, <4>2, ClockAssumption
    <3>2. CASE ~Decodes(e)
      <4>1. ~(e * TicksPerSecond > now) /\ e * TicksPerSecond \in Int /\ now \in Int
        BY <1>1, <2>1, <3>2, ClockAssumption DEF Decodes
      <4> QED
        BY <4>1, ClockAssumption
    <3> QED
      BY <2>3, <3>1, <3>2
  <2>7. ASSUME NEW x \in token, x.jti \in revoked'
        PROVE  \/ blacklist'[x.jti] > x.exp * TicksPerSecond - TicksPerSecond
               \/ x.exp * TicksPerSecond - now < TicksPerSecond
    <3>1. CASE x.jti = j
      <4>1. x = t
        BY <2>1, <3>1 DEF TokensOK
      <4> QED
        BY <2>1, <2>6, <4>1
    <3>2. CASE x.jti # j
      BY <2>4, <2>5, <2>7, <3>2 DEF BlacklistInv
    <3> QED
      BY <3>1, <3>2
  <2> QED
    BY <2>4, <2>7 DEF BlacklistInv
<1>5. CASE Tick
  <2>1. UNCHANGED <<blacklist, revoked, token>> /\ now' = now + 1 /\ now \in Int
    BY <1>5, ClockAssumption DEF Tick
  <2> QED
    BY <1>1, <2>1, ClockAssumption DEF BlacklistInv
<1> QED
  BY <1>2, <1>3, <1>4, <1>5 DEF Next, Login, Refresh, Call, Logout, OpenSocket, Present, CheckBlacklist, Serve, Deactivate, Abort, vars

\* A token that was logged out does not pass get_current_user_data until its last
\* second begins, whatever time the logout came, and if it was logged out twice.
\* The admissions that ask no blacklist, OpenSocket and Refresh, are not meant.
THEOREM RevokedFailsCheck == Spec => CheckRefusesRevoked
<1> DEFINE Goal == \A w \in Worker :
               pc[w] = "check" /\ pc'[w] \in {"serve", "blacklist"} /\ req[w].jti \in revoked =>
                  req[w].exp * TicksPerSecond - now < TicksPerSecond
<1>1. Init => BlacklistInv
  BY DEF Init, BlacklistInv
<1>2. ASSUME IInv, BlacklistInv, [Next]_vars,
             NEW w \in Worker, pc[w] = "check", pc'[w] \in {"serve", "blacklist"},
             req[w].jti \in revoked
      PROVE  req[w].exp * TicksPerSecond - now < TicksPerSecond
  <2> USE DEF IInv, TypeOK
  <2>1. CheckBlacklist(w)
    <3>1. ASSUME NEW v \in Worker, NEW p, NEW r, Goto(v, p, r), pc[v] # "check" \/ p = "idle"
          PROVE  FALSE
      <4>1. v # w
        BY <1>2, <3>1 DEF Goto
      <4> QED
        BY <1>2, <3>1, <4>1 DEF Goto
    <3>2. ASSUME NEW v \in Worker, CheckBlacklist(v) PROVE v = w
      BY <1>2, <3>2 DEF CheckBlacklist, Pass, Answer, Goto
    <3> QED
      BY <1>2, <3>1, <3>2
         DEF Next, Tick, vars, Login, InsertSession, Refresh, CommitRefresh, Call, Logout, OpenSocket, Present,
             Serve, Blacklist, Deactivate, Abort, Answer
  <2>2. PICK t \in token : t.jti = req[w].jti /\ t.exp = req[w].exp
    BY <1>2 DEF RequestsOK, RequestAt
  <2>3. /\ t.exp * TicksPerSecond \in Int /\ now \in Int /\ blacklist[t.jti] \in Int
        /\ TicksPerSecond \in Int
    BY <1>2, ClockAssumption DEF TokenType
  <2>4. ~(blacklist[t.jti] > now)
    BY <1>2, <2>1, <2>2 DEF CheckBlacklist, Blacklisted, Answer, Goto
  <2>5. \/ blacklist[t.jti] > t.exp * TicksPerSecond - TicksPerSecond
        \/ t.exp * TicksPerSecond - now < TicksPerSecond
    BY <1>2, <2>2 DEF BlacklistInv
  <2> QED
    BY <2>2, <2>3, <2>4, <2>5
<1>3. IInv /\ BlacklistInv /\ [Next]_vars => [Goal]_vars
  BY <1>2
<1> QED
  BY Invariance, <1>1, <1>3, StepBlacklist, PTL DEF Spec, CheckRefusesRevoked

-----------------------------------------------------------------------------
(* The book of the sessions. *)

Nothing == UNCHANGED <<HolderMap, StateMap, GrantsOf(token), WishMap>>

\* What a request at step s with the arguments r wants, as the book sees it.
LEMMA WishFacts ==
    ASSUME NEW s, NEW r, r.user \in User, r.sid \in Session \cup {None}
    PROVE  /\ s = "insert" => WishOf(s, r) = WishFor("open", r.user, None)
           /\ s = "rotate" => WishOf(s, r) = WishFor("renew", r.user, r.sid)
           /\ s \in {"blacklist", "deactivate"} /\ r.for = "logout all" =>
                 WishOf(s, r) = WishFor("end_all", r.user, r.sid)
           /\ s \in {"blacklist", "deactivate"} /\ r.for # "logout all" =>
                 WishOf(s, r) = WishFor("end", r.user, r.sid)
           /\ s \in {"insert", "rotate", "blacklist", "deactivate"} => WishOf(s, r) # None
<1>1. \A do \in {"open", "renew", "end", "end_all"}, x \in Session \cup {None} :
         WishFor(do, r.user, x) # None
  <2>1. \A do \in {"open", "renew", "end", "end_all"}, x \in Session \cup {None} :
           WishFor(do, r.user, x) \in Wishes
    BY DEF WishFor, Wishes
  <2> QED
    BY <2>1, WishAssumption
<1> QED
  BY <1>1 DEF WishOf

\* The others want nothing.
LEMMA NoWish ==
    ASSUME NEW s \in {"idle", "check", "serve"}, NEW r
    PROVE  WishOf(s, r) = None
BY DEF WishOf

\* A request that goes on changes its own wish only.
LEMMA WishAfter ==
    ASSUME TypeOK, NEW w \in Worker, NEW s, NEW r, Goto(w, s, r)
    PROVE  /\ WishMap' = [WishMap EXCEPT ![w] = WishOf(s, r)]
           /\ WishOf(s, r) = WishOf(pc[w], req[w]) => WishMap' = WishMap
<1>1. \A v \in Worker : pc'[v] = (IF v = w THEN s ELSE pc[v]) /\ req'[v] = (IF v = w THEN r ELSE req[v])
  BY DEF TypeOK, Goto
<1>2. WishMap' = [v \in Worker |-> WishOf(pc'[v], req'[v])]
  BY DEF WishMap, WishOf, WishFor
<1> QED
  BY <1>1, <1>2 DEF WishMap

\* Without a change of the clock, the table and the tokens the book has no other news.
LEMMA BookStays ==
    ASSUME UNCHANGED <<now, session, token>>
    PROVE  UNCHANGED <<HolderMap, StateMap, GrantsOf(token)>>
BY DEF HolderMap, StateMap, StateOf, GrantsOf

\* A request that is answered has no wish any more; some never had one.
LEMMA Answered ==
    ASSUME TypeOK, NEW w \in Worker, Answer(w), UNCHANGED <<now, session, token>>
    PROVE  Nothing \/ Book!GiveUp(w)
<1>1. WishOf("idle", Blank) = None
  BY NoWish
<1>2. WishMap' = [WishMap EXCEPT ![w] = None]
  BY <1>1, WishAfter DEF Answer
<1>3. UNCHANGED <<HolderMap, StateMap, GrantsOf(token)>>
  BY BookStays
<1>4. CASE WishMap[w] = None
  BY <1>2, <1>3, <1>4 DEF Nothing, WishMap
<1>5. CASE WishMap[w] # None
  BY <1>2, <1>3, <1>5 DEF Book!GiveUp, Book!Done, Book!Becomes
<1> QED
  BY <1>4, <1>5

\* A request that is let in asks for what the book allows.
LEMMA Asked ==
    ASSUME TypeOK, NEW w \in Worker, NEW s, NEW r, Goto(w, s, r), UNCHANGED <<now, session, token>>,
           WishOf(pc[w], req[w]) = None,
           \/ \E u \in User : WishOf(s, r) = WishFor("open", u, None)
           \/ \E t \in token : Active(t.sid) /\ t.sid \in Session /\ session[t.sid].user # None
                                /\ WishOf(s, r) = WishFor("renew", t.sub, t.sid)
           \/ \E t \in token, do \in {"end", "end_all"} : WishOf(s, r) = WishFor(do, t.sub, t.sid)
    PROVE  Book!Ask(w)
<1> DEFINE Entry(t) == [jti |-> t.jti, sid |-> t.sid, sub |-> t.sub]
           wanted == WishOf(s, r)
<1>1. WishMap[w] = None /\ WishMap' = [WishMap EXCEPT ![w] = wanted]
  BY WishAfter DEF WishMap
<1>2. UNCHANGED <<HolderMap, StateMap, GrantsOf(token)>>
  BY BookStays
<1>3. \A t \in token : /\ Entry(t) \in GrantsOf(token)
                       /\ Entry(t).sid = t.sid /\ Entry(t).sub = t.sub
  BY DEF GrantsOf
<1> HIDE DEF Entry, wanted
<1>4. CASE \E u \in User : wanted = WishFor("open", u, None)
  BY <1>1, <1>2, <1>4 DEF WishFor, Book!Wish, Book!Ask, Book!Becomes
<1>5. ASSUME NEW t \in token, Active(t.sid), t.sid \in Session, session[t.sid].user # None,
             wanted = WishFor("renew", t.sub, t.sid)
      PROVE  Book!Ask(w)
  <2>1. StateMap[Entry(t).sid] = "live"
    BY <1>3, <1>5 DEF StateMap, StateOf, Active
  <2>2. wanted = Book!Wish("renew", Entry(t).sub, Entry(t).sid)
    BY <1>3, <1>5 DEF WishFor, Book!Wish
  <2> QED
    BY <1>1, <1>2, <1>3, <2>1, <2>2 DEF Book!Ask, Book!Becomes
<1>6. ASSUME NEW t \in token, NEW do \in {"end", "end_all"}, wanted = WishFor(do, t.sub, t.sid)
      PROVE  Book!Ask(w)
  <2>1. wanted = Book!Wish(do, Entry(t).sub, Entry(t).sid)
    BY <1>3, <1>6 DEF WishFor, Book!Wish
  <2> QED
    BY <1>1, <1>2, <1>3, <1>6, <2>1 DEF Book!Ask, Book!Becomes
<1> QED
  BY <1>4, <1>5, <1>6 DEF wanted

\* What a pair of fresh tokens is to the book.
LEMMA Granted ==
    ASSUME TypeOK, NEW s \in Session, NEW u \in User, NEW a \in Jti, NEW r \in Jti, NEW issued \in Nat,
           Fresh(a), Fresh(r), a # r,
           \/ token' = token \cup Pair(a, r, s, u, issued)
           \/ UNCHANGED token
    PROVE  Book!Grant(s, u)
<1> DEFINE two == {[jti |-> j, sid |-> s, sub |-> u] : j \in {a, r}}
<1>1. GrantsOf(Pair(a, r, s, u, issued)) = two
  BY DEF GrantsOf, Pair, Token
<1>2. GrantsOf(token \cup Pair(a, r, s, u, issued)) = GrantsOf(token) \cup GrantsOf(Pair(a, r, s, u, issued))
  BY DEF GrantsOf
<1>3. \A t \in GrantsOf(token) : t.jti \notin {a, r}
  BY DEF GrantsOf, Fresh
<1>4. CASE UNCHANGED token
  BY <1>4 DEF Book!Grant, GrantsOf
<1>5. CASE token' = token \cup Pair(a, r, s, u, issued)
  <2>1. GrantsOf(token)' = GrantsOf(token) \cup two
    BY <1>1, <1>2, <1>5 DEF GrantsOf
  <2> QED
    BY <1>3, <2>1 DEF Book!Grant
<1> QED
  BY <1>4, <1>5

\* A request that commits is done with its wish.
LEMMA Granting ==
    ASSUME TypeOK, NEW w \in Worker, Answer(w)
    PROVE  Book!Done(w)
BY NoWish, WishAfter DEF Answer, Book!Done, Book!Becomes

\* At the start there are no sessions, tokens and wishes.
LEMMA InitBook == Init => Book!Init
BY DEF Init, Book!Init, HolderMap, StateMap, GrantsOf, WishMap, WishOf, StateOf, NoRow

\* A session is written by a login.
LEMMA StepOpen == ASSUME IInv, NEW w \in Worker, InsertSession(w) PROVE Book!Open(w)
<1> USE DEF IInv, TypeOK
<1>1. PICK s \in Session, a \in Jti, q \in Jti :
         /\ session[s].user = None
         /\ Fresh(a) /\ Fresh(q) /\ a # q
         /\ session' = [session EXCEPT ![s] =
               [user |-> req[w].user, active |-> TRUE, access |-> a, refresh |-> q,
                expires |-> req[w].issued + RefreshSeconds * TicksPerSecond]]
         /\ \/ token' = token \cup Pair(a, q, s, req[w].user, req[w].issued)
            \/ UNCHANGED token
  BY DEF InsertSession
<1>2. /\ req[w].user \in User /\ req[w].issued \in Nat /\ req[w].sid \in Session \cup {None}
      /\ pc[w] = "insert" /\ Answer(w) /\ UNCHANGED now
  BY DEF InsertSession, RequestsOK, RequestAt, Request
<1>3. WishMap[w] # None /\ WishMap[w].do = "open" /\ WishMap[w].user = req[w].user
  <2>1. WishMap[w] = WishFor("open", req[w].user, None) /\ WishMap[w] # None
    BY <1>2, WishFacts DEF WishMap
  <2> QED
    BY <2>1 DEF WishFor
<1>4. Book!Grant(s, req[w].user)
  BY <1>1, <1>2, Granted
<1>5. StateMap[s] = "unused"
  BY <1>1 DEF StateMap, StateOf
<1>6. HolderMap' = [HolderMap EXCEPT ![s] = req[w].user]
  BY <1>1 DEF HolderMap
<1>7. \E x \in Book!Fate : StateMap' = [StateMap EXCEPT ![s] = x]
  <2>1. /\ session'[s].user = req[w].user /\ session'[s].active
        /\ \A y \in Session : y # s => session'[y] = session[y]
    BY <1>1
  <2>2. StateOf(session'[s], now) \in Book!Fate
    BY <1>2, <2>1, NoneAssumption DEF StateOf, Book!Fate
  <2>3. StateMap' = [y \in Session |-> StateOf(session'[y], now)]
    BY <1>2 DEF StateMap, StateOf
  <2>4. StateMap' = [StateMap EXCEPT ![s] = StateOf(session'[s], now)]
    BY <2>1, <2>3 DEF StateMap
  <2> QED
    BY <2>2, <2>4
<1>8. Book!Done(w)
  BY <1>2, Granting
<1> QED
  BY <1>3, <1>4, <1>5, <1>6, <1>7, <1>8 DEF Book!Open

\* A session is written by a refresh.
LEMMA StepRenew == ASSUME IInv, NEW w \in Worker, CommitRefresh(w) PROVE Book!Renew(w)
<1> USE DEF IInv, TypeOK
<1> DEFINE s == req[w].sid
<1>1. PICK a \in Jti, q \in Jti :
         /\ Fresh(a) /\ Fresh(q) /\ a # q
         /\ session' = [session EXCEPT ![s] = Rotated(@, a, q, req[w].issued)]
         /\ \/ token' = token \cup Pair(a, q, s, req[w].user, req[w].issued)
            \/ UNCHANGED token
  BY DEF CommitRefresh
<1>2. /\ req[w].user \in User /\ req[w].issued \in Nat /\ s \in Session
      /\ session[s].user = req[w].user /\ session[s] \in Row
      /\ pc[w] = "rotate" /\ Answer(w) /\ UNCHANGED now
  BY DEF CommitRefresh, RequestsOK, RequestAt, Request
<1>3. /\ WishMap[w] # None /\ WishMap[w].do = "renew"
      /\ WishMap[w].user = req[w].user /\ WishMap[w].session = s
  <2>1. WishMap[w] = WishFor("renew", req[w].user, s) /\ WishMap[w] # None
    BY <1>2, WishFacts DEF WishMap
  <2> QED
    BY <2>1 DEF WishFor
<1> HIDE DEF s
<1>4. Book!Grant(s, req[w].user)
  BY <1>1, <1>2, Granted
<1>5. /\ session'[s].user = session[s].user /\ session'[s].active = session[s].active
      /\ \A y \in Session : y # s => session'[y] = session[y]
  BY <1>1, <1>2 DEF Rotated, Row
<1>6. UNCHANGED HolderMap
  BY <1>5 DEF HolderMap
<1>7. \E x \in Book!Fate : StateMap' = [StateMap EXCEPT ![s] = IF @ = "ended" THEN @ ELSE x]
  <2> DEFINE x == IF session'[s].expires > now THEN "live" ELSE "lapsed"
  <2>1. StateOf(session'[s], now) = (IF StateMap[s] = "ended" THEN "ended" ELSE x)
    BY <1>2, <1>5, NoneAssumption DEF StateOf, StateMap
  <2>2. StateMap' = [y \in Session |-> StateOf(session'[y], now)]
    BY <1>2 DEF StateMap, StateOf
  <2>3. x \in Book!Fate
    BY DEF Book!Fate
  <2> HIDE DEF x
  <2>4. StateMap' = [StateMap EXCEPT ![s] = IF @ = "ended" THEN @ ELSE x]
    BY <1>2, <1>5, <2>1, <2>2 DEF StateMap
  <2> QED
    BY <2>3, <2>4
<1>8. Book!Done(w)
  BY <1>2, Granting
<1> QED
  BY <1>3, <1>4, <1>6, <1>7, <1>8 DEF Book!Renew

\* Sessions are ended by a logout.
LEMMA StepEnd == ASSUME IInv, NEW w \in Worker, Deactivate(w) PROVE Book!End(w)
<1> USE DEF IInv, TypeOK
<1> DEFINE r == req[w]
<1>1. /\ r.user \in User /\ r.sid \in Session /\ session[r.sid].user = r.user
      /\ pc[w] = "deactivate" /\ Answer(w) /\ UNCHANGED <<now, token>>
  BY DEF Deactivate, RequestsOK, RequestAt
<1>2. \A s \in Session : /\ session'[s].user = session[s].user
                         /\ session'[s].expires = session[s].expires
                         /\ session'[s].active = (session[s].active /\ ~Ends(r, s))
  BY DEF Deactivate, Row
<1>3. UNCHANGED HolderMap /\ UNCHANGED GrantsOf(token)
  BY <1>1, <1>2 DEF HolderMap, GrantsOf
<1>4. \A s \in Session : Ends(r, s) => session[s].user # None
  BY <1>1, NoneAssumption DEF Ends
<1>5. StateMap' = [s \in Session |-> IF Ends(r, s) THEN "ended" ELSE StateMap[s]]
  <2>1. StateMap' = [s \in Session |-> StateOf(session'[s], now)]
    BY <1>1 DEF StateMap, StateOf
  <2>2. \A s \in Session :
           StateOf(session'[s], now) = (IF Ends(r, s) THEN "ended" ELSE StateOf(session[s], now))
    BY <1>2, <1>4 DEF StateOf
  <2> QED
    BY <2>1, <2>2 DEF StateMap
<1>6. Book!Done(w)
  BY <1>1, Granting
<1>7. WishMap[w] = WishOf("deactivate", r) /\ WishMap[w] # None
  BY <1>1, WishFacts DEF WishMap
<1> HIDE DEF r
<1>8. CASE r.for = "logout all"
  <2>1. WishMap[w].do = "end_all" /\ WishMap[w].user = r.user
    <3>1. WishMap[w] = WishFor("end_all", r.user, r.sid)
      BY <1>1, <1>7, <1>8, WishFacts
    <3> QED
      BY <3>1 DEF WishFor
  <2>2. StateMap' = [s \in Session |-> IF HolderMap[s] = WishMap[w].user THEN "ended" ELSE StateMap[s]]
    BY <1>5, <1>8, <2>1 DEF Ends, HolderMap
  <2> QED
    BY <1>3, <1>6, <1>7, <2>1, <2>2 DEF Book!End
<1>9. CASE r.for # "logout all"
  <2>1. WishMap[w].do = "end" /\ WishMap[w].session = r.sid
    <3>1. WishMap[w] = WishFor("end", r.user, r.sid)
      BY <1>1, <1>7, <1>9, WishFacts
    <3> QED
      BY <3>1 DEF WishFor
  <2>2. StateMap' = [StateMap EXCEPT ![WishMap[w].session] = "ended"]
    BY <1>1, <1>5, <1>9, <2>1 DEF Ends, StateMap
  <2> QED
    BY <1>3, <1>6, <1>7, <2>1, <2>2 DEF Book!End
<1> QED
  BY <1>8, <1>9

\* As time passes, sessions lapse.
LEMMA StepLapse == ASSUME IInv, Tick PROVE Book!Lapse
<1> USE DEF IInv, TypeOK
<1>1. now \in Nat /\ now' = now + 1 /\ UNCHANGED <<session, token, pc, req>>
  BY ClockAssumption DEF Tick
<1>2. UNCHANGED <<HolderMap, GrantsOf(token), WishMap>>
  BY <1>1 DEF HolderMap, GrantsOf, WishMap, WishOf, WishFor
<1> DEFINE lapsed == {s \in Session : StateMap[s] = "live" /\ StateMap'[s] = "lapsed"}
<1>3. StateMap' = [s \in Session |-> StateOf(session[s], now + 1)]
  BY <1>1 DEF StateMap, StateOf
<1>4. \A s \in Session : \/ StateOf(session[s], now + 1) = StateOf(session[s], now)
                         \/ /\ StateOf(session[s], now) = "live"
                            /\ StateOf(session[s], now + 1) = "lapsed"
  <2> TAKE s \in Session
  <2>1. session[s].expires \in Nat
    BY DEF Row
  <2> QED
    BY <1>1, <2>1 DEF StateOf
<1>5. \A s \in Session : StateMap[s] = StateOf(session[s], now) /\ StateMap'[s] = StateOf(session[s], now + 1)
  BY <1>3 DEF StateMap
<1>6. \A s \in Session : StateMap'[s] = (IF s \in lapsed THEN "lapsed" ELSE StateMap[s])
  BY <1>4, <1>5
<1>7. lapsed \in SUBSET {s \in Session : StateMap[s] = "live"}
  OBVIOUS
<1> HIDE DEF lapsed
<1>8. StateMap' = [s \in Session |-> IF s \in lapsed THEN "lapsed" ELSE StateMap[s]]
  BY <1>3, <1>6
<1> QED
  BY <1>2, <1>7, <1>8 DEF Book!Lapse

\* Every step of a request is a step of the book, or nothing to it.
LEMMA StepBook == IInv /\ [Next]_vars => [Book!Next]_<<HolderMap, StateMap, GrantsOf(token), WishMap>>
<1> SUFFICES ASSUME IInv, [Next]_vars
             PROVE  [Book!Next]_<<HolderMap, StateMap, GrantsOf(token), WishMap>>
  OBVIOUS
<1>0. CASE UNCHANGED vars
  BY <1>0 DEF vars, HolderMap, StateMap, StateOf, GrantsOf, WishMap, WishOf, WishFor
<1>1. CASE Tick
  BY <1>1, StepLapse DEF Book!Next
<1> SUFFICES ASSUME NEW w \in Worker,
                    \/ Login(w) \/ InsertSession(w) \/ Refresh(w) \/ CommitRefresh(w)
                    \/ Call(w) \/ Logout(w) \/ OpenSocket(w) \/ CheckBlacklist(w) \/ Serve(w)
                    \/ Blacklist(w) \/ Deactivate(w) \/ Abort(w)
             PROVE  Nothing \/ Book!Ask(w) \/ Book!Open(w) \/ Book!Renew(w) \/ Book!End(w) \/ Book!GiveUp(w)
  BY <1>0, <1>1 DEF Next, Book!Next, Nothing
<1>typed. TypeOK /\ req[w] \in Request /\ RequestAt(session, token, pc[w], req[w])
  BY DEF IInv, TypeOK, RequestsOK
<1>2. CASE Login(w)
  <2>1. PICK u \in User : Goto(w, "insert", [Blank EXCEPT !.user = u, !.issued = now])
    BY <1>2 DEF Login
  <2> DEFINE r == [Blank EXCEPT !.user = u, !.issued = now]
  <2>2. r.user = u /\ r.sid = None
    BY DEF Blank
  <2> HIDE DEF r
  <2>3. WishOf("insert", r) = WishFor("open", u, None)
    BY <2>2, WishFacts
  <2>4. pc[w] = "idle" /\ UNCHANGED <<now, session, token>>
    BY <1>2 DEF Login
  <2> QED
    BY <1>typed, <2>1, <2>3, <2>4, NoWish, Asked DEF r
<1>3. CASE Refresh(w)
  <2>1. PICK t \in token :
           /\ Active(t.sid)
           /\ Goto(w, "rotate", [Presenting(t) EXCEPT !.user = session[t.sid].user, !.issued = now])
    BY <1>3 DEF Refresh
  <2> DEFINE r == [Presenting(t) EXCEPT !.user = session[t.sid].user, !.issued = now]
  <2>2. t.sid \in Session /\ session[t.sid].user = t.sub /\ t.sub \in User
    BY DEF IInv, TypeOK, TokensOK, TokenType
  <2>3. r.user = t.sub /\ r.sid = t.sid
    BY <2>2 DEF Presenting, Blank
  <2> HIDE DEF r
  <2>4. WishOf("rotate", r) = WishFor("renew", t.sub, t.sid) /\ session[t.sid].user # None
    BY <2>2, <2>3, WishFacts, NoneAssumption
  <2>5. pc[w] = "idle" /\ UNCHANGED <<now, session, token>>
    BY <1>3 DEF Refresh
  <2> QED
    BY <1>typed, <2>1, <2>2, <2>4, <2>5, NoWish, Asked DEF r
<1>4. ASSUME NEW purpose, Present(w, purpose) PROVE Nothing
  <2>1. PICK r : Goto(w, "check", r)
    BY <1>4 DEF Present
  <2>2. pc[w] = "idle" /\ UNCHANGED <<now, session, token>>
    BY <1>4 DEF Present
  <2>3. UNCHANGED WishMap
    BY <1>typed, <2>1, <2>2, NoWish, WishAfter
  <2> QED
    BY <2>2, <2>3, BookStays DEF Nothing
<1>5. CASE CheckBlacklist(w)
  <2>1. pc[w] = "check" /\ UNCHANGED <<now, session, token>>
    BY <1>5 DEF CheckBlacklist
  <2>2. CASE Answer(w)
    BY <1>typed, <2>1, <2>2, Answered
  <2>3. CASE Goto(w, "serve", Blank)
    <3>1. UNCHANGED WishMap
      BY <1>typed, <2>1, <2>3, NoWish, WishAfter
    <3> QED
      BY <2>1, <3>1, BookStays DEF Nothing
  <2>4. CASE Goto(w, "blacklist", req[w])
    <3>1. PICK t \in token : t.sub = req[w].user /\ t.sid = req[w].sid
      BY <1>typed, <2>1 DEF RequestAt
    <3>2. req[w].user \in User /\ req[w].sid \in Session \cup {None}
      BY <1>typed, <2>1 DEF RequestAt
    <3>3. \E do \in {"end", "end_all"} : WishOf("blacklist", req[w]) = WishFor(do, t.sub, t.sid)
      <4>1. CASE req[w].for = "logout all"
        <5>1. WishOf("blacklist", req[w]) = WishFor("end_all", t.sub, t.sid)
          BY <3>1, <3>2, <4>1, WishFacts
        <5> QED
          BY <5>1
      <4>2. CASE req[w].for # "logout all"
        <5>1. WishOf("blacklist", req[w]) = WishFor("end", t.sub, t.sid)
          BY <3>1, <3>2, <4>2, WishFacts
        <5> QED
          BY <5>1
      <4> QED
        BY <4>1, <4>2
    <3> QED
      BY <1>typed, <2>1, <2>4, <3>3, NoWish, Asked
  <2> QED
    BY <1>5, <2>2, <2>3, <2>4 DEF CheckBlacklist, Pass
<1>6. CASE Serve(w) \/ Abort(w)
  BY <1>typed, <1>6, Answered DEF Serve, Abort
<1>7. CASE Blacklist(w)
  <2> DEFINE r == [req[w] EXCEPT !.jti = None, !.exp = 0]
  <2>1. pc[w] = "blacklist" /\ UNCHANGED <<now, session, token>> /\ Goto(w, "deactivate", r)
    BY <1>7 DEF Blacklist
  <2>2. r.user = req[w].user /\ r.sid = req[w].sid /\ r.for = req[w].for
    BY <1>typed DEF Request
  <2> HIDE DEF r
  <2>3. WishOf("deactivate", r) = WishOf(pc[w], req[w])
    BY <2>1, <2>2 DEF WishOf
  <2> QED
    BY <1>typed, <2>1, <2>3, WishAfter, BookStays DEF Nothing
<1>8. CASE OpenSocket(w)
  <2>1. pc[w] = "idle" /\ Goto(w, "serve", Blank) /\ UNCHANGED <<now, session, token>>
    BY <1>8 DEF OpenSocket
  <2>2. UNCHANGED WishMap
    BY <1>typed, <2>1, NoWish, WishAfter
  <2> QED
    BY <2>1, <2>2, BookStays DEF Nothing
<1> QED
  BY <1>2, <1>3, <1>4, <1>5, <1>6, <1>7, <1>8, StepOpen, StepRenew, StepEnd DEF Call, Logout

\* Sessions are opened, renewed and ended by those who may, and what has ended
\* stays ended, whatever requests overlap and whichever of their steps fail.
THEOREM ImplementsBook == Spec => ImplementsSessionBook
BY Invariance, InitBook, StepBook, PTL DEF Spec, ImplementsSessionBook, Book!Spec
=============================================================================
