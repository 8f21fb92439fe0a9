---------------------------- MODULE ReadApiProofs ----------------------------
(***************************************************************************)
(* Theorems about the HTTP API: a logout is final, an answer to an ingest  *)
(* request says what became of it, and pages leave no gap.                 *)
(***************************************************************************)
EXTENDS ReadApiProperties, TLAPS, FiniteSetTheorems, SequenceTheorems

USE DEF sessionVars, requestVars

-----------------------------------------------------------------------------
(* What LogoutIsFinal needs to be inductive.                               *)

LoginPlaces == {"check", "insert", "audit login", "audit failure"}
GatePlaces == {"validate", "purge"}
WorkPlaces == {"handler", "page", "lines"}
HandlerPlaces ==
    LoginPlaces \cup GatePlaces \cup WorkPlaces \cup {"idle", "audit logout", "answered"}

SessionTypes ==
    /\ sessions \subseteq Tokens /\ expired \subseteq Tokens /\ known \subseteq Tokens
    /\ owner \in [Tokens -> Users \cup {Nobody}]
    /\ op \in [Slots -> DOMAIN Needs \cup {"none", "login", "search"}]
    /\ at \in [Slots -> HandlerPlaces]
    /\ who \in [Slots -> Users \cup {Nobody}] /\ token \in [Slots -> Tokens \cup {NoToken}]
    /\ stale \in [Slots -> BOOLEAN] /\ status \in [Slots -> Int]

\* Whoever logs in is a user, and every token that is about was drawn by a login, so
\* that no later one draws it again.
Drawn ==
    /\ \A t \in Tokens :
          t \in sessions \cup expired \cup known \cup trail \cup loggedOut => owner[t] # Nobody
    /\ \A s \in Slots :
          /\ at[s] \in {"check", "insert"} => who[s] \in Users
          /\ at[s] = "audit login" => token[s] \in Tokens
          /\ token[s] \in Tokens => owner[token[s]] # Nobody

\* A dead token has expired or has no row; it has none when its logout is audited.
RowsOfTheDead ==
    /\ \A t \in Tokens : Dead(t) => t \in expired \/ t \notin sessions
    /\ \A s \in Slots : at[s] = "audit logout" => token[s] \notin sessions

\* A request that was sent with a dead token is no login.
StaleRequests ==
    \A s \in Slots :
        stale[s] => Dead(token[s]) /\ at[s] \notin LoginPlaces \cup {"idle"}

SessionInv == SessionTypes /\ Drawn /\ RowsOfTheDead /\ StaleRequests /\ LogoutIsFinal

-----------------------------------------------------------------------------
(* The steps of the sessions.                                              *)

\* At the start nobody is logged in.
LEMMA InitSessions == Init => SessionInv
  <1> SUFFICES ASSUME Init PROVE SessionInv
    OBVIOUS
  <1> USE DEF Init, SessionsInit
  <1>1. SessionTypes
    BY DEF SessionTypes, HandlerPlaces
  <1>2. Drawn /\ RowsOfTheDead /\ StaleRequests /\ LogoutIsFinal
    BY SessionsAssumption DEF Drawn, RowsOfTheDead, StaleRequests, LogoutIsFinal, Dead
  <1> QED
    BY <1>1, <1>2 DEF SessionInv

\* Where Goto and Answer leave the handlers.
LEMMA GotoGoes ==
  ASSUME SessionInv, NEW s \in Slots, NEW place \in HandlerPlaces, Goto(s, place)
  PROVE  /\ at'[s] = place /\ status' = status
         /\ \A r \in Slots \ {s} : at'[r] = at[r]
         /\ at' \in [Slots -> HandlerPlaces] /\ status' \in [Slots -> Int]
  BY DEF SessionInv, SessionTypes, Goto

LEMMA AnswerGoes ==
  ASSUME SessionInv, NEW s \in Slots, NEW code \in Int, Answer(s, code)
  PROVE  /\ at'[s] = "answered" /\ status'[s] = code
         /\ \A r \in Slots \ {s} : at'[r] = at[r] /\ status'[r] = status[r]
         /\ at' \in [Slots -> HandlerPlaces] /\ status' \in [Slots -> Int]
  <1>1. "answered" \in HandlerPlaces
    BY DEF HandlerPlaces
  <1> QED
    BY <1>1 DEF SessionInv, SessionTypes, Answer

\* A slot that is handled keeps its request; what is said of the others stays true when
\* no row is added and no token is revoked by the step.
LEMMA StaysTrue ==
  ASSUME SessionInv, NEW s \in Slots,
         UNCHANGED <<owner, expired, trail, known, loggedOut, op, who, token, stale>>,
         sessions' \subseteq sessions,
         at' \in [Slots -> HandlerPlaces], status' \in [Slots -> Int],
         \A r \in Slots \ {s} : at'[r] = at[r] /\ status'[r] = status[r],
         at'[s] \notin {"audit login", "idle"},
         at'[s] \in {"check", "insert"} => at[s] \in {"check", "insert"},
         at'[s] = "audit logout" => token[s] \notin sessions',
         at'[s] \in LoginPlaces => at[s] \in LoginPlaces,
         stale[s] /\ op[s] \notin Open =>
            at'[s] \in {"validate", "purge", "answered"} /\ status'[s] \in {0, 401}
  PROVE  SessionInv'
  <1>1. SessionTypes'
    BY DEF SessionInv, SessionTypes
  <1>2. Drawn'
    <2>1. Drawn
      BY DEF SessionInv
    <2>2. ASSUME NEW t \in Tokens, t \in sessions' \cup expired' \cup known' \cup trail' \cup loggedOut'
          PROVE  owner'[t] # Nobody
      BY <2>1, <2>2, ZenonT(30) DEF Drawn
    <2>3. ASSUME NEW r \in Slots
          PROVE  /\ at'[r] \in {"check", "insert"} => who'[r] \in Users
                 /\ at'[r] = "audit login" => token'[r] \in Tokens
                 /\ token'[r] \in Tokens => owner'[token'[r]] # Nobody
      <3>1. CASE r = s
        BY <2>1, <3>1 DEF Drawn
      <3>2. CASE r # s
        BY <2>1, <3>2, ZenonT(30) DEF Drawn
      <3> QED
        BY <3>1, <3>2
    <2> QED
      BY <2>2, <2>3 DEF Drawn
  <1>3. /\ \A t \in Tokens : Dead(t)' = Dead(t)
        /\ \A r \in Slots : Dead(token[r])' = Dead(token[r])
    BY DEF Dead
  <1>4. RowsOfTheDead'
    <2>1. RowsOfTheDead
      BY DEF SessionInv
    <2>2. ASSUME NEW t \in Tokens, Dead(t)'
          PROVE  t \in expired' \/ t \notin sessions'
      BY <1>3, <2>1, <2>2 DEF RowsOfTheDead
    <2>3. ASSUME NEW r \in Slots, at'[r] = "audit logout"
          PROVE  token'[r] \notin sessions'
      <3>1. CASE r = s
        BY <2>3, <3>1
      <3>2. CASE r # s
        <4>1. at[r] = "audit logout" /\ token'[r] = token[r]
          BY <2>3, <3>2
        <4>2. token[r] \notin sessions
          BY <2>1, <4>1 DEF RowsOfTheDead
        <4> QED
          BY <4>1, <4>2
      <3> QED
        BY <3>1, <3>2
    <2> QED
      BY <2>2, <2>3 DEF RowsOfTheDead
  <1>5. StaleRequests'
    <2>1. StaleRequests
      BY DEF SessionInv
    <2>2. ASSUME NEW r \in Slots, stale'[r]
          PROVE  Dead(token[r])' /\ at'[r] \notin LoginPlaces \cup {"idle"}
      <3>1. Dead(token[r]) /\ at[r] \notin LoginPlaces \cup {"idle"}
        BY <2>1, <2>2 DEF StaleRequests
      <3>2. CASE r = s
        BY <1>3, <3>1, <3>2
      <3>3. CASE r # s
        BY <1>3, <3>1, <3>3
      <3> QED
        BY <3>2, <3>3
    <2> QED
      BY <2>2 DEF StaleRequests, Dead
  <1>6. LogoutIsFinal'
    <2>1. LogoutIsFinal
      BY DEF SessionInv
    <2>2. ASSUME NEW r \in Slots, stale'[r] /\ op'[r] \notin Open
          PROVE  at'[r] \in {"validate", "purge", "answered"} /\ status'[r] \in {0, 401}
      <3>1. CASE r = s
        BY <2>2, <3>1
      <3>2. CASE r # s
        BY <2>1, <2>2, <3>2, ZenonT(30) DEF LogoutIsFinal
      <3> QED
        BY <3>1, <3>2
    <2> QED
      BY <2>2 DEF LogoutIsFinal
  <1> QED
    BY <1>1, <1>2, <1>4, <1>5, <1>6 DEF SessionInv

\* requireAuth and requireRole let only the living through.
LEMMA AuthorizeKeeps ==
  ASSUME SessionInv, NEW s \in Slots, Authorize(s)
  PROVE  SessionInv'
  <1>0. /\ UNCHANGED <<owner, expired, trail, known, loggedOut, op, who, token, stale>>
        /\ sessions' \subseteq sessions
    BY DEF Authorize, Validate, Unauthorized, FindExpired, Purge
  <1>1. {"handler", "purge"} \subseteq HandlerPlaces /\ {401, 403} \subseteq Int
    BY DEF HandlerPlaces, GatePlaces, WorkPlaces
  <1>2. stale[s] => ~Live(token[s])
    BY DEF SessionInv, SessionTypes, StaleRequests, RowsOfTheDead, Live
  <1>3. stale[s] /\ op[s] \notin Open => status[s] \in {0, 401}
    BY DEF SessionInv, LogoutIsFinal
  <1>4. CASE Goto(s, "handler") /\ ~stale[s]
    <2>1. /\ at'[s] = "handler" /\ status' = status /\ \A r \in Slots \ {s} : at'[r] = at[r]
          /\ at' \in [Slots -> HandlerPlaces] /\ status' \in [Slots -> Int]
      BY <1>1, <1>4, GotoGoes
    <2> QED
      BY <1>0, <1>4, <2>1, StaysTrue DEF LoginPlaces
  <1>5. CASE Answer(s, 401) \/ (Answer(s, 403) /\ ~stale[s])
    <2>1. PICK code \in {401, 403} : Answer(s, code) /\ (code = 403 => ~stale[s])
      BY <1>5
    <2>2. /\ at'[s] = "answered" /\ status'[s] = code
          /\ \A r \in Slots \ {s} : at'[r] = at[r] /\ status'[r] = status[r]
          /\ at' \in [Slots -> HandlerPlaces] /\ status' \in [Slots -> Int]
      BY <1>1, <2>1, AnswerGoes
    <2>3. at'[s] \notin LoginPlaces \cup {"audit logout", "idle"}
      BY <2>2 DEF LoginPlaces
    <2>4. stale[s] /\ op[s] \notin Open =>
             at'[s] \in {"validate", "purge", "answered"} /\ status'[s] \in {0, 401}
      BY <2>1, <2>2
    <2> QED
      BY <1>0, <2>2, <2>3, <2>4, StaysTrue, ZenonT(30) DEF LoginPlaces
  <1>6. CASE Goto(s, "purge")
    <2>1. /\ at'[s] = "purge" /\ status' = status /\ \A r \in Slots \ {s} : at'[r] = at[r]
          /\ at' \in [Slots -> HandlerPlaces] /\ status' \in [Slots -> Int]
      BY <1>1, <1>6, GotoGoes
    <2>2. at'[s] \notin LoginPlaces \cup {"audit logout", "idle"}
      BY <2>1 DEF LoginPlaces
    <2>3. stale[s] /\ op[s] \notin Open =>
             at'[s] \in {"validate", "purge", "answered"} /\ status'[s] \in {0, 401}
      BY <1>3, <2>1
    <2> QED
      BY <1>0, <2>1, <2>2, <2>3, StaysTrue, ZenonT(30) DEF LoginPlaces
  <1>7. Validate(s) => (Goto(s, "handler") /\ ~stale[s]) \/ (Answer(s, 403) /\ ~stale[s])
    BY <1>2 DEF Validate
  <1> QED
    BY <1>4, <1>5, <1>6, <1>7 DEF Authorize, Unauthorized, FindExpired, Purge

\* handleLogout deletes the row before it tells anybody.
LEMMA LogoutKeeps ==
  ASSUME SessionInv, NEW s \in Slots, Logout(s)
  PROVE  SessionInv'
  <1>1. CASE DeleteSession(s) \/ LogoutFails(s)
    <2>1. at[s] = "handler"
      BY <1>1 DEF DeleteSession, LogoutFails, Handling
    <2>2. ~(stale[s] /\ op[s] \notin Open)
      BY <2>1 DEF SessionInv, LogoutIsFinal
    <2>3. CASE DeleteSession(s)
      <3>1. /\ UNCHANGED <<owner, expired, trail, known, loggedOut, op, who, token, stale>>
            /\ sessions' = sessions \ {token[s]} /\ Goto(s, "audit logout")
        BY <2>3 DEF DeleteSession
      <3>2. "audit logout" \in HandlerPlaces
        BY DEF HandlerPlaces
      <3>3. /\ at'[s] = "audit logout" /\ status' = status /\ \A r \in Slots \ {s} : at'[r] = at[r]
            /\ at' \in [Slots -> HandlerPlaces] /\ status' \in [Slots -> Int]
        BY <3>1, <3>2, GotoGoes
      <3> QED
        BY <2>2, <3>1, <3>3, StaysTrue DEF LoginPlaces
    <2>4. CASE LogoutFails(s)
      <3>1. UNCHANGED <<sessionVars, op, who, token, stale>> /\ Answer(s, 500)
        BY <2>4 DEF LogoutFails
      <3>2. /\ at'[s] = "answered" /\ \A r \in Slots \ {s} : at'[r] = at[r] /\ status'[r] = status[r]
            /\ at' \in [Slots -> HandlerPlaces] /\ status' \in [Slots -> Int]
        BY <3>1, AnswerGoes
      <3> QED
        BY <2>2, <3>1, <3>2, StaysTrue DEF LoginPlaces
    <2> QED
      BY <1>1, <2>3, <2>4
  <1>2. CASE AuditLogout(s)
    <2>1. /\ at[s] = "audit logout" /\ Answer(s, 200) /\ loggedOut' = loggedOut \cup {token[s]}
          /\ trail \subseteq trail' /\ trail' \subseteq trail \cup {token[s]}
          /\ UNCHANGED <<sessions, owner, expired, known, op, who, token, stale>>
      BY <1>2 DEF AuditLogout
    <2>2. /\ at'[s] = "answered" /\ \A r \in Slots \ {s} : at'[r] = at[r] /\ status'[r] = status[r]
          /\ at' \in [Slots -> HandlerPlaces] /\ status' \in [Slots -> Int]
      <3>1. 200 \in Int
        OBVIOUS
      <3> QED
        BY <2>1, <3>1, AnswerGoes, ZenonT(30)
    <2>3. /\ \A t : Dead(t) => Dead(t)'
          /\ \A t : Dead(t)' => Dead(t) \/ t = token[s]
      BY <2>1 DEF Dead
    <2>4. token[s] \notin sessions /\ ~(stale[s] /\ op[s] \notin Open)
      BY <2>1 DEF SessionInv, RowsOfTheDead, LogoutIsFinal
    <2>5. SessionTypes'
      BY <2>1, <2>2 DEF SessionInv, SessionTypes
    <2>6. Drawn'
      <3>1. Drawn
        BY DEF SessionInv
      <3>2. ASSUME NEW t \in Tokens,
                   t \in sessions' \cup expired' \cup known' \cup trail' \cup loggedOut'
            PROVE  owner'[t] # Nobody
        BY <2>1, <3>1, <3>2 DEF Drawn
      <3>3. ASSUME NEW r \in Slots
            PROVE  /\ at'[r] \in {"check", "insert"} => who'[r] \in Users
                   /\ at'[r] = "audit login" => token'[r] \in Tokens
                   /\ token'[r] \in Tokens => owner'[token'[r]] # Nobody
        BY <2>1, <2>2, <3>1 DEF Drawn
      <3> QED
        BY <3>2, <3>3 DEF Drawn
    <2>7. RowsOfTheDead'
      <3>1. ASSUME NEW t \in Tokens, Dead(t)'
            PROVE  t \in expired' \/ t \notin sessions'
        BY <2>1, <2>3, <2>4, <3>1 DEF SessionInv, RowsOfTheDead
      <3>2. ASSUME NEW r \in Slots, at'[r] = "audit logout"
            PROVE  token'[r] \notin sessions'
        BY <2>1, <2>2, <3>2 DEF SessionInv, RowsOfTheDead
      <3> QED
        BY <3>1, <3>2 DEF RowsOfTheDead
    <2>8. StaleRequests'
      <3>1. ASSUME NEW r \in Slots, stale'[r]
            PROVE  Dead(token[r])' /\ at'[r] \notin LoginPlaces \cup {"idle"}
        <4>1. Dead(token[r]) /\ at[r] \notin LoginPlaces \cup {"idle"}
          BY <2>1, <3>1 DEF SessionInv, StaleRequests
        <4> QED
          BY <2>1, <2>2, <4>1 DEF LoginPlaces, Dead
      <3> QED
        BY <2>1, <3>1 DEF StaleRequests, Dead
    <2>9. LogoutIsFinal'
      BY <2>1, <2>2, <2>4, ZenonT(30) DEF SessionInv, LogoutIsFinal
    <2> QED
      BY <2>5, <2>6, <2>7, <2>8, <2>9 DEF SessionInv
  <1> QED
    BY <1>1, <1>2 DEF Logout

\* handleLogin: whoever logs in sent no token, and gets one that nobody had.
LEMMA LoginKeeps ==
  ASSUME SessionInv, NEW s \in Slots, Login(s)
  PROVE  SessionInv'
  <1>0. {200, 400, 401} \subseteq Int
    OBVIOUS
  <1>1. at[s] \in LoginPlaces /\ ~stale[s]
    <2>1. at[s] \in LoginPlaces
      BY DEF Login, LoginMalformed, PasswordRight, LoginFails, CreateSession, AuditLogin,
             AuditFailure, LoginPlaces
    <2> QED
      BY <2>1 DEF SessionInv, StaleRequests
  <1>2. ASSUME LoginMalformed(s) \/ AuditFailure(s)
        PROVE  SessionInv'
    <2>1. PICK code \in {400, 401} : Answer(s, code) /\ UNCHANGED <<sessionVars, op, who, token, stale>>
      BY <1>2 DEF LoginMalformed, AuditFailure
    <2>2. /\ at'[s] = "answered" /\ \A r \in Slots \ {s} : at'[r] = at[r] /\ status'[r] = status[r]
          /\ at' \in [Slots -> HandlerPlaces] /\ status' \in [Slots -> Int]
      BY <1>0, <2>1, AnswerGoes
    <2> QED
      BY <1>1, <2>1, <2>2, StaysTrue DEF LoginPlaces
  <1>3. ASSUME PasswordRight(s) \/ LoginFails(s)
        PROVE  SessionInv'
    <2>1. PICK place \in {"insert", "audit failure"} :
             Goto(s, place) /\ UNCHANGED <<sessionVars, op, who, token, stale>>
      BY <1>3 DEF PasswordRight, LoginFails
    <2>2. at[s] \in {"check", "insert"}
      BY <1>3 DEF PasswordRight, LoginFails
    <2>3. place \in HandlerPlaces
      BY DEF HandlerPlaces, LoginPlaces
    <2>4. /\ at'[s] = place /\ status' = status /\ \A r \in Slots \ {s} : at'[r] = at[r]
          /\ at' \in [Slots -> HandlerPlaces] /\ status' \in [Slots -> Int]
      BY <2>1, <2>3, GotoGoes
    <2> QED
      BY <1>1, <2>1, <2>2, <2>4, StaysTrue DEF LoginPlaces
  <1>4. ASSUME NEW t \in Tokens, CreateSession(s, t)
        PROVE  SessionInv'
    <2>1. /\ at[s] = "insert" /\ owner[t] = Nobody
          /\ sessions' = sessions \cup {t} /\ owner' = [owner EXCEPT ![t] = who[s]]
          /\ token' = [token EXCEPT ![s] = t] /\ Goto(s, "audit login")
          /\ UNCHANGED <<expired, trail, known, loggedOut, op, who, stale>>
      BY <1>4 DEF CreateSession
    <2>2. "audit login" \in HandlerPlaces
      BY DEF HandlerPlaces, LoginPlaces
    <2>3. /\ at'[s] = "audit login" /\ status' = status /\ \A r \in Slots \ {s} : at'[r] = at[r]
          /\ at' \in [Slots -> HandlerPlaces] /\ status' \in [Slots -> Int]
      BY <2>1, <2>2, GotoGoes
    <2>4. who[s] \in Users /\ who[s] # Nobody
      BY <2>1, SessionsAssumption DEF SessionInv, Drawn
    <2>5. /\ t \notin sessions \cup expired \cup known \cup trail \cup loggedOut
          /\ \A r \in Slots : token[r] # t
      BY <2>1 DEF SessionInv, Drawn
    <2>6. owner'[t] = who[s] /\ \A u \in Tokens \ {t} : owner'[u] = owner[u]
      BY <2>1 DEF SessionInv, SessionTypes
    <2>7. token'[s] = t /\ \A r \in Slots \ {s} : token'[r] = token[r]
      BY <2>1 DEF SessionInv, SessionTypes
    <2>8. SessionTypes'
      BY <2>1, <2>3, <2>4 DEF SessionInv, SessionTypes
    <2>9. Drawn'
      <3>1. ASSUME NEW u \in Tokens,
                   u \in sessions' \cup expired' \cup known' \cup trail' \cup loggedOut'
            PROVE  owner'[u] # Nobody
        BY <2>1, <2>4, <2>6, <3>1 DEF SessionInv, Drawn
      <3>2. ASSUME NEW r \in Slots
            PROVE  /\ at'[r] \in {"check", "insert"} => who'[r] \in Users
                   /\ at'[r] = "audit login" => token'[r] \in Tokens
                   /\ token'[r] \in Tokens => owner'[token'[r]] # Nobody
        <4>1. CASE r = s
          BY <2>3, <2>4, <2>6, <2>7, <4>1
        <4>2. CASE r # s
          <5>1. /\ at[r] \in {"check", "insert"} => who[r] \in Users
                /\ at[r] = "audit login" => token[r] \in Tokens
                /\ token[r] \in Tokens => owner[token[r]] # Nobody
            BY DEF SessionInv, Drawn
          <5>2. at'[r] = at[r] /\ who'[r] = who[r] /\ token'[r] = token[r] /\ token[r] # t
            BY <2>1, <2>3, <2>5, <2>7, <4>2
          <5>3. token[r] \in Tokens => owner'[token[r]] = owner[token[r]]
            BY <2>6, <5>2
          <5> QED
            BY <5>1, <5>2, <5>3
        <4> QED
          BY <4>1, <4>2
      <3> QED
        BY <3>1, <3>2 DEF Drawn
    <2>10. \A u : (u \in expired \cup loggedOut \cup trail)' = (u \in expired \cup loggedOut \cup trail)
      BY <2>1
    <2>11. RowsOfTheDead'
      <3>1. ASSUME NEW u \in Tokens, u \in expired' \cup loggedOut' \cup trail'
            PROVE  u \in expired' \/ u \notin sessions'
        BY <2>1, <2>5, <3>1 DEF SessionInv, RowsOfTheDead, Dead
      <3>2. ASSUME NEW r \in Slots, at'[r] = "audit logout"
            PROVE  token'[r] \notin sessions'
        <4>1. r # s
          BY <2>3, <3>2
        <4>2. at[r] = "audit logout" /\ token'[r] = token[r]
          BY <2>3, <2>7, <3>2, <4>1
        <4>3. token[r] \notin sessions /\ token[r] # t
          BY <2>5, <4>2 DEF SessionInv, RowsOfTheDead
        <4>4. token[r] \notin sessions \cup {t}
          BY <4>3
        <4>5. sessions' = sessions \cup {t}
          BY <2>1
        <4> QED
          BY <4>2, <4>4, <4>5
      <3> QED
        BY <3>1, <3>2 DEF RowsOfTheDead, Dead
    <2>12. StaleRequests'
      <3>1. ASSUME NEW r \in Slots, stale'[r]
            PROVE  /\ token'[r] \in expired' \cup loggedOut' \cup trail'
                   /\ at'[r] \notin LoginPlaces \cup {"idle"}
        <4>1. stale[r] /\ r # s
          BY <1>1, <2>1, <3>1
        <4>2. token[r] \in expired \cup loggedOut \cup trail /\ at[r] \notin LoginPlaces \cup {"idle"}
          BY <4>1 DEF SessionInv, StaleRequests, Dead
        <4> QED
          BY <2>1, <2>3, <2>7, <4>1, <4>2
      <3> QED
        BY <3>1 DEF StaleRequests, Dead
    <2>13. LogoutIsFinal'
      BY <1>1, <2>1, <2>3 DEF SessionInv, LogoutIsFinal
    <2> QED
      BY <2>8, <2>9, <2>11, <2>12, <2>13 DEF SessionInv
  <1>5. ASSUME AuditLogin(s)
        PROVE  SessionInv'
    <2>1. /\ at[s] = "audit login" /\ known' = known \cup {token[s]} /\ Answer(s, 200)
          /\ UNCHANGED <<sessions, owner, expired, trail, loggedOut, op, who, token, stale>>
      BY <1>5 DEF AuditLogin
    <2>2. /\ at'[s] = "answered" /\ \A r \in Slots \ {s} : at'[r] = at[r] /\ status'[r] = status[r]
          /\ at' \in [Slots -> HandlerPlaces] /\ status' \in [Slots -> Int]
      BY <1>0, <2>1, AnswerGoes, ZenonT(30)
    <2>3. token[s] \in Tokens /\ owner[token[s]] # Nobody
      BY <2>1 DEF SessionInv, Drawn
    <2>4. SessionTypes'
      BY <2>1, <2>2, <2>3 DEF SessionInv, SessionTypes
    <2>5. Drawn'
      <3>1. ASSUME NEW u \in Tokens,
                   u \in sessions' \cup expired' \cup known' \cup trail' \cup loggedOut'
            PROVE  owner'[u] # Nobody
        BY <2>1, <2>3, <3>1 DEF SessionInv, Drawn
      <3>2. ASSUME NEW r \in Slots
            PROVE  /\ at'[r] \in {"check", "insert"} => who'[r] \in Users
                   /\ at'[r] = "audit login" => token'[r] \in Tokens
                   /\ token'[r] \in Tokens => owner'[token'[r]] # Nobody
        BY <2>1, <2>2 DEF SessionInv, Drawn
      <3> QED
        BY <3>1, <3>2 DEF Drawn
    <2>6. RowsOfTheDead'
      BY <2>1, <2>2 DEF SessionInv, RowsOfTheDead, Dead
    <2>7. StaleRequests'
      BY <2>1, <2>2 DEF SessionInv, StaleRequests, Dead, LoginPlaces
    <2>8. LogoutIsFinal'
      BY <1>1, <2>1, <2>2 DEF SessionInv, LogoutIsFinal
    <2> QED
      BY <2>4, <2>5, <2>6, <2>7, <2>8 DEF SessionInv
  <1> QED
    BY <1>2, <1>3, <1>4, <1>5 DEF Login

-----------------------------------------------------------------------------
(* The other steps.                                                        *)

\* A handler that works goes on or answers, and its session stays as it is.
LEMMA WorkKeeps ==
  ASSUME SessionInv, NEW s \in Slots, at[s] \in WorkPlaces,
         UNCHANGED <<sessionVars, op, who, token, stale>>,
         \/ \E place \in WorkPlaces : Goto(s, place)
         \/ \E code \in Int : Answer(s, code)
  PROVE  SessionInv'
  <1>1. ~(stale[s] /\ op[s] \notin Open)
    BY DEF SessionInv, LogoutIsFinal, WorkPlaces
  <1>2. UNCHANGED <<owner, expired, trail, known, loggedOut, op, who, token, stale>> /\ sessions' \subseteq sessions
    OBVIOUS
  <1>3. ASSUME NEW place \in WorkPlaces, Goto(s, place)
        PROVE  SessionInv'
    <2>1. place \in HandlerPlaces
      BY DEF HandlerPlaces
    <2>2. /\ at'[s] = place /\ status' = status /\ \A r \in Slots \ {s} : at'[r] = at[r]
          /\ at' \in [Slots -> HandlerPlaces] /\ status' \in [Slots -> Int]
      BY <1>3, <2>1, GotoGoes
    <2>3. place \notin LoginPlaces \cup {"idle", "audit logout"}
      BY DEF LoginPlaces, WorkPlaces
    <2> QED
      BY <1>1, <1>2, <2>2, <2>3, StaysTrue DEF LoginPlaces
  <1>4. ASSUME NEW code \in Int, Answer(s, code)
        PROVE  SessionInv'
    <2>1. /\ at'[s] = "answered" /\ \A r \in Slots \ {s} : at'[r] = at[r] /\ status'[r] = status[r]
          /\ at' \in [Slots -> HandlerPlaces] /\ status' \in [Slots -> Int]
      BY <1>4, AnswerGoes
    <2> QED
      BY <1>1, <1>2, <2>1, StaysTrue DEF LoginPlaces
  <1> QED
    BY <1>3, <1>4

\* Rows that arrive, and the lines of a body, touch no session.
LEMMA Untouched ==
  ASSUME SessionInv, UNCHANGED <<sessionVars, requestVars>>
  PROVE  SessionInv'
  <1>1. SessionTypes'
    BY DEF SessionInv, SessionTypes
  <1>2. Drawn'
    BY DEF SessionInv, Drawn
  <1>3. RowsOfTheDead'
    BY DEF SessionInv, RowsOfTheDead, Dead
  <1>4. StaleRequests'
    BY DEF SessionInv, StaleRequests, Dead
  <1>5. LogoutIsFinal'
    BY DEF SessionInv, LogoutIsFinal
  <1> QED
    BY <1>1, <1>2, <1>3, <1>4, <1>5 DEF SessionInv

\* Every read, export and ingest works like that.
LEMMA ReadKeeps ==
  ASSUME SessionInv, NEW s \in Slots, ReadStep(s)
  PROVE  SessionInv'
  <1>0. {0, 200, 400, 413, 415, 503, 504} \subseteq Int /\ {"page", "lines", "handler"} \subseteq WorkPlaces
    BY DEF WorkPlaces
  <1> DEFINE Works == /\ at[s] \in WorkPlaces
                      /\ UNCHANGED <<sessionVars, op, who, token, stale>>
                      /\ \/ \E place \in WorkPlaces : Goto(s, place)
                         \/ \E code \in Int : Answer(s, code)
  <1>1. ReadFails(s) \/ OneAnswer(s) \/ ExportBreaks(s) \/ IngestRefused(s) \/ IngestEnds(s) => Works
    BY <1>0 DEF ReadFails, OneAnswer, ExportBreaks, IngestRefused, IngestEnds, Handling
  <1>2. ASSUME NEW j, NEW offset, at[s] = "handler", Deliver(s, j, offset)
        PROVE  Works
    BY <1>0, <1>2 DEF Deliver
  <1>3. (\E r \in Ranges, n \in Limits : FirstPage(s, r, n)) \/ NextPage(s) => Works
    <2>1. ASSUME NEW r \in Ranges, NEW n \in Limits, FirstPage(s, r, n)
          PROVE  Works
      BY <1>2, <2>1 DEF FirstPage, Handling
    <2>2. NextPage(s) => Works
      BY <1>2 DEF NextPage, Handling
    <2> QED
      BY <2>1, <2>2
  <1>4. (\E r \in Ranges, n \in Limits : Export(s, r, n)) => Works
    BY <1>0 DEF Export, Handling
  <1>5. ExportPage(s) => Works
    <2>1. ExportPage(s) => Goto(s, "page") \/ Answer(s, 200)
      BY DEF ExportPage
    <2> QED
      BY <1>0, <2>1, ZenonT(30) DEF ExportPage
  <1>6. (\E r \in Ranges, b \in Buckets : Volume(s, r, b)) => Works
    BY <1>0 DEF Volume, Handling
  <1>7. (\E r \in Ranges, b \in Buckets : VolumeFails(s, r, b)) => Works
    <2>1. ASSUME NEW r \in Ranges, NEW b \in Buckets, VolumeFails(s, r, b)
          PROVE  Works
      <3>1. PICK code \in {0, 400} : Answer(s, code)
        BY <2>1 DEF VolumeFails
      <3> QED
        BY <1>0, <2>1, <3>1 DEF VolumeFails, Handling
    <2> QED
      BY <2>1
  <1>8. (\E b \in Bodies : Ingest(s, b)) => Works
    <2>1. ASSUME NEW b \in Bodies, Ingest(s, b)
          PROVE  Works
      <3>1. Answer(s, 413) \/ Goto(s, "lines")
        BY <2>1 DEF Ingest
      <3> QED
        BY <1>0, <2>1, <3>1 DEF Ingest, Handling
    <2> QED
      BY <2>1
  <1>9. Works => SessionInv'
    BY WorkKeeps
  <1>10. IngestLine(s) => SessionInv'
    BY Untouched DEF IngestLine
  <1> QED
    BY <1>1, <1>3, <1>4, <1>5, <1>6, <1>7, <1>8, <1>9, <1>10 DEF ReadStep

\* A client sends only tokens that a login has answered with, and the request is judged
\* by what the token is when it is sent.
LEMMA SendKeeps ==
  ASSUME SessionInv, NEW s \in Slots, NEW o \in DOMAIN Needs \cup {"search"},
         NEW t \in Tokens \cup {NoToken}, t \in Tokens => owner[t] # Nobody,
         Send(s, o, t), UNCHANGED <<sessionVars, who>>
  PROVE  SessionInv'
  <1>1. /\ op'[s] = o /\ token'[s] = t /\ stale'[s] = Dead(t) /\ status'[s] = 0
        /\ at'[s] = IF o \in Open THEN "handler" ELSE "validate"
        /\ \A r \in Slots \ {s} :
              /\ op'[r] = op[r] /\ token'[r] = token[r] /\ stale'[r] = stale[r]
              /\ status'[r] = status[r] /\ at'[r] = at[r]
    BY DEF SessionInv, SessionTypes, Send
  <1>2. SessionTypes'
    <2>1. {"handler", "validate"} \subseteq HandlerPlaces
      BY DEF HandlerPlaces, GatePlaces, WorkPlaces
    <2>2. at' \in [Slots -> HandlerPlaces]
      BY <2>1 DEF SessionInv, SessionTypes, Send
    <2>3. op' \in [Slots -> DOMAIN Needs \cup {"none", "login", "search"}]
      BY DEF SessionInv, SessionTypes, Send
    <2>4. token' \in [Slots -> Tokens \cup {NoToken}] /\ status' \in [Slots -> Int]
      BY DEF SessionInv, SessionTypes, Send
    <2>5. Dead(t) \in BOOLEAN
      BY DEF Dead
    <2>6. stale' \in [Slots -> BOOLEAN]
      BY <2>5 DEF SessionInv, SessionTypes, Send
    <2> QED
      BY <2>2, <2>3, <2>4, <2>6 DEF SessionInv, SessionTypes
  <1>3. Drawn'
    <2>1. ASSUME NEW r \in Slots
          PROVE  /\ at'[r] \in {"check", "insert"} => who'[r] \in Users
                 /\ at'[r] = "audit login" => token'[r] \in Tokens
                 /\ token'[r] \in Tokens => owner'[token'[r]] # Nobody
      <3>1. CASE r = s
        BY <1>1, <3>1
      <3>2. CASE r # s
        BY <1>1, <3>2 DEF SessionInv, Drawn
      <3> QED
        BY <3>1, <3>2
    <2> QED
      BY <2>1 DEF SessionInv, Drawn
  <1>4. RowsOfTheDead'
    <2>1. ASSUME NEW r \in Slots, at'[r] = "audit logout"
          PROVE  token'[r] \notin sessions'
      BY <1>1, <2>1 DEF SessionInv, RowsOfTheDead
    <2> QED
      BY <2>1 DEF SessionInv, RowsOfTheDead, Dead
  <1>5. StaleRequests'
    <2>1. ASSUME NEW r \in Slots, stale'[r]
          PROVE  /\ token'[r] \in expired' \cup loggedOut' \cup trail'
                 /\ at'[r] \notin LoginPlaces \cup {"idle"}
      <3>1. CASE r = s
        BY <1>1, <2>1, <3>1 DEF Dead, LoginPlaces
      <3>2. CASE r # s
        BY <1>1, <2>1, <3>2 DEF SessionInv, StaleRequests, Dead
      <3> QED
        BY <3>1, <3>2
    <2> QED
      BY <2>1 DEF StaleRequests, Dead
  <1>6. LogoutIsFinal'
    BY <1>1 DEF SessionInv, LogoutIsFinal
  <1> QED
    BY <1>2, <1>3, <1>4, <1>5, <1>6 DEF SessionInv

\* A client that logs in, or has read its answer, holds no request that could be stale.
LEMMA ClientKeeps ==
  ASSUME SessionInv, NEW s \in Slots, ClientStep(s)
  PROVE  SessionInv'
  <1>1. ASSUME NEW u \in Users, AskLogin(s, u)
        PROVE  SessionInv'
    <2>1. ~stale[s]
      BY <1>1 DEF AskLogin, Idle, SessionInv, StaleRequests
    <2>2. "check" \in HandlerPlaces
      BY DEF HandlerPlaces, LoginPlaces
    <2>3. /\ at'[s] = "check" /\ status' = status /\ \A r \in Slots \ {s} : at'[r] = at[r]
          /\ at' \in [Slots -> HandlerPlaces] /\ status' \in [Slots -> Int]
      BY <1>1, <2>2, GotoGoes DEF AskLogin
    <2>4. /\ who'[s] = u /\ \A r \in Slots \ {s} : who'[r] = who[r] /\ op'[r] = op[r]
          /\ UNCHANGED <<sessionVars, token, stale>>
      BY <1>1 DEF AskLogin, SessionInv, SessionTypes
    <2>5. SessionTypes'
      BY <1>1, <2>3 DEF AskLogin, SessionInv, SessionTypes
    <2>6. Drawn'
      BY <2>3, <2>4 DEF SessionInv, Drawn
    <2>7. RowsOfTheDead'
      BY <2>3, <2>4 DEF SessionInv, RowsOfTheDead, Dead
    <2>8. StaleRequests'
      BY <2>1, <2>3, <2>4 DEF SessionInv, StaleRequests, Dead
    <2>9. LogoutIsFinal'
      BY <2>1, <2>3, <2>4 DEF SessionInv, LogoutIsFinal
    <2> QED
      BY <2>5, <2>6, <2>7, <2>8, <2>9 DEF SessionInv
  <1>2. ASSUME NEW o \in DOMAIN Needs, NEW t \in Tokens \cup {NoToken}, Ask(s, o, t)
        PROVE  SessionInv'
    <2>1. t \in Tokens => owner[t] # Nobody
      BY <1>2, SessionsAssumption DEF Ask, SessionInv, Drawn
    <2> QED
      BY <1>2, <2>1, SendKeeps DEF Ask
  <1>3. ASSUME LoadMore(s)
        PROVE  SessionInv'
    <2>1. token[s] \in Tokens \cup {NoToken} /\ (token[s] \in Tokens => owner[token[s]] # Nobody)
      BY DEF SessionInv, SessionTypes, Drawn
    <2> QED
      BY <1>3, <2>1, SendKeeps DEF LoadMore
  <1>4. ASSUME Forget(s)
        PROVE  SessionInv'
    <2>1. /\ op'[s] = "none" /\ at'[s] = "idle" /\ who'[s] = Nobody /\ token'[s] = NoToken
          /\ stale'[s] = FALSE /\ UNCHANGED sessionVars
          /\ \A r \in Slots \ {s} :
                /\ op'[r] = op[r] /\ token'[r] = token[r] /\ stale'[r] = stale[r]
                /\ status'[r] = status[r] /\ at'[r] = at[r] /\ who'[r] = who[r]
      BY <1>4 DEF Forget, SessionInv, SessionTypes
    <2>2. SessionTypes'
      <3>1. "idle" \in HandlerPlaces
        BY DEF HandlerPlaces
      <3>2. at' \in [Slots -> HandlerPlaces]
        BY <1>4, <3>1 DEF Forget, SessionInv, SessionTypes
      <3>3. op' \in [Slots -> DOMAIN Needs \cup {"none", "login", "search"}]
        BY <1>4 DEF Forget, SessionInv, SessionTypes
      <3>4. who' \in [Slots -> Users \cup {Nobody}] /\ token' \in [Slots -> Tokens \cup {NoToken}]
        BY <1>4 DEF Forget, SessionInv, SessionTypes
      <3>5. stale' \in [Slots -> BOOLEAN] /\ status' \in [Slots -> Int]
        BY <1>4 DEF Forget, SessionInv, SessionTypes
      <3> QED
        BY <2>1, <3>2, <3>3, <3>4, <3>5 DEF SessionInv, SessionTypes
    <2>3. Drawn'
      <3>1. ASSUME NEW r \in Slots
            PROVE  /\ at'[r] \in {"check", "insert"} => who'[r] \in Users
                   /\ at'[r] = "audit login" => token'[r] \in Tokens
                   /\ token'[r] \in Tokens => owner'[token'[r]] # Nobody
        <4>1. CASE r = s
          BY <2>1, <4>1, SessionsAssumption
        <4>2. CASE r # s
          BY <2>1, <4>2 DEF SessionInv, Drawn
        <4> QED
          BY <4>1, <4>2
      <3> QED
        BY <2>1, <3>1 DEF SessionInv, Drawn
    <2>4. RowsOfTheDead'
      BY <2>1 DEF SessionInv, RowsOfTheDead, Dead
    <2>5. StaleRequests'
      BY <2>1 DEF SessionInv, StaleRequests, Dead
    <2>6. LogoutIsFinal'
      BY <2>1 DEF SessionInv, LogoutIsFinal
    <2> QED
      BY <2>2, <2>3, <2>4, <2>5, <2>6 DEF SessionInv
  <1> QED
    BY <1>1, <1>2, <1>3, <1>4 DEF ClientStep

\* A session that expires is dead, with its row or without.
LEMMA ExpireKeeps ==
  ASSUME SessionInv, NEW t \in Tokens, Expire(t)
  PROVE  SessionInv'
  <1>1. /\ owner[t] # Nobody /\ expired' = expired \cup {t}
        /\ UNCHANGED <<sessions, owner, trail, known, loggedOut, requestVars>>
    BY DEF Expire
  <1>2. SessionTypes'
    BY <1>1 DEF SessionInv, SessionTypes
  <1>3. Drawn'
    BY <1>1 DEF SessionInv, Drawn
  <1>4. RowsOfTheDead'
    BY <1>1 DEF SessionInv, RowsOfTheDead, Dead
  <1>5. StaleRequests'
    BY <1>1 DEF SessionInv, StaleRequests, Dead
  <1>6. LogoutIsFinal'
    BY <1>1 DEF SessionInv, LogoutIsFinal
  <1> QED
    BY <1>2, <1>3, <1>4, <1>5, <1>6 DEF SessionInv

\* The database outlives the process.
LEMMA RestartKeeps ==
  ASSUME SessionInv, RestartRequests
  PROVE  SessionInv'
  <1>1. SessionTypes'
    <2>1. "idle" \in HandlerPlaces
      BY DEF HandlerPlaces
    <2>2. at' \in [Slots -> HandlerPlaces]
      BY <2>1 DEF RestartRequests
    <2>3. op' \in [Slots -> DOMAIN Needs \cup {"none", "login", "search"}]
      BY DEF RestartRequests
    <2>4. who' \in [Slots -> Users \cup {Nobody}] /\ token' \in [Slots -> Tokens \cup {NoToken}]
      BY DEF RestartRequests
    <2>5. stale' \in [Slots -> BOOLEAN] /\ status' \in [Slots -> Int]
      BY DEF RestartRequests
    <2> QED
      BY <2>2, <2>3, <2>4, <2>5 DEF RestartRequests, SessionInv, SessionTypes
  <1>2. Drawn'
    BY SessionsAssumption DEF RestartRequests, SessionInv, Drawn
  <1>3. RowsOfTheDead'
    BY DEF RestartRequests, SessionInv, RowsOfTheDead, Dead
  <1>4. StaleRequests' /\ LogoutIsFinal'
    BY DEF RestartRequests, StaleRequests, LogoutIsFinal
  <1> QED
    BY <1>1, <1>2, <1>3, <1>4 DEF SessionInv

\* Every step keeps the sessions sound.
LEMMA SessionsStaySound == SessionInv /\ [Next]_vars => SessionInv'
  <1> SUFFICES ASSUME SessionInv, [Next]_vars PROVE SessionInv'
    OBVIOUS
  <1>1. ASSUME NEW s \in Slots, Serve(s) \/ ClientStep(s)
        PROVE  SessionInv'
    <2>1. Me(s) => SessionInv'
      <3>1. "handler" \in WorkPlaces /\ 200 \in Int
        BY DEF WorkPlaces
      <3> QED
        BY <3>1, WorkKeeps DEF Me, Handling
    <2> QED
      BY <1>1, <2>1, LoginKeeps, AuthorizeKeeps, LogoutKeeps, ReadKeeps, ClientKeeps
      DEF Serve, SessionStep
  <1>3. (\E x \in Rows : Arrive(x)) \/ UNCHANGED vars => UNCHANGED <<sessionVars, requestVars>>
    BY DEF Arrive, vars
  <1> QED
    BY <1>1, <1>3, Untouched, ExpireKeeps, RestartKeeps DEF Next, Restart

\* Once a logout was answered or audited, or a session has expired, no request that is
\* sent with its token gets past requireAuth, for any number of clients, users and
\* tokens, across restarts.
THEOREM LogoutsAreFinal == Spec => []LogoutIsFinal
  <1>1. SessionInv => LogoutIsFinal
    BY DEF SessionInv
  <1> QED
    BY <1>1, InitSessions, SessionsStaySound, PTL DEF Spec

-----------------------------------------------------------------------------
(* What RefusedLeavesNothing needs to be inductive.                        *)

\* Where the handler of an operation can be.
PlaceFits(o, a) ==
    /\ a \in LoginPlaces => o = "login"
    /\ a = "audit logout" => o = "logout"
    /\ a = "page" => o = "export"
    /\ a = "lines" => o = "ingest"

\* A body some of whose lines are done; the lines that were taken are counted.
Halfway(j) ==
    /\ j = [Blank EXCEPT !.array = j.array, !.lines = j.lines,
                         !.accepted = j.accepted, !.rejected = j.rejected]
    /\ j.array \in BOOLEAN /\ j.lines \in Seq(BOOLEAN)
    /\ j.accepted \in Nat /\ j.rejected \in Nat
    /\ j.array => Len(j.lines) <= MaxEntries
    /\ LinesDone(j) <= Len(j.lines) /\ LinesDone(j) <= MaxEntries
    /\ j.accepted = Cardinality({i \in 1 .. LinesDone(j) : j.lines[i]})

\* What an answer says of a body.
AnswerTells(code, j) ==
    IF code = 200
    THEN /\ j.accepted = Cardinality({i \in DOMAIN j.lines : j.lines[i]})
         /\ LinesDone(j) = Len(j.lines)
    ELSE LinesDone(j) = 0 \/ (~j.array /\ LinesDone(j) = MaxEntries)

\* The job of a slot fits its request: there is none before its handler begins.
JobFits(o, a, code, j) ==
    /\ PlaceFits(o, a)
    /\ a = "idle" \/ (o = "ingest" /\ a \in GatePlaces \cup {"handler"}) => j = Blank
    /\ a = "lines" => Halfway(j)
    /\ o = "ingest" /\ a = "answered" => AnswerTells(code, j)

IngestInv ==
    /\ DOMAIN job = Slots
    /\ \A s \in Slots : JobFits(op[s], at[s], status[s], job[s])

-----------------------------------------------------------------------------
(* The steps of an ingest request.                                         *)

\* Whatever is not an ingest request need only be where its handler can be.
LEMMA OtherJobsFit ==
  ASSUME NEW o, NEW a, NEW code, NEW j, o # "ingest", a # "idle", PlaceFits(o, a)
  PROVE  JobFits(o, a, code, j)
  BY DEF JobFits, PlaceFits

\* A step of one slot leaves the jobs of the others alone.
LEMMA OneJobMoves ==
  ASSUME IngestInv, NEW s \in Slots,
         \A r \in Slots \ {s} : op'[r] = op[r] /\ at'[r] = at[r] /\ status'[r] = status[r],
         job' = job \/ \E j : Becomes(s, j),
         JobFits(op'[s], at'[s], status'[s], job'[s])
  PROVE  IngestInv'
  <1>1. DOMAIN job' = Slots /\ \A r \in Slots \ {s} : job'[r] = job[r]
    BY DEF IngestInv, Becomes
  <1>2. ASSUME NEW r \in Slots
        PROVE  JobFits(op'[r], at'[r], status'[r], job'[r])
    <2>1. CASE r = s
      BY <2>1
    <2>2. CASE r # s
      <3>1. op'[r] = op[r] /\ at'[r] = at[r] /\ status'[r] = status[r] /\ job'[r] = job[r]
        BY <1>1, <2>2
      <3>2. JobFits(op[r], at[r], status[r], job[r])
        BY DEF IngestInv
      <3> QED
        BY <3>1, <3>2
    <2> QED
      BY <2>1, <2>2
  <1> QED
    BY <1>1, <1>2 DEF IngestInv

\* One line more is done, and counted if it was taken.
LEMMA LineCounts ==
  ASSUME NEW lines \in Seq(BOOLEAN), NEW n \in Nat, n < Len(lines)
  PROVE  LET Taken(m) == {i \in 1 .. m : lines[i]}
         IN  /\ IsFiniteSet(Taken(n)) /\ Cardinality(Taken(n)) \in Nat
             /\ lines[n + 1] => Cardinality(Taken(n + 1)) = Cardinality(Taken(n)) + 1
             /\ ~lines[n + 1] => Cardinality(Taken(n + 1)) = Cardinality(Taken(n))
  <1> DEFINE Taken(m) == {i \in 1 .. m : lines[i]}
  <1>1. IsFiniteSet(1 .. n)
    BY FS_Interval
  <1>2. IsFiniteSet(Taken(n))
    <2>1. Taken(n) \subseteq 1 .. n
      OBVIOUS
    <2> QED
      BY <1>1, <2>1, FS_Subset
  <1>3. Cardinality(Taken(n)) \in Nat
    BY <1>2, FS_CardinalityType
  <1>4. n + 1 \notin Taken(n)
    OBVIOUS
  <1>5. lines[n + 1] => Taken(n + 1) = Taken(n) \cup {n + 1}
    OBVIOUS
  <1>6. ~lines[n + 1] => Taken(n + 1) = Taken(n)
    OBVIOUS
  <1>7. Cardinality(Taken(n) \cup {n + 1}) = Cardinality(Taken(n)) + 1
    BY <1>2, <1>4, FS_AddElement
  <1> QED
    BY <1>2, <1>3, <1>5, <1>6, <1>7

\* The smaller of two numbers.
LEMMA MinOfTwo ==
  ASSUME NEW a \in Int, NEW b \in Int
  PROVE  Min({a, b}) = IF a <= b THEN a ELSE b
  <1> DEFINE m == IF a <= b THEN a ELSE b
  <1>1. m \in {a, b} /\ \A x \in {a, b} : m <= x
    OBVIOUS
  <1>2. \A y \in {a, b} : (\A x \in {a, b} : y <= x) => y = m
    OBVIOUS
  <1> QED
    BY <1>1, <1>2 DEF Min

\* Before its handler begins, nothing of an ingest request is there.
LEMMA JobsAtStart == Init => IngestInv
  <1> SUFFICES ASSUME Init PROVE IngestInv
    OBVIOUS
  <1>1. DOMAIN job = Slots
    BY DEF Init
  <1>2. ASSUME NEW s \in Slots
        PROVE  JobFits(op[s], at[s], status[s], job[s])
    BY DEF Init, SessionsInit, JobFits, PlaceFits, LoginPlaces
  <1> QED
    BY <1>1, <1>2 DEF IngestInv

\* A request that is no ingest request may go where its handler can be.
LEMMA OtherJobGoesOn ==
  ASSUME SessionInv, IngestInv, NEW s \in Slots, op[s] # "ingest", op' = op,
         job' = job \/ \E j : Becomes(s, j),
         \/ \E place \in HandlerPlaces \ {"idle"} : Goto(s, place) /\ PlaceFits(op[s], place)
         \/ \E code \in Int : Answer(s, code)
  PROVE  IngestInv'
  <1>1. ASSUME NEW place \in HandlerPlaces, place # "idle", Goto(s, place), PlaceFits(op[s], place)
        PROVE  IngestInv'
    <2>1. /\ at'[s] = place /\ status' = status /\ \A r \in Slots \ {s} : at'[r] = at[r]
      BY <1>1, GotoGoes
    <2>2. JobFits(op'[s], at'[s], status'[s], job'[s])
      BY <1>1, <2>1, OtherJobsFit
    <2> QED
      BY <2>1, <2>2, OneJobMoves
  <1>2. ASSUME NEW code \in Int, Answer(s, code)
        PROVE  IngestInv'
    <2>1. /\ at'[s] = "answered"
          /\ \A r \in Slots \ {s} : at'[r] = at[r] /\ status'[r] = status[r]
      BY <1>2, AnswerGoes
    <2>2. PlaceFits(op[s], "answered")
      BY DEF PlaceFits, LoginPlaces
    <2>3. JobFits(op'[s], at'[s], status'[s], job'[s])
      BY <2>1, <2>2, OtherJobsFit
    <2> QED
      BY <2>1, <2>3, OneJobMoves
  <1> QED
    BY <1>1, <1>2

\* The sessions: a login is no ingest request, and one that requireAuth refuses has done
\* nothing.
LEMMA SessionJobs ==
  ASSUME SessionInv, IngestInv, NEW s \in Slots, SessionStep(s), UNCHANGED <<store, job>>
  PROVE  IngestInv'
  <1>0. {0, 200, 400, 401, 403, 500} \subseteq Int
    OBVIOUS
  <1>1. op' = op /\ JobFits(op[s], at[s], status[s], job[s])
    BY DEF IngestInv, SessionStep, Login, Authorize, Logout, Me, LoginMalformed, PasswordRight,
           LoginFails, CreateSession, AuditLogin, AuditFailure, Validate, Unauthorized,
           FindExpired, Purge, DeleteSession, LogoutFails, AuditLogout
  <1>2. ASSUME op[s] # "ingest",
               \/ \E place \in HandlerPlaces \ {"idle"} : Goto(s, place) /\ PlaceFits(op[s], place)
               \/ \E code \in Int : Answer(s, code)
        PROVE  IngestInv'
    BY <1>1, <1>2, OtherJobGoesOn
  <1>3. ASSUME Login(s)
        PROVE  IngestInv'
    <2>1. at[s] \in LoginPlaces
      BY <1>3 DEF Login, LoginMalformed, PasswordRight, LoginFails, CreateSession, AuditLogin,
                  AuditFailure, LoginPlaces
    <2>2. op[s] = "login"
      BY <1>1, <2>1 DEF JobFits, PlaceFits
    <2>3. \/ \E place \in LoginPlaces : Goto(s, place)
          \/ \E code \in Int : Answer(s, code)
      <3>1. {"insert", "audit login", "audit failure"} \subseteq LoginPlaces
        BY DEF LoginPlaces
      <3>2. LoginMalformed(s) \/ AuditLogin(s) \/ AuditFailure(s) => \E code \in Int : Answer(s, code)
        <4>1. LoginMalformed(s) \/ AuditLogin(s) \/ AuditFailure(s) =>
                 Answer(s, 400) \/ Answer(s, 200) \/ Answer(s, 401)
          BY DEF LoginMalformed, AuditLogin, AuditFailure
        <4>2. 200 \in Int /\ 400 \in Int /\ 401 \in Int
          OBVIOUS
        <4> QED
          BY <4>1, <4>2
      <3>3. PasswordRight(s) \/ LoginFails(s) => \E place \in LoginPlaces : Goto(s, place)
        BY <3>1 DEF PasswordRight, LoginFails
      <3>4. (\E t \in Tokens : CreateSession(s, t)) => \E place \in LoginPlaces : Goto(s, place)
        BY <3>1 DEF CreateSession
      <3> QED
        BY <1>3, <3>2, <3>3, <3>4 DEF Login
    <2>4. \A place \in LoginPlaces :
             place \in HandlerPlaces \ {"idle"} /\ PlaceFits("login", place)
      BY DEF LoginPlaces, HandlerPlaces, PlaceFits
    <2> QED
      BY <1>2, <2>2, <2>3, <2>4
  <1>4. ASSUME Authorize(s)
        PROVE  IngestInv'
    <2>1. at[s] \in GatePlaces
      BY <1>4 DEF Authorize, Validate, Unauthorized, FindExpired, Purge, GatePlaces
    <2>2. op[s] = "ingest" => job[s] = Blank
      BY <1>1, <2>1 DEF JobFits
    <2>3. PlaceFits(op[s], "handler") /\ PlaceFits(op[s], "purge") /\ PlaceFits(op[s], "answered")
      BY DEF PlaceFits, LoginPlaces
    <2>4. {"handler", "purge"} \subseteq HandlerPlaces
      BY DEF HandlerPlaces, GatePlaces, WorkPlaces
    <2>5. \/ \E place \in {"handler", "purge"} : Goto(s, place)
          \/ \E code \in {401, 403} : Answer(s, code)
      BY <1>4 DEF Authorize, Validate, Unauthorized, FindExpired, Purge
    <2>6. ASSUME NEW place \in {"handler", "purge"}, Goto(s, place)
          PROVE  IngestInv'
      <3>1. at'[s] = place /\ status' = status /\ \A r \in Slots \ {s} : at'[r] = at[r]
        BY <2>4, <2>6, GotoGoes
      <3>2. JobFits(op[s], place, status[s], job[s])
        BY <2>2, <2>3 DEF JobFits
      <3> QED
        BY <1>1, <3>1, <3>2, OneJobMoves
    <2>7. ASSUME NEW code \in {401, 403}, Answer(s, code)
          PROVE  IngestInv'
      <3>1. /\ at'[s] = "answered" /\ status'[s] = code
            /\ \A r \in Slots \ {s} : at'[r] = at[r] /\ status'[r] = status[r]
        BY <1>0, <2>7, AnswerGoes
      <3>2. AnswerTells(code, Blank)
        BY DEF AnswerTells, LinesDone, Blank
      <3>3. JobFits(op[s], "answered", code, job[s])
        BY <2>2, <2>3, <3>2 DEF JobFits
      <3> QED
        BY <1>1, <3>1, <3>3, OneJobMoves
    <2> QED
      BY <2>5, <2>6, <2>7
  <1>5. ASSUME Logout(s) \/ Me(s)
        PROVE  IngestInv'
    <2>1. op[s] # "ingest"
      <3>1. AuditLogout(s) => op[s] = "logout"
        BY <1>1 DEF AuditLogout, JobFits, PlaceFits
      <3> QED
        BY <1>5, <3>1 DEF Logout, Me, DeleteSession, LogoutFails, Handling
    <2>2. (Goto(s, "audit logout") /\ op[s] = "logout") \/ \E code \in Int : Answer(s, code)
      BY <1>0, <1>5, ZenonT(30) DEF Logout, Me, DeleteSession, LogoutFails, AuditLogout, Handling
    <2>3. "audit logout" \in HandlerPlaces \ {"idle"} /\ PlaceFits("logout", "audit logout")
      BY DEF HandlerPlaces, PlaceFits, LoginPlaces
    <2> QED
      BY <1>2, <2>1, <2>2, <2>3
  <1> QED
    BY <1>3, <1>4, <1>5 DEF SessionStep

\* The reads have no body.
LEMMA ReadJobs ==
  ASSUME SessionInv, IngestInv, NEW s \in Slots, ReadStep(s), op[s] # "ingest"
  PROVE  IngestInv'
  <1>0. {0, 200, 400, 503, 504} \subseteq Int
    OBVIOUS
  <1>1. at[s] = "page" => op[s] = "export"
    BY DEF IngestInv, JobFits, PlaceFits
  <1>2. at[s] # "lines"
    BY DEF IngestInv, JobFits, PlaceFits
  <1>3. PlaceFits("export", "page") /\ "page" \in HandlerPlaces \ {"idle"}
    BY DEF PlaceFits, LoginPlaces, HandlerPlaces, WorkPlaces
  <1> DEFINE Goes == /\ op' = op
                     /\ job' = job \/ \E j : Becomes(s, j)
                     /\ \/ op[s] = "export" /\ Goto(s, "page")
                        \/ \E code \in Int : Answer(s, code)
  <1>4. Goes => IngestInv'
    BY <1>3, OtherJobGoesOn
  <1>5. ReadFails(s) \/ OneAnswer(s) \/ ExportBreaks(s) => Goes
    BY <1>0 DEF ReadFails, OneAnswer, ExportBreaks
  <1>6. ASSUME NEW j, NEW offset, Deliver(s, j, offset)
        PROVE  Goes
    <2>1. Answer(s, 200) /\ op' = op
      BY <1>6 DEF Deliver
    <2>2. \E k : Becomes(s, k)
      BY <1>6 DEF Deliver
    <2> QED
      BY <1>0, <2>1, <2>2
  <1>7. (\E r \in Ranges, n \in Limits : FirstPage(s, r, n)) \/ NextPage(s) => Goes
    <2>1. ASSUME NEW r \in Ranges, NEW n \in Limits, FirstPage(s, r, n)
          PROVE  Goes
      BY <1>6, <2>1 DEF FirstPage
    <2>2. NextPage(s) => Goes
      BY <1>6 DEF NextPage
    <2> QED
      BY <2>1, <2>2
  <1>8. (\E r \in Ranges, n \in Limits : Export(s, r, n)) => Goes
    BY DEF Export, Handling
  <1>9. ExportPage(s) => Goes
    <2>1. ExportPage(s) => (Goto(s, "page") \/ Answer(s, 200)) /\ op' = op /\ \E k : Becomes(s, k)
      BY DEF ExportPage
    <2>2. ExportPage(s) => at[s] = "page"
      BY DEF ExportPage
    <2> QED
      BY <1>0, <1>1, <2>1, <2>2
  <1>10. (\E r \in Ranges, b \in Buckets : Volume(s, r, b)) => Goes
    <2>1. ASSUME NEW r \in Ranges, NEW b \in Buckets, Volume(s, r, b)
          PROVE  Goes
      <3>1. Answer(s, 200) /\ op' = op
        BY <2>1 DEF Volume
      <3>2. \E k : Becomes(s, k)
        BY <2>1 DEF Volume
      <3> QED
        BY <1>0, <3>1, <3>2
    <2> QED
      BY <2>1
  <1>11. (\E r \in Ranges, b \in Buckets : VolumeFails(s, r, b)) => Goes
    <2>1. ASSUME NEW r \in Ranges, NEW b \in Buckets, VolumeFails(s, r, b)
          PROVE  Goes
      <3>1. Answer(s, 0) \/ Answer(s, 400)
        BY <2>1 DEF VolumeFails
      <3>2. op' = op /\ job' = job
        BY <2>1 DEF VolumeFails
      <3> QED
        BY <1>0, <3>1, <3>2
    <2> QED
      BY <2>1
  <1>12. ~IngestRefused(s) /\ (\A b \in Bodies : ~Ingest(s, b)) /\ ~IngestLine(s) /\ ~IngestEnds(s)
    BY <1>2 DEF IngestRefused, Ingest, IngestLine, IngestEnds, Handling
  <1> QED
    BY <1>4, <1>5, <1>7, <1>8, <1>9, <1>10, <1>11, <1>12 DEF ReadStep

\* handleIngest: nothing of an array that is too long is taken, lines are counted one by
\* one, and the answer gives their number.
LEMMA IngestJobs ==
  ASSUME SessionInv, IngestInv, NEW s \in Slots, ReadStep(s), op[s] = "ingest"
  PROVE  IngestInv'
  <1>0. {200, 400, 413, 415} \subseteq Int /\ MaxEntries \in Nat
    BY ReadApiAssumption
  <1>1. JobFits("ingest", at[s], status[s], job[s]) /\ DOMAIN job = Slots
    BY DEF IngestInv
  <1>2. PlaceFits("ingest", "answered") /\ PlaceFits("ingest", "lines")
    BY DEF PlaceFits, LoginPlaces
  <1>3. IngestRefused(s) \/ (\E b \in Bodies : Ingest(s, b)) \/ IngestLine(s) \/ IngestEnds(s)
    <2>1. at[s] # "page"
      BY <1>1 DEF JobFits, PlaceFits
    <2> QED
      BY <2>1 DEF ReadStep, Reads, ReadFails, OneAnswer, FirstPage, NextPage, Export, ExportPage,
                  ExportBreaks, Volume, VolumeFails, Handling
  <1>4. ASSUME NEW code \in Int, Answer(s, code), op' = op,
               job' = job \/ \E j : Becomes(s, j), AnswerTells(code, job'[s])
        PROVE  IngestInv'
    <2>1. /\ at'[s] = "answered" /\ status'[s] = code
          /\ \A r \in Slots \ {s} : at'[r] = at[r] /\ status'[r] = status[r]
      BY <1>4, AnswerGoes
    <2>2. JobFits("ingest", "answered", code, job'[s])
      BY <1>2, <1>4 DEF JobFits, GatePlaces
    <2> QED
      BY <1>4, <2>1, <2>2, OneJobMoves
  <1>5. ASSUME NEW place, place = "lines", at'[s] = place, op' = op, Halfway(job'[s]),
               \A r \in Slots \ {s} : at'[r] = at[r] /\ status'[r] = status[r],
               \E j : Becomes(s, j)
        PROVE  IngestInv'
    <2>1. JobFits("ingest", "lines", status'[s], job'[s])
      BY <1>2, <1>5 DEF JobFits, GatePlaces
    <2> QED
      BY <1>5, <2>1, OneJobMoves
  <1>6. ASSUME IngestRefused(s)
        PROVE  IngestInv'
    <2>1. PICK code \in {400, 413, 415} : Answer(s, code)
      BY <1>6 DEF IngestRefused
    <2>2. op' = op /\ job' = job /\ at[s] = "handler"
      BY <1>6 DEF IngestRefused, Handling
    <2>3. job[s] = Blank
      BY <1>1, <2>2 DEF JobFits
    <2>4. AnswerTells(code, Blank)
      BY DEF AnswerTells, Blank, LinesDone
    <2> QED
      BY <1>0, <1>4, <2>1, <2>2, <2>3, <2>4
  <1>7. ASSUME NEW b \in Bodies, Ingest(s, b)
        PROVE  IngestInv'
    <2> DEFINE j == [Blank EXCEPT !.array = b.array, !.lines = b.lines]
    <2>1. /\ Becomes(s, j) /\ op' = op
          /\ IF TooLong(b) THEN Answer(s, 413) ELSE Goto(s, "lines")
      BY <1>7 DEF Ingest
    <2>2. job'[s] = j
      BY <1>1, <2>1 DEF Becomes
    <2>3. b.array \in BOOLEAN /\ b.lines \in Seq(BOOLEAN) /\ Len(b.lines) \in Nat
      BY ReadApiAssumption
    <2>4. j.array = b.array /\ j.lines = b.lines /\ j.accepted = 0 /\ j.rejected = 0
      BY DEF Blank
    <2>5. CASE TooLong(b)
      <3>1. AnswerTells(413, j)
        BY <2>4 DEF AnswerTells, LinesDone
      <3> QED
        BY <1>0, <1>4, <2>1, <2>2, <2>5, <3>1
    <2>6. CASE ~TooLong(b)
      <3>1. at'[s] = "lines" /\ status' = status /\ \A r \in Slots \ {s} : at'[r] = at[r]
        <4>1. "lines" \in HandlerPlaces
          BY DEF HandlerPlaces, WorkPlaces
        <4> QED
          BY <2>1, <2>6, <4>1, GotoGoes
      <3>2. j = [Blank EXCEPT !.array = j.array, !.lines = j.lines,
                              !.accepted = j.accepted, !.rejected = j.rejected]
        BY ZenonT(30) DEF Blank
      <3>3. LinesDone(j) = 0
        BY <2>4 DEF LinesDone
      <3>4. {i \in 1 .. 0 : j.lines[i]} = {}
        OBVIOUS
      <3>5. Cardinality({}) = 0
        BY FS_EmptySet
      <3>6. b.array => Len(b.lines) <= MaxEntries
        BY <1>0, <2>3, <2>6 DEF TooLong
      <3> HIDE DEF j
      <3>7. Halfway(j)
        BY <1>0, <2>3, <2>4, <3>2, <3>3, <3>4, <3>5, <3>6 DEF Halfway
      <3> QED
        BY <1>5, <2>1, <2>2, <3>1, <3>7
    <2> QED
      BY <2>5, <2>6
  <1>8. ASSUME at[s] = "lines"
        PROVE  /\ Halfway(job[s])
               /\ Len(job[s].lines) \in Nat /\ LinesDone(job[s]) \in Nat
               /\ Min({Len(job[s].lines), MaxEntries}) =
                     IF Len(job[s].lines) <= MaxEntries THEN Len(job[s].lines) ELSE MaxEntries
    <2>1. Halfway(job[s])
      BY <1>1, <1>8 DEF JobFits
    <2>2. Len(job[s].lines) \in Nat /\ LinesDone(job[s]) \in Nat
      BY <2>1 DEF Halfway, LinesDone
    <2> QED
      BY <1>0, <2>1, <2>2, MinOfTwo
  <1>9. ASSUME IngestLine(s)
        PROVE  IngestInv'
    <2> DEFINE j == job[s]
               n == LinesDone(j)
               Taken(m) == {i \in 1 .. m : j.lines[i]}
               k == IF j.lines[n + 1] THEN [j EXCEPT !.accepted = @ + 1]
                                      ELSE [j EXCEPT !.rejected = @ + 1]
    <2>1. /\ at[s] = "lines" /\ n < Min({Len(j.lines), MaxEntries}) /\ Becomes(s, k)
          /\ UNCHANGED requestVars
      BY <1>9 DEF IngestLine
    <2>2. job'[s] = k
      BY <1>1, <2>1 DEF Becomes
    <2>3. /\ Halfway(j) /\ Len(j.lines) \in Nat /\ n \in Nat
          /\ n < Len(j.lines) /\ n < MaxEntries
      BY <1>0, <1>8, <2>1
    <2>4. /\ j.array \in BOOLEAN /\ j.lines \in Seq(BOOLEAN) /\ j.accepted \in Nat /\ j.rejected \in Nat
          /\ j.array => Len(j.lines) <= MaxEntries
          /\ j.accepted = Cardinality(Taken(n)) /\ n = j.accepted + j.rejected
          /\ j = [Blank EXCEPT !.array = j.array, !.lines = j.lines,
                               !.accepted = j.accepted, !.rejected = j.rejected]
      BY <2>3 DEF Halfway, LinesDone
    <2>5. j.lines[n + 1] \in BOOLEAN
      <3>1. n + 1 \in 1 .. Len(j.lines)
        BY <2>3
      <3>2. j.lines \in Seq(BOOLEAN)
        BY <2>4
      <3> QED
        BY <3>1, <3>2, ElementOfSeq
    <2>6. /\ j.lines[n + 1] => Cardinality(Taken(n + 1)) = Cardinality(Taken(n)) + 1
          /\ ~j.lines[n + 1] => Cardinality(Taken(n + 1)) = Cardinality(Taken(n))
      BY <2>3, <2>4, LineCounts
    <2>7. /\ k.array = j.array /\ k.lines = j.lines
          /\ j.lines[n + 1] => k.accepted = j.accepted + 1 /\ k.rejected = j.rejected
          /\ ~j.lines[n + 1] => k.accepted = j.accepted /\ k.rejected = j.rejected + 1
      BY <2>4, <2>5 DEF Blank
    <2>8. k = [Blank EXCEPT !.array = k.array, !.lines = k.lines,
                            !.accepted = k.accepted, !.rejected = k.rejected]
      BY <2>4, <2>5 DEF Blank
    <2> HIDE DEF k
    <2>9. LinesDone(k) = n + 1 /\ k.accepted \in Nat /\ k.rejected \in Nat
      BY <2>4, <2>5, <2>7 DEF LinesDone
    <2>10. {i \in 1 .. LinesDone(k) : k.lines[i]} = Taken(n + 1)
      BY <2>7, <2>9
    <2>11. k.accepted = Cardinality(Taken(n + 1))
      BY <2>4, <2>5, <2>6, <2>7
    <2>12. Halfway(k)
      BY <1>0, <2>3, <2>4, <2>7, <2>8, <2>9, <2>10, <2>11 DEF Halfway
    <2> QED
      BY <1>5, <2>1, <2>2, <2>12
  <1>10. ASSUME IngestEnds(s)
         PROVE  IngestInv'
    <2> DEFINE j == job[s]
               code == IF Len(j.lines) > MaxEntries THEN 413 ELSE 200
    <2>1. /\ at[s] = "lines" /\ LinesDone(j) = Min({Len(j.lines), MaxEntries}) /\ Answer(s, code)
          /\ op' = op /\ job' = job
      BY <1>10 DEF IngestEnds
    <2>2. /\ Halfway(j) /\ Len(j.lines) \in Nat
          /\ LinesDone(j) = IF Len(j.lines) <= MaxEntries THEN Len(j.lines) ELSE MaxEntries
      BY <1>8, <2>1
    <2>3. CASE Len(j.lines) > MaxEntries
      <3>1. LinesDone(j) = MaxEntries /\ ~j.array
        BY <1>0, <2>2, <2>3 DEF Halfway
      <3>2. AnswerTells(413, j)
        BY <3>1 DEF AnswerTells
      <3> QED
        BY <1>0, <1>4, <2>1, <2>3, <3>2
    <2>4. CASE ~(Len(j.lines) > MaxEntries)
      <3>1. LinesDone(j) = Len(j.lines)
        BY <1>0, <2>2, <2>4
      <3>2. DOMAIN j.lines = 1 .. Len(j.lines)
        BY <2>2 DEF Halfway
      <3>3. j.accepted = Cardinality({i \in DOMAIN j.lines : j.lines[i]})
        BY <2>2, <3>1, <3>2 DEF Halfway
      <3>4. AnswerTells(200, j)
        BY <3>1, <3>3 DEF AnswerTells
      <3> QED
        BY <1>0, <1>4, <2>1, <2>4, <3>4
    <2> QED
      BY <2>3, <2>4
  <1> QED
    BY <1>3, <1>6, <1>7, <1>9, <1>10

\* A request starts with no job, and a client that has read its answer has none.
LEMMA ClientJobs ==
  ASSUME SessionInv, IngestInv, NEW s \in Slots, ClientStep(s)
  PROVE  IngestInv'
  <1>1. JobFits(op[s], at[s], status[s], job[s]) /\ DOMAIN job = Slots
    BY DEF IngestInv
  <1>2. ASSUME NEW u \in Users, AskLogin(s, u), UNCHANGED <<store, job>>
        PROVE  IngestInv'
    <2>1. op'[s] = "login" /\ at'[s] = "check"
      BY <1>2 DEF AskLogin, Goto, SessionInv, SessionTypes
    <2>2. \A r \in Slots \ {s} : op'[r] = op[r] /\ at'[r] = at[r] /\ status'[r] = status[r]
      BY <1>2 DEF AskLogin, Goto, SessionInv, SessionTypes
    <2>3. PlaceFits("login", "check")
      BY DEF PlaceFits, LoginPlaces
    <2>4. JobFits(op'[s], at'[s], status'[s], job'[s])
      BY <2>1, <2>3, OtherJobsFit
    <2> QED
      BY <1>2, <2>2, <2>4, OneJobMoves
  <1>3. ASSUME NEW o, NEW t, Send(s, o, t), UNCHANGED <<store, job>>,
               o = "ingest" => job[s] = Blank
        PROVE  IngestInv'
    <2>1. op'[s] = o /\ at'[s] \in {"handler", "validate"}
      BY <1>3 DEF Send, SessionInv, SessionTypes
    <2>2. \A r \in Slots \ {s} : op'[r] = op[r] /\ at'[r] = at[r] /\ status'[r] = status[r]
      BY <1>3 DEF Send, SessionInv, SessionTypes
    <2>3. PlaceFits(o, at'[s])
      BY <2>1 DEF PlaceFits, LoginPlaces
    <2>4. JobFits(o, at'[s], status'[s], job'[s])
      BY <1>3, <2>1, <2>3 DEF JobFits
    <2> QED
      BY <1>3, <2>1, <2>2, <2>4, OneJobMoves
  <1>4. ASSUME NEW o \in DOMAIN Needs, NEW t \in Tokens \cup {NoToken}, Ask(s, o, t),
               UNCHANGED <<store, job>>
        PROVE  IngestInv'
    <2>1. job[s] = Blank
      BY <1>1, <1>4 DEF Ask, Idle, JobFits
    <2> QED
      BY <1>3, <1>4, <2>1 DEF Ask
  <1>5. ASSUME LoadMore(s)
        PROVE  IngestInv'
    BY <1>3, <1>5 DEF LoadMore
  <1>6. ASSUME Forget(s), Becomes(s, Blank)
        PROVE  IngestInv'
    <2>1. op'[s] = "none" /\ at'[s] = "idle" /\ job'[s] = Blank
      BY <1>1, <1>6 DEF Forget, Becomes, SessionInv, SessionTypes
    <2>2. \A r \in Slots \ {s} : op'[r] = op[r] /\ at'[r] = at[r] /\ status'[r] = status[r]
      BY <1>6 DEF Forget, SessionInv, SessionTypes
    <2>3. JobFits("none", "idle", status'[s], Blank)
      BY DEF JobFits, PlaceFits, LoginPlaces
    <2> QED
      BY <1>6, <2>1, <2>2, <2>3, OneJobMoves
  <1> QED
    BY <1>2, <1>4, <1>5, <1>6 DEF ClientStep

\* Every step keeps the jobs sound.
LEMMA JobsStaySound == SessionInv /\ IngestInv /\ [Next]_vars => IngestInv'
  <1> SUFFICES ASSUME SessionInv, IngestInv, [Next]_vars PROVE IngestInv'
    OBVIOUS
  <1>1. ASSUME NEW s \in Slots, Serve(s) \/ ClientStep(s)
        PROVE  IngestInv'
    BY <1>1, SessionJobs, ReadJobs, IngestJobs, ClientJobs DEF Serve
  <1>2. ASSUME UNCHANGED <<requestVars, job>>
        PROVE  IngestInv'
    BY <1>2 DEF IngestInv
  <1>3. (\E t \in Tokens : Expire(t) /\ UNCHANGED <<store, job>>) \/ (\E x \in Rows : Arrive(x))
           \/ UNCHANGED vars => UNCHANGED <<requestVars, job>>
    BY DEF Expire, Arrive, vars
  <1>4. ASSUME Restart
        PROVE  IngestInv'
    <2>1. /\ DOMAIN job' = Slots
          /\ \A s \in Slots : op'[s] = "none" /\ at'[s] = "idle" /\ job'[s] = Blank
      BY <1>4 DEF Restart, RestartRequests
    <2>2. \A code : JobFits("none", "idle", code, Blank)
      BY DEF JobFits, PlaceFits, LoginPlaces
    <2> QED
      BY <2>1, <2>2 DEF IngestInv
  <1> QED
    BY <1>1, <1>2, <1>3, <1>4 DEF Next

\* An answer of 200 to an ingest request counts every line of the body, taken or not, and
\* a refused array has left nothing behind, for every body and every limit.
THEOREM RefusalsLeaveNothing == Spec => []RefusedLeavesNothing
  <1>1. IngestInv => RefusedLeavesNothing
    <2> SUFFICES ASSUME IngestInv, NEW s \in Slots, op[s] = "ingest", at[s] = "answered"
                 PROVE  LET j == job[s]
                        IN  CASE status[s] = 200 ->
                                   /\ j.accepted = Cardinality({i \in DOMAIN j.lines : j.lines[i]})
                                   /\ LinesDone(j) = Len(j.lines)
                              [] status[s] # 200 ->
                                   LinesDone(j) = 0 \/ (~j.array /\ LinesDone(j) = MaxEntries)
      BY DEF RefusedLeavesNothing
    <2>1. AnswerTells(status[s], job[s])
      BY DEF IngestInv, JobFits
    <2> QED
      BY <2>1 DEF AnswerTells
  <1>2. SessionInv /\ IngestInv /\ [Next]_vars => SessionInv' /\ IngestInv'
    BY SessionsStaySound, JobsStaySound
  <1> QED
    BY <1>1, <1>2, InitSessions, JobsAtStart, PTL DEF Spec

-----------------------------------------------------------------------------
(* What NoRowSkipped and RepeatsAreArrivals need to be inductive.  The     *)
(* store is a parameter: rows arrive.                                      *)

Within(r, st) == {x \in st : TimeOf[x] \in r[1] .. r[2]}
Newer(y, rows) == {x \in rows : TimeOf[x] > TimeOf[y]}
Lone(y, st) == \A z \in st \ {y} : TimeOf[z] # TimeOf[y]
Seen(j) == ToSet(j.got)

NoGap(j, st) ==
    /\ \A x \in Seen(j) : \A y \in j.want :
          TimeOf[y] > TimeOf[x] /\ Lone(y, st) => y \in Seen(j)
    /\ j.short => \A y \in j.want : Lone(y, st) => y \in Seen(j)

FewRepeats(j, st) ==
    /\ Len(j.got) <= MaxOffset + IF j.short THEN 0 ELSE j.limit
    /\ \A y \in Within(j.range, st) : Lone(y, st)
    => Len(j.got) <= Cardinality(Seen(j)) + Cardinality(Within(j.range, st) \ j.want)

\* A walk has reached an offset: as many rows are there, and the client has those of its
\* first page that only as few are newer than.
Reached(j, offset, st) ==
    /\ offset \in Nat /\ offset <= Cardinality(Within(j.range, st))
    /\ \A y \in j.want :
          Lone(y, st) /\ Cardinality(Newer(y, Within(j.range, st))) < offset => y \in Seen(j)

WalkTypes(j) ==
    /\ DOMAIN j = DOMAIN Blank
    /\ j.limit \in Nat /\ j.next \in Nat \cup {None} /\ j.got \in Seq(Rows)
    /\ j.short \in BOOLEAN

Walk(a, j, st) ==
    /\ WalkTypes(j) /\ j.want \subseteq Within(j.range, st)
    /\ NoGap(j, st) /\ FewRepeats(j, st)
    /\ a = "page" => j.next = None /\ Len(j.got) <= j.limit /\ Reached(j, Len(j.got), st)
    /\ j.next # None =>
          /\ Reached(j, j.next, st)
          /\ j.next = Len(j.got) \/ Len(j.got) > MaxOffset + j.limit

\* A request that is about no pages.
NoPages(j) == j.want = {} /\ j.got = <<>> /\ ~j.short /\ j.next = None

PagesFit(a, j, st) == Walk(a, j, st) \/ (NoPages(j) /\ a # "page")

PagesInv ==
    /\ store \subseteq Rows /\ IsFiniteSet(store)
    /\ \A s \in Slots : PagesFit(at[s], job[s], store)

-----------------------------------------------------------------------------
(* One page.                                                               *)

\* The storage returns every row once.
LEMMA RowsInOrder ==
  ASSUME NEW rows, rows \subseteq Rows, IsFiniteSet(rows), NEW o \in NewestFirst(rows)
  PROVE  /\ o \in Seq(rows) /\ Len(o) = Cardinality(rows) /\ Len(o) \in Nat
         /\ \A y \in rows : \E i \in 1 .. Len(o) : o[i] = y
         /\ \A i, k \in 1 .. Len(o) : i # k => o[i] # o[k]
         /\ \A i, k \in 1 .. Len(o) : i < k => TimeOf[o[i]] >= TimeOf[o[k]]
  <1> DEFINE n == Cardinality(rows)
  <1>1. n \in Nat
    BY FS_CardinalityType
  <1>2. o \in [1 .. n -> rows] /\ \A i, k \in 1 .. n : i # k => o[i] # o[k]
    BY DEF NewestFirst, SetToSeqs
  <1>3. o \in Seq(rows) /\ Len(o) = n
    BY <1>1, <1>2
  <1>4. \A y \in rows : \E i \in 1 .. n : o[i] = y
    <2>1. o \in Injection(1 .. n, rows)
      BY <1>2 DEF Injection, IsInjective
    <2>2. Cardinality(1 .. n) = n
      BY <1>1, FS_Interval
    <2>3. o \in Surjection(1 .. n, rows)
      BY <2>1, <2>2, FS_Injection
    <2> QED
      BY <2>3 DEF Surjection
  <1>5. \A i, k \in 1 .. n : i < k => TimeOf[o[i]] >= TimeOf[o[k]]
    BY <1>2 DEF NewestFirst
  <1> QED
    BY <1>1, <1>2, <1>3, <1>4, <1>5

\* A row whose time is its own comes behind exactly the rows that are newer.
LEMMA PlaceInOrder ==
  ASSUME NEW rows, rows \subseteq Rows, IsFiniteSet(rows), NEW o \in NewestFirst(rows),
         NEW k \in 1 .. Len(o), Lone(o[k], rows)
  PROVE  Cardinality(Newer(o[k], rows)) = k - 1
  <1> DEFINE f == [i \in 1 .. k - 1 |-> o[i]]
             T == Newer(o[k], rows)
  <1>1. /\ o \in Seq(rows) /\ Len(o) \in Nat
        /\ \A y \in rows : \E i \in 1 .. Len(o) : o[i] = y
        /\ \A i, m \in 1 .. Len(o) : i # m => o[i] # o[m]
        /\ \A i, m \in 1 .. Len(o) : i < m => TimeOf[o[i]] >= TimeOf[o[m]]
    BY RowsInOrder
  <1>2. k \in Nat /\ k - 1 \in Nat /\ \A i \in 1 .. Len(o) : o[i] \in rows /\ TimeOf[o[i]] \in Nat
    <2>1. k \in Nat /\ k - 1 \in Nat
      BY <1>1
    <2>2. \A i \in 1 .. Len(o) : o[i] \in rows
      BY <1>1, ElementOfSeq
    <2>3. \A x \in rows : TimeOf[x] \in Nat
      BY ReadApiAssumption
    <2> QED
      BY <2>1, <2>2, <2>3
  <1>3. ASSUME NEW i \in 1 .. k - 1
        PROVE  f[i] \in T
    <2>1. i \in 1 .. Len(o) /\ i < k
      BY <1>1, <1>2
    <2>2. o[i] # o[k] /\ o[i] \in rows
      BY <1>1, <1>2, <2>1
    <2>3. TimeOf[o[i]] >= TimeOf[o[k]] /\ TimeOf[o[i]] # TimeOf[o[k]]
      BY <1>1, <2>1, <2>2 DEF Lone
    <2>4. TimeOf[o[i]] > TimeOf[o[k]]
      BY <1>2, <2>1, <2>3
    <2> QED
      BY <2>2, <2>4 DEF Newer
  <1>4. ASSUME NEW x \in T
        PROVE  \E i \in 1 .. k - 1 : f[i] = x
    <2>1. PICK i \in 1 .. Len(o) : o[i] = x
      BY <1>1 DEF Newer
    <2>2. TimeOf[o[i]] > TimeOf[o[k]]
      BY <2>1 DEF Newer
    <2>3. ~(k < i) /\ i # k
      <3>1. TimeOf[o[i]] \in Nat /\ TimeOf[o[k]] \in Nat
        BY <1>2
      <3>2. ~(TimeOf[o[k]] >= TimeOf[o[i]])
        BY <2>2, <3>1
      <3> QED
        BY <1>1, <2>2, <3>1, <3>2
    <2>4. i \in 1 .. k - 1
      BY <1>2, <2>3
    <2> QED
      BY <2>1, <2>4
  <1>5. \A i, m \in 1 .. k - 1 : f[i] = f[m] => i = m
    <2>1. \A i \in 1 .. k - 1 : i \in 1 .. Len(o)
      BY <1>1, <1>2
    <2> QED
      BY <1>1, <2>1
  <1>6. f \in Bijection(1 .. k - 1, T)
    <2>1. f \in [1 .. k - 1 -> T]
      BY <1>3
    <2>2. f \in Injection(1 .. k - 1, T)
      BY <1>5, <2>1 DEF Injection, IsInjective
    <2>3. f \in Surjection(1 .. k - 1, T)
      BY <1>4, <2>1 DEF Surjection
    <2> QED
      BY <2>2, <2>3 DEF Bijection
  <1>7. IsFiniteSet(1 .. k - 1) /\ Cardinality(1 .. k - 1) = k - 1
    <2>1. 1 \in Int /\ k - 1 \in Int /\ (IF 1 > k - 1 THEN 0 ELSE k - 1 - 1 + 1) = k - 1
      BY <1>2
    <2> QED
      BY <2>1, FS_Interval
  <1>8. ExistsBijection(1 .. k - 1, T)
    BY <1>6 DEF ExistsBijection
  <1> QED
    BY <1>7, <1>8, FS_Bijection

\* The first rows of the storage's answer are as many as they are.
LEMMA FirstRows ==
  ASSUME NEW rows, rows \subseteq Rows, IsFiniteSet(rows), NEW o \in NewestFirst(rows),
         NEW c \in 0 .. Len(o)
  PROVE  LET T == {o[i] : i \in 1 .. c}
         IN  IsFiniteSet(T) /\ Cardinality(T) = c
  <1> DEFINE T == {o[i] : i \in 1 .. c}
             f == [i \in 1 .. c |-> o[i]]
  <1>1. Len(o) \in Nat /\ \A i, m \in 1 .. Len(o) : i # m => o[i] # o[m]
    BY RowsInOrder
  <1>2. f \in [1 .. c -> T] /\ \A i, m \in 1 .. c : f[i] = f[m] => i = m
    BY <1>1
  <1>3. f \in Injection(1 .. c, T)
    BY <1>2 DEF Injection, IsInjective
  <1>4. f \in Surjection(1 .. c, T)
    BY <1>2 DEF Surjection
  <1>5. ExistsBijection(1 .. c, T)
    BY <1>3, <1>4 DEF Bijection, ExistsBijection
  <1>6. IsFiniteSet(1 .. c) /\ Cardinality(1 .. c) = c
    BY <1>1, FS_Interval
  <1> QED
    BY <1>5, <1>6, FS_Bijection

\* A sequence has finitely many elements.
LEMMA SeenIsFinite ==
  ASSUME NEW S, NEW q \in Seq(S)
  PROVE  IsFiniteSet(ToSet(q)) /\ Cardinality(ToSet(q)) \in Nat
  <1>1. DOMAIN q = 1 .. Len(q) /\ Len(q) \in Nat
    OBVIOUS
  <1>2. q \in [1 .. Len(q) -> ToSet(q)]
    BY <1>1 DEF ToSet
  <1>3. q \in Surjection(1 .. Len(q), ToSet(q))
    BY <1>1, <1>2 DEF Surjection, ToSet
  <1>4. IsFiniteSet(1 .. Len(q))
    BY <1>1, FS_Interval
  <1>5. IsFiniteSet(ToSet(q))
    BY <1>3, <1>4, FS_Surjection
  <1> QED
    BY <1>5, FS_CardinalityType

\* A client has what it had and c rows behind the first p of an answer, and nothing else.
Appended(got, all, o, p, c) ==
    /\ Len(all) = Len(got) + c /\ all \in Seq(Rows)
    /\ ToSet(got) \subseteq ToSet(all)
    /\ \A i \in p + 1 .. p + c : o[i] \in ToSet(all)
    /\ \A x \in ToSet(all) \ ToSet(got) : \E i \in p + 1 .. p + c : o[i] = x

\* The rows of a page come behind those that the client has.
LEMMA PageAppends ==
  ASSUME NEW got \in Seq(Rows), NEW o \in Seq(Rows), NEW offset \in Nat, NEW d \in Nat,
         offset + d <= Len(o), NEW rows, rows = SubSeq(o, offset + 1, offset + d)
  PROVE  Len(rows) = d /\ Appended(got, got \o rows, o, offset, d)
  <1> DEFINE g   == Len(got)
             all == got \o rows
  <1>1. g \in Nat /\ Len(o) \in Nat
    OBVIOUS
  <1>2. rows \in Seq(Rows) /\ Len(rows) = d /\ \A i \in 1 .. d : rows[i] = o[offset + i]
    <2>1. PICK p \in Int, m \in Int : p = offset + 1 /\ m = offset + d
      OBVIOUS
    <2>2. \A i \in p .. m : i \in 1 .. Len(o)
      BY <1>1, <2>1
    <2>3. \A i \in p .. m : o[i] \in Rows
      BY <2>2, ElementOfSeq
    <2>4. /\ SubSeq(o, p, m) \in Seq(Rows)
          /\ Len(SubSeq(o, p, m)) = IF p <= m THEN m - p + 1 ELSE 0
          /\ \A i \in 1 .. m - p + 1 : SubSeq(o, p, m)[i] = o[p + i - 1]
      BY <2>3, SubSeqProperties
    <2>5. (IF p <= m THEN m - p + 1 ELSE 0) = d /\ m - p + 1 = d
      BY <2>1
    <2>6. \A i \in 1 .. d : p + i - 1 = offset + i
      BY <2>1
    <2>7. rows = SubSeq(o, p, m)
      BY <2>1
    <2> QED
      BY <2>4, <2>5, <2>6, <2>7
  <1>3. /\ all \in Seq(Rows) /\ Len(all) = g + d
        /\ \A i \in 1 .. g + d : all[i] = IF i <= g THEN got[i] ELSE rows[i - g]
    <2>1. /\ all \in Seq(Rows) /\ Len(all) = Len(got) + Len(rows)
          /\ \A i \in 1 .. Len(got) + Len(rows) :
                all[i] = IF i <= Len(got) THEN got[i] ELSE rows[i - Len(got)]
      BY <1>2, ConcatProperties
    <2> QED
      BY <1>2, <2>1
  <1>4. DOMAIN got = 1 .. g /\ DOMAIN all = 1 .. g + d
    <2>1. DOMAIN all = 1 .. Len(all)
      BY <1>3
    <2> QED
      BY <1>3, <2>1
  <1> HIDE DEF g, all
  <1>5. \A i \in 1 .. g : i \in 1 .. g + d /\ all[i] = got[i]
    BY <1>1, <1>3
  <1>6. \A i \in 1 .. d : g + i \in 1 .. g + d /\ all[g + i] = o[offset + i]
    <2>1. ASSUME NEW i \in 1 .. d
          PROVE  g + i \in 1 .. g + d /\ ~(g + i <= g) /\ g + i - g = i
      BY <1>1
    <2>2. ASSUME NEW i \in 1 .. d
          PROVE  all[g + i] = rows[i]
      <3>1. PICK l \in 1 .. g + d : l = g + i /\ ~(l <= g) /\ l - g = i
        BY <1>1
      <3>2. all[l] = rows[l - g]
        BY <1>3, <3>1
      <3> QED
        BY <3>1, <3>2
    <2> QED
      BY <1>2, <2>1, <2>2
  <1>7. ToSet(got) \subseteq ToSet(all)
    BY <1>4, <1>5 DEF ToSet
  <1>8. ASSUME NEW i \in offset + 1 .. offset + d
        PROVE  o[i] \in ToSet(all)
    <2>1. i - offset \in 1 .. d /\ offset + (i - offset) = i
      OBVIOUS
    <2>2. g + (i - offset) \in DOMAIN all /\ all[g + (i - offset)] = o[i]
      BY <1>4, <1>6, <2>1
    <2> QED
      BY <2>2 DEF ToSet
  <1>9. ASSUME NEW x \in ToSet(all) \ ToSet(got)
        PROVE  \E i \in offset + 1 .. offset + d : o[i] = x
    <2>1. PICK l \in 1 .. g + d : all[l] = x
      BY <1>4, <1>9 DEF ToSet
    <2>2. l \notin 1 .. g
      BY <1>4, <1>5, <1>9, <2>1 DEF ToSet
    <2>3. PICK i \in 1 .. d : l = g + i
      <3>1. l - g \in 1 .. d /\ l = g + (l - g)
        BY <1>1, <2>2
      <3> QED
        BY <3>1
    <2>4. o[offset + i] = x
      BY <1>6, <2>1, <2>3
    <2>5. offset + i \in offset + 1 .. offset + d
      OBVIOUS
    <2> QED
      BY <2>4, <2>5
  <1> QED
    BY <1>2, <1>3, <1>7, <1>8, <1>9 DEF g, all, Appended

\* The rows of a page of the storage.
Piece(o, offset, n) == SubSeq(o, offset + 1, Min({offset + n, Len(o)}))

\* A walk takes a page: j becomes k with the rows of the answer o behind the offset.
Turned(j, k, offset, n, o, rows, st) ==
    /\ j.limit \in Nat /\ j.got \in Seq(Rows) /\ j.want \subseteq Within(j.range, st)
    /\ n \in Nat /\ (offset = Len(j.got) \/ (Len(j.got) > MaxOffset /\ n = j.limit))
    /\ rows = Piece(o, offset, n)
    /\ k.range = j.range /\ k.limit = j.limit /\ k.want = j.want
    /\ k.got = j.got \o rows /\ (k.short <=> Len(rows) < n)

\* The page behind an offset that a walk has reached takes the walk further, leaves no gap
\* and repeats no more rows than have arrived.
LEMMA PageFollows ==
  ASSUME NEW st, st \subseteq Rows, IsFiniteSet(st),
         NEW j, NoGap(j, st), NEW offset, Reached(j, offset, st),
         NEW n, NEW o \in NewestFirst(Within(j.range, st)), NEW rows, NEW k,
         Turned(j, k, offset, n, o, rows, st)
  PROVE  /\ k.got \in Seq(Rows) /\ Len(rows) \in 0 .. n /\ Len(k.got) = Len(j.got) + Len(rows)
         /\ Reached(k, offset + Len(rows), st) /\ NoGap(k, st) /\ FewRepeats(k, st)
  <1> SUFFICES
        ASSUME j.limit \in Nat, j.got \in Seq(Rows), j.want \subseteq Within(j.range, st),
               n \in Nat, offset = Len(j.got) \/ (Len(j.got) > MaxOffset /\ n = j.limit),
               rows = SubSeq(o, offset + 1, Min({offset + n, Len(o)})),
               k.range = j.range, k.limit = j.limit, k.want = j.want,
               k.got = j.got \o rows, k.short <=> Len(rows) < n
        PROVE  /\ k.got \in Seq(Rows) /\ Len(rows) \in 0 .. n
               /\ Len(k.got) = Len(j.got) + Len(rows)
               /\ Reached(k, offset + Len(rows), st) /\ NoGap(k, st) /\ FewRepeats(k, st)
    BY DEF Turned, Piece
  <1> DEFINE M == Within(j.range, st)
             m == IF offset + n <= Len(o) THEN offset + n ELSE Len(o)
  <1>1. M \subseteq st /\ M \subseteq Rows /\ IsFiniteSet(M)
    <2>1. M \subseteq st
      BY DEF Within
    <2> QED
      BY <2>1, FS_Subset
  <1>2. /\ o \in Seq(M) /\ Len(o) = Cardinality(M) /\ Len(o) \in Nat
        /\ \A y \in M : \E i \in 1 .. Len(o) : o[i] = y
        /\ \A i, l \in 1 .. Len(o) : i < l => TimeOf[o[i]] >= TimeOf[o[l]]
        /\ \A i \in 1 .. Len(o) : o[i] \in M
    BY <1>1, RowsInOrder, ElementOfSeq
  <1>3. /\ offset \in Nat /\ offset <= Len(o) /\ MaxOffset \in Nat /\ Len(j.got) \in Nat
        /\ \A y \in j.want : Lone(y, st) /\ Cardinality(Newer(y, M)) < offset => y \in Seen(j)
    BY <1>2, ReadApiAssumption DEF Reached
  <1>4. m \in Nat /\ offset <= m /\ m <= Len(o) /\ m <= offset + n /\ (m < offset + n => m = Len(o))
    BY <1>2, <1>3
  <1>5. Min({offset + n, Len(o)}) = m
    <2>1. offset + n \in Int /\ Len(o) \in Int
      BY <1>2, <1>3
    <2> QED
      BY <2>1, MinOfTwo
  <1> HIDE DEF m
  <1> DEFINE g == Len(j.got)
             d == m - offset
  <1>5a. /\ offset \in Nat /\ m \in Nat /\ g \in Nat /\ d \in Nat /\ Len(o) \in Nat
         /\ m = offset + d /\ d <= n /\ m <= Len(o) /\ (d < n => m = Len(o))
    BY <1>2, <1>3, <1>4
  <1> HIDE DEF g, d
  <1>6. /\ Len(rows) = d /\ k.got \in Seq(Rows) /\ Len(k.got) = g + d
        /\ Seen(j) \subseteq Seen(k)
        /\ \A i \in offset + 1 .. m : o[i] \in Seen(k)
        /\ \A x \in Seen(k) \ Seen(j) : \E i \in offset + 1 .. m : o[i] = x
    <2>1. o \in Seq(Rows)
      BY <1>1, <1>2
    <2>2. rows = SubSeq(o, offset + 1, offset + d) /\ offset + d <= Len(o)
      BY <1>5, <1>5a
    <2>3. Len(rows) = d /\ Appended(j.got, k.got, o, offset, d)
      <3>1. PICK p \in Nat, c \in Nat : p = offset /\ c = d
        BY <1>5a
      <3>2. PICK q \in Seq(Rows), w \in Seq(Rows) : q = j.got /\ w = o
        BY <2>1
      <3>3. k.got = q \o rows /\ rows = SubSeq(w, p + 1, p + c) /\ p + c <= Len(w)
        BY <2>2, <3>1, <3>2
      <3>4. Len(rows) = c /\ Appended(q, q \o rows, w, p, c)
        BY <3>3, PageAppends
      <3> QED
        BY <3>1, <3>2, <3>3, <3>4
    <2> QED
      BY <1>5a, <2>2, <2>3 DEF Seen, g, Appended
  <1>7. Len(rows) \in 0 .. n /\ offset + Len(rows) = m /\ (k.short => m = Len(o)) /\ (~k.short => d = n)
    <2>1. d \in 0 .. n /\ (~(d < n) => d = n)
      BY <1>5a
    <2>2. k.short <=> d < n
      BY <1>6
    <2> QED
      BY <1>5a, <1>6, <2>1, <2>2
  <1>13. ASSUME NEW i \in 1 .. Len(o), Lone(o[i], st)
         PROVE  Cardinality(Newer(o[i], M)) = i - 1
    <2>1. Lone(o[i], M)
      BY <1>1, <1>13 DEF Lone
    <2> QED
      BY <1>1, <2>1, PlaceInOrder
  <1> HIDE DEF M
  <1>14. ASSUME NEW i \in 1 .. Len(o), i <= m, o[i] \in j.want, Lone(o[i], st)
         PROVE  o[i] \in Seen(k)
    <2>1. CASE i <= offset
      <3>1. Cardinality(Newer(o[i], M)) < offset
        BY <1>3, <1>13, <1>14, <2>1
      <3> QED
        BY <1>3, <1>6, <1>14, <3>1
    <2>2. CASE ~(i <= offset)
      <3>1. i \in offset + 1 .. m
        BY <1>2, <1>3, <1>4, <1>14, <2>2
      <3> QED
        BY <1>6, <3>1
    <2> QED
      BY <2>1, <2>2
  <1>15. j.want \subseteq M
    BY DEF M
  <1>16. Reached(k, m, st)
    <2>1. ASSUME NEW y \in j.want, Lone(y, st), Cardinality(Newer(y, M)) < m
          PROVE  y \in Seen(k)
      <3>1. PICK i \in 1 .. Len(o) : o[i] = y
        BY <1>2, <1>15
      <3>2. i - 1 < m
        BY <1>13, <2>1, <3>1
      <3>3. i <= m
        BY <1>2, <1>4, <3>2
      <3> QED
        BY <1>14, <2>1, <3>1, <3>3
    <2>2. Within(k.range, st) = M
      BY DEF M
    <2> QED
      BY <1>2, <1>4, <2>1, <2>2 DEF Reached
  <1>17. NoGap(k, st)
    <2>1. ASSUME NEW x \in Seen(k), NEW y \in j.want, TimeOf[y] > TimeOf[x], Lone(y, st)
          PROVE  y \in Seen(k)
      <3>1. CASE x \in Seen(j)
        BY <1>6, <2>1, <3>1 DEF NoGap
      <3>2. CASE x \notin Seen(j)
        <4>1. PICK i \in offset + 1 .. m : o[i] = x
          BY <1>6, <3>2
        <4>2. PICK l \in 1 .. Len(o) : o[l] = y
          BY <1>2, <1>15
        <4>3. i \in 1 .. Len(o) /\ i <= m
          BY <1>2, <1>3, <1>4
        <4>4. TimeOf[x] \in Nat /\ TimeOf[y] \in Nat
          <5>1. x \in Rows /\ y \in Rows
            BY <1>1, <1>2, <4>1, <4>2, <4>3 DEF M
          <5> QED
            BY <5>1, ReadApiAssumption
        <4>5. ~(i < l) /\ i # l
          BY <1>2, <2>1, <4>1, <4>2, <4>3, <4>4
        <4>6. l <= m
          BY <1>2, <1>4, <4>3, <4>5
        <4> QED
          BY <1>14, <2>1, <4>2, <4>6
      <3> QED
        BY <3>1, <3>2
    <2>2. ASSUME k.short, NEW y \in j.want, Lone(y, st)
          PROVE  y \in Seen(k)
      <3>1. PICK i \in 1 .. Len(o) : o[i] = y
        BY <1>2, <1>15
      <3>2. m = Len(o)
        BY <1>7, <2>2
      <3>3. i <= m
        BY <1>2, <3>2
      <3> QED
        BY <1>14, <2>2, <3>1, <3>3
    <2> QED
      BY <2>1, <2>2 DEF NoGap
  <1>18. FewRepeats(k, st)
    <2> SUFFICES ASSUME Len(k.got) <= MaxOffset + IF k.short THEN 0 ELSE k.limit,
                        \A y \in M : Lone(y, st)
                 PROVE  Len(k.got) <= Cardinality(Seen(k)) + Cardinality(M \ k.want)
      BY DEF FewRepeats, M
    <2>1. offset = Len(j.got)
      <3>1. ASSUME Len(j.got) > MaxOffset, n = j.limit
            PROVE  FALSE
        <4>1. CASE k.short
          BY <1>3, <1>5a, <1>6, <3>1, <4>1 DEF g
        <4>2. CASE ~k.short
          BY <1>3, <1>5a, <1>6, <1>7, <3>1, <4>2 DEF g
        <4> QED
          BY <4>1, <4>2
      <3> QED
        BY <3>1
    <2>2. Len(k.got) = m
      BY <1>5a, <1>6, <2>1 DEF g
    <2> DEFINE Top == {o[i] : i \in 1 .. m}
               Rest == M \ k.want
    <2>3. IsFiniteSet(Top) /\ Cardinality(Top) = m
      <3>1. m \in 0 .. Len(o)
        BY <1>2, <1>4
      <3> QED
        BY <1>1, <3>1, FirstRows DEF M
    <2>4. IsFiniteSet(Seen(k)) /\ Cardinality(Seen(k)) \in Nat
      BY <1>6, SeenIsFinite DEF Seen
    <2>5. IsFiniteSet(Rest) /\ Cardinality(Rest) \in Nat
      BY <1>1, FS_Subset, FS_CardinalityType
    <2>6. Top \subseteq Seen(k) \cup Rest
      <3>1. ASSUME NEW i \in 1 .. m
            PROVE  o[i] \in Seen(k) \cup Rest
        <4>1. i \in 1 .. Len(o) /\ i <= m
          BY <1>2, <1>4
        <4>2. o[i] \in M
          BY <1>2, <4>1
        <4> QED
          BY <1>14, <4>1, <4>2
      <3> QED
        BY <3>1
    <2> HIDE DEF Top, Rest
    <2>7. /\ IsFiniteSet(Seen(k) \cup Rest)
          /\ Cardinality(Seen(k) \cup Rest) =
                Cardinality(Seen(k)) + Cardinality(Rest) - Cardinality(Seen(k) \cap Rest)
      BY <2>4, <2>5, FS_Union
    <2>8. Cardinality(Seen(k) \cap Rest) \in Nat
      BY <2>4, FS_Intersection, FS_CardinalityType
    <2>9. Cardinality(Top) <= Cardinality(Seen(k) \cup Rest)
      BY <2>6, <2>7, FS_Subset
    <2>10. m <= Cardinality(Seen(k)) + Cardinality(Rest)
      BY <1>4, <2>3, <2>4, <2>5, <2>7, <2>8, <2>9
    <2> QED
      BY <2>2, <2>10 DEF Rest
  <1> QED
    BY <1>6, <1>7, <1>16, <1>17, <1>18 DEF g

-----------------------------------------------------------------------------
(* The steps of the pages.                                                 *)

\* The rows that a query finds.
LEMMA WithinFacts ==
  ASSUME NEW st, st \subseteq Rows, IsFiniteSet(st), NEW r
  PROVE  /\ Within(r, st) \subseteq Rows /\ IsFiniteSet(Within(r, st))
         /\ Cardinality(Within(r, st)) \in Nat
         /\ \A y : Cardinality(Newer(y, Within(r, st))) \in Nat
         /\ \A rows \in SUBSET Within(r, st) : IsFiniteSet(rows) /\ Cardinality(rows) \in Nat
  <1>1. Within(r, st) \subseteq st
    BY DEF Within
  <1>2. IsFiniteSet(Within(r, st))
    BY <1>1, FS_Subset
  <1>3. \A rows \in SUBSET Within(r, st) : IsFiniteSet(rows) /\ Cardinality(rows) \in Nat
    BY <1>2, FS_Subset, FS_CardinalityType
  <1>4. \A y : Newer(y, Within(r, st)) \in SUBSET Within(r, st)
    BY DEF Newer
  <1>5. Within(r, st) \in SUBSET Within(r, st)
    OBVIOUS
  <1> QED
    BY <1>1, <1>2, <1>3, <1>4, <1>5

\* A walk has its place only while it is under way.
LEMMA PlaceIsKept ==
  ASSUME NEW a, NEW b, NEW j, NEW st, PagesFit(a, j, st), b = "page" => a = "page"
  PROVE  PagesFit(b, j, st)
  BY DEF PagesFit, Walk

\* A step of one slot leaves the walks of the others alone.
LEMMA OneWalkMoves ==
  ASSUME PagesInv, IngestInv, NEW s \in Slots, store' = store,
         \A r \in Slots \ {s} : at'[r] = at[r],
         job' = job \/ \E j : Becomes(s, j),
         PagesFit(at'[s], job'[s], store)
  PROVE  PagesInv'
  <1>1. \A r \in Slots \ {s} : job'[r] = job[r]
    BY DEF IngestInv, Becomes
  <1>2. ASSUME NEW r \in Slots
        PROVE  PagesFit(at'[r], job'[r], store')
    <2>1. CASE r = s
      BY <2>1
    <2>2. CASE r # s
      <3>1. at'[r] = at[r] /\ job'[r] = job[r]
        BY <1>1, <2>2
      <3>2. PagesFit(at[r], job[r], store)
        BY DEF PagesInv
      <3> QED
        BY <3>1, <3>2
    <2> QED
      BY <2>1, <2>2
  <1>3. store' \subseteq Rows /\ IsFiniteSet(store')
    BY DEF PagesInv
  <1> QED
    BY <1>2, <1>3 DEF PagesInv

\* A handler that is not at a page, or leaves it, changes no walk.
LEMMA WalksStay ==
  ASSUME PagesInv, UNCHANGED <<store, job>>,
         \A r \in Slots : at'[r] = "page" => at[r] = "page"
  PROVE  PagesInv'
  <1>1. ASSUME NEW r \in Slots
        PROVE  PagesFit(at'[r], job'[r], store')
    <2>1. PagesFit(at[r], job[r], store)
      BY DEF PagesInv
    <2>2. at'[r] = "page" => at[r] = "page"
      OBVIOUS
    <2>3. PagesFit(at'[r], job[r], store)
      BY <2>1, <2>2, PlaceIsKept
    <2> QED
      BY <2>3
  <1>2. store' \subseteq Rows /\ IsFiniteSet(store')
    BY DEF PagesInv
  <1> QED
    BY <1>1, <1>2 DEF PagesInv

\* A row that arrives shifts the others to later places and away from being alone.
LEMMA ArrivalShifts ==
  ASSUME NEW st, st \subseteq Rows, IsFiniteSet(st), NEW x \in Rows,
         NEW a, NEW j, PagesFit(a, j, st)
  PROVE  PagesFit(a, j, st \cup {x})
  <1> DEFINE tt == st \cup {x}
             W == Within(j.range, st)
             V == Within(j.range, tt)
  <1>1. tt \subseteq Rows /\ IsFiniteSet(tt)
    BY FS_AddElement
  <1>2. W \subseteq V
    BY DEF Within
  <1>3. \A y : Lone(y, tt) => Lone(y, st)
    BY DEF Lone
  <1>4. IsFiniteSet(V) /\ Cardinality(V) \in Nat /\ Cardinality(W) \in Nat /\ Cardinality(W) <= Cardinality(V)
    BY <1>1, <1>2, WithinFacts, FS_Subset
  <1>5. ASSUME NEW y
        PROVE  /\ Cardinality(Newer(y, W)) <= Cardinality(Newer(y, V))
               /\ Cardinality(Newer(y, W)) \in Nat /\ Cardinality(Newer(y, V)) \in Nat
    <2>1. Newer(y, V) \in SUBSET V /\ Newer(y, W) \in SUBSET Newer(y, V)
      BY <1>2 DEF Newer
    <2>2. IsFiniteSet(Newer(y, V))
      BY <1>4, <2>1, FS_Subset
    <2>3. Cardinality(Newer(y, W)) <= Cardinality(Newer(y, V)) /\ IsFiniteSet(Newer(y, W))
      BY <2>1, <2>2, FS_Subset
    <2> QED
      BY <2>2, <2>3, FS_CardinalityType
  <1> HIDE DEF tt, W, V
  <1>6. ASSUME NEW offset, Reached(j, offset, st)
        PROVE  Reached(j, offset, tt)
    <2>1. /\ offset \in Nat /\ offset <= Cardinality(W)
          /\ \A y \in j.want : Lone(y, st) /\ Cardinality(Newer(y, W)) < offset => y \in Seen(j)
      BY <1>6 DEF Reached, W
    <2>2. offset <= Cardinality(V)
      BY <1>4, <2>1
    <2>3. ASSUME NEW y \in j.want, Lone(y, tt), Cardinality(Newer(y, V)) < offset
          PROVE  y \in Seen(j)
      <3>1. Cardinality(Newer(y, W)) < offset
        BY <1>5, <2>1, <2>3
      <3> QED
        BY <1>3, <2>1, <2>3, <3>1
    <2> QED
      BY <2>1, <2>2, <2>3 DEF Reached, V
  <1>7. ASSUME Walk(a, j, st)
        PROVE  Walk(a, j, tt)
    <2>1. WalkTypes(j) /\ j.want \subseteq V
      BY <1>2, <1>7 DEF Walk, W
    <2>2. NoGap(j, tt)
      BY <1>3, <1>7 DEF Walk, NoGap
    <2>3. FewRepeats(j, tt)
      <3> SUFFICES ASSUME Len(j.got) <= MaxOffset + IF j.short THEN 0 ELSE j.limit,
                          \A y \in V : Lone(y, tt)
                   PROVE  Len(j.got) <= Cardinality(Seen(j)) + Cardinality(V \ j.want)
        BY DEF FewRepeats, V
      <3>1. \A y \in W : Lone(y, st)
        BY <1>2, <1>3
      <3>2. Len(j.got) <= Cardinality(Seen(j)) + Cardinality(W \ j.want)
        BY <1>7, <3>1 DEF Walk, FewRepeats, W
      <3>3. (V \ j.want) \in SUBSET V /\ (W \ j.want) \in SUBSET (V \ j.want)
        BY <1>2
      <3>4. IsFiniteSet(V \ j.want)
        BY <1>4, <3>3, FS_Subset
      <3>5. IsFiniteSet(W \ j.want) /\ Cardinality(W \ j.want) <= Cardinality(V \ j.want)
        BY <3>3, <3>4, FS_Subset
      <3>6. Cardinality(V \ j.want) \in Nat /\ Cardinality(W \ j.want) \in Nat
        BY <3>4, <3>5, FS_CardinalityType
      <3>7. j.got \in Seq(Rows)
        BY <2>1 DEF WalkTypes
      <3>8. Cardinality(Seen(j)) \in Nat /\ Len(j.got) \in Nat
        BY <3>7, SeenIsFinite DEF Seen
      <3> QED
        BY <3>2, <3>5, <3>6, <3>8
    <2> QED
      BY <1>6, <1>7, <2>1, <2>2, <2>3 DEF Walk, V
  <1> QED
    BY <1>7 DEF PagesFit, tt

\* A walk begins with nothing.
Begun(r, n, st) == [Blank EXCEPT !.range = r, !.limit = n, !.want = Within(r, st)]

\* So it has reached offset 0 and left no gap.
LEMMA WalkBegins ==
  ASSUME NEW st, st \subseteq Rows, IsFiniteSet(st), NEW r, NEW n \in Nat
  PROVE  Walk("page", Begun(r, n, st), st)
  <1> DEFINE j == Begun(r, n, st)
  <1>1. /\ j.range = r /\ j.limit = n /\ j.next = None /\ j.got = <<>> /\ j.short = FALSE
        /\ j.want = Within(r, st)
    BY DEF Begun, Blank
  <1>1a. DOMAIN j = DOMAIN Blank
    BY DEF Begun, Blank
  <1> HIDE DEF j
  <1>2. WalkTypes(j)
    <2>1. <<>> \in Seq(Rows)
      OBVIOUS
    <2> QED
      BY <1>1, <1>1a, <2>1 DEF WalkTypes
  <1>3. Seen(j) = {} /\ Len(j.got) = 0
    BY <1>1 DEF Seen, ToSet
  <1>4. NoGap(j, st)
    BY <1>1, <1>3 DEF NoGap
  <1>5. /\ Cardinality(Within(r, st)) \in Nat
        /\ \A y : Cardinality(Newer(y, Within(r, st))) \in Nat
        /\ Cardinality(Within(r, st) \ j.want) \in Nat
    BY WithinFacts
  <1>6. FewRepeats(j, st)
    <2>1. Cardinality(Seen(j)) = 0
      BY <1>3, FS_EmptySet
    <2> QED
      BY <1>1, <1>3, <1>5, <2>1 DEF FewRepeats
  <1>7. Reached(j, 0, st)
    <2>1. \A y : ~(Cardinality(Newer(y, Within(r, st))) < 0)
      BY <1>5
    <2> QED
      BY <1>1, <1>5, <2>1 DEF Reached
  <1> QED
    BY <1>1, <1>2, <1>3, <1>4, <1>6, <1>7 DEF Walk, j

\* What is reached at an offset is reached at a smaller one.
LEMMA ReachedBefore ==
  ASSUME NEW st, st \subseteq Rows, IsFiniteSet(st), NEW j, NEW b, Reached(j, b, st),
         NEW a \in Nat, a <= b
  PROVE  Reached(j, a, st)
  <1>1. /\ Cardinality(Within(j.range, st)) \in Nat
        /\ \A y : Cardinality(Newer(y, Within(j.range, st))) \in Nat
    BY WithinFacts
  <1>2. b \in Nat /\ b <= Cardinality(Within(j.range, st))
    BY DEF Reached
  <1>3. a <= Cardinality(Within(j.range, st))
    BY <1>1, <1>2
  <1>4. ASSUME NEW y \in j.want, Lone(y, st), Cardinality(Newer(y, Within(j.range, st))) < a
        PROVE  y \in Seen(j)
    <2>1. Cardinality(Newer(y, Within(j.range, st))) < b
      BY <1>1, <1>2, <1>4
    <2> QED
      BY <1>4, <2>1 DEF Reached
  <1> QED
    BY <1>3, <1>4 DEF Reached

\* What becomes of a walk with a page of search, and with a page of an export.
Delivered(j, offset, rows) ==
    [j EXCEPT !.got = @ \o rows, !.short = Len(rows) < j.limit,
              !.next = IF Len(rows) = j.limit THEN offset + Len(rows) ELSE None]
Exported(j, rows, n) == [j EXCEPT !.got = @ \o rows, !.short = Len(rows) < n]

\* A page of search that begins where the one before it ended, or is clamped to maxOffset
\* behind it, leaves no gap.
LEMMA DeliveryFollows ==
  ASSUME NEW st, st \subseteq Rows, IsFiniteSet(st),
         NEW j, WalkTypes(j), j.want \subseteq Within(j.range, st), NoGap(j, st),
         NEW offset, Reached(j, offset, st), offset = Len(j.got) \/ Len(j.got) > MaxOffset,
         NEW o \in NewestFirst(Within(j.range, st))
  PROVE  Walk("answered", Delivered(j, offset, Piece(o, offset, j.limit)), st)
  <1>1. PICK rows : rows = Piece(o, offset, j.limit)
    OBVIOUS
  <1>2. PICK k : k = Delivered(j, offset, rows)
    OBVIOUS
  <1>3. /\ DOMAIN k = DOMAIN Blank /\ k.range = j.range /\ k.limit = j.limit /\ k.want = j.want
        /\ k.got = j.got \o rows /\ k.short = (Len(rows) < j.limit)
        /\ k.next = IF Len(rows) = j.limit THEN offset + Len(rows) ELSE None
    BY <1>2 DEF Delivered, WalkTypes, Blank
  <1>4. j.limit \in Nat /\ j.got \in Seq(Rows) /\ offset \in Nat /\ MaxOffset \in Nat
    BY ReadApiAssumption DEF WalkTypes, Reached
  <1>5. /\ k.got \in Seq(Rows) /\ Len(rows) \in 0 .. j.limit /\ Len(k.got) = Len(j.got) + Len(rows)
        /\ Reached(k, offset + Len(rows), st) /\ NoGap(k, st) /\ FewRepeats(k, st)
    <2>1. k.short <=> Len(rows) < j.limit
      BY <1>3
    <2>2. Turned(j, k, offset, j.limit, o, rows, st)
      BY <1>1, <1>3, <1>4, <2>1 DEF Turned
    <2> QED
      BY <2>2, PageFollows
  <1>6. WalkTypes(k)
    <2>1. k.next \in Nat \cup {None} /\ k.short \in BOOLEAN
      BY <1>3, <1>4, <1>5
    <2> QED
      BY <1>3, <1>4, <1>5, <2>1 DEF WalkTypes
  <1>7. ASSUME k.next # None
        PROVE  /\ Reached(k, k.next, st)
               /\ k.next = Len(k.got) \/ Len(k.got) > MaxOffset + k.limit
    <2>1. Len(rows) = j.limit /\ k.next = offset + Len(rows)
      BY <1>3, <1>7
    <2>2. offset + Len(rows) = Len(k.got) \/ Len(k.got) > MaxOffset + j.limit
      <3>1. Len(j.got) \in Nat
        BY <1>4
      <3> QED
        BY <1>4, <1>5, <2>1, <3>1
    <2> QED
      BY <1>3, <1>5, <2>1, <2>2
  <1>8. k.want \subseteq Within(k.range, st)
    BY <1>3
  <1> QED
    BY <1>1, <1>2, <1>5, <1>6, <1>7, <1>8 DEF Walk

\* A page of an export begins where the one before it ended.
LEMMA ExportFollows ==
  ASSUME NEW st, st \subseteq Rows, IsFiniteSet(st), NEW j, Walk("page", j, st),
         NEW n, n = PageOf(j), NEW o \in NewestFirst(Within(j.range, st))
  PROVE  Walk("page", Exported(j, Piece(o, Len(j.got), n), n), st)
  <1>1. PICK rows : rows = Piece(o, Len(j.got), n)
    OBVIOUS
  <1>2. PICK k : k = Exported(j, rows, n)
    OBVIOUS
  <1>3. /\ WalkTypes(j) /\ j.want \subseteq Within(j.range, st) /\ NoGap(j, st)
        /\ j.next = None /\ Len(j.got) <= j.limit /\ Reached(j, Len(j.got), st)
    BY DEF Walk
  <1>4. /\ DOMAIN k = DOMAIN Blank /\ k.range = j.range /\ k.limit = j.limit /\ k.want = j.want
        /\ k.got = j.got \o rows /\ k.short = (Len(rows) < n) /\ k.next = None
    BY <1>2, <1>3 DEF Exported, WalkTypes, Blank
  <1>5. j.limit \in Nat /\ j.got \in Seq(Rows) /\ Len(j.got) \in Nat
    BY <1>3 DEF WalkTypes
  <1>6. n \in Nat /\ n <= j.limit - Len(j.got)
    <2>1. PageSize \in Int /\ PageSize \in Nat /\ Remaining(j) \in Int /\ Remaining(j) = j.limit - Len(j.got)
      BY <1>5, ReadApiAssumption DEF Remaining
    <2>2. n = IF PageSize <= Remaining(j) THEN PageSize ELSE Remaining(j)
      <3>1. PICK p \in Int, q \in Int : p = PageSize /\ q = Remaining(j)
        BY <2>1
      <3>2. Min({p, q}) = IF p <= q THEN p ELSE q
        BY MinOfTwo
      <3> QED
        BY <3>1, <3>2 DEF PageOf
    <2> QED
      BY <1>3, <1>5, <2>1, <2>2
  <1>7. /\ k.got \in Seq(Rows) /\ Len(rows) \in 0 .. n /\ Len(k.got) = Len(j.got) + Len(rows)
        /\ Reached(k, Len(j.got) + Len(rows), st) /\ NoGap(k, st) /\ FewRepeats(k, st)
    <2>1. k.short <=> Len(rows) < n
      BY <1>4
    <2>2. Turned(j, k, Len(j.got), n, o, rows, st)
      BY <1>1, <1>3, <1>4, <1>5, <1>6, <2>1 DEF Turned
    <2> QED
      BY <1>3, <2>2, PageFollows
  <1>8. WalkTypes(k)
    BY <1>4, <1>5, <1>7 DEF WalkTypes
  <1>9. Len(k.got) <= k.limit
    BY <1>4, <1>5, <1>6, <1>7
  <1>10. Reached(k, Len(k.got), st)
    BY <1>7
  <1>11. k.want \subseteq Within(k.range, st)
    BY <1>3, <1>4
  <1> QED
    BY <1>1, <1>2, <1>4, <1>7, <1>8, <1>9, <1>10, <1>11 DEF Walk

\* A walk may end wherever it is.
LEMMA WalkFits ==
  ASSUME NEW a, NEW b, NEW j, NEW st, Walk(a, j, st), b = "page" => a = "page"
  PROVE  PagesFit(b, j, st)
  BY DEF PagesFit, Walk

\* An answer with a page.
LEMMA DeliverWalks ==
  ASSUME SessionInv, IngestInv, PagesInv, NEW s \in Slots,
         NEW j, WalkTypes(j), j.want \subseteq Within(j.range, store), NoGap(j, store),
         NEW offset, Reached(j, offset, store), offset = Len(j.got) \/ Len(j.got) > MaxOffset,
         Deliver(s, j, offset)
  PROVE  PagesInv'
  <1>1. PICK rows \in Page(j.range, offset, j.limit) : Becomes(s, Delivered(j, offset, rows))
    BY DEF Deliver, Delivered
  <1>2. PICK o \in NewestFirst(Within(j.range, store)) : rows = Piece(o, offset, j.limit)
    <2>1. Matching(j.range) = Within(j.range, store)
      BY DEF Matching, Within
    <2> QED
      BY <2>1 DEF Page, Piece
  <1>3. store \subseteq Rows /\ IsFiniteSet(store)
    BY DEF PagesInv
  <1>4. Walk("answered", Delivered(j, offset, rows), store)
    BY <1>2, <1>3, DeliveryFollows
  <1>5. job'[s] = Delivered(j, offset, rows)
    BY <1>1 DEF Becomes, IngestInv
  <1>6. store' = store /\ at'[s] = "answered" /\ \A r \in Slots \ {s} : at'[r] = at[r]
    <2>1. Answer(s, 200) /\ 200 \in Int /\ store' = store
      BY DEF Deliver
    <2> QED
      BY <2>1, AnswerGoes
  <1>7. PagesFit(at'[s], job'[s], store)
    BY <1>4, <1>5, <1>6, WalkFits
  <1> QED
    BY <1>1, <1>6, <1>7, OneWalkMoves

\* Search, the first page.
LEMMA FirstPageWalks ==
  ASSUME SessionInv, IngestInv, PagesInv, NEW s \in Slots,
         NEW r \in Ranges, NEW n \in Limits, FirstPage(s, r, n)
  PROVE  PagesInv'
  <1> DEFINE c == Clamp(n, 1, MaxHits)
  <1>1. c \in Nat
    <2>1. n \in Int /\ MaxHits \in Nat
      BY ReadApiAssumption
    <2> QED
      BY <2>1 DEF Clamp
  <1>2. Deliver(s, Begun(r, c, store), 0)
    <2>1. Matching(r) = Within(r, store)
      BY DEF Matching, Within
    <2> QED
      BY <2>1 DEF FirstPage, Begun
  <1> HIDE DEF c
  <1>3. Walk("page", Begun(r, c, store), store)
    BY <1>1, WalkBegins DEF PagesInv
  <1>4. PICK j : j = Begun(r, c, store)
    OBVIOUS
  <1>5. j.got = <<>>
    BY <1>4 DEF Begun, Blank
  <1>6. /\ WalkTypes(j) /\ j.want \subseteq Within(j.range, store) /\ NoGap(j, store)
        /\ 0 = Len(j.got) /\ Reached(j, Len(j.got), store)
    BY <1>3, <1>4, <1>5 DEF Walk
  <1>7. Deliver(s, j, 0) /\ Reached(j, 0, store)
    BY <1>2, <1>4, <1>6
  <1> QED
    BY <1>6, <1>7, DeliverWalks

\* Search, the page behind.
LEMMA NextPageWalks ==
  ASSUME SessionInv, IngestInv, PagesInv, NEW s \in Slots, NextPage(s)
  PROVE  PagesInv'
  <1>1. PICK j : j = job[s]
    OBVIOUS
  <1>2. PICK offset : offset = OffsetOf(j.next)
    OBVIOUS
  <1>3. j.next # None /\ Deliver(s, j, offset)
    BY <1>1, <1>2 DEF NextPage
  <1>4. Walk(at[s], j, store) /\ store \subseteq Rows /\ IsFiniteSet(store)
    BY <1>1, <1>3 DEF PagesInv, PagesFit, NoPages
  <1>5. /\ WalkTypes(j) /\ j.want \subseteq Within(j.range, store) /\ NoGap(j, store)
        /\ Reached(j, j.next, store)
        /\ j.next = Len(j.got) \/ Len(j.got) > MaxOffset + j.limit
    BY <1>3, <1>4 DEF Walk
  <1>6. j.next \in Nat /\ j.limit \in Nat /\ Len(j.got) \in Nat /\ MaxOffset \in Nat
    BY <1>3, <1>5, ReadApiAssumption DEF WalkTypes
  <1>7. /\ offset \in Nat /\ offset <= j.next
        /\ offset = j.next \/ j.next > MaxOffset
    BY <1>2, <1>6 DEF OffsetOf, Clamp
  <1>8. Reached(j, offset, store)
    BY <1>4, <1>5, <1>7, ReachedBefore
  <1>9. offset = Len(j.got) \/ Len(j.got) > MaxOffset
    BY <1>5, <1>6, <1>7
  <1> QED
    BY <1>3, <1>5, <1>8, <1>9, DeliverWalks

\* An export that begins.
LEMMA ExportWalks ==
  ASSUME SessionInv, IngestInv, PagesInv, NEW s \in Slots,
         NEW r \in Ranges, NEW n \in Limits, Export(s, r, n)
  PROVE  PagesInv'
  <1> DEFINE c == Clamp(n, 1, MaxExport)
  <1>1. c \in Nat
    <2>1. n \in Int /\ MaxExport \in Nat
      BY ReadApiAssumption
    <2> QED
      BY <2>1 DEF Clamp
  <1>2. Becomes(s, Begun(r, c, store)) /\ Goto(s, "page") /\ store' = store
    <2>1. Matching(r) = Within(r, store)
      BY DEF Matching, Within
    <2> QED
      BY <2>1 DEF Export, Begun
  <1> HIDE DEF c
  <1>3. Walk("page", Begun(r, c, store), store)
    BY <1>1, WalkBegins DEF PagesInv
  <1>4. job'[s] = Begun(r, c, store)
    BY <1>2 DEF Becomes, IngestInv
  <1>5. \A q \in Slots \ {s} : at'[q] = at[q]
    <2>1. "page" \in HandlerPlaces
      BY DEF HandlerPlaces, WorkPlaces
    <2> QED
      BY <1>2, <2>1, GotoGoes
  <1>6. PagesFit(at'[s], job'[s], store)
    BY <1>3, <1>4, WalkFits
  <1> QED
    BY <1>2, <1>5, <1>6, OneWalkMoves

\* An export, one page of the storage.
LEMMA ExportPageWalks ==
  ASSUME SessionInv, IngestInv, PagesInv, NEW s \in Slots, ExportPage(s)
  PROVE  PagesInv'
  <1>1. PICK j : j = job[s]
    OBVIOUS
  <1>2. PICK n : n = PageOf(j)
    OBVIOUS
  <1>3. PICK rows \in Page(j.range, Len(j.got), n) : Becomes(s, Exported(j, rows, n))
    BY <1>1, <1>2 DEF ExportPage, Exported
  <1>4. /\ at[s] = "page" /\ store' = store
        /\ Goto(s, "page") \/ Answer(s, 200)
    BY DEF ExportPage
  <1>5. Walk("page", j, store) /\ store \subseteq Rows /\ IsFiniteSet(store)
    BY <1>1, <1>4 DEF PagesInv, PagesFit
  <1>6. PICK o \in NewestFirst(Within(j.range, store)) : rows = Piece(o, Len(j.got), n)
    <2>1. Matching(j.range) = Within(j.range, store)
      BY DEF Matching, Within
    <2> QED
      BY <2>1 DEF Page, Piece
  <1>7. Walk("page", Exported(j, rows, n), store)
    BY <1>2, <1>5, <1>6, ExportFollows
  <1>8. job'[s] = Exported(j, rows, n)
    BY <1>3 DEF Becomes, IngestInv
  <1>9. \A q \in Slots \ {s} : at'[q] = at[q]
    <2>1. "page" \in HandlerPlaces /\ 200 \in Int
      BY DEF HandlerPlaces, WorkPlaces
    <2> QED
      BY <1>4, <2>1, GotoGoes, AnswerGoes
  <1>10. PagesFit(at'[s], job'[s], store)
    BY <1>7, <1>8, WalkFits
  <1> QED
    BY <1>3, <1>4, <1>9, <1>10, OneWalkMoves

\* A step that asks the storage for no rows.
LEMMA WalksWait ==
  ASSUME SessionInv, PagesInv, NEW s \in Slots, UNCHANGED <<store, job>>,
         \/ \E place \in HandlerPlaces \ {"page"} : Goto(s, place)
         \/ \E code \in Int : Answer(s, code)
  PROVE  PagesInv'
  <1>1. ASSUME NEW place \in HandlerPlaces, place # "page", Goto(s, place)
        PROVE  PagesInv'
    <2>1. at'[s] = place /\ \A r \in Slots \ {s} : at'[r] = at[r]
      BY <1>1, GotoGoes
    <2>2. \A r \in Slots : at'[r] = "page" => at[r] = "page"
      BY <1>1, <2>1
    <2> QED
      BY <2>2, WalksStay
  <1>2. ASSUME NEW code \in Int, Answer(s, code)
        PROVE  PagesInv'
    <2>1. at'[s] = "answered" /\ \A r \in Slots \ {s} : at'[r] = at[r]
      BY <1>2, AnswerGoes
    <2>2. \A r \in Slots : at'[r] = "page" => at[r] = "page"
      BY <2>1
    <2> QED
      BY <2>2, WalksStay
  <1> QED
    BY <1>1, <1>2

\* A request with another kind of answer, or none yet, is about no pages.
LEMMA NoPagesFit ==
  ASSUME IngestInv, PagesInv, NEW s \in Slots, store' = store,
         \A r \in Slots \ {s} : at'[r] = at[r], \E j : Becomes(s, j),
         NoPages(job'[s]), at'[s] # "page"
  PROVE  PagesInv'
  <1>1. PagesFit(at'[s], job'[s], store)
    BY DEF PagesFit
  <1> QED
    BY <1>1, OneWalkMoves

\* The sessions.
LEMMA SessionWalks ==
  ASSUME SessionInv, PagesInv, NEW s \in Slots, SessionStep(s), UNCHANGED <<store, job>>
  PROVE  PagesInv'
  <1>1. {200, 400, 401, 403, 500} \subseteq Int
    OBVIOUS
  <1>2. {"insert", "audit login", "audit failure", "handler", "purge", "audit logout"}
           \subseteq HandlerPlaces \ {"page"}
    BY DEF HandlerPlaces, LoginPlaces, GatePlaces, WorkPlaces
  <1> DEFINE Goes == \/ \E place \in HandlerPlaces \ {"page"} : Goto(s, place)
                     \/ \E code \in Int : Answer(s, code)
  <1>3. Login(s) => Goes
    <2>1. LoginMalformed(s) \/ AuditLogin(s) \/ AuditFailure(s) => Goes
      <3>1. LoginMalformed(s) \/ AuditLogin(s) \/ AuditFailure(s) =>
               Answer(s, 400) \/ Answer(s, 200) \/ Answer(s, 401)
        BY DEF LoginMalformed, AuditLogin, AuditFailure
      <3>2. 400 \in Int /\ 200 \in Int /\ 401 \in Int
        OBVIOUS
      <3> QED
        BY <3>1, <3>2
    <2>2. PasswordRight(s) \/ LoginFails(s) => Goes
      BY <1>2 DEF PasswordRight, LoginFails
    <2>3. (\E t \in Tokens : CreateSession(s, t)) => Goes
      BY <1>2 DEF CreateSession
    <2> QED
      BY <2>1, <2>2, <2>3 DEF Login
  <1>4. Authorize(s) => Goes
    BY <1>1, <1>2, ZenonT(30) DEF Authorize, Validate, Unauthorized, FindExpired, Purge
  <1>5. Logout(s) \/ Me(s) => Goes
    BY <1>1, <1>2, ZenonT(30) DEF Logout, Me, DeleteSession, LogoutFails, AuditLogout
  <1>6. Goes
    BY <1>3, <1>4, <1>5 DEF SessionStep
  <1> QED
    BY <1>6, WalksWait

\* Ingest.
LEMMA IngestWalks ==
  ASSUME SessionInv, IngestInv, PagesInv, NEW s \in Slots,
         IngestRefused(s) \/ (\E b \in Bodies : Ingest(s, b)) \/ IngestLine(s) \/ IngestEnds(s)
  PROVE  PagesInv'
  <1>1. {200, 400, 413, 415} \subseteq Int /\ "lines" \in HandlerPlaces
    BY DEF HandlerPlaces, WorkPlaces
  <1>2. ASSUME IngestRefused(s) \/ IngestEnds(s)
        PROVE  PagesInv'
    <2>1. UNCHANGED <<store, job>> /\ \E code \in Int : Answer(s, code)
      BY <1>1, <1>2 DEF IngestRefused, IngestEnds
    <2> QED
      BY <2>1, WalksWait
  <1>3. ASSUME NEW b \in Bodies, Ingest(s, b)
        PROVE  PagesInv'
    <2>1. store' = store /\ Becomes(s, [Blank EXCEPT !.array = b.array, !.lines = b.lines])
      BY <1>3 DEF Ingest
    <2>2. Answer(s, 413) \/ Goto(s, "lines")
      BY <1>3 DEF Ingest
    <2>3. at'[s] \in {"answered", "lines"} /\ \A r \in Slots \ {s} : at'[r] = at[r]
      BY <1>1, <2>2, AnswerGoes, GotoGoes
    <2>4. job'[s] = [Blank EXCEPT !.array = b.array, !.lines = b.lines]
      BY <2>1 DEF Becomes, IngestInv
    <2>5. NoPages(job'[s])
      BY <2>4 DEF NoPages, Blank
    <2> QED
      BY <2>1, <2>3, <2>5, NoPagesFit
  <1>4. ASSUME IngestLine(s)
        PROVE  PagesInv'
    <2>1. PICK j : j = job[s]
      OBVIOUS
    <2>2. /\ at[s] = "lines" /\ at' = at /\ store' = store
          /\ Becomes(s, IF j.lines[LinesDone(j) + 1] THEN [j EXCEPT !.accepted = @ + 1]
                                                     ELSE [j EXCEPT !.rejected = @ + 1])
      BY <1>4, <2>1 DEF IngestLine, requestVars
    <2>3. Halfway(j)
      BY <2>1, <2>2 DEF IngestInv, JobFits
    <2>4. job'[s] \in {[j EXCEPT !.accepted = @ + 1], [j EXCEPT !.rejected = @ + 1]}
      BY <2>2 DEF Becomes, IngestInv
    <2>5. NoPages([j EXCEPT !.accepted = @ + 1]) /\ NoPages([j EXCEPT !.rejected = @ + 1])
      <3>1. /\ DOMAIN j = DOMAIN Blank
            /\ j.want = {} /\ j.got = <<>> /\ ~j.short /\ j.next = None
        BY <2>3 DEF Halfway, Blank
      <3> QED
        BY <3>1 DEF NoPages, Blank
    <2>6. NoPages(job'[s])
      BY <2>4, <2>5
    <2>7. (\E k : Becomes(s, k)) /\ at'[s] # "page"
      BY <2>2
    <2> QED
      BY <2>2, <2>6, <2>7, NoPagesFit
  <1> QED
    BY <1>2, <1>3, <1>4

\* Every read and every export.
LEMMA ReadWalks ==
  ASSUME SessionInv, IngestInv, PagesInv, NEW s \in Slots, ReadStep(s)
  PROVE  PagesInv'
  <1>1. {0, 200, 400, 503, 504} \subseteq Int
    OBVIOUS
  <1>2. ASSUME ReadFails(s) \/ OneAnswer(s) \/ ExportBreaks(s)
        PROVE  PagesInv'
    <2>1. UNCHANGED <<store, job>> /\ \E code \in Int : Answer(s, code)
      BY <1>1, <1>2 DEF ReadFails, OneAnswer, ExportBreaks
    <2> QED
      BY <2>1, WalksWait
  <1>3. ASSUME NEW r \in Ranges, NEW b \in Buckets, Volume(s, r, b)
        PROVE  PagesInv'
    <2>1. PICK j : /\ j = [Blank EXCEPT !.range = r, !.step = Step(b), !.counted = Matching(r),
                             !.series = ZeroFill(CountByTime(Matching(r), Step(b)), r, Step(b))]
                   /\ Becomes(s, j) /\ Answer(s, 200) /\ store' = store
      BY <1>3 DEF Volume
    <2>2. NoPages(j)
      BY <2>1 DEF NoPages, Blank
    <2>3. job'[s] = j
      BY <2>1 DEF Becomes, IngestInv
    <2>4. at'[s] = "answered" /\ \A q \in Slots \ {s} : at'[q] = at[q]
      BY <1>1, <2>1, AnswerGoes
    <2> QED
      BY <2>1, <2>2, <2>3, <2>4, NoPagesFit
  <1>4. ASSUME NEW r \in Ranges, NEW b \in Buckets, VolumeFails(s, r, b)
        PROVE  PagesInv'
    <2>1. UNCHANGED <<store, job>> /\ \E code \in Int : Answer(s, code)
      BY <1>1, <1>4 DEF VolumeFails
    <2> QED
      BY <2>1, WalksWait
  <1> QED
    BY <1>2, <1>3, <1>4, FirstPageWalks, NextPageWalks, ExportWalks, ExportPageWalks, IngestWalks
       DEF ReadStep

\* The clients.
LEMMA ClientWalks ==
  ASSUME SessionInv, IngestInv, PagesInv, NEW s \in Slots, ClientStep(s)
  PROVE  PagesInv'
  <1>1. ASSUME NEW u \in Users, AskLogin(s, u), UNCHANGED <<store, job>>
        PROVE  PagesInv'
    <2>1. "check" \in HandlerPlaces \ {"page"} /\ Goto(s, "check")
      BY <1>1 DEF HandlerPlaces, LoginPlaces, AskLogin
    <2> QED
      BY <1>1, <2>1, WalksWait
  <1>2. ASSUME NEW o, NEW t, Send(s, o, t), UNCHANGED <<store, job>>
        PROVE  PagesInv'
    <2>1. \A r \in Slots : at'[r] = "page" => at[r] = "page"
      BY <1>2 DEF Send, SessionInv, SessionTypes
    <2> QED
      BY <1>2, <2>1, WalksStay
  <1>3. (\E o \in DOMAIN Needs, t \in Tokens \cup {NoToken} :
            Ask(s, o, t) /\ UNCHANGED <<store, job>>) \/ LoadMore(s) => PagesInv'
    BY <1>2 DEF Ask, LoadMore
  <1>4. ASSUME Forget(s), Becomes(s, Blank), UNCHANGED store
        PROVE  PagesInv'
    <2>1. at'[s] = "idle" /\ job'[s] = Blank /\ \A r \in Slots \ {s} : at'[r] = at[r]
      BY <1>4 DEF Forget, Becomes, IngestInv, SessionInv, SessionTypes
    <2>2. NoPages(Blank)
      BY DEF NoPages, Blank
    <2> QED
      BY <1>4, <2>1, <2>2, NoPagesFit
  <1> QED
    BY <1>1, <1>3, <1>4 DEF ClientStep

\* No pages before the first request.
LEMMA WalksAtStart == Init => PagesInv
  <1> SUFFICES ASSUME Init PROVE PagesInv
    OBVIOUS
  <1>1. store \subseteq Rows /\ IsFiniteSet(store)
    BY FS_EmptySet DEF Init
  <1>2. NoPages(Blank)
    BY DEF NoPages, Blank
  <1>3. \A s \in Slots : at[s] # "page" /\ job[s] = Blank
    BY DEF Init, SessionsInit
  <1> QED
    BY <1>1, <1>2, <1>3 DEF PagesInv, PagesFit

\* Every step keeps the walks sound.
LEMMA WalksStaySound == SessionInv /\ IngestInv /\ PagesInv /\ [Next]_vars => PagesInv'
  <1> SUFFICES ASSUME SessionInv, IngestInv, PagesInv, [Next]_vars PROVE PagesInv'
    OBVIOUS
  <1>1. ASSUME NEW s \in Slots, Serve(s) \/ ClientStep(s)
        PROVE  PagesInv'
    BY <1>1, SessionWalks, ReadWalks, ClientWalks DEF Serve
  <1>2. ASSUME UNCHANGED <<at, store, job>>
        PROVE  PagesInv'
    BY <1>2, WalksStay
  <1>3. (\E t \in Tokens : Expire(t) /\ UNCHANGED <<store, job>>) \/ UNCHANGED vars
           => UNCHANGED <<at, store, job>>
    BY DEF Expire, vars, requestVars
  <1>4. ASSUME NEW x \in Rows, Arrive(x)
        PROVE  PagesInv'
    <2>1. store' = store \cup {x} /\ at' = at /\ job' = job
      BY <1>4 DEF Arrive, requestVars
    <2>2. store \subseteq Rows /\ IsFiniteSet(store)
      BY DEF PagesInv
    <2>3. store' \subseteq Rows /\ IsFiniteSet(store')
      BY <2>1, <2>2, FS_AddElement
    <2>4. ASSUME NEW s \in Slots
          PROVE  PagesFit(at'[s], job'[s], store')
      <3>1. PagesFit(at[s], job[s], store)
        BY DEF PagesInv
      <3>2. PagesFit(at[s], job[s], store \cup {x})
        BY <2>2, <3>1, ArrivalShifts
      <3> QED
        BY <2>1, <3>2
    <2> QED
      BY <2>3, <2>4 DEF PagesInv
  <1>5. ASSUME Restart
        PROVE  PagesInv'
    <2>1. store' = store /\ \A s \in Slots : at'[s] # "page" /\ job'[s] = Blank
      BY <1>5 DEF Restart, RestartRequests
    <2>2. NoPages(Blank)
      BY DEF NoPages, Blank
    <2>3. store' \subseteq Rows /\ IsFiniteSet(store')
      BY <2>1 DEF PagesInv
    <2> QED
      BY <2>1, <2>2, <2>3 DEF PagesInv, PagesFit
  <1> QED
    BY <1>1, <1>2, <1>3, <1>4, <1>5 DEF Next

\* The invariant of the pages holds for ever.
LEMMA WalksAreSound == Spec => []PagesInv
  <1>1. SessionInv /\ IngestInv /\ PagesInv /\ [Next]_vars => SessionInv' /\ IngestInv' /\ PagesInv'
    BY SessionsStaySound, JobsStaySound, WalksStaySound
  <1> QED
    BY <1>1, InitSessions, JobsAtStart, WalksAtStart, PTL DEF Spec

\* Pages leave no gap, for every set of rows, every page size and every limit: with a row
\* come all newer rows of the first page's range whose time is their own, and with a last
\* page that is not full all rows, however many rows arrive between two pages.
THEOREM PagesLeaveNoGap == Spec => []NoRowSkipped
  <1>1. ASSUME PagesInv
        PROVE  NoRowSkipped
    <2>1. ASSUME NEW s \in Slots
          PROVE  /\ \A x \in Received(s) : \A y \in NewerRows(s, x) :
                       TimeIsItsOwn(y) => y \in Received(s)
                 /\ job[s].short => \A y \in job[s].want : TimeIsItsOwn(y) => y \in Received(s)
      <3>1. CASE Walk(at[s], job[s], store)
        <4>1. NoGap(job[s], store)
          BY <3>1 DEF Walk
        <4> QED
          BY <4>1 DEF NoGap, Received, Seen, NewerRows, TimeIsItsOwn, Lone
      <3>2. CASE NoPages(job[s])
        BY <3>2 DEF NoPages, NewerRows
      <3> QED
        BY <1>1, <3>1, <3>2 DEF PagesInv, PagesFit
    <2> QED
      BY <2>1 DEF NoRowSkipped
  <1> QED
    BY <1>1, WalksAreSound, PTL

\* As long as no page was clamped to maxOffset, a client receives at most as many rows twice
\* as rows have arrived since its first page.
THEOREM RepeatsComeFromArrivals == Spec => []RepeatsAreArrivals
  <1>1. ASSUME PagesInv
        PROVE  RepeatsAreArrivals
    <2>1. ASSUME NEW s \in Slots, ~Clamped(s), \A y \in Matching(job[s].range) : TimeIsItsOwn(y)
          PROVE  Len(job[s].got) - Cardinality(Received(s)) <= Cardinality(Arrived(s))
      <3>1. PICK j : j = job[s]
        OBVIOUS
      <3>2. store \subseteq Rows /\ IsFiniteSet(store) /\ PagesFit(at[s], j, store)
        BY <1>1, <3>1 DEF PagesInv
      <3>3. Arrived(s) = Within(j.range, store) \ j.want /\ Received(s) = Seen(j)
        BY <3>1 DEF Arrived, Received, Seen, Within, Matching
      <3>4. Cardinality(Within(j.range, store) \ j.want) \in Nat
        BY <3>2, WithinFacts
      <3>5. CASE Walk(at[s], j, store)
        <4>1. WalkTypes(j) /\ FewRepeats(j, store)
          BY <3>5 DEF Walk
        <4>2. /\ Len(j.got) \in Nat /\ Cardinality(Seen(j)) \in Nat
              /\ MaxOffset \in Nat /\ j.limit \in Nat
          BY <4>1, SeenIsFinite, ReadApiAssumption DEF WalkTypes, Seen
        <4>3. Len(j.got) <= MaxOffset + IF j.short THEN 0 ELSE j.limit
          BY <2>1, <3>1, <4>2 DEF Clamped
        <4>4. \A y \in Within(j.range, store) : Lone(y, store)
          BY <2>1, <3>1 DEF Within, Matching, TimeIsItsOwn, Lone
        <4>5. Len(j.got) <= Cardinality(Seen(j)) + Cardinality(Within(j.range, store) \ j.want)
          BY <4>1, <4>3, <4>4 DEF FewRepeats
        <4> QED
          BY <3>1, <3>3, <3>4, <4>2, <4>5
      <3>6. CASE NoPages(j)
        <4>1. Len(j.got) = 0 /\ Seen(j) = {}
          BY <3>6 DEF NoPages, Seen, ToSet
        <4>2. Cardinality(Seen(j)) = 0
          BY <4>1, FS_EmptySet
        <4> QED
          BY <3>1, <3>3, <3>4, <4>1, <4>2
      <3> QED
        BY <3>2, <3>5, <3>6 DEF PagesFit
    <2> QED
      BY <2>1 DEF RepeatsAreArrivals
  <1> QED
    BY <1>1, WalksAreSound, PTL

=============================================================================
