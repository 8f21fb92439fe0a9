------------------------------ MODULE Sessions ------------------------------
(***************************************************************************)
(* internal/auth and the middleware of internal/api: login, the check of a *)
(* bearer token in front of every handler, logout, and the audit log.  A   *)
(* handler is a goroutine that takes one database statement per step, on   *)
(* the one connection of the pool; any statement may fail.                 *)
(*                                                                         *)
(* A slot is a client with at most one request under way.  Clients share   *)
(* the tokens they were given, as the tabs of a browser do.                *)
(***************************************************************************)
EXTENDS Naturals, FiniteSets

CONSTANTS
    Slots,
    Users, RoleOf,       \* the users table
    Tokens, NoToken,     \* what newToken may draw; no bearer token
    Nobody,
    Does,                \* bound: the operations that a slot asks for
    Needs,               \* per operation, the role that its route demands
    Open                 \* the operations whose route demands no session

Roles == {"viewer", "operator", "admin"}

ASSUME SessionsAssumption ==
    /\ RoleOf \in [Users -> Roles] /\ Nobody \notin Users
    /\ NoToken \notin Tokens
    /\ Open \subseteq DOMAIN Needs /\ Needs \in [DOMAIN Needs -> Roles]
    /\ Does \in [Slots -> SUBSET (DOMAIN Needs \cup {"login"})]

VARIABLES
    sessions,     \* the tokens that have a row in the sessions table
    owner,        \* whose token it is, once it was drawn
    expired,      \* the tokens whose expires_at has passed
    trail,        \* the tokens whose logout is in the audit log
    known,        \* the tokens that a login has answered with
    loggedOut,    \* history: the tokens whose logout was answered with 200
    op,           \* what the slot has asked for
    at,           \* where its handler is
    who,          \* the user that logs in
    token,        \* the bearer token
    stale,        \* history: the request was sent with a token that was dead
    status        \* the answer

sessionVars == <<sessions, owner, expired, trail, known, loggedOut>>
requestVars == <<op, at, who, token, stale, status>>

SessionsInit ==
    /\ sessions = {} /\ owner = [t \in Tokens |-> Nobody] /\ expired = {} /\ trail = {}
    /\ known = {} /\ loggedOut = {}
    /\ op = [s \in Slots |-> "none"] /\ at = [s \in Slots |-> "idle"]
    /\ who = [s \in Slots |-> Nobody] /\ token = [s \in Slots |-> NoToken]
    /\ stale = [s \in Slots |-> FALSE] /\ status = [s \in Slots |-> 0]

-----------------------------------------------------------------------------
Goto(s, place) == at' = [at EXCEPT ![s] = place] /\ UNCHANGED status

Answer(s, code) ==
    /\ at' = [at EXCEPT ![s] = "answered"]
    /\ status' = [status EXCEPT ![s] = code]

Idle(s) == at[s] = "idle"
Handling(s, o) == at[s] = "handler" /\ op[s] = o

(* A token that should open nothing any more. *)
Dead(t) == t \in expired \cup loggedOut \cup trail

(* A request, with a token or without one. *)
Send(s, o, t) ==
    /\ op' = [op EXCEPT ![s] = o]
    /\ token' = [token EXCEPT ![s] = t]
    /\ stale' = [stale EXCEPT ![s] = Dead(t)]
    /\ status' = [status EXCEPT ![s] = 0]
    /\ at' = [at EXCEPT ![s] = IF o \in Open THEN "handler" ELSE "validate"]

Ask(s, o, t) ==
    /\ Idle(s) /\ o \in Does[s] \ {"login"} /\ t \in known \cup {NoToken}
    /\ Send(s, o, t)
    /\ UNCHANGED <<sessionVars, who>>

(* The client has read the answer. *)
Forget(s) ==
    /\ at[s] = "answered"
    /\ op' = [op EXCEPT ![s] = "none"] /\ at' = [at EXCEPT ![s] = "idle"]
    /\ who' = [who EXCEPT ![s] = Nobody] /\ token' = [token EXCEPT ![s] = NoToken]
    /\ stale' = [stale EXCEPT ![s] = FALSE] /\ status' = [status EXCEPT ![s] = 0]
    /\ UNCHANGED sessionVars

-----------------------------------------------------------------------------
(* handleLogin *)

AskLogin(s, u) ==
    /\ Idle(s) /\ "login" \in Does[s]
    /\ op' = [op EXCEPT ![s] = "login"] /\ who' = [who EXCEPT ![s] = u]
    /\ Goto(s, "check")
    /\ UNCHANGED <<sessionVars, token, stale>>

(* No JSON, or no name or password. *)
LoginMalformed(s) == at[s] = "check" /\ Answer(s, 400)
                     /\ UNCHANGED <<sessionVars, op, who, token, stale>>

(* Authenticate, up to the comparison of the hashes.  A user who is not    *)
(* there is refused like a wrong password.                                 *)
PasswordRight(s) == at[s] = "check" /\ Goto(s, "insert")
                    /\ UNCHANGED <<sessionVars, op, who, token, stale>>

LoginFails(s) == at[s] \in {"check", "insert"} /\ Goto(s, "audit failure")
                 /\ UNCHANGED <<sessionVars, op, who, token, stale>>

(* createSession: 32 random bytes, so a token that nobody had before. *)
CreateSession(s, t) ==
    /\ at[s] = "insert" /\ owner[t] = Nobody
    /\ sessions' = sessions \cup {t} /\ owner' = [owner EXCEPT ![t] = who[s]]
    /\ token' = [token EXCEPT ![s] = t]
    /\ Goto(s, "audit login")
    /\ UNCHANGED <<expired, trail, known, loggedOut, op, who, stale>>

(* The audit log is modelled where it says something of a token that       *)
(* matters later: the logouts.  Audit ignores an error of its statement.   *)
AuditLogin(s) ==
    /\ at[s] = "audit login" /\ known' = known \cup {token[s]} /\ Answer(s, 200)
    /\ UNCHANGED <<sessions, owner, expired, trail, loggedOut, op, who, token, stale>>

AuditFailure(s) ==
    /\ at[s] = "audit failure" /\ Answer(s, 401)
    /\ UNCHANGED <<sessionVars, op, who, token, stale>>

Login(s) ==
    \/ LoginMalformed(s)
    \/ PasswordRight(s)
    \/ LoginFails(s)
    \/ \E t \in Tokens : CreateSession(s, t)
    \/ AuditLogin(s)
    \/ AuditFailure(s)

-----------------------------------------------------------------------------
(* requireAuth and requireRole *)

Rank == [viewer |-> 0, operator |-> 1, admin |-> 2]
RoleAtLeast(has, needs) == Rank[has] >= Rank[needs]

(* A mutant: the time of expiry is not looked at. *)
HasRow(t) == t \in sessions

Live(t) == t \in sessions \ expired

Validate(s) ==
    /\ at[s] = "validate" /\ Live(token[s])
    /\ IF RoleAtLeast(RoleOf[owner[token[s]]], Needs[op[s]])
       THEN Goto(s, "handler") ELSE Answer(s, 403)
    /\ UNCHANGED <<sessionVars, op, who, token, stale>>

(* No such row, no token at all, or an error of the database. *)
Unauthorized(s) ==
    /\ at[s] = "validate" /\ Answer(s, 401)
    /\ UNCHANGED <<sessionVars, op, who, token, stale>>

(* An expired row is deleted in a second statement, whose error is ignored. *)
FindExpired(s) ==
    /\ at[s] = "validate" /\ token[s] \in sessions \cap expired /\ ~Live(token[s])
    /\ Goto(s, "purge")
    /\ UNCHANGED <<sessionVars, op, who, token, stale>>

Purge(s) ==
    /\ at[s] = "purge" /\ sessions' \in {sessions, sessions \ {token[s]}}
    /\ Answer(s, 401)
    /\ UNCHANGED <<owner, expired, trail, known, loggedOut, op, who, token, stale>>

Authorize(s) == Validate(s) \/ Unauthorized(s) \/ FindExpired(s) \/ Purge(s)

-----------------------------------------------------------------------------
(* handleLogout and handleMe *)

DeleteSession(s) ==
    /\ Handling(s, "logout") /\ sessions' = sessions \ {token[s]}
    /\ Goto(s, "audit logout")
    /\ UNCHANGED <<owner, expired, trail, known, loggedOut, op, who, token, stale>>

LogoutFails(s) == Handling(s, "logout") /\ Answer(s, 500)
                  /\ UNCHANGED <<sessionVars, op, who, token, stale>>

AuditLogout(s) ==
    /\ at[s] = "audit logout" /\ trail' \in {trail, trail \cup {token[s]}}
    /\ loggedOut' = loggedOut \cup {token[s]} /\ Answer(s, 200)
    /\ UNCHANGED <<sessions, owner, expired, known, op, who, token, stale>>

Me(s) == Handling(s, "me") /\ Answer(s, 200)
         /\ UNCHANGED <<sessionVars, op, who, token, stale>>

Logout(s) == DeleteSession(s) \/ LogoutFails(s) \/ AuditLogout(s)

SessionStep(s) == Login(s) \/ Authorize(s) \/ Logout(s) \/ Me(s)

-----------------------------------------------------------------------------
Expire(t) ==
    /\ owner[t] # Nobody /\ t \notin expired
    /\ expired' = expired \cup {t}
    /\ UNCHANGED <<sessions, owner, trail, known, loggedOut, requestVars>>

(* The process dies and is started again: the database stays, the requests *)
(* end without an answer.                                                  *)
RestartRequests ==
    /\ \E s \in Slots : ~Idle(s)
    /\ op' = [s \in Slots |-> "none"] /\ at' = [s \in Slots |-> "idle"]
    /\ who' = [s \in Slots |-> Nobody] /\ token' = [s \in Slots |-> NoToken]
    /\ stale' = [s \in Slots |-> FALSE] /\ status' = [s \in Slots |-> 0]
    /\ UNCHANGED sessionVars
=============================================================================
