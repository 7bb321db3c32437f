------------------------------- MODULE Sessions -------------------------------
(***************************************************************************)
(* Accounts and their refresh tokens.  A request is a call of one client   *)
(* that runs one SQL statement per step; the service opens no transaction, *)
(* so the statements of two requests interleave.                           *)
(***************************************************************************)
EXTENDS Api, Integers, FiniteSets, TLC

CONSTANTS
  Clients, Emails, Passwords,
  Short,        \* the passwords shorter than eight characters
  UserIds, TokenIds,
  AdminEmail, AdminPassword, \* the configured bootstrap administrator
  MaxRequests   \* bound: the requests of a behaviour

ASSUME SessionsAssumption ==
  /\ UserIds \subseteq Nat \ {0} /\ TokenIds \subseteq Nat \ {0}
  /\ Short \subseteq Passwords /\ MaxRequests \in Nat

VARIABLES
  users,      \* the rows of users, by id
  tokens,     \* the rows of refresh_tokens, by id (the hash is the identity)
  call,       \* the request each client has in flight, and its last response
  bearer,     \* the claims of the access token each client holds
  raced,      \* history: the operations that overlapped with their own kind
  requests    \* how many requests were made

sessionVars == <<users, tokens, call, bearer, raced, requests>>

NoUser == 0
NoClaims == [user |-> NoUser, role |-> "", expired |-> FALSE]
Idle == [op |-> "idle", at |-> "", reply |-> NoResponse]
NoEmail == "" \* COALESCE(email, '')

Init ==
  /\ users = <<>> /\ tokens = <<>>
  /\ call = [c \in Clients |-> Idle]
  /\ bearer = [c \in Clients |-> NoClaims]
  /\ raced = {} /\ requests = 0

---------------------------------------------------------------------------
(* The statements of the repository.                                       *)
User(email, password, role, method) ==
  [email |-> email, hash |-> password, role |-> role, status |-> "ACTIVE",
   method |-> method]
\* A row stays in the model when it is deleted: a hash is never issued twice.
\* With the history of a token: how often it was exchanged, and the password
\* hash of the account when its session began.
RefreshTokenOf(u, hash) ==
  [user |-> u, revoked |-> FALSE, expired |-> FALSE, deleted |-> FALSE,
   exchanges |-> 0, hash |-> hash]

FreshUser == CHOOSE u \in UserIds \ DOMAIN users :
               \A v \in UserIds \ DOMAIN users : u <= v
FreshToken == CHOOSE t \in TokenIds \ DOMAIN tokens :
                \A s \in TokenIds \ DOMAIN tokens : t <= s

\* INSERT of a row under an id.
Insert(rows, i, row) == [j \in DOMAIN rows \cup {i} |-> IF j = i THEN row ELSE rows[j]]

CreateUser(row) == users' = Insert(users, FreshUser, row)
GetUserByEmail(e) == {u \in DOMAIN users : users[u].email = e}
ExistsByEmailActive(e) == \E u \in GetUserByEmail(e) : users[u].status = "ACTIVE" \* a mutant
ExistsByEmail(e) == GetUserByEmail(e) # {}
GetUserByID(u) == u \in DOMAIN users
UpdatePasswordHash(u, p) == users' = [users EXCEPT ![u].hash = p]
CreateRefreshToken(u) == tokens' = Insert(tokens, FreshToken, RefreshTokenOf(u, users[u].hash))
GetRefreshTokenByHash(t) == t \in DOMAIN tokens /\ ~tokens[t].deleted
RevokeRefreshToken(t) ==
  tokens' = [tokens EXCEPT ![t].revoked = TRUE] \* a deleted row stays deleted
RevokeFreshestToken(u) == \* a mutant
  tokens' = [t \in DOMAIN tokens |->
               IF tokens[t].user = u /\ (\A s \in DOMAIN tokens : s <= t)
               THEN [tokens[t] EXCEPT !.revoked = TRUE] ELSE tokens[t]]
RevokeAllUserRefreshTokens(u) ==
  tokens' = [t \in DOMAIN tokens |->
               IF tokens[t].user = u THEN [tokens[t] EXCEPT !.revoked = TRUE] ELSE tokens[t]]
Stale(t) == tokens[t].expired \/ tokens[t].revoked
DeleteExpiredRefreshTokens ==
  tokens' = [t \in DOMAIN tokens |-> [tokens[t] EXCEPT !.deleted = Stale(t)]]

---------------------------------------------------------------------------
(* A request: begin with the first statement, step, answer.                *)
Kind(op) == IF op \in {"verify", "link"} THEN "message" ELSE op
Overlaps(c, op) ==
  LET others == {Kind(call[d].op) : d \in Clients \ {c}} \ {"idle"}
  IN  (others \cap {op}) \cup (IF others = {} THEN {} ELSE {"password"} \cap (others \cup {op}))
Admit(c) == call[c].op = "idle" /\ requests < MaxRequests /\ requests' = requests + 1
Begin(c, rec) ==
  /\ Admit(c)
  /\ call' = [call EXCEPT ![c] = rec]
  /\ raced' = raced \cup Overlaps(c, Kind(rec.op))
AnswerAtOnce(c, response) ==
  /\ Admit(c)
  /\ call' = [call EXCEPT ![c] = [Idle EXCEPT !.reply = response]]
  /\ UNCHANGED raced
Refuse(c, code) == AnswerAtOnce(c, RespondError(code))
At(c, op, at) == call[c].op = op /\ call[c].at = at
Goto(c, at) == call' = [call EXCEPT ![c].at = at] /\ UNCHANGED <<raced, requests>>
Answer(c, response) ==
  /\ call' = [call EXCEPT ![c] = [Idle EXCEPT !.reply = response]]
  /\ UNCHANGED <<raced, requests>>

\* generateAuthResponse: a new refresh token and an access token, or COMMON-901.
GenerateToken(c, u) ==
  bearer' = [bearer EXCEPT ![c] = [user |-> u, role |-> users[u].role, expired |-> FALSE]]
GenerateAuthResponse(c, response) ==
  /\ At(c, call[c].op, "token")
  /\ \/ /\ TokenIds \ DOMAIN tokens # {} \* bound
        /\ CreateRefreshToken(call[c].user)
        /\ GenerateToken(c, call[c].user)
        /\ Answer(c, response)
     \/ /\ Answer(c, RespondError("INTERNAL"))
        /\ UNCHANGED <<tokens, bearer>>
  /\ UNCHANGED users

---------------------------------------------------------------------------
(* POST /auth/register                                                     *)
RegisterCheck(c, e, p) ==
  /\ UNCHANGED <<users, tokens, bearer>>
  /\ IF p \in Short THEN Refuse(c, "VALIDATION")
     ELSE IF ExistsByEmail(e) THEN Refuse(c, "CONFLICT")
     ELSE Begin(c, [op |-> "register", at |-> "create", email |-> e, password |-> p,
                    user |-> NoUser, reply |-> NoResponse])
RegisterCreate(c) ==
  /\ At(c, "register", "create") /\ UserIds \ DOMAIN users # {}
  /\ CreateUser(User(call[c].email, call[c].password, "user", "email"))
  /\ call' = [call EXCEPT ![c].at = "token", ![c].user = FreshUser]
  /\ UNCHANGED <<tokens, bearer, raced, requests>>
Register(c) ==
  \/ \E e \in Emails, p \in Passwords : RegisterCheck(c, e, p)
  \/ RegisterCreate(c)
  \/ call[c].op = "register" /\ GenerateAuthResponse(c, RespondCreated)

(* POST /auth/login: one row of the address, if there are several.         *)
LoginCheck(c, e, p) ==
  /\ UNCHANGED <<users, tokens, bearer>>
  /\ \/ ~ExistsByEmail(e) /\ Refuse(c, "INVALID_CREDENTIALS")
     \/ \E u \in GetUserByEmail(e) :
          IF users[u].status = "DISABLED" THEN Refuse(c, "DISABLED")
          ELSE IF users[u].hash # p THEN Refuse(c, "INVALID_CREDENTIALS")
          ELSE Begin(c, [op |-> "login", at |-> "token", user |-> u, reply |-> NoResponse])
Login(c) ==
  \/ \E e \in Emails, p \in Passwords : LoginCheck(c, e, p)
  \/ call[c].op = "login" /\ GenerateAuthResponse(c, RespondSuccess)

(* POST /auth/refresh: read the token and its user, revoke it whatever the *)
(* statement returns, issue the next one.                                  *)
RefreshCheck(c, t) ==
  /\ UNCHANGED <<users, tokens, bearer>>
  /\ IF ~GetRefreshTokenByHash(t) THEN Refuse(c, "TOKEN_INVALID")
     ELSE IF tokens[t].revoked THEN Refuse(c, "REFRESH_REVOKED")
     ELSE IF tokens[t].expired THEN Refuse(c, "TOKEN_EXPIRED")
     ELSE IF ~GetUserByID(tokens[t].user) THEN Refuse(c, "NOT_FOUND")
     ELSE IF users[tokens[t].user].status = "DISABLED" THEN Refuse(c, "DISABLED")
     ELSE Begin(c, [op |-> "refresh", at |-> "revoke", token |-> t,
                    user |-> tokens[t].user, hash |-> tokens[t].hash, reply |-> NoResponse])
RefreshRevoke(c) ==
  /\ At(c, "refresh", "revoke")
  /\ \/ RevokeRefreshToken(call[c].token) /\ Goto(c, "token")
     \/ UNCHANGED tokens /\ call' = [call EXCEPT ![c].at = "token"] \* the error is dropped
        /\ raced' = raced \cup {"refresh"} /\ UNCHANGED requests
  /\ UNCHANGED <<users, bearer>>
\* The exchange is counted on the token that was presented.
RefreshIssue(c) ==
  /\ call[c].op = "refresh"
  /\ LET counted == [tokens EXCEPT ![call[c].token].exchanges = @ + 1]
     IN  /\ TokenIds \ DOMAIN tokens # {} /\ At(c, "refresh", "token")
         /\ tokens' = Insert(counted, FreshToken, RefreshTokenOf(call[c].user, call[c].hash))
         /\ GenerateToken(c, call[c].user) /\ Answer(c, RespondSuccess)
         /\ UNCHANGED users
Refresh(c) ==
  \/ \E t \in TokenIds : RefreshCheck(c, t)
  \/ RefreshRevoke(c)
  \/ RefreshIssue(c)

---------------------------------------------------------------------------
(* The middleware: a bearer header, its claims, a role.                    *)
ApplyBearer(c) == bearer[c] # NoClaims /\ ~bearer[c].expired
JWT(c, handler) ==
  IF ApplyBearer(c) THEN handler
  ELSE Refuse(c, "TOKEN_INVALID") /\ UNCHANGED <<users, tokens, bearer>>
RequireRole(c, roles) == bearer[c].role \in roles

(* POST /auth/logout                                                       *)
Logout(c) ==
  JWT(c, /\ RevokeAllUserRefreshTokens(bearer[c].user)
         /\ AnswerAtOnce(c, RespondNoContent)
         /\ UNCHANGED <<users, bearer>>)

(* POST /auth/change-password: check, write the hash, revoke every token   *)
(* (whatever that statement returns).                                      *)
ChangePasswordCheck(c, old, new) ==
  JWT(c, /\ UNCHANGED <<users, tokens, bearer>>
         /\ LET u == bearer[c].user IN
            IF new \in Short THEN Refuse(c, "VALIDATION")
            ELSE IF ~GetUserByID(u) THEN Refuse(c, "NOT_FOUND")
            ELSE IF users[u].hash # old THEN Refuse(c, "INVALID_CREDENTIALS")
            ELSE Begin(c, [op |-> "password", at |-> "write", user |-> u,
                           password |-> new, reply |-> NoResponse]))
ChangePasswordWrite(c) ==
  /\ At(c, "password", "write")
  /\ UpdatePasswordHash(call[c].user, call[c].password)
  /\ Goto(c, "revoke") /\ UNCHANGED <<tokens, bearer>>
ChangePasswordRevoke(c) ==
  /\ At(c, "password", "revoke")
  /\ \/ RevokeAllUserRefreshTokens(call[c].user)
        /\ Answer(c, RespondNoContent)
     \/ /\ UNCHANGED <<tokens, requests>> \* the error is dropped
        /\ call' = [call EXCEPT ![c] = [Idle EXCEPT !.reply = RespondNoContent]]
        /\ raced' = raced \cup {"password"}
  /\ UNCHANGED <<users, bearer>>
ChangePassword(c) ==
  \/ \E old \in Passwords, new \in Passwords : ChangePasswordCheck(c, old, new)
  \/ ChangePasswordWrite(c)
  \/ ChangePasswordRevoke(c)

(* GET /auth/me, and a route of the administrators.                        *)
Me(c) ==
  JWT(c, /\ AnswerAtOnce(c, Respond(IF GetUserByID(bearer[c].user) THEN OK ELSE "NOT_FOUND", RespondSuccess))
         /\ UNCHANGED <<users, tokens, bearer>>)
AdminRoute(c) ==
  JWT(c, /\ AnswerAtOnce(c, Respond(IF RequireRole(c, {"admin"}) THEN OK ELSE "FORBIDDEN", RespondSuccess))
         /\ UNCHANGED <<users, tokens, bearer>>)

---------------------------------------------------------------------------
(* At start: the administrator, if the address is free.  Every hour: the   *)
(* clean-up.  And what time and an operator at the database do.            *)
EnsureAdmin ==
  /\ requests = 0 /\ users = <<>>
  /\ CreateUser(User(AdminEmail, AdminPassword, "admin", "email"))
  /\ UNCHANGED <<tokens, call, bearer, raced, requests>>
CleanupWorker ==
  /\ \E t \in DOMAIN tokens : Stale(t) /\ ~tokens[t].deleted
  /\ DeleteExpiredRefreshTokens
  /\ UNCHANGED <<users, call, bearer, raced, requests>>
Expire ==
  /\ UNCHANGED <<users, call, raced, requests>>
  /\ \/ \E t \in DOMAIN tokens : ~Stale(t) /\ tokens' = [tokens EXCEPT ![t].expired = TRUE] /\ UNCHANGED bearer
     \/ \E c \in Clients : /\ bearer[c] # NoClaims /\ call[c].op = "idle" /\ UNCHANGED tokens
                           /\ bearer' = [bearer EXCEPT ![c].expired = TRUE]
Disable ==
  /\ \E u \in DOMAIN users : users' = [users EXCEPT ![u].status = "DISABLED"]
  /\ UNCHANGED <<tokens, call, bearer, raced, requests>>

Step(c) ==
  Register(c) \/ Login(c) \/ Refresh(c) \/ Logout(c) \/ ChangePassword(c) \/ Me(c)
  \/ AdminRoute(c)
Background ==
  EnsureAdmin \/ CleanupWorker \/ Expire \/ Disable

---------------------------------------------------------------------------
(* An address has one account, as long as two registrations do not overlap:  *)
(* ExistsByEmail and CreateUser are two statements, and migration 12 dropped *)
(* the unique constraint.                                                    *)
OneAccountPerEmail ==
  "register" \notin raced =>
    \A u, v \in DOMAIN users : users[u].email = users[v].email /\ users[u].email # NoEmail => u = v

(* Once a password change is answered, no refresh token of a session that    *)
(* began under the old password is live, as long as nothing overlapped with  *)
(* the change and its revocation did not fail.                               *)
OldSessionsEnd ==
  "password" \notin raced =>
    \A t \in DOMAIN tokens :
      \/ Stale(t) \/ tokens[t].hash = users[tokens[t].user].hash
      \/ \E c \in Clients : At(c, "password", "revoke") /\ call[c].user = tokens[t].user
=============================================================================
