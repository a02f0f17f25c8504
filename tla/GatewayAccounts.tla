-------------------------- MODULE GatewayAccounts --------------------------
(***************************************************************************)
(* Accounts and sessions of the API gateway (services/api: routes_auth.rs, *)
(* auth.rs, db.rs, the bootstrap account of main.rs) and the requests it   *)
(* passes on to the services behind it (middleware_auth.rs,                *)
(* service_gateway.rs).                                                    *)
(*                                                                         *)
(* A request is several database calls with other requests in between, so  *)
(* each is a sequence of steps: what the first step read may be stale when *)
(* the next one writes.  An access token is the claims it carries; a       *)
(* refresh token is an identifier that counts only while the in-memory     *)
(* registry knows it, so a restart voids all of them.                      *)
(***************************************************************************)
EXTENDS Integers, FiniteSets

CONSTANTS
  GatewayClients,   \* who sends requests
  Usernames,        \* names a client may register, "admin" among them
  Passwords,        \* password digests
  RefreshLife,      \* seconds a refresh token lives
  AccessLife,       \* seconds an access token lives
  MaxUsers, MaxTokens, MaxSeconds, MaxRequestsSent, MaxGatewayStops,
  NoUser            \* no row

VARIABLES
  users,            \* the users table: id -> row or NoUser
  tokens,           \* the refresh-token registry: id -> [user, expires]
  claims,           \* the access tokens handed out
  exchange,         \* the request every client has in progress
  seconds,          \* the wall clock
  handed,           \* ghost: refresh tokens handed out, and to which user
  void,             \* ghost: refresh tokens exchanged, logged out or deleted
  forwarded,        \* what reached the services behind the gateway
  accountUse        \* how much of each bound is used

accountVars == <<users, tokens, claims, exchange, seconds, handed, void, forwarded, accountUse>>

NoExchange == [op |-> "none", step |-> "done", user |-> 0, seen |-> NoUser,
               token |-> 0, doomed |-> FALSE, patch |-> {}, told |-> "none"]

UserIds == 1 .. MaxUsers

Roles == {"Admin", "Engineer", "Viewer"}

RowsNamed(name) == {u \in UserIds : users[u] # NoUser /\ users[u].name = name}

\* hash_password and verify_password: a digest matches the hash made of it.
HashPassword(password) == [hash |-> password]

VerifyPassword(password, hash) == hash = HashPassword(password)

NewRow(name, password, role) ==
  [name |-> name, hash |-> HashPassword(password), role |-> role, active |-> TRUE]

\* ensure_bootstrap_admin: the first start creates the administrator, later
\* starts find a user and create none.
EnsureBootstrapAdmin(rows, password) ==
  IF \E u \in UserIds : rows[u] # NoUser THEN rows
  ELSE [rows EXCEPT ![1] = NewRow("admin", password, "Admin")]

AccountsInit ==
  /\ \E password \in Passwords :
       users = EnsureBootstrapAdmin([u \in UserIds |-> NoUser], password)
  /\ tokens = [t \in {} |-> 0]
  /\ claims = {}
  /\ exchange = [c \in GatewayClients |-> NoExchange]
  /\ seconds = 0
  /\ handed = [t \in {} |-> 0]
  /\ void = {}
  /\ forwarded = {}
  /\ accountUse = [users |-> 1, requests |-> 0, stops |-> 0]

-----------------------------------------------------------------------------
\* Tokens.

\* create_token_pair: access claims carry the role of the row that was read;
\* the refresh token is entered in the registry.
Issues(user, row) ==
  LET t == Cardinality(DOMAIN handed) + 1 IN
  /\ t <= MaxTokens
  /\ claims' = claims \union {[user |-> user, role |-> row.role, exp |-> seconds + AccessLife]}
  /\ tokens' = [k \in DOMAIN tokens \union {t} |->
                  IF k = t THEN [user |-> user, expires |-> seconds + RefreshLife] ELSE tokens[k]]
  /\ handed' = [k \in DOMAIN handed \union {t} |-> IF k = t THEN user ELSE handed[k]]

\* verify_access_token: the signature and the expiry, nothing else.
VerifyAccessToken(claim) == claim \in claims /\ seconds <= claim.exp

RequireAdmin(claim) == VerifyAccessToken(claim) /\ claim.role = "Admin"

Forgets(ids) == [k \in DOMAIN tokens \ ids |-> tokens[k]]

-----------------------------------------------------------------------------

AccountIdle(c) == exchange[c].step = "done" /\ accountUse.requests < MaxRequestsSent

Opens(c, call) ==
  /\ exchange' = [exchange EXCEPT ![c] = call]
  /\ accountUse' = [accountUse EXCEPT !.requests = @ + 1]

Goes(c, call) == exchange' = [exchange EXCEPT ![c] = call] /\ UNCHANGED accountUse

AccountTold(call, status) == [call EXCEPT !.step = "done", !.told = status]

\* register: the duplicate check, then the insert; the table refuses a name it
\* already has.
RegisterChecks(c) ==
  /\ AccountIdle(c)
  /\ \E name \in Usernames, password \in Passwords :
       Opens(c, [NoExchange EXCEPT !.op = "register", !.seen = NewRow(name, password, "Viewer"),
                   !.step = IF RowsNamed(name) # {} THEN "done" ELSE "insert",
                   !.told = IF RowsNamed(name) # {} THEN "400" ELSE "none"])
  /\ UNCHANGED <<users, tokens, claims, seconds, handed, void, forwarded>>

CreateUser(row) ==
  /\ RowsNamed(row.name) = {}
  /\ accountUse.users < MaxUsers
  /\ users' = [users EXCEPT ![accountUse.users + 1] = row]
  /\ accountUse' = [accountUse EXCEPT !.users = @ + 1]

RegisterInserts(c) ==
  /\ exchange[c].step = "insert"
  /\ \/ /\ CreateUser(exchange[c].seen)
        /\ exchange' = [exchange EXCEPT ![c] = AccountTold(@, "200")]
     \/ /\ RowsNamed(exchange[c].seen.name) # {}
        /\ Goes(c, AccountTold(exchange[c], "500"))
        /\ UNCHANGED users
  /\ UNCHANGED <<tokens, claims, seconds, handed, void, forwarded>>

\* login: the row with its role, then the row with the hash.
LoginLooksUp(c) ==
  /\ AccountIdle(c)
  /\ \E u \in UserIds :
       /\ users[u] # NoUser
       /\ Opens(c, [NoExchange EXCEPT !.op = "login", !.user = u, !.seen = users[u],
                      !.step = IF users[u].active THEN "verify" ELSE "done",
                      !.told = IF users[u].active THEN "none" ELSE "401"])
  /\ UNCHANGED <<users, tokens, claims, seconds, handed, void, forwarded>>

LoginVerifies(c) ==
  /\ exchange[c].step = "verify"
  /\ \E password \in Passwords :
       LET u == exchange[c].user
           row == RowsNamed(exchange[c].seen.name) IN
       IF row = {}
       THEN Goes(c, AccountTold(exchange[c], "500")) /\ UNCHANGED <<tokens, claims, handed>>
       ELSE IF ~VerifyPassword(password, users[CHOOSE r \in row : TRUE].hash)
            THEN Goes(c, AccountTold(exchange[c], "401")) /\ UNCHANGED <<tokens, claims, handed>>
            ELSE Issues(u, exchange[c].seen) /\ Goes(c, AccountTold(exchange[c], "200"))
  /\ UNCHANGED <<users, seconds, void, forwarded>>

\* refresh_token: the token is looked up, removed, and then exchanged for a
\* pair if the account still exists and is active.
RefreshLooksUp(c) ==
  /\ AccountIdle(c)
  /\ \E t \in DOMAIN handed :
       LET known == t \in DOMAIN tokens
           expired == known /\ tokens[t].expires < seconds
       IN  /\ Opens(c, [NoExchange EXCEPT !.op = "refresh", !.token = t, !.user = handed[t],
                          !.doomed = t \in void,
                          !.step = IF known /\ ~expired THEN "remove" ELSE "done",
                          !.told = IF known /\ ~expired THEN "none" ELSE "401"])
           /\ tokens' = IF expired THEN Forgets({t}) ELSE tokens
  /\ UNCHANGED <<users, claims, seconds, handed, void, forwarded>>

RefreshRemoves(c) ==
  /\ exchange[c].step = "remove"
  /\ tokens' = Forgets({exchange[c].token})
  /\ void' = void \union {exchange[c].token}
  /\ Goes(c, [exchange[c] EXCEPT !.step = "issue"])
  /\ UNCHANGED <<users, claims, seconds, handed, forwarded>>

RefreshIssues(c) ==
  /\ exchange[c].step = "issue"
  /\ LET row == users[exchange[c].user] IN
     IF row = NoUser
     THEN Goes(c, AccountTold(exchange[c], "500")) /\ UNCHANGED <<tokens, claims, handed>>
     ELSE IF ~row.active
          THEN Goes(c, AccountTold(exchange[c], "401")) /\ UNCHANGED <<tokens, claims, handed>>
          ELSE Issues(exchange[c].user, row) /\ Goes(c, AccountTold(exchange[c], "200"))
  /\ UNCHANGED <<users, seconds, void, forwarded>>

\* logout: the token is removed whether or not it was known.
LogoutKeeps(c) ==
  /\ AccountIdle(c)
  /\ \E t \in DOMAIN handed :
       /\ void' = void \union {t}
       /\ Opens(c, [NoExchange EXCEPT !.op = "logout", !.token = t, !.told = "200"])
  /\ UNCHANGED <<users, tokens, claims, seconds, handed, forwarded>>

Logout(c) ==
  /\ AccountIdle(c)
  /\ \E t \in DOMAIN handed :
       /\ tokens' = Forgets({t})
       /\ void' = void \union {t}
       /\ Opens(c, [NoExchange EXCEPT !.op = "logout", !.token = t, !.told = "200"])
  /\ UNCHANGED <<users, claims, seconds, handed, forwarded>>

-----------------------------------------------------------------------------
\* Changing accounts.

Patches == {{"role"}, {"active"}, {"role", "password"}, {"active", "role"}, {"password"}}

\* update_me and admin_update_user: the role and the activation of an account
\* are an administrator's to change, of any account.
UpdateBegins(c) ==
  /\ AccountIdle(c)
  /\ \E claim \in claims, u \in UserIds, patch \in Patches :
       /\ VerifyAccessToken(claim)
       /\ u = claim.user \/ claim.role = "Admin"
       /\ claim.role = "Admin" \/ patch \intersect {"role", "active"} = {}
       /\ Opens(c, [NoExchange EXCEPT !.op = "update", !.user = u, !.patch = patch, !.step = "role"])
  /\ UNCHANGED <<users, tokens, claims, seconds, handed, void, forwarded>>

WritesField(c, field, values, next) ==
  LET u == exchange[c].user IN
  /\ IF field \in exchange[c].patch /\ users[u] # NoUser
     THEN \E value \in values : users' = [users EXCEPT ![u][field] = value]
     ELSE UNCHANGED users
  /\ Goes(c, [exchange[c] EXCEPT !.step = next])
  /\ UNCHANGED <<tokens, claims, seconds, handed, void, forwarded>>

UpdateRole(c) ==
  exchange[c].op = "update" /\ exchange[c].step = "role" /\ WritesField(c, "role", Roles, "active")

UpdateActive(c) ==
  /\ exchange[c].op = "update" /\ exchange[c].step = "active"
  /\ WritesField(c, "active", BOOLEAN,
                 IF "password" \in exchange[c].patch THEN "old" ELSE "reread")

UpdateRereads(c) ==
  /\ exchange[c].step = "reread"
  /\ Goes(c, AccountTold(exchange[c], IF users[exchange[c].user] = NoUser THEN "500" ELSE "200"))
  /\ UNCHANGED <<users, tokens, claims, seconds, handed, void, forwarded>>

\* apply_password_change: the current password is compared, then the new hash
\* is written whatever happened in between.
PasswordCompares(c) ==
  /\ exchange[c].step = "old"
  /\ \E old \in Passwords, new \in Passwords :
       LET row == users[exchange[c].user] IN
       Goes(c, IF row = NoUser THEN AccountTold(exchange[c], "500")
               ELSE IF ~VerifyPassword(old, row.hash) THEN AccountTold(exchange[c], "400")
               ELSE [exchange[c] EXCEPT !.step = "new", !.seen = [row EXCEPT !.hash = HashPassword(new)]])
  /\ UNCHANGED <<users, tokens, claims, seconds, handed, void, forwarded>>

PasswordWrites(c) ==
  /\ exchange[c].step = "new"
  /\ LET u == exchange[c].user IN
     users' = IF users[u] = NoUser THEN users ELSE [users EXCEPT ![u].hash = exchange[c].seen.hash]
  /\ Goes(c, AccountTold(exchange[c], "200"))
  /\ UNCHANGED <<tokens, claims, seconds, handed, void, forwarded>>

\* admin_delete_user: the row is read, the row is deleted, the tokens go.
DeleteLooksUp(c) ==
  /\ AccountIdle(c)
  /\ \E claim \in claims, u \in UserIds :
       /\ RequireAdmin(claim)
       /\ LET row == users[u] IN
          Opens(c, [NoExchange EXCEPT !.op = "delete", !.user = u, !.seen = row,
                      !.step = IF row # NoUser /\ row.name # "admin" THEN "delete" ELSE "done",
                      !.told = IF row = NoUser THEN "404" ELSE IF row.name = "admin" THEN "400" ELSE "none"])
  /\ UNCHANGED <<users, tokens, claims, seconds, handed, void, forwarded>>

DeleteRow(c) ==
  /\ exchange[c].step = "delete"
  /\ LET u == exchange[c].user IN
     /\ users' = [users EXCEPT ![u] = NoUser]
     /\ Goes(c, IF users[u] = NoUser THEN AccountTold(exchange[c], "500")
                ELSE [exchange[c] EXCEPT !.step = "retain"])
  /\ UNCHANGED <<tokens, claims, seconds, handed, void, forwarded>>

DeleteTokens(c) ==
  /\ exchange[c].step = "retain"
  /\ LET gone == {t \in DOMAIN tokens : tokens[t].user = exchange[c].user} IN
     /\ tokens' = Forgets(gone)
     /\ void' = void \union {t \in DOMAIN handed : handed[t] = exchange[c].user}
  /\ Goes(c, AccountTold(exchange[c], "200"))
  /\ UNCHANGED <<users, claims, seconds, handed, forwarded>>

\* cleanup_tokens: entries past their time go.
CleanupTokens(c) ==
  /\ AccountIdle(c)
  /\ \E claim \in claims : RequireAdmin(claim)
  /\ tokens' = Forgets({t \in DOMAIN tokens : tokens[t].expires < seconds})
  /\ Opens(c, [NoExchange EXCEPT !.op = "cleanup", !.told = "200"])
  /\ UNCHANGED <<users, claims, seconds, handed, void, forwarded>>

-----------------------------------------------------------------------------
\* Requests for the services behind the gateway.

GatewayMethods == {"GET", "HEAD", "POST", "DELETE", "OPTIONS"}

GatewayPaths == {"config", "batch-query", "api/admin", ".."}

GatewayServices == {"io", "history"}

IsGovernedMutation(service, path, method) ==
  /\ method \notin {"GET", "HEAD"}
  /\ ~(service = "history" /\ path = "batch-query" /\ method = "POST")

ValidRelativePath(path) == path # ".."

IsInternalAdminPath(service, path) == service = "io" /\ path = "api/admin"

AuthorizeServiceRequest(claim, service, path, method, confirmed) ==
  IsGovernedMutation(service, path, method) => claim.role \in {"Engineer", "Admin"} /\ confirmed

\* The headers that are passed on.
RequestHeaderAllowlist ==
  {"authorization", "x-request-id", "x-aether-confirmed", "x-aether-expected-revision", "if-match"}

\* require_jwt, proxy_service and forward_to_upstream in one step: nothing of
\* the gateway's state changes while the request is checked.
ProxyService(c) ==
  /\ AccountIdle(c)
  /\ \E claim \in claims, service \in GatewayServices, path \in GatewayPaths,
       method \in GatewayMethods, headers \in SUBSET {"x-aether-confirmed", "x-request-id", "x-other"} :
       LET governed == IsGovernedMutation(service, path, method)
           identified == IF governed THEN headers \union {"x-request-id"} ELSE headers
           status ==
             CASE ~VerifyAccessToken(claim) -> "401"
               [] ~ValidRelativePath(path) \/ IsInternalAdminPath(service, path) -> "400"
               [] ~AuthorizeServiceRequest(claim, service, path, method,
                                           "x-aether-confirmed" \in headers) -> "403"
               [] method = "OPTIONS" -> "405"
               [] OTHER -> "sent"
       IN  /\ forwarded' = IF status # "sent" THEN forwarded
                           ELSE forwarded \union
                                  {[user |-> claim.user, role |-> claim.role, service |-> service,
                                    path |-> path, method |-> method,
                                    headers |-> (identified \union {"authorization"})
                                                  \intersect RequestHeaderAllowlist]}
           /\ \E answer \in (IF status = "sent" THEN {"200", "502"} ELSE {status}) :
                Opens(c, [NoExchange EXCEPT !.op = "proxy", !.told = answer])
  /\ UNCHANGED <<users, tokens, claims, seconds, handed, void>>

-----------------------------------------------------------------------------

SecondPasses ==
  /\ seconds < MaxSeconds
  /\ seconds' = seconds + 1
  /\ UNCHANGED <<users, tokens, claims, exchange, handed, void, forwarded, accountUse>>

\* A restart loses the registry and the requests in progress; the accounts stay.
GatewayRestarts ==
  /\ accountUse.stops < MaxGatewayStops
  /\ accountUse' = [accountUse EXCEPT !.stops = @ + 1]
  /\ tokens' = [t \in {} |-> 0]
  /\ void' = void \union DOMAIN handed
  /\ exchange' = [c \in GatewayClients |-> NoExchange]
  /\ \E password \in Passwords : users' = EnsureBootstrapAdmin(users, password)
  /\ UNCHANGED <<claims, seconds, handed, forwarded>>

Sessions(c) ==
  \/ LoginLooksUp(c) \/ LoginVerifies(c) \/ Logout(c)
  \/ RefreshLooksUp(c) \/ RefreshRemoves(c) \/ RefreshIssues(c)

Accounts(c) ==
  \/ RegisterChecks(c) \/ RegisterInserts(c)
  \/ UpdateBegins(c) \/ UpdateRole(c) \/ UpdateActive(c) \/ UpdateRereads(c)
  \/ PasswordCompares(c) \/ PasswordWrites(c)
  \/ DeleteLooksUp(c) \/ DeleteRow(c) \/ DeleteTokens(c) \/ CleanupTokens(c)

AccountsNext ==
  \/ SecondPasses \/ GatewayRestarts
  \/ \E c \in GatewayClients : Sessions(c) \/ Accounts(c) \/ ProxyService(c)

AccountsSpec == AccountsInit /\ [][AccountsNext]_accountVars

-----------------------------------------------------------------------------

\* The types of the gateway's tables and registry.
AccountsTypeOK ==
  /\ \A u \in UserIds : users[u] = NoUser \/ (users[u].role \in Roles /\ users[u].active \in BOOLEAN)
  /\ DOMAIN tokens \subseteq DOMAIN handed
  /\ \A c \in GatewayClients :
       exchange[c].told \in {"none", "200", "400", "401", "403", "404", "405", "500", "502"}

\* No two accounts share a name, whatever registrations run at once, and the
\* administrator account is never lost: registration checks first and inserts
\* later, deletion looks up first and deletes later (register,
\* admin_delete_user, ensure_bootstrap_admin).
AccountsStay ==
  /\ \A u \in UserIds : users[u] # NoUser => RowsNamed(users[u].name) = {u}
  /\ RowsNamed("admin") # {}

\* A refresh that begins after its token was exchanged, logged out, deleted with
\* its account or lost in a restart hands out nothing (refresh_token, logout,
\* admin_delete_user).
RevokedStaysRevoked ==
  \A c \in GatewayClients :
    exchange[c].op = "refresh" /\ exchange[c].doomed => exchange[c].told # "200"

\* Whatever changes the state of a service behind the gateway arrives there with
\* the caller's token, a request id and the confirmation the service asks for,
\* from a role that may change it (proxy_service, request_header_allowlist).
MutationsAreIdentified ==
  \A f \in forwarded :
    IsGovernedMutation(f.service, f.path, f.method) =>
      /\ {"authorization", "x-request-id", "x-aether-confirmed"} \subseteq f.headers
      /\ f.role \in {"Engineer", "Admin"}
=============================================================================
