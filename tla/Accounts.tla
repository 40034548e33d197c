------------------------------ MODULE Accounts ------------------------------
(***************************************************************************)
(* Accounts: the users and permissions tables, the sessions of the session *)
(* manager, the auth tokens with the token cache of the repository routes, *)
(* the anonymous Docker tokens and the password resets.                    *)
(*                                                                         *)
(* A request is a plan, the steps the handler has still to take: one step  *)
(* per await or per transaction of the session store, so that concurrent   *)
(* requests interleave between them.  A behaviour explores one workload,   *)
(* the operations the clients use in it.  The external logins, which write *)
(* the same tables, are in ExternalLogin.                                  *)
(***************************************************************************)
EXTENDS Naturals, Sequences, FiniteSets

CONSTANTS Clients,       \* numbers of the requests the server runs at a time
          Workloads,     \* what is explored together: the operations ops, the users they
                         \* are about, how clients of repositories identify themselves (by)
                         \* and what they ask for, and the bounds requests, faults and time
          Bases,         \* what user names and addresses are made from
          Secrets,       \* passwords
          Repositories,  \* the repositories permissions are about
          Public,        \* those of them that are public, without authentication
          SessionLife,   \* lifetime of a session (1 day), of a reset token (1 day),
          ResetLife,
          CacheTtl,      \* of an entry of the token cache (5 minutes)
          DockerLife     \* and of a Docker bearer token (15 minutes)

ASSUME AccountsAssumption ==
    /\ {SessionLife, ResetLife, CacheTtl, DockerLife} \subseteq Nat /\ Clients \subseteq Nat
    /\ \A w \in Workloads : {w.requests, w.faults, w.time} \subseteq Nat
    /\ 0 < CacheTtl /\ CacheTtl < DockerLife /\ 0 < SessionLife /\ 0 < ResetLife
    /\ Public \subseteq Repositories

VARIABLES
    workload,  \* the operations clients use, and the bounds
    users,     \* id -> its row in users
    perms,     \* <<user, repository>> -> actions, the table user_repository_permissions
    sessions,  \* id -> its record in the session store
    tokens,    \* id -> its row in user_auth_tokens, with its scopes
    resets,    \* id -> its row in user_password_reset_tokens
    cache,     \* token -> what auth_token_cache holds for it
    anonymous, \* token -> when the entry of anonymous_docker_tokens is evicted
    external,  \* what the external logins keep: see ExternalLogin
    now,       \* the clock
    job,       \* client -> its request
    used,      \* how many requests and faults there were, and the last id given out
    changed,   \* history: when a token or the rights of a user last changed
    raced,     \* history: what was changed under a request that relied on it
    broken     \* history: what a request was working on when it failed

userVars == <<users, perms>>
grantVars == <<tokens, resets, cache, anonymous>>
historyVars == <<changed, raced, broken>>
vars == <<workload, users, perms, sessions, tokens, resets, cache, anonymous, external, now, job,
          used, changed, raced, broken>>

-----------------------------------------------------------------------------
(* Requests.                                                               *)

Actions == {"read", "write", "edit"}
\* A user name, and an address: the base, a number behind it and the kind of text.
Name(base, n) == <<base, n, "name">>
Mail(base) == <<base, 0, "mail">>
NoText == <<"", 0, "">>
Kept == <<"", 1, "">>  \* a field the request leaves out

EmptyMap == [q \in {} |-> 0]
Put(f, k, x) == [q \in DOMAIN f \cup {k} |-> IF q = k THEN x ELSE f[q]]
Keep(f, S) == [q \in DOMAIN f \cap S |-> f[q]]
Drop(f, S) == Keep(f, DOMAIN f \ S)

\* How a request identifies its sender: AuthenticationRaw.
Session(s) == [by |-> "session", id |-> s]
Token(t) == [by |-> "token", id |-> t]
Basic(name, secret, t) == [by |-> "basic", id |-> t, name |-> name, secret |-> secret]
Nobody == [by |-> "nobody", id |-> 0]
\* The expiry of a token that has none: later than any time of the model.
Never == 1 + CHOOSE t \in {w.time : w \in Workloads} : \A w \in Workloads : w.time <= t

NoRow == [id |-> 0]
NoJob == [op |-> "none", plan |-> <<>>, cred |-> Nobody, arg |-> [id |-> 0], caller |-> NoRow,
          token |-> NoRow, mem |-> NoRow, reads |-> {}, code |-> 0]
Request(op, plan, cred, arg) ==
    [NoJob EXCEPT !.op = op, !.plan = plan, !.cred = cred, !.arg = arg]

At(c, step) == job[c].plan # <<>> /\ Head(job[c].plan) = step
Rest(c) == Tail(job[c].plan)
Idle(c) == job[c].plan = <<>>
Quiescent == \A c \in Clients : Idle(c)
Arg(c) == job[c].arg

\* A request of the workload arrives; requests are alike, so it gets the first free number.
Free(c) == Idle(c) /\ (\A d \in Clients : d < c => ~Idle(d)) /\ used.requests < workload.requests
Start(c, request) ==
    /\ used' = [used EXCEPT !.requests = @ + 1]
    /\ job' = [job EXCEPT ![c] = request]
    /\ UNCHANGED <<workload, userVars, sessions, grantVars, external, now, historyVars>>

\* The request goes on, remembers what it read and relies on reads staying as they are.
Goto(c, plan) == job' = [job EXCEPT ![c].plan = plan]
Advance(c) == Goto(c, Rest(c))
SkipTo(c, step) ==
    LET i == CHOOSE i \in DOMAIN job[c].plan : job[c].plan[i] = step
    IN SubSeq(job[c].plan, i, Len(job[c].plan))
Relies(c, reads, mem) ==
    job' = [job EXCEPT ![c].plan = Rest(c), ![c].mem = mem, ![c].reads = @ \cup reads]
Reply(c, code) == job' = [job EXCEPT ![c] = [NoJob EXCEPT !.code = code]]
AdvanceOr(c, ok, code) == IF ok THEN Advance(c) ELSE Reply(c, code)

\* A write of the resources rs overtakes the requests that rely on them.
Touch(c, rs) == raced' = raced \cup {r \in rs : \E d \in Clients \ {c} : r \in job[d].reads}
Changed(S) == changed' = [x \in DOMAIN changed \cup S |-> IF x \in S THEN now ELSE changed[x]]

\* Most steps read tables, or change them, and nothing else.
Reads == UNCHANGED <<workload, userVars, sessions, grantVars, external, now, used, historyVars>>
InTables == UNCHANGED <<workload, sessions, external, now, broken>>

NewId == used.ids + 1
TakesId == used' = [used EXCEPT !.ids = @ + 1]

\* An await fails, or the server stops: nothing the request did is undone.
StepFails(c) ==
    /\ used.faults < workload.faults
    /\ used' = [used EXCEPT !.faults = @ + 1]
    /\ broken' = broken \cup job[c].reads
    /\ Reply(c, 500)
    /\ UNCHANGED <<workload, userVars, sessions, grantVars, external, now, changed, raced>>

-----------------------------------------------------------------------------
(* Who sends the request.                                                  *)

\* UserType::get_by_email, get_by_username_or_email: names and addresses are unique.
WithEmail(e) == {u \in DOMAIN users : users[u].email = e}
WithName(n) == {u \in DOMAIN users : n \in {users[u].name, users[u].email}}
The(S) == CHOOSE x \in S : TRUE
RowOf(u) == Put(users[u], "id", u)

SessionValid(s) == s \in DOMAIN sessions /\ now < sessions[s].expires
TokenValid(t) == t \in DOMAIN tokens /\ now < tokens[t].expires

\* The middleware looks the session up, and the token is read by its hash.  A session that is
\* over identifies nobody, which a repository route may allow.
Identified(cred) ==
    CASE cred.by = "session" -> IF SessionValid(cred.id) THEN sessions[cred.id].user ELSE 0
      [] cred.by = "token" -> IF TokenValid(cred.id) THEN tokens[cred.id].user ELSE 0
      [] OTHER -> 0
Identify(c) ==
    /\ At(c, "identify")
    /\ IF Identified(job[c].cred) # 0
       THEN Relies(c, {}, [id |-> Identified(job[c].cred)])
       ELSE IF job[c].op \in {"repository", "dockerToken"} THEN Goto(c, SkipTo(c, "rights"))
       ELSE Reply(c, 401)
    /\ Reads

\* Then the row of the user is read; the owner of a token has to be active.
Refused(c, u) == u \notin DOMAIN users \/ (job[c].cred.by = "token" /\ ~users[u].active)
Caller(c) ==
    /\ At(c, "caller")
    /\ LET u == job[c].mem.id
       IN IF Refused(c, u) THEN Reply(c, 401)
          ELSE job' = [job EXCEPT ![c].plan = Rest(c), ![c].caller = RowOf(u)]
    /\ Reads

\* A route for sessions, for sessions of a user manager, or of a system manager.
IsManager(row) == row.admin \/ row.manager
IsSystem(row) == row.admin \/ row.system
BySession(c) == At(c, "bySession") /\ AdvanceOr(c, job[c].cred.by = "session", 400) /\ Reads
OnlySession(c) == At(c, "onlySession") /\ AdvanceOr(c, job[c].cred.by = "session", 403) /\ Reads
ByManager(c) == At(c, "byManager") /\ AdvanceOr(c, IsManager(job[c].caller), 403) /\ Reads
BySystem(c) == At(c, "bySystem") /\ AdvanceOr(c, IsSystem(job[c].caller), 403) /\ Reads
Authenticated == <<"identify", "caller">>

\* me, whoami, the lists and the other routes that only read answer from what they find.
Looks(c) == At(c, "look") /\ Reply(c, 200) /\ Reads

AuthenticationStep(c) ==
    Identify(c) \/ Caller(c) \/ BySession(c) \/ OnlySession(c) \/ ByManager(c) \/ BySystem(c) \/ Looks(c)

-----------------------------------------------------------------------------
(* Sessions.                                                               *)

\* A login reads the user by name or address, and checks the password and the status.
Verifies(name, secret, u) == u \in WithName(name) /\ users[u].password = secret /\ users[u].active
Login(c) ==
    /\ At(c, "verify")
    /\ LET found == {u \in DOMAIN users : Verifies(Arg(c).name, Arg(c).secret, u)}
       IN IF found = {} THEN Reply(c, 401)
          ELSE Relies(c, {<<"user", The(found)>>}, RowOf(The(found)))
    /\ Reads

\* create_session: one write transaction.
CreateSession(c) ==
    /\ At(c, "createSession")
    /\ sessions' = Put(sessions, NewId, [user |-> job[c].mem.id, expires |-> now + SessionLife])
    /\ TakesId
    /\ Touch(c, {<<"user", job[c].mem.id>>})
    /\ AdvanceOr(c, Rest(c) # <<>>, IF job[c].op = "login" THEN 200 ELSE 303)
    /\ UNCHANGED <<workload, userVars, grantVars, external, now, changed, broken>>

DeleteSession(c) ==
    /\ At(c, "deleteSession")
    /\ sessions' = Drop(sessions, {job[c].cred.id})
    /\ Reply(c, 204)
    /\ UNCHANGED <<workload, userVars, grantVars, external, now, used, historyVars>>

\* Mutant: only the sessions that are over.
SessionsOver(u) == {s \in DOMAIN sessions : sessions[s].user = u /\ sessions[s].expires <= now}
\* delete_sessions_for_user lists the sessions of the user and removes those in a second
\* transaction, which is not made when there are none.
SessionsOf(u) == {s \in DOMAIN sessions : sessions[s].user = u}
ListSessions(c) ==
    /\ At(c, "listSessions")
    /\ job' = [job EXCEPT ![c].plan = IF SessionsOf(Arg(c).id) = {} THEN Tail(Rest(c)) ELSE Rest(c),
                          ![c].mem = [found |-> SessionsOf(Arg(c).id)]]
    /\ Reads
RemoveSessions(c) ==
    /\ At(c, "removeSessions")
    /\ sessions' = Drop(sessions, job[c].mem.found)
    /\ Advance(c)
    /\ UNCHANGED <<workload, userVars, grantVars, external, now, used, historyVars>>

\* The cleaner: the expired sessions are listed and removed, then the expired tokens deleted.
ExpiredSessions == {s \in DOMAIN sessions : sessions[s].expires < now}
CleanList(c) ==
    /\ At(c, "cleanList") /\ Relies(c, {}, [found |-> ExpiredSessions])
    /\ Reads
CleanTokens(c) ==
    /\ At(c, "cleanTokens")
    /\ tokens' = Keep(tokens, {t \in DOMAIN tokens : ~(tokens[t].expires < now)})
    /\ Reply(c, 200)
    /\ InTables /\ UNCHANGED <<userVars, resets, cache, anonymous, used, changed, raced>>

SessionStep(c) == Login(c) \/ CreateSession(c) \/ DeleteSession(c) \/ ListSessions(c)
                  \/ RemoveSessions(c) \/ CleanList(c) \/ CleanTokens(c)

-----------------------------------------------------------------------------
(* Users.                                                                  *)

\* UserSafeData::get_by_id of the user a route is about.
FindUser(c) ==
    /\ At(c, "findUser")
    /\ IF Arg(c).id \in DOMAIN users
       THEN Relies(c, {<<"user", Arg(c).id>>, <<"admins", 0>>}, RowOf(Arg(c).id))
       ELSE Reply(c, 404)
    /\ Reads

\* Mutant: inactive administrators count too.
AnyAdmins(u) == {a \in DOMAIN users \ {u} : users[a].admin}
\* The last active administrator can be neither deactivated nor deleted.
OtherAdmins(u) == {a \in DOMAIN users \ {u} : users[a].admin /\ users[a].active}
CountAdmins(c) ==
    /\ At(c, "countAdmins")
    /\ AdvanceOr(c, ~job[c].mem.admin \/ OtherAdmins(Arg(c).id) # {}, 409)
    /\ Reads

SetActive(c) ==
    /\ At(c, "setActive")
    /\ users' = [u \in DOMAIN users |->
                   IF u = Arg(c).id THEN [users[u] EXCEPT !.active = Arg(c).active] ELSE users[u]]
    /\ Touch(c, {<<"user", Arg(c).id>>, <<"admins", 0>>}) /\ Changed({<<"user", Arg(c).id>>})
    /\ AdvanceOr(c, Rest(c) # <<>>, 200)
    /\ InTables /\ UNCHANGED <<perms, grantVars, used>>

\* DELETE FROM users takes what references the user along.
TokensOf(u) == {t \in DOMAIN tokens : tokens[t].user = u}
DeleteUser(c) ==
    /\ At(c, "deleteUser")
    /\ LET u == Arg(c).id
       IN /\ users' = Drop(users, {u})
          /\ perms' = Keep(perms, {k \in DOMAIN perms : k[1] # u})
          /\ tokens' = Drop(tokens, TokensOf(u))
          /\ resets' = Keep(resets, {r \in DOMAIN resets : resets[r].user # u})
          /\ Touch(c, {<<"user", u>>, <<"admins", 0>>})
          /\ Changed({<<"user", u>>} \cup {<<"token", t>> : t \in TokensOf(u)})
    /\ Reply(c, 204)
    /\ InTables /\ UNCHANGED <<cache, anonymous, used>>

\* The status of an update that did not have to clean up after itself.
Answers(c) == At(c, "answer") /\ Reply(c, 200) /\ Reads

\* change_email and update_user check what is to change in the row they read, create_user both
\* the name and the address.
NameTaken(n, u) == \E w \in DOMAIN users \ {u} : users[w].name = n
EmailTaken(e, u) == e # NoText /\ \E w \in DOMAIN users \ {u} : users[w].email = e
Renames(c) == Arg(c).name # Kept /\ (Arg(c).id # 0 => Arg(c).name # job[c].mem.name)
Moves(c) == Arg(c).email # Kept /\ (Arg(c).id # 0 => Arg(c).email # job[c].mem.email)
AsCaller(c) ==
    /\ At(c, "asCaller")
    /\ job' = [job EXCEPT ![c].plan = Rest(c), ![c].mem = job[c].caller,
                          ![c].arg = [Arg(c) EXCEPT !.id = job[c].caller.id]]
    /\ Reads
NewRow(name, email, secret) ==
    [name |-> name, email |-> email, password |-> secret, active |-> TRUE, admin |-> FALSE,
     manager |-> FALSE, system |-> FALSE, defaults |-> {}, origin |-> NoText]
CheckName(c) ==
    /\ At(c, "checkName")
    /\ AdvanceOr(c, ~Renames(c) \/ ~NameTaken(Arg(c).name, Arg(c).id), 409)
    /\ Reads
CheckEmail(c) ==
    /\ At(c, "checkEmail")
    /\ AdvanceOr(c, ~Moves(c) \/ ~EmailTaken(Arg(c).email, Arg(c).id), 409)
    /\ Reads

\* The insert fails when the name or the address has been taken since.
InsertUser(c) ==
    /\ At(c, "insertUser")
    /\ IF NameTaken(Arg(c).name, 0) \/ EmailTaken(Arg(c).email, 0)
       THEN users' = users /\ Reply(c, 500) /\ UNCHANGED used
       ELSE /\ users' = Put(users, NewId, NewRow(Arg(c).name, Arg(c).email, Arg(c).secret))
            /\ TakesId /\ Reply(c, 200)
    /\ Touch(c, {<<"name", Arg(c).name>>, <<"address", Arg(c).email>>})
    /\ InTables /\ UNCHANGED <<perms, grantVars, changed>>

\* The columns are updated one by one; each update fails when the value has been taken since.
SetColumn(c, changes, taken, Row(_)) ==
    IF ~changes \/ Arg(c).id \notin DOMAIN users THEN users' = users /\ Advance(c)
    ELSE IF taken THEN users' = users /\ Reply(c, 500)
    ELSE users' = [users EXCEPT ![Arg(c).id] = Row(@)] /\ Advance(c)
SetEmail(c) ==
    /\ At(c, "setEmail")
    /\ SetColumn(c, Moves(c), EmailTaken(Arg(c).email, Arg(c).id),
                 LAMBDA row : [row EXCEPT !.email = Arg(c).email])
    /\ Touch(c, {<<"address", Arg(c).email>>})
    /\ InTables /\ UNCHANGED <<perms, grantVars, used, changed>>
\* A renamed account is no longer the one a principal without an address is found by.
Disowned == {<<"renamed", users[u].origin[1]>> : u \in {u \in DOMAIN users : users'[u].origin # users[u].origin}}
SetName(c) ==
    /\ At(c, "setName")
    /\ SetColumn(c, Renames(c), NameTaken(Arg(c).name, Arg(c).id),
                 LAMBDA row : [row EXCEPT !.name = Arg(c).name, !.origin = NoText])
    /\ Touch(c, {<<"name", Arg(c).name>>}) /\ Changed(Disowned)
    /\ InTables /\ UNCHANGED <<perms, grantVars, used>>
Reread(c) == At(c, "reread") /\ Reply(c, IF Arg(c).id \in DOMAIN users THEN 200 ELSE 404) /\ Reads

\* update_permissions: the columns of the user, then one statement per repository.
Demoted(u, admin) ==
    IF u \in DOMAIN users /\ users[u].admin /\ ~admin THEN {<<"demoted", u>>} ELSE {}
SetFlags(c) ==
    /\ At(c, "setFlags")
    /\ users' = [u \in DOMAIN users |->
                   IF u = Arg(c).id THEN [users[u] EXCEPT !.admin = Arg(c).admin] ELSE users[u]]
    /\ Touch(c, {<<"admins", 0>>})
    /\ Changed({<<"user", Arg(c).id>>} \cup Demoted(Arg(c).id, Arg(c).admin))
    /\ AdvanceOr(c, Rest(c) # <<>>, 204)
    /\ InTables /\ UNCHANGED <<perms, grantVars, used>>
SetPermission(c) ==
    /\ At(c, "setPermission")
    /\ LET k == <<Arg(c).id, Arg(c).repo>>
       IN perms' = IF Arg(c).actions = {} THEN Drop(perms, {k})
                   ELSE IF Arg(c).id \in DOMAIN users THEN Put(perms, k, Arg(c).actions) ELSE perms
    /\ Changed({<<"user", Arg(c).id>>})
    /\ Reply(c, IF Arg(c).actions = {} \/ Arg(c).id \in DOMAIN users THEN 204 ELSE 500)
    /\ InTables /\ UNCHANGED <<users, grantVars, used, raced>>

UserStep(c) ==
    \/ FindUser(c) \/ CountAdmins(c) \/ SetActive(c) \/ DeleteUser(c) \/ Answers(c) \/ AsCaller(c)
    \/ CheckName(c) \/ CheckEmail(c) \/ InsertUser(c) \/ SetEmail(c) \/ SetName(c) \/ Reread(c) \/ SetFlags(c)
    \/ SetPermission(c)

-----------------------------------------------------------------------------
(* Passwords.                                                              *)

SetPassword(c) ==
    /\ At(c, "setPassword")
    /\ users' = [u \in DOMAIN users |->
                   IF u = job[c].mem.id THEN [users[u] EXCEPT !.password = Arg(c).secret] ELSE users[u]]
    /\ resets' = IF job[c].op = "reset" /\ Arg(c).id \in DOMAIN resets
                 THEN [resets EXCEPT ![Arg(c).id].uses = @ + 1] ELSE resets
    /\ Touch(c, IF job[c].op = "reset" THEN {<<"reset", Arg(c).id>>} ELSE {})
    /\ AdvanceOr(c, Rest(c) # <<>>, 204)
    /\ InTables /\ UNCHANGED <<perms, tokens, cache, anonymous, used, changed>>

\* change_password reads the stored password and compares it with the old one.
CheckPassword(c) ==
    /\ At(c, "checkPassword")
    /\ LET u == job[c].caller.id
       IN IF u \notin DOMAIN users THEN Reply(c, 500)
          ELSE IF users[u].password # Arg(c).old THEN Reply(c, 401)
          ELSE Relies(c, {}, [id |-> u])
    /\ Reads

\* request_password_reset answers 200 whether or not the address is known.
FindEmail(c) ==
    /\ At(c, "findEmail")
    /\ IF WithEmail(Arg(c).email) = {} THEN Reply(c, 200)
       ELSE Relies(c, {}, [id |-> The(WithEmail(Arg(c).email))])
    /\ Reads
CreateReset(c) ==
    /\ At(c, "createReset")
    /\ IF job[c].mem.id \in DOMAIN users
       THEN /\ resets' = Put(resets, NewId, [user |-> job[c].mem.id, state |-> "Requested",
                                             expires |-> now + ResetLife, uses |-> 0])
            /\ TakesId /\ Reply(c, 200)
       ELSE resets' = resets /\ Reply(c, 500) /\ UNCHANGED used
    /\ InTables /\ UNCHANGED <<userVars, tokens, cache, anonymous, changed, raced>>

\* Mutant: the state of the token is not looked at.
ResetUnexpired(r) == r \in DOMAIN resets /\ now < resets[r].expires
\* perform_password_change: the token is read, the password updated, the token marked as used.
ResetValid(r) == r \in DOMAIN resets /\ resets[r].state = "Requested" /\ now < resets[r].expires
FindReset(c) ==
    /\ At(c, "findReset")
    /\ IF ResetValid(Arg(c).id)
       THEN Relies(c, {<<"reset", Arg(c).id>>}, [id |-> resets[Arg(c).id].user])
       ELSE Reply(c, 404)
    /\ Reads
ResetUser(c) == At(c, "resetUser") /\ AdvanceOr(c, job[c].mem.id \in DOMAIN users, 404) /\ Reads
SetUsed(c) ==
    /\ At(c, "setUsed")
    /\ resets' = [r \in DOMAIN resets |->
                    IF r = Arg(c).id THEN [resets[r] EXCEPT !.state = "Used"] ELSE resets[r]]
    /\ Touch(c, {<<"reset", Arg(c).id>>})
    /\ Reply(c, 204)
    /\ InTables /\ UNCHANGED <<userVars, tokens, cache, anonymous, used, changed>>
CheckReset(c) ==
    At(c, "checkReset") /\ Reply(c, IF ResetValid(Arg(c).id) THEN 204 ELSE 404) /\ Reads

PasswordStep(c) == SetPassword(c) \/ CheckPassword(c) \/ FindEmail(c) \/ CreateReset(c)
                   \/ FindReset(c) \/ ResetUser(c) \/ SetUsed(c) \/ CheckReset(c)

-----------------------------------------------------------------------------
(* Tokens.                                                                 *)

\* A token is inserted, then its scopes: one statement for each action and each repository.
InsertToken(c) ==
    /\ At(c, "insertToken")
    /\ IF job[c].caller.id \notin DOMAIN users
       THEN tokens' = tokens /\ Reply(c, 500) /\ UNCHANGED used
       ELSE /\ tokens' = Put(tokens, NewId, [user |-> job[c].caller.id, expires |-> now + Arg(c).life,
                                             scopes |-> {}, repos |-> EmptyMap])
            /\ TakesId
            /\ job' = [job EXCEPT ![c].plan = Rest(c), ![c].mem = [id |-> NewId, left |-> Arg(c).scopes]]
    /\ InTables /\ UNCHANGED <<userVars, resets, cache, anonymous, changed, raced>>
InsertScope(c) ==
    /\ At(c, "insertScopes")
    /\ LET t == job[c].mem.id
       IN IF job[c].mem.left = {} THEN Advance(c) /\ tokens' = tokens
          ELSE IF t \notin DOMAIN tokens THEN Reply(c, 500) /\ tokens' = tokens
          ELSE \E a \in job[c].mem.left :
                 /\ tokens' = [tokens EXCEPT ![t].scopes = @ \cup {a}]
                 /\ job' = [job EXCEPT ![c].mem.left = @ \ {a}]
    /\ InTables /\ UNCHANGED <<userVars, resets, cache, anonymous, used, changed, raced>>
InsertRepositories(c) ==
    /\ At(c, "insertRepositories")
    /\ LET t == job[c].mem.id
       IN IF t \notin DOMAIN tokens THEN Reply(c, 500) /\ tokens' = tokens
          ELSE /\ tokens' = [tokens EXCEPT ![t].repos = Put(@, Arg(c).repo, Arg(c).actions)]
               /\ Reply(c, 200)
    /\ InTables /\ UNCHANGED <<userVars, resets, cache, anonymous, used, changed, raced>>

\* delete_token reads the token of the caller and deletes it; the token cache is not told.
FindToken(c) ==
    /\ At(c, "findToken")
    /\ AdvanceOr(c, Arg(c).id \in TokensOf(job[c].caller.id), 404)
    /\ Reads
DeleteToken(c) ==
    /\ At(c, "deleteToken")
    /\ tokens' = Drop(tokens, {Arg(c).id})
    /\ Changed({<<"token", Arg(c).id>>})
    /\ Reply(c, 204)
    /\ InTables /\ UNCHANGED <<userVars, resets, cache, anonymous, used, raced>>

-----------------------------------------------------------------------------
(* Repository routes: RepositoryAuthentication::from_raw, then the rights. *)

ByToken == <<"anonymous", "cachedToken", "readToken", "readOwner", "cacheToken">>
RawPlan(cred) == CASE cred.by = "session" -> Authenticated
                   [] cred.by = "token" -> ByToken
                   [] cred.by = "basic" -> <<"verifyBasic">> \o Tail(ByToken)
                   [] OTHER -> <<>>

\* An anonymous Docker token identifies nobody.
Anonymous(c) ==
    /\ At(c, "anonymous")
    /\ LET t == job[c].cred.id
       IN IF t \in DOMAIN anonymous /\ now < anonymous[t] THEN Goto(c, SkipTo(c, "rights")) ELSE Advance(c)
    /\ Reads

\* A user name with the password, or with a token in its place.
VerifyBasic(c) ==
    /\ At(c, "verifyBasic")
    /\ LET found == {u \in DOMAIN users : Verifies(job[c].cred.name, job[c].cred.secret, u)}
       IN IF found = {} THEN Advance(c)
          ELSE job' = [job EXCEPT ![c].plan = SkipTo(c, "rights"), ![c].caller = RowOf(The(found))]
    /\ Reads

\* Mutants: entries never leave the cache, and the expiry of a cached token is not checked.
CacheHolds(t) == t \in DOMAIN cache
CacheTrusts(entry) == TRUE
\* The cache answers for the token and its owner as they were; an expired token is dropped.
CacheHit(t) == t \in DOMAIN cache /\ now < cache[t].until
CacheUsable(entry) == now < entry.token.expires
CachedToken(c) ==
    /\ At(c, "cachedToken")
    /\ LET t == job[c].cred.id
       IN IF ~CacheHit(t) THEN Advance(c) /\ cache' = cache
          ELSE IF ~CacheUsable(cache[t]) THEN Reply(c, 401) /\ cache' = Drop(cache, {t})
          ELSE /\ job' = [job EXCEPT ![c].plan = SkipTo(c, "rights"), ![c].caller = cache[t].owner,
                                     ![c].token = cache[t].token]
               /\ cache' = cache
    /\ InTables /\ UNCHANGED <<userVars, tokens, resets, anonymous, used, changed, raced>>
ReadToken(c) ==
    /\ At(c, "readToken")
    /\ LET t == job[c].cred.id
       IN IF ~TokenValid(t) THEN Reply(c, 401)
          ELSE job' = [job EXCEPT ![c].plan = Rest(c), ![c].token = Put(tokens[t], "id", t)]
    /\ Reads
ReadOwner(c) ==
    /\ At(c, "readOwner")
    /\ LET u == job[c].token.user
       IN IF u \notin DOMAIN users THEN Reply(c, 401)
          ELSE job' = [job EXCEPT ![c].plan = Rest(c), ![c].caller = RowOf(u)]
    /\ Reads
CacheToken(c) ==
    /\ At(c, "cacheToken")
    /\ cache' = Put(cache, job[c].cred.id,
                    [token |-> job[c].token, owner |-> job[c].caller, until |-> now + CacheTtl])
    /\ Advance(c)
    /\ InTables /\ UNCHANGED <<userVars, tokens, resets, anonymous, used, changed, raced>>

\* What a user may do: everything as an administrator or system manager, else what the
\* permissions for the repository say, else the default actions.
Allows(row, repo, action) ==
    \/ row.admin \/ row.system
    \/ IF <<row.id, repo>> \in DOMAIN perms THEN action \in perms[<<row.id, repo>>]
       ELSE action \in row.defaults
ReadsFreely(c) == Arg(c).action = "read" /\ Arg(c).repo \in Public /\
                  (job[c].op = "repository" \/ job[c].caller = NoRow)
Rights(c) ==
    /\ At(c, "rights")
    /\ IF ReadsFreely(c) THEN Goto(c, Tail(Rest(c)))
       ELSE IF job[c].caller = NoRow THEN Reply(c, 401)
       ELSE AdvanceOr(c, Allows(job[c].caller, Arg(c).repo, Arg(c).action), 403)
    /\ Reads

\* A token has to have the scope as well.
InScope(t, repo, action) ==
    \/ action \in tokens[t].scopes
    \/ repo \in DOMAIN tokens[t].repos /\ action \in tokens[t].repos[repo]
TokenRights(c) ==
    /\ At(c, "tokenRights")
    /\ LET t == job[c].token.id
       IN AdvanceOr(c, t = 0 \/ (t \in DOMAIN tokens /\ InScope(t, Arg(c).repo, Arg(c).action)), 403)
    /\ Reads

\* handle_docker_token gives a user a token for what was asked, and nobody an anonymous one.
DockerToken(c) ==
    /\ At(c, "dockerToken")
    /\ IF job[c].caller # NoRow
       THEN Advance(c) /\ UNCHANGED <<anonymous, used>>
       ELSE anonymous' = Put(anonymous, NewId, now + DockerLife) /\ TakesId /\ Reply(c, 200)
    /\ InTables /\ UNCHANGED <<userVars, tokens, resets, cache, changed, raced>>

TokenStep(c) ==
    \/ InsertToken(c) \/ InsertScope(c) \/ InsertRepositories(c) \/ FindToken(c) \/ DeleteToken(c)
    \/ Anonymous(c) \/ VerifyBasic(c) \/ CachedToken(c) \/ ReadToken(c) \/ ReadOwner(c)
    \/ CacheToken(c) \/ Rights(c) \/ TokenRights(c) \/ DockerToken(c)

-----------------------------------------------------------------------------
(* The requests.                                                           *)

OnlyBySession == <<"onlySession">> \o Authenticated
Manages == Authenticated \o <<"byManager">>
Starts(c, op, plan, cred, arg) == op \in workload.ops /\ Start(c, Request(op, plan, cred, arg))
About == DOMAIN users \cap workload.about
KnownTokens == DOMAIN tokens \cup DOMAIN cache \cup DOMAIN anonymous

SessionRequest(c) ==
    \/ \E b \in Bases, w \in Secrets :
         Starts(c, "login", <<"verify", "createSession">>, Nobody, [id |-> 0, name |-> Name(b, 0), secret |-> w])
    \/ \E cred \in {Session(s) : s \in DOMAIN sessions} \cup {Token(t) : t \in KnownTokens} :
         \/ Starts(c, "logout", Authenticated \o <<"bySession", "deleteSession">>, cred, [id |-> 0])
         \/ Starts(c, "whoami", Authenticated \o <<"look">>, cred, [id |-> 0])
    \/ Starts(c, "cleaner", <<"cleanList", "removeSessions", "cleanTokens">>, Nobody, [id |-> 0])

UserRequest(c) ==
    \/ \E u \in About, active \in BOOLEAN, s \in {1, 2} :
         Starts(c, "status",
                Manages \o <<"findUser">> \o
                  (IF active THEN <<"setActive">>
                   ELSE <<"countAdmins", "setActive", "listSessions", "removeSessions", "answer">>),
                Session(s), [id |-> u, active |-> active])
    \/ \E u \in About :
         \/ Starts(c, "deleteUser",
                   Manages \o <<"findUser", "countAdmins", "listSessions", "removeSessions", "deleteUser">>,
                   Session(1), [id |-> u])
         \/ \E admin \in BOOLEAN, r \in Repositories \ Public, A \in SUBSET {"read"} :
              Starts(c, "permissions", Manages \o <<"findUser", "setFlags", "setPermission">>,
                     Session(1), [id |-> u, admin |-> admin, repo |-> r, actions |-> A])
         \/ \E n \in {Kept} \cup {Name(b, 0) : b \in Bases}, e \in {Kept, NoText} \cup {Mail(b) : b \in Bases} :
              Starts(c, "updateUser",
                     Manages \o <<"findUser", "checkName", "checkEmail", "setEmail", "setName", "reread">>,
                     Session(1), [id |-> u, name |-> n, email |-> e])
    \/ \E b \in Bases :
         \/ Starts(c, "createUser", Manages \o <<"checkName", "checkEmail", "insertUser">>, Session(1),
                   [id |-> 0, name |-> Name(b, 0), email |-> Mail(b), secret |-> "first"])
         \/ Starts(c, "changeEmail",
                   Authenticated \o <<"bySession", "asCaller", "checkEmail", "setEmail", "reread">>,
                   Session(2), [id |-> 0, name |-> Kept, email |-> Mail(b)])

PasswordRequest(c) ==
    \/ \E w, old \in Secrets :
         Starts(c, "changePassword", Authenticated \o <<"bySession", "checkPassword", "setPassword">>,
                Session(2), [id |-> 0, old |-> old, secret |-> w])
    \/ \E w \in Secrets, u \in About :
         Starts(c, "updatePassword", Manages \o <<"findUser", "setPassword">>, Session(1),
                [id |-> u, secret |-> w])
    \/ \E b \in Bases :
         Starts(c, "requestReset", <<"findEmail", "createReset">>, Nobody, [id |-> 0, email |-> Mail(b)])
    \/ \E r \in DOMAIN resets :
         \/ Starts(c, "checkReset", <<"checkReset">>, Nobody, [id |-> r])
         \/ \E w \in Secrets :
              Starts(c, "reset", <<"findReset", "resetUser", "setPassword", "setUsed">>, Nobody,
                     [id |-> r, secret |-> w])

\* The ways a client of a repository identifies itself.
Credentials == {Nobody, Session(2)} \cup {Token(t) : t \in KnownTokens}
               \cup {Basic(Name("ann", 0), w, 0) : w \in Secrets}
               \cup {Basic(NoText, "", t) : t \in DOMAIN tokens}
TokenRequest(c) ==
    \/ \E A \in {{}, {"read", "write"}}, r \in Repositories \ Public, life \in {1, Never} :
         Starts(c, "createToken",
                OnlyBySession \o <<"insertToken", "insertScopes", "insertRepositories">>,
                Session(2), [id |-> 0, scopes |-> A, repo |-> r, actions |-> {"read"}, life |-> life])
    \/ \E t \in DOMAIN tokens : \E cred \in {Session(2), Token(t)} :
         Starts(c, "deleteToken", OnlyBySession \o <<"findToken", "deleteToken">>, cred, [id |-> t])
    \/ \E cred \in {x \in Credentials : x.by \in workload.by}, ask \in workload.asks :
         \/ Starts(c, "repository", RawPlan(cred) \o <<"rights", "tokenRights", "look">>, cred,
                   [id |-> 0, repo |-> ask[1], action |-> ask[2]])
         \/ Starts(c, "dockerToken",
                   RawPlan(cred) \o <<"rights", "tokenRights", "dockerToken", "insertToken",
                                      "insertScopes", "insertRepositories">>, cred,
                   [id |-> 0, repo |-> ask[1], action |-> ask[2], actions |-> {ask[2]}, scopes |-> {},
                    life |-> DockerLife])

\* Authentication of a repository request takes no time the clock would show.
Ticks ==
    /\ now < workload.time /\ now' = now + 1
    /\ \A c \in Clients : Idle(c) \/ job[c].op \notin {"repository", "dockerToken", "sso"}
    /\ UNCHANGED <<workload, userVars, sessions, grantVars, external, job, used, historyVars>>

AccountsStep(c) ==
    /\ ~Idle(c)
    /\ \/ AuthenticationStep(c) \/ SessionStep(c) \/ UserStep(c) \/ PasswordStep(c) \/ TokenStep(c)
       \/ StepFails(c)
AccountsRequest(c) ==
    Free(c) /\ (SessionRequest(c) \/ UserRequest(c) \/ PasswordRequest(c) \/ TokenRequest(c))

\* An administrator and a user, both signed in; the user may have a token, and may be an
\* administrator too where that makes a difference.
FirstToken == [user |-> 2, expires |-> IF "permissions" \in workload.ops THEN Never ELSE 2,
               scopes |-> {}, repos |-> [r \in Repositories |-> {"read"}]]
Root == [NewRow(Name("root", 0), Mail("root"), "first") EXCEPT !.admin = TRUE]
Ann == NewRow(Name("ann", 0), Mail("ann"), "first")
AccountsInit ==
    /\ workload \in Workloads
    /\ \E admin \in BOOLEAN, A \in (IF "repository" \in workload.ops THEN SUBSET {"read"} ELSE {{}}) :
         /\ admin => "sso" \notin workload.ops
         /\ users = [u \in {1, 2} |-> IF u = 1 THEN Root ELSE [Ann EXCEPT !.admin = admin, !.defaults = A]]
    /\ perms = EmptyMap
    /\ sessions = [s \in {1, 2} |-> [user |-> s, expires |-> SessionLife]]
    /\ tokens = IF "repository" \in workload.ops THEN [t \in {3} |-> FirstToken] ELSE EmptyMap
    /\ resets = EmptyMap /\ cache = EmptyMap /\ anonymous = EmptyMap
    /\ now = 0 /\ job = [c \in Clients |-> NoJob]
    /\ used = [requests |-> 0, faults |-> 0, ids |-> 3]
    /\ changed = EmptyMap /\ raced = {} /\ broken = {}
-----------------------------------------------------------------------------
(* Properties.                                                             *)

\* Nobody who is deactivated or deleted stays signed in: once the request has been answered,
\* every session belongs to an active user.  A login between reading the user and opening
\* the session is not stopped, which is what raced stands for.
EndsSessions(c, u) == ~Idle(c) /\ job[c].op \in {"status", "deleteUser"} /\ Arg(c).id = u
SessionsFollowUsers ==
    \A s \in DOMAIN sessions :
      LET u == sessions[s].user
      IN \/ u \in DOMAIN users /\ users[u].active
         \/ <<"user", u>> \in raced \cup broken
         \/ \E c \in Clients : EndsSessions(c, u)

\* There is always an active administrator, unless update_permissions or the roles of an
\* external login took the flag from one (neither counts), or two requests counted at once.
AdminRemains ==
    \/ \E u \in DOMAIN users : users[u].admin /\ users[u].active
    \/ \E x \in DOMAIN changed : x[1] = "demoted"
    \/ <<"admins", 0>> \in raced

\* A reset token sets one password, unless two requests used it at the same time or one
\* failed before it had marked the token as used.
ResetUsedOnce ==
    \A r \in DOMAIN resets : resets[r].uses <= 1 \/ <<"reset", r>> \in raced \cup broken

\* No request of a repository passes with a token that has expired or been deleted, though
\* the token may come from the cache.
Passes(c) == At(c, "tokenRights") /\ job'[c].plan = Rest(c)
PassesValid == \A c \in Clients : Passes(c) /\ job[c].token.id # 0 => TokenValid(job[c].token.id)

\* And none passes with rights its user lost longer ago than an entry of the cache lives.
RightsHeld(row, repo, action) ==
    \/ row.id \in DOMAIN users /\ Allows(RowOf(row.id), repo, action)
    \/ <<"user", row.id>> \in DOMAIN changed /\ now < changed[<<"user", row.id>>] + CacheTtl
PassesRecent == \A c \in Clients : Passes(c) => RightsHeld(job[c].caller, Arg(c).repo, Arg(c).action)
=============================================================================
