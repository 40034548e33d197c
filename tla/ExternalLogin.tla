---------------------------- MODULE ExternalLogin ----------------------------
(***************************************************************************)
(* External logins: the OAuth2 authorization and its callback, the SSO     *)
(* login with its cache of signing keys, and the security settings.  They  *)
(* find or create the rows of Accounts and open its sessions.              *)
(*                                                                         *)
(* A login state is kept twice, in the memory of the OAuth2 service and in *)
(* the table oauth2_states, so that it survives a restart.  The identity   *)
(* provider is external: it publishes keys and answers with the claims a   *)
(* request carries.                                                        *)
(***************************************************************************)
EXTENDS Accounts

CONSTANTS Principals,  \* who signs in, and the roles: [base, email, verified, roles]
          Attempts,    \* the last number tried behind a taken name (20)
          StateTtl,    \* lifetime of a login state (5 minutes),
          PruneAge,    \* age at which its row is deleted (15 minutes)
          JwksTtl,     \* and lifetime of fetched signing keys (1 hour)
          MaxKeys      \* bound on the keys the provider ever publishes

\* Nobody has an address in the domain of the addresses that are made up for principals.
ASSUME ExternalAssumption ==
    /\ \A p \in Principals : p.email[3] # "sso"
    /\ {Attempts, StateTtl, PruneAge, JwksTtl, MaxKeys} \subseteq Nat
    /\ 0 < StateTtl /\ StateTtl <= PruneAge /\ 0 < MaxKeys

Settings == {"sso", "oauth2", "rules"}
Values(k) == CASE k = "sso" -> {"off", "on"}
               [] k = "oauth2" -> {"off", "on", "rbac"}
               [] OTHER -> {"none", "strict"}

\* The clocks of the states and keys run with the requests; a login of SSO takes no time.
InLogin == UNCHANGED <<workload, users, perms, sessions, grantVars, now, used, changed, broken>>
InState == InLogin /\ UNCHANGED raced

Fresh(f, life) == Keep(f, {s \in DOMAIN f : now - f[s] < life})
Goes(c, mem) == job' = [job EXCEPT ![c].plan = Rest(c), ![c].mem = mem]
Skips(c, step, mem) == job' = [job EXCEPT ![c].plan = SkipTo(c, step), ![c].mem = mem]

-----------------------------------------------------------------------------
(* The OAuth2 authorization.                                               *)

\* begin_authorization: the state is put in memory, where the expired ones are purged.
BeginAuthorization(c) ==
    /\ At(c, "begin")
    /\ IF external.settings["oauth2"] = "off" THEN Reply(c, 404) /\ external' = external /\ UNCHANGED used
       ELSE /\ external' = [external EXCEPT !.memory = Put(Fresh(@, StateTtl), NewId, now)]
            /\ TakesId /\ Goes(c, [id |-> NewId, at |-> now])
    /\ UNCHANGED <<workload, users, perms, sessions, grantVars, now, historyVars>>
\* Mutant: every row is pruned.
PrunesAll(c) ==
    /\ At(c, "prune") /\ external' = [external EXCEPT !.stored = EmptyMap]
    /\ Advance(c) /\ InState

PruneStates(c) ==
    /\ At(c, "prune")
    /\ external' = [external EXCEPT !.stored = Keep(@, {s \in DOMAIN @ : ~(@[s] < now - PruneAge)})]
    /\ Advance(c) /\ InState
PersistState(c) ==
    /\ At(c, "persist")
    /\ external' = [external EXCEPT !.stored = Put(@, job[c].mem.id, now),
                                    !.issued = Put(@, job[c].mem.id, job[c].mem.at)]
    /\ Reply(c, 303) /\ InState

\* The callback takes the state from memory, or loads its row.
StateOf(c) == <<"state", Arg(c).id>>
TakeState(c) ==
    /\ At(c, "take")
    /\ LET s == Arg(c).id
           live == Fresh(external.memory, StateTtl)
       IN IF external.settings["oauth2"] = "off" THEN Reply(c, 404) /\ external' = external
          ELSE /\ external' = [external EXCEPT !.memory = Drop(live, {s}),
                                               !.taken = IF s \in DOMAIN live THEN @ \cup {s} ELSE @]
               /\ IF s \notin DOMAIN live THEN Advance(c)
                  ELSE job' = [job EXCEPT ![c].plan = SkipTo(c, "exchange"), ![c].reads = {StateOf(c)},
                                          ![c].mem = [row |-> FALSE]]
    /\ InState
LoadState(c) ==
    /\ At(c, "load")
    /\ LET s == Arg(c).id
       IN IF s \notin DOMAIN external.stored THEN Reply(c, 400) /\ external' = external
          ELSE IF external.stored[s] < now - StateTtl
          THEN Skips(c, "forget", [row |-> TRUE, code |-> 400]) /\ external' = external
          ELSE /\ Relies(c, {StateOf(c)}, [row |-> TRUE])
               /\ external' = [external EXCEPT !.taken = @ \cup {s}]
    /\ Touch(c, {StateOf(c)}) /\ InLogin

\* The provider gives an identity token signed with its newest key, or rejects the code.
Exchange(c) ==
    /\ At(c, "exchange")
    /\ \/ /\ Goes(c, [code |-> 0, kid |-> external.newest])
          /\ external' = [external EXCEPT !.logins = Put(@, Arg(c).id,
                            1 + (IF Arg(c).id \in DOMAIN @ THEN @[Arg(c).id] ELSE 0))]
       \/ /\ external' = external
          /\ IF job[c].mem.row THEN Goes(c, [code |-> 500]) ELSE Reply(c, 500)
    /\ InState
\* Mutant: the row of the state is kept.
ForgetsNothing(c) ==
    /\ At(c, "forget") /\ external' = external
    /\ AdvanceOr(c, job[c].mem.code = 0, job[c].mem.code)
    /\ Touch(c, {StateOf(c)}) /\ InLogin

ForgetState(c) ==
    /\ At(c, "forget")
    /\ external' = [external EXCEPT !.stored = Drop(@, {Arg(c).id})]
    /\ AdvanceOr(c, job[c].mem.code = 0, job[c].mem.code)
    /\ Touch(c, {StateOf(c)}) /\ InLogin

\* The token is verified with the keys the provider publishes now.  (The settings looked up
\* before that are there: the endpoint replaces and disables them, it never removes them.)
VerifyToken(c) ==
    /\ At(c, "verifyToken") /\ AdvanceOr(c, job[c].mem.kid \in external.published, 401)
    /\ external' = external /\ InState

-----------------------------------------------------------------------------
(* The user of the principal.                                              *)

Who(c) == Arg(c).who
WhoName(c) == Name(Who(c).base, 0)
Denied(c) == Reply(c, IF job[c].op = "sso" THEN 403 ELSE 303)
RolesOf(x) == IF x \in DOMAIN external.roles THEN external.roles[x] ELSE {}
Subject(c) == IF Who(c).email # NoText THEN Who(c).email ELSE WhoName(c)
Account(row) == IF row.email # NoText THEN row.email ELSE row.name

\* With role based access, a principal that has no role is sent away.
CheckRoles(c) ==
    /\ At(c, "checkRoles")
    /\ LET on == external.settings["oauth2"] = "rbac"
           had == IF on THEN RolesOf(Subject(c)) ELSE {}
       IN IF on /\ Who(c).roles = {} /\ had = {} THEN Denied(c)
          ELSE job' = [job EXCEPT ![c].plan = Rest(c), ![c].arg = [Arg(c) EXCEPT !.rbac = on, !.had = had]]
    /\ external' = external /\ InState

\* A row is found by the verified address, then by the name; it has to be active.
Admit(c, u, step) ==
    IF users[u].active
    THEN job' = [job EXCEPT ![c].plan = SkipTo(c, step), ![c].mem = RowOf(u),
                            ![c].reads = @ \cup {<<"user", u>>}]
    ELSE Denied(c)
AfterUser(c) == IF job[c].op = "sso" THEN "createSession" ELSE "applyRoles"
ByEmail(who) == IF who.verified /\ who.email # NoText THEN WithEmail(who.email) ELSE {}
MatchEmail(c) ==
    /\ At(c, "matchEmail")
    /\ IF ByEmail(Who(c)) # {} THEN Admit(c, The(ByEmail(Who(c))), AfterUser(c))
       ELSE Relies(c, {<<"address", Who(c).email>>}, NoRow)
    /\ external' = external /\ InState
\* Mutant: names are not looked up.
ByNobody(who) == {}

ByName(who) == WithName(Name(who.base, 0))
MatchName(c) ==
    /\ At(c, "matchName")
    /\ IF ByName(Who(c)) # {} THEN Admit(c, The(ByName(Who(c))), AfterUser(c))
       ELSE IF ~external.create \/ (Who(c).email # NoText /\ ~Who(c).verified) THEN Denied(c)
       ELSE Relies(c, {<<"name", WhoName(c)>>}, [attempt |-> 0])
    /\ external' = external /\ InState

\* create_user: names are tried until one is free; a taken address is met again every time.
Candidate(who, n) ==
    [NewRow(Name(who.base, n), IF who.email # NoText THEN who.email ELSE <<who.base, n, "sso">>, "")
       EXCEPT !.origin = <<who.base, who.email>>]
Provision(c) ==
    /\ At(c, "provision")
    /\ LET row == Candidate(Who(c), job[c].mem.attempt)
       IN IF NameTaken(row.name, 0) \/ EmailTaken(row.email, 0)
          THEN /\ IF job[c].mem.attempt < Attempts THEN job' = [job EXCEPT ![c].mem.attempt = @ + 1]
                  ELSE Reply(c, 409)
               /\ users' = users /\ UNCHANGED <<used, raced>>
          ELSE /\ users' = Put(users, NewId, row) /\ TakesId
               /\ Relies(c, {<<"user", NewId>>}, Put(row, "id", NewId))
               /\ Touch(c, {<<"name", row.name>>, <<"address", row.email>>})
    /\ UNCHANGED <<workload, perms, sessions, grantVars, external, now, changed, broken>>

\* The mapped roles replace those the subject has, and the flags follow the roles.  What is read
\* of the old ones counts only where there are no mapped ones, and nothing is written then.
Effective(c) == IF Who(c).roles # {} THEN Who(c).roles ELSE Arg(c).had
ApplyRoles(c) ==
    /\ At(c, "applyRoles")
    /\ LET acc == Account(job[c].mem)
           had == IF Arg(c).had = {} /\ Arg(c).rbac THEN RolesOf(acc) ELSE Arg(c).had
       IN /\ external' = IF Who(c).roles # {} /\ external.settings["oauth2"] = "rbac"
                         THEN [external EXCEPT !.roles = Put(@, acc, Who(c).roles)] ELSE external
          /\ job' = [job EXCEPT ![c].plan = Rest(c), ![c].arg = [Arg(c) EXCEPT !.had = had]]
    /\ InState
SyncFlags(c) ==
    /\ At(c, "syncFlags")
    /\ LET u == job[c].mem.id
           admin == "admin" \in Effective(c)
           stale == Arg(c).rbac /\ Effective(c) # {} /\ u \in DOMAIN users
                    /\ (admin # job[c].mem.admin \/ job[c].mem.manager \/ job[c].mem.system)
       IN IF stale
          THEN /\ users' = [users EXCEPT ![u] = [@ EXCEPT !.admin = admin, !.manager = FALSE, !.system = FALSE]]
               /\ Touch(c, {<<"admins", 0>>}) /\ Changed({<<"user", u>>} \cup Demoted(u, admin))
          ELSE UNCHANGED <<users, raced, changed>>
    /\ Advance(c)
    /\ UNCHANGED <<workload, perms, sessions, grantVars, external, now, used, broken>>

\* What fails and is only logged: the row of the state stays, the roles or the flags do.
LoggedFailure(c) ==
    /\ At(c, "forget") \/ At(c, "applyRoles") \/ At(c, "syncFlags") \/ At(c, "ssoRoles")
    /\ used.faults < workload.faults /\ used' = [used EXCEPT !.faults = @ + 1]
    /\ broken' = broken \cup {StateOf(c)}
    /\ IF At(c, "forget") THEN AdvanceOr(c, job[c].mem.code = 0, job[c].mem.code)
       ELSE AdvanceOr(c, Rest(c) # <<>>, 303)
    /\ UNCHANGED <<workload, userVars, sessions, grantVars, external, now, changed, raced>>

-----------------------------------------------------------------------------
(* The SSO login, its keys and the settings.                               *)

\* Mutant: fetched keys are kept for ever.
KeysForever == external.jwks.keys # {}
\* A key that was fetched less than JwksTtl ago is used, an unknown one fetched again.
KeysLive == external.jwks.at + JwksTtl >= now
\* Mutant: a key missing in the cache is refused.
CachedKeyOnly(c) ==
    /\ At(c, "cachedKey")
    /\ IF external.settings["sso"] = "off" THEN Reply(c, 404)
       ELSE IF ~KeysLive \/ external.jwks.keys = {} THEN Advance(c)
       ELSE IF Arg(c).kid \in external.jwks.keys THEN Goto(c, SkipTo(c, "matchEmail")) ELSE Reply(c, 401)
    /\ external' = external /\ InState

CachedKey(c) ==
    /\ At(c, "cachedKey")
    /\ IF external.settings["sso"] = "off" THEN Reply(c, 404)
       ELSE IF KeysLive /\ Arg(c).kid \in external.jwks.keys THEN Goto(c, SkipTo(c, "matchEmail"))
       ELSE Advance(c)
    /\ external' = external /\ InState
FetchKeys(c) ==
    /\ At(c, "fetchKeys")
    /\ IF Arg(c).kid \in external.published THEN Goes(c, [keys |-> external.published]) ELSE Reply(c, 401)
    /\ external' = external /\ InState
StoreKeys(c) ==
    /\ At(c, "storeKeys")
    /\ external' = [external EXCEPT !.jwks = [keys |-> job[c].mem.keys, at |-> now]]
    /\ Advance(c) /\ InState
SsoRoles(c) ==
    /\ At(c, "ssoRoles")
    /\ external' = IF Who(c).roles # {} /\ external.settings["oauth2"] = "rbac"
                   THEN [external EXCEPT !.roles = Put(@, job[c].mem.name, Who(c).roles)] ELSE external
    /\ Reply(c, 303) /\ InState

\* A setting is changed in memory and then stored; new OAuth2 settings replace the service
\* and the role engine, with what they keep in memory.
SetSetting(c) ==
    /\ At(c, "setSetting")
    /\ LET k == Arg(c).key
       IN /\ external' = [external EXCEPT !.settings[k] = Arg(c).value,
                                          !.memory = IF k = "oauth2" THEN EmptyMap ELSE @,
                                          !.roles = IF k = "oauth2" THEN EmptyMap ELSE @]
          /\ Touch(c, {<<"setting", k>>}) /\ Relies(c, {<<"setting", k>>}, NoRow)
    /\ InLogin
\* Mutant: the rules for passwords are changed in memory only.
StoresLess(c) ==
    /\ At(c, "storeSetting")
    /\ external' = IF Arg(c).key = "rules" THEN external ELSE [external EXCEPT !.saved[Arg(c).key] = Arg(c).value]
    /\ Reply(c, 204) /\ InState

StoreSetting(c) ==
    /\ At(c, "storeSetting")
    /\ external' = [external EXCEPT !.saved[Arg(c).key] = Arg(c).value]
    /\ Reply(c, 204) /\ InState

-----------------------------------------------------------------------------
(* The provider and the server.                                            *)

\* The provider publishes a new key, with or without the ones it had.
KeysRotate ==
    /\ external.newest < MaxKeys /\ workload.ops \cap {"sso", "callback"} # {}
    /\ \E kept \in {{}, external.published} :
         external' = [external EXCEPT !.newest = @ + 1, !.published = kept \cup {external.newest + 1},
                        !.retired = [k \in DOMAIN @ \cup (external.published \ kept) |->
                                       IF k \in DOMAIN @ THEN @[k] ELSE now]]
    /\ UNCHANGED <<workload, userVars, sessions, grantVars, now, job, used, historyVars>>

\* The server stops: tables and session store stay, requests and caches do not.
Restart ==
    /\ used.faults < workload.faults /\ used' = [used EXCEPT !.faults = @ + 1]
    /\ broken' = broken \cup UNION {job[c].reads : c \in Clients}
    /\ job' = [c \in Clients |-> NoJob]
    /\ cache' = EmptyMap /\ anonymous' = EmptyMap
    /\ external' = [external EXCEPT !.memory = EmptyMap, !.roles = EmptyMap, !.settings = external.saved,
                                    !.jwks = [keys |-> {}, at |-> 0]]
    /\ UNCHANGED <<workload, userVars, sessions, tokens, resets, now, changed, raced>>

FindsUser == <<"matchEmail", "matchName", "provision">>
LoginRequest(c) ==
    \/ Starts(c, "authorize", <<"begin", "prune", "persist">>, Nobody, [id |-> 0])
    \/ \E s \in DOMAIN external.issued, p \in Principals :
         Starts(c, "callback",
                <<"take", "load", "exchange", "forget", "verifyToken", "checkRoles">> \o FindsUser
                  \o <<"applyRoles", "syncFlags", "createSession">>,
                Nobody, [id |-> s, who |-> p, had |-> {}, rbac |-> FALSE])
    \/ \E k \in 1 .. external.newest, p \in Principals :
         Starts(c, "sso",
                <<"cachedKey", "fetchKeys", "storeKeys">> \o FindsUser \o <<"createSession", "ssoRoles">>,
                Nobody, [id |-> 0, kid |-> k, who |-> p])
    \/ \E k \in Settings : \E x \in Values(k) :
         Starts(c, "settings", Authenticated \o <<"bySystem", "setSetting", "storeSetting">>,
                Session(1), [id |-> 0, key |-> k, value |-> x])

LoginStep(c) ==
    /\ ~Idle(c)
    /\ \/ BeginAuthorization(c) \/ PruneStates(c) \/ PersistState(c) \/ TakeState(c) \/ LoadState(c)
       \/ Exchange(c) \/ ForgetState(c) \/ VerifyToken(c) \/ CheckRoles(c) \/ MatchEmail(c)
       \/ MatchName(c) \/ Provision(c) \/ ApplyRoles(c) \/ SyncFlags(c) \/ LoggedFailure(c)
       \/ CachedKey(c) \/ FetchKeys(c) \/ StoreKeys(c) \/ SsoRoles(c) \/ SetSetting(c)
       \/ StoreSetting(c)

ExternalInit ==
    \E create \in (IF workload.ops \cap {"sso", "callback"} = {} THEN {FALSE} ELSE BOOLEAN),
       oauth \in (IF "callback" \in workload.ops THEN {"on", "rbac"} ELSE {"on"}) :
      LET s == [k \in Settings |-> CASE k = "sso" -> "on" [] k = "oauth2" -> oauth [] OTHER -> "none"]
      IN external = [newest |-> 1, published |-> {1}, retired |-> EmptyMap,
                     jwks |-> [keys |-> {}, at |-> 0], memory |-> EmptyMap, stored |-> EmptyMap,
                     roles |-> EmptyMap, settings |-> s, saved |-> s, create |-> create,
                     issued |-> EmptyMap, taken |-> {}, logins |-> EmptyMap]

-----------------------------------------------------------------------------
(* Properties.                                                             *)

\* A login that was begun can be completed while its state lives, over a restart and over a
\* change of the settings: the state is in memory or in the table.
StateUsable ==
    \A s \in DOMAIN external.issued \ external.taken :
      now < external.issued[s] + StateTtl =>
        \/ s \in DOMAIN Fresh(external.memory, StateTtl)
        \/ s \in DOMAIN external.stored /\ ~(external.stored[s] < now - StateTtl)

\* A state completes one login, unless two callbacks carry it at the same time or its row
\* could not be deleted.
OneLoginPerState ==
    \A s \in DOMAIN external.logins :
      external.logins[s] <= 1 \/ <<"state", s>> \in raced \cup broken

\* A principal that comes back gets the account it was given.  Two are made only when another
\* request took the name or the address while the account was being provisioned, or when the
\* account of a principal without an address was renamed: its fallback address stays taken,
\* and from then on every login makes another account.
Mislaid(origin) ==
    \/ <<"name", Name(origin[1], 0)>> \in raced
    \/ origin[2] # NoText /\ <<"address", origin[2]>> \in raced
    \/ origin[2] = NoText /\ <<"renamed", origin[1]>> \in DOMAIN changed
Provisioned(u) == users[u].origin # NoText
AccountPerPrincipal ==
    \A u, w \in DOMAIN users :
      u # w /\ Provisioned(u) /\ Provisioned(w) /\ users[u].origin[1] = users[w].origin[1]
        => Mislaid(users[u].origin) \/ Mislaid(users[w].origin)

\* A signing key the provider has retired is trusted for at most the lifetime of the cache.
Trusts(c) == At(c, "cachedKey") /\ job'[c].plan # <<>> /\ Head(job'[c].plan) = "matchEmail"
TrustsRecent ==
    \A c \in Clients : Trusts(c) =>
      \/ Arg(c).kid \in external.published
      \/ now <= external.retired[Arg(c).kid] + JwksTtl

\* A token signed with a published key is not refused because the cached keys are older.
AcceptsPublished ==
    \A c \in Clients :
      (At(c, "cachedKey") \/ At(c, "fetchKeys")) /\ Arg(c).kid \in external.published
        => job'[c].code # 401

\* Between requests the settings in force are those a restart would load, unless two updates
\* of one setting overlapped or one failed between memory and table.
SettingsPersisted ==
    Quiescent => \A k \in Settings : external.settings[k] = external.saved[k]
                                      \/ <<"setting", k>> \in raced \cup broken

-----------------------------------------------------------------------------
(* What the codes and the caches of the server promise together.           *)

\* A code handed out once does one thing: a reset token sets one password and an OAuth2 state
\* completes one login, and the state of a login that was begun is there when it is needed.
OneTimeCodes == ResetUsedOnce /\ StateUsable /\ OneLoginPerState

\* What is answered from a cache (tokens and their owners, the provider's keys) is what the
\* tables or the provider said a bounded time ago: an expired token is refused, rights that
\* were taken are gone after CacheTtl and a retired key after JwksTtl, and a published key is
\* not refused because the cache is older.
CachesInTime == PassesValid /\ PassesRecent /\ TrustsRecent /\ AcceptsPublished
AuthCachesBounded == [][CachesInTime]_vars

-----------------------------------------------------------------------------
Init == AccountsInit /\ ExternalInit
Next ==
    \/ \E c \in Clients : AccountsStep(c) \/ LoginStep(c) \/ AccountsRequest(c) \/ (Free(c) /\ LoginRequest(c))
    \/ Ticks \/ KeysRotate \/ Restart
Spec == Init /\ [][Next]_vars
=============================================================================
