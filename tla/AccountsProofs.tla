--------------------------- MODULE AccountsProofs ---------------------------
(***************************************************************************)
(* Proofs about Accounts and ExternalLogin: an administrator remains,      *)
(* sessions follow their users, settings persist, a code handed out once   *)
(* does one thing, a principal keeps one account and what the caches       *)
(* answer is old for a bounded time, for any number of requests at a time, *)
(* any mix of operations and any faults.                                   *)
(*                                                                         *)
(* A request relies on what it has read; a write that overtakes it marks   *)
(* the resource as raced.  Each invariant says, for the step a request is  *)
(* about to take, what it may assume of the tables unless it was           *)
(* overtaken.                                                              *)
(***************************************************************************)
EXTENDS ExternalLogin, TLAPS, SequenceTheorems

------------------------------------------------------------------------------
(* Plans.  The order of the steps matters where one relies on another.         *)

\* The steps of all requests.
Steps == {"identify", "caller", "bySession", "onlySession", "byManager", "bySystem", "look",
          "verify", "createSession", "deleteSession", "listSessions", "removeSessions",
          "cleanList", "cleanTokens", "findUser", "countAdmins", "setActive", "deleteUser",
          "answer", "asCaller", "checkName", "checkEmail", "insertUser", "setEmail", "setName",
          "reread", "setFlags", "setPermission", "setPassword", "checkPassword", "findEmail",
          "createReset", "findReset", "resetUser", "setUsed", "checkReset", "insertToken",
          "insertScopes", "insertRepositories", "findToken", "deleteToken", "anonymous",
          "verifyBasic", "cachedToken", "readToken", "readOwner", "cacheToken", "rights",
          "tokenRights", "dockerToken", "begin", "prune", "persist", "take", "load", "exchange",
          "forget", "verifyToken", "checkRoles", "matchEmail", "matchName", "provision",
          "applyRoles", "syncFlags", "ssoRoles", "cachedKey", "fetchKeys", "storeKeys",
          "setSetting", "storeSetting"}

\* Steps that only some requests take.
Belongs(op, x) ==
    /\ x = "setActive" \/ x = "answer" => op = "status"
    /\ x = "deleteUser" => op = "deleteUser"
    /\ x = "countAdmins" \/ x = "listSessions" => op \in {"status", "deleteUser"}
    /\ x = "removeSessions" => op \in {"status", "deleteUser", "cleaner"}
    /\ x = "cleanList" => op = "cleaner"
    /\ x = "createSession" => op \in {"login", "callback", "sso"}
    /\ x = "setSetting" \/ x = "storeSetting" => op = "settings"
    /\ x \in {"findReset", "resetUser", "setUsed"} => op = "reset"
    /\ x \in {"take", "load", "exchange", "forget", "checkRoles", "applyRoles", "syncFlags"}
         => op = "callback"
    /\ x \in {"begin", "prune", "persist"} => op = "authorize"
    /\ x = "asCaller" => op = "changeEmail"
    /\ x \in {"matchEmail", "matchName", "provision"} => op \in {"callback", "sso"}
    /\ x = "insertUser" => op = "createUser"
    /\ x = "setEmail" => op \in {"updateUser", "changeEmail"}
    /\ x \in {"cachedKey", "fetchKeys", "storeKeys"} => op = "sso"
    /\ x \in {"anonymous", "verifyBasic", "cachedToken", "readToken", "readOwner", "cacheToken",
              "rights", "tokenRights", "dockerToken"} => op \in {"repository", "dockerToken"}

\* Step y can come directly after step x.
Follows(op, active, x, y) ==
    /\ y = "countAdmins" => x = "findUser"
    /\ y = "setActive" => active \/ x = "countAdmins"
    /\ x = "setActive" => active \/ y = "listSessions"
    /\ y = "listSessions" => x = (IF op = "status" THEN "setActive" ELSE "countAdmins")
    /\ y = "listSessions" /\ op = "status" => ~active
    /\ x = "listSessions" => y = "removeSessions"
    /\ y = "removeSessions" => x \in {"listSessions", "cleanList"}
    /\ y = "deleteUser" \/ y = "answer" => x = "removeSessions"
    /\ y = "createSession" => x \in {"verify", "provision", "syncFlags"}
    /\ y = "syncFlags" => x = "applyRoles"
    /\ y = "applyRoles" => x = "provision"
    /\ x = "setSetting" <=> y = "storeSetting"
    /\ y = "resetUser" => x = "findReset"
    /\ y = "setPassword" => x = "resetUser" \/ op # "reset"
    /\ x = "setPassword" => y = "setUsed"
    /\ y = "setUsed" => x = "setPassword"
    /\ y = "load" => x = "take"
    /\ y = "exchange" => x = "load"
    /\ x = "exchange" <=> y = "forget"
    /\ y = "persist" => x = "prune"
    /\ y = "prune" => x = "begin"
    /\ x = "rights" => y = "tokenRights"
    /\ y = "matchName" => x = "matchEmail"
    /\ y = "provision" => x = "matchName"
    /\ x = "cachedKey" <=> y = "fetchKeys"
    /\ x = "fetchKeys" <=> y = "storeKeys"
    /\ y = "cacheToken" => x = "readOwner"
    /\ y = "tokenRights" => x = "rights"

\* Where a step may skip to: the target is ahead of it.
Target(op, x) ==
    CASE x \in {"anonymous", "cachedToken", "verifyBasic"} -> "rights"
      [] x = "take" -> "exchange"
      [] x = "load" -> "forget"
      [] x = "cachedKey" -> "matchEmail"
      [] x \in {"matchEmail", "matchName"} -> IF op = "sso" THEN "createSession" ELSE "applyRoles"
      [] OTHER -> IF op \in {"repository", "dockerToken"} THEN "rights" ELSE "identify"
Skipping == {"anonymous", "cachedToken", "verifyBasic", "take", "load", "cachedKey", "matchEmail",
             "matchName"}
MaySkip(op, x) == x \in Skipping \/ (x = "identify" /\ op \in {"repository", "dockerToken"})
\* A number of steps that always come after this one.
Ahead(op, active, x) ==
    CASE x \in {"listSessions", "rights"} -> 2
      [] x = "setActive" /\ ~active -> 1
      [] x = "setPassword" /\ op = "reset" -> 1
      [] x \in {"setSetting", "exchange", "tokenRights"} -> 1
      [] OTHER -> 0

WellPlanned(op, active, p) ==
    /\ p \in Seq(Steps)
    /\ \A i \in 1 .. Len(p) :
         /\ Belongs(op, p[i])
         /\ i + Ahead(op, active, p[i]) <= Len(p)
         /\ MaySkip(op, p[i]) => \E k \in i + 1 .. Len(p) : p[k] = Target(op, p[i])
         /\ i < Len(p) => Follows(op, active, p[i], p[i + 1])

\* The status a deactivation sets is FALSE; of other requests the field is not looked at.
Active(j) == j.op = "status" => j.arg.active
Planned(j) == WellPlanned(j.op, Active(j), j.plan)

\* With what a request may begin.
First == {"verify", "identify", "cleanList", "findEmail", "checkReset", "findReset", "onlySession",
          "begin", "take", "cachedKey", "verifyBasic", "anonymous", "rights"}

Fields == {"op", "plan", "cred", "arg", "caller", "token", "mem", "reads", "code"}
\* What a request that signs somebody in, or sets an address, is about.
Fits(op, arg) ==
    /\ op \in {"callback", "sso"} => arg.who \in Principals
    /\ op \in {"createUser", "updateUser", "changeEmail"} => arg.email[3] # "sso"
\* What a request is when it arrives.
Arrives(j) ==
    /\ DOMAIN j = Fields /\ Planned(j) /\ (j.plan # <<>> => Head(j.plan) \in First)
    /\ j.code = 0 /\ j.caller = NoRow /\ j.token = NoRow
    /\ j.op = "callback" => j.arg.id \in DOMAIN external.issued
    /\ j.op = "settings" => j.arg.key \in Settings
    /\ Fits(j.op, j.arg)
JobShape ==
    /\ job = [c \in Clients |-> job[c]]
    /\ \A c \in Clients : DOMAIN job[c] = Fields /\ Planned(job[c])

\* The rows have the columns the invariants look at, and ids are not given out twice.
Shape ==
    /\ JobShape
    /\ DOMAIN used = {"requests", "faults", "ids"} /\ used.ids \in Nat
    /\ now \in Nat
    /\ \A u \in DOMAIN users :
         u \in Nat /\ u <= used.ids /\ {"admin", "active"} \subseteq DOMAIN users[u]
    /\ DOMAIN external = {"newest", "published", "retired", "jwks", "memory", "stored", "roles",
                          "settings", "saved", "create", "issued", "taken", "logins"}

------------------------------------------------------------------------------
(* The inductive invariant of the administrators.                             *)

Admins == <<"admins", 0>>
Calm == Admins \notin raced /\ \A x \in DOMAIN changed : x[1] # "demoted"
SomeAdmin == \E u \in DOMAIN users : users[u].admin /\ users[u].active

\* A request that will deactivate or delete a user and has counted the others.
Judged(c) == \/ job[c].op = "status" /\ ~job[c].arg.active /\ At(c, "setActive")
             \/ /\ job[c].op = "deleteUser"
                /\ At(c, "listSessions") \/ At(c, "removeSessions") \/ At(c, "deleteUser")
Counting(c) == At(c, "countAdmins") \/ Judged(c)

\* Somebody else is an administrator, or the user is none.
Spare(u) == \/ \E a \in DOMAIN users : a # u /\ users[a].admin /\ users[a].active
            \/ ~(u \in DOMAIN users /\ users[u].admin)
\* What the request has read and counted holds, unless it was overtaken.
CountsWell(c, u) ==
    /\ At(c, "countAdmins") /\ u \in DOMAIN users /\ users[u].admin => job[c].mem.admin
    /\ Judged(c) => Spare(u)
AdminInv == Calm => SomeAdmin /\ \A c \in Clients : \A u : Arg(c).id = u => CountsWell(c, u)

------------------------------------------------------------------------------
(* The inductive invariant of the sessions.                                   *)

Gone(u) == ~(u \in DOMAIN users /\ users[u].active)
Excused(u) == <<"user", u>> \in raced \cup broken

\* A request that is about to remove session s of the user it has deactivated.
Ending(c, s) == /\ job[c].op = "status" /\ Arg(c).id = sessions[s].user
                /\ At(c, "listSessions") \/ (At(c, "removeSessions") /\ s \in job[c].mem.found)
Clearing(c) == /\ job[c].op \in {"status", "deleteUser"}
               /\ At(c, "listSessions") \/ At(c, "removeSessions") \/ At(c, "deleteUser")
SigningIn(c) == At(c, "createSession") \/ At(c, "applyRoles") \/ At(c, "syncFlags")
RelyOn(c) ==
    /\ Counting(c) => Admins \in job[c].reads
    /\ Counting(c) \/ Clearing(c) => <<"user", Arg(c).id>> \in job[c].reads
    /\ SigningIn(c) => <<"user", job[c].mem.id>> \in job[c].reads
Relying == \A c \in Clients : RelyOn(c)

\* A request that deletes a user has listed, and then removed, all of its sessions.
Clears(c, u) ==
    job[c].op = "deleteUser" /\ Arg(c).id = u /\ ~Excused(u) =>
      /\ At(c, "removeSessions") => SessionsOf(u) \subseteq job[c].mem.found
      /\ At(c, "deleteUser") => SessionsOf(u) = {}
Admitted(c, u) == SigningIn(c) /\ job[c].mem.id = u => ~Gone(u) \/ Excused(u)
Followed(s, u) == ~Gone(u) \/ Excused(u) \/ \E c \in Clients : Ending(c, s)
SessionInv ==
    /\ \A s \in DOMAIN sessions : Followed(s, sessions[s].user)
    /\ \A c \in Clients : \A u : Clears(c, u) /\ Admitted(c, u)

------------------------------------------------------------------------------
(* The inductive invariant of the settings.                                   *)

Setting(c) == <<"setting", Arg(c).key>>
Storing(c, k) == At(c, "storeSetting") /\ Arg(c).key = k
SettingInv ==
    /\ DOMAIN external.settings = Settings /\ DOMAIN external.saved = Settings
    /\ \A c \in Clients : job[c].op = "settings" /\ ~Idle(c) => Arg(c).key \in Settings
    /\ \A c \in Clients : At(c, "storeSetting") =>
         /\ Setting(c) \in job[c].reads
         /\ external.settings[Arg(c).key] = Arg(c).value \/ Setting(c) \in raced \cup broken
    /\ \A k \in Settings :
         \/ external.settings[k] = external.saved[k] \/ <<"setting", k>> \in raced \cup broken
         \/ \E c \in Clients : Storing(c, k)

------------------------------------------------------------------------------
(* The inductive invariant of the password resets.                            *)

ResetOf(c) == <<"reset", Arg(c).id>>
Resetting(c) == At(c, "resetUser") \/ (At(c, "setPassword") /\ job[c].op = "reset")
Marking(c, r) == At(c, "setUsed") /\ Arg(c).id = r
ResetInv ==
    /\ \A r \in DOMAIN resets : {"uses", "state"} \subseteq DOMAIN resets[r]
    /\ \A c \in Clients : Resetting(c) \/ At(c, "setUsed") => ResetOf(c) \in job[c].reads
    /\ \A c \in Clients : Resetting(c) /\ Arg(c).id \in DOMAIN resets =>
         \/ resets[Arg(c).id].uses = 0 \/ ResetOf(c) \in raced \cup broken
         \/ \E d \in Clients : Marking(d, Arg(c).id)
    /\ \A r \in DOMAIN resets :
         \/ resets[r].uses = 0 \/ <<"reset", r>> \in raced \cup broken
         \/ resets[r].uses = 1 /\ (resets[r].state = "Used" \/ \E c \in Clients : Marking(c, r))

------------------------------------------------------------------------------
(* The inductive invariant of the login states.                               *)

Spoilt(s) == <<"state", s>> \in raced \cup broken
Uses(c) == At(c, "load") \/ At(c, "exchange") \/ At(c, "forget")
Holds(c, s) == /\ At(c, "exchange") \/ At(c, "forget")
               /\ Arg(c).id = s /\ <<"state", s>> \in job[c].reads
Issuing(c) == At(c, "prune") \/ At(c, "persist")

\* The ids of states, in memory before they are in the table.
StateIds ==
    /\ \A s \in DOMAIN external.memory \cup DOMAIN external.issued : s \in Nat /\ s <= used.ids
    /\ DOMAIN external.logins \subseteq DOMAIN external.issued
    /\ \A c \in Clients :
         /\ job[c].op = "callback" /\ ~Idle(c) => Arg(c).id \in DOMAIN external.issued
         /\ Issuing(c) => /\ job[c].mem.id \in Nat /\ job[c].mem.id <= used.ids
                          /\ job[c].mem.id \notin DOMAIN external.issued
                          /\ \A d \in Clients \ {c} : Issuing(d) => job[d].mem.id # job[c].mem.id
OneLogin ==
    /\ \A s \in DOMAIN external.memory : s \notin DOMAIN external.logins
    /\ \A c \in Clients : Uses(c) => Arg(c).id \notin DOMAIN external.memory
    /\ \A c \in Clients : At(c, "exchange") =>
         /\ StateOf(c) \in job[c].reads
         /\ Arg(c).id \notin DOMAIN external.logins \/ Spoilt(Arg(c).id)
    /\ \A c, d \in Clients : c # d /\ Holds(c, Arg(d).id) /\ Holds(d, Arg(d).id) => Spoilt(Arg(d).id)
    /\ \A s \in DOMAIN external.logins :
         \/ Spoilt(s)
         \/ external.logins[s] = 1 /\ (s \notin DOMAIN external.stored \/ \E c \in Clients : Holds(c, s))

\* A state nobody has taken is in the table for as long as it lives.
Over(s) == external.issued[s] + StateTtl <= now
StoredInv ==
    /\ \A s \in DOMAIN external.issued : external.issued[s] \in Nat
    /\ \A s \in DOMAIN external.stored : external.stored[s] \in Nat
    /\ \A s \in DOMAIN external.issued \ external.taken :
         Over(s) \/ (s \in DOMAIN external.stored /\ external.issued[s] <= external.stored[s])
    /\ \A c \in Clients :
         /\ Issuing(c) => job[c].mem.at \in Nat /\ job[c].mem.at <= now
         /\ At(c, "exchange") \/ At(c, "forget") => Arg(c).id \in external.taken \/ Over(Arg(c).id)
StateInv == StateIds /\ OneLogin /\ StoredInv

------------------------------------------------------------------------------
(* The inductive invariant of the accounts of principals.                     *)

NameOf(c) == <<"name", WhoName(c)>>
AddressOf(c) == <<"address", Who(c).email>>
Origin(c) == <<Who(c).base, Who(c).email>>

\* Whoever has the address that is given to a name first has the name, until it is renamed.
Fallback(u, b) ==
    users[u].email = <<b, 0, "sso">> =>
      \/ <<"renamed", b>> \in DOMAIN changed
      \/ users[u].name = Name(b, 0) /\ users[u].origin = <<b, NoText>>
\* Names are unique, and an account that was provisioned has the name of its principal.
RowsInv ==
    /\ \A u \in DOMAIN users : u # 0 /\ {"name", "email", "origin"} \subseteq DOMAIN users[u]
    /\ \A u, w \in DOMAIN users : u # w => users[u].name # users[w].name
    /\ \A u \in DOMAIN users : Provisioned(u) =>
         users[u].name = Name(users[u].origin[1], 0) \/ Mislaid(users[u].origin)
    /\ \A u \in DOMAIN users : Fallback(u, users[u].email[1])

\* A request that looks for the name has found nobody with the verified address, and one that
\* makes an account neither the name nor the address, unless it was overtaken.
Seeks(c) ==
    At(c, "matchName") /\ Who(c).verified /\ Who(c).email # NoText =>
      AddressOf(c) \in job[c].reads /\ (AddressOf(c) \in raced \/ WithEmail(Who(c).email) = {})
Vacant(who) == \A u \in DOMAIN users : /\ users[u].name # Candidate(who, 0).name
                                       /\ users[u].email # Candidate(who, 0).email
Makes(c) ==
    At(c, "provision") =>
      /\ NameOf(c) \in job[c].reads
      /\ Who(c).email # NoText => AddressOf(c) \in job[c].reads
      /\ Mislaid(Origin(c)) \/ (job[c].mem.attempt = 0 /\ Vacant(Who(c)))
PrincipalInv ==
    /\ RowsInv
    /\ \A c \in Clients : (~Idle(c) => Fits(job[c].op, Arg(c))) /\ Seeks(c) /\ Makes(c)

------------------------------------------------------------------------------
(* The inductive invariant of the caches.                                     *)

\* A request that is still running has not been answered.
Unanswered == \A c \in Clients : ~Idle(c) => job[c].code = 0

\* At time t the provider had not retired the key yet.
InUse(k, t) ==
    \/ k \in external.published
    \/ k \in DOMAIN external.retired /\ t <= external.retired[k]
KeysInv ==
    /\ external.newest \in Nat /\ external.published \subseteq 1 .. external.newest
    /\ DOMAIN external.retired \subseteq 1 .. external.newest
    /\ external.published \cap DOMAIN external.retired = {}
    /\ \A k \in DOMAIN external.retired : external.retired[k] \in Nat
    /\ external.jwks.at \in Nat /\ external.jwks.at <= now
    /\ \A k \in external.jwks.keys : InUse(k, external.jwks.at)
    /\ \A c \in Clients : At(c, "storeKeys") => \A k \in job[c].mem.keys : InUse(k, now)

\* A request of a repository, during which the clock stands still.
Serving(c) == ~Idle(c) /\ job[c].op \in {"repository", "dockerToken"}
\* A copy of a token has the expiry of the token, and no later token will have its id.
Copied(token) ==
    /\ token.id \in Nat /\ token.id <= used.ids
    /\ token.id \in DOMAIN tokens => tokens[token.id].expires = token.expires
TokensInv ==
    /\ \A t \in DOMAIN tokens : t \in Nat /\ 0 < t /\ t <= used.ids /\ "expires" \in DOMAIN tokens[t]
    /\ \A t \in DOMAIN cache : Copied(cache[t].token)
    /\ \A c \in Clients : Serving(c) =>
         Copied(job[c].token) /\ (job[c].token.id # 0 => now < job[c].token.expires)

\* A copy of a row has the rights of the user, or these have changed so lately that the copy
\* may be used until t.
RightsColumns == {"admin", "system", "defaults"}
Current(row) ==
    /\ row.id \in DOMAIN users /\ row.admin = users[row.id].admin
    /\ row.system = users[row.id].system /\ row.defaults = users[row.id].defaults
Told(u, t) == <<"user", u>> \in DOMAIN changed /\ t <= changed[<<"user", u>>] + CacheTtl
Fair(row, t) == row.id \in Nat /\ row.id <= used.ids /\ (Current(row) \/ Told(row.id, t))
\* What a request knows of its caller.
Judges(c) ==
    /\ Serving(c) /\ job[c].caller # NoRow => Fair(job[c].caller, now + 1)
    /\ At(c, "cacheToken") => Fair(job[c].caller, now + CacheTtl)
    /\ At(c, "tokenRights") => /\ job[c].caller.id \in Nat /\ job[c].caller.id <= used.ids
                               /\ RightsHeld(job[c].caller, Arg(c).repo, Arg(c).action)
RightsInv ==
    /\ \A u \in DOMAIN users : RightsColumns \subseteq DOMAIN users[u]
    /\ \A x \in DOMAIN changed : changed[x] \in Nat
    /\ \A t \in DOMAIN cache :
         /\ cache[t].until \in Nat /\ cache[t].until <= now + CacheTtl
         /\ Fair(cache[t].owner, cache[t].until)
    /\ \A c \in Clients : Judges(c)

------------------------------------------------------------------------------
(* Plans.                                                                      *)

\* What is left of a plan: its last steps, the first n of them done.
Suffix(q, p, n) ==
    /\ q \in Seq(Steps) /\ n \in 0 .. Len(p) /\ Len(q) = Len(p) - n
    /\ \A i \in 1 .. Len(q) : q[i] = p[i + n]

\* What is left of a plan is a plan.
LEMMA SuffixPlanned ==
    ASSUME NEW op, NEW a, NEW p, NEW q, NEW n, WellPlanned(op, a, p), Suffix(q, p, n)
    PROVE  WellPlanned(op, a, q)
<1>1. p \in Seq(Steps) /\ q \in Seq(Steps) /\ Len(p) \in Nat /\ Len(q) \in Nat /\ n \in Nat
  BY DEF WellPlanned, Suffix
<1>2. ASSUME NEW i \in 1 .. Len(q)
      PROVE  /\ i + n \in 1 .. Len(p) /\ q[i] = p[i + n]
             /\ i < Len(q) => q[i + 1] = p[(i + n) + 1] /\ i + n < Len(p)
  <2>1. i + n \in 1 .. Len(p) /\ q[i] = p[i + n]
    BY <1>1 DEF Suffix
  <2>2. ASSUME i < Len(q)
        PROVE  q[i + 1] = p[(i + n) + 1] /\ i + n < Len(p)
    <3>1. i + 1 \in 1 .. Len(q) /\ (i + 1) + n = (i + n) + 1 /\ i + n < Len(p)
      BY <1>1, <2>2 DEF Suffix
    <3>2. q[i + 1] = p[(i + 1) + n]
      BY <3>1 DEF Suffix
    <3> QED BY <3>1, <3>2
  <2> QED BY <2>1, <2>2
<1>3. ASSUME NEW i \in 1 .. Len(q), MaySkip(op, q[i])
      PROVE  \E k \in i + 1 .. Len(q) : q[k] = Target(op, q[i])
  <2>1. PICK k \in (i + n) + 1 .. Len(p) : p[k] = Target(op, p[i + n])
    BY <1>2, <1>3 DEF WellPlanned
  <2>2. k - n \in i + 1 .. Len(q) /\ q[k - n] = p[k]
    BY <1>1, <2>1 DEF Suffix
  <2> QED BY <2>1, <2>2, <1>2
<1>4. ASSUME NEW i \in 1 .. Len(q)
      PROVE  Belongs(op, q[i]) /\ i + Ahead(op, a, q[i]) <= Len(q)
  <2>1. Belongs(op, p[i + n]) /\ (i + n) + Ahead(op, a, p[i + n]) <= Len(p)
    BY <1>2 DEF WellPlanned
  <2>2. Ahead(op, a, p[i + n]) \in Nat
    BY DEF Ahead
  <2> QED BY <1>1, <1>2, <2>1, <2>2 DEF Suffix
<1>5. ASSUME NEW i \in 1 .. Len(q), i < Len(q)
      PROVE  Follows(op, a, q[i], q[i + 1])
  BY <1>2, <1>5 DEF WellPlanned
<1> QED BY <1>1, <1>3, <1>4, <1>5 DEF WellPlanned

\* The rest of a plan, and what is left when it skips to a step that is ahead.
LEMMA RestSuffix ==
    ASSUME NEW p \in Seq(Steps), p # <<>>
    PROVE  /\ Len(p) \in Nat /\ Len(p) >= 1 /\ Head(p) = p[1] /\ Head(p) \in Steps
           /\ Suffix(Tail(p), p, 1)
           /\ Len(p) >= 2 => Tail(p) # <<>> /\ Head(Tail(p)) = p[2] /\ Suffix(Tail(Tail(p)), p, 2)
           /\ Len(p) >= 3 => Head(Tail(Tail(p))) = p[3]
<1>1. /\ Len(p) \in Nat /\ Len(p) >= 1 /\ Head(p) = p[1] /\ Head(p) \in Steps
      /\ Tail(p) \in Seq(Steps) /\ Len(Tail(p)) = Len(p) - 1
      /\ \A i \in 1 .. Len(Tail(p)) : Tail(p)[i] = p[i + 1]
  BY HeadTailProperties, EmptySeq
<1>2. Suffix(Tail(p), p, 1)
  BY <1>1 DEF Suffix
<1>3. ASSUME Len(p) >= 2
      PROVE  /\ Tail(p) # <<>> /\ Head(Tail(p)) = p[2] /\ Suffix(Tail(Tail(p)), p, 2)
             /\ Len(p) >= 3 => Head(Tail(Tail(p))) = p[3]
  <2>1. Tail(p) # <<>> /\ Head(Tail(p)) = p[2]
    BY <1>1, <1>3
  <2>2. /\ Tail(Tail(p)) \in Seq(Steps) /\ Len(Tail(Tail(p))) = Len(Tail(p)) - 1
        /\ \A i \in 1 .. Len(Tail(Tail(p))) : Tail(Tail(p))[i] = Tail(p)[i + 1]
    BY <1>1, <2>1, HeadTailProperties
  <2>3. Suffix(Tail(Tail(p)), p, 2)
    BY <1>1, <1>3, <2>2 DEF Suffix
  <2> QED BY <1>1, <2>1, <2>2, <2>3
<1> QED BY <1>1, <1>2, <1>3

\* Skipping to a step that is ahead leaves the end of the plan that begins with it.
LEMMA SkipSuffix ==
    ASSUME NEW p \in Seq(Steps), NEW x, \E k \in 2 .. Len(p) : p[k] = x
    PROVE  LET i == CHOOSE i \in DOMAIN p : p[i] = x
               q == SubSeq(p, i, Len(p))
           IN q # <<>> /\ Head(q) = x /\ \E n \in Nat : Suffix(q, p, n)
<1> DEFINE i == CHOOSE i \in DOMAIN p : p[i] = x
           q == SubSeq(p, i, Len(p))
<1>1. i \in 1 .. Len(p) /\ p[i] = x /\ Len(p) \in Nat
  <2>1. DOMAIN p = 1 .. Len(p) /\ Len(p) \in Nat
    OBVIOUS
  <2>2. \E k \in DOMAIN p : p[k] = x
    BY <2>1
  <2> QED BY <2>1, <2>2
<1> HIDE DEF i
<1>2. \A j \in i .. Len(p) : p[j] \in Steps
  BY <1>1
<1>3. /\ q \in Seq(Steps) /\ Len(q) = Len(p) - i + 1
      /\ \A j \in 1 .. Len(p) - i + 1 : q[j] = p[i + j - 1]
  BY <1>1, <1>2, SubSeqProperties
<1> HIDE DEF q
<1>4. q # <<>> /\ Head(q) = x
  <2>1. Len(q) >= 1 /\ q[1] = p[i]
    BY <1>1, <1>3
  <2> QED BY <1>1, <1>3, <2>1
<1>5. Suffix(q, p, i - 1)
  BY <1>1, <1>3 DEF Suffix
<1>6. \E n \in Nat : Suffix(q, p, n)
  <2>1. i - 1 \in Nat
    BY <1>1
  <2> QED BY <1>5, <2>1
<1> QED BY <1>4, <1>6 DEF q, i

------------------------------------------------------------------------------
(* The requests.                                                               *)

\* Steps that may come first: what they skip to is among them or in the steps that come after.
Prefixes(op, a, p, q) ==
    /\ p \in Seq(Steps) /\ Len(p) >= 1 /\ Follows(op, a, p[Len(p)], q[1])
    /\ \A i \in 1 .. Len(p) :
         /\ Belongs(op, p[i]) /\ Ahead(op, a, p[i]) \in {0, 1}
         /\ MaySkip(op, p[i]) => \/ \E k \in i + 1 .. Len(p) : p[k] = Target(op, p[i])
                                 \/ \E k \in 1 .. Len(q) : q[k] = Target(op, p[i])
         /\ i < Len(p) => Follows(op, a, p[i], p[i + 1])

\* A well made plan stays so behind such steps.
LEMMA JoinPlanned ==
    ASSUME NEW op, NEW a, NEW p, NEW q, WellPlanned(op, a, q), q # <<>>, Prefixes(op, a, p, q)
    PROVE  WellPlanned(op, a, p \o q) /\ p \o q # <<>> /\ Head(p \o q) = p[1]
<1> DEFINE r == p \o q
           n == Len(p)
<1>1. q \in Seq(Steps) /\ Len(q) \in Nat /\ Len(q) >= 1 /\ p \in Seq(Steps) /\ n \in Nat /\ n >= 1
  BY EmptySeq, RestSuffix DEF WellPlanned, Prefixes
<1>2. /\ r \in Seq(Steps) /\ Len(r) = n + Len(q)
      /\ \A i \in 1 .. n + Len(q) : r[i] = IF i <= n THEN p[i] ELSE q[i - n]
  BY <1>1, ConcatProperties
<1> HIDE DEF r
<1>3. \A i \in 1 .. n : r[i] = p[i]
  <2> TAKE i \in 1 .. n
  <2>1. i \in 1 .. n + Len(q) /\ i <= n
    BY <1>1
  <2> QED BY <1>2, <2>1
<1>4. \A i \in 1 .. Len(q) : i + n \in 1 .. Len(r) /\ r[i + n] = q[i]
  <2> TAKE i \in 1 .. Len(q)
  <2>1. i + n \in 1 .. n + Len(q) /\ ~(i + n <= n) /\ (i + n) - n = i
    BY <1>1
  <2> QED BY <1>2, <2>1
<1> HIDE DEF n
<1>5. ASSUME NEW i \in 1 .. Len(q)
      PROVE  /\ Belongs(op, r[i + n]) /\ (i + n) + Ahead(op, a, r[i + n]) <= Len(r)
             /\ i + n < Len(r) => Follows(op, a, r[i + n], r[(i + n) + 1])
             /\ MaySkip(op, r[i + n]) => \E k \in (i + n) + 1 .. Len(r) : r[k] = Target(op, r[i + n])
  <2>1. r[i + n] = q[i]
    BY <1>4
  <2>2. Belongs(op, q[i]) /\ i + Ahead(op, a, q[i]) <= Len(q) /\ Ahead(op, a, q[i]) \in Nat
    BY DEF WellPlanned, Ahead
  <2>3. ASSUME i + n < Len(r) PROVE Follows(op, a, r[i + n], r[(i + n) + 1])
    <3>1. i + 1 \in 1 .. Len(q) /\ (i + 1) + n = (i + n) + 1 /\ i < Len(q)
      <4>1. Len(r) = n + Len(q)
        BY <1>2
      <4> QED BY <1>1, <2>3, <4>1
    <3>2. r[(i + n) + 1] = q[i + 1]
      BY <1>4, <3>1
    <3> QED BY <2>1, <3>1, <3>2 DEF WellPlanned
  <2>4. ASSUME MaySkip(op, r[i + n]) PROVE \E k \in (i + n) + 1 .. Len(r) : r[k] = Target(op, r[i + n])
    <3>1. PICK k \in i + 1 .. Len(q) : q[k] = Target(op, q[i])
      BY <2>1, <2>4 DEF WellPlanned
    <3>2. k + n \in (i + n) + 1 .. Len(r) /\ k \in 1 .. Len(q)
      BY <1>1, <1>2
    <3>3. r[k + n] = q[k]
      BY <1>4, <3>2
    <3> QED BY <2>1, <3>1, <3>2, <3>3
  <2> QED BY <1>1, <1>2, <2>1, <2>2, <2>3, <2>4
<1>6. ASSUME NEW i \in 1 .. n
      PROVE  /\ Belongs(op, r[i]) /\ i + Ahead(op, a, r[i]) <= Len(r)
             /\ Follows(op, a, r[i], r[i + 1])
             /\ MaySkip(op, r[i]) => \E k \in i + 1 .. Len(r) : r[k] = Target(op, r[i])
  <2>1. r[i] = p[i] /\ Belongs(op, p[i]) /\ Ahead(op, a, p[i]) \in {0, 1}
    BY <1>3 DEF Prefixes, n
  <2>2. Follows(op, a, r[i], r[i + 1])
    <3>1. CASE i < n
      <4>1. i + 1 \in 1 .. n
        BY <1>1, <3>1
      <4> QED BY <1>3, <2>1, <3>1, <4>1 DEF Prefixes, n
    <3>2. CASE i = n
      <4>1. r[1 + n] = q[1] /\ 1 + n = i + 1
        BY <1>1, <1>4, <3>2
      <4> QED BY <2>1, <3>2, <4>1 DEF Prefixes, n
    <3> QED BY <1>1, <3>1, <3>2
  <2>3. ASSUME MaySkip(op, r[i]) PROVE \E k \in i + 1 .. Len(r) : r[k] = Target(op, r[i])
    <3>1. CASE \E k \in i + 1 .. n : p[k] = Target(op, p[i])
      <4>1. PICK k \in i + 1 .. n : p[k] = Target(op, p[i])
        BY <3>1
      <4>2. k \in i + 1 .. Len(r) /\ k \in 1 .. n
        BY <1>1, <1>2
      <4> QED BY <1>3, <2>1, <4>1, <4>2
    <3>2. CASE \E k \in 1 .. Len(q) : q[k] = Target(op, p[i])
      <4>1. PICK k \in 1 .. Len(q) : q[k] = Target(op, p[i])
        BY <3>2
      <4>2. k + n \in i + 1 .. Len(r) /\ r[k + n] = q[k]
        BY <1>1, <1>2, <1>4
      <4> QED BY <2>1, <4>1, <4>2
    <3> QED BY <2>1, <2>3, <3>1, <3>2 DEF Prefixes, n
  <2> QED BY <1>1, <1>2, <2>1, <2>2, <2>3
<1>7. ASSUME NEW i \in 1 .. Len(r)
      PROVE  /\ Belongs(op, r[i]) /\ i + Ahead(op, a, r[i]) <= Len(r)
             /\ MaySkip(op, r[i]) => \E k \in i + 1 .. Len(r) : r[k] = Target(op, r[i])
             /\ i < Len(r) => Follows(op, a, r[i], r[i + 1])
  <2>1. CASE i \in 1 .. n
    BY <1>6, <2>1
  <2>2. CASE i \notin 1 .. n
    <3>1. i - n \in 1 .. Len(q) /\ (i - n) + n = i
      BY <1>1, <1>2, <2>2
    <3> QED BY <1>5, <3>1
  <2> QED BY <2>1, <2>2
<1>8. WellPlanned(op, a, r)
  BY <1>2, <1>7 DEF WellPlanned
<1>9. r # <<>> /\ Head(r) = p[1]
  BY <1>1, <1>2, <1>3, RestSuffix, EmptySeq
<1> QED BY <1>8, <1>9 DEF r

\* The first steps of the routes that sign the caller in.
LEMMA SignedIn ==
    /\ Authenticated \in Seq(Steps) /\ Len(Authenticated) = 2
    /\ Authenticated[1] = "identify" /\ Authenticated[2] = "caller"
    /\ Manages \in Seq(Steps) /\ Len(Manages) = 3
    /\ Manages[1] = "identify" /\ Manages[2] = "caller" /\ Manages[3] = "byManager"
    /\ OnlyBySession \in Seq(Steps) /\ Len(OnlyBySession) = 3
    /\ OnlyBySession[1] = "onlySession" /\ OnlyBySession[2] = "identify" /\ OnlyBySession[3] = "caller"
<1>1. /\ Authenticated \in Seq(Steps) /\ Len(Authenticated) = 2
      /\ Authenticated[1] = "identify" /\ Authenticated[2] = "caller"
  BY DEF Authenticated, Steps
<1>2. /\ <<"byManager">> \in Seq(Steps) /\ Len(<<"byManager">>) = 1 /\ <<"byManager">>[1] = "byManager"
      /\ <<"onlySession">> \in Seq(Steps) /\ Len(<<"onlySession">>) = 1
      /\ <<"onlySession">>[1] = "onlySession"
  BY DEF Steps
<1>3. /\ Manages \in Seq(Steps) /\ Len(Manages) = 3
      /\ Manages[1] = "identify" /\ Manages[2] = "caller" /\ Manages[3] = "byManager"
  BY <1>1, <1>2, ConcatProperties DEF Manages
<1>4. /\ OnlyBySession \in Seq(Steps) /\ Len(OnlyBySession) = 3
      /\ OnlyBySession[1] = "onlySession" /\ OnlyBySession[2] = "identify" /\ OnlyBySession[3] = "caller"
  <2> DEFINE p == <<"onlySession">>
  <2>1. p \in Seq(Steps) /\ Len(p) = 1 /\ p[1] = "onlySession"
    BY <1>2
  <2> HIDE DEF p
  <2>2. /\ p \o Authenticated \in Seq(Steps) /\ Len(p \o Authenticated) = 3
        /\ \A i \in 1 .. 3 : (p \o Authenticated)[i] = IF i <= 1 THEN p[i] ELSE Authenticated[i - 1]
    BY <1>1, <2>1, ConcatProperties
  <2> QED BY <1>1, <2>1, <2>2 DEF OnlyBySession, p
<1> QED BY <1>1, <1>3, <1>4

\* A request whose own steps do not rely on those that sign it in.
LEMMA SignedInPlanned ==
    ASSUME NEW op, NEW a, NEW q, WellPlanned(op, a, q), q # <<>>,
           Follows(op, a, "caller", q[1]), Follows(op, a, "byManager", q[1]),
           op \notin {"repository", "dockerToken"}
    PROVE  /\ WellPlanned(op, a, Authenticated \o q) /\ Head(Authenticated \o q) \in First
           /\ WellPlanned(op, a, Manages \o q) /\ Head(Manages \o q) \in First
           /\ WellPlanned(op, a, OnlyBySession \o q) /\ Head(OnlyBySession \o q) \in First
<1>1. Prefixes(op, a, Authenticated, q)
  <2>1. \A x \in {"identify", "caller"} : Belongs(op, x) /\ Ahead(op, a, x) = 0 /\ ~MaySkip(op, x)
    BY DEF Belongs, Ahead, MaySkip, Skipping
  <2>2. Follows(op, a, "identify", "caller")
    BY DEF Follows
  <2> QED BY SignedIn, <2>1, <2>2 DEF Prefixes
<1>2. Prefixes(op, a, Manages, q)
  <2>1. \A x \in {"identify", "caller", "byManager"} :
          Belongs(op, x) /\ Ahead(op, a, x) = 0 /\ ~MaySkip(op, x)
    BY DEF Belongs, Ahead, MaySkip, Skipping
  <2>2. Follows(op, a, "identify", "caller") /\ Follows(op, a, "caller", "byManager")
    BY DEF Follows
  <2> QED BY SignedIn, <2>1, <2>2 DEF Prefixes
<1>3. Prefixes(op, a, OnlyBySession, q)
  <2>1. \A x \in {"identify", "caller", "onlySession"} :
          Belongs(op, x) /\ Ahead(op, a, x) = 0 /\ ~MaySkip(op, x)
    BY DEF Belongs, Ahead, MaySkip, Skipping
  <2>2. Follows(op, a, "onlySession", "identify") /\ Follows(op, a, "identify", "caller")
    BY DEF Follows
  <2> QED BY SignedIn, <2>1, <2>2 DEF Prefixes
<1>4. "identify" \in First /\ "onlySession" \in First
  BY DEF First
<1>5. /\ WellPlanned(op, a, Authenticated \o q) /\ Head(Authenticated \o q) = "identify"
      /\ WellPlanned(op, a, Manages \o q) /\ Head(Manages \o q) = "identify"
      /\ WellPlanned(op, a, OnlyBySession \o q) /\ Head(OnlyBySession \o q) = "onlySession"
  BY <1>1, <1>2, <1>3, JoinPlanned, SignedIn
<1> QED BY <1>4, <1>5

\* What a request is made of.
LEMMA RequestFields ==
    ASSUME NEW op, NEW plan, NEW cred, NEW arg
    PROVE  LET j == Request(op, plan, cred, arg)
           IN /\ DOMAIN j = Fields
              /\ j.op = op /\ j.plan = plan /\ j.cred = cred /\ j.arg = arg
              /\ j.code = 0 /\ j.caller = NoRow /\ j.token = NoRow
BY DEF Request, NoJob, Fields

\* What a request needs to arrive.
LEMMA RequestArrives ==
    ASSUME NEW op, NEW plan, NEW cred, NEW arg,
           WellPlanned(op, op = "status" => arg.active, plan),
           plan # <<>> => Head(plan) \in First,
           op = "callback" => arg.id \in DOMAIN external.issued,
           op = "settings" => arg.key \in Settings, Fits(op, arg)
    PROVE  Arrives(Request(op, plan, cred, arg))
<1>1. LET j == Request(op, plan, cred, arg)
      IN /\ DOMAIN j = Fields /\ j.op = op /\ j.plan = plan /\ j.cred = cred /\ j.arg = arg
         /\ j.code = 0 /\ j.caller = NoRow /\ j.token = NoRow
  BY RequestFields
<1> QED BY <1>1 DEF Arrives, Planned, Active

\* A request that starts with a well made plan.
Arrived(c) == \E j : Start(c, j) /\ Arrives(j)

\* A request whose plan is well ordered and begins with a first step arrives.
LEMMA StartsArrived ==
    ASSUME NEW c, NEW op, NEW plan, NEW cred, NEW arg, Starts(c, op, plan, cred, arg),
           WellPlanned(op, op = "status" => arg.active, plan), Head(plan) \in First,
           op = "callback" => arg.id \in DOMAIN external.issued,
           op = "settings" => arg.key \in Settings, Fits(op, arg)
    PROVE  Arrived(c)
BY RequestArrives DEF Starts, Arrived

\* So does one whose plan first authenticates the caller.
LEMMA SignedInArrived ==
    ASSUME NEW c, NEW op, NEW q, NEW cred, NEW arg,
           \/ Starts(c, op, Authenticated \o q, cred, arg) \/ Starts(c, op, Manages \o q, cred, arg)
           \/ Starts(c, op, OnlyBySession \o q, cred, arg),
           WellPlanned(op, op = "status" => arg.active, q), q # <<>>,
           \A a \in BOOLEAN : Follows(op, a, "caller", q[1]) /\ Follows(op, a, "byManager", q[1]),
           op \notin {"repository", "dockerToken", "callback"},
           op = "settings" => arg.key \in Settings, Fits(op, arg)
    PROVE  Arrived(c)
<1> DEFINE a == op = "status" => arg.active
<1>1. a \in BOOLEAN
  OBVIOUS
<1> HIDE DEF a
<1>2. Follows(op, a, "caller", q[1]) /\ Follows(op, a, "byManager", q[1]) /\ WellPlanned(op, a, q)
  BY <1>1 DEF a
<1>3. /\ WellPlanned(op, a, Authenticated \o q) /\ Head(Authenticated \o q) \in First
      /\ WellPlanned(op, a, Manages \o q) /\ Head(Manages \o q) \in First
      /\ WellPlanned(op, a, OnlyBySession \o q) /\ Head(OnlyBySession \o q) \in First
  BY <1>2, SignedInPlanned
<1> QED BY <1>3, StartsArrived DEF a

\* Requests of the session routes and of the cleaner.
LEMMA SessionArrived == ASSUME NEW c \in Clients, SessionRequest(c) PROVE Arrived(c)
<1>1. ASSUME NEW b, NEW w, 
             Starts(c, "login", <<"verify", "createSession">>, Nobody,
                    [id |-> 0, name |-> Name(b, 0), secret |-> w])
      PROVE  Arrived(c)
  <2> DEFINE p == <<"verify", "createSession">>
  <2>1. WellPlanned("login", TRUE, p) /\ Head(p) \in First
    BY DEF WellPlanned, Belongs, Follows, Target, Skipping, MaySkip, Ahead, Steps, First
  <2> HIDE DEF p
  <2> QED BY <1>1, <2>1, StartsArrived DEF p, Fits
<1>2. ASSUME NEW cred, 
             Starts(c, "logout",
                    Authenticated \o <<"bySession", "deleteSession">>,
                    cred,
                    [id |-> 0])
      PROVE  Arrived(c)
  <2> DEFINE q == <<"bySession", "deleteSession">>
  <2>1. WellPlanned("logout", TRUE, q) /\ q # <<>> /\ q[1] = "bySession"
    BY DEF WellPlanned, Belongs, Follows, Target, Skipping, MaySkip, Ahead, Steps
  <2> HIDE DEF q
  <2>2. \A a \in BOOLEAN : Follows("logout", a, "caller", q[1]) /\ Follows("logout", a, "byManager", q[1])
    BY <2>1 DEF Follows
  <2> QED BY <1>2, <2>1, <2>2, SignedInArrived DEF q, Fits
<1>3. ASSUME NEW cred, 
             Starts(c, "whoami",
                    Authenticated \o <<"look">>,
                    cred,
                    [id |-> 0])
      PROVE  Arrived(c)
  <2> DEFINE q == <<"look">>
  <2>1. WellPlanned("whoami", TRUE, q) /\ q # <<>> /\ q[1] = "look"
    BY DEF WellPlanned, Belongs, Follows, Target, Skipping, MaySkip, Ahead, Steps
  <2> HIDE DEF q
  <2>2. \A a \in BOOLEAN : Follows("whoami", a, "caller", q[1]) /\ Follows("whoami", a, "byManager", q[1])
    BY <2>1 DEF Follows
  <2> QED BY <1>3, <2>1, <2>2, SignedInArrived DEF q, Fits
<1>4. ASSUME 
             Starts(c, "cleaner", <<"cleanList", "removeSessions", "cleanTokens">>, Nobody,
                    [id |-> 0])
      PROVE  Arrived(c)
  <2> DEFINE p == <<"cleanList", "removeSessions", "cleanTokens">>
  <2>1. WellPlanned("cleaner", TRUE, p) /\ Head(p) \in First
    BY DEF WellPlanned, Belongs, Follows, Target, Skipping, MaySkip, Ahead, Steps, First
  <2> HIDE DEF p
  <2> QED BY <1>4, <2>1, StartsArrived DEF p, Fits
<1> QED BY <1>1, <1>2, <1>3, <1>4 DEF SessionRequest

\* Plans put together from three parts.
LEMMA StepsAssociative ==
    ASSUME NEW p \in Seq(Steps), NEW q \in Seq(Steps), NEW r \in Seq(Steps)
    PROVE  p \o (q \o r) = p \o q \o r
BY ConcatAssociative

\* A request that changes the status of a user.
LEMMA StatusArrived ==
    ASSUME NEW c \in Clients, NEW u, NEW active \in BOOLEAN, NEW s,
           Starts(c, "status",
                  Manages \o <<"findUser">> \o
                    (IF active THEN <<"setActive">>
                     ELSE <<"countAdmins", "setActive", "listSessions", "removeSessions", "answer">>),
                  Session(s), [id |-> u, active |-> active])
    PROVE  Arrived(c)
<1> DEFINE r == IF active THEN <<"setActive">>
                ELSE <<"countAdmins", "setActive", "listSessions", "removeSessions", "answer">>
           f == <<"findUser">>
<1>1. WellPlanned("status", active, r) /\ r # <<>>
  <2>1. CASE active
    BY <2>1 DEF WellPlanned, Belongs, Follows, Target, Skipping, MaySkip, Ahead, Steps
  <2>2. CASE ~active
    BY <2>2 DEF WellPlanned, Belongs, Follows, Target, Skipping, MaySkip, Ahead, Steps
  <2> QED BY <2>1, <2>2
<1>2. Prefixes("status", active, f, r)
  <2>1. f \in Seq(Steps) /\ Len(f) = 1 /\ f[1] = "findUser" /\ r[1] = IF active THEN "setActive" ELSE "countAdmins"
    BY DEF Steps
  <2> HIDE DEF f, r
  <2>2. /\ Follows("status", active, "findUser", r[1]) /\ Belongs("status", "findUser")
        /\ Ahead("status", active, "findUser") = 0 /\ ~MaySkip("status", "findUser")
    BY <2>1 DEF Follows, Belongs, Ahead, MaySkip, Skipping
  <2> QED BY <2>1, <2>2 DEF Prefixes
<1>3. f \in Seq(Steps) /\ r \in Seq(Steps) /\ f[1] = "findUser" /\ f # <<>>
  BY <1>1 DEF WellPlanned, Steps
<1> HIDE DEF f, r
<1>4. WellPlanned("status", active, f \o r) /\ f \o r # <<>> /\ Head(f \o r) = "findUser"
  BY <1>1, <1>2, <1>3, JoinPlanned
<1>5. f \o r \in Seq(Steps) /\ (f \o r)[1] = "findUser"
  BY <1>4 DEF WellPlanned
<1>6. Manages \o (f \o r) = Manages \o f \o r
  <2>1. Manages \in Seq(Steps) /\ f \in Seq(Steps) /\ r \in Seq(Steps)
    BY <1>3, SignedIn
  <2> QED BY <2>1, StepsAssociative
<1>7. Starts(c, "status", Manages \o (f \o r), Session(s), [id |-> u, active |-> active])
  BY <1>6 DEF f, r
<1>8. \A a \in BOOLEAN : Follows("status", a, "caller", (f \o r)[1]) /\ Follows("status", a, "byManager", (f \o r)[1])
  BY <1>5 DEF Follows
<1>9. WellPlanned("status", "status" = "status" => [id |-> u, active |-> active].active, f \o r)
  BY <1>4
<1> QED BY <1>4, <1>7, <1>8, <1>9, SignedInArrived DEF Fits

\* Requests of the user routes.
LEMMA UserArrived == ASSUME NEW c \in Clients, UserRequest(c) PROVE Arrived(c)
<1>1. ASSUME NEW u, 
             Starts(c, "deleteUser",
                    Manages \o <<"findUser", "countAdmins", "listSessions", "removeSessions",
                      "deleteUser">>,
                    Session(1),
                    [id |-> u])
      PROVE  Arrived(c)
  <2> DEFINE q == <<"findUser", "countAdmins", "listSessions", "removeSessions", "deleteUser">>
  <2>1. WellPlanned("deleteUser", TRUE, q) /\ q # <<>> /\ q[1] = "findUser"
    BY DEF WellPlanned, Belongs, Follows, Target, Skipping, MaySkip, Ahead, Steps
  <2> HIDE DEF q
  <2>2. \A a \in BOOLEAN : Follows("deleteUser", a, "caller", q[1]) /\ Follows("deleteUser", a, "byManager", q[1])
    BY <2>1 DEF Follows
  <2> QED BY <1>1, <2>1, <2>2, SignedInArrived DEF q, Fits
<1>2. ASSUME NEW u, NEW admin, NEW r, NEW A, 
             Starts(c, "permissions",
                    Manages \o <<"findUser", "setFlags", "setPermission">>,
                    Session(1),
                    [id |-> u, admin |-> admin, repo |-> r, actions |-> A])
      PROVE  Arrived(c)
  <2> DEFINE q == <<"findUser", "setFlags", "setPermission">>
  <2>1. WellPlanned("permissions", TRUE, q) /\ q # <<>> /\ q[1] = "findUser"
    BY DEF WellPlanned, Belongs, Follows, Target, Skipping, MaySkip, Ahead, Steps
  <2> HIDE DEF q
  <2>2. \A a \in BOOLEAN : Follows("permissions", a, "caller", q[1]) /\ Follows("permissions", a, "byManager", q[1])
    BY <2>1 DEF Follows
  <2> QED BY <1>2, <2>1, <2>2, SignedInArrived DEF q, Fits
<1>3. ASSUME NEW u, NEW n, NEW e \in {Kept, NoText} \cup {Mail(b) : b \in Bases},
             Starts(c, "updateUser",
                    Manages \o <<"findUser", "checkName", "checkEmail", "setEmail", "setName", "reread">>,
                    Session(1),
                    [id |-> u, name |-> n, email |-> e])
      PROVE  Arrived(c)
  <2> DEFINE q == <<"findUser", "checkName", "checkEmail", "setEmail", "setName", "reread">>
  <2>1. WellPlanned("updateUser", TRUE, q) /\ q # <<>> /\ q[1] = "findUser"
    BY DEF WellPlanned, Belongs, Follows, Target, Skipping, MaySkip, Ahead, Steps
  <2> HIDE DEF q
  <2>2. \A a \in BOOLEAN : Follows("updateUser", a, "caller", q[1]) /\ Follows("updateUser", a, "byManager", q[1])
    BY <2>1 DEF Follows
  <2>3. e[3] # "sso"
    <3>1. Kept[3] = "" /\ NoText[3] = "" /\ \A b : Mail(b)[3] = "mail"
      BY DEF Kept, NoText, Mail
    <3> QED BY <3>1
  <2> DEFINE arg == [id |-> u, name |-> n, email |-> e]
  <2>4. Fits("updateUser", arg)
    BY <2>3 DEF Fits
  <2> HIDE DEF arg
  <2> QED BY <1>3, <2>1, <2>2, <2>4, SignedInArrived DEF q, arg
<1>4. ASSUME NEW b, 
             Starts(c, "createUser",
                    Manages \o <<"checkName", "checkEmail", "insertUser">>,
                    Session(1),
                    [id |-> 0, name |-> Name(b, 0), email |-> Mail(b), secret |-> "first"])
      PROVE  Arrived(c)
  <2> DEFINE q == <<"checkName", "checkEmail", "insertUser">>
  <2>1. WellPlanned("createUser", TRUE, q) /\ q # <<>> /\ q[1] = "checkName"
    BY DEF WellPlanned, Belongs, Follows, Target, Skipping, MaySkip, Ahead, Steps
  <2> HIDE DEF q
  <2>2. \A a \in BOOLEAN : Follows("createUser", a, "caller", q[1]) /\ Follows("createUser", a, "byManager", q[1])
    BY <2>1 DEF Follows
  <2> DEFINE arg == [id |-> 0, name |-> Name(b, 0), email |-> Mail(b), secret |-> "first"]
  <2>3. Fits("createUser", arg)
    BY DEF Fits, Mail
  <2> HIDE DEF arg
  <2> QED BY <1>4, <2>1, <2>2, <2>3, SignedInArrived DEF q, arg
<1>5. ASSUME NEW b, 
             Starts(c, "changeEmail",
                    Authenticated \o <<"bySession", "asCaller", "checkEmail", "setEmail", "reread">>,
                    Session(2),
                    [id |-> 0, name |-> Kept, email |-> Mail(b)])
      PROVE  Arrived(c)
  <2> DEFINE q == <<"bySession", "asCaller", "checkEmail", "setEmail", "reread">>
  <2>1. WellPlanned("changeEmail", TRUE, q) /\ q # <<>> /\ q[1] = "bySession"
    BY DEF WellPlanned, Belongs, Follows, Target, Skipping, MaySkip, Ahead, Steps
  <2> HIDE DEF q
  <2>2. \A a \in BOOLEAN : Follows("changeEmail", a, "caller", q[1]) /\ Follows("changeEmail", a, "byManager", q[1])
    BY <2>1 DEF Follows
  <2> DEFINE arg == [id |-> 0, name |-> Kept, email |-> Mail(b)]
  <2>3. Fits("changeEmail", arg)
    BY DEF Fits, Mail
  <2> HIDE DEF arg
  <2> QED BY <1>5, <2>1, <2>2, <2>3, SignedInArrived DEF q, arg
<1> QED BY <1>1, <1>2, <1>3, <1>4, <1>5, StatusArrived DEF UserRequest

\* Requests of the password routes.
LEMMA PasswordArrived == ASSUME NEW c \in Clients, PasswordRequest(c) PROVE Arrived(c)
<1>1. ASSUME NEW w, NEW old, 
             Starts(c, "changePassword",
                    Authenticated \o <<"bySession", "checkPassword", "setPassword">>,
                    Session(2),
                    [id |-> 0, old |-> old, secret |-> w])
      PROVE  Arrived(c)
  <2> DEFINE q == <<"bySession", "checkPassword", "setPassword">>
  <2>1. WellPlanned("changePassword", TRUE, q) /\ q # <<>> /\ q[1] = "bySession"
    BY DEF WellPlanned, Belongs, Follows, Target, Skipping, MaySkip, Ahead, Steps
  <2> HIDE DEF q
  <2>2. \A a \in BOOLEAN : Follows("changePassword", a, "caller", q[1]) /\ Follows("changePassword", a, "byManager", q[1])
    BY <2>1 DEF Follows
  <2> QED BY <1>1, <2>1, <2>2, SignedInArrived DEF q, Fits
<1>2. ASSUME NEW w, NEW u, 
             Starts(c, "updatePassword",
                    Manages \o <<"findUser", "setPassword">>,
                    Session(1),
                    [id |-> u, secret |-> w])
      PROVE  Arrived(c)
  <2> DEFINE q == <<"findUser", "setPassword">>
  <2>1. WellPlanned("updatePassword", TRUE, q) /\ q # <<>> /\ q[1] = "findUser"
    BY DEF WellPlanned, Belongs, Follows, Target, Skipping, MaySkip, Ahead, Steps
  <2> HIDE DEF q
  <2>2. \A a \in BOOLEAN : Follows("updatePassword", a, "caller", q[1]) /\ Follows("updatePassword", a, "byManager", q[1])
    BY <2>1 DEF Follows
  <2> QED BY <1>2, <2>1, <2>2, SignedInArrived DEF q, Fits
<1>3. ASSUME NEW b, 
             Starts(c, "requestReset", <<"findEmail", "createReset">>, Nobody,
                    [id |-> 0, email |-> Mail(b)])
      PROVE  Arrived(c)
  <2> DEFINE p == <<"findEmail", "createReset">>
  <2>1. WellPlanned("requestReset", TRUE, p) /\ Head(p) \in First
    BY DEF WellPlanned, Belongs, Follows, Target, Skipping, MaySkip, Ahead, Steps, First
  <2> HIDE DEF p
  <2> QED BY <1>3, <2>1, StartsArrived DEF p, Fits
<1>4. ASSUME NEW r, 
             Starts(c, "checkReset", <<"checkReset">>, Nobody,
                    [id |-> r])
      PROVE  Arrived(c)
  <2> DEFINE p == <<"checkReset">>
  <2>1. WellPlanned("checkReset", TRUE, p) /\ Head(p) \in First
    BY DEF WellPlanned, Belongs, Follows, Target, Skipping, MaySkip, Ahead, Steps, First
  <2> HIDE DEF p
  <2> QED BY <1>4, <2>1, StartsArrived DEF p, Fits
<1>5. ASSUME NEW r, NEW w, 
             Starts(c, "reset", <<"findReset", "resetUser", "setPassword", "setUsed">>, Nobody,
                    [id |-> r, secret |-> w])
      PROVE  Arrived(c)
  <2> DEFINE p == <<"findReset", "resetUser", "setPassword", "setUsed">>
  <2>1. WellPlanned("reset", TRUE, p) /\ Head(p) \in First
    BY DEF WellPlanned, Belongs, Follows, Target, Skipping, MaySkip, Ahead, Steps, First
  <2> HIDE DEF p
  <2> QED BY <1>5, <2>1, StartsArrived DEF p, Fits
<1> QED BY <1>1, <1>2, <1>3, <1>4, <1>5 DEF PasswordRequest

\* The steps of a repository request before its rights: any of them may come before "rights".
Opening == {"identify", "caller", "anonymous", "cachedToken", "readToken", "readOwner",
            "cacheToken", "verifyBasic"}
Later == {"caller", "cachedToken", "readToken", "readOwner", "cacheToken"}
\* What comes at place i: a token is cached when its owner has been read.
OpensAt(p, i) == p[i] \in Later /\ (p[i] = "cacheToken" => p[i - 1] = "readOwner")

\* A repository request may open with any such steps.
LEMMA OpeningJoins ==
    ASSUME NEW op \in {"repository", "dockerToken"}, NEW q, WellPlanned(op, TRUE, q), q # <<>>,
           q[1] = "rights", NEW p \in Seq(Steps), Len(p) >= 1, p[1] \in First, p[1] \in Opening,
           \A i \in 2 .. Len(p) : OpensAt(p, i)
    PROVE  WellPlanned(op, TRUE, p \o q) /\ Head(p \o q) \in First
<1>1. q \in Seq(Steps) /\ Len(q) >= 1 /\ Len(q) \in Nat /\ Len(p) \in Nat
  BY RestSuffix, EmptySeq DEF WellPlanned
<1>2. ASSUME NEW i \in 1 .. Len(p) PROVE p[i] \in Opening
  <2>1. CASE i = 1
    BY <2>1
  <2>2. CASE i # 1
    <3>1. i \in 2 .. Len(p)
      BY <2>2
    <3> QED BY <3>1 DEF OpensAt, Opening, Later
  <2> QED BY <2>1, <2>2
<1>3. \A x \in Opening :
        /\ Belongs(op, x) /\ Ahead(op, TRUE, x) = 0
        /\ MaySkip(op, x) => Target(op, x) = "rights"
  BY DEF Belongs, Ahead, MaySkip, Skipping, Target, Opening
<1>4. \E k \in 1 .. Len(q) : q[k] = "rights"
  BY <1>1
<1>5. \A x \in Opening : \A y \in Later \cup {"rights"} :
        (y = "cacheToken" => x = "readOwner") => Follows(op, TRUE, x, y)
  BY DEF Follows, Opening, Later
<1>6. ASSUME NEW i \in 1 .. Len(p), i < Len(p) PROVE Follows(op, TRUE, p[i], p[i + 1])
  <2>1. i + 1 \in 2 .. Len(p) /\ (i + 1) - 1 = i
    BY <1>6
  <2>2. OpensAt(p, i + 1)
    BY <2>1
  <2> QED BY <1>2, <1>5, <2>1, <2>2 DEF OpensAt
<1>7. Follows(op, TRUE, p[Len(p)], q[1])
  <2>1. Len(p) \in 1 .. Len(p)
    BY <1>1
  <2> QED BY <1>2, <1>5, <2>1
<1>8. ASSUME NEW i \in 1 .. Len(p)
      PROVE  /\ Belongs(op, p[i]) /\ Ahead(op, TRUE, p[i]) = 0
             /\ MaySkip(op, p[i]) => \E k \in 1 .. Len(q) : q[k] = Target(op, p[i])
  BY <1>2, <1>3, <1>4
<1>9. Prefixes(op, TRUE, p, q)
  BY <1>1, <1>6, <1>7, <1>8 DEF Prefixes
<1> QED BY <1>9, JoinPlanned

\* What the rest of the steps of a token are after its first.
LEMMA TokenSteps ==
    LET t == Tail(ByToken)
    IN /\ ByToken \in Seq(Steps) /\ Len(ByToken) = 5 /\ ByToken[1] = "anonymous"
       /\ \A i \in 2 .. 5 : OpensAt(ByToken, i)
       /\ t \in Seq(Steps) /\ Len(t) = 4 /\ t[1] \in Later /\ t[1] # "cacheToken"
       /\ \A i \in 2 .. 4 : OpensAt(t, i)
<1>1. /\ ByToken \in Seq(Steps) /\ ByToken # <<>> /\ Len(ByToken) = 5
      /\ ByToken[1] = "anonymous" /\ ByToken[2] = "cachedToken"
      /\ ByToken[3] = "readToken" /\ ByToken[4] = "readOwner" /\ ByToken[5] = "cacheToken"
  BY DEF Steps, ByToken
<1>2. \A i \in 2 .. 5 : i = 2 \/ i = 3 \/ i = 4 \/ i = 5
  OBVIOUS
<1>3. \A i \in 2 .. 5 : OpensAt(ByToken, i)
  <2>1. 5 - 1 = 4
    OBVIOUS
  <2> QED BY <1>1, <1>2, <2>1 DEF OpensAt, Later
<1> DEFINE t == Tail(ByToken)
<1>4. t \in Seq(Steps) /\ Len(t) = Len(ByToken) - 1 /\ \A i \in 1 .. Len(t) : t[i] = ByToken[i + 1]
  BY <1>1, HeadTailProperties
<1> HIDE DEF t
<1>5. Len(t) = 4
  BY <1>1, <1>4
<1>6. ASSUME NEW i \in 2 .. 4 PROVE OpensAt(t, i)
  <2>1. i + 1 \in 2 .. 5 /\ i \in 1 .. 4 /\ i - 1 \in 1 .. 4 /\ (i - 1) + 1 = i /\ (i + 1) - 1 = i
    OBVIOUS
  <2>2. t[i] = ByToken[i + 1] /\ t[i - 1] = ByToken[i] /\ OpensAt(ByToken, i + 1)
    BY <1>3, <1>4, <1>5, <2>1
  <2> QED BY <2>1, <2>2 DEF OpensAt
<1>7. t[1] = "cachedToken"
  BY <1>1, <1>4, <1>5
<1> QED BY <1>1, <1>3, <1>4, <1>5, <1>6, <1>7 DEF t, Later

\* A repository request, however its client identifies itself.
LEMMA RawArrived ==
    ASSUME NEW c, NEW op \in {"repository", "dockerToken"}, NEW q, NEW cred, NEW arg,
           Starts(c, op, RawPlan(cred) \o q, cred, arg), WellPlanned(op, TRUE, q),
           q # <<>>, q[1] = "rights"
    PROVE  Arrived(c)
<1>1. q \in Seq(Steps)
  BY DEF WellPlanned
<1>2. WellPlanned(op, TRUE, RawPlan(cred) \o q) /\ Head(RawPlan(cred) \o q) \in First
  <2>1. CASE RawPlan(cred) = <<>>
    <3>1. RawPlan(cred) \o q = q
      BY <1>1, <2>1, ConcatEmptySeq
    <3>2. Head(q) = "rights"
      BY <1>1, RestSuffix
    <3> QED BY <3>1, <3>2 DEF First
  <2>2. CASE RawPlan(cred) = Authenticated
    <3>1. \A i \in 2 .. Len(Authenticated) : OpensAt(Authenticated, i)
      <4>1. \A i \in 2 .. 2 : i = 2
        OBVIOUS
      <4> QED BY SignedIn, <4>1 DEF OpensAt, Later
    <3>2. Authenticated[1] \in First /\ Authenticated[1] \in Opening
      BY SignedIn DEF First, Opening
    <3>3. Authenticated \in Seq(Steps) /\ Len(Authenticated) >= 1
      BY SignedIn
    <3> QED BY <2>2, <3>1, <3>2, <3>3, OpeningJoins
  <2>3. CASE RawPlan(cred) = ByToken
    <3>1. ByToken \in Seq(Steps) /\ Len(ByToken) >= 1 /\ ByToken[1] = "anonymous"
      BY TokenSteps
    <3>2. \A i \in 2 .. Len(ByToken) : OpensAt(ByToken, i)
      BY TokenSteps
    <3>3. ByToken[1] \in First /\ ByToken[1] \in Opening
      BY <3>1 DEF First, Opening
    <3> QED BY <2>3, <3>1, <3>2, <3>3, OpeningJoins
  <2>4. CASE RawPlan(cred) = <<"verifyBasic">> \o Tail(ByToken)
    <3> DEFINE v == <<"verifyBasic">>
               t == Tail(ByToken)
               p == v \o t
    <3>1. v \in Seq(Steps) /\ Len(v) = 1 /\ v[1] = "verifyBasic"
      BY DEF Steps
    <3>2. /\ t \in Seq(Steps) /\ Len(t) = 4 /\ t[1] \in Later /\ t[1] # "cacheToken"
          /\ \A i \in 2 .. 4 : OpensAt(t, i)
      BY TokenSteps
    <3> HIDE DEF t, v
    <3>3. /\ p \in Seq(Steps) /\ Len(p) = Len(v) + Len(t)
          /\ \A i \in 1 .. Len(v) + Len(t) : p[i] = IF i <= Len(v) THEN v[i] ELSE t[i - Len(v)]
      BY <3>1, <3>2, ConcatProperties
    <3> HIDE DEF p
    <3>4. Len(p) = 5 /\ p[1] = "verifyBasic"
      BY <3>1, <3>2, <3>3
    <3>5. ASSUME NEW i \in 2 .. Len(p) PROVE OpensAt(p, i)
      <4>1. p[i] = t[i - 1] /\ i - 1 \in 1 .. 4
        BY <3>1, <3>2, <3>3, <3>4
      <4>2. CASE i = 2
        BY <3>2, <4>1, <4>2 DEF OpensAt
      <4>3. CASE i # 2
        <5>1. i - 1 \in 2 .. 4 /\ i - 1 \in 2 .. Len(p) /\ i - 1 <= 1 + 4
          BY <3>4, <4>3
        <5>2. p[i - 1] = t[(i - 1) - 1]
          BY <3>1, <3>2, <3>3, <5>1
        <5>3. OpensAt(t, i - 1)
          BY <3>2, <5>1
        <5> QED BY <4>1, <5>2, <5>3 DEF OpensAt
      <4> QED BY <4>2, <4>3
    <3>6. p[1] \in First /\ p[1] \in Opening /\ Len(p) >= 1
      BY <3>4 DEF First, Opening
    <3>7. WellPlanned(op, TRUE, p \o q) /\ Head(p \o q) \in First
      BY <3>3, <3>5, <3>6, OpeningJoins
    <3> QED BY <2>4, <3>7 DEF p, v, t
  <2> QED BY <2>1, <2>2, <2>3, <2>4 DEF RawPlan
<1>3. op # "status" /\ op # "callback" /\ op # "settings"
  OBVIOUS
<1> QED BY <1>2, <1>3, StartsArrived DEF Fits

\* A repository request and a request for a Docker token.
LEMMA RepositoryArrived ==
    ASSUME NEW c, NEW cred, NEW arg,
           Starts(c, "repository", RawPlan(cred) \o <<"rights", "tokenRights", "look">>, cred, arg)
    PROVE  Arrived(c)
<1> DEFINE q == <<"rights", "tokenRights", "look">>
<1>1. WellPlanned("repository", TRUE, q) /\ q # <<>> /\ q[1] = "rights"
  BY DEF WellPlanned, Belongs, Follows, Target, Skipping, MaySkip, Ahead, Steps
<1> HIDE DEF q
<1> QED BY <1>1, RawArrived DEF q

\* A request for a Docker token.
LEMMA DockerArrived ==
    ASSUME NEW c, NEW cred, NEW arg,
           Starts(c, "dockerToken",
                  RawPlan(cred) \o <<"rights", "tokenRights", "dockerToken", "insertToken",
                                     "insertScopes", "insertRepositories">>, cred, arg)
    PROVE  Arrived(c)
<1> DEFINE q == <<"rights", "tokenRights", "dockerToken", "insertToken", "insertScopes",
                  "insertRepositories">>
<1>1. WellPlanned("dockerToken", TRUE, q) /\ q # <<>> /\ q[1] = "rights"
  BY DEF WellPlanned, Belongs, Follows, Target, Skipping, MaySkip, Ahead, Steps
<1> HIDE DEF q
<1> QED BY <1>1, RawArrived DEF q

\* The requests about tokens.
LEMMA TokenArrived == ASSUME NEW c \in Clients, TokenRequest(c) PROVE Arrived(c)
<1>1. ASSUME NEW A, NEW r, NEW life, 
             Starts(c, "createToken",
                    OnlyBySession \o <<"insertToken", "insertScopes", "insertRepositories">>,
                    Session(2),
                    [id |-> 0, scopes |-> A, repo |-> r, actions |-> {"read"}, life |-> life])
      PROVE  Arrived(c)
  <2> DEFINE q == <<"insertToken", "insertScopes", "insertRepositories">>
  <2>1. WellPlanned("createToken", TRUE, q) /\ q # <<>> /\ q[1] = "insertToken"
    BY DEF WellPlanned, Belongs, Follows, Target, Skipping, MaySkip, Ahead, Steps
  <2> HIDE DEF q
  <2>2. \A a \in BOOLEAN : Follows("createToken", a, "caller", q[1]) /\ Follows("createToken", a, "byManager", q[1])
    BY <2>1 DEF Follows
  <2> QED BY <1>1, <2>1, <2>2, SignedInArrived DEF q, Fits
<1>2. ASSUME NEW t, NEW cred, 
             Starts(c, "deleteToken",
                    OnlyBySession \o <<"findToken", "deleteToken">>,
                    cred,
                    [id |-> t])
      PROVE  Arrived(c)
  <2> DEFINE q == <<"findToken", "deleteToken">>
  <2>1. WellPlanned("deleteToken", TRUE, q) /\ q # <<>> /\ q[1] = "findToken"
    BY DEF WellPlanned, Belongs, Follows, Target, Skipping, MaySkip, Ahead, Steps
  <2> HIDE DEF q
  <2>2. \A a \in BOOLEAN : Follows("deleteToken", a, "caller", q[1]) /\ Follows("deleteToken", a, "byManager", q[1])
    BY <2>1 DEF Follows
  <2> QED BY <1>2, <2>1, <2>2, SignedInArrived DEF q, Fits
<1> QED BY <1>1, <1>2, RepositoryArrived, DockerArrived DEF TokenRequest

\* A plan that looks for the user of a principal in its middle.
LEMMA FindsUserPlanned ==
    ASSUME NEW op, NEW q, WellPlanned(op, TRUE, q), q # <<>>,
           \/ op = "sso" /\ q[1] = "createSession"
           \/ op = "callback" /\ q[1] = "applyRoles"
    PROVE  /\ WellPlanned(op, TRUE, FindsUser \o q) /\ FindsUser \o q # <<>>
           /\ Head(FindsUser \o q) = "matchEmail"
<1>1. /\ FindsUser \in Seq(Steps) /\ Len(FindsUser) = 3
      /\ FindsUser[1] = "matchEmail" /\ FindsUser[2] = "matchName" /\ FindsUser[3] = "provision"
  BY DEF FindsUser, Steps
<1>2. q \in Seq(Steps) /\ Len(q) \in Nat /\ Len(q) >= 1
  BY RestSuffix DEF WellPlanned
<1>3. \E k \in 1 .. Len(q) : q[k] = (IF op = "sso" THEN "createSession" ELSE "applyRoles")
  BY <1>2
<1>4. \A x \in {"matchEmail", "matchName", "provision"} :
        /\ Belongs(op, x) /\ Ahead(op, TRUE, x) = 0
        /\ MaySkip(op, x) => Target(op, x) = (IF op = "sso" THEN "createSession" ELSE "applyRoles")
  BY DEF Belongs, Ahead, MaySkip, Skipping, Target
<1>5. /\ Follows(op, TRUE, "matchEmail", "matchName") /\ Follows(op, TRUE, "matchName", "provision")
      /\ Follows(op, TRUE, "provision", q[1])
  BY DEF Follows
<1>6. \A i \in 1 .. Len(FindsUser) : i = 1 \/ i = 2 \/ i = 3
  BY <1>1
<1>7. ASSUME NEW i \in 1 .. Len(FindsUser), i < Len(FindsUser)
      PROVE  Follows(op, TRUE, FindsUser[i], FindsUser[i + 1])
  <2>1. Len(FindsUser) = 3
    BY <1>1
  <2>2. (i = 1 /\ i + 1 = 2) \/ (i = 2 /\ i + 1 = 3)
    BY <1>7, <2>1
  <2> QED BY <1>1, <1>5, <2>2
<1>8. ASSUME NEW i \in 1 .. Len(FindsUser)
      PROVE  /\ Belongs(op, FindsUser[i]) /\ Ahead(op, TRUE, FindsUser[i]) = 0
             /\ MaySkip(op, FindsUser[i]) => \E k \in 1 .. Len(q) : q[k] = Target(op, FindsUser[i])
  <2>1. FindsUser[i] \in {"matchEmail", "matchName", "provision"}
    BY <1>1, <1>6
  <2> QED BY <1>3, <1>4, <2>1
<1>9. Prefixes(op, TRUE, FindsUser, q)
  <2>1. FindsUser[Len(FindsUser)] = "provision" /\ Len(FindsUser) >= 1
    BY <1>1
  <2>2. Follows(op, TRUE, FindsUser[Len(FindsUser)], q[1])
    BY <1>5, <2>1
  <2> QED BY <1>1, <1>7, <1>8, <2>1, <2>2 DEF Prefixes
<1> QED BY <1>1, <1>9, JoinPlanned

\* The callback of an OAuth2 provider.
LEMMA CallbackArrived ==
    ASSUME NEW c, NEW arg, arg.id \in DOMAIN external.issued, arg.who \in Principals,
           Starts(c, "callback",
                  <<"take", "load", "exchange", "forget", "verifyToken", "checkRoles">> \o FindsUser
                    \o <<"applyRoles", "syncFlags", "createSession">>, Nobody, arg)
    PROVE  Arrived(c)
<1> DEFINE q == <<"applyRoles", "syncFlags", "createSession">>
           f == FindsUser \o q
           p == <<"take", "load", "exchange", "forget", "verifyToken", "checkRoles">>
<1>1. WellPlanned("callback", TRUE, q) /\ q # <<>> /\ q[1] = "applyRoles"
  BY DEF WellPlanned, Belongs, Follows, Target, Skipping, MaySkip, Ahead, Steps
<1>2. /\ p \in Seq(Steps) /\ Len(p) = 6 /\ p[1] = "take" /\ p[2] = "load" /\ p[3] = "exchange"
      /\ p[4] = "forget" /\ p[5] = "verifyToken" /\ p[6] = "checkRoles"
  BY DEF Steps
<1> HIDE DEF q, p
<1>3. WellPlanned("callback", TRUE, f) /\ f # <<>> /\ Head(f) = "matchEmail"
  BY <1>1, FindsUserPlanned
<1>4. f \in Seq(Steps) /\ f[1] = "matchEmail" /\ FindsUser \in Seq(Steps) /\ q \in Seq(Steps)
  <2>1. FindsUser \in Seq(Steps)
    BY DEF FindsUser, Steps
  <2> QED BY <1>1, <1>3, <2>1, RestSuffix DEF WellPlanned
<1>5. (p \o FindsUser) \o q = p \o f
  BY <1>2, <1>4, StepsAssociative
<1> HIDE DEF f
<1>6. Prefixes("callback", TRUE, p, f)
  <2>1. \A i \in 1 .. Len(p) : i = 1 \/ i = 2 \/ i = 3 \/ i = 4 \/ i = 5 \/ i = 6
    BY <1>2
  <2>2. \A x \in {"take", "load", "exchange", "forget", "verifyToken", "checkRoles"} :
          /\ Belongs("callback", x) /\ Ahead("callback", TRUE, x) \in {0, 1}
          /\ MaySkip("callback", x) => x = "take" \/ x = "load"
    BY DEF Belongs, Ahead, MaySkip, Skipping
  <2>3. Target("callback", "take") = "exchange" /\ Target("callback", "load") = "forget"
    BY DEF Target
  <2>4. /\ Follows("callback", TRUE, "take", "load") /\ Follows("callback", TRUE, "load", "exchange")
        /\ Follows("callback", TRUE, "exchange", "forget")
        /\ Follows("callback", TRUE, "forget", "verifyToken")
        /\ Follows("callback", TRUE, "verifyToken", "checkRoles")
        /\ Follows("callback", TRUE, "checkRoles", "matchEmail")
    BY DEF Follows
  <2>5. ASSUME NEW i \in 1 .. Len(p), i < Len(p) PROVE Follows("callback", TRUE, p[i], p[i + 1])
    <3>1. \/ (i = 1 /\ i + 1 = 2) \/ (i = 2 /\ i + 1 = 3) \/ (i = 3 /\ i + 1 = 4)
          \/ (i = 4 /\ i + 1 = 5) \/ (i = 5 /\ i + 1 = 6)
      <4>1. Len(p) = 6
        BY <1>2
      <4> QED BY <2>5, <4>1
    <3> QED BY <1>2, <2>4, <3>1
  <2>6. ASSUME NEW i \in 1 .. Len(p)
        PROVE  /\ Belongs("callback", p[i]) /\ Ahead("callback", TRUE, p[i]) \in {0, 1}
               /\ MaySkip("callback", p[i]) => \E k \in i + 1 .. Len(p) : p[k] = Target("callback", p[i])
    <3>1. Belongs("callback", p[i]) /\ Ahead("callback", TRUE, p[i]) \in {0, 1}
      BY <1>2, <2>1, <2>2
    <3>2. ASSUME MaySkip("callback", p[i]) PROVE i = 1 \/ i = 2
      <4>1. p[i] = "take" \/ p[i] = "load"
        BY <1>2, <2>1, <2>2, <3>2
      <4> QED BY <1>2, <2>1, <4>1
    <3>3. ASSUME i = 1 PROVE 3 \in i + 1 .. Len(p) /\ p[3] = Target("callback", p[i])
      BY <1>2, <2>3, <3>3
    <3>4. ASSUME i = 2 PROVE 4 \in i + 1 .. Len(p) /\ p[4] = Target("callback", p[i])
      BY <1>2, <2>3, <3>4
    <3> QED BY <3>1, <3>2, <3>3, <3>4
  <2>7. p[Len(p)] = "checkRoles" /\ Len(p) >= 1
    BY <1>2
  <2>8. p \in Seq(Steps) /\ Follows("callback", TRUE, p[Len(p)], f[1])
    BY <1>2, <1>4, <2>4, <2>7
  <2> QED BY <2>5, <2>6, <2>7, <2>8 DEF Prefixes
<1>7. WellPlanned("callback", TRUE, p \o f) /\ Head(p \o f) \in First
  <2>1. WellPlanned("callback", TRUE, p \o f) /\ Head(p \o f) = "take"
    BY <1>2, <1>3, <1>6, JoinPlanned
  <2> QED BY <2>1 DEF First
<1>8. Starts(c, "callback", p \o f, Nobody, arg)
  BY <1>5 DEF f, p, q
<1> QED BY <1>7, <1>8, StartsArrived DEF Fits

\* A login by the header of a single sign-on proxy.
LEMMA SsoArrived ==
    ASSUME NEW c, NEW arg, arg.who \in Principals,
           Starts(c, "sso",
                  <<"cachedKey", "fetchKeys", "storeKeys">> \o FindsUser
                    \o <<"createSession", "ssoRoles">>, Nobody, arg)
    PROVE  Arrived(c)
<1> DEFINE q == <<"createSession", "ssoRoles">>
           f == FindsUser \o q
           p == <<"cachedKey", "fetchKeys", "storeKeys">>
<1>1. WellPlanned("sso", TRUE, q) /\ q # <<>> /\ q[1] = "createSession"
  BY DEF WellPlanned, Belongs, Follows, Target, Skipping, MaySkip, Ahead, Steps
<1>2. /\ p \in Seq(Steps) /\ Len(p) = 3
      /\ p[1] = "cachedKey" /\ p[2] = "fetchKeys" /\ p[3] = "storeKeys"
  BY DEF Steps
<1> HIDE DEF q, p
<1>3. WellPlanned("sso", TRUE, f) /\ f # <<>> /\ Head(f) = "matchEmail"
  BY <1>1, FindsUserPlanned
<1>4. f \in Seq(Steps) /\ f[1] = "matchEmail" /\ FindsUser \in Seq(Steps) /\ q \in Seq(Steps)
  <2>1. FindsUser \in Seq(Steps)
    BY DEF FindsUser, Steps
  <2> QED BY <1>1, <1>3, <2>1, RestSuffix DEF WellPlanned
<1>5. (p \o FindsUser) \o q = p \o f
  BY <1>2, <1>4, StepsAssociative
<1> HIDE DEF f
<1>6. Prefixes("sso", TRUE, p, f)
  <2>1. \A i \in 1 .. Len(p) : i = 1 \/ i = 2 \/ i = 3
    BY <1>2
  <2>2. \A x \in {"cachedKey", "fetchKeys", "storeKeys"} :
          /\ Belongs("sso", x) /\ Ahead("sso", TRUE, x) = 0
          /\ MaySkip("sso", x) => Target("sso", x) = "matchEmail"
    BY DEF Belongs, Ahead, MaySkip, Skipping, Target
  <2>3. /\ Follows("sso", TRUE, "cachedKey", "fetchKeys") /\ Follows("sso", TRUE, "fetchKeys", "storeKeys")
        /\ Follows("sso", TRUE, "storeKeys", "matchEmail")
    BY DEF Follows
  <2>4. \E k \in 1 .. Len(f) : f[k] = "matchEmail"
    BY <1>3, <1>4, RestSuffix
  <2>5. ASSUME NEW i \in 1 .. Len(p), i < Len(p) PROVE Follows("sso", TRUE, p[i], p[i + 1])
    <3>1. Len(p) = 3
      BY <1>2
    <3>2. (i = 1 /\ i + 1 = 2) \/ (i = 2 /\ i + 1 = 3)
      BY <2>5, <3>1
    <3> QED BY <1>2, <2>3, <3>2
  <2>6. ASSUME NEW i \in 1 .. Len(p)
        PROVE  /\ Belongs("sso", p[i]) /\ Ahead("sso", TRUE, p[i]) = 0
               /\ MaySkip("sso", p[i]) => \E k \in 1 .. Len(f) : f[k] = Target("sso", p[i])
    <3>1. p[i] \in {"cachedKey", "fetchKeys", "storeKeys"}
      BY <1>2, <2>1
    <3> QED BY <2>2, <2>4, <3>1
  <2>7. p[Len(p)] = "storeKeys" /\ Len(p) >= 1
    BY <1>2
  <2>8. p \in Seq(Steps) /\ Follows("sso", TRUE, p[Len(p)], f[1])
    BY <1>2, <1>4, <2>3, <2>7
  <2> QED BY <2>5, <2>6, <2>7, <2>8 DEF Prefixes
<1>7. WellPlanned("sso", TRUE, p \o f) /\ Head(p \o f) \in First
  <2>1. WellPlanned("sso", TRUE, p \o f) /\ Head(p \o f) = "cachedKey"
    BY <1>2, <1>3, <1>6, JoinPlanned
  <2> QED BY <2>1 DEF First
<1>8. Starts(c, "sso", p \o f, Nobody, arg)
  BY <1>5 DEF f, p, q
<1> QED BY <1>7, <1>8, StartsArrived DEF Fits

\* The requests of the external logins and the settings.
LEMMA LoginArrived == ASSUME NEW c \in Clients, LoginRequest(c) PROVE Arrived(c)
<1>1. ASSUME 
             Starts(c, "authorize", <<"begin", "prune", "persist">>, Nobody,
                    [id |-> 0])
      PROVE  Arrived(c)
  <2> DEFINE p == <<"begin", "prune", "persist">>
  <2>1. WellPlanned("authorize", TRUE, p) /\ Head(p) \in First
    BY DEF WellPlanned, Belongs, Follows, Target, Skipping, MaySkip, Ahead, Steps, First
  <2> HIDE DEF p
  <2> QED BY <1>1, <2>1, StartsArrived DEF p, Fits
<1>2. ASSUME NEW k \in Settings, NEW x, 
             Starts(c, "settings",
                    Authenticated \o <<"bySystem", "setSetting", "storeSetting">>,
                    Session(1),
                    [id |-> 0, key |-> k, value |-> x])
      PROVE  Arrived(c)
  <2> DEFINE q == <<"bySystem", "setSetting", "storeSetting">>
  <2>1. WellPlanned("settings", TRUE, q) /\ q # <<>> /\ q[1] = "bySystem"
    BY DEF WellPlanned, Belongs, Follows, Target, Skipping, MaySkip, Ahead, Steps
  <2> HIDE DEF q
  <2>2. \A a \in BOOLEAN : Follows("settings", a, "caller", q[1]) /\ Follows("settings", a, "byManager", q[1])
    BY <2>1 DEF Follows
  <2>3. [id |-> 0, key |-> k, value |-> x].key \in Settings
    OBVIOUS
  <2> QED BY <1>2, <2>1, <2>2, <2>3, SignedInArrived DEF q, Fits
<1>3. ASSUME NEW s \in DOMAIN external.issued, NEW w \in Principals,
             Starts(c, "callback",
                    <<"take", "load", "exchange", "forget", "verifyToken", "checkRoles">> \o FindsUser
                      \o <<"applyRoles", "syncFlags", "createSession">>,
                    Nobody, [id |-> s, who |-> w, had |-> {}, rbac |-> FALSE])
      PROVE  Arrived(c)
  <2> DEFINE arg == [id |-> s, who |-> w, had |-> {}, rbac |-> FALSE]
  <2>1. arg.id \in DOMAIN external.issued /\ arg.who \in Principals
    OBVIOUS
  <2> HIDE DEF arg
  <2> QED BY <1>3, <2>1, CallbackArrived DEF arg
<1>4. ASSUME NEW k, NEW w \in Principals,
             Starts(c, "sso",
                    <<"cachedKey", "fetchKeys", "storeKeys">> \o FindsUser
                      \o <<"createSession", "ssoRoles">>, Nobody, [id |-> 0, kid |-> k, who |-> w])
      PROVE  Arrived(c)
  <2> DEFINE arg == [id |-> 0, kid |-> k, who |-> w]
  <2>1. arg.who \in Principals
    OBVIOUS
  <2> HIDE DEF arg
  <2> QED BY <1>4, <2>1, SsoArrived DEF arg
<1> QED BY <1>1, <1>2, <1>3, <1>4 DEF LoginRequest

\* Whatever request arrives.
LEMMA RequestArrived ==
    ASSUME NEW c \in Clients, AccountsRequest(c) \/ (Free(c) /\ LoginRequest(c))
    PROVE  Arrived(c)
BY SessionArrived, UserArrived, PasswordArrived, TokenArrived, LoginArrived DEF AccountsRequest

------------------------------------------------------------------------------
(* The steps.                                                                  *)

\* After step x a request may come to step y.
Leads(op, active, x, y) ==
    \/ Follows(op, active, x, y)
    \/ MaySkip(op, x) /\ y = Target(op, x)
    \/ x \in {"provision", "insertScopes"} /\ y = x
    \/ x = "listSessions" /\ Follows(op, active, "removeSessions", y)
    \/ x = "rights" /\ Follows(op, active, "tokenRights", y)

\* A request k that was j before it took a step, or that is over.
Keeps(j, k) ==
    /\ DOMAIN k = Fields /\ k.op = j.op
    /\ Head(j.plan) = "take" \/ j.reads \subseteq k.reads
    /\ j.op # "changeEmail" => k.arg.id = j.arg.id
    /\ j.op \notin {"changeEmail", "callback"} => k.arg = j.arg
    /\ j.op = "changeEmail" => k.arg.email = j.arg.email
    /\ j.op = "callback" => k.arg.who = j.arg.who
Moved(j, k) ==
    /\ DOMAIN k = Fields /\ Planned(k)
    /\ k.plan # <<>> => /\ j.plan # <<>> /\ Keeps(j, k)
                        /\ Leads(j.op, Active(j), Head(j.plan), Head(k.plan))

\* A step of one request leaves the others alone.
Alone(c) == /\ job' = [d \in Clients |-> job'[d]]
            /\ \A d \in Clients \ {c} : job'[d] = job[d]
Proceeds(c) == Alone(c) /\ Moved(job[c], job'[c])
OnTo(c, p) == Alone(c) /\ Keeps(job[c], job'[c]) /\ job'[c].plan = p

\* The plans a step may leave.
LEMMA PlansLeft ==
    ASSUME NEW op, NEW a, NEW p, WellPlanned(op, a, p), p # <<>>
    PROVE  /\ Head(p) \in Steps /\ Belongs(op, Head(p))
           /\ WellPlanned(op, a, Tail(p))
           /\ Tail(p) # <<>> => Follows(op, a, Head(p), Head(Tail(p)))
           /\ Ahead(op, a, Head(p)) > 0 => Tail(p) # <<>>
           /\ Head(p) \in {"listSessions", "rights"} =>
                /\ Tail(p) # <<>> /\ Tail(Tail(p)) # <<>>
                /\ WellPlanned(op, a, Tail(Tail(p)))
                /\ Follows(op, a, Head(p), Head(Tail(p)))
                /\ Follows(op, a, Head(Tail(p)), Head(Tail(Tail(p))))
<1>1. p \in Seq(Steps)
  BY DEF WellPlanned
<1>2. /\ Len(p) \in Nat /\ Len(p) >= 1 /\ Head(p) = p[1] /\ Head(p) \in Steps
      /\ Suffix(Tail(p), p, 1)
      /\ Len(p) >= 2 => Tail(p) # <<>> /\ Head(Tail(p)) = p[2] /\ Suffix(Tail(Tail(p)), p, 2)
      /\ Len(p) >= 3 => Head(Tail(Tail(p))) = p[3]
  BY <1>1, RestSuffix
<1>3. WellPlanned(op, a, Tail(p))
  BY <1>2, SuffixPlanned
<1>4. 1 \in 1 .. Len(p) /\ Belongs(op, p[1]) /\ 1 + Ahead(op, a, p[1]) <= Len(p)
      /\ (1 < Len(p) => Follows(op, a, p[1], p[2]))
  <2>1. 1 \in 1 .. Len(p) /\ 1 + 1 = 2
    BY <1>2
  <2> QED BY <2>1 DEF WellPlanned
<1>5. Tail(p) # <<>> => Len(p) >= 2
  <2>1. Len(p) = 1 => Len(Tail(p)) = 0 /\ Tail(p) \in Seq(Steps)
    BY <1>2 DEF Suffix
  <2> QED BY <1>2, <2>1, EmptySeq
<1>6. Ahead(op, a, p[1]) \in Nat
  BY DEF Ahead
<1>7. ASSUME Head(p) \in {"listSessions", "rights"}
      PROVE  /\ Tail(p) # <<>> /\ Tail(Tail(p)) # <<>>
             /\ WellPlanned(op, a, Tail(Tail(p)))
             /\ Follows(op, a, Head(p), Head(Tail(p)))
             /\ Follows(op, a, Head(Tail(p)), Head(Tail(Tail(p))))
  <2>1. Len(p) >= 3
    <3>1. Ahead(op, a, p[1]) = 2
      BY <1>2, <1>7 DEF Ahead
    <3> QED BY <1>2, <1>4, <3>1
  <2>2. 2 \in 1 .. Len(p) /\ 2 < Len(p) /\ 2 + 1 = 3
    BY <1>2, <2>1
  <2>3. Follows(op, a, p[2], p[3])
    BY <2>2 DEF WellPlanned
  <2>4. WellPlanned(op, a, Tail(Tail(p)))
    BY <1>2, <2>2, SuffixPlanned
  <2>5. Tail(Tail(p)) # <<>>
    <3>1. Len(Tail(Tail(p))) = Len(p) - 2
      BY <1>2, <2>2 DEF Suffix
    <3> QED BY <2>1, <3>1
  <2> QED BY <1>2, <1>4, <2>1, <2>2, <2>3, <2>4, <2>5
<1>8. ASSUME Ahead(op, a, Head(p)) > 0 PROVE Tail(p) # <<>>
  <2> DEFINE n == Ahead(op, a, p[1])
  <2>1. n \in Nat /\ n > 0 /\ 1 + n <= Len(p)
    BY <1>2, <1>4, <1>6, <1>8
  <2> HIDE DEF n
  <2>2. Len(p) >= 2
    BY <1>2, <2>1
  <2> QED BY <1>2, <2>2
<1>9. Tail(p) # <<>> => Follows(op, a, Head(p), Head(Tail(p)))
  <2>1. ASSUME Len(p) >= 2 PROVE Follows(op, a, Head(p), Head(Tail(p)))
    BY <1>2, <1>4, <2>1
  <2> QED BY <1>5, <2>1
<1> QED BY <1>2, <1>3, <1>4, <1>7, <1>8, <1>9

\* A step that may skip finds its target ahead of it.
LEMMA PlanSkips ==
    ASSUME NEW op, NEW a, NEW p, WellPlanned(op, a, p), p # <<>>, MaySkip(op, Head(p))
    PROVE  LET i == CHOOSE i \in DOMAIN p : p[i] = Target(op, Head(p))
               q == SubSeq(p, i, Len(p))
           IN WellPlanned(op, a, q) /\ q # <<>> /\ Head(q) = Target(op, Head(p))
<1>1. p \in Seq(Steps) /\ Head(p) = p[1] /\ 1 \in 1 .. Len(p)
  BY RestSuffix DEF WellPlanned
<1>2. \E k \in 1 + 1 .. Len(p) : p[k] = Target(op, p[1])
  BY <1>1 DEF WellPlanned
<1>3. \E k \in 2 .. Len(p) : p[k] = Target(op, Head(p))
  BY <1>1, <1>2
<1> DEFINE i == CHOOSE i \in DOMAIN p : p[i] = Target(op, Head(p))
           q == SubSeq(p, i, Len(p))
<1>4. q # <<>> /\ Head(q) = Target(op, Head(p)) /\ \E n \in Nat : Suffix(q, p, n)
  BY <1>1, <1>3, SkipSuffix
<1>5. WellPlanned(op, a, q)
  BY <1>4, SuffixPlanned
<1> QED BY <1>4, <1>5

\* An empty plan is a plan.
LEMMA NothingPlanned == ASSUME NEW op, NEW a PROVE WellPlanned(op, a, <<>>)
<1>1. <<>> \in Seq(Steps) /\ Len(<<>>) = 0
  BY EmptySeq
<1>2. \A i \in 1 .. 0 : FALSE
  OBVIOUS
<1> QED BY <1>1, <1>2 DEF WellPlanned

\* Every way to go on moves the request.
LEMMA KeepsActive ==
    ASSUME NEW j, NEW k, Keeps(j, k)
    PROVE  Active(k) = Active(j)
<1>1. CASE j.op = "status"
  BY <1>1 DEF Keeps, Active
<1>2. CASE j.op # "status"
  BY <1>2 DEF Keeps, Active
<1> QED BY <1>1, <1>2

\* Going on, skipping, staying and answering all leave a well ordered plan.
LEMMA OnToMoves ==
    ASSUME JobShape, NEW c \in Clients, ~Idle(c), NEW p, OnTo(c, p),
           \/ p = <<>>
           \/ p = Rest(c)
           \/ Head(job[c].plan) \in {"listSessions", "rights"} /\ p = Tail(Rest(c))
           \/ MaySkip(job[c].op, Head(job[c].plan)) /\ p = SkipTo(c, Target(job[c].op, Head(job[c].plan)))
           \/ Head(job[c].plan) \in {"provision", "insertScopes"} /\ p = job[c].plan
    PROVE  Proceeds(c)
<1> DEFINE j == job[c]
           k == job'[c]
           q == job[c].plan
<1>1. WellPlanned(j.op, Active(j), q) /\ q # <<>> /\ DOMAIN j = Fields
  BY DEF JobShape, Planned, Idle
<1>2. Keeps(j, k) /\ k.plan = p /\ k.op = j.op /\ DOMAIN k = Fields /\ Active(k) = Active(j)
  BY KeepsActive DEF OnTo, Keeps
<1>3. SUFFICES WellPlanned(j.op, Active(j), p) /\ (p # <<>> => Leads(j.op, Active(j), Head(q), Head(p)))
  BY <1>1, <1>2 DEF Proceeds, Moved, OnTo, Planned
<1> HIDE DEF j, k
<1>4. CASE p = <<>>
  BY <1>4, NothingPlanned
<1>5. CASE p = Rest(c)
  <2>1. WellPlanned(j.op, Active(j), p) /\ (p # <<>> => Follows(j.op, Active(j), Head(q), Head(p)))
    BY <1>1, <1>5, PlansLeft DEF Rest
  <2> QED BY <2>1 DEF Leads
<1>6. CASE Head(q) \in {"listSessions", "rights"} /\ p = Tail(Rest(c))
  <2>1. /\ WellPlanned(j.op, Active(j), p) /\ p = Tail(Tail(q))
        /\ Follows(j.op, Active(j), Head(q), Head(Tail(q)))
        /\ Follows(j.op, Active(j), Head(Tail(q)), Head(p))
    BY <1>1, <1>6, PlansLeft DEF Rest
  <2>2. /\ Head(q) = "listSessions" => Head(Tail(q)) = "removeSessions"
        /\ Head(q) = "rights" => Head(Tail(q)) = "tokenRights"
    BY <2>1 DEF Follows
  <2>3. Leads(j.op, Active(j), Head(q), Head(p))
    BY <1>6, <2>1, <2>2 DEF Leads
  <2> QED BY <2>1, <2>3
<1>7. CASE MaySkip(j.op, Head(q)) /\ p = SkipTo(c, Target(j.op, Head(q)))
  <2>1. WellPlanned(j.op, Active(j), p) /\ Head(p) = Target(j.op, Head(q))
    BY <1>1, <1>7, PlanSkips DEF SkipTo
  <2> QED BY <1>7, <2>1 DEF Leads
<1>8. CASE Head(q) \in {"provision", "insertScopes"} /\ p = q
  BY <1>1, <1>8 DEF Leads
<1> QED BY <1>4, <1>5, <1>6, <1>7, <1>8 DEF j

\* What the ways to change a request do to it.
LEMMA Changes ==
    ASSUME JobShape, NEW c \in Clients, NEW p, NEW k, job' = [job EXCEPT ![c] = k],
           Keeps(job[c], k), k.plan = p
    PROVE  OnTo(c, p) /\ job'[c] = k
BY DEF OnTo, Alone, JobShape

\* Answering empties the plan.
LEMMA Replies == ASSUME JobShape, NEW c \in Clients, NEW code, Reply(c, code)
                 PROVE  Proceeds(c) /\ Idle(c)' /\ job'[c].op = "none" /\ job'[c].reads = {}
<1> DEFINE k == [NoJob EXCEPT !.code = code]
<1>1. job' = [job EXCEPT ![c] = k]
  BY DEF Reply
<1>2. DOMAIN k = Fields /\ k.plan = <<>> /\ k.op = "none" /\ k.reads = {}
  BY DEF NoJob, Fields
<1> HIDE DEF k
<1>3. Planned(k)
  BY <1>2, NothingPlanned DEF Planned
<1>4. Alone(c) /\ job'[c] = k
  BY <1>1 DEF Alone, JobShape
<1>5. Moved(job[c], job'[c])
  BY <1>2, <1>3, <1>4 DEF Moved
<1> QED BY <1>2, <1>4, <1>5 DEF Proceeds, Idle

\* Going on to a plan.
LEMMA Goes1 == ASSUME JobShape, NEW c \in Clients, NEW p, Goto(c, p)
               PROVE  OnTo(c, p) /\ job'[c].mem = job[c].mem /\ job'[c].reads = job[c].reads
                      /\ job'[c].arg = job[c].arg
<1> DEFINE k == [job[c] EXCEPT !.plan = p]
<1>1. job' = [job EXCEPT ![c] = k]
  BY DEF Goto, JobShape
<1>2. /\ DOMAIN k = Fields /\ k.plan = p /\ k.op = job[c].op /\ k.arg = job[c].arg
      /\ k.mem = job[c].mem /\ k.reads = job[c].reads
  BY DEF JobShape, Fields
<1> HIDE DEF k
<1>3. Keeps(job[c], k)
  BY <1>2 DEF Keeps
<1> QED BY <1>1, <1>2, <1>3, Changes

\* Going on to the next step, having read.
LEMMA Relies1 == ASSUME JobShape, NEW c \in Clients, NEW rs, NEW mem, Relies(c, rs, mem)
                 PROVE  OnTo(c, Rest(c)) /\ job'[c].mem = mem /\ job'[c].reads = job[c].reads \cup rs
                        /\ job'[c].arg = job[c].arg
<1> DEFINE k == [job[c] EXCEPT !.plan = Rest(c), !.mem = mem, !.reads = @ \cup rs]
<1>1. job' = [job EXCEPT ![c] = k]
  BY DEF Relies, JobShape
<1>2. /\ DOMAIN k = Fields /\ k.plan = Rest(c) /\ k.op = job[c].op /\ k.arg = job[c].arg
      /\ k.mem = mem /\ k.reads = job[c].reads \cup rs
  BY DEF JobShape, Fields
<1> HIDE DEF k
<1>3. Keeps(job[c], k)
  BY <1>2 DEF Keeps
<1> QED BY <1>1, <1>2, <1>3, Changes

\* Going on to a plan, with what was found.
LEMMA Goes2 == ASSUME JobShape, NEW c \in Clients, NEW p, NEW m,
                      job' = [job EXCEPT ![c].plan = p, ![c].mem = m]
               PROVE  OnTo(c, p) /\ job'[c].mem = m /\ job'[c].reads = job[c].reads
                      /\ job'[c].arg = job[c].arg
<1> DEFINE k == [job[c] EXCEPT !.plan = p, !.mem = m]
<1>1. job' = [job EXCEPT ![c] = k]
  BY DEF JobShape
<1>2. /\ DOMAIN k = Fields /\ k.plan = p /\ k.op = job[c].op /\ k.arg = job[c].arg
      /\ k.mem = m /\ k.reads = job[c].reads
  BY DEF JobShape, Fields
<1> HIDE DEF k
<1>3. Keeps(job[c], k)
  BY <1>2 DEF Keeps
<1> QED BY <1>1, <1>2, <1>3, Changes

\* The request learns who the caller is, or which token is his.
LEMMA Learns ==
    ASSUME JobShape, NEW c \in Clients, NEW p, NEW m, NEW n,
           \/ job' = [job EXCEPT ![c].plan = p, ![c].caller = m]
           \/ job' = [job EXCEPT ![c].plan = p, ![c].token = m]
           \/ job' = [job EXCEPT ![c].plan = p, ![c].caller = m, ![c].token = n]
    PROVE  OnTo(c, p)
<1> DEFINE k1 == [job[c] EXCEPT !.plan = p, !.caller = m]
           k2 == [job[c] EXCEPT !.plan = p, !.token = m]
           k3 == [job[c] EXCEPT !.plan = p, !.caller = m, !.token = n]
<1>1. \/ job' = [job EXCEPT ![c] = k1] \/ job' = [job EXCEPT ![c] = k2] \/ job' = [job EXCEPT ![c] = k3]
  BY DEF JobShape
<1>2. \A k \in {k1, k2, k3} : /\ DOMAIN k = Fields /\ k.plan = p /\ k.op = job[c].op
                              /\ k.arg = job[c].arg /\ k.reads = job[c].reads
  BY DEF JobShape, Fields
<1> HIDE DEF k1, k2, k3
<1>3. \A k \in {k1, k2, k3} : Keeps(job[c], k)
  BY <1>2 DEF Keeps
<1>4. \A k \in {k1, k2, k3} : job' = [job EXCEPT ![c] = k] => OnTo(c, p)
  BY <1>2, <1>3, Changes
<1> QED BY <1>1, <1>4

\* The request goes on to its next step, or is refused.
LEMMA Advances ==
    ASSUME JobShape, NEW c \in Clients, ~Idle(c), NEW code, NEW ok
    PROVE  /\ Advance(c) => Proceeds(c)
           /\ AdvanceOr(c, ok, code) => Proceeds(c)
           /\ \A rs, mem : Relies(c, rs, mem) => Proceeds(c)
           /\ \A mem : job' = [job EXCEPT ![c].plan = Rest(c), ![c].mem = mem] => Proceeds(c)
           /\ \A mem : job' = [job EXCEPT ![c].plan = Rest(c), ![c].caller = mem] => Proceeds(c)
<1>1. OnTo(c, Rest(c)) => Proceeds(c)
  BY OnToMoves
<1>2. Advance(c) => Proceeds(c)
  BY <1>1, Goes1 DEF Advance
<1>3. AdvanceOr(c, ok, code) => Proceeds(c)
  BY <1>2, Replies DEF AdvanceOr
<1>4. ASSUME NEW rs, NEW mem, Relies(c, rs, mem) PROVE Proceeds(c)
  BY <1>1, <1>4, Relies1
<1>5. ASSUME NEW mem, job' = [job EXCEPT ![c].plan = Rest(c), ![c].mem = mem] PROVE Proceeds(c)
  BY <1>1, <1>5, Goes2
<1>6. ASSUME NEW mem, job' = [job EXCEPT ![c].plan = Rest(c), ![c].caller = mem] PROVE Proceeds(c)
  BY <1>1, <1>6, Learns
<1> QED BY <1>2, <1>3, <1>4, <1>5, <1>6

\* The step a request is at.
LEMMA AtStep ==
    ASSUME JobShape, NEW c \in Clients, NEW x, At(c, x)
    PROVE  ~Idle(c) /\ Head(job[c].plan) = x /\ Belongs(job[c].op, x)
BY PlansLeft DEF At, Idle, JobShape, Planned

\* A request that skips ahead.
LEMMA SkipsMove ==
    ASSUME JobShape, NEW c \in Clients, NEW x, At(c, x), NEW y,
           MaySkip(job[c].op, x), y = Target(job[c].op, x)
    PROVE  /\ OnTo(c, SkipTo(c, y)) => Proceeds(c)
           /\ Goto(c, SkipTo(c, y)) => Proceeds(c)
           /\ \A m : job' = [job EXCEPT ![c].plan = SkipTo(c, y), ![c].mem = m] => Proceeds(c)
           /\ \A m : job' = [job EXCEPT ![c].plan = SkipTo(c, y), ![c].caller = m] => Proceeds(c)
           /\ \A m, n : job' = [job EXCEPT ![c].plan = SkipTo(c, y), ![c].caller = m, ![c].token = n]
                          => Proceeds(c)
<1>1. ~Idle(c) /\ Head(job[c].plan) = x
  BY AtStep
<1>2. OnTo(c, SkipTo(c, y)) => Proceeds(c)
  BY <1>1, OnToMoves
<1>3. Goto(c, SkipTo(c, y)) => Proceeds(c)
  BY <1>2, Goes1
<1>4. ASSUME NEW m, job' = [job EXCEPT ![c].plan = SkipTo(c, y), ![c].mem = m] PROVE Proceeds(c)
  BY <1>2, <1>4, Goes2
<1>5. ASSUME NEW m, job' = [job EXCEPT ![c].plan = SkipTo(c, y), ![c].caller = m] PROVE Proceeds(c)
  BY <1>2, <1>5, Learns
<1>6. ASSUME NEW m, NEW n, job' = [job EXCEPT ![c].plan = SkipTo(c, y), ![c].caller = m, ![c].token = n]
      PROVE  Proceeds(c)
  BY <1>2, <1>6, Learns
<1> QED BY <1>2, <1>3, <1>4, <1>5, <1>6

\* The steps of authentication move the request on.
LEMMA AuthenticationMoves ==
    ASSUME JobShape, NEW c \in Clients, ~Idle(c), AuthenticationStep(c) PROVE Proceeds(c)
<1>1. CASE Identify(c)
  <2>1. At(c, "identify") /\ (job[c].op \in {"repository", "dockerToken"} =>
                                MaySkip(job[c].op, "identify") /\ Target(job[c].op, "identify") = "rights")
    BY <1>1 DEF Identify, MaySkip, Target
  <2>2. \/ \E m : Relies(c, {}, m)
        \/ job[c].op \in {"repository", "dockerToken"} /\ Goto(c, SkipTo(c, "rights"))
        \/ Reply(c, 401)
    BY <1>1 DEF Identify
  <2> QED BY <2>1, <2>2, Advances, SkipsMove, Replies
<1>2. CASE Caller(c)
  BY <1>2, Advances, Replies DEF Caller
<1>3. CASE BySession(c) \/ OnlySession(c) \/ ByManager(c) \/ BySystem(c)
  BY <1>3, Advances DEF BySession, OnlySession, ByManager, BySystem
<1>4. CASE Looks(c)
  BY <1>4, Replies DEF Looks
<1> QED BY <1>1, <1>2, <1>3, <1>4 DEF AuthenticationStep

\* So do the steps of the session routes,
LEMMA SessionMoves == ASSUME JobShape, NEW c \in Clients, ~Idle(c), SessionStep(c) PROVE Proceeds(c)
<1>1. CASE Login(c)
  BY <1>1, Advances, Replies DEF Login
<1>2. CASE CreateSession(c)
  BY <1>2, Advances DEF CreateSession
<1>3. CASE DeleteSession(c) \/ CleanTokens(c)
  BY <1>3, Replies DEF DeleteSession, CleanTokens
<1>4. CASE ListSessions(c)
  <2> DEFINE p == IF SessionsOf(Arg(c).id) = {} THEN Tail(Rest(c)) ELSE Rest(c)
             m == [found |-> SessionsOf(Arg(c).id)]
  <2>1. At(c, "listSessions") /\ job' = [job EXCEPT ![c].plan = p, ![c].mem = m]
    BY <1>4 DEF ListSessions
  <2>2. p = Rest(c) \/ p = Tail(Rest(c))
    OBVIOUS
  <2> HIDE DEF p, m
  <2>3. OnTo(c, p) /\ Head(job[c].plan) = "listSessions"
    BY <2>1, Goes2, AtStep
  <2> QED BY <2>2, <2>3, OnToMoves
<1>5. CASE RemoveSessions(c)
  BY <1>5, Advances DEF RemoveSessions
<1>6. CASE CleanList(c)
  BY <1>6, Advances DEF CleanList
<1> QED BY <1>1, <1>2, <1>3, <1>4, <1>5, <1>6 DEF SessionStep

\* those of the user routes,
LEMMA UserMoves == ASSUME JobShape, NEW c \in Clients, ~Idle(c), UserStep(c) PROVE Proceeds(c)
<1>1. CASE FindUser(c)
  BY <1>1, Advances, Replies DEF FindUser
<1>2. CASE CountAdmins(c) \/ SetActive(c) \/ CheckName(c) \/ CheckEmail(c) \/ SetFlags(c)
  BY <1>2, Advances DEF CountAdmins, SetActive, CheckName, CheckEmail, SetFlags
<1>3. CASE DeleteUser(c) \/ Answers(c) \/ InsertUser(c) \/ Reread(c) \/ SetPermission(c)
  BY <1>3, Replies DEF DeleteUser, Answers, InsertUser, Reread, SetPermission
<1>4. CASE AsCaller(c)
  <2> DEFINE a == [job[c].arg EXCEPT !.id = job[c].caller.id]
             k == [job[c] EXCEPT !.plan = Rest(c), !.mem = job[c].caller, !.arg = a]
  <2>1. job' = [job EXCEPT ![c] = k] /\ At(c, "asCaller")
    BY <1>4 DEF AsCaller, JobShape, Arg, Fields
  <2>5. a.email = job[c].arg.email
    OBVIOUS
  <2> HIDE DEF a
  <2>2. /\ DOMAIN k = Fields /\ k.plan = Rest(c) /\ k.op = job[c].op /\ k.reads = job[c].reads
        /\ k.arg.email = job[c].arg.email
    BY <2>5 DEF JobShape, Fields
  <2> HIDE DEF k
  <2>3. job[c].op = "changeEmail"
    BY <2>1, AtStep DEF Belongs
  <2>4. Keeps(job[c], k)
    BY <2>2, <2>3 DEF Keeps
  <2> QED BY <2>1, <2>2, <2>4, Changes, OnToMoves
<1>5. CASE SetEmail(c) \/ SetName(c)
  <2>1. Advance(c) \/ Reply(c, 500)
    BY <1>5 DEF SetEmail, SetName, SetColumn
  <2> QED BY <2>1, Advances, Replies
<1> QED BY <1>1, <1>2, <1>3, <1>4, <1>5 DEF UserStep

\* those of the password routes,
LEMMA PasswordMoves == ASSUME JobShape, NEW c \in Clients, ~Idle(c), PasswordStep(c) PROVE Proceeds(c)
<1>1. CASE SetPassword(c) \/ ResetUser(c)
  BY <1>1, Advances DEF SetPassword, ResetUser
<1>2. CASE CheckPassword(c) \/ FindEmail(c) \/ FindReset(c)
  BY <1>2, Advances, Replies DEF CheckPassword, FindEmail, FindReset
<1>3. CASE CreateReset(c) \/ SetUsed(c) \/ CheckReset(c)
  BY <1>3, Replies DEF CreateReset, SetUsed, CheckReset
<1> QED BY <1>1, <1>2, <1>3 DEF PasswordStep

\* those of the tokens,
LEMMA TokenMoves == ASSUME JobShape, NEW c \in Clients, ~Idle(c), TokenStep(c) PROVE Proceeds(c)
<1>1. CASE InsertToken(c)
  BY <1>1, Advances, Replies DEF InsertToken
<1>2. CASE InsertScope(c)
  <2>1. At(c, "insertScopes") /\ Head(job[c].plan) = "insertScopes"
    BY <1>2, AtStep DEF InsertScope
  <2>2. \/ Advance(c) \/ Reply(c, 500)
        \/ \E a : job' = [job EXCEPT ![c].mem.left = @ \ {a}]
    BY <1>2 DEF InsertScope
  <2>3. ASSUME NEW a, job' = [job EXCEPT ![c].mem.left = @ \ {a}] PROVE Proceeds(c)
    <3> DEFINE k == [job[c] EXCEPT !.mem.left = @ \ {a}]
    <3>1. job' = [job EXCEPT ![c] = k]
      BY <2>3 DEF JobShape
    <3>2. /\ DOMAIN k = Fields /\ k.plan = job[c].plan /\ k.op = job[c].op /\ k.arg = job[c].arg
          /\ k.reads = job[c].reads
      BY DEF JobShape, Fields
    <3> HIDE DEF k
    <3>3. Keeps(job[c], k)
      BY <3>2 DEF Keeps
    <3>4. OnTo(c, job[c].plan)
      BY <3>1, <3>2, <3>3, Changes
    <3> QED BY <2>1, <3>4, OnToMoves
  <2> QED BY <2>2, <2>3, Advances, Replies
<1>3. CASE InsertRepositories(c) \/ DeleteToken(c)
  BY <1>3, Replies DEF InsertRepositories, DeleteToken
<1>4. CASE FindToken(c) \/ TokenRights(c)
  BY <1>4, Advances DEF FindToken, TokenRights
<1>5. CASE Anonymous(c)
  <2>1. At(c, "anonymous") /\ MaySkip(job[c].op, "anonymous") /\ "rights" = Target(job[c].op, "anonymous")
    BY <1>5 DEF Anonymous, MaySkip, Skipping, Target
  <2>2. Goto(c, SkipTo(c, "rights")) \/ Advance(c)
    BY <1>5 DEF Anonymous
  <2> QED BY <2>1, <2>2, Advances, SkipsMove
<1>6. CASE VerifyBasic(c)
  <2>1. At(c, "verifyBasic") /\ MaySkip(job[c].op, "verifyBasic")
        /\ "rights" = Target(job[c].op, "verifyBasic")
    BY <1>6 DEF VerifyBasic, MaySkip, Skipping, Target
  <2>2. Advance(c) \/ \E m : job' = [job EXCEPT ![c].plan = SkipTo(c, "rights"), ![c].caller = m]
    BY <1>6 DEF VerifyBasic
  <2> QED BY <2>1, <2>2, Advances, SkipsMove
<1>7. CASE CachedToken(c)
  <2>1. At(c, "cachedToken") /\ MaySkip(job[c].op, "cachedToken")
        /\ "rights" = Target(job[c].op, "cachedToken")
    BY <1>7 DEF CachedToken, MaySkip, Skipping, Target
  <2>2. \/ Advance(c) \/ Reply(c, 401)
        \/ \E m, n : job' = [job EXCEPT ![c].plan = SkipTo(c, "rights"), ![c].caller = m, ![c].token = n]
    BY <1>7 DEF CachedToken
  <2>3. \A m, n : job' = [job EXCEPT ![c].plan = SkipTo(c, "rights"), ![c].caller = m, ![c].token = n]
                  => Proceeds(c)
    BY <2>1, SkipsMove
  <2> QED BY <2>2, <2>3, Advances, Replies
<1>8. CASE ReadToken(c)
  <2>1. Reply(c, 401) \/ \E m : job' = [job EXCEPT ![c].plan = Rest(c), ![c].token = m]
    BY <1>8 DEF ReadToken
  <2>2. ASSUME NEW m, job' = [job EXCEPT ![c].plan = Rest(c), ![c].token = m] PROVE Proceeds(c)
    BY <2>2, Learns, OnToMoves
  <2> QED BY <2>1, <2>2, Replies
<1>9. CASE ReadOwner(c)
  BY <1>9, Advances, Replies DEF ReadOwner
<1>10. CASE CacheToken(c) \/ DockerToken(c)
  BY <1>10, Advances, Replies DEF CacheToken, DockerToken
<1>11. CASE Rights(c)
  <2>1. At(c, "rights") /\ Head(job[c].plan) = "rights"
    BY <1>11, AtStep DEF Rights
  <2>2. \/ Goto(c, Tail(Rest(c))) \/ Reply(c, 401)
        \/ AdvanceOr(c, Allows(job[c].caller, Arg(c).repo, Arg(c).action), 403)
    BY <1>11 DEF Rights
  <2>3. ASSUME Goto(c, Tail(Rest(c))) PROVE Proceeds(c)
    BY <2>1, <2>3, Goes1, OnToMoves
  <2> QED BY <2>2, <2>3, Advances, Replies
<1> QED BY <1>1, <1>2, <1>3, <1>4, <1>5, <1>6, <1>7, <1>8, <1>9, <1>10, <1>11 DEF TokenStep

\* A principal's user is found, and the request goes on with it.
LEMMA AdmitMoves ==
    ASSUME JobShape, NEW c \in Clients, NEW x \in {"matchEmail", "matchName"}, At(c, x), NEW u,
           Admit(c, u, AfterUser(c))
    PROVE  Proceeds(c)
<1>1. CASE Denied(c)
  BY <1>1, Replies DEF Denied
<1>2. CASE ~Denied(c)
  <2> DEFINE p == SkipTo(c, AfterUser(c))
             k == [job[c] EXCEPT !.plan = p, !.mem = RowOf(u), !.reads = @ \cup {<<"user", u>>}]
  <2>1. job' = [job EXCEPT ![c] = k]
    BY <1>2 DEF Admit, JobShape
  <2>2. /\ DOMAIN k = Fields /\ k.plan = p /\ k.op = job[c].op /\ k.arg = job[c].arg
        /\ k.reads = job[c].reads \cup {<<"user", u>>}
    BY DEF JobShape, Fields
  <2> HIDE DEF k
  <2>3. Keeps(job[c], k)
    BY <2>2 DEF Keeps
  <2>4. OnTo(c, p)
    BY <2>1, <2>2, <2>3, Changes
  <2>5. MaySkip(job[c].op, x) /\ AfterUser(c) = Target(job[c].op, x)
    BY DEF MaySkip, Skipping, Target, AfterUser
  <2> QED BY <2>4, <2>5, SkipsMove
<1> QED BY <1>1, <1>2

\* A callback notes what it knows of the roles.
LEMMA RolesMove ==
    ASSUME JobShape, NEW c \in Clients, NEW x \in {"checkRoles", "applyRoles"}, At(c, x), NEW y, NEW z,
           \/ job' = [job EXCEPT ![c].plan = Rest(c), ![c].arg = [Arg(c) EXCEPT !.rbac = y, !.had = z]]
           \/ job' = [job EXCEPT ![c].plan = Rest(c), ![c].arg = [Arg(c) EXCEPT !.had = z]]
    PROVE  OnTo(c, Rest(c)) /\ job'[c].mem = job[c].mem /\ job'[c].reads = job[c].reads
           /\ job'[c].arg.id = job[c].arg.id
<1> DEFINE a1 == [job[c].arg EXCEPT !.rbac = y, !.had = z]
           a2 == [job[c].arg EXCEPT !.had = z]
           k1 == [job[c] EXCEPT !.plan = Rest(c), !.arg = a1]
           k2 == [job[c] EXCEPT !.plan = Rest(c), !.arg = a2]
<1>1. /\ a1.id = job[c].arg.id /\ a2.id = job[c].arg.id
      /\ a1.who = job[c].arg.who /\ a2.who = job[c].arg.who
  OBVIOUS
<1> HIDE DEF a1, a2
<1>2. job' = [job EXCEPT ![c] = k1] \/ job' = [job EXCEPT ![c] = k2]
  BY DEF JobShape, Arg, a1, a2
<1>3. \A k \in {k1, k2} : /\ DOMAIN k = Fields /\ k.plan = Rest(c) /\ k.op = job[c].op
                          /\ k.arg.id = job[c].arg.id /\ k.reads = job[c].reads /\ k.mem = job[c].mem
                            /\ k.arg.who = job[c].arg.who
  BY <1>1 DEF JobShape, Fields
<1> HIDE DEF k1, k2
<1>4. job[c].op = "callback"
  BY AtStep DEF Belongs
<1>5. \A k \in {k1, k2} : Keeps(job[c], k)
  BY <1>3, <1>4 DEF Keeps
<1>6. \A k \in {k1, k2} : job' = [job EXCEPT ![c] = k] => OnTo(c, Rest(c)) /\ job'[c] = k
  BY <1>3, <1>5, Changes
<1> QED BY <1>2, <1>3, <1>6

\* those of the login states,
LEMMA StateMoves ==
    ASSUME JobShape, NEW c \in Clients, ~Idle(c),
           \/ BeginAuthorization(c) \/ PruneStates(c) \/ PersistState(c) \/ TakeState(c)
           \/ LoadState(c) \/ Exchange(c) \/ ForgetState(c) \/ VerifyToken(c) \/ CheckRoles(c)
    PROVE  Proceeds(c)
<1>1. CASE BeginAuthorization(c)
  BY <1>1, Advances, Replies DEF BeginAuthorization, Goes
<1>2. CASE PruneStates(c) \/ ForgetState(c) \/ VerifyToken(c)
  BY <1>2, Advances DEF PruneStates, ForgetState, VerifyToken
<1>3. CASE PersistState(c)
  BY <1>3, Replies DEF PersistState
<1>4. CASE TakeState(c)
  <2> DEFINE p == SkipTo(c, "exchange")
             k == [job[c] EXCEPT !.plan = p, !.reads = {StateOf(c)}, !.mem = [row |-> FALSE]]
  <2>1. At(c, "take") /\ Head(job[c].plan) = "take"
    BY <1>4, AtStep DEF TakeState
  <2>2. Reply(c, 404) \/ Advance(c) \/ job' = [job EXCEPT ![c] = k]
    BY <1>4 DEF TakeState, JobShape
  <2>3. /\ DOMAIN k = Fields /\ k.plan = p /\ k.op = job[c].op /\ k.arg = job[c].arg
    BY DEF JobShape, Fields
  <2> HIDE DEF k
  <2>4. Keeps(job[c], k)
    BY <2>1, <2>3 DEF Keeps
  <2>5. MaySkip(job[c].op, "take") /\ "exchange" = Target(job[c].op, "take")
    BY DEF MaySkip, Skipping, Target
  <2>6. job' = [job EXCEPT ![c] = k] => Proceeds(c)
    BY <2>1, <2>3, <2>4, <2>5, Changes, SkipsMove
  <2> QED BY <2>2, <2>6, Advances, Replies
<1>5. CASE LoadState(c)
  <2>1. At(c, "load") /\ MaySkip(job[c].op, "load") /\ "forget" = Target(job[c].op, "load")
    BY <1>5 DEF LoadState, MaySkip, Skipping, Target
  <2>2. \/ Reply(c, 400)
        \/ \E m : job' = [job EXCEPT ![c].plan = SkipTo(c, "forget"), ![c].mem = m]
        \/ \E rs, m : Relies(c, rs, m)
    BY <1>5 DEF LoadState, Skips
  <2> QED BY <2>1, <2>2, Advances, SkipsMove, Replies
<1>6. CASE Exchange(c)
  BY <1>6, Advances, Replies DEF Exchange, Goes
<1>7. CASE CheckRoles(c)
  <2>1. \/ Denied(c)
        \/ \E y, z : job' = [job EXCEPT ![c].plan = Rest(c), ![c].arg = [Arg(c) EXCEPT !.rbac = y, !.had = z]]
    BY <1>7 DEF CheckRoles
  <2>2. At(c, "checkRoles")
    BY <1>7 DEF CheckRoles
  <2> QED BY <2>1, <2>2, RolesMove, OnToMoves, Replies DEF Denied
<1> QED BY <1>1, <1>2, <1>3, <1>4, <1>5, <1>6, <1>7

\* those that find the user of a login
LEMMA PrincipalMoves ==
    ASSUME JobShape, NEW c \in Clients, ~Idle(c),
           \/ MatchEmail(c) \/ MatchName(c) \/ Provision(c) \/ ApplyRoles(c) \/ SyncFlags(c)
           \/ LoggedFailure(c)
    PROVE  Proceeds(c)
<1>1. CASE MatchEmail(c)
  <2>1. At(c, "matchEmail") /\ ((\E rs, m : Relies(c, rs, m)) \/ \E u : Admit(c, u, AfterUser(c)))
    BY <1>1 DEF MatchEmail
  <2> QED BY <2>1, Advances, AdmitMoves
<1>2. CASE MatchName(c)
  <2>1. /\ At(c, "matchName")
        /\ Denied(c) \/ (\E rs, m : Relies(c, rs, m)) \/ \E u : Admit(c, u, AfterUser(c))
    BY <1>2 DEF MatchName
  <2> QED BY <2>1, Advances, AdmitMoves, Replies DEF Denied
<1>3. CASE Provision(c)
  <2>1. At(c, "provision") /\ Head(job[c].plan) = "provision"
    BY <1>3, AtStep DEF Provision
  <2>2. \/ job' = [job EXCEPT ![c].mem.attempt = @ + 1] \/ Reply(c, 409)
        \/ \E rs, m : Relies(c, rs, m)
    BY <1>3 DEF Provision
  <2>3. ASSUME job' = [job EXCEPT ![c].mem.attempt = @ + 1] PROVE Proceeds(c)
    <3> DEFINE k == [job[c] EXCEPT !.mem.attempt = @ + 1]
    <3>1. job' = [job EXCEPT ![c] = k]
      BY <2>3 DEF JobShape
    <3>2. /\ DOMAIN k = Fields /\ k.plan = job[c].plan /\ k.op = job[c].op /\ k.arg = job[c].arg
          /\ k.reads = job[c].reads
      BY DEF JobShape, Fields
    <3> HIDE DEF k
    <3>3. Keeps(job[c], k)
      BY <3>2 DEF Keeps
    <3>4. OnTo(c, job[c].plan)
      BY <3>1, <3>2, <3>3, Changes
    <3> QED BY <2>1, <3>4, OnToMoves
  <2> QED BY <2>2, <2>3, Advances, Replies
<1>4. CASE ApplyRoles(c)
  <2>1. At(c, "applyRoles")
        /\ \E z : job' = [job EXCEPT ![c].plan = Rest(c), ![c].arg = [Arg(c) EXCEPT !.had = z]]
    BY <1>4 DEF ApplyRoles
  <2> QED BY <2>1, RolesMove, OnToMoves
<1>5. CASE SyncFlags(c)
  BY <1>5, Advances DEF SyncFlags
<1>6. CASE LoggedFailure(c)
  BY <1>6, Advances DEF LoggedFailure
<1> QED BY <1>1, <1>2, <1>3, <1>4, <1>5, <1>6

\* and those of the keys and the settings.
LEMMA SettingMoves ==
    ASSUME JobShape, NEW c \in Clients, ~Idle(c),
           \/ CachedKey(c) \/ FetchKeys(c) \/ StoreKeys(c) \/ SsoRoles(c) \/ SetSetting(c)
           \/ StoreSetting(c)
    PROVE  Proceeds(c)
<1>1. CASE CachedKey(c)
  <2>1. At(c, "cachedKey") /\ MaySkip(job[c].op, "cachedKey")
        /\ "matchEmail" = Target(job[c].op, "cachedKey")
    BY <1>1 DEF CachedKey, MaySkip, Skipping, Target
  <2>2. Reply(c, 404) \/ Goto(c, SkipTo(c, "matchEmail")) \/ Advance(c)
    BY <1>1 DEF CachedKey
  <2> QED BY <2>1, <2>2, Advances, SkipsMove, Replies
<1>2. CASE FetchKeys(c)
  BY <1>2, Advances, Replies DEF FetchKeys, Goes
<1>3. CASE StoreKeys(c)
  BY <1>3, Advances DEF StoreKeys
<1>4. CASE SsoRoles(c) \/ StoreSetting(c)
  BY <1>4, Replies DEF SsoRoles, StoreSetting
<1>5. CASE SetSetting(c)
  BY <1>5, Advances DEF SetSetting
<1> QED BY <1>1, <1>2, <1>3, <1>4, <1>5

\* Every step of a request moves it and no other.
LEMMA StepMoves ==
    ASSUME JobShape, NEW c \in Clients, AccountsStep(c) \/ LoginStep(c)
    PROVE  Proceeds(c) /\ ~Idle(c)
<1>1. CASE AccountsStep(c)
  <2>1. CASE StepFails(c)
    BY <1>1, <2>1, Replies DEF StepFails, AccountsStep
  <2> QED BY <1>1, <2>1, AuthenticationMoves, SessionMoves, UserMoves, PasswordMoves, TokenMoves
          DEF AccountsStep
<1>2. CASE LoginStep(c)
  BY <1>2, StateMoves, PrincipalMoves, SettingMoves DEF LoginStep
<1> QED BY <1>1, <1>2

\* What a step at x does to the tables, as far as the invariants look at them.
UserSteps == {"setActive", "deleteUser", "insertUser", "setEmail", "setName", "setFlags",
              "setPassword", "provision", "syncFlags"}
StateSteps == {"begin", "prune", "persist", "take", "load", "exchange", "forget", "setSetting"}
SameStates ==
    /\ external'.memory = external.memory /\ external'.stored = external.stored
    /\ external'.issued = external.issued /\ external'.taken = external.taken
    /\ external'.logins = external.logins
SameSettings == external'.settings = external.settings /\ external'.saved = external.saved
Counts ==
    /\ DOMAIN used' = DOMAIN used /\ used'.ids \in Nat /\ used.ids <= used'.ids
    /\ DOMAIN external' = DOMAIN external
Grows ==
    /\ raced \subseteq raced' /\ broken \subseteq broken' /\ DOMAIN changed \subseteq DOMAIN changed'
Effects(c, x) ==
    /\ At(c, x) /\ Counts /\ Grows /\ now' = now
    /\ x \notin UserSteps => users' = users
    /\ x \notin {"createSession", "deleteSession", "removeSessions"} => sessions' = sessions
    /\ x \notin {"deleteUser", "setPassword", "createReset", "setUsed"} => resets' = resets
    /\ x \notin {"setSetting", "storeSetting"} => SameSettings
    /\ x \notin StateSteps => SameStates

\* The steps an invariant looks at by name.
NamedUsers(c, x) ==
    /\ x = "findUser" => FindUser(c)
    /\ x = "countAdmins" => CountAdmins(c)
    /\ x = "setActive" => SetActive(c)
    /\ x = "deleteUser" => DeleteUser(c)
    /\ x = "insertUser" => InsertUser(c)
    /\ x = "setEmail" => SetEmail(c)
    /\ x = "setName" => SetName(c)
    /\ x = "setFlags" => SetFlags(c)
    /\ x = "provision" => Provision(c)
    /\ x = "syncFlags" => SyncFlags(c)
NamedSessions(c, x) ==
    /\ x = "verify" => Login(c)
    /\ x = "createSession" => CreateSession(c)
    /\ x = "deleteSession" => DeleteSession(c)
    /\ x = "listSessions" => ListSessions(c)
    /\ x = "removeSessions" => RemoveSessions(c)
    /\ x = "matchEmail" => MatchEmail(c)
    /\ x = "matchName" => MatchName(c)
    /\ x = "applyRoles" => ApplyRoles(c)
NamedResets(c, x) ==
    /\ x = "setPassword" => SetPassword(c)
    /\ x = "createReset" => CreateReset(c)
    /\ x = "findReset" => FindReset(c)
    /\ x = "resetUser" => ResetUser(c)
    /\ x = "setUsed" => SetUsed(c)
    /\ x = "setSetting" => SetSetting(c)
    /\ x = "storeSetting" => StoreSetting(c)
NamedStates(c, x) ==
    /\ x = "begin" => BeginAuthorization(c)
    /\ x = "prune" => PruneStates(c)
    /\ x = "persist" => PersistState(c)
    /\ x = "take" => TakeState(c)
    /\ x = "load" => LoadState(c)
    /\ x = "exchange" => Exchange(c)
    /\ x = "forget" => ForgetState(c)
Named(c, x) == NamedUsers(c, x) /\ NamedSessions(c, x) /\ NamedResets(c, x) /\ NamedStates(c, x)
Does(c, x) == Effects(c, x) /\ Named(c, x)

\* A step that reads changes no table.
LEMMA ReadsOnly ==
    ASSUME Shape, NEW c, NEW x, At(c, x), Reads \/ InState, external' = external
    PROVE  Effects(c, x)
BY DEF Shape, Effects, Counts, Grows, SameStates, SameSettings, Reads, InState, InLogin, historyVars,
       userVars, grantVars

\* What the steps of authentication change.
LEMMA AuthenticationDoes ==
    ASSUME Shape, NEW c, AuthenticationStep(c) PROVE \E x : Does(c, x)
<1>1. \E x \in {"identify", "caller", "bySession", "onlySession", "byManager", "bySystem", "look"} :
        At(c, x) /\ Reads
  BY DEF AuthenticationStep, Identify, Caller, BySession, OnlySession, ByManager, BySystem, Looks
<1>2. \A x \in {"identify", "caller", "bySession", "onlySession", "byManager", "bySystem", "look"} :
        Named(c, x)
  BY DEF Named, NamedUsers, NamedSessions, NamedResets, NamedStates
<1>3. Reads => external' = external
  BY DEF Reads
<1> QED BY <1>1, <1>2, <1>3, ReadsOnly DEF Does

\* What the steps of the session routes change.
LEMMA SessionDoes == ASSUME Shape, NEW c, SessionStep(c) PROVE \E x : Does(c, x)
<1>1. CASE Login(c)
  <2>1. Effects(c, "verify")
    BY <1>1, ReadsOnly DEF Login, Reads
  <2>2. Named(c, "verify")
    BY <1>1 DEF Named, NamedUsers, NamedSessions, NamedResets, NamedStates
  <2> QED BY <2>1, <2>2 DEF Does
<1>2. CASE CreateSession(c)
  <2>1. Effects(c, "createSession")
    BY <1>2 DEF Shape, CreateSession, Effects, Counts, Grows, SameStates, SameSettings, TakesId, Touch,
            userVars, grantVars
  <2>2. Named(c, "createSession")
    BY <1>2 DEF Named, NamedUsers, NamedSessions, NamedResets, NamedStates
  <2> QED BY <2>1, <2>2 DEF Does
<1>3. CASE DeleteSession(c)
  <2>1. Effects(c, "deleteSession")
    BY <1>3 DEF Shape, DeleteSession, Effects, Counts, Grows, SameStates, SameSettings, historyVars,
            userVars, grantVars
  <2>2. Named(c, "deleteSession")
    BY <1>3 DEF Named, NamedUsers, NamedSessions, NamedResets, NamedStates
  <2> QED BY <2>1, <2>2 DEF Does
<1>4. CASE ListSessions(c)
  <2>1. Effects(c, "listSessions")
    BY <1>4, ReadsOnly DEF ListSessions, Reads
  <2>2. Named(c, "listSessions")
    BY <1>4 DEF Named, NamedUsers, NamedSessions, NamedResets, NamedStates
  <2> QED BY <2>1, <2>2 DEF Does
<1>5. CASE RemoveSessions(c)
  <2>1. Effects(c, "removeSessions")
    BY <1>5 DEF Shape, RemoveSessions, Effects, Counts, Grows, SameStates, SameSettings, historyVars,
            userVars, grantVars
  <2>2. Named(c, "removeSessions")
    BY <1>5 DEF Named, NamedUsers, NamedSessions, NamedResets, NamedStates
  <2> QED BY <2>1, <2>2 DEF Does
<1>6. CASE CleanList(c)
  <2>1. Effects(c, "cleanList")
    BY <1>6, ReadsOnly DEF CleanList, Reads
  <2>2. Named(c, "cleanList")
    BY DEF Named, NamedUsers, NamedSessions, NamedResets, NamedStates
  <2> QED BY <2>1, <2>2 DEF Does
<1>7. CASE CleanTokens(c)
  <2>1. Effects(c, "cleanTokens")
    BY <1>7 DEF Shape, CleanTokens, Effects, Counts, Grows, SameStates, SameSettings, InTables,
            userVars, grantVars
  <2>2. Named(c, "cleanTokens")
    BY DEF Named, NamedUsers, NamedSessions, NamedResets, NamedStates
  <2> QED BY <2>1, <2>2 DEF Does
<1> QED BY <1>1, <1>2, <1>3, <1>4, <1>5, <1>6, <1>7 DEF SessionStep

\* What the steps about users do.
LEMMA UserDoes ==
    ASSUME Shape, NEW c, UserStep(c) PROVE \E x : Does(c, x)
<1>1. CASE FindUser(c)
  <2>1. Effects(c, "findUser")
    BY <1>1, ReadsOnly DEF FindUser, Reads
  <2>2. Named(c, "findUser")
    BY <1>1 DEF Named, NamedUsers, NamedSessions, NamedResets, NamedStates
  <2> QED BY <2>1, <2>2 DEF Does
<1>2. CASE CountAdmins(c)
  <2>1. Effects(c, "countAdmins")
    BY <1>2, ReadsOnly DEF CountAdmins, Reads
  <2>2. Named(c, "countAdmins")
    BY <1>2 DEF Named, NamedUsers, NamedSessions, NamedResets, NamedStates
  <2> QED BY <2>1, <2>2 DEF Does
<1>3. CASE SetActive(c)
  <2>1. Effects(c, "setActive")
    BY <1>3 DEF Shape, SetActive, Effects, Counts, Grows, SameStates, SameSettings, historyVars,
           userVars, grantVars, UserSteps, StateSteps, InTables, Touch, Changed
  <2>2. Named(c, "setActive")
    BY <1>3 DEF Named, NamedUsers, NamedSessions, NamedResets, NamedStates
  <2> QED BY <2>1, <2>2 DEF Does
<1>4. CASE DeleteUser(c)
  <2>1. Effects(c, "deleteUser")
    BY <1>4 DEF Shape, DeleteUser, Effects, Counts, Grows, SameStates, SameSettings, historyVars,
           userVars, grantVars, UserSteps, StateSteps, InTables, Touch, Changed
  <2>2. Named(c, "deleteUser")
    BY <1>4 DEF Named, NamedUsers, NamedSessions, NamedResets, NamedStates
  <2> QED BY <2>1, <2>2 DEF Does
<1>5. CASE Answers(c)
  <2>1. Effects(c, "answer")
    BY <1>5, ReadsOnly DEF Answers, Reads
  <2>2. Named(c, "answer")
    BY DEF Named, NamedUsers, NamedSessions, NamedResets, NamedStates
  <2> QED BY <2>1, <2>2 DEF Does
<1>6. CASE AsCaller(c)
  <2>1. Effects(c, "asCaller")
    BY <1>6, ReadsOnly DEF AsCaller, Reads
  <2>2. Named(c, "asCaller")
    BY DEF Named, NamedUsers, NamedSessions, NamedResets, NamedStates
  <2> QED BY <2>1, <2>2 DEF Does
<1>7. CASE CheckName(c)
  <2>1. Effects(c, "checkName")
    BY <1>7, ReadsOnly DEF CheckName, Reads
  <2>2. Named(c, "checkName")
    BY DEF Named, NamedUsers, NamedSessions, NamedResets, NamedStates
  <2> QED BY <2>1, <2>2 DEF Does
<1>8. CASE CheckEmail(c)
  <2>1. Effects(c, "checkEmail")
    BY <1>8, ReadsOnly DEF CheckEmail, Reads
  <2>2. Named(c, "checkEmail")
    BY DEF Named, NamedUsers, NamedSessions, NamedResets, NamedStates
  <2> QED BY <2>1, <2>2 DEF Does
<1>9. CASE InsertUser(c)
  <2>1. Effects(c, "insertUser")
    BY <1>9 DEF Shape, InsertUser, Effects, Counts, Grows, SameStates, SameSettings, historyVars,
           userVars, grantVars, UserSteps, StateSteps, InTables, Touch, TakesId
  <2>2. Named(c, "insertUser")
    BY <1>9 DEF Named, NamedUsers, NamedSessions, NamedResets, NamedStates
  <2> QED BY <2>1, <2>2 DEF Does
<1>10. CASE SetEmail(c)
  <2>1. Effects(c, "setEmail")
    BY <1>10 DEF Shape, SetEmail, Effects, Counts, Grows, SameStates, SameSettings, historyVars,
           userVars, grantVars, UserSteps, StateSteps, InTables, Touch
  <2>2. Named(c, "setEmail")
    BY <1>10 DEF Named, NamedUsers, NamedSessions, NamedResets, NamedStates
  <2> QED BY <2>1, <2>2 DEF Does
<1>11. CASE SetName(c)
  <2>1. Effects(c, "setName")
    BY <1>11 DEF Shape, SetName, Effects, Counts, Grows, SameStates, SameSettings, historyVars,
           userVars, grantVars, UserSteps, StateSteps, InTables, Touch, Changed
  <2>2. Named(c, "setName")
    BY <1>11 DEF Named, NamedUsers, NamedSessions, NamedResets, NamedStates
  <2> QED BY <2>1, <2>2 DEF Does
<1>12. CASE Reread(c)
  <2>1. Effects(c, "reread")
    BY <1>12, ReadsOnly DEF Reread, Reads
  <2>2. Named(c, "reread")
    BY DEF Named, NamedUsers, NamedSessions, NamedResets, NamedStates
  <2> QED BY <2>1, <2>2 DEF Does
<1>13. CASE SetFlags(c)
  <2>1. Effects(c, "setFlags")
    BY <1>13 DEF Shape, SetFlags, Effects, Counts, Grows, SameStates, SameSettings, historyVars,
           userVars, grantVars, UserSteps, StateSteps, InTables, Touch, Changed
  <2>2. Named(c, "setFlags")
    BY <1>13 DEF Named, NamedUsers, NamedSessions, NamedResets, NamedStates
  <2> QED BY <2>1, <2>2 DEF Does
<1>14. CASE SetPermission(c)
  <2>1. Effects(c, "setPermission")
    BY <1>14 DEF Shape, SetPermission, Effects, Counts, Grows, SameStates, SameSettings, historyVars,
           userVars, grantVars, UserSteps, StateSteps, InTables, Touch, Changed
  <2>2. Named(c, "setPermission")
    BY DEF Named, NamedUsers, NamedSessions, NamedResets, NamedStates
  <2> QED BY <2>1, <2>2 DEF Does
<1> QED BY <1>1, <1>2, <1>3, <1>4, <1>5, <1>6, <1>7, <1>8, <1>9, <1>10, <1>11, <1>12, <1>13, <1>14 DEF
       UserStep

\* What the steps about passwords do.
LEMMA PasswordDoes ==
    ASSUME Shape, NEW c, PasswordStep(c) PROVE \E x : Does(c, x)
<1>1. CASE SetPassword(c)
  <2>1. Effects(c, "setPassword")
    BY <1>1 DEF Shape, SetPassword, Effects, Counts, Grows, SameStates, SameSettings, historyVars,
           userVars, grantVars, UserSteps, StateSteps, InTables, Touch, Changed
  <2>2. Named(c, "setPassword")
    BY <1>1 DEF Named, NamedUsers, NamedSessions, NamedResets, NamedStates
  <2> QED BY <2>1, <2>2 DEF Does
<1>2. CASE CheckPassword(c)
  <2>1. Effects(c, "checkPassword")
    BY <1>2, ReadsOnly DEF CheckPassword, Reads
  <2>2. Named(c, "checkPassword")
    BY DEF Named, NamedUsers, NamedSessions, NamedResets, NamedStates
  <2> QED BY <2>1, <2>2 DEF Does
<1>3. CASE FindEmail(c)
  <2>1. Effects(c, "findEmail")
    BY <1>3, ReadsOnly DEF FindEmail, Reads
  <2>2. Named(c, "findEmail")
    BY DEF Named, NamedUsers, NamedSessions, NamedResets, NamedStates
  <2> QED BY <2>1, <2>2 DEF Does
<1>4. CASE CreateReset(c)
  <2>1. Effects(c, "createReset")
    BY <1>4 DEF Shape, CreateReset, Effects, Counts, Grows, SameStates, SameSettings, historyVars,
           userVars, grantVars, UserSteps, StateSteps, InTables, TakesId
  <2>2. Named(c, "createReset")
    BY <1>4 DEF Named, NamedUsers, NamedSessions, NamedResets, NamedStates
  <2> QED BY <2>1, <2>2 DEF Does
<1>5. CASE FindReset(c)
  <2>1. Effects(c, "findReset")
    BY <1>5, ReadsOnly DEF FindReset, Reads
  <2>2. Named(c, "findReset")
    BY <1>5 DEF Named, NamedUsers, NamedSessions, NamedResets, NamedStates
  <2> QED BY <2>1, <2>2 DEF Does
<1>6. CASE ResetUser(c)
  <2>1. Effects(c, "resetUser")
    BY <1>6, ReadsOnly DEF ResetUser, Reads
  <2>2. Named(c, "resetUser")
    BY <1>6 DEF Named, NamedUsers, NamedSessions, NamedResets, NamedStates
  <2> QED BY <2>1, <2>2 DEF Does
<1>7. CASE SetUsed(c)
  <2>1. Effects(c, "setUsed")
    BY <1>7 DEF Shape, SetUsed, Effects, Counts, Grows, SameStates, SameSettings, historyVars,
           userVars, grantVars, UserSteps, StateSteps, InTables, Touch, Changed
  <2>2. Named(c, "setUsed")
    BY <1>7 DEF Named, NamedUsers, NamedSessions, NamedResets, NamedStates
  <2> QED BY <2>1, <2>2 DEF Does
<1>8. CASE CheckReset(c)
  <2>1. Effects(c, "checkReset")
    BY <1>8, ReadsOnly DEF CheckReset, Reads
  <2>2. Named(c, "checkReset")
    BY DEF Named, NamedUsers, NamedSessions, NamedResets, NamedStates
  <2> QED BY <2>1, <2>2 DEF Does
<1> QED BY <1>1, <1>2, <1>3, <1>4, <1>5, <1>6, <1>7, <1>8 DEF PasswordStep

\* What the steps about tokens do.
LEMMA TokenDoes ==
    ASSUME Shape, NEW c, TokenStep(c) PROVE \E x : Does(c, x)
<1>1. CASE InsertToken(c)
  <2>1. Effects(c, "insertToken")
    BY <1>1 DEF Shape, InsertToken, Effects, Counts, Grows, SameStates, SameSettings, historyVars,
           userVars, grantVars, UserSteps, StateSteps, InTables, TakesId
  <2>2. Named(c, "insertToken")
    BY DEF Named, NamedUsers, NamedSessions, NamedResets, NamedStates
  <2> QED BY <2>1, <2>2 DEF Does
<1>2. CASE InsertScope(c)
  <2>1. Effects(c, "insertScopes")
    BY <1>2 DEF Shape, InsertScope, Effects, Counts, Grows, SameStates, SameSettings, historyVars,
           userVars, grantVars, UserSteps, StateSteps, InTables
  <2>2. Named(c, "insertScopes")
    BY DEF Named, NamedUsers, NamedSessions, NamedResets, NamedStates
  <2> QED BY <2>1, <2>2 DEF Does
<1>3. CASE InsertRepositories(c)
  <2>1. Effects(c, "insertRepositories")
    BY <1>3 DEF Shape, InsertRepositories, Effects, Counts, Grows, SameStates, SameSettings,
           historyVars, userVars, grantVars, UserSteps, StateSteps, InTables
  <2>2. Named(c, "insertRepositories")
    BY DEF Named, NamedUsers, NamedSessions, NamedResets, NamedStates
  <2> QED BY <2>1, <2>2 DEF Does
<1>4. CASE FindToken(c)
  <2>1. Effects(c, "findToken")
    BY <1>4, ReadsOnly DEF FindToken, Reads
  <2>2. Named(c, "findToken")
    BY DEF Named, NamedUsers, NamedSessions, NamedResets, NamedStates
  <2> QED BY <2>1, <2>2 DEF Does
<1>5. CASE DeleteToken(c)
  <2>1. Effects(c, "deleteToken")
    BY <1>5 DEF Shape, DeleteToken, Effects, Counts, Grows, SameStates, SameSettings, historyVars,
           userVars, grantVars, UserSteps, StateSteps, InTables, Touch, Changed
  <2>2. Named(c, "deleteToken")
    BY DEF Named, NamedUsers, NamedSessions, NamedResets, NamedStates
  <2> QED BY <2>1, <2>2 DEF Does
<1>6. CASE Anonymous(c)
  <2>1. Effects(c, "anonymous")
    BY <1>6, ReadsOnly DEF Anonymous, Reads
  <2>2. Named(c, "anonymous")
    BY DEF Named, NamedUsers, NamedSessions, NamedResets, NamedStates
  <2> QED BY <2>1, <2>2 DEF Does
<1>7. CASE VerifyBasic(c)
  <2>1. Effects(c, "verifyBasic")
    BY <1>7, ReadsOnly DEF VerifyBasic, Reads
  <2>2. Named(c, "verifyBasic")
    BY DEF Named, NamedUsers, NamedSessions, NamedResets, NamedStates
  <2> QED BY <2>1, <2>2 DEF Does
<1>8. CASE CachedToken(c)
  <2>1. Effects(c, "cachedToken")
    BY <1>8 DEF Shape, CachedToken, Effects, Counts, Grows, SameStates, SameSettings, historyVars,
           userVars, grantVars, UserSteps, StateSteps, InTables
  <2>2. Named(c, "cachedToken")
    BY DEF Named, NamedUsers, NamedSessions, NamedResets, NamedStates
  <2> QED BY <2>1, <2>2 DEF Does
<1>9. CASE ReadToken(c)
  <2>1. Effects(c, "readToken")
    BY <1>9, ReadsOnly DEF ReadToken, Reads
  <2>2. Named(c, "readToken")
    BY DEF Named, NamedUsers, NamedSessions, NamedResets, NamedStates
  <2> QED BY <2>1, <2>2 DEF Does
<1>10. CASE ReadOwner(c)
  <2>1. Effects(c, "readOwner")
    BY <1>10, ReadsOnly DEF ReadOwner, Reads
  <2>2. Named(c, "readOwner")
    BY DEF Named, NamedUsers, NamedSessions, NamedResets, NamedStates
  <2> QED BY <2>1, <2>2 DEF Does
<1>11. CASE CacheToken(c)
  <2>1. Effects(c, "cacheToken")
    BY <1>11 DEF Shape, CacheToken, Effects, Counts, Grows, SameStates, SameSettings, historyVars,
           userVars, grantVars, UserSteps, StateSteps, InTables
  <2>2. Named(c, "cacheToken")
    BY DEF Named, NamedUsers, NamedSessions, NamedResets, NamedStates
  <2> QED BY <2>1, <2>2 DEF Does
<1>12. CASE Rights(c)
  <2>1. Effects(c, "rights")
    BY <1>12, ReadsOnly DEF Rights, Reads
  <2>2. Named(c, "rights")
    BY DEF Named, NamedUsers, NamedSessions, NamedResets, NamedStates
  <2> QED BY <2>1, <2>2 DEF Does
<1>13. CASE TokenRights(c)
  <2>1. Effects(c, "tokenRights")
    BY <1>13, ReadsOnly DEF TokenRights, Reads
  <2>2. Named(c, "tokenRights")
    BY DEF Named, NamedUsers, NamedSessions, NamedResets, NamedStates
  <2> QED BY <2>1, <2>2 DEF Does
<1>14. CASE DockerToken(c)
  <2>1. Effects(c, "dockerToken")
    BY <1>14 DEF Shape, DockerToken, Effects, Counts, Grows, SameStates, SameSettings, historyVars,
           userVars, grantVars, UserSteps, StateSteps, InTables, TakesId
  <2>2. Named(c, "dockerToken")
    BY DEF Named, NamedUsers, NamedSessions, NamedResets, NamedStates
  <2> QED BY <2>1, <2>2 DEF Does
<1> QED BY <1>1, <1>2, <1>3, <1>4, <1>5, <1>6, <1>7, <1>8, <1>9, <1>10, <1>11, <1>12, <1>13, <1>14 DEF
       TokenStep

\* What the steps of an authorization do.
LEMMA StateDoes ==
    ASSUME Shape, NEW c, 
           \/ BeginAuthorization(c) \/ PruneStates(c) \/ PersistState(c) \/ TakeState(c)
           \/ LoadState(c) \/ Exchange(c) \/ ForgetState(c) \/ VerifyToken(c) \/ CheckRoles(c)
    PROVE \E x : Does(c, x)
<1>1. CASE BeginAuthorization(c)
  <2>1. Effects(c, "begin")
    BY <1>1 DEF Shape, BeginAuthorization, Effects, Counts, Grows, SameStates, SameSettings,
           historyVars, userVars, grantVars, UserSteps, StateSteps, TakesId
  <2>2. Named(c, "begin")
    BY <1>1 DEF Named, NamedUsers, NamedSessions, NamedResets, NamedStates
  <2> QED BY <2>1, <2>2 DEF Does
<1>2. CASE PruneStates(c)
  <2>1. Effects(c, "prune")
    BY <1>2 DEF Shape, PruneStates, Effects, Counts, Grows, SameStates, SameSettings, historyVars,
           userVars, grantVars, UserSteps, StateSteps, InState, InLogin
  <2>2. Named(c, "prune")
    BY <1>2 DEF Named, NamedUsers, NamedSessions, NamedResets, NamedStates
  <2> QED BY <2>1, <2>2 DEF Does
<1>3. CASE PersistState(c)
  <2>1. Effects(c, "persist")
    BY <1>3 DEF Shape, PersistState, Effects, Counts, Grows, SameStates, SameSettings, historyVars,
           userVars, grantVars, UserSteps, StateSteps, InState, InLogin
  <2>2. Named(c, "persist")
    BY <1>3 DEF Named, NamedUsers, NamedSessions, NamedResets, NamedStates
  <2> QED BY <2>1, <2>2 DEF Does
<1>4. CASE TakeState(c)
  <2>1. Effects(c, "take")
    <3>1. external' = external \/ \E m, t : external' = [external EXCEPT !.memory = m, !.taken = t]
      BY <1>4 DEF TakeState
    <3>2. used' = used
      BY <1>4 DEF TakeState, InState, InLogin
    <3>3. DOMAIN external' = DOMAIN external /\ SameSettings
      <4>1. ASSUME NEW m, NEW t, external' = [external EXCEPT !.memory = m, !.taken = t]
            PROVE  /\ DOMAIN external' = DOMAIN external /\ external'.settings = external.settings
                   /\ external'.saved = external.saved
        BY <4>1 DEF Shape
      <4> QED BY <3>1, <4>1 DEF SameSettings
    <3>4. Counts
      BY <3>2, <3>3 DEF Shape, Counts
    <3> QED BY <1>4, <3>3, <3>4 DEF TakeState, Effects, Grows, InState, InLogin, UserSteps, StateSteps,
               grantVars
  <2>2. Named(c, "take")
    BY <1>4 DEF Named, NamedUsers, NamedSessions, NamedResets, NamedStates
  <2> QED BY <2>1, <2>2 DEF Does
<1>5. CASE LoadState(c)
  <2>1. Effects(c, "load")
    BY <1>5 DEF Shape, LoadState, Effects, Counts, Grows, SameStates, SameSettings, historyVars,
           userVars, grantVars, UserSteps, StateSteps, InState, InLogin, Touch
  <2>2. Named(c, "load")
    BY <1>5 DEF Named, NamedUsers, NamedSessions, NamedResets, NamedStates
  <2> QED BY <2>1, <2>2 DEF Does
<1>6. CASE Exchange(c)
  <2>1. Effects(c, "exchange")
    BY <1>6 DEF Shape, Exchange, Effects, Counts, Grows, SameStates, SameSettings, historyVars,
           userVars, grantVars, UserSteps, StateSteps, InState, InLogin
  <2>2. Named(c, "exchange")
    BY <1>6 DEF Named, NamedUsers, NamedSessions, NamedResets, NamedStates
  <2> QED BY <2>1, <2>2 DEF Does
<1>7. CASE ForgetState(c)
  <2>1. Effects(c, "forget")
    BY <1>7 DEF Shape, ForgetState, Effects, Counts, Grows, SameStates, SameSettings, historyVars,
           userVars, grantVars, UserSteps, StateSteps, InState, InLogin, Touch
  <2>2. Named(c, "forget")
    BY <1>7 DEF Named, NamedUsers, NamedSessions, NamedResets, NamedStates
  <2> QED BY <2>1, <2>2 DEF Does
<1>8. CASE VerifyToken(c)
  <2>1. Effects(c, "verifyToken")
    BY <1>8, ReadsOnly DEF VerifyToken
  <2>2. Named(c, "verifyToken")
    BY DEF Named, NamedUsers, NamedSessions, NamedResets, NamedStates
  <2> QED BY <2>1, <2>2 DEF Does
<1>9. CASE CheckRoles(c)
  <2>1. Effects(c, "checkRoles")
    BY <1>9, ReadsOnly DEF CheckRoles
  <2>2. Named(c, "checkRoles")
    BY DEF Named, NamedUsers, NamedSessions, NamedResets, NamedStates
  <2> QED BY <2>1, <2>2 DEF Does
<1> QED BY <1>1, <1>2, <1>3, <1>4, <1>5, <1>6, <1>7, <1>8, <1>9

\* What the steps that find a user do.
LEMMA PrincipalDoes ==
    ASSUME Shape, NEW c, 
           MatchEmail(c) \/ MatchName(c) \/ Provision(c) \/ ApplyRoles(c) \/ SyncFlags(c)
    PROVE \E x : Does(c, x)
<1>1. CASE MatchEmail(c)
  <2>1. Effects(c, "matchEmail")
    BY <1>1, ReadsOnly DEF MatchEmail
  <2>2. Named(c, "matchEmail")
    BY <1>1 DEF Named, NamedUsers, NamedSessions, NamedResets, NamedStates
  <2> QED BY <2>1, <2>2 DEF Does
<1>2. CASE MatchName(c)
  <2>1. Effects(c, "matchName")
    BY <1>2, ReadsOnly DEF MatchName
  <2>2. Named(c, "matchName")
    BY <1>2 DEF Named, NamedUsers, NamedSessions, NamedResets, NamedStates
  <2> QED BY <2>1, <2>2 DEF Does
<1>3. CASE Provision(c)
  <2>1. Effects(c, "provision")
    BY <1>3 DEF Shape, Provision, Effects, Counts, Grows, SameStates, SameSettings, historyVars,
           userVars, grantVars, UserSteps, StateSteps, Touch, TakesId
  <2>2. Named(c, "provision")
    BY <1>3 DEF Named, NamedUsers, NamedSessions, NamedResets, NamedStates
  <2> QED BY <2>1, <2>2 DEF Does
<1>4. CASE ApplyRoles(c)
  <2>1. Effects(c, "applyRoles")
    BY <1>4 DEF Shape, ApplyRoles, Effects, Counts, Grows, SameStates, SameSettings, historyVars,
           userVars, grantVars, UserSteps, StateSteps, InState, InLogin
  <2>2. Named(c, "applyRoles")
    BY <1>4 DEF Named, NamedUsers, NamedSessions, NamedResets, NamedStates
  <2> QED BY <2>1, <2>2 DEF Does
<1>5. CASE SyncFlags(c)
  <2>1. Effects(c, "syncFlags")
    BY <1>5 DEF Shape, SyncFlags, Effects, Counts, Grows, SameStates, SameSettings, historyVars,
           userVars, grantVars, UserSteps, StateSteps, Touch, Changed
  <2>2. Named(c, "syncFlags")
    BY <1>5 DEF Named, NamedUsers, NamedSessions, NamedResets, NamedStates
  <2> QED BY <2>1, <2>2 DEF Does
<1> QED BY <1>1, <1>2, <1>3, <1>4, <1>5

\* What the steps about keys and settings do.
LEMMA SettingDoes ==
    ASSUME Shape, NEW c, 
           \/ CachedKey(c) \/ FetchKeys(c) \/ StoreKeys(c) \/ SsoRoles(c) \/ SetSetting(c)
           \/ StoreSetting(c)
    PROVE \E x : Does(c, x)
<1>1. CASE CachedKey(c)
  <2>1. Effects(c, "cachedKey")
    BY <1>1, ReadsOnly DEF CachedKey
  <2>2. Named(c, "cachedKey")
    BY DEF Named, NamedUsers, NamedSessions, NamedResets, NamedStates
  <2> QED BY <2>1, <2>2 DEF Does
<1>2. CASE FetchKeys(c)
  <2>1. Effects(c, "fetchKeys")
    BY <1>2, ReadsOnly DEF FetchKeys
  <2>2. Named(c, "fetchKeys")
    BY DEF Named, NamedUsers, NamedSessions, NamedResets, NamedStates
  <2> QED BY <2>1, <2>2 DEF Does
<1>3. CASE StoreKeys(c)
  <2>1. Effects(c, "storeKeys")
    BY <1>3 DEF Shape, StoreKeys, Effects, Counts, Grows, SameStates, SameSettings, historyVars,
           userVars, grantVars, UserSteps, StateSteps, InState, InLogin
  <2>2. Named(c, "storeKeys")
    BY DEF Named, NamedUsers, NamedSessions, NamedResets, NamedStates
  <2> QED BY <2>1, <2>2 DEF Does
<1>4. CASE SsoRoles(c)
  <2>1. Effects(c, "ssoRoles")
    BY <1>4 DEF Shape, SsoRoles, Effects, Counts, Grows, SameStates, SameSettings, historyVars,
           userVars, grantVars, UserSteps, StateSteps, InState, InLogin
  <2>2. Named(c, "ssoRoles")
    BY DEF Named, NamedUsers, NamedSessions, NamedResets, NamedStates
  <2> QED BY <2>1, <2>2 DEF Does
<1>5. CASE SetSetting(c)
  <2>1. Effects(c, "setSetting")
    BY <1>5 DEF Shape, SetSetting, Effects, Counts, Grows, SameStates, SameSettings, historyVars,
           userVars, grantVars, UserSteps, StateSteps, InState, InLogin, Touch
  <2>2. Named(c, "setSetting")
    BY <1>5 DEF Named, NamedUsers, NamedSessions, NamedResets, NamedStates
  <2> QED BY <2>1, <2>2 DEF Does
<1>6. CASE StoreSetting(c)
  <2>1. Effects(c, "storeSetting")
    BY <1>6 DEF Shape, StoreSetting, Effects, Counts, Grows, SameStates, SameSettings, historyVars,
           userVars, grantVars, UserSteps, StateSteps, InState, InLogin
  <2>2. Named(c, "storeSetting")
    BY <1>6 DEF Named, NamedUsers, NamedSessions, NamedResets, NamedStates
  <2> QED BY <2>1, <2>2 DEF Does
<1> QED BY <1>1, <1>2, <1>3, <1>4, <1>5, <1>6

\* A step fails, or something fails that is only logged: the tables stay as they are.
SameTables ==
    /\ users' = users /\ sessions' = sessions /\ resets' = resets /\ external' = external /\ now' = now
    /\ changed' = changed /\ raced' = raced /\ used'.ids = used.ids

\* A step that fails leaves the tables as they were.
LEMMA FailureDoes ==
    ASSUME Shape, NEW c, StepFails(c) \/ LoggedFailure(c)
    PROVE  SameTables /\ Counts /\ Grows
BY DEF Shape, StepFails, LoggedFailure, SameTables, Counts, Grows, userVars, grantVars

\* Every step does one of these things.
LEMMA StepDoes ==
    ASSUME Shape, NEW c, AccountsStep(c) \/ LoginStep(c)
    PROVE  (\E x : Does(c, x)) \/ StepFails(c) \/ LoggedFailure(c)
BY AuthenticationDoes, SessionDoes, UserDoes, PasswordDoes, TokenDoes, StateDoes, PrincipalDoes,
   SettingDoes DEF AccountsStep, LoginStep

------------------------------------------------------------------------------
(* The shape of the state.                                                     *)

\* What the steps do to the rows of users: a row changes, or one is added with a new id.
RowsKept(x) ==
    /\ \A u \in DOMAIN users' :
         u \in Nat /\ u <= used'.ids /\ {"admin", "active"} \subseteq DOMAIN users'[u]
    /\ x \notin {"setActive", "deleteUser"} =>
         /\ DOMAIN users \subseteq DOMAIN users'
         /\ \A u \in DOMAIN users : users'[u].active = users[u].active
    /\ x \notin {"setActive", "deleteUser", "setFlags", "syncFlags"} =>
         \A u \in DOMAIN users : users'[u].admin = users[u].admin
    /\ \A u \in DOMAIN users' \ DOMAIN users : users'[u].admin = FALSE

\* A new user has an id nobody has, and is no administrator.
LEMMA RowAdded ==
    ASSUME Shape, NEW row, {"admin", "active"} \subseteq DOMAIN row, row.admin = FALSE,
           users' = Put(users, NewId, row), TakesId, NEW x
    PROVE  RowsKept(x)
<1>1. NewId \notin DOMAIN users /\ used'.ids = NewId /\ used.ids \in Nat /\ NewId = used.ids + 1
  BY DEF Shape, NewId, TakesId
<1>2. ASSUME NEW u \in DOMAIN users PROVE u \in Nat /\ u <= used'.ids
  BY <1>1 DEF Shape
<1> QED BY <1>1, <1>2 DEF RowsKept, Put, Shape

\* A row changes in columns other than its status and its rights.
LEMMA RowChanged ==
    ASSUME Shape, NEW x, users' = users \/ (DOMAIN users' = DOMAIN users /\ \A u \in DOMAIN users :
             /\ {"admin", "active"} \subseteq DOMAIN users'[u]
             /\ users'[u].admin = users[u].admin /\ users'[u].active = users[u].active),
           Counts
    PROVE  RowsKept(x)
<1>1. ASSUME NEW u \in DOMAIN users PROVE u \in Nat /\ u <= used'.ids
  BY DEF Shape, Counts
<1> QED BY <1>1 DEF RowsKept, Shape

\* Which columns of the users a step may change.
LEMMA StepRows == ASSUME Shape, NEW c, NEW x, Does(c, x) PROVE RowsKept(x)
<1>1. CASE x \notin UserSteps
  BY <1>1, RowChanged DEF Does, Effects
<1>2. CASE x = "setActive"
  <2>1. SetActive(c)
    BY <1>2 DEF Does, Named, NamedUsers
  <2>2. used' = used
    BY <2>1 DEF SetActive, InTables
  <2>3. users' = [u \in DOMAIN users |->
                   IF u = Arg(c).id THEN [users[u] EXCEPT !.active = Arg(c).active] ELSE users[u]]
    BY <2>1 DEF SetActive
  <2> QED BY <1>2, <2>2, <2>3 DEF RowsKept, Shape
<1>3. CASE x = "deleteUser"
  <2>1. DeleteUser(c)
    BY <1>3 DEF Does, Named, NamedUsers
  <2>2. used' = used /\ users' = Drop(users, {Arg(c).id})
    BY <2>1 DEF DeleteUser, InTables
  <2> QED BY <1>3, <2>2 DEF RowsKept, Shape, Drop, Keep
<1>4. CASE x = "insertUser"
  <2>1. InsertUser(c) /\ Counts
    BY <1>4 DEF Does, Named, NamedUsers, Effects
  <2> DEFINE row == NewRow(Arg(c).name, Arg(c).email, Arg(c).secret)
  <2>2. users' = users \/ (users' = Put(users, NewId, row) /\ TakesId)
    BY <2>1 DEF InsertUser
  <2>3. {"admin", "active"} \subseteq DOMAIN row /\ row.admin = FALSE
    BY DEF NewRow
  <2> QED BY <2>1, <2>2, <2>3, RowAdded, RowChanged
<1>5. CASE x = "provision"
  <2>1. Provision(c) /\ Counts
    BY <1>5 DEF Does, Named, NamedUsers, Effects
  <2> DEFINE row == Candidate(Who(c), job[c].mem.attempt)
  <2>2. users' = users \/ (users' = Put(users, NewId, row) /\ TakesId)
    BY <2>1 DEF Provision
  <2>3. {"admin", "active"} \subseteq DOMAIN row /\ row.admin = FALSE
    BY DEF NewRow, Candidate
  <2> QED BY <2>1, <2>2, <2>3, RowAdded, RowChanged
<1>6. CASE x = "setEmail" \/ x = "setName"
  <2>1. (SetEmail(c) \/ SetName(c)) /\ Counts
    BY <1>6 DEF Does, Named, NamedUsers, Effects
  <2>2. \/ users' = users
        \/ users' = [users EXCEPT ![Arg(c).id] = [@ EXCEPT !.email = Arg(c).email]]
        \/ users' = [users EXCEPT ![Arg(c).id] = [@ EXCEPT !.name = Arg(c).name, !.origin = NoText]]
    BY <2>1 DEF SetEmail, SetName, SetColumn
  <2>3. ASSUME NEW u, NEW e, users' = [users EXCEPT ![u] = [@ EXCEPT !.email = e]] PROVE RowsKept(x)
    BY <2>1, <2>3, RowChanged DEF Shape
  <2>4. ASSUME NEW u, NEW n, users' = [users EXCEPT ![u] = [@ EXCEPT !.name = n, !.origin = NoText]]
        PROVE  RowsKept(x)
    BY <2>1, <2>4, RowChanged DEF Shape
  <2>5. users' = users => RowsKept(x)
    BY <2>1, RowChanged
  <2> QED BY <2>2, <2>3, <2>4, <2>5
<1>7. CASE x = "setPassword"
  <2>1. SetPassword(c) /\ Counts
    BY <1>7 DEF Does, Named, NamedResets, Effects
  <2>2. users' = [u \in DOMAIN users |->
                   IF u = job[c].mem.id THEN [users[u] EXCEPT !.password = Arg(c).secret] ELSE users[u]]
    BY <2>1 DEF SetPassword
  <2> QED BY <2>1, <2>2, RowChanged DEF Shape
<1>8. CASE x = "setFlags"
  <2>1. SetFlags(c)
    BY <1>8 DEF Does, Named, NamedUsers
  <2>2. used' = used
    BY <2>1 DEF SetFlags, InTables
  <2>3. users' = [u \in DOMAIN users |->
                   IF u = Arg(c).id THEN [users[u] EXCEPT !.admin = Arg(c).admin] ELSE users[u]]
    BY <2>1 DEF SetFlags
  <2> QED BY <1>8, <2>2, <2>3 DEF RowsKept, Shape
<1>9. CASE x = "syncFlags"
  <2>1. SyncFlags(c)
    BY <1>9 DEF Does, Named, NamedUsers
  <2>2. used' = used
    BY <2>1 DEF SyncFlags
  <2>3. \/ users' = users
        \/ \E u, a : users' = [users EXCEPT ![u] = [@ EXCEPT !.admin = a, !.manager = FALSE, !.system = FALSE]]
    BY <2>1 DEF SyncFlags
  <2>4. ASSUME NEW u, NEW a,
               users' = [users EXCEPT ![u] = [@ EXCEPT !.admin = a, !.manager = FALSE, !.system = FALSE]]
        PROVE  RowsKept(x)
    BY <1>9, <2>2, <2>4 DEF RowsKept, Shape
  <2>5. ASSUME users' = users PROVE RowsKept(x)
    BY <2>5, RowChanged DEF Does, Effects
  <2> QED BY <2>3, <2>4, <2>5
<1> QED BY <1>1, <1>2, <1>3, <1>4, <1>5, <1>6, <1>7, <1>8, <1>9 DEF UserSteps

\* The steps of the system, as the invariants see them.
StepOf(c, x) == Proceeds(c) /\ ~Idle(c) /\ Does(c, x) /\ RowsKept(x)
FailsAt(c) ==
    /\ Proceeds(c) /\ ~Idle(c) /\ SameTables /\ Counts /\ Grows
    /\ LoggedFailure(c) \/ (Idle(c)' /\ broken' = broken \cup job[c].reads)
Stands == /\ users' = users /\ sessions' = sessions /\ resets' = resets /\ raced' = raced
          /\ changed' = changed /\ Counts /\ Grows /\ used'.ids = used.ids
          /\ external'.saved = external.saved /\ external'.stored = external.stored
          /\ external'.issued = external.issued /\ external'.taken = external.taken
          /\ external'.logins = external.logins
Passing == Stands /\ job' = job /\ SameStates /\ SameSettings /\ broken' = broken
           /\ (now' = now \/ (now' = now + 1 /\ now \in Nat))
Restarts ==
    /\ Stands /\ now' = now /\ job' = [c \in Clients |-> NoJob]
    /\ broken' = broken \cup UNION {job[c].reads : c \in Clients}
    /\ external'.memory = EmptyMap /\ external'.settings = external.saved
Arrival(c) == Idle(c) /\ Arrived(c)

\* The kinds of steps.
LEMMA NextKinds ==
    ASSUME Shape, [Next]_vars
    PROVE  \/ \E c \in Clients : (\E x : StepOf(c, x)) \/ FailsAt(c) \/ Arrival(c)
           \/ Passing \/ Restarts
<1>1. ASSUME NEW c \in Clients, AccountsStep(c) \/ LoginStep(c)
      PROVE  (\E x : StepOf(c, x)) \/ FailsAt(c)
  <2>1. Proceeds(c) /\ ~Idle(c)
    BY <1>1, StepMoves DEF Shape
  <2>2. (\E x : Does(c, x)) \/ StepFails(c) \/ LoggedFailure(c)
    BY <1>1, StepDoes
  <2>3. ASSUME NEW x, Does(c, x) PROVE StepOf(c, x)
    BY <2>1, <2>3, StepRows DEF StepOf
  <2>4. ASSUME StepFails(c) PROVE Idle(c)' /\ broken' = broken \cup job[c].reads
    BY <2>4, Replies DEF StepFails, Shape
  <2>5. ASSUME StepFails(c) \/ LoggedFailure(c) PROVE FailsAt(c)
    BY <2>1, <2>4, <2>5, FailureDoes DEF FailsAt
  <2> QED BY <2>2, <2>3, <2>5
<1>2. ASSUME NEW c \in Clients, AccountsRequest(c) \/ (Free(c) /\ LoginRequest(c)) PROVE Arrival(c)
  BY <1>2, RequestArrived DEF AccountsRequest, Free, Arrival
<1>3. CASE Ticks
  BY <1>3 DEF Ticks, Passing, Stands, SameStates, SameSettings, Counts, Grows, Shape, userVars,
              grantVars, historyVars
<1>4. CASE KeysRotate
  BY <1>4 DEF KeysRotate, Passing, Stands, SameStates, SameSettings, Counts, Grows, Shape, userVars,
              grantVars, historyVars
<1>5. CASE UNCHANGED vars
  BY <1>5 DEF vars, Passing, Stands, SameStates, SameSettings, Counts, Grows, Shape
<1>6. CASE Restart
  BY <1>6 DEF Restart, Restarts, Stands, SameStates, SameSettings, Counts, Grows, Shape, userVars
<1> QED BY <1>1, <1>2, <1>3, <1>4, <1>5, <1>6 DEF Next

\* What an arriving request finds and leaves.
LEMMA ArrivalFacts ==
    ASSUME Shape, NEW c \in Clients, Arrival(c)
    PROVE  /\ Alone(c) /\ Arrives(job'[c])
           /\ users' = users /\ sessions' = sessions /\ resets' = resets /\ external' = external
           /\ now' = now /\ changed' = changed /\ raced' = raced /\ broken' = broken
           /\ used'.ids = used.ids /\ Counts
<1>1. PICK j : Start(c, j) /\ Arrives(j)
  BY DEF Arrival, Arrived
<1>2. job' = [job EXCEPT ![c] = j]
  BY <1>1 DEF Start
<1>3. Alone(c) /\ job'[c] = j
  BY <1>2 DEF Shape, JobShape, Alone
<1> QED BY <1>1, <1>3 DEF Start, Shape, Counts, userVars, historyVars, grantVars

\* The shape holds at first,
LEMMA ShapeInitial == ASSUME Init PROVE Shape
<1>1. JobShape
  <2>1. job = [c \in Clients |-> NoJob]
    BY DEF Init, AccountsInit
  <2>2. DOMAIN NoJob = Fields /\ NoJob.plan = <<>>
    BY DEF NoJob, Fields
  <2>3. Planned(NoJob)
    BY <2>2, NothingPlanned DEF Planned
  <2> QED BY <2>1, <2>2, <2>3 DEF JobShape
<1>2. DOMAIN used = {"requests", "faults", "ids"} /\ used.ids \in Nat /\ now \in Nat /\ used.ids = 3
  BY DEF Init, AccountsInit
<1>3. \A u \in DOMAIN users : u \in {1, 2} /\ {"admin", "active"} \subseteq DOMAIN users[u]
  <2>1. PICK admin \in BOOLEAN : \E A :
               users = [u \in {1, 2} |-> IF u = 1 THEN Root
                                         ELSE [Ann EXCEPT !.admin = admin, !.defaults = A]]
    BY DEF Init, AccountsInit
  <2> QED BY <2>1 DEF Root, Ann, NewRow
<1>4. DOMAIN external = {"newest", "published", "retired", "jwks", "memory", "stored", "roles",
                         "settings", "saved", "create", "issued", "taken", "logins"}
  BY DEF Init, ExternalInit
<1> QED BY <1>1, <1>2, <1>3, <1>4 DEF Shape

\* and every step keeps it.
LEMMA ShapeKept == ASSUME Shape, [Next]_vars PROVE Shape'
<1>1. ASSUME NEW c \in Clients, Proceeds(c) PROVE JobShape'
  BY <1>1 DEF Proceeds, Moved, Alone, Shape, JobShape
<1>2. ASSUME Counts PROVE DOMAIN used' = DOMAIN used /\ used'.ids \in Nat /\ used.ids <= used'.ids
                          /\ DOMAIN external' = DOMAIN external
  BY <1>2 DEF Counts
<1>3. ASSUME Counts, users' = users
      PROVE  \A u \in DOMAIN users' :
               u \in Nat /\ u <= used'.ids /\ {"admin", "active"} \subseteq DOMAIN users'[u]
  BY <1>2, <1>3 DEF Shape
<1>4. ASSUME NEW c \in Clients, NEW x, StepOf(c, x) PROVE Shape'
  <2>1. Counts /\ now' = now /\ JobShape'
    BY <1>1, <1>4 DEF StepOf, Does, Effects
  <2> QED BY <1>2, <1>4, <2>1 DEF StepOf, RowsKept, Shape
<1>5. ASSUME NEW c \in Clients, FailsAt(c) PROVE Shape'
  <2>1. Counts /\ now' = now /\ JobShape' /\ users' = users
    BY <1>1, <1>5 DEF FailsAt, SameTables
  <2> QED BY <1>2, <1>3, <2>1 DEF Shape
<1>6. ASSUME NEW c \in Clients, Arrival(c) PROVE Shape'
  <2>1. Counts /\ now' = now /\ users' = users /\ Alone(c) /\ Arrives(job'[c])
    BY <1>6, ArrivalFacts
  <2>2. JobShape'
    BY <2>1 DEF Alone, Arrives, Shape, JobShape
  <2> QED BY <1>2, <1>3, <2>1, <2>2 DEF Shape
<1>7. ASSUME Passing PROVE Shape'
  <2>1. Counts /\ now' \in Nat /\ users' = users /\ job' = job
    BY <1>7 DEF Passing, Stands, Shape
  <2>2. JobShape'
    BY <2>1 DEF Shape, JobShape
  <2> QED BY <1>2, <1>3, <2>1, <2>2 DEF Shape
<1>8. ASSUME Restarts PROVE Shape'
  <2>1. Counts /\ now' \in Nat /\ users' = users /\ job' = [c \in Clients |-> NoJob]
    BY <1>8 DEF Restarts, Stands, Shape
  <2>2. DOMAIN NoJob = Fields /\ NoJob.plan = <<>>
    BY DEF NoJob, Fields
  <2>3. Planned(NoJob)
    BY <2>2, NothingPlanned DEF Planned
  <2>4. JobShape'
    BY <2>1, <2>2, <2>3 DEF JobShape
  <2> QED BY <1>2, <1>3, <2>1, <2>4 DEF Shape
<1> QED BY <1>4, <1>5, <1>6, <1>7, <1>8, NextKinds


------------------------------------------------------------------------------
(* Where a request comes from and where it goes.                               *)

\* A request that did not move is where it was.
LEMMA SameRequest ==
    ASSUME NEW d, job'[d] = job[d]
    PROVE  /\ \A y : At(d, y)' <=> At(d, y)
           /\ Arg(d)' = Arg(d) /\ (Idle(d)' <=> Idle(d))
BY DEF At, Arg, Idle

\* A request that took step x and is at y now.
LEMMA Came ==
    ASSUME Shape, NEW c \in Clients, NEW x, NEW y, At(c, x), Proceeds(c), At(c, y)'
    PROVE  /\ Keeps(job[c], job'[c]) /\ Leads(job[c].op, Active(job[c]), x, y)
           /\ Belongs(job[c].op, x) /\ Belongs(job[c].op, y)
<1>1. job'[c].plan # <<>> /\ Head(job'[c].plan) = y /\ Head(job[c].plan) = x /\ job[c].plan # <<>>
  BY DEF At
<1>2. Keeps(job[c], job'[c]) /\ Leads(job[c].op, Active(job[c]), x, y) /\ Planned(job'[c])
  BY <1>1 DEF Proceeds, Moved
<1>3. Belongs(job[c].op, x)
  BY <1>1, PlansLeft DEF Shape, JobShape, Planned
<1>4. Belongs(job'[c].op, y)
  BY <1>1, <1>2, PlansLeft DEF Planned
<1> QED BY <1>2, <1>3, <1>4 DEF Keeps

\* What must have come before a step.
LEMMA LeadsToUsers ==
    ASSUME NEW op, NEW a, NEW x, NEW y, Leads(op, a, x, y)
    PROVE  /\ y = "countAdmins" => x = "findUser"
           /\ y = "setActive" => a \/ x = "countAdmins"
           /\ y = "listSessions" => x = (IF op = "status" THEN "setActive" ELSE "countAdmins")
           /\ y = "listSessions" /\ op = "status" => ~a
           /\ y = "removeSessions" => x \in {"listSessions", "cleanList"}
           /\ y = "deleteUser" => x \in {"removeSessions", "listSessions"}
           /\ y = "createSession" => x \in {"verify", "provision", "syncFlags", "matchEmail", "matchName"}
           /\ y = "applyRoles" => x \in {"provision", "matchEmail", "matchName"}
           /\ y = "syncFlags" => x = "applyRoles"
BY DEF Leads, Follows, MaySkip, Skipping, Target

\* The steps that come before those the reset, login and setting invariants are about.
LEMMA LeadsToStates ==
    ASSUME NEW op, NEW a, NEW x, NEW y, Leads(op, a, x, y)
    PROVE  /\ y = "storeSetting" => x = "setSetting"
           /\ y = "resetUser" => x = "findReset"
           /\ y = "setPassword" => x = "resetUser" \/ op # "reset"
           /\ y = "setUsed" => x = "setPassword"
           /\ y = "load" => x = "take"
           /\ y = "exchange" => x \in {"load", "take"}
           /\ y = "forget" => x \in {"exchange", "load"}
           /\ y = "persist" => x = "prune"
           /\ y = "prune" => x = "begin"
BY DEF Leads, Follows, MaySkip, Skipping, Target

\* What must come after a step.
LEMMA GoesOn ==
    ASSUME Shape, NEW c \in Clients, NEW x, NEW y, At(c, x),
           \/ x = "setSetting" /\ y = "storeSetting"
           \/ x = "exchange" /\ y = "forget"
           \/ x = "setPassword" /\ y = "setUsed" /\ job[c].op = "reset"
           \/ x = "setActive" /\ y = "listSessions" /\ ~Active(job[c])
           \/ x = "listSessions" /\ y = "removeSessions"
    PROVE  Rest(c) # <<>> /\ Head(Rest(c)) = y
<1> DEFINE op == job[c].op
           a == Active(job[c])
           p == job[c].plan
<1>1. WellPlanned(op, a, p) /\ p # <<>> /\ Head(p) = x
  BY DEF Shape, JobShape, Planned, At
<1>2. Ahead(op, a, x) > 0
  BY DEF Ahead
<1> HIDE DEF op, a, p
<1>3. Tail(p) # <<>> /\ Follows(op, a, x, Head(Tail(p)))
  BY <1>1, <1>2, PlansLeft
<1>4. Head(Tail(p)) = y
  BY <1>3 DEF Follows, op, a
<1> QED BY <1>3, <1>4 DEF Rest, p

\* A step belongs to its request.
LEMMA BelongsAt ==
    ASSUME Shape, NEW c \in Clients, NEW x, At(c, x)
    PROVE  Belongs(job[c].op, x)
<1>1. WellPlanned(job[c].op, Active(job[c]), job[c].plan) /\ job[c].plan # <<>> /\ Head(job[c].plan) = x
  BY DEF Shape, JobShape, Planned, At
<1> QED BY <1>1, PlansLeft

\* A request that arrives is at the beginning of its plan.
LEMMA ArrivesAt ==
    ASSUME Shape, NEW c \in Clients, Arrival(c), NEW y, At(c, y)'
    PROVE  y \in First
BY ArrivalFacts DEF Arrives, At

------------------------------------------------------------------------------
(* The settings.                                                               *)

\* At first what is stored is what is in memory.
LEMMA SettingInitial == ASSUME Init PROVE SettingInv
<1>1. PICK s \in [Settings -> {"on", "rbac", "none"}] : external.settings = s /\ external.saved = s
  <2>1. \A o \in {"on", "rbac"} :
          [k \in Settings |-> CASE k = "sso" -> "on" [] k = "oauth2" -> o [] OTHER -> "none"]
            \in [Settings -> {"on", "rbac", "none"}]
    BY DEF Settings
  <2>2. \E o \in {"on", "rbac"} :
          LET s == [k \in Settings |-> CASE k = "sso" -> "on" [] k = "oauth2" -> o [] OTHER -> "none"]
          IN external.settings = s /\ external.saved = s
    BY DEF Init, ExternalInit
  <2> QED BY <2>1, <2>2
<1>2. \A c \in Clients : job[c] = NoJob
  BY DEF Init, AccountsInit
<1>3. \A c \in Clients : Idle(c) /\ \A y : ~At(c, y)
  BY <1>2 DEF At, Idle, NoJob
<1> QED BY <1>1, <1>3 DEF SettingInv

\* Nobody who is about to store a setting has come there by this step.
LEMMA SettingQuiet ==
    ASSUME Shape, SettingInv, NEW c \in Clients, Alone(c),
           SameSettings, raced \subseteq raced', broken \subseteq broken',
           Idle(c)' \/ ~At(c, "storeSetting")',
           ~Idle(c)' /\ job'[c].op = "settings" => job'[c].arg.key \in Settings,
           At(c, "storeSetting") => Setting(c) \in broken'
    PROVE  SettingInv'
<1>1. ASSUME NEW d \in Clients, d # c
      PROVE  /\ At(d, "storeSetting")' <=> At(d, "storeSetting")
             /\ Arg(d)' = Arg(d) /\ (Idle(d)' <=> Idle(d)) /\ job'[d] = job[d] /\ Setting(d)' = Setting(d)
  BY <1>1, SameRequest DEF Alone, Setting
<1>2. ~At(c, "storeSetting")'
  BY DEF At, Idle
<1>3. DOMAIN external'.settings = Settings /\ DOMAIN external'.saved = Settings
  BY DEF SettingInv, SameSettings
<1>4. ASSUME NEW d \in Clients, (job[d].op = "settings" /\ ~Idle(d))' PROVE Arg(d)'.key \in Settings
  BY <1>1, <1>4 DEF SettingInv, Arg
<1>5. ASSUME NEW d \in Clients, At(d, "storeSetting")'
      PROVE  /\ Setting(d)' \in job'[d].reads
             /\ external'.settings[Arg(d)'.key] = Arg(d)'.value \/ Setting(d)' \in raced' \cup broken'
  BY <1>1, <1>2, <1>5 DEF SettingInv, SameSettings
<1>6. ASSUME NEW k \in Settings
      PROVE  \/ external'.settings[k] = external'.saved[k] \/ <<"setting", k>> \in raced' \cup broken'
             \/ \E d \in Clients : Storing(d, k)'
  <2>1. ASSUME NEW d \in Clients, Storing(d, k) PROVE Storing(d, k)' \/ <<"setting", k>> \in broken'
    BY <1>1, <2>1 DEF Storing, Setting
  <2> QED BY <2>1 DEF SettingInv, SameSettings
<1> QED BY <1>3, <1>4, <1>5, <1>6 DEF SettingInv

\* The key of a request for the settings stays the same.
LEMMA SettingKey ==
    ASSUME Shape, SettingInv, NEW c \in Clients, Proceeds(c), ~Idle(c),
           ~Idle(c)', job'[c].op = "settings"
    PROVE  job[c].op = "settings" /\ job'[c].arg = job[c].arg /\ job'[c].arg.key \in Settings
BY DEF Proceeds, Moved, Keeps, Idle, SettingInv, Arg

\* Setting a value in memory: the request goes on to store it, and overtakes every other
\* request that has not stored its own.
LEMMA SettingSet ==
    ASSUME Shape, SettingInv, NEW c \in Clients, StepOf(c, "setSetting")
    PROVE  SettingInv'
<1> DEFINE k == Arg(c).key
           v == Arg(c).value
<1>1. SetSetting(c) /\ At(c, "setSetting") /\ ~Idle(c) /\ Alone(c)
  BY DEF StepOf, Does, Named, NamedResets, Effects, Proceeds
<1>2. job[c].op = "settings" /\ k \in Settings
  <2>1. Belongs(job[c].op, "setSetting")
    BY <1>1, BelongsAt
  <2> QED BY <1>1, <2>1 DEF Belongs, SettingInv
<1>3. /\ job'[c].plan = Rest(c) /\ job'[c].arg = job[c].arg /\ job'[c].op = job[c].op
      /\ job'[c].reads = job[c].reads \cup {Setting(c)}
  BY <1>1 DEF SetSetting, Relies, Setting, Shape, JobShape, Fields
<1>4. At(c, "storeSetting")' /\ Arg(c)' = Arg(c) /\ ~Idle(c)' /\ Setting(c)' = Setting(c)
  <2>1. Rest(c) # <<>> /\ Head(Rest(c)) = "storeSetting"
    BY <1>1, GoesOn
  <2> QED BY <1>3, <2>1 DEF At, Arg, Idle, Setting
<1>5. /\ external'.settings = [external.settings EXCEPT ![k] = v] /\ external'.saved = external.saved
      /\ raced' = raced \cup {r \in {Setting(c)} : \E d \in Clients \ {c} : r \in job[d].reads}
      /\ broken' = broken
  BY <1>1 DEF SetSetting, Touch, InLogin, Shape, Setting
<1> HIDE DEF k, v
<1>6. ASSUME NEW d \in Clients, d # c
      PROVE  /\ At(d, "storeSetting")' <=> At(d, "storeSetting")
             /\ Arg(d)' = Arg(d) /\ (Idle(d)' <=> Idle(d)) /\ job'[d] = job[d] /\ Setting(d)' = Setting(d)
  BY <1>1, <1>6, SameRequest DEF Alone, Setting
<1>7. DOMAIN external'.settings = Settings /\ DOMAIN external'.saved = Settings
  BY <1>5 DEF SettingInv
<1>8. ASSUME NEW d \in Clients, (job[d].op = "settings" /\ ~Idle(d))' PROVE Arg(d)'.key \in Settings
  BY <1>2, <1>4, <1>6, <1>8 DEF SettingInv, k
<1>9. ASSUME NEW d \in Clients, At(d, "storeSetting")'
      PROVE  /\ Setting(d)' \in job'[d].reads
             /\ external'.settings[Arg(d)'.key] = Arg(d)'.value \/ Setting(d)' \in raced' \cup broken'
  <2>1. CASE d = c
    BY <1>2, <1>3, <1>4, <1>5, <2>1 DEF SettingInv, k, v
  <2>2. CASE d # c
    <3>1. Setting(d) \in job[d].reads
      BY <1>6, <1>9, <2>2 DEF SettingInv
    <3>2. CASE Arg(d).key = k
      <4>1. Setting(d) = Setting(c)
        BY <3>2 DEF Setting, k
      <4>2. Setting(c) \in raced'
        BY <1>5, <2>2, <3>1, <4>1
      <4> QED BY <1>6, <2>2, <3>1, <4>1, <4>2
    <3>3. CASE Arg(d).key # k
      <4>1. external'.settings[Arg(d).key] = external.settings[Arg(d).key]
        BY <1>5, <3>3
      <4>2. external.settings[Arg(d).key] = Arg(d).value \/ Setting(d) \in raced \cup broken
        BY <1>6, <1>9, <2>2 DEF SettingInv
      <4> QED BY <1>5, <1>6, <2>2, <3>1, <4>1, <4>2
    <3> QED BY <3>2, <3>3
  <2> QED BY <2>1, <2>2
<1>10. ASSUME NEW j \in Settings
       PROVE  \/ external'.settings[j] = external'.saved[j] \/ <<"setting", j>> \in raced' \cup broken'
              \/ \E d \in Clients : Storing(d, j)'
  <2>1. CASE j = k
    BY <1>4, <2>1 DEF Storing, k
  <2>2. CASE j # k
    <3>1. external'.settings[j] = external.settings[j] /\ raced \subseteq raced'
      BY <1>5, <2>2
    <3>2. ASSUME NEW d \in Clients, Storing(d, j) PROVE Storing(d, j)'
      <4>1. d # c
        BY <1>1, <3>2 DEF Storing, At
      <4> QED BY <1>6, <3>2, <4>1 DEF Storing
    <3> QED BY <1>5, <3>1, <3>2 DEF SettingInv
  <2> QED BY <2>1, <2>2
<1> QED BY <1>7, <1>8, <1>9, <1>10 DEF SettingInv

\* Storing the value: it is what is in memory, unless the request was overtaken.
LEMMA SettingStored ==
    ASSUME Shape, SettingInv, NEW c \in Clients, StepOf(c, "storeSetting")
    PROVE  SettingInv'
<1> DEFINE k == Arg(c).key
           v == Arg(c).value
<1>1. StoreSetting(c) /\ At(c, "storeSetting") /\ ~Idle(c) /\ Alone(c)
  BY DEF StepOf, Does, Named, NamedResets, Effects, Proceeds
<1>2. Idle(c)' /\ ~At(c, "storeSetting")'
  <2>1. Idle(c)'
    BY <1>1, Replies DEF StoreSetting, Shape
  <2> QED BY <2>1 DEF At, Idle
<1>3. /\ external'.saved = [external.saved EXCEPT ![k] = v] /\ external'.settings = external.settings
      /\ raced' = raced /\ broken' = broken
  BY <1>1 DEF StoreSetting, InState, InLogin, Shape
<1> HIDE DEF k, v
<1>4. ASSUME NEW d \in Clients, d # c
      PROVE  /\ At(d, "storeSetting")' <=> At(d, "storeSetting")
             /\ Arg(d)' = Arg(d) /\ (Idle(d)' <=> Idle(d)) /\ job'[d] = job[d] /\ Setting(d)' = Setting(d)
  BY <1>1, <1>4, SameRequest DEF Alone, Setting
<1>5. DOMAIN external'.settings = Settings /\ DOMAIN external'.saved = Settings
  BY <1>3 DEF SettingInv
<1>6. ASSUME NEW d \in Clients, (job[d].op = "settings" /\ ~Idle(d))' PROVE Arg(d)'.key \in Settings
  BY <1>2, <1>4, <1>6 DEF SettingInv
<1>7. ASSUME NEW d \in Clients, At(d, "storeSetting")'
      PROVE  /\ Setting(d)' \in job'[d].reads
             /\ external'.settings[Arg(d)'.key] = Arg(d)'.value \/ Setting(d)' \in raced' \cup broken'
  BY <1>2, <1>3, <1>4, <1>7 DEF SettingInv
<1>8. ASSUME NEW j \in Settings
      PROVE  \/ external'.settings[j] = external'.saved[j] \/ <<"setting", j>> \in raced' \cup broken'
             \/ \E d \in Clients : Storing(d, j)'
  <2>1. CASE j = k
    <3>1. external.settings[k] = v \/ <<"setting", k>> \in raced \cup broken
      BY <1>1 DEF SettingInv, Setting, k, v
    <3> QED BY <1>3, <2>1, <3>1 DEF SettingInv
  <2>2. CASE j # k
    <3>1. external'.saved[j] = external.saved[j]
      BY <1>3, <2>2
    <3>2. ASSUME NEW d \in Clients, Storing(d, j) PROVE Storing(d, j)'
      <4>1. d # c
        BY <2>2, <3>2 DEF Storing, k
      <4> QED BY <1>4, <3>2, <4>1 DEF Storing
    <3> QED BY <1>3, <3>1, <3>2 DEF SettingInv
  <2> QED BY <2>1, <2>2
<1> QED BY <1>5, <1>6, <1>7, <1>8 DEF SettingInv

\* Every step keeps the invariant of the settings.
LEMMA SettingKept == ASSUME Shape, SettingInv, [Next]_vars PROVE SettingInv'
<1>1. ASSUME NEW c \in Clients, NEW x, StepOf(c, x) PROVE SettingInv'
  <2>1. CASE x = "setSetting"
    BY <1>1, <2>1, SettingSet
  <2>2. CASE x = "storeSetting"
    BY <1>1, <2>2, SettingStored
  <2>3. CASE x \notin {"setSetting", "storeSetting"}
    <3>1. /\ Alone(c) /\ SameSettings /\ raced \subseteq raced' /\ broken \subseteq broken'
          /\ Proceeds(c) /\ At(c, x) /\ ~Idle(c)
      BY <1>1, <2>3 DEF StepOf, Does, Effects, Grows, Proceeds
    <3>2. ~At(c, "storeSetting")'
      BY <2>3, <3>1, Came, LeadsToStates
    <3>3. ~At(c, "storeSetting")
      BY <2>3, <3>1 DEF At
    <3> QED BY <3>1, <3>2, <3>3, SettingQuiet, SettingKey
  <2> QED BY <2>1, <2>2, <2>3
<1>2. ASSUME NEW c \in Clients, FailsAt(c) PROVE SettingInv'
  <2>1. /\ Alone(c) /\ SameSettings /\ raced \subseteq raced' /\ broken \subseteq broken'
        /\ Proceeds(c) /\ ~Idle(c)
    BY <1>2 DEF FailsAt, SameTables, SameSettings, Grows, Proceeds
  <2>2. CASE LoggedFailure(c)
    <3>1. PICK x \in {"forget", "applyRoles", "syncFlags", "ssoRoles"} : At(c, x)
      BY <2>2 DEF LoggedFailure
    <3>2. ~At(c, "storeSetting")'
      BY <2>1, <3>1, Came, LeadsToStates
    <3>3. ~At(c, "storeSetting")
      BY <3>1 DEF At
    <3> QED BY <2>1, <3>2, <3>3, SettingQuiet, SettingKey
  <2>3. CASE Idle(c)' /\ broken' = broken \cup job[c].reads
    <3>1. At(c, "storeSetting") => Setting(c) \in broken'
      BY <2>3 DEF SettingInv
    <3> QED BY <2>1, <2>3, <3>1, SettingQuiet
  <2> QED BY <1>2, <2>2, <2>3 DEF FailsAt
<1>3. ASSUME NEW c \in Clients, Arrival(c) PROVE SettingInv'
  <2>1. /\ Alone(c) /\ SameSettings /\ raced \subseteq raced' /\ broken \subseteq broken'
        /\ Arrives(job'[c]) /\ Idle(c)
    BY <1>3, ArrivalFacts DEF SameSettings, Arrival
  <2>2. ~At(c, "storeSetting")' /\ ~At(c, "storeSetting")
    <3>1. "storeSetting" \notin First
      BY DEF First
    <3> QED BY <1>3, <2>1, <3>1, ArrivesAt DEF At, Idle
  <2>3. job'[c].op = "settings" => job'[c].arg.key \in Settings
    BY <2>1 DEF Arrives
  <2> QED BY <2>1, <2>2, <2>3, SettingQuiet
<1>4. ASSUME Passing PROVE SettingInv'
  BY <1>4 DEF Passing, Stands, SameSettings, SettingInv, At, Arg, Idle, Storing, Setting
<1>5. ASSUME Restarts PROVE SettingInv'
  <2>1. \A c \in Clients : Idle(c)' /\ \A y : ~At(c, y)'
    BY <1>5 DEF Restarts, Idle, At, NoJob
  <2>2. external'.settings = external.saved /\ external'.saved = external.saved
    BY <1>5 DEF Restarts, Stands
  <2> QED BY <2>1, <2>2 DEF SettingInv
<1> QED BY <1>1, <1>2, <1>3, <1>4, <1>5, NextKinds

\* Between requests the settings in force are those a restart would load (SettingsPersisted):
\* a setting that differs from its row is about to be stored by a request, which the other
\* updates of it have not overtaken, or the request has failed before it came to it.
THEOREM SettingsPersist == Spec => []SettingsPersisted
<1>1. Init => Shape /\ SettingInv
  BY ShapeInitial, SettingInitial
<1>2. Shape /\ SettingInv /\ [Next]_vars => Shape' /\ SettingInv'
  BY ShapeKept, SettingKept
<1>3. Shape /\ SettingInv => SettingsPersisted
  BY DEF SettingInv, SettingsPersisted, Quiescent, Storing, At, Idle
<1> QED BY <1>1, <1>2, <1>3, PTL DEF Spec

------------------------------------------------------------------------------
(* The password resets.                                                        *)

\* At first there are no reset requests.
LEMMA ResetInitial == ASSUME Init PROVE ResetInv
<1>1. \A c \in Clients : \A y : ~At(c, y)
  <2>1. \A c \in Clients : job[c] = NoJob
    BY DEF Init, AccountsInit
  <2> QED BY <2>1 DEF At, NoJob
<1>2. DOMAIN resets = {}
  BY DEF Init, AccountsInit, EmptyMap
<1> QED BY <1>1, <1>2 DEF ResetInv, Resetting

\* A step that sets no password of a reset and marks no token: rows are deleted or added.
LEMMA ResetQuiet ==
    ASSUME Shape, ResetInv, NEW c \in Clients, Alone(c),
           \A r \in DOMAIN resets' :
             \/ r \in DOMAIN resets /\ resets'[r] = resets[r]
             \/ {"uses", "state"} \subseteq DOMAIN resets'[r] /\ resets'[r].uses = 0,
           raced \subseteq raced', broken \subseteq broken',
           ~At(c, "setUsed")', At(c, "setUsed") => ResetOf(c) \in broken',
           Resetting(c)' =>
             /\ ResetOf(c)' \in job'[c].reads
             /\ Arg(c)'.id \in DOMAIN resets =>
                  \/ resets[Arg(c)'.id].uses = 0 \/ ResetOf(c)' \in raced \cup broken
                  \/ \E d \in Clients : Marking(d, Arg(c)'.id)
    PROVE  ResetInv'
<1>1. ASSUME NEW d \in Clients, d # c
      PROVE  /\ \A y : At(d, y)' <=> At(d, y)
             /\ Arg(d)' = Arg(d) /\ job'[d] = job[d] /\ ResetOf(d)' = ResetOf(d)
             /\ Resetting(d)' <=> Resetting(d)
  BY <1>1, SameRequest DEF Alone, ResetOf, Resetting
<1>2. ASSUME NEW r, \E d \in Clients : Marking(d, r)
      PROVE  (\E d \in Clients : Marking(d, r)') \/ <<"reset", r>> \in broken'
  <2>1. PICK d \in Clients : Marking(d, r)
    BY <1>2
  <2>2. CASE d = c
    BY <2>1, <2>2 DEF Marking, ResetOf
  <2>3. CASE d # c
    BY <1>1, <2>1, <2>3 DEF Marking
  <2> QED BY <2>2, <2>3
<1>3. ASSUME NEW d \in Clients, Resetting(d)' \/ At(d, "setUsed")' PROVE ResetOf(d)' \in job'[d].reads
  BY <1>1, <1>3 DEF ResetInv
<1>4. ASSUME NEW d \in Clients, NEW r \in DOMAIN resets', Resetting(d)', Arg(d)'.id = r
      PROVE  \/ resets'[r].uses = 0 \/ <<"reset", r>> \in raced' \cup broken'
             \/ \E e \in Clients : Marking(e, r)'
  <2>1. ResetOf(d)' = <<"reset", r>>
    BY <1>4 DEF ResetOf
  <2>2. r \in DOMAIN resets =>
          \/ resets[r].uses = 0 \/ <<"reset", r>> \in raced \cup broken \/ \E e \in Clients : Marking(e, r)
    BY <1>1, <1>4, <2>1 DEF ResetInv
  <2>3. (\E e \in Clients : Marking(e, r)) => (\E e \in Clients : Marking(e, r)') \/ <<"reset", r>> \in broken'
    BY <1>2
  <2>4. CASE r \in DOMAIN resets /\ resets'[r] = resets[r]
    BY <2>2, <2>3, <2>4
  <2> QED BY <2>4
<1>5. ASSUME NEW r \in DOMAIN resets'
      PROVE  /\ {"uses", "state"} \subseteq DOMAIN resets'[r]
             /\ \/ resets'[r].uses = 0 \/ <<"reset", r>> \in raced' \cup broken'
                \/ resets'[r].uses = 1 /\ (resets'[r].state = "Used" \/ \E d \in Clients : Marking(d, r)')
  BY <1>2 DEF ResetInv
<1>6. ASSUME NEW d \in Clients, Resetting(d)', Arg(d)'.id \in DOMAIN resets'
      PROVE  \/ resets'[Arg(d)'.id].uses = 0 \/ ResetOf(d)' \in raced' \cup broken'
             \/ \E e \in Clients : Marking(e, Arg(d).id)'
  BY <1>4, <1>6 DEF ResetOf, Marking
<1> QED BY <1>3, <1>5, <1>6 DEF ResetInv

\* The rows a user leaves behind, and the row of a reset that is asked for.
LEMMA ResetRows ==
    ASSUME Shape, NEW c \in Clients, NEW x, StepOf(c, x), x \notin {"setPassword", "setUsed"}
    PROVE  \A r \in DOMAIN resets' :
             \/ r \in DOMAIN resets /\ resets'[r] = resets[r]
             \/ {"uses", "state"} \subseteq DOMAIN resets'[r] /\ resets'[r].uses = 0
<1>1. CASE x = "deleteUser"
  <2>1. DeleteUser(c)
    BY <1>1 DEF StepOf, Does, Named, NamedUsers
  <2>2. resets' = Keep(resets, {r \in DOMAIN resets : resets[r].user # Arg(c).id})
    BY <2>1 DEF DeleteUser
  <2> QED BY <2>2 DEF Keep
<1>2. CASE x = "createReset"
  <2>1. CreateReset(c)
    BY <1>2 DEF StepOf, Does, Named, NamedResets
  <2>2. \/ resets' = resets
        \/ resets' = Put(resets, NewId, [user |-> job[c].mem.id, state |-> "Requested",
                                         expires |-> now + ResetLife, uses |-> 0])
    BY <2>1 DEF CreateReset
  <2>3. ASSUME NEW u, NEW e, NEW n,
               resets' = Put(resets, n, [user |-> u, state |-> "Requested", expires |-> e, uses |-> 0])
        PROVE  \A r \in DOMAIN resets' :
                 \/ r \in DOMAIN resets /\ resets'[r] = resets[r]
                 \/ {"uses", "state"} \subseteq DOMAIN resets'[r] /\ resets'[r].uses = 0
    BY <2>3 DEF Put
  <2> QED BY <2>2, <2>3
<1>3. CASE x \notin {"deleteUser", "createReset"}
  BY <1>3 DEF StepOf, Does, Effects
<1> QED BY <1>1, <1>2, <1>3

\* The token is read: it has not been used, or somebody is about to mark it.
LEMMA ResetFound ==
    ASSUME Shape, ResetInv, NEW c \in Clients, StepOf(c, "findReset")
    PROVE  Resetting(c)' =>
             /\ ResetOf(c)' \in job'[c].reads
             /\ Arg(c)'.id \in DOMAIN resets =>
                  \/ resets[Arg(c)'.id].uses = 0 \/ ResetOf(c)' \in raced \cup broken
                  \/ \E d \in Clients : Marking(d, Arg(c)'.id)
<1>1. FindReset(c)
  BY DEF StepOf, Does, Named, NamedResets
<1>2. CASE ResetValid(Arg(c).id)
  <2>1. job'[c].arg = job[c].arg /\ job'[c].reads = job[c].reads \cup {<<"reset", Arg(c).id>>}
    <3>1. PICK m : Relies(c, {<<"reset", Arg(c).id>>}, m)
      BY <1>1, <1>2 DEF FindReset
    <3> QED BY <3>1 DEF Relies, Shape, JobShape, Fields
  <2>2. Arg(c)' = Arg(c) /\ ResetOf(c)' = ResetOf(c)
    BY <2>1 DEF Arg, ResetOf
  <2>3. Arg(c).id \in DOMAIN resets /\ resets[Arg(c).id].state = "Requested"
    BY <1>2 DEF ResetValid
  <2> QED BY <2>1, <2>2, <2>3 DEF ResetInv, ResetOf
<1>3. CASE ~ResetValid(Arg(c).id)
  <2>1. Idle(c)'
    BY <1>1, <1>3, Replies DEF FindReset, Shape
  <2> QED BY <2>1 DEF Resetting, At, Idle
<1> QED BY <1>2, <1>3

\* Setting the password uses the reset, which the request goes on to mark.
LEMMA ResetSet ==
    ASSUME Shape, ResetInv, NEW c \in Clients, StepOf(c, "setPassword"), job[c].op = "reset"
    PROVE  ResetInv'
<1> DEFINE q == Arg(c).id
<1>1. SetPassword(c) /\ At(c, "setPassword") /\ Alone(c) /\ raced \subseteq raced' /\ broken' = broken
  BY DEF StepOf, Does, Named, NamedResets, Effects, Proceeds, Grows, SetPassword, InTables
<1>2. At(c, "setUsed")' /\ Arg(c)' = Arg(c) /\ ResetOf(c)' = ResetOf(c) /\ job'[c].reads = job[c].reads
      /\ job'[c].op = "reset"
  <2>1. Rest(c) # <<>> /\ Head(Rest(c)) = "setUsed"
    BY <1>1, GoesOn
  <2>2. job' = [job EXCEPT ![c].plan = Rest(c)]
    BY <1>1, <2>1 DEF SetPassword, AdvanceOr, Advance, Goto
  <2>3. job'[c].plan = Rest(c) /\ job'[c].arg = job[c].arg /\ job'[c].reads = job[c].reads
        /\ job'[c].op = job[c].op
    BY <2>2 DEF Shape, JobShape, Fields
  <2> QED BY <2>1, <2>3 DEF At, Arg, ResetOf
<1>3. ~Resetting(c)' /\ ResetOf(c) \in job[c].reads /\ ~At(c, "setUsed")
  <2>1. Resetting(c)
    BY <1>1 DEF Resetting
  <2> QED BY <1>1, <1>2, <2>1 DEF Resetting, At, ResetInv
<1>4. /\ resets' = IF q \in DOMAIN resets THEN [resets EXCEPT ![q].uses = @ + 1] ELSE resets
      /\ raced' = raced \cup {r \in {<<"reset", q>>} : \E d \in Clients \ {c} : r \in job[d].reads}
  BY <1>1 DEF SetPassword, Touch
<1>5. ASSUME NEW d \in Clients, d # c
      PROVE  /\ \A y : At(d, y)' <=> At(d, y)
             /\ Arg(d)' = Arg(d) /\ job'[d] = job[d] /\ ResetOf(d)' = ResetOf(d)
             /\ Resetting(d)' <=> Resetting(d)
  BY <1>1, <1>5, SameRequest DEF Alone, ResetOf, Resetting
<1>6. ASSUME NEW d \in Clients, d # c, Resetting(d) \/ At(d, "setUsed"), Arg(d).id = q
      PROVE  <<"reset", q>> \in raced'
  <2>1. <<"reset", q>> \in job[d].reads
    BY <1>6 DEF ResetInv, ResetOf
  <2> QED BY <1>4, <1>6, <2>1
<1>7. q \in DOMAIN resets => resets[q].uses = 0 \/ <<"reset", q>> \in raced' \cup broken'
  <2>1. ASSUME NEW d \in Clients, Marking(d, q) PROVE <<"reset", q>> \in raced'
    <3>1. d # c
      BY <1>3, <2>1 DEF Marking
    <3> QED BY <1>6, <2>1, <3>1 DEF Marking
  <2>2. Resetting(c)
    BY <1>1 DEF Resetting
  <2> QED BY <1>1, <2>1, <2>2 DEF ResetInv, ResetOf
<1>8. ResetOf(c) = <<"reset", q>> /\ Marking(c, q)'
  BY <1>2 DEF ResetOf, Marking
<1>9. DOMAIN resets' = DOMAIN resets /\ \A r \in DOMAIN resets : r # q => resets'[r] = resets[r]
  BY <1>4
<1>10. q \in DOMAIN resets => resets'[q] = [resets[q] EXCEPT !.uses = resets[q].uses + 1]
  BY <1>4
<1> HIDE DEF q
<1>11. ASSUME NEW r, r # q, \E d \in Clients : Marking(d, r) PROVE \E d \in Clients : Marking(d, r)'
  <2>1. PICK d \in Clients : Marking(d, r)
    BY <1>11
  <2>2. d # c
    BY <1>3, <2>1 DEF Marking
  <2> QED BY <1>5, <2>1, <2>2 DEF Marking
<1>12. ASSUME NEW d \in Clients, Resetting(d)' \/ At(d, "setUsed")' PROVE ResetOf(d)' \in job'[d].reads
  BY <1>2, <1>3, <1>5, <1>12 DEF ResetInv
<1>13. ASSUME NEW d \in Clients, Resetting(d)', Arg(d)'.id \in DOMAIN resets'
       PROVE  \/ resets'[Arg(d)'.id].uses = 0 \/ ResetOf(d)' \in raced' \cup broken'
              \/ \E e \in Clients : Marking(e, Arg(d).id)'
  <2>1. d # c
    BY <1>3, <1>13
  <2>2. Resetting(d) /\ Arg(d)' = Arg(d) /\ ResetOf(d)' = ResetOf(d) /\ ResetOf(d) = <<"reset", Arg(d).id>>
    BY <1>5, <1>13, <2>1 DEF ResetOf
  <2>3. CASE Arg(d).id = q
    BY <1>6, <2>1, <2>2, <2>3
  <2>4. CASE Arg(d).id # q
    <3>0. PICK r : r = Arg(d).id
      OBVIOUS
    <3>1. r \in DOMAIN resets /\ resets'[r] = resets[r] /\ r # q
      BY <1>9, <1>13, <2>2, <2>4, <3>0
    <3>2. \/ resets[r].uses = 0 \/ ResetOf(d) \in raced \cup broken \/ \E e \in Clients : Marking(e, r)
      BY <2>2, <3>0, <3>1 DEF ResetInv
    <3>3. \/ resets'[r].uses = 0 \/ ResetOf(d) \in raced' \cup broken' \/ \E e \in Clients : Marking(e, r)'
      BY <1>1, <1>11, <3>1, <3>2
    <3> QED BY <2>2, <3>0, <3>3 DEF Marking
  <2> QED BY <2>3, <2>4
<1>14. ASSUME NEW r \in DOMAIN resets'
       PROVE  /\ {"uses", "state"} \subseteq DOMAIN resets'[r]
              /\ \/ resets'[r].uses = 0 \/ <<"reset", r>> \in raced' \cup broken'
                 \/ resets'[r].uses = 1 /\ (resets'[r].state = "Used" \/ \E d \in Clients : Marking(d, r)')
  <2>1. CASE r = q
    <3>1. {"uses", "state"} \subseteq DOMAIN resets[q] /\ q \in DOMAIN resets
      BY <1>9, <2>1 DEF ResetInv
    <3>2. {"uses", "state"} \subseteq DOMAIN resets'[q] /\ resets'[q].uses = resets[q].uses + 1
      BY <1>10, <3>1
    <3>3. resets[q].uses = 0 => resets'[q].uses = 1
      BY <3>2
    <3>4. <<"reset", q>> \in raced' \cup broken' \/ resets'[q].uses = 1
      BY <1>7, <3>1, <3>3
    <3>5. \E d \in Clients : Marking(d, r)'
      BY <1>2, <2>1 DEF Marking, q
    <3>6. {"uses", "state"} \subseteq DOMAIN resets'[r]
      BY <2>1, <3>2
    <3>7. <<"reset", r>> \in raced' \cup broken' \/ (resets'[r].uses = 1 /\ \E d \in Clients : Marking(d, r)')
      BY <2>1, <3>4, <3>5
    <3> QED BY <3>6, <3>7
  <2>2. CASE r # q
    <3>1. r \in DOMAIN resets /\ resets'[r] = resets[r]
      BY <1>9, <2>2
    <3> QED BY <1>1, <1>11, <2>2, <3>1 DEF ResetInv
  <2> QED BY <2>1, <2>2
<1> QED BY <1>12, <1>13, <1>14 DEF ResetInv

\* Marking the reset as used.
LEMMA ResetMarked ==
    ASSUME Shape, ResetInv, NEW c \in Clients, StepOf(c, "setUsed")
    PROVE  ResetInv'
<1> DEFINE q == Arg(c).id
<1>1. SetUsed(c) /\ At(c, "setUsed") /\ Alone(c) /\ raced \subseteq raced' /\ broken' = broken
  BY DEF StepOf, Does, Named, NamedResets, Effects, Proceeds, Grows, SetUsed, InTables
<1>2. Idle(c)'
  BY <1>1, Replies DEF SetUsed, Shape
<1>3. ~Resetting(c)' /\ ~At(c, "setUsed")'
  BY <1>2 DEF Resetting, At, Idle
<1>4. /\ resets' = [r \in DOMAIN resets |->
                      IF r = q THEN [resets[r] EXCEPT !.state = "Used"] ELSE resets[r]]
      /\ raced' = raced \cup {r \in {<<"reset", q>>} : \E d \in Clients \ {c} : r \in job[d].reads}
  BY <1>1 DEF SetUsed, Touch
<1>5. ASSUME NEW d \in Clients, d # c
      PROVE  /\ \A y : At(d, y)' <=> At(d, y)
             /\ Arg(d)' = Arg(d) /\ job'[d] = job[d] /\ ResetOf(d)' = ResetOf(d)
             /\ Resetting(d)' <=> Resetting(d)
  BY <1>1, <1>5, SameRequest DEF Alone, ResetOf, Resetting
<1> HIDE DEF q
<1>6. ASSUME NEW r, r # q, \E d \in Clients : Marking(d, r) PROVE \E d \in Clients : Marking(d, r)'
  <2>1. PICK d \in Clients : Marking(d, r)
    BY <1>6
  <2>2. d # c
    BY <1>6, <2>1 DEF Marking, q
  <2> QED BY <1>5, <2>1, <2>2 DEF Marking
<1>7. ASSUME NEW d \in Clients, Resetting(d)' \/ At(d, "setUsed")' PROVE ResetOf(d)' \in job'[d].reads
  BY <1>3, <1>5, <1>7 DEF ResetInv
<1>8. ASSUME NEW d \in Clients, Resetting(d)', Arg(d)'.id \in DOMAIN resets'
      PROVE  \/ resets'[Arg(d)'.id].uses = 0 \/ ResetOf(d)' \in raced' \cup broken'
             \/ \E e \in Clients : Marking(e, Arg(d).id)'
  <2>1. d # c
    BY <1>3, <1>8
  <2>2. Resetting(d) /\ Arg(d)' = Arg(d) /\ ResetOf(d)' = ResetOf(d) /\ ResetOf(d) = <<"reset", Arg(d).id>>
        /\ ResetOf(d) \in job[d].reads
    BY <1>5, <1>8, <2>1 DEF ResetOf, ResetInv
  <2>3. CASE Arg(d).id = q
    BY <1>4, <2>1, <2>2, <2>3
  <2>4. CASE Arg(d).id # q
    <3>0. PICK r : r = Arg(d).id
      OBVIOUS
    <3>1. r \in DOMAIN resets /\ resets'[r] = resets[r] /\ r # q
      BY <1>4, <1>8, <2>2, <2>4, <3>0
    <3>2. \/ resets[r].uses = 0 \/ ResetOf(d) \in raced \cup broken \/ \E e \in Clients : Marking(e, r)
      BY <2>2, <3>0, <3>1 DEF ResetInv
    <3>3. \/ resets'[r].uses = 0 \/ ResetOf(d) \in raced' \cup broken' \/ \E e \in Clients : Marking(e, r)'
      BY <1>1, <1>6, <3>1, <3>2
    <3> QED BY <2>2, <3>0, <3>3 DEF Marking
  <2> QED BY <2>3, <2>4
<1>9. ASSUME NEW r \in DOMAIN resets'
      PROVE  /\ {"uses", "state"} \subseteq DOMAIN resets'[r]
             /\ \/ resets'[r].uses = 0 \/ <<"reset", r>> \in raced' \cup broken'
                \/ resets'[r].uses = 1 /\ (resets'[r].state = "Used" \/ \E d \in Clients : Marking(d, r)')
  <2>1. CASE r = q
    <3>1. {"uses", "state"} \subseteq DOMAIN resets[r] /\ r \in DOMAIN resets
      BY <1>4, <2>1 DEF ResetInv
    <3>2. DOMAIN resets'[r] = DOMAIN resets[r] /\ resets'[r].uses = resets[r].uses /\ resets'[r].state = "Used"
      BY <1>4, <2>1, <3>1
    <3> QED BY <1>1, <3>1, <3>2 DEF ResetInv
  <2>2. CASE r # q
    <3>1. r \in DOMAIN resets /\ resets'[r] = resets[r]
      BY <1>4, <2>2
    <3> QED BY <1>1, <1>6, <2>2, <3>1 DEF ResetInv
  <2> QED BY <2>1, <2>2
<1> QED BY <1>7, <1>8, <1>9 DEF ResetInv

\* Every step keeps the invariant of the resets.
LEMMA ResetKept == ASSUME Shape, ResetInv, [Next]_vars PROVE ResetInv'
<1>1. ASSUME NEW c \in Clients, NEW x, StepOf(c, x) PROVE ResetInv'
  <2>1. /\ Alone(c) /\ raced \subseteq raced' /\ broken \subseteq broken'
        /\ Proceeds(c) /\ At(c, x) /\ ~Idle(c)
    BY <1>1 DEF StepOf, Does, Effects, Grows, Proceeds
  <2>2. CASE x = "setUsed"
    BY <1>1, <2>2, ResetMarked
  <2>3. CASE x = "setPassword" /\ job[c].op = "reset"
    BY <1>1, <2>3, ResetSet
  <2>4. CASE x = "setPassword" /\ job[c].op # "reset"
    <3>1. SetPassword(c)
      BY <1>1, <2>4 DEF StepOf, Does, Named, NamedResets
    <3>2. resets' = resets
      BY <2>4, <3>1 DEF SetPassword
    <3>3. ~At(c, "setUsed")'
      BY <2>1, <2>4, Came DEF Belongs
    <3>4. ~Resetting(c)'
      <4>1. ~At(c, "resetUser")'
        BY <2>1, <2>4, Came, LeadsToStates
      <4>2. At(c, "setPassword")' => job'[c].op = job[c].op
        BY <2>1, Came DEF Keeps
      <4> QED BY <2>4, <4>1, <4>2 DEF Resetting
    <3>5. ~At(c, "setUsed")
      BY <2>1, <2>4 DEF At
    <3> QED BY <2>1, <3>2, <3>3, <3>4, <3>5, ResetQuiet DEF ResetInv
  <2>5. CASE x \notin {"setUsed", "setPassword"}
    <3>1. \A r \in DOMAIN resets' :
             \/ r \in DOMAIN resets /\ resets'[r] = resets[r]
             \/ {"uses", "state"} \subseteq DOMAIN resets'[r] /\ resets'[r].uses = 0
      BY <1>1, <2>5, ResetRows
    <3>2. ~At(c, "setUsed")' /\ ~At(c, "setUsed")
      <4>1. ~At(c, "setUsed")'
        BY <2>1, <2>5, Came, LeadsToStates
      <4> QED BY <2>1, <2>5, <4>1 DEF At
    <3>3. ASSUME Resetting(c)'
          PROVE  /\ ResetOf(c)' \in job'[c].reads
                 /\ Arg(c)'.id \in DOMAIN resets =>
                      \/ resets[Arg(c)'.id].uses = 0 \/ ResetOf(c)' \in raced \cup broken
                      \/ \E d \in Clients : Marking(d, Arg(c)'.id)
      <4>1. x = "findReset" \/ x = "resetUser"
        <5>1. CASE At(c, "resetUser")'
          BY <2>1, <5>1, Came, LeadsToStates
        <5>2. CASE At(c, "setPassword")' /\ job'[c].op = "reset"
          <6>1. job[c].op = "reset"
            BY <2>1, <5>2, Came DEF Keeps
          <6> QED BY <2>1, <5>2, <6>1, Came, LeadsToStates
        <5> QED BY <3>3, <5>1, <5>2 DEF Resetting
      <4>2. CASE x = "findReset"
        BY <1>1, <3>3, <4>2, ResetFound
      <4>3. CASE x = "resetUser"
        <5>1. job[c].op = "reset"
          BY <2>1, <4>3, BelongsAt DEF Belongs
        <5>2. Keeps(job[c], job'[c])
          <6>1. At(c, "resetUser")' \/ At(c, "setPassword")'
            BY <3>3 DEF Resetting
          <6> QED BY <2>1, <6>1, Came
        <5>3. Head(job[c].plan) # "take"
          BY <2>1, <4>3 DEF At
        <5>4. job[c].reads \subseteq job'[c].reads /\ job'[c].arg = job[c].arg
          BY <5>1, <5>2, <5>3 DEF Keeps
        <5>5. Arg(c)' = Arg(c) /\ ResetOf(c)' = ResetOf(c) /\ Resetting(c)
          BY <2>1, <4>3, <5>4 DEF Arg, ResetOf, Resetting
        <5> QED BY <5>4, <5>5 DEF ResetInv
      <4> QED BY <4>1, <4>2, <4>3
    <3> QED BY <2>1, <3>1, <3>2, <3>3, ResetQuiet
  <2> QED BY <2>2, <2>3, <2>4, <2>5
<1>2. ASSUME NEW c \in Clients, FailsAt(c) PROVE ResetInv'
  <2>1. /\ Alone(c) /\ resets' = resets /\ raced \subseteq raced' /\ broken \subseteq broken'
        /\ Proceeds(c) /\ ~Idle(c)
    BY <1>2 DEF FailsAt, SameTables, Grows, Proceeds
  <2>2. CASE LoggedFailure(c)
    <3>1. PICK x \in {"forget", "applyRoles", "syncFlags", "ssoRoles"} : At(c, x)
      BY <2>2 DEF LoggedFailure
    <3>2. ~At(c, "setUsed")' /\ ~At(c, "resetUser")'
      BY <2>1, <3>1, Came, LeadsToStates
    <3>3. ~(At(c, "setPassword")' /\ job'[c].op = "reset")
      <4>1. ASSUME At(c, "setPassword")', job'[c].op = "reset" PROVE FALSE
        <5>1. job[c].op = "reset"
          BY <2>1, <3>1, <4>1, Came DEF Keeps
        <5> QED BY <2>1, <3>1, <4>1, <5>1, Came, LeadsToStates
      <4> QED BY <4>1
    <3>4. ~At(c, "setUsed")
      BY <3>1 DEF At
    <3> QED BY <2>1, <3>2, <3>3, <3>4, ResetQuiet DEF Resetting
  <2>3. CASE Idle(c)' /\ broken' = broken \cup job[c].reads
    <3>1. At(c, "setUsed") => ResetOf(c) \in broken'
      BY <2>3 DEF ResetInv
    <3>2. ~At(c, "setUsed")' /\ ~Resetting(c)'
      BY <2>3 DEF Resetting, At, Idle
    <3> QED BY <2>1, <3>1, <3>2, ResetQuiet
  <2> QED BY <1>2, <2>2, <2>3 DEF FailsAt
<1>3. ASSUME NEW c \in Clients, Arrival(c) PROVE ResetInv'
  <2>1. /\ Alone(c) /\ resets' = resets /\ raced \subseteq raced' /\ broken \subseteq broken' /\ Idle(c)
    BY <1>3, ArrivalFacts DEF Arrival
  <2>2. ~At(c, "setUsed")' /\ ~At(c, "setUsed") /\ ~Resetting(c)'
    <3>1. {"setUsed", "resetUser", "setPassword"} \cap First = {}
      BY DEF First
    <3>2. ~At(c, "setUsed")' /\ ~At(c, "resetUser")' /\ ~At(c, "setPassword")'
      BY <1>3, <3>1, ArrivesAt
    <3> QED BY <2>1, <3>2 DEF At, Idle, Resetting
  <2> QED BY <2>1, <2>2, ResetQuiet
<1>4. ASSUME Passing PROVE ResetInv'
  BY <1>4 DEF Passing, Stands, ResetInv, Resetting, Marking, ResetOf, At, Arg
<1>5. ASSUME Restarts PROVE ResetInv'
  <2>1. \A c \in Clients : \A y : ~At(c, y)'
    BY <1>5 DEF Restarts, At, NoJob
  <2>2. resets' = resets /\ raced' = raced /\ broken' = broken \cup UNION {job[c].reads : c \in Clients}
    BY <1>5 DEF Restarts, Stands
  <2>3. ASSUME NEW r, NEW c \in Clients, Marking(c, r) PROVE <<"reset", r>> \in broken'
    <3>1. <<"reset", r>> \in job[c].reads
      BY <2>3 DEF ResetInv, Marking, ResetOf
    <3> QED BY <2>2, <3>1
  <2> QED BY <2>1, <2>2, <2>3 DEF ResetInv, Resetting
<1> QED BY <1>1, <1>2, <1>3, <1>4, <1>5, NextKinds

------------------------------------------------------------------------------
(* The login states.                                                           *)

\* What a step of another request leaves as it is.
LEMMA OtherStates ==
    ASSUME NEW c, NEW d \in Clients, d # c, Alone(c)
    PROVE  /\ job'[d] = job[d] /\ Arg(d)' = Arg(d) /\ (Idle(d)' <=> Idle(d))
           /\ \A y : At(d, y)' <=> At(d, y)
           /\ (Uses(d)' <=> Uses(d)) /\ (Issuing(d)' <=> Issuing(d)) /\ StateOf(d)' = StateOf(d)
           /\ \A s : Holds(d, s)' <=> Holds(d, s)
<1>1. job'[d] = job[d]
  BY DEF Alone
<1>2. /\ \A y : At(d, y)' <=> At(d, y)
      /\ Arg(d)' = Arg(d) /\ (Idle(d)' <=> Idle(d))
  BY <1>1, SameRequest
<1> QED BY <1>1, <1>2 DEF Uses, Issuing, StateOf, Holds

\* Only callbacks look at states.
LEMMA UsesIssued ==
    ASSUME Shape, StateIds, NEW c \in Clients, Uses(c)
    PROVE  job[c].op = "callback" /\ Arg(c).id \in DOMAIN external.issued
<1>1. PICK y \in {"load", "exchange", "forget"} : At(c, y)
  BY DEF Uses
<1>2. job[c].op = "callback" /\ ~Idle(c)
  BY <1>1, BelongsAt DEF Belongs, At, Idle
<1> QED BY <1>2 DEF StateIds

\* Ids are not given out twice.
LEMMA IdsKept ==
    ASSUME Shape, StateInv, NEW c \in Clients, Alone(c), used'.ids \in Nat, used.ids <= used'.ids,
           \A s \in DOMAIN external'.memory : s \in DOMAIN external.memory \/ s = used'.ids,
           DOMAIN external.issued \subseteq DOMAIN external'.issued,
           \A s \in DOMAIN external'.issued :
             \/ s \in DOMAIN external.issued
             \/ /\ s \in Nat /\ s <= used'.ids
                /\ \A d \in Clients \ {c} : Issuing(d) => job[d].mem.id # s,
           DOMAIN external'.logins \subseteq DOMAIN external'.issued,
           job'[c].op = "callback" /\ ~Idle(c)' => job'[c].arg.id \in DOMAIN external'.issued,
           Issuing(c)' =>
             /\ job'[c].mem.id \in Nat /\ job'[c].mem.id <= used'.ids
             /\ job'[c].mem.id \notin DOMAIN external'.issued
             /\ \A d \in Clients \ {c} : Issuing(d) => job[d].mem.id # job'[c].mem.id
    PROVE  StateIds'
<1>1. ASSUME NEW s \in DOMAIN external'.memory \cup DOMAIN external'.issued
      PROVE  s \in Nat /\ s <= used'.ids
  <2>1. ASSUME s \in DOMAIN external.memory \cup DOMAIN external.issued PROVE s \in Nat /\ s <= used.ids
    BY <2>1 DEF StateInv, StateIds
  <2> QED BY <2>1 DEF Shape
<1>2. ASSUME NEW d \in Clients, (job[d].op = "callback" /\ ~Idle(d))'
      PROVE  Arg(d)'.id \in DOMAIN external'.issued
  BY <1>2, OtherStates DEF StateInv, StateIds, Arg
<1>3. ASSUME NEW d \in Clients, Issuing(d)'
      PROVE  /\ job'[d].mem.id \in Nat /\ job'[d].mem.id <= used'.ids
             /\ job'[d].mem.id \notin DOMAIN external'.issued
             /\ \A e \in Clients \ {d} : Issuing(e)' => job'[e].mem.id # job'[d].mem.id
  <2>1. CASE d = c
    BY <1>3, <2>1, OtherStates
  <2>2. CASE d # c
    <3>1. Issuing(d) /\ job'[d] = job[d]
      BY <1>3, <2>2, OtherStates
    <3>2. /\ job[d].mem.id \in Nat /\ job[d].mem.id <= used.ids
          /\ job[d].mem.id \notin DOMAIN external.issued
          /\ \A e \in Clients \ {d} : Issuing(e) => job[e].mem.id # job[d].mem.id
      BY <3>1 DEF StateInv, StateIds
    <3>3. job[d].mem.id <= used'.ids
      BY <3>2 DEF Shape
    <3>4. ASSUME NEW e \in Clients \ {d}, Issuing(e)' PROVE job'[e].mem.id # job'[d].mem.id
      <4>1. CASE e = c
        BY <2>2, <3>1, <3>4, <4>1
      <4>2. CASE e # c
        BY <3>1, <3>2, <3>4, <4>2, OtherStates
      <4> QED BY <4>1, <4>2
    <3> QED BY <2>2, <3>1, <3>2, <3>3, <3>4
  <2> QED BY <2>1, <2>2
<1> QED BY <1>1, <1>2, <1>3 DEF StateIds

\* No step lets a state complete a second login, unless it is marked as spoilt.
LEMMA LoginsKept ==
    ASSUME Shape, StateInv, NEW c \in Clients, Alone(c), raced \subseteq raced', broken \subseteq broken',
           \A s \in DOMAIN external'.memory :
             \/ s \in DOMAIN external.memory
             \/ s \notin DOMAIN external.logins /\ s \notin DOMAIN external.issued,
           \A s \in DOMAIN external'.stored :
             s \in DOMAIN external.stored \/ s \notin DOMAIN external'.logins,
           \A s \in DOMAIN external'.logins :
             \/ s \in DOMAIN external.logins
             \/ /\ s \notin DOMAIN external'.memory
                /\ \A d \in Clients \ {c} : Holds(d, s) => Spoilt(s)',
           \A s \in DOMAIN external'.logins :
             \/ s \in DOMAIN external.logins /\ external'.logins[s] = external.logins[s]
             \/ Spoilt(s)' \/ (external'.logins[s] = 1 /\ Holds(c, s)'),
           Uses(c)' => job'[c].arg.id \notin DOMAIN external'.memory,
           At(c, "exchange")' =>
             /\ StateOf(c)' \in job'[c].reads
             /\ job'[c].arg.id \notin DOMAIN external'.logins \/ Spoilt(Arg(c).id)',
           \A s : Holds(c, s)' => Holds(c, s) \/ \A d \in Clients \ {c} : Holds(d, s) => Spoilt(s)',
           \A s \in DOMAIN external.logins :
             Holds(c, s) => Holds(c, s)' \/ s \notin DOMAIN external'.stored \/ Spoilt(s)'
    PROVE  OneLogin'
<1>1. ASSUME NEW s, Spoilt(s) PROVE Spoilt(s)'
  BY <1>1 DEF Spoilt
<1>2. ASSUME NEW s \in DOMAIN external'.memory PROVE s \notin DOMAIN external'.logins
  BY DEF StateInv, OneLogin
<1>3. ASSUME NEW d \in Clients, Uses(d)' PROVE Arg(d)'.id \notin DOMAIN external'.memory
  <2>1. CASE d = c
    BY <1>3, <2>1 DEF Arg
  <2>2. CASE d # c
    <3>1. Uses(d) /\ Arg(d)' = Arg(d)
      BY <1>3, <2>2, OtherStates
    <3> QED BY <3>1, UsesIssued DEF StateInv, OneLogin
  <2> QED BY <2>1, <2>2
<1>4. ASSUME NEW d \in Clients, At(d, "exchange")'
      PROVE  /\ StateOf(d)' \in job'[d].reads
             /\ Arg(d)'.id \notin DOMAIN external'.logins \/ Spoilt(Arg(d).id)'
  <2>1. CASE d = c
    BY <1>4, <2>1 DEF Arg, Spoilt
  <2>2. CASE d # c
    <3>1. At(d, "exchange") /\ Arg(d)' = Arg(d) /\ StateOf(d)' = StateOf(d) /\ job'[d] = job[d]
      BY <1>4, <2>2, OtherStates
    <3>2. StateOf(d) \in job[d].reads /\ (Arg(d).id \notin DOMAIN external.logins \/ Spoilt(Arg(d).id))
      BY <3>1 DEF StateInv, OneLogin
    <3>3. Holds(d, Arg(d).id)
      BY <3>1, <3>2 DEF Holds, StateOf
    <3>4. PICK s : s = Arg(d).id
      OBVIOUS
    <3>5. s \notin DOMAIN external'.logins \/ Spoilt(s)'
      BY <1>1, <2>2, <3>2, <3>3, <3>4
    <3> QED BY <3>1, <3>2, <3>4, <3>5 DEF Spoilt
  <2> QED BY <2>1, <2>2
<1>5. ASSUME NEW d \in Clients, NEW e \in Clients, d # e, NEW s, Holds(d, s)', Holds(e, s)'
      PROVE  Spoilt(s)'
  <2>1. ASSUME Holds(d, s), Holds(e, s) PROVE Spoilt(s)'
    <3>1. s = Arg(e).id
      BY <2>1 DEF Holds
    <3> QED BY <1>1, <1>5, <2>1, <3>1 DEF StateInv, OneLogin
  <2>2. CASE d = c
    BY <1>5, <2>1, <2>2, OtherStates
  <2>3. CASE e = c
    BY <1>5, <2>1, <2>3, OtherStates
  <2>4. CASE d # c /\ e # c
    BY <1>5, <2>1, <2>4, OtherStates
  <2> QED BY <2>2, <2>3, <2>4
<1>6. ASSUME NEW s \in DOMAIN external'.logins
      PROVE  \/ Spoilt(s)'
             \/ /\ external'.logins[s] = 1
                /\ s \notin DOMAIN external'.stored \/ \E d \in Clients : Holds(d, s)'
  <2>1. CASE s \in DOMAIN external.logins /\ external'.logins[s] = external.logins[s]
    <3>1. \/ Spoilt(s)
          \/ /\ external.logins[s] = 1
             /\ s \notin DOMAIN external.stored \/ \E d \in Clients : Holds(d, s)
      BY <2>1 DEF StateInv, OneLogin
    <3>2. ASSUME NEW d \in Clients, Holds(d, s)
          PROVE  Spoilt(s)' \/ s \notin DOMAIN external'.stored \/ Holds(d, s)'
      BY <2>1, <3>2, OtherStates
    <3>3. s \notin DOMAIN external.stored => s \notin DOMAIN external'.stored
      OBVIOUS
    <3> QED BY <1>1, <2>1, <3>1, <3>2, <3>3
  <2> QED BY <2>1
<1>7. ASSUME NEW d \in Clients, NEW e \in Clients, d # e, Holds(d, Arg(e).id)', Holds(e, Arg(e).id)'
      PROVE  Spoilt(Arg(e).id)'
  BY <1>5, <1>7 DEF Holds, Spoilt, StateOf
<1> QED BY <1>2, <1>3, <1>4, <1>6, <1>7 DEF OneLogin

\* A state nobody has taken stays in the table while it lives.
LEMMA StoredKept ==
    ASSUME Shape, StateInv, NEW c \in Clients, Alone(c), now' \in Nat, now <= now',
           external.taken \subseteq external'.taken,
           \A s \in DOMAIN external.issued :
             s \in DOMAIN external'.issued /\ external'.issued[s] = external.issued[s],
           \A s \in DOMAIN external'.issued : external'.issued[s] \in Nat,
           \A s \in DOMAIN external'.stored : external'.stored[s] \in Nat,
           \A s \in DOMAIN external'.issued \ external'.taken :
             \/ s \in DOMAIN external.issued /\ Over(s)'
             \/ /\ s \in DOMAIN external.issued
                /\ s \in DOMAIN external.stored =>
                     s \in DOMAIN external'.stored /\ external'.stored[s] = external.stored[s]
             \/ s \in DOMAIN external'.stored /\ external'.issued[s] <= external'.stored[s],
           Issuing(c)' => job'[c].mem.at \in Nat /\ job'[c].mem.at <= now',
           At(c, "exchange")' \/ At(c, "forget")' =>
             job'[c].arg.id \in external'.taken \/ Over(Arg(c).id)'
    PROVE  StoredInv'
<1>1. ASSUME NEW s \in DOMAIN external.issued, Over(s) PROVE Over(s)'
  <2>1. external.issued[s] \in Nat /\ StateTtl \in Nat /\ now \in Nat
    BY ExternalAssumption DEF StateInv, StoredInv, Shape
  <2> QED BY <1>1, <2>1 DEF Over
<1>2. ASSUME NEW s \in DOMAIN external'.issued \ external'.taken
      PROVE  Over(s)' \/ (s \in DOMAIN external'.stored /\ external'.issued[s] <= external'.stored[s])
  <2>1. CASE /\ s \in DOMAIN external.issued
             /\ s \in DOMAIN external.stored =>
                  s \in DOMAIN external'.stored /\ external'.stored[s] = external.stored[s]
    <3>1. Over(s) \/ (s \in DOMAIN external.stored /\ external.issued[s] <= external.stored[s])
      BY <2>1 DEF StateInv, StoredInv
    <3> QED BY <1>1, <2>1, <3>1
  <2> QED BY <2>1
<1>3. ASSUME NEW d \in Clients, Issuing(d)' PROVE job'[d].mem.at \in Nat /\ job'[d].mem.at <= now'
  <2>1. CASE d = c
    BY <1>3, <2>1
  <2>2. CASE d # c
    <3>1. job'[d] = job[d] /\ job[d].mem.at \in Nat /\ job[d].mem.at <= now
      BY <1>3, <2>2, OtherStates DEF StateInv, StoredInv
    <3> QED BY <3>1 DEF Shape
  <2> QED BY <2>1, <2>2
<1>4. ASSUME NEW d \in Clients, At(d, "exchange")' \/ At(d, "forget")', NEW s, s = Arg(d)'.id
      PROVE  s \in external'.taken \/ Over(s)'
  <2>1. CASE d = c
    BY <1>4, <2>1 DEF Arg, Over
  <2>2. CASE d # c
    <3>1. (At(d, "exchange") \/ At(d, "forget")) /\ Arg(d)' = Arg(d) /\ s = Arg(d).id
      BY <1>4, <2>2, OtherStates
    <3>2. s \in DOMAIN external.issued
      BY <3>1, UsesIssued DEF Uses, StateInv
    <3>3. s \in external.taken \/ Over(s)
      BY <3>1 DEF StateInv, StoredInv
    <3> QED BY <1>1, <3>2, <3>3
  <2> QED BY <2>1, <2>2
<1>5. ASSUME NEW d \in Clients, At(d, "exchange")' \/ At(d, "forget")'
      PROVE  Arg(d)'.id \in external'.taken \/ Over(Arg(d).id)'
  BY <1>4, <1>5 DEF Over
<1> QED BY <1>2, <1>3, <1>5 DEF StoredInv

\* At first there are no login states.
LEMMA StatesInitial == ASSUME Init PROVE StateInv
<1>1. \A c \in Clients : Idle(c) /\ \A y : ~At(c, y)
  <2>1. \A c \in Clients : job[c] = NoJob
    BY DEF Init, AccountsInit
  <2> QED BY <2>1 DEF At, Idle, NoJob
<1>2. /\ DOMAIN external.memory = {} /\ DOMAIN external.issued = {} /\ DOMAIN external.stored = {}
      /\ DOMAIN external.logins = {}
  BY DEF Init, ExternalInit, EmptyMap
<1> QED BY <1>1, <1>2 DEF StateInv, StateIds, OneLogin, StoredInv, Uses, Issuing, Holds

\* The state of a callback stays the same.
LEMMA CallbackId ==
    ASSUME Shape, StateInv, NEW c \in Clients, Proceeds(c), ~Idle(c)', job'[c].op = "callback"
    PROVE  /\ job[c].op = "callback" /\ ~Idle(c) /\ job'[c].arg.id = job[c].arg.id
           /\ Arg(c)'.id = Arg(c).id /\ Arg(c).id \in DOMAIN external.issued /\ StateOf(c)' = StateOf(c)
<1>1. job[c].op = "callback" /\ ~Idle(c) /\ job'[c].arg.id = job[c].arg.id
  BY DEF Proceeds, Moved, Keeps, Idle
<1> QED BY <1>1 DEF StateInv, StateIds, Arg, StateOf

\* A request that has nothing to do with a state before or after, or that fails.
LEMMA StateQuiet ==
    ASSUME Shape, StateInv, NEW c \in Clients, Alone(c), raced \subseteq raced', broken \subseteq broken',
           used'.ids \in Nat, used.ids <= used'.ids, now' = now,
           DOMAIN external'.memory \subseteq DOMAIN external.memory,
           external'.stored = external.stored, external'.issued = external.issued,
           external'.taken = external.taken, external'.logins = external.logins,
           ~Uses(c)', ~Issuing(c)',
           job'[c].op = "callback" /\ ~Idle(c)' => job'[c].arg.id \in DOMAIN external.issued,
           \A s : Holds(c, s) => Spoilt(s)'
    PROVE  StateInv'
<1>1. StateIds'
  <2>1. DOMAIN external.logins \subseteq DOMAIN external.issued
    BY DEF StateInv, StateIds
  <2> QED BY <2>1, IdsKept
<1>2. ~At(c, "exchange")' /\ ~At(c, "forget")' /\ \A s : ~Holds(c, s)'
  BY DEF Uses, Holds
<1>3. OneLogin'
  BY <1>2, LoginsKept
<1>4. now \in Nat /\ now' \in Nat /\ now <= now'
  BY DEF Shape
<1>5. StoredInv'
  <2>1. \A s \in DOMAIN external.issued : external.issued[s] \in Nat
    BY DEF StateInv, StoredInv
  <2>2. \A s \in DOMAIN external.stored : external.stored[s] \in Nat
    BY DEF StateInv, StoredInv
  <2> QED BY <1>2, <1>4, <2>1, <2>2, StoredKept
<1> QED BY <1>1, <1>3, <1>5 DEF StateInv

\* What the lemmas above need of a step, whatever it does.
LEMMA StepFrame ==
    ASSUME Shape, NEW c \in Clients, NEW x, StepOf(c, x)
    PROVE  /\ At(c, x) /\ ~Idle(c) /\ Alone(c) /\ Proceeds(c) /\ Named(c, x)
           /\ raced \subseteq raced' /\ broken \subseteq broken'
           /\ used'.ids \in Nat /\ used.ids <= used'.ids /\ used.ids \in Nat
           /\ now' = now /\ now \in Nat /\ now' \in Nat /\ now <= now'
BY DEF StepOf, Does, Effects, Grows, Counts, Proceeds, Shape

\* Beginning an authorization puts a new state in memory.
LEMMA StateBegun ==
    ASSUME Shape, StateInv, NEW c \in Clients, StepOf(c, "begin")
    PROVE  StateInv'
<1>1. BeginAuthorization(c)
  BY StepFrame DEF Named, NamedStates
<1>2. ~Uses(c)'
  BY StepFrame, Came, LeadsToStates DEF Uses
<1>3. \A s : ~Holds(c, s)
  BY StepFrame DEF Holds, At
<1>4. job'[c].op = "callback" /\ ~Idle(c)' => job'[c].arg.id \in DOMAIN external.issued
  BY StepFrame, CallbackId DEF Arg
<1>5. CASE external.settings["oauth2"] = "off"
  <2>1. Idle(c)' /\ external' = external
    BY <1>1, <1>5, Replies DEF BeginAuthorization, Shape
  <2>2. ~Issuing(c)'
    BY <2>1 DEF Issuing, At, Idle
  <2> QED BY <1>2, <1>3, <1>4, <2>1, <2>2, StepFrame, StateQuiet
<1>6. CASE external.settings["oauth2"] # "off"
  <2>1. /\ external' = [external EXCEPT !.memory = Put(Fresh(external.memory, StateTtl), NewId, now)]
        /\ TakesId /\ Goes(c, [id |-> NewId, at |-> now])
    BY <1>1, <1>6 DEF BeginAuthorization
  <2>2. /\ external'.stored = external.stored /\ external'.issued = external.issued
        /\ external'.taken = external.taken /\ external'.logins = external.logins
        /\ external'.memory = Put(Fresh(external.memory, StateTtl), NewId, now)
    BY <2>1 DEF Shape
  <2>3. NewId \in Nat /\ used'.ids = NewId /\ NewId = used.ids + 1 /\ used.ids \in Nat
    BY <2>1 DEF TakesId, NewId, Shape
  <2>4. \A s \in DOMAIN external'.memory : s \in DOMAIN external.memory \/ s = NewId
    BY <2>2 DEF Put, Fresh, Keep
  <2>5. NewId \notin DOMAIN external.issued /\ NewId \notin DOMAIN external.logins
    <3>1. \A s \in DOMAIN external.issued : s \in Nat /\ s <= used.ids
      BY DEF StateInv, StateIds
    <3>2. NewId \notin DOMAIN external.issued
      BY <2>3, <3>1
    <3> QED BY <3>2 DEF StateInv, StateIds
  <2>6. job'[c].mem = [id |-> NewId, at |-> now]
    BY <2>1 DEF Goes, Shape, JobShape, Fields
  <2>7. ASSUME NEW d \in Clients, Issuing(d) PROVE job[d].mem.id # NewId
    <3>1. job[d].mem.id \in Nat /\ job[d].mem.id <= used.ids
      BY <2>7 DEF StateInv, StateIds
    <3> QED BY <2>3, <3>1
  <2>8. /\ job'[c].mem.id \in Nat /\ job'[c].mem.id <= used'.ids
        /\ job'[c].mem.id \notin DOMAIN external'.issued
        /\ \A d \in Clients \ {c} : Issuing(d) => job[d].mem.id # job'[c].mem.id
        /\ job'[c].mem.at = now
    BY <2>2, <2>3, <2>5, <2>6, <2>7
  <2>9. StateIds'
    <3>1. DOMAIN external'.logins \subseteq DOMAIN external'.issued
      BY <2>2 DEF StateInv, StateIds
    <3>2. \A s \in DOMAIN external'.memory : s \in DOMAIN external.memory \/ s = used'.ids
      BY <2>3, <2>4
    <3> QED BY <1>4, <2>2, <2>8, <3>1, <3>2, StepFrame, IdsKept
  <2>10. ~At(c, "exchange")' /\ ~At(c, "forget")' /\ \A s : ~Holds(c, s)'
    BY <1>2 DEF Uses, Holds
  <2>11. OneLogin'
    <3>1. \A s \in DOMAIN external'.memory :
            \/ s \in DOMAIN external.memory
            \/ s \notin DOMAIN external.logins /\ s \notin DOMAIN external.issued
      BY <2>4, <2>5
    <3> QED BY <1>2, <1>3, <2>2, <2>10, <3>1, StepFrame, LoginsKept
  <2>12. StoredInv'
    <3>1. \A s \in DOMAIN external.issued : external.issued[s] \in Nat
      BY DEF StateInv, StoredInv
    <3>2. \A s \in DOMAIN external.stored : external.stored[s] \in Nat
      BY DEF StateInv, StoredInv
    <3>3. job'[c].mem.at \in Nat /\ job'[c].mem.at <= now'
      BY <2>8, StepFrame
    <3> QED BY <2>2, <2>10, <3>1, <3>2, <3>3, StepFrame, StoredKept
  <2> QED BY <2>9, <2>11, <2>12 DEF StateInv
<1> QED BY <1>5, <1>6

\* Pruning removes states that are over.
LEMMA StatePruned ==
    ASSUME Shape, StateInv, NEW c \in Clients, StepOf(c, "prune")
    PROVE  StateInv'
<1>1. PruneStates(c)
  BY StepFrame DEF Named, NamedStates
<1>2. ~Uses(c)' /\ Issuing(c)
  BY StepFrame, Came, LeadsToStates DEF Uses, Issuing
<1>3. \A s : ~Holds(c, s)
  BY StepFrame DEF Holds, At
<1>4. job'[c].op = "callback" /\ ~Idle(c)' => job'[c].arg.id \in DOMAIN external.issued
  BY StepFrame, CallbackId DEF Arg
<1>5. external' = [external EXCEPT !.stored = Keep(external.stored,
                     {s \in DOMAIN external.stored : ~(external.stored[s] < now - PruneAge)})]
  BY <1>1 DEF PruneStates
<1>6. /\ external'.memory = external.memory /\ external'.issued = external.issued
      /\ external'.taken = external.taken /\ external'.logins = external.logins
      /\ external'.stored = Keep(external.stored,
                     {s \in DOMAIN external.stored : ~(external.stored[s] < now - PruneAge)})
  BY <1>5 DEF Shape
<1>7. /\ DOMAIN external'.stored \subseteq DOMAIN external.stored
      /\ \A s \in DOMAIN external'.stored : external'.stored[s] = external.stored[s]
      /\ \A s \in DOMAIN external.stored :
           s \in DOMAIN external'.stored \/ external.stored[s] < now - PruneAge
  BY <1>6 DEF Keep
<1>8. job'[c].mem = job[c].mem
  <2>1. Advance(c)
    BY <1>1 DEF PruneStates
  <2> QED BY <2>1, Goes1 DEF Shape, Advance
<1>9. StateIds'
  <2>1. DOMAIN external'.logins \subseteq DOMAIN external'.issued
    BY <1>6 DEF StateInv, StateIds
  <2>2. /\ job'[c].mem.id \in Nat /\ job'[c].mem.id <= used.ids
        /\ job'[c].mem.id \notin DOMAIN external'.issued
        /\ \A d \in Clients \ {c} : Issuing(d) => job[d].mem.id # job'[c].mem.id
    BY <1>2, <1>6, <1>8 DEF StateInv, StateIds
  <2>3. job'[c].mem.id <= used'.ids
    BY <2>2, StepFrame
  <2> QED BY <1>4, <1>6, <2>1, <2>2, <2>3, StepFrame, IdsKept
<1>10. ~At(c, "exchange")' /\ ~At(c, "forget")' /\ \A s : ~Holds(c, s)'
  BY <1>2 DEF Uses, Holds
<1>11. OneLogin'
  BY <1>2, <1>3, <1>6, <1>7, <1>10, StepFrame, LoginsKept
<1>12. StoredInv'
  <2>1. \A s \in DOMAIN external'.issued : external'.issued[s] \in Nat
    BY <1>6 DEF StateInv, StoredInv
  <2>2. \A s \in DOMAIN external'.stored : external'.stored[s] \in Nat
    BY <1>7 DEF StateInv, StoredInv
  <2>3. ASSUME NEW s \in DOMAIN external'.issued \ external'.taken
        PROVE  \/ s \in DOMAIN external.issued /\ Over(s)'
               \/ /\ s \in DOMAIN external.issued
                  /\ s \in DOMAIN external.stored =>
                       s \in DOMAIN external'.stored /\ external'.stored[s] = external.stored[s]
               \/ s \in DOMAIN external'.stored /\ external'.issued[s] <= external'.stored[s]
    <3>1. /\ s \in DOMAIN external.issued /\ s \notin external.taken
          /\ external'.issued[s] = external.issued[s] /\ external.issued[s] \in Nat
      BY <1>6 DEF StateInv, StoredInv
    <3>2. CASE s \in DOMAIN external.stored /\ external.stored[s] < now - PruneAge
      <4>1. Over(s) \/ external.issued[s] <= external.stored[s]
        BY <3>1 DEF StateInv, StoredInv
      <4>2. external.stored[s] \in Nat /\ PruneAge \in Nat /\ StateTtl \in Nat /\ StateTtl <= PruneAge
            /\ now \in Nat
        BY <3>2, ExternalAssumption, StepFrame DEF StateInv, StoredInv
      <4>3. external.issued[s] + StateTtl <= now
        BY <3>1, <3>2, <4>1, <4>2 DEF Over
      <4> QED BY <3>1, <4>3, StepFrame DEF Over
    <3> QED BY <1>7, <3>1, <3>2
  <2>4. job'[c].mem.at \in Nat /\ job'[c].mem.at <= now'
    BY <1>2, <1>8, StepFrame DEF StateInv, StoredInv
  <2> QED BY <1>6, <1>10, <2>1, <2>2, <2>3, <2>4, StepFrame, StoredKept
<1> QED BY <1>9, <1>11, <1>12 DEF StateInv

\* Persisting puts the state in the table, for as long as it lives.
LEMMA StatePersisted ==
    ASSUME Shape, StateInv, NEW c \in Clients, StepOf(c, "persist")
    PROVE  StateInv'
<1> DEFINE i == job[c].mem.id
           t == job[c].mem.at
<1>1. PersistState(c)
  BY StepFrame DEF Named, NamedStates
<1>2. Idle(c)'
  BY <1>1, Replies DEF PersistState, Shape
<1>3. ~Uses(c)' /\ ~Issuing(c)' /\ ~At(c, "exchange")' /\ ~At(c, "forget")'
      /\ \A s : ~Holds(c, s)' /\ ~Holds(c, s)
  BY <1>2, StepFrame DEF Uses, Issuing, Holds, At, Idle
<1>4. Issuing(c)
  BY StepFrame DEF Issuing
<1>5. external' = [external EXCEPT !.stored = Put(external.stored, i, now),
                                   !.issued = Put(external.issued, i, t)]
  BY <1>1 DEF PersistState
<1>6. /\ external'.memory = external.memory /\ external'.taken = external.taken
      /\ external'.logins = external.logins
      /\ external'.stored = Put(external.stored, i, now) /\ external'.issued = Put(external.issued, i, t)
  BY <1>5 DEF Shape
<1>7. /\ i \in Nat /\ i <= used.ids /\ i \notin DOMAIN external.issued
      /\ \A d \in Clients \ {c} : Issuing(d) => job[d].mem.id # i
      /\ t \in Nat /\ t <= now
  BY <1>4 DEF StateInv, StateIds, StoredInv
<1> HIDE DEF i, t
<1>8. /\ DOMAIN external'.issued = DOMAIN external.issued \cup {i}
      /\ DOMAIN external'.stored = DOMAIN external.stored \cup {i}
      /\ external'.issued[i] = t /\ external'.stored[i] = now
      /\ \A s : s # i /\ s \in DOMAIN external.issued => external'.issued[s] = external.issued[s]
      /\ \A s : s # i /\ s \in DOMAIN external.stored => external'.stored[s] = external.stored[s]
  BY <1>6 DEF Put
<1>9. StateIds'
  <2>1. i <= used'.ids
    BY <1>7, StepFrame
  <2>2. DOMAIN external'.logins \subseteq DOMAIN external'.issued
    BY <1>6, <1>8 DEF StateInv, StateIds
  <2>3. \A s \in DOMAIN external'.issued :
          \/ s \in DOMAIN external.issued
          \/ /\ s \in Nat /\ s <= used'.ids
             /\ \A d \in Clients \ {c} : Issuing(d) => job[d].mem.id # s
    BY <1>7, <1>8, <2>1
  <2> QED BY <1>2, <1>3, <1>6, <1>8, <2>2, <2>3, StepFrame, IdsKept
<1>10. OneLogin'
  <2>1. i \notin DOMAIN external.logins
    BY <1>7 DEF StateInv, StateIds
  <2>2. \A s \in DOMAIN external'.stored : s \in DOMAIN external.stored \/ s \notin DOMAIN external'.logins
    BY <1>6, <1>8, <2>1
  <2> QED BY <1>3, <1>6, <2>2, StepFrame, LoginsKept
<1>11. StoredInv'
  <2>1. \A s \in DOMAIN external'.issued : external'.issued[s] \in Nat
    BY <1>7, <1>8 DEF StateInv, StoredInv
  <2>2. \A s \in DOMAIN external'.stored : external'.stored[s] \in Nat
    BY <1>8, StepFrame DEF StateInv, StoredInv
  <2>3. \A s \in DOMAIN external.issued :
          s \in DOMAIN external'.issued /\ external'.issued[s] = external.issued[s]
    BY <1>7, <1>8
  <2>4. \A s \in DOMAIN external'.issued \ external'.taken :
          \/ s \in DOMAIN external.issued /\ Over(s)'
          \/ /\ s \in DOMAIN external.issued
             /\ s \in DOMAIN external.stored =>
                  s \in DOMAIN external'.stored /\ external'.stored[s] = external.stored[s]
          \/ s \in DOMAIN external'.stored /\ external'.issued[s] <= external'.stored[s]
    BY <1>7, <1>8
  <2> QED BY <1>3, <1>6, <2>1, <2>2, <2>3, <2>4, StepFrame, StoredKept
<1> QED BY <1>9, <1>10, <1>11 DEF StateInv

\* Where a request is when it has gone on by one step, or skipped to another.
LEMMA RestAt ==
    ASSUME Shape, NEW c \in Clients, NEW x, NEW y, At(c, x), job'[c].plan = Rest(c), At(c, y)'
    PROVE  Follows(job[c].op, Active(job[c]), x, y)
<1>1. WellPlanned(job[c].op, Active(job[c]), job[c].plan) /\ job[c].plan # <<>> /\ Head(job[c].plan) = x
  BY DEF Shape, JobShape, Planned, At
<1>2. Rest(c) # <<>> /\ Head(Rest(c)) = y
  BY DEF At
<1> QED BY <1>1, <1>2, PlansLeft DEF Rest

\* A step that skips comes to its target.
LEMMA SkipAt ==
    ASSUME Shape, NEW c \in Clients, NEW x, NEW y, At(c, x), MaySkip(job[c].op, x),
           y = Target(job[c].op, x), job'[c].plan = SkipTo(c, y)
    PROVE  At(c, y)'
<1>1. WellPlanned(job[c].op, Active(job[c]), job[c].plan) /\ job[c].plan # <<>> /\ Head(job[c].plan) = x
  BY DEF Shape, JobShape, Planned, At
<1>2. SkipTo(c, y) # <<>> /\ Head(SkipTo(c, y)) = y
  BY <1>1, PlanSkips DEF SkipTo
<1> QED BY <1>2 DEF At

\* Taking a state from memory: no other request finds it there.
LEMMA StateTaken ==
    ASSUME Shape, StateInv, NEW c \in Clients, StepOf(c, "take")
    PROVE  StateInv'
<1> DEFINE i == Arg(c).id
           live == Fresh(external.memory, StateTtl)
<1>1. TakeState(c)
  BY StepFrame DEF Named, NamedStates
<1>2. ~Issuing(c)' /\ ~At(c, "forget")' /\ \A s : ~Holds(c, s)
  BY StepFrame, Came, LeadsToStates DEF Issuing, Holds, At
<1>3. job'[c].op = "callback" /\ ~Idle(c)' => job'[c].arg.id \in DOMAIN external.issued
  BY StepFrame, CallbackId DEF Arg
<1>4. CASE external.settings["oauth2"] = "off"
  <2>1. Idle(c)' /\ external' = external
    BY <1>1, <1>4, Replies DEF TakeState, Shape
  <2>2. ~Uses(c)'
    BY <2>1 DEF Uses, At, Idle
  <2> QED BY <1>2, <1>3, <2>1, <2>2, StepFrame, StateQuiet
<1>5. CASE external.settings["oauth2"] # "off"
  <2>1. external' = [external EXCEPT !.memory = Drop(live, {i}),
                       !.taken = IF i \in DOMAIN live THEN external.taken \cup {i} ELSE external.taken]
    BY <1>1, <1>5 DEF TakeState
  <2>2. /\ external'.memory = Drop(live, {i})
        /\ external'.taken = IF i \in DOMAIN live THEN external.taken \cup {i} ELSE external.taken
        /\ external'.stored = external.stored /\ external'.issued = external.issued
        /\ external'.logins = external.logins
    BY <2>1 DEF Shape
  <2>3. DOMAIN live \subseteq DOMAIN external.memory /\ i \notin DOMAIN external'.memory
        /\ DOMAIN external'.memory \subseteq DOMAIN external.memory
    BY <2>2 DEF Fresh, Drop, Keep
  <2>4. /\ i \notin DOMAIN live => job'[c].plan = Rest(c) /\ job'[c].arg = job[c].arg
        /\ i \in DOMAIN live => /\ job'[c].plan = SkipTo(c, "exchange") /\ job'[c].reads = {StateOf(c)}
                                /\ job'[c].arg = job[c].arg
    <3>1. ASSUME i \notin DOMAIN live PROVE job'[c].plan = Rest(c) /\ job'[c].arg = job[c].arg
      <4>1. Goto(c, Rest(c))
        BY <1>1, <1>5, <3>1 DEF TakeState, Advance
      <4> QED BY <4>1, Goes1 DEF Shape, OnTo
    <3>2. ASSUME i \in DOMAIN live
          PROVE  /\ job'[c].plan = SkipTo(c, "exchange") /\ job'[c].reads = {StateOf(c)}
                 /\ job'[c].arg = job[c].arg
      <4>1. job' = [job EXCEPT ![c].plan = SkipTo(c, "exchange"), ![c].reads = {StateOf(c)},
                               ![c].mem = [row |-> FALSE]]
        BY <1>1, <1>5, <3>2 DEF TakeState
      <4> QED BY <4>1 DEF Shape, JobShape, Fields
    <3> QED BY <3>1, <3>2
  <2>5. job'[c].arg = job[c].arg /\ Arg(c)' = Arg(c) /\ StateOf(c)' = StateOf(c)
    BY <2>4 DEF Arg, StateOf
  <2>6. At(c, "exchange")' => i \in DOMAIN live
    <3>1. ASSUME At(c, "exchange")', i \notin DOMAIN live PROVE FALSE
      <4>1. Follows(job[c].op, Active(job[c]), "take", "exchange")
        BY <2>4, <3>1, RestAt, StepFrame
      <4> QED BY <4>1 DEF Follows
    <3> QED BY <3>1
  <2>7. StateIds'
    <3>1. DOMAIN external'.logins \subseteq DOMAIN external'.issued
      BY <2>2 DEF StateInv, StateIds
    <3> QED BY <1>2, <1>3, <2>2, <2>3, <3>1, StepFrame, IdsKept
  <2>8. OneLogin'
    <3>1. Uses(c)' => job'[c].arg.id \notin DOMAIN external'.memory
      BY <2>3, <2>5 DEF Arg
    <3>2. At(c, "exchange")' =>
            /\ StateOf(c)' \in job'[c].reads
            /\ job'[c].arg.id \notin DOMAIN external'.logins \/ Spoilt(Arg(c).id)'
      <4>1. i \in DOMAIN live => i \notin DOMAIN external.logins
        BY <2>3 DEF StateInv, OneLogin
      <4> QED BY <2>2, <2>4, <2>5, <2>6, <4>1 DEF Arg
    <3>3. ASSUME NEW s, Holds(c, s)', NEW d \in Clients \ {c}, Holds(d, s) PROVE FALSE
      <4>1. s = i /\ i \in DOMAIN live
        BY <1>2, <2>5, <2>6, <3>3 DEF Holds
      <4>2. Uses(d) /\ Arg(d).id = i
        BY <3>3, <4>1 DEF Holds, Uses
      <4> QED BY <2>3, <4>1, <4>2 DEF StateInv, OneLogin
    <3>4. \A s : Holds(c, s)' => Holds(c, s) \/ \A d \in Clients \ {c} : Holds(d, s) => Spoilt(s)'
      BY <3>3
    <3> QED BY <1>2, <2>2, <2>3, <3>1, <3>2, <3>4, StepFrame, LoginsKept
  <2>9. StoredInv'
    <3>1. \A s \in DOMAIN external'.issued : external'.issued[s] \in Nat
      BY <2>2 DEF StateInv, StoredInv
    <3>2. \A s \in DOMAIN external'.stored : external'.stored[s] \in Nat
      BY <2>2 DEF StateInv, StoredInv
    <3>3. At(c, "exchange")' \/ At(c, "forget")' =>
            job'[c].arg.id \in external'.taken \/ Over(Arg(c).id)'
      BY <1>2, <2>2, <2>5, <2>6 DEF Arg
    <3>4. external.taken \subseteq external'.taken
      BY <2>2
    <3> QED BY <1>2, <2>2, <3>1, <3>2, <3>3, <3>4, StepFrame, StoredKept
  <2> QED BY <2>7, <2>8, <2>9 DEF StateInv
<1> QED BY <1>4, <1>5

\* Another request that holds the state is overtaken.
LEMMA StateTouched ==
    ASSUME NEW c \in Clients, Touch(c, {StateOf(c)}), NEW d \in Clients \ {c}, NEW s, Holds(d, s),
           s = Arg(c).id
    PROVE  Spoilt(s)'
<1>1. <<"state", s>> \in job[d].reads /\ StateOf(c) = <<"state", s>>
  BY DEF Holds, StateOf
<1> QED BY <1>1 DEF Touch, Spoilt

\* Loading a state from the table, where another request may find it too.
LEMMA StateLoaded ==
    ASSUME Shape, StateInv, NEW c \in Clients, StepOf(c, "load")
    PROVE  StateInv'
<1> DEFINE i == Arg(c).id
<1>1. LoadState(c) /\ Touch(c, {StateOf(c)})
  BY StepFrame DEF Named, NamedStates, LoadState
<1>2. ~Issuing(c)' /\ (\A s : ~Holds(c, s)) /\ ~At(c, "load")'
  BY StepFrame, Came, LeadsToStates DEF Issuing, Holds, At
<1>3. job'[c].op = "callback" /\ ~Idle(c)' => job'[c].arg.id \in DOMAIN external.issued
  BY StepFrame, CallbackId DEF Arg
<1>4. Uses(c) /\ i \notin DOMAIN external.memory /\ i \in DOMAIN external.issued
  <2>1. Uses(c)
    BY StepFrame DEF Uses
  <2> QED BY <2>1, UsesIssued DEF StateInv, OneLogin
<1>5. CASE i \notin DOMAIN external.stored
  <2>1. Idle(c)' /\ external' = external
    BY <1>1, <1>5, Replies DEF LoadState, Shape
  <2>2. ~Uses(c)'
    BY <2>1 DEF Uses, At, Idle
  <2> QED BY <1>2, <1>3, <2>1, <2>2, StepFrame, StateQuiet
<1>6. CASE i \in DOMAIN external.stored
  <2> DEFINE old == external.stored[i] < now - StateTtl
  <2>1. ASSUME old
        PROVE  /\ external' = external /\ job'[c].plan = SkipTo(c, "forget")
               /\ job'[c].arg = job[c].arg /\ job'[c].reads = job[c].reads
    <3>1. external' = external /\ Skips(c, "forget", [row |-> TRUE, code |-> 400])
      BY <1>1, <1>6, <2>1 DEF LoadState
    <3>2. PICK m : job' = [job EXCEPT ![c].plan = SkipTo(c, "forget"), ![c].mem = m]
      BY <3>1 DEF Skips
    <3>3. /\ OnTo(c, SkipTo(c, "forget")) /\ job'[c].reads = job[c].reads
          /\ job'[c].arg = job[c].arg
      BY <3>2, Goes2 DEF Shape
    <3> QED BY <3>1, <3>3 DEF OnTo
  <2>2. ASSUME ~old
        PROVE  /\ external' = [external EXCEPT !.taken = external.taken \cup {i}]
               /\ job'[c].arg = job[c].arg /\ job'[c].reads = job[c].reads \cup {StateOf(c)}
    <3>1. external' = [external EXCEPT !.taken = external.taken \cup {i}]
          /\ Relies(c, {StateOf(c)}, [row |-> TRUE])
      BY <1>1, <1>6, <2>2 DEF LoadState
    <3> QED BY <3>1, Relies1 DEF Shape
  <2>3. /\ external'.memory = external.memory /\ external'.stored = external.stored
        /\ external'.issued = external.issued /\ external'.logins = external.logins
        /\ external.taken \subseteq external'.taken
        /\ ~old => i \in external'.taken
    BY <2>1, <2>2 DEF Shape
  <2>4. job'[c].arg = job[c].arg /\ Arg(c)' = Arg(c) /\ StateOf(c)' = StateOf(c)
    BY <2>1, <2>2 DEF Arg, StateOf
  <2>5. At(c, "exchange")' => ~old /\ StateOf(c)' \in job'[c].reads
    <3>1. MaySkip(job[c].op, "load") /\ Target(job[c].op, "load") = "forget"
      BY DEF MaySkip, Skipping, Target
    <3>2. old => At(c, "forget")'
      BY <2>1, <3>1, SkipAt, StepFrame
    <3>3. At(c, "exchange")' => ~old
      BY <3>2 DEF At
    <3> QED BY <2>2, <2>4, <3>3
  <2>6. old => i \in external.taken \/ Over(i)
    <3>1. ASSUME old, i \notin external.taken PROVE Over(i)
      <4>1. Over(i) \/ external.issued[i] <= external.stored[i]
        BY <1>4, <3>1 DEF StateInv, StoredInv
      <4>2. /\ external.issued[i] \in Nat /\ external.stored[i] \in Nat /\ StateTtl \in Nat /\ now \in Nat
        BY <1>4, <1>6, ExternalAssumption, StepFrame DEF StateInv, StoredInv
      <4> QED BY <3>1, <4>1, <4>2 DEF Over
    <3> QED BY <3>1
  <2> HIDE DEF old
  <2>7. StateIds'
    <3>1. DOMAIN external'.logins \subseteq DOMAIN external'.issued
      BY <2>3 DEF StateInv, StateIds
    <3> QED BY <1>2, <1>3, <2>3, <3>1, StepFrame, IdsKept
  <2>8. OneLogin'
    <3>1. Uses(c)' => job'[c].arg.id \notin DOMAIN external'.memory
      BY <1>4, <2>3, <2>4 DEF Arg
    <3>2. i \notin DOMAIN external.logins \/ Spoilt(i)'
      <4>1. ASSUME i \in DOMAIN external.logins
            PROVE  Spoilt(i) \/ \E d \in Clients \ {c} : Holds(d, i)
        BY <1>2, <1>6, <4>1 DEF StateInv, OneLogin
      <4>2. Spoilt(i) => Spoilt(i)'
        BY StepFrame, <2>4 DEF Spoilt, i
      <4>3. ASSUME NEW d \in Clients \ {c}, Holds(d, i) PROVE Spoilt(i)'
        <5>1. PICK s : s = Arg(c).id
          OBVIOUS
        <5>2. Spoilt(s)'
          BY <1>1, <4>3, <5>1, StateTouched
        <5> QED BY <2>4, <5>1, <5>2 DEF Spoilt, i
      <4> QED BY <4>1, <4>2, <4>3
    <3>3. At(c, "exchange")' =>
            /\ StateOf(c)' \in job'[c].reads
            /\ job'[c].arg.id \notin DOMAIN external'.logins \/ Spoilt(Arg(c).id)'
      BY <2>3, <2>4, <2>5, <3>2 DEF Arg
    <3>4. \A s : Holds(c, s)' => Holds(c, s) \/ \A d \in Clients \ {c} : Holds(d, s) => Spoilt(s)'
      <4>1. ASSUME NEW s, Holds(c, s)' PROVE s = Arg(c).id
        BY <2>4, <4>1 DEF Holds
      <4> QED BY <1>1, <4>1, StateTouched
    <3> QED BY <1>2, <2>3, <3>1, <3>3, <3>4, StepFrame, LoginsKept
  <2>9. StoredInv'
    <3>1. \A s \in DOMAIN external'.issued : external'.issued[s] \in Nat
      BY <2>3 DEF StateInv, StoredInv
    <3>2. \A s \in DOMAIN external'.stored : external'.stored[s] \in Nat
      BY <2>3 DEF StateInv, StoredInv
    <3>3. job'[c].arg.id \in external'.taken \/ Over(Arg(c).id)'
      BY <2>3, <2>4, <2>6, StepFrame DEF Arg, Over
    <3> QED BY <1>2, <2>3, <3>1, <3>2, <3>3, StepFrame, StoredKept
  <2> QED BY <2>7, <2>8, <2>9 DEF StateInv
<1> QED BY <1>5, <1>6

\* Exchanging the code logs in once, and the state is then forgotten.
LEMMA StateExchanged ==
    ASSUME Shape, StateInv, NEW c \in Clients, StepOf(c, "exchange")
    PROVE  StateInv'
<1>0. PICK i : i = Arg(c).id
  OBVIOUS
<1> DEFINE n == 1 + (IF i \in DOMAIN external.logins THEN external.logins[i] ELSE 0)
<1>1. Exchange(c)
  BY StepFrame DEF Named, NamedStates
<1>2. ~Issuing(c)' /\ ~At(c, "load")' /\ ~At(c, "exchange")'
  BY StepFrame, Came, LeadsToStates DEF Issuing
<1>3. job'[c].op = "callback" /\ ~Idle(c)' => job'[c].arg.id \in DOMAIN external.issued
  BY StepFrame, CallbackId DEF Arg
<1>4. /\ i \notin DOMAIN external.memory /\ i \in DOMAIN external.issued
      /\ i \notin DOMAIN external.logins \/ Spoilt(i)
      /\ Holds(c, i) /\ (i \in external.taken \/ Over(i))
  <2>1. Uses(c) /\ At(c, "exchange")
    BY StepFrame DEF Uses
  <2>2. Holds(c, i)
    BY <1>0, <2>1 DEF StateInv, OneLogin, Holds, StateOf
  <2> QED BY <1>0, <2>1, <2>2, UsesIssued DEF StateInv, OneLogin, StoredInv
<1>5. (\A s : Holds(c, s) => s = i) /\ (\A s : Spoilt(s) => Spoilt(s)')
  BY <1>0, StepFrame DEF Holds, Spoilt
<1>6. /\ DOMAIN external.logins \subseteq DOMAIN external.issued
      /\ (\A s \in DOMAIN external.issued : external.issued[s] \in Nat)
      /\ (\A s \in DOMAIN external.stored : external.stored[s] \in Nat)
  BY DEF StateInv, StateIds, StoredInv
<1>7. CASE Reply(c, 500) /\ external' = external
  <2>1. Idle(c)' /\ \A y : ~At(c, y)'
    BY <1>7, Replies DEF Shape, Idle, At
  <2>2. ~Uses(c)' /\ \A s : ~Holds(c, s)'
    BY <2>1 DEF Uses, Holds
  <2>3. StateIds'
    BY <1>2, <1>3, <1>6, <1>7, StepFrame, IdsKept
  <2>4. \A s \in DOMAIN external.logins :
          Holds(c, s) => Holds(c, s)' \/ s \notin DOMAIN external'.stored \/ Spoilt(s)'
    BY <1>4, <1>5
  <2>5. OneLogin'
    BY <1>7, <2>1, <2>2, <2>4, StepFrame, LoginsKept
  <2>6. StoredInv'
    BY <1>2, <1>6, <1>7, <2>1, StepFrame, StoredKept
  <2> QED BY <2>3, <2>5, <2>6 DEF StateInv
<1>8. CASE /\ \E m : Goes(c, m)
           /\ external' = external \/ external' = [external EXCEPT !.logins = Put(external.logins, i, n)]
  <2>1. job'[c].plan = Rest(c) /\ job'[c].reads = job[c].reads /\ job'[c].arg = job[c].arg
    <3>1. PICK m : Goes(c, m)
      BY <1>8
    <3> QED BY <3>1, Goes2 DEF Shape, OnTo, Goes
  <2>2. At(c, "forget")' /\ Arg(c)' = Arg(c) /\ job'[c].arg.id = i
    <3>1. Rest(c) # <<>> /\ Head(Rest(c)) = "forget"
      BY StepFrame, GoesOn
    <3> QED BY <1>0, <2>1, <3>1 DEF At, Arg
  <2>3. Holds(c, i)' /\ (\A s : Holds(c, s)' <=> Holds(c, s))
    <3>1. \A s : Holds(c, s)' <=> s = i /\ <<"state", s>> \in job[c].reads
      BY <1>0, <2>1, <2>2 DEF Holds
    <3>2. \A s : Holds(c, s) <=> s = i /\ <<"state", s>> \in job[c].reads
      BY <1>0, StepFrame DEF Holds
    <3> QED BY <1>4, <3>1, <3>2
  <2>4. /\ external'.memory = external.memory /\ external'.stored = external.stored
        /\ external'.issued = external.issued /\ external'.taken = external.taken
        /\ external'.logins = external.logins \/ external'.logins = Put(external.logins, i, n)
    BY <1>8 DEF Shape
  <2>5. /\ DOMAIN external'.logins \subseteq DOMAIN external.logins \cup {i}
        /\ \A s \in DOMAIN external'.logins :
             \/ s \in DOMAIN external.logins /\ external'.logins[s] = external.logins[s]
             \/ s = i /\ external'.logins[s] = n
    BY <2>4 DEF Put
  <2>6. i \notin DOMAIN external.logins => n = 1
    OBVIOUS
  <2> HIDE DEF n
  <2>7. StateIds'
    <3>1. DOMAIN external'.logins \subseteq DOMAIN external'.issued
      BY <1>4, <1>6, <2>4, <2>5
    <3> QED BY <1>2, <1>3, <2>4, <3>1, StepFrame, IdsKept
  <2>8. OneLogin'
    <3>1. \A s \in DOMAIN external'.logins :
            \/ s \in DOMAIN external.logins
            \/ /\ s \notin DOMAIN external'.memory
               /\ \A d \in Clients \ {c} : Holds(d, s) => Spoilt(s)'
      <4>1. ASSUME NEW d \in Clients \ {c}, Holds(d, i) PROVE Spoilt(i)'
        <5>1. Arg(d).id = i
          BY <4>1 DEF Holds
        <5>2. Spoilt(i)
          BY <1>4, <4>1, <5>1 DEF StateInv, OneLogin
        <5> QED BY <1>5, <5>2
      <4> QED BY <1>4, <2>4, <2>5, <4>1
    <3>2. \A s \in DOMAIN external'.logins :
            \/ s \in DOMAIN external.logins /\ external'.logins[s] = external.logins[s]
            \/ Spoilt(s)' \/ (external'.logins[s] = 1 /\ Holds(c, s)')
      BY <1>4, <1>5, <2>3, <2>5, <2>6
    <3>3. job'[c].arg.id \notin DOMAIN external'.memory
      BY <1>4, <2>2, <2>4
    <3>4. \A s \in DOMAIN external'.memory : s \in DOMAIN external.memory
      BY <2>4
    <3>5. \A s \in DOMAIN external'.stored : s \in DOMAIN external.stored
      BY <2>4
    <3> QED BY <1>2, <2>3, <3>1, <3>2, <3>3, <3>4, <3>5, StepFrame, LoginsKept
  <2>9. StoredInv'
    <3>1. job'[c].arg.id \in external'.taken \/ Over(Arg(c).id)'
      BY <1>0, <1>4, <2>2, <2>4, StepFrame DEF Over
    <3> QED BY <1>2, <1>6, <2>4, <3>1, StepFrame, StoredKept
  <2> QED BY <2>7, <2>8, <2>9 DEF StateInv
<1> QED BY <1>0, <1>1, <1>7, <1>8 DEF Exchange

\* Forgetting the state removes it from the table.
LEMMA StateForgotten ==
    ASSUME Shape, StateInv, NEW c \in Clients, StepOf(c, "forget")
    PROVE  StateInv'
<1>0. PICK i : i = Arg(c).id
  OBVIOUS
<1>1. ForgetState(c)
  BY StepFrame DEF Named, NamedStates
<1>2. ~Issuing(c)' /\ ~Uses(c)'
  BY StepFrame, Came, LeadsToStates DEF Issuing, Uses
<1>3. job'[c].op = "callback" /\ ~Idle(c)' => job'[c].arg.id \in DOMAIN external.issued
  BY StepFrame, CallbackId DEF Arg
<1>4. i \in external.taken \/ Over(i)
  BY <1>0, StepFrame DEF StateInv, StoredInv
<1>5. /\ (\A s : Holds(c, s) => s = i)
      /\ (\A s : ~Holds(c, s)') /\ ~At(c, "exchange")' /\ ~At(c, "forget")'
  BY <1>0, <1>2 DEF Holds, Uses
<1>6. /\ DOMAIN external.logins \subseteq DOMAIN external.issued
      /\ (\A s \in DOMAIN external.issued : external.issued[s] \in Nat)
      /\ (\A s \in DOMAIN external.stored : external.stored[s] \in Nat)
  BY DEF StateInv, StateIds, StoredInv
<1>7. external' = [external EXCEPT !.stored = Drop(external.stored, {i})]
  BY <1>0, <1>1 DEF ForgetState
<1>8. /\ external'.memory = external.memory /\ external'.stored = Drop(external.stored, {i})
      /\ external'.issued = external.issued /\ external'.taken = external.taken
      /\ external'.logins = external.logins
  BY <1>7 DEF Shape
<1>9. /\ DOMAIN external'.stored = DOMAIN external.stored \ {i}
      /\ \A s \in DOMAIN external'.stored : external'.stored[s] = external.stored[s]
  BY <1>8 DEF Drop, Keep
<1>10. StateIds'
  BY <1>2, <1>3, <1>6, <1>8, StepFrame, IdsKept
<1>11. OneLogin'
  BY <1>2, <1>5, <1>8, <1>9, StepFrame, LoginsKept
<1>12. StoredInv'
  <2>1. ASSUME NEW s \in DOMAIN external'.issued \ external'.taken
        PROVE  \/ s \in DOMAIN external.issued /\ Over(s)'
               \/ /\ s \in DOMAIN external.issued
                  /\ s \in DOMAIN external.stored =>
                       s \in DOMAIN external'.stored /\ external'.stored[s] = external.stored[s]
               \/ s \in DOMAIN external'.stored /\ external'.issued[s] <= external'.stored[s]
    <3>1. CASE s = i
      BY <1>4, <1>8, <3>1, StepFrame DEF Over
    <3>2. CASE s # i
      BY <1>8, <1>9, <3>2
    <3> QED BY <3>1, <3>2
  <2>2. \A s \in DOMAIN external'.stored : external'.stored[s] \in Nat
    BY <1>6, <1>9
  <2> QED BY <1>2, <1>5, <1>6, <1>8, <2>1, <2>2, StepFrame, StoredKept
<1> QED BY <1>10, <1>11, <1>12 DEF StateInv

\* Every step keeps the invariant of the login states.
LEMMA StateKept == ASSUME Shape, StateInv, [Next]_vars PROVE StateInv'
<1>1. ASSUME NEW c \in Clients, NEW x, StepOf(c, x) PROVE StateInv'
  <2>1. CASE x \in {"begin", "prune", "persist", "take", "load", "exchange", "forget"}
    BY <1>1, <2>1, StateBegun, StatePruned, StatePersisted, StateTaken, StateLoaded, StateExchanged,
       StateForgotten
  <2>2. CASE x \notin {"begin", "prune", "persist", "take", "load", "exchange", "forget"}
    <3>1. ~Issuing(c)' /\ ~Uses(c)'
      BY <1>1, <2>2, StepFrame, Came, LeadsToStates DEF Issuing, Uses
    <3>2. \A s : ~Holds(c, s)
      BY <1>1, <2>2, StepFrame DEF Holds, At
    <3>3. job'[c].op = "callback" /\ ~Idle(c)' => job'[c].arg.id \in DOMAIN external.issued
      BY <1>1, StepFrame, CallbackId DEF Arg
    <3>4. /\ DOMAIN external'.memory \subseteq DOMAIN external.memory
          /\ external'.stored = external.stored /\ external'.issued = external.issued
          /\ external'.taken = external.taken /\ external'.logins = external.logins
      <4>1. CASE x = "setSetting"
        <5>1. SetSetting(c)
          BY <1>1, <4>1, StepFrame DEF Named, NamedResets
        <5>2. /\ external'.memory = EmptyMap \/ external'.memory = external.memory
              /\ external'.stored = external.stored /\ external'.issued = external.issued
              /\ external'.taken = external.taken /\ external'.logins = external.logins
          BY <5>1 DEF SetSetting, Shape
        <5> QED BY <5>2 DEF EmptyMap
      <4>2. CASE x # "setSetting"
        BY <1>1, <2>2, <4>2 DEF StepOf, Does, Effects, StateSteps, SameStates
      <4> QED BY <4>1, <4>2
    <3> QED BY <1>1, <3>1, <3>2, <3>3, <3>4, StepFrame, StateQuiet
  <2> QED BY <2>1, <2>2
<1>2. ASSUME NEW c \in Clients, FailsAt(c) PROVE StateInv'
  <2>1. /\ Alone(c) /\ external' = external /\ raced \subseteq raced' /\ broken \subseteq broken'
        /\ Proceeds(c) /\ ~Idle(c) /\ used'.ids \in Nat /\ used.ids <= used'.ids /\ now' = now
    BY <1>2 DEF FailsAt, SameTables, Grows, Counts, Proceeds
  <2>2. job'[c].op = "callback" /\ ~Idle(c)' => job'[c].arg.id \in DOMAIN external.issued
    BY <2>1, CallbackId DEF Arg
  <2>3. CASE LoggedFailure(c)
    <3>1. PICK x \in {"forget", "applyRoles", "syncFlags", "ssoRoles"} : At(c, x)
      BY <2>3 DEF LoggedFailure
    <3>2. ~Issuing(c)' /\ ~Uses(c)'
      BY <2>1, <3>1, Came, LeadsToStates DEF Issuing, Uses
    <3>3. broken' = broken \cup {StateOf(c)}
      BY <2>3 DEF LoggedFailure
    <3>4. \A s : Holds(c, s) => Spoilt(s)'
      BY <3>3 DEF Holds, Spoilt, StateOf
    <3> QED BY <2>1, <2>2, <3>2, <3>4, StateQuiet
  <2>4. CASE Idle(c)' /\ broken' = broken \cup job[c].reads
    <3>1. \A s : Holds(c, s) => Spoilt(s)'
      BY <2>4 DEF Holds, Spoilt
    <3>2. ~Issuing(c)' /\ ~Uses(c)'
      BY <2>4 DEF Issuing, Uses, At, Idle
    <3> QED BY <2>1, <2>2, <3>1, <3>2, StateQuiet
  <2> QED BY <1>2, <2>3, <2>4 DEF FailsAt
<1>3. ASSUME NEW c \in Clients, Arrival(c) PROVE StateInv'
  <2>1. /\ Alone(c) /\ external' = external /\ raced \subseteq raced' /\ broken \subseteq broken'
        /\ Idle(c) /\ used'.ids \in Nat /\ used.ids <= used'.ids /\ now' = now /\ Arrives(job'[c])
    BY <1>3, ArrivalFacts DEF Arrival, Counts
  <2>2. {"load", "exchange", "forget", "prune", "persist"} \cap First = {}
    BY DEF First
  <2>3. ~Issuing(c)' /\ ~Uses(c)'
    BY <1>3, <2>2, ArrivesAt DEF Issuing, Uses
  <2>4. \A s : ~Holds(c, s)
    BY <2>1 DEF Holds, At, Idle
  <2>5. job'[c].op = "callback" => job'[c].arg.id \in DOMAIN external.issued
    BY <2>1 DEF Arrives
  <2> QED BY <2>1, <2>3, <2>4, <2>5, StateQuiet
<1>4. ASSUME Passing PROVE StateInv'
  <2>1. /\ job' = job /\ SameStates /\ raced' = raced /\ broken' = broken /\ used'.ids = used.ids
        /\ now' \in Nat /\ now <= now' /\ now \in Nat
    BY <1>4 DEF Passing, Stands, Shape
  <2>2. StateIds'
    BY <2>1 DEF StateInv, StateIds, SameStates, Arg, Idle, Issuing, At
  <2>3. OneLogin'
    BY <2>1 DEF StateInv, OneLogin, SameStates, Arg, Uses, At, StateOf, Holds, Spoilt
  <2>4. StoredInv'
    <3>1. ASSUME NEW s \in DOMAIN external.issued, Over(s) PROVE Over(s)'
      <4>1. external.issued[s] \in Nat /\ StateTtl \in Nat
        BY ExternalAssumption DEF StateInv, StoredInv
      <4> QED BY <2>1, <3>1, <4>1 DEF Over, SameStates
    <3>2. /\ \A s \in DOMAIN external'.issued : external'.issued[s] \in Nat
          /\ \A s \in DOMAIN external'.stored : external'.stored[s] \in Nat
      BY <2>1 DEF StateInv, StoredInv, SameStates
    <3>3. ASSUME NEW s \in DOMAIN external'.issued \ external'.taken
          PROVE  Over(s)' \/ (s \in DOMAIN external'.stored /\ external'.issued[s] <= external'.stored[s])
      BY <2>1, <3>1 DEF StateInv, StoredInv, SameStates
    <3>4. ASSUME NEW d \in Clients
          PROVE  /\ Issuing(d)' => job'[d].mem.at \in Nat /\ job'[d].mem.at <= now'
                 /\ At(d, "exchange")' \/ At(d, "forget")' =>
                      Arg(d)'.id \in external'.taken \/ Over(Arg(d).id)'
      <4>1. /\ job'[d] = job[d] /\ (Issuing(d)' <=> Issuing(d)) /\ Arg(d)' = Arg(d)
            /\ \A y : At(d, y)' <=> At(d, y)
        BY <2>1 DEF Issuing, At, Arg
      <4>2. Issuing(d) => job[d].mem.at \in Nat /\ job[d].mem.at <= now
        BY DEF StateInv, StoredInv
      <4>3. Issuing(d) => job[d].mem.at <= now'
        BY <2>1, <4>2
      <4>4. ASSUME At(d, "exchange") \/ At(d, "forget")
            PROVE  Arg(d)'.id \in external'.taken \/ Over(Arg(d).id)'
        <5>1. PICK s : s = Arg(d).id
          OBVIOUS
        <5>2. s \in external.taken \/ Over(s)
          BY <4>4, <5>1 DEF StateInv, StoredInv
        <5>3. s \in DOMAIN external.issued
          BY <4>4, <5>1, UsesIssued DEF Uses, StateInv
        <5> QED BY <2>1, <3>1, <4>1, <5>1, <5>2, <5>3 DEF Over, SameStates
      <4> QED BY <4>1, <4>2, <4>3, <4>4
    <3> QED BY <3>2, <3>3, <3>4 DEF StoredInv
  <2> QED BY <2>2, <2>3, <2>4 DEF StateInv
<1>5. ASSUME Restarts PROVE StateInv'
  <2>1. \A c \in Clients : Idle(c)' /\ \A y : ~At(c, y)'
    BY <1>5 DEF Restarts, Idle, At, NoJob
  <2>2. /\ external'.memory = EmptyMap /\ external'.stored = external.stored
        /\ external'.issued = external.issued /\ external'.taken = external.taken
        /\ external'.logins = external.logins /\ now' = now /\ used'.ids = used.ids /\ raced' = raced
        /\ broken' = broken \cup UNION {job[c].reads : c \in Clients}
    BY <1>5 DEF Restarts, Stands
  <2>3. DOMAIN external'.memory = {}
    BY <2>2 DEF EmptyMap
  <2>4. StateIds'
    BY <2>1, <2>2, <2>3 DEF StateInv, StateIds, Issuing
  <2>5. \A s, c : c \in Clients /\ Holds(c, s) => Spoilt(s)'
    BY <2>2 DEF Holds, Spoilt
  <2>6. OneLogin'
    <3>1. \A s : Spoilt(s) => Spoilt(s)'
      BY <2>2 DEF Spoilt
    <3>2. ASSUME NEW s \in DOMAIN external'.logins
          PROVE  \/ Spoilt(s)'
                 \/ /\ external'.logins[s] = 1
                    /\ s \notin DOMAIN external'.stored \/ \E c \in Clients : Holds(c, s)'
      BY <2>2, <2>5, <3>1 DEF StateInv, OneLogin
    <3>3. \A c \in Clients : ~Uses(c)' /\ \A s : ~Holds(c, s)'
      BY <2>1 DEF Uses, Holds
    <3>4. ASSUME NEW c \in Clients, NEW d \in Clients PROVE ~Holds(c, Arg(d).id)'
      BY <2>1 DEF Holds
    <3> QED BY <2>1, <2>3, <3>2, <3>3, <3>4 DEF OneLogin
  <2>7. StoredInv'
    <3>1. \A s : Over(s)' <=> Over(s)
      BY <2>2 DEF Over
    <3> QED BY <2>1, <2>2, <3>1 DEF StateInv, StoredInv, Issuing
  <2> QED BY <2>4, <2>6, <2>7 DEF StateInv
<1> QED BY <1>1, <1>2, <1>3, <1>4, <1>5, NextKinds

\* A code handed out once does one thing (OneTimeCodes): a reset token sets one password, an
\* OAuth2 state completes one login, and the state of a login that was begun is there while
\* it lives, over restarts and changes of the settings.
THEOREM CodesWorkOnce == Spec => []OneTimeCodes
<1>1. Init => Shape /\ ResetInv /\ StateInv
  BY ShapeInitial, ResetInitial, StatesInitial
<1>2. Shape /\ ResetInv /\ StateInv /\ [Next]_vars => Shape' /\ ResetInv' /\ StateInv'
  BY ShapeKept, ResetKept, StateKept
<1>3. ASSUME ResetInv PROVE ResetUsedOnce
  <2>1. ASSUME NEW r \in DOMAIN resets
        PROVE  resets[r].uses <= 1 \/ <<"reset", r>> \in raced \cup broken
    <3>1. resets[r].uses = 0 \/ resets[r].uses = 1 \/ <<"reset", r>> \in raced \cup broken
      BY <1>3 DEF ResetInv
    <3>2. resets[r].uses = 0 \/ resets[r].uses = 1 => resets[r].uses <= 1
      OBVIOUS
    <3> QED BY <3>1, <3>2
  <2> QED BY <2>1 DEF ResetUsedOnce
<1>4. ASSUME StateInv PROVE OneLoginPerState
  <2>1. ASSUME NEW s \in DOMAIN external.logins
        PROVE  external.logins[s] <= 1 \/ <<"state", s>> \in raced \cup broken
    <3>1. external.logins[s] = 1 \/ <<"state", s>> \in raced \cup broken
      BY <1>4 DEF StateInv, OneLogin, Spoilt
    <3> QED BY <3>1
  <2> QED BY <2>1 DEF OneLoginPerState
<1>5. ASSUME Shape, StateInv PROVE StateUsable
  <2>1. ASSUME NEW s \in DOMAIN external.issued \ external.taken, now < external.issued[s] + StateTtl
        PROVE  s \in DOMAIN external.stored /\ ~(external.stored[s] < now - StateTtl)
    <3>1. now \in Nat /\ StateTtl \in Nat /\ external.issued[s] \in Nat
      BY <1>5, ExternalAssumption DEF Shape, StateInv, StoredInv
    <3>2. ~Over(s)
      BY <2>1, <3>1 DEF Over
    <3>3. s \in DOMAIN external.stored /\ external.issued[s] <= external.stored[s]
          /\ external.stored[s] \in Nat
      BY <1>5, <2>1, <3>2 DEF StateInv, StoredInv
    <3> QED BY <2>1, <3>1, <3>3
  <2> QED BY <2>1 DEF StateUsable
<1>6. Shape /\ ResetInv /\ StateInv => OneTimeCodes
  BY <1>3, <1>4, <1>5 DEF OneTimeCodes
<1> QED BY <1>1, <1>2, <1>6, PTL DEF Spec

------------------------------------------------------------------------------
(* What a request about users has read.                                        *)

\* A request that signs somebody in is at one of three steps, after one of six.
LEMMA SigningFrom ==
    ASSUME Shape, NEW c \in Clients, NEW x, At(c, x), Proceeds(c), SigningIn(c)'
    PROVE  /\ x \in {"verify", "provision", "syncFlags", "matchEmail", "matchName", "applyRoles"}
           /\ job'[c].plan = Rest(c) => x \in {"verify", "provision", "syncFlags", "applyRoles"}
           /\ ~Idle(c)' /\ job'[c].plan = Rest(c) /\ x = "provision" => ~At(c, "provision")'
<1>1. PICK y \in {"createSession", "applyRoles", "syncFlags"} : At(c, y)'
  BY DEF SigningIn
<1>2. Leads(job[c].op, Active(job[c]), x, y)
  BY <1>1, Came
<1>3. x \in {"verify", "provision", "syncFlags", "matchEmail", "matchName", "applyRoles"}
  BY <1>1, <1>2, LeadsToUsers
<1>4. ASSUME job'[c].plan = Rest(c)
      PROVE  x \in {"verify", "provision", "syncFlags", "applyRoles"}
  <2>1. Follows(job[c].op, Active(job[c]), x, y)
    BY <1>1, <1>4, RestAt
  <2> QED BY <1>1, <2>1 DEF Follows
<1>5. ~At(c, "provision")'
  BY <1>1 DEF At
<1> QED BY <1>3, <1>4, <1>5

\* The row of a user with its id.
LEMMA RowIs ==
    ASSUME Shape, NEW u \in DOMAIN users
    PROVE  RowOf(u).id = u /\ RowOf(u).admin = users[u].admin
BY DEF RowOf, Put, Shape

\* A request that admits a user has read his row, and he was active.
LEMMA AdmitsIn ==
    ASSUME Shape, NEW c \in Clients, NEW u \in DOMAIN users, NEW y, Admit(c, u, y), ~Idle(c)',
           users' = users
    PROVE  job'[c].mem.id = u /\ <<"user", u>> \in job'[c].reads /\ ~Gone(u)'
<1>1. ~Denied(c)
  <2>1. ASSUME Denied(c) PROVE FALSE
    BY <2>1, Replies DEF Denied, Shape
  <2> QED BY <2>1
<1>2. /\ users[u].active
      /\ job' = [job EXCEPT ![c].plan = SkipTo(c, y), ![c].mem = RowOf(u),
                            ![c].reads = @ \cup {<<"user", u>>}]
  BY <1>1 DEF Admit
<1>3. job'[c].mem = RowOf(u) /\ job'[c].reads = job[c].reads \cup {<<"user", u>>}
  BY <1>2 DEF Shape, JobShape, Fields
<1> QED BY <1>2, <1>3, RowIs DEF Gone

\* Whoever is being signed in is somebody the request has read, active when it read him.
LEMMA SignsIn ==
    ASSUME Shape, NEW c \in Clients, NEW x, StepOf(c, x), SigningIn(c)'
    PROVE  \/ /\ x \in {"applyRoles", "syncFlags"} /\ SigningIn(c)
              /\ job'[c].mem = job[c].mem /\ job'[c].reads = job[c].reads
           \/ <<"user", job'[c].mem.id>> \in job'[c].reads /\ ~Gone(job[c].mem.id)'
<1>1. Proceeds(c) /\ At(c, x) /\ Named(c, x) /\ ~Idle(c)' /\ (x \notin UserSteps => users' = users)
  BY DEF StepOf, Does, Effects, SigningIn, At, Idle
<1>2. /\ x \in {"verify", "provision", "syncFlags", "matchEmail", "matchName", "applyRoles"}
      /\ job'[c].plan = Rest(c) => x \in {"verify", "provision", "syncFlags", "applyRoles"}
  BY <1>1, SigningFrom
<1>3. \A code : ~Reply(c, code)
  BY <1>1, Replies DEF Shape
<1>4. CASE x = "verify"
  <2>1. Login(c) /\ users' = users
    BY <1>1, <1>4 DEF Named, NamedSessions, UserSteps
  <2> DEFINE found == {u \in DOMAIN users : Verifies(Arg(c).name, Arg(c).secret, u)}
  <2>2. found # {} /\ Relies(c, {<<"user", The(found)>>}, RowOf(The(found)))
    BY <1>3, <2>1 DEF Login
  <2>3. The(found) \in DOMAIN users /\ users[The(found)].active
    BY <2>2 DEF The, Verifies
  <2> HIDE DEF found
  <2>4. PICK u \in DOMAIN users : u = The(found)
    BY <2>3
  <2>5. job'[c].mem = RowOf(u) /\ job'[c].reads = job[c].reads \cup {<<"user", u>>}
    BY <2>2, <2>4, Relies1 DEF Shape
  <2>6. job'[c].mem.id = u
    BY <2>4, <2>5, RowIs
  <2> QED BY <2>1, <2>3, <2>4, <2>5, <2>6 DEF Gone
<1>5. CASE x = "provision"
  <2>1. Provision(c)
    BY <1>1, <1>5 DEF Named, NamedUsers
  <2> DEFINE row == Candidate(Who(c), job[c].mem.attempt)
  <2>2. ~(job' = [job EXCEPT ![c].mem.attempt = @ + 1])
    <3>1. ASSUME job' = [job EXCEPT ![c].mem.attempt = @ + 1] PROVE FALSE
      <4>1. job'[c].plan = job[c].plan
        BY <3>1 DEF Shape, JobShape, Fields
      <4>2. At(c, "provision")'
        BY <1>1, <1>5, <4>1 DEF At
      <4> QED BY <4>2 DEF SigningIn, At
    <3> QED BY <3>1
  <2>3. users' = Put(users, NewId, row) /\ Relies(c, {<<"user", NewId>>}, Put(row, "id", NewId))
    BY <1>3, <2>1, <2>2 DEF Provision
  <2>4. PICK u : u = NewId
    OBVIOUS
  <2>5. job'[c].mem = Put(row, "id", u) /\ job'[c].reads = job[c].reads \cup {<<"user", u>>}
    BY <2>3, <2>4, Relies1 DEF Shape
  <2>6. job'[c].mem.id = u
    BY <2>5 DEF Put
  <2>7. row.active
    BY DEF Candidate, NewRow
  <2> HIDE DEF row
  <2>8. u \in DOMAIN users' /\ users'[u] = row
    BY <2>3, <2>4 DEF Put
  <2> QED BY <2>5, <2>6, <2>7, <2>8 DEF Gone
<1>6. CASE x = "matchEmail" \/ x = "matchName"
  <2>1. users' = users /\ job'[c].plan # Rest(c)
    BY <1>1, <1>2, <1>6 DEF UserSteps
  <2>2. ~Advance(c) /\ ~Denied(c) /\ \A rs, m : ~Relies(c, rs, m)
    BY <1>3, <2>1, Goes1, Relies1 DEF Advance, Denied, OnTo, Shape
  <2>3. \E u \in DOMAIN users : Admit(c, u, AfterUser(c))
    <3>1. ASSUME NEW S, S \subseteq DOMAIN users, S # {} PROVE The(S) \in DOMAIN users
      BY <3>1 DEF The
    <3>2. CASE x = "matchEmail"
      <4>1. MatchEmail(c)
        BY <1>1, <3>2 DEF Named, NamedSessions
      <4>2. ByEmail(Who(c)) # {} /\ Admit(c, The(ByEmail(Who(c))), AfterUser(c))
        BY <2>2, <4>1 DEF MatchEmail
      <4>3. ByEmail(Who(c)) \subseteq DOMAIN users
        BY DEF ByEmail, WithEmail
      <4> QED BY <3>1, <4>2, <4>3
    <3>3. CASE x = "matchName"
      <4>1. MatchName(c)
        BY <1>1, <3>3 DEF Named, NamedSessions
      <4>2. ByName(Who(c)) # {} /\ Admit(c, The(ByName(Who(c))), AfterUser(c))
        BY <2>2, <4>1 DEF MatchName
      <4>3. ByName(Who(c)) \subseteq DOMAIN users
        BY DEF ByName, WithName
      <4> QED BY <3>1, <4>2, <4>3
    <3> QED BY <1>6, <3>2, <3>3
  <2>4. PICK u \in DOMAIN users : Admit(c, u, AfterUser(c))
    BY <2>3
  <2>5. job'[c].mem.id = u /\ <<"user", u>> \in job'[c].reads /\ ~Gone(u)'
    BY <1>1, <2>1, <2>4, AdmitsIn
  <2> QED BY <2>5 DEF Gone
<1>7. CASE x = "applyRoles"
  <2>1. ApplyRoles(c)
    BY <1>1, <1>7 DEF Named, NamedSessions
  <2>2. \E z : job' = [job EXCEPT ![c].plan = Rest(c), ![c].arg = [Arg(c) EXCEPT !.had = z]]
    BY <2>1 DEF ApplyRoles
  <2>3. job'[c].mem = job[c].mem /\ job'[c].reads = job[c].reads
    BY <1>1, <1>7, <2>2, RolesMove DEF Shape
  <2> QED BY <1>1, <1>7, <2>3 DEF SigningIn
<1>8. CASE x = "syncFlags"
  <2>1. Advance(c)
    BY <1>1, <1>8 DEF Named, NamedUsers, SyncFlags
  <2>2. job'[c].mem = job[c].mem /\ job'[c].reads = job[c].reads
    BY <2>1, Goes1 DEF Advance, Shape
  <2> QED BY <1>1, <1>8, <2>2 DEF SigningIn
<1> QED BY <1>2, <1>4, <1>5, <1>6, <1>7, <1>8

\* A failure that is only logged leaves it at that.
LEMMA LoggedSignsIn ==
    ASSUME Shape, NEW c \in Clients, Proceeds(c), LoggedFailure(c), SigningIn(c)'
    PROVE  SigningIn(c) /\ job'[c].mem = job[c].mem /\ job'[c].reads = job[c].reads
<1>1. PICK x \in {"forget", "applyRoles", "syncFlags", "ssoRoles"} : At(c, x)
  BY DEF LoggedFailure
<1>2. x \in {"applyRoles", "syncFlags"}
  BY <1>1, SigningFrom
<1>3. \A code : ~Reply(c, code)
  <2>1. ~Idle(c)'
    BY DEF SigningIn, At, Idle
  <2> QED BY <2>1, Replies DEF Shape
<1>4. Advance(c)
  BY <1>3 DEF LoggedFailure, AdvanceOr
<1>5. job'[c].mem = job[c].mem /\ job'[c].reads = job[c].reads
  BY <1>4, Goes1 DEF Advance, Shape
<1> QED BY <1>1, <1>2, <1>5 DEF SigningIn

\* A request that counts administrators or removes sessions has just read its user, or it was
\* at it before.
LEMMA ComesToClear ==
    ASSUME Shape, NEW c \in Clients, NEW x, At(c, x), Proceeds(c), x = "findUser" => FindUser(c),
           Counting(c)' \/ Clearing(c)'
    PROVE  /\ job'[c].op = job[c].op /\ job'[c].arg = job[c].arg
           /\ \/ /\ x = "findUser" /\ At(c, "countAdmins")' /\ Arg(c).id \in DOMAIN users
                 /\ {<<"user", Arg(c).id>>, Admins} \subseteq job'[c].reads
                 /\ job'[c].mem = RowOf(Arg(c).id)
              \/ /\ x # "findUser" /\ job[c].reads \subseteq job'[c].reads /\ ~At(c, "countAdmins")'
                 /\ Counting(c) \/ Clearing(c)
                 /\ Judged(c)' => x = "countAdmins" \/ Judged(c)
<1> DEFINE op == job[c].op
           a == Active(job[c])
<1>1. PICK y \in {"countAdmins", "setActive", "listSessions", "removeSessions", "deleteUser"} :
        /\ At(c, y)'
        /\ y = "setActive" => job'[c].op = "status" /\ ~job'[c].arg.active
        /\ y # "setActive" /\ y # "countAdmins" => job'[c].op \in {"status", "deleteUser"}
        /\ Judged(c)' => y = "setActive" \/ job'[c].op = "deleteUser"
  BY DEF Counting, Judged, Clearing, At
<1>2. Keeps(job[c], job'[c]) /\ Leads(op, a, x, y) /\ Belongs(op, x) /\ Belongs(op, y)
  BY <1>1, Came
<1>3. job'[c].op = op /\ op \in {"status", "deleteUser"}
  BY <1>1, <1>2 DEF Keeps, Belongs
<1>4. job'[c].arg = job[c].arg
  BY <1>2, <1>3 DEF Keeps
<1>5. y = "setActive" => ~a
  BY <1>1, <1>3, <1>4 DEF Active
<1>6. /\ y = "countAdmins" => x = "findUser"
      /\ y = "setActive" => x = "countAdmins"
      /\ y = "listSessions" => x = (IF op = "status" THEN "setActive" ELSE "countAdmins")
      /\ y = "listSessions" /\ op = "status" => ~a
      /\ y = "removeSessions" => x \in {"listSessions", "cleanList"}
      /\ y = "deleteUser" => x \in {"removeSessions", "listSessions"}
  BY <1>2, <1>5, LeadsToUsers
<1>7. x # "cleanList" /\ (y = "deleteUser" => op = "deleteUser")
  BY <1>2, <1>3 DEF Belongs
<1>8. CASE x = "findUser"
  <2>1. At(c, "countAdmins")'
    BY <1>1, <1>6, <1>8
  <2>2. ~Idle(c)' /\ FindUser(c)
    BY <1>8, <2>1 DEF At, Idle
  <2>3. \A code : ~Reply(c, code)
    BY <2>2, Replies DEF Shape
  <2>4. /\ Arg(c).id \in DOMAIN users
        /\ Relies(c, {<<"user", Arg(c).id>>, Admins}, RowOf(Arg(c).id))
    BY <2>2, <2>3 DEF FindUser, Admins
  <2>5. PICK i : i = Arg(c).id
    OBVIOUS
  <2>6. job'[c].mem = RowOf(i) /\ job'[c].reads = job[c].reads \cup {<<"user", i>>, Admins}
    BY <2>4, <2>5, Relies1 DEF Shape
  <2> QED BY <1>3, <1>4, <1>8, <2>1, <2>4, <2>5, <2>6
<1>9. CASE x # "findUser"
  <2>1. y # "countAdmins" /\ ~At(c, "countAdmins")'
    BY <1>1, <1>6, <1>9 DEF At
  <2>2. x # "take"
    BY <1>6, <1>1, <2>1
  <2>3. job[c].reads \subseteq job'[c].reads
    BY <1>2, <2>2 DEF Keeps, At
  <2>4. Counting(c) \/ Clearing(c)
    <3>1. CASE x = "countAdmins"
      BY <3>1 DEF Counting
    <3>2. CASE x = "setActive"
      <4>1. op = "status" /\ ~a
        BY <1>1, <1>3, <1>6, <2>1, <3>2
      <4>2. ~job[c].arg.active
        BY <4>1 DEF Active
      <4> QED BY <3>2, <4>1, <4>2 DEF Counting, Judged
    <3>3. CASE x = "listSessions" \/ x = "removeSessions"
      BY <1>3, <3>3 DEF Clearing
    <3> QED BY <1>1, <1>6, <1>7, <2>1, <3>1, <3>2, <3>3
  <2>5. ASSUME Judged(c)' PROVE x = "countAdmins" \/ Judged(c)
    <3>1. CASE y = "setActive"
      BY <1>6, <3>1
    <3>2. CASE op = "deleteUser"
      <4>1. x = "countAdmins" \/ x = "listSessions" \/ x = "removeSessions"
        BY <1>1, <1>2, <1>6, <1>7, <2>1, <3>2 DEF Belongs
      <4> QED BY <3>2, <4>1 DEF Judged
    <3> QED BY <1>1, <1>3, <2>5, <3>1, <3>2
  <2> QED BY <1>3, <1>4, <1>9, <2>1, <2>3, <2>4, <2>5
<1> QED BY <1>8, <1>9


\* A request that did not move relies on what it did.
LEMMA RelyStays ==
    ASSUME NEW d, RelyOn(d), job'[d] = job[d] PROVE RelyOn(d)'
BY DEF RelyOn, Counting, Judged, Clearing, SigningIn, At, Arg

\* A request that is not yet, or no longer, at one of the steps that rely on something.
LEMMA RelyNot ==
    ASSUME NEW c, \A y \in {"countAdmins", "setActive", "listSessions", "removeSessions",
                            "deleteUser", "createSession", "applyRoles", "syncFlags"} : ~At(c, y)'
    PROVE  RelyOn(c)' /\ ~Counting(c)' /\ ~Clearing(c)' /\ ~SigningIn(c)' /\ ~At(c, "countAdmins")'
           /\ ~Judged(c)'
BY DEF RelyOn, Counting, Judged, Clearing, SigningIn

\* A request that arrives is at none of them.
LEMMA RelyArrived == ASSUME Shape, NEW c \in Clients, Arrival(c)
                     PROVE  RelyOn(c)' /\ ~Counting(c)' /\ ~Clearing(c)' /\ ~SigningIn(c)'
                            /\ ~At(c, "countAdmins")' /\ ~Judged(c)'
<1>1. {"countAdmins", "setActive", "listSessions", "removeSessions", "deleteUser",
       "createSession", "applyRoles", "syncFlags"} \cap First = {}
  BY DEF First
<1>2. \A y \in {"countAdmins", "setActive", "listSessions", "removeSessions", "deleteUser",
                "createSession", "applyRoles", "syncFlags"} : ~At(c, y)'
  BY <1>1, ArrivesAt
<1> QED BY <1>2, RelyNot

\* A request relies on the users it has read.
LEMMA RelyMoved ==
    ASSUME Shape, NEW c \in Clients, RelyOn(c), NEW x, At(c, x), Proceeds(c),
           StepOf(c, x) \/ LoggedFailure(c)
    PROVE  RelyOn(c)'
<1>1. x = "findUser" => FindUser(c)
  <2>1. ASSUME x = "findUser" PROVE ~LoggedFailure(c)
    BY <2>1 DEF LoggedFailure, At
  <2> QED BY <2>1 DEF StepOf, Does, Named, NamedUsers
<1>2. ASSUME SigningIn(c)' PROVE <<"user", job'[c].mem.id>> \in job'[c].reads
  <2>1. \/ SigningIn(c) /\ job'[c].mem = job[c].mem /\ job'[c].reads = job[c].reads
        \/ <<"user", job'[c].mem.id>> \in job'[c].reads
    BY <1>2, SignsIn, LoggedSignsIn
  <2> QED BY <2>1 DEF RelyOn
<1>3. ASSUME Counting(c)' \/ Clearing(c)' PROVE <<"user", Arg(c).id>> \in job'[c].reads /\ Arg(c)' = Arg(c)
  BY <1>1, <1>3, ComesToClear DEF RelyOn, Arg
<1>4. ASSUME Counting(c)' PROVE Admins \in job'[c].reads
  <2>1. Counting(c)' \/ Clearing(c)'
    BY <1>4
  <2>2. \/ x = "findUser" /\ Admins \in job'[c].reads
        \/ /\ x # "findUser" /\ job[c].reads \subseteq job'[c].reads /\ ~At(c, "countAdmins")'
           /\ Judged(c)' => x = "countAdmins" \/ Judged(c)
    BY <1>1, <2>1, ComesToClear
  <2>3. CASE x # "findUser" /\ job[c].reads \subseteq job'[c].reads /\ ~At(c, "countAdmins")'
             /\ (Judged(c)' => x = "countAdmins" \/ Judged(c))
    <3>1. x = "countAdmins" \/ Judged(c)
      BY <1>4, <2>3 DEF Counting
    <3>2. Counting(c)
      BY <3>1 DEF Counting
    <3> QED BY <2>3, <3>2 DEF RelyOn
  <2> QED BY <2>2, <2>3
<1> QED BY <1>2, <1>3, <1>4 DEF RelyOn, Arg

\* At first nobody relies on anything,
LEMMA RelyingInitial == ASSUME Init PROVE Relying
<1>1. \A c \in Clients : \A y : ~At(c, y)
  BY DEF Init, AccountsInit, At, NoJob
<1> QED BY <1>1 DEF Relying, RelyOn, Counting, Judged, Clearing, SigningIn

\* and a request has read what its next step relies on.
LEMMA RelyingKept == ASSUME Shape, Relying, [Next]_vars PROVE Relying'
<1>1. ASSUME NEW c \in Clients, Alone(c), RelyOn(c)' PROVE Relying'
  <2>1. ASSUME NEW d \in Clients, d # c PROVE RelyOn(d)'
    BY <1>1, <2>1, RelyStays DEF Alone, Relying
  <2> QED BY <1>1, <2>1 DEF Relying
<1>2. ASSUME NEW c \in Clients, NEW x, StepOf(c, x) PROVE Relying'
  <2>1. Proceeds(c) /\ At(c, x) /\ RelyOn(c) /\ Alone(c)
    BY <1>2 DEF StepOf, Does, Effects, Proceeds, Relying
  <2> QED BY <1>1, <1>2, <2>1, RelyMoved
<1>3. ASSUME NEW c \in Clients, FailsAt(c) PROVE Relying'
  <2>1. Proceeds(c) /\ RelyOn(c) /\ Alone(c)
    BY <1>3 DEF FailsAt, Proceeds, Relying
  <2>2. CASE LoggedFailure(c)
    <3>1. PICK x \in {"forget", "applyRoles", "syncFlags", "ssoRoles"} : At(c, x)
      BY <2>2 DEF LoggedFailure
    <3> QED BY <1>1, <2>1, <2>2, <3>1, RelyMoved
  <2>3. CASE Idle(c)'
    <3>1. \A y : ~At(c, y)'
      BY <2>3 DEF Idle, At
    <3> QED BY <1>1, <2>1, <3>1, RelyNot
  <2> QED BY <1>3, <2>2, <2>3 DEF FailsAt
<1>4. ASSUME NEW c \in Clients, Arrival(c) PROVE Relying'
  <2>1. Alone(c) /\ RelyOn(c)'
    BY <1>4, ArrivalFacts, RelyArrived
  <2> QED BY <1>1, <2>1
<1>5. ASSUME Passing PROVE Relying'
  BY <1>5, RelyStays DEF Passing, Relying
<1>6. ASSUME Restarts PROVE Relying'
  <2>1. \A c \in Clients : \A y : ~At(c, y)'
    BY <1>6 DEF Restarts, At, NoJob
  <2> QED BY <2>1, RelyNot DEF Relying
<1> QED BY <1>2, <1>3, <1>4, <1>5, <1>6, NextKinds

------------------------------------------------------------------------------
(* The administrators.                                                         *)

\* The administrators there are stay as they are.
AdminsKept ==
    /\ DOMAIN users \subseteq DOMAIN users'
    /\ \A u \in DOMAIN users : users'[u].admin = users[u].admin /\ users'[u].active = users[u].active
    /\ \A u \in DOMAIN users' \ DOMAIN users : users'[u].admin = FALSE

\* A step that takes no administrator away leaves enough of them, and makes none.
LEMMA AdminsStay ==
    ASSUME AdminsKept
    PROVE  /\ SomeAdmin => SomeAdmin'
           /\ \A u : Spare(u) => Spare(u)'
           /\ \A u : u \in DOMAIN users' /\ users'[u].admin => u \in DOMAIN users /\ users[u].admin
<1>1. ASSUME NEW u, u \in DOMAIN users', users'[u].admin PROVE u \in DOMAIN users /\ users[u].admin
  BY <1>1 DEF AdminsKept
<1>2. ASSUME SomeAdmin PROVE SomeAdmin'
  BY <1>2 DEF AdminsKept, SomeAdmin
<1>3. ASSUME NEW u, Spare(u) PROVE Spare(u)'
  <2>1. CASE \E a \in DOMAIN users : a # u /\ users[a].admin /\ users[a].active
    <3>1. PICK a \in DOMAIN users : a # u /\ users[a].admin /\ users[a].active
      BY <2>1
    <3>2. a \in DOMAIN users' /\ users'[a].admin /\ users'[a].active
      BY <3>1 DEF AdminsKept
    <3> QED BY <3>1, <3>2 DEF Spare
  <2>2. CASE ~(u \in DOMAIN users /\ users[u].admin)
    BY <1>1, <2>2 DEF Spare
  <2> QED BY <1>3, <2>1, <2>2 DEF Spare
<1> QED BY <1>1, <1>2, <1>3

\* A demotion or a write that overtakes a request is not forgotten.
LEMMA CalmBefore == ASSUME Grows, Calm' PROVE Calm
BY DEF Grows, Calm

\* A step that leaves the administrators there are.
LEMMA AdminQuiet ==
    ASSUME AdminInv, NEW c \in Clients, Alone(c), Grows, AdminsKept,
           Calm => \A u : Arg(c)'.id = u => CountsWell(c, u)'
    PROVE  AdminInv'
<1> SUFFICES ASSUME Calm' PROVE SomeAdmin' /\ \A d \in Clients : \A u : Arg(d)'.id = u => CountsWell(d, u)'
  BY DEF AdminInv
<1>1. Calm /\ SomeAdmin'
  BY CalmBefore, AdminsStay DEF AdminInv
<1>2. ASSUME NEW d \in Clients, d # c, NEW u, Arg(d)'.id = u PROVE CountsWell(d, u)'
  <2>1. job'[d] = job[d] /\ Arg(d)' = Arg(d) /\ (At(d, "countAdmins")' <=> At(d, "countAdmins"))
        /\ (Judged(d)' <=> Judged(d))
    BY <1>2 DEF Alone, Arg, At, Judged
  <2>2. CountsWell(d, u)
    BY <1>1, <1>2, <2>1 DEF AdminInv
  <2> QED BY <2>1, <2>2, AdminsStay DEF CountsWell
<1> QED BY <1>1, <1>2

\* A step that changes an administrator overtakes the others that count.
LEMMA AdminTouched ==
    ASSUME AdminInv, Relying, NEW c \in Clients, Alone(c), Grows, NEW rs, Touch(c, rs), Admins \in rs,
           ~At(c, "countAdmins")' /\ ~Judged(c)', Calm /\ Calm' /\ SomeAdmin => SomeAdmin'
    PROVE  AdminInv'
<1> SUFFICES ASSUME Calm' PROVE SomeAdmin' /\ \A d \in Clients : \A u : Arg(d)'.id = u => CountsWell(d, u)'
  BY DEF AdminInv
<1>1. Calm /\ SomeAdmin'
  BY CalmBefore DEF AdminInv
<1>2. ASSUME NEW d \in Clients, d # c PROVE ~Counting(d)'
  <2>1. ASSUME Counting(d) PROVE FALSE
    <3>1. Admins \in job[d].reads
      BY <2>1 DEF Relying, RelyOn
    <3>2. Admins \in raced'
      BY <1>2, <3>1 DEF Touch
    <3> QED BY <3>2 DEF Calm
  <2> QED BY <1>2, <2>1 DEF Alone, Counting, Judged, At
<1>3. ASSUME NEW d \in Clients, NEW u PROVE CountsWell(d, u)'
  BY <1>2 DEF CountsWell, Counting
<1> QED BY <1>1, <1>3

\* Steps after which a request does not count.
LEMMA CountsNot ==
    ASSUME Shape, NEW c \in Clients, NEW x, At(c, x), Proceeds(c),
           x \notin {"findUser", "countAdmins", "listSessions", "removeSessions"}
    PROVE  ~At(c, "countAdmins")' /\ ~Judged(c)'
<1>1. ASSUME Counting(c)' PROVE FALSE
  <2>1. /\ x # "findUser" /\ ~At(c, "countAdmins")'
        /\ Judged(c)' => x = "countAdmins" \/ Judged(c)
    BY <1>1, ComesToClear
  <2>2. Judged(c) /\ Judged(c)'
    BY <1>1, <2>1 DEF Counting
  <2>3. x = "setActive" \/ x = "deleteUser"
    BY <2>2 DEF Judged, At
  <2>4. PICK y \in {"setActive", "listSessions", "removeSessions", "deleteUser"} :
          At(c, y)' /\ (y = "setActive" => job'[c].op = "status" /\ ~job'[c].arg.active)
          /\ (y # "setActive" => job'[c].op = "deleteUser")
    BY <2>2 DEF Judged
  <2>5. /\ Keeps(job[c], job'[c]) /\ Leads(job[c].op, Active(job[c]), x, y)
        /\ Belongs(job[c].op, x)
    BY <2>4, Came
  <2>6. CASE y = "setActive"
    <3>1. job[c].op = "status" /\ job'[c].arg = job[c].arg
      BY <2>4, <2>5, <2>6 DEF Keeps
    <3>2. ~Active(job[c])
      BY <2>4, <2>6, <3>1 DEF Active
    <3> QED BY <2>3, <2>5, <2>6, <3>2, LeadsToUsers
  <2>7. CASE y # "setActive"
    <3>1. job[c].op = "deleteUser"
      BY <2>4, <2>5, <2>7 DEF Keeps
    <3>2. x = "deleteUser"
      BY <2>3, <2>5, <3>1 DEF Belongs
    <3> QED BY <2>4, <2>5, <2>7, <3>1, <3>2, LeadsToUsers
  <2> QED BY <2>6, <2>7
<1> QED BY <1>1 DEF Counting

\* Deactivating a user leaves the administrator that was counted.
LEMMA AdminSetActive ==
    ASSUME Shape, AdminInv, Relying, NEW c \in Clients, StepOf(c, "setActive")
    PROVE  AdminInv'
<1>0. PICK i : i = Arg(c).id
  OBVIOUS
<1>1. SetActive(c) /\ Alone(c) /\ Grows /\ At(c, "setActive") /\ Proceeds(c)
  BY DEF StepOf, Does, Effects, Named, NamedUsers, Proceeds
<1>2. ~At(c, "countAdmins")' /\ ~Judged(c)'
  BY <1>1, CountsNot
<1>3. Touch(c, {<<"user", i>>, Admins})
  BY <1>0, <1>1 DEF SetActive, Admins
<1>4. users' = [u \in DOMAIN users |->
                  IF u = i THEN [users[u] EXCEPT !.active = Arg(c).active] ELSE users[u]]
  BY <1>0, <1>1 DEF SetActive
<1>5. ASSUME Calm, SomeAdmin PROVE SomeAdmin'
  <2>1. CASE Arg(c).active
    <3>1. PICK a \in DOMAIN users : users[a].admin /\ users[a].active
      BY <1>5 DEF SomeAdmin
    <3>2. CASE a = i
      <4>1. users'[a] = [users[a] EXCEPT !.active = Arg(c).active] /\ a \in DOMAIN users'
        BY <1>4, <3>2
      <4>2. users'[a].active = Arg(c).active /\ users'[a].admin = users[a].admin
        BY <4>1 DEF Shape
      <4> QED BY <2>1, <3>1, <4>1, <4>2 DEF SomeAdmin
    <3>3. CASE a # i
      BY <1>4, <3>1, <3>3 DEF SomeAdmin
    <3> QED BY <3>2, <3>3
  <2>2. CASE ~Arg(c).active
    <3>1. job[c].op = "status"
      BY <1>1, BelongsAt DEF Belongs
    <3>2. Judged(c)
      BY <1>1, <2>2, <3>1 DEF Judged, Arg
    <3>3. Spare(i)
      BY <1>0, <1>5, <3>2 DEF AdminInv, CountsWell
    <3>4. \E a \in DOMAIN users : a # i /\ users[a].admin /\ users[a].active
      BY <1>5, <3>3 DEF Spare, SomeAdmin
    <3> QED BY <1>4, <3>4 DEF SomeAdmin
  <2> QED BY <2>1, <2>2
<1> QED BY <1>1, <1>2, <1>3, <1>5, AdminTouched

\* So does deleting one.
LEMMA AdminDeleteUser ==
    ASSUME Shape, AdminInv, Relying, NEW c \in Clients, StepOf(c, "deleteUser")
    PROVE  AdminInv'
<1>0. PICK i : i = Arg(c).id
  OBVIOUS
<1>1. DeleteUser(c) /\ Alone(c) /\ Grows /\ At(c, "deleteUser") /\ Proceeds(c)
  BY DEF StepOf, Does, Effects, Named, NamedUsers, Proceeds
<1>2. ~At(c, "countAdmins")' /\ ~Judged(c)'
  BY <1>1, CountsNot
<1>3. Touch(c, {<<"user", i>>, Admins}) /\ users' = Drop(users, {i})
  BY <1>0, <1>1 DEF DeleteUser, Admins
<1>4. ASSUME Calm, SomeAdmin PROVE SomeAdmin'
  <2>1. job[c].op = "deleteUser"
    BY <1>1, BelongsAt DEF Belongs
  <2>2. Judged(c)
    BY <1>1, <2>1 DEF Judged
  <2>3. Spare(i)
    BY <1>0, <1>4, <2>2 DEF AdminInv, CountsWell
  <2>4. \E a \in DOMAIN users : a # i /\ users[a].admin /\ users[a].active
    BY <1>4, <2>3 DEF Spare, SomeAdmin
  <2> QED BY <1>3, <2>4 DEF SomeAdmin, Drop, Keep
<1> QED BY <1>1, <1>2, <1>3, <1>4, AdminTouched

\* An administrator who is demoted is on record.
LEMMA DemotedKnown ==
    ASSUME NEW S, NEW D, Changed(S \cup D), Calm', \A x \in D : x[1] = "demoted"
    PROVE  D = {}
<1>1. \A x \in D : x \in DOMAIN changed'
  BY DEF Changed
<1> QED BY <1>1 DEF Calm

\* An update of the permissions that takes the flag away is recorded as a demotion.
LEMMA AdminSetFlags ==
    ASSUME Shape, AdminInv, Relying, NEW c \in Clients, StepOf(c, "setFlags")
    PROVE  AdminInv'
<1>0. PICK i : i = Arg(c).id
  OBVIOUS
<1>1. SetFlags(c) /\ Alone(c) /\ Grows /\ At(c, "setFlags") /\ Proceeds(c)
  BY DEF StepOf, Does, Effects, Named, NamedUsers, Proceeds
<1>2. ~At(c, "countAdmins")' /\ ~Judged(c)'
  BY <1>1, CountsNot
<1>3. /\ Touch(c, {Admins}) /\ Changed({<<"user", i>>} \cup Demoted(i, Arg(c).admin))
      /\ users' = [u \in DOMAIN users |->
                     IF u = i THEN [users[u] EXCEPT !.admin = Arg(c).admin] ELSE users[u]]
  BY <1>0, <1>1 DEF SetFlags, Admins
<1>4. ASSUME Calm', SomeAdmin PROVE SomeAdmin'
  <2>1. PICK a \in DOMAIN users : users[a].admin /\ users[a].active
    BY <1>4 DEF SomeAdmin
  <2>2. CASE a = i
    <3>1. Arg(c).admin
      <4>1. PICK D : D = Demoted(i, Arg(c).admin)
        OBVIOUS
      <4>2. \A x \in D : x[1] = "demoted"
        BY <4>1 DEF Demoted
      <4>3. D = {}
        BY <1>3, <1>4, <4>1, <4>2, DemotedKnown
      <4> QED BY <2>1, <2>2, <4>1, <4>3 DEF Demoted
    <3>2. users'[a] = [users[a] EXCEPT !.admin = Arg(c).admin] /\ a \in DOMAIN users'
      BY <1>3, <2>2
    <3>3. users'[a].admin = Arg(c).admin /\ users'[a].active = users[a].active
      BY <3>2 DEF Shape
    <3> QED BY <2>1, <3>1, <3>2, <3>3 DEF SomeAdmin
  <2>3. CASE a # i
    BY <1>3, <2>1, <2>3 DEF SomeAdmin
  <2> QED BY <2>2, <2>3
<1> QED BY <1>1, <1>2, <1>3, <1>4, AdminTouched

\* So are the roles of an external login that do.
LEMMA AdminSyncFlags ==
    ASSUME Shape, AdminInv, Relying, NEW c \in Clients, StepOf(c, "syncFlags")
    PROVE  AdminInv'
<1>1. SyncFlags(c) /\ Alone(c) /\ Grows /\ At(c, "syncFlags") /\ Proceeds(c)
  BY DEF StepOf, Does, Effects, Named, NamedUsers, Proceeds
<1>2. ~At(c, "countAdmins")' /\ ~Judged(c)'
  BY <1>1, CountsNot
<1> DEFINE i == job[c].mem.id
           admin == "admin" \in Effective(c)
<1>3. \/ UNCHANGED users
      \/ /\ i \in DOMAIN users
         /\ users' = [users EXCEPT ![i] = [@ EXCEPT !.admin = admin, !.manager = FALSE, !.system = FALSE]]
         /\ Touch(c, {Admins}) /\ Changed({<<"user", i>>} \cup Demoted(i, admin))
  BY <1>1 DEF SyncFlags, Admins
<1> HIDE DEF i, admin
<1>4. CASE UNCHANGED users
  <2>1. AdminsKept
    BY <1>4 DEF AdminsKept
  <2>2. \A u : CountsWell(c, u)'
    BY <1>2 DEF CountsWell
  <2> QED BY <1>1, <2>1, <2>2, AdminQuiet
<1>5. CASE /\ i \in DOMAIN users
           /\ users' = [users EXCEPT ![i] = [@ EXCEPT !.admin = admin, !.manager = FALSE, !.system = FALSE]]
           /\ Touch(c, {Admins}) /\ Changed({<<"user", i>>} \cup Demoted(i, admin))
  <2>1. ASSUME Calm', SomeAdmin PROVE SomeAdmin'
    <3>1. PICK a \in DOMAIN users : users[a].admin /\ users[a].active
      BY <2>1 DEF SomeAdmin
    <3>2. CASE a = i
      <4>1. admin
        <5>1. PICK D, S : D = Demoted(i, admin) /\ S = {<<"user", i>>}
          OBVIOUS
        <5>2. \A x \in D : x[1] = "demoted"
          BY <5>1 DEF Demoted
        <5>3. D = {}
          BY <1>5, <2>1, <5>1, <5>2, DemotedKnown
        <5> QED BY <3>1, <3>2, <5>1, <5>3 DEF Demoted
      <4>2. users'[a].admin = admin /\ users'[a].active = users[a].active /\ a \in DOMAIN users'
        BY <1>5, <3>1, <3>2 DEF Shape
      <4> QED BY <3>1, <4>1, <4>2 DEF SomeAdmin
    <3>3. CASE a # i
      BY <1>5, <3>1, <3>3 DEF SomeAdmin
    <3> QED BY <3>2, <3>3
  <2> QED BY <1>1, <1>2, <1>5, <2>1, AdminTouched
<1> QED BY <1>3, <1>4, <1>5

\* Any other step leaves the administrators, and what it counts is right.
LEMMA AdminOther ==
    ASSUME Shape, AdminInv, NEW c \in Clients, NEW x, StepOf(c, x),
           x \notin {"setActive", "deleteUser", "setFlags", "syncFlags"}
    PROVE  AdminInv'
<1>1. Alone(c) /\ Grows /\ At(c, x) /\ Proceeds(c) /\ Named(c, x) /\ (x \notin UserSteps => users' = users)
  BY DEF StepOf, Does, Effects, Proceeds
<1>2. AdminsKept
  BY DEF StepOf, RowsKept, AdminsKept
<1>3. ASSUME Calm, NEW u, Arg(c)'.id = u PROVE CountsWell(c, u)'
  <2>1. CASE ~Counting(c)'
    BY <2>1 DEF CountsWell, Counting
  <2>2. CASE Counting(c)'
    <3>1. x = "findUser" => FindUser(c)
      BY <1>1 DEF Named, NamedUsers
    <3>2. Arg(c).id = u
      BY <1>1, <1>3, <2>2, <3>1, ComesToClear DEF Arg
    <3>3. CASE x = "findUser"
      <4>1. /\ At(c, "countAdmins")' /\ u \in DOMAIN users /\ users' = users
            /\ job'[c].mem = RowOf(u)
        BY <1>1, <2>2, <3>1, <3>2, <3>3, ComesToClear DEF UserSteps
      <4>2. ~Judged(c)'
        BY <4>1 DEF Judged, At
      <4>3. job'[c].mem.admin = users'[u].admin
        BY <4>1, RowIs
      <4> QED BY <4>2, <4>3 DEF CountsWell
    <3>4. CASE x # "findUser"
      <4>1. ~At(c, "countAdmins")' /\ (Judged(c)' => x = "countAdmins" \/ Judged(c))
        BY <1>1, <2>2, <3>1, <3>4, ComesToClear
      <4>2. ASSUME Judged(c) PROVE Spare(u)'
        <5>1. Spare(u)
          BY <1>3, <3>2, <4>2 DEF AdminInv, CountsWell
        <5> QED BY <1>2, <5>1, AdminsStay
      <4>3. ASSUME x = "countAdmins" PROVE Spare(u)'
        <5>1. CountAdmins(c) /\ ~Idle(c)'
          BY <1>1, <2>2, <4>3 DEF Named, NamedUsers, Counting, Judged, At, Idle
        <5>2. ~job[c].mem.admin \/ OtherAdmins(Arg(c).id) # {}
          <6>1. ~Reply(c, 409)
            BY <5>1, Replies DEF Shape
          <6> QED BY <5>1, <6>1 DEF CountAdmins, AdvanceOr
        <5>3. u \in DOMAIN users /\ users[u].admin => job[c].mem.admin
          BY <1>1, <1>3, <3>2, <4>3 DEF AdminInv, CountsWell
        <5>4. OtherAdmins(u) # {} => \E a \in DOMAIN users : a # u /\ users[a].admin /\ users[a].active
          BY DEF OtherAdmins
        <5>5. Spare(u)
          BY <3>2, <5>2, <5>3, <5>4 DEF Spare
        <5> QED BY <1>2, <5>5, AdminsStay
      <4> QED BY <4>1, <4>2, <4>3 DEF CountsWell
    <3> QED BY <3>3, <3>4
  <2> QED BY <2>1, <2>2
<1> QED BY <1>1, <1>2, <1>3, AdminQuiet

\* Root is an active administrator at first.
LEMMA AdminInitial == ASSUME Init PROVE AdminInv
<1>1. \A c \in Clients : \A y : ~At(c, y)
  BY DEF Init, AccountsInit, At, NoJob
<1>2. 1 \in DOMAIN users /\ users[1] = Root
  BY DEF Init, AccountsInit
<1>3. Root.admin /\ Root.active
  BY DEF Root, NewRow
<1> QED BY <1>1, <1>2, <1>3 DEF AdminInv, SomeAdmin, CountsWell, Judged

\* Every step keeps the invariant of the administrators.
LEMMA AdminKept == ASSUME Shape, AdminInv, Relying, [Next]_vars PROVE AdminInv'
<1>1. ASSUME NEW c \in Clients, NEW x, StepOf(c, x) PROVE AdminInv'
  BY <1>1, AdminSetActive, AdminDeleteUser, AdminSetFlags, AdminSyncFlags, AdminOther
<1>2. ASSUME users' = users PROVE AdminsKept
  BY <1>2 DEF AdminsKept
<1>3. ASSUME NEW c \in Clients, FailsAt(c) PROVE AdminInv'
  <2>1. Alone(c) /\ Grows /\ Proceeds(c) /\ users' = users
    BY <1>3 DEF FailsAt, SameTables, Proceeds
  <2>2. ~At(c, "countAdmins")' /\ ~Judged(c)'
    <3>1. CASE LoggedFailure(c)
      <4>1. PICK x \in {"forget", "applyRoles", "syncFlags", "ssoRoles"} : At(c, x)
        BY <3>1 DEF LoggedFailure
      <4> QED BY <2>1, <4>1, CountsNot
    <3>2. CASE Idle(c)'
      BY <3>2 DEF Idle, At, Judged
    <3> QED BY <1>3, <3>1, <3>2 DEF FailsAt
  <2>3. \A u : CountsWell(c, u)'
    BY <2>2 DEF CountsWell
  <2> QED BY <1>2, <2>1, <2>3, AdminQuiet
<1>4. ASSUME NEW c \in Clients, Arrival(c) PROVE AdminInv'
  <2>1. /\ Alone(c) /\ users' = users /\ Grows
    BY <1>4, ArrivalFacts DEF Grows
  <2>2. \A u : CountsWell(c, u)'
    BY <1>4, RelyArrived DEF CountsWell
  <2> QED BY <1>2, <2>1, <2>2, AdminQuiet
<1>5. ASSUME Passing PROVE AdminInv'
  BY <1>5 DEF Passing, Stands, AdminInv, Calm, SomeAdmin, CountsWell, Judged, Spare, At, Arg
<1>6. ASSUME Restarts PROVE AdminInv'
  <2>1. \A c \in Clients : \A y : ~At(c, y)'
    BY <1>6 DEF Restarts, At, NoJob
  <2>2. users' = users /\ raced' = raced /\ changed' = changed
    BY <1>6 DEF Restarts, Stands
  <2> QED BY <2>1, <2>2 DEF AdminInv, Calm, SomeAdmin, CountsWell, Judged
<1> QED BY <1>1, <1>3, <1>4, <1>5, <1>6, NextKinds

\* There is always an active administrator (AdminRemains), unless one was demoted or two
\* requests counted at once: whoever is about to deactivate or delete a user has seen another
\* active administrator, who is there until the write, or a user who is none.
THEOREM AdministratorsRemain == Spec => []AdminRemains
<1>1. Init => Shape /\ Relying /\ AdminInv
  BY ShapeInitial, RelyingInitial, AdminInitial
<1>2. Shape /\ Relying /\ AdminInv /\ [Next]_vars => Shape' /\ Relying' /\ AdminInv'
  BY ShapeKept, RelyingKept, AdminKept
<1>3. AdminInv => AdminRemains
  BY DEF AdminInv, AdminRemains, Calm, SomeAdmin, Admins
<1> QED BY <1>1, <1>2, <1>3, PTL DEF Spec

------------------------------------------------------------------------------
(* The sessions.                                                               *)

\* The other requests that have read user u are overtaken.
Overtaken(c, u) == \A d \in Clients \ {c} : <<"user", u>> \in job[d].reads => Excused(u)'

\* What was overtaken or broken off stays so.
LEMMA ExcusedStays == ASSUME NEW u, Excused(u), Grows PROVE Excused(u)'
BY DEF Excused, Grows

\* A write of the user overtakes them.
LEMMA TouchOvertakes ==
    ASSUME NEW c \in Clients, NEW u, NEW rs, <<"user", u>> \in rs, Touch(c, rs)
    PROVE  Overtaken(c, u)
BY DEF Touch, Overtaken, Excused

\* What the other requests know of a user stays true, or they are overtaken.
LEMMA OthersKeep ==
    ASSUME SessionInv, Relying, NEW c \in Clients, Alone(c), Grows,
           \A u : Overtaken(c, u) \/ (~Gone(u) => ~Gone(u)'),
           \A u : Overtaken(c, u) \/ SessionsOf(u)' \subseteq SessionsOf(u),
           NEW d \in Clients, d # c, NEW u
    PROVE  Clears(d, u)' /\ Admitted(d, u)'
<1>1. /\ job'[d] = job[d] /\ Arg(d)' = Arg(d) /\ (\A y : At(d, y)' <=> At(d, y))
      /\ (SigningIn(d)' <=> SigningIn(d))
  BY DEF Alone, Arg, At, SigningIn
<1>2. Clears(d, u) /\ Admitted(d, u) /\ RelyOn(d)
  BY DEF SessionInv, Relying
<1>3. Excused(u) => Excused(u)'
  BY ExcusedStays
<1>4. ASSUME job[d].op = "deleteUser", Arg(d).id = u, ~Excused(u)',
             At(d, "removeSessions") \/ At(d, "deleteUser")
      PROVE  SessionsOf(u)' \subseteq SessionsOf(u)
  <2>1. <<"user", u>> \in job[d].reads
    BY <1>2, <1>4 DEF RelyOn, Clearing
  <2>2. ~Overtaken(c, u)
    BY <1>4, <2>1 DEF Overtaken
  <2> QED BY <2>2
<1>5. ASSUME SigningIn(d), job[d].mem.id = u, ~Excused(u)' PROVE ~Gone(u)'
  <2>1. <<"user", u>> \in job[d].reads
    BY <1>2, <1>5 DEF RelyOn
  <2>2. ~Overtaken(c, u)
    BY <1>5, <2>1 DEF Overtaken
  <2> QED BY <1>2, <1>3, <1>5, <2>2 DEF Admitted
<1>6. Clears(d, u)'
  <2>1. ASSUME job[d].op = "deleteUser", Arg(d).id = u, ~Excused(u)', At(d, "removeSessions")
        PROVE  SessionsOf(u)' \subseteq job[d].mem.found
    BY <1>2, <1>3, <1>4, <2>1 DEF Clears
  <2>2. ASSUME job[d].op = "deleteUser", Arg(d).id = u, ~Excused(u)', At(d, "deleteUser")
        PROVE  SessionsOf(u)' = {}
    BY <1>2, <1>3, <1>4, <2>2 DEF Clears
  <2> QED BY <1>1, <2>1, <2>2 DEF Clears
<1>7. Admitted(d, u)'
  BY <1>1, <1>5 DEF Admitted
<1> QED BY <1>6, <1>7

\* A session that was there is followed, unless its user is gone now or the request that was
\* about to remove it moved on.
LEMMA StillFollowed ==
    ASSUME SessionInv, NEW c \in Clients, Alone(c), Grows, NEW s \in DOMAIN sessions, NEW u,
           sessions[s].user = u, sessions'[s].user = u, ~Gone(u) => ~Gone(u)',
           Ending(c, s) => Ending(c, s)' \/ Excused(u)'
    PROVE  Followed(s, u)'
<1>1. Followed(s, u)
  BY DEF SessionInv
<1>2. Excused(u) => Excused(u)'
  BY ExcusedStays
<1>3. ASSUME NEW d \in Clients, d # c, Ending(d, s) PROVE Ending(d, s)'
  BY <1>3 DEF Alone, Ending, Arg, At
<1> QED BY <1>1, <1>2, <1>3 DEF Followed

\* The sessions that were there, as far as they are left.
LEMMA SessionsLeft ==
    ASSUME sessions' = sessions \/ \E S : sessions' = Drop(sessions, S)
    PROVE  /\ \A s \in DOMAIN sessions' : s \in DOMAIN sessions /\ sessions'[s] = sessions[s]
           /\ \A u : SessionsOf(u)' \subseteq SessionsOf(u)
BY DEF Drop, Keep, SessionsOf

\* A step that opens no session and leaves every user as active as he was.
LEMMA SessionQuiet ==
    ASSUME SessionInv, Relying, NEW c \in Clients, Alone(c), Grows,
           sessions' = sessions \/ \E S : sessions' = Drop(sessions, S),
           \A u : ~Gone(u) => ~Gone(u)',
           \A s \in DOMAIN sessions' : Ending(c, s) => Ending(c, s)' \/ Excused(sessions[s].user)',
           \A u : Clears(c, u)' /\ Admitted(c, u)'
    PROVE  SessionInv'
<1>1. /\ \A s \in DOMAIN sessions' : s \in DOMAIN sessions /\ sessions'[s] = sessions[s]
      /\ \A u : SessionsOf(u)' \subseteq SessionsOf(u)
  BY SessionsLeft
<1>2. ASSUME NEW s \in DOMAIN sessions' PROVE Followed(s, sessions[s].user)'
  <2>1. PICK u : u = sessions[s].user
    OBVIOUS
  <2>2. s \in DOMAIN sessions /\ sessions'[s].user = u /\ sessions'[s] = sessions[s]
    BY <1>1, <1>2, <2>1
  <2>3. Ending(c, s) => Ending(c, s)' \/ Excused(u)'
    BY <1>2, <2>1, <2>2 DEF Excused
  <2>4. Followed(s, u)'
    BY <2>1, <2>2, <2>3, StillFollowed
  <2> QED BY <2>1, <2>2, <2>4 DEF Followed, Gone, Excused
<1>3. ASSUME NEW d \in Clients, d # c, NEW u PROVE Clears(d, u)' /\ Admitted(d, u)'
  BY <1>1, <1>3, OthersKeep
<1>4. \A d \in Clients : \A u : Clears(d, u)' /\ Admitted(d, u)'
  BY <1>3
<1> QED BY <1>2, <1>4 DEF SessionInv

\* Where a request does not remove sessions it clears nothing.
LEMMA ClearsNot ==
    ASSUME Shape, NEW c \in Clients, NEW x, At(c, x), Proceeds(c), x \notin {"listSessions", "removeSessions"}
    PROVE  (\A u : Clears(c, u)') /\ (\A s : ~Ending(c, s))
<1>1. ASSUME NEW y \in {"removeSessions", "deleteUser"}, At(c, y)', job'[c].op = "deleteUser" PROVE FALSE
  <2>1. /\ Leads(job[c].op, Active(job[c]), x, y) /\ job[c].op = "deleteUser"
        /\ Belongs(job[c].op, x)
    BY <1>1, Came DEF Keeps
  <2>2. x = "cleanList"
    BY <2>1, LeadsToUsers
  <2> QED BY <2>1, <2>2 DEF Belongs
<1>2. \A s : ~Ending(c, s)
  BY DEF Ending, At
<1> QED BY <1>1, <1>2 DEF Clears

\* Whoever is being signed in is active, or the request was overtaken.
LEMMA AdmittedMoves ==
    ASSUME Shape, SessionInv, NEW c \in Clients, NEW x, StepOf(c, x),
           x \in {"applyRoles", "syncFlags"} => \A u : ~Gone(u) => ~Gone(u)'
    PROVE  \A u : Admitted(c, u)'
<1> TAKE u
<1>1. Grows
  BY DEF StepOf, Does, Effects
<1>2. ASSUME SigningIn(c)', job'[c].mem.id = u PROVE ~Gone(u)' \/ Excused(u)'
  <2>1. CASE ~Gone(job[c].mem.id)'
    BY <1>2, <2>1 DEF Gone
  <2>2. CASE x \in {"applyRoles", "syncFlags"} /\ SigningIn(c) /\ job'[c].mem = job[c].mem
    <3>1. ~Gone(u) \/ Excused(u)
      BY <1>2, <2>2 DEF SessionInv, Admitted
    <3> QED BY <1>1, <2>2, <3>1, ExcusedStays
  <2> QED BY <1>2, <2>1, <2>2, SignsIn
<1> QED BY <1>2 DEF Admitted

\* A session is opened for a user that was active when read; opening it overtakes every
\* request that relies on having listed his sessions.
LEMMA SessionCreated ==
    ASSUME Shape, SessionInv, Relying, NEW c \in Clients, StepOf(c, "createSession")
    PROVE  SessionInv'
<1>0. PICK w, n : w = job[c].mem.id /\ n = NewId
  OBVIOUS
<1>1. CreateSession(c) /\ Alone(c) /\ Grows /\ At(c, "createSession") /\ Proceeds(c) /\ users' = users
  BY DEF StepOf, Does, Effects, Named, NamedSessions, Proceeds, UserSteps
<1>2. /\ sessions' = Put(sessions, n, [user |-> w, expires |-> now + SessionLife])
      /\ Touch(c, {<<"user", w>>})
  BY <1>0, <1>1 DEF CreateSession
<1>3. \A u : Gone(u)' <=> Gone(u)
  BY <1>1 DEF Gone
<1>4. ~Gone(w) \/ Excused(w)
  BY <1>0, <1>1 DEF SessionInv, Admitted, SigningIn
<1>5. Overtaken(c, w)
  BY <1>2, TouchOvertakes
<1>6. /\ n \in DOMAIN sessions' /\ sessions'[n].user = w
      /\ \A s \in DOMAIN sessions' \ {n} : s \in DOMAIN sessions /\ sessions'[s] = sessions[s]
  BY <1>2 DEF Put
<1>7. \A u : u # w => SessionsOf(u)' \subseteq SessionsOf(u)
  BY <1>6 DEF SessionsOf
<1>8. (\A u : Clears(c, u)') /\ (\A s : ~Ending(c, s))
  BY <1>1, ClearsNot
<1>9. ASSUME NEW s \in DOMAIN sessions' PROVE Followed(s, sessions[s].user)'
  <2>1. CASE s = n
    BY <1>1, <1>3, <1>4, <1>6, <2>1, ExcusedStays DEF Followed, Gone, Excused
  <2>2. CASE s # n
    <3>1. PICK u : u = sessions[s].user
      OBVIOUS
    <3>2. s \in DOMAIN sessions /\ sessions'[s].user = u
      BY <1>6, <1>9, <2>2, <3>1
    <3>3. Followed(s, u)'
      BY <1>1, <1>3, <1>8, <3>1, <3>2, StillFollowed
    <3> QED BY <3>2, <3>3 DEF Followed, Gone, Excused
  <2> QED BY <2>1, <2>2
<1>10. ASSUME NEW d \in Clients, d # c, NEW u PROVE Clears(d, u)' /\ Admitted(d, u)'
  <2>1. \A v : Overtaken(c, v) \/ SessionsOf(v)' \subseteq SessionsOf(v)
    BY <1>5, <1>7
  <2> QED BY <1>1, <1>3, <1>10, <2>1, OthersKeep
<1>11. \A u : Admitted(c, u)'
  BY AdmittedMoves
<1>12. \A d \in Clients : \A u : Clears(d, u)' /\ Admitted(d, u)'
  BY <1>8, <1>10, <1>11
<1> QED BY <1>9, <1>12 DEF SessionInv

\* Listing the sessions of a user finds all that must be removed.
LEMMA SessionListed ==
    ASSUME Shape, SessionInv, Relying, NEW c \in Clients, StepOf(c, "listSessions")
    PROVE  SessionInv'
<1>0. PICK i : i = Arg(c).id
  OBVIOUS
<1>1. /\ ListSessions(c) /\ Alone(c) /\ Grows /\ At(c, "listSessions") /\ Proceeds(c)
      /\ users' = users /\ sessions' = sessions
  BY DEF StepOf, Does, Effects, Named, NamedSessions, Proceeds, UserSteps
<1>2. job[c].op \in {"status", "deleteUser"}
  BY <1>1, BelongsAt DEF Belongs
<1>3. PICK p, m : /\ p = IF SessionsOf(i) = {} THEN Tail(Rest(c)) ELSE Rest(c)
                  /\ m = [found |-> SessionsOf(i)]
                  /\ job' = [job EXCEPT ![c].plan = p, ![c].mem = m]
  BY <1>0, <1>1 DEF ListSessions
<1>4. job'[c].plan = p /\ job'[c].mem.found = SessionsOf(i) /\ job'[c].arg = job[c].arg
      /\ job'[c].op = job[c].op
  <2>1. OnTo(c, p) /\ job'[c].mem = m /\ job'[c].arg = job[c].arg
    <3>1. job' = [job EXCEPT ![c].plan = p, ![c].mem = m]
      BY <1>3
    <3>2. JobShape
      BY DEF Shape
    <3> QED BY <3>1, <3>2, Goes2
  <2>2. m.found = SessionsOf(i)
    BY <1>3
  <2> QED BY <2>1, <2>2 DEF OnTo, Keeps
<1>5. Arg(c)' = Arg(c) /\ \A u : SessionsOf(u)' = SessionsOf(u) /\ (Gone(u)' <=> Gone(u))
  BY <1>1, <1>4 DEF Arg, SessionsOf, Gone
<1>6. Rest(c) # <<>> /\ Head(Rest(c)) = "removeSessions"
  BY <1>1, GoesOn
<1>7. ASSUME NEW s \in DOMAIN sessions', Ending(c, s) PROVE Ending(c, s)'
  <2>1. s \in SessionsOf(i) /\ job[c].op = "status" /\ sessions[s].user = i
    BY <1>0, <1>1, <1>7 DEF Ending, SessionsOf
  <2>2. At(c, "removeSessions")'
    BY <1>3, <1>4, <1>6, <2>1 DEF At
  <2> QED BY <1>0, <1>1, <1>4, <1>5, <2>1, <2>2 DEF Ending
<1>8. ASSUME NEW u PROVE Clears(c, u)'
  <2>1. ASSUME Arg(c)'.id = u, At(c, "removeSessions")' PROVE SessionsOf(u)' \subseteq job'[c].mem.found
    BY <1>0, <1>4, <1>5, <2>1
  <2>2. ASSUME Arg(c)'.id = u, At(c, "deleteUser")' PROVE SessionsOf(u)' = {}
    <3>1. job'[c].plan # Rest(c)
      BY <1>6, <2>2 DEF At
    <3> QED BY <1>0, <1>3, <1>4, <1>5, <2>2, <3>1
  <2> QED BY <2>1, <2>2 DEF Clears
<1>9. \A u : Admitted(c, u)'
  BY AdmittedMoves
<1>10. \A u : Clears(c, u)' /\ Admitted(c, u)'
  BY <1>8, <1>9
<1>11. \A s \in DOMAIN sessions' : Ending(c, s) => Ending(c, s)' \/ Excused(sessions[s].user)'
  BY <1>7
<1>12. \A u : ~Gone(u) => ~Gone(u)'
  BY <1>5
<1> QED BY <1>1, <1>10, <1>11, <1>12, SessionQuiet

\* Removing them leaves none, unless the request was overtaken.
LEMMA SessionRemoved ==
    ASSUME Shape, SessionInv, Relying, NEW c \in Clients, StepOf(c, "removeSessions")
    PROVE  SessionInv'
<1>0. PICK F : F = job[c].mem.found
  OBVIOUS
<1>1. /\ RemoveSessions(c) /\ Alone(c) /\ Grows /\ At(c, "removeSessions") /\ Proceeds(c)
      /\ users' = users
  BY DEF StepOf, Does, Effects, Named, NamedSessions, Proceeds, UserSteps
<1>2. sessions' = Drop(sessions, F)
  BY <1>0, <1>1 DEF RemoveSessions
<1>3. \A s \in DOMAIN sessions' : s \in DOMAIN sessions /\ s \notin F /\ sessions'[s] = sessions[s]
  BY <1>2 DEF Drop, Keep
<1>4. \A s \in DOMAIN sessions' : ~Ending(c, s)
  BY <1>0, <1>1, <1>3 DEF Ending, At
<1>5. ASSUME NEW u PROVE Clears(c, u)'
  <2>1. ASSUME job'[c].op = "deleteUser", Arg(c)'.id = u, ~Excused(u)'
        PROVE  /\ ~At(c, "removeSessions")'
               /\ At(c, "deleteUser")' => SessionsOf(u)' = {}
    <3>1. ASSUME At(c, "removeSessions")' PROVE FALSE
      <4>1. Leads(job[c].op, Active(job[c]), "removeSessions", "removeSessions")
        BY <1>1, <3>1, Came
      <4> QED BY <4>1, LeadsToUsers
    <3>2. ASSUME At(c, "deleteUser")' PROVE SessionsOf(u)' = {}
      <4>1. Keeps(job[c], job'[c])
        BY <1>1, <3>2, Came
      <4>2. job[c].op = "deleteUser" /\ Arg(c).id = u
        BY <2>1, <4>1 DEF Keeps, Arg
      <4>3. ~Excused(u)
        BY <1>1, <2>1, ExcusedStays
      <4>4. SessionsOf(u) \subseteq F
        BY <1>0, <1>1, <4>2, <4>3 DEF SessionInv, Clears
      <4> QED BY <1>3, <4>4 DEF SessionsOf
    <3> QED BY <3>1, <3>2
  <2> QED BY <2>1 DEF Clears
<1>6. \A u : Admitted(c, u)'
  BY AdmittedMoves
<1>7. \A u : Clears(c, u)' /\ Admitted(c, u)'
  BY <1>5, <1>6
<1>8. \A u : ~Gone(u) => ~Gone(u)'
  BY <1>1 DEF Gone
<1>9. \A s \in DOMAIN sessions' : Ending(c, s) => Ending(c, s)' \/ Excused(sessions[s].user)'
  BY <1>4
<1>10. \E S : sessions' = Drop(sessions, S)
  BY <1>2
<1> QED BY <1>1, <1>7, <1>8, <1>9, <1>10, SessionQuiet

\* Logging out removes a session.
LEMMA SessionDropped ==
    ASSUME Shape, SessionInv, Relying, NEW c \in Clients, StepOf(c, "deleteSession")
    PROVE  SessionInv'
<1>1. /\ DeleteSession(c) /\ Alone(c) /\ Grows /\ At(c, "deleteSession") /\ Proceeds(c)
      /\ users' = users
  BY DEF StepOf, Does, Effects, Named, NamedSessions, Proceeds, UserSteps
<1>2. \E S : sessions' = Drop(sessions, S)
  BY <1>1 DEF DeleteSession
<1>3. (\A u : Clears(c, u)') /\ (\A s : ~Ending(c, s))
  BY <1>1, ClearsNot
<1>4. \A u : Admitted(c, u)'
  BY AdmittedMoves
<1>5. \A u : Clears(c, u)' /\ Admitted(c, u)'
  BY <1>3, <1>4
<1>6. \A u : ~Gone(u) => ~Gone(u)'
  BY <1>1 DEF Gone
<1> QED BY <1>1, <1>2, <1>3, <1>5, <1>6, SessionQuiet

\* A step that changes the status of a user, or deletes him.
LEMMA SessionTouched ==
    ASSUME Shape, SessionInv, Relying, NEW c \in Clients, NEW x \in {"setActive", "deleteUser"},
           StepOf(c, x), NEW i, Overtaken(c, i), \A u : u # i /\ ~Gone(u) => ~Gone(u)',
           \A s \in DOMAIN sessions : sessions[s].user = i => Followed(s, i)'
    PROVE  SessionInv'
<1>1. Alone(c) /\ Grows /\ At(c, x) /\ Proceeds(c) /\ sessions' = sessions
  BY DEF StepOf, Does, Effects, Proceeds
<1>2. (\A u : Clears(c, u)') /\ (\A s : ~Ending(c, s))
  BY <1>1, ClearsNot
<1>3. \A u : Admitted(c, u)'
  BY AdmittedMoves
<1>4. ASSUME NEW d \in Clients, d # c, NEW u PROVE Clears(d, u)' /\ Admitted(d, u)'
  <2>1. \A v : SessionsOf(v)' \subseteq SessionsOf(v)
    BY <1>1 DEF SessionsOf
  <2>2. \A v : Overtaken(c, v) \/ (~Gone(v) => ~Gone(v)')
    OBVIOUS
  <2> QED BY <1>1, <1>4, <2>1, <2>2, OthersKeep
<1>5. ASSUME NEW s \in DOMAIN sessions' PROVE Followed(s, sessions[s].user)'
  <2>1. PICK u : u = sessions[s].user
    OBVIOUS
  <2>2. s \in DOMAIN sessions /\ sessions'[s].user = u
    BY <1>1, <1>5, <2>1
  <2>3. Followed(s, u)'
    <3>1. CASE u = i
      BY <2>1, <2>2, <3>1
    <3>2. CASE u # i
      BY <1>1, <1>2, <2>1, <2>2, <3>2, StillFollowed
    <3> QED BY <3>1, <3>2
  <2> QED BY <2>2, <2>3 DEF Followed, Gone, Excused
<1>6. \A d \in Clients : \A u : Clears(d, u)' /\ Admitted(d, u)'
  BY <1>2, <1>3, <1>4
<1> QED BY <1>5, <1>6 DEF SessionInv

\* A request that deactivates a user goes on to list his sessions.
LEMMA SessionSetActive ==
    ASSUME Shape, SessionInv, Relying, NEW c \in Clients, StepOf(c, "setActive")
    PROVE  SessionInv'
<1>0. PICK i : i = Arg(c).id
  OBVIOUS
<1>1. /\ SetActive(c) /\ Alone(c) /\ Grows /\ At(c, "setActive") /\ Proceeds(c)
      /\ sessions' = sessions
  BY DEF StepOf, Does, Effects, Named, NamedUsers, Proceeds
<1>2. /\ users' = [u \in DOMAIN users |->
                     IF u = i THEN [users[u] EXCEPT !.active = Arg(c).active] ELSE users[u]]
      /\ Touch(c, {<<"user", i>>, <<"admins", 0>>})
  BY <1>0, <1>1 DEF SetActive
<1>3. Overtaken(c, i)
  <2>1. PICK rs : rs = {<<"user", i>>, <<"admins", 0>>}
    OBVIOUS
  <2>2. <<"user", i>> \in rs /\ Touch(c, rs)
    BY <1>2, <2>1
  <2> QED BY <2>2, TouchOvertakes
<1>4. \A u : u # i /\ ~Gone(u) => ~Gone(u)'
  BY <1>2 DEF Gone
<1>5. job[c].op = "status"
  BY <1>1, BelongsAt DEF Belongs
<1>6. ASSUME NEW s \in DOMAIN sessions, sessions[s].user = i PROVE Followed(s, i)'
  <2>1. CASE Arg(c).active
    <3>1. ~Gone(i) => ~Gone(i)'
      <4>1. ASSUME ~Gone(i) PROVE ~Gone(i)'
        <5>1. i \in DOMAIN users /\ i \in DOMAIN users'
          BY <1>2, <4>1 DEF Gone
        <5>2. users'[i] = [users[i] EXCEPT !.active = Arg(c).active]
          BY <1>2, <5>1
        <5>3. users'[i].active = Arg(c).active
          BY <5>1, <5>2 DEF Shape
        <5> QED BY <2>1, <5>1, <5>3 DEF Gone
      <4> QED BY <4>1
    <3>2. ~Ending(c, s)
      BY <1>1 DEF Ending, At
    <3> QED BY <1>1, <1>6, <3>1, <3>2, StillFollowed
  <2>2. CASE ~Arg(c).active
    <3>1. Rest(c) # <<>> /\ Head(Rest(c)) = "listSessions"
      <4>1. ~Active(job[c])
        BY <1>5, <2>2 DEF Active, Arg
      <4> QED BY <1>1, <4>1, GoesOn
    <3>2. Advance(c)
      BY <1>1, <3>1 DEF SetActive, AdvanceOr
    <3>3. job'[c].plan = Rest(c) /\ job'[c].arg = job[c].arg /\ job'[c].op = job[c].op
      BY <3>2, Goes1 DEF Advance, OnTo, Keeps, Shape
    <3>4. At(c, "listSessions")' /\ Arg(c)' = Arg(c)
      BY <3>1, <3>3 DEF At, Arg
    <3>5. Ending(c, s)'
      BY <1>0, <1>1, <1>5, <1>6, <3>3, <3>4 DEF Ending
    <3> QED BY <3>5 DEF Followed
  <2> QED BY <2>1, <2>2
<1> QED BY <1>3, <1>4, <1>6, SessionTouched

\* A request that deletes a user has removed his sessions.
LEMMA SessionUserDeleted ==
    ASSUME Shape, SessionInv, Relying, NEW c \in Clients, StepOf(c, "deleteUser")
    PROVE  SessionInv'
<1>0. PICK i : i = Arg(c).id
  OBVIOUS
<1>1. /\ DeleteUser(c) /\ Alone(c) /\ Grows /\ At(c, "deleteUser") /\ Proceeds(c)
      /\ sessions' = sessions
  BY DEF StepOf, Does, Effects, Named, NamedUsers, Proceeds
<1>2. users' = Drop(users, {i}) /\ Touch(c, {<<"user", i>>, <<"admins", 0>>})
  BY <1>0, <1>1 DEF DeleteUser
<1>3. Overtaken(c, i)
  <2>1. PICK rs : rs = {<<"user", i>>, <<"admins", 0>>}
    OBVIOUS
  <2>2. <<"user", i>> \in rs /\ Touch(c, rs)
    BY <1>2, <2>1
  <2> QED BY <2>2, TouchOvertakes
<1>4. \A u : u # i /\ ~Gone(u) => ~Gone(u)'
  BY <1>2 DEF Gone, Drop, Keep
<1>5. ASSUME NEW s \in DOMAIN sessions, sessions[s].user = i PROVE Followed(s, i)'
  <2>1. job[c].op = "deleteUser"
    BY <1>1, BelongsAt DEF Belongs
  <2>2. Excused(i) \/ SessionsOf(i) = {}
    BY <1>0, <1>1, <2>1 DEF SessionInv, Clears
  <2>3. Excused(i)
    BY <1>5, <2>2 DEF SessionsOf
  <2> QED BY <1>1, <2>3, ExcusedStays DEF Followed
<1> QED BY <1>3, <1>4, <1>5, SessionTouched

\* Any other step leaves the sessions, and every user as active as he was.
LEMMA SessionOther ==
    ASSUME Shape, SessionInv, Relying, NEW c \in Clients, NEW x, StepOf(c, x),
           x \notin {"createSession", "deleteSession", "listSessions", "removeSessions", "setActive",
                     "deleteUser"}
    PROVE  SessionInv'
<1>1. Alone(c) /\ Grows /\ At(c, x) /\ Proceeds(c) /\ sessions' = sessions
  BY DEF StepOf, Does, Effects, Proceeds
<1>2. \A u : ~Gone(u) => ~Gone(u)'
  BY DEF StepOf, RowsKept, Gone
<1>3. (\A u : Clears(c, u)') /\ (\A s : ~Ending(c, s))
  BY <1>1, ClearsNot
<1>4. \A u : Admitted(c, u)'
  BY <1>2, AdmittedMoves
<1>5. \A u : Clears(c, u)' /\ Admitted(c, u)'
  BY <1>3, <1>4
<1> QED BY <1>1, <1>2, <1>3, <1>5, SessionQuiet

\* At first the sessions belong to active users.
LEMMA SessionInitial == ASSUME Init PROVE SessionInv
<1>1. \A c \in Clients : \A y : ~At(c, y)
  BY DEF Init, AccountsInit, At, NoJob
<1>2. DOMAIN users = {1, 2} /\ users[1].active /\ users[2].active
  <2>1. PICK admin \in BOOLEAN : \E A :
               users = [u \in {1, 2} |-> IF u = 1 THEN Root
                                         ELSE [Ann EXCEPT !.admin = admin, !.defaults = A]]
    BY DEF Init, AccountsInit
  <2>2. PICK A : users = [u \in {1, 2} |-> IF u = 1 THEN Root
                                          ELSE [Ann EXCEPT !.admin = admin, !.defaults = A]]
    BY <2>1
  <2>3. users[1] = Root /\ users[2] = [Ann EXCEPT !.admin = admin, !.defaults = A]
    BY <2>2
  <2>4. Root.active /\ Ann.active /\ "active" \in DOMAIN Ann
    BY DEF Root, Ann, NewRow
  <2>5. users[2].active
    BY <2>3, <2>4
  <2> QED BY <2>2, <2>3, <2>4, <2>5
<1>3. DOMAIN sessions = {1, 2} /\ sessions[1].user = 1 /\ sessions[2].user = 2
  BY DEF Init, AccountsInit
<1>4. \A s \in DOMAIN sessions : Followed(s, sessions[s].user)
  BY <1>2, <1>3 DEF Followed, Gone
<1> QED BY <1>1, <1>4 DEF SessionInv, Clears, Admitted, SigningIn

\* Every step keeps the invariant of the sessions.
LEMMA SessionsKept == ASSUME Shape, SessionInv, Relying, [Next]_vars PROVE SessionInv'
<1>1. ASSUME NEW c \in Clients, NEW x, StepOf(c, x) PROVE SessionInv'
  BY <1>1, SessionCreated, SessionDropped, SessionListed, SessionRemoved, SessionSetActive,
     SessionUserDeleted, SessionOther
<1>2. ASSUME users' = users PROVE \A u : ~Gone(u) => ~Gone(u)'
  BY <1>2 DEF Gone
<1>3. ASSUME NEW c \in Clients, FailsAt(c) PROVE SessionInv'
  <2>1. Alone(c) /\ Grows /\ Proceeds(c) /\ users' = users /\ sessions' = sessions
    BY <1>3 DEF FailsAt, SameTables, Proceeds
  <2>2. CASE LoggedFailure(c)
    <3>1. PICK x \in {"forget", "applyRoles", "syncFlags", "ssoRoles"} : At(c, x)
      BY <2>2 DEF LoggedFailure
    <3>2. (\A u : Clears(c, u)') /\ (\A s : ~Ending(c, s))
      BY <2>1, <3>1, ClearsNot
    <3>3. ASSUME NEW u PROVE Admitted(c, u)'
      <4>1. ASSUME SigningIn(c)', job'[c].mem.id = u PROVE ~Gone(u)' \/ Excused(u)'
        <5>1. SigningIn(c) /\ job[c].mem.id = u
          BY <2>1, <2>2, <4>1, LoggedSignsIn
        <5>2. ~Gone(u) \/ Excused(u)
          BY <5>1 DEF SessionInv, Admitted
        <5> QED BY <1>2, <2>1, <5>2, ExcusedStays
      <4> QED BY <4>1 DEF Admitted
    <3>4. \A u : Clears(c, u)' /\ Admitted(c, u)'
      BY <3>2, <3>3
    <3> QED BY <1>2, <2>1, <3>2, <3>4, SessionQuiet
  <2>3. CASE Idle(c)' /\ broken' = broken \cup job[c].reads
    <3>1. \A y : ~At(c, y)'
      BY <2>3 DEF Idle, At
    <3>2. \A u : Clears(c, u)' /\ Admitted(c, u)'
      BY <3>1 DEF Clears, Admitted, SigningIn
    <3>3. ASSUME NEW s \in DOMAIN sessions', Ending(c, s) PROVE Excused(sessions[s].user)'
      <4>1. <<"user", Arg(c).id>> \in job[c].reads /\ Arg(c).id = sessions[s].user
        BY <3>3 DEF Ending, Clearing, Relying, RelyOn
      <4> QED BY <2>1, <2>3, <4>1 DEF Excused
    <3> QED BY <1>2, <2>1, <3>2, <3>3, SessionQuiet
  <2> QED BY <1>3, <2>2, <2>3 DEF FailsAt
<1>4. ASSUME NEW c \in Clients, Arrival(c) PROVE SessionInv'
  <2>1. Alone(c) /\ users' = users /\ sessions' = sessions /\ Grows /\ Idle(c)
    BY <1>4, ArrivalFacts DEF Grows, Arrival
  <2>2. ~SigningIn(c)' /\ \A y \in {"removeSessions", "deleteUser"} : ~At(c, y)'
    <3>1. {"removeSessions", "deleteUser"} \cap First = {}
      BY DEF First
    <3> QED BY <1>4, <3>1, RelyArrived, ArrivesAt
  <2>3. \A u : Clears(c, u)' /\ Admitted(c, u)'
    BY <2>2 DEF Clears, Admitted
  <2>4. \A s : ~Ending(c, s)
    BY <2>1 DEF Ending, At, Idle
  <2> QED BY <1>2, <2>1, <2>3, <2>4, SessionQuiet
<1>5. ASSUME Passing PROVE SessionInv'
  BY <1>5 DEF Passing, Stands, SessionInv, Followed, Ending, Clears, Admitted, SigningIn, Gone, Excused,
              SessionsOf, At, Arg
<1>6. ASSUME Restarts PROVE SessionInv'
  <2>1. \A c \in Clients : \A y : ~At(c, y)'
    BY <1>6 DEF Restarts, At, NoJob
  <2>2. /\ users' = users /\ sessions' = sessions /\ raced' = raced
        /\ broken' = broken \cup UNION {job[c].reads : c \in Clients}
    BY <1>6 DEF Restarts, Stands
  <2>3. ASSUME NEW s \in DOMAIN sessions, NEW c \in Clients, Ending(c, s)
        PROVE  <<"user", sessions[s].user>> \in broken'
    <3>1. <<"user", Arg(c).id>> \in job[c].reads /\ Arg(c).id = sessions[s].user
      BY <2>3 DEF Ending, Clearing, Relying, RelyOn
    <3> QED BY <2>2, <3>1
  <2>4. \A s \in DOMAIN sessions' : Followed(s, sessions[s].user)'
    BY <2>2, <2>3 DEF SessionInv, Followed, Gone, Excused
  <2> QED BY <2>1, <2>4 DEF SessionInv, Clears, Admitted, SigningIn
<1> QED BY <1>1, <1>3, <1>4, <1>5, <1>6, NextKinds

\* Nobody who is deactivated or deleted stays signed in (SessionsFollowUsers), unless a login
\* of his or another write of his row overtook the request, or it failed half way: a request
\* that has deactivated a user removes the sessions it lists afterwards, and one that deletes
\* a user has removed them before.
THEOREM SessionsFollow == Spec => []SessionsFollowUsers
<1>1. Init => Shape /\ Relying /\ SessionInv
  BY ShapeInitial, RelyingInitial, SessionInitial
<1>2. Shape /\ Relying /\ SessionInv /\ [Next]_vars => Shape' /\ Relying' /\ SessionInv'
  BY ShapeKept, RelyingKept, SessionsKept
<1>3. SessionInv => SessionsFollowUsers
  <2>1. ASSUME NEW c \in Clients, NEW s, Ending(c, s) PROVE EndsSessions(c, sessions[s].user)
    BY <2>1 DEF Ending, EndsSessions, Idle, At
  <2> QED BY <2>1 DEF SessionInv, SessionsFollowUsers, Followed, Gone, Excused
<1> QED BY <1>1, <1>2, <1>3, PTL DEF Spec

------------------------------------------------------------------------------
(* The accounts of principals.                                                 *)

\* The other requests that rely on resource r are overtaken.
Overtakes(c, r) == \A d \in Clients \ {c} : r \in job[d].reads => r \in raced'

\* A write of the resource overtakes them.
LEMMA TouchMarks ==
    ASSUME NEW c \in Clients, NEW r, NEW rs, r \in rs, Touch(c, rs)
    PROVE  Overtakes(c, r)
BY DEF Touch, Overtakes

\* The account of a principal that could be made twice stays so.
LEMMA MislaidStays == ASSUME NEW o, Grows, Mislaid(o) PROVE Mislaid(o)'
BY DEF Mislaid, Grows

\* The steps before those that look for a name and make an account.
LEMMA LeadsToMake ==
    ASSUME NEW op, NEW a, NEW x, NEW y, Leads(op, a, x, y)
    PROVE  /\ y = "matchName" => x = "matchEmail"
           /\ y = "provision" => x \in {"matchName", "provision"}
BY DEF Leads, Follows, MaySkip, Skipping, Target

\* A row has the name and the address it had, or whoever relies on them is overtaken; the
\* fallback address of a name comes with the name.
NameTold(c, row) == Overtakes(c, <<"name", row.name>>)
AddressTold(c, row) ==
    /\ Overtakes(c, <<"address", row.email>>)
    /\ \A b : row.email = <<b, 0, "sso">> => row.name = Name(b, 0) /\ NameTold(c, row)
Announced(c) ==
    \A u \in DOMAIN users' :
      /\ (u \in DOMAIN users /\ users'[u].name = users[u].name) \/ NameTold(c, users'[u])
      /\ (u \in DOMAIN users /\ users'[u].email = users[u].email) \/ AddressTold(c, users'[u])

\* What the other requests have found stays true, or they are overtaken.
LEMMA OthersMake ==
    ASSUME PrincipalInv, NEW c \in Clients, Alone(c), Grows, Announced(c), NEW d \in Clients, d # c
    PROVE  (~Idle(d)' => Fits(job[d].op, Arg(d))') /\ Seeks(d)' /\ Makes(d)'
<1>1. /\ job'[d] = job[d] /\ Arg(d)' = Arg(d) /\ (Idle(d)' <=> Idle(d)) /\ \A y : At(d, y)' <=> At(d, y)
  BY SameRequest DEF Alone
<1>2. PICK who, rs : who = Who(d) /\ rs = job[d].reads
  OBVIOUS
<1>3. Who(d)' = who /\ job'[d].reads = rs
  BY <1>1, <1>2 DEF Who
<1>4. (~Idle(d) => Fits(job[d].op, Arg(d))) /\ Seeks(d) /\ Makes(d)
  BY DEF PrincipalInv
<1>5. (~Idle(d) => Fits(job[d].op, Arg(d))) => (~Idle(d)' => Fits(job[d].op, Arg(d))')
  BY <1>1 DEF Fits
<1>6. ASSUME At(d, "matchName"), who.verified, who.email # NoText,
             <<"address", who.email>> \notin raced'
      PROVE  WithEmail(who.email)' = {}
  <2>1. <<"address", who.email>> \in rs /\ WithEmail(who.email) = {}
    BY <1>2, <1>4, <1>6 DEF Seeks, AddressOf, Grows
  <2>2. ~Overtakes(c, <<"address", who.email>>)
    BY <1>2, <1>6, <2>1 DEF Overtakes
  <2>3. ASSUME NEW u \in DOMAIN users', users'[u].email = who.email PROVE FALSE
    <3>1. u \in DOMAIN users /\ users[u].email = who.email
      BY <2>2, <2>3 DEF Announced, AddressTold
    <3> QED BY <2>1, <3>1 DEF WithEmail
  <2> QED BY <2>3 DEF WithEmail
<1>7. Seeks(d)'
  <2>1. ASSUME At(d, "matchName"), who.verified, who.email # NoText PROVE <<"address", who.email>> \in rs
    BY <1>2, <1>4, <2>1 DEF Seeks, AddressOf
  <2> QED BY <1>1, <1>3, <1>6, <2>1 DEF Seeks, AddressOf
<1>8. ASSUME At(d, "provision"), ~Mislaid(<<who.base, who.email>>)' PROVE Vacant(who)'
  <2>1. /\ <<"name", Name(who.base, 0)>> \in rs
        /\ who.email # NoText => <<"address", who.email>> \in rs
    BY <1>2, <1>4, <1>8 DEF Makes, NameOf, WhoName, AddressOf
  <2>2. Vacant(who)
    <3>1. ~Mislaid(<<who.base, who.email>>)
      BY <1>8, MislaidStays
    <3> QED BY <1>2, <1>4, <1>8, <3>1 DEF Makes, Origin
  <2>3. /\ ~Overtakes(c, <<"name", Name(who.base, 0)>>)
        /\ who.email # NoText => ~Overtakes(c, <<"address", who.email>>)
    BY <1>2, <1>8, <2>1 DEF Overtakes, Mislaid
  <2>4. /\ Candidate(who, 0).name = Name(who.base, 0)
        /\ Candidate(who, 0).email = IF who.email # NoText THEN who.email ELSE <<who.base, 0, "sso">>
    BY DEF Candidate, NewRow
  <2>5. ASSUME NEW u \in DOMAIN users' PROVE users'[u].name # Candidate(who, 0).name
    BY <2>2, <2>3, <2>4 DEF Announced, NameTold, Vacant
  <2>6. ASSUME NEW u \in DOMAIN users', users'[u].email = Candidate(who, 0).email PROVE FALSE
    <3>1. ~(u \in DOMAIN users /\ users'[u].email = users[u].email)
      BY <2>2, <2>6 DEF Vacant
    <3>2. AddressTold(c, users'[u])
      BY <3>1 DEF Announced
    <3>3. CASE who.email # NoText
      BY <2>3, <2>4, <2>6, <3>2, <3>3 DEF AddressTold
    <3>4. CASE who.email = NoText
      <4>1. users'[u].email = <<who.base, 0, "sso">>
        BY <2>4, <2>6, <3>4
      <4>2. users'[u].name = Name(who.base, 0) /\ NameTold(c, users'[u])
        BY <3>2, <4>1 DEF AddressTold
      <4> QED BY <2>3, <4>2 DEF NameTold
    <3> QED BY <3>3, <3>4
  <2> QED BY <2>5, <2>6 DEF Vacant
<1>9. Makes(d)'
  <2>1. ASSUME At(d, "provision")
        PROVE  /\ <<"name", Name(who.base, 0)>> \in rs
               /\ who.email # NoText => <<"address", who.email>> \in rs
               /\ Mislaid(<<who.base, who.email>>)' \/ (job'[d].mem.attempt = 0 /\ Vacant(who)')
    <3>1. /\ <<"name", Name(who.base, 0)>> \in rs
          /\ who.email # NoText => <<"address", who.email>> \in rs
          /\ Mislaid(<<who.base, who.email>>) \/ job[d].mem.attempt = 0
      BY <1>2, <1>4, <2>1 DEF Makes, NameOf, WhoName, AddressOf, Origin
    <3>2. Mislaid(<<who.base, who.email>>) => Mislaid(<<who.base, who.email>>)'
      BY MislaidStays
    <3> QED BY <1>1, <1>8, <2>1, <3>1, <3>2
  <2> QED BY <1>1, <1>3, <2>1 DEF Makes, NameOf, WhoName, AddressOf, Origin
<1> QED BY <1>4, <1>5, <1>7, <1>9

\* The rows are as they were, in the columns these invariants look at, or are deleted.
LEMMA RowsLeft ==
    ASSUME RowsInv, NEW c, Grows,
           \A u \in DOMAIN users' :
             /\ u \in DOMAIN users /\ DOMAIN users'[u] = DOMAIN users[u]
             /\ users'[u].name = users[u].name /\ users'[u].email = users[u].email
             /\ users'[u].origin = users[u].origin
    PROVE  RowsInv' /\ Announced(c)
<1>1. \A u \in DOMAIN users' : u # 0 /\ {"name", "email", "origin"} \subseteq DOMAIN users'[u]
  BY DEF RowsInv
<1>2. \A u, w \in DOMAIN users' : u # w => users'[u].name # users'[w].name
  BY DEF RowsInv
<1>3. ASSUME NEW u \in DOMAIN users', users'[u].origin # NoText
      PROVE  users'[u].name = Name(users'[u].origin[1], 0) \/ Mislaid(users[u].origin)'
  <2>1. PICK o : o = users[u].origin
    OBVIOUS
  <2>2. users'[u].origin = o /\ (users[u].name = Name(o[1], 0) \/ Mislaid(o))
    BY <1>3, <2>1 DEF RowsInv, Provisioned
  <2> QED BY <2>1, <2>2, MislaidStays DEF Mislaid
<1>4. ASSUME NEW u \in DOMAIN users' PROVE Fallback(u, users[u].email[1])'
  <2>1. Fallback(u, users[u].email[1])
    BY DEF RowsInv
  <2> QED BY <2>1 DEF Fallback, Grows
<1> QED BY <1>1, <1>2, <1>3, <1>4 DEF RowsInv, Provisioned, Announced

\* A row is added, with a name nobody has.
LEMMA RowsGrown ==
    ASSUME Shape, RowsInv, NEW c \in Clients, Grows, NEW row, users' = Put(users, NewId, row),
           {"name", "email", "origin"} \subseteq DOMAIN row, ~NameTaken(row.name, 0),
           row.origin # NoText => row.name = Name(row.origin[1], 0) \/ Mislaid(row.origin),
           \A b : row.email = <<b, 0, "sso">> => row.name = Name(b, 0) /\ row.origin = <<b, NoText>>,
           Touch(c, {<<"name", row.name>>, <<"address", row.email>>})
    PROVE  RowsInv' /\ Announced(c)
<1>1. PICK n : n = NewId
  OBVIOUS
<1>2. n \notin DOMAIN users /\ n # 0
  BY <1>1 DEF Shape, NewId
<1>3. /\ DOMAIN users' = DOMAIN users \cup {n} /\ users'[n] = row
      /\ \A u \in DOMAIN users : users'[u] = users[u]
  BY <1>1, <1>2 DEF Put
<1>4. \A u \in DOMAIN users : users[u].name # row.name
  BY DEF NameTaken, RowsInv
<1>5. \A u \in DOMAIN users' : u # 0 /\ {"name", "email", "origin"} \subseteq DOMAIN users'[u]
  BY <1>2, <1>3 DEF RowsInv
<1>6. ASSUME NEW u \in DOMAIN users', NEW w \in DOMAIN users', u # w PROVE users'[u].name # users'[w].name
  BY <1>3, <1>4, <1>6 DEF RowsInv
<1>7. ASSUME NEW u \in DOMAIN users', NEW o, o = users'[u].origin, o # NoText
      PROVE  users'[u].name = Name(o[1], 0) \/ Mislaid(o)'
  <2>1. users'[u].name = Name(o[1], 0) \/ Mislaid(o)
    <3>1. CASE u = n
      BY <1>3, <1>7, <3>1
    <3>2. CASE u # n
      BY <1>3, <1>7, <3>2 DEF RowsInv, Provisioned
    <3> QED BY <3>1, <3>2
  <2> QED BY <2>1, MislaidStays
<1>8. ASSUME NEW u \in DOMAIN users', NEW b, users'[u].email = <<b, 0, "sso">>
      PROVE  \/ <<"renamed", b>> \in DOMAIN changed'
             \/ users'[u].name = Name(b, 0) /\ users'[u].origin = <<b, NoText>>
  <2>1. CASE u = n
    BY <1>3, <1>8, <2>1
  <2>2. CASE u # n
    <3>1. u \in DOMAIN users /\ users'[u] = users[u] /\ users[u].email[1] = b
      BY <1>3, <1>8, <2>2
    <3> QED BY <1>8, <3>1 DEF RowsInv, Fallback, Grows
  <2> QED BY <2>1, <2>2
<1>9. Announced(c)
  <2>1. NameTold(c, row) /\ Overtakes(c, <<"address", row.email>>)
    BY TouchMarks DEF NameTold
  <2>2. AddressTold(c, row)
    BY <2>1 DEF AddressTold
  <2>3. \A u \in DOMAIN users' : u = n \/ (u \in DOMAIN users /\ users'[u] = users[u])
    BY <1>3
  <2> QED BY <1>3, <2>1, <2>2, <2>3 DEF Announced
<1>10. \A u \in DOMAIN users' : Fallback(u, users[u].email[1])'
  BY <1>8 DEF Fallback
<1> QED BY <1>5, <1>6, <1>7, <1>9, <1>10 DEF RowsInv, Provisioned

\* A user gets another address, which is no fallback address.
LEMMA AddressSet ==
    ASSUME RowsInv, NEW c \in Clients, Grows, NEW i \in DOMAIN users, NEW e, e[3] # "sso",
           users' = [users EXCEPT ![i] = [@ EXCEPT !.email = e]], Touch(c, {<<"address", e>>})
    PROVE  RowsInv' /\ Announced(c)
<1> DEFINE row == [users[i] EXCEPT !.email = e]
<1>1. /\ DOMAIN users' = DOMAIN users /\ users'[i] = row
      /\ \A u \in DOMAIN users : u # i => users'[u] = users[u]
  OBVIOUS
<1>2. DOMAIN row = DOMAIN users[i] /\ row.email = e /\ row.name = users[i].name /\ row.origin = users[i].origin
  BY DEF RowsInv
<1> HIDE DEF row
<1>3. \A u \in DOMAIN users :
        /\ DOMAIN users'[u] = DOMAIN users[u] /\ users'[u].name = users[u].name
        /\ users'[u].origin = users[u].origin /\ (u # i => users'[u].email = users[u].email)
  BY <1>1, <1>2
<1>4. \A u \in DOMAIN users' : u # 0 /\ {"name", "email", "origin"} \subseteq DOMAIN users'[u]
  BY <1>1, <1>3 DEF RowsInv
<1>5. \A u, w \in DOMAIN users' : u # w => users'[u].name # users'[w].name
  BY <1>1, <1>3 DEF RowsInv
<1>6. ASSUME NEW u \in DOMAIN users', NEW o, o = users'[u].origin, o # NoText
      PROVE  users'[u].name = Name(o[1], 0) \/ Mislaid(o)'
  <2>1. users'[u].name = Name(o[1], 0) \/ Mislaid(o)
    BY <1>1, <1>3, <1>6 DEF RowsInv, Provisioned
  <2> QED BY <2>1, MislaidStays
<1>7. ASSUME NEW u \in DOMAIN users', NEW b, users'[u].email = <<b, 0, "sso">>
      PROVE  \/ <<"renamed", b>> \in DOMAIN changed'
             \/ users'[u].name = Name(b, 0) /\ users'[u].origin = <<b, NoText>>
  <2>1. u # i
    BY <1>1, <1>2, <1>7
  <2>2. u \in DOMAIN users /\ users'[u] = users[u] /\ users[u].email[1] = b
    BY <1>1, <1>7, <2>1
  <2> QED BY <1>7, <2>2 DEF RowsInv, Fallback, Grows
<1>8. Announced(c)
  <2>1. Overtakes(c, <<"address", e>>)
    BY TouchMarks
  <2>2. AddressTold(c, row)
    BY <1>2, <2>1 DEF AddressTold
  <2> QED BY <1>1, <1>3, <2>2 DEF Announced
<1>9. \A u \in DOMAIN users' : Fallback(u, users[u].email[1])'
  BY <1>7 DEF Fallback
<1> QED BY <1>4, <1>5, <1>6, <1>8, <1>9 DEF RowsInv, Provisioned

\* A user gets another name, which nobody has: it is no longer the account of a principal.
LEMMA NameSet ==
    ASSUME RowsInv, NEW c \in Clients, Grows, NEW i \in DOMAIN users, NEW n, ~NameTaken(n, i),
           users' = [users EXCEPT ![i] = [@ EXCEPT !.name = n, !.origin = NoText]],
           Touch(c, {<<"name", n>>}), Changed(Disowned)
    PROVE  RowsInv' /\ Announced(c)
<1> DEFINE row == [users[i] EXCEPT !.name = n, !.origin = NoText]
<1>1. /\ DOMAIN users' = DOMAIN users /\ users'[i] = row
      /\ \A u \in DOMAIN users : u # i => users'[u] = users[u]
  OBVIOUS
<1>2. DOMAIN row = DOMAIN users[i] /\ row.email = users[i].email /\ row.name = n /\ row.origin = NoText
  BY DEF RowsInv
<1> HIDE DEF row
<1>3. \A u \in DOMAIN users : DOMAIN users'[u] = DOMAIN users[u] /\ users'[u].email = users[u].email
  BY <1>1, <1>2
<1>4. \A u \in DOMAIN users' : u # 0 /\ {"name", "email", "origin"} \subseteq DOMAIN users'[u]
  BY <1>1, <1>3 DEF RowsInv
<1>5. ASSUME NEW u \in DOMAIN users', NEW w \in DOMAIN users', u # w PROVE users'[u].name # users'[w].name
  <2>1. \A v \in DOMAIN users : v # i => users[v].name # n
    BY DEF NameTaken
  <2> QED BY <1>1, <1>2, <1>5, <2>1 DEF RowsInv
<1>6. ASSUME NEW u \in DOMAIN users', NEW o, o = users'[u].origin, o # NoText
      PROVE  users'[u].name = Name(o[1], 0) \/ Mislaid(o)'
  <2>1. users'[u].name = Name(o[1], 0) \/ Mislaid(o)
    BY <1>1, <1>2, <1>6 DEF RowsInv, Provisioned
  <2> QED BY <2>1, MislaidStays
<1>7. ASSUME NEW u \in DOMAIN users', NEW b, users'[u].email = <<b, 0, "sso">>
      PROVE  \/ <<"renamed", b>> \in DOMAIN changed'
             \/ users'[u].name = Name(b, 0) /\ users'[u].origin = <<b, NoText>>
  <2>1. u \in DOMAIN users /\ users[u].email = <<b, 0, "sso">> /\ users[u].email[1] = b
    BY <1>1, <1>3, <1>7
  <2>2. \/ <<"renamed", b>> \in DOMAIN changed
        \/ users[u].name = Name(b, 0) /\ users[u].origin = <<b, NoText>>
    BY <2>1 DEF RowsInv, Fallback
  <2>3. CASE <<"renamed", b>> \in DOMAIN changed
    BY <2>3 DEF Grows
  <2>4. CASE u # i
    BY <1>1, <2>1, <2>2, <2>4 DEF Grows
  <2>5. CASE u = i /\ users[u].origin = <<b, NoText>>
    <3>1. <<b, NoText>> # NoText
      BY DEF NoText
    <3>2. users'[u].origin # users[u].origin /\ users[u].origin[1] = b
      BY <1>1, <1>2, <2>5, <3>1
    <3>3. <<"renamed", b>> \in Disowned
      BY <2>1, <3>2 DEF Disowned
    <3> QED BY <3>3 DEF Changed
  <2> QED BY <2>2, <2>3, <2>4, <2>5
<1>8. Announced(c)
  <2>1. NameTold(c, row)
    BY <1>2, TouchMarks DEF NameTold
  <2> QED BY <1>1, <1>2, <1>3, <2>1 DEF Announced
<1>9. \A u \in DOMAIN users' : Fallback(u, users[u].email[1])'
  BY <1>7 DEF Fallback
<1> QED BY <1>4, <1>5, <1>6, <1>8, <1>9 DEF RowsInv, Provisioned

\* A new user, or the account of a principal, is one more row.
LEMMA UserRows ==
    ASSUME Shape, PrincipalInv, NEW c \in Clients, NEW x \in {"insertUser", "provision"}, StepOf(c, x)
    PROVE  RowsInv' /\ Announced(c)
<1>1. RowsInv /\ Grows /\ At(c, x) /\ ~Idle(c) /\ Fits(job[c].op, Arg(c)) /\ Belongs(job[c].op, x)
  BY BelongsAt DEF PrincipalInv, StepOf, Does, Effects
<1>2. users' = users => RowsInv' /\ Announced(c)
  BY <1>1, RowsLeft
<1>3. CASE x = "insertUser"
  <2>1. InsertUser(c)
    BY <1>3 DEF StepOf, Does, Named, NamedUsers
  <2> DEFINE row == NewRow(Arg(c).name, Arg(c).email, Arg(c).secret)
  <2>2. /\ {"name", "email", "origin"} \subseteq DOMAIN row /\ row.name = Arg(c).name
        /\ row.email = Arg(c).email /\ row.origin = NoText
    BY DEF NewRow
  <2>3. /\ users' = users \/ (users' = Put(users, NewId, row) /\ ~NameTaken(Arg(c).name, 0))
        /\ Touch(c, {<<"name", Arg(c).name>>, <<"address", Arg(c).email>>})
    BY <2>1 DEF InsertUser
  <2> HIDE DEF row
  <2>4. Arg(c).email[3] # "sso"
    BY <1>1, <1>3 DEF Fits, Belongs
  <2>5. \A b : row.email # <<b, 0, "sso">>
    BY <2>2, <2>4
  <2>6. ~NameTaken(row.name, 0) \/ users' = users
    BY <2>2, <2>3
  <2>7. Touch(c, {<<"name", row.name>>, <<"address", row.email>>})
    BY <2>2, <2>3
  <2> QED BY <1>1, <1>2, <2>2, <2>3, <2>5, <2>6, <2>7, RowsGrown
<1>4. CASE x = "provision"
  <2>1. Provision(c)
    BY <1>4 DEF StepOf, Does, Named, NamedUsers
  <2>2. PICK who, n : who = Who(c) /\ n = job[c].mem.attempt
    OBVIOUS
  <2> DEFINE row == Candidate(who, n)
  <2>3. \/ users' = users
        \/ /\ users' = Put(users, NewId, row) /\ ~NameTaken(row.name, 0)
           /\ Touch(c, {<<"name", row.name>>, <<"address", row.email>>})
    BY <2>1, <2>2 DEF Provision
  <2>4. /\ {"name", "email", "origin"} \subseteq DOMAIN row /\ row.name = Name(who.base, n)
        /\ row.email = (IF who.email # NoText THEN who.email ELSE <<who.base, n, "sso">>)
        /\ row.origin = <<who.base, who.email>>
    BY DEF Candidate, NewRow
  <2> HIDE DEF row
  <2>5. who \in Principals /\ who.email[3] # "sso"
    <3>1. who \in Principals
      BY <1>1, <1>4, <2>2 DEF Fits, Belongs, Who
    <3> QED BY <3>1, ExternalAssumption
  <2>6. ASSUME NEW b, row.email = <<b, 0, "sso">> PROVE row.name = Name(b, 0) /\ row.origin = <<b, NoText>>
    <3>1. who.email = NoText /\ who.base = b /\ n = 0
      BY <2>4, <2>5, <2>6
    <3> QED BY <2>4, <3>1
  <2>7. row.name = Name(row.origin[1], 0) \/ Mislaid(row.origin)
    <3>1. Mislaid(<<who.base, who.email>>) \/ n = 0
      BY <1>1, <1>4, <2>2 DEF PrincipalInv, Makes, Origin
    <3> QED BY <2>4, <3>1
  <2> QED BY <1>1, <1>2, <2>3, <2>4, <2>6, <2>7, RowsGrown
<1> QED BY <1>3, <1>4

\* An update changes a column of a row, which nobody else has.
LEMMA UpdatedRows ==
    ASSUME Shape, PrincipalInv, NEW c \in Clients, NEW x \in {"setEmail", "setName"}, StepOf(c, x)
    PROVE  RowsInv' /\ Announced(c)
<1>0. PICK i : i = Arg(c).id
  OBVIOUS
<1>1. RowsInv /\ Grows /\ At(c, x) /\ ~Idle(c) /\ Fits(job[c].op, Arg(c)) /\ Belongs(job[c].op, x)
  BY BelongsAt DEF PrincipalInv, StepOf, Does, Effects
<1>2. users' = users => RowsInv' /\ Announced(c)
  BY <1>1, RowsLeft
<1>3. CASE x = "setEmail"
  <2>1. SetEmail(c)
    BY <1>3 DEF StepOf, Does, Named, NamedUsers
  <2>2. PICK e : e = Arg(c).email
    OBVIOUS
  <2>3. /\ \/ users' = users
           \/ i \in DOMAIN users /\ users' = [users EXCEPT ![i] = [@ EXCEPT !.email = e]]
        /\ Touch(c, {<<"address", e>>})
    BY <1>0, <2>1, <2>2 DEF SetEmail, SetColumn
  <2>4. e[3] # "sso"
    BY <1>1, <1>3, <2>2 DEF Fits, Belongs
  <2> QED BY <1>1, <1>2, <2>3, <2>4, AddressSet
<1>4. CASE x = "setName"
  <2>1. SetName(c)
    BY <1>4 DEF StepOf, Does, Named, NamedUsers
  <2>2. PICK n : n = Arg(c).name
    OBVIOUS
  <2>3. /\ \/ users' = users
           \/ /\ i \in DOMAIN users /\ ~NameTaken(n, i)
              /\ users' = [users EXCEPT ![i] = [@ EXCEPT !.name = n, !.origin = NoText]]
        /\ Touch(c, {<<"name", n>>}) /\ Changed(Disowned)
    BY <1>0, <2>1, <2>2 DEF SetName, SetColumn
  <2> QED BY <1>1, <1>2, <2>3, NameSet
<1> QED BY <1>3, <1>4

\* The other writes of the table leave these columns alone.
LEMMA OtherRows ==
    ASSUME Shape, PrincipalInv, NEW c \in Clients, NEW x, StepOf(c, x),
           x \notin {"insertUser", "provision", "setEmail", "setName"}
    PROVE  RowsInv' /\ Announced(c)
<1>1. RowsInv /\ Grows
  BY DEF PrincipalInv, StepOf, Does, Effects
<1>2. \A u \in DOMAIN users : {"name", "email", "origin"} \subseteq DOMAIN users[u]
  BY <1>1 DEF RowsInv
<1>3. SUFFICES \A u \in DOMAIN users' :
                 /\ u \in DOMAIN users /\ DOMAIN users'[u] = DOMAIN users[u]
                 /\ users'[u].name = users[u].name /\ users'[u].email = users[u].email
                 /\ users'[u].origin = users[u].origin
  BY <1>1, RowsLeft
<1>4. CASE x \notin UserSteps
  BY <1>4 DEF StepOf, Does, Effects
<1>5. CASE x = "setActive"
  <2>1. SetActive(c)
    BY <1>5 DEF StepOf, Does, Named, NamedUsers
  <2>2. PICK i, a : users' = [u \in DOMAIN users |->
                                IF u = i THEN [users[u] EXCEPT !.active = a] ELSE users[u]]
    BY <2>1 DEF SetActive
  <2> QED BY <1>2, <2>2
<1>6. CASE x = "deleteUser"
  <2>1. DeleteUser(c)
    BY <1>6 DEF StepOf, Does, Named, NamedUsers
  <2> QED BY <2>1 DEF DeleteUser, Drop, Keep
<1>7. CASE x = "setFlags"
  <2>1. SetFlags(c)
    BY <1>7 DEF StepOf, Does, Named, NamedUsers
  <2>2. PICK i, a : users' = [u \in DOMAIN users |->
                                IF u = i THEN [users[u] EXCEPT !.admin = a] ELSE users[u]]
    BY <2>1 DEF SetFlags
  <2> QED BY <1>2, <2>2
<1>8. CASE x = "setPassword"
  <2>1. SetPassword(c)
    BY <1>8 DEF StepOf, Does, Named, NamedResets
  <2>2. PICK i, p : users' = [u \in DOMAIN users |->
                                IF u = i THEN [users[u] EXCEPT !.password = p] ELSE users[u]]
    BY <2>1 DEF SetPassword
  <2> QED BY <1>2, <2>2
<1>9. CASE x = "syncFlags"
  <2>1. SyncFlags(c)
    BY <1>9 DEF StepOf, Does, Named, NamedUsers
  <2>2. PICK i, a : \/ users' = users
                    \/ users' = [users EXCEPT ![i] = [@ EXCEPT !.admin = a, !.manager = FALSE,
                                                               !.system = FALSE]]
    BY <2>1 DEF SyncFlags
  <2> QED BY <1>2, <2>2
<1> QED BY <1>4, <1>5, <1>6, <1>7, <1>8, <1>9 DEF UserSteps

\* A request that goes on is about the same principal, and fits as it did.
LEMMA SamePrincipal ==
    ASSUME PrincipalInv, NEW c \in Clients, Proceeds(c), ~Idle(c)', ~Idle(c)
    PROVE  /\ Fits(job[c].op, Arg(c))'
           /\ job[c].op \in {"callback", "sso"} => Who(c)' = Who(c)
<1>1. Keeps(job[c], job'[c]) /\ Fits(job[c].op, Arg(c))
  BY DEF Proceeds, Moved, Idle, PrincipalInv
<1> QED BY <1>1 DEF Keeps, Fits, Arg, Who

\* A request that is not, or no longer, looking for a name or making an account.
LEMMA MakesNot ==
    ASSUME NEW c, ~At(c, "matchName")', ~At(c, "provision")'
    PROVE  Seeks(c)' /\ Makes(c)'
BY DEF Seeks, Makes

\* A request that was admitted with a user makes no account.
LEMMA AdmitsNot ==
    ASSUME Shape, NEW c \in Clients, NEW x \in {"matchEmail", "matchName"}, At(c, x), NEW u,
           Admit(c, u, AfterUser(c))
    PROVE  ~At(c, "matchName")' /\ ~At(c, "provision")'
<1>1. CASE Denied(c)
  <2>1. Idle(c)'
    BY <1>1, Replies DEF Denied, Shape
  <2> QED BY <2>1 DEF Idle, At
<1>2. CASE ~Denied(c)
  <2> DEFINE k == [job[c] EXCEPT !.plan = SkipTo(c, AfterUser(c)), !.mem = RowOf(u),
                                 !.reads = @ \cup {<<"user", u>>}]
  <2>1. job' = [job EXCEPT ![c] = k]
    BY <1>2 DEF Admit, Shape, JobShape
  <2>2. k.plan = SkipTo(c, AfterUser(c))
    BY DEF Shape, JobShape, Fields
  <2> HIDE DEF k
  <2>3. job'[c].plan = SkipTo(c, AfterUser(c))
    BY <2>1, <2>2 DEF Shape, JobShape
  <2>4. PICK y : y = AfterUser(c)
    OBVIOUS
  <2>5. MaySkip(job[c].op, x) /\ y = Target(job[c].op, x) /\ y \notin {"matchName", "provision"}
    BY <2>4 DEF MaySkip, Skipping, Target, AfterUser
  <2>6. job'[c].plan = SkipTo(c, y)
    BY <2>3, <2>4
  <2>7. At(c, y)'
    BY <2>5, <2>6, SkipAt
  <2> QED BY <2>5, <2>7 DEF At
<1> QED BY <1>1, <1>2

\* A request that looks for a name has found nobody with the verified address.
LEMMA ComesToSeek ==
    ASSUME Shape, NEW c \in Clients, StepOf(c, "matchEmail"), At(c, "matchName")', Who(c)' = Who(c)
    PROVE  Seeks(c)'
<1>1. MatchEmail(c) /\ At(c, "matchEmail") /\ users' = users
  BY DEF StepOf, Does, Effects, Named, NamedSessions, UserSteps
<1>2. PICK who, rs : who = Who(c) /\ rs = {<<"address", Who(c).email>>}
  OBVIOUS
<1>3. ByEmail(who) = {} /\ Relies(c, rs, NoRow)
  <2>1. \/ ByEmail(who) = {} /\ Relies(c, rs, NoRow)
        \/ \E u : Admit(c, u, AfterUser(c))
    BY <1>1, <1>2 DEF MatchEmail
  <2> QED BY <1>1, <2>1, AdmitsNot
<1>4. job'[c].reads = job[c].reads \cup rs
  BY <1>3, Relies1 DEF Shape
<1>5. who.verified /\ who.email # NoText => WithEmail(who.email)' = {}
  BY <1>1, <1>3 DEF ByEmail, WithEmail
<1>6. Who(c)' = who /\ <<"address", who.email>> \in job'[c].reads
  BY <1>2, <1>4
<1> QED BY <1>5, <1>6 DEF Seeks, AddressOf

\* One that is about to make an account has found nobody with the name either.
LEMMA ComesToMake ==
    ASSUME Shape, PrincipalInv, NEW c \in Clients, StepOf(c, "matchName"), At(c, "provision")',
           Who(c)' = Who(c)
    PROVE  Makes(c)'
<1>1. MatchName(c) /\ At(c, "matchName") /\ users' = users /\ Grows /\ Seeks(c)
  BY DEF StepOf, Does, Effects, Named, NamedSessions, UserSteps, PrincipalInv
<1>2. PICK who, rs, m : who = Who(c) /\ rs = {<<"name", WhoName(c)>>} /\ m = [attempt |-> 0]
  OBVIOUS
<1>3. /\ ByName(who) = {} /\ (who.email # NoText => who.verified)
      /\ Relies(c, rs, m)
  <2>1. \/ ByName(who) = {} /\ (who.email # NoText => who.verified) /\ Relies(c, rs, m)
        \/ \E u : Admit(c, u, AfterUser(c))
        \/ Denied(c)
    BY <1>1, <1>2 DEF MatchName
  <2>2. ~Denied(c)
    <3>1. ASSUME Denied(c) PROVE FALSE
      <4>1. Idle(c)'
        BY <3>1, Replies DEF Denied, Shape
      <4> QED BY <4>1 DEF Idle, At
    <3> QED BY <3>1
  <2> QED BY <1>1, <2>1, <2>2, AdmitsNot
<1>4. job'[c].reads = job[c].reads \cup rs /\ job'[c].mem = m
  BY <1>3, Relies1 DEF Shape
<1>5. who.email # NoText => /\ <<"address", who.email>> \in job[c].reads
                            /\ <<"address", who.email>> \in raced \/ WithEmail(who.email) = {}
  BY <1>1, <1>2, <1>3 DEF Seeks, AddressOf
<1>6. ASSUME ~Mislaid(<<who.base, who.email>>)' PROVE Vacant(who)
  <2>1. /\ Candidate(who, 0).name = Name(who.base, 0)
        /\ Candidate(who, 0).email = IF who.email # NoText THEN who.email ELSE <<who.base, 0, "sso">>
    BY DEF Candidate, NewRow
  <2>2. \A u \in DOMAIN users : users[u].name # Name(who.base, 0)
    BY <1>3 DEF ByName, WithName
  <2>3. ASSUME NEW u \in DOMAIN users, users[u].email = Candidate(who, 0).email PROVE FALSE
    <3>1. CASE who.email # NoText
      <4>1. <<"address", who.email>> \notin raced
        BY <1>1, <1>6, <3>1 DEF Mislaid, Grows
      <4> QED BY <1>5, <2>1, <2>3, <3>1, <4>1 DEF WithEmail
    <3>2. CASE who.email = NoText
      <4>1. users[u].email = <<who.base, 0, "sso">> /\ users[u].email[1] = who.base
        BY <2>1, <2>3, <3>2
      <4>2. <<"renamed", who.base>> \notin DOMAIN changed
        BY <1>1, <1>6, <3>2 DEF Mislaid, Grows
      <4> QED BY <2>2, <4>1, <4>2 DEF PrincipalInv, RowsInv, Fallback
    <3> QED BY <3>1, <3>2
  <2> QED BY <2>1, <2>2, <2>3 DEF Vacant
<1>7. ~Mislaid(<<who.base, who.email>>)' => Vacant(who)'
  BY <1>1, <1>6 DEF Vacant
<1>8. Who(c)' = who /\ job'[c].mem.attempt = 0 /\ <<"name", Name(who.base, 0)>> \in job'[c].reads
      /\ (who.email # NoText => <<"address", who.email>> \in job'[c].reads)
  BY <1>2, <1>4, <1>5 DEF WhoName
<1> QED BY <1>7, <1>8 DEF Makes, NameOf, WhoName, AddressOf, Origin

\* It tries another name only when it was overtaken, or the principal's account was renamed.
LEMMA MakesAgain ==
    ASSUME Shape, PrincipalInv, NEW c \in Clients, StepOf(c, "provision"), At(c, "provision")',
           Who(c)' = Who(c)
    PROVE  Makes(c)'
<1>1. Provision(c) /\ At(c, "provision") /\ Grows /\ Makes(c)
  BY DEF StepOf, Does, Effects, Named, NamedUsers, PrincipalInv
<1>2. PICK who, n : who = Who(c) /\ n = job[c].mem.attempt
  OBVIOUS
<1> DEFINE row == Candidate(who, n)
<1>3. /\ NameTaken(row.name, 0) \/ EmailTaken(row.email, 0)
      /\ job' = [job EXCEPT ![c].mem.attempt = @ + 1]
  <2>1. \/ /\ NameTaken(row.name, 0) \/ EmailTaken(row.email, 0)
           /\ job' = [job EXCEPT ![c].mem.attempt = @ + 1]
        \/ Reply(c, 409)
        \/ \E rs, m : Relies(c, rs, m)
    BY <1>1, <1>2 DEF Provision
  <2>2. ~Reply(c, 409)
    <3>1. ASSUME Reply(c, 409) PROVE FALSE
      <4>1. Idle(c)'
        BY <3>1, Replies DEF Shape
      <4> QED BY <4>1 DEF Idle, At
    <3> QED BY <3>1
  <2>3. ASSUME NEW rs, NEW m, Relies(c, rs, m) PROVE FALSE
    <3>1. job'[c].plan = Rest(c)
      BY <2>3, Relies1 DEF OnTo, Shape
    <3>2. Follows(job[c].op, Active(job[c]), "provision", "provision")
      BY <1>1, <3>1, RestAt
    <3> QED BY <3>2 DEF Follows
  <2> QED BY <2>1, <2>2, <2>3
<1>4. Mislaid(<<who.base, who.email>>)'
  <2>1. ASSUME n = 0, Vacant(who) PROVE FALSE
    BY <1>3, <2>1 DEF Vacant, NameTaken, EmailTaken
  <2>2. Mislaid(<<who.base, who.email>>)
    BY <1>1, <1>2, <2>1 DEF Makes, Origin
  <2> QED BY <1>1, <2>2, MislaidStays
<1>5. job'[c].reads = job[c].reads
  BY <1>3 DEF Shape, JobShape, Fields
<1> QED BY <1>1, <1>2, <1>4, <1>5 DEF Makes, NameOf, WhoName, AddressOf, Origin

\* What the request that takes a step has found.
LEMMA OwnMake ==
    ASSUME Shape, PrincipalInv, NEW c \in Clients, NEW x, At(c, x), Proceeds(c),
           StepOf(c, x) \/ LoggedFailure(c)
    PROVE  (~Idle(c)' => Fits(job[c].op, Arg(c))') /\ Seeks(c)' /\ Makes(c)'
<1>1. ~Idle(c)
  BY DEF At, Idle
<1>2. ~Idle(c)' => Fits(job[c].op, Arg(c))'
  BY <1>1, SamePrincipal
<1>3. ASSUME NEW y \in {"matchName", "provision"}, At(c, y)'
      PROVE  /\ Leads(job[c].op, Active(job[c]), x, y) /\ Who(c)' = Who(c) /\ StepOf(c, x)
  <2>1. Leads(job[c].op, Active(job[c]), x, y) /\ Belongs(job[c].op, x)
    BY <1>3, Came
  <2>2. x \in {"matchEmail", "matchName", "provision"}
    BY <2>1, LeadsToMake
  <2>3. job[c].op \in {"callback", "sso"}
    BY <2>1, <2>2 DEF Belongs
  <2>4. ~Idle(c)'
    BY <1>3 DEF At, Idle
  <2>5. ~LoggedFailure(c)
    BY <2>2 DEF LoggedFailure, At
  <2> QED BY <1>1, <2>1, <2>3, <2>4, <2>5, SamePrincipal
<1>4. Seeks(c)'
  <2>1. CASE At(c, "matchName")'
    <3>1. x = "matchEmail" /\ StepOf(c, x) /\ Who(c)' = Who(c)
      BY <1>3, <2>1, LeadsToMake
    <3> QED BY <2>1, <3>1, ComesToSeek
  <2> QED BY <2>1 DEF Seeks
<1>5. Makes(c)'
  <2>1. CASE At(c, "provision")'
    <3>1. x \in {"matchName", "provision"} /\ StepOf(c, x) /\ Who(c)' = Who(c)
      BY <1>3, <2>1, LeadsToMake
    <3> QED BY <2>1, <3>1, ComesToMake, MakesAgain
  <2> QED BY <2>1 DEF Makes
<1> QED BY <1>2, <1>4, <1>5

\* At first there are two users, and no account of a principal.
LEMMA PrincipalInitial == ASSUME Init PROVE PrincipalInv
<1>1. \A c \in Clients : (\A y : ~At(c, y)) /\ Idle(c)
  BY DEF Init, AccountsInit, At, NoJob, Idle
<1>2. /\ DOMAIN users = {1, 2} /\ users[1] = Root
      /\ \E admin \in BOOLEAN : \E A : users[2] = [Ann EXCEPT !.admin = admin, !.defaults = A]
  <2>1. PICK admin \in BOOLEAN : \E A :
               users = [u \in {1, 2} |-> IF u = 1 THEN Root
                                         ELSE [Ann EXCEPT !.admin = admin, !.defaults = A]]
    BY DEF Init, AccountsInit
  <2>2. PICK A : users = [u \in {1, 2} |-> IF u = 1 THEN Root
                                          ELSE [Ann EXCEPT !.admin = admin, !.defaults = A]]
    BY <2>1
  <2>3. users[1] = Root /\ users[2] = [Ann EXCEPT !.admin = admin, !.defaults = A]
    BY <2>2
  <2> QED BY <2>2, <2>3
<1>3. /\ {"name", "email", "origin"} \subseteq DOMAIN Root /\ Root.origin = NoText
      /\ Root.name = <<"root", 0, "name">> /\ Root.email = <<"root", 0, "mail">>
      /\ {"name", "email", "origin"} \subseteq DOMAIN Ann /\ Ann.origin = NoText
      /\ Ann.name = <<"ann", 0, "name">> /\ Ann.email = <<"ann", 0, "mail">>
  BY DEF Root, Ann, NewRow, Name, Mail
<1>4. /\ {"name", "email", "origin"} \subseteq DOMAIN users[2] /\ users[2].origin = NoText
      /\ users[2].name = <<"ann", 0, "name">> /\ users[2].email = <<"ann", 0, "mail">>
  <2>1. PICK admin \in BOOLEAN : \E A : users[2] = [Ann EXCEPT !.admin = admin, !.defaults = A]
    BY <1>2
  <2>2. PICK A : users[2] = [Ann EXCEPT !.admin = admin, !.defaults = A]
    BY <2>1
  <2> QED BY <1>3, <2>2
<1>5. \A u \in DOMAIN users :
        /\ u # 0 /\ {"name", "email", "origin"} \subseteq DOMAIN users[u] /\ users[u].origin = NoText
        /\ users[u].email[3] = "mail"
        /\ users[u].name = IF u = 1 THEN <<"root", 0, "name">> ELSE <<"ann", 0, "name">>
  <2>1. TAKE u \in DOMAIN users
  <2>2. CASE u = 1
    BY <1>2, <1>3, <2>2
  <2>3. CASE u = 2
    BY <1>4, <2>3
  <2> QED BY <1>2, <2>2, <2>3
<1>6. RowsInv
  BY <1>2, <1>5 DEF RowsInv, Provisioned, Fallback
<1> QED BY <1>1, <1>6 DEF PrincipalInv, Seeks, Makes

\* Every step keeps the invariant of the accounts.
LEMMA PrincipalKept == ASSUME Shape, PrincipalInv, [Next]_vars PROVE PrincipalInv'
<1>1. ASSUME NEW c \in Clients, Alone(c), Grows, RowsInv', Announced(c),
             (~Idle(c)' => Fits(job[c].op, Arg(c))') /\ Seeks(c)' /\ Makes(c)'
      PROVE  PrincipalInv'
  BY <1>1, OthersMake DEF PrincipalInv
<1>2. ASSUME users' = users, Grows, NEW c \in Clients PROVE RowsInv' /\ Announced(c)
  BY <1>2, RowsLeft DEF PrincipalInv
<1>3. ASSUME NEW c \in Clients, NEW x, StepOf(c, x) PROVE PrincipalInv'
  <2>1. Alone(c) /\ Grows /\ At(c, x) /\ Proceeds(c)
    BY <1>3 DEF StepOf, Does, Effects, Proceeds
  <2>2. RowsInv' /\ Announced(c)
    BY <1>3, UserRows, UpdatedRows, OtherRows
  <2>3. (~Idle(c)' => Fits(job[c].op, Arg(c))') /\ Seeks(c)' /\ Makes(c)'
    BY <1>3, <2>1, OwnMake
  <2> QED BY <1>1, <2>1, <2>2, <2>3
<1>4. ASSUME NEW c \in Clients, FailsAt(c) PROVE PrincipalInv'
  <2>1. Alone(c) /\ Grows /\ Proceeds(c) /\ users' = users
    BY <1>4 DEF FailsAt, Proceeds, SameTables
  <2>2. (~Idle(c)' => Fits(job[c].op, Arg(c))') /\ Seeks(c)' /\ Makes(c)'
    <3>1. CASE LoggedFailure(c)
      <4>1. PICK x \in {"forget", "applyRoles", "syncFlags", "ssoRoles"} : At(c, x)
        BY <3>1 DEF LoggedFailure
      <4> QED BY <2>1, <3>1, <4>1, OwnMake
    <3>2. CASE Idle(c)'
      BY <3>2, MakesNot DEF Idle, At
    <3> QED BY <1>4, <3>1, <3>2 DEF FailsAt
  <2> QED BY <1>1, <1>2, <2>1, <2>2
<1>5. ASSUME NEW c \in Clients, Arrival(c) PROVE PrincipalInv'
  <2>1. /\ Alone(c) /\ Arrives(job'[c]) /\ users' = users
        /\ Grows
    BY <1>5, ArrivalFacts DEF Grows
  <2>2. ~At(c, "matchName")' /\ ~At(c, "provision")'
    BY <1>5, ArrivesAt DEF First
  <2>3. Fits(job[c].op, Arg(c))'
    BY <2>1 DEF Arrives, Arg
  <2> QED BY <1>1, <1>2, <2>1, <2>2, <2>3, MakesNot
<1>6. ASSUME Passing PROVE PrincipalInv'
  <2>1. /\ job' = job /\ users' = users /\ changed' = changed /\ raced' = raced
    BY <1>6 DEF Passing, Stands
  <2>2. \A o : Mislaid(o)' <=> Mislaid(o)
    BY <2>1 DEF Mislaid
  <2>3. RowsInv'
    BY <2>1, <2>2 DEF PrincipalInv, RowsInv, Fallback, Provisioned
  <2>4. \A c \in Clients : (~Idle(c)' => Fits(job[c].op, Arg(c))') /\ Seeks(c)'
    BY <2>1 DEF PrincipalInv, Idle, Arg, Seeks, At, Who, AddressOf, WithEmail
  <2>5. ASSUME NEW c \in Clients PROVE Makes(c)'
    BY <2>1, <2>2 DEF PrincipalInv, Arg, Makes, At, Who, AddressOf, NameOf, WhoName, Origin, Vacant
  <2> QED BY <2>3, <2>4, <2>5 DEF PrincipalInv
<1>7. ASSUME Restarts PROVE PrincipalInv'
  <2>1. \A c \in Clients : (\A y : ~At(c, y)') /\ Idle(c)'
    BY <1>7 DEF Restarts, At, Idle, NoJob
  <2>2. users' = users /\ Grows
    BY <1>7 DEF Restarts, Stands
  <2>3. RowsInv'
    BY <2>2, RowsLeft DEF PrincipalInv
  <2> QED BY <2>1, <2>3, MakesNot DEF PrincipalInv
<1> QED BY <1>3, <1>4, <1>5, <1>6, <1>7, NextKinds

\* A principal that comes back gets the account it was given (AccountPerPrincipal): a second
\* one is made only when another request took the name or the address while the account was
\* being made, or when the account of a principal without an address was renamed.
THEOREM OneAccountEach == Spec => []AccountPerPrincipal
<1>1. Init => Shape /\ PrincipalInv
  BY ShapeInitial, PrincipalInitial
<1>2. Shape /\ PrincipalInv /\ [Next]_vars => Shape' /\ PrincipalInv'
  BY ShapeKept, PrincipalKept
<1>3. PrincipalInv => AccountPerPrincipal
  BY DEF PrincipalInv, RowsInv, AccountPerPrincipal
<1> QED BY <1>1, <1>2, <1>3, PTL DEF Spec

------------------------------------------------------------------------------
(* What the steps do to what the caches answer from.                           *)

SameGrants == tokens' = tokens /\ cache' = cache
SameRights == users' = users /\ perms' = perms /\ changed' = changed
SameKeys ==
    /\ external'.newest = external.newest /\ external'.published = external.published
    /\ external'.retired = external.retired /\ external'.jwks = external.jwks

\* The steps that change tokens or the token cache,
GrantStep(c) ==
    \/ CleanTokens(c) \/ DeleteUser(c) \/ InsertToken(c) \/ InsertScope(c) \/ InsertRepositories(c)
    \/ DeleteToken(c) \/ CachedToken(c) \/ CacheToken(c)
\* those that change users, permissions or what has changed,
RightsStep(c) ==
    \/ SetActive(c) \/ DeleteUser(c) \/ InsertUser(c) \/ SetEmail(c) \/ SetName(c) \/ SetFlags(c)
    \/ SetPermission(c) \/ SetPassword(c) \/ DeleteToken(c) \/ Provision(c) \/ SyncFlags(c)
\* and those by which a request learns who sent it.
LearningStep(c) == Caller(c) \/ VerifyBasic(c) \/ CachedToken(c) \/ ReadToken(c) \/ ReadOwner(c)

\* The steps of authentication read.
LEMMA AuthenticationLeaves ==
    ASSUME NEW c, AuthenticationStep(c)
    PROVE  SameGrants /\ SameRights /\ external' = external /\ now' = now /\ used'.ids = used.ids
<1>1. Reads
  BY DEF AuthenticationStep, Identify, Caller, BySession, OnlySession, ByManager, BySystem, Looks
<1> QED BY <1>1 DEF Reads, SameGrants, SameRights, userVars, grantVars, historyVars

\* A step that reads leaves everything alone.
LEMMA ReadingLeaves ==
    ASSUME Reads
    PROVE  SameGrants /\ SameRights /\ external' = external /\ now' = now
BY DEF Reads, SameGrants, SameRights, userVars, grantVars, historyVars

\* The steps of the session routes only delete tokens.
LEMMA SessionLeaves ==
    ASSUME NEW c, SessionStep(c)
    PROVE  (SameGrants \/ CleanTokens(c)) /\ SameRights /\ external' = external /\ now' = now
<1>1. CASE Login(c) \/ ListSessions(c) \/ CleanList(c)
  <2>1. Reads
    BY <1>1 DEF Login, ListSessions, CleanList
  <2> QED BY <2>1, ReadingLeaves
<1>2. CASE CreateSession(c)
  BY <1>2 DEF CreateSession, SameGrants, SameRights, userVars, grantVars
<1>3. CASE DeleteSession(c) \/ RemoveSessions(c)
  BY <1>3 DEF DeleteSession, RemoveSessions, SameGrants, SameRights, userVars, grantVars, historyVars
<1>4. CASE CleanTokens(c)
  BY <1>4 DEF CleanTokens, SameRights, userVars, InTables
<1> QED BY <1>1, <1>2, <1>3, <1>4 DEF SessionStep

\* The steps of the user routes.
LEMMA UserLeaves ==
    ASSUME NEW c, UserStep(c)
    PROVE  /\ SameGrants \/ DeleteUser(c)
           /\ SameRights \/ RightsStep(c)
           /\ external' = external /\ now' = now
<1>1. CASE FindUser(c) \/ CountAdmins(c) \/ Answers(c) \/ AsCaller(c) \/ CheckName(c) \/ CheckEmail(c)
           \/ Reread(c)
  <2>1. Reads
    BY <1>1 DEF FindUser, CountAdmins, Answers, AsCaller, CheckName, CheckEmail, Reread
  <2> QED BY <2>1, ReadingLeaves
<1>2. CASE DeleteUser(c)
  BY <1>2 DEF DeleteUser, InTables, RightsStep
<1>3. CASE SetActive(c) \/ InsertUser(c) \/ SetFlags(c) \/ SetPermission(c) \/ SetEmail(c) \/ SetName(c)
  BY <1>3 DEF SetActive, InsertUser, SetFlags, SetPermission, SetEmail, SetName, InTables, SameGrants,
    RightsStep, grantVars
<1> QED BY <1>1, <1>2, <1>3 DEF UserStep

\* The steps about passwords.
LEMMA PasswordLeaves ==
    ASSUME NEW c, PasswordStep(c)
    PROVE  SameGrants /\ (SameRights \/ RightsStep(c)) /\ external' = external /\ now' = now
<1>1. CASE CheckPassword(c) \/ FindEmail(c) \/ FindReset(c) \/ ResetUser(c) \/ CheckReset(c)
  <2>1. Reads
    BY <1>1 DEF CheckPassword, FindEmail, FindReset, ResetUser, CheckReset
  <2> QED BY <2>1, ReadingLeaves
<1>2. CASE SetPassword(c)
  BY <1>2 DEF SetPassword, InTables, SameGrants, RightsStep
<1>3. CASE CreateReset(c) \/ SetUsed(c)
  BY <1>3 DEF CreateReset, SetUsed, InTables, SameGrants, SameRights, userVars
<1> QED BY <1>1, <1>2, <1>3 DEF PasswordStep

\* The steps about tokens.
LEMMA TokenLeaves ==
    ASSUME NEW c, TokenStep(c)
    PROVE  /\ SameGrants \/ GrantStep(c)
           /\ SameRights \/ RightsStep(c)
           /\ external' = external /\ now' = now
<1>1. CASE FindToken(c) \/ Anonymous(c) \/ VerifyBasic(c) \/ ReadToken(c) \/ ReadOwner(c) \/ Rights(c)
           \/ TokenRights(c)
  <2>1. Reads
    BY <1>1 DEF FindToken, Anonymous, VerifyBasic, ReadToken, ReadOwner, Rights, TokenRights
  <2> QED BY <2>1, ReadingLeaves
<1>2. CASE InsertToken(c) \/ InsertScope(c) \/ InsertRepositories(c) \/ CachedToken(c) \/ CacheToken(c)
  BY <1>2 DEF InsertToken, InsertScope, InsertRepositories, CachedToken, CacheToken, InTables,
    SameRights, GrantStep, userVars
<1>3. CASE DeleteToken(c)
  BY <1>3 DEF DeleteToken, InTables, RightsStep, GrantStep
<1>4. CASE DockerToken(c)
  BY <1>4 DEF DockerToken, InTables, SameRights, SameGrants, userVars
<1> QED BY <1>1, <1>2, <1>3, <1>4 DEF TokenStep

\* The external logins change users, as requests do, and keep the signing keys.
LEMMA LoginLeaves ==
    ASSUME Shape, NEW c, LoginStep(c)
    PROVE  SameGrants /\ (SameRights \/ RightsStep(c)) /\ (SameKeys \/ StoreKeys(c)) /\ now' = now
<1>1. ASSUME InState \/ InLogin PROVE SameGrants /\ SameRights /\ now' = now
  BY <1>1 DEF InState, InLogin, SameGrants, SameRights, grantVars
<1>2. ASSUME external' = external PROVE SameKeys
  BY <1>2 DEF SameKeys
<1>3. CASE BeginAuthorization(c)
  BY <1>3 DEF BeginAuthorization, SameGrants, SameRights, SameKeys, grantVars, historyVars, Shape
<1>4. CASE PruneStates(c) \/ PersistState(c) \/ TakeState(c) \/ SsoRoles(c)
  BY <1>1, <1>4 DEF PruneStates, PersistState, TakeState, SsoRoles, SameKeys, Shape
<1>5. CASE LoadState(c) \/ ForgetState(c) \/ Exchange(c)
  BY <1>1, <1>5 DEF LoadState, ForgetState, Exchange, SameKeys, Shape
<1>6. CASE VerifyToken(c) \/ CheckRoles(c) \/ MatchEmail(c) \/ MatchName(c) \/ CachedKey(c) \/ FetchKeys(c)
  <2>1. InState /\ external' = external
    BY <1>6 DEF VerifyToken, CheckRoles, MatchEmail, MatchName, CachedKey, FetchKeys
  <2> QED BY <1>1, <1>2, <2>1
<1>7. CASE Provision(c)
  BY <1>7 DEF Provision, SameGrants, SameKeys, RightsStep, grantVars
<1>8. CASE ApplyRoles(c) \/ SetSetting(c) \/ StoreSetting(c)
  BY <1>1, <1>8 DEF ApplyRoles, SetSetting, StoreSetting, SameKeys, Shape
<1>9. CASE SyncFlags(c)
  BY <1>9 DEF SyncFlags, SameGrants, SameKeys, RightsStep, grantVars
<1>10. CASE LoggedFailure(c)
  BY <1>10 DEF LoggedFailure, SameGrants, SameRights, SameKeys, grantVars, userVars
<1>11. CASE StoreKeys(c)
  BY <1>1, <1>11 DEF StoreKeys
<1> QED BY <1>3, <1>4, <1>5, <1>6, <1>7, <1>8, <1>9, <1>10, <1>11 DEF LoginStep

\* What a step of a request does to tokens, rights and keys.
Leaves(c) ==
    /\ SameGrants \/ GrantStep(c)
    /\ SameRights \/ RightsStep(c)
    /\ SameKeys \/ StoreKeys(c)
    /\ now' = now
LEMMA StepLeaves ==
    ASSUME Shape, NEW c, AccountsStep(c) \/ LoginStep(c)
    PROVE  Leaves(c)
<1>1. CASE AuthenticationStep(c)
  BY <1>1, AuthenticationLeaves DEF Leaves, SameKeys
<1>2. CASE SessionStep(c)
  BY <1>2, SessionLeaves DEF Leaves, SameKeys, GrantStep
<1>3. CASE UserStep(c)
  BY <1>3, UserLeaves DEF Leaves, SameKeys, GrantStep
<1>4. CASE PasswordStep(c)
  BY <1>4, PasswordLeaves DEF Leaves, SameKeys
<1>5. CASE TokenStep(c)
  BY <1>5, TokenLeaves DEF Leaves, SameKeys
<1>6. CASE StepFails(c)
  BY <1>6 DEF StepFails, Leaves, SameGrants, SameRights, SameKeys, userVars, grantVars
<1>7. CASE LoginStep(c)
  BY <1>7, LoginLeaves DEF Leaves
<1> QED BY <1>1, <1>2, <1>3, <1>4, <1>5, <1>6, <1>7 DEF AccountsStep

\* Most steps keep who sent the request and his token, and answer nothing yet.
Holding(c) ==
    \/ Idle(c)'
    \/ /\ job'[c].code = job[c].code /\ job'[c].caller = job[c].caller
       /\ job'[c].token = job[c].token

\* The ways to go on that keep them.
LEMMA HoldingForms ==
    ASSUME JobShape, NEW c \in Clients
    PROVE  /\ \A code : Reply(c, code) => Holding(c)
           /\ \A p : Goto(c, p) => Holding(c)
           /\ Advance(c) => Holding(c)
           /\ \A ok, code : AdvanceOr(c, ok, code) => Holding(c)
           /\ \A rs, m : Relies(c, rs, m) => Holding(c)
           /\ \A p, m : job' = [job EXCEPT ![c].plan = p, ![c].mem = m] => Holding(c)
           /\ \A p, a : job' = [job EXCEPT ![c].plan = p, ![c].arg = a] => Holding(c)
<1>1. ASSUME NEW code, Reply(c, code) PROVE Holding(c)
  BY <1>1, Replies DEF Holding
<1>2. ASSUME NEW p, Goto(c, p) PROVE Holding(c)
  BY <1>2 DEF Goto, Holding, JobShape, Fields
<1>3. Advance(c) => Holding(c)
  BY <1>2 DEF Advance
<1>4. ASSUME NEW ok, NEW code, AdvanceOr(c, ok, code) PROVE Holding(c)
  BY <1>1, <1>3, <1>4 DEF AdvanceOr
<1>5. ASSUME NEW rs, NEW m, Relies(c, rs, m) PROVE Holding(c)
  BY <1>5 DEF Relies, Holding, JobShape, Fields
<1>6. ASSUME NEW p, NEW m, job' = [job EXCEPT ![c].plan = p, ![c].mem = m] PROVE Holding(c)
  BY <1>6 DEF Holding, JobShape, Fields
<1>7. ASSUME NEW p, NEW a, job' = [job EXCEPT ![c].plan = p, ![c].arg = a] PROVE Holding(c)
  BY <1>7 DEF Holding, JobShape, Fields
<1> QED BY <1>1, <1>2, <1>3, <1>4, <1>5, <1>6, <1>7

\* The steps of authentication, of sessions, users and passwords,
LEMMA RoutesHold ==
    ASSUME JobShape, NEW c \in Clients,
           AuthenticationStep(c) \/ SessionStep(c) \/ UserStep(c) \/ PasswordStep(c)
    PROVE  Holding(c) \/ LearningStep(c)
<1>1. CASE AuthenticationStep(c)
  <2>1. CASE Identify(c)
    BY <2>1, HoldingForms DEF Identify
  <2>2. CASE Caller(c)
    BY <2>2 DEF LearningStep
  <2>3. CASE BySession(c) \/ OnlySession(c) \/ ByManager(c) \/ BySystem(c) \/ Looks(c)
    BY <2>3, HoldingForms DEF BySession, OnlySession, ByManager, BySystem, Looks
  <2> QED BY <1>1, <2>1, <2>2, <2>3 DEF AuthenticationStep
<1>2. CASE SessionStep(c)
  <2>1. CASE Login(c) \/ CreateSession(c) \/ DeleteSession(c) \/ RemoveSessions(c)
    BY <2>1, HoldingForms DEF Login, CreateSession, DeleteSession, RemoveSessions
  <2>2. CASE ListSessions(c) \/ CleanList(c) \/ CleanTokens(c)
    BY <2>2, HoldingForms DEF ListSessions, CleanList, CleanTokens
  <2> QED BY <1>2, <2>1, <2>2 DEF SessionStep
<1>3. CASE UserStep(c)
  <2>1. CASE FindUser(c) \/ CountAdmins(c) \/ SetActive(c) \/ DeleteUser(c) \/ Answers(c) \/ CheckName(c)
    BY <2>1, HoldingForms DEF FindUser, CountAdmins, SetActive, DeleteUser, Answers, CheckName
  <2>2. CASE CheckEmail(c) \/ InsertUser(c) \/ Reread(c) \/ SetFlags(c) \/ SetPermission(c)
    BY <2>2, HoldingForms DEF CheckEmail, InsertUser, Reread, SetFlags, SetPermission
  <2>3. CASE SetEmail(c) \/ SetName(c)
    BY <2>3, HoldingForms DEF SetEmail, SetName, SetColumn
  <2>4. CASE AsCaller(c)
    BY <2>4 DEF AsCaller, Holding, JobShape, Fields
  <2> QED BY <1>3, <2>1, <2>2, <2>3, <2>4 DEF UserStep
<1>4. CASE PasswordStep(c)
  <2>1. CASE SetPassword(c) \/ CheckPassword(c) \/ FindEmail(c) \/ CreateReset(c)
    BY <2>1, HoldingForms DEF SetPassword, CheckPassword, FindEmail, CreateReset
  <2>2. CASE FindReset(c) \/ ResetUser(c) \/ SetUsed(c) \/ CheckReset(c)
    BY <2>2, HoldingForms DEF FindReset, ResetUser, SetUsed, CheckReset
  <2> QED BY <1>4, <2>1, <2>2 DEF PasswordStep
<1> QED BY <1>1, <1>2, <1>3, <1>4

\* those about tokens,
LEMMA TokensHold ==
    ASSUME JobShape, NEW c \in Clients, TokenStep(c)
    PROVE  Holding(c) \/ LearningStep(c)
<1>2. CASE InsertScope(c)
  <2>1. \/ Advance(c) \/ Reply(c, 500)
        \/ \E a : job' = [job EXCEPT ![c].mem.left = @ \ {a}]
    BY <1>2 DEF InsertScope
  <2>2. ASSUME NEW a, job' = [job EXCEPT ![c].mem.left = @ \ {a}] PROVE Holding(c)
    BY <2>2 DEF Holding, JobShape, Fields
  <2> QED BY <2>1, <2>2, HoldingForms
<1>3. CASE InsertToken(c) \/ InsertRepositories(c) \/ FindToken(c) \/ DeleteToken(c) \/ Anonymous(c)
           \/ CacheToken(c)
  BY <1>3, HoldingForms DEF InsertToken, InsertRepositories, FindToken, DeleteToken, Anonymous, CacheToken
<1>4. CASE Rights(c) \/ TokenRights(c) \/ DockerToken(c)
  BY <1>4, HoldingForms DEF Rights, TokenRights, DockerToken
<1>5. CASE VerifyBasic(c) \/ CachedToken(c) \/ ReadToken(c) \/ ReadOwner(c)
  BY <1>5 DEF LearningStep
<1> QED BY <1>2, <1>3, <1>4, <1>5 DEF TokenStep

\* and those of the external logins.
LEMMA LoginsHold ==
    ASSUME JobShape, NEW c \in Clients, LoginStep(c)
    PROVE  Holding(c)
<1>1. CASE BeginAuthorization(c) \/ PruneStates(c) \/ PersistState(c) \/ LoadState(c) \/ Exchange(c)
  BY <1>1, HoldingForms DEF BeginAuthorization, PruneStates, PersistState, LoadState, Exchange, Goes, Skips
<1>2. CASE ForgetState(c) \/ VerifyToken(c) \/ SyncFlags(c) \/ LoggedFailure(c)
  BY <1>2, HoldingForms DEF ForgetState, VerifyToken, SyncFlags, LoggedFailure
<1>3. CASE CachedKey(c) \/ FetchKeys(c) \/ StoreKeys(c) \/ SsoRoles(c) \/ SetSetting(c) \/ StoreSetting(c)
  BY <1>3, HoldingForms DEF CachedKey, FetchKeys, StoreKeys, SsoRoles, SetSetting, StoreSetting, Goes
<1>4. CASE TakeState(c)
  <2>1. \/ Advance(c) \/ Reply(c, 404)
        \/ job' = [job EXCEPT ![c].plan = SkipTo(c, "exchange"), ![c].reads = {StateOf(c)},
                              ![c].mem = [row |-> FALSE]]
    BY <1>4 DEF TakeState
  <2>2. ASSUME NEW p, NEW r, NEW m, job' = [job EXCEPT ![c].plan = p, ![c].reads = r, ![c].mem = m]
        PROVE  Holding(c)
    BY <2>2 DEF Holding, JobShape, Fields
  <2> QED BY <2>1, <2>2, HoldingForms
<1>5. CASE CheckRoles(c) \/ ApplyRoles(c)
  <2>1. (\E code : Reply(c, code)) \/ \E p, a : job' = [job EXCEPT ![c].plan = p, ![c].arg = a]
    BY <1>5 DEF CheckRoles, ApplyRoles, Denied
  <2> QED BY <2>1, HoldingForms
<1>6. ASSUME NEW u, NEW step, Admit(c, u, step) PROVE Holding(c)
  <2>1. (\E code : Reply(c, code)) \/ \E p, m, r : job' = [job EXCEPT ![c].plan = p, ![c].mem = m,
                                                               ![c].reads = @ \cup r]
    BY <1>6 DEF Admit, Denied
  <2>2. ASSUME NEW p, NEW m, NEW r, job' = [job EXCEPT ![c].plan = p, ![c].mem = m, ![c].reads = @ \cup r]
        PROVE  Holding(c)
    BY <2>2 DEF Holding, JobShape, Fields
  <2> QED BY <2>1, <2>2, HoldingForms
<1>7. CASE MatchEmail(c) \/ MatchName(c)
  BY <1>6, <1>7, HoldingForms DEF MatchEmail, MatchName, Denied
<1>8. CASE Provision(c)
  <2>1. \/ \E code : Reply(c, code)
        \/ \E rs, m : Relies(c, rs, m)
        \/ job' = [job EXCEPT ![c].mem.attempt = @ + 1]
    BY <1>8 DEF Provision
  <2>2. ASSUME job' = [job EXCEPT ![c].mem.attempt = @ + 1] PROVE Holding(c)
    BY <2>2 DEF Holding, JobShape, Fields
  <2> QED BY <2>1, <2>2, HoldingForms
<1> QED BY <1>1, <1>2, <1>3, <1>4, <1>5, <1>7, <1>8 DEF LoginStep

\* A step keeps the caller, unless it is the one by which it learns him.
LEMMA StepHolds ==
    ASSUME JobShape, NEW c \in Clients, AccountsStep(c) \/ LoginStep(c)
    PROVE  Holding(c) \/ LearningStep(c)
<1>1. StepFails(c) => Holding(c)
  BY HoldingForms DEF StepFails
<1> QED BY <1>1, RoutesHold, TokensHold, LoginsHold DEF AccountsStep

\* The steps the caches are about are told from the others by their names.
CacheSteps == {"rights", "tokenRights", "readOwner", "fetchKeys", "cachedKey"}
Elsewhere(c) == \E x \in Steps \ CacheSteps : At(c, x)

\* The other steps are not among them.
LEMMA RoutesElsewhere ==
    ASSUME NEW c, AuthenticationStep(c) \/ SessionStep(c) \/ UserStep(c) \/ PasswordStep(c)
    PROVE  Elsewhere(c)
<1> DEFINE S1 == {"identify", "caller", "bySession", "onlySession", "byManager", "bySystem", "look"}
           S2 == {"verify", "createSession", "deleteSession", "listSessions", "removeSessions",
                  "cleanList", "cleanTokens"}
           S3 == {"findUser", "countAdmins", "setActive", "deleteUser", "answer", "asCaller", "checkName",
                  "checkEmail", "insertUser", "setEmail", "setName", "reread", "setFlags", "setPermission"}
           S4 == {"setPassword", "checkPassword", "findEmail", "createReset", "findReset",
                  "resetUser", "setUsed", "checkReset"}
<1>1. AuthenticationStep(c) => \E x \in S1 : At(c, x)
  BY DEF AuthenticationStep, Identify, Caller, BySession, OnlySession, ByManager, BySystem, Looks
<1>2. SessionStep(c) => \E x \in S2 : At(c, x)
  BY DEF SessionStep, Login, CreateSession, DeleteSession, ListSessions, RemoveSessions, CleanList,
         CleanTokens
<1>3. UserStep(c) => \E x \in S3 : At(c, x)
  BY DEF UserStep, FindUser, CountAdmins, SetActive, DeleteUser, Answers, AsCaller, CheckName,
         CheckEmail, InsertUser, SetEmail, SetName, Reread, SetFlags, SetPermission
<1>4. PasswordStep(c) => \E x \in S4 : At(c, x)
  BY DEF PasswordStep, SetPassword, CheckPassword, FindEmail, CreateReset, FindReset, ResetUser,
         SetUsed, CheckReset
<1>5. S1 \cup S2 \cup S3 \cup S4 \subseteq Steps \ CacheSteps
  BY DEF Steps, CacheSteps
<1> HIDE DEF S1, S2, S3, S4
<1>6. PICK x \in S1 \cup S2 \cup S3 \cup S4 : At(c, x)
  BY <1>1, <1>2, <1>3, <1>4
<1> QED BY <1>5, <1>6 DEF Elsewhere

\* Nor are those about tokens, but three,
LEMMA TokensElsewhere ==
    ASSUME NEW c, TokenStep(c)
    PROVE  \/ Elsewhere(c)
           \/ Rights(c) /\ At(c, "rights")
           \/ TokenRights(c) /\ At(c, "tokenRights")
           \/ ReadOwner(c) /\ At(c, "readOwner")
<1> DEFINE S == {"insertToken", "insertScopes", "insertRepositories", "findToken", "deleteToken",
                 "anonymous", "verifyBasic", "cachedToken", "readToken", "cacheToken", "dockerToken"}
<1>1. \/ \E x \in S : At(c, x)
      \/ Rights(c) \/ TokenRights(c) \/ ReadOwner(c)
  BY DEF TokenStep, InsertToken, InsertScope, InsertRepositories, FindToken, DeleteToken, Anonymous,
         VerifyBasic, CachedToken, ReadToken, CacheToken, DockerToken
<1>2. S \subseteq Steps \ CacheSteps
  BY DEF Steps, CacheSteps
<1>3. /\ Rights(c) => At(c, "rights")
      /\ TokenRights(c) => At(c, "tokenRights")
      /\ ReadOwner(c) => At(c, "readOwner")
  BY DEF Rights, TokenRights, ReadOwner
<1> QED BY <1>1, <1>2, <1>3 DEF Elsewhere

\* and those of the external logins, but two.
LEMMA LoginsElsewhere ==
    ASSUME NEW c, LoginStep(c)
    PROVE  \/ Elsewhere(c)
           \/ FetchKeys(c) /\ At(c, "fetchKeys")
           \/ CachedKey(c) /\ At(c, "cachedKey")
<1> DEFINE S == {"begin", "prune", "persist", "take", "load", "exchange", "forget", "verifyToken",
                 "checkRoles", "matchEmail", "matchName", "provision", "applyRoles", "syncFlags",
                 "ssoRoles", "storeKeys", "setSetting", "storeSetting"}
<1>1. ASSUME BeginAuthorization(c) \/ PruneStates(c) \/ PersistState(c) \/ TakeState(c) \/ LoadState(c)
             \/ Exchange(c) \/ ForgetState(c)
      PROVE  \E x \in S : At(c, x)
  BY <1>1 DEF BeginAuthorization, PruneStates, PersistState, TakeState, LoadState, Exchange, ForgetState
<1>2. ASSUME VerifyToken(c) \/ CheckRoles(c) \/ MatchEmail(c) \/ MatchName(c) \/ Provision(c)
             \/ ApplyRoles(c) \/ SyncFlags(c)
      PROVE  \E x \in S : At(c, x)
  BY <1>2 DEF VerifyToken, CheckRoles, MatchEmail, MatchName, Provision, ApplyRoles, SyncFlags
<1>3. ASSUME LoggedFailure(c) \/ StoreKeys(c) \/ SsoRoles(c) \/ SetSetting(c) \/ StoreSetting(c)
      PROVE  \E x \in S : At(c, x)
  BY <1>3 DEF LoggedFailure, StoreKeys, SsoRoles, SetSetting, StoreSetting
<1>4. S \subseteq Steps \ CacheSteps
  BY DEF Steps, CacheSteps
<1>5. (FetchKeys(c) => At(c, "fetchKeys")) /\ (CachedKey(c) => At(c, "cachedKey"))
  BY DEF FetchKeys, CachedKey
<1> QED BY <1>1, <1>2, <1>3, <1>4, <1>5 DEF LoginStep, Elsewhere

\* What a request does at one of these steps, unless it fails.
DoesAt(c) ==
    /\ At(c, "rights") => Rights(c)
    /\ At(c, "tokenRights") => TokenRights(c)
    /\ At(c, "readOwner") => ReadOwner(c)
    /\ At(c, "fetchKeys") => FetchKeys(c)
    /\ At(c, "cachedKey") => CachedKey(c)
LEMMA StepNamed ==
    ASSUME NEW c, AccountsStep(c) \/ LoginStep(c)
    PROVE  StepFails(c) \/ DoesAt(c)
<1>1. ASSUME NEW x, NEW y, At(c, x), At(c, y) PROVE x = y
  BY <1>1 DEF At
<1>2. ASSUME Elsewhere(c) PROVE DoesAt(c)
  <2>1. PICK x \in Steps \ CacheSteps : At(c, x)
    BY <1>2 DEF Elsewhere
  <2>2. \A y \in CacheSteps : ~At(c, y)
    BY <1>1, <2>1
  <2> QED BY <2>2 DEF DoesAt, CacheSteps
<1>3. ASSUME \/ Rights(c) /\ At(c, "rights")
             \/ TokenRights(c) /\ At(c, "tokenRights")
             \/ ReadOwner(c) /\ At(c, "readOwner")
             \/ FetchKeys(c) /\ At(c, "fetchKeys")
             \/ CachedKey(c) /\ At(c, "cachedKey")
      PROVE  DoesAt(c)
  BY <1>1, <1>3 DEF DoesAt
<1> QED BY <1>2, <1>3, RoutesElsewhere, TokensElsewhere, LoginsElsewhere DEF AccountsStep

\* What the invariants of the caches see of a step of the system.
Runs(c) == /\ ~Idle(c) /\ Proceeds(c) /\ Leaves(c) /\ Counts
           /\ Holding(c) \/ LearningStep(c)
           /\ StepFails(c) \/ DoesAt(c)
Comes(c) == /\ Idle(c) /\ Arrival(c) /\ SameGrants /\ SameRights /\ SameKeys /\ now' = now /\ Counts
            /\ job'[c].code = 0 /\ job'[c].caller = NoRow /\ job'[c].token = NoRow
LEMMA CacheKinds ==
    ASSUME Shape, [Next]_vars
    PROVE  \/ \E c \in Clients : Runs(c) \/ Comes(c)
           \/ Ticks \/ KeysRotate \/ Restart \/ UNCHANGED vars
<1>1. ASSUME NEW c \in Clients, AccountsStep(c) \/ LoginStep(c) PROVE Runs(c)
  <2>1. Proceeds(c) /\ ~Idle(c) /\ Leaves(c)
    BY <1>1, StepMoves, StepLeaves DEF Shape
  <2>2. Holding(c) \/ LearningStep(c)
    BY <1>1, StepHolds DEF Shape
  <2>3. StepFails(c) \/ DoesAt(c)
    BY <1>1, StepNamed
  <2>4. Counts
    BY <1>1, StepDoes, FailureDoes DEF Does, Effects
  <2> QED BY <2>1, <2>2, <2>3, <2>4 DEF Runs
<1>2. ASSUME NEW c \in Clients, AccountsRequest(c) \/ (Free(c) /\ LoginRequest(c)) PROVE Comes(c)
  <2>1. Arrival(c) /\ Idle(c)
    BY <1>2, RequestArrived DEF AccountsRequest, Free, Arrival
  <2>2. PICK j : Start(c, j) /\ Arrives(j)
    BY <2>1 DEF Arrival, Arrived
  <2>3. job'[c] = j
    BY <2>2 DEF Start, Shape, JobShape
  <2>4. SameGrants /\ SameRights /\ SameKeys /\ now' = now
    BY <2>2 DEF Start, SameGrants, SameRights, SameKeys, userVars, grantVars, historyVars
  <2>5. Counts
    BY <2>1, ArrivalFacts
  <2> QED BY <2>1, <2>2, <2>3, <2>4, <2>5 DEF Comes, Arrives
<1> QED BY <1>1, <1>2 DEF Next

------------------------------------------------------------------------------
(* What the caches answer: the tokens.                                         *)

\* A token keeps its expiry, and a new one has an id nobody has.
TokensKept ==
    \A t \in DOMAIN tokens' :
      /\ "expires" \in DOMAIN tokens'[t]
      /\ \/ t \in DOMAIN tokens /\ tokens'[t].expires = tokens[t].expires
         \/ t = NewId /\ used'.ids = NewId
\* The cache keeps what it has; a request adds the token it has read.
CacheKept(c) ==
    \A t \in DOMAIN cache' :
      \/ t \in DOMAIN cache /\ cache'[t] = cache[t]
      \/ /\ At(c, "cacheToken")
         /\ cache'[t] = [token |-> job[c].token, owner |-> job[c].caller, until |-> now + CacheTtl]

\* Every step keeps tokens so,
LEMMA TokensStay ==
    ASSUME Shape, TokensInv, NEW c, SameGrants \/ GrantStep(c)
    PROVE  TokensKept
<1>1. \A t \in DOMAIN tokens : "expires" \in DOMAIN tokens[t]
  BY DEF TokensInv
<1>2. ASSUME tokens' = tokens PROVE TokensKept
  BY <1>1, <1>2 DEF TokensKept
<1>3. ASSUME NEW S, tokens' = Keep(tokens, S) PROVE TokensKept
  BY <1>1, <1>3 DEF TokensKept, Keep
<1>4. CASE CleanTokens(c) \/ DeleteUser(c) \/ DeleteToken(c)
  BY <1>3, <1>4 DEF CleanTokens, DeleteUser, DeleteToken, Drop
<1>5. CASE InsertToken(c) /\ tokens' # tokens
  <2>1. PICK row : /\ row = [user |-> job[c].caller.id, expires |-> now + Arg(c).life,
                            scopes |-> {}, repos |-> EmptyMap]
                  /\ tokens' = Put(tokens, NewId, row) /\ TakesId
    BY <1>5 DEF InsertToken
  <2>2. "expires" \in DOMAIN row /\ used'.ids = NewId
    BY <2>1 DEF TakesId, Shape, NewId
  <2>3. /\ DOMAIN tokens' = DOMAIN tokens \cup {NewId} /\ tokens'[NewId] = row
        /\ \A t \in DOMAIN tokens \ {NewId} : tokens'[t] = tokens[t]
    BY <2>1 DEF Put
  <2> QED BY <1>1, <2>2, <2>3 DEF TokensKept
<1>6. CASE InsertScope(c) \/ InsertRepositories(c)
  <2>1. \/ tokens' = tokens \/ \E t, a : tokens' = [tokens EXCEPT ![t].scopes = @ \cup {a}]
        \/ \E t : tokens' = [tokens EXCEPT ![t].repos = Put(@, Arg(c).repo, Arg(c).actions)]
    BY <1>6 DEF InsertScope, InsertRepositories
  <2>2. ASSUME NEW t, NEW a, tokens' = [tokens EXCEPT ![t].scopes = @ \cup {a}] PROVE TokensKept
    BY <1>1, <2>2 DEF TokensKept
  <2>3. ASSUME NEW t, tokens' = [tokens EXCEPT ![t].repos = Put(@, Arg(c).repo, Arg(c).actions)]
        PROVE  TokensKept
    BY <1>1, <2>3 DEF TokensKept
  <2> QED BY <1>2, <2>1, <2>2, <2>3
<1>7. CASE CachedToken(c) \/ CacheToken(c)
  BY <1>2, <1>7 DEF CachedToken, CacheToken, InTables
<1> QED BY <1>2, <1>4, <1>5, <1>6, <1>7 DEF SameGrants, GrantStep

\* and the cache so.
LEMMA CacheStays ==
    ASSUME NEW c, SameGrants \/ GrantStep(c)
    PROVE  CacheKept(c)
<1>1. ASSUME cache' = cache PROVE CacheKept(c)
  BY <1>1 DEF CacheKept
<1>2. CASE CleanTokens(c) \/ DeleteUser(c) \/ InsertToken(c) \/ InsertScope(c) \/ InsertRepositories(c)
           \/ DeleteToken(c)
  BY <1>1, <1>2 DEF CleanTokens, DeleteUser, InsertToken, InsertScope, InsertRepositories, DeleteToken
<1>3. CASE CachedToken(c)
  <2>1. cache' = cache \/ \E t : cache' = Drop(cache, {t})
    BY <1>3 DEF CachedToken
  <2>2. ASSUME NEW t, cache' = Drop(cache, {t}) PROVE CacheKept(c)
    BY <2>2 DEF CacheKept, Drop, Keep
  <2> QED BY <1>1, <2>1, <2>2
<1>4. CASE CacheToken(c)
  <2> DEFINE e == [token |-> job[c].token, owner |-> job[c].caller, until |-> now + CacheTtl]
  <2>1. At(c, "cacheToken") /\ cache' = Put(cache, job[c].cred.id, e)
    BY <1>4 DEF CacheToken
  <2> HIDE DEF e
  <2>2. \A t \in DOMAIN cache' : (t \in DOMAIN cache /\ cache'[t] = cache[t]) \/ cache'[t] = e
    BY <2>1 DEF Put
  <2> QED BY <2>1, <2>2 DEF CacheKept, e
<1> QED BY <1>1, <1>2, <1>3, <1>4 DEF SameGrants, GrantStep

\* What a request learns: who the caller is and, with a token, until when.
LEMMA Learned ==
    ASSUME JobShape, NEW c \in Clients, LearningStep(c)
    PROVE  \/ Idle(c)'
           \/ /\ job'[c].code = job[c].code
              /\ \/ job'[c].token = job[c].token
                 \/ \E t \in DOMAIN cache : now < cache[t].token.expires /\ job'[c].token = cache[t].token
                 \/ \E t : TokenValid(t) /\ job'[c].token = Put(tokens[t], "id", t)
              /\ \/ job'[c].caller = job[c].caller
                 \/ \E u \in DOMAIN users : job'[c].caller = RowOf(u)
                 \/ \E t \in DOMAIN cache : now < cache[t].until /\ job'[c].caller = cache[t].owner
<1>1. ASSUME NEW code, Reply(c, code) PROVE Idle(c)'
  BY <1>1, Replies
<1>2. ASSUME NEW p, NEW row, job' = [job EXCEPT ![c].plan = p, ![c].caller = row]
      PROVE  job'[c].code = job[c].code /\ job'[c].token = job[c].token /\ job'[c].caller = row
  BY <1>2 DEF JobShape, Fields
<1>3. ASSUME NEW p, NEW k, job' = [job EXCEPT ![c].plan = p, ![c].token = k]
      PROVE  job'[c].code = job[c].code /\ job'[c].token = k /\ job'[c].caller = job[c].caller
  BY <1>3 DEF JobShape, Fields
<1>4. ASSUME NEW p, NEW row, NEW k, job' = [job EXCEPT ![c].plan = p, ![c].caller = row, ![c].token = k]
      PROVE  job'[c].code = job[c].code /\ job'[c].token = k /\ job'[c].caller = row
  BY <1>4 DEF JobShape, Fields
<1>5. Advance(c) => /\ job'[c].code = job[c].code /\ job'[c].token = job[c].token
                    /\ job'[c].caller = job[c].caller
  BY DEF Advance, Goto, JobShape, Fields
<1>6. CASE Caller(c)
  <2>1. \/ Reply(c, 401)
        \/ /\ job[c].mem.id \in DOMAIN users
           /\ job' = [job EXCEPT ![c].plan = Rest(c), ![c].caller = RowOf(job[c].mem.id)]
    BY <1>6 DEF Caller, Refused
  <2> QED BY <1>1, <1>2, <2>1
<1>7. CASE VerifyBasic(c)
  <2> DEFINE found == {u \in DOMAIN users : Verifies(job[c].cred.name, job[c].cred.secret, u)}
  <2>1. \/ Advance(c)
        \/ /\ found # {}
           /\ job' = [job EXCEPT ![c].plan = SkipTo(c, "rights"), ![c].caller = RowOf(The(found))]
    BY <1>7 DEF VerifyBasic
  <2>2. found # {} => The(found) \in DOMAIN users
    BY DEF The
  <2> HIDE DEF found
  <2> QED BY <1>2, <1>5, <2>1, <2>2
<1>8. CASE CachedToken(c)
  <2> DEFINE t == job[c].cred.id
  <2>1. \/ Advance(c) \/ Reply(c, 401)
        \/ /\ t \in DOMAIN cache /\ now < cache[t].until /\ now < cache[t].token.expires
           /\ job' = [job EXCEPT ![c].plan = SkipTo(c, "rights"), ![c].caller = cache[t].owner,
                                 ![c].token = cache[t].token]
    BY <1>8 DEF CachedToken, CacheHit, CacheUsable
  <2> HIDE DEF t
  <2>4. CASE /\ t \in DOMAIN cache /\ now < cache[t].until /\ now < cache[t].token.expires
             /\ job' = [job EXCEPT ![c].plan = SkipTo(c, "rights"), ![c].caller = cache[t].owner,
                                   ![c].token = cache[t].token]
    <3>1. /\ job'[c].code = job[c].code /\ job'[c].token = cache[t].token
          /\ job'[c].caller = cache[t].owner
      BY <1>4, <2>4
    <3> QED BY <2>4, <3>1
  <2> QED BY <1>1, <1>5, <2>1, <2>4
<1>9. CASE ReadToken(c)
  <2> DEFINE t == job[c].cred.id
  <2>1. \/ Reply(c, 401)
        \/ /\ TokenValid(t)
           /\ job' = [job EXCEPT ![c].plan = Rest(c), ![c].token = Put(tokens[t], "id", t)]
    BY <1>9 DEF ReadToken
  <2> HIDE DEF t
  <2> QED BY <1>1, <1>3, <2>1
<1>10. CASE ReadOwner(c)
  <2> DEFINE u == job[c].token.user
  <2>1. \/ Reply(c, 401)
        \/ u \in DOMAIN users /\ job' = [job EXCEPT ![c].plan = Rest(c), ![c].caller = RowOf(u)]
    BY <1>10 DEF ReadOwner
  <2> HIDE DEF u
  <2> QED BY <1>1, <1>2, <2>1
<1> QED BY <1>6, <1>7, <1>8, <1>9, <1>10 DEF LearningStep

\* A copy stays a copy.
LEMMA CopiedStays ==
    ASSUME Shape, Counts, TokensKept, NEW token, Copied(token)
    PROVE  Copied(token)'
<1>1. used.ids \in Nat /\ used'.ids \in Nat /\ used.ids <= used'.ids /\ NewId = used.ids + 1
  BY DEF Shape, Counts, NewId
<1>2. token.id \in Nat /\ token.id <= used'.ids /\ token.id # NewId
  BY <1>1 DEF Copied
<1>3. token.id \in DOMAIN tokens' => tokens'[token.id].expires = token.expires
  BY <1>2 DEF Copied, TokensKept
<1> QED BY <1>2, <1>3 DEF Copied

\* Nobody's token is a copy of none.
LEMMA NobodyCopied == ASSUME Shape, TokensInv PROVE Copied(NoRow) /\ NoRow.id = 0
BY DEF Shape, TokensInv, Copied, NoRow

\* What has been read of a token is a copy of it.
LEMMA ReadCopied ==
    ASSUME Shape, TokensInv, NEW t, TokenValid(t)
    PROVE  LET k == Put(tokens[t], "id", t) IN Copied(k) /\ now < k.expires
<1> DEFINE k == Put(tokens[t], "id", t)
<1>1. t \in DOMAIN tokens /\ "expires" \in DOMAIN tokens[t] /\ t \in Nat /\ t <= used.ids
      /\ now < tokens[t].expires
  BY DEF TokenValid, TokensInv
<1>2. k.id = t /\ k.expires = tokens[t].expires
  BY <1>1 DEF Put
<1> HIDE DEF k
<1>3. Copied(k) /\ now < k.expires
  BY <1>1, <1>2 DEF Copied
<1> QED BY <1>3 DEF k

\* A request that is not moved by a step serves as before, and the one that moves served before.
LEMMA ServedBefore ==
    ASSUME Shape, NEW c \in Clients, Runs(c), NEW d \in Clients, Serving(d)'
    PROVE  /\ Serving(d)
           /\ d # c => job'[d] = job[d]
<1>1. d # c => job'[d] = job[d]
  BY DEF Runs, Proceeds, Alone
<1>2. CASE d # c
  BY <1>1, <1>2 DEF Serving, Idle
<1>3. CASE d = c
  <2>1. ~Idle(c) /\ Moved(job[c], job'[c]) /\ job'[c].plan # <<>>
    BY <1>3 DEF Runs, Proceeds, Serving, Idle
  <2>2. job'[c].op = job[c].op
    BY <2>1 DEF Moved, Keeps
  <2> QED BY <1>3, <2>1, <2>2 DEF Serving
<1> QED BY <1>1, <1>2, <1>3

\* At these steps a request serves a repository.
LEMMA ServesAt ==
    ASSUME Shape, NEW c \in Clients, NEW x \in {"cacheToken", "rights", "tokenRights", "readOwner"},
           At(c, x)
    PROVE  Serving(c)
<1>1. Belongs(job[c].op, x) /\ ~Idle(c)
  BY BelongsAt DEF At, Idle
<1> QED BY <1>1 DEF Belongs, Serving

\* When nothing serves, nothing else about a request matters to the invariants of the caches.
LEMMA QuietServes ==
    ASSUME Shape, Ticks
    PROVE  \A c \in Clients : ~Serving(c)
BY DEF Ticks, Serving

\* At first no token has been read.
LEMMA TokensInitial == ASSUME Init PROVE TokensInv
<1>1. \A c \in Clients : ~Serving(c)
  BY DEF Init, AccountsInit, Serving, Idle, NoJob
<1>2. used.ids = 3 /\ cache = EmptyMap
  BY DEF Init, AccountsInit
<1>3. tokens = EmptyMap \/ tokens = [t \in {3} |-> FirstToken]
  BY DEF Init, AccountsInit
<1>4. "expires" \in DOMAIN FirstToken
  BY DEF FirstToken
<1>5. DOMAIN EmptyMap = {}
  BY DEF EmptyMap
<1> QED BY <1>1, <1>2, <1>3, <1>4, <1>5 DEF TokensInv

\* Copies of tokens, in the cache and in requests, stay copies.
LEMMA TokensFollow ==
    ASSUME Shape, TokensInv, Counts, TokensKept,
           \A t \in DOMAIN cache' : Copied(cache'[t].token),
           \A c \in Clients : Serving(c)' =>
             now' = now /\ Copied(job'[c].token) /\ (job'[c].token.id # 0 => now < job'[c].token.expires)
    PROVE  TokensInv'
<1>1. used.ids \in Nat /\ used'.ids \in Nat /\ used.ids <= used'.ids /\ NewId = used.ids + 1
  BY DEF Shape, Counts, NewId
<1>2. ASSUME NEW t \in DOMAIN tokens'
      PROVE  t \in Nat /\ 0 < t /\ t <= used'.ids /\ "expires" \in DOMAIN tokens'[t]
  BY <1>1 DEF TokensKept, TokensInv
<1>3. ASSUME NEW k, Copied(k) PROVE Copied(k)'
  BY <1>3, CopiedStays
<1>4. ASSUME NEW t \in DOMAIN cache' PROVE Copied(cache[t].token)'
  <2>1. PICK k : k = cache'[t].token
    OBVIOUS
  <2> QED BY <1>3, <2>1 DEF Copied
<1>5. ASSUME NEW c \in Clients, Serving(c)'
      PROVE  Copied(job[c].token)' /\ (job'[c].token.id # 0 => now' < job'[c].token.expires)
  <2>1. PICK k : k = job'[c].token
    OBVIOUS
  <2> QED BY <1>3, <1>5, <2>1 DEF Copied
<1> QED BY <1>2, <1>4, <1>5 DEF TokensInv

\* A step of a request keeps them,
LEMMA TokensRun == ASSUME Shape, TokensInv, NEW c \in Clients, Runs(c) PROVE TokensInv'
<1>1. TokensKept /\ CacheKept(c) /\ Counts /\ now' = now
  BY TokensStay, CacheStays DEF Runs, Leaves
<1>2. ASSUME NEW t \in DOMAIN cache' PROVE Copied(cache'[t].token)
  <2>1. CASE t \in DOMAIN cache /\ cache'[t] = cache[t]
    BY <2>1 DEF TokensInv
  <2>2. CASE /\ At(c, "cacheToken")
             /\ cache'[t] = [token |-> job[c].token, owner |-> job[c].caller, until |-> now + CacheTtl]
    BY <2>2, ServesAt DEF TokensInv
  <2> QED BY <1>1, <2>1, <2>2 DEF CacheKept
<1>3. ASSUME NEW d \in Clients, Serving(d)'
      PROVE  Copied(job'[d].token) /\ (job'[d].token.id # 0 => now < job'[d].token.expires)
  <2>1. Serving(d) /\ (d # c => job'[d] = job[d])
    BY <1>3, ServedBefore
  <2>2. PICK k : k = job'[d].token
    OBVIOUS
  <2>3. CASE k = job[d].token
    BY <2>1, <2>2, <2>3 DEF TokensInv
  <2>4. CASE k # job[d].token
    <3>1. d = c /\ ~Idle(c)'
      BY <1>3, <2>1, <2>2, <2>4 DEF Serving
    <3>2. LearningStep(c)
      BY <2>2, <2>4, <3>1 DEF Runs, Holding
    <3>3. \/ \E t \in DOMAIN cache : now < cache[t].token.expires /\ k = cache[t].token
          \/ \E t : TokenValid(t) /\ k = Put(tokens[t], "id", t)
      BY <2>2, <2>4, <3>1, <3>2, Learned DEF Shape
    <3>4. Copied(k) /\ now < k.expires
      BY <3>3, ReadCopied DEF TokensInv
    <3> QED BY <2>2, <3>4
  <2> QED BY <2>3, <2>4
<1> QED BY <1>1, <1>2, <1>3, TokensFollow

\* so does one that leaves tokens, cache and requests alone,
LEMMA TokensSame ==
    ASSUME Shape, TokensInv, Counts, tokens' = tokens,
           \A t \in DOMAIN cache' : t \in DOMAIN cache /\ cache'[t] = cache[t],
           \A c \in Clients : Serving(c)' =>
             now' = now /\ (job'[c].token = NoRow \/ (Serving(c) /\ job'[c] = job[c]))
    PROVE  TokensInv'
<1>1. TokensKept
  BY DEF TokensKept, TokensInv
<1>2. \A t \in DOMAIN cache' : Copied(cache'[t].token)
  BY DEF TokensInv
<1>3. \A d \in Clients : Serving(d)' =>
        Copied(job'[d].token) /\ (job'[d].token.id # 0 => now < job'[d].token.expires)
  BY NobodyCopied DEF TokensInv
<1> QED BY <1>1, <1>2, <1>3, TokensFollow

\* and so does every step.
LEMMA TokensInvKept == ASSUME Shape, TokensInv, [Next]_vars PROVE TokensInv'
<1>1. ASSUME NEW c \in Clients, Comes(c) PROVE TokensInv'
  <2>1. Alone(c) /\ Counts /\ tokens' = tokens /\ cache' = cache /\ now' = now /\ job'[c].token = NoRow
    BY <1>1, ArrivalFacts DEF Comes, SameGrants
  <2>2. ASSUME NEW d \in Clients, Serving(d)'
        PROVE  job'[d].token = NoRow \/ (Serving(d) /\ job'[d] = job[d])
    <3>1. CASE d = c
      BY <2>1, <3>1
    <3>2. CASE d # c
      BY <2>1, <2>2, <3>2 DEF Alone, Serving, Idle
    <3> QED BY <3>1, <3>2
  <2> QED BY <2>1, <2>2, TokensSame
<1>2. CASE Ticks
  <2>1. tokens' = tokens /\ cache' = cache /\ job' = job /\ Counts
    BY <1>2 DEF Ticks, grantVars, Counts, Shape
  <2>2. \A c \in Clients : ~Serving(c)'
    BY <1>2, <2>1, QuietServes DEF Serving, Idle
  <2> QED BY <2>1, <2>2, TokensSame
<1>3. CASE KeysRotate \/ UNCHANGED vars
  <2>1. tokens' = tokens /\ cache' = cache /\ job' = job /\ used' = used /\ now' = now
        /\ DOMAIN external' = DOMAIN external
    BY <1>3 DEF KeysRotate, grantVars, vars, Shape
  <2>2. Counts
    BY <2>1 DEF Counts, Shape
  <2>3. \A c \in Clients : Serving(c)' => Serving(c) /\ job'[c] = job[c]
    BY <2>1 DEF Serving, Idle
  <2> QED BY <2>1, <2>2, <2>3, TokensSame
<1>4. CASE Restart
  <2>1. tokens' = tokens /\ cache' = EmptyMap /\ job' = [c \in Clients |-> NoJob] /\ Counts
    BY <1>4 DEF Restart, Counts, Shape
  <2>2. \A c \in Clients : ~Serving(c)'
    BY <2>1 DEF Serving, Idle, NoJob
  <2>3. DOMAIN cache' = {}
    BY <2>1 DEF EmptyMap
  <2> QED BY <2>1, <2>2, <2>3, TokensSame
<1> QED BY <1>1, <1>2, <1>3, <1>4, TokensRun, CacheKinds

------------------------------------------------------------------------------
(* What the caches answer: the rights.                                         *)

\* What a step may do to a user's rights: it changes them and says so, or leaves them alone.
NowTold(u) == <<"user", u>> \in DOMAIN changed' /\ changed'[<<"user", u>>] = now
SameTold(u) ==
    /\ <<"user", u>> \in DOMAIN changed' <=> <<"user", u>> \in DOMAIN changed
    /\ <<"user", u>> \in DOMAIN changed => changed'[<<"user", u>>] = changed[<<"user", u>>]
SameRow(u) ==
    /\ u \in DOMAIN users' <=> u \in DOMAIN users
    /\ u \in DOMAIN users => /\ users'[u].admin = users[u].admin /\ users'[u].system = users[u].system
                             /\ users'[u].defaults = users[u].defaults
SamePerms(u) ==
    \A r : /\ <<u, r>> \in DOMAIN perms' <=> <<u, r>> \in DOMAIN perms
           /\ <<u, r>> \in DOMAIN perms => perms'[<<u, r>>] = perms[<<u, r>>]
Columns == \A u \in DOMAIN users : RightsColumns \subseteq DOMAIN users[u]
Times == \A x \in DOMAIN changed : changed[x] \in Nat
RightsKept ==
    /\ Columns' /\ Times'
    /\ \A u \in Nat : u <= used.ids => NowTold(u) \/ (SameRow(u) /\ SamePerms(u) /\ SameTold(u))

\* What is written down about the users a step changes, and about the others.
LEMMA ChangedTells ==
    ASSUME NEW S, Changed(S), now \in Nat, Times
    PROVE  /\ Times'
           /\ \A u : IF <<"user", u>> \in S THEN NowTold(u) ELSE SameTold(u)
<1>1. /\ DOMAIN changed' = DOMAIN changed \cup S
      /\ \A x \in DOMAIN changed \cup S : changed'[x] = IF x \in S THEN now ELSE changed[x]
  BY DEF Changed
<1>2. Times'
  BY <1>1 DEF Times
<1> QED BY <1>1, <1>2 DEF NowTold, SameTold

\* A step that changes no permission, nor rows but that of user i, of whom it says so.
LEMMA OneChanged ==
    ASSUME now \in Nat, Columns, Times, NEW i, NEW S, Changed(S), <<"user", i>> \in S,
           \A u : u # i => <<"user", u>> \notin S /\ SameRow(u) /\ SamePerms(u), Columns'
    PROVE  RightsKept
BY ChangedTells DEF RightsKept

\* A step that only updates other columns.
LEMMA NoneChanged ==
    ASSUME Columns', Times', perms' = perms, \A u : SameTold(u),
           \A u \in Nat : u <= used.ids => SameRow(u)
    PROVE  RightsKept
BY DEF RightsKept, SamePerms

\* An update of some columns of one row keeps the others.
LEMMA RowUpdated ==
    ASSUME Columns, NEW i, NEW row, i \in DOMAIN users => RightsColumns \subseteq DOMAIN row,
           users' = [u \in DOMAIN users |-> IF u = i THEN row ELSE users[u]]
    PROVE  /\ Columns'
           /\ \A u : u # i => SameRow(u)
           /\ (i \in DOMAIN users => row.admin = users[i].admin /\ row.system = users[i].system
                                     /\ row.defaults = users[i].defaults) => SameRow(i)
<1>1. /\ DOMAIN users' = DOMAIN users
      /\ \A u \in DOMAIN users : users'[u] = IF u = i THEN row ELSE users[u]
  OBVIOUS
<1>2. Columns'
  BY <1>1 DEF Columns
<1> QED BY <1>1, <1>2 DEF SameRow

\* A new row is that of a user nobody knows yet.
LEMMA RowInserted ==
    ASSUME Shape, Columns, NEW row, RightsColumns \subseteq DOMAIN row, users' = Put(users, NewId, row)
    PROVE  Columns' /\ \A u \in Nat : u <= used.ids => SameRow(u)
<1>1. /\ DOMAIN users' = DOMAIN users \cup {NewId}
      /\ \A u \in DOMAIN users' : users'[u] = IF u = NewId THEN row ELSE users[u]
  BY DEF Put
<1>2. \A u \in Nat : u <= used.ids => u # NewId
  BY DEF Shape, NewId
<1>3. Columns'
  BY <1>1 DEF Columns
<1> QED BY <1>1, <1>2, <1>3 DEF SameRow

\* The rows an insert writes have the columns.
LEMMA NewColumns ==
    ASSUME NEW n, NEW e, NEW w
    PROVE  /\ RightsColumns \subseteq DOMAIN NewRow(n, e, w)
           /\ \A o : RightsColumns \subseteq DOMAIN [NewRow(n, e, w) EXCEPT !.origin = o]
           /\ \A a : RightsColumns \subseteq DOMAIN [NewRow(n, e, w) EXCEPT !.admin = a]
BY DEF NewRow, RightsColumns

\* The steps that change the status, the flags or the permissions of a user say so.
LEMMA StatusKeepsRights ==
    ASSUME Shape, Columns, Times, NEW c, SetActive(c) \/ SetFlags(c)
    PROVE  RightsKept
<1> DEFINE i == Arg(c).id
<1>1. PICK row, S :
        /\ users' = [u \in DOMAIN users |-> IF u = i THEN row ELSE users[u]] /\ perms' = perms
        /\ i \in DOMAIN users => RightsColumns \subseteq DOMAIN row
        /\ Changed(S) /\ <<"user", i>> \in S /\ \A u : u # i => <<"user", u>> \notin S
  <2>1. CASE SetActive(c)
    <3> DEFINE row == [users[i] EXCEPT !.active = Arg(c).active]
    <3>1. /\ users' = [u \in DOMAIN users |-> IF u = i THEN row ELSE users[u]] /\ perms' = perms
          /\ Changed({<<"user", i>>})
      BY <2>1 DEF SetActive
    <3>2. i \in DOMAIN users => RightsColumns \subseteq DOMAIN row
      BY DEF Columns
    <3> HIDE DEF row, i
    <3> QED BY <3>1, <3>2
  <2>2. CASE SetFlags(c)
    <3> DEFINE row == [users[i] EXCEPT !.admin = Arg(c).admin]
               S == {<<"user", i>>} \cup Demoted(i, Arg(c).admin)
    <3>1. /\ users' = [u \in DOMAIN users |-> IF u = i THEN row ELSE users[u]] /\ perms' = perms
          /\ Changed(S)
      BY <2>2 DEF SetFlags, InTables
    <3>2. <<"user", i>> \in S /\ \A u : u # i => <<"user", u>> \notin S
      BY DEF Demoted
    <3>3. i \in DOMAIN users => RightsColumns \subseteq DOMAIN row
      BY DEF Columns
    <3> HIDE DEF row, S, i
    <3> QED BY <3>1, <3>2, <3>3
  <2> QED BY <2>1, <2>2
<1> HIDE DEF i
<1>2. Columns' /\ \A u : u # i => SameRow(u)
  BY <1>1, RowUpdated
<1> QED BY <1>1, <1>2, OneChanged DEF Shape, SamePerms

LEMMA PermissionKeepsRights ==
    ASSUME Shape, Columns, Times, NEW c, SetPermission(c)
    PROVE  RightsKept
<1> DEFINE i == Arg(c).id
           k == <<i, Arg(c).repo>>
           A == Arg(c).actions
<1>1. /\ perms' = Drop(perms, {k}) \/ perms' = Put(perms, k, A) \/ perms' = perms
      /\ users' = users /\ Changed({<<"user", i>>})
  BY DEF SetPermission
<1>2. \A u, r : u # i => <<u, r>> # k
  OBVIOUS
<1> HIDE DEF k, i, A
<1>3. \A q : q # k => /\ q \in DOMAIN perms' <=> q \in DOMAIN perms
                      /\ q \in DOMAIN perms => perms'[q] = perms[q]
  BY <1>1 DEF Drop, Keep, Put
<1>4. \A u : u # i => SameRow(u) /\ SamePerms(u)
  BY <1>1, <1>2, <1>3 DEF SameRow, SamePerms
<1>5. Columns'
  BY <1>1 DEF Columns
<1> QED BY <1>1, <1>4, <1>5, OneChanged DEF Shape

LEMMA DeletionKeepsRights ==
    ASSUME Shape, Columns, Times, NEW c, DeleteUser(c)
    PROVE  RightsKept
<1> DEFINE i == Arg(c).id
           S == {<<"user", i>>} \cup {<<"token", t>> : t \in TokensOf(i)}
<1>1. /\ users' = Drop(users, {i}) /\ perms' = Keep(perms, {k \in DOMAIN perms : k[1] # i})
      /\ Changed(S)
  BY DEF DeleteUser
<1>2. <<"user", i>> \in S /\ \A u : u # i => <<"user", u>> \notin S
  OBVIOUS
<1> HIDE DEF S, i
<1>3. \A u : u # i => SameRow(u)
  BY <1>1 DEF SameRow, Drop, Keep
<1>4. \A u : u # i => SamePerms(u)
  BY <1>1 DEF SamePerms, Keep
<1>5. Columns'
  BY <1>1 DEF Columns, Drop, Keep
<1> QED BY <1>1, <1>2, <1>3, <1>4, <1>5, OneChanged DEF Shape

LEMMA RolesKeepRights ==
    ASSUME Shape, Columns, Times, NEW c, SyncFlags(c)
    PROVE  RightsKept
<1>1. perms' = perms
  BY DEF SyncFlags
<1>2. CASE users' = users /\ changed' = changed
  <2>1. Columns' /\ Times' /\ \A u : SameTold(u) /\ SameRow(u)
    BY <1>2 DEF Columns, Times, SameTold, SameRow
  <2> QED BY <1>1, <2>1, NoneChanged
<1>3. CASE ~(users' = users /\ changed' = changed)
  <2>1. PICK i, a : /\ i \in DOMAIN users /\ Changed({<<"user", i>>} \cup Demoted(i, a))
                    /\ users' = [users EXCEPT ![i] = [@ EXCEPT !.admin = a, !.manager = FALSE, !.system = FALSE]]
    BY <1>3 DEF SyncFlags
  <2> DEFINE S == {<<"user", i>>} \cup Demoted(i, a)
             row == [users[i] EXCEPT !.admin = a, !.manager = FALSE, !.system = FALSE]
  <2>2. users' = [u \in DOMAIN users |-> IF u = i THEN row ELSE users[u]]
    BY <2>1
  <2>3. RightsColumns \subseteq DOMAIN row
    BY <2>1 DEF Columns
  <2>4. <<"user", i>> \in S /\ \A u : u # i => <<"user", u>> \notin S
    BY DEF Demoted
  <2>5. Changed(S)
    BY <2>1
  <2> HIDE DEF S, row
  <2>6. Columns' /\ \A u : u # i => SameRow(u)
    BY <2>2, <2>3, RowUpdated
  <2> QED BY <1>1, <2>4, <2>5, <2>6, OneChanged DEF Shape, SamePerms
<1> QED BY <1>2, <1>3

\* The other updates of a row do not change its rights.
LEMMA PasswordKeepsRights ==
    ASSUME Shape, Columns, Times, NEW c, SetPassword(c)
    PROVE  RightsKept
<1> DEFINE i == job[c].mem.id
           row == [users[i] EXCEPT !.password = Arg(c).secret]
<1>1. /\ users' = [u \in DOMAIN users |-> IF u = i THEN row ELSE users[u]] /\ perms' = perms
      /\ changed' = changed
  BY DEF SetPassword
<1>2. \A u : SameTold(u)
  BY <1>1 DEF SameTold
<1>3. Times'
  BY <1>1 DEF Times
<1>4. i \in DOMAIN users =>
        /\ RightsColumns \subseteq DOMAIN row
        /\ row.admin = users[i].admin /\ row.system = users[i].system /\ row.defaults = users[i].defaults
  BY DEF Columns, RightsColumns
<1> HIDE DEF row, i
<1>5. Columns' /\ \A u : SameRow(u)
  BY <1>1, <1>4, RowUpdated
<1> QED BY <1>1, <1>2, <1>3, <1>5, NoneChanged

\* An update of a name or an address neither.
LEMMA ColumnKeeps ==
    ASSUME Columns, NEW i, NEW row, \/ users' = users
                                    \/ i \in DOMAIN users /\ users' = [users EXCEPT ![i] = row],
           i \in DOMAIN users =>
             /\ RightsColumns \subseteq DOMAIN row
             /\ row.admin = users[i].admin /\ row.system = users[i].system
             /\ row.defaults = users[i].defaults
    PROVE  Columns' /\ \A u : SameRow(u)
<1>1. CASE users' = users
  BY <1>1 DEF Columns, SameRow
<1>2. CASE i \in DOMAIN users /\ users' = [users EXCEPT ![i] = row]
  <2>1. users' = [u \in DOMAIN users |-> IF u = i THEN row ELSE users[u]]
    BY <1>2
  <2>2. Columns' /\ (\A u : u # i => SameRow(u)) /\ SameRow(i)
    BY <2>1, RowUpdated
  <2> QED BY <2>2
<1> QED BY <1>1, <1>2

LEMMA EmailKeepsRights ==
    ASSUME Shape, Columns, Times, NEW c, SetEmail(c)
    PROVE  RightsKept
<1> DEFINE i == Arg(c).id
           row == [users[i] EXCEPT !.email = Arg(c).email]
<1>1. /\ perms' = perms /\ changed' = changed
      /\ users' = users \/ (i \in DOMAIN users /\ users' = [users EXCEPT ![i] = row])
  BY DEF SetEmail, SetColumn
<1>2. i \in DOMAIN users =>
        /\ RightsColumns \subseteq DOMAIN row
        /\ row.admin = users[i].admin /\ row.system = users[i].system
        /\ row.defaults = users[i].defaults
  BY DEF Columns, RightsColumns
<1> HIDE DEF row, i
<1>3. Columns' /\ \A u : SameRow(u)
  BY <1>1, <1>2, ColumnKeeps
<1>4. Times' /\ \A u : SameTold(u)
  BY <1>1 DEF Times, SameTold
<1> QED BY <1>1, <1>3, <1>4, NoneChanged

LEMMA NameKeepsRights ==
    ASSUME Shape, Columns, Times, NEW c, SetName(c)
    PROVE  RightsKept
<1> DEFINE i == Arg(c).id
           row == [users[i] EXCEPT !.name = Arg(c).name, !.origin = NoText]
<1>1. /\ perms' = perms /\ Changed(Disowned)
      /\ users' = users \/ (i \in DOMAIN users /\ users' = [users EXCEPT ![i] = row])
  BY DEF SetName, SetColumn
<1>2. i \in DOMAIN users =>
        /\ RightsColumns \subseteq DOMAIN row
        /\ row.admin = users[i].admin /\ row.system = users[i].system
        /\ row.defaults = users[i].defaults
  BY DEF Columns, RightsColumns
<1> HIDE DEF row, i
<1>3. Columns' /\ \A u : SameRow(u)
  BY <1>1, <1>2, ColumnKeeps
<1>4. \A u : <<"user", u>> \notin Disowned
  BY DEF Disowned
<1>5. PICK S : S = Disowned /\ Changed(S)
  BY <1>1
<1>6. Times' /\ \A u : SameTold(u)
  BY <1>4, <1>5, ChangedTells DEF Shape
<1> QED BY <1>1, <1>3, <1>6, NoneChanged

\* New users are nobody's copy.
LEMMA InsertKeepsRights ==
    ASSUME Shape, Columns, Times, NEW c, InsertUser(c) \/ Provision(c)
    PROVE  RightsKept
<1>1. perms' = perms /\ changed' = changed
  BY DEF InsertUser, Provision
<1>2. Times' /\ \A u : SameTold(u)
  BY <1>1 DEF Times, SameTold
<1>3. \/ users' = users
      \/ \E row : RightsColumns \subseteq DOMAIN row /\ users' = Put(users, NewId, row)
  <2>1. CASE InsertUser(c)
    BY <2>1, NewColumns DEF InsertUser
  <2>2. CASE Provision(c)
    <3>1. \/ users' = users \/ users' = Put(users, NewId, Candidate(Who(c), job[c].mem.attempt))
      BY <2>2 DEF Provision
    <3>2. RightsColumns \subseteq DOMAIN Candidate(Who(c), job[c].mem.attempt)
      BY NewColumns DEF Candidate
    <3> QED BY <3>1, <3>2
  <2> QED BY <2>1, <2>2
<1>4. Columns' /\ \A u \in Nat : u <= used.ids => SameRow(u)
  <2>1. CASE users' = users
    BY <2>1 DEF Columns, SameRow
  <2>2. CASE \E row : RightsColumns \subseteq DOMAIN row /\ users' = Put(users, NewId, row)
    BY <2>2, RowInserted
  <2> QED BY <1>3, <2>1, <2>2
<1> QED BY <1>1, <1>2, <1>4, NoneChanged

\* So every step keeps the rights or says what it changed.
LEMMA RightsStay ==
    ASSUME Shape, Columns, Times, NEW c, SameRights \/ RightsStep(c)
    PROVE  RightsKept
<1>1. CASE SameRights
  <2>1. Columns' /\ Times' /\ perms' = perms /\ \A u : SameTold(u) /\ SameRow(u)
    BY <1>1 DEF SameRights, Columns, Times, SameTold, SameRow
  <2> QED BY <2>1, NoneChanged
<1>2. CASE DeleteToken(c)
  <2>1. /\ users' = users /\ perms' = perms
        /\ \E t : Changed({<<"token", t>>})
    BY <1>2 DEF DeleteToken, userVars
  <2>2. PICK t, S : S = {<<"token", t>>} /\ Changed(S)
    BY <2>1
  <2>3. \A u : <<"user", u>> \notin S
    BY <2>2
  <2>4. Times' /\ \A u : SameTold(u)
    BY <2>2, <2>3, ChangedTells DEF Shape
  <2>5. Columns' /\ \A u : SameRow(u)
    BY <2>1 DEF Columns, SameRow
  <2> QED BY <2>1, <2>4, <2>5, NoneChanged
<1> QED BY <1>1, <1>2, StatusKeepsRights, PermissionKeepsRights, DeletionKeepsRights,
           RolesKeepRights, PasswordKeepsRights, EmailKeepsRights, NameKeepsRights, InsertKeepsRights
           DEF RightsStep

\* A copy that may be used until t may be used until then after a step, too.
LEMMA FairStays ==
    ASSUME Shape, Counts, Columns, RightsKept, NEW row, NEW t \in Nat, t <= now + CacheTtl, Fair(row, t)
    PROVE  Fair(row, t)'
<1>1. row.id \in Nat /\ row.id <= used.ids /\ row.id <= used'.ids
  BY DEF Fair, Shape, Counts
<1>2. CASE NowTold(row.id)
  <2>1. Told(row.id, t)'
    BY <1>2 DEF NowTold, Told
  <2> QED BY <1>1, <2>1 DEF Fair
<1>3. CASE SameRow(row.id) /\ SameTold(row.id)
  <2>1. Current(row) => Current(row)'
    BY <1>3 DEF Current, SameRow
  <2>2. Told(row.id, t) => Told(row.id, t)'
    BY <1>3 DEF Told, SameTold
  <2> QED BY <1>1, <2>1, <2>2 DEF Fair
<1> QED BY <1>1, <1>2, <1>3 DEF RightsKept

\* And for a shorter time.
LEMMA FairSooner ==
    ASSUME Times, NEW row, NEW t \in Nat, NEW s \in Nat, s <= t, Fair(row, t)
    PROVE  Fair(row, s)
BY AccountsAssumption DEF Fair, Told, Times

\* What has been read of a user is a copy.
LEMMA RowFair ==
    ASSUME Shape, Columns, NEW u \in DOMAIN users
    PROVE  \A t : Fair(RowOf(u), t)
<1>1. u \in Nat /\ u <= used.ids
  BY DEF Shape
<1>2. /\ RowOf(u).id = u /\ RowOf(u).admin = users[u].admin /\ RowOf(u).system = users[u].system
      /\ RowOf(u).defaults = users[u].defaults
  BY DEF RowOf, Put, Columns, RightsColumns
<1> QED BY <1>1, <1>2 DEF Fair, Current

\* Rights a user has, or lost lately, he has after a step or has lost lately.
LEMMA HeldStays ==
    ASSUME Shape, Columns, RightsKept, now' = now, NEW row, NEW repo, NEW action,
           row.id \in Nat, row.id <= used.ids, RightsHeld(row, repo, action)
    PROVE  RightsHeld(row, repo, action)'
<1> DEFINE u == row.id
<1>1. CASE NowTold(u)
  BY <1>1, AccountsAssumption DEF NowTold, RightsHeld, Shape
<1>2. CASE SameRow(u) /\ SamePerms(u) /\ SameTold(u)
  <2>1. CASE u \in DOMAIN users /\ Allows(RowOf(u), repo, action)
    <3>1. PICK old : old = RowOf(u)
      OBVIOUS
    <3>2. PICK new : new = RowOf(u)'
      OBVIOUS
    <3>3. /\ old.id = u /\ old.admin = users[u].admin /\ old.system = users[u].system
          /\ old.defaults = users[u].defaults
      BY <2>1, <3>1 DEF RowOf, Put, Columns, RightsColumns
    <3>4. u \in DOMAIN users'
      BY <1>2, <2>1 DEF SameRow
    <3>5. /\ new.id = u /\ new.admin = users'[u].admin /\ new.system = users'[u].system
          /\ new.defaults = users'[u].defaults
      BY <3>2, <3>4 DEF RightsKept, RowOf, Put, Columns, RightsColumns
    <3>6. Allows(old, repo, action)
      BY <2>1, <3>1
    <3>7. /\ new.admin = old.admin /\ new.system = old.system /\ new.defaults = old.defaults
      BY <1>2, <2>1, <3>3, <3>5 DEF SameRow
    <3>8. Allows(new, repo, action)'
      BY <1>2, <3>3, <3>5, <3>6, <3>7 DEF Allows, SamePerms
    <3>9. Allows(RowOf(row.id), repo, action)'
      BY <3>2, <3>8 DEF Allows
    <3> QED BY <3>4, <3>9 DEF RightsHeld
  <2>2. CASE <<"user", u>> \in DOMAIN changed /\ now < changed[<<"user", u>>] + CacheTtl
    BY <1>2, <2>2 DEF RightsHeld, SameTold
  <2> QED BY <2>1, <2>2 DEF RightsHeld
<1> QED BY <1>1, <1>2 DEF RightsKept

\* A request that is allowed to do something has the right.
LEMMA AllowedHolds ==
    ASSUME Shape, Columns, Times, NEW row, NEW repo, NEW action, Fair(row, now + 1),
           Allows(row, repo, action)
    PROVE  RightsHeld(row, repo, action)
<1>1. CASE Told(row.id, now + 1)
  <2>1. changed[<<"user", row.id>>] \in Nat
    BY <1>1 DEF Told, Times
  <2> QED BY <1>1, <2>1, AccountsAssumption DEF Told, RightsHeld, Shape
<1>2. CASE Current(row)
  <2>1. PICK r : r = RowOf(row.id)
    OBVIOUS
  <2>2. r.id = row.id /\ r.admin = row.admin /\ r.system = row.system /\ r.defaults = row.defaults
    BY <1>2, <2>1 DEF Current, RowOf, Put, Columns, RightsColumns
  <2>3. Allows(r, repo, action)
    BY <2>2 DEF Allows
  <2> QED BY <1>2, <2>1, <2>3 DEF Current, RightsHeld
<1> QED BY <1>1, <1>2 DEF Fair

\* Where the steps come from that the invariant of the rights looks at.
LEMMA LeadsToCaches ==
    ASSUME NEW op, NEW a, NEW x, NEW y, Leads(op, a, x, y)
    PROVE  /\ y = "cacheToken" => x = "readOwner"
           /\ y = "tokenRights" => x = "rights"
           /\ y = "storeKeys" => x = "fetchKeys"
BY DEF Leads, Follows, MaySkip, Skipping, Target

\* The step a request was at when it took one.
LEMMA WasAt ==
    ASSUME Shape, NEW c \in Clients, Runs(c), NEW y, At(c, y)'
    PROVE  \E x : /\ At(c, x) /\ Leads(job[c].op, Active(job[c]), x, y)
                  /\ Keeps(job[c], job'[c]) /\ DoesAt(c) /\ ~Idle(c)'
<1>1. PICK x : x = Head(job[c].plan)
  OBVIOUS
<1>2. At(c, x)
  BY <1>1 DEF Runs, Idle, At
<1>3. ~Idle(c)'
  BY DEF At, Idle
<1>4. ~StepFails(c)
  BY <1>3, Replies DEF StepFails, Shape
<1> QED BY <1>2, <1>3, <1>4, Came DEF Runs

\* A request that does not move knows what it knew,
LEMMA JudgesStays ==
    ASSUME Shape, RightsInv, RightsKept, Counts, now' = now, NEW d \in Clients, job'[d] = job[d]
    PROVE  Judges(d)'
<1>1. Columns /\ now \in Nat /\ CacheTtl \in Nat /\ 0 < CacheTtl
  BY AccountsAssumption DEF RightsInv, Columns, Shape
<1>2. PICK j : j = job[d] /\ j = job'[d]
  OBVIOUS
<1>3. Judges(d) /\ (Serving(d)' <=> Serving(d)) /\ \A y : At(d, y)' <=> At(d, y)
  BY DEF RightsInv, Serving, Idle, At
<1>4. ASSUME NEW t \in Nat, t <= now + CacheTtl, Fair(j.caller, t) PROVE Fair(j.caller, t)'
  BY <1>1, <1>4, FairStays
<1>5. ASSUME Serving(d)', j.caller # NoRow PROVE Fair(job[d].caller, now + 1)'
  <2>1. Fair(j.caller, now + 1)'
    BY <1>1, <1>2, <1>3, <1>4, <1>5 DEF Judges, Fair, Current, Told
  <2> QED BY <1>2, <2>1 DEF Fair, Current, Told
<1>6. ASSUME At(d, "cacheToken")' PROVE Fair(job[d].caller, now + CacheTtl)'
  <2>1. Fair(j.caller, now + CacheTtl)'
    BY <1>1, <1>2, <1>3, <1>4, <1>6 DEF Judges, Fair, Current, Told
  <2> QED BY <1>2, <2>1 DEF Fair, Current, Told
<1>7. ASSUME At(d, "tokenRights")'
      PROVE  (/\ job[d].caller.id \in Nat /\ job[d].caller.id <= used.ids
              /\ RightsHeld(job[d].caller, Arg(d).repo, Arg(d).action))'
  <2>1. /\ j.caller.id \in Nat /\ j.caller.id <= used.ids
        /\ RightsHeld(j.caller, j.arg.repo, j.arg.action)
    BY <1>2, <1>3, <1>7 DEF Judges, Arg
  <2>2. RightsHeld(j.caller, j.arg.repo, j.arg.action)' /\ j.caller.id <= used'.ids
    BY <1>1, <2>1, HeldStays DEF Shape, Counts
  <2> QED BY <1>2, <2>1, <2>2 DEF RightsHeld, Allows, RowOf, Arg
<1> QED BY <1>2, <1>5, <1>6, <1>7 DEF Judges

\* a copy that may be used until the next tick may be used by a request at that tick,
LEMMA CallerFair ==
    ASSUME Shape, RightsInv, RightsKept, NEW c \in Clients, Runs(c), Serving(c)', job'[c].caller # NoRow
    PROVE  Fair(job[c].caller, now + 1)'
<1>1. Counts /\ now' = now /\ Columns /\ Times /\ now \in Nat /\ CacheTtl \in Nat /\ 0 < CacheTtl
  BY AccountsAssumption DEF Runs, Leaves, RightsInv, Columns, Times, Shape
<1>2. PICK k : k = job'[c].caller
  OBVIOUS
<1>3. PICK t : t = now + 1
  OBVIOUS
<1>4. t \in Nat /\ t <= now + CacheTtl
  BY <1>1, <1>3
<1>5. Fair(k, t)
  <2>1. CASE k = job[c].caller
    BY <1>2, <1>3, <2>1, ServedBefore DEF RightsInv, Judges
  <2>2. CASE k # job[c].caller
    <3>1. LearningStep(c) /\ ~Idle(c)'
      BY <1>2, <2>2 DEF Runs, Holding, Serving
    <3>2. \/ \E u \in DOMAIN users : k = RowOf(u)
          \/ \E e \in DOMAIN cache : now < cache[e].until /\ k = cache[e].owner
      BY <1>2, <2>2, <3>1, Learned DEF Shape
    <3>3. CASE \E u \in DOMAIN users : k = RowOf(u)
      BY <1>1, <3>3, RowFair
    <3>4. CASE \E e \in DOMAIN cache : now < cache[e].until /\ k = cache[e].owner
      <4>1. PICK s : s \in Nat /\ Fair(k, s) /\ now < s
        BY <3>4 DEF RightsInv
      <4>2. t <= s
        BY <1>1, <1>3, <4>1
      <4> QED BY <1>1, <1>4, <4>1, <4>2, FairSooner
    <3> QED BY <3>2, <3>3, <3>4
  <2> QED BY <2>1, <2>2
<1>6. Fair(k, t)'
  BY <1>1, <1>4, <1>5, FairStays
<1> QED BY <1>1, <1>2, <1>3, <1>6 DEF Fair, Current, Told

\* what it is about to put into the cache may be used while it is there,
LEMMA CachedFair ==
    ASSUME Shape, RightsInv, RightsKept, NEW c \in Clients, Runs(c), At(c, "cacheToken")'
    PROVE  Fair(job[c].caller, now + CacheTtl)'
<1>1. Counts /\ now' = now /\ Columns /\ now + CacheTtl \in Nat
  BY AccountsAssumption DEF Runs, Leaves, RightsInv, Columns, Shape
<1>2. PICK t \in Nat : t = now + CacheTtl
  BY <1>1
<1>3. PICK x : At(c, x) /\ Leads(job[c].op, Active(job[c]), x, "cacheToken") /\ DoesAt(c) /\ ~Idle(c)'
  BY WasAt
<1>4. ReadOwner(c)
  BY <1>3, LeadsToCaches DEF DoesAt
<1>5. ~Reply(c, 401)
  BY <1>3, Replies DEF Shape
<1>6. PICK u \in DOMAIN users : job' = [job EXCEPT ![c].plan = Rest(c), ![c].caller = RowOf(u)]
  BY <1>4, <1>5 DEF ReadOwner
<1>7. PICK k : k = RowOf(u) /\ k = job'[c].caller
  BY <1>6 DEF Shape, JobShape, Fields
<1>8. Fair(k, t)
  BY <1>1, <1>7, RowFair
<1>9. Fair(k, t)'
  BY <1>1, <1>2, <1>8, FairStays
<1> QED BY <1>1, <1>2, <1>7, <1>9 DEF Fair, Current, Told

\* and who has the rights has them when the scopes of his token are looked at.
LEMMA AskerHolds ==
    ASSUME Shape, RightsInv, RightsKept, NEW c \in Clients, Runs(c), At(c, "tokenRights")'
    PROVE  (/\ job[c].caller.id \in Nat /\ job[c].caller.id <= used.ids
            /\ RightsHeld(job[c].caller, Arg(c).repo, Arg(c).action))'
<1>1. Counts /\ now' = now /\ Columns /\ Times
  BY DEF Runs, Leaves, RightsInv, Columns, Times
<1>2. PICK x : At(c, x) /\ Leads(job[c].op, Active(job[c]), x, "tokenRights") /\ DoesAt(c) /\ ~Idle(c)'
  BY WasAt
<1>3. At(c, "rights")
  BY <1>2, LeadsToCaches
<1>4. Rights(c)
  BY <1>2, <1>3 DEF DoesAt
<1>5. ~Reply(c, 401) /\ ~Reply(c, 403)
  BY <1>2, Replies DEF Shape
<1>6. ASSUME Goto(c, Tail(Rest(c))) PROVE FALSE
  <2>1. job'[c].plan = Tail(Tail(job[c].plan))
    BY <1>6 DEF Goto, Rest, Shape, JobShape, Fields
  <2>2. Head(Tail(Tail(job[c].plan))) = "tokenRights"
    BY <2>1 DEF At
  <2>3. WellPlanned(job[c].op, Active(job[c]), job[c].plan) /\ job[c].plan # <<>>
        /\ Head(job[c].plan) = "rights"
    BY <1>3 DEF At, Shape, JobShape, Planned
  <2>4. /\ Follows(job[c].op, Active(job[c]), "rights", Head(Tail(job[c].plan)))
        /\ Follows(job[c].op, Active(job[c]), Head(Tail(job[c].plan)), "tokenRights")
    BY <2>2, <2>3, PlansLeft
  <2> QED BY <2>4 DEF Follows
<1>7. Advance(c) /\ job[c].caller # NoRow /\ Allows(job[c].caller, Arg(c).repo, Arg(c).action)
  BY <1>4, <1>5, <1>6 DEF Rights, AdvanceOr
<1>8. job'[c].caller = job[c].caller /\ job'[c].arg = job[c].arg
  BY <1>7 DEF Advance, Goto, Shape, JobShape, Fields
<1>9. PICK k, r, a : /\ k = job[c].caller /\ r = Arg(c).repo /\ a = Arg(c).action
                     /\ k = job'[c].caller /\ r = job'[c].arg.repo /\ a = job'[c].arg.action
  BY <1>8 DEF Arg
<1>10. Fair(k, now + 1)
  BY <1>3, <1>7, <1>9, ServesAt DEF RightsInv, Judges
<1>11. RightsHeld(k, r, a)
  BY <1>1, <1>7, <1>9, <1>10, AllowedHolds
<1>12. k.id \in Nat /\ k.id <= used.ids /\ k.id <= used'.ids
  BY <1>1, <1>10 DEF Fair, Counts, Shape
<1>13. RightsHeld(k, r, a)'
  BY <1>1, <1>11, <1>12, HeldStays
<1> QED BY <1>9, <1>12, <1>13 DEF RightsHeld, Allows, RowOf, Arg

\* At first nobody has been read.
LEMMA RightsInitial == ASSUME Init PROVE RightsInv
<1>1. \A c \in Clients : ~Serving(c) /\ \A x : ~At(c, x)
  BY DEF Init, AccountsInit, Serving, Idle, NoJob, At
<1>2. DOMAIN cache = {} /\ DOMAIN changed = {}
  BY DEF Init, AccountsInit, EmptyMap
<1>3. PICK a \in BOOLEAN, A \in SUBSET {"read"} :
        users = [u \in {1, 2} |-> IF u = 1 THEN Root ELSE [Ann EXCEPT !.admin = a, !.defaults = A]]
  BY DEF Init, AccountsInit
<1>4. RightsColumns \subseteq DOMAIN Root /\ RightsColumns \subseteq DOMAIN [Ann EXCEPT !.admin = a, !.defaults = A]
  BY DEF Root, Ann, NewRow, RightsColumns
<1>5. \A u \in DOMAIN users : RightsColumns \subseteq DOMAIN users[u]
  BY <1>3, <1>4
<1> QED BY <1>1, <1>2, <1>5 DEF RightsInv, Judges

\* Entries of the cache may be used while they are there.
LEMMA EntriesStay ==
    ASSUME Shape, Counts, Columns, RightsKept, now' \in Nat, now <= now',
           \A t \in DOMAIN cache' :
             /\ cache'[t].until \in Nat /\ cache'[t].until <= now + CacheTtl
             /\ Fair(cache'[t].owner, cache'[t].until),
           \A c \in Clients : Judges(c)'
    PROVE  RightsInv'
<1>1. ASSUME NEW t \in DOMAIN cache'
      PROVE  cache'[t].until <= now' + CacheTtl /\ Fair(cache[t].owner, cache[t].until)'
  <2>1. PICK s, k : s = cache'[t].until /\ k = cache'[t].owner
    OBVIOUS
  <2>2. Fair(k, s)' /\ s <= now' + CacheTtl
    BY <2>1, FairStays, AccountsAssumption DEF Shape
  <2> QED BY <2>1, <2>2 DEF Fair, Current, Told
<1> QED BY <1>1 DEF RightsInv, RightsKept, Columns, Times

\* A step of a request keeps what is known of the rights,
LEMMA RightsRun == ASSUME Shape, RightsInv, NEW c \in Clients, Runs(c) PROVE RightsInv'
<1>1. Columns /\ Times
  BY DEF RightsInv, Columns, Times
<1>2. RightsKept /\ CacheKept(c) /\ Counts /\ now' = now /\ now' \in Nat /\ now <= now'
  BY <1>1, RightsStay, CacheStays DEF Runs, Leaves, Shape
<1>3. ASSUME NEW d \in Clients PROVE Judges(d)'
  <2>1. CASE d # c
    <3>1. job'[d] = job[d]
      BY <2>1 DEF Runs, Proceeds, Alone
    <3> QED BY <1>2, <3>1, JudgesStays
  <2>2. CASE d = c
    <3>1. Judges(c)'
      BY <1>2, CallerFair, CachedFair, AskerHolds DEF Judges
    <3> QED BY <2>2, <3>1
  <2> QED BY <2>1, <2>2
<1>4. ASSUME NEW t \in DOMAIN cache'
      PROVE  /\ cache'[t].until \in Nat /\ cache'[t].until <= now + CacheTtl
             /\ Fair(cache'[t].owner, cache'[t].until)
  <2>1. CASE t \in DOMAIN cache /\ cache'[t] = cache[t]
    BY <2>1 DEF RightsInv
  <2>2. CASE /\ At(c, "cacheToken")
             /\ cache'[t] = [token |-> job[c].token, owner |-> job[c].caller, until |-> now + CacheTtl]
    <3>1. cache'[t].until = now + CacheTtl /\ cache'[t].owner = job[c].caller
      BY <2>2
    <3> QED BY <2>2, <3>1, AccountsAssumption DEF RightsInv, Judges, Shape
  <2> QED BY <1>2, <2>1, <2>2 DEF CacheKept
<1> QED BY <1>1, <1>2, <1>3, <1>4, EntriesStay

\* and so does one that changes no rights, cache entries or requests that serve.
LEMMA RightsSame ==
    ASSUME Shape, RightsInv, SameRights, Counts, now' \in Nat, now <= now',
           \A t \in DOMAIN cache' : t \in DOMAIN cache /\ cache'[t] = cache[t],
           \A c \in Clients : \/ ~Serving(c)' \/ (now' = now /\ job'[c].caller = NoRow)
                              \/ (now' = now /\ job'[c] = job[c]),
           \A c \in Clients : \/ ~At(c, "cacheToken")' /\ ~At(c, "tokenRights")'
                              \/ now' = now /\ job'[c] = job[c]
    PROVE  RightsInv'
<1>1. Columns /\ Times
  BY DEF RightsInv, Columns, Times
<1>2. RightsKept
  BY <1>1, RightsStay
<1>3. ASSUME NEW d \in Clients PROVE Judges(d)'
  <2>1. CASE now' = now /\ job'[d] = job[d]
    BY <1>2, <2>1, JudgesStays
  <2>2. CASE ~(now' = now /\ job'[d] = job[d])
    BY <2>2 DEF Judges
  <2> QED BY <2>1, <2>2
<1>4. \A t \in DOMAIN cache' :
        /\ cache'[t].until \in Nat /\ cache'[t].until <= now + CacheTtl
        /\ Fair(cache'[t].owner, cache'[t].until)
  BY DEF RightsInv
<1> QED BY <1>1, <1>2, <1>3, <1>4, EntriesStay

\* So the rights are known whatever happens.
LEMMA RightsInvKept == ASSUME Shape, RightsInv, [Next]_vars PROVE RightsInv'
<1>1. ASSUME NEW c \in Clients, Comes(c) PROVE RightsInv'
  <2>1. Arrival(c) /\ Alone(c) /\ Counts /\ cache' = cache /\ SameRights /\ now' = now /\ job'[c].caller = NoRow
    BY <1>1, ArrivalFacts DEF Comes, SameGrants
  <2>2. ~At(c, "cacheToken")' /\ ~At(c, "tokenRights")'
    <3>1. "cacheToken" \notin First /\ "tokenRights" \notin First
      BY DEF First
    <3> QED BY <2>1, <3>1, ArrivesAt
  <2>3. \A d \in Clients : d # c => job'[d] = job[d]
    BY <2>1 DEF Alone
  <2>4. now' \in Nat /\ now <= now'
    BY <2>1 DEF Shape
  <2> QED BY <2>1, <2>2, <2>3, <2>4, RightsSame
<1>2. CASE Ticks
  <2>1. SameRights /\ cache' = cache /\ job' = job /\ Counts
    BY <1>2 DEF Ticks, SameRights, userVars, grantVars, historyVars, Counts, Shape
  <2>2. \A c \in Clients : ~Serving(c) /\ ~Serving(c)'
    BY <1>2, <2>1, QuietServes DEF Serving, Idle
  <2>3. \A c \in Clients : ~At(c, "cacheToken")' /\ ~At(c, "tokenRights")'
    <3>1. \A c \in Clients : ~At(c, "cacheToken") /\ ~At(c, "tokenRights")
      BY <2>2, ServesAt
    <3> QED BY <2>1, <3>1 DEF At
  <2>4. now' \in Nat /\ now <= now'
    BY <1>2 DEF Ticks, Shape
  <2> QED BY <2>1, <2>2, <2>3, <2>4, RightsSame
<1>3. CASE KeysRotate \/ UNCHANGED vars
  <2>1. SameRights /\ cache' = cache /\ job' = job /\ used' = used /\ now' = now
        /\ DOMAIN external' = DOMAIN external
    BY <1>3 DEF KeysRotate, SameRights, userVars, grantVars, historyVars, vars, Shape
  <2>2. Counts /\ now' \in Nat /\ now <= now'
    BY <2>1 DEF Counts, Shape
  <2> QED BY <2>1, <2>2, RightsSame
<1>4. CASE Restart
  <2>1. SameRights /\ cache' = EmptyMap /\ job' = [c \in Clients |-> NoJob] /\ Counts /\ now' = now
    BY <1>4 DEF Restart, SameRights, userVars, Counts, Shape
  <2>2. \A c \in Clients : ~Serving(c)' /\ \A y : ~At(c, y)'
    BY <2>1 DEF Serving, Idle, NoJob, At
  <2>3. DOMAIN cache' = {}
    BY <2>1 DEF EmptyMap
  <2>4. now' \in Nat /\ now <= now'
    BY <2>1 DEF Shape
  <2> QED BY <2>1, <2>2, <2>3, <2>4, RightsSame
<1> QED BY <1>1, <1>2, <1>3, <1>4, RightsRun, CacheKinds

------------------------------------------------------------------------------
(* What the caches answer: the signing keys.                                   *)

SameIssued ==
    /\ external'.newest = external.newest /\ external'.published = external.published
    /\ external'.retired = external.retired

\* A step that stores the keys of a request, or none, leaves known keys in the cache.
LEMMA KeysStay ==
    ASSUME Shape, KeysInv, SameIssued, now' \in Nat, NEW a \in Nat, a = external'.jwks.at, a <= now',
           \A k \in external'.jwks.keys : InUse(k, a),
           \A c \in Clients : At(c, "storeKeys")' => \A k \in job'[c].mem.keys : InUse(k, now')
    PROVE  KeysInv'
<1>1. ASSUME NEW k \in external'.jwks.keys PROVE InUse(k, external.jwks.at)'
  BY <1>1 DEF InUse, SameIssued
<1>2. ASSUME NEW c \in Clients, At(c, "storeKeys")', NEW k \in job'[c].mem.keys PROVE InUse(k, now)'
  BY <1>2 DEF InUse, SameIssued
<1> QED BY <1>1, <1>2 DEF KeysInv, SameIssued

\* At first no key has been fetched.
LEMMA KeysInitial == ASSUME Init PROVE KeysInv
<1>1. /\ external.newest = 1 /\ external.published = {1} /\ external.retired = EmptyMap
      /\ external.jwks = [keys |-> {}, at |-> 0]
  BY DEF Init, ExternalInit
<1>2. now = 0 /\ \A c \in Clients : ~At(c, "storeKeys")
  BY DEF Init, AccountsInit, At, NoJob
<1>3. DOMAIN EmptyMap = {}
  BY DEF EmptyMap
<1> QED BY <1>1, <1>2, <1>3 DEF KeysInv

\* A request has just fetched the keys it stores.
LEMMA KeysRun == ASSUME Shape, KeysInv, NEW c \in Clients, Runs(c) PROVE KeysInv'
<1>1. now' = now /\ now \in Nat /\ (SameKeys \/ StoreKeys(c))
  BY DEF Runs, Leaves, Shape
<1>2. SameIssued
  <2>1. CASE SameKeys
    BY <2>1 DEF SameKeys, SameIssued
  <2>2. CASE StoreKeys(c)
    BY <2>2 DEF StoreKeys, SameIssued, Shape
  <2> QED BY <1>1, <2>1, <2>2
<1>3. ASSUME NEW d \in Clients, At(d, "storeKeys")', NEW k \in job'[d].mem.keys PROVE InUse(k, now')
  <2>1. CASE d # c
    <3>1. job'[d] = job[d]
      BY <2>1 DEF Runs, Proceeds, Alone
    <3>2. At(d, "storeKeys")
      BY <1>3, <3>1, SameRequest
    <3> QED BY <1>1, <1>3, <3>1, <3>2 DEF KeysInv
  <2>2. CASE d = c
    <3>1. PICK x : At(c, x) /\ Leads(job[c].op, Active(job[c]), x, "storeKeys") /\ DoesAt(c) /\ ~Idle(c)'
      BY <1>3, <2>2, WasAt
    <3>2. x = "fetchKeys"
      BY <3>1, LeadsToCaches
    <3>3. FetchKeys(c)
      BY <3>1, <3>2 DEF DoesAt
    <3>4. ~Reply(c, 401)
      BY <3>1, Replies DEF Shape
    <3>5. Goes(c, [keys |-> external.published])
      BY <3>3, <3>4 DEF FetchKeys
    <3>6. job'[c].mem.keys = external.published
      BY <3>5 DEF Goes, Shape, JobShape, Fields
    <3> QED BY <1>3, <2>2, <3>6 DEF InUse
  <2> QED BY <2>1, <2>2
<1>4. CASE SameKeys
  <2>1. external'.jwks = external.jwks
    BY <1>4 DEF SameKeys
  <2>2. external.jwks.at \in Nat /\ external.jwks.at <= now
        /\ \A k \in external.jwks.keys : InUse(k, external.jwks.at)
    BY DEF KeysInv
  <2>3. PICK a \in Nat : a = external.jwks.at
    BY <2>2
  <2> QED BY <1>1, <1>2, <1>3, <2>1, <2>2, <2>3, KeysStay
<1>5. CASE StoreKeys(c)
  <2>1. At(c, "storeKeys") /\ external'.jwks = [keys |-> job[c].mem.keys, at |-> now]
    BY <1>5 DEF StoreKeys, Shape
  <2>2. external'.jwks.at = now /\ external'.jwks.keys = job[c].mem.keys
    BY <2>1
  <2>3. \A k \in job[c].mem.keys : InUse(k, now)
    BY <2>1 DEF KeysInv
  <2> QED BY <1>1, <1>2, <1>3, <2>2, <2>3, KeysStay
<1> QED BY <1>1, <1>4, <1>5

\* The provider retires keys at the time it publishes another.
LEMMA KeysRotated == ASSUME Shape, KeysInv, KeysRotate PROVE KeysInv'
<1> DEFINE n == external.newest
           P == external.published
           R == external.retired
<1>1. PICK kept \in {{}, P} :
        external' = [external EXCEPT !.newest = @ + 1, !.published = kept \cup {external.newest + 1},
                       !.retired = [k \in DOMAIN @ \cup (external.published \ kept) |->
                                      IF k \in DOMAIN @ THEN @[k] ELSE now]]
  BY DEF KeysRotate
<1>2. /\ external'.newest = n + 1 /\ external'.published = kept \cup {n + 1}
      /\ external'.retired = [k \in DOMAIN R \cup (P \ kept) |-> IF k \in DOMAIN R THEN R[k] ELSE now]
      /\ external'.jwks = external.jwks /\ now' = now /\ job' = job
  BY <1>1 DEF Shape, KeysRotate
<1>3. /\ n \in Nat /\ P \subseteq 1 .. n /\ DOMAIN R \subseteq 1 .. n /\ P \cap DOMAIN R = {}
      /\ \A k \in DOMAIN R : R[k] \in Nat
      /\ now \in Nat /\ external.jwks.at \in Nat /\ external.jwks.at <= now
      /\ \A k \in external.jwks.keys : InUse(k, external.jwks.at)
      /\ \A c \in Clients : At(c, "storeKeys") => \A k \in job[c].mem.keys : InUse(k, now)
  BY DEF KeysInv, Shape
<1> DEFINE R2 == external'.retired
           P2 == external'.published
<1>4. /\ DOMAIN R2 = DOMAIN R \cup (P \ kept)
      /\ \A k \in DOMAIN R : R2[k] = R[k]
      /\ \A k \in P \ kept : R2[k] = now
  BY <1>2, <1>3
<1>5. n + 1 \in Nat /\ n + 1 \notin 1 .. n /\ 1 .. n \subseteq 1 .. n + 1 /\ n + 1 \in 1 .. n + 1
  BY <1>3
<1>6. /\ external'.newest \in Nat /\ P2 \subseteq 1 .. external'.newest
      /\ DOMAIN R2 \subseteq 1 .. external'.newest /\ P2 \cap DOMAIN R2 = {}
  BY <1>2, <1>3, <1>4, <1>5
<1>8. \A k \in DOMAIN R2 : R2[k] \in Nat
  BY <1>3, <1>4
<1>9. ASSUME NEW k, NEW t \in Nat, t <= now, InUse(k, t)
      PROVE  k \in P2 \/ (k \in DOMAIN R2 /\ t <= R2[k])
  <2>1. CASE k \in DOMAIN R /\ t <= R[k]
    BY <1>4, <2>1
  <2>2. CASE k \in kept
    BY <1>2, <2>2
  <2>3. CASE k \in P \ kept
    BY <1>4, <1>9, <2>3
  <2> QED BY <1>9, <2>1, <2>2, <2>3 DEF InUse
<1>10. ASSUME NEW k \in external'.jwks.keys PROVE InUse(k, external.jwks.at)'
  BY <1>2, <1>3, <1>9 DEF InUse
<1>11. ASSUME NEW c \in Clients, At(c, "storeKeys")', NEW k \in job'[c].mem.keys PROVE InUse(k, now)'
  <2>1. At(c, "storeKeys") /\ k \in job[c].mem.keys
    BY <1>2, <1>11 DEF At
  <2> QED BY <1>2, <1>3, <1>9, <2>1 DEF InUse
<1> QED BY <1>2, <1>3, <1>6, <1>8, <1>10, <1>11 DEF KeysInv

\* So the cached keys are known whatever happens.
LEMMA KeysInvKept == ASSUME Shape, KeysInv, [Next]_vars PROVE KeysInv'
<1>1. external.jwks.at \in Nat /\ external.jwks.at <= now /\ now \in Nat
      /\ \A k \in external.jwks.keys : InUse(k, external.jwks.at)
  BY DEF KeysInv, Shape
<1>2. PICK a \in Nat : a = external.jwks.at
  BY <1>1
<1>3. ASSUME NEW c \in Clients, Comes(c) PROVE KeysInv'
  <2>1. Arrival(c) /\ Alone(c) /\ SameIssued /\ external'.jwks = external.jwks /\ now' = now
    BY <1>3, ArrivalFacts DEF Comes, SameKeys, SameIssued
  <2>2. ASSUME NEW d \in Clients, At(d, "storeKeys")' PROVE \A k \in job'[d].mem.keys : InUse(k, now')
    <3>1. "storeKeys" \notin First
      BY DEF First
    <3>2. d # c
      BY <2>1, <2>2, <3>1, ArrivesAt
    <3>3. job'[d] = job[d]
      BY <2>1, <3>2 DEF Alone
    <3>4. At(d, "storeKeys")
      BY <2>2, <3>3, SameRequest
    <3> QED BY <2>1, <3>3, <3>4 DEF KeysInv
  <2> QED BY <1>1, <1>2, <2>1, <2>2, KeysStay
<1>4. CASE Ticks
  <2>1. external' = external /\ job' = job /\ now' = now + 1
    BY <1>4 DEF Ticks
  <2>2. ASSUME NEW d \in Clients, At(d, "storeKeys")' PROVE FALSE
    <3>1. At(d, "storeKeys") /\ ~Idle(d)
      BY <2>1, <2>2 DEF At, Idle
    <3>2. job[d].op = "sso"
      BY <3>1, BelongsAt DEF Belongs
    <3> QED BY <1>4, <3>1, <3>2 DEF Ticks
  <2>3. SameIssued /\ external'.jwks = external.jwks
    BY <2>1 DEF SameIssued
  <2>4. now' \in Nat /\ a <= now'
    BY <1>1, <1>2, <2>1
  <2> QED BY <1>1, <1>2, <2>2, <2>3, <2>4, KeysStay
<1>5. CASE UNCHANGED vars
  BY <1>5 DEF KeysInv, InUse, At, vars
<1>6. CASE Restart
  <2>1. SameIssued /\ external'.jwks = [keys |-> {}, at |-> 0] /\ now' = now
        /\ job' = [c \in Clients |-> NoJob]
    BY <1>6 DEF Restart, SameIssued, Shape
  <2>2. \A c \in Clients : ~At(c, "storeKeys")'
    BY <2>1 DEF NoJob, At
  <2>3. external'.jwks.at = 0 /\ external'.jwks.keys = {} /\ 0 \in Nat /\ 0 <= now'
    BY <1>1, <2>1
  <2> QED BY <1>1, <2>1, <2>2, <2>3, KeysStay
<1> QED BY <1>3, <1>4, <1>5, <1>6, KeysRun, KeysRotated, CacheKinds

\* A request is answered when it is over.
LEMMA UnansweredKept == ASSUME Shape, Unanswered, [Next]_vars PROVE Unanswered'
<1>1. ASSUME NEW c \in Clients, Runs(c), NEW d \in Clients, ~Idle(d)' PROVE job'[d].code = 0
  <2>1. CASE d # c
    <3>1. job'[d] = job[d]
      BY <1>1, <2>1 DEF Runs, Proceeds, Alone
    <3> QED BY <1>1, <3>1 DEF Unanswered, Idle
  <2>2. CASE d = c
    <3>1. job'[c].code = job[c].code
      BY <1>1, <2>2, Learned DEF Runs, Holding, Shape
    <3>2. job[c].code = 0
      BY <1>1 DEF Runs, Unanswered
    <3> QED BY <2>2, <3>1, <3>2
  <2> QED BY <2>1, <2>2
<1>2. ASSUME NEW c \in Clients, Comes(c), NEW d \in Clients, ~Idle(d)' PROVE job'[d].code = 0
  <2>1. CASE d # c
    <3>1. job'[d] = job[d]
      BY <1>2, <2>1, ArrivalFacts DEF Comes, Alone
    <3> QED BY <1>2, <3>1 DEF Unanswered, Idle
  <2> QED BY <1>2, <2>1 DEF Comes
<1>3. CASE Ticks \/ KeysRotate \/ UNCHANGED vars
  <2>1. job' = job
    BY <1>3 DEF Ticks, KeysRotate, vars
  <2> QED BY <2>1 DEF Unanswered, Idle
<1>4. CASE Restart
  <2>1. \A d \in Clients : Idle(d)'
    BY <1>4 DEF Restart, Idle, NoJob
  <2> QED BY <2>1 DEF Unanswered
<1>5. CASE \E c \in Clients : Runs(c) \/ Comes(c)
  BY <1>1, <1>2, <1>5 DEF Unanswered
<1> QED BY <1>3, <1>4, <1>5, CacheKinds

------------------------------------------------------------------------------
(* What the caches answer is no older than they promise.                       *)

CachesInv == Unanswered /\ KeysInv /\ TokensInv /\ RightsInv

\* What CachesInTime says of one request.
InTime(c) ==
    /\ Passes(c) /\ job[c].token.id # 0 => TokenValid(job[c].token.id)
    /\ Passes(c) => RightsHeld(job[c].caller, Arg(c).repo, Arg(c).action)
    /\ Trusts(c) => \/ Arg(c).kid \in external.published
                    \/ now <= external.retired[Arg(c).kid] + JwksTtl
    /\ (At(c, "cachedKey") \/ At(c, "fetchKeys")) /\ Arg(c).kid \in external.published
         => job'[c].code # 401
LEMMA AllInTime == ASSUME \A c \in Clients : InTime(c) PROVE CachesInTime
BY DEF InTime, CachesInTime, PassesValid, PassesRecent, TrustsRecent, AcceptsPublished

\* A request that does not move neither passes nor is answered,
LEMMA UnmovedInTime ==
    ASSUME Shape, Unanswered, NEW c \in Clients, job'[c] = job[c]
    PROVE  InTime(c)
<1>1. ASSUME Passes(c) PROVE FALSE
  <2>1. job[c].plan \in Seq(Steps) /\ job[c].plan # <<>> /\ job[c].plan = Tail(job[c].plan)
    BY <1>1 DEF Passes, At, Rest, Shape, JobShape, Planned, WellPlanned
  <2>2. PICK p \in Seq(Steps) : p # <<>> /\ p = Tail(p)
    BY <2>1
  <2>3. Len(Tail(p)) = Len(p) - 1
    BY <2>2, HeadTailProperties
  <2>4. PICK n \in Nat : n = Len(p)
    OBVIOUS
  <2> QED BY <2>2, <2>3, <2>4
<1>2. ~Trusts(c)
  BY DEF Trusts, At
<1>3. ~Idle(c) => job'[c].code = 0
  BY DEF Unanswered
<1> QED BY <1>1, <1>2, <1>3 DEF InTime, At, Idle

\* nor does one that is over, unless it was refused.
LEMMA OverInTime ==
    ASSUME Shape, NEW c \in Clients, Idle(c)', job'[c].code # 401
    PROVE  InTime(c)
<1>1. ASSUME Passes(c) PROVE FALSE
  <2>1. At(c, "tokenRights") /\ Tail(job[c].plan) = <<>>
    BY <1>1 DEF Passes, Idle, Rest
  <2>2. WellPlanned(job[c].op, Active(job[c]), job[c].plan) /\ job[c].plan # <<>>
        /\ Head(job[c].plan) = "tokenRights"
    BY <2>1 DEF At, Shape, JobShape, Planned
  <2>3. Ahead(job[c].op, Active(job[c]), "tokenRights") > 0
    BY DEF Ahead
  <2> QED BY <2>1, <2>2, <2>3, PlansLeft
<1>2. ~Trusts(c)
  BY DEF Trusts, Idle
<1> QED BY <1>1, <1>2 DEF InTime

\* A request passes with a token that is in the table and has not expired, and with rights its
\* user has or lost lately.
LEMMA PassesInTime ==
    ASSUME Shape, CachesInv, NEW c \in Clients, Runs(c), At(c, "tokenRights")
    PROVE  InTime(c)
<1>1. \A y : At(c, y) => y = "tokenRights"
  BY DEF At
<1>2. RightsHeld(job[c].caller, Arg(c).repo, Arg(c).action)
  BY DEF CachesInv, RightsInv, Judges
<1>3. Copied(job[c].token) /\ (job[c].token.id # 0 => now < job[c].token.expires)
  BY ServesAt DEF CachesInv, TokensInv
<1>4. ASSUME Passes(c), job[c].token.id # 0 PROVE TokenValid(job[c].token.id)
  <2>1. WellPlanned(job[c].op, Active(job[c]), job[c].plan) /\ job[c].plan # <<>>
        /\ Head(job[c].plan) = "tokenRights"
    BY DEF At, Shape, JobShape, Planned
  <2>2. Ahead(job[c].op, Active(job[c]), "tokenRights") > 0
    BY DEF Ahead
  <2>3. job'[c].plan # <<>>
    BY <1>4, <2>1, <2>2, PlansLeft DEF Passes, Rest
  <2>4. ~Reply(c, 403) /\ ~Reply(c, 500)
    BY <2>3, Replies DEF Shape, Idle
  <2>5. TokenRights(c)
    BY <2>4 DEF Runs, DoesAt, StepFails
  <2>6. job[c].token.id \in DOMAIN tokens
    BY <1>4, <2>4, <2>5 DEF TokenRights, AdvanceOr
  <2> QED BY <1>3, <1>4, <2>6 DEF Copied, TokenValid
<1>5. ~Trusts(c)
  BY <1>1 DEF Trusts
<1> QED BY <1>1, <1>2, <1>4, <1>5 DEF InTime

\* A key from the cache is one the provider publishes, or retired a while ago.
LEMMA TrustsInTime ==
    ASSUME Shape, CachesInv, NEW c \in Clients, Runs(c), At(c, "cachedKey")
    PROVE  InTime(c)
<1>1. \A y : At(c, y) => y = "cachedKey"
  BY DEF At
<1>2. ~Passes(c)
  BY <1>1 DEF Passes
<1>3. StepFails(c) \/ CachedKey(c)
  BY DEF Runs, DoesAt
<1>4. CASE StepFails(c) \/ Reply(c, 404)
  <2>1. PICK n \in {404, 500} : Reply(c, n)
    BY <1>4 DEF StepFails
  <2>2. Idle(c)' /\ job'[c].code = n
    BY <2>1, Replies DEF Reply, Shape, JobShape, NoJob
  <2> QED BY <2>2, OverInTime
<1>6. CASE Advance(c)
  <2>1. job'[c].plan = Rest(c) /\ job'[c].code = job[c].code
    BY <1>6 DEF Advance, Goto, Shape, JobShape, Fields
  <2>2. job[c].code = 0
    BY DEF Runs, CachesInv, Unanswered
  <2>3. ASSUME Trusts(c) PROVE FALSE
    <3>1. At(c, "matchEmail")'
      BY <2>3 DEF Trusts, At
    <3>2. Follows(job[c].op, Active(job[c]), "cachedKey", "matchEmail")
      BY <2>1, <3>1, RestAt
    <3> QED BY <3>2 DEF Follows
  <2> QED BY <1>2, <2>1, <2>2, <2>3 DEF InTime
<1>7. CASE KeysLive /\ Arg(c).kid \in external.jwks.keys /\ Goto(c, SkipTo(c, "matchEmail"))
  <2>1. job'[c].code = job[c].code
    BY <1>7 DEF Goto, Shape, JobShape, Fields
  <2>2. job[c].code = 0
    BY DEF Runs, CachesInv, Unanswered
  <2>3. InUse(Arg(c).kid, external.jwks.at) /\ external.jwks.at \in Nat
        /\ \A k \in DOMAIN external.retired : external.retired[k] \in Nat
    BY <1>7 DEF CachesInv, KeysInv
  <2>4. external.jwks.at + JwksTtl >= now /\ JwksTtl \in Nat /\ now \in Nat
    BY <1>7, ExternalAssumption DEF KeysLive, Shape
  <2>5. Arg(c).kid \in external.published \/ now <= external.retired[Arg(c).kid] + JwksTtl
    BY <2>3, <2>4 DEF InUse
  <2> QED BY <1>2, <2>1, <2>2, <2>5 DEF InTime
<1> QED BY <1>3, <1>4, <1>6, <1>7 DEF CachedKey

\* A published key is found where the keys are fetched from.
LEMMA AcceptsInTime ==
    ASSUME Shape, CachesInv, NEW c \in Clients, Runs(c), At(c, "fetchKeys")
    PROVE  InTime(c)
<1>1. \A y : At(c, y) => y = "fetchKeys"
  BY DEF At
<1>2. ~Passes(c) /\ ~Trusts(c)
  BY <1>1 DEF Passes, Trusts
<1>3. ASSUME Arg(c).kid \in external.published PROVE job'[c].code # 401
  <2>1. CASE StepFails(c)
    BY <2>1 DEF StepFails, Reply, Shape, JobShape, NoJob
  <2>2. CASE FetchKeys(c)
    <3>1. Goes(c, [keys |-> external.published]) /\ job[c].code = 0
      BY <1>3, <2>2 DEF FetchKeys, Runs, CachesInv, Unanswered
    <3> QED BY <3>1 DEF Goes, Shape, JobShape, Fields
  <2> QED BY <2>1, <2>2 DEF Runs, DoesAt
<1> QED BY <1>2, <1>3 DEF InTime

\* So it is with every step.
LEMMA StepsInTime == ASSUME Shape, CachesInv, [Next]_vars PROVE CachesInTime
<1>1. Unanswered
  BY DEF CachesInv
<1>2. ASSUME NEW c \in Clients, Runs(c), NEW d \in Clients PROVE InTime(d)
  <2>1. CASE d # c
    <3>1. job'[d] = job[d]
      BY <1>2, <2>1 DEF Runs, Proceeds, Alone
    <3> QED BY <1>1, <3>1, UnmovedInTime
  <2>2. CASE d = c /\ (At(c, "tokenRights") \/ At(c, "cachedKey") \/ At(c, "fetchKeys"))
    BY <1>2, <2>2, PassesInTime, TrustsInTime, AcceptsInTime
  <2>3. CASE ~(At(d, "tokenRights") \/ At(d, "cachedKey") \/ At(d, "fetchKeys"))
    BY <2>3 DEF InTime, Passes, Trusts
  <2> QED BY <2>1, <2>2, <2>3
<1>3. ASSUME NEW c \in Clients, Comes(c), NEW d \in Clients PROVE InTime(d)
  <2>1. CASE d # c
    <3>1. job'[d] = job[d]
      BY <1>3, <2>1, ArrivalFacts DEF Comes, Alone
    <3> QED BY <1>1, <3>1, UnmovedInTime
  <2>2. CASE d = c
    BY <1>3, <2>2 DEF InTime, Passes, Trusts, Comes, Idle, At
  <2> QED BY <2>1, <2>2
<1>4. CASE Ticks \/ KeysRotate \/ UNCHANGED vars
  <2>1. job' = job
    BY <1>4 DEF Ticks, KeysRotate, vars
  <2> QED BY <1>1, <2>1, UnmovedInTime, AllInTime
<1>5. CASE Restart
  <2>1. \A d \in Clients : Idle(d)' /\ job'[d].code = 0
    BY <1>5 DEF Restart, Idle, NoJob
  <2> QED BY <2>1, OverInTime, AllInTime
<1>6. CASE \E c \in Clients : Runs(c) \/ Comes(c)
  BY <1>2, <1>3, <1>6, AllInTime
<1> QED BY <1>4, <1>5, <1>6, CacheKinds

\* No request of a repository passes with a token that has expired or been deleted, nor with
\* rights its user lost longer ago than an entry of the token cache lives; a signing key the
\* provider has retired is trusted for the lifetime of the fetched keys at most, and one it
\* publishes is not refused: for any number of requests at a time, restarts and failures.
THEOREM CachesAnswerInTime == Spec => AuthCachesBounded
<1>1. Init => Shape /\ CachesInv
  <2>1. Init => Unanswered
    BY DEF Init, AccountsInit, Unanswered, Idle, NoJob
  <2> QED BY <2>1, ShapeInitial, KeysInitial, TokensInitial, RightsInitial DEF CachesInv
<1>2. Shape /\ CachesInv /\ [Next]_vars => Shape' /\ CachesInv'
  BY ShapeKept, UnansweredKept, KeysInvKept, TokensInvKept, RightsInvKept DEF CachesInv
<1>3. Shape /\ CachesInv /\ [Next]_vars => [CachesInTime]_vars
  BY StepsInTime
<1> QED BY <1>1, <1>2, <1>3, PTL DEF Spec, AuthCachesBounded
==============================================================================
