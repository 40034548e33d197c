----------------------------- MODULE MCAccounts -----------------------------
(***************************************************************************)
(* TLC instance of ExternalLogin and, under it, Accounts.  Each workload   *)
(* is a small set of requests that meet on the same rows.                  *)
(***************************************************************************)
EXTENDS ExternalLogin

ReadsPrivate == <<"priv", "read">>
Load(ops, requests, faults, time) ==
    [ops |-> ops, about |-> {1, 2}, by |-> {"token"},
     asks |-> {ReadsPrivate, <<"pub", "read">>, <<"pub", "write">>},
     requests |-> requests, faults |-> faults, time |-> time]

MCWorkloads == {
    Load({"login", "status", "deleteUser"}, 2, 1, 0),
    Load({"login", "logout", "whoami", "cleaner"}, 2, 0, 2),
    [Load({"status", "deleteUser", "permissions"}, 2, 0, 0) EXCEPT !.asks = {ReadsPrivate}],
    Load({"requestReset", "checkReset", "reset"}, 3, 1, 1),
    Load({"changePassword", "updatePassword", "login"}, 2, 0, 0),
    [Load({"createToken", "deleteToken", "repository", "cleaner"}, 2, 0, 2) EXCEPT !.asks = {ReadsPrivate}],
    [Load({"repository", "permissions"}, 3, 0, 2) EXCEPT !.about = {2}, !.asks = {ReadsPrivate}],
    [Load({"dockerToken", "repository"}, 2, 0, 0) EXCEPT !.by = {"token", "basic", "session", "nobody"}],
    Load({"authorize", "callback"}, 3, 0, 0),
    Load({"authorize", "callback"}, 2, 1, 1),
    Load({"authorize", "settings"}, 2, 1, 1),
    Load({"sso"}, 2, 0, 2),
    [Load({"createUser", "updateUser", "changeEmail"}, 2, 0, 0) EXCEPT !.about = {2}],
    [Load({"sso", "createUser"}, 2, 0, 0) EXCEPT !.about = {}],
    [Load({"sso", "updateUser"}, 3, 0, 0) EXCEPT !.about = {4}],
    [Load({"sso", "updateUser"}, 2, 0, 0) EXCEPT !.about = {2}]}

\* Somebody with an account, a newcomer without an address, and one whose address is not verified.
MCPrincipals == {
    [base |-> "ann", email |-> Mail("ann"), verified |-> TRUE, roles |-> {"admin"}],
    [base |-> "bob", email |-> NoText, verified |-> FALSE, roles |-> {"member"}],
    [base |-> "bob", email |-> Mail("bob"), verified |-> FALSE, roles |-> {}]}
=============================================================================
