------------------------------- MODULE Access -------------------------------
(***************************************************************************)
(* Accounts, the second factor and API keys (api/auth_routes.py,           *)
(* api/users_routes.py, api/deps.py, services/api_keys.py).  A handler     *)
(* reads the account, decides on what it read, and commits in a later      *)
(* step only the columns whose value differs from the one it read; the     *)
(* handlers run in a thread pool.  Tokens are signed and not stored: a     *)
(* token is good until it expires, whatever happens to the account, but    *)
(* each use reads the account anew.  Administrators call from accounts     *)
(* that are not in Users.  A request with a wrong password, code or token  *)
(* changes nothing and is left out.                                        *)
(***************************************************************************)
EXTENDS Naturals, FiniteSets

CONSTANTS
    Users,
    Handlers,   \* requests that can be in flight at once
    Passwords, Secrets, Codes, Keys,
    PerEnable,  \* recovery codes handed out at once: 8 in the code
    Null        \* a column that is NULL

ASSUME AccessAssumption ==
    /\ IsFiniteSet(Codes)
    /\ PerEnable \in Nat \ {0}
    /\ Null \notin Users \cup Passwords \cup Secrets

VARIABLES
    account,     \* the users row: status, super admin, password, secret, enabled
    code,        \* rows of recovery_codes: owner and state
    key,         \* rows of api_keys: owner, revoked
    force,       \* the setting force_2fa
    tokens,      \* unexpired tokens handed out: kind and user
    request,     \* what each handler has read and not yet committed
    overlapped,  \* were ever two requests of the user in flight at once?
    confirmed,   \* the secret the user's last 2fa/enable verified a code of
    handed,      \* the recovery codes that request answered with
    spent        \* logins completed by the recovery code

rows == <<account, code, key, force>>
seenByUser == <<confirmed, handed, spent>>
vars == <<rows, tokens, request, overlapped, seenByUser>>

Status == {"pending", "active", "disabled"}
Token == {"access", "refresh", "2fa_pending"} \X Users
Idle == [op |-> "idle", u |-> Null]

Init ==
    /\ account \in [Users -> [status : {"absent"}, super : {FALSE}, password : Passwords,
                              secret : {Null}, enabled : {FALSE}]
                             \cup [status : {"active"}, super : BOOLEAN, password : Passwords,
                                   secret : {Null}, enabled : {FALSE}]]
    /\ code = [c \in Codes |-> [owner |-> Null, state |-> "free"]]
    /\ key = [k \in Keys |-> [owner |-> Null, revoked |-> FALSE]]
    /\ force = FALSE
    /\ tokens = {}
    /\ request = [h \in Handlers |-> Idle]
    /\ overlapped = [u \in Users |-> FALSE]
    /\ confirmed = [u \in Users |-> Null]
    /\ handed = [u \in Users |-> {}]
    /\ spent = [c \in Codes |-> 0]

Exists(u) == account[u].status # "absent"
Active(u) == account[u].status = "active"
CodesOf(u) == {c \in Codes : code[c].owner = u /\ code[c].state \in {"unused", "used"}}

(* Handler h goes on with r; who else is at work on the same account?      *)
Continue(h, r) ==
    /\ request' = [request EXCEPT ![h] = r]
    /\ overlapped' = [u \in Users |->
          \/ overlapped[u]
          \/ u = r.u /\ \E other \in Handlers \ {h} : request[other].u = u]

Begin(h, r) ==
    /\ Continue(h, r)
    /\ UNCHANGED <<rows, tokens, seenByUser>>

(* get_current_user: an access token, or an API key resolved just before;  *)
(* the account is read in either case.                                     *)
SignedIn(h, u) ==
    /\ Active(u)
    /\ \/ request[h] = Idle /\ <<"access", u>> \in tokens
       \/ request[h] = [op |-> "keyed", u |-> u]

(* The handler is done, or fails.                                          *)
Finish(h) == Continue(h, Idle)

-----------------------------------------------------------------------------
(* Accounts.                                                               *)

(* register and create_user: the name is looked for before the insert.     *)
(* What a request carries is chosen when it is written.                    *)
Register(h, u) ==
    /\ request[h] = Idle /\ ~Exists(u)
    /\ Begin(h, [op |-> "register", u |-> u])

(* Username and email are unique columns: the second insert fails.         *)
CommitRegister(h) ==
    /\ request[h].op = "register"
    /\ LET u == request[h].u IN
       \E status \in Status, p \in Passwords :
          account' = IF Exists(u) THEN account
                     ELSE [account EXCEPT ![u] =
                            [status |-> status, super |-> FALSE, password |-> p,
                             secret |-> Null, enabled |-> FALSE]]
    /\ Finish(h)
    /\ UNCHANGED <<code, key, force, tokens, seenByUser>>

(* approve, reject, and an update of the status by an administrator; only  *)
(* reject spares a super admin.  The status that was read already is not   *)
(* written: such a request changes nothing.                                *)
SetStatus(h, u, status) ==
    /\ request[h] = Idle /\ Exists(u)
    /\ status # account[u].status
    /\ Begin(h, [op |-> "status", u |-> u, status |-> status])

CommitStatus(h) ==
    /\ request[h].op = "status"
    /\ account' = [account EXCEPT ![request[h].u].status = request[h].status]
    /\ Finish(h)
    /\ UNCHANGED <<code, key, force, tokens, seenByUser>>

ChangePassword(h, u) ==
    /\ SignedIn(h, u)
    /\ Begin(h, [op |-> "password", u |-> u])

(* The new hash has its own salt and always differs from the one read.     *)
CommitPassword(h) ==
    /\ request[h].op = "password"
    /\ \E p \in Passwords : account' = [account EXCEPT ![request[h].u].password = p]
    /\ Finish(h)
    /\ UNCHANGED <<code, key, force, tokens, seenByUser>>

SetForce(b) ==
    /\ force # b
    /\ force' = b
    /\ UNCHANGED <<account, code, key, tokens, request, overlapped, seenByUser>>

-----------------------------------------------------------------------------
(* Login.                                                                  *)

(* With a second factor the answer is a temporary token and no row is      *)
(* written.                                                                *)
LoginPending(h, u) ==
    /\ request[h] = Idle
    /\ Active(u) /\ account[u].enabled
    /\ tokens' = tokens \cup {<<"2fa_pending", u>>}
    /\ UNCHANGED <<rows, request, overlapped, seenByUser>>

Login(h, u) ==
    /\ request[h] = Idle
    /\ Active(u) /\ ~account[u].enabled
    /\ force => account[u].super
    /\ Begin(h, [op |-> "issue", u |-> u])

SecondFactorDue(h, u) ==
    /\ request[h] = Idle
    /\ <<"2fa_pending", u>> \in tokens
    /\ Active(u) /\ account[u].enabled /\ account[u].secret # Null

LoginTotp(h, u) ==
    /\ SecondFactorDue(h, u)
    /\ Begin(h, [op |-> "issue", u |-> u])

LoginRecovery(h, u) ==
    /\ SecondFactorDue(h, u)
    /\ \E c \in CodesOf(u) :
          /\ code[c].state = "unused"
          /\ Begin(h, [op |-> "code", u |-> u, code |-> c])

(* Rows a handler has deleted and not committed are locked.                *)
Locked(c) == \E h \in Handlers : request[h].op \in {"enable", "disable"} /\ c \in request[h].olds

(* Mistake: the login goes on before the code is marked.                   *)
SpendUnmarked(h) ==
    /\ request[h].op = "code"
    /\ spent' = [spent EXCEPT ![request[h].code] = @ + 1]
    /\ Continue(h, [op |-> "issue", u |-> request[h].u])
    /\ UNCHANGED <<rows, tokens, confirmed, handed>>

(* The code that was unused when it was read is marked by its primary key; *)
(* if it has been deleted the update fails.                                *)
SpendCode(h) ==
    /\ request[h].op = "code"
    /\ LET c == request[h].code
           u == request[h].u IN
          /\ ~Locked(c)
          /\ IF code[c].state = "deleted"
             THEN Finish(h) /\ UNCHANGED <<code, spent>>
             ELSE /\ code' = [code EXCEPT ![c].state = "used"]
                  /\ spent' = [spent EXCEPT ![c] = @ + 1]
                  /\ Continue(h, [op |-> "issue", u |-> u])
    /\ UNCHANGED <<account, key, force, tokens, confirmed, handed>>

(* The session row of the device and the audit row are committed before    *)
(* (see Sessions); then the tokens are signed.                            *)
IssueTokens(h) ==
    /\ request[h].op = "issue"
    /\ tokens' = tokens \cup ({"access", "refresh"} \X {request[h].u})
    /\ Finish(h)
    /\ UNCHANGED <<rows, seenByUser>>

(* Neither the second factor nor force_2fa is asked again.                 *)
Refresh(h, u) ==
    /\ request[h] = Idle
    /\ <<"refresh", u>> \in tokens /\ Active(u)
    /\ tokens' = tokens \cup {<<"access", u>>}
    /\ UNCHANGED <<rows, request, overlapped, seenByUser>>

(* A token expires, or logout drops the cookie that held it.               *)
Expire(t) ==
    /\ t \in tokens
    /\ tokens' = tokens \ {t}
    /\ UNCHANGED <<rows, request, overlapped, seenByUser>>

-----------------------------------------------------------------------------
(* The second factor.                                                      *)

Setup(h, u) ==
    /\ SignedIn(h, u)
    /\ Begin(h, [op |-> "setup", u |-> u, on |-> account[u].enabled])

(* Mistake: the old factor stays enabled until the new secret is verified. *)
CommitSetupEnabled(h) ==
    /\ request[h].op = "setup"
    /\ LET u == request[h].u IN
       \E s \in Secrets \ {account[u].secret} : account' = [account EXCEPT ![u].secret = s]
    /\ Finish(h)
    /\ UNCHANGED <<code, key, force, tokens, seenByUser>>

(* A new secret, and the second factor is off until it is verified.        *)
CommitSetup(h) ==
    /\ request[h].op = "setup"
    /\ LET r == request[h] IN
       \E s \in Secrets \ {account[r.u].secret} :
          account' = [account EXCEPT
              ![r.u].secret = s,
              ![r.u].enabled = IF r.on THEN FALSE ELSE @]
    /\ Finish(h)
    /\ UNCHANGED <<code, key, force, tokens, seenByUser>>

(* The code is verified against the secret as read; the old recovery codes *)
(* are deleted, which locks them until the commit.                         *)
Enable(h, u) ==
    /\ SignedIn(h, u)
    /\ account[u].secret # Null
    /\ Begin(h, [op |-> "enable", u |-> u, on |-> account[u].enabled,
                secret |-> account[u].secret, olds |-> CodesOf(u)])

CommitEnable(h) ==
    /\ request[h].op = "enable"
    /\ LET r == request[h] IN
       \E new \in SUBSET {c \in Codes : code[c].state = "free"} :
          /\ Cardinality(new) = PerEnable
          /\ account' = [account EXCEPT ![r.u].enabled = r.on => @]
          /\ code' = [c \in Codes |->
                IF c \in new THEN [owner |-> r.u, state |-> "unused"]
                ELSE IF c \in r.olds THEN [code[c] EXCEPT !.state = "deleted"]
                ELSE code[c]]
          /\ confirmed' = [confirmed EXCEPT ![r.u] = r.secret]
          /\ handed' = [handed EXCEPT ![r.u] = new]
    /\ Finish(h)
    /\ UNCHANGED <<key, force, tokens, spent>>

Disable(h, u) ==
    /\ SignedIn(h, u)
    /\ force => account[u].super
    /\ account[u].enabled /\ account[u].secret # Null
    /\ Begin(h, [op |-> "disable", u |-> u, olds |-> CodesOf(u)])

(* Mistake: the recovery codes outlive the factor they belong to.          *)
CommitDisableKeepCodes(h) ==
    /\ request[h].op = "disable"
    /\ account' = [account EXCEPT ![request[h].u].enabled = FALSE, ![request[h].u].secret = Null]
    /\ Finish(h)
    /\ UNCHANGED <<code, key, force, tokens, seenByUser>>

CommitDisable(h) ==
    /\ request[h].op = "disable"
    /\ LET r == request[h] IN
          /\ account' = [account EXCEPT ![r.u].enabled = FALSE, ![r.u].secret = Null]
          /\ code' = [c \in Codes |->
                IF c \in r.olds THEN [code[c] EXCEPT !.state = "deleted"] ELSE code[c]]
    /\ Finish(h)
    /\ UNCHANGED <<key, force, tokens, seenByUser>>

-----------------------------------------------------------------------------
(* API keys.  Creating and revoking one is a single commit; creating needs *)
(* a permission no key can carry, so only a token can.                     *)

CreateKey(u, k) ==
    /\ Active(u) /\ <<"access", u>> \in tokens
    /\ key[k].owner = Null
    /\ key' = [key EXCEPT ![k].owner = u]
    /\ UNCHANGED <<account, code, force, tokens, request, overlapped, seenByUser>>

RevokeKey(u, k) ==
    /\ Active(u) /\ <<"access", u>> \in tokens
    /\ key[k].owner # Null
    /\ account[u].super \/ key[k].owner = u
    /\ key' = [key EXCEPT ![k].revoked = TRUE]
    /\ UNCHANGED <<account, code, force, tokens, request, overlapped, seenByUser>>

ResolveKey(h, k) ==
    /\ request[h] = Idle
    /\ key[k].owner # Null /\ ~key[k].revoked
    /\ Begin(h, [op |-> "key", u |-> key[k].owner, key |-> k])

(* Mistake: the whole row is written back as it was read.                  *)
StampWholeRow(h) ==
    /\ request[h].op = "key"
    /\ key' = [key EXCEPT ![request[h].key].revoked = FALSE]
    /\ Continue(h, [op |-> "keyed", u |-> request[h].u])
    /\ UNCHANGED <<account, code, force, tokens, seenByUser>>

(* last_used_at, the only column written, is left out.                     *)
StampKey(h) ==
    /\ request[h].op = "key"
    /\ Continue(h, [op |-> "keyed", u |-> request[h].u])
    /\ UNCHANGED <<rows, tokens, seenByUser>>

(* The API process dies, the database fails, the account is not active, or *)
(* the request was a read.                                                 *)
Drop(h) ==
    /\ request[h] # Idle
    /\ Finish(h)
    /\ UNCHANGED <<rows, tokens, seenByUser>>

(* The API restarts: what was in flight is gone, and the seed makes the    *)
(* configured administrator, the only super admin there is, active again.  *)
Restart ==
    /\ request' = [h \in Handlers |-> Idle]
    /\ account' = [u \in Users |->
          IF account[u].super THEN [account[u] EXCEPT !.status = "active"] ELSE account[u]]
    /\ UNCHANGED <<code, key, force, tokens, overlapped, seenByUser>>

-----------------------------------------------------------------------------
Start(h, u) ==
    \/ Register(h, u) \/ ChangePassword(h, u)
    \/ \E status \in Status : SetStatus(h, u, status)
    \/ LoginPending(h, u) \/ Login(h, u) \/ LoginTotp(h, u) \/ LoginRecovery(h, u)
    \/ Refresh(h, u)
    \/ Setup(h, u) \/ Enable(h, u) \/ Disable(h, u)

Proceed(h) ==
    \/ CommitRegister(h) \/ CommitStatus(h) \/ CommitPassword(h)
    \/ SpendCode(h) \/ IssueTokens(h)
    \/ CommitSetup(h) \/ CommitEnable(h) \/ CommitDisable(h)
    \/ StampKey(h) \/ Drop(h)

Next ==
    \/ \E h \in Handlers : Proceed(h)
    \/ \E h \in Handlers, u \in Users : Start(h, u)
    \/ \E h \in Handlers, k \in Keys : ResolveKey(h, k)
    \/ \E u \in Users, k \in Keys : CreateKey(u, k) \/ RevokeKey(u, k)
    \/ \E b \in BOOLEAN : SetForce(b)
    \/ \E t \in tokens : Expire(t)
    \/ Restart

Spec == Init /\ [][Next]_vars
-----------------------------------------------------------------------------
Account == [status : Status \cup {"absent"}, super : BOOLEAN, password : Passwords,
            secret : Secrets \cup {Null}, enabled : BOOLEAN]

Request ==
    {Idle}
    \cup [op : {"register", "password", "issue", "keyed"}, u : Users]
    \cup [op : {"status"}, u : Users, status : Status]
    \cup [op : {"code"}, u : Users, code : Codes]
    \cup [op : {"setup"}, u : Users, on : BOOLEAN]
    \cup [op : {"enable"}, u : Users, on : BOOLEAN, secret : Secrets, olds : SUBSET Codes]
    \cup [op : {"disable"}, u : Users, olds : SUBSET Codes]
    \cup [op : {"key"}, u : Users, key : Keys]

(* Every variable has its type.                                            *)
TypeOK ==
    /\ account \in [Users -> Account]
    /\ code \in [Codes -> [owner : Users \cup {Null},
                           state : {"free", "unused", "used", "deleted"}]]
    /\ key \in [Keys -> [owner : Users \cup {Null}, revoked : BOOLEAN]]
    /\ force \in BOOLEAN
    /\ tokens \subseteq Token
    /\ request \in [Handlers -> Request]
    /\ overlapped \in [Users -> BOOLEAN]
    /\ confirmed \in [Users -> Secrets \cup {Null}]
    /\ handed \in [Users -> SUBSET Codes]
    /\ spent \in [Codes -> Nat]

(* Unless two requests of the user were in flight at once, an enabled      *)
(* second factor is one the user can pass: it has a secret, the one a code *)
(* was verified against, and the codes that still open it are those the    *)
(* user was last given and has not spent.                                  *)
SecondFactorWhole ==
    \A u \in Users : account[u].enabled /\ ~overlapped[u] =>
        /\ account[u].secret # Null
        /\ confirmed[u] = account[u].secret
        /\ {c \in CodesOf(u) : code[c].state = "unused"} = {c \in handed[u] : spent[c] = 0}

(* Unless requests overlapped, a recovery code completes one login.        *)
CodeSpentOnce == \A c \in Codes : spent[c] > 1 => overlapped[code[c].owner]

(* Whatever overlaps, no handler undoes a revocation it has not read: a    *)
(* revoked key stays revoked, and a disabled account comes back only by an *)
(* administrator's change of its status or by the seed.                    *)
RevocationStays ==
    [][/\ \A k \in Keys : key[k].revoked => key'[k].revoked
       /\ \A u \in Users :
            account[u].status = "disabled" /\ account'[u].status # "disabled" =>
                \/ account[u].super
                \/ \E h \in Handlers :
                      /\ request[h].op = "status" /\ request[h].u = u
                      /\ request[h].status = account'[u].status]_vars

Factor == INSTANCE SecondFactor WITH
    secret <- [u \in Users |-> account[u].secret],
    on <- [u \in Users |-> account[u].enabled],
    codes <- [u \in Users |-> {c \in CodesOf(u) : code[c].state = "unused"}],
    given <- {c \in Codes : code[c].state # "free"},
    disturbed <- overlapped

(* Whatever the requests of other users, restarts, keys and tokens do, the *)
(* second factor of a user whose own requests come one after the other     *)
(* changes in single steps, each on what it is at that moment.             *)
ImplementsSecondFactor == Factor!Spec
=============================================================================
