---------------------------- MODULE AccessProofs ----------------------------
(***************************************************************************)
(* Proofs about Access for every set of accounts, handlers, codes and      *)
(* keys.                                                                   *)
(***************************************************************************)
EXTENDS Access, TLAPS

(* The fields of a request by its kind.                                    *)
LEMMA RequestShape ==
    ASSUME NEW r \in Request
    PROVE  /\ r.op = "idle" <=> r = Idle
           /\ r # Idle => r.u \in Users
           /\ r.op = "status" => r.status \in Status
           /\ r.op = "code" => r.code \in Codes
           /\ r.op = "setup" => r.on \in BOOLEAN
           /\ r.op = "enable" => /\ r.on \in BOOLEAN /\ r.secret \in Secrets
                                 /\ r.olds \in SUBSET Codes
           /\ r.op = "disable" => r.olds \in SUBSET Codes
           /\ r.op = "key" => r.key \in Keys
  BY DEF Request, Idle

(* A handler goes on: its request is replaced, the others stay.            *)
LEMMA Goes ==
    ASSUME TypeOK, NEW h \in Handlers, NEW r \in Request, Continue(h, r)
    PROVE  /\ request' \in [Handlers -> Request]
           /\ request'[h] = r
           /\ \A g \in Handlers \ {h} : request'[g] = request[g]
           /\ overlapped' \in [Users -> BOOLEAN]
           /\ \A u \in Users : ~overlapped'[u] =>
                 /\ ~overlapped[u]
                 /\ r.u = u => \A g \in Handlers \ {h} : request[g].u # u
<1>1. request \in [Handlers -> Request] /\ overlapped \in [Users -> BOOLEAN]
  BY DEF TypeOK
<1>2. request' = [request EXCEPT ![h] = r]
  BY DEF Continue
<1>3. \A u \in Users : overlapped'[u] =
         (overlapped[u] \/ (u = r.u /\ \E g \in Handlers \ {h} : request[g].u = u))
  BY Zenon DEF Continue
<1>4. overlapped' \in [Users -> BOOLEAN]
  <2>1. \A u \in Users :
           (overlapped[u] \/ (u = r.u /\ \E g \in Handlers \ {h} : request[g].u = u)) \in BOOLEAN
    OBVIOUS
  <2> QED
    BY <2>1, Zenon DEF Continue
<1> QED
  BY <1>1, <1>2, <1>3, <1>4

(* Every variable starts out with its type.                                *)
LEMMA InitType == Init => TypeOK
<1> SUFFICES ASSUME Init PROVE TypeOK
  OBVIOUS
<1>1. account \in [Users -> Account]
  BY DEF Init, Account, Status
<1>2. request \in [Handlers -> Request]
  BY DEF Init, Request
<1>3. code \in [Codes -> [owner : Users \cup {Null},
                          state : {"free", "unused", "used", "deleted"}]]
      /\ key \in [Keys -> [owner : Users \cup {Null}, revoked : BOOLEAN]]
  BY DEF Init
<1> QED
  BY <1>1, <1>2, <1>3 DEF Init, TypeOK

(* Handler h goes on and the columns of the account that its commit writes *)
(* are of their type.                                                      *)
LEMMA TypeStep ==
    ASSUME TypeOK, NEW h \in Handlers, NEW r \in Request, Continue(h, r),
           account' \in [Users -> Account],
           code' \in [Codes -> [owner : Users \cup {Null},
                                state : {"free", "unused", "used", "deleted"}]],
           UNCHANGED <<key, force>>,
           tokens' \subseteq Token,
           confirmed' \in [Users -> Secrets \cup {Null}],
           handed' \in [Users -> SUBSET Codes],
           spent' \in [Codes -> Nat]
    PROVE  TypeOK'
  BY Goes DEF TypeOK

(* Every step keeps the types, one case for each action.                   *)
LEMMA NextType == TypeOK /\ [Next]_vars => TypeOK'
<1> SUFFICES ASSUME TypeOK, [Next]_vars PROVE TypeOK'
  OBVIOUS
<1>idle. Idle \in Request
  BY DEF Request
<1>req. \A h \in Handlers : request[h] \in Request
  BY DEF TypeOK
<1>acc. account \in [Users -> Account]
  BY DEF TypeOK
<1>cod. code \in [Codes -> [owner : Users \cup {Null}, state : {"free", "unused", "used", "deleted"}]]
  BY DEF TypeOK
<1>1. CASE UNCHANGED vars
  BY <1>1 DEF vars, rows, seenByUser, TypeOK
<1>2. ASSUME NEW h \in Handlers, NEW r \in Request, Begin(h, r) PROVE TypeOK'
  BY <1>2, TypeStep DEF Begin, rows, seenByUser, TypeOK
<1>3. ASSUME NEW h \in Handlers, Proceed(h) PROVE TypeOK'
  <2>1. CASE CommitRegister(h)
    <3>1. account' \in [Users -> Account]
      BY <1>acc, <1>req, <2>1, RequestShape DEF CommitRegister, Account
    <3> QED
      BY <2>1, <3>1, <1>idle, TypeStep DEF CommitRegister, Finish, seenByUser, TypeOK
  <2>2. CASE CommitStatus(h)
    <3>1. account' \in [Users -> Account]
      BY <1>acc, <1>req, <2>2, RequestShape DEF CommitStatus, Account
    <3> QED
      BY <2>2, <3>1, <1>idle, TypeStep DEF CommitStatus, Finish, seenByUser, TypeOK
  <2>3. CASE CommitPassword(h)
    <3>1. account' \in [Users -> Account]
      BY <1>acc, <1>req, <2>3, RequestShape DEF CommitPassword, Account
    <3> QED
      BY <2>3, <3>1, <1>idle, TypeStep DEF CommitPassword, Finish, seenByUser, TypeOK
  <2>4. CASE SpendCode(h)
    <3> DEFINE c == request[h].code
               r == [op |-> "issue", u |-> request[h].u]
    <3>1. c \in Codes /\ r \in Request
      BY <1>req, <2>4, RequestShape DEF SpendCode, Request, Idle
    <3>2. CASE code[c].state = "deleted"
      BY <2>4, <3>1, <3>2, <1>idle, TypeStep DEF SpendCode, Finish, TypeOK
    <3>3. CASE code[c].state # "deleted"
      <4>1. /\ code' = [code EXCEPT ![c].state = "used"]
            /\ spent' = [spent EXCEPT ![c] = @ + 1]
            /\ Continue(h, r)
            /\ UNCHANGED <<account, key, force, tokens, confirmed, handed>>
        BY <2>4, <3>3 DEF SpendCode
      <4>2. code' \in [Codes -> [owner : Users \cup {Null}, state : {"free", "unused", "used", "deleted"}]]
        BY <1>cod, <3>1, <4>1
      <4>3. spent' \in [Codes -> Nat]
        BY <3>1, <4>1 DEF TypeOK
      <4> QED
        BY <3>1, <4>1, <4>2, <4>3, TypeStep DEF TypeOK
    <3> QED
      BY <3>2, <3>3
  <2>5. CASE IssueTokens(h)
    <3>1. tokens' \subseteq Token
      BY <1>req, <2>5, RequestShape DEF IssueTokens, TypeOK, Token, Idle
    <3> QED
      BY <2>5, <3>1, <1>idle, TypeStep DEF IssueTokens, Finish, rows, seenByUser, TypeOK
  <2>6. CASE CommitSetup(h)
    <3>1. account' \in [Users -> Account]
      BY <1>acc, <1>req, <2>6, RequestShape DEF CommitSetup, Account
    <3> QED
      BY <2>6, <3>1, <1>idle, TypeStep DEF CommitSetup, Finish, seenByUser, TypeOK
  <2>7. CASE CommitEnable(h)
    <3> DEFINE r == request[h]
    <3>1. r.u \in Users /\ r.on \in BOOLEAN /\ r.secret \in Secrets /\ r.olds \in SUBSET Codes
      BY <1>req, <2>7, RequestShape DEF CommitEnable, Idle
    <3> HIDE DEF r
    <3>2. PICK new \in SUBSET {c \in Codes : code[c].state = "free"} :
             /\ account' = [account EXCEPT ![r.u].enabled = r.on => @]
             /\ code' = [c \in Codes |->
                   IF c \in new THEN [owner |-> r.u, state |-> "unused"]
                   ELSE IF c \in r.olds THEN [code[c] EXCEPT !.state = "deleted"]
                   ELSE code[c]]
             /\ confirmed' = [confirmed EXCEPT ![r.u] = r.secret]
             /\ handed' = [handed EXCEPT ![r.u] = new]
      BY <2>7 DEF CommitEnable, r
    <3>3. (r.on => account[r.u].enabled) \in BOOLEAN
      OBVIOUS
    <3>4. account' \in [Users -> Account]
      BY <1>acc, <3>1, <3>2, <3>3 DEF Account
    <3>5. code' \in [Codes -> [owner : Users \cup {Null}, state : {"free", "unused", "used", "deleted"}]]
      BY <1>cod, <3>1, <3>2
    <3>6. confirmed' \in [Users -> Secrets \cup {Null}] /\ handed' \in [Users -> SUBSET Codes]
      BY <3>1, <3>2 DEF TypeOK
    <3> QED
      BY <2>7, <3>4, <3>5, <3>6, <1>idle, TypeStep DEF CommitEnable, Finish, TypeOK
  <2>8. CASE CommitDisable(h)
    <3> DEFINE u == request[h].u
    <3>0. u \in Users /\ account' = [account EXCEPT ![u].enabled = FALSE, ![u].secret = Null]
      BY <1>req, <2>8, RequestShape DEF CommitDisable, Idle
    <3> HIDE DEF u
    <3>1. account' \in [Users -> Account]
      BY <1>acc, <3>0 DEF Account
    <3>2. code' \in [Codes -> [owner : Users \cup {Null}, state : {"free", "unused", "used", "deleted"}]]
      BY <1>cod, <2>8 DEF CommitDisable
    <3> QED
      BY <2>8, <3>1, <3>2, <1>idle, TypeStep DEF CommitDisable, Finish, seenByUser, TypeOK
  <2>9. CASE StampKey(h)
    <3>1. [op |-> "keyed", u |-> request[h].u] \in Request
      BY <1>req, <2>9, RequestShape DEF StampKey, Request, Idle
    <3> QED
      BY <2>9, <3>1, TypeStep DEF StampKey, rows, seenByUser, TypeOK
  <2>10. CASE Drop(h)
    BY <2>10, <1>idle, TypeStep DEF Drop, Finish, rows, seenByUser, TypeOK
  <2> QED
    BY <1>3, <2>1, <2>2, <2>3, <2>4, <2>5, <2>6, <2>7, <2>8, <2>9, <2>10 DEF Proceed
<1>4. ASSUME NEW h \in Handlers, NEW u \in Users, Start(h, u) PROVE TypeOK'
  <2>1. CASE Register(h, u)
    BY <2>1, <1>2 DEF Register, Request
  <2>2. CASE ChangePassword(h, u)
    BY <2>2, <1>2 DEF ChangePassword, Request
  <2>3. ASSUME NEW status \in Status, SetStatus(h, u, status) PROVE TypeOK'
    BY <2>3, <1>2 DEF SetStatus, Request
  <2>4. CASE LoginPending(h, u) \/ Refresh(h, u)
    BY <2>4 DEF LoginPending, Refresh, rows, seenByUser, TypeOK, Token
  <2>5. CASE Login(h, u) \/ LoginTotp(h, u)
    BY <2>5, <1>2 DEF Login, LoginTotp, Request
  <2>6. CASE LoginRecovery(h, u)
    BY <2>6, <1>2 DEF LoginRecovery, CodesOf, Request
  <2>7. CASE Setup(h, u)
    BY <2>7, <1>2, <1>acc DEF Setup, Request, Account
  <2>8. CASE Enable(h, u)
    BY <2>8, <1>2, <1>acc DEF Enable, Request, Account, CodesOf
  <2>9. CASE Disable(h, u)
    BY <2>9, <1>2 DEF Disable, Request, CodesOf
  <2> QED
    BY <1>4, <2>1, <2>2, <2>3, <2>4, <2>5, <2>6, <2>7, <2>8, <2>9 DEF Start
<1>5. ASSUME NEW h \in Handlers, NEW k \in Keys, ResolveKey(h, k) PROVE TypeOK'
  <2>1. [op |-> "key", u |-> key[k].owner, key |-> k] \in Request
    BY <1>5 DEF ResolveKey, TypeOK, Request
  <2> QED
    BY <1>2, <1>5, <2>1 DEF ResolveKey
<1>6. ASSUME NEW u \in Users, NEW k \in Keys, CreateKey(u, k) \/ RevokeKey(u, k) PROVE TypeOK'
  BY <1>6 DEF CreateKey, RevokeKey, seenByUser, TypeOK
<1>7. ASSUME NEW b \in BOOLEAN, SetForce(b) PROVE TypeOK'
  BY <1>7 DEF SetForce, seenByUser, TypeOK
<1>8. ASSUME NEW t \in tokens, Expire(t) PROVE TypeOK'
  BY <1>8 DEF Expire, rows, seenByUser, TypeOK
<1>9. CASE Restart
  <2>1. account' \in [Users -> Account]
    BY <1>acc, <1>9 DEF Restart, Account, Status
  <2>2. request' \in [Handlers -> Request]
    BY <1>idle, <1>9 DEF Restart
  <2> QED
    BY <1>9, <2>1, <2>2 DEF Restart, seenByUser, TypeOK
<1> QED
  BY <1>1, <1>3, <1>4, <1>5, <1>6, <1>7, <1>8, <1>9 DEF Next

(* Every variable keeps its type.                                          *)
THEOREM TypeCorrect == Spec => []TypeOK
  BY InitType, NextType, PTL DEF Spec

-----------------------------------------------------------------------------
(* What a user has who never had two requests in flight at once: the codes *)
(* are spent at most once, the second factor is whole, and the one request *)
(* still agrees with the rows it read.                                     *)
Alone(u) == \A g, h \in Handlers : request[g].u = u /\ request[h].u = u => g = h

Once(u) ==
    \A c \in Codes : code[c].owner = u =>
        spent[c] <= 1 /\ (code[c].state = "unused" => spent[c] = 0)

Whole(u) ==
    account[u].enabled =>
        /\ account[u].secret # Null
        /\ confirmed[u] = account[u].secret
        /\ {c \in CodesOf(u) : code[c].state = "unused"} = {c \in handed[u] : spent[c] = 0}

Current(h) ==
    LET r == request[h] IN
    /\ r.op = "code" => code[r.code].state = "unused"
    /\ r.op = "setup" => r.on = account[r.u].enabled
    /\ r.op = "enable" => r.on = account[r.u].enabled /\ r.secret = account[r.u].secret
    /\ r.op \in {"enable", "disable"} => r.olds = CodesOf(r.u)

Undisturbed(u) ==
    /\ Alone(u) /\ Once(u) /\ Whole(u)
    /\ \A h \in Handlers : request[h].u = u => Current(h)

(* Codes belong to the user they were handed to, whatever overlaps.        *)
CodesOwned ==
    /\ \A c \in Codes : code[c].owner = Null <=> code[c].state = "free"
    /\ \A c \in Codes : code[c].state = "free" => spent[c] = 0
    /\ \A u \in Users : \A c \in handed[u] : code[c].owner = u

Owns(h) ==
    LET r == request[h] IN
    /\ r.op = "code" => code[r.code].owner = r.u
    /\ r.op \in {"enable", "disable"} => \A c \in r.olds : code[c].owner = r.u

AccessInv ==
    /\ TypeOK /\ CodesOwned
    /\ \A h \in Handlers : Owns(h)
    /\ \A u \in Users : ~overlapped[u] => Undisturbed(u)

(* Every account starts out alone, with no second factor and no codes.     *)
LEMMA InitInv == Init => AccessInv
<1> SUFFICES ASSUME Init PROVE AccessInv
  OBVIOUS
<1>1. TypeOK
  BY InitType
<1>2. CodesOwned /\ \A h \in Handlers : Owns(h)
  BY DEF Init, CodesOwned, Owns, Idle
<1>3. \A h \in Handlers : request[h].u \notin Users
  BY AccessAssumption DEF Init, Idle
<1>4. \A u \in Users : Undisturbed(u)
  BY <1>3, AccessAssumption DEF Init, Undisturbed, Alone, Once, Whole
<1> QED
  BY <1>1, <1>2, <1>4 DEF AccessInv

(* A step that touches the rows of user v only, and codes nobody has had.  *)
TouchesOnly(v) ==
    /\ \A u \in Users \ {v} :
          /\ account'[u].enabled = account[u].enabled
          /\ account'[u].secret = account[u].secret
          /\ confirmed'[u] = confirmed[u]
          /\ handed'[u] = handed[u]
    /\ \A c \in Codes :
          IF code[c].owner \in {v, Null} THEN code'[c].owner \in {v, code[c].owner}
          ELSE code'[c] = code[c] /\ spent'[c] = spent[c]

(* The request of h before and after is nobody's but v's.                  *)
Serves(h, r, v) ==
    /\ r = Idle \/ r.u = v
    /\ request[h] = Idle \/ request[h].u = v
    /\ {r, request[h]} # {Idle}

(* A step of handler h for user v leaves what other users have alone, so   *)
(* that only v's rows and the request of h are to be looked at.            *)
LEMMA StepOf ==
    ASSUME AccessInv, TypeOK', NEW h \in Handlers, NEW r \in Request, NEW v \in Users,
           Continue(h, r), Serves(h, r, v), TouchesOnly(v),
           CodesOwned', Owns(h)',
           ~overlapped'[v] => Once(v)' /\ Whole(v)' /\ (r.u = v => Current(h)')
    PROVE  AccessInv'
<1>1. /\ request'[h] = r
      /\ \A g \in Handlers \ {h} : request'[g] = request[g]
      /\ \A u \in Users : ~overlapped'[u] =>
            /\ ~overlapped[u]
            /\ r.u = u => \A g \in Handlers \ {h} : request[g].u # u
  BY Goes DEF AccessInv
<1>2. \A g \in Handlers : request[g] \in Request
  BY DEF AccessInv, TypeOK
<1>3. \A g \in Handlers : Owns(g)'
  <2> SUFFICES ASSUME NEW g \in Handlers \ {h} PROVE Owns(g)'
    OBVIOUS
  <2>1. request'[g] = request[g] /\ Owns(g)
    BY <1>1 DEF AccessInv
  <2>2. \A c \in Codes : code[c].owner = request[g].u /\ request[g].u \in Users =>
           code'[c].owner = request[g].u
    BY AccessAssumption DEF TouchesOnly
  <2>3. request[g].op \in {"code", "enable", "disable"} =>
           /\ request[g].u \in Users
           /\ request[g].op = "code" => request[g].code \in Codes
           /\ request[g].op # "code" => request[g].olds \in SUBSET Codes
    BY <1>2, RequestShape DEF Idle
  <2> QED
    BY <2>1, <2>2, <2>3 DEF Owns
<1>4. ASSUME NEW u \in Users, ~overlapped'[u], u # v
      PROVE  Undisturbed(u)'
  <2>1. Undisturbed(u)
    BY <1>1, <1>4 DEF AccessInv
  <2>2. \A g \in Handlers : request'[g].u = u => g # h /\ request'[g] = request[g]
    BY <1>1, <1>4, AccessAssumption DEF Idle, Serves
  <2>3. \A c \in Codes : /\ code[c].owner = u => code'[c] = code[c] /\ spent'[c] = spent[c]
                         /\ code'[c].owner = u => code[c].owner = u
    BY <1>4, AccessAssumption DEF TouchesOnly
  <2>9. /\ account'[u].enabled = account[u].enabled /\ account'[u].secret = account[u].secret
        /\ confirmed'[u] = confirmed[u] /\ handed'[u] = handed[u]
    BY <1>4 DEF TouchesOnly
  <2>4. CodesOf(u)' = CodesOf(u)
    BY <2>3 DEF CodesOf
  <2>5. Alone(u)'
    BY <2>1, <2>2 DEF Undisturbed, Alone
  <2>6. Once(u)'
    BY <2>1, <2>3 DEF Undisturbed, Once
  <2>7. Whole(u)'
    <3>1. {c \in CodesOf(u) : code[c].state = "unused"}' = {c \in CodesOf(u) : code[c].state = "unused"}
      BY <2>3, <2>4 DEF CodesOf
    <3>2. \A c \in handed[u] : c \in Codes /\ code[c].owner = u
      BY DEF AccessInv, CodesOwned, TypeOK
    <3>3. {c \in handed[u] : spent[c] = 0}' = {c \in handed[u] : spent[c] = 0}
      BY <2>3, <2>9, <3>2
    <3> QED
      BY <2>1, <2>9, <3>1, <3>3 DEF Undisturbed, Whole
  <2>8. \A g \in Handlers : request'[g].u = u => Current(g)'
    <3> SUFFICES ASSUME NEW g \in Handlers, request'[g].u = u PROVE Current(g)'
      OBVIOUS
    <3>1. request'[g] = request[g] /\ Current(g) /\ Owns(g)
      BY <2>1, <2>2 DEF Undisturbed, AccessInv
    <3>2. request[g].op = "code" => request[g].code \in Codes
      BY <1>2, RequestShape
    <3> QED
      BY <2>3, <2>4, <2>9, <3>1, <3>2 DEF Current, Owns
  <2> QED
    BY <2>5, <2>6, <2>7, <2>8 DEF Undisturbed
<1>5. ASSUME ~overlapped'[v]
      PROVE  Undisturbed(v)'
  <2>1. \A g \in Handlers \ {h} : r.u = v \/ request[h].u = v => request[g].u # v
    BY <1>1, <1>5 DEF AccessInv, Undisturbed, Alone
  <2>2. \A g \in Handlers \ {h} : request'[g].u = v => r.u # v /\ request[h].u # v
    BY <1>1, <2>1
  <2>3. \A g \in Handlers \ {h} : request'[g].u # v
    BY <2>2 DEF Serves
  <2>4. Undisturbed(v)
    BY <1>1, <1>5 DEF AccessInv
  <2>5. Alone(v)'
    BY <1>1, <2>2, <2>4 DEF Undisturbed, Alone
  <2> QED
    BY <1>1, <1>5, <2>3, <2>5 DEF Undisturbed
<1> QED
  BY <1>3, <1>4, <1>5 DEF AccessInv

(* A step of handler h that leaves the codes, the secrets and the switches *)
(* as they are.                                                            *)
LEMMA RowsKept ==
    ASSUME AccessInv, TypeOK', NEW h \in Handlers, NEW r \in Request, NEW v \in Users,
           Continue(h, r), Serves(h, r, v),
           UNCHANGED <<code, seenByUser>>,
           \A u \in Users : account'[u].enabled = account[u].enabled
                            /\ account'[u].secret = account[u].secret,
           r.op \in {"code", "setup", "enable", "disable"} => Owns(h)' /\ Current(h)'
    PROVE  AccessInv'
<1>1. request'[h] = r /\ \A u \in Users : ~overlapped'[u] => ~overlapped[u]
  BY Goes DEF AccessInv
<1>2. TouchesOnly(v)
  BY DEF TouchesOnly, seenByUser
<1>3. CodesOwned'
  BY DEF AccessInv, CodesOwned, seenByUser
<1>4. Owns(h)' /\ Current(h)'
  BY <1>1 DEF Owns, Current
<1>5. ASSUME ~overlapped'[v] PROVE Once(v)' /\ Whole(v)'
  <2>1. Once(v) /\ Whole(v)
    BY <1>1, <1>5 DEF AccessInv, Undisturbed
  <2>2. CodesOf(v)' = CodesOf(v)
    BY DEF CodesOf
  <2> QED
    BY <2>1, <2>2 DEF Once, Whole, seenByUser
<1> QED
  BY <1>2, <1>3, <1>4, <1>5, StepOf

(* A handler begins: it has read what it will rely on.                     *)
LEMMA BeginStep ==
    ASSUME AccessInv, TypeOK', NEW h \in Handlers, NEW r \in Request, NEW v \in Users,
           Begin(h, r), r # Idle, r.u = v, request[h] = Idle \/ request[h].u = v,
           r.op = "code" => code[r.code].owner = v /\ code[r.code].state = "unused",
           r.op = "setup" => r.on = account[v].enabled,
           r.op = "enable" => r.on = account[v].enabled /\ r.secret = account[v].secret,
           r.op \in {"enable", "disable"} => r.olds = CodesOf(v)
    PROVE  AccessInv'
<1>1. Continue(h, r) /\ Serves(h, r, v)
  BY DEF Begin, Serves
<1>2. UNCHANGED <<account, code, seenByUser>>
  BY DEF Begin, rows
<1>3. request'[h] = r
  BY <1>1, Goes DEF AccessInv
<1>4. CodesOf(v)' = CodesOf(v)
  BY <1>2 DEF CodesOf
<1>5. Owns(h)'
  BY <1>2, <1>3 DEF Owns, CodesOf
<1>6. Current(h)'
  BY <1>2, <1>3, <1>4 DEF Current
<1> QED
  BY <1>1, <1>2, <1>5, <1>6, RowsKept
(* Handler h holds a request of kind op, which some user made.             *)
LEMMA Holds ==
    ASSUME AccessInv, NEW h \in Handlers, request[h].op # "idle"
    PROVE  /\ request[h] \in Request /\ Idle \in Request
           /\ request[h] # Idle /\ request[h].u \in Users
           /\ \A r : r = Idle \/ r.u = request[h].u => Serves(h, r, request[h].u)
<1>1. request[h] \in Request /\ Idle \in Request
  BY DEF AccessInv, TypeOK, Request
<1>2. request[h] # Idle
  BY DEF Idle
<1> QED
  BY <1>1, <1>2, RequestShape DEF Serves

(* A recovery code is spent: it was unused, so it counts one login.        *)
LEMMA SpendInv ==
    ASSUME AccessInv, TypeOK', NEW h \in Handlers, SpendCode(h),
           NEW c, c = request[h].code, NEW v, v = request[h].u
    PROVE  AccessInv'
<1> DEFINE r == [op |-> "issue", u |-> v]
<1>1. v \in Users /\ c \in Codes /\ Idle \in Request /\ request[h].op = "code"
  BY Holds, RequestShape DEF SpendCode
<1>2. r \in Request /\ r.u = v /\ r.op = "issue"
  BY <1>1 DEF Request
<1>3. code[c].owner = v
  BY <1>1 DEF AccessInv, Owns
<1>4. Serves(h, Idle, v) /\ Serves(h, r, v)
  BY <1>1, <1>2, Holds
<1>5. IF code[c].state = "deleted"
      THEN Continue(h, Idle) /\ UNCHANGED <<code, spent>>
      ELSE /\ code' = [code EXCEPT ![c].state = "used"]
           /\ spent' = [spent EXCEPT ![c] = @ + 1]
           /\ Continue(h, r)
  BY DEF SpendCode, Finish
<1>6. UNCHANGED <<account, confirmed, handed>>
  BY DEF SpendCode
<1>7. ASSUME Current(h) PROVE code[c].state = "unused"
  BY <1>1, <1>7 DEF Current
<1>8. Current(h) \/ overlapped[v]
  BY <1>1 DEF AccessInv, Undisturbed
<1> HIDE DEF r
<1>9. CASE code[c].state = "deleted"
  BY <1>1, <1>4, <1>5, <1>6, <1>9, RowsKept DEF Idle, seenByUser
<1>10. CASE code[c].state # "deleted"
  <2>1. code \in [Codes -> [owner : Users \cup {Null}, state : {"free", "unused", "used", "deleted"}]]
        /\ spent \in [Codes -> Nat]
    BY DEF AccessInv, TypeOK
  <2>2. /\ \A d \in Codes \ {c} : code'[d] = code[d] /\ spent'[d] = spent[d]
        /\ code'[c].owner = v /\ code'[c].state = "used"
        /\ spent'[c] = spent[c] + 1
    BY <1>1, <1>3, <1>5, <1>10, <2>1
  <2>3. \A d \in Codes : code'[d].owner = code[d].owner
    BY <1>3, <2>2
  <2>4. TouchesOnly(v)
    BY <1>1, <1>3, <1>6, <2>2, <2>3 DEF TouchesOnly
  <2>5. CodesOwned'
    <3>1. \A d \in Codes : /\ code'[d].owner = Null <=> code'[d].state = "free"
                           /\ code'[d].state = "free" => spent'[d] = 0
      BY <1>1, <1>3, <2>2, AccessAssumption DEF AccessInv, CodesOwned
    <3>2. \A u \in Users : \A d \in handed[u] : d \in Codes /\ code[d].owner = u
      BY DEF AccessInv, CodesOwned, TypeOK
    <3> QED
      BY <1>6, <2>3, <3>1, <3>2 DEF CodesOwned
  <2>6. request'[h] = r /\ \A u \in Users : ~overlapped'[u] => ~overlapped[u]
    BY <1>2, <1>5, <1>10, Goes DEF AccessInv
  <2>7. Owns(h)' /\ Current(h)'
    BY <1>2, <2>6 DEF Owns, Current
  <2>8. ASSUME ~overlapped'[v] PROVE Once(v)' /\ Whole(v)'
    <3>1. Once(v) /\ Whole(v) /\ code[c].state = "unused"
      BY <1>1, <1>7, <1>8, <2>6, <2>8 DEF AccessInv, Undisturbed
    <3>2. spent[c] = 0
      BY <1>1, <1>3, <3>1 DEF Once
    <3>3. Once(v)'
      BY <2>2, <3>1, <3>2 DEF Once
    <3>4. {d \in CodesOf(v) : code[d].state = "unused"}' = {d \in CodesOf(v) : code[d].state = "unused"} \ {c}
      BY <1>1, <1>3, <2>2, <3>1 DEF CodesOf
    <3>5. {d \in handed[v] : spent[d] = 0}' = {d \in handed[v] : spent[d] = 0} \ {c}
      <4>1. handed[v] \subseteq Codes
        BY <1>1 DEF AccessInv, TypeOK
      <4> QED
        BY <1>6, <2>2, <3>2, <4>1
    <3> QED
      BY <1>6, <3>1, <3>3, <3>4, <3>5 DEF Whole
  <2> QED
    BY <1>1, <1>2, <1>4, <1>5, <1>10, <2>4, <2>5, <2>7, <2>8, StepOf
<1> QED
  BY <1>9, <1>10

(* A new secret is set: an enabled factor is switched off until verified.  *)
LEMMA SetupInv ==
    ASSUME AccessInv, TypeOK', NEW h \in Handlers, CommitSetup(h),
           NEW v, v = request[h].u, NEW on, on = request[h].on
    PROVE  AccessInv'
<1>1. v \in Users /\ Idle \in Request /\ request[h].op = "setup"
  BY Holds DEF CommitSetup
<1>2. Continue(h, Idle) /\ UNCHANGED <<code, seenByUser>> /\ Serves(h, Idle, v)
  BY <1>1, Holds DEF CommitSetup, Finish
<1>3. PICK s \in Secrets \ {account[v].secret} :
         account' = [account EXCEPT ![v].secret = s, ![v].enabled = IF on THEN FALSE ELSE @]
  BY DEF CommitSetup
<1>4. on = account[v].enabled \/ overlapped[v]
  BY <1>1 DEF AccessInv, Undisturbed, Current
<1>5. account \in [Users -> Account]
  BY DEF AccessInv, TypeOK
<1>6. /\ \A u \in Users \ {v} : account'[u] = account[u]
      /\ account'[v].enabled = IF on THEN FALSE ELSE account[v].enabled
  BY <1>1, <1>3, <1>5 DEF Account
<1>7. TouchesOnly(v)
  BY <1>2, <1>6 DEF TouchesOnly, seenByUser
<1>8. CodesOwned'
  BY <1>2 DEF AccessInv, CodesOwned, seenByUser
<1>9. request'[h] = Idle /\ \A u \in Users : ~overlapped'[u] => ~overlapped[u]
  BY <1>1, <1>2, Goes DEF AccessInv
<1>10. Owns(h)' /\ Current(h)'
  BY <1>9 DEF Owns, Current, Idle
<1>11. ASSUME ~overlapped'[v] PROVE Once(v)' /\ Whole(v)'
  <2>1. Once(v) /\ ~account'[v].enabled
    BY <1>1, <1>4, <1>6, <1>9, <1>11 DEF AccessInv, Undisturbed
  <2> QED
    BY <1>2, <2>1 DEF Once, Whole, seenByUser
<1> QED
  BY <1>1, <1>2, <1>7, <1>8, <1>10, <1>11, StepOf DEF Idle

(* New codes are handed out for the ones that were read, and the secret    *)
(* the code was verified against is the one that is set.                   *)
LEMMA EnableInv ==
    ASSUME AccessInv, TypeOK', NEW h \in Handlers, CommitEnable(h),
           NEW q, q = request[h], NEW v, v = q.u
    PROVE  AccessInv'
<1>1. /\ v \in Users /\ Idle \in Request /\ q.op = "enable"
      /\ q.on \in BOOLEAN /\ q.secret \in Secrets /\ q.olds \in SUBSET Codes
  BY Holds, RequestShape DEF CommitEnable
<1>2. Continue(h, Idle) /\ UNCHANGED spent /\ Serves(h, Idle, v)
  BY <1>1, Holds DEF CommitEnable, Finish
<1>3. PICK new \in SUBSET {c \in Codes : code[c].state = "free"} :
         /\ account' = [account EXCEPT ![v].enabled = q.on => @]
         /\ code' = [c \in Codes |->
               IF c \in new THEN [owner |-> v, state |-> "unused"]
               ELSE IF c \in q.olds THEN [code[c] EXCEPT !.state = "deleted"]
               ELSE code[c]]
         /\ confirmed' = [confirmed EXCEPT ![v] = q.secret]
         /\ handed' = [handed EXCEPT ![v] = new]
  BY DEF CommitEnable
<1>4. \A c \in q.olds : code[c].owner = v
  BY <1>1 DEF AccessInv, Owns
<1>5. (q.secret = account[v].secret /\ q.olds = CodesOf(v)) \/ overlapped[v]
  BY <1>1 DEF AccessInv, Undisturbed, Current
<1>6. /\ account \in [Users -> Account]
      /\ confirmed \in [Users -> Secrets \cup {Null}] /\ handed \in [Users -> SUBSET Codes]
      /\ code \in [Codes -> [owner : Users \cup {Null}, state : {"free", "unused", "used", "deleted"}]]
  BY DEF AccessInv, TypeOK
<1>7. /\ \A u \in Users \ {v} : account'[u] = account[u] /\ confirmed'[u] = confirmed[u]
                                /\ handed'[u] = handed[u]
      /\ account'[v].secret = account[v].secret
      /\ confirmed'[v] = q.secret /\ handed'[v] = new
  BY <1>1, <1>3, <1>6 DEF Account
<1>8. \A c \in Codes :
         IF c \in new THEN /\ code[c].owner = Null /\ spent[c] = 0
                           /\ code'[c].owner = v /\ code'[c].state = "unused"
         ELSE /\ code'[c].owner = code[c].owner
              /\ c \in q.olds => code'[c].state = "deleted"
              /\ c \notin q.olds => code'[c] = code[c]
  BY <1>3, <1>6 DEF AccessInv, CodesOwned
<1>9. TouchesOnly(v)
  BY <1>1, <1>2, <1>4, <1>7, <1>8, AccessAssumption DEF TouchesOnly
<1>10. CodesOwned'
  <2>1. \A c \in Codes : code'[c].owner = Null <=> code'[c].state = "free"
    BY <1>1, <1>4, <1>8, AccessAssumption DEF AccessInv, CodesOwned
  <2>2. \A c \in Codes : code'[c].state = "free" => spent'[c] = 0
    BY <1>2, <1>8 DEF AccessInv, CodesOwned
  <2>3. \A u \in Users : \A c \in handed[u] : c \in Codes /\ code[c].owner = u
    BY <1>6 DEF AccessInv, CodesOwned
  <2>4. ASSUME NEW u \in Users, NEW c \in handed'[u] PROVE code'[c].owner = u
    <3>1. CASE u = v
      BY <1>3, <1>7, <1>8, <3>1
    <3>2. CASE u # v
      BY <1>7, <1>8, <2>3, <3>2, AccessAssumption
    <3> QED
      BY <3>1, <3>2
  <2> QED
    BY <2>1, <2>2, <2>4 DEF CodesOwned
<1>11. request'[h] = Idle /\ \A u \in Users : ~overlapped'[u] => ~overlapped[u]
  BY <1>1, <1>2, Goes DEF AccessInv
<1>12. Owns(h)' /\ Current(h)'
  BY <1>11 DEF Owns, Current, Idle
<1>13. ASSUME ~overlapped'[v] PROVE Once(v)' /\ Whole(v)'
  <2>1. Once(v) /\ q.secret = account[v].secret /\ q.olds = CodesOf(v)
    BY <1>1, <1>5, <1>11, <1>13 DEF AccessInv, Undisturbed
  <2>2. Once(v)'
    BY <1>2, <1>8, <2>1 DEF Once
  <2>3. {c \in CodesOf(v) : code[c].state = "unused"}' = new
    BY <1>1, <1>3, <1>8, <2>1, AccessAssumption DEF CodesOf
  <2>4. {c \in handed[v] : spent[c] = 0}' = new
    BY <1>2, <1>3, <1>7, <1>8
  <2>5. account'[v].secret # Null /\ confirmed'[v] = account'[v].secret
    BY <1>1, <1>7, <2>1, AccessAssumption
  <2> QED
    BY <2>2, <2>3, <2>4, <2>5 DEF Whole
<1> QED
  BY <1>1, <1>2, <1>9, <1>10, <1>12, <1>13, StepOf DEF Idle

(* The factor is off and its codes are gone.                               *)
LEMMA DisableInv ==
    ASSUME AccessInv, TypeOK', NEW h \in Handlers, CommitDisable(h),
           NEW q, q = request[h], NEW v, v = q.u
    PROVE  AccessInv'
<1>1. v \in Users /\ Idle \in Request /\ q.op = "disable" /\ q.olds \in SUBSET Codes
  BY Holds, RequestShape DEF CommitDisable
<1>2. Continue(h, Idle) /\ UNCHANGED seenByUser /\ Serves(h, Idle, v)
  BY <1>1, Holds DEF CommitDisable, Finish
<1>3. /\ account' = [account EXCEPT ![v].enabled = FALSE, ![v].secret = Null]
      /\ code' = [c \in Codes |->
            IF c \in q.olds THEN [code[c] EXCEPT !.state = "deleted"] ELSE code[c]]
  BY DEF CommitDisable
<1>4. \A c \in q.olds : code[c].owner = v
  BY <1>1 DEF AccessInv, Owns
<1>5. /\ account \in [Users -> Account]
      /\ code \in [Codes -> [owner : Users \cup {Null}, state : {"free", "unused", "used", "deleted"}]]
  BY DEF AccessInv, TypeOK
<1>6. /\ \A u \in Users \ {v} : account'[u] = account[u]
      /\ ~account'[v].enabled
  BY <1>1, <1>3, <1>5 DEF Account
<1>7. \A c \in Codes : /\ code'[c].owner = code[c].owner
                       /\ c \in q.olds => code'[c].state = "deleted"
                       /\ c \notin q.olds => code'[c] = code[c]
  BY <1>3, <1>5
<1>8. TouchesOnly(v)
  BY <1>1, <1>2, <1>4, <1>6, <1>7 DEF TouchesOnly, seenByUser
<1>9. CodesOwned'
  <2>1. \A c \in Codes : code'[c].owner = Null <=> code'[c].state = "free"
    BY <1>1, <1>4, <1>7, AccessAssumption DEF AccessInv, CodesOwned
  <2>2. \A u \in Users : \A c \in handed[u] : c \in Codes /\ code[c].owner = u
    BY DEF AccessInv, CodesOwned, TypeOK
  <2> QED
    BY <1>2, <1>7, <2>1, <2>2 DEF AccessInv, CodesOwned, seenByUser
<1>10. request'[h] = Idle /\ \A u \in Users : ~overlapped'[u] => ~overlapped[u]
  BY <1>1, <1>2, Goes DEF AccessInv
<1>11. Owns(h)' /\ Current(h)'
  BY <1>10 DEF Owns, Current, Idle
<1>12. ASSUME ~overlapped'[v] PROVE Once(v)' /\ Whole(v)'
  <2>1. Once(v)
    BY <1>1, <1>10, <1>12 DEF AccessInv, Undisturbed
  <2> QED
    BY <1>2, <1>6, <1>7, <2>1 DEF Once, Whole, seenByUser
<1> QED
  BY <1>1, <1>2, <1>8, <1>9, <1>11, <1>12, StepOf DEF Idle

(* An account is created: it had no second factor, and gets none.          *)
LEMMA RegisterInv ==
    ASSUME AccessInv, TypeOK', NEW h \in Handlers, CommitRegister(h), NEW v, v = request[h].u
    PROVE  AccessInv'
<1>1. v \in Users /\ Idle \in Request /\ request[h].op = "register"
  BY Holds DEF CommitRegister
<1>2. Continue(h, Idle) /\ UNCHANGED <<code, seenByUser>> /\ Serves(h, Idle, v)
  BY <1>1, Holds DEF CommitRegister, Finish
<1>3. PICK status \in Status, p \in Passwords :
         account' = IF Exists(v) THEN account
                    ELSE [account EXCEPT ![v] = [status |-> status, super |-> FALSE,
                            password |-> p, secret |-> Null, enabled |-> FALSE]]
  BY DEF CommitRegister
<1>4. account \in [Users -> Account]
  BY DEF AccessInv, TypeOK
<1>5. /\ \A u \in Users \ {v} : account'[u] = account[u]
      /\ account' = account \/ ~account'[v].enabled
  BY <1>1, <1>3, <1>4
<1>6. TouchesOnly(v)
  BY <1>2, <1>5 DEF TouchesOnly, seenByUser
<1>7. CodesOwned'
  BY <1>2 DEF AccessInv, CodesOwned, seenByUser
<1>8. request'[h] = Idle /\ \A u \in Users : ~overlapped'[u] => ~overlapped[u]
  BY <1>1, <1>2, Goes DEF AccessInv
<1>9. Owns(h)' /\ Current(h)'
  BY <1>8 DEF Owns, Current, Idle
<1>10. ASSUME ~overlapped'[v] PROVE Once(v)' /\ Whole(v)'
  <2>1. Once(v) /\ Whole(v)
    BY <1>1, <1>8, <1>10 DEF AccessInv, Undisturbed
  <2>2. CodesOf(v)' = CodesOf(v)
    BY <1>2 DEF CodesOf
  <2> QED
    BY <1>2, <1>5, <2>1, <2>2 DEF Once, Whole, seenByUser
<1> QED
  BY <1>1, <1>2, <1>6, <1>7, <1>9, <1>10, StepOf DEF Idle

(* Every step keeps the invariant, one case for each action.               *)
LEMMA NextInv == AccessInv /\ [Next]_vars => AccessInv'
<1> SUFFICES ASSUME AccessInv, [Next]_vars PROVE AccessInv'
  OBVIOUS
<1>type. TypeOK /\ TypeOK'
  BY NextType DEF AccessInv
<1>acc. account \in [Users -> Account]
  BY <1>type DEF TypeOK
<1>req. \A h \in Handlers : request[h] \in Request
  BY <1>type DEF TypeOK
<1>1. ASSUME UNCHANGED <<code, request, overlapped, seenByUser>>,
             \A u \in Users : /\ account'[u].enabled = account[u].enabled
                              /\ account'[u].secret = account[u].secret
      PROVE  AccessInv'
  <2>1. CodesOwned'
    BY <1>1 DEF AccessInv, CodesOwned, seenByUser
  <2>2. \A h \in Handlers : Owns(h)'
    BY <1>1 DEF AccessInv, Owns
  <2>3. ASSUME NEW u \in Users, ~overlapped'[u] PROVE Undisturbed(u)'
    <3>1. Undisturbed(u)
      BY <1>1, <2>3 DEF AccessInv
    <3>2. CodesOf(u)' = CodesOf(u)
      BY <1>1 DEF CodesOf
    <3>3. Alone(u)' /\ Once(u)' /\ Whole(u)'
      BY <1>1, <3>1, <3>2 DEF Undisturbed, Alone, Once, Whole, seenByUser
    <3>4. ASSUME NEW h \in Handlers, request'[h].u = u PROVE Current(h)'
      BY <1>1, <3>1, <3>2, <3>4 DEF Undisturbed, Current
    <3> QED
      BY <3>3, <3>4 DEF Undisturbed
  <2> QED
    BY <1>type, <2>1, <2>2, <2>3 DEF AccessInv
<1>2. CASE UNCHANGED vars
  BY <1>1, <1>2 DEF vars, rows
<1>3. ASSUME NEW h \in Handlers, Proceed(h) PROVE AccessInv'
  <2>1. CASE CommitRegister(h)
    BY <1>type, <2>1, RegisterInv
  <2>2. CASE CommitStatus(h) \/ CommitPassword(h)
    <3>1. /\ Continue(h, Idle) /\ UNCHANGED <<code, seenByUser>>
          /\ request[h].op # "idle"
      BY <2>2 DEF CommitStatus, CommitPassword, Finish
    <3>2. \A u \in Users : /\ account'[u].enabled = account[u].enabled
                           /\ account'[u].secret = account[u].secret
      <4>1. CASE CommitStatus(h)
        BY <1>acc, <4>1 DEF CommitStatus, Account
      <4>2. CASE CommitPassword(h)
        BY <1>acc, <4>2 DEF CommitPassword, Account
      <4> QED
        BY <2>2, <4>1, <4>2
    <3>3. request[h].u \in Users /\ Serves(h, Idle, request[h].u) /\ Idle \in Request
      BY <3>1, Holds
    <3> QED
      BY <1>type, <3>1, <3>2, <3>3, RowsKept DEF Idle
  <2>3. CASE SpendCode(h)
    BY <1>type, <2>3, SpendInv
  <2>4. CASE IssueTokens(h) \/ Drop(h)
    <3>1. Continue(h, Idle) /\ UNCHANGED <<rows, seenByUser>> /\ request[h].op # "idle"
      BY <1>req, <2>4, RequestShape DEF IssueTokens, Drop, Finish
    <3> QED
      BY <1>type, <3>1, Holds, RowsKept DEF Idle, rows
  <2>5. CASE CommitSetup(h)
    BY <1>type, <2>5, SetupInv
  <2>6. CASE CommitEnable(h)
    BY <1>type, <2>6, EnableInv
  <2>7. CASE CommitDisable(h)
    BY <1>type, <2>7, DisableInv
  <2>8. CASE StampKey(h)
    <3> DEFINE r == [op |-> "keyed", u |-> request[h].u]
    <3>1. request[h].u \in Users /\ Serves(h, r, request[h].u)
      BY <2>8, Holds DEF StampKey
    <3>2. r \in Request /\ r.op = "keyed"
      BY <3>1 DEF Request
    <3>3. Continue(h, r) /\ UNCHANGED <<rows, seenByUser>>
      BY <2>8 DEF StampKey
    <3> HIDE DEF r
    <3> QED
      BY <1>type, <3>1, <3>2, <3>3, RowsKept DEF rows
  <2> QED
    BY <1>3, <2>1, <2>2, <2>3, <2>4, <2>5, <2>6, <2>7, <2>8 DEF Proceed
<1>4. ASSUME NEW h \in Handlers, NEW u \in Users, Start(h, u) PROVE AccessInv'
  <2>1. ASSUME NEW r \in Request, Begin(h, r), r.op \in {"register", "password", "status", "issue"},
               r.u = u, request[h] = Idle \/ request[h].u = u
        PROVE  AccessInv'
    BY <1>type, <2>1, BeginStep DEF Idle
  <2>2. SignedIn(h, u) => request[h] = Idle \/ request[h].u = u
    BY DEF SignedIn
  <2>3. CASE Register(h, u)
    BY <2>1, <2>3 DEF Register, Request
  <2>4. CASE ChangePassword(h, u)
    BY <2>1, <2>2, <2>4 DEF ChangePassword, Request
  <2>5. ASSUME NEW status \in Status, SetStatus(h, u, status) PROVE AccessInv'
    BY <2>1, <2>5 DEF SetStatus, Request
  <2>6. CASE LoginPending(h, u) \/ Refresh(h, u)
    BY <1>1, <2>6 DEF LoginPending, Refresh, rows
  <2>7. CASE Login(h, u) \/ LoginTotp(h, u)
    BY <2>1, <2>7 DEF Login, LoginTotp, SecondFactorDue, Request
  <2>8. CASE LoginRecovery(h, u)
    <3>1. PICK c \in Codes : /\ code[c].owner = u /\ code[c].state = "unused"
                             /\ Begin(h, [op |-> "code", u |-> u, code |-> c])
      BY <2>8 DEF LoginRecovery, CodesOf
    <3>2. [op |-> "code", u |-> u, code |-> c] \in Request /\ request[h] = Idle
      BY <2>8 DEF LoginRecovery, SecondFactorDue, Request
    <3> QED
      BY <1>type, <3>1, <3>2, BeginStep DEF Idle
  <2>9. CASE Setup(h, u)
    <3> DEFINE r == [op |-> "setup", u |-> u, on |-> account[u].enabled]
    <3>1. Begin(h, r) /\ (request[h] = Idle \/ request[h].u = u)
      BY <2>2, <2>9 DEF Setup
    <3>2. r \in Request
      BY <1>acc DEF Request, Account
    <3>3. r.op = "setup" /\ r.u = u /\ r.on = account[u].enabled
      OBVIOUS
    <3> HIDE DEF r
    <3> QED
      BY <1>type, <3>1, <3>2, <3>3, BeginStep DEF Idle
  <2>10. CASE Enable(h, u)
    <3> DEFINE r == [op |-> "enable", u |-> u, on |-> account[u].enabled,
                     secret |-> account[u].secret, olds |-> CodesOf(u)]
    <3>1. Begin(h, r) /\ (request[h] = Idle \/ request[h].u = u)
      BY <2>2, <2>10 DEF Enable
    <3>2. r \in Request
      BY <1>acc, <2>10 DEF Enable, Request, Account, CodesOf
    <3>3. /\ r.op = "enable" /\ r.u = u /\ r.on = account[u].enabled
          /\ r.secret = account[u].secret /\ r.olds = CodesOf(u)
      OBVIOUS
    <3> HIDE DEF r
    <3> QED
      BY <1>type, <3>1, <3>2, <3>3, BeginStep DEF Idle
  <2>11. CASE Disable(h, u)
    <3> DEFINE r == [op |-> "disable", u |-> u, olds |-> CodesOf(u)]
    <3>1. Begin(h, r) /\ (request[h] = Idle \/ request[h].u = u)
      BY <2>2, <2>11 DEF Disable
    <3>2. r \in Request
      BY DEF Request, CodesOf
    <3>3. r.op = "disable" /\ r.u = u /\ r.olds = CodesOf(u)
      OBVIOUS
    <3> HIDE DEF r
    <3> QED
      BY <1>type, <3>1, <3>2, <3>3, BeginStep DEF Idle
  <2> QED
    BY <1>4, <2>3, <2>4, <2>5, <2>6, <2>7, <2>8, <2>9, <2>10, <2>11 DEF Start
<1>5. ASSUME NEW h \in Handlers, NEW k \in Keys, ResolveKey(h, k) PROVE AccessInv'
  <2> DEFINE r == [op |-> "key", u |-> key[k].owner, key |-> k]
  <2>1. Begin(h, r) /\ request[h] = Idle /\ key[k].owner \in Users
    BY <1>type, <1>5 DEF ResolveKey, TypeOK
  <2>2. r \in Request /\ r.op = "key" /\ r.u = key[k].owner
    BY <2>1 DEF Request
  <2> HIDE DEF r
  <2> QED
    BY <1>type, <2>1, <2>2, BeginStep DEF Idle
<1>6. ASSUME NEW u \in Users, NEW k \in Keys, CreateKey(u, k) \/ RevokeKey(u, k) PROVE AccessInv'
  BY <1>1, <1>6 DEF CreateKey, RevokeKey
<1>7. ASSUME NEW b \in BOOLEAN, SetForce(b) PROVE AccessInv'
  BY <1>1, <1>7 DEF SetForce
<1>8. ASSUME NEW t \in tokens, Expire(t) PROVE AccessInv'
  BY <1>1, <1>8 DEF Expire, rows
<1>9. CASE Restart
  <2>1. UNCHANGED <<code, overlapped, seenByUser>> /\ \A h \in Handlers : request'[h] = Idle
    BY <1>9 DEF Restart
  <2>2. \A u \in Users : /\ account'[u].enabled = account[u].enabled
                         /\ account'[u].secret = account[u].secret
    BY <1>acc, <1>9 DEF Restart, Account
  <2>3. CodesOwned'
    BY <2>1 DEF AccessInv, CodesOwned, seenByUser
  <2>4. \A h \in Handlers : Owns(h)' /\ request'[h].u \notin Users
    BY <2>1, AccessAssumption DEF Owns, Idle
  <2>5. ASSUME NEW u \in Users, ~overlapped'[u] PROVE Undisturbed(u)'
    <3>1. Undisturbed(u)
      BY <2>1, <2>5 DEF AccessInv
    <3>2. CodesOf(u)' = CodesOf(u)
      BY <2>1 DEF CodesOf
    <3> QED
      BY <2>1, <2>2, <2>4, <3>1, <3>2 DEF Undisturbed, Alone, Once, Whole, seenByUser
  <2> QED
    BY <1>type, <2>3, <2>4, <2>5 DEF AccessInv
<1> QED
  BY <1>2, <1>3, <1>4, <1>5, <1>6, <1>7, <1>8, <1>9 DEF Next

(* The invariant gives both properties.                                    *)
LEMMA InvGives == AccessInv => SecondFactorWhole /\ CodeSpentOnce
<1> SUFFICES ASSUME AccessInv PROVE SecondFactorWhole /\ CodeSpentOnce
  OBVIOUS
<1>1. SecondFactorWhole
  BY DEF AccessInv, Undisturbed, Whole, SecondFactorWhole
<1>2. ASSUME NEW c \in Codes, spent[c] > 1 PROVE overlapped[code[c].owner]
  <2>1. code[c].owner \in Users
    BY <1>2 DEF AccessInv, TypeOK, CodesOwned
  <2>2. spent[c] \in Nat
    BY DEF AccessInv, TypeOK
  <2> QED
    BY <1>2, <2>1, <2>2 DEF AccessInv, Undisturbed, Once
<1> QED
  BY <1>1, <1>2 DEF CodeSpentOnce

(* As long as no two requests of a user were in flight at once, the second *)
(* factor that is on is the one the user has set up, with its codes.       *)
THEOREM SecondFactorStaysWhole == Spec => []SecondFactorWhole
  BY InitInv, NextInv, InvGives, PTL DEF Spec

(* A recovery code opens one login, unless requests overlapped.            *)
THEOREM CodesAreSpentOnce == Spec => []CodeSpentOnce
  BY InitInv, NextInv, InvGives, PTL DEF Spec

(* A step that undoes a revocation is one that has been told to.           *)
LEMMA RevocationStep ==
    ASSUME TypeOK, [Next]_vars
    PROVE  /\ \A k \in Keys : key[k].revoked => key'[k].revoked
           /\ \A u \in Users :
                account[u].status = "disabled" /\ account'[u].status # "disabled" =>
                    \/ account[u].super
                    \/ \E h \in Handlers :
                          /\ request[h].op = "status" /\ request[h].u = u
                          /\ request[h].status = account'[u].status
<1>acc. account \in [Users -> Account]
  BY DEF TypeOK
<1>1. \A k \in Keys : key[k].revoked => key'[k].revoked
  <2>1. CASE UNCHANGED key
    BY <2>1
  <2>2. CASE \E u \in Users, k \in Keys : CreateKey(u, k) \/ RevokeKey(u, k)
    <3>1. PICK u \in Users, k \in Keys : CreateKey(u, k) \/ RevokeKey(u, k)
      BY <2>2
    <3>2. key \in [Keys -> [owner : Users \cup {Null}, revoked : BOOLEAN]]
      BY DEF TypeOK
    <3> QED
      BY <3>1, <3>2 DEF CreateKey, RevokeKey
  <2> QED
    BY <2>1, <2>2 DEF Next, Proceed, Start, vars, rows, Begin, CommitRegister, CommitStatus,
       CommitPassword, SpendCode, IssueTokens, CommitSetup, CommitEnable, CommitDisable, StampKey,
       Drop, Register, ChangePassword, SetStatus, LoginPending, Login, LoginTotp, LoginRecovery,
       Refresh, Setup, Enable, Disable, ResolveKey, SetForce, Expire, Restart
<1>2. ASSUME NEW u \in Users, account[u].status = "disabled", account'[u].status # "disabled",
             ~account[u].super
      PROVE  \E h \in Handlers : /\ request[h].op = "status" /\ request[h].u = u
                                 /\ request[h].status = account'[u].status
  <2>1. PICK h \in Handlers : \/ CommitRegister(h) \/ CommitStatus(h) \/ CommitPassword(h)
                              \/ CommitSetup(h) \/ CommitEnable(h) \/ CommitDisable(h)
    <3>1. account' # account
      BY <1>2
    <3>2. ~Restart
      BY <1>2, <1>acc DEF Restart, Account
    <3> QED
      BY <3>1, <3>2 DEF Next, Proceed, Start, vars, rows, Begin, SpendCode, IssueTokens,
         StampKey, Drop, Register, ChangePassword, SetStatus, LoginPending, Login, LoginTotp,
         LoginRecovery, Refresh, Setup, Enable, Disable, ResolveKey, CreateKey, RevokeKey,
         SetForce, Expire
  <2>2. CASE CommitStatus(h)
    BY <1>2, <1>acc, <2>2 DEF CommitStatus, Account
  <2>3. CASE CommitRegister(h)
    BY <1>2, <1>acc, <2>3 DEF CommitRegister, Exists, Account
  <2>4. CASE CommitPassword(h)
    BY <1>2, <1>acc, <2>4 DEF CommitPassword, Account
  <2>5. CASE CommitSetup(h)
    BY <1>2, <1>acc, <2>5 DEF CommitSetup, Account
  <2>6. CASE CommitEnable(h)
    BY <1>2, <1>acc, <2>6 DEF CommitEnable, Account
  <2>7. CASE CommitDisable(h)
    BY <1>2, <1>acc, <2>7 DEF CommitDisable, Account
  <2> QED
    BY <2>1, <2>2, <2>3, <2>4, <2>5, <2>6, <2>7
<1> QED
  BY <1>1, <1>2

(* No handler undoes a revocation it has not read.                         *)
THEOREM RevocationsStay == Spec => RevocationStays
  BY InitType, NextType, RevocationStep, PTL DEF Spec, RevocationStays

-----------------------------------------------------------------------------
(* An account that is not there has no second factor; whoever sets one up  *)
(* or verifies one is there.  A recovery code is only spent, and the       *)
(* factor only switched off, while it is on, unless requests overlapped.   *)
Standing(h) ==
    LET r == request[h] IN
    /\ r.op \in {"setup", "enable"} => Exists(r.u)
    /\ r.op \in {"code", "disable"} /\ ~overlapped[r.u] => account[r.u].enabled

Bare(u) == ~Exists(u) => account[u].secret = Null /\ ~account[u].enabled

FactorInv ==
    /\ AccessInv
    /\ \A u \in Users : Bare(u)
    /\ \A h \in Handlers : Standing(h)

(* Accounts start out bare and handlers idle.                              *)
LEMMA InitFactor == Init => FactorInv
<1> SUFFICES ASSUME Init PROVE FactorInv
  OBVIOUS
<1>1. \A u \in Users : Bare(u)
  BY DEF Init, Bare
<1>2. \A h \in Handlers : Standing(h)
  BY DEF Init, Standing, Idle
<1> QED
  BY <1>1, <1>2, InitInv DEF FactorInv

(* Handler h goes on with r for user v; no account goes away, and only v's *)
(* switch may move, by a request of v.                                     *)
LEMMA StandingStep ==
    ASSUME FactorInv, AccessInv', NEW h \in Handlers, NEW r \in Request, NEW v \in Users,
           Continue(h, r),
           \A u \in Users : Exists(u) => Exists(u)',
           \A u \in Users \ {v} : account'[u].enabled = account[u].enabled,
           account'[v].enabled = account[v].enabled \/ request[h].u = v,
           r.op \in {"setup", "enable"} => Exists(r.u),
           r.op \in {"code", "disable"} => account'[r.u].enabled,
           \A u \in Users : Bare(u)'
    PROVE  FactorInv'
<1>1. /\ request'[h] = r
      /\ \A g \in Handlers \ {h} : request'[g] = request[g]
      /\ \A u \in Users : ~overlapped'[u] => ~overlapped[u]
  BY Goes DEF FactorInv, AccessInv
<1>2. Standing(h)'
  <2>1. r.op \in {"setup", "enable", "code", "disable"} => r.u \in Users
    BY RequestShape DEF Idle
  <2> QED
    BY <1>1, <2>1 DEF Standing
<1>3. ASSUME NEW g \in Handlers \ {h} PROVE Standing(g)'
  <2>1. request'[g] = request[g] /\ Standing(g)
    BY <1>1 DEF FactorInv
  <2>2. request[g].op \in {"setup", "enable", "code", "disable"} => request[g].u \in Users
    BY RequestShape DEF FactorInv, AccessInv, TypeOK, Idle
  <2>3. ASSUME request[g].u \in Users, ~overlapped'[request[g].u]
        PROVE  account'[request[g].u].enabled = account[request[g].u].enabled
    <3>1. CASE request[g].u # v
      BY <2>3, <3>1
    <3>2. CASE request[g].u = v
      <4>1. Alone(v)
        BY <1>1, <2>3, <3>2 DEF FactorInv, AccessInv, Undisturbed
      <4>2. request[h].u # v
        BY <3>2, <4>1 DEF Alone
      <4> QED
        BY <3>2, <4>2
    <3> QED
      BY <3>1, <3>2
  <2> QED
    BY <1>1, <2>1, <2>2, <2>3 DEF Standing
<1> QED
  BY <1>2, <1>3 DEF FactorInv

(* Steps that leave every account there, its secret and its switch alone   *)
(* keep bare accounts bare.                                                *)
LEMMA BareKept ==
    ASSUME FactorInv,
           \A u \in Users : /\ Exists(u) => Exists(u)'
                            /\ account'[u].enabled = account[u].enabled
                            /\ account'[u].secret = account[u].secret
    PROVE  \A u \in Users : Bare(u)'
  BY DEF FactorInv, Bare

(* A commit of handler h changes the account of its own user only, and the *)
(* account is there afterwards if it was before.                           *)
LEMMA CommitOwn ==
    ASSUME TypeOK, NEW h \in Handlers, NEW v \in Users, v = request[h].u, Proceed(h)
    PROVE  /\ \A u \in Users \ {v} : account'[u] = account[u]
           /\ Exists(v) => Exists(v)'
<1>acc. account \in [Users -> Account]
  BY DEF TypeOK
<1>1. CASE CommitRegister(h)
  <2>1. PICK status \in Status, p \in Passwords :
           account' = IF Exists(v) THEN account
                      ELSE [account EXCEPT ![v] = [status |-> status, super |-> FALSE,
                              password |-> p, secret |-> Null, enabled |-> FALSE]]
    BY <1>1 DEF CommitRegister
  <2> QED
    BY <1>acc, <2>1 DEF Exists
<1>2. CASE CommitStatus(h)
  <2>1. request[h].status \in Status
    BY <1>2, RequestShape DEF CommitStatus, TypeOK
  <2> QED
    BY <1>acc, <1>2, <2>1 DEF CommitStatus, Exists, Account, Status
<1>3. CASE CommitPassword(h)
  BY <1>acc, <1>3 DEF CommitPassword, Exists, Account
<1>4. CASE CommitSetup(h)
  <2> DEFINE on == request[h].on
  <2>1. PICK s \in Secrets \ {account[v].secret} :
           account' = [account EXCEPT ![v].secret = s, ![v].enabled = IF on THEN FALSE ELSE @]
    BY <1>4 DEF CommitSetup
  <2> HIDE DEF on
  <2> QED
    BY <1>acc, <2>1 DEF Exists, Account
<1>5. CASE CommitEnable(h)
  <2> DEFINE on == request[h].on
  <2>1. account' = [account EXCEPT ![v].enabled = on => @]
    BY <1>5 DEF CommitEnable
  <2> HIDE DEF on
  <2> QED
    BY <1>acc, <2>1 DEF Exists, Account
<1>6. CASE CommitDisable(h)
  BY <1>acc, <1>6 DEF CommitDisable, Exists, Account
<1>7. CASE SpendCode(h) \/ IssueTokens(h) \/ StampKey(h) \/ Drop(h)
  BY <1>7 DEF SpendCode, IssueTokens, StampKey, Drop, rows, Exists
<1> QED
  BY <1>1, <1>2, <1>3, <1>4, <1>5, <1>6, <1>7 DEF Proceed

(* A commit leaves bare accounts bare: whoever got a secret or a switch was *)
(* there when the request began.                                           *)
LEMMA CommitBare ==
    ASSUME FactorInv, NEW h \in Handlers, NEW v \in Users, v = request[h].u, Proceed(h)
    PROVE  Bare(v)'
<1>acc. account \in [Users -> Account]
  BY DEF FactorInv, AccessInv, TypeOK
<1>own. Exists(v) => Exists(v)'
  BY CommitOwn DEF FactorInv, AccessInv
<1>bare. Bare(v)
  BY DEF FactorInv
<1>1. ASSUME account'[v].secret = account[v].secret, account'[v].enabled = account[v].enabled
      PROVE  Bare(v)'
  BY <1>1, <1>own, <1>bare DEF Bare
<1>2. CASE CommitRegister(h)
  <2>1. PICK status \in Status, p \in Passwords :
           account' = IF Exists(v) THEN account
                      ELSE [account EXCEPT ![v] = [status |-> status, super |-> FALSE,
                              password |-> p, secret |-> Null, enabled |-> FALSE]]
    BY <1>2 DEF CommitRegister
  <2>2. CASE Exists(v)
    BY <1>1, <2>1, <2>2
  <2>3. CASE ~Exists(v)
    BY <1>acc, <2>1, <2>3 DEF Bare
  <2> QED
    BY <2>2, <2>3
<1>3. CASE CommitStatus(h)
  BY <1>acc, <1>1, <1>3 DEF CommitStatus, Account
<1>4. CASE CommitPassword(h)
  BY <1>acc, <1>1, <1>4 DEF CommitPassword, Account
<1>5. CASE CommitSetup(h) \/ CommitEnable(h)
  <2>1. request[h].op \in {"setup", "enable"}
    BY <1>5 DEF CommitSetup, CommitEnable
  <2>2. Exists(v)
    BY <2>1 DEF FactorInv, Standing
  <2> QED
    BY <1>own, <2>2 DEF Bare
<1>6. CASE CommitDisable(h)
  <2>1. account' = [account EXCEPT ![v].enabled = FALSE, ![v].secret = Null]
    BY <1>6 DEF CommitDisable
  <2> QED
    BY <1>acc, <2>1 DEF Bare, Account
<1>7. CASE SpendCode(h) \/ IssueTokens(h) \/ StampKey(h) \/ Drop(h)
  BY <1>1, <1>7 DEF SpendCode, IssueTokens, StampKey, Drop, rows
<1> QED
  BY <1>2, <1>3, <1>4, <1>5, <1>6, <1>7 DEF Proceed

(* After a commit a handler is idle or about to issue tokens, or has its   *)
(* key resolved.                                                           *)
LEMMA CommitGoes ==
    ASSUME AccessInv, NEW h \in Handlers, NEW v, v = request[h].u, Proceed(h)
    PROVE  /\ v \in Users
           /\ \E r \in Request : Continue(h, r) /\ r.op \in {"idle", "issue", "keyed"}
<1>1. request[h] \in Request
  BY DEF AccessInv, TypeOK
<1>2. request[h].op # "idle"
  BY <1>1, RequestShape DEF Proceed, CommitRegister, CommitStatus, CommitPassword, SpendCode,
     IssueTokens, CommitSetup, CommitEnable, CommitDisable, StampKey, Drop
<1>3. v \in Users /\ Idle \in Request
  BY <1>2, Holds
<1>4. /\ [op |-> "issue", u |-> v] \in Request
      /\ [op |-> "keyed", u |-> v] \in Request
  BY <1>3 DEF Request
<1>5. \/ Continue(h, Idle) \/ Continue(h, [op |-> "issue", u |-> v])
      \/ Continue(h, [op |-> "keyed", u |-> v])
  BY DEF Proceed, CommitRegister, CommitStatus, CommitPassword, SpendCode, Finish,
     IssueTokens, CommitSetup, CommitEnable, CommitDisable, StampKey, Drop
<1>6. CASE Continue(h, Idle)
  BY <1>3, <1>6 DEF Idle
<1>7. CASE Continue(h, [op |-> "issue", u |-> v])
  BY <1>3, <1>4, <1>7
<1>8. CASE Continue(h, [op |-> "keyed", u |-> v])
  BY <1>3, <1>4, <1>8
<1> QED
  BY <1>3, <1>5, <1>6, <1>7, <1>8

(* A handler begins a request for a user who is there.                     *)
LEMMA BeginStands ==
    ASSUME FactorInv, AccessInv', NEW h \in Handlers, NEW r \in Request, NEW v \in Users,
           Begin(h, r),
           r.op \in {"setup", "enable"} => Exists(r.u),
           r.op \in {"code", "disable"} => account[r.u].enabled
    PROVE  FactorInv'
<1>1. Continue(h, r) /\ account' = account
  BY DEF Begin, rows
<1>2. \A u \in Users : Exists(u) => Exists(u)'
  BY <1>1 DEF Exists
<1>3. \A u \in Users : Bare(u)'
  BY <1>1, <1>2, BareKept
<1> QED
  BY <1>1, <1>2, <1>3, StandingStep

(* Every step keeps it.                                                    *)
LEMMA NextFactor == FactorInv /\ [Next]_vars => FactorInv'
<1> SUFFICES ASSUME FactorInv, [Next]_vars PROVE FactorInv'
  OBVIOUS
<1>inv. AccessInv /\ AccessInv' /\ TypeOK
  BY NextInv DEF FactorInv, AccessInv
<1>acc. account \in [Users -> Account]
  BY <1>inv DEF TypeOK
<1>1. ASSUME UNCHANGED <<account, request, overlapped>> PROVE FactorInv'
  BY <1>1, <1>inv DEF FactorInv, Bare, Standing, Exists
<1>2. CASE UNCHANGED vars
  BY <1>1, <1>2 DEF vars, rows
<1>3. ASSUME NEW h \in Handlers, Proceed(h) PROVE FactorInv'
  <2>1. PICK v \in Users : v = request[h].u
    BY <1>3, <1>inv, CommitGoes
  <2>2. PICK r \in Request : Continue(h, r) /\ r.op \in {"idle", "issue", "keyed"}
    BY <1>3, <1>inv, CommitGoes
  <2>3. /\ \A u \in Users \ {v} : account'[u] = account[u]
        /\ Exists(v) => Exists(v)'
    BY <1>3, <1>inv, <2>1, CommitOwn
  <2>4. \A u \in Users : Exists(u) => Exists(u)'
    BY <2>3 DEF Exists
  <2>5. Bare(v)'
    BY <1>3, <2>1, CommitBare
  <2>6. ASSUME NEW u \in Users PROVE Bare(u)'
    <3>1. CASE u # v
      BY <2>3, <3>1 DEF FactorInv, Bare, Exists
    <3> QED
      BY <2>5, <3>1
  <2> QED
    BY <1>inv, <2>1, <2>2, <2>3, <2>4, <2>6, StandingStep
<1>4. ASSUME NEW h \in Handlers, NEW u \in Users, Start(h, u) PROVE FactorInv'
  <2>1. ASSUME NEW r \in Request, Begin(h, r), r.op \in {"register", "password", "status", "issue"}
        PROVE  FactorInv'
    BY <1>inv, <2>1, BeginStands
  <2>2. SignedIn(h, u) => Exists(u)
    BY DEF SignedIn, Active, Exists
  <2>3. CASE Register(h, u)
    BY <2>1, <2>3 DEF Register, Request
  <2>4. CASE ChangePassword(h, u)
    BY <2>1, <2>4 DEF ChangePassword, Request
  <2>5. ASSUME NEW status \in Status, SetStatus(h, u, status) PROVE FactorInv'
    BY <2>1, <2>5 DEF SetStatus, Request
  <2>6. CASE LoginPending(h, u) \/ Refresh(h, u)
    BY <1>1, <2>6 DEF LoginPending, Refresh, rows
  <2>7. CASE Login(h, u) \/ LoginTotp(h, u)
    BY <2>1, <2>7 DEF Login, LoginTotp, Request
  <2>8. CASE LoginRecovery(h, u)
    <3>1. PICK c \in Codes : Begin(h, [op |-> "code", u |-> u, code |-> c])
      BY <2>8 DEF LoginRecovery, CodesOf
    <3>2. [op |-> "code", u |-> u, code |-> c] \in Request /\ account[u].enabled
      BY <2>8 DEF LoginRecovery, SecondFactorDue, Request
    <3> QED
      BY <1>inv, <3>1, <3>2, BeginStands
  <2>9. CASE Setup(h, u)
    <3> DEFINE r == [op |-> "setup", u |-> u, on |-> account[u].enabled]
    <3>1. Begin(h, r) /\ Exists(u)
      BY <2>2, <2>9 DEF Setup
    <3>2. r \in Request
      BY <1>acc DEF Request, Account
    <3>3. r.op = "setup" /\ r.u = u
      OBVIOUS
    <3> HIDE DEF r
    <3> QED
      BY <1>inv, <3>1, <3>2, <3>3, BeginStands
  <2>10. CASE Enable(h, u)
    <3> DEFINE r == [op |-> "enable", u |-> u, on |-> account[u].enabled,
                     secret |-> account[u].secret, olds |-> CodesOf(u)]
    <3>1. Begin(h, r) /\ Exists(u)
      BY <2>2, <2>10 DEF Enable
    <3>2. r \in Request
      BY <1>acc, <2>10 DEF Enable, Request, Account, CodesOf
    <3>3. r.op = "enable" /\ r.u = u
      OBVIOUS
    <3> HIDE DEF r
    <3> QED
      BY <1>inv, <3>1, <3>2, <3>3, BeginStands
  <2>11. CASE Disable(h, u)
    <3> DEFINE r == [op |-> "disable", u |-> u, olds |-> CodesOf(u)]
    <3>1. Begin(h, r) /\ account[u].enabled
      BY <2>11 DEF Disable
    <3>2. r \in Request
      BY DEF Request, CodesOf
    <3>3. r.op = "disable" /\ r.u = u
      OBVIOUS
    <3> HIDE DEF r
    <3> QED
      BY <1>inv, <3>1, <3>2, <3>3, BeginStands
  <2> QED
    BY <1>4, <2>3, <2>4, <2>5, <2>6, <2>7, <2>8, <2>9, <2>10, <2>11 DEF Start
<1>5. ASSUME NEW h \in Handlers, NEW k \in Keys, ResolveKey(h, k) PROVE FactorInv'
  <2> DEFINE r == [op |-> "key", u |-> key[k].owner, key |-> k]
  <2>1. Begin(h, r) /\ key[k].owner \in Users
    BY <1>inv, <1>5 DEF ResolveKey, TypeOK
  <2>2. r \in Request /\ r.op = "key"
    BY <2>1 DEF Request
  <2> HIDE DEF r
  <2> QED
    BY <1>inv, <2>1, <2>2, BeginStands
<1>6. ASSUME NEW u \in Users, NEW k \in Keys, CreateKey(u, k) \/ RevokeKey(u, k) PROVE FactorInv'
  BY <1>1, <1>6 DEF CreateKey, RevokeKey
<1>7. ASSUME NEW b \in BOOLEAN, SetForce(b) PROVE FactorInv'
  BY <1>1, <1>7 DEF SetForce
<1>8. ASSUME NEW t \in tokens, Expire(t) PROVE FactorInv'
  BY <1>1, <1>8 DEF Expire, rows
<1>9. CASE Restart
  <2>1. \A h \in Handlers : request'[h] = Idle
    BY <1>9 DEF Restart
  <2>2. \A u \in Users : /\ Exists(u) => Exists(u)'
                         /\ account'[u].enabled = account[u].enabled
                         /\ account'[u].secret = account[u].secret
    BY <1>acc, <1>9 DEF Restart, Account, Exists
  <2>3. \A u \in Users : Bare(u)'
    BY <2>2, BareKept
  <2>4. \A h \in Handlers : Standing(h)'
    BY <2>1 DEF Standing, Idle
  <2> QED
    BY <1>inv, <2>3, <2>4 DEF FactorInv
<1> QED
  BY <1>2, <1>3, <1>4, <1>5, <1>6, <1>7, <1>8, <1>9 DEF Next

-----------------------------------------------------------------------------
(* What the second factor promises of one user.                            *)
Moves(u) ==
    Factor!SetUp(u) \/ Factor!SwitchOn(u) \/ Factor!SwitchOff(u)
    \/ Factor!OpenWithCode(u) \/ Factor!LeaveAlone(u)

(* The initial states are initial states of the second factor.             *)
LEMMA FactorInit == Init => Factor!Init
<1> SUFFICES ASSUME Init PROVE Factor!Init
  OBVIOUS
<1>1. \A u \in Users : account[u].secret = Null /\ account[u].enabled = FALSE
  BY DEF Init
<1>2. \A c \in Codes : code[c].state = "free"
  BY DEF Init
<1>3. [u \in Users |-> account[u].secret] = [u \in Users |-> Null]
  BY <1>1
<1>4. [u \in Users |-> account[u].enabled] = [u \in Users |-> FALSE]
  BY <1>1, Zenon
<1>5. \A u \in Users : {c \in CodesOf(u) : code[c].state = "unused"} = {}
  BY <1>2 DEF CodesOf
<1>6. [u \in Users |-> {c \in CodesOf(u) : code[c].state = "unused"}] = [u \in Users |-> {}]
  BY <1>5, Zenon
<1>7. {c \in Codes : code[c].state # "free"} = {}
  BY <1>2
<1>8. overlapped = [u \in Users |-> FALSE]
  BY DEF Init
<1> QED
  BY <1>3, <1>4, <1>6, <1>7, <1>8, Zenon DEF Factor!Init

(* A factor none of whose rows a step writes is left alone.                *)
LEMMA Untouched ==
    ASSUME NEW u \in Users,
           account'[u].secret = account[u].secret, account'[u].enabled = account[u].enabled,
           \A c \in Codes : code'[c] = code[c] \/ (code[c].owner # u /\ code'[c].owner # u)
    PROVE  Moves(u)
<1>1. {c \in CodesOf(u) : code[c].state = "unused"}' = {c \in CodesOf(u) : code[c].state = "unused"}
  BY DEF CodesOf
<1> QED
  BY <1>1 DEF Moves, Factor!LeaveAlone, Factor!KeepSecret, Factor!KeepSwitch, Factor!KeepCodes

(* A step moves the factor of one user, the others' are left alone; codes  *)
(* once handed out stay so and overlapping requests are not forgotten.     *)
LEMMA MoveOf ==
    ASSUME TypeOK, TypeOK', NEW v \in Users, TouchesOnly(v),
           \A c \in Codes : code'[c].state = "free" => code[c].state = "free",
           \A u \in Users : overlapped[u] => overlapped'[u],
           ~overlapped'[v] => Moves(v)
    PROVE  Factor!Next
<1>1. ASSUME NEW u \in Users \ {v} PROVE Moves(u)
  <2>1. \A c \in Codes : code'[c] = code[c] \/ (code[c].owner # u /\ code'[c].owner # u)
    BY <1>1, AccessAssumption DEF TouchesOnly
  <2> QED
    BY <1>1, <2>1, Untouched DEF TouchesOnly
<1>2. \A u \in Users : overlapped'[u] \/ Moves(u)
  BY <1>1
<1>3. {c \in Codes : code[c].state # "free"} \subseteq {c \in Codes : code[c].state # "free"}'
  OBVIOUS
<1> QED
  BY <1>2, <1>3 DEF Moves, Factor!Next

(* A step that writes none of these rows leaves every factor alone.        *)
LEMMA AllUntouched ==
    ASSUME UNCHANGED code,
           \A u \in Users : account'[u].enabled = account[u].enabled
                            /\ account'[u].secret = account[u].secret,
           \A u \in Users : overlapped[u] => overlapped'[u]
    PROVE  Factor!Next
<1>1. \A u \in Users : Moves(u)
  BY Untouched
<1>2. {c \in Codes : code[c].state # "free"} \subseteq {c \in Codes : code[c].state # "free"}'
  OBVIOUS
<1> QED
  BY <1>1, <1>2 DEF Moves, Factor!Next

(* A recovery code that is spent opens the factor while it is on, and is   *)
(* taken out of those that open it.                                        *)
LEMMA SpendOpens ==
    ASSUME FactorInv, TypeOK', NEW h \in Handlers, SpendCode(h),
           NEW c, c = request[h].code, NEW v, v = request[h].u
    PROVE  Factor!Next
<1>inv. AccessInv /\ TypeOK /\ TypeOK'
  BY DEF FactorInv, AccessInv
<1>1. v \in Users /\ c \in Codes /\ request[h].op = "code"
  BY <1>inv, Holds, RequestShape DEF SpendCode
<1>2. code[c].owner = v
  BY <1>1, <1>inv DEF AccessInv, Owns
<1>3. PICK r \in Request : Continue(h, r)
  BY <1>inv, CommitGoes DEF Proceed
<1>4. \A u \in Users : overlapped[u] => overlapped'[u]
  BY <1>3, <1>inv, Goes
<1>5. UNCHANGED account
  BY DEF SpendCode
<1>6. CASE code[c].state = "deleted"
  BY <1>4, <1>5, <1>6, AllUntouched DEF SpendCode
<1>7. CASE code[c].state # "deleted"
  <2>1. /\ code' = [code EXCEPT ![c].state = "used"]
        /\ spent' = [spent EXCEPT ![c] = @ + 1]
        /\ UNCHANGED <<confirmed, handed>>
    BY <1>7 DEF SpendCode
  <2>2. code \in [Codes -> [owner : Users \cup {Null}, state : {"free", "unused", "used", "deleted"}]]
        /\ spent \in [Codes -> Nat]
    BY <1>inv DEF TypeOK
  <2>3. /\ \A d \in Codes \ {c} : code'[d] = code[d] /\ spent'[d] = spent[d]
        /\ code'[c].owner = v /\ code'[c].state = "used"
    BY <1>1, <1>2, <2>1, <2>2
  <2>4. TouchesOnly(v)
    BY <1>1, <1>2, <1>5, <2>1, <2>3 DEF TouchesOnly
  <2>5. \A d \in Codes : code'[d].state = "free" => code[d].state = "free"
    BY <2>3
  <2>6. ASSUME ~overlapped'[v] PROVE Moves(v)
    <3>1. ~overlapped[v]
      BY <1>1, <1>4, <2>6
    <3>2. code[c].state = "unused"
      BY <1>1, <1>inv, <3>1 DEF AccessInv, Undisturbed, Current
    <3>3. account[v].enabled
      BY <1>1, <3>1 DEF FactorInv, Standing
    <3>4. c \in {d \in CodesOf(v) : code[d].state = "unused"}
      BY <1>1, <1>2, <3>2 DEF CodesOf
    <3>5. {d \in CodesOf(v) : code[d].state = "unused"}'
             = {d \in CodesOf(v) : code[d].state = "unused"} \ {c}
      BY <1>1, <1>2, <2>3, <3>2 DEF CodesOf
    <3>6. Factor!OpenWithCode(v)
      BY <1>1, <1>5, <3>3, <3>4, <3>5 DEF Factor!OpenWithCode, Factor!KeepSecret, Factor!KeepSwitch
    <3> QED
      BY <3>6 DEF Moves
  <2> QED
    BY <1>1, <1>4, <1>inv, <2>4, <2>5, <2>6, MoveOf
<1> QED
  BY <1>6, <1>7

(* A new secret is set and the factor is off.                              *)
LEMMA SetupSetsUp ==
    ASSUME FactorInv, TypeOK', NEW h \in Handlers, CommitSetup(h),
           NEW v, v = request[h].u, NEW on, on = request[h].on
    PROVE  Factor!Next
<1>inv. AccessInv /\ TypeOK /\ TypeOK'
  BY DEF FactorInv, AccessInv
<1>1. v \in Users /\ Idle \in Request /\ request[h].op = "setup"
  BY <1>inv, Holds DEF CommitSetup
<1>2. Continue(h, Idle) /\ UNCHANGED <<code, seenByUser>>
  BY DEF CommitSetup, Finish
<1>3. PICK s \in Secrets \ {account[v].secret} :
         account' = [account EXCEPT ![v].secret = s, ![v].enabled = IF on THEN FALSE ELSE @]
  BY DEF CommitSetup
<1>4. account \in [Users -> Account]
  BY <1>inv DEF TypeOK
<1>5. /\ \A u \in Users \ {v} : account'[u] = account[u]
      /\ account'[v].secret = s
      /\ account'[v].enabled = IF on THEN FALSE ELSE account[v].enabled
  BY <1>1, <1>3, <1>4 DEF Account
<1>6. TouchesOnly(v)
  BY <1>2, <1>5 DEF TouchesOnly, seenByUser
<1>7. \A u \in Users : overlapped[u] => overlapped'[u]
  BY <1>1, <1>2, <1>inv, Goes
<1>8. ASSUME ~overlapped'[v] PROVE Moves(v)
  <2>1. on = account[v].enabled
    BY <1>1, <1>7, <1>8, <1>inv DEF AccessInv, Undisturbed, Current
  <2>2. ~account'[v].enabled
    BY <1>5, <2>1
  <2>3. {c \in CodesOf(v) : code[c].state = "unused"}' = {c \in CodesOf(v) : code[c].state = "unused"}
    BY <1>2 DEF CodesOf
  <2>4. account'[v].secret \in Secrets \ {account[v].secret}
    BY <1>5
  <2>5. Factor!SetUp(v)
    BY <1>1, <2>2, <2>3, <2>4 DEF Factor!SetUp, Factor!KeepCodes
  <2> QED
    BY <2>5 DEF Moves
<1> QED
  BY <1>1, <1>2, <1>6, <1>7, <1>8, <1>inv, MoveOf

(* The factor is switched on with a full set of codes nobody ever had.     *)
LEMMA EnableSwitchesOn ==
    ASSUME FactorInv, TypeOK', NEW h \in Handlers, CommitEnable(h),
           NEW q, q = request[h], NEW v, v = q.u
    PROVE  Factor!Next
<1>inv. AccessInv /\ TypeOK /\ TypeOK'
  BY DEF FactorInv, AccessInv
<1>1. /\ v \in Users /\ Idle \in Request /\ q.op = "enable"
      /\ q.on \in BOOLEAN /\ q.secret \in Secrets /\ q.olds \in SUBSET Codes
  BY <1>inv, Holds, RequestShape DEF CommitEnable
<1>2. Continue(h, Idle) /\ UNCHANGED spent
  BY DEF CommitEnable, Finish
<1>3. PICK new \in SUBSET {c \in Codes : code[c].state = "free"} :
         /\ Cardinality(new) = PerEnable
         /\ account' = [account EXCEPT ![v].enabled = q.on => @]
         /\ code' = [c \in Codes |->
               IF c \in new THEN [owner |-> v, state |-> "unused"]
               ELSE IF c \in q.olds THEN [code[c] EXCEPT !.state = "deleted"]
               ELSE code[c]]
         /\ confirmed' = [confirmed EXCEPT ![v] = q.secret]
         /\ handed' = [handed EXCEPT ![v] = new]
  BY DEF CommitEnable
<1>4. \A c \in q.olds : code[c].owner = v
  BY <1>1, <1>inv DEF AccessInv, Owns
<1>5. /\ account \in [Users -> Account]
      /\ confirmed \in [Users -> Secrets \cup {Null}] /\ handed \in [Users -> SUBSET Codes]
      /\ code \in [Codes -> [owner : Users \cup {Null}, state : {"free", "unused", "used", "deleted"}]]
  BY <1>inv DEF TypeOK
<1>6. /\ \A u \in Users \ {v} : account'[u] = account[u] /\ confirmed'[u] = confirmed[u]
                                /\ handed'[u] = handed[u]
      /\ account'[v].secret = account[v].secret
  BY <1>1, <1>3, <1>5 DEF Account
<1>7. account'[v].enabled = (q.on => account[v].enabled)
  BY <1>1, <1>3, <1>5, Zenon DEF Account
<1>8. \A c \in Codes :
         IF c \in new THEN /\ code[c].owner = Null /\ code[c].state = "free"
                           /\ code'[c].owner = v /\ code'[c].state = "unused"
         ELSE /\ code'[c].owner = code[c].owner
              /\ c \in q.olds => code'[c].state = "deleted"
              /\ c \notin q.olds => code'[c] = code[c]
  BY <1>3, <1>5, <1>inv DEF AccessInv, CodesOwned
<1>9. TouchesOnly(v)
  BY <1>1, <1>2, <1>4, <1>6, <1>8, AccessAssumption DEF TouchesOnly
<1>10. \A c \in Codes : code'[c].state = "free" => code[c].state = "free"
  BY <1>8
<1>11. \A u \in Users : overlapped[u] => overlapped'[u]
  BY <1>1, <1>2, <1>inv, Goes
<1>12. ASSUME ~overlapped'[v] PROVE Moves(v)
  <2>1. Current(h)
    BY <1>1, <1>11, <1>12, <1>inv DEF AccessInv, Undisturbed
  <2>2. q.on = account[v].enabled /\ q.secret = account[v].secret /\ q.olds = CodesOf(v)
    BY <1>1, <2>1 DEF Current
  <2>3. account'[v].enabled
    BY <1>7, <2>2
  <2>4. account[v].secret # Null
    BY <1>1, <2>2, AccessAssumption
  <2>5. {c \in CodesOf(v) : code[c].state = "unused"}' = new
    BY <1>1, <1>3, <1>8, <2>2, AccessAssumption DEF CodesOf
  <2>6. new \subseteq {c \in Codes : code[c].state # "free"}' \ {c \in Codes : code[c].state # "free"}
    BY <1>3, <1>8
  <2>7. Factor!KeepSecret(v)
    BY <1>1, <1>6 DEF Factor!KeepSecret
  <2>8. \A S : Factor!Cardinality(S) = Cardinality(S)
    BY Zenon DEF Factor!Cardinality, Cardinality
  <2>9. /\ {c \in CodesOf(v) : code[c].state = "unused"}'
              \subseteq {c \in Codes : code[c].state # "free"}' \ {c \in Codes : code[c].state # "free"}
        /\ Cardinality({c \in CodesOf(v) : code[c].state = "unused"}') = PerEnable
    BY <1>3, <2>5, <2>6
  <2>10. Factor!SwitchOn(v)
    BY <1>1, <2>3, <2>4, <2>7, <2>9, <2>8 DEF Factor!SwitchOn
  <2> QED
    BY <2>10 DEF Moves
<1> QED
  BY <1>1, <1>9, <1>10, <1>11, <1>12, <1>inv, MoveOf

(* The factor is switched off, and with it go its secret and its codes.    *)
LEMMA DisableSwitchesOff ==
    ASSUME FactorInv, TypeOK', NEW h \in Handlers, CommitDisable(h),
           NEW q, q = request[h], NEW v, v = q.u
    PROVE  Factor!Next
<1>inv. AccessInv /\ TypeOK /\ TypeOK'
  BY DEF FactorInv, AccessInv
<1>1. v \in Users /\ Idle \in Request /\ q.op = "disable" /\ q.olds \in SUBSET Codes
  BY <1>inv, Holds, RequestShape DEF CommitDisable
<1>2. Continue(h, Idle) /\ UNCHANGED seenByUser
  BY DEF CommitDisable, Finish
<1>3. /\ account' = [account EXCEPT ![v].enabled = FALSE, ![v].secret = Null]
      /\ code' = [c \in Codes |->
            IF c \in q.olds THEN [code[c] EXCEPT !.state = "deleted"] ELSE code[c]]
  BY DEF CommitDisable
<1>4. \A c \in q.olds : code[c].owner = v
  BY <1>1, <1>inv DEF AccessInv, Owns
<1>5. /\ account \in [Users -> Account]
      /\ code \in [Codes -> [owner : Users \cup {Null}, state : {"free", "unused", "used", "deleted"}]]
  BY <1>inv DEF TypeOK
<1>6. /\ \A u \in Users \ {v} : account'[u] = account[u]
      /\ ~account'[v].enabled /\ account'[v].secret = Null
  BY <1>1, <1>3, <1>5 DEF Account
<1>7. \A c \in Codes : /\ code'[c].owner = code[c].owner
                       /\ c \in q.olds => code'[c].state = "deleted"
                       /\ c \notin q.olds => code'[c] = code[c]
  BY <1>3, <1>5
<1>8. TouchesOnly(v)
  BY <1>1, <1>2, <1>4, <1>6, <1>7 DEF TouchesOnly, seenByUser
<1>9. \A u \in Users : overlapped[u] => overlapped'[u]
  BY <1>1, <1>2, <1>inv, Goes
<1>10. ASSUME ~overlapped'[v] PROVE Moves(v)
  <2>1. ~overlapped[v]
    BY <1>1, <1>9, <1>10
  <2>2. Current(h)
    BY <1>1, <2>1, <1>inv DEF AccessInv, Undisturbed
  <2>3. q.olds = CodesOf(v)
    BY <1>1, <2>2 DEF Current
  <2>4. account[v].enabled
    BY <1>1, <2>1 DEF FactorInv, Standing
  <2>5. {c \in CodesOf(v) : code[c].state = "unused"}' = {}
    BY <1>7, <2>3 DEF CodesOf
  <2>6. Factor!SwitchOff(v)
    BY <1>1, <1>6, <2>4, <2>5 DEF Factor!SwitchOff
  <2> QED
    BY <2>6 DEF Moves
<1> QED
  BY <1>1, <1>7, <1>8, <1>9, <1>10, <1>inv, MoveOf

(* A new account has no second factor, as the missing one had none.        *)
LEMMA RegisterLeaves ==
    ASSUME FactorInv, NEW h \in Handlers, CommitRegister(h), NEW v, v = request[h].u
    PROVE  \A u \in Users : /\ account'[u].enabled = account[u].enabled
                            /\ account'[u].secret = account[u].secret
<1>inv. AccessInv /\ TypeOK
  BY DEF FactorInv, AccessInv
<1>1. v \in Users /\ account \in [Users -> Account]
  BY <1>inv, Holds DEF CommitRegister, TypeOK
<1>2. PICK status \in Status, p \in Passwords :
         account' = IF Exists(v) THEN account
                    ELSE [account EXCEPT ![v] = [status |-> status, super |-> FALSE,
                            password |-> p, secret |-> Null, enabled |-> FALSE]]
  BY DEF CommitRegister
<1>3. Bare(v) /\ account[v].enabled \in BOOLEAN
  BY <1>1 DEF FactorInv, Account
<1>4. CASE Exists(v)
  BY <1>2, <1>4
<1>5. CASE ~Exists(v)
  <2>1. account[v].secret = Null /\ account[v].enabled = FALSE
    BY <1>3, <1>5 DEF Bare
  <2>2. /\ \A u \in Users \ {v} : account'[u] = account[u]
        /\ account'[v].secret = Null /\ account'[v].enabled = FALSE
    BY <1>1, <1>2, <1>5
  <2>3. ASSUME NEW u \in Users
        PROVE  account'[u].enabled = account[u].enabled /\ account'[u].secret = account[u].secret
    <3>1. CASE u = v
      BY <2>1, <2>2, <3>1, Zenon
    <3>2. CASE u # v
      BY <2>2, <3>2
    <3> QED
      BY <3>1, <3>2
  <2> QED
    BY <2>3, Zenon
<1> QED
  BY <1>4, <1>5

(* Every step moves each user's factor as the second factor promises, or   *)
(* is one after that user's requests overlapped.                           *)
LEMMA FactorNext == FactorInv /\ [Next]_vars => [Factor!Next]_(Factor!vars)
<1> SUFFICES ASSUME FactorInv, [Next]_vars PROVE Factor!Next
  OBVIOUS
<1>inv. AccessInv /\ TypeOK /\ TypeOK'
  BY NextType DEF FactorInv, AccessInv
<1>acc. account \in [Users -> Account]
  BY <1>inv DEF TypeOK
<1>1. ASSUME UNCHANGED <<account, code, overlapped>> PROVE Factor!Next
  BY <1>1, AllUntouched
<1>2. ASSUME NEW h \in Handlers, NEW r \in Request, Continue(h, r), UNCHANGED code,
             \A u \in Users : account'[u].enabled = account[u].enabled
                              /\ account'[u].secret = account[u].secret
      PROVE  Factor!Next
  <2>1. \A u \in Users : overlapped[u] => overlapped'[u]
    BY <1>2, <1>inv, Goes
  <2> QED
    BY <1>2, <2>1, AllUntouched
<1>3. CASE UNCHANGED vars
  BY <1>1, <1>3 DEF vars, rows
<1>4. ASSUME NEW h \in Handlers, Proceed(h) PROVE Factor!Next
  <2>1. PICK r \in Request : Continue(h, r)
    BY <1>4, <1>inv, CommitGoes
  <2>2. CASE CommitRegister(h)
    BY <1>2, <2>1, <2>2, RegisterLeaves DEF CommitRegister
  <2>3. CASE CommitStatus(h)
    BY <1>2, <1>acc, <2>1, <2>3 DEF CommitStatus, Account
  <2>4. CASE CommitPassword(h)
    BY <1>2, <1>acc, <2>1, <2>4 DEF CommitPassword, Account
  <2>5. CASE IssueTokens(h) \/ StampKey(h) \/ Drop(h)
    BY <1>2, <2>1, <2>5 DEF IssueTokens, StampKey, Drop, rows
  <2>6. CASE SpendCode(h)
    BY <1>inv, <2>6, SpendOpens
  <2>7. CASE CommitSetup(h)
    BY <1>inv, <2>7, SetupSetsUp
  <2>8. CASE CommitEnable(h)
    BY <1>inv, <2>8, EnableSwitchesOn
  <2>9. CASE CommitDisable(h)
    BY <1>inv, <2>9, DisableSwitchesOff
  <2> QED
    BY <1>4, <2>2, <2>3, <2>4, <2>5, <2>6, <2>7, <2>8, <2>9 DEF Proceed
<1>5. ASSUME NEW h \in Handlers, NEW r, Begin(h, r) PROVE Factor!Next
  <2>1. UNCHANGED <<account, code>>
    BY <1>5 DEF Begin, rows
  <2>2. \A u \in Users : overlapped[u] => overlapped'[u]
    BY <1>5, Zenon DEF Begin, Continue
  <2> QED
    BY <2>1, <2>2, AllUntouched
<1>6. ASSUME NEW h \in Handlers, NEW u \in Users, Start(h, u) PROVE Factor!Next
  <2>1. CASE LoginPending(h, u) \/ Refresh(h, u)
    BY <1>1, <2>1 DEF LoginPending, Refresh, rows
  <2>2. CASE Register(h, u) \/ ChangePassword(h, u) \/ \E status \in Status : SetStatus(h, u, status)
    BY <1>5, <2>2 DEF Register, ChangePassword, SetStatus
  <2>3. CASE Login(h, u) \/ LoginTotp(h, u) \/ LoginRecovery(h, u)
    BY <1>5, <2>3 DEF Login, LoginTotp, LoginRecovery
  <2>4. CASE Setup(h, u)
    BY <1>5, <2>4 DEF Setup
  <2>5. CASE Enable(h, u)
    BY <1>5, <2>5 DEF Enable
  <2>6. CASE Disable(h, u)
    BY <1>5, <2>6 DEF Disable
  <2> QED
    BY <1>6, <2>1, <2>2, <2>3, <2>4, <2>5, <2>6 DEF Start
<1>7. ASSUME NEW h \in Handlers, NEW k \in Keys, ResolveKey(h, k) PROVE Factor!Next
  BY <1>5, <1>7 DEF ResolveKey
<1>8. ASSUME NEW u \in Users, NEW k \in Keys, CreateKey(u, k) \/ RevokeKey(u, k) PROVE Factor!Next
  BY <1>1, <1>8 DEF CreateKey, RevokeKey
<1>9. ASSUME NEW b \in BOOLEAN, SetForce(b) PROVE Factor!Next
  BY <1>1, <1>9 DEF SetForce
<1>10. ASSUME NEW t \in tokens, Expire(t) PROVE Factor!Next
  BY <1>1, <1>10 DEF Expire, rows
<1>11. CASE Restart
  BY <1>acc, <1>11, AllUntouched DEF Restart, Account
<1> QED
  BY <1>3, <1>4, <1>6, <1>7, <1>8, <1>9, <1>10, <1>11 DEF Next

(* Whatever interleaves, the second factor of a user whose own requests    *)
(* never overlapped is set up, verified, switched off and opened in single *)
(* steps, each on the factor as it stands.                                 *)
THEOREM FactorImplemented == Spec => ImplementsSecondFactor
<1>1. Init => FactorInv /\ Factor!Init
  BY InitFactor, FactorInit
<1>2. FactorInv /\ [Next]_vars => FactorInv'
  BY NextFactor
<1>3. FactorInv /\ [Next]_vars => [Factor!Next]_(Factor!vars)
  BY FactorNext
<1> QED
  BY <1>1, <1>2, <1>3, PTL DEF Spec, ImplementsSecondFactor, Factor!Spec
=============================================================================
