------------------------------ MODULE UserAccess ------------------------------
(***************************************************************************)
(* The sign-in of one user of open-call: logins (by password or through an *)
(* OIDC ticket), rotation of refresh tokens, logout, and the changes of    *)
(* the account that must end what was signed before.  Requests are         *)
(* transactions of the database, which lock the rows they write; a reader  *)
(* sees what is committed.                                                 *)
(***************************************************************************)
EXTENDS Naturals, Sequences

CONSTANTS
  Requests,  \* requests in flight
  Logins,    \* login sessions
  NoRequest,
  MaxTokens, \* bound: pairs of tokens
  MaxChanges \* bound: changes of the account

VARIABLES
  user,      \* [ver, disabled]: the row of the user
  login,     \* login |-> [at, jti, oidc]: the row of the login session
  tokens,    \* the pairs signed: [login, ver, epoch]
  spent,     \* the refresh tokens in the table of revocations
  req,       \* request |-> what it does
  userLock, loginLock,  \* who holds the row
  epoch,     \* changes of the account committed           (history)
  rotated,   \* refresh tokens that were exchanged, each time   (history)
  loggedOut  \* logins that were logged out                 (history)

accessVars == <<user, login, tokens, spent, req, userLock, loginLock, epoch, rotated, loggedOut>>

Idle == [at |-> "idle"]
NoLogin == [at |-> "none", jti |-> 0, oidc |-> FALSE]

Init ==
  /\ user = [ver |-> 1, disabled |-> FALSE]
  /\ login = [l \in Logins |-> NoLogin]
  /\ tokens = <<>> /\ spent = {} /\ rotated = <<>> /\ loggedOut = {}
  /\ req = [r \in Requests |-> Idle]
  /\ userLock = NoRequest /\ loginLock = [l \in Logins |-> NoRequest]
  /\ epoch = 0

---------------------------------------------------------------------------

Becomes(r, x) == req' = [req EXCEPT ![r] = x]

\* What a transaction leaves when it ends.
Ends(r) ==
  /\ Becomes(r, Idle)
  /\ userLock' = IF userLock = r THEN NoRequest ELSE userLock
  /\ loginLock' = [l \in Logins |-> IF loginLock[l] = r THEN NoRequest ELSE loginLock[l]]

\* buildPair: tokens of version v for login l.
Signed(l, v, e) == Append(tokens, [login |-> l, ver |-> v, epoch |-> e])

\* Login and Exchange: the user is read once.
ReadUser(r, oidc) ==
  /\ req[r].at = "idle" /\ ~user.disabled
  /\ Becomes(r, [at |-> "login", ver |-> user.ver, epoch |-> epoch, oidc |-> oidc])
  /\ UNCHANGED <<user, login, tokens, spent, userLock, loginLock, epoch, rotated, loggedOut>>

\* Login and IssueOIDC: the session is inserted with what was read.
CreateLogin(r, l) ==
  /\ req[r].at = "login" /\ login[l].at = "none" /\ Len(tokens) < MaxTokens
  /\ tokens' = Signed(l, req[r].ver, req[r].epoch)
  /\ login' = [login EXCEPT ![l] = [at |-> "live", jti |-> Len(tokens'), oidc |-> req[r].oidc]]
  /\ Ends(r)
  /\ UNCHANGED <<user, spent, epoch, rotated, loggedOut>>

---------------------------------------------------------------------------

\* Refresh looks into the table of revocations before it locks the session.
RefreshAsks(r, t) ==
  /\ req[r].at = "idle" /\ t \in DOMAIN tokens /\ t \notin spent
  /\ Becomes(r, [at |-> "asks", t |-> t])
  /\ UNCHANGED <<user, login, tokens, spent, userLock, loginLock, epoch, rotated, loggedOut>>

\* The session is there and t is the token it was last given.
Current(l, t) == login[l].at = "live" /\ login[l].jti = t

RefreshLocks(r) ==
  LET t == req[r].t
      l == tokens[t].login IN
  /\ req[r].at = "asks" /\ loginLock[l] = NoRequest
  /\ IF Current(l, t) /\ ~user.disabled /\ user.ver = tokens[t].ver
     THEN /\ loginLock' = [loginLock EXCEPT ![l] = r]
          /\ Becomes(r, [at |-> IF login[l].oidc THEN "provider" ELSE "sign",
                         t |-> t, ver |-> user.ver, epoch |-> epoch])
     ELSE Becomes(r, Idle) /\ UNCHANGED loginLock
  /\ UNCHANGED <<user, login, tokens, spent, userLock, epoch, rotated, loggedOut>>

\* The provider confirms the roles, has other ones, or refuses.
Provider(r, answer) ==
  /\ req[r].at = "provider"
  /\ Becomes(r, [req[r] EXCEPT !.at = answer])
  /\ UNCHANGED <<user, login, tokens, spent, userLock, loginLock, epoch, rotated, loggedOut>>

\* The new pair replaces the token; the transaction ends.
Rotate(r, v, e, rows) ==
  LET t == req[r].t
      l == tokens[t].login IN
  /\ Len(tokens) < MaxTokens
  /\ tokens' = Signed(l, v, e)
  /\ spent' = spent \union {t} /\ rotated' = Append(rotated, t)
  /\ login' = [rows EXCEPT ![l].jti = Len(tokens')]
  /\ Ends(r)

Sign(r) ==
  /\ req[r].at = "sign" /\ Rotate(r, req[r].ver, req[r].epoch, login)
  /\ UNCHANGED <<user, epoch, loggedOut>>

\* revokeUserSessions, revokeUser: every session of the user but those in S.
RevokedBut(S) ==
  [l \in Logins |-> IF login[l].at = "live" /\ l \notin S THEN [login[l] EXCEPT !.at = "revoked"] ELSE login[l]]

\* The rows that takes: it waits for the requests that hold them.
MayRevoke(r, S) == \A l \in Logins \ S : login[l].at = "live" => loginLock[l] \in {NoRequest, r}

\* The row of the user is written: by a refresh that found other roles or a
\* refusal, or by a change of the account.
LockUser(r) ==
  /\ req[r].at \in {"changed", "refused", "change"} /\ userLock = NoRequest /\ epoch < MaxChanges
  /\ userLock' = r
  /\ Becomes(r, [req[r] EXCEPT !.at = CASE @ = "changed" -> "revokeOthers"
                                        [] @ = "refused" -> "revokeAll" [] OTHER -> "apply"])
  /\ UNCHANGED <<user, login, tokens, spent, loginLock, epoch, rotated, loggedOut>>

\* Other roles: the version this request read, plus one, and a new pair for it.
TakeRoles(r) ==
  LET l == tokens[req[r].t].login IN
  /\ req[r].at = "revokeOthers" /\ MayRevoke(r, {l})
  /\ user' = [user EXCEPT !.ver = req[r].ver + 1] /\ epoch' = epoch + 1
  /\ Rotate(r, req[r].ver + 1, epoch + 1, RevokedBut({l}))
  /\ UNCHANGED loggedOut

\* Refused: the user is signed out everywhere.
Refuse(r) ==
  /\ req[r].at = "revokeAll" /\ MayRevoke(r, {})
  /\ user' = [user EXCEPT !.ver = @ + 1] /\ epoch' = epoch + 1
  /\ login' = RevokedBut({}) /\ Ends(r)
  /\ UNCHANGED <<tokens, spent, rotated, loggedOut>>

---------------------------------------------------------------------------

\* Update with a disabled flag: whether it changes anything is decided on a
\* row read before the transaction.
Update(r, flag) ==
  /\ req[r].at = "idle"
  /\ Becomes(r, [at |-> "change", disabled |-> flag, signsOut |-> flag # user.disabled])
  /\ UNCHANGED <<user, login, tokens, spent, userLock, loginLock, epoch, rotated, loggedOut>>

\* ChangePassword, ResetPassword, SetUserRoles, SaveRole, RevokeAllSessions.
ChangeAccount(r) ==
  /\ req[r].at = "idle"
  /\ Becomes(r, [at |-> "change", disabled |-> user.disabled, signsOut |-> TRUE])
  /\ UNCHANGED <<user, login, tokens, spent, userLock, loginLock, epoch, rotated, loggedOut>>

\* auth_version + 1.
Bumped(v) == v + 1

Apply(r) ==
  /\ req[r].at = "apply"
  /\ IF req[r].signsOut
     THEN /\ MayRevoke(r, {}) /\ login' = RevokedBut({}) /\ epoch' = epoch + 1
          /\ user' = [ver |-> Bumped(user.ver), disabled |-> req[r].disabled]
     ELSE user' = [user EXCEPT !.disabled = req[r].disabled] /\ UNCHANGED <<login, epoch>>
  /\ Ends(r)
  /\ UNCHANGED <<tokens, spent, rotated, loggedOut>>

\* A transaction fails, or it waits for one that waits for it and the database
\* ends it.
Abort(r) ==
  /\ req[r].at # "idle" /\ Ends(r)
  /\ UNCHANGED <<user, login, tokens, spent, epoch, rotated, loggedOut>>

LoggedOutToken(l) == login

\* The session itself is revoked, whatever token it has by now.
LoggedOutLogin(l) == [login EXCEPT ![l].at = "revoked"]

\* Logout and RevokeSession wait for a refresh that holds the session.
Logout(l) ==
  /\ login[l].at = "live" /\ loginLock[l] = NoRequest
  /\ login' = LoggedOutLogin(l)
  /\ spent' = spent \union {login[l].jti} /\ loggedOut' = loggedOut \union {l}
  /\ UNCHANGED <<user, tokens, req, userLock, loginLock, epoch, rotated>>

\* CleanupExpired: a session whose tokens are past their time.
CleanupExpired(l) ==
  /\ login[l].at \in {"live", "revoked"} /\ loginLock[l] = NoRequest
  /\ login' = [login EXCEPT ![l].at = "expired"]
  /\ UNCHANGED <<user, tokens, spent, req, userLock, loginLock, epoch, rotated, loggedOut>>

Next ==
  \/ \E r \in Requests :
       \/ \E oidc \in BOOLEAN : ReadUser(r, oidc)
       \/ \E l \in Logins : CreateLogin(r, l)
       \/ \E t \in 1 .. MaxTokens : RefreshAsks(r, t)
       \/ RefreshLocks(r) \/ Sign(r) \/ LockUser(r) \/ TakeRoles(r) \/ Refuse(r)
       \/ \E answer \in {"sign", "changed", "refused"} : Provider(r, answer)
       \/ \E flag \in BOOLEAN : Update(r, flag)
       \/ ChangeAccount(r) \/ Apply(r) \/ Abort(r)
  \/ \E l \in Logins : Logout(l) \/ CleanupExpired(l)

Spec == Init /\ [][Next]_accessVars

---------------------------------------------------------------------------

\* Authenticate: the token against the rows of now.
Accepted(t) ==
  /\ t \notin spent /\ ~user.disabled /\ user.ver = tokens[t].ver
  /\ login[tokens[t].login].at = "live"

\* The variables keep the types of the rows and requests.
TypeOK ==
  /\ user.ver \in 1 .. MaxChanges + 1
  /\ \A l \in Logins : login[l].at \in {"none", "live", "revoked", "expired"} /\ login[l].jti \in 0 .. Len(tokens)
  /\ userLock \in Requests \union {NoRequest} /\ loginLock \in [Logins -> Requests \union {NoRequest}]

\* No token outlives a committed change of the account (password, roles,
\* disabling), not even one of a login or a refresh that ran beside it.
NoOldCredential == \A t \in DOMAIN tokens : Accepted(t) => tokens[t].epoch = epoch

\* "确保同一刷新令牌只能成功轮换一次" (service.go:202): a refresh token is
\* exchanged at most once, however many requests bring it at a time.
RotatedOnce == \A i, j \in DOMAIN rotated : i # j => rotated[i] # rotated[j]

\* What a refresh signed beside a logout is no way back in.
LogoutHolds == \A t \in DOMAIN tokens : tokens[t].login \in loggedOut => ~Accepted(t)
=============================================================================
