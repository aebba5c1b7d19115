------------------------------ MODULE SingleSignOn ------------------------------
(***************************************************************************)
(* Sign-in of open-call through an identity provider.  A browser is sent   *)
(* off with a state; the provider sends it back, perhaps twice; the        *)
(* callback consumes the state, finds or makes the account of the external *)
(* identity, gives it the roles its groups map to and leaves a ticket that *)
(* the browser exchanges for a session.  Every statement of the database   *)
(* is a step; only NewOIDCUser, SetUserRoles and the changes of identities *)
(* are transactions.  The provider is outside: it names the identity.      *)
(***************************************************************************)
EXTENDS Naturals, Sequences

CONSTANTS
  States,    \* sign-ins that were started
  Callbacks, \* requests of the callback in flight
  Subjects,  \* external identities
  Names,     \* login names, with the number of the employee
  Accounts,  \* rows of users; Local is one an administrator made
  Local,
  NoName,
  MaxBinds   \* bound: identities bound and unbound by an administrator

VARIABLES
  flow,      \* state |-> "none", "open" or "gone"
  callback,  \* callback |-> what it does
  name,      \* account |-> its name, NoName: there is no such row
  identity,  \* pairs of a subject and its account
  ticket,    \* state |-> [at, subject, account]
  signedIn,  \* the sessions made: [state, subject, account], each time
  everBound, \* the pairs identity has held        (history)
  binds

ssoVars == <<flow, callback, name, identity, ticket, signedIn, everBound, binds>>

Idle == [at |-> "idle"]
NoTicket == [at |-> "none"]

Init ==
  /\ flow = [f \in States |-> "none"]
  /\ callback = [c \in Callbacks |-> Idle]
  /\ \E n \in Names : name = [a \in Accounts |-> IF a = Local THEN n ELSE NoName]
  /\ identity = {} /\ everBound = {}
  /\ ticket = [f \in States |-> NoTicket]
  /\ signedIn = <<>> /\ binds = 0

---------------------------------------------------------------------------

\* Start: the state, the nonce and the verifier are stored.
Start(f) ==
  /\ flow[f] = "none" /\ flow' = [flow EXCEPT ![f] = "open"]
  /\ UNCHANGED <<callback, name, identity, ticket, signedIn, everBound, binds>>

\* DELETE ... RETURNING: a state serves one callback.
Consumed(f) == "gone"

\* What claims takes from the identity token, which is checked against the
\* nonce of the state, and from the provider's page on the user.
Claims == [s : Subjects, n : Names]

\* The callback takes the row of the state.  It ends there when the state is
\* past its time, or when the provider gives no token, no groups or none that
\* map to a role.
TakeFlow(c, f) ==
  /\ callback[c].at = "idle" /\ flow[f] = "open"
  /\ flow' = [flow EXCEPT ![f] = Consumed(f)]
  /\ \/ \E x \in Claims : callback' = [callback EXCEPT ![c] = [at |-> "claims", f |-> f, s |-> x.s, n |-> x.n]]
     \/ UNCHANGED callback
  /\ UNCHANGED <<name, identity, ticket, signedIn, everBound, binds>>

Ends(c) == callback' = [callback EXCEPT ![c] = Idle]

BoundTo(s, a) == <<s, a>> \in identity

FoundByName(s, n, a) == name[a] = n

\* NewOIDCUser finds the account by the identity and by nothing else.
Found(s, n, a) == BoundTo(s, a)

FindUser(c) ==
  LET s == callback[c].s
      n == callback[c].n
      found == {a \in Accounts : Found(s, n, a)} IN
  /\ callback[c].at = "claims"
  /\ IF found # {}
     THEN \E a \in found :
            callback' = [callback EXCEPT ![c] = [at |-> "account", f |-> @.f, s |-> s, a |-> a]]
     ELSE IF \E a \in Accounts : name[a] = n
     THEN Ends(c)  \* a conflict: an administrator has to bind it
     ELSE callback' = [callback EXCEPT ![c].at = "new"]
  /\ UNCHANGED <<flow, name, identity, ticket, signedIn, everBound, binds>>

\* What the unique keys of the tables refuse.
Free(s, n) == \A a \in Accounts : name[a] # n /\ ~BoundTo(s, a)

\* NewOIDCUser inserts the account and the identity and commits, or neither.
CreateUser(c) ==
  LET s == callback[c].s
      n == callback[c].n IN
  /\ callback[c].at = "new"
  /\ IF Free(s, n)
     THEN \E a \in Accounts :
            /\ name[a] = NoName /\ name' = [name EXCEPT ![a] = n]
            /\ identity' = identity \union {<<s, a>>} /\ everBound' = everBound \union {<<s, a>>}
            /\ callback' = [callback EXCEPT ![c] = [at |-> "account", f |-> @.f, s |-> s, a |-> a]]
     ELSE Ends(c) /\ UNCHANGED <<name, identity, everBound>>
  /\ UNCHANGED <<flow, ticket, signedIn, binds>>

\* The account is disabled, is the emergency administrator's, or its roles
\* cannot be written: the sign-in ends.
Refuse(c) ==
  /\ callback[c].at = "account" /\ Ends(c)
  /\ UNCHANGED <<flow, name, identity, ticket, signedIn, everBound, binds>>

\* The ticket is inserted: it names the account.
GiveTicket(c) ==
  LET r == callback[c] IN
  /\ r.at = "account" /\ Ends(c)
  /\ ticket' = [ticket EXCEPT ![r.f] = [at |-> "open", s |-> r.s, a |-> r.a]]
  /\ UNCHANGED <<flow, name, identity, signedIn, everBound, binds>>

\* Exchange: a ticket serves one request; a session is made for the account,
\* unless the ticket is past its time.
Exchange(f) ==
  /\ ticket[f].at = "open"
  /\ ticket' = [ticket EXCEPT ![f] = NoTicket]
  /\ \/ signedIn' = Append(signedIn, [state |-> f, subject |-> ticket[f].s, account |-> ticket[f].a])
     \/ UNCHANGED signedIn
  /\ UNCHANGED <<flow, callback, name, identity, everBound, binds>>

---------------------------------------------------------------------------

\* BindIdentity: an identity has one account and an account one identity of
\* the provider.
BindIdentity(a, s) ==
  /\ name[a] # NoName /\ binds < MaxBinds
  /\ ~\E p \in identity : p[1] = s \/ p[2] = a
  /\ identity' = identity \union {<<s, a>>} /\ everBound' = everBound \union {<<s, a>>}
  /\ binds' = binds + 1
  /\ UNCHANGED <<flow, callback, name, ticket, signedIn>>

DeleteIdentity(a, s) ==
  /\ BoundTo(s, a) /\ binds < MaxBinds
  /\ identity' = identity \ {<<s, a>>} /\ binds' = binds + 1
  /\ UNCHANGED <<flow, callback, name, ticket, signedIn, everBound>>

Next ==
  \/ \E f \in States : Start(f) \/ Exchange(f)
  \/ \E c \in Callbacks : (\E f \in States : TakeFlow(c, f)) \/ FindUser(c) \/ CreateUser(c)
                            \/ Refuse(c) \/ GiveTicket(c)
  \/ \E a \in Accounts, s \in Subjects : BindIdentity(a, s) \/ DeleteIdentity(a, s)

Spec == Init /\ [][Next]_ssoVars

---------------------------------------------------------------------------

\* The variables keep the types of the rows and requests.
TypeOK ==
  /\ flow \in [States -> {"none", "open", "gone"}]
  /\ identity \subseteq Subjects \X Accounts /\ everBound \subseteq Subjects \X Accounts
  /\ \A c \in Callbacks : callback[c].at \in {"idle", "claims", "new", "account"}
  /\ binds \in 0 .. MaxBinds

\* However many first sign-ins of one person run at a time: no two accounts
\* have one name, no identity two accounts.
OneAccount ==
  /\ \A a, b \in Accounts : a # b /\ name[a] # NoName => name[a] # name[b]
  /\ \A p, q \in identity : p[1] = q[1] => p = q

\* "原子消费登录状态" (service.go:111): one sign-in at the provider makes one
\* session, however often the browser is sent back and the ticket brought.
SignedInOnce == \A i, j \in DOMAIN signedIn : i # j => signedIn[i].state # signedIn[j].state

\* "仅在稳定外部身份尚未绑定时创建用户" (authz/service.go:299): nobody comes
\* into an account that was never theirs, whatever names the provider gives.
OnlyOwnAccount == \A i \in DOMAIN signedIn : <<signedIn[i].subject, signedIn[i].account>> \in everBound
=============================================================================
