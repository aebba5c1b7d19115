------------------------------ MODULE GuestEntry ------------------------------
(***************************************************************************)
(* Guests of open-call: a token is issued for a queue, and whoever brings  *)
(* it is put into the call it started, until it expires.  The switch       *)
(* starts the call while the row of the token is locked.                   *)
(***************************************************************************)
EXTENDS Naturals

CONSTANTS
  Tokens, Visitors,
  NoVisitor,
  MaxCalls     \* bound: calls the switch starts

VARIABLES
  pass,     \* token |-> [at, call]: its row, call 0: not used yet
  holder,   \* token |-> the visitor whose transaction holds the row
  visit,    \* visitor |-> [at, token, call]
  started,  \* calls started by the switch
  landed    \* token |-> calls visitors were put into        (history)

guestVars == <<pass, holder, visit, started, landed>>

Away == [at |-> "away"]

Init ==
  /\ pass = [t \in Tokens |-> [at |-> "none", call |-> 0]]
  /\ holder = [t \in Tokens |-> NoVisitor]
  /\ visit = [v \in Visitors |-> Away]
  /\ started = 0
  /\ landed = [t \in Tokens |-> {}]

\* CreateSession: an agent hands out a token.
CreateSession(t) ==
  /\ pass[t].at = "none" /\ pass' = [pass EXCEPT ![t].at = "issued"]
  /\ UNCHANGED <<holder, visit, started, landed>>

\* The token is past its time; Cleanup deletes the row a day later.
Expires(t) ==
  /\ pass[t].at = "issued" /\ pass' = [pass EXCEPT ![t].at = "expired"]
  /\ UNCHANGED <<holder, visit, started, landed>>

NotLocked(t) == TRUE

\* The row is locked for the whole of a join.
Unlocked(t) == holder[t] = NoVisitor

\* JoinByToken: a used token leads to its call, a new one asks for a call.
JoinByToken(v, t) ==
  /\ visit[v].at = "away" /\ pass[t].at = "issued" /\ Unlocked(t)
  /\ IF pass[t].call # 0
     THEN /\ landed' = [landed EXCEPT ![t] = @ \union {pass[t].call}]
          /\ UNCHANGED <<holder, visit>>
     ELSE /\ holder' = [holder EXCEPT ![t] = v]
          /\ visit' = [visit EXCEPT ![v] = [at |-> "start", token |-> t]]
          /\ UNCHANGED landed
  /\ UNCHANGED <<pass, started>>

Released(v, t) == [holder EXCEPT ![t] = IF @ = v THEN NoVisitor ELSE @]

\* The switch starts the call and answers.
Starts(v) ==
  /\ visit[v].at = "start" /\ started < MaxCalls
  /\ started' = started + 1
  /\ visit' = [visit EXCEPT ![v] = [at |-> "commit", token |-> visit[v].token, call |-> started + 1]]
  /\ UNCHANGED <<pass, holder, landed>>

\* It refuses, or starts the call and is not heard: the transaction is undone.
StartFails(v) ==
  /\ visit[v].at = "start"
  /\ started' \in {started, started + 1} /\ started' <= MaxCalls
  /\ holder' = Released(v, visit[v].token) /\ visit' = [visit EXCEPT ![v] = Away]
  /\ UNCHANGED <<pass, landed>>

\* The token is used; the visitor lands in the call.
Commits(v) ==
  LET t == visit[v].token IN
  /\ visit[v].at = "commit"
  /\ pass' = [pass EXCEPT ![t].call = visit[v].call]
  /\ landed' = [landed EXCEPT ![t] = @ \union {visit[v].call}]
  /\ holder' = Released(v, t) /\ visit' = [visit EXCEPT ![v] = Away]
  /\ UNCHANGED started

CommitFails(v) ==
  /\ visit[v].at = "commit"
  /\ holder' = Released(v, visit[v].token) /\ visit' = [visit EXCEPT ![v] = Away]
  /\ UNCHANGED <<pass, started, landed>>

Next ==
  \/ \E t \in Tokens : CreateSession(t) \/ Expires(t)
  \/ \E v \in Visitors :
       \/ \E t \in Tokens : JoinByToken(v, t)
       \/ Starts(v) \/ StartFails(v) \/ Commits(v) \/ CommitFails(v)

Spec == Init /\ [][Next]_guestVars

---------------------------------------------------------------------------

\* The variables keep the types of the tokens and visits.
TypeOK ==
  /\ \A t \in Tokens : pass[t].at \in {"none", "issued", "expired"} /\ pass[t].call \in 0 .. started
  /\ \A v \in Visitors : visit[v].at \in {"away", "start", "commit"}
  /\ holder \in [Tokens -> Visitors \union {NoVisitor}]

\* Everyone who joins with a token, at once or one after another, is put into
\* the same call, though a join that failed may have started another one.
SameCall == \A t \in Tokens : \A c, d \in landed[t] : c = d
=============================================================================
