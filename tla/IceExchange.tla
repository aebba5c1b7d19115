------------------------------ MODULE IceExchange ------------------------------
(***************************************************************************)
(* The answer and the candidates of a browser for its peer connection:     *)
(* requests of their own, in any order, that look the peer up and lock its *)
(* candidates only then, while a new join may replace the peer.            *)
(***************************************************************************)
EXTENDS Naturals, FiniteSets

CONSTANTS
  MaxJoins,     \* bound: peers of the leg, one after the other
  Candidates,   \* candidates of the browser
  NoJoin

Joins == 1 .. MaxJoins

VARIABLES
  peer,     \* the peer of the leg
  open,     \* peers whose connection is open
  answered, \* peers with a remote description
  pendingICE, added, \* peer |-> candidates
  asked     \* requests that looked a peer up: [what, to]

iceVars == <<peer, open, answered, pendingICE, added, asked>>

Init ==
  /\ peer = NoJoin /\ open = {} /\ answered = {} /\ asked = {}
  /\ pendingICE = [p \in Joins |-> {}] /\ added = [p \in Joins |-> {}]

---------------------------------------------------------------------------

What == Candidates \union {"answer"}

\* JoinWebRTC: a later peer takes the place of the one before.
Join(p) ==
  /\ p \notin open /\ answered \union open \subseteq 1 .. p - 1
  /\ p = 1 \/ peer = p - 1
  /\ peer' = p /\ open' = open \union {p}
  /\ UNCHANGED <<answered, pendingICE, added, asked>>

\* A connection that was replaced, or whose leg left, is closed.
Close(p) ==
  /\ p \in open /\ p # peer /\ open' = open \ {p}
  /\ UNCHANGED <<peer, answered, pendingICE, added, asked>>

\* getPeer: the request of the browser finds the peer of the leg.
Ask(what) ==
  /\ peer # NoJoin
  /\ \A r \in asked : r.what # what
  /\ what \in Candidates => \A p \in Joins : what \notin pendingICE[p] \union added[p]
  /\ what = "answer" => peer \notin answered
  /\ asked' = asked \union {[what |-> what, to |-> peer]}
  /\ UNCHANGED <<peer, open, answered, pendingICE, added>>

\* AcceptAnswer: with the answer the candidates that came before it are added.
\* A closed connection refuses it.
AcceptAnswer(p) ==
  /\ [what |-> "answer", to |-> p] \in asked /\ asked' = asked \ {[what |-> "answer", to |-> p]}
  /\ IF p \notin open THEN UNCHANGED <<answered, pendingICE, added>>
     ELSE /\ answered' = answered \union {p}
          /\ added' = [added EXCEPT ![p] = @ \union pendingICE[p]]
          /\ pendingICE' = [pendingICE EXCEPT ![p] = {}]
  /\ UNCHANGED <<peer, open>>

\* TrickleICE: added, or kept until the answer.
TrickleICE(p, c) ==
  /\ [what |-> c, to |-> p] \in asked /\ asked' = asked \ {[what |-> c, to |-> p]}
  /\ IF p \in answered
       THEN added' = [added EXCEPT ![p] = @ \union {c}] /\ UNCHANGED pendingICE
       ELSE pendingICE' = [pendingICE EXCEPT ![p] = @ \union {c}] /\ UNCHANGED added
  /\ UNCHANGED <<peer, open, answered>>

Next ==
  \E p \in Joins :
    \/ Join(p) \/ Close(p) \/ AcceptAnswer(p)
    \/ \E c \in Candidates : TrickleICE(p, c)
    \/ \E what \in What : Ask(what)

Spec == Init /\ [][Next]_iceVars

---------------------------------------------------------------------------

\* The variables keep the types of the exchange.
TypeOK ==
  /\ peer \in Joins \union {NoJoin} /\ open \subseteq Joins /\ answered \subseteq Joins
  /\ pendingICE \in [Joins -> SUBSET Candidates] /\ added \in [Joins -> SUBSET Candidates]

\* A candidate that came before the answer of its peer is added with it: none
\* waits at a peer that has its answer, and none is lost on the way.
CandidatesAdded == \A p \in answered : pendingICE[p] = {}
=============================================================================
