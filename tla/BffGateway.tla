------------------------------ MODULE BffGateway ------------------------------
(***************************************************************************)
(* The commands of agents on a call, which open-call passes on to the      *)
(* switch: it reads the call, checks that the agent has it and gives the   *)
(* command the version it has read.  The switch takes commands one at a    *)
(* time and trusts them, and the call moves on in the meantime.  Some      *)
(* commands lose the version on their way.                                 *)
(***************************************************************************)
EXTENDS Naturals

CONSTANTS
  Agents, NoAgent, Requests,
  MaxMoves  \* bound: versions of the call that a step still starts from

VARIABLES
  call,      \* in the switch: see Init
  request,   \* request |-> [at, agent, op, read, expected]
  displaced  \* the agents who lost the call within its version (history)

bffVars == <<call, request, displaced>>

Ops == {"answer", "decline", "hangup", "hold", "transfer", "complete", "conference", "video", "dtmf"}
Out == [at |-> "out", agent |-> NoAgent, op |-> "hold", read |-> 0, expected |-> 0]

Init ==
  /\ call = [state |-> "queued", version |-> 1,
             offered |-> NoAgent, \* offeredAgent
             active |-> NoAgent,  \* activeAgent, the last to answer
             consult |-> NoAgent, \* consultFrom
             legs |-> {},         \* the agents with a leg
             taken |-> {}]        \* the agents that ring or talk for the call
  /\ request = [r \in Requests |-> Out]
  /\ displaced = {}

More == call.version < MaxMoves

\* ownsCall: the call is offered to the agent or the agent has a leg in it,
\* also one that a transfer to a queue has left there.
HasCall(c, a) == c.offered = a \/ a \in c.legs
Owns(a) == HasCall(call, a)

\* transition, n times: the versions of the call.
Moved(c, n) == call' = [c EXCEPT !.version = call.version + n] /\ displaced' = {}

\* A change that makes no new version.
Within(c) ==
  /\ call' = c
  /\ displaced' = displaced \union {a \in Agents : Owns(a) /\ ~HasCall(c, a)}

---------------------------------------------------------------------------
(* open-call. *)

\* isSwitchWrite, without the commands that prepareSwitchRequest has already
\* returned for: those name the agent or its leg instead.
Versioned(op) == op \in {"hangup", "hold", "transfer", "complete", "conference", "video"}

\* applyMutation is called for these only: the version of the others stays
\* behind in the request that open-call has got.
Carried(op) == op \in {"hangup", "hold", "transfer"}

Read(op) == IF Versioned(op) THEN call.version ELSE 0

NotInjected(op) == 0
Injected(op) == IF Carried(op) THEN Read(op) ELSE 0

\* prepareSwitchRequest, over the view it reads.
Prepare(r, a, op) ==
  /\ request[r].at = "out" /\ Owns(a)
  /\ request' = [request EXCEPT ![r] =
       [at |-> "sent", agent |-> a, op |-> op, read |-> Read(op), expected |-> Injected(op)]]
  /\ UNCHANGED <<call, displaced>>

\* A request or its answer is lost.
Lost(r) ==
  /\ request[r].at = "sent" /\ request' = [request EXCEPT ![r] = Out]
  /\ UNCHANGED <<call, displaced>>

---------------------------------------------------------------------------
(* The switch, under the lock of the call. *)

Free == Agents \ call.taken

Ringing(c, b) == [c EXCEPT !.state = "ringing", !.offered = b, !.taken = @ \union {b}]

\* tryDispatch, n versions later: an agent rings, or its device refuses, which
\* leaves it named.
Dispatched(c, n) ==
  \E b \in Free : \/ Moved(Ringing(c, b), n + 1)
                 \/ Moved([c EXCEPT !.state = "queued", !.offered = b], n + 2)

\* The call waits, and an agent may be free.
Queued(c, n) == Moved([c EXCEPT !.state = "queued"], n) \/ Dispatched(c, n)

\* doDecline and the ring timeout of the tick: the agent is let go, and a
\* consultation goes back to the one who asked for it.
Unanswered ==
  LET c == [call EXCEPT !.offered = NoAgent, !.taken = @ \ {call.offered}] IN
  IF call.consult # NoAgent THEN Moved([c EXCEPT !.state = "active", !.consult = NoAgent], 1) ELSE Queued(c, 1)

Answer(a) ==
  Moved([call EXCEPT !.state = IF call.consult \notin {NoAgent, a} THEN "held" ELSE "active",
                     !.legs = @ \union {a}, !.active = a, !.offered = NoAgent], 1)

\* currentAgent, of a call that talks.
Current == IF call.active # NoAgent THEN call.active ELSE call.offered

\* doTransfer: blind, to consult, and to a queue.
Transfer ==
  LET left == [call EXCEPT !.taken = @ \ {Current}, !.consult = NoAgent] IN
  \/ \E b \in Free : \/ Moved(Ringing([left EXCEPT !.legs = @ \ {Current}], b), 1)
                     \/ Moved(Ringing([call EXCEPT !.consult = Current], b), 2)
  \/ Queued([left EXCEPT !.offered = NoAgent], 1)

\* completeConsult, whether the target has answered or still rings.
Complete ==
  Moved([call EXCEPT !.state = "active", !.consult = NoAgent,
                     !.legs = @ \ {call.consult}, !.taken = @ \ {call.consult}], 1)

Ended == [call EXCEPT !.state = "ended", !.offered = NoAgent, !.taken = {}]

\* guardExpectedVersion, in the commands that get a version.
GuardPasses(r) == request[r].expected = 0 \/ request[r].expected = call.version

\* What the handlers themselves refuse.
Accepts(op, a) ==
  CASE op = "answer" -> call.state \in {"ringing", "active"} /\ call.offered = a
    [] op = "decline" -> call.state = "ringing" /\ call.offered = a
    [] op \in {"hold", "transfer"} -> call.state \in {"active", "held"}
    [] op = "complete" -> call.consult # NoAgent /\ call.state # "ended"
    [] op = "conference" -> call.state = "active" /\ Free # {}
    [] op = "dtmf" -> call.state # "ended" /\ a \in call.legs
    [] OTHER -> call.state # "ended"

\* What the handlers do.  Accepting video changes the kind of the session, a
\* key goes to the media; an invitation makes no new version.
Effect(op, a) ==
  CASE op = "answer" -> Answer(a)
    [] op = "decline" -> Unanswered
    [] op = "hangup" -> Moved(Ended, 1)
    [] op = "hold" -> \E s \in {"active", "held"} : Moved([call EXCEPT !.state = s], 1)
    [] op = "transfer" -> Transfer
    [] op = "complete" -> Complete
    [] op = "conference" -> \E b \in Free : Within([Ringing(call, b) EXCEPT !.state = "active"])
    [] op = "video" -> Moved(call, 1)
    [] OTHER -> UNCHANGED <<call, displaced>>

\* serveSwitchBFF and the handler of the switch.
Execute(r) ==
  /\ request[r].at = "sent" /\ More
  /\ IF GuardPasses(r) /\ Accepts(request[r].op, request[r].agent)
     THEN Effect(request[r].op, request[r].agent) ELSE UNCHANGED <<call, displaced>>
  /\ request' = [request EXCEPT ![r] = Out]

\* Another agent's command, read and taken with nothing in between: what makes
\* the call move on while the requests are on their way.
Commanded ==
  /\ More
  /\ \E a \in Agents, op \in Ops : Owns(a) /\ Accepts(op, a) /\ Effect(op, a)
  /\ UNCHANGED request

\* The switch by itself: the tick offers the call and withdraws an offer, a
\* telephone refuses one, the call enters a flow and the flow a queue, and the
\* call ends.
Offer == call.state = "queued" /\ Dispatched(call, 0)
Withdraw == call.state = "ringing" /\ Unanswered
DeviceFails ==
  LET c == [call EXCEPT !.offered = NoAgent, !.taken = @ \ {call.offered}] IN
  /\ call.state = "ringing"
  /\ IF call.consult # NoAgent
     THEN Moved([c EXCEPT !.state = "active", !.active = call.consult, !.consult = NoAgent], 1)
     ELSE Moved([c EXCEPT !.state = "queued"], 1)
EnterIVR ==
  /\ call.state \in {"active", "held"}
  /\ Moved([call EXCEPT !.state = "ivr", !.active = NoAgent, !.offered = NoAgent, !.legs = {}, !.taken = @ \ call.legs], 1)
LeaveIVR == call.state = "ivr" /\ Queued(call, 1)
Ends == call.state # "ended" /\ Moved(Ended, 1)

Moves ==
  /\ More
  /\ Offer \/ Withdraw \/ DeviceFails \/ EnterIVR \/ LeaveIVR \/ Ends
  /\ UNCHANGED request

\* A supervisor joins, a leg is removed (RejectLeg, or an EnterIVR that stops
\* between two legs), or an offer is withdrawn and the new version not stored.
Shifts ==
  /\ More
  /\ \/ \E a \in Agents : /\ call.state \in {"active", "held"}
                          /\ Within([call EXCEPT !.legs = @ \union {a}])
     \/ \E a \in call.legs : Within([call EXCEPT !.legs = @ \ {a}])
     \/ call.state = "ringing" /\ Within([call EXCEPT !.offered = NoAgent, !.taken = @ \ {call.offered}])
  /\ UNCHANGED request

Next ==
  \/ \E r \in Requests : Execute(r) \/ Lost(r) \/ \E a \in Agents, op \in Ops : Prepare(r, a, op)
  \/ Commanded \/ Moves \/ Shifts

Spec == Init /\ [][Next]_bffVars

---------------------------------------------------------------------------

\* The variables keep the types of the call view and of the requests.
TypeOK ==
  /\ call.state \in {"queued", "ringing", "active", "held", "ivr", "ended"}
  /\ {call.offered, call.active, call.consult} \subseteq Agents \union {NoAgent}
  /\ call.legs \subseteq Agents /\ call.taken \subseteq Agents /\ call.version \in Nat \ {0}
  /\ displaced \subseteq Agents
  /\ \A r \in Requests : request[r].at \in {"out", "sent"} /\ request[r].op \in Ops
                         /\ request[r].expected \in {0, request[r].read}

\* The command r changes the call.
Applied(r) == request[r].at = "sent" /\ request'[r] = Out /\ call' # call

\* A command that reaches the switch with a version takes effect for an agent
\* who has the call, though the call has moved on between the check of open-call
\* and the command (bff_trusted.go prepareSwitchRequest, version_guard.go), but
\* for one who lost it without a new version; an answer or a refusal takes effect
\* for the one the call is offered to.  Commands whose version is left behind
\* promise neither.
OnlyItsOwnCall ==
  [][\A r \in Requests : Applied(r) =>
       \/ Owns(request[r].agent)
       \/ Versioned(request[r].op) /\ (Carried(request[r].op) => request[r].agent \in displaced)]_bffVars

\* open-switch对接说明.md:57: a change whose expected_version is not the version
\* of the call is refused.  open-call puts one into the body of each write, and
\* CompleteTransfer, ConferenceInvite, RespondVideo and DowngradeVideo of its
\* client send none.
StaleIsRefused ==
  [][\A r \in Requests : Applied(r) => request[r].read \in {0, call.version}]_bffVars
=============================================================================
