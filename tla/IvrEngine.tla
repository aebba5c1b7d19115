------------------------------- MODULE IvrEngine -------------------------------
(***************************************************************************)
(* One call in an IVR flow.  A flow is a graph of nodes; the handlers that *)
(* move the call in it (a key, the tick, a result of the business system)  *)
(* run under the lock of the call, the callback of the media layer at the  *)
(* end of a prompt reads the node without it and jumps with it.            *)
(*                                                                         *)
(* A node that does not wait (a condition, tts, asr) jumps on at once: the *)
(* variable running says that the handler that entered the node has still  *)
(* to execute it, under the lock.                                          *)
(***************************************************************************)
EXTENDS Naturals, Sequences, FiniteSets

CONSTANTS
  Flow,       \* node |-> [type, next, default, invalid, choices]
  Start,      \* its first node
  Nowhere,    \* the empty node id
  MaxHops,    \* jumps in one flow (100)
  MaxTries    \* wrong keys in one menu (2)

VARIABLES
  state,      \* the state of the call
  ivr,        \* rt.ivr, or Off
  running,    \* the current node is still to be executed
  actions,    \* the rows of os_business_actions, a sequence
  playing,    \* a prompt that ends is playing
  finished,   \* the node read by the callback of the prompt, or Nowhere
  recorder,   \* the 25 s timer of a voicemail runs
  path        \* the last jump                                  (history)

ivrVars == <<state, ivr, running, actions, playing, finished, recorder, path>>

Nodes == DOMAIN Flow

Off == [node |-> Nowhere, hops |-> 0, tries |-> 0, action |-> 0, awaiting |-> FALSE]

\* Where a node may lead.
Targets(n) ==
  ({Flow[n].next, Flow[n].default, Flow[n].invalid} \union Flow[n].choices) \ {Nowhere}

\* validateIVR: the flows that can be published.
WellFormed(n) ==
  LET node == Flow[n] IN
  /\ Targets(n) \subseteq Nodes
  /\ node.type = "play" => node.next # Nowhere
  /\ node.type \in {"menu", "action"} => node.choices # {} /\ node.default # Nowhere
  /\ node.type = "condition" => node.choices # {}
  /\ node.type = "collect" => node.next # Nowhere /\ node.default # Nowhere
  /\ node.type = "tts" => node.default # Nowhere

Valid ==
  /\ Start \in Nodes /\ \A n \in Nodes : WellFormed(n)
  /\ \A S \in SUBSET Nodes :
       Start \in S /\ (\A n \in S : Targets(n) \subseteq S) => S = Nodes

Init ==
  /\ Valid
  /\ state = "created" /\ ivr = Off /\ running = FALSE
  /\ actions = <<>> /\ playing = FALSE /\ finished = Nowhere
  /\ recorder = FALSE /\ path = <<>>

---------------------------------------------------------------------------

Node == Flow[ivr.node]

\* The runtime of the flow is dropped with the call or when it leaves the flow.
Quit(s) ==
  /\ state' = s /\ ivr' = Off /\ running' = FALSE /\ playing' = FALSE

\* Hangup, from inside or outside of the flow.
HangUp == Quit("ended") /\ recorder' = FALSE /\ UNCHANGED <<actions, finished, path>>

\* enterQueue: its wait prompt loops.
EnterQueue == Quit("queued") /\ UNCHANGED <<actions, finished, recorder, path>>

GotoFreely(n) ==
  IF ivr.hops > MaxHops
    THEN Quit("ended") /\ recorder' = FALSE /\ UNCHANGED path
    ELSE /\ ivr' = [Off EXCEPT !.node = n, !.hops = ivr.hops + 1]
         /\ running' = TRUE /\ playing' = FALSE /\ path' = <<ivr.node, n>>
         /\ UNCHANGED <<state, recorder>>

\* gotoIVR: a flow without an exit is ended by the number of its jumps.
Goto(n) ==
  IF ivr.hops + 1 > MaxHops
    THEN Quit("ended") /\ recorder' = FALSE /\ UNCHANGED path
    ELSE /\ ivr' = [Off EXCEPT !.node = n, !.hops = ivr.hops + 1]
         /\ running' = TRUE /\ playing' = FALSE /\ path' = <<ivr.node, n>>
         /\ UNCHANGED <<state, recorder>>

\* startIVRPayload: the first node of an unanswered SIP call waits for its answer.
StartIVR ==
  /\ state = "created"
  /\ \E awaiting \in BOOLEAN :
       /\ ivr' = [Off EXCEPT !.node = Start, !.awaiting = awaiting]
       /\ running' = ~awaiting
  /\ state' = "ivr"
  /\ UNCHANGED <<actions, playing, finished, recorder, path>>

\* beginIVR
BeginIVR ==
  /\ ivr.awaiting
  /\ ivr' = [ivr EXCEPT !.awaiting = FALSE] /\ running' = TRUE
  /\ UNCHANGED <<state, actions, playing, finished, recorder, path>>

\* runIVRNode
PlayNode ==
  /\ Node.type \in {"play", "menu", "collect"}
  /\ \/ /\ running' = FALSE /\ playing' = (Node.type = "play")
        /\ UNCHANGED <<state, ivr, actions, finished, recorder, path>>
     \/ HangUp                                    \* the prompt cannot be injected

ActionNode ==
  /\ Node.type = "action"
  /\ \/ /\ actions' = Append(actions, "pending")
        /\ ivr' = [ivr EXCEPT !.action = Len(actions) + 1] /\ running' = FALSE
        /\ UNCHANGED <<state, playing, finished, recorder, path>>
     \/ HangUp                                    \* the row cannot be written

QueueNode == Node.type = "route_queue" /\ (EnterQueue \/ HangUp)

VoicemailNode ==
  /\ Node.type = "voicemail"
  /\ recorder' = TRUE /\ running' = FALSE
  /\ UNCHANGED <<state, ivr, actions, playing, finished, path>>

JumpNode ==
  /\ Node.type \in {"condition", "tts"}
  /\ \E n \in IF Node.type = "tts" THEN {Node.default} ELSE Node.choices : Goto(n)
  /\ UNCHANGED <<actions, finished>>

RunNode ==
  /\ running
  /\ \/ PlayNode \/ ActionNode \/ QueueNode \/ VoicemailNode \/ JumpNode
     \/ Node.type = "hangup" /\ HangUp

\* A handler that takes the lock of a call whose flow is on.
Handles == state = "ivr" /\ ivr # Off /\ ~running /\ ~ivr.awaiting

\* onDTMF
Key ==
  /\ Handles /\ Node.type \in {"menu", "collect"}
  /\ UNCHANGED <<actions, finished>>
  /\ \/ Node.type = "collect" /\ Goto(Node.next)
     \/ Node.type = "menu" /\ \E n \in Node.choices : Goto(n)

WrongKey ==
  LET target == IF Node.invalid # Nowhere THEN Node.invalid ELSE Node.default IN
  /\ Handles /\ Node.type = "menu" /\ ivr.tries <= MaxTries
  /\ UNCHANGED <<actions, finished>>
  /\ IF ivr.tries + 1 >= MaxTries /\ target # Nowhere
       THEN Goto(target)
       ELSE ivr' = [ivr EXCEPT !.tries = @ + 1]
            /\ UNCHANGED <<state, running, playing, recorder, path>>

\* updateBusinessAction: one outcome, under the lock of the row.
Settle(status) == actions' = [actions EXCEPT ![ivr.action] = status]

\* tickIVR after the time of the node: an action expires, then the default.
\* The time is that of the last node that set one; a voicemail sets none.
Tick ==
  LET next == IF Node.type = "play" THEN Node.next ELSE Node.default IN
  /\ Handles
  /\ IF Node.type = "action" THEN Settle("expired") ELSE UNCHANGED actions
  /\ UNCHANGED finished
  /\ IF next = Nowhere THEN Quit("queued") /\ UNCHANGED <<recorder, path>> ELSE Goto(next)

\* tickIVR after half an hour.
TotalTimeout == Handles /\ HangUp

\* CompleteBusinessAction for the action a: only the one the flow waits for.
Waits(a) == Handles /\ ivr.action = a

CompleteAction(a) ==
  /\ Waits(a) /\ actions[a] = "pending"
  /\ actions' = [actions EXCEPT ![a] = "completed"]
  /\ \E n \in Node.choices : Goto(n)
  /\ UNCHANGED finished

\* OnIVRPromptFinished, first half: the node is read under the mutex.
PromptFinished ==
  /\ playing /\ finished = Nowhere
  /\ playing' = FALSE
  /\ finished' = IF ivr # Off /\ ~ivr.awaiting /\ Node.type = "play" THEN Node.next ELSE Nowhere
  /\ UNCHANGED <<state, ivr, running, actions, recorder, path>>

PromptJumpBlind ==
  /\ finished # Nowhere /\ ~running
  /\ finished' = Nowhere /\ UNCHANGED actions /\ Goto(finished)

\* Second half: gotoIVR, after whatever held the lock in between.
PromptJump ==
  /\ finished # Nowhere /\ ~running
  /\ finished' = Nowhere /\ UNCHANGED actions
  /\ IF ivr = Off THEN UNCHANGED <<state, ivr, running, playing, recorder, path>>
                  ELSE Goto(finished)

\* The caller or an agent ends the call; the timer of the voicemail does.
Ends == state # "ended" /\ state # "created" /\ ~running /\ HangUp
RecorderEnds == recorder /\ ~running /\ HangUp

\* An agent takes the queued call; EnterIVR starts a flow again.
Answered ==
  /\ state = "queued" /\ state' = "active"
  /\ UNCHANGED <<ivr, running, actions, playing, finished, recorder, path>>
EnterIVR ==
  /\ state = "active" /\ Len(actions) < MaxHops
  /\ state' = "ivr" /\ ivr' = [Off EXCEPT !.node = Start] /\ running' = TRUE
  /\ UNCHANGED <<actions, playing, finished, recorder, path>>

Next ==
  \/ StartIVR \/ BeginIVR \/ RunNode \/ Key \/ WrongKey \/ Tick \/ TotalTimeout
  \/ \E a \in DOMAIN actions : CompleteAction(a)
  \/ PromptFinished \/ PromptJump \/ Ends \/ RecorderEnds \/ Answered \/ EnterIVR

Spec == Init /\ [][Next]_ivrVars

\* The tick comes every two seconds and a handler runs to its end.
Fairness == WF_ivrVars(Tick) /\ WF_ivrVars(RunNode)
FairSpec == Spec /\ Fairness

---------------------------------------------------------------------------

\* The variables keep the types of the runtime and of the table.
TypeOK ==
  /\ state \in {"created", "ivr", "queued", "active", "ended"}
  /\ ivr = Off \/ ivr.node \in Nodes
  /\ ivr.hops \in 0 .. MaxHops /\ ivr.tries \in 0 .. MaxTries + 1
  /\ ivr.action \in 0 .. Len(actions)
  /\ \A a \in DOMAIN actions : actions[a] \in {"pending", "completed", "expired"}
  /\ finished \in Nodes \union {Nowhere}

\* The end of a prompt is told without the lock of the call; by the time it has
\* the lock the call may be queued, answered or ended, and is not taken back.
NoJumpOutside == [][path' # path => state = "ivr"]_ivrVars

\* A result is taken once and only while the flow waits for it: the call moves
\* with it, and an action that expired or completed keeps its outcome.
ResultMovesCall ==
  [][\A a \in DOMAIN actions :
       /\ actions[a] # "pending" => actions'[a] = actions[a]
       /\ actions[a] = "pending" /\ actions'[a] = "completed" =>
            ivr' # ivr /\ (state' = "ended" \/ path' \in {<<ivr.node, n>> : n \in Node.choices})
     ]_ivrVars

\* Every caller whose call was answered leaves the flow, also from a flow
\* that leads back into itself: the hops end it.
FlowIsLeft == state = "ivr" /\ ~ivr.awaiting ~> state # "ivr"

\* features.go:673: a voicemail is recorded and ends the call after its time.
\* The tick moves the call on with the time of the node before it, into the
\* queue: this does not hold (README, Disagreements).
VoicemailEndsCall == [][recorder /\ state = "ivr" => state' \in {"ivr", "ended"}]_ivrVars
=============================================================================
