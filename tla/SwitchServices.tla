----------------------------- MODULE SwitchServices -----------------------------
(***************************************************************************)
(* The services of the switch beside call control, in one run: the record  *)
(* of commands, the delivery of events, the IVR engine and the calls that  *)
(* an application controls.  The modules share no variable, so a behaviour *)
(* belongs to one of them: turn, chosen in the initial state, and the      *)
(* variables of the others keep their initial values.                      *)
(***************************************************************************)
EXTENDS CommandStore, FiniteSets

CONSTANTS
  Parts,
  EvCalls, EvTypes, MaxEvents, MaxAttempts, MaxFailures, MaxFaults,
  n1, n2, n3, n4, n5, n6, n7, n8, Nowhere, MaxHops, MaxTries,
  DialKeys, Destinations, NoDestination, WebLegs, Playbacks, MaxDials

FlowNodes == {n1, n2, n3, n4, n5, n6, n7, n8}

ASSUME ServicesAssumption ==
  /\ MaxEvents \in Nat /\ MaxAttempts \in Nat \ {0}
  /\ MaxHops \in Nat /\ MaxTries \in Nat
  /\ Nowhere \notin FlowNodes
  /\ MaxVersion \in Nat \ {0} /\ MaxSent \in Nat

VARIABLES
  turn,
  log, tech, deliveries, batch, post, inbox, failures, dead, outbox, proj, hub, faults,
  state, ivr, running, actions, playing, finished, recorder, path,
  call, legs, hashes, commands, dialing, sip, playbacks, played, callbacks, reports, outs, dials

\* A flow with every type of node the engine tells apart, and a cycle.
N(type, next, default, invalid, choices) ==
  [type |-> type, next |-> next, default |-> default, invalid |-> invalid, choices |-> choices]

Start == n1
Flow == [n \in FlowNodes |->
  CASE n = n1 -> N("play", n2, Nowhere, Nowhere, {})
    [] n = n2 -> N("menu", Nowhere, n1, n5, {n3, n6})
    [] n = n3 -> N("action", Nowhere, n4, Nowhere, {n2, n4})
    [] n = n4 -> N("condition", Nowhere, Nowhere, Nowhere, {n5, n7})
    [] n = n5 -> N("route_queue", Nowhere, Nowhere, Nowhere, {})
    [] n = n6 -> N("collect", n8, n2, Nowhere, {})
    [] n = n7 -> N("voicemail", Nowhere, Nowhere, Nowhere, {})
    [] n = n8 -> N("tts", Nowhere, n4, Nowhere, {})]

Events == INSTANCE EventDelivery
Engine == INSTANCE IvrEngine
Direct == INSTANCE DirectControl

eventVars == <<log, tech, deliveries, batch, post, inbox, failures, dead, outbox, proj, hub, faults>>
engineVars == <<state, ivr, running, actions, playing, finished, recorder, path>>
directVars == <<call, legs, hashes, commands, dialing, sip, playbacks, played, callbacks,
                reports, outs, dials>>
vars == <<turn, cmdVars, eventVars, engineVars, directVars>>

ServicesInit ==
  /\ turn \in Parts
  /\ Init /\ Events!Init /\ Engine!Init /\ Direct!Init

CommandStep == turn = "commands" /\ Next /\ UNCHANGED <<turn, eventVars, engineVars, directVars>>
EventStep == turn = "events" /\ Events!Next /\ UNCHANGED <<turn, cmdVars, engineVars, directVars>>
EngineStep == turn = "ivr" /\ Engine!Next /\ UNCHANGED <<turn, cmdVars, eventVars, directVars>>
DirectStep == turn = "direct" /\ Direct!Next /\ UNCHANGED <<turn, cmdVars, eventVars, engineVars>>

ServicesNext == CommandStep \/ EventStep \/ EngineStep \/ DirectStep

\* The fair actions are disabled in the initial state of a service, so the
\* fairness of the services that do not move is vacuous.
ServicesSpec ==
  /\ ServicesInit /\ [][ServicesNext]_vars
  /\ Events!Fairness /\ Engine!Fairness /\ Direct!Fairness

---------------------------------------------------------------------------

(* AtMostOnce is the property of CommandStore.                             *)

\* The variables of the four modules keep their types.
TypesOK == TypeOK /\ Events!TypeOK /\ Engine!TypeOK /\ Direct!TypeOK

\* What a client is told of a command is true and stays so: a recorded success
\* took effect on the call of the row, through races, crashes and restarts, and
\* no settled outcome is rewritten (command_idempotency.go, Complete).
AnswersAreTrue == []SuccessIsTrue /\ OutcomeStays

\* No event is lost or told too early between the switch, the intake of
\* open-call and the browsers, whatever fails between two statements
\* (dispatcher.go, switch_events.go).
EventsAreKept == Events!AckMeansStored /\ Events!HubHearsStored

\* A recording's row is the gravest of its events, in whatever order they come
\* (recmeta/service.go).
RecordingIsGravest == Events!RecordingIsGravest

\* A caller moves in a flow one node at a time and only while the call is in
\* it: a prompt that ends late jumps nowhere, and the result of an action is
\* taken once (ivr.go, business_actions.go).
MovesInFlow == Engine!NoJumpOutside /\ Engine!ResultMovesCall

\* A key dials one telephone once, an answer after the end of the call leaves
\* nobody connected, and the end of a playback is told once although a stop,
\* the mixer and the end of the room race for it (direct.go, leg_controls.go).
DialsAreTrue == Direct!DialledOnce /\ Direct!LateAnswerLeaves /\ Direct!PlaybackToldOnce

\* What was begun comes to an end: a published event is delivered or given up
\* and a stored one reaches the browsers, a caller leaves the flow, a dial
\* settles its command and a playback is over.
ServicesSettle ==
  /\ Events!EventSettles /\ Events!StoredIsHeard
  /\ Engine!FlowIsLeft
  /\ Direct!DialSettles /\ Direct!PlaybackEnded
=============================================================================
