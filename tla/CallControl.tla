------------------------------ MODULE CallControl ------------------------------
(***************************************************************************)
(* The life of a call in open-switch/internal/layers/control: inbound      *)
(* calls, the ACD dispatch, agent and carrier dialling, the operators'     *)
(* commands, the periodic tick, the goroutines that wait for a SIP dial,   *)
(* a crash and the recovery.                                               *)
(*                                                                         *)
(* Every handler of one call runs under that call's command lock           *)
(* (commands.go), so a handler is ONE action, with the exception of the    *)
(* dispatch: a handler that ends in tryDispatch puts the call into         *)
(* dispatching and keeps the lock; each round of tryDispatch is an action  *)
(* of its own, between which other calls and the agents act.  Operations   *)
(* of different calls, agent requests and dial results interleave freely.  *)
(***************************************************************************)
EXTENDS SessionStore, Lists, Naturals, Sequences, Functions

CONSTANTS NoAgent, NoQueue, NoLeg,
          SipAgents,   \* the agents with terminal_type "sip"
          Queues,
          Members,     \* the agents of each queue
          OverflowTo,  \* overflow_queue_id, or NoQueue: hang up
          Legs,        \* ids for SIP offers, bounds the outstanding dials
          MaxLegs,     \* bound on the agent legs of a call
          Commands,    \* what the operators of this instance do
          Faults       \* what fails in this instance

AllCommands == {"hold", "blind", "consult", "complete", "queue", "conference",
                "ivr", "outbound", "presence", "overlap"}
AllFaults   == {"unregistered", "room", "recording", "crash"}

ASSUME CallAssumption ==
  /\ NoAgent \notin Agents /\ NoQueue \notin Queues /\ NoLeg \notin Legs
  /\ SipAgents \subseteq Agents
  /\ Members \in [Queues -> SUBSET Agents]
  /\ OverflowTo \in [Queues -> Queues \cup {NoQueue}]
  /\ MaxLegs \in Nat \ {0}
  /\ Commands \subseteq AllCommands /\ Faults \subseteq AllFaults

VARIABLES registered,   \* SIP devices the registrar knows (lookupReg)
          mem,          \* Service.calls: the runtimeCall of each call
          db,           \* os_calls, as the last transition wrote it
          session,      \* os_agent_sessions
          dials,        \* goroutines waiting for OriginateSIP
          dispatching,  \* calls whose handler is inside tryDispatch
          phase         \* "up", or "recovering" before the listeners start

vars == <<registered, mem, db, session, dials, dispatching, phase>>

Live    == {"created", "queued", "ringing", "active", "held", "ivr"}
Talking == {"active", "held"}
Kinds   == {"inbound", "internal", "pstn"}

\* One entry of Service.calls.  state "none" is a missing entry.
RuntimeCall ==
  [state : Live \cup {"none"}, kind : Kinds, queue : Queues \cup {NoQueue},
   offered : Agents \cup {NoAgent},   \* offeredAgent
   active  : Agents \cup {NoAgent},   \* activeAgent
   consult : Agents \cup {NoAgent},   \* consultFrom
   legs : Seq(Agents),                \* the agents' legs
   sipLeg : Legs \cup {NoLeg},        \* sipOfferLeg
   sipCancel : BOOLEAN,               \* sipOfferCancel # nil
   answered : BOOLEAN]                \* answeredAt # nil

Fresh(kind, q) ==
  [state |-> "created", kind |-> kind, queue |-> q, offered |-> NoAgent,
   active |-> NoAgent, consult |-> NoAgent, legs |-> <<>>, sipLeg |-> NoLeg,
   sipCancel |-> FALSE, answered |-> FALSE]

Gone == [Fresh("inbound", NoQueue) EXCEPT !.state = "none"]

CallRecord ==
  [state : Live \cup {"none", "ended"}, agent : Agents \cup {NoAgent},
   offered : Agents \cup {NoAgent}, answered : BOOLEAN]

Row(m) == [state |-> m.state, agent |-> m.active, offered |-> m.offered,
           answered |-> m.answered]

Dial == [call : Calls, agent : Agents \cup {NoAgent}, leg : Legs \cup {NoLeg}]

\* The calls setState takes for stale: missing or ended in os_calls.
Over == {c \in Calls : db[c].state \in {"none", "ended"}}

Parties(m) == {m.active, m.offered} \cup Range(m.legs)

TypeOK ==
  /\ mem \in [Calls -> RuntimeCall]
  /\ \A c \in Calls : Len(mem[c].legs) <= MaxLegs
  /\ db \in [Calls -> CallRecord]
  /\ session \in [Agents -> Session]
  /\ dials \subseteq Dial
  /\ dispatching \subseteq {c \in Calls : mem[c].state = "queued"}
  /\ phase \in {"up", "recovering"}
  /\ registered \subseteq SipAgents

Init ==
  /\ registered = SipAgents
  /\ mem = [c \in Calls |-> Gone]
  /\ db = [c \in Calls |-> Row(Gone)]
  /\ session = [a \in Agents |-> Offline]
  /\ dials = {}
  /\ dispatching = {}
  /\ phase = "up"

-------------------------------------------------------------------------------
(* Building blocks of the handlers *)

LockFree(c) == phase = "up" /\ c \notin dispatching

Handles(c) == LockFree(c) /\ mem[c].state # "none"

Sets(ss, c, a, from, to) == SetState(ss, Over, c, a, from, to)

\* Mutant: a state conflict is not an error.
RejectsOffline(c, a, from, to) == session[a].state = "offline"

Rejects(c, a, from, to) == Refused(session[a], Over, c, from, to)

\* transition: memory and os_calls change together.
Transition(c, m) == /\ mem' = [mem EXCEPT ![c] = m]
                    /\ db' = [db EXCEPT ![c] = Row(m)]

\* Mutant: the queued state is not written to os_calls.
ToQueueUnsaved(c, m) ==
  /\ mem' = [mem EXCEPT ![c] = [m EXCEPT !.state = "queued"]]
  /\ UNCHANGED db
  /\ dispatching' = IF m.queue = NoQueue THEN dispatching
                    ELSE dispatching \cup {c}

\* enterQueue, or transition(queued) followed by tryDispatch.
ToQueue(c, m) ==
  /\ Transition(c, [m EXCEPT !.state = "queued"])
  /\ dispatching' = IF m.queue = NoQueue THEN dispatching
                    ELSE dispatching \cup {c}

\* The agent whose leg a transfer removes.
CurrentAgent(m) == IF m.active # NoAgent THEN m.active
                   ELSE IF m.offered # NoAgent THEN m.offered
                   ELSE IF m.legs # <<>> THEN Head(m.legs) ELSE NoAgent

\* The loop over the legs keeps those of the other agents, in their order.
Without(legs, a) == Dropping(legs, {a})

WithoutLegs(m, a) == [m EXCEPT !.legs = Without(@, a)]

\* uuid.New: an id no dial of this call uses and the call does not remember.
DialLegs(c) == {d.leg : d \in {e \in dials : e.call = c}}
FreeLegs(c) == Legs \ (DialLegs(c) \cup {mem[c].sipLeg})

\* Bound: of the ids of an instance two are left for the dials that follow, so with
\* three of them one declined dial is still on its way while the next ones ring.
MayForgetDial(c) == Cardinality(FreeLegs(c)) >= 2

\* ringDevice succeeds: a SIP device is dialled by a goroutine of its own.
Ring(c, a, m) ==
  IF a \in SipAgents
  THEN /\ a \in registered
       /\ FreeLegs(c) # {}
       /\ LET leg == CHOOSE l \in FreeLegs(c) : TRUE
          IN  /\ Transition(c, [m EXCEPT !.sipLeg = leg, !.sipCancel = TRUE])
              /\ dials' = dials \cup {[call |-> c, agent |-> a, leg |-> leg]}
  ELSE Transition(c, m) /\ UNCHANGED dials

\* ringDevice fails before it dials: the device is not registered.
CannotRing(a) == a \in SipAgents \ registered

\* Mutant: the offered agent is released as if it were talking.
ReleasedAsTalking(ss, c, m) ==
  [a \in Agents |-> IF a \in Parties(m) THEN Sets(ss, c, a, "on_call", "acw")[a]
                    ELSE ss[a]]

\* Mutant: only the offered agent is released.
ReleasedOffered(ss, c, m) ==
  [a \in Agents |-> IF a = m.offered THEN Sets(ss, c, a, "ringing", "idle")[a]
                    ELSE ss[a]]

\* The sessions after Hangup has released the offered agent and every leg.
Released(ss, c, m) ==
  LET talked == m.state \in Talking \/ m.consult # NoAgent
      after  == IF talked THEN "acw" ELSE "idle"
      Free(a) == IF a = m.offered
                 THEN IF m.state = "ringing"
                      THEN Sets(ss, c, a, "ringing", "idle")[a]
                      ELSE Sets(ss, c, a, "on_call", after)[a]
                 ELSE IF a \in Range(m.legs)
                      THEN Sets(ss, c, a, "on_call", after)[a]
                      ELSE ss[a]
  IN  [a \in Agents |-> Free(a)]

\* Hangup to its end: agents released, call ended and forgotten.
HangUp(ss, c, m) ==
  /\ session' = Released(ss, c, m)
  /\ mem' = [mem EXCEPT ![c] = Gone]
  /\ db' = [db EXCEPT ![c] = [Row(m) EXCEPT !.state = "ended"]]

-------------------------------------------------------------------------------
(* The agents *)

CheckIn(a) ==
  /\ phase = "up"
  /\ MayCheckIn(session[a])
  /\ session' = [session EXCEPT ![a] = InSession("idle", NoCall)]
  /\ UNCHANGED <<mem, db, dials, dispatching, phase, registered>>

\* The window between the read and the write is modelled in AgentSessions.
SetPresence(a, to) ==
  /\ phase = "up"
  /\ "presence" \in Commands
  /\ MaySetPresence(session[a])
  /\ session' = Sets(session, NoCall, a, AnyState, to)
  /\ UNCHANGED <<mem, db, dials, dispatching, phase, registered>>

\* The last step of ForceReleaseAgent, after any Hangup of its calls.
ForceCheckOut(a) ==
  /\ phase = "up"
  /\ "presence" \in Commands
  /\ session' = [session EXCEPT ![a] = ForceCheckOutRow(@)]
  /\ UNCHANGED <<mem, db, dials, dispatching, phase, registered>>

\* The registrar: REGISTER, and the expiry or removal of a binding.
DeviceRegisters(a) ==
  /\ a \in SipAgents \ registered
  /\ registered' = registered \cup {a}
  /\ UNCHANGED <<mem, db, session, dials, dispatching, phase>>

DeviceExpires(a) ==
  /\ "unregistered" \in Faults
  /\ a \in registered
  /\ registered' = registered \ {a}
  /\ UNCHANGED <<mem, db, session, dials, dispatching, phase>>

-------------------------------------------------------------------------------
(* A call comes in *)

StartQueued(c) ==
  /\ phase = "up" /\ db[c].state = "none"
  /\ \E q \in Queues : ToQueue(c, Fresh("inbound", q))
  /\ UNCHANGED <<session, dials, phase, registered>>

StartInIVR(c) ==
  /\ phase = "up" /\ db[c].state = "none"
  /\ "ivr" \in Commands
  /\ \E q \in Queues \cup {NoQueue} :
       Transition(c, [Fresh("inbound", q) EXCEPT !.state = "ivr"])
  /\ UNCHANGED <<session, dials, dispatching, phase, registered>>

\* Outside business hours the call is hung up.
StartClosed(c) ==
  /\ phase = "up" /\ db[c].state = "none"
  /\ HangUp(session, c, Fresh("inbound", NoQueue))
  /\ UNCHANGED <<dials, dispatching, phase, registered>>

\* CreateRoom fails: the handler returns the error and leaves the call behind.
StartFails(c) ==
  /\ phase = "up" /\ db[c].state = "none"
  /\ "room" \in Faults
  /\ \E q \in Queues : Transition(c, Fresh("inbound", q))
  /\ UNCHANGED <<session, dials, dispatching, phase, registered>>

\* A node without a successor queues the call, a route_queue node chooses
\* the queue, a hangup node or the maximum duration ends it.
LeaveIVR(c) ==
  /\ Handles(c) /\ mem[c].state = "ivr"
  /\ \/ /\ \E q \in Queues \cup {mem[c].queue} :
             ToQueue(c, [mem[c] EXCEPT !.queue = q])
        /\ UNCHANGED session
     \/ HangUp(session, c, mem[c]) /\ UNCHANGED dispatching
  /\ UNCHANGED <<dials, phase, registered>>

-------------------------------------------------------------------------------
(* tryDispatch *)

\* Mutant: tryDispatch waits until somebody is free.
NobodyFreeYet(c) ==
  /\ phase = "up" /\ c \in dispatching
  /\ Pickable(session, c, Members[mem[c].queue]) = {}
  /\ UNCHANGED vars

NobodyFree(c) ==
  /\ phase = "up" /\ c \in dispatching
  /\ Pickable(session, c, Members[mem[c].queue]) = {}
  /\ dispatching' = dispatching \ {c}
  /\ UNCHANGED <<mem, db, session, dials, phase, registered>>

Offer(c, a) ==
  /\ phase = "up" /\ c \in dispatching
  /\ a \in Pickable(session, c, Members[mem[c].queue])
  /\ session' = Picked(session, c, a)
  /\ Ring(c, a, [mem[c] EXCEPT !.state = "ringing", !.offered = a])
  /\ dispatching' = dispatching \ {c}
  /\ UNCHANGED <<registered, phase>>

\* ring_failed: the agent becomes idle again and tryDispatch calls itself.
OfferFails(c, a) ==
  /\ phase = "up" /\ c \in dispatching
  /\ a \in Pickable(session, c, Members[mem[c].queue])
  /\ CannotRing(a)
  /\ session' = Sets(Picked(session, c, a), c, a, "ringing", "idle")
  /\ Transition(c, [mem[c] EXCEPT !.offered = a])
  /\ UNCHANGED <<dials, dispatching, phase, registered>>

Dispatch(c) ==
  NobodyFree(c) \/ \E a \in Agents : Offer(c, a) \/ OfferFails(c, a)

-------------------------------------------------------------------------------
(* The offered agent *)

Answered(c, a) ==
  /\ session' = Sets(session, c, a, "ringing", "on_call")
  /\ Transition(c, [mem[c] EXCEPT
       !.state = IF mem[c].consult \in {NoAgent, a} THEN "active" ELSE "held",
       !.active = a, !.offered = NoAgent, !.sipCancel = FALSE,
       !.legs = Append(@, a), !.answered = TRUE])

MayConnect(c, a) == ~Rejects(c, a, "ringing", "on_call")

RoomForLeg(c) == Len(mem[c].legs) < MaxLegs

Answer(c, a) ==
  /\ Handles(c)
  /\ mem[c].state \in {"ringing", "active"} /\ mem[c].offered = a
  /\ mem[c].sipLeg = NoLeg
  /\ MayConnect(c, a) /\ RoomForLeg(c)
  /\ Answered(c, a)
  /\ UNCHANGED <<dials, dispatching, phase, registered>>

\* Mutant: every lost offer returns to the original call.
OfferLostToOriginal(c) ==
  /\ session' = Sets(session, c, mem[c].offered, "ringing", "idle")
  /\ Transition(c, [mem[c] EXCEPT !.offered = NoAgent, !.consult = NoAgent,
                                  !.state = "active"])
  /\ UNCHANGED dispatching

\* A declined or expired offer: a consultation returns to the agent that
\* asked for it, any other call is queued and dispatched again.
OfferLost(c) ==
  LET m == [mem[c] EXCEPT !.offered = NoAgent]
  IN  /\ session' = Sets(session, c, mem[c].offered, "ringing", "idle")
      /\ IF m.consult # NoAgent
         THEN /\ Transition(c, [m EXCEPT !.consult = NoAgent, !.state = "active"])
              /\ UNCHANGED dispatching
         ELSE ToQueue(c, m)

\* The call keeps sipOfferLeg and sipOfferCancel of a dial that was declined.
Decline(c, a) ==
  /\ Handles(c)
  /\ mem[c].state = "ringing" /\ mem[c].offered = a
  /\ a \in SipAgents => MayForgetDial(c)
  /\ OfferLost(c)
  /\ UNCHANGED <<dials, phase, registered>>

\* tick: a pending SIP offer is only cancelled, its goroutine does the rest.
OfferTimeout(c) ==
  /\ Handles(c)
  /\ mem[c].state = "ringing" /\ mem[c].offered # NoAgent
  /\ ~(mem[c].sipCancel /\ mem[c].sipLeg # NoLeg)
  /\ OfferLost(c)
  /\ UNCHANGED <<dials, phase, registered>>

-------------------------------------------------------------------------------
(* The goroutine of a SIP offer gets its answer *)

\* Mutant: the result of a consultation's dial is dropped.
ReachesQueueOffer(d) == /\ mem[d.call].state = "ringing"
                        /\ mem[d.call].consult = NoAgent
                        /\ mem[d.call].offered = d.agent
                        /\ mem[d.call].sipLeg = d.leg

ReachesOffer(d) == /\ mem[d.call].state = "ringing"
                   /\ mem[d.call].offered = d.agent
                   /\ mem[d.call].sipLeg = d.leg

\* The device failed: its agent becomes busy, the call goes back.
DeviceFailed(c, a) ==
  LET m == [mem[c] EXCEPT !.offered = NoAgent, !.sipLeg = NoLeg,
                          !.sipCancel = FALSE]
      ss == Sets(session, c, a, AnyState, "busy")
  IN  IF m.consult # NoAgent
      THEN /\ session' = ss
           /\ Transition(c, [m EXCEPT !.active = m.consult,
                                      !.consult = NoAgent, !.state = "active"])
      ELSE IF m.queue # NoQueue
      THEN session' = ss /\ Transition(c, [m EXCEPT !.state = "queued"])
      ELSE HangUp(ss, c, m)

DeviceReturns(d, ok) ==
  /\ d \in dials /\ d.agent # NoAgent /\ LockFree(d.call)
  /\ ok => RoomForLeg(d.call)
  /\ dials' = dials \ {d}
  /\ IF ~ReachesOffer(d) THEN UNCHANGED <<mem, db, session>>
     ELSE IF ok /\ MayConnect(d.call, d.agent) THEN Answered(d.call, d.agent)
     ELSE DeviceFailed(d.call, d.agent)
  /\ UNCHANGED <<dispatching, phase, registered>>

\* Mutant: the state of the call is not checked again after the dial.
CarrierConnects(d, ok) ==
  /\ d \in dials /\ d.agent = NoAgent /\ LockFree(d.call)
  /\ dials' = dials \ {d}
  /\ IF ok
     THEN /\ Transition(d.call, [mem[d.call] EXCEPT !.state = "active",
                                                    !.answered = TRUE])
          /\ UNCHANGED session
     ELSE HangUp(session, d.call, mem[d.call])
  /\ UNCHANGED <<dispatching, phase, registered>>

\* The carrier's answer; a call that has ended meanwhile stays ended.
CarrierReturns(d, ok) ==
  /\ d \in dials /\ d.agent = NoAgent /\ LockFree(d.call)
  /\ dials' = dials \ {d}
  /\ IF mem[d.call].state = "none" THEN UNCHANGED <<mem, db, session>>
     ELSE IF ok
     THEN /\ Transition(d.call, [mem[d.call] EXCEPT !.state = "active",
                                                    !.answered = TRUE])
          /\ UNCHANGED session
     ELSE HangUp(session, d.call, mem[d.call])
  /\ UNCHANGED <<dispatching, phase, registered>>

DialReturns(c) ==
  \E d \in dials : \E ok \in BOOLEAN :
    d.call = c /\ (DeviceReturns(d, ok) \/ CarrierReturns(d, ok))

-------------------------------------------------------------------------------
(* The tick on a queued call *)

\* Mutant: the tick dispatches whatever the state of the call.
TickDispatchAny(c) ==
  /\ Handles(c) /\ mem[c].queue # NoQueue
  /\ dispatching' = dispatching \cup {c}
  /\ UNCHANGED <<mem, db, session, dials, phase, registered>>

TickDispatch(c) ==
  /\ Handles(c) /\ mem[c].state = "queued" /\ mem[c].queue # NoQueue
  /\ dispatching' = dispatching \cup {c}
  /\ UNCHANGED <<mem, db, session, dials, phase, registered>>

\* max_wait_sec has passed: overflow to another queue or hang up.
WaitExpired(c) ==
  /\ Handles(c) /\ mem[c].state = "queued"
  /\ IF mem[c].queue # NoQueue /\ OverflowTo[mem[c].queue] # NoQueue
     THEN /\ ToQueue(c, [mem[c] EXCEPT !.queue = OverflowTo[@]])
          /\ UNCHANGED session
     ELSE HangUp(session, c, mem[c]) /\ UNCHANGED dispatching
  /\ UNCHANGED <<dials, phase, registered>>

-------------------------------------------------------------------------------
(* Commands on a call.  Without "overlap" the operators of this instance   *)
(* wait: they complete a consultation only after its target has answered,  *)
(* and neither transfer the call nor send it to the IVR while it has a     *)
(* consultation open or, being internal, a second agent.                   *)

Hangup(c) ==
  /\ Handles(c)
  /\ HangUp(session, c, mem[c])
  /\ UNCHANGED <<dials, dispatching, phase, registered>>

\* A recording starts with the IVR, the queue or the conversation.
MayBeRecorded(m) == \/ m.answered
                    \/ m.state = "queued"
                    \/ m.kind = "inbound" /\ m.state # "created"

\* stopRecording fails: the agents are released, the call stays.
HangupFails(c) ==
  /\ Handles(c) /\ "recording" \in Faults
  /\ MayBeRecorded(mem[c])
  /\ session' = Released(session, c, mem[c])
  /\ mem' = [mem EXCEPT ![c].sipCancel = FALSE]
  /\ UNCHANGED <<db, dials, dispatching, phase, registered>>

Hold(c) ==
  /\ Handles(c) /\ "hold" \in Commands
  /\ mem[c].state \in Talking
  /\ \E st \in Talking : Transition(c, [mem[c] EXCEPT !.state = st])
  /\ UNCHANGED <<session, dials, dispatching, phase, registered>>

Undisturbed(c) ==
  \/ "overlap" \in Commands
  \/ mem[c].consult = NoAgent /\ mem[c].kind # "internal"

\* The device of the target rings, or cannot be dialled and the offer waits
\* for its timeout.
RingTarget(c, b, m) ==
  \/ Ring(c, b, m)
  \/ CannotRing(b) /\ Transition(c, m) /\ UNCHANGED dials

BlindTransfer(c, b) ==
  LET from == CurrentAgent(mem[c])
      rung == Sets(session, c, b, "idle", "ringing")
      m    == [mem[c] EXCEPT !.state = "ringing", !.offered = b,
                             !.consult = NoAgent]
  IN  /\ Handles(c) /\ "blind" \in Commands /\ Undisturbed(c)
      /\ mem[c].state \in Talking
      /\ ~Rejects(c, b, "idle", "ringing")
      /\ session' = IF from = NoAgent THEN rung
                    ELSE Sets(rung, c, from, "on_call", "acw")
      /\ RingTarget(c, b, WithoutLegs(m, from))
      /\ UNCHANGED <<dispatching, phase, registered>>

ConsultTransfer(c, b) ==
  /\ Handles(c) /\ "consult" \in Commands
  /\ "overlap" \in Commands \/ mem[c].consult = NoAgent
  /\ mem[c].state \in Talking
  /\ ~Rejects(c, b, "idle", "ringing")
  /\ session' = Sets(session, c, b, "idle", "ringing")
  /\ RingTarget(c, b, [mem[c] EXCEPT !.state = "ringing", !.offered = b,
                                     !.consult = CurrentAgent(mem[c])])
  /\ UNCHANGED <<dispatching, phase, registered>>

\* The agent is released, its leg and activeAgent stay.
QueueTransfer(c, q) ==
  LET from == CurrentAgent(mem[c])
  IN  /\ Handles(c) /\ "queue" \in Commands /\ Undisturbed(c)
      /\ mem[c].state \in Talking
      /\ session' = IF from = NoAgent THEN session
                    ELSE Sets(session, c, from, "on_call", "acw")
      /\ ToQueue(c, [mem[c] EXCEPT !.queue = q, !.offered = NoAgent,
                                   !.consult = NoAgent])
      /\ UNCHANGED <<dials, phase, registered>>

\* Mutant: the target is released instead of the agent that consulted it.
CompleteTransferSwapped(c) ==
  /\ Handles(c) /\ "complete" \in Commands
  /\ "overlap" \in Commands \/ mem[c].offered = NoAgent
  /\ mem[c].consult # NoAgent
  /\ session' = Sets(session, c, mem[c].active, "on_call", "acw")
  /\ Transition(c, [WithoutLegs(mem[c], mem[c].active) EXCEPT
                      !.consult = NoAgent, !.state = "active"])
  /\ UNCHANGED <<dials, dispatching, phase, registered>>

CompleteTransfer(c) ==
  /\ Handles(c) /\ "complete" \in Commands
  /\ "overlap" \in Commands \/ mem[c].offered = NoAgent
  /\ mem[c].consult # NoAgent
  /\ session' = Sets(session, c, mem[c].consult, "on_call", "acw")
  /\ Transition(c, [WithoutLegs(mem[c], mem[c].consult) EXCEPT
                      !.consult = NoAgent, !.state = "active"])
  /\ UNCHANGED <<dials, dispatching, phase, registered>>

\* The invited agent becomes the offered agent of an active call; nothing is
\* written to os_calls and no device is dialled.
ConferenceInvite(c, b) ==
  /\ Handles(c) /\ "conference" \in Commands
  /\ mem[c].state = "active"
  /\ ~Rejects(c, b, "idle", "ringing")
  /\ session' = Sets(session, c, b, "idle", "ringing")
  /\ mem' = [mem EXCEPT ![c].offered = b]
  /\ UNCHANGED <<db, dials, dispatching, phase, registered>>

\* EnterIVR releases leg after leg; the first refusal ends the command with
\* the earlier legs gone and the call where it was.
EnterIVR(c) ==
  LET legs    == mem[c].legs
      Stuck   == {i \in DOMAIN legs :
                    \/ Rejects(c, legs[i], "on_call", "acw")
                    \/ /\ ~OtherLiveCall(session[legs[i]], Over, c)
                       /\ \E j \in 1 .. i - 1 : legs[j] = legs[i]}
      done    == IF Stuck = {} THEN Len(legs)
                 ELSE (CHOOSE i \in Stuck : \A j \in Stuck : i <= j) - 1
      Left(a) == \E i \in 1 .. done : legs[i] = a
      m       == [mem[c] EXCEPT !.legs = SubSeq(@, done + 1, Len(@))]
  IN  /\ Handles(c) /\ "ivr" \in Commands /\ Undisturbed(c)
      /\ mem[c].state \in Talking /\ mem[c].kind # "internal"
      /\ session' = [a \in Agents |->
                       IF Left(a) THEN Sets(session, c, a, "on_call", "acw")[a]
                       ELSE session[a]]
      /\ IF Stuck = {}
         THEN Transition(c, [m EXCEPT !.state = "ivr", !.active = NoAgent,
                                      !.offered = NoAgent])
         ELSE mem' = [mem EXCEPT ![c] = m] /\ UNCHANGED db
      /\ UNCHANGED <<dials, dispatching, phase, registered>>

-------------------------------------------------------------------------------
(* An agent dials *)

\* Mutant: an agent who is busy may dial.
MayDialBusy(a) ==
  /\ session[a].state \in {"idle", "acw", "busy"}
  /\ \A d \in Calls : mem[d].state # "none" => a \notin Parties(mem[d])

\* openCallsForAgent and outboundAgentFromState: not a party of any call.
MayDial(a) ==
  /\ session[a].state \in {"idle", "acw"}
  /\ \A d \in Calls : mem[d].state # "none" => a \notin Parties(mem[d])

DialOut(c, a) ==
  /\ phase = "up" /\ db[c].state = "none"
  /\ "outbound" \in Commands
  /\ MayDial(a)

Source(kind, a) ==
  [Fresh(kind, NoQueue) EXCEPT !.active = a, !.legs = <<a>>]

OnCall(c, a) == Sets(session, c, a, AnyState, "on_call")

InternalCall(c, a, b) ==
  /\ DialOut(c, a)
  /\ LET offer == [Source("internal", a) EXCEPT !.state = "ringing", !.offered = b]
         rung  == Sets(OnCall(c, a), c, b, "idle", "ringing")
         busy  == Rejects(c, b, "idle", "ringing")
     IN  \/ /\ busy /\ HangUp(OnCall(c, a), c, Source("internal", a))
            /\ UNCHANGED dials
         \/ ~busy /\ session' = rung /\ Ring(c, b, offer)
         \/ /\ ~busy /\ CannotRing(b) /\ HangUp(rung, c, offer)
            /\ UNCHANGED dials
  /\ UNCHANGED <<dispatching, phase, registered>>

\* A second request took the agent between the two reads: the record of the
\* call is ended without an entry in memory.
DialRefused(c, a) ==
  /\ DialOut(c, a)
  /\ db' = [db EXCEPT ![c] = [Row(Gone) EXCEPT !.state = "ended"]]
  /\ UNCHANGED <<mem, session, dials, dispatching, phase, registered>>

CarrierCall(c, a) ==
  /\ DialOut(c, a)
  /\ session' = OnCall(c, a)
  /\ Transition(c, [Source("pstn", a) EXCEPT !.state = "ringing"])
  /\ dials' = dials \cup {[call |-> c, agent |-> NoAgent, leg |-> NoLeg]}
  /\ UNCHANGED <<dispatching, phase, registered>>

\* The trunk is not usable: the call is ended at once.
CarrierUnusable(c, a) ==
  /\ DialOut(c, a)
  /\ HangUp(OnCall(c, a), c, Source("pstn", a))
  /\ UNCHANGED <<dials, dispatching, phase, registered>>

\* CreateRoom fails: as in StartFails the call stays, with its agent.
CarrierFails(c, a) ==
  /\ DialOut(c, a) /\ "room" \in Faults
  /\ session' = OnCall(c, a)
  /\ mem' = [mem EXCEPT ![c] = Source("pstn", a)]
  /\ db' = [db EXCEPT ![c] = Row(Fresh("pstn", NoQueue))]
  /\ UNCHANGED <<dials, dispatching, phase, registered>>

-------------------------------------------------------------------------------
(* Restart *)

Crash ==
  /\ "crash" \in Faults
  /\ phase' = "recovering"
  /\ mem' = [c \in Calls |-> Gone]
  /\ dials' = {} /\ dispatching' = {}
  /\ UNCHANGED <<db, session, registered>>

Unfinished == Calls \ Over

\* hangupPersistOnly: what os_calls knows of the call's agents is released.
RecoverCall(c) ==
  LET row  == db[c]
      from == IF row.answered THEN "on_call" ELSE "ringing"
      one  == IF row.agent = NoAgent THEN session
              ELSE Sets(session, c, row.agent, from, "idle")
  IN  /\ phase = "recovering" /\ c \in Unfinished
      /\ session' = IF row.offered \in {NoAgent, row.agent} THEN one
                    ELSE Sets(one, c, row.offered, "ringing", "idle")
      /\ db' = [db EXCEPT ![c].state = "ended"]
      /\ UNCHANGED <<mem, dials, dispatching, phase, registered>>

\* RecoverReservations, once every call is ended.
RecoverReservation(a) ==
  /\ phase = "recovering" /\ Unfinished = {}
  /\ Orphaned(session[a], Over)
  /\ session' = Sets(session, session[a].call, a, session[a].state,
                     RecoverTarget(session[a]))
  /\ UNCHANGED <<mem, db, dials, dispatching, phase, registered>>

\* Mutant: the listeners start before RecoverReservations has finished.
ServeEarly ==
  /\ phase = "recovering" /\ Unfinished = {}
  /\ phase' = "up"
  /\ UNCHANGED <<mem, db, session, dials, dispatching, registered>>

Serve ==
  /\ phase = "recovering" /\ Unfinished = {}
  /\ \A a \in Agents : ~Orphaned(session[a], Over)
  /\ phase' = "up"
  /\ UNCHANGED <<mem, db, session, dials, dispatching, registered>>

-------------------------------------------------------------------------------
AgentStep(a) ==
  \/ CheckIn(a)
  \/ \E to \in {"idle", "busy", "offline"} : SetPresence(a, to)
  \/ ForceCheckOut(a)
  \/ DeviceRegisters(a) \/ DeviceExpires(a)
  \/ RecoverReservation(a)

Begin(c) ==
  \/ StartQueued(c) \/ StartInIVR(c) \/ StartClosed(c) \/ StartFails(c)
  \/ \E a \in Agents :
       \/ \E b \in Agents \ {a} : InternalCall(c, a, b)
       \/ DialRefused(c, a)
       \/ CarrierCall(c, a) \/ CarrierUnusable(c, a) \/ CarrierFails(c, a)

Command(c) ==
  \/ Hangup(c) \/ HangupFails(c) \/ Hold(c)
  \/ CompleteTransfer(c) \/ EnterIVR(c) \/ LeaveIVR(c)
  \/ \E q \in Queues : QueueTransfer(c, q)
  \/ \E a \in Agents :
       \/ Answer(c, a) \/ Decline(c, a)
       \/ BlindTransfer(c, a) \/ ConsultTransfer(c, a)
       \/ ConferenceInvite(c, a)

Background(c) ==
  \/ Dispatch(c) \/ DialReturns(c)
  \/ OfferTimeout(c) \/ TickDispatch(c) \/ WaitExpired(c)
  \/ RecoverCall(c)

Next ==
  \/ \E a \in Agents : AgentStep(a)
  \/ \E c \in Calls : Begin(c) \/ Command(c) \/ Background(c)
  \/ Crash
  \/ Serve

\* The ticker, the goroutines and the start-up sequence keep running; nothing
\* is assumed of callers, agents, operators and crashes.
Fairness ==
  /\ \A c \in Calls : /\ WF_vars(Dispatch(c))
                      /\ WF_vars(DialReturns(c))
                      /\ WF_vars(OfferTimeout(c))
                      /\ WF_vars(RecoverCall(c))
  /\ \A a \in Agents : WF_vars(RecoverReservation(a))
  /\ WF_vars(Serve)

Spec == Init /\ [][Next]_vars

FairSpec == Spec /\ Fairness
-------------------------------------------------------------------------------
(* Properties *)

OnCallWith(a, c) == session[a].state = "on_call" /\ session[a].call = c

\* While a call rings an agent, that agent rings for that call and for no
\* other (tryDispatch, doTransfer and doOutboundWithID reserve before they
\* offer; Decline, the tick and the dial goroutine release before they forget).
OfferReserved ==
  \A c \in Calls : mem[c].state = "ringing" /\ mem[c].offered # NoAgent =>
    session[mem[c].offered].state = "ringing" /\ session[mem[c].offered].call = c

\* A connected call has an agent that is on_call for it and has a leg, and so
\* has the agent a consultation must be able to return to (doAnswer,
\* doTransfer, completeConsult, doDecline).
TalkersReserved ==
  \A c \in Calls :
    LET m == mem[c]
        Holds(a) == OnCallWith(a, c) /\ a \in Range(m.legs)
    IN  /\ m.state \in Talking => m.active # NoAgent /\ Holds(m.active)
        /\ m.consult # NoAgent => Holds(m.consult)

\* No agent is left behind: whoever is reserved while the switch serves is
\* reserved for a call in memory that knows it as its offered agent or by a
\* leg, so the end of that call will release it (Hangup, service.go:436).
NoStrayReservation ==
  phase = "up" =>
    \A a \in Agents : session[a].call # NoCall =>
      LET m == mem[session[a].call]
      IN  m.state # "none" /\ a \in {m.offered} \cup Range(m.legs)

\* os_calls follows the memory: a restart finds every live call unfinished,
\* and in the state its handlers left it (transition).
MemoryPersisted ==
  phase = "up" => \A c \in Calls :
    IF mem[c].state = "none" THEN db[c].state \in {"none", "ended"}
    ELSE db[c].state = mem[c].state

\* An ended call stays ended: neither a dial that is answered late nor a
\* tick brings it back (originateSIPCall, ringDevice, transition).
EndedForGood ==
  [][\A c \in Calls : db[c].state = "ended" =>
       db'[c].state = "ended" /\ mem'[c].state = "none"]_vars

\* When the switch serves again after a restart, no agent is reserved.
RecoveryFreesAll ==
  [][phase = "recovering" /\ phase' = "up" =>
       \A a \in Agents : session'[a].state \notin Reserved]_vars

\* Composed with the calls, the sessions still follow the agent lifecycle.
Lifecycle == INSTANCE AgentLifecycle
               WITH state <- [a \in Agents |-> session[a].state],
                    call  <- [a \in Agents |-> session[a].call]

EachAgentLifecycle == Lifecycle!Spec

\* The tick or the dial of the offered agent ends this offer.  The tick leaves a
\* pending SIP offer to its dial (service_tick.go:95), and after a decline that is
\* the dial of somebody else.
Watched(c) ==
  /\ mem[c].state = "ringing" /\ mem[c].offered # NoAgent
  /\ mem[c].sipCancel /\ mem[c].sipLeg # NoLeg =>
       \E d \in dials : d.call = c /\ d.agent = mem[c].offered /\ d.leg = mem[c].sipLeg

\* Neither side of an offer that is watched waits for ever: the call is answered,
\* offered again, moved on or ended, and the agent stops ringing, also when the
\* switch stops meanwhile (tickCall, ringDevice, recover).
OffersEnd ==
  /\ \A c \in Calls : Watched(c) ~> mem[c].state # "ringing"
  /\ \A a \in Agents :
       /\ session[a].state = "ringing"
       /\ phase = "recovering" \/ \E c \in Calls : Watched(c) /\ mem[c].offered = a
       ~> session[a].state # "ringing"

\* tryDispatch returns and gives the call its lock back, unless it dials an agent
\* of the queue whose device is not registered; and the recovery opens the switch.
HandlersEnd ==
  /\ \A c \in Calls :
       c \in dispatching ~>
         c \notin dispatching \/ \E a \in Members[mem[c].queue] : CannotRing(a)
  /\ phase = "recovering" ~> phase = "up"

\* Hangup "releases the agents" (service.go:436): no agent is reserved for a
\* call that has ended.
HangupReleases ==
  phase = "up" => \A a \in Agents : session[a].call \notin Over

\* A declined offer returns to the original call only for a consultation,
\* "otherwise it is dispatched again" (service.go:378): an active call has
\* an agent.
ActiveIsStaffed ==
  \A c \in Calls : mem[c].state = "active" => \E a \in Agents : OnCallWith(a, c)

-------------------------------------------------------------------------------
(* What the comments of the code say and the code does not do *)

\* sip_device.go:59 says that an unreachable device is not rung again and again:
\* tryDispatch returns.
DispatchReturns ==
  \A c \in Calls : c \in dispatching ~> c \notin dispatching

\* "tickCall advances ... the ring timeout of one call" (service_tick.go:70):
\* an offer does not stay pending for ever.
OfferExpires ==
  \A c \in Calls :
    mem[c].state = "ringing" /\ mem[c].offered # NoAgent
      ~> mem[c].state # "ringing"

\* EnterIVR "releases the agents' legs ... and runs the flow"
\* (ivr_entry.go:12): a command that passes its checks reaches the flow.
EnterIVRRuns ==
  [][\A c \in Calls : EnterIVR(c) => mem'[c].state = "ivr"]_vars
===============================================================================
