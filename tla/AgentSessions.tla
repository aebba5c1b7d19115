----------------------------- MODULE AgentSessions -----------------------------
(***************************************************************************)
(* The agent directory and the ACD of cccore/runtime.go as the owner of    *)
(* the agents' sessions.  Every action is one database transaction (or the *)
(* unlocked read that precedes one); call control is the environment: any  *)
(* number of calls reserve, connect and release agents concurrently, with  *)
(* each other, with the agents' own requests and with a restart.           *)
(*                                                                         *)
(* grants[c] is what call control remembers of call c: the agents it has   *)
(* reserved successfully and not yet released.  It is the caller's side of *)
(* the contract and lives in the memory of the process.                    *)
(***************************************************************************)
EXTENDS SessionStore

VARIABLES session,    \* os_agent_sessions
          callState,  \* the part of os_calls setState looks at
          grants,     \* the agents each live call believes it holds
          intent,     \* a CheckOut or SetPresence between its read and its write
          phase       \* "up", or "recovering" before the listeners start

vars == <<session, callState, grants, intent, phase>>

NoIntent == [from |-> AnyState, to |-> AnyState]

Over == {c \in Calls : callState[c] # "live"}

TypeOK ==
  /\ session \in [Agents -> Session]
  /\ callState \in [Calls -> {"none", "live", "ended"}]
  /\ grants \in [Calls -> SUBSET Agents]
  /\ intent \in [Agents -> [from : FromStates, to : Releasing \cup {AnyState}]]
  /\ phase \in {"up", "recovering"}

Init ==
  /\ session = [a \in Agents |-> Offline]
  /\ callState = [c \in Calls |-> "none"]
  /\ grants = [c \in Calls |-> {}]
  /\ intent = [a \in Agents |-> NoIntent]
  /\ phase = "up"

-------------------------------------------------------------------------------
(* Requests of the agent and of a supervisor *)

CheckIn(a) ==
  /\ phase = "up"
  /\ MayCheckIn(session[a])
  /\ session' = [session EXCEPT ![a] = InSession("idle", NoCall)]
  /\ UNCHANGED <<callState, grants, intent, phase>>

\* CheckOut (to = "offline") and SetPresence read the row without a lock ...
ReadPresence(a, to) ==
  /\ phase = "up"
  /\ intent[a] = NoIntent
  /\ MaySetPresence(session[a])
  /\ intent' = [intent EXCEPT ![a] = [from |-> session[a].state, to |-> to]]
  /\ UNCHANGED <<session, callState, grants, phase>>

\* Mutant: the write does not need a request that has read the row.
WriteUnread(a) ==
  /\ phase = "up"
  /\ session' = SetState(session, Over, NoCall, a, intent[a].from, intent[a].to)
  /\ intent' = [intent EXCEPT ![a] = NoIntent]
  /\ UNCHANGED <<callState, grants, phase>>

\* ... and write it in a later transaction.
WritePresence(a) ==
  /\ phase = "up"
  /\ intent[a] # NoIntent
  /\ session' = SetState(session, Over, NoCall, a, intent[a].from, intent[a].to)
  /\ intent' = [intent EXCEPT ![a] = NoIntent]
  /\ UNCHANGED <<callState, grants, phase>>

ForceCheckOut(a) ==
  /\ phase = "up"
  /\ session' = [session EXCEPT ![a] = ForceCheckOutRow(@)]
  /\ UNCHANGED <<callState, grants, intent, phase>>

-------------------------------------------------------------------------------
(* Calls reserve, connect and release agents *)

StartCall(c) ==
  /\ phase = "up"
  /\ callState[c] = "none"
  /\ callState' = [callState EXCEPT ![c] = "live"]
  /\ UNCHANGED <<session, grants, intent, phase>>

RequestAgent(c) ==
  /\ phase = "up"
  /\ callState[c] = "live"
  /\ \E a \in Pickable(session, c, Agents) :
       /\ session' = Picked(session, c, a)
       /\ grants' = [grants EXCEPT ![c] = @ \cup {a}]
  /\ UNCHANGED <<callState, intent, phase>>

\* setState(idle -> ringing) of a transfer, a conference or an internal call,
\* and setState(idle | acw -> on_call) of an agent that dials out.
Reserve(c, a, from, to) ==
  /\ phase = "up"
  /\ callState[c] = "live"
  /\ ~Refused(session[a], Over, c, from, to)
  /\ session' = SetState(session, Over, c, a, from, to)
  /\ grants' = [grants EXCEPT ![c] = @ \cup {a}]
  /\ UNCHANGED <<callState, intent, phase>>

\* Answer: only for an agent the call was granted.
Connect(c, a) ==
  /\ phase = "up"
  /\ callState[c] = "live"
  /\ a \in grants[c]
  /\ session' = SetState(session, Over, c, a, "ringing", "on_call")
  /\ UNCHANGED <<callState, grants, intent, phase>>

\* A decline, a timeout, a hangup, a transfer: possibly late, possibly for an
\* agent that has long been released and works for another call.  The call
\* forgets the agent whatever the store answered.
Release(c, a, from, to) ==
  /\ callState[c] = "live"
  /\ session' = SetState(session, Over, c, a, from, to)
  /\ grants' = [grants EXCEPT ![c] = @ \ {a}]
  /\ UNCHANGED <<callState, intent, phase>>

EndCall(c) ==
  /\ callState[c] = "live"
  /\ callState' = [callState EXCEPT ![c] = "ended"]
  /\ grants' = [grants EXCEPT ![c] = {}]
  /\ UNCHANGED <<session, intent, phase>>

-------------------------------------------------------------------------------
(* A restart: memory is lost, every unfinished call is ended, then the      *)
(* reservations of ended calls are released, and only then the switch      *)
(* serves again.                                                           *)

Crash ==
  /\ phase' = "recovering"
  /\ grants' = [c \in Calls |-> {}]
  /\ intent' = [a \in Agents |-> NoIntent]
  /\ UNCHANGED <<session, callState>>

AllCallsOver == \A c \in Calls : callState[c] # "live"

RecoverReservation(a) ==
  /\ phase = "recovering"
  /\ AllCallsOver
  /\ Orphaned(session[a], Over)
  /\ session' = SetState(session, Over, session[a].call, a,
                         session[a].state, RecoverTarget(session[a]))
  /\ UNCHANGED <<callState, grants, intent, phase>>

Serve ==
  /\ phase = "recovering"
  /\ AllCallsOver
  /\ \A a \in Agents : ~Orphaned(session[a], Over)
  /\ phase' = "up"
  /\ UNCHANGED <<session, callState, grants, intent>>

-------------------------------------------------------------------------------
ReserveMoves == {<<"idle", "ringing">>, <<"idle", "on_call">>, <<"acw", "on_call">>}

ReleaseMoves == {<<"ringing", "idle">>, <<"on_call", "idle">>,
                 <<"on_call", "acw">>, <<AnyState, "busy">>}

AgentRequest(a) ==
  \/ CheckIn(a)
  \/ \E to \in {"idle", "busy", "acw", "offline"} : ReadPresence(a, to)
  \/ WritePresence(a)
  \/ ForceCheckOut(a)

CallRequest(c) ==
  \/ StartCall(c)
  \/ RequestAgent(c)
  \/ EndCall(c)
  \/ \E a \in Agents :
       \/ \E m \in ReserveMoves : Reserve(c, a, m[1], m[2])
       \/ Connect(c, a)
       \/ \E m \in ReleaseMoves : Release(c, a, m[1], m[2])

Next ==
  \/ \E a \in Agents : AgentRequest(a) \/ RecoverReservation(a)
  \/ \E c \in Calls : CallRequest(c)
  \/ Crash
  \/ Serve

Spec == Init /\ [][Next]_vars

-------------------------------------------------------------------------------
(* Properties *)

\* The two columns agree in every row: an agent rings or talks exactly when
\* its row names a call, and only such an agent is marked for check-out.
RowConsistent ==
  \A a \in Agents :
    /\ session[a].state \in Reserved <=> session[a].call # NoCall
    /\ session[a].pend => session[a].call # NoCall

\* A request between its read and its write read a free agent.
IntentFree ==
  \A a \in Agents : intent[a] # NoIntent =>
    intent[a].from \in Releasing /\ intent[a].to \in Releasing

\* A reservation that a live call was granted cannot be lost: no check-in, no
\* stale CheckOut or SetPresence, no forced check-out and no late release by
\* another call takes the agent away (setState, runtime.go:275-345).
GrantKept ==
  \A c \in Calls : \A a \in grants[c] :
    callState[c] = "live" /\ session[a].call = c

\* The sessions implement the lifecycle the switch relies on.
Lifecycle == INSTANCE AgentLifecycle
               WITH state <- [a \in Agents |-> session[a].state],
                    call  <- [a \in Agents |-> session[a].call]

EachAgentLifecycle == Lifecycle!Spec

\* os_agent_sessions.pending_checkout says "check out when the call ends"
\* (000001_baseline.sql:440): the mark stays until the agent is signed out.
\* This does not hold: answering clears the mark (README, Disagreements).
CheckOutHonoured ==
  [][\A a \in Agents : session[a].pend =>
        session'[a].pend \/ session'[a].state = "offline"]_vars
===============================================================================
