-------------------------- MODULE AgentSessionsProofs --------------------------
(***************************************************************************)
(* Proofs about AgentSessions for any sets of agents and calls.  Inv is    *)
(* the inductive invariant: GrantKept alone is not inductive, because a    *)
(* CheckOut or SetPresence could write over a row that has been reserved   *)
(* since it was read; it cannot because what it read was a free agent      *)
(* (IntentFree) and a reserved row is never free (RowConsistent).          *)
(***************************************************************************)
EXTENDS AgentSessions, SessionStoreProofs

Inv == TypeOK /\ RowConsistent /\ IntentFree /\ GrantKept

LEMMA InitInv == Init => Inv
BY NullAssumption
   DEF Init, Inv, TypeOK, RowConsistent, IntentFree, GrantKept,
       Session, Offline, NoIntent, FromStates, Reserved, Releasing

LEMMA CheckInStep ==
  ASSUME Inv, NEW a \in Agents, CheckIn(a)
  PROVE  Inv'
<1> USE DEF Inv, CheckIn, MayCheckIn, InSession
<1>1. TypeOK'
  BY NullAssumption DEF TypeOK, Session, Reserved, Releasing
<1>2. RowConsistent'
  BY NullAssumption DEF TypeOK, RowConsistent, Session, Reserved, Releasing
<1>3. IntentFree'
  BY DEF IntentFree
<1>4. GrantKept'
  BY NullAssumption DEF TypeOK, GrantKept, RowConsistent, Session
<1>. QED BY <1>1, <1>2, <1>3, <1>4

LEMMA ReadPresenceStep ==
  ASSUME Inv, NEW a \in Agents, NEW to \in Releasing, ReadPresence(a, to)
  PROVE  Inv'
<1> USE DEF Inv, ReadPresence
<1>1. session[a].state \in Releasing
  BY DEF MaySetPresence, TypeOK, Session, Reserved, Releasing
<1>2. TypeOK'
  BY <1>1 DEF TypeOK, FromStates
<1>3. RowConsistent' /\ GrantKept'
  BY DEF RowConsistent, GrantKept
<1>4. IntentFree'
  BY <1>1 DEF IntentFree, TypeOK
<1>. QED BY <1>2, <1>3, <1>4

LEMMA WritePresenceStep ==
  ASSUME Inv, NEW a \in Agents, WritePresence(a)
  PROVE  Inv'
<1> DEFINE from == intent[a].from
           to   == intent[a].to
           row  == session[a]
<1> USE DEF Inv, WritePresence
<1>1. from \in Releasing /\ to \in Releasing
  BY DEF IntentFree
<1>2. to \in Reserved \cup Releasing /\ (to \in Reserved => NoCall # NoCall)
  BY <1>1 DEF Reserved, Releasing
<1>3. row \in Session
  BY DEF TypeOK
<1>4. /\ session' \in [Agents -> Session]
      /\ \A b \in Agents \ {a} : session'[b] = session[b]
      /\ session'[a] = IF Refused(row, Over, NoCall, from, to) \/ Ignored(row, Over, NoCall, to)
                       THEN row ELSE Moved(row, NoCall, to)
  <2>1. /\ session \in [Agents -> Session]
        /\ NoCall \in Calls \cup {NoCall}
        /\ session' = SetState(session, Over, NoCall, a, from, to)
    BY DEF TypeOK
  <2> HIDE DEF from, to
  <2>. QED BY <1>2, <2>1, SetStateRows
<1>5. /\ Moved(row, NoCall, to).state \in Reserved <=> Moved(row, NoCall, to).call # NoCall
      /\ ~Moved(row, NoCall, to).pend
  BY <1>2, <1>3, MovedRow
<1>6. row.state \in Reserved => session'[a] = row
  BY <1>1, <1>3, <1>4, FreeRequestKeepsReserved
<1>7. TypeOK'
  BY <1>4 DEF TypeOK, NoIntent, FromStates
<1>8. RowConsistent'
  BY <1>4, <1>5 DEF RowConsistent
<1>9. IntentFree'
  BY DEF IntentFree, TypeOK
<1>10. GrantKept'
  <2> SUFFICES ASSUME NEW d \in Calls, NEW b \in grants[d]
               PROVE  session'[b].call = d
    BY DEF GrantKept
  <2>1. b \in Agents /\ session[b].call = d
    BY DEF GrantKept, TypeOK
  <2>2. session[b].state \in Reserved
    BY <2>1, NullAssumption DEF RowConsistent
  <2>. QED BY <2>1, <2>2, <1>4, <1>6
<1>. QED BY <1>7, <1>8, <1>9, <1>10

LEMMA ForceCheckOutStep ==
  ASSUME Inv, NEW a \in Agents, ForceCheckOut(a)
  PROVE  Inv'
<1> USE DEF Inv, ForceCheckOut, ForceCheckOutRow, Offline
<1>1. TypeOK'
  <2>1. session[a] \in Session
    BY DEF TypeOK
  <2>2. ForceCheckOutRow(session[a]) \in Session
    BY <2>1 DEF Session, Releasing
  <2>3. session' = [session EXCEPT ![a] = ForceCheckOutRow(session[a])]
    BY DEF TypeOK
  <2>. HIDE DEF ForceCheckOutRow
  <2>. QED BY <2>2, <2>3 DEF TypeOK
<1>2. RowConsistent'
  BY NullAssumption DEF TypeOK, RowConsistent, Session, Reserved, Releasing
<1>3. IntentFree'
  BY DEF IntentFree
<1>4. GrantKept'
  BY NullAssumption DEF TypeOK, GrantKept, RowConsistent, Session, Reserved, Releasing
<1>. QED BY <1>1, <1>2, <1>3, <1>4

\* What one setState of a live call does to the invariant: whatever the call
\* asked for, the rows stay consistent and no other call loses an agent.
LEMMA CallMove ==
  ASSUME Inv, NEW c \in Calls, NEW a \in Agents, NEW from,
         NEW to \in Reserved \cup Releasing,
         session' = SetState(session, Over, c, a, from, to),
         UNCHANGED <<callState, intent, phase>>
  PROVE  /\ session' \in [Agents -> Session]
         /\ RowConsistent'
         /\ IntentFree'
         /\ \A b \in Agents \ {a} : session'[b] = session[b]
         /\ (session'[a] = session[a]) \/ (session'[a] = Moved(session[a], c, to))
         /\ \A d \in Calls \ {c} : \A b \in grants[d] : session'[b].call = d
<1> USE DEF Inv
<1>1. session[a] \in Session /\ (to \in Reserved => c # NoCall)
  BY NullAssumption DEF TypeOK
<1>2. /\ session' \in [Agents -> Session]
      /\ \A b \in Agents \ {a} : session'[b] = session[b]
      /\ session'[a] = IF Refused(session[a], Over, c, from, to) \/ Ignored(session[a], Over, c, to)
                       THEN session[a] ELSE Moved(session[a], c, to)
  <2>1. session \in [Agents -> Session] /\ c \in Calls \cup {NoCall}
    BY DEF TypeOK
  <2>. QED BY <1>1, <2>1, SetStateRows
<1>3. /\ Moved(session[a], c, to).state \in Reserved <=> Moved(session[a], c, to).call # NoCall
      /\ ~Moved(session[a], c, to).pend
  BY <1>1, MovedRow
<1>4. RowConsistent'
  BY <1>2, <1>3 DEF RowConsistent
<1>5. IntentFree'
  BY DEF IntentFree
<1>6. ASSUME NEW d \in Calls \ {c}, NEW b \in grants[d]
      PROVE  session'[b].call = d
  <2>1. b \in Agents /\ session[b].call = d
    BY DEF GrantKept, TypeOK
  <2>2. d \notin Over
    BY DEF GrantKept, Over
  <2>3. b = a => Refused(session[a], Over, c, from, to) \/ Ignored(session[a], Over, c, to)
    BY <1>1, <2>1, <2>2, OtherCallKeepsRow
  <2>. QED BY <1>2, <2>1, <2>3
<1>. QED BY <1>2, <1>4, <1>5, <1>6

LEMMA RequestAgentStep ==
  ASSUME Inv, NEW c \in Calls, RequestAgent(c)
  PROVE  Inv'
<1> USE DEF Inv
<1>1. PICK a \in Pickable(session, c, Agents) :
        /\ session' = Picked(session, c, a)
        /\ grants' = [grants EXCEPT ![c] = @ \cup {a}]
  BY DEF RequestAgent
<1>2. a \in Agents /\ callState[c] = "live" /\ UNCHANGED <<callState, intent, phase>>
  BY <1>1 DEF Pickable, HeldBy, Candidates, RequestAgent
<1>3. CASE HeldBy(session, c) # {}
  <2>1. session[a].call = c /\ session' = session
    BY <1>1, <1>3 DEF Pickable, Picked, HeldBy
  <2>. QED
    BY <1>1, <1>2, <2>1 DEF TypeOK, RowConsistent, IntentFree, GrantKept
<1>4. CASE HeldBy(session, c) = {}
  <2>1. session[a].state = "idle" /\ ~session[a].pend
    BY <1>1, <1>4 DEF Pickable, Candidates
  <2>2. session' = [session EXCEPT ![a] = [@ EXCEPT !.state = "ringing", !.call = c]]
    BY <1>1, <1>4 DEF Picked
  <2>3. session[a].call = NoCall
    BY <2>1, <1>2 DEF RowConsistent, Reserved
  <2>4. TypeOK'
    BY <1>1, <1>2, <2>2 DEF TypeOK, Session, Reserved
  <2>5. RowConsistent'
    BY <1>2, <2>2, NullAssumption DEF TypeOK, RowConsistent, Session, Reserved
  <2>6. IntentFree'
    BY <1>2 DEF IntentFree
  <2>7. GrantKept'
    BY <1>1, <1>2, <2>2, <2>3, NullAssumption DEF TypeOK, GrantKept, Session
  <2>. QED BY <2>4, <2>5, <2>6, <2>7
<1>. QED BY <1>3, <1>4

LEMMA ReserveStep ==
  ASSUME Inv, NEW c \in Calls, NEW a \in Agents, NEW from, NEW to \in Reserved,
         Reserve(c, a, from, to)
  PROVE  Inv'
<1> USE DEF Inv, Reserve
<1>1. session[a] \in Session /\ to \in Reserved \cup Releasing /\ c # NoCall
  BY NullAssumption DEF TypeOK
<1>2. /\ session' \in [Agents -> Session]
      /\ RowConsistent' /\ IntentFree'
      /\ \A b \in Agents \ {a} : session'[b] = session[b]
      /\ \A d \in Calls \ {c} : \A b \in grants[d] : session'[b].call = d
  BY <1>1, CallMove
<1>3. session'[a].call = c
  <2>1. ~Ignored(session[a], Over, c, to)
    BY DEF Ignored, Reserved, Releasing
  <2>2. session \in [Agents -> Session] /\ c \in Calls \cup {NoCall}
    BY DEF TypeOK
  <2>3. session'[a] = Moved(session[a], c, to)
    <3>1. ~Refused(session[a], Over, c, from, to) /\ session' = SetState(session, Over, c, a, from, to)
      OBVIOUS
    <3> HIDE DEF Inv, Reserve
    <3>2. SetState(session, Over, c, a, from, to)[a] =
            IF Refused(session[a], Over, c, from, to) \/ Ignored(session[a], Over, c, to)
            THEN session[a] ELSE Moved(session[a], c, to)
      BY <1>1, <2>2, SetStateRows
    <3>. QED BY <2>1, <3>1, <3>2
  <2>4. Moved(session[a], c, to) = InSession(to, c)
    <3> HIDE DEF Inv, Reserve
    <3>. QED BY <1>1, <2>2, MovedRow
  <2>. QED BY <2>3, <2>4 DEF InSession
<1>4. TypeOK'
  BY <1>2 DEF TypeOK
<1>5. GrantKept'
  BY <1>2, <1>3 DEF GrantKept, TypeOK
<1>. QED BY <1>2, <1>4, <1>5

LEMMA ConnectStep ==
  ASSUME Inv, NEW c \in Calls, NEW a \in Agents, Connect(c, a)
  PROVE  Inv'
<1> USE DEF Inv, Connect
<1>1. /\ session[a] \in Session /\ c # NoCall
      /\ "on_call" \in Reserved /\ "on_call" \in Reserved \cup Releasing
  BY NullAssumption DEF TypeOK, Reserved
<1>2. /\ session' \in [Agents -> Session]
      /\ RowConsistent' /\ IntentFree'
      /\ \A b \in Agents \ {a} : session'[b] = session[b]
      /\ (session'[a] = session[a]) \/ (session'[a] = Moved(session[a], c, "on_call"))
      /\ \A d \in Calls \ {c} : \A b \in grants[d] : session'[b].call = d
  BY <1>1, CallMove
<1>3. session'[a].call = c
  BY <1>1, <1>2, MovedRow DEF GrantKept, InSession
<1>4. TypeOK'
  BY <1>2 DEF TypeOK
<1>5. GrantKept'
  BY <1>2, <1>3 DEF GrantKept, TypeOK
<1>. QED BY <1>2, <1>4, <1>5

LEMMA ReleaseStep ==
  ASSUME Inv, NEW c \in Calls, NEW a \in Agents, NEW from, NEW to \in Releasing,
         Release(c, a, from, to)
  PROVE  Inv'
<1> USE DEF Inv, Release
<1>1. /\ session' \in [Agents -> Session]
      /\ RowConsistent' /\ IntentFree'
      /\ \A b \in Agents \ {a} : session'[b] = session[b]
      /\ \A d \in Calls \ {c} : \A b \in grants[d] : session'[b].call = d
  <2>1. to \in Reserved \cup Releasing
    OBVIOUS
  <2>. QED BY <2>1, CallMove
<1>2. TypeOK'
  BY <1>1 DEF TypeOK
<1>3. GrantKept'
  BY <1>1 DEF GrantKept, TypeOK
<1>. QED BY <1>1, <1>2, <1>3

LEMMA CallEventStep ==
  ASSUME Inv, NEW c \in Calls, StartCall(c) \/ EndCall(c)
  PROVE  Inv'
<1> USE DEF Inv, StartCall, EndCall
<1>1. TypeOK'
  BY DEF TypeOK
<1>2. RowConsistent' /\ IntentFree'
  BY DEF RowConsistent, IntentFree
<1>3. GrantKept'
  BY DEF TypeOK, GrantKept
<1>. QED BY <1>1, <1>2, <1>3

LEMMA RecoveryStep ==
  ASSUME Inv,
         \/ Crash
         \/ Serve
         \/ \E a \in Agents : RecoverReservation(a)
  PROVE  Inv'
<1> USE DEF Inv
<1>1. CASE Crash
  BY <1>1 DEF Crash, TypeOK, RowConsistent, IntentFree, GrantKept, NoIntent, FromStates
<1>2. CASE Serve
  BY <1>2 DEF Serve, TypeOK, RowConsistent, IntentFree, GrantKept
<1>3. ASSUME NEW a \in Agents, RecoverReservation(a)
      PROVE  Inv'
  <2>1. session[a] \in Session
    BY DEF TypeOK
  <2>2. /\ session[a].call \in Calls
        /\ RecoverTarget(session[a]) \in Reserved \cup Releasing
        /\ session' = SetState(session, Over, session[a].call, a,
                               session[a].state, RecoverTarget(session[a]))
        /\ UNCHANGED <<callState, grants, intent, phase>>
    BY <1>3, <2>1 DEF RecoverReservation, Orphaned, RecoverTarget, Session, Releasing
  <2>3. session' \in [Agents -> Session] /\ RowConsistent' /\ IntentFree'
    BY <2>2, CallMove
  <2>4. \A d \in Calls : grants[d] = {}
    BY <1>3 DEF RecoverReservation, AllCallsOver, GrantKept, TypeOK
  <2>5. TypeOK'
    BY <2>2, <2>3 DEF TypeOK
  <2>6. GrantKept'
    BY <2>2, <2>4 DEF GrantKept
  <2>. QED BY <2>3, <2>5, <2>6
<1>. QED BY <1>1, <1>2, <1>3

LEMMA StutterStep ==
  ASSUME Inv, UNCHANGED vars
  PROVE  Inv'
BY DEF Inv, vars, TypeOK, RowConsistent, IntentFree, GrantKept

LEMMA NextInv == Inv /\ [Next]_vars => Inv'
<1> SUFFICES ASSUME Inv, [Next]_vars
             PROVE  Inv'
  OBVIOUS
<1>1. ASSUME NEW a \in Agents, AgentRequest(a)
      PROVE  Inv'
  <2>1. \A to \in {"idle", "busy", "acw", "offline"} : to \in Releasing
    BY DEF Releasing
  <2>. QED
    BY <1>1, <2>1, CheckInStep, ReadPresenceStep, WritePresenceStep, ForceCheckOutStep
       DEF AgentRequest
<1>2. ASSUME NEW c \in Calls, CallRequest(c)
      PROVE  Inv'
  <2>1. CASE StartCall(c) \/ EndCall(c)
    BY <2>1, CallEventStep
  <2>2. CASE RequestAgent(c)
    BY <2>2, RequestAgentStep
  <2>3. ASSUME NEW a \in Agents, NEW m \in ReserveMoves, Reserve(c, a, m[1], m[2])
        PROVE  Inv'
    <3>1. m[2] \in Reserved
      BY DEF ReserveMoves, Reserved
    <3>. QED BY <2>3, <3>1, ReserveStep
  <2>4. ASSUME NEW a \in Agents, Connect(c, a)
        PROVE  Inv'
    BY <2>4, ConnectStep
  <2>5. ASSUME NEW a \in Agents, NEW m \in ReleaseMoves, Release(c, a, m[1], m[2])
        PROVE  Inv'
    <3>1. m[2] \in Releasing
      BY DEF ReleaseMoves, Releasing
    <3>. QED BY <2>5, <3>1, ReleaseStep
  <2>. QED BY <1>2, <2>1, <2>2, <2>3, <2>4, <2>5 DEF CallRequest
<1>3. CASE Crash \/ Serve \/ \E a \in Agents : RecoverReservation(a)
  BY <1>3, RecoveryStep
<1>4. CASE UNCHANGED vars
  BY <1>4, StutterStep
<1>. QED BY <1>1, <1>2, <1>3, <1>4 DEF Next

\* Every state of every behaviour satisfies the inductive invariant.
THEOREM InvHolds == Spec => []Inv
BY InitInv, NextInv, PTL DEF Spec

\* The variables keep their types, with any number of agents and calls.
THEOREM TypesHold == Spec => []TypeOK
<1>1. Inv => TypeOK
  BY DEF Inv
<1>. QED BY <1>1, InvHolds, PTL

\* A row names a call exactly when its agent rings or talks (runtime.go:305-325).
THEOREM RowsConsistent == Spec => []RowConsistent
<1>1. Inv => RowConsistent
  BY DEF Inv
<1>. QED BY <1>1, InvHolds, PTL

\* No interleaving of requests, calls and recovery takes an agent from the live
\* call it was granted to (setState, runtime.go:275-345).
THEOREM GrantsKept == Spec => []GrantKept
<1>1. Inv => GrantKept
  BY DEF Inv
<1>. QED BY <1>1, InvHolds, PTL

-------------------------------------------------------------------------------
(* The refinement of AgentLifecycle *)

RowsMove == /\ session' \in [Agents -> Session]
            /\ \A a \in Agents : RowMayBecome(session[a], session'[a])

LEMMA RowsMoveIsLifecycle ==
  ASSUME Inv, RowsMove
  PROVE  Lifecycle!Next
<1> DEFINE st == [a \in Agents |-> session[a].state]
           cl == [a \in Agents |-> session[a].call]
<1>1. /\ st' \in [Agents -> Lifecycle!Free \cup {"ringing", "on_call"}]
      /\ cl' \in [Agents -> Calls \cup {NoCall}]
  BY DEF RowsMove, Session, Reserved, Releasing, Lifecycle!Free
<1>2. ASSUME NEW a \in Agents
      PROVE  Lifecycle!Step(a) \/ Lifecycle!Becomes(a, st[a], cl[a])
  <2>1. RowMayBecome(session[a], session'[a]) /\ session'[a] \in Session
    BY DEF RowsMove
  <2>2. st[a] = session[a].state /\ cl[a] = session[a].call
    OBVIOUS
  <2>3. st'[a] = session'[a].state /\ cl'[a] = session'[a].call
    OBVIOUS
  <2> HIDE DEF st, cl
  <2>. QED
    BY <2>1, <2>2, <2>3
       DEF RowMayBecome, Reserved, Releasing, Lifecycle!Step, Lifecycle!Becomes,
           Lifecycle!Free, Lifecycle!CheckIn, Lifecycle!Presence, Lifecycle!Offer,
           Lifecycle!Dial, Lifecycle!Connect, Lifecycle!Release, st, cl
<1>. QED BY <1>1, <1>2 DEF Lifecycle!Next

LEMMA RowsMoveStep ==
  ASSUME Inv, [Next]_vars
  PROVE  RowsMove \/ UNCHANGED session
<1> USE DEF Inv
<1>0. session \in [Agents -> Session] /\ \A a \in Agents : session[a] \in Session
  BY DEF TypeOK
<1>1. session' \in [Agents -> Session]
  BY NextInv DEF TypeOK
<1>2. \A s \in Session : RowMayBecome(s, s)
  BY DEF RowMayBecome
<1>3. ASSUME NEW c \in Calls \cup {NoCall}, NEW a \in Agents, NEW from,
             NEW to \in Reserved \cup Releasing, to \in Reserved => c # NoCall,
             session' = SetState(session, Over, c, a, from, to),
             \/ to \in Releasing
             \/ Refused(session[a], Over, c, from, to)
             \/ RowMayBecome(session[a], Moved(session[a], c, to))
      PROVE  RowsMove
  <2>1. /\ \A b \in Agents \ {a} : session'[b] = session[b]
        /\ session'[a] = IF Refused(session[a], Over, c, from, to) \/ Ignored(session[a], Over, c, to)
                         THEN session[a] ELSE Moved(session[a], c, to)
    BY <1>0, <1>3, SetStateRows
  <2>2. session[a].state \in Reserved <=> session[a].call # NoCall
    BY DEF RowConsistent
  <2>3. RowMayBecome(session[a], session'[a])
    BY <1>0, <1>2, <1>3, <2>1, <2>2, ReleasedRow
  <2>. QED BY <1>0, <1>1, <1>2, <2>1, <2>3 DEF RowsMove
<1>4. ASSUME NEW a \in Agents, AgentRequest(a)
      PROVE  RowsMove \/ UNCHANGED session
  <2>1. CASE CheckIn(a)
    BY <1>0, <1>1, <1>2, <2>1
       DEF CheckIn, MayCheckIn, RowsMove, RowMayBecome, InSession, RowConsistent,
           Session, Reserved, Releasing
  <2>2. CASE \E to \in {"idle", "busy", "acw", "offline"} : ReadPresence(a, to)
    BY <2>2 DEF ReadPresence
  <2>3. CASE WritePresence(a)
    <3>1. intent[a].to \in Releasing
      BY <2>3 DEF WritePresence, IntentFree
    <3>2. intent[a].to \in Reserved \cup Releasing /\ intent[a].to \notin Reserved
      BY <3>1 DEF Reserved, Releasing
    <3>3. session' = SetState(session, Over, NoCall, a, intent[a].from, intent[a].to)
      BY <2>3 DEF WritePresence
    <3>. QED BY <1>3, <3>1, <3>2, <3>3
  <2>4. CASE ForceCheckOut(a)
    <3>1. session' = [session EXCEPT ![a] = ForceCheckOutRow(session[a])]
      BY <2>4 DEF ForceCheckOut
    <3>2. RowMayBecome(session[a], ForceCheckOutRow(session[a]))
      BY <1>0 DEF ForceCheckOutRow, RowMayBecome, Offline, Session, RowConsistent,
                  Reserved, Releasing
    <3>. QED BY <1>0, <1>1, <1>2, <3>1, <3>2 DEF RowsMove
  <2>. QED BY <1>4, <2>1, <2>2, <2>3, <2>4 DEF AgentRequest
<1>5. ASSUME NEW c \in Calls, CallRequest(c)
      PROVE  RowsMove \/ UNCHANGED session
  <2>0. c # NoCall
    BY NullAssumption
  <2>1. CASE StartCall(c) \/ EndCall(c)
    BY <2>1 DEF StartCall, EndCall
  <2>2. CASE RequestAgent(c)
    <3>1. PICK a \in Pickable(session, c, Agents) : session' = Picked(session, c, a)
      BY <2>2 DEF RequestAgent
    <3>2. CASE HeldBy(session, c) # {}
      BY <3>1, <3>2 DEF Picked
    <3>3. CASE HeldBy(session, c) = {}
      <4>1. a \in Agents /\ session[a].state = "idle"
        BY <3>1, <3>3 DEF Pickable, Candidates
      <4>2. session' = [session EXCEPT ![a] = [@ EXCEPT !.state = "ringing", !.call = c]]
        BY <3>1, <3>3 DEF Picked
      <4>. QED BY <1>0, <1>1, <1>2, <4>1, <4>2 DEF RowsMove, RowMayBecome, Session
    <3>. QED BY <3>2, <3>3
  <2>3. ASSUME NEW a \in Agents, NEW m \in ReserveMoves, Reserve(c, a, m[1], m[2])
        PROVE  RowsMove \/ UNCHANGED session
    <3>1. /\ m[1] \in {"idle", "acw"} /\ m[2] \in Reserved
          /\ m[2] = "ringing" => m[1] = "idle"
      BY DEF ReserveMoves, Reserved
    <3>2. /\ ~Refused(session[a], Over, c, m[1], m[2])
          /\ session' = SetState(session, Over, c, a, m[1], m[2])
      BY <2>3 DEF Reserve
    <3>3. session[a].state = m[1]
      BY <3>1, <3>2, NullAssumption DEF Refused, Reserved, Releasing
    <3>4. Moved(session[a], c, m[2]) = InSession(m[2], c)
      BY <1>0, <2>0, <3>1, MovedRow
    <3>5. RowMayBecome(session[a], Moved(session[a], c, m[2]))
      BY <3>1, <3>3, <3>4 DEF RowMayBecome, InSession, Reserved
    <3>. QED BY <1>3, <2>0, <3>1, <3>2, <3>5
  <2>4. ASSUME NEW a \in Agents, Connect(c, a)
        PROVE  RowsMove \/ UNCHANGED session
    <3>1. session[a].call = c /\ session' = SetState(session, Over, c, a, "ringing", "on_call")
      BY <2>4 DEF Connect, GrantKept
    <3>2. "on_call" \in Reserved \cup Releasing
      BY DEF Reserved
    <3>3. \/ Refused(session[a], Over, c, "ringing", "on_call")
          \/ session[a].state = "ringing"
      BY <3>1, NullAssumption DEF Refused, OtherLiveCall, Reserved, Releasing
    <3>4. Moved(session[a], c, "on_call") = InSession("on_call", c)
      BY <1>0, <2>0, <3>2, MovedRow DEF Reserved
    <3>5. \/ Refused(session[a], Over, c, "ringing", "on_call")
          \/ RowMayBecome(session[a], Moved(session[a], c, "on_call"))
      BY <3>1, <3>3, <3>4 DEF RowMayBecome, InSession
    <3>. QED BY <1>3, <2>0, <3>1, <3>2, <3>5
  <2>5. ASSUME NEW a \in Agents, NEW m \in ReleaseMoves, Release(c, a, m[1], m[2])
        PROVE  RowsMove \/ UNCHANGED session
    <3>1. m[2] \in Releasing
      BY DEF ReleaseMoves, Releasing
    <3>2. session' = SetState(session, Over, c, a, m[1], m[2])
      BY <2>5 DEF Release
    <3>. QED BY <1>3, <2>0, <3>1, <3>2
  <2>. QED BY <1>5, <2>1, <2>2, <2>3, <2>4, <2>5 DEF CallRequest
<1>6. CASE Crash \/ Serve \/ UNCHANGED vars
  BY <1>6 DEF Crash, Serve, vars
<1>7. ASSUME NEW a \in Agents, RecoverReservation(a)
      PROVE  RowsMove \/ UNCHANGED session
  <2>1. /\ session[a].call \in Calls
        /\ RecoverTarget(session[a]) \in Releasing
        /\ session' = SetState(session, Over, session[a].call, a,
                               session[a].state, RecoverTarget(session[a]))
    BY <1>0, <1>7 DEF RecoverReservation, Orphaned, RecoverTarget, Session, Releasing
  <2>. QED BY <1>3, <2>1, NullAssumption
<1>. QED BY <1>4, <1>5, <1>6, <1>7 DEF Next

\* The session store implements AgentLifecycle: an agent passes from one call
\* to another only through a release (setState and RequestAgent).
THEOREM SessionsImplementLifecycle == Spec => EachAgentLifecycle
<1>1. Init => Lifecycle!Init
  BY DEF Init, Offline, Lifecycle!Init
<1>2. Inv /\ [Next]_vars => [Lifecycle!Next]_(Lifecycle!vars)
  <2> SUFFICES ASSUME Inv, [Next]_vars
               PROVE  [Lifecycle!Next]_(Lifecycle!vars)
    OBVIOUS
  <2>1. CASE RowsMove
    BY <2>1, RowsMoveIsLifecycle
  <2>2. CASE UNCHANGED session
    BY <2>2 DEF Lifecycle!vars
  <2>. QED BY <2>1, <2>2, RowsMoveStep
<1>. QED BY <1>1, <1>2, InvHolds, PTL DEF Spec, EachAgentLifecycle, Lifecycle!Spec
===============================================================================
