----------------------------- MODULE SessionStore -----------------------------
(***************************************************************************)
(* The table os_agent_sessions and the transactions of                     *)
(* open-switch/internal/layers/cccore/runtime.go on one row of it.  A row  *)
(* is a record [state, call, pend]; a missing row is Offline.  Every       *)
(* operator below is the effect of ONE database transaction, so the        *)
(* modules that use them interleave at transaction boundaries.             *)
(***************************************************************************)
EXTENDS FiniteSets

CONSTANTS Agents,     \* agent ids
          Calls,      \* call ids
          NoCall,     \* current_call_id IS NULL, or callID = "" in setState
          AnyState    \* fromState = "" in setState: the state is not compared

Reserved  == {"ringing", "on_call"}
Releasing == {"idle", "acw", "busy", "offline"}

ASSUME NullAssumption == /\ NoCall \notin Calls
                         /\ AnyState \notin Reserved \cup Releasing

\* The values of fromState; "" (AnyState) matches every state.
FromStates == Reserved \cup Releasing \cup {AnyState}

Session == [state : Reserved \cup Releasing,
            call  : Calls \cup {NoCall},
            pend  : BOOLEAN]

Offline == [state |-> "offline", call |-> NoCall, pend |-> FALSE]

InSession(st, c) == [state |-> st, call |-> c, pend |-> FALSE]

(***************************************************************************)
(* setState.  over is the set of calls that are missing or ended in        *)
(* os_calls: a current call among them is stale and is dropped.  While the *)
(* current call is another live one, a releasing target is silently        *)
(* ignored and any other is refused.                                       *)
(***************************************************************************)
\* Mutant: the current call of the agent is not looked at.
OtherLiveCallIgnored(s, over, c) == FALSE

OtherLiveCall(s, over, c) ==
  /\ c # NoCall
  /\ s.call \notin {NoCall, c}
  /\ s.call \notin over

Refused(s, over, c, from, to) ==
  \/ s.state = "offline"
  \/ OtherLiveCall(s, over, c) /\ to \notin Releasing
  \/ ~OtherLiveCall(s, over, c) /\ from # AnyState /\ s.state # from

Ignored(s, over, c, to) == OtherLiveCall(s, over, c) /\ to \in Releasing

Moved(s, c, to) ==
  LET current == IF to \in Releasing THEN NoCall
                 ELSE IF c = NoCall THEN s.call ELSE c
  IN  IF to = "offline" \/ (s.pend /\ current = NoCall)
      THEN Offline
      ELSE InSession(to, current)

SetState(ss, over, c, a, from, to) ==
  IF Refused(ss[a], over, c, from, to) \/ Ignored(ss[a], over, c, to)
  THEN ss
  ELSE [ss EXCEPT ![a] = Moved(ss[a], c, to)]

(***************************************************************************)
(* setState with reason "force-check-out": a busy agent only gets marked.  *)
(***************************************************************************)
ForceCheckOutRow(s) ==
  IF s.state = "offline" THEN s
  ELSE IF s.call # NoCall THEN [s EXCEPT !.pend = TRUE]
  ELSE Offline

(***************************************************************************)
(* RequestAgent.  A call that already holds an agent gets that agent back; *)
(* otherwise an idle agent of the queue, not marked for check-out, is      *)
(* reserved.  The ORDER BY of the query (longest idle or round robin) is   *)
(* a choice among the candidates.                                          *)
(***************************************************************************)
HeldBy(ss, c) == {a \in Agents : ss[a].call = c /\ ss[a].state \in Reserved}

\* Mutant: an agent in after-call work is taken for an idle one.
CandidatesInACW(ss, members) ==
  {a \in members : ss[a].state \in {"idle", "acw"} /\ ~ss[a].pend}

Candidates(ss, members) ==
  {a \in members : ss[a].state = "idle" /\ ~ss[a].pend}

Pickable(ss, c, members) ==
  IF HeldBy(ss, c) # {} THEN HeldBy(ss, c) ELSE Candidates(ss, members)

Picked(ss, c, a) ==
  IF HeldBy(ss, c) # {} THEN ss
  ELSE [ss EXCEPT ![a] = [@ EXCEPT !.state = "ringing", !.call = c]]

(***************************************************************************)
(* CheckIn refuses an agent that rings or talks and otherwise resets the   *)
(* row.  CheckOut and SetPresence read the row in one statement, refuse    *)
(* the same two states, and write in a second transaction whose fromState  *)
(* is what they read.                                                      *)
(***************************************************************************)
MayCheckIn(s) == s.state \notin Reserved

MaySetPresence(s) == s.state \notin Reserved \cup {"offline"}

(***************************************************************************)
(* RecoverReservations: the row of an agent whose call is over.            *)
(***************************************************************************)
Orphaned(s, over) == s.call # NoCall /\ s.call \in over

RecoverTarget(s) == IF s.state = "on_call" THEN "acw" ELSE "idle"

===============================================================================
