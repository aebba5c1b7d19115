--------------------------- MODULE SessionStoreProofs ---------------------------
(***************************************************************************)
(* What one transaction on the table os_agent_sessions does to its rows,   *)
(* for any sets of agents and calls: the lemmas that the proofs about the  *)
(* session store itself and about the calls that use it have in common.    *)
(***************************************************************************)
EXTENDS SessionStore, TLAPS

\* A row that one setState wrote: well typed, and consistent when the row it
\* started from was, unless a releasing caller named no call (runtime.go:305-325).
LEMMA MovedRow ==
  ASSUME NEW s \in Session, NEW c \in Calls \cup {NoCall},
         NEW to \in Reserved \cup Releasing,
         to \in Reserved => c # NoCall
  PROVE  /\ Moved(s, c, to) \in Session
         /\ Moved(s, c, to).state \in Reserved <=> Moved(s, c, to).call # NoCall
         /\ ~Moved(s, c, to).pend
         /\ to \in Reserved => Moved(s, c, to) = InSession(to, c)
BY NullAssumption DEF Moved, Session, Offline, InSession, Reserved, Releasing

\* setState changes at most the row of its agent.
LEMMA SetStateRows ==
  ASSUME NEW ss \in [Agents -> Session], NEW over, NEW c \in Calls \cup {NoCall},
         NEW a \in Agents, NEW from, NEW to \in Reserved \cup Releasing,
         to \in Reserved => c # NoCall
  PROVE  /\ SetState(ss, over, c, a, from, to) \in [Agents -> Session]
         /\ \A b \in Agents \ {a} : SetState(ss, over, c, a, from, to)[b] = ss[b]
         /\ SetState(ss, over, c, a, from, to)[a] =
              IF Refused(ss[a], over, c, from, to) \/ Ignored(ss[a], over, c, to)
              THEN ss[a] ELSE Moved(ss[a], c, to)
<1>1. ss[a] \in Session
  OBVIOUS
<1>2. Moved(ss[a], c, to) \in Session
  BY <1>1, MovedRow
<1>. QED
  BY <1>2 DEF SetState

\* A transaction of one call never touches an agent whose row names another
\* live call: it is ignored when it releases and refused when it reserves.
LEMMA OtherCallKeepsRow ==
  ASSUME NEW s \in Session, NEW over, NEW c \in Calls, NEW d \in Calls \ {c},
         NEW from, NEW to, s.call = d, d \notin over
  PROVE  Refused(s, over, c, from, to) \/ Ignored(s, over, c, to)
BY NullAssumption DEF Refused, Ignored, OtherLiveCall

\* A request of an agent never touches a reserved row: the state it read was
\* a free one (runtime.go:425, 442 and the comparison at 302).
LEMMA FreeRequestKeepsReserved ==
  ASSUME NEW s \in Session, NEW over, NEW from \in Releasing, NEW to,
         s.state \in Reserved
  PROVE  Refused(s, over, NoCall, from, to)
BY NullAssumption DEF Refused, OtherLiveCall, Reserved, Releasing

\* One row along the lifecycle, as a relation between two rows.
RowMayBecome(s, t) ==
  \/ t.state = s.state /\ t.call = s.call
  \/ s.state \in Releasing /\ t.state = "idle" /\ t.call = s.call
  \/ s.state \in Releasing \ {"offline"} /\ t.state \in Releasing /\ t.call = s.call
  \/ s.state = "idle" /\ t.state = "ringing" /\ t.call \in Calls
  \/ s.state \in {"idle", "acw"} /\ t.state = "on_call" /\ t.call \in Calls
  \/ s.state = "ringing" /\ t.state = "on_call" /\ t.call = s.call
  \/ s.state \in Reserved /\ t.state \in Releasing /\ t.call = NoCall

\* A row that a releasing setState wrote is a free row of no call.
LEMMA ReleasedRow ==
  ASSUME NEW s \in Session, NEW over, NEW c \in Calls \cup {NoCall}, NEW from,
         NEW to \in Releasing, ~Refused(s, over, c, from, to),
         s.state \in Reserved <=> s.call # NoCall
  PROVE  RowMayBecome(s, Moved(s, c, to))
BY DEF RowMayBecome, Refused, Moved, Session, Offline, InSession, Reserved, Releasing

\* The rows in which an agent names a call exactly when it rings or talks.
SoundRow == {s \in Session : s.state \in Reserved <=> s.call # NoCall}

\* A setState that releases: the row is as it was, or free.  It is free when
\* it was reserved for that call in the expected state, and it is as it was
\* when it names another live call (runtime.go:275-345).
LEMMA ReleaseRow ==
  ASSUME NEW ss \in [Agents -> SoundRow], NEW over, NEW c \in Calls \cup {NoCall},
         NEW a \in Agents, NEW from, NEW to \in Releasing,
         NEW tt, tt = SetState(ss, over, c, a, from, to)
  PROVE  /\ tt \in [Agents -> SoundRow]
         /\ \A b \in Agents \ {a} : tt[b] = ss[b]
         /\ \/ tt[a] = ss[a]
            \/ /\ tt[a].call = NoCall /\ tt[a].state \in Releasing
               /\ c \in Calls => ss[a].call \in {NoCall, c} \cup over
         /\ ss[a].call = c /\ c \in Calls /\ from \in {AnyState, ss[a].state}
              => tt[a].call = NoCall /\ tt[a].state \in Releasing
         /\ RowMayBecome(ss[a], tt[a])
<1> DEFINE s == ss[a]
           r == Moved(s, c, to)
           stays == Refused(s, over, c, from, to) \/ Ignored(s, over, c, to)
<1>1. s \in Session /\ (s.state \in Reserved <=> s.call # NoCall)
  BY DEF SoundRow
<1>2. to \in Reserved \cup Releasing /\ to \notin Reserved
  BY DEF Reserved, Releasing
<1>3. /\ r \in Session
      /\ r.state \in Reserved <=> r.call # NoCall
  BY <1>1, <1>2, MovedRow
<1>4. r.call = NoCall /\ r.state \in Releasing
  BY DEF Moved, Offline, InSession, Releasing
<1>5. tt = IF stays THEN ss ELSE [ss EXCEPT ![a] = r]
  BY DEF SetState
<1>6. tt[a] = IF stays THEN s ELSE r
  BY <1>5
<1>7. r \in SoundRow
  BY <1>3 DEF SoundRow
<1>8. tt \in [Agents -> SoundRow] /\ \A b \in Agents \ {a} : tt[b] = ss[b]
  BY <1>5, <1>7
<1>9. ~stays /\ c \in Calls => s.call \in {NoCall, c} \cup over
  BY NullAssumption DEF Ignored, OtherLiveCall, Refused
<1>10. s.call = c /\ c \in Calls /\ from \in {AnyState, s.state} => ~stays
  BY <1>1, NullAssumption DEF Ignored, OtherLiveCall, Refused, Reserved, Releasing
<1>11. ~stays => RowMayBecome(s, r)
  BY <1>1, ReleasedRow
<1>12. RowMayBecome(s, s)
  BY DEF RowMayBecome
<1> HIDE DEF s, r, stays
<1>13. ss[a] = s
  BY DEF s
<1>. QED BY <1>4, <1>6, <1>8, <1>9, <1>10, <1>11, <1>12, <1>13

\* A setState that reserves and is not refused: the row names the call, and
\* it named no other live one (runtime.go:275-345).
LEMMA TakeRow ==
  ASSUME NEW ss \in [Agents -> SoundRow], NEW over, NEW c \in Calls,
         NEW a \in Agents, NEW from, NEW to \in Reserved,
         ~Refused(ss[a], over, c, from, to),
         NEW tt, tt = SetState(ss, over, c, a, from, to)
  PROVE  /\ tt \in [Agents -> SoundRow]
         /\ \A b \in Agents \ {a} : tt[b] = ss[b]
         /\ tt[a] = InSession(to, c)
         /\ ss[a].call \in {NoCall, c} \cup over
         /\ from # AnyState => ss[a].state = from
<1>1. to \notin Releasing
  BY DEF Reserved, Releasing
<1>2. ~Ignored(ss[a], over, c, to) /\ ~OtherLiveCall(ss[a], over, c)
  BY <1>1 DEF Ignored, Refused
<1>3. ss[a] \in Session /\ c # NoCall /\ to \in Reserved \cup Releasing
  BY NullAssumption DEF SoundRow
<1>4. Moved(ss[a], c, to) = InSession(to, c)
  BY <1>3, MovedRow
<1>5. tt = [ss EXCEPT ![a] = InSession(to, c)]
  BY <1>2, <1>4 DEF SetState
<1>6. InSession(to, c) \in SoundRow
  BY <1>3 DEF InSession, SoundRow, Session
<1>7. ss[a].call \in {NoCall, c} \cup over /\ (from # AnyState => ss[a].state = from)
  BY <1>2, <1>3 DEF OtherLiveCall, Refused
<1>. QED BY <1>5, <1>6, <1>7

\* A refused setState changes nothing.
LEMMA RefusedRow ==
  ASSUME NEW ss, NEW over, NEW c, NEW a, NEW from, NEW to,
         Refused(ss[a], over, c, from, to)
  PROVE  SetState(ss, over, c, a, from, to) = ss
BY DEF SetState

===============================================================================
