--------------------------- MODULE CallControlProofs ---------------------------
(***************************************************************************)
(* CallControl for any calls, agents, queues and legs, whatever commands   *)
(* the operators give and whatever fails: the types, that os_calls says    *)
(* what the memory says, that an ended call stays ended, and that the      *)
(* switch serves nobody before every agent of an unfinished call is free.  *)
(*                                                                         *)
(* The invariant is Base.  TypeOK is not inductive: a transition writes    *)
(* into the row of an agent what it has read there, so Base says of every  *)
(* row that its state and its call agree (SoundRow, of the proofs about    *)
(* the sessions); a handler may only run once the recovery is over, so     *)
(* Base says that until then nothing is in memory (RecoveryIdle); and the  *)
(* dispatch follows the queue of a call it found before other handlers     *)
(* ran.  One lemma for each kind of step (BaseAgent, BaseCommand and the   *)
(* like) shows Base' and, of the same step, EndedKept.                     *)
(***************************************************************************)
EXTENDS CallControl, SessionStoreProofs, ListProofs

-------------------------------------------------------------------------------
(* Sequences of legs *)

\* The legs after an answer: the agent is the last of them.
LEMMA AppendRange ==
  ASSUME NEW S, NEW s \in Seq(S), NEW a \in S
  PROVE  /\ Append(s, a) \in Seq(S)
         /\ Len(Append(s, a)) = Len(s) + 1
         /\ Range(Append(s, a)) = Range(s) \cup {a}
         /\ \A i \in 1 .. Len(s) : Append(s, a)[i] = s[i]
         /\ Append(s, a)[Len(s) + 1] = a
<1> DEFINE t == Append(s, a)
<1>1. /\ t \in Seq(S) /\ Len(t) = Len(s) + 1
      /\ \A i \in 1 .. Len(s) : t[i] = s[i]
      /\ t[Len(s) + 1] = a
  BY AppendProperties
<1>2. Range(t) = {t[i] : i \in 1 .. Len(t)} /\ Range(s) = {s[i] : i \in 1 .. Len(s)}
  BY <1>1, RangeEquality
<1>3. Len(s) \in Nat
  OBVIOUS
<1> HIDE DEF t
<1>4. 1 .. Len(t) = (1 .. Len(s)) \cup {Len(s) + 1}
  BY <1>1, <1>3
<1>5. Range(t) = Range(s) \cup {a}
  BY <1>1, <1>2, <1>4
<1>. QED BY <1>1, <1>5 DEF t

\* The loop that removes an agent's legs leaves the other agents' legs, each as
\* often as before at most.
LEMMA WithoutProperties ==
  ASSUME NEW S, NEW legs \in Seq(S), NEW a
  PROVE  /\ Without(legs, a) \in Seq(S)
         /\ Len(Without(legs, a)) <= Len(legs)
         /\ Range(Without(legs, a)) = Range(legs) \ {a}
         /\ (\A i, j \in 1 .. Len(legs) : legs[i] = legs[j] => i = j) =>
              \A i, j \in 1 .. Len(Without(legs, a)) :
                Without(legs, a)[i] = Without(legs, a)[j] => i = j
<1> DEFINE d == Dropping(legs, {a})
<1>1. /\ d \in Seq(S) /\ Len(d) \in 0 .. Len(legs)
      /\ \A i \in 1 .. Len(d) : d[i] \notin {a}
      /\ \A i \in 1 .. Len(legs) : legs[i] \notin {a} => \E j \in 1 .. Len(d) : d[j] = legs[i]
  BY DroppingProperties
<1>2. PICK f : PlacesOf(f, d, legs, Len(legs))
  BY DroppingProperties
<1> HIDE DEF d
<1>3. Len(legs) \in Nat /\ Len(d) \in Nat
  BY <1>1
<1>4. /\ f \in [1 .. Len(d) -> 1 .. Len(legs)]
      /\ \A i \in 1 .. Len(d) : d[i] = legs[f[i]]
  BY <1>2 DEF PlacesOf
<1>5. Range(d) = Range(legs) \ {a}
  <2>1. Range(d) = {d[i] : i \in 1 .. Len(d)} /\ Range(legs) = {legs[i] : i \in 1 .. Len(legs)}
    BY <1>1, RangeEquality
  <2>2. \A x : x \in Range(d) => x \in Range(legs) /\ x # a
    BY <1>1, <1>4, <2>1
  <2>3. \A x : x \in Range(legs) /\ x # a => x \in Range(d)
    BY <1>1, <2>1
  <2>. QED BY <2>2, <2>3
<1>6. ASSUME \A i, j \in 1 .. Len(legs) : legs[i] = legs[j] => i = j,
             NEW i \in 1 .. Len(d), NEW j \in 1 .. Len(d), d[i] = d[j]
      PROVE  i = j
  <2>1. f[i] \in 1 .. Len(legs) /\ f[j] \in 1 .. Len(legs) /\ legs[f[i]] = legs[f[j]]
    BY <1>4, <1>6
  <2>2. f[i] = f[j]
    BY <1>6, <2>1
  <2>. QED BY <1>2, <1>3, <2>2, PlacesApart
<1>7. (\A i, j \in 1 .. Len(legs) : legs[i] = legs[j] => i = j) =>
        \A i, j \in 1 .. Len(d) : d[i] = d[j] => i = j
  BY <1>6
<1>8. d \in Seq(S) /\ Len(d) <= Len(legs)
  BY <1>1, <1>3
<1>. QED BY <1>5, <1>7, <1>8 DEF d, Without

-------------------------------------------------------------------------------
(* Types, the memory and os_calls: these hold whatever the operators do and  *)
(* whatever fails.                                                           *)

\* While the switch recovers, nothing of the calls is in memory.
RecoveryIdle ==
  phase = "recovering" => /\ \A c \in Calls : mem[c].state = "none"
                          /\ dials = {} /\ dispatching = {}

Base == /\ TypeOK
        /\ session \in [Agents -> SoundRow]
        /\ RecoveryIdle
        /\ \A c \in dispatching : mem[c].queue # NoQueue
        /\ MemoryPersisted

\* The step of EndedForGood.
EndedKept == \A c \in Calls : db[c].state = "ended" =>
               db'[c].state = "ended" /\ mem'[c].state = "none"

LEMMA SoundRowIsSession == \A s \in SoundRow : s \in Session
BY DEF SoundRow

\* A setState keeps the rows sound unless it reserves for no call.
LEMMA SetsRows ==
  ASSUME NEW ss \in [Agents -> SoundRow], NEW c \in Calls \cup {NoCall},
         NEW a \in Agents, NEW from, NEW to \in Reserved \cup Releasing,
         to \in Reserved => c \in Calls
  PROVE  Sets(ss, c, a, from, to) \in [Agents -> SoundRow]
<1>1. CASE to \in Releasing
  BY <1>1, ReleaseRow DEF Sets
<1>2. CASE Refused(ss[a], Over, c, from, to)
  BY <1>2, RefusedRow DEF Sets
<1>3. CASE to \in Reserved /\ ~Refused(ss[a], Over, c, from, to)
  BY <1>3, TakeRow DEF Sets
<1>. QED BY <1>1, <1>2, <1>3

LEMMA ReleasedRows ==
  ASSUME NEW ss \in [Agents -> SoundRow], NEW c \in Calls, NEW m
  PROVE  Released(ss, c, m) \in [Agents -> SoundRow]
<1> DEFINE R(from, to) == [a \in Agents |-> Sets(ss, c, a, from, to)[a]]
<1>1. /\ "idle" \in Releasing /\ "acw" \in Releasing
      /\ \A to \in Releasing : to \in Reserved \cup Releasing /\ to \notin Reserved
  BY DEF Releasing, Reserved
<1>2. ASSUME NEW a \in Agents, NEW from, NEW to \in Releasing
      PROVE  Sets(ss, c, a, from, to)[a] \in SoundRow
  <2>1. Sets(ss, c, a, from, to) \in [Agents -> SoundRow]
    BY <1>1, SetsRows
  <2>. QED BY <2>1
<1> DEFINE after == IF m.state \in Talking \/ m.consult # NoAgent THEN "acw" ELSE "idle"
<1>3. after \in Releasing
  BY <1>1
<1>4. ASSUME NEW a \in Agents
      PROVE  Released(ss, c, m)[a] \in SoundRow
  <2>1. Released(ss, c, m)[a] =
          IF a = m.offered
          THEN IF m.state = "ringing" THEN Sets(ss, c, a, "ringing", "idle")[a]
               ELSE Sets(ss, c, a, "on_call", after)[a]
          ELSE IF a \in Range(m.legs) THEN Sets(ss, c, a, "on_call", after)[a]
          ELSE ss[a]
    BY DEF Released
  <2> HIDE DEF after
  <2>. QED BY <1>1, <1>2, <1>3, <2>1
<1>5. Released(ss, c, m) = [a \in Agents |-> Released(ss, c, m)[a]]
  BY DEF Released
<1>. QED BY <1>4, <1>5

\* What a handler of the call c has to establish.
LEMMA CallWrites ==
  ASSUME Base, phase = "up", UNCHANGED phase,
         NEW c \in Calls, NEW m \in RuntimeCall, NEW r \in CallRecord,
         mem' = [mem EXCEPT ![c] = m], Len(m.legs) <= MaxLegs,
         db' = [db EXCEPT ![c] = r],
         db[c].state # "ended",
         IF m.state = "none" THEN r.state \in {"none", "ended"} ELSE r.state = m.state,
         session' \in [Agents -> SoundRow],
         dials' \subseteq Dial, registered' \subseteq SipAgents,
         dispatching' \subseteq dispatching \cup {c},
         c \in dispatching' => m.state = "queued" /\ m.queue # NoQueue
  PROVE  Base' /\ EndedKept
<1> USE DEF Base
<1>1. mem \in [Calls -> RuntimeCall] /\ db \in [Calls -> CallRecord]
  BY DEF TypeOK
<1>2. \A d \in Calls \ {c} : mem'[d] = mem[d] /\ db'[d] = db[d]
  BY <1>1
<1>3. mem'[c] = m /\ db'[c] = r
  BY <1>1
<1>4. mem' \in [Calls -> RuntimeCall] /\ db' \in [Calls -> CallRecord]
  BY <1>1
<1>5. \A d \in Calls : Len(mem'[d].legs) <= MaxLegs
  BY <1>2, <1>3 DEF TypeOK
<1>6. dispatching' \subseteq {d \in Calls : mem'[d].state = "queued"}
  BY <1>2, <1>3 DEF TypeOK
<1>7. session' \in [Agents -> Session]
  BY SoundRowIsSession
<1>8. TypeOK'
  BY <1>4, <1>5, <1>6, <1>7 DEF TypeOK
<1>9. MemoryPersisted'
  BY <1>2, <1>3 DEF MemoryPersisted
<1>10. \A d \in dispatching' : mem'[d].queue # NoQueue
  BY <1>2, <1>3 DEF TypeOK
<1>11. EndedKept
  BY <1>2, <1>3 DEF EndedKept, MemoryPersisted, TypeOK, RuntimeCall, Live
<1>12. RecoveryIdle'
  BY DEF RecoveryIdle
<1>. QED BY <1>8, <1>9, <1>10, <1>11, <1>12

\* transition writes the memory and os_calls together.
LEMMA TransitionWrites ==
  ASSUME Base, phase = "up", UNCHANGED phase,
         NEW c \in Calls, NEW m \in RuntimeCall, Transition(c, m),
         m.state \in Live, Len(m.legs) <= MaxLegs, db[c].state # "ended",
         session' \in [Agents -> SoundRow],
         dials' \subseteq Dial, registered' \subseteq SipAgents,
         dispatching' \subseteq dispatching \cup {c},
         c \in dispatching' => m.state = "queued" /\ m.queue # NoQueue
  PROVE  Base' /\ EndedKept
<1>1. Row(m) \in CallRecord /\ Row(m).state = m.state /\ m.state # "none"
  BY DEF Row, CallRecord, RuntimeCall, Live
<1>2. mem' = [mem EXCEPT ![c] = m] /\ db' = [db EXCEPT ![c] = Row(m)]
  BY DEF Transition
<1>. QED BY <1>1, <1>2, CallWrites

LEMMA GoneCall ==
  Gone \in RuntimeCall /\ Gone.state = "none" /\ Len(Gone.legs) = 0
<1>1. <<>> \in Seq(Agents) /\ Len(<<>>) = 0
  OBVIOUS
<1>. QED BY <1>1 DEF Gone, Fresh, RuntimeCall, Kinds

LEMMA FreshCall ==
  ASSUME NEW kind \in Kinds, NEW q \in Queues \cup {NoQueue}
  PROVE  /\ Fresh(kind, q) \in RuntimeCall
         /\ Fresh(kind, q).state = "created" /\ Len(Fresh(kind, q).legs) = 0
         /\ Fresh(kind, q).queue = q
<1>1. <<>> \in Seq(Agents) /\ Len(<<>>) = 0
  OBVIOUS
<1>. QED BY <1>1 DEF Fresh, RuntimeCall, Live

\* Hangup ends a call that has not ended before.
LEMMA HangUpWrites ==
  ASSUME Base, phase = "up", UNCHANGED phase,
         NEW c \in Calls, NEW m \in RuntimeCall, NEW ss \in [Agents -> SoundRow],
         HangUp(ss, c, m), db[c].state # "ended",
         dials' \subseteq Dial, registered' \subseteq SipAgents,
         dispatching' \subseteq dispatching, c \notin dispatching
  PROVE  Base' /\ EndedKept
<1> DEFINE r == [Row(m) EXCEPT !.state = "ended"]
<1>1. r \in CallRecord /\ r.state = "ended"
  BY DEF Row, CallRecord, RuntimeCall
<1>2. mem' = [mem EXCEPT ![c] = Gone] /\ db' = [db EXCEPT ![c] = r]
  BY DEF HangUp
<1>3. session' \in [Agents -> SoundRow]
  BY ReleasedRows DEF HangUp
<1>4. Len(Gone.legs) <= MaxLegs
  BY GoneCall, CallAssumption
<1> HIDE DEF r
<1>. QED BY <1>1, <1>2, <1>3, <1>4, GoneCall, CallWrites

\* What a handler finds when it has taken the lock of a call it knows.
LEMMA HandlerFinds ==
  ASSUME Base, NEW c \in Calls, Handles(c)
  PROVE  /\ phase = "up" /\ c \notin dispatching
         /\ mem[c] \in RuntimeCall /\ mem[c].state \in Live
         /\ Len(mem[c].legs) <= MaxLegs
         /\ db[c] \in CallRecord /\ db[c].state = mem[c].state /\ db[c].state # "ended"
         /\ session \in [Agents -> SoundRow] /\ dials \subseteq Dial
         /\ registered \subseteq SipAgents
<1>1. mem[c] \in RuntimeCall /\ mem[c].state # "none" /\ db[c] \in CallRecord
  BY DEF Base, TypeOK, Handles
<1>2. mem[c].state \in Live
  BY <1>1 DEF RuntimeCall
<1>3. phase = "up" /\ c \notin dispatching
  BY DEF Handles, LockFree
<1>4. db[c].state = mem[c].state
  BY <1>1, <1>3 DEF Base, MemoryPersisted
<1>. QED BY <1>1, <1>2, <1>3, <1>4 DEF Base, TypeOK, Live

\* What a request finds that starts a new call.
LEMMA BeginFinds ==
  ASSUME Base, NEW c \in Calls, phase = "up", db[c].state = "none"
  PROVE  /\ mem[c].state = "none" /\ c \notin dispatching /\ db[c].state # "ended"
         /\ session \in [Agents -> SoundRow] /\ dials \subseteq Dial
         /\ registered \subseteq SipAgents
BY DEF Base, TypeOK, MemoryPersisted, RuntimeCall, Live

LEMMA AgentStepBase ==
  ASSUME Base, NEW a \in Agents, AgentStep(a)
  PROVE  Base' /\ EndedKept
<1>1. session' \in [Agents -> SoundRow]
  <2>0. session \in [Agents -> SoundRow] /\ session[a] \in SoundRow
    BY DEF Base
  <2>1. CASE CheckIn(a)
    <3>1. InSession("idle", NoCall) \in SoundRow
      BY DEF InSession, SoundRow, Session, Reserved, Releasing
    <3>. QED BY <2>0, <2>1, <3>1 DEF CheckIn
  <2>2. ASSUME NEW to \in {"idle", "busy", "offline"}, SetPresence(a, to)
        PROVE  session' \in [Agents -> SoundRow]
    <3>1. to \in Reserved \cup Releasing /\ to \notin Reserved
      BY DEF Reserved, Releasing
    <3>2. session' = Sets(session, NoCall, a, AnyState, to)
      BY <2>2 DEF SetPresence
    <3>. QED BY <2>0, <3>1, <3>2, SetsRows
  <2>3. CASE ForceCheckOut(a)
    <3>1. ForceCheckOutRow(session[a]) \in SoundRow
      BY <2>0 DEF ForceCheckOutRow, SoundRow, Session, Offline, Reserved, Releasing
    <3>. QED BY <2>0, <2>3, <3>1 DEF ForceCheckOut
  <2>4. CASE DeviceRegisters(a) \/ DeviceExpires(a)
    BY <2>0, <2>4 DEF DeviceRegisters, DeviceExpires
  <2>5. CASE RecoverReservation(a)
    <3>1. /\ session[a].call \in Calls
          /\ session' = Sets(session, session[a].call, a, session[a].state,
                             RecoverTarget(session[a]))
      BY <2>0, <2>5 DEF RecoverReservation, Orphaned, SoundRow, Session
    <3>2. RecoverTarget(session[a]) \in Reserved \cup Releasing
      BY DEF RecoverTarget, Releasing
    <3>. QED BY <2>0, <3>1, <3>2, SetsRows
  <2>. QED
    BY AgentStep(a), <2>1, <2>2, <2>3, <2>4, <2>5 DEF AgentStep
<1>2. /\ UNCHANGED <<mem, db, dials, dispatching, phase>>
      /\ registered' \subseteq SipAgents
  BY DEF AgentStep, CheckIn, SetPresence, ForceCheckOut, DeviceRegisters,
         DeviceExpires, RecoverReservation, Base, TypeOK
<1>3. session' \in [Agents -> Session]
  BY <1>1, SoundRowIsSession
<1>4. EndedKept
  BY <1>2 DEF EndedKept, Base, TypeOK, MemoryPersisted, RecoveryIdle, RuntimeCall, Live
<1>. QED
  BY <1>1, <1>2, <1>3, <1>4 DEF Base, TypeOK, RecoveryIdle, MemoryPersisted

\* A ringing device adds the id of its dial to the call and nothing else.
LEMMA RingEffect ==
  ASSUME NEW c \in Calls, NEW a \in Agents, NEW m \in RuntimeCall, Ring(c, a, m),
         dials \subseteq Dial
  PROVE  \E leg \in Legs \cup {NoLeg}, cancel \in BOOLEAN :
           /\ Transition(c, [m EXCEPT !.sipLeg = leg, !.sipCancel = cancel])
           /\ dials' \subseteq Dial
           /\ \A d \in dials' \ dials : d.call = c /\ d.agent = a
<1>1. CASE a \in SipAgents
  <2> DEFINE leg == CHOOSE l \in FreeLegs(c) : TRUE
             new == [call |-> c, agent |-> a, leg |-> leg]
  <2>1. leg \in Legs
    BY <1>1 DEF Ring, FreeLegs
  <2>2. /\ Transition(c, [m EXCEPT !.sipLeg = leg, !.sipCancel = TRUE])
        /\ dials' = dials \cup {new}
    BY <1>1 DEF Ring
  <2>3. new \in Dial /\ new.call = c /\ new.agent = a
    BY <2>1 DEF Dial
  <2> HIDE DEF leg, new
  <2>. QED BY <2>1, <2>2, <2>3
<1>2. CASE a \notin SipAgents
  <2>1. m = [m EXCEPT !.sipLeg = m.sipLeg, !.sipCancel = m.sipCancel]
    BY DEF RuntimeCall
  <2>2. Transition(c, m) /\ dials' = dials
    BY <1>2 DEF Ring
  <2>3. m.sipLeg \in Legs \cup {NoLeg} /\ m.sipCancel \in BOOLEAN
    BY DEF RuntimeCall
  <2> DEFINE k == [m EXCEPT !.sipLeg = m.sipLeg, !.sipCancel = m.sipCancel]
  <2>4. Transition(c, k)
    BY <2>1, <2>2
  <2>. QED BY <2>2, <2>3, <2>4
<1>. QED BY <1>1, <1>2

\* An agent's request to be called, or a transfer, ends in a device that rings.
LEMMA RingBase ==
  ASSUME Base, phase = "up", UNCHANGED phase,
         NEW c \in Calls, NEW a \in Agents, NEW m \in RuntimeCall, Ring(c, a, m),
         m.state \in Live, Len(m.legs) <= MaxLegs, db[c].state # "ended",
         session' \in [Agents -> SoundRow], registered' \subseteq SipAgents,
         dispatching' \subseteq dispatching, c \notin dispatching'
  PROVE  Base' /\ EndedKept
<1>1. dials \subseteq Dial
  BY DEF Base, TypeOK
<1>2. PICK leg \in Legs \cup {NoLeg}, cancel \in BOOLEAN :
        /\ Transition(c, [m EXCEPT !.sipLeg = leg, !.sipCancel = cancel])
        /\ dials' \subseteq Dial
  BY <1>1, RingEffect
<1> DEFINE k == [m EXCEPT !.sipLeg = leg, !.sipCancel = cancel]
<1>3. k \in RuntimeCall /\ k.state = m.state /\ k.legs = m.legs /\ k.queue = m.queue
  BY DEF RuntimeCall
<1>4. Transition(c, k)
  BY <1>2
<1> HIDE DEF k
<1>. QED BY <1>2, <1>3, <1>4, TransitionWrites

\* A call that is put into a queue is dispatched from it.
LEMMA QueueWrites ==
  ASSUME Base, phase = "up", UNCHANGED phase,
         NEW c \in Calls, NEW m \in RuntimeCall, ToQueue(c, m),
         Len(m.legs) <= MaxLegs, db[c].state # "ended", c \notin dispatching,
         session' \in [Agents -> SoundRow],
         dials' \subseteq Dial, registered' \subseteq SipAgents
  PROVE  Base' /\ EndedKept
<1> DEFINE k == [m EXCEPT !.state = "queued"]
<1>1. k \in RuntimeCall /\ k.state = "queued" /\ k.legs = m.legs /\ k.queue = m.queue
  BY DEF RuntimeCall, Live
<1>2. Transition(c, k) /\ k.state \in Live
  BY DEF ToQueue, Live
<1>3. /\ dispatching' \subseteq dispatching \cup {c}
      /\ c \in dispatching' => k.queue # NoQueue
  BY <1>1 DEF ToQueue
<1> HIDE DEF k
<1>. QED BY <1>1, <1>2, <1>3, TransitionWrites

LEMMA BeginBase ==
  ASSUME Base, NEW c \in Calls, Begin(c)
  PROVE  Base' /\ EndedKept
<1>0. phase = "up" /\ db[c].state = "none" /\ UNCHANGED <<phase, registered>>
  BY DEF Begin, StartQueued, StartInIVR, StartClosed, StartFails, InternalCall,
         DialRefused, CarrierCall, CarrierUnusable, CarrierFails, DialOut
<1>1. /\ mem[c].state = "none" /\ c \notin dispatching /\ db[c].state # "ended"
      /\ session \in [Agents -> SoundRow] /\ dials \subseteq Dial
      /\ registered \subseteq SipAgents
  BY <1>0, BeginFinds
<1>2. MaxLegs \in Nat /\ 0 <= MaxLegs /\ 1 <= MaxLegs
  BY CallAssumption
<1>3. "inbound" \in Kinds /\ "internal" \in Kinds /\ "pstn" \in Kinds
  BY DEF Kinds
<1>4. CASE StartQueued(c)
  <2>1. PICK q \in Queues : ToQueue(c, Fresh("inbound", q))
    BY <1>4 DEF StartQueued
  <2>2. UNCHANGED <<session, dials>>
    BY <1>4 DEF StartQueued
  <2>. QED BY <1>0, <1>1, <1>2, <1>3, <2>1, <2>2, FreshCall, QueueWrites
<1>5. CASE StartInIVR(c)
  <2>1. PICK q \in Queues \cup {NoQueue} :
          Transition(c, [Fresh("inbound", q) EXCEPT !.state = "ivr"])
    BY <1>5 DEF StartInIVR
  <2> DEFINE m == [Fresh("inbound", q) EXCEPT !.state = "ivr"]
  <2>2. m \in RuntimeCall /\ m.state \in Live /\ Len(m.legs) <= MaxLegs
    BY <1>2, <1>3, FreshCall DEF RuntimeCall, Live
  <2>3. UNCHANGED <<session, dials, dispatching>>
    BY <1>5 DEF StartInIVR
  <2>4. Transition(c, m)
    BY <2>1
  <2> HIDE DEF m
  <2>. QED BY <1>0, <1>1, <2>2, <2>3, <2>4, TransitionWrites
<1>6. CASE StartClosed(c)
  BY <1>0, <1>1, <1>3, <1>6, FreshCall, HangUpWrites DEF StartClosed
<1>7. CASE StartFails(c)
  <2>1. PICK q \in Queues : Transition(c, Fresh("inbound", q))
    BY <1>7 DEF StartFails
  <2>2. UNCHANGED <<session, dials, dispatching>>
    BY <1>7 DEF StartFails
  <2>3. "created" \in Live
    BY DEF Live
  <2>. QED BY <1>0, <1>1, <1>2, <1>3, <2>1, <2>2, <2>3, FreshCall, TransitionWrites
<1>8. ASSUME NEW a \in Agents
      PROVE  /\ \A kind \in Kinds :
                  /\ Source(kind, a) \in RuntimeCall
                  /\ Source(kind, a).state \in Live
                  /\ Len(Source(kind, a).legs) <= MaxLegs
             /\ OnCall(c, a) \in [Agents -> SoundRow]
  <2>1. <<a>> \in Seq(Agents) /\ Len(<<a>>) = 1
    OBVIOUS
  <2>2. ASSUME NEW kind \in Kinds
        PROVE  /\ Source(kind, a) \in RuntimeCall
               /\ Source(kind, a).state \in Live
               /\ Len(Source(kind, a).legs) <= MaxLegs
    <3>1. Fresh(kind, NoQueue) \in RuntimeCall /\ Fresh(kind, NoQueue).state = "created"
      BY FreshCall
    <3>2. /\ Source(kind, a) \in RuntimeCall /\ Source(kind, a).state = "created"
          /\ Source(kind, a).legs = <<a>>
      BY <2>1, <3>1 DEF Source, RuntimeCall
    <3>. QED BY <1>2, <2>1, <3>2 DEF Live
  <2>3. "on_call" \in Reserved \cup Releasing
    BY DEF Reserved
  <2>4. OnCall(c, a) \in [Agents -> SoundRow]
    BY <1>1, <2>3, SetsRows DEF OnCall
  <2>. QED BY <2>2, <2>4
<1>9. ASSUME NEW a \in Agents, NEW b \in Agents \ {a}, InternalCall(c, a, b)
      PROVE  Base' /\ EndedKept
  <2> DEFINE src   == Source("internal", a)
             offer == [src EXCEPT !.state = "ringing", !.offered = b]
             rung  == Sets(OnCall(c, a), c, b, "idle", "ringing")
  <2>0. src \in RuntimeCall /\ Len(src.legs) <= MaxLegs
    BY <1>3, <1>8
  <2>1. /\ offer \in RuntimeCall /\ offer.state \in Live /\ Len(offer.legs) <= MaxLegs
        /\ src \in RuntimeCall
    <3> HIDE DEF src
    <3>1. offer \in RuntimeCall /\ offer.state = "ringing" /\ offer.legs = src.legs
      BY <2>0 DEF RuntimeCall, Live
    <3>. QED BY <2>0, <3>1 DEF Live
  <2>2. "ringing" \in Reserved \cup Releasing
    BY DEF Reserved
  <2>3. rung \in [Agents -> SoundRow] /\ OnCall(c, a) \in [Agents -> SoundRow]
    BY <1>8, <2>2, SetsRows
  <2>4. UNCHANGED dispatching
    BY <1>9 DEF InternalCall
  <2>5. \/ HangUp(OnCall(c, a), c, src) /\ UNCHANGED dials
        \/ session' = rung /\ Ring(c, b, offer)
        \/ HangUp(rung, c, offer) /\ UNCHANGED dials
    BY <1>9 DEF InternalCall
  <2> HIDE DEF src, offer, rung
  <2>6. CASE HangUp(OnCall(c, a), c, src) /\ UNCHANGED dials
    BY <1>0, <1>1, <2>1, <2>3, <2>4, <2>6, HangUpWrites
  <2>7. CASE session' = rung /\ Ring(c, b, offer)
    BY <1>0, <1>1, <2>1, <2>3, <2>4, <2>7, RingBase
  <2>8. CASE HangUp(rung, c, offer) /\ UNCHANGED dials
    BY <1>0, <1>1, <2>1, <2>3, <2>4, <2>8, HangUpWrites
  <2>. QED BY <2>5, <2>6, <2>7, <2>8
<1>10. ASSUME NEW a \in Agents, DialRefused(c, a)
       PROVE  Base' /\ EndedKept
  <2> DEFINE r == [Row(Gone) EXCEPT !.state = "ended"]
  <2>1. r \in CallRecord /\ r.state = "ended"
    BY GoneCall DEF Row, CallRecord, RuntimeCall
  <2>2. /\ mem' = [mem EXCEPT ![c] = mem[c]] /\ db' = [db EXCEPT ![c] = r]
        /\ UNCHANGED <<session, dials, dispatching>>
        /\ mem[c] \in RuntimeCall /\ Len(mem[c].legs) <= MaxLegs
    BY <1>10 DEF DialRefused, Base, TypeOK
  <2> HIDE DEF r
  <2>. QED BY <1>0, <1>1, <2>1, <2>2, CallWrites
<1>11. ASSUME NEW a \in Agents, CarrierCall(c, a)
       PROVE  Base' /\ EndedKept
  <2> DEFINE src == Source("pstn", a)
             m == [src EXCEPT !.state = "ringing"]
             d == [call |-> c, agent |-> NoAgent, leg |-> NoLeg]
  <2>0. src \in RuntimeCall /\ Len(src.legs) <= MaxLegs
    BY <1>3, <1>8
  <2>1. m \in RuntimeCall /\ m.state \in Live /\ Len(m.legs) <= MaxLegs
    <3> HIDE DEF src
    <3>1. m \in RuntimeCall /\ m.state = "ringing" /\ m.legs = src.legs
      BY <2>0 DEF RuntimeCall, Live
    <3>. QED BY <2>0, <3>1 DEF Live
  <2>2. d \in Dial
    BY DEF Dial
  <2>3. /\ Transition(c, m) /\ dials' = dials \cup {d}
        /\ session' = OnCall(c, a) /\ UNCHANGED dispatching
    BY <1>11 DEF CarrierCall
  <2> HIDE DEF m, d
  <2>. QED BY <1>0, <1>1, <1>8, <2>1, <2>2, <2>3, TransitionWrites
<1>12. ASSUME NEW a \in Agents, CarrierUnusable(c, a)
       PROVE  Base' /\ EndedKept
  BY <1>0, <1>1, <1>3, <1>8, <1>12, HangUpWrites DEF CarrierUnusable
<1>13. ASSUME NEW a \in Agents, CarrierFails(c, a)
       PROVE  Base' /\ EndedKept
  <2> DEFINE m == Source("pstn", a)
             r == Row(Fresh("pstn", NoQueue))
  <2>1. m \in RuntimeCall /\ m.state = "created" /\ Len(m.legs) <= MaxLegs
    BY <1>3, <1>8 DEF Source, Fresh
  <2>2. r \in CallRecord /\ r.state = "created"
    BY <1>3, FreshCall DEF Row, CallRecord, RuntimeCall
  <2>3. /\ mem' = [mem EXCEPT ![c] = m] /\ db' = [db EXCEPT ![c] = r]
        /\ session' = OnCall(c, a) /\ UNCHANGED <<dials, dispatching>>
    BY <1>13 DEF CarrierFails
  <2> HIDE DEF m, r
  <2>. QED BY <1>0, <1>1, <1>8, <2>1, <2>2, <2>3, CallWrites
<1>. QED
  BY Begin(c), <1>4, <1>5, <1>6, <1>7, <1>9, <1>10, <1>11, <1>12, <1>13 DEF Begin

\* One leg is left out by a transfer, one is added by an answer.
LEMMA LegsChange ==
  ASSUME NEW m \in RuntimeCall, NEW a
  PROVE  /\ WithoutLegs(m, a) \in RuntimeCall
         /\ Len(WithoutLegs(m, a).legs) <= Len(m.legs)
         /\ WithoutLegs(m, a) = [m EXCEPT !.legs = Without(m.legs, a)]
<1>1. m.legs \in Seq(Agents)
  BY DEF RuntimeCall
<1>2. Without(m.legs, a) \in Seq(Agents) /\ Len(Without(m.legs, a)) <= Len(m.legs)
  BY <1>1, WithoutProperties
<1>. QED BY <1>2 DEF WithoutLegs, RuntimeCall

\* The agent that answers becomes the active agent and has a leg.
AnsweredCall(m, a) ==
  [m EXCEPT !.state = IF m.consult \in {NoAgent, a} THEN "active" ELSE "held",
            !.active = a, !.offered = NoAgent, !.sipCancel = FALSE,
            !.legs = Append(m.legs, a), !.answered = TRUE]

LEMMA AnsweredTyped ==
  ASSUME NEW m \in RuntimeCall, NEW a \in Agents
  PROVE  /\ AnsweredCall(m, a) \in RuntimeCall
         /\ AnsweredCall(m, a).state \in Talking
         /\ AnsweredCall(m, a).legs = Append(m.legs, a)
<1> DEFINE st == IF m.consult \in {NoAgent, a} THEN "active" ELSE "held"
           q  == Append(m.legs, a)
<1>1. q \in Seq(Agents)
  BY AppendProperties DEF RuntimeCall
<1>2. st \in Talking /\ st \in Live
  BY DEF Talking, Live
<1> DEFINE n == [m EXCEPT !.state = st, !.active = a, !.offered = NoAgent,
                          !.sipCancel = FALSE, !.legs = q, !.answered = TRUE]
<1>3. AnsweredCall(m, a) = n
  BY DEF AnsweredCall
<1> HIDE DEF st, q
<1>4. n \in RuntimeCall
  BY <1>1, <1>2 DEF RuntimeCall
<1>5. n.state = st /\ n.legs = q
  BY DEF RuntimeCall
<1> HIDE DEF n
<1>. QED BY <1>2, <1>3, <1>4, <1>5 DEF q

LEMMA AnsweredBase ==
  ASSUME Base, NEW c \in Calls, NEW a \in Agents, phase = "up", UNCHANGED phase,
         Answered(c, a), RoomForLeg(c), c \notin dispatching,
         mem[c].state # "none",
         dials' \subseteq Dial, UNCHANGED <<registered, dispatching>>
  PROVE  Base' /\ EndedKept
<1> DEFINE m == mem[c]
           k == AnsweredCall(m, a)
<1>1. Handles(c)
  BY DEF Handles, LockFree
<1>2. m \in RuntimeCall /\ db[c].state # "ended" /\ session \in [Agents -> SoundRow]
      /\ registered \subseteq SipAgents
  BY <1>1, HandlerFinds
<1>3. m.legs \in Seq(Agents)
  BY <1>2 DEF RuntimeCall
<1>4. Append(m.legs, a) \in Seq(Agents) /\ Len(Append(m.legs, a)) = Len(m.legs) + 1
  BY <1>3, AppendProperties
<1>5. Transition(c, k)
  BY DEF Answered, AnsweredCall
<1>6. Len(m.legs) + 1 <= MaxLegs
  BY <1>3, CallAssumption DEF RoomForLeg
<1>7. "on_call" \in Reserved \cup Releasing
  BY DEF Reserved
<1>8. session' \in [Agents -> SoundRow]
  BY <1>2, <1>7, SetsRows DEF Answered
<1> HIDE DEF m
<1>9. k \in RuntimeCall /\ k.state \in Live /\ k.legs = Append(m.legs, a)
  BY <1>2, AnsweredTyped DEF Talking, Live
<1> HIDE DEF k
<1>. QED BY <1>2, <1>4, <1>5, <1>6, <1>8, <1>9, TransitionWrites

\* A lost offer goes back to the consulting agent or into the queue.
LEMMA OfferLostBase ==
  ASSUME Base, NEW c \in Calls, Handles(c), mem[c].offered # NoAgent,
         OfferLost(c), UNCHANGED <<dials, phase, registered>>
  PROVE  Base' /\ EndedKept
<1> DEFINE m == [mem[c] EXCEPT !.offered = NoAgent]
           k == [m EXCEPT !.consult = NoAgent, !.state = "active"]
<1>1. /\ phase = "up" /\ c \notin dispatching /\ db[c].state # "ended"
      /\ mem[c] \in RuntimeCall /\ Len(mem[c].legs) <= MaxLegs
      /\ session \in [Agents -> SoundRow] /\ dials \subseteq Dial
      /\ registered \subseteq SipAgents
  BY HandlerFinds
<1>2. mem[c].offered \in Agents
  BY <1>1 DEF RuntimeCall
<1>3. m \in RuntimeCall /\ m.legs = mem[c].legs /\ k \in RuntimeCall
      /\ k.state = "active" /\ k.legs = mem[c].legs
  BY <1>1 DEF RuntimeCall, Live
<1>4. "idle" \in Reserved \cup Releasing /\ "idle" \notin Reserved
  BY DEF Reserved, Releasing
<1>5. session' \in [Agents -> SoundRow]
  BY <1>1, <1>2, <1>4, SetsRows DEF OfferLost
<1>6. CASE m.consult # NoAgent
  <2>1. Transition(c, k) /\ UNCHANGED dispatching /\ k.state \in Live
    BY <1>3, <1>6 DEF OfferLost, Live
  <2> HIDE DEF m, k
  <2>. QED BY <1>1, <1>3, <1>5, <2>1, TransitionWrites
<1>7. CASE m.consult = NoAgent
  <2>1. ToQueue(c, m)
    BY <1>7 DEF OfferLost
  <2> HIDE DEF m
  <2>. QED BY <1>1, <1>3, <1>5, <2>1, QueueWrites
<1>. QED BY <1>6, <1>7

\* The target of a transfer rings, or only waits for the timeout.
LEMMA RingTargetBase ==
  ASSUME Base, NEW c \in Calls, Handles(c), NEW b \in Agents, NEW m \in RuntimeCall,
         RingTarget(c, b, m), m.state \in Live, Len(m.legs) <= MaxLegs,
         session' \in [Agents -> SoundRow], UNCHANGED <<dispatching, phase, registered>>
  PROVE  Base' /\ EndedKept
<1>1. /\ phase = "up" /\ c \notin dispatching /\ db[c].state # "ended"
      /\ dials \subseteq Dial /\ registered \subseteq SipAgents
  BY HandlerFinds
<1>2. CASE Ring(c, b, m)
  BY <1>1, <1>2, RingBase
<1>3. CASE Transition(c, m) /\ UNCHANGED dials
  BY <1>1, <1>3, TransitionWrites
<1>. QED BY <1>2, <1>3 DEF RingTarget

\* How many legs EnterIVR has released when it stops.
LEMMA LegsLeft ==
  ASSUME NEW s \in Seq(Agents), NEW n \in 0 .. Len(s)
  PROVE  /\ SubSeq(s, n + 1, Len(s)) \in Seq(Agents)
         /\ Len(SubSeq(s, n + 1, Len(s))) = Len(s) - n
         /\ \A i \in 1 .. Len(s) - n : SubSeq(s, n + 1, Len(s))[i] = s[n + i]
<1>1. Len(s) \in Nat /\ n \in Nat /\ n <= Len(s)
  OBVIOUS
<1>2. \A i \in n + 1 .. Len(s) : s[i] \in Agents
  BY <1>1
<1>3. /\ SubSeq(s, n + 1, Len(s)) \in Seq(Agents)
      /\ Len(SubSeq(s, n + 1, Len(s))) =
           IF n + 1 <= Len(s) THEN Len(s) - (n + 1) + 1 ELSE 0
      /\ \A i \in 1 .. Len(s) - (n + 1) + 1 :
           SubSeq(s, n + 1, Len(s))[i] = s[(n + 1) + i - 1]
  <2>1. n + 1 \in Int /\ Len(s) \in Int
    BY <1>1
  <2>. QED BY <1>2, <2>1, SubSeqProperties
<1>. QED BY <1>1, <1>3

\* EnterIVR goes through the legs in their order up to the first refusal.
Stuck(c) == {i \in DOMAIN mem[c].legs :
               \/ Rejects(c, mem[c].legs[i], "on_call", "acw")
               \/ /\ ~OtherLiveCall(session[mem[c].legs[i]], Over, c)
                  /\ \E j \in 1 .. i - 1 : mem[c].legs[j] = mem[c].legs[i]}

LegsDone(c) == IF Stuck(c) = {} THEN Len(mem[c].legs)
               ELSE (CHOOSE i \in Stuck(c) : \A j \in Stuck(c) : i <= j) - 1

LEMMA LegsDoneType ==
  ASSUME NEW c \in Calls, mem[c] \in RuntimeCall
  PROVE  LegsDone(c) \in 0 .. Len(mem[c].legs)
<1>1. mem[c].legs \in Seq(Agents)
  BY DEF RuntimeCall
<1>2. DOMAIN mem[c].legs = 1 .. Len(mem[c].legs) /\ Len(mem[c].legs) \in Nat
  BY <1>1
<1>3. CASE Stuck(c) # {}
  <2>1. Stuck(c) \subseteq 1 .. Len(mem[c].legs)
    BY <1>2 DEF Stuck
  <2>2. Stuck(c) \in SUBSET Nat
    BY <1>2, <2>1
  <2>3. \E i \in Stuck(c) : \A j \in Stuck(c) : i <= j
    BY <1>3, <2>2, Least
  <2> DEFINE first == CHOOSE i \in Stuck(c) : \A j \in Stuck(c) : i <= j
  <2>4. first \in Stuck(c)
    BY <2>3
  <2>5. LegsDone(c) = first - 1
    BY <1>3 DEF LegsDone
  <2> HIDE DEF first
  <2>. QED BY <1>2, <2>1, <2>4, <2>5
<1>4. CASE Stuck(c) = {}
  <2>1. LegsDone(c) = Len(mem[c].legs)
    BY <1>4 DEF LegsDone
  <2>. QED BY <1>2, <2>1
<1>. QED BY <1>3, <1>4

\* What EnterIVR does, step by step.
LEMMA EnterIVREffect ==
  ASSUME NEW c \in Calls, EnterIVR(c)
  PROVE  LET done == LegsDone(c)
             m == [mem[c] EXCEPT !.legs = SubSeq(mem[c].legs, done + 1, Len(mem[c].legs))]
         IN  /\ session' = [a \in Agents |->
                  IF \E i \in 1 .. done : mem[c].legs[i] = a
                  THEN Sets(session, c, a, "on_call", "acw")[a] ELSE session[a]]
             /\ IF Stuck(c) = {}
                THEN Transition(c, [m EXCEPT !.state = "ivr", !.active = NoAgent,
                                             !.offered = NoAgent])
                ELSE mem' = [mem EXCEPT ![c] = m] /\ UNCHANGED db
BY DEF EnterIVR, LegsDone, Stuck

LEMMA EnterIVRBase ==
  ASSUME Base, NEW c \in Calls, EnterIVR(c)
  PROVE  Base' /\ EndedKept
<1> DEFINE done == LegsDone(c)
           rest == SubSeq(mem[c].legs, done + 1, Len(mem[c].legs))
           m == [mem[c] EXCEPT !.legs = rest]
           k == [m EXCEPT !.state = "ivr", !.active = NoAgent, !.offered = NoAgent]
<1>1. Handles(c) /\ UNCHANGED <<dials, dispatching, phase, registered>>
  BY DEF EnterIVR
<1>2. /\ phase = "up" /\ c \notin dispatching /\ db[c].state # "ended"
      /\ db[c].state = mem[c].state /\ mem[c].state \in Live
      /\ mem[c] \in RuntimeCall /\ Len(mem[c].legs) <= MaxLegs /\ db[c] \in CallRecord
      /\ session \in [Agents -> SoundRow] /\ dials \subseteq Dial
      /\ registered \subseteq SipAgents
  BY <1>1, HandlerFinds
<1>3. mem[c].legs \in Seq(Agents) /\ done \in 0 .. Len(mem[c].legs)
  BY <1>2, LegsDoneType DEF RuntimeCall
<1>4. rest \in Seq(Agents) /\ Len(rest) = Len(mem[c].legs) - done
  <2> HIDE DEF done
  <2>. QED BY <1>3, LegsLeft
<1>5. /\ session' = [a \in Agents |->
           IF \E i \in 1 .. done : mem[c].legs[i] = a
           THEN Sets(session, c, a, "on_call", "acw")[a] ELSE session[a]]
      /\ IF Stuck(c) = {} THEN Transition(c, k)
         ELSE mem' = [mem EXCEPT ![c] = m] /\ UNCHANGED db
  BY EnterIVREffect
<1> HIDE DEF done, rest
<1>6. m \in RuntimeCall /\ Len(m.legs) <= MaxLegs /\ m.state = mem[c].state
  <2>1. Len(rest) <= MaxLegs
    <3>1. Len(mem[c].legs) \in Nat /\ MaxLegs \in Nat
      BY <1>3, CallAssumption
    <3>. QED BY <1>2, <1>3, <1>4, <3>1
  <2>. QED BY <1>2, <1>4, <2>1 DEF RuntimeCall
<1>7. k \in RuntimeCall /\ k.legs = m.legs /\ k.state = "ivr" /\ "ivr" \in Live
  <2> HIDE DEF m
  <2>. QED BY <1>6 DEF RuntimeCall, Live
<1> HIDE DEF m, k
<1>8. session' \in [Agents -> SoundRow]
  <2>1. "acw" \in Reserved \cup Releasing /\ "acw" \notin Reserved
    BY DEF Reserved, Releasing
  <2>2. \A a \in Agents : Sets(session, c, a, "on_call", "acw") \in [Agents -> SoundRow]
    BY <1>2, <2>1, SetsRows
  <2>. QED BY <1>2, <1>5, <2>2
<1>9. CASE Stuck(c) = {}
  BY <1>1, <1>2, <1>5, <1>6, <1>7, <1>8, <1>9, TransitionWrites
<1>10. CASE Stuck(c) # {}
  <2>1. db' = [db EXCEPT ![c] = db[c]] /\ mem' = [mem EXCEPT ![c] = m]
    BY <1>5, <1>10 DEF Base, TypeOK
  <2>2. m.state # "none"
    BY <1>2, <1>6 DEF Live
  <2>. QED BY <1>1, <1>2, <1>6, <1>8, <2>1, <2>2, CallWrites
<1>. QED BY <1>9, <1>10

LEMMA CommandBase ==
  ASSUME Base, NEW c \in Calls, Command(c)
  PROVE  Base' /\ EndedKept
<1>1. Handles(c) /\ UNCHANGED <<phase, registered>>
  BY DEF Command, Hangup, HangupFails, Hold, CompleteTransfer, EnterIVR, LeaveIVR,
         QueueTransfer, Answer, Decline, BlindTransfer, ConsultTransfer, ConferenceInvite
<1>2. /\ phase = "up" /\ c \notin dispatching /\ db[c].state # "ended"
      /\ db[c].state = mem[c].state /\ mem[c].state \in Live
      /\ mem[c] \in RuntimeCall /\ Len(mem[c].legs) <= MaxLegs /\ db[c] \in CallRecord
      /\ session \in [Agents -> SoundRow] /\ dials \subseteq Dial
      /\ registered \subseteq SipAgents
  BY <1>1, HandlerFinds
<1>3. /\ \A to \in {"ringing", "on_call", "idle", "acw", "busy"} : to \in Reserved \cup Releasing
      /\ {"idle", "acw", "busy"} \cap Reserved = {}
  BY DEF Reserved, Releasing
<1>4. CASE Hangup(c)
  BY <1>1, <1>2, <1>4, HangUpWrites DEF Hangup
<1>5. CASE HangupFails(c)
  <2> DEFINE m == [mem[c] EXCEPT !.sipCancel = FALSE]
  <2>1. m \in RuntimeCall /\ m.legs = mem[c].legs /\ m.state = mem[c].state
    BY <1>2 DEF RuntimeCall
  <2>2. mem' = [mem EXCEPT ![c] = m] /\ db' = [db EXCEPT ![c] = db[c]]
        /\ UNCHANGED <<dials, dispatching>>
    BY <1>5 DEF HangupFails, Base, TypeOK
  <2>3. session' \in [Agents -> SoundRow]
    BY <1>2, <1>5, ReleasedRows DEF HangupFails
  <2>4. m.state # "none"
    BY <1>2, <2>1 DEF Live
  <2> HIDE DEF m
  <2>. QED BY <1>1, <1>2, <2>1, <2>2, <2>3, <2>4, CallWrites
<1>6. CASE Hold(c)
  <2>1. PICK st \in Talking : Transition(c, [mem[c] EXCEPT !.state = st])
    BY <1>6 DEF Hold
  <2> DEFINE m == [mem[c] EXCEPT !.state = st]
  <2>2. m \in RuntimeCall /\ m.legs = mem[c].legs /\ m.state \in Live /\ st # "queued"
    BY <1>2 DEF RuntimeCall, Talking, Live
  <2>3. Transition(c, m) /\ UNCHANGED <<session, dials, dispatching>>
    BY <1>6, <2>1 DEF Hold
  <2> HIDE DEF m
  <2>. QED BY <1>1, <1>2, <2>2, <2>3, TransitionWrites
<1>7. CASE CompleteTransfer(c)
  <2> DEFINE w == WithoutLegs(mem[c], mem[c].consult)
             m == [w EXCEPT !.consult = NoAgent, !.state = "active"]
  <2>1. mem[c].consult \in Agents
    BY <1>2, <1>7 DEF CompleteTransfer, RuntimeCall
  <2>2. w \in RuntimeCall /\ Len(w.legs) <= Len(mem[c].legs)
    BY <1>2, LegsChange
  <2>3. /\ Transition(c, m) /\ UNCHANGED <<dials, dispatching>>
        /\ session' = Sets(session, c, mem[c].consult, "on_call", "acw")
    BY <1>7 DEF CompleteTransfer
  <2> HIDE DEF w
  <2>4. m \in RuntimeCall /\ m.legs = w.legs /\ m.state \in Live
    BY <2>2 DEF RuntimeCall, Live
  <2>5. Len(w.legs) \in Nat /\ Len(mem[c].legs) \in Nat /\ MaxLegs \in Nat
    BY <1>2, <2>2, CallAssumption DEF RuntimeCall
  <2> HIDE DEF m
  <2>6. session' \in [Agents -> SoundRow]
    BY <1>2, <1>3, <2>1, <2>3, SetsRows
  <2>7. Len(m.legs) <= MaxLegs
    BY <1>2, <2>2, <2>4, <2>5
  <2>. QED BY <1>1, <1>2, <2>3, <2>4, <2>6, <2>7, TransitionWrites
<1>8. CASE EnterIVR(c)
  BY <1>8, EnterIVRBase
<1>9. CASE LeaveIVR(c)
  <2>1. CASE \E q \in Queues \cup {mem[c].queue} :
               ToQueue(c, [mem[c] EXCEPT !.queue = q]) /\ UNCHANGED session
    <3>1. PICK q \in Queues \cup {mem[c].queue} :
            ToQueue(c, [mem[c] EXCEPT !.queue = q]) /\ UNCHANGED session
      BY <2>1
    <3> DEFINE m == [mem[c] EXCEPT !.queue = q]
    <3>2. m \in RuntimeCall /\ m.legs = mem[c].legs /\ ToQueue(c, m) /\ UNCHANGED dials
      BY <1>2, <1>9, <3>1 DEF RuntimeCall, LeaveIVR
    <3> HIDE DEF m
    <3>. QED BY <1>1, <1>2, <3>1, <3>2, QueueWrites
  <2>2. CASE HangUp(session, c, mem[c]) /\ UNCHANGED dispatching
    <3>1. UNCHANGED dials
      BY <1>9 DEF LeaveIVR
    <3>. QED BY <1>1, <1>2, <2>2, <3>1, HangUpWrites
  <2>. QED BY <1>9, <2>1, <2>2 DEF LeaveIVR
<1>10. ASSUME NEW q \in Queues, QueueTransfer(c, q)
       PROVE  Base' /\ EndedKept
  <2> DEFINE from == CurrentAgent(mem[c])
             m == [mem[c] EXCEPT !.queue = q, !.offered = NoAgent, !.consult = NoAgent]
  <2>1. m \in RuntimeCall /\ m.legs = mem[c].legs
    BY <1>2 DEF RuntimeCall
  <2>2. from \in Agents \cup {NoAgent}
    BY <1>2 DEF CurrentAgent, RuntimeCall
  <2>3. /\ ToQueue(c, m) /\ UNCHANGED dials
        /\ session' = IF from = NoAgent THEN session
                      ELSE Sets(session, c, from, "on_call", "acw")
    BY <1>10 DEF QueueTransfer
  <2> HIDE DEF m, from
  <2>4. session' \in [Agents -> SoundRow]
    BY <1>2, <1>3, <2>2, <2>3, SetsRows
  <2>. QED BY <1>1, <1>2, <2>1, <2>3, <2>4, QueueWrites
<1>11. ASSUME NEW a \in Agents, Answer(c, a)
       PROVE  Base' /\ EndedKept
  <2>1. mem[c].state # "none"
    BY <1>2 DEF Live
  <2>. QED BY <1>1, <1>2, <1>11, <2>1, AnsweredBase DEF Answer
<1>12. ASSUME NEW a \in Agents, Decline(c, a)
       PROVE  Base' /\ EndedKept
  <2>1. mem[c].offered # NoAgent
    BY <1>12, CallAssumption DEF Decline
  <2>. QED BY <1>1, <1>12, <2>1, OfferLostBase DEF Decline
<1>13. ASSUME NEW b \in Agents, BlindTransfer(c, b)
       PROVE  Base' /\ EndedKept
  <2> DEFINE from == CurrentAgent(mem[c])
             rung == Sets(session, c, b, "idle", "ringing")
             m0 == [mem[c] EXCEPT !.state = "ringing", !.offered = b, !.consult = NoAgent]
             m == WithoutLegs(m0, from)
  <2>1. m0 \in RuntimeCall /\ m0.state = "ringing" /\ m0.legs = mem[c].legs
    BY <1>2 DEF RuntimeCall, Live
  <2>2. from \in Agents \cup {NoAgent}
    BY <1>2 DEF CurrentAgent, RuntimeCall
  <2>3. /\ RingTarget(c, b, m) /\ UNCHANGED dispatching
        /\ session' = IF from = NoAgent THEN rung
                      ELSE Sets(rung, c, from, "on_call", "acw")
    BY <1>13 DEF BlindTransfer
  <2> HIDE DEF m0, from, rung
  <2>4. m \in RuntimeCall /\ Len(m.legs) <= Len(m0.legs) /\ m.state = m0.state
    <3>1. m \in RuntimeCall /\ Len(m.legs) <= Len(m0.legs) /\ m = [m0 EXCEPT !.legs = Without(m0.legs, from)]
      BY <2>1, LegsChange
    <3> HIDE DEF m
    <3>2. m.state = m0.state
      BY <2>1, <3>1 DEF RuntimeCall
    <3>. QED BY <3>1, <3>2
  <2>5. rung \in [Agents -> SoundRow]
    BY <1>2, <1>3, SetsRows DEF rung
  <2>6. session' \in [Agents -> SoundRow]
    BY <1>3, <2>2, <2>3, <2>5, SetsRows
  <2> HIDE DEF m
  <2>7. Len(m.legs) \in Nat /\ Len(mem[c].legs) \in Nat /\ MaxLegs \in Nat
    BY <1>2, <2>4, CallAssumption DEF RuntimeCall
  <2>8. m.state \in Live /\ Len(m.legs) <= MaxLegs
    BY <1>2, <2>1, <2>4, <2>7 DEF Live
  <2>. QED BY <1>1, <2>3, <2>4, <2>6, <2>8, RingTargetBase
<1>14. ASSUME NEW b \in Agents, ConsultTransfer(c, b)
       PROVE  Base' /\ EndedKept
  <2> DEFINE m == [mem[c] EXCEPT !.state = "ringing", !.offered = b,
                                 !.consult = CurrentAgent(mem[c])]
  <2>1. CurrentAgent(mem[c]) \in Agents \cup {NoAgent}
    BY <1>2 DEF CurrentAgent, RuntimeCall
  <2>2. m \in RuntimeCall /\ m.state \in Live /\ m.legs = mem[c].legs
    BY <1>2, <2>1 DEF RuntimeCall, Live
  <2>3. /\ RingTarget(c, b, m) /\ UNCHANGED dispatching
        /\ session' = Sets(session, c, b, "idle", "ringing")
    BY <1>14 DEF ConsultTransfer
  <2>4. session' \in [Agents -> SoundRow]
    BY <1>2, <1>3, <2>3, SetsRows
  <2> HIDE DEF m
  <2>. QED BY <1>1, <1>2, <2>2, <2>3, <2>4, RingTargetBase
<1>15. ASSUME NEW b \in Agents, ConferenceInvite(c, b)
       PROVE  Base' /\ EndedKept
  <2> DEFINE m == [mem[c] EXCEPT !.offered = b]
  <2>1. m \in RuntimeCall /\ m.legs = mem[c].legs /\ m.state = mem[c].state
    BY <1>2 DEF RuntimeCall
  <2>2. mem' = [mem EXCEPT ![c] = m] /\ db' = [db EXCEPT ![c] = db[c]]
        /\ UNCHANGED <<dials, dispatching>>
    BY <1>15 DEF ConferenceInvite, Base, TypeOK
  <2>3. session' \in [Agents -> SoundRow]
    BY <1>2, <1>3, <1>15, SetsRows DEF ConferenceInvite
  <2>4. m.state # "none"
    BY <1>2, <2>1 DEF Live
  <2> HIDE DEF m
  <2>. QED BY <1>1, <1>2, <2>1, <2>2, <2>3, <2>4, CallWrites
<1>16. CASE \E a \in Agents : \/ Answer(c, a) \/ Decline(c, a) \/ BlindTransfer(c, a)
                               \/ ConsultTransfer(c, a) \/ ConferenceInvite(c, a)
  <2> HIDE DEF EndedKept
  <2>. QED BY <1>11, <1>12, <1>13, <1>14, <1>15, <1>16
<1>. QED
  BY Command(c), <1>4, <1>5, <1>6, <1>7, <1>8, <1>9, <1>10, <1>16 DEF Command

\* A step that writes nothing of a live call.
LEMMA CallStands ==
  ASSUME Base, phase = "up", UNCHANGED phase, NEW c \in Calls, UNCHANGED <<mem, db>>,
         db[c].state # "ended", session' \in [Agents -> SoundRow],
         dials' \subseteq Dial, registered' \subseteq SipAgents,
         dispatching' \subseteq dispatching \cup {c}, c \notin dispatching'
  PROVE  Base' /\ EndedKept
<1> DEFINE m == mem[c]
           r == db[c]
<1>1. /\ mem' = [mem EXCEPT ![c] = m] /\ db' = [db EXCEPT ![c] = r]
      /\ m \in RuntimeCall /\ r \in CallRecord /\ Len(m.legs) <= MaxLegs
  BY DEF Base, TypeOK
<1>2. IF m.state = "none" THEN r.state \in {"none", "ended"} ELSE r.state = m.state
  BY DEF Base, MemoryPersisted
<1>3. db[c].state # "ended"
  OBVIOUS
<1> HIDE DEF m, r
<1>. QED BY <1>1, <1>2, <1>3, CallWrites

LEMMA DispatchBase ==
  ASSUME Base, NEW c \in Calls, Dispatch(c)
  PROVE  Base' /\ EndedKept
<1>1. phase = "up" /\ c \in dispatching /\ UNCHANGED <<phase, registered>>
  BY DEF Dispatch, NobodyFree, Offer, OfferFails
<1>2. /\ mem[c] \in RuntimeCall /\ mem[c].state = "queued" /\ mem[c].queue # NoQueue
      /\ Len(mem[c].legs) <= MaxLegs /\ db[c] \in CallRecord /\ db[c].state = "queued"
      /\ session \in [Agents -> SoundRow] /\ dials \subseteq Dial
      /\ registered \subseteq SipAgents
  BY <1>1 DEF Base, TypeOK, MemoryPersisted
<1>3. ASSUME NEW a \in Agents, a \in Pickable(session, c, Members[mem[c].queue])
      PROVE  Picked(session, c, a) \in [Agents -> SoundRow]
  <2>1. CASE HeldBy(session, c) # {}
    BY <1>2, <2>1 DEF Picked
  <2>2. CASE HeldBy(session, c) = {}
    <3>1. session[a] \in SoundRow /\ c # NoCall
      BY <1>2, NullAssumption
    <3>2. [session[a] EXCEPT !.state = "ringing", !.call = c] \in SoundRow
      BY <3>1 DEF SoundRow, Session, Reserved
    <3>. QED BY <1>2, <2>2, <3>2 DEF Picked
  <2>. QED BY <2>1, <2>2
<1>4. CASE NobodyFree(c)
  <2>1. UNCHANGED <<mem, db, session, dials>> /\ dispatching' = dispatching \ {c}
    BY <1>4 DEF NobodyFree
  <2>2. db[c].state # "ended"
    BY <1>2
  <2>3. /\ dispatching' \subseteq dispatching \cup {c} /\ c \notin dispatching'
        /\ session' \in [Agents -> SoundRow] /\ dials' \subseteq Dial
        /\ registered' \subseteq SipAgents
    BY <1>1, <1>2, <2>1
  <2>. QED BY <1>1, <2>1, <2>2, <2>3, CallStands
<1>5. ASSUME NEW a \in Agents, Offer(c, a)
      PROVE  Base' /\ EndedKept
  <2> DEFINE m == [mem[c] EXCEPT !.state = "ringing", !.offered = a]
  <2>1. m \in RuntimeCall /\ m.state \in Live /\ m.legs = mem[c].legs
    BY <1>2 DEF RuntimeCall, Live
  <2>2. /\ Ring(c, a, m) /\ dispatching' = dispatching \ {c}
        /\ session' = Picked(session, c, a)
        /\ a \in Pickable(session, c, Members[mem[c].queue])
    BY <1>5 DEF Offer
  <2>3. session' \in [Agents -> SoundRow]
    BY <1>3, <2>2
  <2> HIDE DEF m
  <2>. QED BY <1>1, <1>2, <2>1, <2>2, <2>3, RingBase
<1>6. ASSUME NEW a \in Agents, OfferFails(c, a)
      PROVE  Base' /\ EndedKept
  <2> DEFINE m == [mem[c] EXCEPT !.offered = a]
  <2>1. m \in RuntimeCall /\ m.state = "queued" /\ m.legs = mem[c].legs
        /\ m.queue = mem[c].queue
    BY <1>2 DEF RuntimeCall, Live
  <2>2. /\ Transition(c, m) /\ UNCHANGED <<dials, dispatching>>
        /\ session' = Sets(Picked(session, c, a), c, a, "ringing", "idle")
        /\ a \in Pickable(session, c, Members[mem[c].queue])
    BY <1>6 DEF OfferFails
  <2>3. session' \in [Agents -> SoundRow]
    <3>1. Picked(session, c, a) \in [Agents -> SoundRow]
      BY <1>3, <2>2
    <3>2. "idle" \in Reserved \cup Releasing /\ "idle" \notin Reserved
      BY DEF Reserved, Releasing
    <3>. QED BY <2>2, <3>1, <3>2, SetsRows
  <2>4. m.state \in Live
    BY <2>1 DEF Live
  <2> HIDE DEF m
  <2>. QED BY <1>1, <1>2, <2>1, <2>2, <2>3, <2>4, TransitionWrites
<1>. QED BY Dispatch(c), <1>4, <1>5, <1>6 DEF Dispatch

LEMMA DialReturnsBase ==
  ASSUME Base, NEW c \in Calls, DialReturns(c)
  PROVE  Base' /\ EndedKept
<1>1. PICK d \in dials, ok \in BOOLEAN :
        d.call = c /\ (DeviceReturns(d, ok) \/ CarrierReturns(d, ok))
  BY DEF DialReturns
<1>2. /\ d \in Dial /\ LockFree(c) /\ dials' = dials \ {d}
      /\ UNCHANGED <<dispatching, phase, registered>>
      /\ phase = "up" /\ c \notin dispatching
      /\ session \in [Agents -> SoundRow] /\ dials' \subseteq Dial
      /\ registered \subseteq SipAgents
  BY <1>1 DEF DeviceReturns, CarrierReturns, LockFree, Base, TypeOK
<1>3. CASE UNCHANGED <<mem, db, session>>
  <2>3. CASE db[c].state # "ended"
    <3>1. /\ dispatching' \subseteq dispatching \cup {c} /\ c \notin dispatching'
          /\ session' \in [Agents -> SoundRow] /\ registered' \subseteq SipAgents
      BY <1>2, <1>3
    <3>. QED BY <1>2, <1>3, <2>3, <3>1, CallStands
  <2>4. CASE db[c].state = "ended"
    <3>1. Base'
      BY <1>2, <1>3 DEF Base, TypeOK, MemoryPersisted, RecoveryIdle
    <3>2. EndedKept
      BY <1>2, <1>3 DEF EndedKept, Base, TypeOK, MemoryPersisted, RuntimeCall, Live
    <3>. QED BY <3>1, <3>2
  <2>. QED BY <2>3, <2>4
<1>4. CASE mem[c].state # "none" /\ d.agent \in Agents /\ DeviceReturns(d, ok) /\ ReachesOffer(d)
  <2>1. Handles(c)
    BY <1>2, <1>4 DEF Handles
  <2>2. /\ db[c].state # "ended" /\ mem[c] \in RuntimeCall
        /\ Len(mem[c].legs) <= MaxLegs
    BY <2>1, HandlerFinds
  <2>3. CASE ok /\ MayConnect(c, d.agent)
    <3>1. Answered(c, d.agent) /\ RoomForLeg(c)
      BY <1>1, <1>4, <2>3 DEF DeviceReturns
    <3>. QED BY <1>2, <1>4, <3>1, AnsweredBase
  <2>4. CASE ~(ok /\ MayConnect(c, d.agent))
    <3> DEFINE m == [mem[c] EXCEPT !.offered = NoAgent, !.sipLeg = NoLeg,
                                   !.sipCancel = FALSE]
               ss == Sets(session, c, d.agent, AnyState, "busy")
               k == [m EXCEPT !.active = m.consult, !.consult = NoAgent, !.state = "active"]
               q == [m EXCEPT !.state = "queued"]
    <3>1. DeviceFailed(c, d.agent)
      BY <1>1, <1>4, <2>4 DEF DeviceReturns
    <3>2. m \in RuntimeCall /\ m.legs = mem[c].legs
      BY <2>2 DEF RuntimeCall
    <3>3. \/ session' = ss /\ Transition(c, k)
          \/ session' = ss /\ Transition(c, q)
          \/ HangUp(ss, c, m)
      BY <3>1 DEF DeviceFailed
    <3> HIDE DEF m
    <3>4. /\ k \in RuntimeCall /\ k.legs = m.legs /\ k.state = "active"
          /\ q \in RuntimeCall /\ q.legs = m.legs /\ q.state = "queued"
          /\ "active" \in Live /\ "queued" \in Live
      BY <3>2 DEF RuntimeCall, Live
    <3> HIDE DEF k, q, ss
    <3>5. ss \in [Agents -> SoundRow]
      <4>1. "busy" \in Reserved \cup Releasing /\ "busy" \notin Reserved
        BY DEF Reserved, Releasing
      <4>. QED BY <1>2, <1>4, <4>1, SetsRows DEF ss
    <3>6. CASE session' = ss /\ Transition(c, k)
      BY <1>2, <2>2, <3>2, <3>4, <3>5, <3>6, TransitionWrites
    <3>7. CASE session' = ss /\ Transition(c, q)
      BY <1>2, <2>2, <3>2, <3>4, <3>5, <3>7, TransitionWrites
    <3>8. CASE HangUp(ss, c, m)
      BY <1>2, <2>2, <3>2, <3>5, <3>8, HangUpWrites
    <3>. QED BY <3>3, <3>6, <3>7, <3>8
  <2>. QED BY <2>3, <2>4
<1>5. CASE mem[c].state # "none" /\ CarrierReturns(d, ok)
  <2> DEFINE m == [mem[c] EXCEPT !.state = "active", !.answered = TRUE]
  <2>1. Handles(c)
    BY <1>2, <1>5 DEF Handles
  <2>2. /\ db[c].state # "ended" /\ mem[c] \in RuntimeCall
        /\ Len(mem[c].legs) <= MaxLegs
    BY <2>1, HandlerFinds
  <2>3. \/ Transition(c, m) /\ UNCHANGED session
        \/ HangUp(session, c, mem[c])
    BY <1>1, <1>5 DEF CarrierReturns
  <2>4. m \in RuntimeCall /\ m.state \in Live /\ m.legs = mem[c].legs
    BY <2>2 DEF RuntimeCall, Live
  <2> HIDE DEF m
  <2>5. CASE Transition(c, m) /\ UNCHANGED session
    BY <1>2, <2>2, <2>4, <2>5, TransitionWrites
  <2>6. CASE HangUp(session, c, mem[c])
    BY <1>2, <2>2, <2>6, HangUpWrites
  <2>. QED BY <2>3, <2>5, <2>6
<1>6. \/ UNCHANGED <<mem, db, session>>
      \/ mem[c].state # "none" /\ d.agent \in Agents /\ DeviceReturns(d, ok) /\ ReachesOffer(d)
      \/ mem[c].state # "none" /\ CarrierReturns(d, ok)
  <2>1. d.agent \in Agents \cup {NoAgent}
    BY <1>2 DEF Dial
  <2>. QED BY <1>1, <2>1 DEF DeviceReturns, CarrierReturns, ReachesOffer
<1>. QED BY <1>3, <1>4, <1>5, <1>6

\* Recovery: a restart forgets the memory, ends the calls, frees the agents.
LEMMA RestartBase ==
  ASSUME Base, Crash \/ Serve \/ \E c \in Calls : RecoverCall(c)
  PROVE  Base' /\ EndedKept
<1>1. CASE Crash
  <2>1. \A c \in Calls : mem'[c] = Gone
    BY <1>1 DEF Crash
  <2>2. Gone \in RuntimeCall /\ Gone.state = "none" /\ Len(Gone.legs) <= MaxLegs
    BY GoneCall, CallAssumption
  <2>3. TypeOK'
    BY <1>1, <2>1, <2>2 DEF Crash, Base, TypeOK
  <2>4. EndedKept
    BY <1>1, <2>1, <2>2 DEF Crash, EndedKept
  <2>. QED BY <1>1, <2>1, <2>2, <2>3, <2>4 DEF Crash, Base, RecoveryIdle, MemoryPersisted
<1>2. CASE Serve
  <2>1. \A c \in Calls : db[c].state \in {"none", "ended"} /\ mem[c].state = "none"
    BY <1>2 DEF Serve, Unfinished, Over, Base, RecoveryIdle
  <2>. QED BY <1>2, <2>1 DEF Serve, Base, TypeOK, RecoveryIdle, MemoryPersisted, EndedKept
<1>3. ASSUME NEW c \in Calls, RecoverCall(c)
      PROVE  Base' /\ EndedKept
  <2> DEFINE row == db[c]
             from == IF row.answered THEN "on_call" ELSE "ringing"
             one == IF row.agent = NoAgent THEN session
                    ELSE Sets(session, c, row.agent, from, "idle")
  <2>1. /\ db \in [Calls -> CallRecord] /\ session \in [Agents -> SoundRow]
        /\ row.agent \in Agents \cup {NoAgent} /\ row.offered \in Agents \cup {NoAgent}
    BY DEF Base, TypeOK, CallRecord
  <2>2. "idle" \in Reserved \cup Releasing /\ "idle" \notin Reserved
    BY DEF Reserved, Releasing
  <2>3. /\ session' = IF row.offered \in {NoAgent, row.agent} THEN one
                      ELSE Sets(one, c, row.offered, "ringing", "idle")
        /\ db' = [db EXCEPT ![c].state = "ended"]
        /\ UNCHANGED <<mem, dials, dispatching, phase, registered>>
        /\ phase = "recovering"
    BY <1>3 DEF RecoverCall
  <2>4. one \in [Agents -> SoundRow]
    BY <2>1, <2>2, SetsRows
  <2>5. session' \in [Agents -> SoundRow]
    <3> HIDE DEF one
    <3>. QED BY <2>1, <2>2, <2>3, <2>4, SetsRows
  <2>6. session' \in [Agents -> Session]
    BY <2>5, SoundRowIsSession
  <2>7. db' \in [Calls -> CallRecord]
    BY <2>1, <2>3 DEF CallRecord
  <2>8. EndedKept
    BY <2>1, <2>3 DEF EndedKept, Base, RecoveryIdle
  <2> HIDE DEF row, from, one
  <2>. QED BY <2>3, <2>5, <2>6, <2>7, <2>8
           DEF Base, TypeOK, RecoveryIdle, MemoryPersisted
<1>. QED BY <1>1, <1>2, <1>3

LEMMA BackgroundBase ==
  ASSUME Base, NEW c \in Calls, Background(c)
  PROVE  Base' /\ EndedKept
<1>1. CASE Dispatch(c) \/ DialReturns(c) \/ RecoverCall(c)
  BY <1>1, DispatchBase, DialReturnsBase, RestartBase
<1>2. CASE OfferTimeout(c)
  BY <1>2, OfferLostBase DEF OfferTimeout
<1>3. CASE TickDispatch(c)
  <2>1. UNCHANGED <<mem, db, session, dials, phase, registered>>
        /\ dispatching' = dispatching \cup {c}
        /\ Handles(c) /\ mem[c].state = "queued" /\ mem[c].queue # NoQueue
    BY <1>3 DEF TickDispatch
  <2>2. mem' = [mem EXCEPT ![c] = mem[c]] /\ db' = [db EXCEPT ![c] = db[c]]
    BY <2>1 DEF Base, TypeOK
  <2>3. /\ phase = "up" /\ c \notin dispatching /\ db[c].state # "ended"
        /\ db[c].state = mem[c].state /\ mem[c].state \in Live
        /\ mem[c] \in RuntimeCall /\ Len(mem[c].legs) <= MaxLegs /\ db[c] \in CallRecord
        /\ session \in [Agents -> SoundRow] /\ dials \subseteq Dial
        /\ registered \subseteq SipAgents
    BY <2>1, HandlerFinds
  <2>. QED BY <2>1, <2>2, <2>3, CallWrites
<1>4. CASE WaitExpired(c)
  <2>1. Handles(c) /\ UNCHANGED <<dials, phase, registered>>
    BY <1>4 DEF WaitExpired
  <2>2. /\ phase = "up" /\ c \notin dispatching /\ db[c].state # "ended"
        /\ mem[c] \in RuntimeCall /\ Len(mem[c].legs) <= MaxLegs
        /\ session \in [Agents -> SoundRow] /\ dials \subseteq Dial
        /\ registered \subseteq SipAgents
    BY <2>1, HandlerFinds
  <2>3. CASE mem[c].queue # NoQueue /\ OverflowTo[mem[c].queue] # NoQueue
    <3> DEFINE m == [mem[c] EXCEPT !.queue = OverflowTo[mem[c].queue]]
    <3>1. ToQueue(c, m) /\ UNCHANGED session
      BY <1>4, <2>3 DEF WaitExpired
    <3>2. m \in RuntimeCall /\ m.legs = mem[c].legs
      BY <2>2, <2>3, CallAssumption DEF RuntimeCall
    <3> HIDE DEF m
    <3>. QED BY <2>1, <2>2, <3>1, <3>2, QueueWrites
  <2>4. CASE ~(mem[c].queue # NoQueue /\ OverflowTo[mem[c].queue] # NoQueue)
    <3>1. HangUp(session, c, mem[c]) /\ UNCHANGED dispatching
      BY <1>4, <2>4 DEF WaitExpired
    <3>. QED BY <2>1, <2>2, <3>1, HangUpWrites
  <2>. QED BY <2>3, <2>4
<1>. QED BY Background(c), <1>1, <1>2, <1>3, <1>4 DEF Background

LEMMA BaseInit == Init => Base
<1> SUFFICES ASSUME Init PROVE Base
  OBVIOUS
<1>1. Gone \in RuntimeCall /\ Gone.state = "none" /\ Len(Gone.legs) <= MaxLegs
  BY GoneCall, CallAssumption
<1>2. Row(Gone) \in CallRecord /\ Row(Gone).state = "none"
  BY <1>1 DEF Row, CallRecord, RuntimeCall
<1>3. Offline \in SoundRow /\ Offline \in Session
  BY DEF Offline, SoundRow, Session, Reserved, Releasing
<1>4. TypeOK
  BY <1>1, <1>2, <1>3 DEF Init, TypeOK
<1>. QED BY <1>1, <1>2, <1>3, <1>4 DEF Init, Base, RecoveryIdle, MemoryPersisted

LEMMA BaseNext == Base /\ [Next]_vars => Base' /\ EndedKept
<1> SUFFICES ASSUME Base, [Next]_vars PROVE Base' /\ EndedKept
  OBVIOUS
<1>1. ASSUME NEW a \in Agents, AgentStep(a) PROVE Base' /\ EndedKept
  BY <1>1, AgentStepBase
<1>2. ASSUME NEW c \in Calls, Begin(c) \/ Command(c) \/ Background(c)
      PROVE  Base' /\ EndedKept
  BY <1>2, BeginBase, CommandBase, BackgroundBase
<1>3. CASE Crash \/ Serve
  BY <1>3, RestartBase
<1>4. CASE UNCHANGED vars
  <2>1. Base'
    BY <1>4 DEF vars, Base, TypeOK, RecoveryIdle, MemoryPersisted
  <2>2. EndedKept
    BY <1>4 DEF vars, EndedKept, Base, TypeOK, RecoveryIdle, MemoryPersisted,
                RuntimeCall, Live
  <2>. QED BY <2>1, <2>2
<1>. QED BY <1>1, <1>2, <1>3, <1>4 DEF Next

LEMMA BaseHolds == Spec => []Base
BY BaseInit, BaseNext, PTL DEF Spec

\* The variables keep their types whatever the operators do and whatever
\* fails: in particular the dispatch only holds calls that are queued.
THEOREM CallTypes == Spec => []TypeOK
<1>1. Base => TypeOK
  BY DEF Base
<1>. QED BY <1>1, BaseHolds, PTL

\* os_calls follows the memory through every handler, also through those that
\* fail half way (transition, EnterIVR, Hangup, and CreateRoom in service.go).
THEOREM MemoryIsPersisted == Spec => []MemoryPersisted
<1>1. Base => MemoryPersisted
  BY DEF Base
<1>. QED BY <1>1, BaseHolds, PTL

\* An ended call stays ended, whichever dial is answered late and whichever
\* command, tick or restart comes after it (originateSIPCall, ringDevice).
THEOREM EndedStaysEnded == Spec => EndedForGood
<1>1. Base /\ [Next]_vars => [EndedKept]_vars
  BY BaseNext
<1>2. [EndedKept]_vars => [\A c \in Calls : db[c].state = "ended" =>
                              db'[c].state = "ended" /\ mem'[c].state = "none"]_vars
  BY DEF EndedKept
<1>. QED BY <1>1, <1>2, BaseHolds, PTL DEF Spec, EndedForGood

\* When the switch serves again after a restart, no agent is reserved.
THEOREM RecoveryFreesEveryone == Spec => RecoveryFreesAll
<1> DEFINE Freed == phase = "recovering" /\ phase' = "up" =>
                      \A a \in Agents : session'[a].state \notin Reserved
<1>1. Base /\ [Next]_vars => [Freed]_vars
  <2> SUFFICES ASSUME Base, Next, phase = "recovering", phase' = "up",
                      NEW a \in Agents
               PROVE  session'[a].state \notin Reserved
    BY DEF Freed
  <2>1. Serve
    BY DEF Next, AgentStep, CheckIn, SetPresence, ForceCheckOut, DeviceRegisters,
           DeviceExpires, RecoverReservation, Begin, StartQueued, StartInIVR,
           StartClosed, StartFails, InternalCall, DialRefused, CarrierCall,
           CarrierUnusable, CarrierFails, DialOut, Command, Hangup, HangupFails, Hold,
           CompleteTransfer, EnterIVR, LeaveIVR, QueueTransfer, Answer, Decline,
           BlindTransfer, ConsultTransfer, ConferenceInvite, Handles, LockFree,
           Background, Dispatch, NobodyFree, Offer, OfferFails, DialReturns,
           DeviceReturns, CarrierReturns, OfferTimeout, TickDispatch, WaitExpired,
           RecoverCall, Crash
  <2>2. Over = Calls /\ ~Orphaned(session[a], Over) /\ UNCHANGED session
    BY <2>1 DEF Serve, Unfinished, Over
  <2>3. session[a] \in SoundRow
    BY DEF Base
  <2>4. session[a].call = NoCall
    BY <2>2, <2>3 DEF Orphaned, SoundRow, Session
  <2>. QED BY <2>2, <2>3, <2>4 DEF SoundRow
<1>2. RecoveryFreesAll <=> [][Freed]_vars
  BY DEF RecoveryFreesAll
<1> HIDE DEF Freed
<1>. QED BY <1>1, <1>2, BaseHolds, PTL DEF Spec

===============================================================================
