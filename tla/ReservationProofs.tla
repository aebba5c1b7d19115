--------------------------- MODULE ReservationProofs ---------------------------
(***************************************************************************)
(* The agents that calls hold and the calls that hold agents, for any      *)
(* calls, agents, queues and legs.                                         *)
(*                                                                         *)
(* TalkersReserved and NoStrayReservation speak of one side each, and no   *)
(* step keeps one without the other: an agent who is released must not be  *)
(* named by a call, and a call that ends must name everybody who is        *)
(* reserved for it.  Reservations joins them per call (CallOK): whoever    *)
(* is reserved is Known to the call, whom the call names is reserved for   *)
(* it (Named), and the call is in one of its forms (Formed), which says    *)
(* where the agents stand while the carrier is asked and while one agent   *)
(* consults another.  A step of a call is taken on the agents' rows as     *)
(* they were, as they are after the first transaction of the handler and   *)
(* as they are at its end, so CallOK has the rows as a parameter.          *)
(*                                                                         *)
(* OwnRows says that a handler touches the rows of its own call only: the  *)
(* other calls keep CallOK.                                                *)
(*                                                                         *)
(* EachAgentLifecycle needs less, and holds of more: Offers only says that *)
(* an agent a call offers itself to either rings for that call or has been *)
(* freed, so an answer finds it ringing or is refused.  The last section   *)
(* keeps Offers and moves each row along its lifecycle in the same step.   *)
(***************************************************************************)
EXTENDS CallControlProofs

-------------------------------------------------------------------------------
(* The reservations.  An operator who disturbs a consultation ("overlap"), an *)
(* invitation to a conference, a recording that cannot be stopped, and a      *)
(* return to the IVR of a call that has been through a second queue each      *)
(* leave a call and its agents apart; without them nothing does.              *)

Orderly == /\ Commands \cap {"overlap", "conference"} = {}
           /\ "recording" \notin Faults
           /\ ~({"queue", "ivr"} \subseteq Commands)

Talks(ss, a, c) == ss[a].state = "on_call" /\ ss[a].call = c

\* The agents a call that is not internal may hold.
Concerned(m) ==
  IF m.state = "created" THEN {m.active}
  ELSE IF m.state = "ringing" /\ m.offered = NoAgent THEN {m.active}
  ELSE IF m.state = "ringing" THEN {m.offered, m.consult}
  ELSE IF m.state \in Talking THEN {m.active, m.consult}
  ELSE {}

\* Whoever is reserved for the call is known to it, in the right state.
Known(c, m, ss) ==
  \A a \in Agents : ss[a].call = c =>
    /\ m.state # "none"
    /\ ss[a].state = "ringing" => m.state = "ringing" /\ m.offered = a
    /\ ss[a].state = "on_call" => a \in Range(m.legs)
    /\ m.kind # "internal" => a \in Concerned(m)

\* Whom the call names is reserved for it.
Named(c, m, ss) ==
  /\ m.state = "ringing" /\ m.offered # NoAgent =>
       ss[m.offered].state = "ringing" /\ ss[m.offered].call = c
  /\ m.state \in Talking =>
       /\ m.offered = NoAgent /\ m.active # NoAgent
       /\ Talks(ss, m.active, c) /\ m.active \in Range(m.legs)
  /\ m.consult # NoAgent =>
       /\ Talks(ss, m.consult, c) /\ m.consult \in Range(m.legs)
       /\ \/ m.state \in Talking /\ m.active # m.consult
          \/ m.state = "ringing" /\ m.active = m.consult /\ m.offered # NoAgent

\* An internal call is in no queue and in no flow; while the carrier is asked,
\* the agent that dialled waits; without a change of queue every leg talks.
Formed(c, m, ss, dialed) ==
  /\ m.state = "none" => m = Gone
  /\ m.kind = "internal" => m.queue = NoQueue /\ m.state # "ivr"
  /\ dialed /\ m.state # "none" =>
       /\ m.state = "ringing" /\ m.offered = NoAgent /\ m.consult = NoAgent
       /\ m.active # NoAgent /\ Talks(ss, m.active, c) /\ m.active \in Range(m.legs)
  /\ "queue" \notin Commands =>
       /\ \A i \in 1 .. Len(m.legs) : Talks(ss, m.legs[i], c)
       /\ \A i, j \in 1 .. Len(m.legs) : m.legs[i] = m.legs[j] => i = j

CallOK(c, m, ss, dialed) ==
  Known(c, m, ss) /\ Named(c, m, ss) /\ Formed(c, m, ss, dialed)

Dialed(c) == \E d \in dials : d.call = c /\ d.agent = NoAgent

DialsKnown == \A d \in dials : /\ db[d.call].state # "none"
                               /\ d.agent = NoAgent => d.leg = NoLeg

\* The inductive invariant.
Reservations ==
  /\ Base
  /\ DialsKnown
  /\ \A c \in Calls : mem[c].state = "none" => mem[c] = Gone
  /\ phase = "up" => \A c \in Calls : CallOK(c, mem[c], session, Dialed(c))

\* A handler of the call c touches no row of another live call.
OwnRows(c, ss, tt) ==
  \A a \in Agents : \/ tt[a] = ss[a]
                    \/ /\ ss[a].call \in {NoCall, c} \cup Over
                       /\ tt[a].call \in {NoCall, c}

LEMMA OwnRowsTrans ==
  ASSUME NEW c, NEW ss, NEW tt, NEW uu, OwnRows(c, ss, tt), OwnRows(c, tt, uu)
  PROVE  OwnRows(c, ss, uu)
BY DEF OwnRows

\* Who is reserved for a live call stays so while another call is handled.
LEMMA OtherCallOK ==
  ASSUME Base, phase = "up", NEW c \in Calls, NEW d \in Calls, c # d,
         NEW k, CallOK(d, mem[d], session, k), NEW tt, OwnRows(c, session, tt),
         NEW l, l => k
  PROVE  CallOK(d, mem[d], tt, l)
<1> DEFINE m == mem[d]
<1>1. m \in RuntimeCall /\ d # NoCall
  BY NullAssumption DEF Base, TypeOK
<1>2. ASSUME NEW a \in Agents, session[a].call = d
      PROVE  tt[a] = session[a]
  <2>1. m.state # "none"
    BY <1>2 DEF CallOK, Known
  <2>2. db[d].state = m.state
    BY <2>1 DEF Base, MemoryPersisted
  <2>3. d \notin Over
    BY <1>1, <2>1, <2>2 DEF Over, RuntimeCall, Live
  <2>. QED BY <1>1, <1>2, <2>3 DEF OwnRows
<1>3. ASSUME NEW a \in Agents, tt[a].call = d
      PROVE  tt[a] = session[a]
  BY <1>1, <1>3 DEF OwnRows
<1>4. /\ m.offered \in Agents \cup {NoAgent} /\ m.active \in Agents \cup {NoAgent}
      /\ m.consult \in Agents \cup {NoAgent}
      /\ \A i \in 1 .. Len(m.legs) : m.legs[i] \in Agents
  BY <1>1 DEF RuntimeCall
<1> HIDE DEF m
<1>5. CallOK(d, m, session, k)
  BY DEF m
<1>6. Known(d, m, tt)
  BY <1>3, <1>5 DEF CallOK, Known
<1>7. \A a \in Agents : Talks(session, a, d) => Talks(tt, a, d)
  BY <1>2 DEF Talks
<1>8. Named(d, m, tt)
  BY <1>2, <1>4, <1>5, <1>7 DEF CallOK, Named
<1>9. Formed(d, m, tt, l)
  BY <1>4, <1>5, <1>7 DEF CallOK, Formed
<1>. QED BY <1>6, <1>8, <1>9 DEF CallOK, m

\* What a handler of the call c has to establish.
LEMMA CallStep ==
  ASSUME Reservations, Base', phase = "up", NEW c \in Calls, NEW m,
         mem' = [mem EXCEPT ![c] = m],
         \A d \in Calls \ {c} : db'[d] = db[d],
         db'[c].state = "none" => db[c].state = "none" /\ dials' \subseteq dials,
         \A d \in dials' \ dials : d.call = c /\ (d.agent = NoAgent => d.leg = NoLeg),
         OwnRows(c, session, session'),
         CallOK(c, m, session', Dialed(c)')
  PROVE  Reservations'
<1>1. mem \in [Calls -> RuntimeCall] /\ dials \subseteq Dial
  BY DEF Reservations, Base, TypeOK
<1>2. mem'[c] = m /\ \A d \in Calls \ {c} : mem'[d] = mem[d]
  BY <1>1
<1>3. ASSUME NEW d \in Calls
      PROVE  CallOK(d, mem[d], session, Dialed(d))
  BY DEF Reservations
<1>4. ASSUME NEW d \in Calls \ {c}
      PROVE  CallOK(d, mem[d], session', Dialed(d)')
  <2>1. Dialed(d)' => Dialed(d)
    BY DEF Dialed
  <2>. QED BY <1>3, <2>1, OtherCallOK DEF Reservations
<1>5. \A d \in Calls : CallOK(d, mem'[d], session', Dialed(d)')
  BY <1>2, <1>4
<1>6. \A d \in Calls : mem'[d].state = "none" => mem'[d] = Gone
  BY <1>5 DEF CallOK, Formed
<1>7. DialsKnown'
  BY <1>1 DEF DialsKnown, Reservations, Dial
<1>. QED BY <1>5, <1>6, <1>7 DEF Reservations

\* One setState for the call c that releases: the agent is free if it was reserved for c in that state.
LEMMA Frees ==
  ASSUME NEW ss \in [Agents -> SoundRow], NEW c \in Calls, NEW a \in Agents,
         NEW from, NEW to \in Releasing, NEW tt, tt = Sets(ss, c, a, from, to)
  PROVE  /\ tt \in [Agents -> SoundRow]
         /\ \A b \in Agents \ {a} : tt[b] = ss[b]
         /\ \/ tt[a] = ss[a]
            \/ /\ tt[a].call = NoCall /\ tt[a].state \in Releasing
               /\ ss[a].call \in {NoCall, c} \cup Over
         /\ ss[a].call = c /\ from \in {AnyState, ss[a].state} =>
              tt[a].call = NoCall /\ tt[a].state \in Releasing
         /\ OwnRows(c, ss, tt)
<1>1. tt = SetState(ss, Over, c, a, from, to) /\ c \in Calls \cup {NoCall}
  BY DEF Sets
<1>2. /\ tt \in [Agents -> SoundRow]
      /\ \A b \in Agents \ {a} : tt[b] = ss[b]
      /\ \/ tt[a] = ss[a]
         \/ /\ tt[a].call = NoCall /\ tt[a].state \in Releasing
            /\ ss[a].call \in {NoCall, c} \cup Over
      /\ ss[a].call = c /\ from \in {AnyState, ss[a].state}
           => tt[a].call = NoCall /\ tt[a].state \in Releasing
  BY <1>1, ReleaseRow
<1>3. OwnRows(c, ss, tt)
  BY <1>2 DEF OwnRows
<1>. QED BY <1>2, <1>3

\* Hangup frees everybody that is reserved for the call.
LEMMA HangUpRows ==
  ASSUME NEW ss \in [Agents -> SoundRow], NEW c \in Calls, NEW m,
         \A a \in Agents : ss[a].call = c =>
           /\ ss[a].state = "ringing" => m.state = "ringing" /\ m.offered = a
           /\ ss[a].state = "on_call" => a \in Range(m.legs),
         m.state = "ringing" /\ m.offered \in Agents => ss[m.offered].state = "ringing",
         NEW a \in Agents
  PROVE  /\ \/ Released(ss, c, m)[a] = ss[a]
            \/ /\ Released(ss, c, m)[a].call = NoCall
               /\ Released(ss, c, m)[a].state \in Releasing
               /\ ss[a].call \in {NoCall, c} \cup Over
         /\ ss[a].call = c => /\ Released(ss, c, m)[a].call = NoCall
                              /\ Released(ss, c, m)[a].state \in Releasing
<1> DEFINE after == IF m.state \in Talking \/ m.consult # NoAgent THEN "acw" ELSE "idle"
           Left(from, to) == Sets(ss, c, a, from, to)[a]
           r == Released(ss, c, m)[a]
<1>1. r = IF a = m.offered
          THEN IF m.state = "ringing" THEN Left("ringing", "idle")
               ELSE Left("on_call", after)
          ELSE IF a \in Range(m.legs) THEN Left("on_call", after) ELSE ss[a]
  BY DEF Released
<1>2. after \in Releasing /\ "idle" \in Releasing
  BY DEF Releasing
<1>3. ASSUME NEW from, NEW to \in Releasing
      PROVE  /\ \/ Left(from, to) = ss[a]
                \/ /\ Left(from, to).call = NoCall /\ Left(from, to).state \in Releasing
                   /\ ss[a].call \in {NoCall, c} \cup Over
             /\ ss[a].call = c /\ from = ss[a].state =>
                  Left(from, to).call = NoCall /\ Left(from, to).state \in Releasing
  <2> DEFINE tt == Sets(ss, c, a, from, to)
  <2>1. Left(from, to) = tt[a] /\ tt = Sets(ss, c, a, from, to)
    OBVIOUS
  <2> HIDE DEF tt, Left
  <2>2. /\ \/ tt[a] = ss[a]
           \/ /\ tt[a].call = NoCall /\ tt[a].state \in Releasing
              /\ ss[a].call \in {NoCall, c} \cup Over
        /\ ss[a].call = c /\ from \in {AnyState, ss[a].state} =>
             tt[a].call = NoCall /\ tt[a].state \in Releasing
    BY <2>1, Frees
  <2>. QED BY <2>1, <2>2
<1>4. ss[a].call = c => ss[a].state \in {"ringing", "on_call"}
  BY NullAssumption DEF SoundRow, Reserved
<1> HIDE DEF after, Left, r
<1>5. \/ r = ss[a]
      \/ r.call = NoCall /\ r.state \in Releasing /\ ss[a].call \in {NoCall, c} \cup Over
  BY <1>1, <1>2, <1>3
<1>6. ss[a].call = c => r.call = NoCall /\ r.state \in Releasing
  BY <1>1, <1>2, <1>3, <1>4
<1>. QED BY <1>5, <1>6 DEF r

\* A call that is hung up leaves nobody behind.
LEMMA HangUpStep ==
  ASSUME Reservations, Base', phase = "up", NEW c \in Calls, NEW m \in RuntimeCall,
         NEW ss \in [Agents -> SoundRow], HangUp(ss, c, m), OwnRows(c, session, ss),
         \A a \in Agents : ss[a].call = c =>
           /\ ss[a].state = "ringing" => m.state = "ringing" /\ m.offered = a
           /\ ss[a].state = "on_call" => a \in Range(m.legs),
         m.state = "ringing" /\ m.offered \in Agents => ss[m.offered].state = "ringing",
         dials' \subseteq dials
  PROVE  Reservations'
<1>1. /\ mem' = [mem EXCEPT ![c] = Gone]
      /\ db' = [db EXCEPT ![c] = [Row(m) EXCEPT !.state = "ended"]]
      /\ session' = Released(ss, c, m)
  BY DEF HangUp
<1>2. \A a \in Agents : /\ \/ session'[a] = ss[a]
                           \/ /\ session'[a].call = NoCall
                              /\ ss[a].call \in {NoCall, c} \cup Over
                        /\ ss[a].call = c => session'[a].call = NoCall
  BY <1>1, HangUpRows
<1>3. c # NoCall
  BY NullAssumption
<1>4. OwnRows(c, session, session')
  <2>1. OwnRows(c, ss, session')
    BY <1>2 DEF OwnRows
  <2>. QED BY <2>1, OwnRowsTrans
<1>5. \A a \in Agents : session'[a].call # c
  BY <1>2, <1>3
<1>6. CallOK(c, Gone, session', Dialed(c)')
  BY <1>5 DEF CallOK, Known, Named, Formed, Gone, Fresh, Talking
<1>7. db'[c].state = "ended" /\ \A d \in Calls \ {c} : db'[d] = db[d]
  BY <1>1 DEF Reservations, Base, TypeOK, Row
<1>. QED BY <1>1, <1>4, <1>6, <1>7, CallStep

-------------------------------------------------------------------------------
(* One setState for the call c that reserves *)

\* It reserves and is not refused.
LEMMA Takes ==
  ASSUME NEW ss \in [Agents -> SoundRow], NEW c \in Calls, NEW a \in Agents,
         NEW from, NEW to \in Reserved, ~Refused(ss[a], Over, c, from, to),
         NEW tt, tt = Sets(ss, c, a, from, to)
  PROVE  /\ tt \in [Agents -> SoundRow]
         /\ \A b \in Agents \ {a} : tt[b] = ss[b]
         /\ tt[a].state = to /\ tt[a].call = c
         /\ from # AnyState => ss[a].state = from
         /\ OwnRows(c, ss, tt)
<1>1. tt = SetState(ss, Over, c, a, from, to)
  BY DEF Sets
<1>2. /\ tt \in [Agents -> SoundRow]
      /\ \A b \in Agents \ {a} : tt[b] = ss[b]
      /\ tt[a] = InSession(to, c)
      /\ ss[a].call \in {NoCall, c} \cup Over
      /\ from # AnyState => ss[a].state = from
  BY <1>1, TakeRow
<1>. QED BY <1>2 DEF OwnRows, InSession

-------------------------------------------------------------------------------
(* What the handlers do to the call they are about *)

\* Only what CallOK speaks of matters.
LEMMA SameCall ==
  ASSUME NEW c, NEW m, NEW n, NEW ss, NEW k, NEW l, CallOK(c, m, ss, k), l => k,
         m.state # "none", n.state = m.state,
         n.kind = m.kind, n.queue = m.queue, n.offered = m.offered,
         n.active = m.active, n.consult = m.consult, n.legs = m.legs
  PROVE  CallOK(c, n, ss, l)
BY DEF CallOK, Known, Named, Formed, Concerned

\* The offered agent answers.
LEMMA AnsweredOK ==
  ASSUME NEW c \in Calls, NEW m \in RuntimeCall, NEW ss, NEW tt, NEW k,
         CallOK(c, m, ss, k), NEW a \in Agents, m.offered = a,
         m.state \in {"ringing"} \cup Talking,
         \A b \in Agents \ {a} : tt[b] = ss[b], Talks(tt, a, c)
  PROVE  CallOK(c, AnsweredCall(m, a), tt, k) /\ m.state = "ringing"
<1> DEFINE n == AnsweredCall(m, a)
<1>1. m.state = "ringing" /\ ss[a].state = "ringing" /\ ss[a].call = c
  BY CallAssumption DEF CallOK, Named
<1>2. /\ n.state \in Talking /\ n.kind = m.kind /\ n.queue = m.queue
      /\ n.offered = NoAgent /\ n.active = a /\ n.consult = m.consult
      /\ n.legs = Append(m.legs, a)
  BY DEF AnsweredCall, RuntimeCall, Talking
<1>3. /\ Len(n.legs) = Len(m.legs) + 1
      /\ Range(n.legs) = Range(m.legs) \cup {a}
      /\ \A i \in 1 .. Len(m.legs) : n.legs[i] = m.legs[i] /\ m.legs[i] \in Agents
      /\ n.legs[Len(m.legs) + 1] = a
      /\ Len(m.legs) \in Nat
  <2>1. m.legs \in Seq(Agents)
    BY DEF RuntimeCall
  <2>. QED BY <1>2, <2>1, AppendRange
<1>4. m.consult \in Agents \cup {NoAgent}
  BY DEF RuntimeCall
<1> HIDE DEF n
<1>5. n.state \notin {"none", "ivr", "ringing", "created"}
  BY <1>2 DEF Talking
<1>6. Concerned(m) = {a, m.consult} /\ Concerned(n) = {a, m.consult}
  BY <1>1, <1>2, <1>5, CallAssumption DEF Concerned
<1>7. Known(c, n, tt)
  BY <1>1, <1>2, <1>3, <1>5, <1>6 DEF CallOK, Known, Talks
<1>8. m.consult # a /\ (m.consult # NoAgent => Talks(ss, m.consult, c) /\ m.consult \in Range(m.legs))
  BY <1>1, CallAssumption DEF CallOK, Named, Talks
<1>9. Named(c, n, tt)
  BY <1>2, <1>3, <1>4, <1>5, <1>8, CallAssumption DEF Named, Talks
<1>10. ~k
  BY <1>1, CallAssumption DEF CallOK, Formed
<1>11. Formed(c, n, tt, k)
  <2>1. n.kind = "internal" => n.queue = NoQueue /\ n.state # "ivr"
    BY <1>2, <1>5 DEF CallOK, Formed
  <2>2. ASSUME "queue" \notin Commands
        PROVE  /\ \A i \in 1 .. Len(n.legs) : Talks(tt, n.legs[i], c)
               /\ \A i, j \in 1 .. Len(n.legs) : n.legs[i] = n.legs[j] => i = j
    <3>1. /\ \A i \in 1 .. Len(m.legs) : Talks(ss, m.legs[i], c) /\ m.legs[i] # a
          /\ \A i, j \in 1 .. Len(m.legs) : m.legs[i] = m.legs[j] => i = j
      BY <1>1, <2>2 DEF CallOK, Formed, Talks
    <3>2. \A i \in 1 .. Len(n.legs) : i \in 1 .. Len(m.legs) \/ i = Len(m.legs) + 1
      BY <1>3
    <3>3. ASSUME NEW i \in 1 .. Len(n.legs)
          PROVE  Talks(tt, n.legs[i], c)
      <4>1. CASE i \in 1 .. Len(m.legs)
        <5>1. /\ n.legs[i] = m.legs[i] /\ m.legs[i] \in Agents \ {a}
              /\ Talks(ss, m.legs[i], c)
          BY <1>3, <3>1, <4>1
        <5>. QED BY <5>1 DEF Talks
      <4>2. CASE i = Len(m.legs) + 1
        BY <1>3, <4>2
      <4>. QED BY <3>2, <4>1, <4>2
    <3>4. \A i \in 1 .. Len(m.legs) : n.legs[i] = m.legs[i] /\ n.legs[i] # a
      BY <1>3, <3>1
    <3>5. ASSUME NEW i \in 1 .. Len(n.legs), NEW j \in 1 .. Len(n.legs),
                 n.legs[i] = n.legs[j]
          PROVE  i = j
      BY <1>3, <3>1, <3>2, <3>4, <3>5
    <3>. QED BY <3>3, <3>5
  <2>. QED BY <1>5, <1>10, <2>1, <2>2 DEF Formed
<1>. QED BY <1>1, <1>7, <1>9, <1>11 DEF CallOK, n

\* A lost offer of a consultation: the agent that asked has the call again.
LEMMA BackToConsultOK ==
  ASSUME NEW c \in Calls, NEW m \in RuntimeCall, NEW ss, NEW tt, NEW k,
         CallOK(c, m, ss, k), m.state = "ringing", m.offered \in Agents,
         \A b \in Agents \ {m.offered} : tt[b] = ss[b], tt[m.offered].call = NoCall,
         m.consult # NoAgent,
         NEW n, n.state = "active", n.kind = m.kind, n.queue = m.queue,
         n.offered = NoAgent, n.active \in {m.active, m.consult},
         n.consult = NoAgent, n.legs = m.legs
  PROVE  CallOK(c, n, tt, k)
<1> DEFINE a == m.offered
<1>0. a \in Agents /\ m.offered = a
  OBVIOUS
<1>1. /\ m.consult \in Agents /\ \A i \in 1 .. Len(m.legs) : m.legs[i] \in Agents
      /\ a # NoAgent /\ c # NoCall
  BY CallAssumption, NullAssumption DEF RuntimeCall
<1>2. /\ ss[a].state = "ringing" /\ n.active = m.consult
      /\ Talks(ss, m.consult, c) /\ m.consult \in Range(m.legs)
  BY <1>1 DEF CallOK, Named, Talking
<1>3. Talks(tt, n.active, c) /\ n.active \in Range(n.legs)
  BY <1>1, <1>2 DEF Talks
<1>4. Known(c, n, tt)
  <2>1. Concerned(m) = {a, m.consult} /\ Concerned(n) = {m.consult, NoAgent}
    BY <1>1, <1>2 DEF Concerned, Talking
  <2>. QED BY <1>1, <1>2, <2>1 DEF CallOK, Known
<1>5. Named(c, n, tt)
  BY <1>1, <1>2, <1>3 DEF Named, Talking
<1>6. Formed(c, n, tt, k)
  BY <1>1, <1>2 DEF CallOK, Formed, Talks
<1>. QED BY <1>4, <1>5, <1>6 DEF CallOK

\* Any other lost offer: the call waits again.
LEMMA BackToQueueOK ==
  ASSUME NEW c \in Calls, NEW m \in RuntimeCall, NEW ss, NEW tt, NEW k,
         CallOK(c, m, ss, k), m.state = "ringing", m.offered \in Agents,
         \A b \in Agents \ {m.offered} : tt[b] = ss[b], tt[m.offered].call = NoCall,
         m.consult = NoAgent,
         NEW n, n.state = "queued", n.kind = m.kind, n.queue = m.queue,
         n.offered = NoAgent, n.consult = NoAgent, n.legs = m.legs
  PROVE  CallOK(c, n, tt, k)
<1> DEFINE a == m.offered
<1>0. a \in Agents /\ m.offered = a
  OBVIOUS
<1>1. /\ \A i \in 1 .. Len(m.legs) : m.legs[i] \in Agents
      /\ a # NoAgent /\ c # NoCall /\ NoAgent \notin Agents
  BY CallAssumption, NullAssumption DEF RuntimeCall
<1>2. ss[a].state = "ringing"
  BY <1>1 DEF CallOK, Named
<1>3. Known(c, n, tt)
  <2>1. Concerned(m) = {a, NoAgent}
    BY <1>1 DEF Concerned
  <2>. QED BY <1>1, <1>2, <2>1 DEF CallOK, Known
<1>4. Named(c, n, tt)
  BY DEF Named, Talking
<1>5. Formed(c, n, tt, k)
  BY <1>1, <1>2 DEF CallOK, Formed, Talks
<1>. QED BY <1>3, <1>4, <1>5 DEF CallOK

\* A call nobody is reserved for.
LEMMA AloneOK ==
  ASSUME NEW c, NEW n, NEW tt, NEW k, ~k,
         \A a \in Agents : tt[a].call # c,
         n.state \in {"queued", "ivr", "created"}, n.consult = NoAgent,
         n.kind = "internal" => n.queue = NoQueue /\ n.state # "ivr",
         "queue" \in Commands \/ Len(n.legs) = 0
  PROVE  CallOK(c, n, tt, k)
<1>1. Known(c, n, tt) /\ Named(c, n, tt)
  BY DEF Known, Named, Talking
<1>2. Formed(c, n, tt, k)
  BY DEF Formed
<1>. QED BY <1>1, <1>2 DEF CallOK

\* A call that rings its only agent.
LEMMA RingsOneOK ==
  ASSUME NEW c, NEW n, NEW tt, NEW k, ~k, NEW b \in Agents,
         \A a \in Agents \ {b} : tt[a].call # c,
         tt[b].state = "ringing", tt[b].call = c,
         n.state = "ringing", n.offered = b, n.consult = NoAgent,
         n.kind # "internal", "queue" \in Commands \/ Len(n.legs) = 0
  PROVE  CallOK(c, n, tt, k)
<1>1. b # NoAgent
  BY CallAssumption
<1>2. Known(c, n, tt) /\ Named(c, n, tt)
  BY <1>1 DEF Known, Named, Talking, Concerned
<1>3. Formed(c, n, tt, k)
  BY DEF Formed
<1>. QED BY <1>2, <1>3 DEF CallOK

\* No agent, or no leg but the one that goes, is reserved for the call.
LEMMA NoLegs ==
  ASSUME NEW c, NEW m \in RuntimeCall, NEW ss, NEW k, CallOK(c, m, ss, k),
         "queue" \notin Commands, \A a \in Agents : ss[a].call # c
  PROVE  Len(m.legs) = 0
<1>1. Len(m.legs) \in Nat /\ \A i \in 1 .. Len(m.legs) : m.legs[i] \in Agents
  BY DEF RuntimeCall
<1>2. \A i \in 1 .. Len(m.legs) : FALSE
  BY <1>1 DEF CallOK, Formed, Talks
<1>3. 1 \notin 1 .. Len(m.legs)
  BY <1>2
<1>. QED BY <1>1, <1>3

\* A transferable call has one agent, its active one.
LEMMA OneHolder ==
  ASSUME NEW c \in Calls, NEW m \in RuntimeCall, NEW ss, NEW k, CallOK(c, m, ss, k),
         m.state \in Talking, m.consult = NoAgent
  PROVE  /\ m.active \in Agents /\ CurrentAgent(m) = m.active
         /\ Talks(ss, m.active, c) /\ m.active \in Range(m.legs) /\ ~k
         /\ m.kind # "internal" => \A a \in Agents \ {m.active} : ss[a].call # c
         /\ "queue" \notin Commands /\ m.kind # "internal" =>
              Len(Without(m.legs, m.active)) = 0
<1>1. /\ m.active \in Agents /\ Talks(ss, m.active, c) /\ m.active \in Range(m.legs)
      /\ m.active # NoAgent /\ m.state \notin {"none", "ringing", "created"}
      /\ NoAgent \notin Agents
  BY CallAssumption DEF CallOK, Named, RuntimeCall, Talking
<1>2. ~k
  BY <1>1 DEF CallOK, Formed
<1>3. ASSUME m.kind # "internal", NEW a \in Agents \ {m.active}
      PROVE  ss[a].call # c
  BY <1>1, <1>3 DEF CallOK, Known, Concerned
<1>4. ASSUME "queue" \notin Commands, m.kind # "internal"
      PROVE  Len(Without(m.legs, m.active)) = 0
  <2>1. m.legs \in Seq(Agents)
    BY DEF RuntimeCall
  <2> DEFINE t == Without(m.legs, m.active)
  <2>2. t \in Seq(Agents) /\ Range(t) = Range(m.legs) \ {m.active}
    BY <2>1, WithoutProperties
  <2>3. Range(m.legs) = {m.legs[i] : i \in 1 .. Len(m.legs)}
    BY <2>1, RangeEquality
  <2>4. \A i \in 1 .. Len(m.legs) : m.legs[i] = m.active
    BY <1>1, <1>3, <1>4, <2>1 DEF CallOK, Formed, Talks
  <2>5. Range(t) = {}
    BY <2>2, <2>3, <2>4
  <2> HIDE DEF t
  <2>6. Range(t) = {t[i] : i \in 1 .. Len(t)} /\ Len(t) \in Nat
    BY <2>2, RangeEquality
  <2>7. 1 \notin 1 .. Len(t)
    BY <2>5, <2>6
  <2>8. Len(t) = 0
    BY <2>6, <2>7
  <2>. QED BY <2>8 DEF t
<1>. QED BY <1>1, <1>2, <1>3, <1>4 DEF CurrentAgent

\* A consultation rings its target, who was idle, while the agent waits.
LEMMA ConsultOK ==
  ASSUME NEW c \in Calls, NEW m \in RuntimeCall, NEW ss, NEW tt, NEW k,
         CallOK(c, m, ss, k), m.state \in Talking, m.consult = NoAgent,
         NEW b \in Agents, ss[b].state = "idle",
         \A a \in Agents \ {b} : tt[a] = ss[a],
         tt[b].state = "ringing", tt[b].call = c,
         NEW n, n.state = "ringing", n.kind = m.kind, n.queue = m.queue,
         n.offered = b, n.active = m.active, n.consult = m.active, n.legs = m.legs
  PROVE  CallOK(c, n, tt, k)
<1>1. /\ m.active \in Agents /\ Talks(ss, m.active, c) /\ m.active \in Range(m.legs) /\ ~k
      /\ m.active # b /\ b # NoAgent /\ m.offered = NoAgent
      /\ m.state \notin {"none", "ringing", "created"}
      /\ \A i \in 1 .. Len(m.legs) : m.legs[i] \in Agents
  BY OneHolder, CallAssumption DEF RuntimeCall, Talks, CallOK, Named, Talking
<1>2. Concerned(m) = {m.active, NoAgent} /\ Concerned(n) = {b, m.active}
  BY <1>1 DEF Concerned
<1>3. Known(c, n, tt)
  BY <1>1, <1>2, CallAssumption DEF CallOK, Known
<1>4. Named(c, n, tt)
  BY <1>1, CallAssumption DEF Named, Talks, Talking
<1>5. Formed(c, n, tt, k)
  BY <1>1 DEF CallOK, Formed, Talks
<1>. QED BY <1>3, <1>4, <1>5 DEF CallOK

\* The consulting agent leaves the call to the other one.
LEMMA CompletedOK ==
  ASSUME NEW c \in Calls, NEW m \in RuntimeCall, NEW ss, NEW tt, NEW k,
         CallOK(c, m, ss, k), m.consult # NoAgent, m.offered = NoAgent,
         \A a \in Agents \ {m.consult} : tt[a] = ss[a], tt[m.consult].call = NoCall,
         NEW n, n.state = "active", n.kind = m.kind, n.queue = m.queue,
         n.offered = NoAgent, n.active = m.active, n.consult = NoAgent,
         n.legs = Without(m.legs, m.consult)
  PROVE  CallOK(c, n, tt, k)
<1>1. /\ m.consult \in Agents /\ m.active \in Agents /\ m.active # m.consult
      /\ m.state \in Talking /\ Talks(ss, m.active, c) /\ m.active \in Range(m.legs)
      /\ Talks(ss, m.consult, c) /\ NoAgent \notin Agents /\ c # NoCall
      /\ m.state \notin {"none", "ringing", "created"}
  BY CallAssumption, NullAssumption DEF CallOK, Named, RuntimeCall, Talking
<1>2. m.legs \in Seq(Agents)
  BY DEF RuntimeCall
<1>3. /\ n.legs \in Seq(Agents) /\ Range(n.legs) = Range(m.legs) \ {m.consult}
      /\ (\A i, j \in 1 .. Len(m.legs) : m.legs[i] = m.legs[j] => i = j) =>
            \A i, j \in 1 .. Len(n.legs) : n.legs[i] = n.legs[j] => i = j
  BY <1>2, WithoutProperties
<1>4. Concerned(m) = {m.active, m.consult} /\ Concerned(n) = {m.active, NoAgent}
  BY <1>1 DEF Concerned, Talking
<1>5. Known(c, n, tt)
  BY <1>1, <1>3, <1>4 DEF CallOK, Known
<1>6. Named(c, n, tt)
  BY <1>1, <1>3 DEF Named, Talks, Talking
<1>7. Formed(c, n, tt, k)
  <2>1. ~k /\ (n.kind = "internal" => n.queue = NoQueue)
    BY <1>1 DEF CallOK, Formed
  <2>2. ASSUME "queue" \notin Commands
        PROVE  /\ \A i \in 1 .. Len(n.legs) : Talks(tt, n.legs[i], c)
               /\ \A i, j \in 1 .. Len(n.legs) : n.legs[i] = n.legs[j] => i = j
    <3>1. /\ \A i \in 1 .. Len(m.legs) : Talks(ss, m.legs[i], c)
          /\ \A i, j \in 1 .. Len(m.legs) : m.legs[i] = m.legs[j] => i = j
      BY <1>1, <2>2 DEF CallOK, Formed
    <3>2. Range(m.legs) = {m.legs[i] : i \in 1 .. Len(m.legs)}
      BY <1>2, RangeEquality
    <3>3. Range(n.legs) = {n.legs[i] : i \in 1 .. Len(n.legs)}
      BY <1>3, RangeEquality
    <3>4. \A i \in 1 .. Len(m.legs) : m.legs[i] \in Agents
      BY <1>2
    <3>5. \A a \in Range(n.legs) : a \in Agents \ {m.consult} /\ Talks(ss, a, c)
      BY <1>3, <3>1, <3>2, <3>4
    <3>6. \A i \in 1 .. Len(n.legs) : Talks(tt, n.legs[i], c)
      BY <3>3, <3>5 DEF Talks
    <3>. QED BY <1>3, <3>1, <3>6
  <2>. QED BY <2>1, <2>2 DEF Formed
<1>. QED BY <1>5, <1>6, <1>7 DEF CallOK

\* Hold and resume.
LEMMA HeldOK ==
  ASSUME NEW c \in Calls, NEW m \in RuntimeCall, NEW ss, NEW k, CallOK(c, m, ss, k),
         m.state \in Talking, NEW st \in Talking
  PROVE  CallOK(c, [m EXCEPT !.state = st], ss, k)
<1> DEFINE n == [m EXCEPT !.state = st]
<1>1. /\ n.state = st /\ n.kind = m.kind /\ n.queue = m.queue /\ n.offered = m.offered
      /\ n.active = m.active /\ n.consult = m.consult /\ n.legs = m.legs
      /\ st \notin {"none", "ivr", "ringing", "created"}
      /\ m.state \notin {"none", "ringing", "created"}
  BY DEF RuntimeCall, Talking
<1> HIDE DEF n
<1>2. Concerned(m) = Concerned(n)
  BY <1>1 DEF Concerned
<1>3. Known(c, n, ss)
  BY <1>1, <1>2 DEF CallOK, Known
<1>4. Named(c, n, ss)
  BY <1>1 DEF CallOK, Named
<1>5. Formed(c, n, ss, k)
  BY <1>1 DEF CallOK, Formed
<1>. QED BY <1>3, <1>4, <1>5 DEF CallOK, n

\* The carrier connects the call of an agent that dialled.
LEMMA ConnectedOK ==
  ASSUME NEW c \in Calls, NEW m \in RuntimeCall, NEW ss, NEW l, CallOK(c, m, ss, TRUE),
         m.state # "none", ~l,
         NEW n, n.state = "active", n.kind = m.kind, n.queue = m.queue,
         n.offered = m.offered, n.active = m.active, n.consult = m.consult,
         n.legs = m.legs
  PROVE  CallOK(c, n, ss, l)
<1>1. /\ m.state = "ringing" /\ m.offered = NoAgent /\ m.consult = NoAgent
      /\ m.active # NoAgent /\ Talks(ss, m.active, c) /\ m.active \in Range(m.legs)
  BY DEF CallOK, Formed
<1>2. Concerned(m) = {m.active} /\ Concerned(n) = {m.active, NoAgent}
  BY <1>1 DEF Concerned, Talking
<1>3. Known(c, n, ss)
  BY <1>1, <1>2, CallAssumption DEF CallOK, Known
<1>4. Named(c, n, ss)
  BY <1>1 DEF Named, Talking
<1>5. Formed(c, n, ss, l)
  BY <1>1 DEF CallOK, Formed
<1>. QED BY <1>3, <1>4, <1>5 DEF CallOK

\* A call that an agent started: it has the agent's leg, and it is internal
\* and rings a second agent, or it waits for the carrier, or was left behind.
LEMMA SourceOK ==
  ASSUME NEW c, NEW kind \in Kinds, NEW a \in Agents, NEW tt, NEW k, NEW n,
         Talks(tt, a, c),
         n = [Source(kind, a) EXCEPT !.state = n.state, !.offered = n.offered],
         \/ /\ n.state \in {"created", "ringing"} /\ n.offered = NoAgent
            /\ k => n.state = "ringing"
            /\ \A x \in Agents \ {a} : tt[x].call # c
         \/ /\ n.state = "ringing" /\ n.offered \in Agents \ {a} /\ ~k
            /\ kind = "internal"
            /\ tt[n.offered].state = "ringing" /\ tt[n.offered].call = c
            /\ \A x \in Agents \ {a, n.offered} : tt[x].call # c
  PROVE  CallOK(c, n, tt, k)
<1>1. /\ n.kind = kind /\ n.queue = NoQueue /\ n.active = a /\ n.consult = NoAgent
      /\ n.legs = <<a>> /\ NoAgent \notin Agents
  BY CallAssumption DEF Source, Fresh
<1>2. Len(n.legs) = 1 /\ n.legs[1] = a /\ a \in Range(n.legs)
  <2> DEFINE one == <<a>>
  <2>1. one \in Seq(Agents) /\ Len(one) = 1 /\ one[1] = a /\ n.legs = one
    BY <1>1
  <2> HIDE DEF one
  <2>2. Range(one) = {one[i] : i \in 1 .. Len(one)}
    BY <2>1, RangeEquality
  <2>3. one[1] \in Range(one)
    BY <2>1, <2>2
  <2>. QED BY <2>1, <2>3
<1>3. n.state \in {"created", "ringing"} /\ n.state \notin {"none", "ivr"} \cup Talking
  BY DEF Talking
<1>4. Known(c, n, tt)
  BY <1>1, <1>2, <1>3 DEF Known, Concerned, Talks
<1>5. Named(c, n, tt)
  BY <1>1, <1>3 DEF Named
<1>6. Formed(c, n, tt, k)
  <2>1. \A i \in 1 .. Len(n.legs) : i = 1
    BY <1>2
  <2>2. \A i \in 1 .. Len(n.legs) : Talks(tt, n.legs[i], c)
    BY <1>2, <2>1
  <2>. QED BY <1>1, <1>2, <1>3, <2>1, <2>2 DEF Formed
<1>. QED BY <1>4, <1>5, <1>6 DEF CallOK

-------------------------------------------------------------------------------
(* The shapes of a step *)

LEMMA Before ==
  ASSUME Reservations, phase = "up", NEW c \in Calls
  PROVE  /\ Base /\ mem[c] \in RuntimeCall /\ session \in [Agents -> SoundRow]
         /\ CallOK(c, mem[c], session, Dialed(c))
         /\ dials \subseteq Dial /\ db \in [Calls -> CallRecord]
         /\ mem \in [Calls -> RuntimeCall]
BY DEF Reservations, Base, TypeOK

\* No call is touched, and no reserved agent.
LEMMA RowsStep ==
  ASSUME Reservations, Base', UNCHANGED <<mem, db, phase>>, dials' \subseteq dials,
         \A a \in Agents :
           \/ session'[a].state = session[a].state /\ session'[a].call = session[a].call
           \/ session[a].call = NoCall /\ session'[a].call = NoCall
  PROVE  Reservations'
<1>1. ASSUME phase = "up", NEW c \in Calls
      PROVE  CallOK(c, mem[c], session', Dialed(c)')
  <2> DEFINE m == mem[c]
  <2>1. CallOK(c, m, session, Dialed(c)) /\ m \in RuntimeCall /\ c # NoCall
    BY <1>1, Before, NullAssumption
  <2>2. Dialed(c)' => Dialed(c)
    BY DEF Dialed
  <2>3. /\ m.offered \in Agents \cup {NoAgent} /\ m.active \in Agents \cup {NoAgent}
        /\ m.consult \in Agents \cup {NoAgent}
        /\ \A i \in 1 .. Len(m.legs) : m.legs[i] \in Agents
    BY <2>1 DEF RuntimeCall
  <2> HIDE DEF m
  <2>4. \A a \in Agents : \/ /\ session'[a].state = session[a].state
                             /\ session'[a].call = session[a].call
                          \/ session[a].call # c /\ session'[a].call # c
    BY <2>1
  <2>5. Known(c, m, session')
    BY <2>1, <2>4 DEF CallOK, Known
  <2>6. \A a \in Agents : Talks(session, a, c) => Talks(session', a, c)
    BY <2>4 DEF Talks
  <2>7. Named(c, m, session')
    BY <2>1, <2>3, <2>4, <2>6 DEF CallOK, Named
  <2>8. Formed(c, m, session', Dialed(c)')
    BY <2>1, <2>2, <2>3, <2>6 DEF CallOK, Formed
  <2>. QED BY <2>5, <2>7, <2>8 DEF CallOK, m
<1>2. DialsKnown'
  BY DEF DialsKnown, Reservations
<1>. QED BY <1>1, <1>2 DEF Reservations

\* A handler writes the call and starts no dial to a carrier.
LEMMA TransitionStep ==
  ASSUME Reservations, Base', phase = "up", NEW c \in Calls, NEW m \in RuntimeCall,
         m.state # "none", Transition(c, m), dials' \subseteq dials,
         OwnRows(c, session, session'),
         NEW k, CallOK(c, m, session', k), Dialed(c)' => k
  PROVE  Reservations'
<1>1. /\ mem' = [mem EXCEPT ![c] = m] /\ db' = [db EXCEPT ![c] = Row(m)]
      /\ db \in [Calls -> CallRecord]
  BY Before DEF Transition
<1>2. db'[c].state = m.state /\ \A d \in Calls \ {c} : db'[d] = db[d]
  BY <1>1 DEF Row
<1>3. CallOK(c, m, session', Dialed(c)')
  BY SameCall
<1>. QED BY <1>1, <1>2, <1>3, CallStep

\* A handler writes the call and lets a device ring.
LEMMA RingStep ==
  ASSUME Reservations, Base', phase = "up", NEW c \in Calls, NEW b \in Agents,
         NEW m \in RuntimeCall, m.state # "none", RingTarget(c, b, m),
         OwnRows(c, session, session'), CallOK(c, m, session', Dialed(c))
  PROVE  Reservations'
<1>1. CASE Transition(c, m) /\ UNCHANGED dials
  <2>1. Dialed(c)' => Dialed(c)
    BY <1>1 DEF Dialed
  <2>. QED BY <1>1, <2>1, TransitionStep
<1>2. CASE Ring(c, b, m)
  <2>0. dials \subseteq Dial /\ b # NoAgent /\ db \in [Calls -> CallRecord]
    BY Before, CallAssumption
  <2>1. PICK leg \in Legs \cup {NoLeg}, cancel \in BOOLEAN :
          /\ Transition(c, [m EXCEPT !.sipLeg = leg, !.sipCancel = cancel])
          /\ dials' \subseteq Dial
          /\ \A d \in dials' \ dials : d.call = c /\ d.agent = b
    BY <1>2, <2>0, RingEffect
  <2> DEFINE n == [m EXCEPT !.sipLeg = leg, !.sipCancel = cancel]
  <2>2. /\ n.state = m.state /\ n.kind = m.kind /\ n.queue = m.queue
        /\ n.offered = m.offered /\ n.active = m.active /\ n.consult = m.consult
        /\ n.legs = m.legs
    BY DEF RuntimeCall
  <2>3. mem' = [mem EXCEPT ![c] = n] /\ db' = [db EXCEPT ![c] = Row(n)]
    BY <2>1 DEF Transition
  <2> HIDE DEF n
  <2>4. Dialed(c)' => Dialed(c)
    BY <2>0, <2>1 DEF Dialed
  <2>5. CallOK(c, n, session', Dialed(c)')
    BY <2>2, <2>4, SameCall
  <2>6. db'[c].state # "none" /\ \A d \in Calls \ {c} : db'[d] = db[d]
    BY <2>0, <2>2, <2>3 DEF Row
  <2>. QED BY <2>0, <2>1, <2>3, <2>5, <2>6, CallStep
<1>. QED BY <1>1, <1>2 DEF RingTarget

\* The call is hung up as it is.
LEMMA HangUpNow ==
  ASSUME Reservations, Base', phase = "up", NEW c \in Calls, mem[c].state # "none",
         HangUp(session, c, mem[c]), dials' \subseteq dials
  PROVE  Reservations'
<1>1. /\ mem[c] \in RuntimeCall /\ session \in [Agents -> SoundRow]
      /\ CallOK(c, mem[c], session, Dialed(c)) /\ NoAgent \notin Agents
  BY Before, CallAssumption
<1>2. /\ \A a \in Agents : session[a].call = c =>
           /\ session[a].state = "ringing" => mem[c].state = "ringing" /\ mem[c].offered = a
           /\ session[a].state = "on_call" => a \in Range(mem[c].legs)
      /\ mem[c].state = "ringing" /\ mem[c].offered \in Agents =>
           session[mem[c].offered].state = "ringing"
  BY <1>1 DEF CallOK, Known, Named
<1>3. OwnRows(c, session, session)
  BY DEF OwnRows
<1>. QED BY <1>1, <1>2, <1>3, HangUpStep

-------------------------------------------------------------------------------
(* The steps *)

\* The agents' own requests leave reserved rows alone (runtime.go:425, 442).
LEMMA AgentRows ==
  ASSUME Base, NEW a \in Agents, AgentStep(a)
  PROVE  /\ UNCHANGED <<mem, db, phase, dials>>
         /\ \A b \in Agents \ {a} : session'[b] = session[b]
         /\ RowMayBecome(session[a], session'[a])
         /\ session'[a].state = "ringing" =>
              session[a].state = "ringing" /\ session[a].call = session'[a].call
         /\ \/ phase # "up"
            \/ session'[a].state = session[a].state /\ session'[a].call = session[a].call
            \/ session[a].call = NoCall /\ session'[a].call = NoCall
<1> DEFINE Goal ==
         /\ \A b \in Agents \ {a} : session'[b] = session[b]
         /\ RowMayBecome(session[a], session'[a])
         /\ session'[a].state = "ringing" =>
              session[a].state = "ringing" /\ session[a].call = session'[a].call
         /\ \/ phase # "up"
            \/ session'[a].state = session[a].state /\ session'[a].call = session[a].call
            \/ session[a].call = NoCall /\ session'[a].call = NoCall
<1>1. session \in [Agents -> SoundRow] /\ session[a] \in SoundRow
  BY DEF Base
<1>2. /\ session[a].state \in Reserved <=> session[a].call # NoCall
      /\ session[a].state \in Reserved \cup Releasing
      /\ session[a].call \in Calls \cup {NoCall}
  BY <1>1 DEF SoundRow, Session
<1>3. UNCHANGED <<mem, db, phase, dials>>
  BY DEF AgentStep, CheckIn, SetPresence, ForceCheckOut, DeviceRegisters,
         DeviceExpires, RecoverReservation
<1> SUFFICES Goal
  BY <1>3
<1>4. CASE CheckIn(a)
  BY <1>1, <1>2, <1>4
     DEF CheckIn, MayCheckIn, InSession, RowMayBecome, Reserved, Releasing
<1>5. ASSUME NEW c \in Calls \cup {NoCall}, NEW from, NEW to \in Releasing,
             session' = SetState(session, Over, c, a, from, to),
             session[a].call = NoCall \/ phase # "up"
      PROVE  Goal
  <2>1. /\ \A b \in Agents \ {a} : session'[b] = session[b]
        /\ \/ session'[a] = session[a]
           \/ session'[a].call = NoCall /\ session'[a].state \in Releasing
        /\ RowMayBecome(session[a], session'[a])
    BY <1>1, <1>5, ReleaseRow
  <2>. QED BY <1>5, <2>1 DEF Releasing
<1>6. ASSUME NEW to \in {"idle", "busy", "offline"}, SetPresence(a, to)
      PROVE  Goal
  <2>1. /\ session[a].call = NoCall /\ to \in Releasing
        /\ session' = SetState(session, Over, NoCall, a, AnyState, to)
    BY <1>2, <1>6 DEF SetPresence, MaySetPresence, Sets, Releasing
  <2>. QED BY <1>5, <2>1
<1>7. CASE ForceCheckOut(a)
  <2>1. session' = [session EXCEPT ![a] = ForceCheckOutRow(session[a])]
    BY <1>7 DEF ForceCheckOut
  <2> DEFINE r == ForceCheckOutRow(session[a])
  <2>2. /\ RowMayBecome(session[a], r)
        /\ \/ r.state = session[a].state /\ r.call = session[a].call
           \/ session[a].call = NoCall /\ r.call = NoCall /\ r.state = "offline"
    BY <1>1, <1>2 DEF ForceCheckOutRow, RowMayBecome, Offline, SoundRow, Session,
                      Reserved, Releasing
  <2>3. session'[a] = r /\ \A b \in Agents \ {a} : session'[b] = session[b]
    BY <1>1, <2>1
  <2> HIDE DEF r
  <2>. QED BY <2>2, <2>3
<1>8. CASE DeviceRegisters(a) \/ DeviceExpires(a)
  BY <1>8 DEF DeviceRegisters, DeviceExpires, RowMayBecome
<1>9. CASE RecoverReservation(a)
  <2>1. /\ session[a].call \in Calls /\ RecoverTarget(session[a]) \in Releasing
        /\ session' = SetState(session, Over, session[a].call, a, session[a].state,
                               RecoverTarget(session[a]))
        /\ phase # "up"
    BY <1>2, <1>9 DEF RecoverReservation, Orphaned, RecoverTarget, Sets, Releasing
  <2> DEFINE c == session[a].call
             from == session[a].state
             to == RecoverTarget(session[a])
  <2>2. c \in Calls \cup {NoCall} /\ to \in Releasing
    BY <2>1
  <2>3. session' = SetState(session, Over, c, a, from, to)
    BY <2>1
  <2> HIDE DEF c, from, to
  <2>. QED BY <1>5, <2>1, <2>2, <2>3
<1> HIDE DEF Goal
<1>. QED BY <1>4, <1>6, <1>7, <1>8, <1>9 DEF AgentStep

LEMMA AgentStepKept ==
  ASSUME Reservations, NEW a \in Agents, AgentStep(a), Base'
  PROVE  Reservations'
<1>1. /\ UNCHANGED <<mem, db, phase, dials>>
      /\ \A b \in Agents \ {a} : session'[b] = session[b]
      /\ \/ phase # "up"
         \/ session'[a].state = session[a].state /\ session'[a].call = session[a].call
         \/ session[a].call = NoCall /\ session'[a].call = NoCall
  BY AgentRows DEF Reservations
<1>2. CASE phase = "up"
  BY <1>1, <1>2, RowsStep
<1>3. CASE phase # "up"
  BY <1>1, <1>3 DEF Reservations, DialsKnown
<1>. QED BY <1>2, <1>3

\* A crash, the recovery of one call, and the return to service.
LEMMA RestartKept ==
  ASSUME Reservations, Crash \/ Serve \/ \E c \in Calls : RecoverCall(c), Base'
  PROVE  Reservations'
<1>1. /\ session \in [Agents -> SoundRow] /\ RecoveryIdle /\ DialsKnown
      /\ db \in [Calls -> CallRecord]
      /\ \A c \in Calls : mem[c].state = "none" => mem[c] = Gone
  BY DEF Reservations, Base, TypeOK
<1>2. CASE Crash
  <2>1. phase' # "up" /\ dials' = {} /\ \A c \in Calls : mem'[c] = Gone
    BY <1>2 DEF Crash
  <2>. QED BY <2>1 DEF Reservations, DialsKnown
<1>3. CASE Serve
  <2>1. \A a \in Agents : session[a].call = NoCall
    <3>1. \A a \in Agents : session[a].call \in Calls \cup {NoCall}
      BY <1>1 DEF SoundRow, Session
    <3>. QED BY <1>3, <3>1 DEF Serve, Orphaned, Unfinished
  <2>2. /\ UNCHANGED <<mem, db, session, dials>> /\ dials = {}
        /\ \A c \in Calls : mem[c] = Gone
    BY <1>1, <1>3 DEF Serve, RecoveryIdle
  <2>3. ASSUME NEW c \in Calls
        PROVE  CallOK(c, mem'[c], session', Dialed(c)')
    <3>1. \A a \in Agents : session'[a].call # c
      BY <2>1, <2>2, NullAssumption
    <3>2. CallOK(c, Gone, session', Dialed(c)')
      BY <3>1 DEF CallOK, Known, Named, Formed, Gone, Fresh, Talking
    <3>. QED BY <2>2, <3>2
  <2>. QED BY <1>1, <2>2, <2>3 DEF Reservations, DialsKnown
<1>4. ASSUME NEW c \in Calls, RecoverCall(c)
      PROVE  Reservations'
  <2>1. phase = "recovering" /\ UNCHANGED <<mem, dials, phase>> /\ dials = {}
    BY <1>1, <1>4 DEF RecoverCall, RecoveryIdle
  <2>. QED BY <1>1, <2>1 DEF Reservations, DialsKnown
<1>. QED BY <1>2, <1>3, <1>4

\* A call begins without an agent.
LEMMA InboundKept ==
  ASSUME Reservations, NEW c \in Calls, Base',
         StartQueued(c) \/ StartInIVR(c) \/ StartClosed(c) \/ StartFails(c)
  PROVE  Reservations'
<1>1. phase = "up" /\ db[c].state = "none" /\ UNCHANGED dials
  BY DEF StartQueued, StartInIVR, StartClosed, StartFails
<1>2. /\ session \in [Agents -> SoundRow] /\ mem[c].state = "none"
      /\ CallOK(c, mem[c], session, Dialed(c)) /\ DialsKnown
      /\ "inbound" \in Kinds /\ \A q \in Queues : q \in Queues \cup {NoQueue}
  BY <1>1, Before, BeginFinds DEF Reservations, Kinds
<1>3. ~Dialed(c) /\ \A a \in Agents : session[a].call # c
  BY <1>1, <1>2 DEF Dialed, DialsKnown, CallOK, Known
<1>4. OwnRows(c, session, session)
  BY DEF OwnRows
<1>5. ASSUME NEW q \in Queues \cup {NoQueue}, NEW n, UNCHANGED session,
             n.state \in {"queued", "ivr", "created"},
             n = [Fresh("inbound", q) EXCEPT !.state = n.state],
             Transition(c, n)
      PROVE  Reservations'
  <2>1. /\ Fresh("inbound", q) \in RuntimeCall /\ n.state \in Live
        /\ Len(Fresh("inbound", q).legs) = 0
    BY <1>2, <1>5, FreshCall DEF Live
  <2>2. /\ n \in RuntimeCall /\ n.state # "none" /\ n.consult = NoAgent
        /\ n.kind = "inbound" /\ n.legs = Fresh("inbound", q).legs
    BY <1>5, <2>1 DEF RuntimeCall, Fresh, Live
  <2>3. CallOK(c, n, session', Dialed(c)) /\ OwnRows(c, session, session')
    BY <1>3, <1>4, <1>5, <2>1, <2>2, AloneOK
  <2>4. Dialed(c)' => Dialed(c)
    BY <1>1 DEF Dialed
  <2>. QED BY <1>1, <1>5, <2>2, <2>3, <2>4, TransitionStep
<1>6. CASE StartQueued(c)
  <2>1. PICK q \in Queues : ToQueue(c, Fresh("inbound", q))
    BY <1>6 DEF StartQueued
  <2> DEFINE n == [Fresh("inbound", q) EXCEPT !.state = "queued"]
  <2>2. Transition(c, n) /\ UNCHANGED session
    BY <1>6, <2>1 DEF ToQueue, StartQueued
  <2>3. n.state = "queued"
    BY DEF Fresh
  <2>. QED BY <1>2, <1>5, <2>2, <2>3
<1>7. CASE StartInIVR(c)
  <2>1. PICK q \in Queues \cup {NoQueue} :
          Transition(c, [Fresh("inbound", q) EXCEPT !.state = "ivr"])
    BY <1>7 DEF StartInIVR
  <2> DEFINE n == [Fresh("inbound", q) EXCEPT !.state = "ivr"]
  <2>2. n.state = "ivr" /\ Transition(c, n) /\ UNCHANGED session
    BY <1>7, <2>1 DEF Fresh, StartInIVR
  <2>. QED BY <1>5, <2>2
<1>8. CASE StartFails(c)
  <2>1. PICK q \in Queues : Transition(c, Fresh("inbound", q))
    BY <1>8 DEF StartFails
  <2> DEFINE n == Fresh("inbound", q)
  <2>2. n.state = "created" /\ n = [Fresh("inbound", q) EXCEPT !.state = n.state]
    BY DEF Fresh
  <2>3. Transition(c, n) /\ UNCHANGED session
    BY <1>8, <2>1 DEF StartFails
  <2>. QED BY <1>2, <1>5, <2>2, <2>3
<1>9. CASE StartClosed(c)
  <2> DEFINE n == Fresh("inbound", NoQueue)
  <2>1. n \in RuntimeCall /\ n.state = "created" /\ HangUp(session, c, n)
    BY <1>2, <1>9, FreshCall DEF StartClosed
  <2> HIDE DEF n
  <2>. QED BY <1>1, <1>2, <1>3, <1>4, <2>1, HangUpStep
<1>. QED BY <1>6, <1>7, <1>8, <1>9

\* An agent begins a call (MayDial, then setState to on_call).
LEMMA DialTakes ==
  ASSUME Reservations, NEW c \in Calls, NEW a \in Agents, DialOut(c, a)
  PROVE  /\ phase = "up" /\ db[c].state = "none" /\ mem[c].state = "none"
         /\ session \in [Agents -> SoundRow] /\ ~Dialed(c)
         /\ \A x \in Agents : session[x].call # c
         /\ OnCall(c, a) \in [Agents -> SoundRow]
         /\ \A x \in Agents \ {a} : OnCall(c, a)[x] = session[x]
         /\ Talks(OnCall(c, a), a, c)
         /\ OwnRows(c, session, OnCall(c, a))
         /\ session[a].state \in {"idle", "acw"} /\ session[a].call = NoCall
<1>1. phase = "up" /\ db[c].state = "none" /\ session[a].state \in {"idle", "acw"}
  BY DEF DialOut, MayDial
<1>2. /\ session \in [Agents -> SoundRow] /\ mem[c].state = "none"
      /\ CallOK(c, mem[c], session, Dialed(c)) /\ DialsKnown
  BY <1>1, Before, BeginFinds DEF Reservations
<1>3. ~Dialed(c) /\ \A x \in Agents : session[x].call # c
  BY <1>1, <1>2 DEF Dialed, DialsKnown, CallOK, Known
<1>4. session[a].call = NoCall
  BY <1>1, <1>2 DEF SoundRow, Reserved
<1>5. ~Refused(session[a], Over, c, AnyState, "on_call") /\ "on_call" \in Reserved
  BY <1>1, <1>4 DEF Refused, OtherLiveCall, Reserved
<1>6. /\ OnCall(c, a) \in [Agents -> SoundRow]
      /\ \A x \in Agents \ {a} : OnCall(c, a)[x] = session[x]
      /\ OnCall(c, a)[a].state = "on_call" /\ OnCall(c, a)[a].call = c
      /\ OwnRows(c, session, OnCall(c, a))
  BY <1>2, <1>5, Takes DEF OnCall
<1>. QED BY <1>1, <1>2, <1>3, <1>4, <1>6 DEF Talks

LEMMA SourceCall ==
  ASSUME NEW kind \in Kinds, NEW a \in Agents
  PROVE  /\ Source(kind, a) \in RuntimeCall /\ Source(kind, a).state = "created"
         /\ Source(kind, a).offered = NoAgent /\ a \in Range(Source(kind, a).legs)
         /\ Source(kind, a).consult = NoAgent
<1>1. Fresh(kind, NoQueue) \in RuntimeCall
  BY FreshCall
<1> DEFINE one == <<a>>
<1>2. one \in Seq(Agents) /\ Len(one) = 1 /\ one[1] = a
  OBVIOUS
<1>3. Source(kind, a) = [Fresh(kind, NoQueue) EXCEPT !.active = a, !.legs = one]
  BY DEF Source
<1> HIDE DEF one
<1>4. Range(one) = {one[i] : i \in 1 .. Len(one)}
  BY <1>2, RangeEquality
<1>5. a \in Range(one)
  BY <1>2, <1>4
<1>. QED BY <1>1, <1>2, <1>3, <1>5 DEF RuntimeCall, Fresh

\* An agent calls an agent (doOutboundWithID).
LEMMA InternalKept ==
  ASSUME Reservations, Base', NEW c \in Calls, NEW a \in Agents,
         NEW b \in Agents \ {a}, InternalCall(c, a, b)
  PROVE  Reservations'
<1> DEFINE src   == Source("internal", a)
           offer == [src EXCEPT !.state = "ringing", !.offered = b]
           on    == OnCall(c, a)
           rung  == Sets(on, c, b, "idle", "ringing")
<1>1. DialOut(c, a)
  BY DEF InternalCall
<1>2. /\ phase = "up" /\ session \in [Agents -> SoundRow] /\ ~Dialed(c)
      /\ \A x \in Agents : session[x].call # c
      /\ on \in [Agents -> SoundRow] /\ \A x \in Agents \ {a} : on[x] = session[x]
      /\ Talks(on, a, c) /\ OwnRows(c, session, on)
      /\ session[a].state \in {"idle", "acw"} /\ session[a].call = NoCall
  BY <1>1, DialTakes
<1>3. /\ src \in RuntimeCall /\ src.state = "created" /\ src.offered = NoAgent
      /\ a \in Range(src.legs) /\ "internal" \in Kinds
  BY SourceCall DEF Kinds
<1>4. \/ HangUp(on, c, src) /\ UNCHANGED dials
      \/ ~Rejects(c, b, "idle", "ringing") /\ session' = rung /\ Ring(c, b, offer)
      \/ ~Rejects(c, b, "idle", "ringing") /\ HangUp(rung, c, offer) /\ UNCHANGED dials
  BY DEF InternalCall
<1>5. ASSUME ~Rejects(c, b, "idle", "ringing")
      PROVE  /\ rung \in [Agents -> SoundRow] /\ \A x \in Agents \ {b} : rung[x] = on[x]
             /\ rung[b].state = "ringing" /\ rung[b].call = c
             /\ session[b].state = "idle" /\ session[b].call = NoCall
             /\ OwnRows(c, session, rung)
  <2>1. ~Refused(on[b], Over, c, "idle", "ringing") /\ on[b] = session[b]
    BY <1>2, <1>5 DEF Rejects
  <2>2. "ringing" \in Reserved /\ "idle" # AnyState
    BY NullAssumption DEF Reserved, Releasing
  <2> HIDE DEF on
  <2>3. /\ rung \in [Agents -> SoundRow] /\ \A x \in Agents \ {b} : rung[x] = on[x]
        /\ rung[b].state = "ringing" /\ rung[b].call = c /\ on[b].state = "idle"
        /\ OwnRows(c, on, rung)
    BY <1>2, <2>1, <2>2, Takes
  <2>4. session[b].call = NoCall
    BY <1>2, <2>1, <2>3 DEF SoundRow, Reserved
  <2>. QED BY <1>2, <2>1, <2>3, <2>4, OwnRowsTrans
<1> HIDE DEF on, rung, src
<1>6. CASE HangUp(on, c, src) /\ UNCHANGED dials
  <2>1. \A x \in Agents : on[x].call = c => x = a /\ on[x].state = "on_call"
    BY <1>2 DEF Talks
  <2>. QED BY <1>2, <1>3, <1>6, <2>1, HangUpStep
<1>7. offer.legs = src.legs /\ offer.state = "ringing" /\ offer.offered = b
      /\ offer \in RuntimeCall
  BY <1>3 DEF RuntimeCall, Live
<1> HIDE DEF offer
<1>8. CASE ~Rejects(c, b, "idle", "ringing") /\ HangUp(rung, c, offer) /\ UNCHANGED dials
  <2>1. \A x \in Agents : rung[x].call = c => \/ x = a /\ rung[x].state = "on_call"
                                              \/ x = b /\ rung[x].state = "ringing"
    BY <1>2, <1>5, <1>8 DEF Talks
  <2>. QED BY <1>2, <1>3, <1>5, <1>7, <1>8, <2>1, HangUpStep
<1>9. CASE ~Rejects(c, b, "idle", "ringing") /\ session' = rung /\ Ring(c, b, offer)
  <2>1. RingTarget(c, b, offer) /\ OwnRows(c, session, session')
    BY <1>5, <1>9 DEF RingTarget
  <2>2. Talks(session', a, c) /\ \A x \in Agents \ {a, b} : session'[x].call # c
    BY <1>2, <1>5, <1>9 DEF Talks
  <2>3. offer = [Source("internal", a) EXCEPT !.state = offer.state, !.offered = offer.offered]
    BY DEF offer, src, Source, Fresh
  <2>4. CallOK(c, offer, session', Dialed(c))
    BY <1>2, <1>3, <1>5, <1>7, <1>9, <2>2, <2>3, SourceOK
  <2>. QED BY <1>2, <1>7, <2>1, <2>4, RingStep
<1>. QED BY <1>4, <1>6, <1>8, <1>9

\* An agent calls out through the carrier, or the call fails before it.
LEMMA CarrierKept ==
  ASSUME Reservations, Base', NEW c \in Calls, NEW a \in Agents,
         DialRefused(c, a) \/ CarrierCall(c, a) \/ CarrierUnusable(c, a) \/ CarrierFails(c, a)
  PROVE  Reservations'
<1> DEFINE src == Source("pstn", a)
           on  == OnCall(c, a)
<1>1. DialOut(c, a)
  BY DEF DialRefused, CarrierCall, CarrierUnusable, CarrierFails
<1>2. /\ phase = "up" /\ session \in [Agents -> SoundRow] /\ ~Dialed(c)
      /\ db[c].state = "none" /\ mem[c].state = "none"
      /\ \A x \in Agents : session[x].call # c
      /\ on \in [Agents -> SoundRow] /\ \A x \in Agents \ {a} : on[x] = session[x]
      /\ Talks(on, a, c) /\ OwnRows(c, session, on)
      /\ session[a].state \in {"idle", "acw"} /\ session[a].call = NoCall
  BY <1>1, DialTakes
<1>3. /\ src \in RuntimeCall /\ src.state = "created" /\ src.offered = NoAgent
      /\ a \in Range(src.legs) /\ "pstn" \in Kinds
  BY SourceCall DEF Kinds
<1>4. /\ db \in [Calls -> CallRecord] /\ mem \in [Calls -> RuntimeCall] /\ dials \subseteq Dial
  BY <1>2, Before
<1> HIDE DEF on
<1>5. CASE DialRefused(c, a)
  <2>1. /\ mem' = [mem EXCEPT ![c] = mem[c]] /\ UNCHANGED <<session, dials>>
        /\ db'[c].state = "ended" /\ \A d \in Calls \ {c} : db'[d] = db[d]
    BY <1>4, <1>5 DEF DialRefused, Row
  <2>2. OwnRows(c, session, session')
    BY <2>1 DEF OwnRows
  <2>3. CallOK(c, mem[c], session', Dialed(c)')
    BY <1>2, <2>1, Before DEF Dialed
  <2>. QED BY <1>2, <2>1, <2>2, <2>3, CallStep
<1>6. CASE CarrierUnusable(c, a)
  <2>1. HangUp(on, c, src) /\ UNCHANGED dials
    BY <1>6 DEF CarrierUnusable, on
  <2>2. \A x \in Agents : on[x].call = c => x = a /\ on[x].state = "on_call"
    BY <1>2 DEF Talks
  <2> HIDE DEF src
  <2>. QED BY <1>2, <1>3, <2>1, <2>2, HangUpStep
<1>7. CASE CarrierFails(c, a)
  <2>1. /\ mem' = [mem EXCEPT ![c] = src] /\ session' = on /\ UNCHANGED dials
        /\ db' = [db EXCEPT ![c] = Row(Fresh("pstn", NoQueue))]
    BY <1>7 DEF CarrierFails, on
  <2>2. db'[c].state = "created" /\ \A d \in Calls \ {c} : db'[d] = db[d]
    BY <1>4, <2>1 DEF Row, Fresh
  <2>3. ~Dialed(c)'
    BY <1>2, <2>1 DEF Dialed
  <2>4. src = [Source("pstn", a) EXCEPT !.state = src.state, !.offered = src.offered]
    BY DEF Source, Fresh
  <2>5. Talks(session', a, c) /\ \A x \in Agents \ {a} : session'[x].call # c
    BY <1>2, <2>1
  <2> HIDE DEF src
  <2>6. CallOK(c, src, session', Dialed(c)')
    BY <1>3, <2>3, <2>4, <2>5, SourceOK
  <2>. QED BY <1>2, <2>1, <2>2, <2>6, CallStep
<1>8. CASE CarrierCall(c, a)
  <2> DEFINE n == [src EXCEPT !.state = "ringing"]
             d == [call |-> c, agent |-> NoAgent, leg |-> NoLeg]
  <2>1. /\ mem' = [mem EXCEPT ![c] = n] /\ session' = on /\ dials' = dials \cup {d}
        /\ db' = [db EXCEPT ![c] = Row(n)]
    BY <1>8 DEF CarrierCall, on, Transition
  <2>2. n = [Source("pstn", a) EXCEPT !.state = n.state, !.offered = n.offered]
        /\ n.state = "ringing" /\ n.offered = NoAgent
    BY DEF Source, Fresh
  <2>3. d.call = c /\ d.agent = NoAgent /\ d.leg = NoLeg
    OBVIOUS
  <2>4. Talks(session', a, c) /\ \A x \in Agents \ {a} : session'[x].call # c
    BY <1>2, <2>1
  <2> HIDE DEF n, d
  <2>5. db'[c].state = "ringing" /\ \A e \in Calls \ {c} : db'[e] = db[e]
    BY <1>4, <2>1, <2>2 DEF Row
  <2>6. CallOK(c, n, session', Dialed(c)')
    BY <1>3, <2>2, <2>4, SourceOK
  <2>. QED BY <1>2, <2>1, <2>3, <2>5, <2>6, CallStep
<1>. QED BY <1>5, <1>6, <1>7, <1>8

LEMMA BeginKept ==
  ASSUME Reservations, NEW c \in Calls, Begin(c), Base'
  PROVE  Reservations'
BY InboundKept, InternalKept, CarrierKept DEF Begin

\* tryDispatch: a queued call holds nobody, so who is picked was idle.
LEMMA DispatchKept ==
  ASSUME Reservations, NEW c \in Calls, Dispatch(c), Base'
  PROVE  Reservations'
<1> DEFINE m == mem[c]
<1>1. phase = "up" /\ c \in dispatching
  BY DEF Dispatch, NobodyFree, Offer, OfferFails
<1>2. /\ m \in RuntimeCall /\ session \in [Agents -> SoundRow]
      /\ CallOK(c, m, session, Dialed(c)) /\ dials \subseteq Dial
      /\ m.state = "queued" /\ m.queue # NoQueue /\ m.queue \in Queues
      /\ Members[m.queue] \subseteq Agents
  <2>1. m \in RuntimeCall /\ m.state = "queued" /\ m.queue # NoQueue
    BY <1>1, Before DEF Base, TypeOK
  <2>2. m.queue \in Queues
    BY <2>1 DEF RuntimeCall
  <2>. QED BY <1>1, <2>1, <2>2, Before, CallAssumption
<1> HIDE DEF m
<1>3. /\ m.kind # "internal" /\ ~Dialed(c) /\ m.consult = NoAgent
      /\ \A x \in Agents : session[x].call # c
  BY <1>2, CallAssumption DEF CallOK, Known, Named, Formed, Concerned, Talking
<1>4. "queue" \in Commands \/ Len(m.legs) = 0
  BY <1>2, <1>3, NoLegs
<1>5. CASE NobodyFree(c)
  <2>1. UNCHANGED <<mem, db, session, dials, phase>>
    BY <1>5 DEF NobodyFree
  <2>. QED BY <2>1, RowsStep
<1>6. ASSUME NEW a \in Agents, a \in Pickable(session, c, Members[m.queue])
      PROVE  /\ session[a].state = "idle" /\ session[a].call = NoCall
             /\ Picked(session, c, a) \in [Agents -> SoundRow]
             /\ \A x \in Agents \ {a} : Picked(session, c, a)[x] = session[x]
             /\ Picked(session, c, a)[a].state = "ringing"
             /\ Picked(session, c, a)[a].call = c
             /\ OwnRows(c, session, Picked(session, c, a))
  <2>1. HeldBy(session, c) = {}
    BY <1>3 DEF HeldBy
  <2>2. session[a].state = "idle" /\ session[a] \in SoundRow
    BY <1>2, <1>6, <2>1 DEF Pickable, Candidates
  <2>3. session[a].call = NoCall
    BY <2>2 DEF SoundRow, Reserved
  <2> DEFINE r == [session[a] EXCEPT !.state = "ringing", !.call = c]
  <2>4. r \in SoundRow /\ r.state = "ringing" /\ r.call = c
    BY <2>2, NullAssumption DEF SoundRow, Session, Reserved
  <2>5. Picked(session, c, a) = [session EXCEPT ![a] = r]
    BY <2>1 DEF Picked
  <2> HIDE DEF r
  <2>. QED BY <1>2, <2>2, <2>3, <2>4, <2>5 DEF OwnRows
<1>7. ASSUME NEW a \in Agents, Offer(c, a)
      PROVE  Reservations'
  <2> DEFINE n == [m EXCEPT !.state = "ringing", !.offered = a]
  <2>1. /\ a \in Pickable(session, c, Members[m.queue])
        /\ session' = Picked(session, c, a) /\ RingTarget(c, a, n)
    BY <1>7 DEF Offer, RingTarget, m
  <2>2. /\ n \in RuntimeCall /\ n.state = "ringing" /\ n.offered = a
        /\ n.consult = NoAgent /\ n.kind # "internal" /\ n.legs = m.legs
    BY <1>2, <1>3 DEF RuntimeCall, Live
  <2> HIDE DEF n
  <2>4. /\ session'[a].state = "ringing" /\ session'[a].call = c
        /\ \A x \in Agents \ {a} : session'[x].call # c
    BY <1>3, <1>6, <2>1
  <2>3. CallOK(c, n, session', Dialed(c))
    BY <1>3, <1>4, <2>2, <2>4, RingsOneOK
  <2>. QED BY <1>1, <1>6, <2>1, <2>2, <2>3, RingStep
<1>8. ASSUME NEW a \in Agents, OfferFails(c, a)
      PROVE  Reservations'
  <2> DEFINE n == [m EXCEPT !.offered = a]
             tt == Picked(session, c, a)
  <2>1. /\ a \in Pickable(session, c, Members[m.queue])
        /\ session' = Sets(tt, c, a, "ringing", "idle") /\ Transition(c, n)
        /\ UNCHANGED dials
    BY <1>8 DEF OfferFails, m
  <2>2. /\ n \in RuntimeCall /\ n.state = "queued" /\ n.consult = NoAgent
        /\ n.kind # "internal" /\ n.legs = m.legs
    BY <1>2, <1>3 DEF RuntimeCall
  <2> HIDE DEF n
  <2>3. /\ session[a].state = "idle" /\ session[a].call = NoCall
        /\ tt \in [Agents -> SoundRow] /\ \A x \in Agents \ {a} : tt[x] = session[x]
        /\ tt[a].state = "ringing" /\ tt[a].call = c /\ OwnRows(c, session, tt)
    BY <1>6, <2>1
  <2> HIDE DEF tt
  <2>4. "idle" \in Releasing
    BY DEF Releasing
  <2>5. /\ \A x \in Agents \ {a} : session'[x] = tt[x]
        /\ session'[a].call = NoCall /\ session'[a].state \in Releasing
        /\ OwnRows(c, tt, session')
    BY <2>1, <2>3, <2>4, Frees
  <2>6. OwnRows(c, session, session') /\ \A x \in Agents : session'[x].call # c
    BY <1>3, <2>3, <2>5, OwnRowsTrans, NullAssumption
  <2>7. CallOK(c, n, session', Dialed(c)) /\ (Dialed(c)' => Dialed(c))
    BY <1>3, <1>4, <2>1, <2>2, <2>6, AloneOK DEF Dialed
  <2>. QED BY <1>1, <2>1, <2>2, <2>6, <2>7, TransitionStep
<1>. QED BY <1>5, <1>7, <1>8 DEF Dispatch

\* The offered agent answers, by a command or on its device.
LEMMA AnsweredKept ==
  ASSUME Reservations, phase = "up", NEW c \in Calls, NEW a \in Agents, Base',
         mem[c].state \in {"ringing"} \cup Talking, mem[c].offered = a,
         MayConnect(c, a), Answered(c, a), dials' \subseteq dials
  PROVE  Reservations'
<1> DEFINE m == mem[c]
           n == AnsweredCall(m, a)
<1>1. /\ m \in RuntimeCall /\ session \in [Agents -> SoundRow]
      /\ CallOK(c, m, session, Dialed(c))
  BY Before
<1>2. /\ ~Refused(session[a], Over, c, "ringing", "on_call")
      /\ session' = Sets(session, c, a, "ringing", "on_call")
      /\ Transition(c, n)
  BY DEF MayConnect, Rejects, Answered, AnsweredCall
<1>3. "on_call" \in Reserved /\ "ringing" # AnyState
  BY NullAssumption DEF Reserved
<1>4. /\ \A b \in Agents \ {a} : session'[b] = session[b]
      /\ Talks(session', a, c) /\ session[a].state = "ringing"
      /\ OwnRows(c, session, session')
  BY <1>1, <1>2, <1>3, Takes DEF Talks
<1> HIDE DEF m
<1>5. CallOK(c, n, session', Dialed(c)) /\ m.state = "ringing" /\ m.offered = a
  BY <1>1, <1>4, AnsweredOK DEF m
<1>6. n \in RuntimeCall /\ n.state # "none"
  BY <1>1, AnsweredTyped DEF Talking
<1>7. Dialed(c)' => Dialed(c)
  BY DEF Dialed
<1> HIDE DEF n
<1>. QED BY <1>2, <1>4, <1>5, <1>6, <1>7, TransitionStep

\* The offer ends without an answer (doDecline, tickCall).
LEMMA OfferLostKept ==
  ASSUME Reservations, NEW c \in Calls, Handles(c), mem[c].state = "ringing",
         mem[c].offered # NoAgent, OfferLost(c), UNCHANGED dials, Base'
  PROVE  Reservations'
<1> DEFINE m == mem[c]
           a == m.offered
           x == [m EXCEPT !.offered = NoAgent]
           n == [x EXCEPT !.consult = NoAgent, !.state = "active"]
           q == [x EXCEPT !.state = "queued"]
<1>1. /\ phase = "up" /\ m \in RuntimeCall /\ session \in [Agents -> SoundRow]
      /\ CallOK(c, m, session, Dialed(c)) /\ m.state = "ringing"
  BY Before DEF Handles, LockFree
<1>2. a \in Agents /\ session[a].state = "ringing" /\ session[a].call = c
  BY <1>1 DEF CallOK, Named, RuntimeCall
<1>3. session' = Sets(session, c, a, "ringing", "idle") /\ "idle" \in Releasing
  BY DEF OfferLost, Releasing
<1> HIDE DEF m
<1>4. /\ \A b \in Agents \ {a} : session'[b] = session[b]
      /\ session'[a].call = NoCall
      /\ OwnRows(c, session, session')
  BY <1>1, <1>2, <1>3, Frees
<1>5. Dialed(c)' => Dialed(c)
  BY DEF Dialed
<1>6. CASE m.consult # NoAgent
  <2>1. Transition(c, n)
    BY <1>6 DEF OfferLost, m
  <2>2. /\ n \in RuntimeCall /\ n.state = "active" /\ n.kind = m.kind
        /\ n.queue = m.queue /\ n.offered = NoAgent /\ n.active = m.active
        /\ n.consult = NoAgent /\ n.legs = m.legs
    BY <1>1 DEF RuntimeCall, Live
  <2> HIDE DEF n
  <2>3. CallOK(c, n, session', Dialed(c))
    BY <1>1, <1>2, <1>4, <1>6, <2>2, BackToConsultOK
  <2>. QED BY <1>1, <1>4, <1>5, <2>1, <2>2, <2>3, TransitionStep
<1>7. CASE m.consult = NoAgent
  <2>1. Transition(c, q)
    <3>1. x.consult = NoAgent
      BY <1>1, <1>7 DEF RuntimeCall
    <3>. QED BY <3>1 DEF OfferLost, m, ToQueue
  <2>2. /\ q \in RuntimeCall /\ q.state = "queued" /\ q.kind = m.kind
        /\ q.queue = m.queue /\ q.offered = NoAgent
        /\ q.consult = NoAgent /\ q.legs = m.legs
    BY <1>1, <1>7 DEF RuntimeCall, Live
  <2> HIDE DEF q
  <2>3. CallOK(c, q, session', Dialed(c))
    BY <1>1, <1>2, <1>4, <1>7, <2>2, BackToQueueOK
  <2>. QED BY <1>1, <1>4, <1>5, <2>1, <2>2, <2>3, TransitionStep
<1>. QED BY <1>6, <1>7

\* The device of the offered agent could not be reached (ringDevice).
LEMMA DeviceFailedKept ==
  ASSUME Reservations, phase = "up", NEW c \in Calls, NEW a \in Agents, Base',
         mem[c].state = "ringing", mem[c].offered = a,
         DeviceFailed(c, a), dials' \subseteq dials
  PROVE  Reservations'
<1> DEFINE m == mem[c]
           x == [m EXCEPT !.offered = NoAgent, !.sipLeg = NoLeg, !.sipCancel = FALSE]
           ss == Sets(session, c, a, AnyState, "busy")
           n == [x EXCEPT !.active = x.consult, !.consult = NoAgent, !.state = "active"]
           q == [x EXCEPT !.state = "queued"]
<1>1. /\ m \in RuntimeCall /\ session \in [Agents -> SoundRow]
      /\ CallOK(c, m, session, Dialed(c)) /\ m.state = "ringing" /\ m.offered = a
      /\ NoAgent \notin Agents /\ a # NoAgent /\ c # NoCall
  BY Before, CallAssumption, NullAssumption
<1>2. session[a].state = "ringing" /\ session[a].call = c
  BY <1>1 DEF CallOK, Named
<1>3. IF x.consult # NoAgent THEN session' = ss /\ Transition(c, n)
      ELSE IF x.queue # NoQueue THEN session' = ss /\ Transition(c, q)
      ELSE HangUp(ss, c, x)
  BY DEF DeviceFailed
<1> HIDE DEF m
<1>4. /\ x.state = m.state /\ x.offered = NoAgent /\ x.active = m.active
      /\ x.consult = m.consult /\ x.queue = m.queue /\ x.kind = m.kind
      /\ x.legs = m.legs /\ x \in RuntimeCall
  BY <1>1 DEF RuntimeCall
<1>5. "busy" \in Releasing
  BY DEF Releasing
<1>6. /\ ss \in [Agents -> SoundRow]
      /\ \A b \in Agents \ {a} : ss[b] = session[b]
      /\ ss[a].call = NoCall
      /\ OwnRows(c, session, ss)
  BY <1>1, <1>2, <1>5, Frees
<1>7. Dialed(c)' => Dialed(c)
  BY DEF Dialed
<1> HIDE DEF x, ss
<1>8. CASE x.consult # NoAgent
  <2>1. session' = ss /\ Transition(c, n)
    BY <1>3, <1>8
  <2>2. /\ n \in RuntimeCall /\ n.state = "active" /\ n.kind = m.kind
        /\ n.queue = m.queue /\ n.offered = NoAgent /\ n.active = m.consult
        /\ n.consult = NoAgent /\ n.legs = m.legs
    BY <1>4 DEF RuntimeCall, Live
  <2> HIDE DEF n
  <2>3. CallOK(c, n, session', Dialed(c))
    BY <1>1, <1>4, <1>6, <1>8, <2>1, <2>2, BackToConsultOK
  <2>. QED BY <1>6, <1>7, <2>1, <2>2, <2>3, TransitionStep
<1>9. CASE x.consult = NoAgent /\ x.queue # NoQueue
  <2>1. session' = ss /\ Transition(c, q)
    BY <1>3, <1>9
  <2>2. /\ q \in RuntimeCall /\ q.state = "queued" /\ q.kind = m.kind
        /\ q.queue = m.queue /\ q.offered = NoAgent
        /\ q.consult = NoAgent /\ q.legs = m.legs
    BY <1>4, <1>9 DEF RuntimeCall, Live
  <2> HIDE DEF q
  <2>3. CallOK(c, q, session', Dialed(c))
    BY <1>1, <1>4, <1>6, <1>9, <2>1, <2>2, BackToQueueOK
  <2>. QED BY <1>6, <1>7, <2>1, <2>2, <2>3, TransitionStep
<1>10. CASE x.consult = NoAgent /\ x.queue = NoQueue
  <2>1. HangUp(ss, c, x)
    BY <1>3, <1>10
  <2>2. \A b \in Agents : ss[b].call = c =>
          /\ ss[b].state # "ringing"
          /\ ss[b].state = "on_call" => b \in Range(x.legs)
    BY <1>1, <1>4, <1>6 DEF CallOK, Known
  <2>3. x.offered \notin Agents
    BY <1>1, <1>4
  <2>. QED BY <1>4, <1>6, <2>1, <2>2, <2>3, HangUpStep
<1>. QED BY <1>8, <1>9, <1>10

\* The goroutine of a dial gets its answer.
LEMMA DialReturnsKept ==
  ASSUME Reservations, NEW c \in Calls, DialReturns(c), Base'
  PROVE  Reservations'
<1>1. PICK d \in dials, ok \in BOOLEAN :
        d.call = c /\ (DeviceReturns(d, ok) \/ CarrierReturns(d, ok))
  BY DEF DialReturns
<1>2. phase = "up" /\ dials' = dials \ {d} /\ UNCHANGED phase
  BY <1>1 DEF DeviceReturns, CarrierReturns, LockFree
<1>3. /\ mem[c] \in RuntimeCall /\ session \in [Agents -> SoundRow]
      /\ CallOK(c, mem[c], session, Dialed(c)) /\ d \in Dial /\ DialsKnown
      /\ dials \subseteq Dial /\ dials' \subseteq dials
  BY <1>2, Before DEF Reservations
<1>4. CASE UNCHANGED <<mem, db, session>>
  BY <1>2, <1>3, <1>4, RowsStep
<1>5. CASE DeviceReturns(d, ok) /\ ReachesOffer(d)
  <2>1. /\ d.agent \in Agents /\ mem[c].state = "ringing" /\ mem[c].offered = d.agent
    BY <1>1, <1>3, <1>5 DEF DeviceReturns, ReachesOffer, Dial
  <2>2. \/ MayConnect(c, d.agent) /\ Answered(c, d.agent)
        \/ DeviceFailed(c, d.agent)
    BY <1>1, <1>5 DEF DeviceReturns
  <2>. QED BY <1>2, <1>3, <2>1, <2>2, AnsweredKept, DeviceFailedKept
<1>6. CASE CarrierReturns(d, ok) /\ mem[c].state # "none"
  <2>1. d.agent = NoAgent /\ Dialed(c)
    BY <1>1, <1>6 DEF CarrierReturns, Dialed
  <2>2. ~Dialed(c)'
    <3>1. ASSUME NEW e \in dials', e.call = c, e.agent = NoAgent
          PROVE  FALSE
      <4>1. e \in Dial /\ e.leg = NoLeg /\ d.leg = NoLeg
        BY <1>3, <2>1, <3>1 DEF DialsKnown
      <4>2. e = d
        BY <1>1, <1>3, <2>1, <3>1, <4>1 DEF Dial
      <4>. QED BY <1>2, <4>2
    <3>. QED BY <3>1 DEF Dialed
  <2>3. CASE ok
    <3> DEFINE m == mem[c]
               n == [m EXCEPT !.state = "active", !.answered = TRUE]
    <3>1. Transition(c, n) /\ UNCHANGED session
      BY <1>1, <1>6, <2>3 DEF CarrierReturns
    <3>2. /\ n \in RuntimeCall /\ n.state = "active" /\ n.kind = m.kind
          /\ n.queue = m.queue /\ n.offered = m.offered /\ n.active = m.active
          /\ n.consult = m.consult /\ n.legs = m.legs
      BY <1>3 DEF RuntimeCall, Live
    <3> HIDE DEF n
    <3>3. CallOK(c, m, session, TRUE) /\ m \in RuntimeCall /\ m.state # "none"
      BY <1>3, <1>6, <2>1 DEF CallOK, Formed
    <3> HIDE DEF m
    <3>4. CallOK(c, n, session', FALSE)
      BY <3>1, <3>2, <3>3, ConnectedOK
    <3>5. OwnRows(c, session, session')
      BY <3>1 DEF OwnRows
    <3>. QED BY <1>2, <1>3, <2>2, <3>1, <3>2, <3>4, <3>5, TransitionStep
  <2>4. CASE ~ok
    <3>1. HangUp(session, c, mem[c])
      BY <1>1, <1>6, <2>4 DEF CarrierReturns
    <3>. QED BY <1>2, <1>3, <1>6, <3>1, HangUpNow
  <2>. QED BY <2>3, <2>4
<1>. QED
  BY <1>1, <1>4, <1>5, <1>6 DEF DeviceReturns, CarrierReturns

\* A call without agents goes to a queue, from a flow or by the overflow.
LEMMA RequeuedKept ==
  ASSUME Reservations, NEW c \in Calls, Handles(c), Base',
         mem[c].state \in {"ivr", "queued"}, mem[c].kind # "internal",
         NEW q \in Queues \cup {NoQueue}, ToQueue(c, [mem[c] EXCEPT !.queue = q]),
         UNCHANGED <<session, dials>>
  PROVE  Reservations'
<1> DEFINE m == mem[c]
           n == [[m EXCEPT !.queue = q] EXCEPT !.state = "queued"]
<1>1. /\ phase = "up" /\ m \in RuntimeCall /\ session \in [Agents -> SoundRow]
      /\ CallOK(c, m, session, Dialed(c)) /\ m.state \in {"ivr", "queued"}
      /\ m.kind # "internal"
  BY Before DEF Handles, LockFree
<1>2. Transition(c, n)
  BY DEF ToQueue
<1> HIDE DEF m
<1>3. /\ n \in RuntimeCall /\ n.state = "queued" /\ n.kind # "internal"
      /\ n.consult = m.consult /\ n.legs = m.legs
  BY <1>1 DEF RuntimeCall, Live
<1>4. /\ ~Dialed(c) /\ m.consult = NoAgent /\ \A a \in Agents : session[a].call # c
  BY <1>1 DEF CallOK, Known, Named, Formed, Concerned, Talking
<1>5. "queue" \in Commands \/ Len(m.legs) = 0
  BY <1>1, <1>4, NoLegs
<1> HIDE DEF n
<1>6. CallOK(c, n, session', Dialed(c)) /\ (Dialed(c)' => Dialed(c))
  BY <1>3, <1>4, <1>5, AloneOK DEF Dialed
<1>7. OwnRows(c, session, session')
  BY DEF OwnRows
<1>. QED BY <1>1, <1>2, <1>3, <1>6, <1>7, TransitionStep

LEMMA BackgroundKept ==
  ASSUME Reservations, NEW c \in Calls, Background(c), Base'
  PROVE  Reservations'
<1>1. CASE Dispatch(c)
  BY <1>1, DispatchKept
<1>2. CASE DialReturns(c)
  BY <1>2, DialReturnsKept
<1>3. CASE OfferTimeout(c)
  BY <1>3, OfferLostKept DEF OfferTimeout
<1>4. CASE TickDispatch(c)
  <2>1. UNCHANGED <<mem, db, session, dials, phase>>
    BY <1>4 DEF TickDispatch
  <2>. QED BY <2>1, RowsStep
<1>5. CASE WaitExpired(c)
  <2>1. /\ Handles(c) /\ mem[c].state = "queued" /\ UNCHANGED dials /\ phase = "up"
        /\ mem[c] \in RuntimeCall /\ CallOK(c, mem[c], session, Dialed(c))
    BY <1>5, Before DEF WaitExpired, Handles, LockFree
  <2>2. CASE mem[c].queue # NoQueue /\ OverflowTo[mem[c].queue] # NoQueue
    <3>1. /\ ToQueue(c, [mem[c] EXCEPT !.queue = OverflowTo[mem[c].queue]])
          /\ UNCHANGED session
      BY <1>5, <2>2 DEF WaitExpired
    <3>2. mem[c].kind # "internal" /\ mem[c].queue \in Queues
      BY <2>1, <2>2 DEF CallOK, Formed, RuntimeCall
    <3>3. OverflowTo[mem[c].queue] \in Queues \cup {NoQueue}
      BY <3>2, CallAssumption
    <3>. QED BY <2>1, <3>1, <3>2, <3>3, RequeuedKept
  <2>3. CASE ~(mem[c].queue # NoQueue /\ OverflowTo[mem[c].queue] # NoQueue)
    <3>1. HangUp(session, c, mem[c])
      BY <1>5, <2>3 DEF WaitExpired
    <3>. QED BY <2>1, <3>1, HangUpNow
  <2>. QED BY <2>2, <2>3
<1>6. CASE RecoverCall(c)
  BY <1>6, RestartKept
<1>. QED BY <1>1, <1>2, <1>3, <1>4, <1>5, <1>6 DEF Background

\* A transfer takes the call from its only agent and rings another one.
LEMMA BlindTransferKept ==
  ASSUME Reservations, Orderly, NEW c \in Calls, NEW b \in Agents,
         BlindTransfer(c, b), Base'
  PROVE  Reservations'
<1> DEFINE m == mem[c]
           from == m.active
           rung == Sets(session, c, b, "idle", "ringing")
           x == [m EXCEPT !.state = "ringing", !.offered = b, !.consult = NoAgent]
           n == WithoutLegs(x, from)
<1>1. /\ phase = "up" /\ m \in RuntimeCall /\ session \in [Agents -> SoundRow]
      /\ CallOK(c, m, session, Dialed(c)) /\ m.state \in Talking
      /\ m.consult = NoAgent /\ m.kind # "internal" /\ c # NoCall /\ NoAgent \notin Agents
      /\ ~Refused(session[b], Over, c, "idle", "ringing")
  BY Before, NullAssumption, CallAssumption
     DEF BlindTransfer, Handles, LockFree, Undisturbed, Orderly, Rejects
<1>2. /\ from \in Agents /\ CurrentAgent(m) = from /\ Talks(session, from, c) /\ ~Dialed(c)
      /\ \A a \in Agents \ {from} : session[a].call # c
      /\ "queue" \notin Commands => Len(Without(m.legs, from)) = 0
  BY <1>1, OneHolder
<1>3. /\ session' = Sets(rung, c, from, "on_call", "acw")
      /\ RingTarget(c, b, n)
  BY <1>1, <1>2 DEF BlindTransfer
<1>4. "ringing" \in Reserved /\ "idle" # AnyState /\ "acw" \in Releasing
  BY NullAssumption DEF Reserved, Releasing
<1>5. /\ rung \in [Agents -> SoundRow]
      /\ \A a \in Agents \ {b} : rung[a] = session[a]
      /\ rung[b].state = "ringing" /\ rung[b].call = c /\ session[b].state = "idle"
      /\ OwnRows(c, session, rung)
  BY <1>1, <1>4, Takes
<1> HIDE DEF m
<1>6. /\ x \in RuntimeCall /\ x.state = "ringing" /\ x.offered = b /\ x.consult = NoAgent
      /\ x.kind = m.kind /\ x.legs = m.legs
  BY <1>1 DEF RuntimeCall, Live
<1> HIDE DEF x, from, rung
<1>7. /\ n \in RuntimeCall /\ n.state = "ringing" /\ n.offered = b
      /\ n.consult = NoAgent /\ n.kind # "internal"
      /\ n.legs = Without(m.legs, from)
  BY <1>1, <1>6, LegsChange DEF RuntimeCall
<1> HIDE DEF n
<1>8. from # b /\ rung[from].state = "on_call" /\ rung[from].call = c
  BY <1>2, <1>5 DEF Talks
<1>9. /\ \A a \in Agents \ {from} : session'[a] = rung[a]
      /\ session'[from].call = NoCall
      /\ OwnRows(c, rung, session')
  BY <1>2, <1>3, <1>4, <1>5, <1>8, Frees
<1>10. /\ \A a \in Agents \ {b} : session'[a].call # c
       /\ session'[b].state = "ringing" /\ session'[b].call = c
  BY <1>1, <1>2, <1>5, <1>8, <1>9
<1>11. CallOK(c, n, session', Dialed(c))
  BY <1>2, <1>7, <1>10, RingsOneOK
<1>12. OwnRows(c, session, session')
  BY <1>5, <1>9, OwnRowsTrans
<1>. QED BY <1>1, <1>3, <1>7, <1>11, <1>12, RingStep

\* A consultation keeps the agent that asks and rings another one.
LEMMA ConsultTransferKept ==
  ASSUME Reservations, Orderly, NEW c \in Calls, NEW b \in Agents,
         ConsultTransfer(c, b), Base'
  PROVE  Reservations'
<1> DEFINE m == mem[c]
           n == [m EXCEPT !.state = "ringing", !.offered = b, !.consult = m.active]
<1>1. /\ phase = "up" /\ m \in RuntimeCall /\ session \in [Agents -> SoundRow]
      /\ CallOK(c, m, session, Dialed(c)) /\ m.state \in Talking /\ m.consult = NoAgent
      /\ ~Refused(session[b], Over, c, "idle", "ringing")
      /\ session' = Sets(session, c, b, "idle", "ringing")
  BY Before DEF ConsultTransfer, Handles, LockFree, Orderly, Rejects
<1>2. m.active \in Agents /\ CurrentAgent(m) = m.active
  BY <1>1, OneHolder
<1>3. RingTarget(c, b, n)
  BY <1>2 DEF ConsultTransfer
<1>4. "ringing" \in Reserved /\ "idle" # AnyState
  BY NullAssumption DEF Reserved, Releasing
<1>5. /\ \A a \in Agents \ {b} : session'[a] = session[a]
      /\ session'[b].state = "ringing" /\ session'[b].call = c /\ session[b].state = "idle"
      /\ OwnRows(c, session, session')
  BY <1>1, <1>4, Takes
<1> HIDE DEF m
<1>6. /\ n \in RuntimeCall /\ n.state = "ringing" /\ n.kind = m.kind /\ n.queue = m.queue
      /\ n.offered = b /\ n.active = m.active /\ n.consult = m.active /\ n.legs = m.legs
  BY <1>1, <1>2 DEF RuntimeCall, Live
<1> HIDE DEF n
<1>7. CallOK(c, n, session', Dialed(c))
  BY <1>1, <1>5, <1>6, ConsultOK
<1>. QED BY <1>1, <1>3, <1>5, <1>6, <1>7, RingStep

\* A transfer to a queue releases the only agent of the call.
LEMMA QueueTransferKept ==
  ASSUME Reservations, Orderly, NEW c \in Calls, NEW q \in Queues,
         QueueTransfer(c, q), Base'
  PROVE  Reservations'
<1> DEFINE m == mem[c]
           x == [m EXCEPT !.queue = q, !.offered = NoAgent, !.consult = NoAgent]
           n == [x EXCEPT !.state = "queued"]
<1>1. /\ phase = "up" /\ m \in RuntimeCall /\ session \in [Agents -> SoundRow]
      /\ CallOK(c, m, session, Dialed(c)) /\ m.state \in Talking
      /\ m.consult = NoAgent /\ m.kind # "internal" /\ c # NoCall /\ NoAgent \notin Agents
      /\ "queue" \in Commands /\ UNCHANGED dials
  BY Before, NullAssumption, CallAssumption
     DEF QueueTransfer, Handles, LockFree, Undisturbed, Orderly
<1>2. /\ m.active \in Agents /\ CurrentAgent(m) = m.active /\ Talks(session, m.active, c)
      /\ ~Dialed(c) /\ \A a \in Agents \ {m.active} : session[a].call # c
  BY <1>1, OneHolder
<1>3. session' = Sets(session, c, m.active, "on_call", "acw") /\ Transition(c, n)
  BY <1>1, <1>2 DEF QueueTransfer, ToQueue
<1>4. "acw" \in Releasing
  BY DEF Releasing
<1> HIDE DEF m
<1>5. /\ \A a \in Agents \ {m.active} : session'[a] = session[a]
      /\ session'[m.active].call = NoCall
      /\ OwnRows(c, session, session')
  BY <1>1, <1>2, <1>3, <1>4, Frees DEF Talks
<1>6. /\ n \in RuntimeCall /\ n.state = "queued" /\ n.consult = NoAgent
      /\ n.kind # "internal"
  BY <1>1 DEF RuntimeCall, Live
<1> HIDE DEF n
<1>7. \A a \in Agents : session'[a].call # c
  BY <1>1, <1>2, <1>5
<1>8. CallOK(c, n, session', Dialed(c)) /\ (Dialed(c)' => Dialed(c))
  BY <1>1, <1>2, <1>6, <1>7, AloneOK DEF Dialed
<1>. QED BY <1>1, <1>3, <1>5, <1>6, <1>8, TransitionStep

\* The consultation is completed: its first agent leaves.
LEMMA CompleteTransferKept ==
  ASSUME Reservations, Orderly, NEW c \in Calls, CompleteTransfer(c), Base'
  PROVE  Reservations'
<1> DEFINE m == mem[c]
           x == WithoutLegs(m, m.consult)
           n == [x EXCEPT !.consult = NoAgent, !.state = "active"]
<1>1. /\ phase = "up" /\ m \in RuntimeCall /\ session \in [Agents -> SoundRow]
      /\ CallOK(c, m, session, Dialed(c)) /\ m.consult # NoAgent /\ m.offered = NoAgent
      /\ session' = Sets(session, c, m.consult, "on_call", "acw") /\ Transition(c, n)
      /\ UNCHANGED dials
  BY Before DEF CompleteTransfer, Handles, LockFree, Orderly
<1>2. "acw" \in Releasing
  BY DEF Releasing
<1> HIDE DEF m
<1>3. m.consult \in Agents /\ Talks(session, m.consult, c)
  BY <1>1 DEF CallOK, Named, RuntimeCall
<1>4. /\ \A a \in Agents \ {m.consult} : session'[a] = session[a]
      /\ session'[m.consult].call = NoCall
      /\ OwnRows(c, session, session')
  BY <1>1, <1>2, <1>3, Frees DEF Talks
<1>5. x \in RuntimeCall /\ x = [m EXCEPT !.legs = Without(m.legs, m.consult)]
  BY <1>1, LegsChange
<1> HIDE DEF x
<1>6. /\ n \in RuntimeCall /\ n.state = "active" /\ n.kind = m.kind /\ n.queue = m.queue
      /\ n.offered = NoAgent /\ n.active = m.active /\ n.consult = NoAgent
      /\ n.legs = Without(m.legs, m.consult)
  BY <1>1, <1>5 DEF RuntimeCall, Live
<1> HIDE DEF n
<1>7. CallOK(c, n, session', Dialed(c))
  BY <1>1, <1>4, <1>6, CompletedOK
<1>8. Dialed(c)' => Dialed(c)
  BY <1>1 DEF Dialed
<1>. QED BY <1>1, <1>4, <1>6, <1>7, <1>8, TransitionStep

\* EnterIVR is never refused: every leg talks and has one entry.
LEMMA EnterIVRKept ==
  ASSUME Reservations, Orderly, NEW c \in Calls, EnterIVR(c), Base'
  PROVE  Reservations'
<1> DEFINE m == mem[c]
           done == LegsDone(c)
           rest == SubSeq(m.legs, done + 1, Len(m.legs))
           x == [m EXCEPT !.legs = rest]
           n == [x EXCEPT !.state = "ivr", !.active = NoAgent, !.offered = NoAgent]
<1>1. /\ phase = "up" /\ m \in RuntimeCall /\ session \in [Agents -> SoundRow]
      /\ CallOK(c, m, session, Dialed(c)) /\ m.state \in Talking
      /\ m.consult = NoAgent /\ m.kind # "internal" /\ c # NoCall
      /\ "queue" \notin Commands /\ UNCHANGED dials
  BY Before, NullAssumption
     DEF EnterIVR, Handles, LockFree, Undisturbed, Orderly
<1>2. /\ session' = [a \in Agents |-> IF \E i \in 1 .. done : m.legs[i] = a
                       THEN Sets(session, c, a, "on_call", "acw")[a] ELSE session[a]]
      /\ Stuck(c) = {} => Transition(c, n)
  BY EnterIVREffect
<1>3. /\ \A i \in 1 .. Len(m.legs) : Talks(session, m.legs[i], c) /\ m.legs[i] \in Agents
      /\ \A i, j \in 1 .. Len(m.legs) : m.legs[i] = m.legs[j] => i = j
      /\ m.legs \in Seq(Agents) /\ Len(m.legs) \in Nat
      /\ m.state \notin {"none", "ringing"}
  BY <1>1 DEF CallOK, Formed, RuntimeCall, Talking
<1>4. Stuck(c) = {}
  <2>1. ASSUME NEW i \in 1 .. Len(m.legs)
        PROVE  ~Rejects(c, m.legs[i], "on_call", "acw")
    BY <1>3 DEF Rejects, Refused, OtherLiveCall, Talks, Releasing
  <2>2. ASSUME NEW i \in 1 .. Len(m.legs), NEW j \in 1 .. i - 1
        PROVE  m.legs[j] # m.legs[i]
    BY <1>3
  <2>3. DOMAIN m.legs = 1 .. Len(m.legs)
    BY <1>3
  <2>. QED BY <2>1, <2>2, <2>3 DEF Stuck
<1>5. done = Len(m.legs)
  BY <1>4 DEF LegsDone
<1> HIDE DEF m, done
<1>6. rest \in Seq(Agents) /\ Len(rest) = 0
  BY <1>3, <1>5, LegsLeft
<1> HIDE DEF rest
<1>7. /\ x \in RuntimeCall /\ x.consult = m.consult /\ x.kind = m.kind /\ x.legs = rest
  BY <1>1, <1>6 DEF RuntimeCall
<1> HIDE DEF x
<1>8. /\ n \in RuntimeCall /\ n.state = "ivr" /\ n.consult = NoAgent
      /\ n.kind # "internal" /\ Len(n.legs) = 0
  <2>1. m.consult = NoAgent /\ m.kind # "internal"
    BY <1>1
  <2>2. /\ n \in RuntimeCall /\ n.state = "ivr" /\ n.consult = x.consult
        /\ n.kind = x.kind /\ n.legs = x.legs
    BY <1>7 DEF RuntimeCall, Live
  <2>. QED BY <1>6, <1>7, <2>1, <2>2
<1>9. Transition(c, n)
  BY <1>2, <1>4
<1> HIDE DEF n
<1>10. "acw" \in Releasing
  BY DEF Releasing
<1>11. ASSUME NEW a \in Agents
       PROVE  /\ \/ session'[a] = session[a]
                 \/ /\ session'[a].call = NoCall
                    /\ session[a].call \in {NoCall, c} \cup Over
              /\ session[a].call = c => session'[a].call # c
  <2> DEFINE tt == Sets(session, c, a, "on_call", "acw")
  <2>1. /\ tt[a] = session[a] \/ (tt[a].call = NoCall /\ tt[a].state \in Releasing)
        /\ session[a].call = c /\ "on_call" \in {AnyState, session[a].state} =>
             tt[a].call = NoCall /\ tt[a].state \in Releasing
        /\ OwnRows(c, session, tt)
    BY <1>1, <1>10, Frees
  <2> HIDE DEF tt
  <2>2. session'[a] = tt[a] \/ session'[a] = session[a]
    BY <1>2 DEF tt
  <2>3. ASSUME session[a].call = c
        PROVE  session'[a] = tt[a] /\ session[a].state = "on_call"
    <3>1. session[a] \in SoundRow
      BY <1>1
    <3>2. session[a].state \in {"ringing", "on_call"}
      BY <1>1, <2>3, <3>1 DEF SoundRow, Reserved
    <3>3. session[a].state = "on_call" /\ a \in Range(m.legs)
      BY <1>1, <1>3, <2>3, <3>2 DEF CallOK, Known
    <3>4. Range(m.legs) = {m.legs[i] : i \in 1 .. Len(m.legs)}
      BY <1>3, RangeEquality
    <3>5. \E i \in 1 .. done : m.legs[i] = a
      BY <1>5, <3>3, <3>4
    <3>. QED BY <1>2, <3>3, <3>5 DEF tt
  <2>. QED BY <1>1, <2>1, <2>2, <2>3 DEF OwnRows
<1>12. OwnRows(c, session, session')
  BY <1>11 DEF OwnRows
<1>13. \A a \in Agents : session'[a].call # c
  BY <1>1, <1>11
<1>14. ~Dialed(c) /\ (Dialed(c)' => Dialed(c))
  BY <1>1, <1>3 DEF CallOK, Formed, Dialed
<1>15. CallOK(c, n, session', Dialed(c))
  BY <1>8, <1>13, <1>14, AloneOK
<1>. QED BY <1>1, <1>8, <1>9, <1>12, <1>14, <1>15, TransitionStep

LEMMA CommandKept ==
  ASSUME Reservations, Orderly, NEW c \in Calls, Command(c), Base'
  PROVE  Reservations'
<1>1. /\ Handles(c) /\ phase = "up" /\ mem[c].state # "none" /\ mem[c] \in RuntimeCall
      /\ CallOK(c, mem[c], session, Dialed(c)) /\ NoAgent \notin Agents
  <2>1. Handles(c)
    BY DEF Command, Hangup, HangupFails, Hold, CompleteTransfer, EnterIVR, LeaveIVR,
           QueueTransfer, Answer, Decline, BlindTransfer, ConsultTransfer, ConferenceInvite
  <2>. QED BY <2>1, Before, CallAssumption DEF Handles, LockFree
<1>2. CASE Hangup(c)
  BY <1>1, <1>2, HangUpNow DEF Hangup
<1>3. CASE Hold(c)
  <2>1. PICK st \in Talking : Transition(c, [mem[c] EXCEPT !.state = st])
    BY <1>3 DEF Hold
  <2> DEFINE n == [mem[c] EXCEPT !.state = st]
  <2>2. n \in RuntimeCall /\ n.state # "none" /\ CallOK(c, n, session, Dialed(c))
    <3>1. mem[c].state \in Talking
      BY <1>3 DEF Hold
    <3>2. n \in RuntimeCall /\ n.state # "none"
      BY <1>1 DEF RuntimeCall, Talking, Live
    <3>. QED BY <1>1, <3>1, <3>2, HeldOK
  <2>3. UNCHANGED <<session, dials>> /\ OwnRows(c, session, session') /\ Transition(c, n)
    BY <1>3, <2>1 DEF Hold, OwnRows
  <2>4. (Dialed(c)' => Dialed(c)) /\ CallOK(c, n, session', Dialed(c))
    BY <2>2, <2>3 DEF Dialed
  <2> HIDE DEF n
  <2>. QED BY <1>1, <2>2, <2>3, <2>4, TransitionStep
<1>4. CASE CompleteTransfer(c)
  BY <1>4, CompleteTransferKept
<1>5. CASE EnterIVR(c)
  BY <1>5, EnterIVRKept
<1>6. CASE LeaveIVR(c)
  <2>1. CASE HangUp(session, c, mem[c]) /\ UNCHANGED dials
    BY <1>1, <2>1, HangUpNow
  <2>2. ASSUME NEW q \in Queues \cup {mem[c].queue},
               ToQueue(c, [mem[c] EXCEPT !.queue = q]), UNCHANGED session
        PROVE  Reservations'
    <3>1. q \in Queues \cup {NoQueue} /\ mem[c].state = "ivr" /\ mem[c].kind # "internal"
          /\ UNCHANGED dials
      BY <1>1, <1>6 DEF LeaveIVR, RuntimeCall, CallOK, Formed
    <3>. QED BY <1>1, <2>2, <3>1, RequeuedKept
  <2>. QED BY <1>6, <2>1, <2>2 DEF LeaveIVR
<1>7. ASSUME NEW q \in Queues, QueueTransfer(c, q)
      PROVE  Reservations'
  BY <1>7, QueueTransferKept
<1>8. ASSUME NEW a \in Agents, Answer(c, a)
      PROVE  Reservations'
  BY <1>1, <1>8, AnsweredKept DEF Answer, Talking
<1>9. ASSUME NEW a \in Agents, Decline(c, a)
      PROVE  Reservations'
  BY <1>1, <1>9, OfferLostKept DEF Decline
<1>10. ASSUME NEW b \in Agents, BlindTransfer(c, b) \/ ConsultTransfer(c, b)
       PROVE  Reservations'
  BY <1>10, BlindTransferKept, ConsultTransferKept
<1>11. ~HangupFails(c) /\ \A b \in Agents : ~ConferenceInvite(c, b)
  BY DEF HangupFails, ConferenceInvite, Orderly
<1>. QED
  BY <1>2, <1>3, <1>4, <1>5, <1>6, <1>7, <1>8, <1>9, <1>10, <1>11 DEF Command

-------------------------------------------------------------------------------
(* The invariant, and what follows from it *)

LEMMA ReservationsInit == Init => Reservations
<1> SUFFICES ASSUME Init
             PROVE  Reservations
  OBVIOUS
<1>1. Base
  BY BaseInit
<1>2. ASSUME NEW c \in Calls
      PROVE  CallOK(c, mem[c], session, Dialed(c))
  <2>1. \A a \in Agents : session[a].call # c
    BY NullAssumption DEF Init, Offline
  <2>2. CallOK(c, Gone, session, Dialed(c))
    BY <2>1 DEF CallOK, Known, Named, Formed, Gone, Fresh, Talking
  <2>. QED BY <2>2 DEF Init
<1>. QED BY <1>1, <1>2 DEF Reservations, Init, DialsKnown

LEMMA ReservationsStep ==
  ASSUME Orderly, Reservations, [Next]_vars
  PROVE  Reservations'
<1>1. Base'
  BY BaseNext DEF Reservations
<1>2. ASSUME NEW a \in Agents, AgentStep(a)
      PROVE  Reservations'
  BY <1>1, <1>2, AgentStepKept
<1>3. ASSUME NEW c \in Calls, Begin(c) \/ Command(c) \/ Background(c)
      PROVE  Reservations'
  BY <1>1, <1>3, BeginKept, CommandKept, BackgroundKept
<1>4. CASE Crash \/ Serve
  BY <1>1, <1>4, RestartKept
<1>5. CASE UNCHANGED vars
  <2>1. UNCHANGED <<mem, db, phase, session, dials>>
    BY <1>5 DEF vars
  <2>. QED BY <1>1, <2>1, RowsStep
<1>. QED BY <1>2, <1>3, <1>4, <1>5 DEF Next

LEMMA ReservationsHold ==
  ASSUME Orderly
  PROVE  Spec => []Reservations
<1>1. Reservations /\ [Next]_vars => Reservations'
  BY ReservationsStep
<1>. QED BY <1>1, ReservationsInit, PTL DEF Spec

\* While the switch recovers there is no call to be about.
LEMMA ReservedCall ==
  ASSUME Reservations, NEW c \in Calls, mem[c].state # "none"
  PROVE  /\ phase = "up" /\ mem[c] \in RuntimeCall
         /\ CallOK(c, mem[c], session, Dialed(c))
BY Before DEF Reservations, Base, TypeOK, RecoveryIdle

\* An offered agent rings for that call and for no other: tryDispatch,
\* doTransfer and doOutboundWithID reserve before they offer, and whoever ends
\* the offer releases the agent before it forgets it.
THEOREM OffersAreReserved ==
  ASSUME Orderly
  PROVE  Spec => []OfferReserved
<1>1. Reservations => OfferReserved
  <2> SUFFICES ASSUME Reservations, NEW c \in Calls, mem[c].state = "ringing",
                      mem[c].offered # NoAgent
               PROVE  /\ session[mem[c].offered].state = "ringing"
                      /\ session[mem[c].offered].call = c
    BY DEF OfferReserved
  <2>. QED BY ReservedCall DEF CallOK, Named
<1>. QED BY <1>1, ReservationsHold, PTL

LEMMA TalkersNamed == Reservations => TalkersReserved
<1> SUFFICES ASSUME Reservations, NEW c \in Calls
             PROVE  LET m == mem[c]
                        Holds(a) == OnCallWith(a, c) /\ a \in Range(m.legs)
                    IN  /\ m.state \in Talking => m.active # NoAgent /\ Holds(m.active)
                        /\ m.consult # NoAgent => Holds(m.consult)
  BY DEF TalkersReserved
<1>1. CASE mem[c].state = "none"
  <2>1. mem[c] = Gone
    BY <1>1 DEF Reservations
  <2>. QED BY <2>1 DEF Gone, Fresh, Talking
<1>2. CASE mem[c].state # "none"
  BY <1>2, ReservedCall DEF CallOK, Named, Talks, OnCallWith
<1>. QED BY <1>1, <1>2

\* A connected call has an agent on_call for it with a leg in its room, and so
\* has the agent a consultation returns to (doAnswer, doTransfer,
\* completeConsult, doDecline).
THEOREM TalkersAreReserved ==
  ASSUME Orderly
  PROVE  Spec => []TalkersReserved
BY TalkersNamed, ReservationsHold, PTL

\* An active call is staffed: a declined offer returns to a call only when the
\* agent that consulted is still there (service.go:378).
THEOREM ActiveCallsAreStaffed ==
  ASSUME Orderly
  PROVE  Spec => []ActiveIsStaffed
<1>1. Reservations => ActiveIsStaffed
  <2> SUFFICES ASSUME Reservations, NEW c \in Calls, mem[c].state = "active"
               PROVE  \E a \in Agents : OnCallWith(a, c)
    BY DEF ActiveIsStaffed
  <2>1. mem[c].active # NoAgent /\ Talks(session, mem[c].active, c)
        /\ mem[c] \in RuntimeCall
    BY ReservedCall DEF CallOK, Named, Talking
  <2>. QED BY <2>1 DEF RuntimeCall, Talks, OnCallWith
<1>. QED BY <1>1, ReservationsHold, PTL

\* Whoever is reserved while the switch serves is reserved for a call in memory
\* that knows it, so the end of that call releases it (Hangup, service.go:436).
THEOREM NoReservationStrays ==
  ASSUME Orderly
  PROVE  Spec => []NoStrayReservation
<1>1. Reservations => NoStrayReservation
  <2> SUFFICES ASSUME Reservations, phase = "up", NEW a \in Agents,
                      session[a].call # NoCall
               PROVE  LET m == mem[session[a].call]
                      IN  m.state # "none" /\ a \in {m.offered} \cup Range(m.legs)
    BY DEF NoStrayReservation
  <2> DEFINE c == session[a].call
  <2>1. c \in Calls /\ session[a].state \in {"ringing", "on_call"}
    <3>1. session[a] \in SoundRow
      BY Before DEF Reservations, Base
    <3>. QED BY <3>1 DEF SoundRow, Session, Reserved
  <2>2. Known(c, mem[c], session)
    BY <2>1, Before DEF CallOK
  <2>. QED BY <2>1, <2>2 DEF Known
<1>. QED BY <1>1, ReservationsHold, PTL

\* No agent is reserved for a call that is over (Hangup, service.go:436).
THEOREM HangupReleasesAgents ==
  ASSUME Orderly
  PROVE  Spec => []HangupReleases
<1>1. Reservations => HangupReleases
  <2> SUFFICES ASSUME Reservations, phase = "up", NEW a \in Agents,
                      session[a].call \in Over
               PROVE  FALSE
    BY DEF HangupReleases
  <2> DEFINE c == session[a].call
  <2>1. c \in Calls /\ db[c].state \in {"none", "ended"}
    BY DEF Over
  <2>2. mem[c].state # "none" /\ mem[c] \in RuntimeCall
    BY <2>1, Before DEF CallOK, Known
  <2>3. db[c].state = mem[c].state
    BY <2>1, <2>2 DEF Reservations, Base, MemoryPersisted
  <2>. QED BY <2>1, <2>2, <2>3 DEF RuntimeCall, Live
<1>. QED BY <1>1, ReservationsHold, PTL

-------------------------------------------------------------------------------
(* The refinement of AgentLifecycle.  It needs less than the reservations: an  *)
(* agent that rings for a call is the one that the call is offered to, so who  *)
(* answers an offer is not taken away from another call.  A conference and an  *)
(* operator who disturbs an offer make the call forget who rings for it; a     *)
(* recording that cannot be stopped and an agent left behind by a change of    *)
(* queue do not.                                                               *)

OneOffer == Commands \cap {"overlap", "conference"} = {}

Rung(c, m, ss) ==
  \A a \in Agents : ss[a].state = "ringing" /\ ss[a].call = c =>
    m.state = "ringing" /\ m.offered = a

\* While the carrier is asked, nobody is offered the call and nobody consults.
Waits(m, dialed) ==
  dialed /\ m.state # "none" =>
    m.state = "ringing" /\ m.offered = NoAgent /\ m.consult = NoAgent

\* The inductive invariant.
Offers ==
  /\ Base
  /\ DialsKnown
  /\ phase = "up" =>
       \A c \in Calls : Rung(c, mem[c], session) /\ Waits(mem[c], Dialed(c))

\* Every row takes at most one step along the lifecycle of its agent.
RowsMove == \A a \in Agents : RowMayBecome(session[a], session'[a])

\* What every step does.
Along == Offers' /\ RowsMove

\* What a handler of the call c does to a row: it releases it or leaves it, it
\* reserves a free agent for c, or it connects an agent that rings for c.
Freed(s, t) ==
  \/ t.state = s.state /\ t.call = s.call
  \/ s.state # "offline" /\ t.state \in Releasing /\ t.call = NoCall

Engaged(c, s, t) ==
  /\ s.state \in {"idle", "acw"} /\ s.call = NoCall
  /\ t.call = c
  /\ t.state = "on_call" \/ (t.state = "ringing" /\ s.state = "idle")

Connected(c, s, t) ==
  s.state = "ringing" /\ s.call = c /\ t.state = "on_call" /\ t.call = c

RowFollows(c, s, t) == Freed(s, t) \/ Engaged(c, s, t) \/ Connected(c, s, t)

LEMMA FollowsMoves ==
  ASSUME NEW c \in Calls, NEW s \in SoundRow, NEW t, RowFollows(c, s, t)
  PROVE  /\ RowMayBecome(s, t)
         /\ t.state = "ringing" /\ t.call # c => s.state = "ringing" /\ s.call = t.call
<1>1. /\ s.state \in Reserved <=> s.call # NoCall
      /\ s.state \in Reserved \cup Releasing
  BY DEF SoundRow, Session
<1>. QED
  BY <1>1 DEF RowFollows, Freed, Engaged, Connected, RowMayBecome, Reserved, Releasing

\* A release goes on after another, and after a reservation of the same handler.
LEMMA FollowsFreed ==
  ASSUME NEW c, NEW s, NEW t, NEW u, Freed(s, t) \/ Engaged(c, s, t), Freed(t, u)
  PROVE  Freed(s, u) \/ Engaged(c, s, u)
BY DEF Freed, Engaged, Releasing

\* One setState that releases.
LEMMA SetFrees ==
  ASSUME NEW ss \in [Agents -> SoundRow], NEW c \in Calls, NEW a \in Agents,
         NEW from, NEW to \in Releasing, NEW tt, tt = Sets(ss, c, a, from, to)
  PROVE  /\ tt \in [Agents -> SoundRow]
         /\ \A b \in Agents : Freed(ss[b], tt[b])
         /\ ss[a].call = c /\ ss[a].state = "ringing" /\ from \in {AnyState, "ringing"} =>
              tt[a].state # "ringing"
<1>1. tt = SetState(ss, Over, c, a, from, to) /\ c \in Calls \cup {NoCall}
  BY DEF Sets
<1>2. /\ tt \in [Agents -> SoundRow]
      /\ \A b \in Agents \ {a} : tt[b] = ss[b]
      /\ \/ tt[a] = ss[a]
         \/ /\ tt[a].call = NoCall /\ tt[a].state \in Releasing
            /\ c \in Calls => ss[a].call \in {NoCall, c} \cup Over
      /\ ss[a].call = c /\ c \in Calls /\ from \in {AnyState, ss[a].state}
           => tt[a].call = NoCall /\ tt[a].state \in Releasing
      /\ RowMayBecome(ss[a], tt[a])
  BY <1>1, ReleaseRow
<1>3. ss[a].state = "offline" => tt = ss
  BY <1>1, RefusedRow DEF Refused
<1>4. "ringing" \notin Releasing
  BY DEF Releasing
<1>. QED BY <1>2, <1>3, <1>4 DEF Freed

\* Hangup: whoever rings for the call, and is the one it is offered to, is free.
LEMMA ReleasedFrees ==
  ASSUME NEW ss \in [Agents -> SoundRow], NEW c \in Calls, NEW m, NEW a \in Agents
  PROVE  /\ Freed(ss[a], Released(ss, c, m)[a])
         /\ Rung(c, m, ss) =>
              ~(Released(ss, c, m)[a].state = "ringing" /\ Released(ss, c, m)[a].call = c)
<1> DEFINE after == IF m.state \in Talking \/ m.consult # NoAgent THEN "acw" ELSE "idle"
           Put(from, to) == Sets(ss, c, a, from, to)[a]
           r == Released(ss, c, m)[a]
<1>1. r = IF a = m.offered
          THEN IF m.state = "ringing" THEN Put("ringing", "idle")
               ELSE Put("on_call", after)
          ELSE IF a \in Range(m.legs) THEN Put("on_call", after) ELSE ss[a]
  BY DEF Released
<1>2. after \in Releasing /\ "idle" \in Releasing
  BY DEF Releasing
<1>3. ASSUME NEW from, NEW to \in Releasing
      PROVE  /\ Freed(ss[a], Put(from, to))
             /\ ss[a].call = c /\ ss[a].state = "ringing" /\ from = "ringing" =>
                  Put(from, to).state # "ringing"
  <2> DEFINE tt == Sets(ss, c, a, from, to)
  <2>1. /\ \A b \in Agents : Freed(ss[b], tt[b])
        /\ ss[a].call = c /\ ss[a].state = "ringing" /\ from \in {AnyState, "ringing"} =>
             tt[a].state # "ringing"
    BY SetFrees
  <2> HIDE DEF tt
  <2>2. Put(from, to) = tt[a]
    BY DEF tt
  <2> HIDE DEF Put
  <2>. QED BY <2>1, <2>2
<1>4. Freed(ss[a], ss[a])
  BY DEF Freed
<1> HIDE DEF after, Put, r
<1>5. Freed(ss[a], r)
  BY <1>1, <1>2, <1>3, <1>4
<1>6. ASSUME Rung(c, m, ss), r.state = "ringing", r.call = c
      PROVE  FALSE
  <2>1. ss[a].state = "ringing" /\ ss[a].call = c
    BY <1>5, <1>6, NullAssumption DEF Freed
  <2>2. m.state = "ringing" /\ m.offered = a
    BY <1>6, <2>1 DEF Rung
  <2>. QED BY <1>1, <1>2, <1>3, <1>6, <2>1, <2>2
<1>. QED BY <1>5, <1>6 DEF r

LEMMA OfferBefore ==
  ASSUME Offers, phase = "up", NEW c \in Calls
  PROVE  /\ Base /\ mem[c] \in RuntimeCall /\ session \in [Agents -> SoundRow]
         /\ Rung(c, mem[c], session) /\ Waits(mem[c], Dialed(c))
         /\ dials \subseteq Dial /\ db \in [Calls -> CallRecord]
         /\ mem \in [Calls -> RuntimeCall] /\ NoAgent \notin Agents
BY CallAssumption DEF Offers, Base, TypeOK

\* Nobody rings for a call that is not ringing, or is offered to nobody while
\* somebody consults, and no carrier is asked for it.
LEMMA QuietCall ==
  ASSUME Offers, phase = "up", NEW c \in Calls,
         \/ mem[c].state # "ringing"
         \/ mem[c].offered = NoAgent /\ mem[c].consult # NoAgent
  PROVE  /\ \A n : Rung(c, n, session)
         /\ mem[c].state # "none" => ~Dialed(c)
BY OfferBefore DEF Rung, Waits

\* Nobody else rings for a call that is offered to somebody, and no carrier
\* is asked for it.
LEMMA OfferedCall ==
  ASSUME Offers, phase = "up", NEW c \in Calls, mem[c].offered \in Agents,
         mem[c].state # "none"
  PROVE  /\ \A a \in Agents : session[a].state = "ringing" /\ session[a].call = c =>
              a = mem[c].offered
         /\ ~Dialed(c)
BY OfferBefore DEF Rung, Waits

\* What a handler of the call c has to establish.
LEMMA OffersStep ==
  ASSUME Offers, Base', phase = "up", NEW c \in Calls, NEW m,
         mem' = [mem EXCEPT ![c] = m],
         \A d \in Calls \ {c} : db'[d] = db[d],
         db'[c].state = "none" => db[c].state = "none" /\ dials' \subseteq dials,
         \A d \in dials' \ dials : d.call = c /\ (d.agent = NoAgent => d.leg = NoLeg),
         \A a \in Agents : RowFollows(c, session[a], session'[a]),
         Rung(c, m, session'), Waits(m, Dialed(c)')
  PROVE  Along
<1>1. /\ mem \in [Calls -> RuntimeCall] /\ dials \subseteq Dial
      /\ \A a \in Agents : session[a] \in SoundRow
  BY DEF Offers, Base, TypeOK
<1>2. mem'[c] = m /\ \A d \in Calls \ {c} : mem'[d] = mem[d]
  BY <1>1
<1>3. ASSUME NEW a \in Agents
      PROVE  /\ RowMayBecome(session[a], session'[a])
             /\ session'[a].state = "ringing" /\ session'[a].call # c =>
                  session[a].state = "ringing" /\ session[a].call = session'[a].call
  BY <1>1, FollowsMoves
<1>4. ASSUME NEW d \in Calls \ {c}
      PROVE  Rung(d, mem'[d], session') /\ Waits(mem'[d], Dialed(d)')
  <2>1. Dialed(d)' => Dialed(d)
    BY DEF Dialed
  <2>2. Rung(d, mem[d], session) /\ Waits(mem[d], Dialed(d))
    BY DEF Offers
  <2>. QED BY <1>2, <1>3, <2>1, <2>2 DEF Rung, Waits
<1>5. \A d \in Calls : Rung(d, mem'[d], session') /\ Waits(mem'[d], Dialed(d)')
  BY <1>2, <1>4
<1>6. DialsKnown'
  BY <1>1 DEF DialsKnown, Offers, Dial
<1>. QED BY <1>3, <1>5, <1>6 DEF Offers, Along, RowsMove

\* A handler writes the call and starts no dial to a carrier.
LEMMA OffersTransition ==
  ASSUME Offers, Base', phase = "up", NEW c \in Calls, NEW m, m.state # "none",
         Transition(c, m), dials' \subseteq dials,
         \A a \in Agents : RowFollows(c, session[a], session'[a]),
         Rung(c, m, session'), NEW k, Waits(m, k), Dialed(c)' => k
  PROVE  Along
<1>1. /\ mem' = [mem EXCEPT ![c] = m] /\ db' = [db EXCEPT ![c] = Row(m)]
      /\ db \in [Calls -> CallRecord]
  BY OfferBefore DEF Transition
<1>2. db'[c].state # "none" /\ \A d \in Calls \ {c} : db'[d] = db[d]
  BY <1>1 DEF Row
<1>3. Waits(m, Dialed(c)')
  BY DEF Waits
<1>. QED BY <1>1, <1>2, <1>3, OffersStep

\* A handler offers the call to an agent and lets its device ring.
LEMMA OffersRing ==
  ASSUME Offers, Base', phase = "up", NEW c \in Calls, NEW b \in Agents,
         NEW m \in RuntimeCall, m.state = "ringing", m.offered = b,
         RingTarget(c, b, m), ~Dialed(c),
         \A a \in Agents : RowFollows(c, session[a], session'[a]),
         \A a \in Agents : session'[a].state = "ringing" /\ session'[a].call = c => a = b
  PROVE  Along
<1>0. dials \subseteq Dial /\ NoAgent \notin Agents /\ db \in [Calls -> CallRecord]
  BY OfferBefore
<1>1. CASE Transition(c, m) /\ UNCHANGED dials
  <2>1. ~Dialed(c)' /\ Rung(c, m, session') /\ Waits(m, FALSE)
    BY <1>1 DEF Dialed, Rung, Waits
  <2>. QED BY <1>1, <2>1, OffersTransition
<1>2. CASE Ring(c, b, m)
  <2>1. PICK leg \in Legs \cup {NoLeg}, cancel \in BOOLEAN :
          /\ Transition(c, [m EXCEPT !.sipLeg = leg, !.sipCancel = cancel])
          /\ dials' \subseteq Dial
          /\ \A d \in dials' \ dials : d.call = c /\ d.agent = b
    BY <1>0, <1>2, RingEffect
  <2> DEFINE n == [m EXCEPT !.sipLeg = leg, !.sipCancel = cancel]
  <2>2. n.state = "ringing" /\ n.offered = b
    BY DEF RuntimeCall
  <2>3. mem' = [mem EXCEPT ![c] = n] /\ db' = [db EXCEPT ![c] = Row(n)]
    BY <2>1 DEF Transition
  <2> HIDE DEF n
  <2>4. ~Dialed(c)'
    BY <1>0, <2>1 DEF Dialed
  <2>5. db'[c].state # "none" /\ \A d \in Calls \ {c} : db'[d] = db[d]
    BY <1>0, <2>2, <2>3 DEF Row
  <2>6. Rung(c, n, session') /\ Waits(n, Dialed(c)')
    BY <2>2, <2>4 DEF Rung, Waits
  <2>. QED BY <1>0, <2>1, <2>3, <2>5, <2>6, OffersStep
<1>. QED BY <1>1, <1>2 DEF RingTarget

\* No call is touched, and nobody starts to ring.
LEMMA OffersRows ==
  ASSUME Offers, Base', UNCHANGED <<mem, db, phase>>, dials' \subseteq dials,
         \A a \in Agents :
           /\ RowMayBecome(session[a], session'[a])
           /\ session'[a].state = "ringing" =>
                session[a].state = "ringing" /\ session[a].call = session'[a].call
  PROVE  Along
<1>1. ASSUME phase = "up", NEW c \in Calls
      PROVE  Rung(c, mem[c], session') /\ Waits(mem[c], Dialed(c)')
  <2>1. Dialed(c)' => Dialed(c)
    BY DEF Dialed
  <2>. QED BY <1>1, <2>1, OfferBefore DEF Rung, Waits
<1>2. DialsKnown'
  BY DEF DialsKnown, Offers
<1>. QED BY <1>1, <1>2 DEF Offers, Along, RowsMove

\* Nothing that the invariant speaks of is touched.
LEMMA OffersSame ==
  ASSUME Offers, Base', UNCHANGED <<mem, db, phase, session>>, dials' \subseteq dials
  PROVE  Along
<1>1. \A a \in Agents : RowMayBecome(session[a], session'[a])
  BY DEF RowMayBecome
<1>. QED BY <1>1, OffersRows

\* A call that is hung up leaves nobody ringing.
LEMMA OffersHangUp ==
  ASSUME Offers, Base', phase = "up", NEW c \in Calls, NEW m,
         NEW ss \in [Agents -> SoundRow], HangUp(ss, c, m), Rung(c, m, ss),
         \A a \in Agents : Freed(session[a], ss[a]) \/ Engaged(c, session[a], ss[a]),
         dials' \subseteq dials
  PROVE  Along
<1>1. /\ mem' = [mem EXCEPT ![c] = Gone] /\ session' = Released(ss, c, m)
      /\ db' = [db EXCEPT ![c] = [Row(m) EXCEPT !.state = "ended"]]
  BY DEF HangUp
<1>2. ASSUME NEW a \in Agents
      PROVE  /\ RowFollows(c, session[a], session'[a])
             /\ ~(session'[a].state = "ringing" /\ session'[a].call = c)
  <2>1. Freed(ss[a], session'[a]) /\ ~(session'[a].state = "ringing" /\ session'[a].call = c)
    BY <1>1, ReleasedFrees
  <2>. QED BY <2>1, FollowsFreed DEF RowFollows
<1>3. db'[c].state = "ended" /\ \A d \in Calls \ {c} : db'[d] = db[d]
  BY <1>1, OfferBefore DEF Row
<1>4. Rung(c, Gone, session') /\ Waits(Gone, Dialed(c)')
  BY <1>2 DEF Rung, Waits, Gone, Fresh
<1>. QED BY <1>1, <1>2, <1>3, <1>4, OffersStep

\* The call is hung up as it is.
LEMMA OffersHangUpNow ==
  ASSUME Offers, Base', phase = "up", NEW c \in Calls,
         HangUp(session, c, mem[c]), dials' \subseteq dials
  PROVE  Along
<1>1. \A a \in Agents : Freed(session[a], session[a])
  BY DEF Freed
<1>. QED BY <1>1, OfferBefore, OffersHangUp

\* The agents' own requests leave reserved rows alone (runtime.go:425, 442).
LEMMA AgentStepAlong ==
  ASSUME Offers, NEW a \in Agents, AgentStep(a), Base'
  PROVE  Along
<1>1. /\ UNCHANGED <<mem, db, phase, dials>>
      /\ \A b \in Agents \ {a} : session'[b] = session[b]
      /\ RowMayBecome(session[a], session'[a])
      /\ session'[a].state = "ringing" =>
           session[a].state = "ringing" /\ session[a].call = session'[a].call
  BY AgentRows DEF Offers
<1>2. \A b \in Agents : RowMayBecome(session[b], session[b])
  BY DEF RowMayBecome
<1>. QED BY <1>1, <1>2, OffersRows

\* A crash, the recovery of one call, and the return to service.
LEMMA RestartAlong ==
  ASSUME Offers, Crash \/ Serve \/ \E c \in Calls : RecoverCall(c), Base'
  PROVE  Along
<1>1. /\ session \in [Agents -> SoundRow] /\ RecoveryIdle /\ DialsKnown
      /\ db \in [Calls -> CallRecord]
  BY DEF Offers, Base, TypeOK
<1>2. UNCHANGED session => RowsMove
  BY DEF RowsMove, RowMayBecome
<1>3. CASE Crash
  <2>1. phase' # "up" /\ dials' = {} /\ UNCHANGED session
    BY <1>3 DEF Crash
  <2>. QED BY <1>2, <2>1 DEF Along, Offers, DialsKnown
<1>4. CASE Serve
  <2>1. /\ UNCHANGED <<mem, db, session, dials>> /\ dials = {}
        /\ \A c \in Calls : mem[c].state = "none"
    BY <1>1, <1>4 DEF Serve, RecoveryIdle
  <2>2. \A a \in Agents : session[a].call = NoCall
    <3>1. \A a \in Agents : session[a].call \in Calls \cup {NoCall}
      BY <1>1 DEF SoundRow, Session
    <3>. QED BY <1>4, <3>1 DEF Serve, Orphaned, Unfinished
  <2>3. \A c \in Calls : Rung(c, mem'[c], session') /\ Waits(mem'[c], Dialed(c)')
    BY <2>1, <2>2, NullAssumption DEF Rung, Waits
  <2>4. DialsKnown'
    BY <2>1 DEF DialsKnown
  <2>. QED BY <1>2, <2>1, <2>3, <2>4 DEF Along, Offers
<1>5. ASSUME NEW c \in Calls, RecoverCall(c)
      PROVE  Along
  <2> DEFINE row  == db[c]
             from == IF row.answered THEN "on_call" ELSE "ringing"
             one  == IF row.agent = NoAgent THEN session
                     ELSE Sets(session, c, row.agent, from, "idle")
             two  == Sets(one, c, row.offered, "ringing", "idle")
  <2>1. /\ phase = "recovering" /\ UNCHANGED <<dials, phase>>
        /\ session' = IF row.offered \in {NoAgent, row.agent} THEN one ELSE two
    BY <1>5 DEF RecoverCall
  <2>2. /\ row.agent \in Agents \cup {NoAgent} /\ row.offered \in Agents \cup {NoAgent}
        /\ "idle" \in Releasing /\ dials = {}
    BY <1>1, <2>1 DEF CallRecord, Releasing, RecoveryIdle
  <2> HIDE DEF row, from
  <2>3. one \in [Agents -> SoundRow] /\ \A b \in Agents : Freed(session[b], one[b])
    <3>1. CASE row.agent = NoAgent
      BY <1>1, <3>1 DEF Freed
    <3>2. CASE row.agent # NoAgent
      <4> DEFINE tt == Sets(session, c, row.agent, from, "idle")
      <4>1. tt \in [Agents -> SoundRow] /\ \A b \in Agents : Freed(session[b], tt[b])
        BY <1>1, <2>2, <3>2, SetFrees
      <4>2. one = tt
        BY <3>2
      <4> HIDE DEF one, tt
      <4>. QED BY <4>1, <4>2
    <3>. QED BY <3>1, <3>2
  <2> HIDE DEF one
  <2>4. row.offered \in Agents => \A b \in Agents : Freed(one[b], two[b])
    BY <2>2, <2>3, SetFrees
  <2> HIDE DEF two
  <2>5. ASSUME NEW b \in Agents
        PROVE  RowMayBecome(session[b], session'[b])
    <3>1. session'[b] = one[b] \/ (row.offered \in Agents /\ session'[b] = two[b])
      BY <2>1, <2>2
    <3>2. RowFollows(c, session[b], session'[b])
      BY <2>3, <2>4, <3>1, FollowsFreed DEF RowFollows
    <3>. QED BY <1>1, <3>2, FollowsMoves
  <2>6. db'[c].state # "none" /\ \A d \in Calls \ {c} : db'[d] = db[d]
    BY <1>1, <1>5 DEF RecoverCall
  <2>. QED BY <2>1, <2>2, <2>5 DEF Along, Offers, DialsKnown, RowsMove
<1>. QED BY <1>3, <1>4, <1>5

\* A call begins without an agent.
LEMMA InboundAlong ==
  ASSUME Offers, NEW c \in Calls, Base',
         StartQueued(c) \/ StartInIVR(c) \/ StartClosed(c) \/ StartFails(c)
  PROVE  Along
<1>1. phase = "up" /\ db[c].state = "none" /\ UNCHANGED dials
  BY DEF StartQueued, StartInIVR, StartClosed, StartFails
<1>2. /\ session \in [Agents -> SoundRow] /\ mem[c].state = "none" /\ ~Dialed(c)
      /\ \A n : Rung(c, n, session)
  BY <1>1, OfferBefore, BeginFinds, QuietCall DEF Offers, Dialed, DialsKnown
<1>3. ~Dialed(c)' /\ \A n : Waits(n, FALSE)
  BY <1>1, <1>2 DEF Dialed, Waits
<1>4. \A a \in Agents : Freed(session[a], session[a])
  BY DEF Freed
<1>5. ASSUME UNCHANGED session, NEW n, n.state # "none", Transition(c, n)
      PROVE  Along
  <2>1. Rung(c, n, session') /\ \A a \in Agents : RowFollows(c, session[a], session'[a])
    BY <1>2, <1>4, <1>5 DEF RowFollows, Rung
  <2>. QED BY <1>1, <1>3, <1>5, <2>1, OffersTransition
<1>6. CASE StartQueued(c)
  <2>1. PICK q \in Queues : ToQueue(c, Fresh("inbound", q))
    BY <1>6 DEF StartQueued
  <2> DEFINE n == [Fresh("inbound", q) EXCEPT !.state = "queued"]
  <2>2. Transition(c, n) /\ UNCHANGED session /\ n.state = "queued"
    BY <1>6, <2>1 DEF ToQueue, StartQueued, Fresh
  <2>. QED BY <1>5, <2>2
<1>7. CASE StartInIVR(c)
  <2>1. PICK q \in Queues \cup {NoQueue} :
          Transition(c, [Fresh("inbound", q) EXCEPT !.state = "ivr"])
    BY <1>7 DEF StartInIVR
  <2> DEFINE n == [Fresh("inbound", q) EXCEPT !.state = "ivr"]
  <2>2. n.state = "ivr" /\ Transition(c, n) /\ UNCHANGED session
    BY <1>7, <2>1 DEF Fresh, StartInIVR
  <2>. QED BY <1>5, <2>2
<1>8. CASE StartFails(c)
  <2>1. PICK q \in Queues : Transition(c, Fresh("inbound", q))
    BY <1>8 DEF StartFails
  <2>2. Fresh("inbound", q).state = "created" /\ UNCHANGED session
    BY <1>8 DEF Fresh, StartFails
  <2>. QED BY <1>5, <2>1, <2>2
<1>9. CASE StartClosed(c)
  <2>1. HangUp(session, c, Fresh("inbound", NoQueue))
    BY <1>9 DEF StartClosed
  <2>. QED BY <1>1, <1>2, <1>4, <2>1, OffersHangUp
<1>. QED BY <1>6, <1>7, <1>8, <1>9

\* What an agent finds that begins a call.
LEMMA DialEngages ==
  ASSUME Offers, NEW c \in Calls, NEW a \in Agents, DialOut(c, a)
  PROVE  /\ phase = "up" /\ session \in [Agents -> SoundRow] /\ ~Dialed(c)
         /\ mem[c].state = "none" /\ \A n : Rung(c, n, session)
         /\ OnCall(c, a) \in [Agents -> SoundRow]
         /\ \A x \in Agents \ {a} : OnCall(c, a)[x] = session[x]
         /\ Engaged(c, session[a], OnCall(c, a)[a])
         /\ OnCall(c, a)[a].state = "on_call"
<1>1. phase = "up" /\ db[c].state = "none" /\ session[a].state \in {"idle", "acw"}
  BY DEF DialOut, MayDial
<1>2. /\ session \in [Agents -> SoundRow] /\ mem[c].state = "none" /\ ~Dialed(c)
      /\ \A n : Rung(c, n, session)
  BY <1>1, OfferBefore, BeginFinds, QuietCall DEF Offers, Dialed, DialsKnown
<1>3. session[a].call = NoCall
  BY <1>1, <1>2 DEF SoundRow, Reserved
<1>4. ~Refused(session[a], Over, c, AnyState, "on_call") /\ "on_call" \in Reserved
  BY <1>1, <1>3 DEF Refused, OtherLiveCall, Reserved
<1>5. /\ OnCall(c, a) \in [Agents -> SoundRow]
      /\ \A x \in Agents \ {a} : OnCall(c, a)[x] = session[x]
      /\ OnCall(c, a)[a].state = "on_call" /\ OnCall(c, a)[a].call = c
  BY <1>2, <1>4, Takes DEF OnCall
<1>. QED BY <1>1, <1>2, <1>3, <1>5 DEF Engaged

\* One setState that lets a free agent ring (doTransfer, doOutboundWithID).
LEMMA SetRings ==
  ASSUME NEW ss \in [Agents -> SoundRow], NEW c \in Calls, NEW b \in Agents,
         ~Refused(ss[b], Over, c, "idle", "ringing"),
         NEW tt, tt = Sets(ss, c, b, "idle", "ringing")
  PROVE  /\ tt \in [Agents -> SoundRow]
         /\ \A x \in Agents \ {b} : tt[x] = ss[x]
         /\ Engaged(c, ss[b], tt[b]) /\ tt[b].state = "ringing"
<1>1. "ringing" \in Reserved /\ "idle" # AnyState
  BY NullAssumption DEF Reserved, Releasing
<1>2. /\ tt \in [Agents -> SoundRow]
      /\ \A x \in Agents \ {b} : tt[x] = ss[x]
      /\ tt[b].state = "ringing" /\ tt[b].call = c /\ ss[b].state = "idle"
  BY <1>1, Takes
<1>3. ss[b].call = NoCall
  BY <1>2 DEF SoundRow, Reserved
<1>. QED BY <1>2, <1>3 DEF Engaged

\* An agent calls an agent (doOutboundWithID).
LEMMA InternalAlong ==
  ASSUME Offers, Base', NEW c \in Calls, NEW a \in Agents,
         NEW b \in Agents \ {a}, InternalCall(c, a, b)
  PROVE  Along
<1> DEFINE src   == Source("internal", a)
           offer == [src EXCEPT !.state = "ringing", !.offered = b]
           on    == OnCall(c, a)
           rung  == Sets(on, c, b, "idle", "ringing")
<1>1. /\ phase = "up" /\ session \in [Agents -> SoundRow] /\ ~Dialed(c)
      /\ \A n : Rung(c, n, session)
      /\ on \in [Agents -> SoundRow] /\ \A x \in Agents \ {a} : on[x] = session[x]
      /\ Engaged(c, session[a], on[a]) /\ on[a].state = "on_call"
  BY DialEngages DEF InternalCall
<1>2. \/ HangUp(on, c, src) /\ UNCHANGED dials
      \/ ~Rejects(c, b, "idle", "ringing") /\ session' = rung /\ Ring(c, b, offer)
      \/ ~Rejects(c, b, "idle", "ringing") /\ HangUp(rung, c, offer) /\ UNCHANGED dials
  BY DEF InternalCall
<1>3. /\ src \in RuntimeCall /\ offer \in RuntimeCall
      /\ offer.state = "ringing" /\ offer.offered = b
  <2>1. src \in RuntimeCall
    BY SourceCall DEF Kinds
  <2> HIDE DEF src
  <2>. QED BY <2>1 DEF RuntimeCall, Live
<1>4. \A x \in Agents : Freed(session[x], session[x])
  BY DEF Freed
<1>5. ASSUME ~Rejects(c, b, "idle", "ringing")
      PROVE  /\ rung \in [Agents -> SoundRow]
             /\ \A x \in Agents : \/ Freed(session[x], rung[x])
                                  \/ Engaged(c, session[x], rung[x])
             /\ \A x \in Agents : rung[x].state = "ringing" /\ rung[x].call = c => x = b
  <2>1. ~Refused(on[b], Over, c, "idle", "ringing") /\ on[b] = session[b]
    BY <1>1, <1>5 DEF Rejects
  <2> HIDE DEF on
  <2>2. /\ rung \in [Agents -> SoundRow] /\ \A x \in Agents \ {b} : rung[x] = on[x]
        /\ Engaged(c, on[b], rung[b])
    BY <1>1, <2>1, SetRings
  <2> HIDE DEF rung
  <2>3. ASSUME NEW x \in Agents, rung[x].state = "ringing", rung[x].call = c
        PROVE  x = b
    <3>1. x # b => rung[x] = on[x] /\ x # a
      BY <1>1, <2>2, <2>3
    <3>. QED BY <1>1, <2>3, <3>1, QuietCall DEF Rung, Engaged
  <2>. QED BY <1>1, <1>4, <2>1, <2>2, <2>3
<1> HIDE DEF src, on, rung, offer
<1>6. CASE HangUp(on, c, src) /\ UNCHANGED dials
  <2>1. \A x \in Agents : Freed(session[x], on[x]) \/ Engaged(c, session[x], on[x])
    BY <1>1, <1>4
  <2>2. Rung(c, src, on)
    BY <1>1 DEF Rung
  <2>. QED BY <1>1, <1>6, <2>1, <2>2, OffersHangUp
<1>7. CASE ~Rejects(c, b, "idle", "ringing") /\ session' = rung /\ Ring(c, b, offer)
  <2>1. \A x \in Agents : RowFollows(c, session[x], session'[x])
    BY <1>5, <1>7 DEF RowFollows
  <2>2. RingTarget(c, b, offer)
    BY <1>7 DEF RingTarget
  <2>. QED BY <1>1, <1>3, <1>5, <1>7, <2>1, <2>2, OffersRing
<1>8. CASE ~Rejects(c, b, "idle", "ringing") /\ HangUp(rung, c, offer) /\ UNCHANGED dials
  <2>1. Rung(c, offer, rung)
    BY <1>3, <1>5, <1>8 DEF Rung
  <2>. QED BY <1>1, <1>5, <1>8, <2>1, OffersHangUp
<1>. QED BY <1>2, <1>6, <1>7, <1>8

\* An agent calls out through the carrier, or the call fails before it.
LEMMA CarrierAlong ==
  ASSUME Offers, Base', NEW c \in Calls, NEW a \in Agents,
         DialRefused(c, a) \/ CarrierCall(c, a) \/ CarrierUnusable(c, a) \/ CarrierFails(c, a)
  PROVE  Along
<1> DEFINE src == Source("pstn", a)
           on  == OnCall(c, a)
<1>1. /\ phase = "up" /\ session \in [Agents -> SoundRow] /\ ~Dialed(c)
      /\ mem[c].state = "none" /\ \A n : Rung(c, n, session)
      /\ on \in [Agents -> SoundRow] /\ \A x \in Agents \ {a} : on[x] = session[x]
      /\ Engaged(c, session[a], on[a]) /\ on[a].state = "on_call"
  BY DialEngages DEF DialRefused, CarrierCall, CarrierUnusable, CarrierFails
<1>2. /\ db \in [Calls -> CallRecord] /\ mem \in [Calls -> RuntimeCall] /\ dials \subseteq Dial
  BY <1>1, OfferBefore
<1> HIDE DEF on
<1>3. \A x \in Agents : Freed(session[x], session[x])
  BY DEF Freed
<1>4. /\ \A x \in Agents : Freed(session[x], on[x]) \/ Engaged(c, session[x], on[x])
      /\ \A n : Rung(c, n, on)
  BY <1>1, <1>3 DEF Rung
<1>5. session' = on => /\ \A x \in Agents : RowFollows(c, session[x], session'[x])
                       /\ \A n : Rung(c, n, session')
  BY <1>4 DEF RowFollows, Rung
<1>6. CASE DialRefused(c, a)
  <2>1. /\ mem' = [mem EXCEPT ![c] = mem[c]] /\ UNCHANGED <<session, dials>>
        /\ db'[c].state = "ended" /\ \A d \in Calls \ {c} : db'[d] = db[d]
    BY <1>2, <1>6 DEF DialRefused, Row
  <2>2. /\ \A x \in Agents : RowFollows(c, session[x], session'[x])
        /\ Rung(c, mem[c], session') /\ Waits(mem[c], Dialed(c)')
    BY <1>1, <1>3, <2>1 DEF RowFollows, Rung, Waits
  <2>. QED BY <1>1, <2>1, <2>2, OffersStep
<1>7. CASE CarrierUnusable(c, a)
  <2>1. HangUp(on, c, src) /\ UNCHANGED dials
    BY <1>7 DEF CarrierUnusable, on
  <2> HIDE DEF src
  <2>. QED BY <1>1, <1>4, <2>1, OffersHangUp
<1>8. CASE CarrierFails(c, a)
  <2>1. /\ mem' = [mem EXCEPT ![c] = src] /\ session' = on /\ UNCHANGED dials
        /\ db' = [db EXCEPT ![c] = Row(Fresh("pstn", NoQueue))]
    BY <1>8 DEF CarrierFails, on
  <2>2. db'[c].state = "created" /\ \A d \in Calls \ {c} : db'[d] = db[d]
    BY <1>2, <2>1 DEF Row, Fresh
  <2>3. Waits(src, Dialed(c)')
    BY <1>1, <2>1 DEF Dialed, Waits
  <2> HIDE DEF src
  <2>. QED BY <1>1, <1>5, <2>1, <2>2, <2>3, OffersStep
<1>9. CASE CarrierCall(c, a)
  <2> DEFINE n == [src EXCEPT !.state = "ringing"]
             d == [call |-> c, agent |-> NoAgent, leg |-> NoLeg]
  <2>1. /\ mem' = [mem EXCEPT ![c] = n] /\ session' = on /\ dials' = dials \cup {d}
        /\ db' = [db EXCEPT ![c] = Row(n)]
    BY <1>9 DEF CarrierCall, on, Transition
  <2>2. n.state = "ringing" /\ n.offered = NoAgent /\ n.consult = NoAgent
    BY DEF Source, Fresh
  <2>3. d.call = c /\ d.agent = NoAgent /\ d.leg = NoLeg
    OBVIOUS
  <2> HIDE DEF n, d
  <2>4. db'[c].state = "ringing" /\ \A e \in Calls \ {c} : db'[e] = db[e]
    BY <1>2, <2>1, <2>2 DEF Row
  <2>5. Waits(n, Dialed(c)')
    BY <2>2 DEF Waits
  <2>. QED BY <1>1, <1>5, <2>1, <2>3, <2>4, <2>5, OffersStep
<1>. QED BY <1>6, <1>7, <1>8, <1>9

LEMMA BeginAlong ==
  ASSUME Offers, NEW c \in Calls, Begin(c), Base'
  PROVE  Along
BY InboundAlong, InternalAlong, CarrierAlong DEF Begin

\* tryDispatch: a queued call that still holds an agent gets that agent again,
\* any other call an idle one.
LEMMA DispatchAlong ==
  ASSUME Offers, NEW c \in Calls, Dispatch(c), Base'
  PROVE  Along
<1> DEFINE m == mem[c]
<1>1. phase = "up" /\ c \in dispatching
  BY DEF Dispatch, NobodyFree, Offer, OfferFails
<1>2. m \in RuntimeCall /\ m.state = "queued"
  BY <1>1, OfferBefore DEF Base, TypeOK
<1>3. /\ session \in [Agents -> SoundRow] /\ ~Dialed(c) /\ NoAgent \notin Agents
      /\ \A x \in Agents : ~(session[x].state = "ringing" /\ session[x].call = c)
  BY <1>1, <1>2, OfferBefore, QuietCall DEF Rung
<1> HIDE DEF m
<1>4. \A x \in Agents : Freed(session[x], session[x])
  BY DEF Freed
<1>5. CASE NobodyFree(c)
  BY <1>5, OffersSame DEF NobodyFree
<1>6. ASSUME NEW a \in Agents, a \in Pickable(session, c, Members[m.queue]),
             NEW tt, tt = Picked(session, c, a)
      PROVE  /\ tt \in [Agents -> SoundRow]
             /\ \A x \in Agents : \/ Freed(session[x], tt[x])
                                  \/ Engaged(c, session[x], tt[x])
             /\ \A x \in Agents : tt[x].state = "ringing" /\ tt[x].call = c => x = a
  <2>1. CASE HeldBy(session, c) # {}
    BY <1>3, <1>4, <1>6, <2>1 DEF Picked
  <2>2. CASE HeldBy(session, c) = {}
    <3> DEFINE r == [session[a] EXCEPT !.state = "ringing", !.call = c]
    <3>1. session[a].state = "idle" /\ session[a] \in SoundRow
      BY <1>3, <1>6, <2>2 DEF Pickable, Candidates
    <3>2. session[a].call = NoCall
      BY <3>1 DEF SoundRow, Reserved
    <3>3. r \in SoundRow /\ r.state = "ringing" /\ r.call = c
      BY <3>1, NullAssumption DEF SoundRow, Session, Reserved
    <3>4. tt = [session EXCEPT ![a] = r]
      BY <1>6, <2>2 DEF Picked
    <3> HIDE DEF r
    <3>5. /\ tt \in [Agents -> SoundRow] /\ tt[a] = r
          /\ \A x \in Agents \ {a} : tt[x] = session[x]
      BY <1>3, <3>3, <3>4
    <3>6. Engaged(c, session[a], tt[a])
      BY <3>1, <3>2, <3>3, <3>5 DEF Engaged
    <3>. QED BY <1>3, <1>4, <3>5, <3>6
  <2>. QED BY <2>1, <2>2
<1>7. ASSUME NEW a \in Agents, Offer(c, a)
      PROVE  Along
  <2> DEFINE n == [m EXCEPT !.state = "ringing", !.offered = a]
  <2>1. /\ a \in Pickable(session, c, Members[m.queue])
        /\ session' = Picked(session, c, a) /\ RingTarget(c, a, n)
    BY <1>7 DEF Offer, RingTarget, m
  <2>2. n \in RuntimeCall /\ n.state = "ringing" /\ n.offered = a
    BY <1>2 DEF RuntimeCall, Live
  <2> HIDE DEF n
  <2>3. /\ \A x \in Agents : RowFollows(c, session[x], session'[x])
        /\ \A x \in Agents : session'[x].state = "ringing" /\ session'[x].call = c => x = a
    BY <1>6, <2>1 DEF RowFollows
  <2>. QED BY <1>1, <1>3, <2>1, <2>2, <2>3, OffersRing
<1>8. ASSUME NEW a \in Agents, OfferFails(c, a)
      PROVE  Along
  <2> DEFINE n == [m EXCEPT !.offered = a]
             tt == Picked(session, c, a)
  <2>1. /\ a \in Pickable(session, c, Members[m.queue])
        /\ session' = Sets(tt, c, a, "ringing", "idle") /\ Transition(c, n)
        /\ UNCHANGED dials /\ "idle" \in Releasing
    BY <1>8 DEF OfferFails, m, Releasing
  <2>2. n.state = "queued"
    BY <1>2 DEF RuntimeCall
  <2> HIDE DEF n
  <2>3. /\ tt \in [Agents -> SoundRow]
        /\ \A x \in Agents : \/ Freed(session[x], tt[x])
                             \/ Engaged(c, session[x], tt[x])
        /\ \A x \in Agents : tt[x].state = "ringing" /\ tt[x].call = c => x = a
    BY <1>6, <2>1
  <2> HIDE DEF tt
  <2>4. /\ \A x \in Agents : Freed(tt[x], session'[x])
        /\ tt[a].call = c /\ tt[a].state = "ringing" => session'[a].state # "ringing"
    BY <2>1, <2>3, SetFrees
  <2>5. \A x \in Agents : RowFollows(c, session[x], session'[x])
    BY <2>3, <2>4, FollowsFreed DEF RowFollows
  <2>6. Rung(c, n, session')
    BY <2>3, <2>4, NullAssumption DEF Rung, Freed, Releasing
  <2>7. ~Dialed(c)' /\ Waits(n, FALSE)
    BY <1>3, <2>1 DEF Dialed, Waits
  <2>. QED BY <1>1, <2>1, <2>2, <2>5, <2>6, <2>7, OffersTransition
<1>. QED BY <1>5, <1>7, <1>8 DEF Dispatch

\* The offered agent answers, by a command or on its device: the agent rings,
\* and it rings for this call, for any other would have been found live.
LEMMA AnsweredAlong ==
  ASSUME Offers, phase = "up", NEW c \in Calls, NEW a \in Agents, Base',
         mem[c].state # "none", mem[c].offered = a,
         MayConnect(c, a), Answered(c, a), dials' \subseteq dials
  PROVE  Along
<1> DEFINE n == AnsweredCall(mem[c], a)
<1>1. session \in [Agents -> SoundRow] /\ mem \in [Calls -> RuntimeCall]
  BY OfferBefore
<1>2. /\ ~Refused(session[a], Over, c, "ringing", "on_call")
      /\ session' = Sets(session, c, a, "ringing", "on_call")
      /\ Transition(c, n)
  BY DEF MayConnect, Rejects, Answered, AnsweredCall
<1>3. n.state # "none"
  BY DEF AnsweredCall
<1> HIDE DEF n
<1>4. "on_call" \in Reserved /\ "ringing" # AnyState
  BY NullAssumption DEF Reserved
<1>5. /\ \A b \in Agents \ {a} : session'[b] = session[b]
      /\ session'[a].state = "on_call" /\ session'[a].call = c
      /\ session[a].state = "ringing" /\ OwnRows(c, session, session')
  BY <1>1, <1>2, <1>4, Takes
<1>6. session[a].call = c
  <2> DEFINE d == session[a].call
  <2>1. session[a] \in SoundRow /\ session'[a] # session[a] /\ d \in {NoCall, c} \cup Over
    BY <1>1, <1>5 DEF OwnRows
  <2>2. d # NoCall
    BY <1>5, <2>1 DEF SoundRow, Reserved
  <2>3. ASSUME d \in Over
        PROVE  FALSE
    <3>1. d \in Calls /\ db[d].state \in {"none", "ended"}
      BY <2>3 DEF Over
    <3>2. mem[d].state = "ringing"
      BY <1>5, <3>1, OfferBefore DEF Rung
    <3>3. db[d].state = "ringing"
      BY <3>1, <3>2, OfferBefore DEF Base, MemoryPersisted
    <3>. QED BY <3>1, <3>3
  <2>. QED BY <2>1, <2>2, <2>3
<1>7. \A x \in Agents : RowFollows(c, session[x], session'[x])
  BY <1>5, <1>6 DEF RowFollows, Freed, Connected
<1>8. ~Dialed(c) /\ Rung(c, n, session')
  BY <1>5, OfferedCall DEF Rung
<1>9. ~Dialed(c)' /\ Waits(n, FALSE)
  BY <1>8 DEF Dialed, Waits
<1>. QED BY <1>2, <1>3, <1>7, <1>8, <1>9, OffersTransition

\* The offer ends without an answer (doDecline, tickCall).
LEMMA OfferLostAlong ==
  ASSUME Offers, NEW c \in Calls, Handles(c), mem[c].state = "ringing",
         mem[c].offered # NoAgent, OfferLost(c), UNCHANGED dials, Base'
  PROVE  Along
<1> DEFINE a == mem[c].offered
           x == [mem[c] EXCEPT !.offered = NoAgent]
<1>1. /\ phase = "up" /\ mem[c] \in RuntimeCall /\ session \in [Agents -> SoundRow]
      /\ a \in Agents
  BY OfferBefore DEF Handles, LockFree, RuntimeCall
<1>2. /\ \A b \in Agents : session[b].state = "ringing" /\ session[b].call = c => b = a
      /\ ~Dialed(c)
  BY <1>1, OfferedCall
<1>3. session' = Sets(session, c, a, "ringing", "idle") /\ "idle" \in Releasing
  BY DEF OfferLost, Releasing
<1>4. PICK n : n.state # "none" /\ Transition(c, n)
  <2>1. CASE x.consult # NoAgent
    <3> DEFINE k == [x EXCEPT !.consult = NoAgent, !.state = "active"]
    <3>1. Transition(c, k) /\ k.state = "active"
      BY <1>1, <2>1 DEF OfferLost, RuntimeCall
    <3>. QED BY <3>1
  <2>2. CASE x.consult = NoAgent
    <3> DEFINE k == [x EXCEPT !.state = "queued"]
    <3>1. Transition(c, k) /\ k.state = "queued"
      BY <1>1, <2>2 DEF OfferLost, ToQueue, RuntimeCall
    <3>. QED BY <3>1
  <2>. QED BY <2>1, <2>2
<1> HIDE DEF a
<1>5. /\ \A b \in Agents : Freed(session[b], session'[b])
      /\ session[a].call = c /\ session[a].state = "ringing" => session'[a].state # "ringing"
  BY <1>1, <1>3, SetFrees
<1>6. \A b \in Agents : RowFollows(c, session[b], session'[b])
  BY <1>5 DEF RowFollows
<1>7. Rung(c, n, session')
  BY <1>2, <1>5, NullAssumption DEF Rung, Freed, Releasing
<1>8. ~Dialed(c)' /\ Waits(n, FALSE)
  BY <1>2 DEF Dialed, Waits
<1>. QED BY <1>1, <1>4, <1>6, <1>7, <1>8, OffersTransition

\* The device of the offered agent could not be reached (ringDevice).
LEMMA DeviceFailedAlong ==
  ASSUME Offers, phase = "up", NEW c \in Calls, NEW a \in Agents, Base',
         mem[c].state = "ringing", mem[c].offered = a,
         DeviceFailed(c, a), dials' \subseteq dials
  PROVE  Along
<1> DEFINE x == [mem[c] EXCEPT !.offered = NoAgent, !.sipLeg = NoLeg, !.sipCancel = FALSE]
           ss == Sets(session, c, a, AnyState, "busy")
           n == [x EXCEPT !.active = x.consult, !.consult = NoAgent, !.state = "active"]
           q == [x EXCEPT !.state = "queued"]
<1>1. mem[c] \in RuntimeCall /\ session \in [Agents -> SoundRow] /\ "busy" \in Releasing
  BY OfferBefore DEF Releasing
<1>2. /\ \A b \in Agents : session[b].state = "ringing" /\ session[b].call = c => b = a
      /\ ~Dialed(c)
  BY OfferedCall
<1>3. \/ session' = ss /\ Transition(c, n)
      \/ session' = ss /\ Transition(c, q)
      \/ HangUp(ss, c, x)
  BY DEF DeviceFailed
<1>4. n.state = "active" /\ q.state = "queued"
  BY <1>1 DEF RuntimeCall
<1> HIDE DEF x, n, q
<1>5. /\ ss \in [Agents -> SoundRow] /\ \A b \in Agents : Freed(session[b], ss[b])
      /\ session[a].call = c /\ session[a].state = "ringing" => ss[a].state # "ringing"
  BY <1>1, SetFrees
<1> HIDE DEF ss
<1>6. \A k : Rung(c, k, ss)
  BY <1>2, <1>5, NullAssumption DEF Rung, Freed, Releasing
<1>7. ~Dialed(c)' /\ \A k : Waits(k, FALSE)
  BY <1>2 DEF Dialed, Waits
<1>8. ASSUME session' = ss, NEW k, k.state # "none", Transition(c, k)
      PROVE  Along
  <2>1. Rung(c, k, session') /\ \A b \in Agents : RowFollows(c, session[b], session'[b])
    BY <1>5, <1>6, <1>8 DEF RowFollows, Rung
  <2>. QED BY <1>7, <1>8, <2>1, OffersTransition
<1>9. CASE HangUp(ss, c, x)
  BY <1>5, <1>6, <1>9, OffersHangUp
<1>. QED BY <1>3, <1>4, <1>8, <1>9

\* The goroutine of a dial gets its answer.
LEMMA DialReturnsAlong ==
  ASSUME Offers, NEW c \in Calls, DialReturns(c), Base'
  PROVE  Along
<1>1. PICK d \in dials, ok \in BOOLEAN :
        d.call = c /\ (DeviceReturns(d, ok) \/ CarrierReturns(d, ok))
  BY DEF DialReturns
<1>2. phase = "up" /\ dials' = dials \ {d} /\ UNCHANGED phase
  BY <1>1 DEF DeviceReturns, CarrierReturns, LockFree
<1>3. /\ mem[c] \in RuntimeCall /\ d \in Dial /\ DialsKnown
      /\ Rung(c, mem[c], session) /\ Waits(mem[c], Dialed(c))
      /\ dials \subseteq Dial /\ dials' \subseteq dials /\ NoAgent \notin Agents
  BY <1>2, OfferBefore DEF Offers
<1>4. CASE UNCHANGED <<mem, db, session>>
  BY <1>2, <1>3, <1>4, OffersSame
<1>5. CASE DeviceReturns(d, ok) /\ ReachesOffer(d)
  <2>1. d.agent \in Agents /\ mem[c].state = "ringing" /\ mem[c].offered = d.agent
    BY <1>1, <1>3, <1>5 DEF DeviceReturns, ReachesOffer, Dial
  <2>2. \/ MayConnect(c, d.agent) /\ Answered(c, d.agent)
        \/ DeviceFailed(c, d.agent)
    BY <1>1, <1>5 DEF DeviceReturns
  <2>. QED BY <1>2, <1>3, <2>1, <2>2, AnsweredAlong, DeviceFailedAlong
<1>6. CASE CarrierReturns(d, ok) /\ mem[c].state # "none"
  <2>1. d.agent = NoAgent /\ Dialed(c)
    BY <1>1, <1>6 DEF CarrierReturns, Dialed
  <2>2. ~Dialed(c)'
    <3>1. ASSUME NEW e \in dials', e.call = c, e.agent = NoAgent
          PROVE  FALSE
      <4>1. e \in Dial /\ e.leg = NoLeg /\ d.leg = NoLeg
        BY <1>3, <2>1, <3>1 DEF DialsKnown
      <4>2. e = d
        BY <1>1, <1>3, <2>1, <3>1, <4>1 DEF Dial
      <4>. QED BY <1>2, <4>2
    <3>. QED BY <3>1 DEF Dialed
  <2>3. CASE ok
    <3> DEFINE n == [mem[c] EXCEPT !.state = "active", !.answered = TRUE]
    <3>1. Transition(c, n) /\ UNCHANGED session
      BY <1>1, <1>6, <2>3 DEF CarrierReturns
    <3>2. n.state = "active"
      BY <1>3 DEF RuntimeCall
    <3> HIDE DEF n
    <3>3. Rung(c, n, session') /\ \A a \in Agents : RowFollows(c, session[a], session'[a])
      BY <1>3, <1>6, <2>1, <3>1 DEF Rung, Waits, RowFollows, Freed
    <3>4. Waits(n, FALSE)
      BY DEF Waits
    <3>. QED BY <1>2, <1>3, <2>2, <3>1, <3>2, <3>3, <3>4, OffersTransition
  <2>4. CASE ~ok
    <3>1. HangUp(session, c, mem[c])
      BY <1>1, <1>6, <2>4 DEF CarrierReturns
    <3>. QED BY <1>2, <1>3, <3>1, OffersHangUpNow
  <2>. QED BY <2>3, <2>4
<1>. QED
  BY <1>1, <1>4, <1>5, <1>6 DEF DeviceReturns, CarrierReturns

\* A call that does not ring becomes one that does not ring, and the handler
\* releases agents at most.
LEMMA QuietTransition ==
  ASSUME Offers, Base', NEW c \in Calls, Handles(c),
         \/ mem[c].state # "ringing"
         \/ mem[c].offered = NoAgent /\ mem[c].consult # NoAgent,
         NEW n, n.state # "none", Transition(c, n), UNCHANGED dials,
         \A a \in Agents : Freed(session[a], session'[a])
  PROVE  Along
<1>1. phase = "up" /\ ~Dialed(c) /\ Rung(c, n, session)
  BY QuietCall DEF Handles, LockFree
<1>2. ~Dialed(c)' /\ Waits(n, FALSE)
  BY <1>1 DEF Dialed, Waits
<1>3. Rung(c, n, session') /\ \A a \in Agents : RowFollows(c, session[a], session'[a])
  BY <1>1, NullAssumption DEF Rung, RowFollows, Freed, Releasing
<1>. QED BY <1>1, <1>2, <1>3, OffersTransition

LEMMA BackgroundAlong ==
  ASSUME Offers, NEW c \in Calls, Background(c), Base'
  PROVE  Along
<1>1. CASE Dispatch(c)
  BY <1>1, DispatchAlong
<1>2. CASE DialReturns(c)
  BY <1>2, DialReturnsAlong
<1>3. CASE OfferTimeout(c)
  BY <1>3, OfferLostAlong DEF OfferTimeout
<1>4. CASE TickDispatch(c)
  BY <1>4, OffersSame DEF TickDispatch
<1>5. CASE WaitExpired(c)
  <2>1. /\ Handles(c) /\ mem[c].state = "queued" /\ UNCHANGED dials /\ phase = "up"
    BY <1>5 DEF WaitExpired, Handles, LockFree
  <2>2. CASE HangUp(session, c, mem[c])
    BY <2>1, <2>2, OffersHangUpNow
  <2>3. CASE ToQueue(c, [mem[c] EXCEPT !.queue = OverflowTo[@]]) /\ UNCHANGED session
    <3> DEFINE x == [mem[c] EXCEPT !.queue = OverflowTo[mem[c].queue]]
               n == [x EXCEPT !.state = "queued"]
    <3>1. mem[c] \in RuntimeCall
      BY <2>1, OfferBefore
    <3>2. n.state = "queued"
      BY <3>1 DEF RuntimeCall
    <3>3. Transition(c, n) /\ \A a \in Agents : Freed(session[a], session'[a])
      BY <2>3 DEF ToQueue, Freed
    <3> HIDE DEF n
    <3>. QED BY <2>1, <3>2, <3>3, QuietTransition
  <2>. QED BY <1>5, <2>2, <2>3 DEF WaitExpired
<1>6. CASE RecoverCall(c)
  BY <1>6, RestartAlong
<1>. QED BY <1>1, <1>2, <1>3, <1>4, <1>5, <1>6 DEF Background

\* A call in conversation is offered to another agent (doTransfer); the agent
\* who had it is released unless it consults.
LEMMA TransferAlong ==
  ASSUME Offers, NEW c \in Calls, NEW b \in Agents, Base',
         BlindTransfer(c, b) \/ ConsultTransfer(c, b)
  PROVE  Along
<1> DEFINE from == CurrentAgent(mem[c])
           rung == Sets(session, c, b, "idle", "ringing")
           left == Sets(rung, c, from, "on_call", "acw")
           x == [mem[c] EXCEPT !.state = "ringing", !.offered = b, !.consult = NoAgent]
           y == WithoutLegs(x, from)
           z == [mem[c] EXCEPT !.state = "ringing", !.offered = b, !.consult = from]
<1>1. /\ phase = "up" /\ mem[c] \in RuntimeCall /\ session \in [Agents -> SoundRow]
      /\ mem[c].state \in Talking /\ NoAgent \notin Agents
      /\ ~Refused(session[b], Over, c, "idle", "ringing")
  BY OfferBefore DEF BlindTransfer, ConsultTransfer, Handles, LockFree, Rejects
<1>2. \/ session' = rung /\ RingTarget(c, b, z)
      \/ session' \in {rung, left} /\ (from = NoAgent => session' = rung) /\ RingTarget(c, b, y)
  BY DEF BlindTransfer, ConsultTransfer
<1>3. from \in Agents \cup {NoAgent}
  <2>1. mem[c].legs \in Seq(Agents)
    BY <1>1 DEF RuntimeCall
  <2>2. mem[c].legs # <<>> => Head(mem[c].legs) \in Agents
    BY <2>1
  <2>. QED BY <1>1, <2>2 DEF CurrentAgent, RuntimeCall
<1>4. /\ y \in RuntimeCall /\ y.state = "ringing" /\ y.offered = b
      /\ z \in RuntimeCall /\ z.state = "ringing" /\ z.offered = b
  <2>1. /\ x \in RuntimeCall /\ x.state = "ringing" /\ x.offered = b
        /\ x.legs \in Seq(Agents)
    BY <1>1 DEF RuntimeCall, Live
  <2>2. Without(x.legs, from) \in Seq(Agents)
    BY <2>1, WithoutProperties
  <2> HIDE DEF x, from
  <2>3. y \in RuntimeCall /\ y.state = "ringing" /\ y.offered = b
    BY <2>1, <2>2 DEF WithoutLegs, RuntimeCall
  <2>4. z \in RuntimeCall /\ z.state = "ringing" /\ z.offered = b
    BY <1>1, <1>3 DEF RuntimeCall, Live
  <2>. QED BY <2>3, <2>4
<1>5. ~Dialed(c) /\ \A a \in Agents : ~(session[a].state = "ringing" /\ session[a].call = c)
  <2>1. mem[c].state # "ringing" /\ mem[c].state # "none"
    BY <1>1 DEF Talking
  <2>. QED BY <1>1, <2>1, QuietCall, OfferBefore DEF Rung
<1> HIDE DEF from, y, z
<1>6. /\ rung \in [Agents -> SoundRow]
      /\ \A a \in Agents \ {b} : rung[a] = session[a]
      /\ Engaged(c, session[b], rung[b])
  BY <1>1, SetRings
<1> HIDE DEF rung
<1>7. from \in Agents => \A a \in Agents : Freed(rung[a], left[a])
  <2>1. "acw" \in Releasing
    BY DEF Releasing
  <2>. QED BY <1>6, <2>1, SetFrees
<1> HIDE DEF left
<1>8. \A a \in Agents : Freed(rung[a], rung[a]) /\ Freed(session[a], session[a])
  BY DEF Freed
<1>9. \A a \in Agents : Freed(rung[a], session'[a])
  BY <1>2, <1>3, <1>7, <1>8
<1>10. \A a \in Agents : Freed(session[a], rung[a]) \/ Engaged(c, session[a], rung[a])
  BY <1>6, <1>8
<1>11. \A a \in Agents : RowFollows(c, session[a], session'[a])
  BY <1>9, <1>10, FollowsFreed DEF RowFollows
<1>12. ASSUME NEW a \in Agents, session'[a].state = "ringing", session'[a].call = c
       PROVE  a = b
  <2>1. rung[a].state = "ringing" /\ rung[a].call = c
    BY <1>9, <1>12, NullAssumption DEF Freed
  <2>. QED BY <1>5, <1>6, <2>1
<1>. QED BY <1>1, <1>2, <1>4, <1>5, <1>11, <1>12, OffersRing

\* EnterIVR releases the legs up to the first refusal and goes on or stops there.
LEMMA EnterIVRAlong ==
  ASSUME Offers, NEW c \in Calls, EnterIVR(c), Base'
  PROVE  Along
<1> DEFINE done == LegsDone(c)
           x == [mem[c] EXCEPT !.legs = SubSeq(mem[c].legs, done + 1, Len(mem[c].legs))]
           n == [x EXCEPT !.state = "ivr", !.active = NoAgent, !.offered = NoAgent]
<1>1. /\ phase = "up" /\ Handles(c) /\ UNCHANGED dials
      /\ mem[c] \in RuntimeCall /\ session \in [Agents -> SoundRow]
      /\ mem[c].state \in Talking /\ "acw" \in Releasing
  BY OfferBefore DEF EnterIVR, Handles, LockFree, Releasing
<1>2. /\ session' = [a \in Agents |-> IF \E i \in 1 .. done : mem[c].legs[i] = a
                       THEN Sets(session, c, a, "on_call", "acw")[a] ELSE session[a]]
      /\ IF Stuck(c) = {} THEN Transition(c, n)
         ELSE mem' = [mem EXCEPT ![c] = x] /\ UNCHANGED db
  BY EnterIVREffect
<1>3. x.state \in Talking /\ n.state = "ivr" /\ mem[c].state # "ringing" /\ mem[c].state # "none"
  BY <1>1 DEF RuntimeCall, Talking
<1> HIDE DEF done, x, n
<1>4. ASSUME NEW a \in Agents
      PROVE  Freed(session[a], session'[a])
  <2> DEFINE tt == Sets(session, c, a, "on_call", "acw")
  <2>1. Freed(session[a], tt[a])
    BY <1>1, SetFrees
  <2>2. session'[a] = tt[a] \/ session'[a] = session[a]
    BY <1>2
  <2>3. Freed(session[a], session[a])
    BY DEF Freed
  <2>. QED BY <2>1, <2>2, <2>3
<1>5. CASE Stuck(c) = {}
  BY <1>1, <1>2, <1>3, <1>4, <1>5, QuietTransition
<1>6. CASE Stuck(c) # {}
  <2>1. mem' = [mem EXCEPT ![c] = x] /\ UNCHANGED <<db, dials>>
    BY <1>1, <1>2, <1>6
  <2>2. ~Dialed(c)' /\ Rung(c, x, session)
    BY <1>1, <1>3, QuietCall DEF Dialed
  <2>3. /\ Rung(c, x, session') /\ Waits(x, Dialed(c)')
        /\ \A a \in Agents : RowFollows(c, session[a], session'[a])
    BY <1>4, <2>2, NullAssumption DEF Rung, Waits, RowFollows, Freed, Releasing
  <2>. QED BY <1>1, <2>1, <2>3, OffersStep
<1>. QED BY <1>5, <1>6

LEMMA CommandAlong ==
  ASSUME Offers, OneOffer, NEW c \in Calls, Command(c), Base'
  PROVE  Along
<1>1. /\ Handles(c) /\ phase = "up" /\ mem[c].state # "none" /\ mem[c] \in RuntimeCall
      /\ session \in [Agents -> SoundRow] /\ NoAgent \notin Agents
      /\ Rung(c, mem[c], session) /\ Waits(mem[c], Dialed(c))
      /\ mem \in [Calls -> RuntimeCall]
  <2>1. Handles(c)
    BY DEF Command, Hangup, HangupFails, Hold, CompleteTransfer, EnterIVR, LeaveIVR,
           QueueTransfer, Answer, Decline, BlindTransfer, ConsultTransfer, ConferenceInvite
  <2>. QED BY <2>1, OfferBefore DEF Handles, LockFree
<1>2. \A a \in Agents : Freed(session[a], session[a])
  BY DEF Freed
<1>3. "acw" \in Releasing
  BY DEF Releasing
<1>4. \A a \in Agents : CurrentAgent(mem[c]) # NoAgent => CurrentAgent(mem[c]) \in Agents
  <2>1. mem[c].legs \in Seq(Agents)
    BY <1>1 DEF RuntimeCall
  <2>2. mem[c].legs # <<>> => Head(mem[c].legs) \in Agents
    BY <2>1
  <2>. QED BY <1>1, <2>2 DEF CurrentAgent, RuntimeCall
<1>5. CASE Hangup(c)
  BY <1>1, <1>5, OffersHangUpNow DEF Hangup
<1>6. CASE HangupFails(c)
  <2> DEFINE n == [mem[c] EXCEPT !.sipCancel = FALSE]
  <2>1. /\ mem' = [mem EXCEPT ![c] = n] /\ UNCHANGED <<db, dials>>
        /\ session' = Released(session, c, mem[c])
    BY <1>6 DEF HangupFails
  <2>2. n.state = mem[c].state /\ n.offered = mem[c].offered /\ n.consult = mem[c].consult
    BY <1>1 DEF RuntimeCall
  <2> HIDE DEF n
  <2>3. ASSUME NEW a \in Agents
        PROVE  /\ RowFollows(c, session[a], session'[a])
               /\ ~(session'[a].state = "ringing" /\ session'[a].call = c)
    BY <1>1, <2>1, ReleasedFrees DEF RowFollows
  <2>4. Rung(c, n, session') /\ Waits(n, Dialed(c)')
    BY <1>1, <2>1, <2>2, <2>3 DEF Rung, Waits, Dialed
  <2>. QED BY <1>1, <2>1, <2>3, <2>4, OffersStep
<1>7. CASE Hold(c)
  <2>1. PICK st \in Talking : Transition(c, [mem[c] EXCEPT !.state = st])
    BY <1>7 DEF Hold
  <2> DEFINE n == [mem[c] EXCEPT !.state = st]
  <2>2. n.state # "none" /\ mem[c].state # "ringing" /\ UNCHANGED <<session, dials>>
    BY <1>1, <1>7 DEF Hold, RuntimeCall, Talking
  <2> HIDE DEF n
  <2>3. Transition(c, n)
    BY <2>1 DEF n
  <2>. QED BY <1>1, <1>2, <2>2, <2>3, QuietTransition
<1>8. CASE CompleteTransfer(c)
  <2> DEFINE a == mem[c].consult
             x == WithoutLegs(mem[c], a)
             n == [x EXCEPT !.consult = NoAgent, !.state = "active"]
  <2>1. /\ a \in Agents /\ mem[c].offered = NoAgent /\ UNCHANGED dials
        /\ session' = Sets(session, c, a, "on_call", "acw") /\ Transition(c, n)
    BY <1>1, <1>8 DEF CompleteTransfer, OneOffer, RuntimeCall
  <2>2. n.state = "active"
    BY <1>1 DEF WithoutLegs, RuntimeCall
  <2> HIDE DEF n
  <2>3. \A b \in Agents : Freed(session[b], session'[b])
    BY <1>1, <1>3, <2>1, SetFrees
  <2>. QED BY <1>1, <2>1, <2>2, <2>3, QuietTransition
<1>9. CASE EnterIVR(c)
  BY <1>9, EnterIVRAlong
<1>10. CASE LeaveIVR(c)
  <2>1. mem[c].state = "ivr" /\ UNCHANGED dials
    BY <1>10 DEF LeaveIVR
  <2>2. CASE HangUp(session, c, mem[c])
    BY <1>1, <2>1, <2>2, OffersHangUpNow
  <2>3. ASSUME NEW q, ToQueue(c, [mem[c] EXCEPT !.queue = q]), UNCHANGED session
        PROVE  Along
    <3> DEFINE n == [[mem[c] EXCEPT !.queue = q] EXCEPT !.state = "queued"]
    <3>1. n.state = "queued" /\ Transition(c, n)
      BY <1>1, <2>3 DEF RuntimeCall, ToQueue
    <3> HIDE DEF n
    <3>. QED BY <1>1, <1>2, <2>1, <2>3, <3>1, QuietTransition
  <2>. QED BY <1>10, <2>2, <2>3 DEF LeaveIVR
<1>11. ASSUME NEW q \in Queues, QueueTransfer(c, q)
       PROVE  Along
  <2> DEFINE a == CurrentAgent(mem[c])
             x == [mem[c] EXCEPT !.queue = q, !.offered = NoAgent, !.consult = NoAgent]
             n == [x EXCEPT !.state = "queued"]
             tt == Sets(session, c, a, "on_call", "acw")
  <2>1. /\ mem[c].state \in Talking /\ UNCHANGED dials /\ Transition(c, n)
        /\ session' = IF a = NoAgent THEN session ELSE tt
    BY <1>11 DEF QueueTransfer, ToQueue
  <2>2. n.state = "queued" /\ mem[c].state # "ringing"
    BY <1>1, <2>1 DEF RuntimeCall, Talking
  <2>3. a # NoAgent => \A b \in Agents : Freed(session[b], tt[b])
    BY <1>1, <1>3, <1>4, SetFrees
  <2> HIDE DEF n, tt, a
  <2>4. \A b \in Agents : Freed(session[b], session'[b])
    BY <1>2, <2>1, <2>3
  <2>. QED BY <1>1, <2>1, <2>2, <2>4, QuietTransition
<1>12. ASSUME NEW a \in Agents, Answer(c, a)
       PROVE  Along
  BY <1>1, <1>12, AnsweredAlong DEF Answer
<1>13. ASSUME NEW a \in Agents, Decline(c, a)
       PROVE  Along
  BY <1>1, <1>13, OfferLostAlong DEF Decline
<1>14. ASSUME NEW b \in Agents, BlindTransfer(c, b) \/ ConsultTransfer(c, b)
       PROVE  Along
  BY <1>14, TransferAlong
<1>15. \A b \in Agents : ~ConferenceInvite(c, b)
  BY DEF ConferenceInvite, OneOffer
<1>. QED
  BY <1>5, <1>6, <1>7, <1>8, <1>9, <1>10, <1>11, <1>12, <1>13, <1>14, <1>15 DEF Command

LEMMA OffersInit == Init => Offers
<1> SUFFICES ASSUME Init
             PROVE  Offers
  OBVIOUS
<1>1. Base
  BY BaseInit
<1>2. ASSUME NEW c \in Calls
      PROVE  Rung(c, mem[c], session) /\ Waits(mem[c], Dialed(c))
  BY DEF Init, Offline, Rung, Waits, Dialed
<1>. QED BY <1>1, <1>2 DEF Offers, Init, DialsKnown

LEMMA OffersNext ==
  ASSUME OneOffer, Offers, [Next]_vars
  PROVE  Along
<1>1. Base'
  BY BaseNext DEF Offers
<1>2. ASSUME NEW a \in Agents, AgentStep(a)
      PROVE  Along
  BY <1>1, <1>2, AgentStepAlong
<1>3. ASSUME NEW c \in Calls, Begin(c) \/ Command(c) \/ Background(c)
      PROVE  Along
  BY <1>1, <1>3, BeginAlong, CommandAlong, BackgroundAlong
<1>4. CASE Crash \/ Serve
  BY <1>1, <1>4, RestartAlong
<1>5. CASE UNCHANGED vars
  BY <1>1, <1>5, OffersSame DEF vars
<1>. QED BY <1>2, <1>3, <1>4, <1>5 DEF Next

LEMMA RowsMoveIsLifecycle ==
  ASSUME Base', RowsMove
  PROVE  Lifecycle!Next
<1> DEFINE st == [a \in Agents |-> session[a].state]
           cl == [a \in Agents |-> session[a].call]
<1>1. \A a \in Agents : session'[a] \in Session
  BY DEF Base, TypeOK
<1>2. /\ st' \in [Agents -> Lifecycle!Free \cup {"ringing", "on_call"}]
      /\ cl' \in [Agents -> Calls \cup {NoCall}]
  BY <1>1 DEF Session, Reserved, Releasing, Lifecycle!Free
<1>3. ASSUME NEW a \in Agents
      PROVE  Lifecycle!Step(a) \/ Lifecycle!Becomes(a, st[a], cl[a])
  <2>1. RowMayBecome(session[a], session'[a]) /\ session'[a] \in Session
    BY <1>1 DEF RowsMove
  <2>2. st[a] = session[a].state /\ cl[a] = session[a].call
    OBVIOUS
  <2>3. st'[a] = session'[a].state /\ cl'[a] = session'[a].call
    OBVIOUS
  <2> HIDE DEF st, cl
  <2>. QED
    BY <2>1, <2>2, <2>3
       DEF RowMayBecome, Reserved, Releasing, Lifecycle!Step, Lifecycle!Becomes,
           Lifecycle!Free, Lifecycle!CheckIn, Lifecycle!Presence, Lifecycle!Offer,
           Lifecycle!Dial, Lifecycle!Connect, Lifecycle!Release, st, cl
<1>. QED BY <1>2, <1>3 DEF Lifecycle!Next

\* Call control, with its transfers, timeouts, dials and restarts, implements
\* AgentLifecycle: no handler takes an agent from one call to another, and none
\* reserves an agent that is not free (setState, RequestAgent).
THEOREM CallsImplementLifecycle ==
  ASSUME OneOffer
  PROVE  Spec => EachAgentLifecycle
<1>1. Init => Lifecycle!Init
  BY DEF Init, Offline, Lifecycle!Init
<1>2. Offers /\ [Next]_vars => Offers'
  BY OffersNext DEF Along
<1>3. Offers /\ [Next]_vars => Lifecycle!Next
  BY OffersNext, RowsMoveIsLifecycle DEF Along, Offers
<1>. QED
  BY <1>1, <1>2, <1>3, OffersInit, PTL DEF Spec, EachAgentLifecycle, Lifecycle!Spec

===============================================================================
