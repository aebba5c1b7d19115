----------------------------- MODULE DirectControl -----------------------------
(***************************************************************************)
(* One call driven leg by leg by an application instead of the ACD.  The   *)
(* operations run under the command lock of the call; a dial goes on in a  *)
(* goroutine that takes the lock again when the carrier has answered or    *)
(* not, and the media layer tells the end of a playback in a goroutine of  *)
(* its own.  Both may find a call that has changed or ended.               *)
(*                                                                         *)
(* A dial carries an Idempotency-Key and the id of its leg is a function   *)
(* of the key, so a key stands for its leg.                                *)
(***************************************************************************)
EXTENDS Naturals, FiniteSets

CONSTANTS
  DialKeys,     \* Idempotency-Keys of dials, and their legs
  Destinations,
  NoDestination,
  WebLegs,      \* legs that are not dialled
  Playbacks,    \* playbacks, each with a key of its own
  MaxDials      \* bound: requests to dial

VARIABLES
  call,       \* state of the call, "none" before it exists
  legs,       \* rt.legs
  hashes,     \* key |-> rt.directDialHashes
  commands,   \* key |-> status of its row of os_commands
  dialing,    \* key |-> "no", "out", "answered", "refused" or "done"
  sip,        \* dialled legs that are connected in the room
  playbacks,  \* playback |-> its state in rt.playbacks
  played,     \* playbacks in the room: [id, leg]
  callbacks,  \* ends of playbacks on their way: [id, state]
  reports,    \* playback |-> events of its end               (history)
  outs,       \* key |-> calls of OriginateSIP                (history)
  dials       \* requests to dial                             (bound)

directVars == <<call, legs, hashes, commands, dialing, sip, playbacks, played,
                callbacks, reports, outs, dials>>

Legs == DialKeys \union WebLegs

Ends == {"finished", "stopped", "failed"}

Init ==
  /\ call = "none" /\ legs = {} /\ sip = {}
  /\ hashes = [k \in DialKeys |-> NoDestination]
  /\ commands = [k \in DialKeys |-> "none"]
  /\ dialing = [k \in DialKeys |-> "no"]
  /\ playbacks = [p \in Playbacks |-> "none"] /\ played = {} /\ callbacks = {}
  /\ reports = [p \in Playbacks |-> 0]
  /\ outs = [k \in DialKeys |-> 0] /\ dials = 0

---------------------------------------------------------------------------

playVars == <<playbacks, played, callbacks, reports>>
dialVars == <<hashes, commands, dialing, outs, dials>>

Alive == call \notin {"none", "ended"}

\* CreateDirect with its first leg, or CreateStubCall without one.
Create ==
  /\ call = "none" /\ call' = "created"
  /\ legs' \in {{}} \union {{l} : l \in WebLegs}
  /\ UNCHANGED <<sip, dialVars, playVars>>

\* AddDirectLeg: at most two legs.
AddLeg(l) ==
  /\ Alive /\ l \notin legs /\ Cardinality(legs) < 2
  /\ legs' = legs \union {l}
  /\ UNCHANGED <<call, sip, dialVars, playVars>>

\* Accept finds the row of an earlier dial with this key.
Claimed(k) == commands[k] # "none"

\* DialDirectSIP answers a repeated key from the legs, refuses another body
\* and a key that is claimed; the room, the leg and the first transition can
\* fail, and then the command is left running.
DialRefused(k, d) ==
  \/ ~Alive
  \/ hashes[k] \notin {NoDestination, d}
  \/ k \in legs
  \/ Cardinality(legs) >= 2
  \/ Claimed(k)

Dial(k, d) ==
  /\ dials < MaxDials /\ dials' = dials + 1
  /\ ~DialRefused(k, d)
  /\ \/ /\ commands' = [commands EXCEPT ![k] = "accepted"]    \* MarkRunning fails
        /\ UNCHANGED <<call, legs, hashes, dialing, outs>>
     \/ /\ commands' = [commands EXCEPT ![k] = "running"]     \* CreateRoom, InsertLeg
        /\ UNCHANGED <<call, legs, hashes, dialing, outs>>
     \/ /\ commands' = [commands EXCEPT ![k] = "running"]
        /\ legs' = legs \union {k} /\ hashes' = [hashes EXCEPT ![k] = d]
        /\ \/ legs = {} /\ UNCHANGED <<call, dialing, outs>>  \* transition fails
           \/ /\ call' = IF legs = {} THEN "ringing" ELSE call
              /\ dialing' = [dialing EXCEPT ![k] = "out"]
              /\ outs' = [outs EXCEPT ![k] = @ + 1]
  /\ UNCHANGED <<sip, playVars>>

\* OriginateSIP returns: the carrier answered, also after the call has ended,
\* or it refused or the 60 seconds passed.
Originated(k) ==
  /\ dialing[k] = "out"
  /\ \/ dialing' = [dialing EXCEPT ![k] = "answered"] /\ sip' = sip \union {k}
     \/ dialing' = [dialing EXCEPT ![k] = "refused"] /\ UNCHANGED sip
  /\ UNCHANGED <<call, legs, hashes, commands, outs, dials, playVars>>

\* Hangup and CloseRoom: the room stops its playbacks and closes its legs.
Stopped == callbacks \union {[id |-> p.id, state |-> "stopped"] : p \in played}

HangUp ==
  /\ call' = "ended" /\ sip' = {}
  /\ played' = {} /\ callbacks' = Stopped
  /\ UNCHANGED <<legs, playbacks, reports>>

Settle(k, status) ==
  /\ commands' = [commands EXCEPT ![k] = status]
  /\ dialing' = [dialing EXCEPT ![k] = "done"]
  /\ UNCHANGED <<hashes, outs, dials>>

LateDialIgnored(k) == ~Alive /\ Settle(k, "failed") /\ UNCHANGED <<call, legs, sip, playVars>>

\* The goroutine of the dial, under the lock: for a call that has ended it
\* takes its leg out of the room, else it reports what became of the dial.
LateDial(k) ==
  /\ ~Alive
  /\ sip' = sip \ {k} /\ Settle(k, "failed")
  /\ UNCHANGED <<call, legs, playVars>>

DialFailed(k) ==
  /\ Alive /\ dialing[k] = "refused" /\ Settle(k, "failed")
  /\ IF Cardinality(legs) = 1 THEN HangUp ELSE UNCHANGED <<call, legs, sip, playVars>>

DialAnswered(k) ==
  /\ Alive /\ dialing[k] = "answered"
  /\ IF Cardinality(legs) = 1
       THEN \/ call' = "active" /\ Settle(k, "succeeded") /\ UNCHANGED <<legs, sip, playVars>>
            \/ HangUp /\ Settle(k, commands[k])               \* transition fails
       ELSE Settle(k, "succeeded") /\ UNCHANGED <<call, legs, sip, playVars>>

DialReturns(k) ==
  /\ dialing[k] \in {"answered", "refused"}
  /\ LateDial(k) \/ DialFailed(k) \/ DialAnswered(k)

\* LeaveDirectLeg and RejectLeg: out of the room, then out of the table (or not).
Leave(l) ==
  /\ Alive /\ l \in legs
  /\ sip' = sip \ {l}
  /\ legs' \in {legs, legs \ {l}}
  /\ UNCHANGED <<call, dialVars, playVars>>

\* BridgeDirect: two legs of the call, which becomes active.
Bridge ==
  /\ Alive /\ Cardinality(legs) = 2
  /\ call' = "active"
  /\ UNCHANGED <<legs, sip, dialVars, playVars>>

\* StartLegPlayback: one producer for a leg; when the event of the start is
\* refused the playback is stopped again and keeps its entry.
StartPlayback(p, l) ==
  /\ call = "active" /\ playbacks[p] = "none"
  /\ l \in legs /\ l \in WebLegs \union sip
  /\ \A q \in played : q.leg # l
  /\ playbacks' = [playbacks EXCEPT ![p] = "playing"]
  /\ \/ played' = played \union {[id |-> p, leg |-> l]} /\ UNCHANGED callbacks
     \/ callbacks' = callbacks \union {[id |-> p, state |-> "stopped"]} /\ UNCHANGED played
  /\ UNCHANGED <<call, legs, sip, dialVars, reports>>

\* StopPlayback, or the mixer: drained, or the target has left.
PlaybackEnds(q, end) ==
  /\ end = "failed" => q.leg \notin sip
  /\ played' = played \ {q}
  /\ callbacks' = callbacks \union {[id |-> q.id, state |-> end]}
  /\ UNCHANGED <<call, legs, sip, dialVars, playbacks, reports>>

\* playbackFinished, under the lock: only a playback that still plays.
StillPlays(p) == playbacks[p] = "playing"

Report(b) ==
  /\ callbacks' = callbacks \ {b}
  /\ IF call # "ended" /\ StillPlays(b.id)
       THEN /\ playbacks' = [playbacks EXCEPT ![b.id] = b.state]
            /\ reports' = [reports EXCEPT ![b.id] = @ + 1]
       ELSE UNCHANGED <<playbacks, reports>>
  /\ UNCHANGED <<call, legs, sip, dialVars, played>>

Drains(q) == PlaybackEnds(q, "finished") \/ PlaybackEnds(q, "failed")

Next ==
  \/ Create \/ Bridge
  \/ \E l \in WebLegs : AddLeg(l)
  \/ \E l \in Legs : Leave(l)
  \/ \E k \in DialKeys : Originated(k) \/ DialReturns(k) \/ \E d \in Destinations : Dial(k, d)
  \/ Alive /\ HangUp /\ UNCHANGED dialVars
  \/ \E p \in Playbacks, l \in Legs : StartPlayback(p, l)
  \/ \E q \in played : Drains(q) \/ PlaybackEnds(q, "stopped")
  \/ \E b \in callbacks : Report(b)

\* A dial has 60 seconds, its goroutine and the mixer run on.
Fairness ==
  /\ \A k \in DialKeys : WF_directVars(Originated(k)) /\ WF_directVars(DialReturns(k))
  /\ WF_directVars(\E q \in played : Drains(q))
  /\ WF_directVars(\E b \in callbacks : Report(b))

Spec == Init /\ [][Next]_directVars
FairSpec == Spec /\ Fairness

---------------------------------------------------------------------------

\* The variables keep the types of the runtime and of the tables.
TypeOK ==
  /\ call \in {"none", "created", "ringing", "active", "ended"}
  /\ legs \subseteq Legs /\ sip \subseteq DialKeys
  /\ \A k \in DialKeys :
       /\ commands[k] \in {"none", "accepted", "running", "succeeded", "failed"}
       /\ dialing[k] \in {"no", "out", "answered", "refused", "done"}
       /\ hashes[k] \in Destinations \union {NoDestination}
  /\ \A p \in Playbacks : playbacks[p] \in Ends \union {"none", "playing"}
  /\ played \subseteq [id: Playbacks, leg: Legs] /\ callbacks \subseteq [id: Playbacks, state: Ends]

\* A key rings a telephone once, whatever is retried after a failure, after the
\* leg has left or while the first dial is still out.
DialledOnce == \A k \in DialKeys : outs[k] <= 1

\* An answer that comes after the end of the call leaves nobody connected.
LateAnswerLeaves ==
  \A k \in DialKeys : call = "ended" /\ dialing[k] \in {"no", "done"} => k \notin sip

\* A playback is told to have ended once, although a stop, the mixer and the
\* end of the room race for it, and only after it was told to have begun.
PlaybackToldOnce ==
  \A p \in Playbacks : reports[p] = IF playbacks[p] \in Ends THEN 1 ELSE 0

\* A dial that went out ends, and its command does not stay running but when
\* the call could not be answered and was hung up.
DialSettles ==
  \A k \in DialKeys : dialing[k] = "out" ~>
    dialing[k] = "done" /\ (commands[k] \in {"succeeded", "failed"} \/ call = "ended")

\* A playback of a call that lives comes to an end that is told.
PlaybackEnded == \A p \in Playbacks : playbacks[p] = "playing" ~> playbacks[p] \in Ends \/ call = "ended"
=============================================================================
