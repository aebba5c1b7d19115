------------------------------- MODULE VoiceBot -------------------------------
(***************************************************************************)
(* The robot seat of open-call: the worker that starts a session when its  *)
(* seat is rung, and the session, which hands the audio of the model's     *)
(* responses to the switch and drops what the caller has interrupted.  The *)
(* model is read by one thread, the audio is sent by another, and the      *)
(* switch has a queue of its own.  One call, one seat.                     *)
(***************************************************************************)
EXTENDS Naturals, Sequences

CONSTANTS
  HandoffCap,   \* blocks between reader and sender (100 in the code)
  QueueCap,     \* blocks the switch takes ahead of time
  MaxResponses, \* bound: responses of the model
  MaxSpeech,    \* bound: interruptions by the caller
  MaxBlocks,    \* bound: blocks of a response
  MaxRings      \* bound: times that the seat is rung

VARIABLES
  call,     \* what the switch makes of the call: waiting, ringing, talking, passed_on, ended
  session,  \* of the worker: none, answering, running, closing, checked
  canceled, \* the context of the session
  reader,   \* [gen, current, blocked, interrupted]
  chunks,   \* from the reader to the sender
  sender,   \* [at, item]
  pcmGen,   \* generation of the stream's near end
  wire,     \* messages on their way to the switch
  far,      \* [gen, queue]: the stream's far end, in the switch
  rings, speech, created,
  complete, \* responses of which the model has said all     (history)
  asked,    \* response |-> blocks the reader has taken      (history)
  said,     \* response |-> blocks the switch has taken      (history)
  over      \* response |-> generation that ended it, 0 none (history)

botVars == <<call, session, canceled, reader, chunks, sender, pcmGen, wire, far, rings, speech,
             created, complete, asked, said, over>>
audioVars == <<reader, chunks, sender, pcmGen, wire, far, speech, created, complete, asked, said, over>>

Responses == 1 .. MaxResponses
NoItem == [kind |-> "none", gen |-> 0, of |-> 0]
Idle == [at |-> "idle", item |-> NoItem]
Fresh == [gen |-> 1, current |-> 0, blocked |-> {}, interrupted |-> FALSE]
Zero == [r \in Responses |-> 0]

Init ==
  /\ call = "waiting" /\ session = "none" /\ canceled = FALSE
  /\ reader = Fresh /\ chunks = <<>> /\ sender = Idle /\ pcmGen = 1 /\ wire = <<>>
  /\ far = [gen |-> 1, queue |-> <<>>]
  /\ rings = 0 /\ speech = 0 /\ created = 0 /\ complete = {}
  /\ asked = Zero /\ said = Zero /\ over = Zero

Item(kind, r) == [kind |-> kind, gen |-> reader.gen, of |-> r]

---------------------------------------------------------------------------
(* The reader of the model's events. *)

\* PCMStream.Clear, called by the reader: the near end moves on at once.
Cleared(g) ==
  /\ pcmGen' = g
  /\ wire' = Append(wire, [kind |-> "clear", gen |-> g, of |-> 0])

\* The caller speaks: what the model says now is cut.
SpeechStarted ==
  /\ session = "running" /\ speech < MaxSpeech /\ speech' = speech + 1
  /\ reader' = [reader EXCEPT !.gen = @ + 1, !.interrupted = TRUE,
                              !.blocked = IF reader.current = 0 THEN @ ELSE @ \union {reader.current}]
  /\ Cleared(reader.gen + 1)
  /\ over' = [r \in Responses |-> IF r = reader.current /\ over[r] = 0 THEN reader.gen + 1 ELSE over[r]]
  /\ UNCHANGED <<call, session, canceled, chunks, sender, far, rings, created, complete, asked, said>>

\* A new response replaces the one before.
ResponseCreated ==
  /\ session = "running" /\ created < MaxResponses /\ created' = created + 1
  /\ reader' = [reader EXCEPT !.gen = @ + 1, !.current = created + 1, !.interrupted = FALSE]
  /\ Cleared(reader.gen + 1)
  /\ over' = [r \in Responses |-> IF r = reader.current /\ over[r] = 0 THEN reader.gen + 1 ELSE over[r]]
  /\ UNCHANGED <<call, session, canceled, chunks, sender, far, rings, speech, complete, asked, said>>

\* Audio of a response that was cut may still come, also after the next one
\* has begun.
Wanted(r) == ~reader.interrupted /\ r \notin reader.blocked /\ r = reader.current

Fails == session' = "closing" /\ UNCHANGED <<chunks, asked>>

\* A block for the sender, which the reader does not wait for: a full handoff
\* ends the session.
Delta(r) ==
  /\ session = "running" /\ r \in 1 .. created \ complete /\ asked[r] < MaxBlocks /\ Wanted(r)
  /\ IF Len(chunks) < HandoffCap
     THEN /\ chunks' = Append(chunks, Item("audio", r)) /\ asked' = [asked EXCEPT ![r] = @ + 1]
          /\ UNCHANGED session
     ELSE Fails
  /\ UNCHANGED <<call, canceled, reader, sender, pcmGen, wire, far, rings, speech, created, complete, said, over>>

Done(r) ==
  /\ session = "running" /\ r \in 1 .. created \ complete /\ asked[r] > 0 /\ Wanted(r)
  /\ complete' = complete \union {r}
  /\ IF Len(chunks) < HandoffCap
     THEN chunks' = Append(chunks, Item("finish", r)) /\ UNCHANGED <<session, asked>>
     ELSE Fails
  /\ UNCHANGED <<call, canceled, reader, sender, pcmGen, wire, far, rings, speech, created, said, over>>

---------------------------------------------------------------------------
(* The sender, and the stream. *)

Take ==
  /\ session = "running" /\ sender.at = "idle" /\ chunks # <<>>
  /\ sender' = [at |-> "send", item |-> Head(chunks)] /\ chunks' = Tail(chunks)
  /\ UNCHANGED <<call, session, canceled, reader, pcmGen, wire, far, rings, speech, created, complete, asked, said, over>>

\* Send and Finish: an item of an older generation is dropped; audio waits for
\* the answer of the switch.
Write ==
  /\ session = "running" /\ sender.at = "send"
  /\ IF sender.item.gen # pcmGen
     THEN sender' = Idle /\ UNCHANGED wire
     ELSE /\ wire' = Append(wire, sender.item)
          /\ sender' = IF sender.item.kind = "audio" THEN [sender EXCEPT !.at = "wait"] ELSE Idle
  /\ UNCHANGED <<call, session, canceled, reader, chunks, pcmGen, far, rings, speech, created, complete, asked, said, over>>

\* An answer of backpressure is no credit: the block is sent again.
Answered(answer) == IF answer = "backpressure" THEN [sender EXCEPT !.at = "send"] ELSE Idle

\* readMediaOutput of the switch, over its application audio.
Receive ==
  LET m == Head(wire) IN
  /\ wire # <<>> /\ wire' = Tail(wire)
  /\ CASE m.kind = "clear" ->
            far' = [gen |-> m.gen, queue |-> <<>>] /\ UNCHANGED <<sender, said>>
       [] m.kind = "finish" -> UNCHANGED <<far, sender, said>>
       [] m.kind = "audio" /\ m.gen # far.gen ->
            sender' = Answered("discarded") /\ UNCHANGED <<far, said>>
       [] m.kind = "audio" /\ m.gen = far.gen /\ Len(far.queue) >= QueueCap ->
            sender' = Answered("backpressure") /\ UNCHANGED <<far, said>>
       [] OTHER ->
            /\ sender' = Answered("accepted")
            /\ far' = [far EXCEPT !.queue = Append(@, m.of)]
            /\ said' = [said EXCEPT ![m.of] = @ + 1]
  /\ UNCHANGED <<call, session, canceled, reader, chunks, pcmGen, rings, speech, created, complete, asked, over>>

\* The room of the switch plays a block.
Play ==
  /\ far.queue # <<>> /\ far' = [far EXCEPT !.queue = Tail(@)]
  /\ UNCHANGED <<call, session, canceled, reader, chunks, sender, pcmGen, wire, rings, speech, created,
                 complete, asked, said, over>>

---------------------------------------------------------------------------
(* The worker and its session. *)

\* The switch rings the seat; the event may come in more than once.
Ring ==
  /\ call \in {"waiting", "ringing"} /\ rings < MaxRings /\ rings' = rings + 1
  /\ call' = "ringing"
  /\ session' = IF session = "none" THEN "answering" ELSE session
  /\ canceled' = IF session = "none" THEN FALSE ELSE canceled
  /\ UNCHANGED audioVars

\* RunInboundAI: the call is answered and the stream and the model are
\* connected, or one of it fails.
Open ==
  /\ session = "answering"
  /\ \/ /\ call = "ringing" /\ ~canceled
        /\ call' = "talking" /\ session' \in {"running", "closing"}
     \/ session' = "closing" /\ UNCHANGED call
  /\ UNCHANGED <<canceled, rings>> /\ UNCHANGED audioVars

\* The context ends, or the stream to a call that has ended or a seat that has left.
Over == canceled \/ call # "talking"

SessionOver ==
  /\ session = "running" /\ Over
  /\ session' = "closing"
  /\ UNCHANGED <<call, canceled, rings>> /\ UNCHANGED audioVars

\* The connection to the model fails.
ModelLost ==
  /\ session = "running" /\ session' = "closing"
  /\ UNCHANGED <<call, canceled, rings>> /\ UNCHANGED audioVars

\* The deferred calls: a call that still has the robot is read...
Look ==
  /\ session = "closing"
  /\ session' = IF call = "talking" THEN "checked" ELSE "none"
  /\ reader' = Fresh /\ chunks' = <<>> /\ sender' = Idle /\ pcmGen' = 1 /\ wire' = <<>>
  /\ far' = [gen |-> 1, queue |-> <<>>]
  /\ created' = 0 /\ complete' = {} /\ asked' = Zero /\ said' = Zero /\ over' = Zero
  /\ UNCHANGED <<call, canceled, rings, speech>>

\* ... and hung up, whatever it has become.
HangsUp == call' = "ended"

Leave ==
  /\ session = "checked" /\ HangsUp
  /\ session' = "none"
  /\ UNCHANGED <<canceled, rings>> /\ UNCHANGED audioVars

\* The call ends, goes back to its queue, or to a person.
CallEnds == call # "ended" /\ call' = "ended" /\ UNCHANGED <<session, canceled, rings>> /\ UNCHANGED audioVars
OfferEnds == call = "ringing" /\ call' = "waiting" /\ UNCHANGED <<session, canceled, rings>> /\ UNCHANGED audioVars
PassedOn == call = "talking" /\ call' = "passed_on" /\ UNCHANGED <<session, canceled, rings>> /\ UNCHANGED audioVars

\* OnCallEvent of call.ended, and stopAll.
Cancel ==
  /\ session # "none" /\ ~canceled /\ canceled' = TRUE
  /\ UNCHANGED <<call, session, rings>> /\ UNCHANGED audioVars

Next ==
  \/ SpeechStarted \/ ResponseCreated \/ \E r \in Responses : Delta(r) \/ Done(r)
  \/ Take \/ Write \/ Receive \/ Play
  \/ Ring \/ Open \/ SessionOver \/ ModelLost \/ Look \/ Leave
  \/ CallEnds \/ OfferEnds \/ PassedOn \/ Cancel

\* The threads of a session go on, the switch reads and plays.
Fairness ==
  /\ WF_botVars(Take) /\ WF_botVars(Write) /\ WF_botVars(Receive) /\ WF_botVars(Play)
  /\ WF_botVars(Open) /\ WF_botVars(SessionOver) /\ WF_botVars(Look) /\ WF_botVars(Leave)

Spec == Init /\ [][Next]_botVars
FairSpec == Spec /\ Fairness

---------------------------------------------------------------------------

\* The variables keep the types of the session and of the stream.
TypeOK ==
  /\ call \in {"waiting", "ringing", "talking", "passed_on", "ended"}
  /\ session \in {"none", "answering", "running", "closing", "checked"}
  /\ Len(chunks) <= HandoffCap /\ Len(far.queue) <= QueueCap
  /\ sender.at \in {"idle", "send", "wait"} /\ reader.current \in 0 .. MaxResponses
  /\ far.gen <= pcmGen /\ pcmGen = reader.gen

\* Once the switch has been told of an interruption, nothing of the response
\* that was cut is left to be played, though its audio keeps coming.
NothingOldIsSaid ==
  \A i \in DOMAIN far.queue : LET r == far.queue[i] IN over[r] = 0 \/ far.gen < over[r]

\* No block of a response that nobody has cut is lost between the model and
\* the switch, when its queue is full either.
NothingSwallowed ==
  \A r \in Responses :
    session = "running" /\ over[r] = 0 /\ chunks = <<>> /\ sender.at = "idle" => said[r] = asked[r]

\* A robot that can talk no more leaves: the call ends, or goes on without it.
SilenceEnds == session = "closing" /\ call = "talking" ~> call # "talking"

\* A session ends with its call, whether the event of it comes or not.
SessionEnds == call = "ended" ~> session = "none"
=============================================================================
