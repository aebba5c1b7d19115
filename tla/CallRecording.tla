----------------------------- MODULE CallRecording -----------------------------
(***************************************************************************)
(* The recorders of one room.  StartRecording looks at the room, opens the *)
(* files and installs the recorder in three steps; the tick of the mixer   *)
(* reads the installed recorder under the lock of the room and hands it a  *)
(* group of frames after the unlock; a queue that is full refuses the      *)
(* group, and the tick fails the recorder after it gave up its lock; one   *)
(* consumer writes the groups, the conversation and a track per leg;       *)
(* stopping closes the queue and waits five seconds for the consumer.      *)
(* Every step of the files may fail.                                       *)
(***************************************************************************)
EXTENDS Integers, Sequences

CONSTANTS
  RecIds,     \* recorders, one per StartRecording
  NoRec,
  RecLegs,    \* legs of the room
  QueueCap,   \* frame groups waiting for the consumer (250)
  MaxFrames   \* bound: ticks of the mixer

VARIABLES
  room,     \* [closed, rec, legs]
  starter,  \* recorder |-> where its StartRecording is
  rec,      \* recorder |-> its state
  tick,     \* the recorder the tick has read, the legs of its frames, and
            \* whether the queue refused them
  stopping, \* recorder |-> where its stop is
  frames,   \* ticks so far                                     (bound)
  taken,    \* recorder |-> groups its queue took                (history)
  lost      \* recorder |-> its full queue refused a group       (history)

recVars == <<room, starter, rec, tick, stopping, frames, taken, lost>>

\* A leg without a track of its own.
NoTrack == -1

New == [queue |-> <<>>, closed |-> FALSE, status |-> "recording", main |-> 0,
        track |-> [l \in RecLegs |-> NoTrack], done |-> FALSE, reports |-> 0]

NoTick == [rec |-> NoRec, legs |-> {}, full |-> FALSE]

Init ==
  /\ room = [closed |-> FALSE, rec |-> NoRec, legs |-> {}]
  /\ starter = [i \in RecIds |-> "idle"]
  /\ rec = [i \in RecIds |-> New]
  /\ tick = NoTick
  /\ stopping = [i \in RecIds |-> "no"]
  /\ frames = 0 /\ taken = [i \in RecIds |-> 0] /\ lost = [i \in RecIds |-> FALSE]

---------------------------------------------------------------------------

\* fail: the first failure is the status, and is reported once.
Failed(r) == IF r.status = "failed" THEN r
             ELSE [r EXCEPT !.status = "failed", !.reports = @ + 1]

\* A peer or a SIP session joins the room or leaves it.
Join(l) ==
  /\ ~room.closed
  /\ room' = [room EXCEPT !.legs = (@ \ {l}) \union ({l} \ @)]
  /\ UNCHANGED <<starter, rec, tick, stopping, frames, taken, lost>>

\* StartRecording: the look at the room, the files, the installation.
Check(i) ==
  /\ starter[i] = "idle"
  /\ starter' = [starter EXCEPT ![i] = IF room.closed \/ room.rec # NoRec THEN "refused" ELSE "checked"]
  /\ UNCHANGED <<room, rec, tick, stopping, frames, taken, lost>>

Open(i) ==
  /\ starter[i] = "checked"
  /\ \E to \in {"opened", "refused"} : starter' = [starter EXCEPT ![i] = to]
  /\ UNCHANGED <<room, rec, tick, stopping, frames, taken, lost>>

InstallUnchecked(i) ==
  /\ starter[i] = "opened"
  /\ starter' = [starter EXCEPT ![i] = "installed"]
  /\ room' = [room EXCEPT !.rec = i]
  /\ UNCHANGED <<rec, tick, stopping, frames, taken, lost>>

Install(i) ==
  /\ starter[i] = "opened"
  /\ IF room.rec # NoRec \/ room.closed
       THEN /\ starter' = [starter EXCEPT ![i] = "refused"]
            /\ rec' = [rec EXCEPT ![i].closed = TRUE] /\ UNCHANGED room
       ELSE /\ starter' = [starter EXCEPT ![i] = "installed"]
            /\ room' = [room EXCEPT !.rec = i] /\ UNCHANGED rec
  /\ UNCHANGED <<tick, stopping, frames, taken, lost>>

\* dispatchMixFrames: the recorder and the legs are read under the lock.
TickRead ==
  /\ tick = NoTick /\ frames < MaxFrames /\ ~room.closed
  /\ tick' = [rec |-> room.rec, legs |-> room.legs, full |-> FALSE]
  /\ frames' = frames + 1
  /\ room.rec # NoRec
  /\ UNCHANGED <<room, starter, rec, stopping, taken, lost>>

\* enqueue, under the lock of the recorder: nothing for one that is closed or
\* failed, and a full queue refuses the group.
Accepts(r) == ~r.closed /\ r.status # "failed"

TickEnqueue ==
  LET i == tick.rec IN
  /\ tick # NoTick /\ ~tick.full
  /\ \/ /\ ~Accepts(rec[i]) /\ tick' = NoTick /\ UNCHANGED <<rec, taken, lost>>
     \/ /\ Accepts(rec[i]) /\ Len(rec[i].queue) < QueueCap /\ tick' = NoTick
        /\ rec' = [rec EXCEPT ![i].queue = Append(@, tick.legs)]
        /\ taken' = [taken EXCEPT ![i] = @ + 1] /\ UNCHANGED lost
     \/ /\ Accepts(rec[i]) /\ Len(rec[i].queue) >= QueueCap
        /\ tick' = [tick EXCEPT !.full = TRUE]
        /\ lost' = [lost EXCEPT ![i] = TRUE] /\ UNCHANGED <<rec, taken>>
  /\ UNCHANGED <<room, starter, stopping, frames>>

\* The tick has unlocked the recorder and fails it, whatever happened meanwhile.
TickFail ==
  /\ tick.full /\ tick' = NoTick
  /\ rec' = [rec EXCEPT ![tick.rec] = Failed(@)]
  /\ UNCHANGED <<room, starter, stopping, frames, taken, lost>>

WrittenUnaligned(r) ==
  LET group == Head(r.queue) IN
  [r EXCEPT !.main = @ + 1,
            !.track = [l \in RecLegs |->
              IF @[l] = NoTrack THEN IF l \in group THEN 1 ELSE NoTrack ELSE @[l] + 1]]

\* run writes one group: a new track begins with the silence it missed, a
\* track whose leg has no frame gets silence.
Written(r) ==
  LET group == Head(r.queue) IN
  [r EXCEPT !.main = @ + 1,
            !.track = [l \in RecLegs |->
              IF @[l] = NoTrack THEN IF l \in group THEN r.main + 1 ELSE NoTrack
                                ELSE @[l] + 1]]

Opened(i) == starter[i] \in {"opened", "installed", "refused"}

Consume(i) ==
  LET r == rec[i] rest == [r EXCEPT !.queue = Tail(@)] IN
  /\ Opened(i) /\ r.queue # <<>> /\ ~r.done
  /\ IF r.status = "failed" THEN rec' = [rec EXCEPT ![i] = rest]
     ELSE \/ rec' = [rec EXCEPT ![i] = [Written(r) EXCEPT !.queue = Tail(@)]]
          \* a file cannot be created, aligned or written; the main one may be ahead
          \/ rec' = [rec EXCEPT ![i] = Failed(rest)]
          \/ rec' = [rec EXCEPT ![i] = Failed([rest EXCEPT !.main = @ + 1])]
  /\ UNCHANGED <<room, starter, tick, stopping, frames, taken, lost>>

\* The consumer closes the files when the closed queue is empty.
Finish(i) ==
  /\ rec[i].closed /\ rec[i].queue = <<>> /\ ~rec[i].done
  /\ \E r \in {rec[i], Failed(rec[i])} :
       rec' = [rec EXCEPT ![i] =
         [r EXCEPT !.done = TRUE, !.status = IF @ = "failed" THEN @ ELSE "completed"]]
  /\ UNCHANGED <<room, starter, tick, stopping, frames, taken, lost>>

\* StopRecording: out of the room, then the queue is closed.
Stop(i) ==
  /\ starter[i] = "installed" /\ stopping[i] = "no"
  /\ room' = IF room.rec = i THEN [room EXCEPT !.rec = NoRec] ELSE room
  /\ rec' = [rec EXCEPT ![i].closed = TRUE]
  /\ stopping' = [stopping EXCEPT ![i] = "wait"]
  /\ UNCHANGED <<starter, tick, frames, taken, lost>>

\* CloseRoom takes the recorder with the room and stops it.
CloseRoom ==
  /\ ~room.closed
  /\ room' = [room EXCEPT !.closed = TRUE, !.rec = NoRec, !.legs = {}]
  /\ IF room.rec = NoRec THEN UNCHANGED <<rec, stopping>>
     ELSE /\ rec' = [rec EXCEPT ![room.rec].closed = TRUE]
          /\ stopping' = [stopping EXCEPT ![room.rec] = "wait"]
  /\ UNCHANGED <<starter, tick, frames, taken, lost>>

\* stop returns when the consumer is done or after its five seconds.
Returned(i, r) ==
  /\ rec' = [rec EXCEPT ![i] = r]
  /\ stopping' = [stopping EXCEPT ![i] = IF r.status = "failed" THEN "error" ELSE "ok"]
  /\ UNCHANGED <<room, starter, tick, frames, taken, lost>>

StopDone(i) == stopping[i] = "wait" /\ rec[i].done /\ Returned(i, rec[i])
StopTimeout(i) == stopping[i] = "wait" /\ ~rec[i].done /\ Returned(i, Failed(rec[i]))

Consumer(i) == Consume(i) \/ Finish(i)

Next ==
  \/ \E l \in RecLegs : Join(l)
  \/ \E i \in RecIds : Check(i) \/ Open(i) \/ Install(i) \/ Consumer(i)
                         \/ Stop(i) \/ StopDone(i) \/ StopTimeout(i)
  \/ TickRead \/ TickEnqueue \/ TickFail \/ CloseRoom

\* A goroutine writes the groups, a timer ends the wait, and the goroutine of the
\* mixer goes on between the two locks of a full queue.
Fairness ==
  /\ WF_recVars(TickFail)
  /\ \A i \in RecIds : WF_recVars(Consumer(i)) /\ WF_recVars(StopDone(i) \/ StopTimeout(i))

Spec == Init /\ [][Next]_recVars
FairSpec == Spec /\ Fairness

---------------------------------------------------------------------------

\* The variables keep the types of the room and of its recorders.
TypeOK ==
  /\ room \in [closed: BOOLEAN, rec: RecIds \union {NoRec}, legs: SUBSET RecLegs]
  /\ \A i \in RecIds :
       /\ rec[i].status \in {"recording", "failed", "completed"}
       /\ Len(rec[i].queue) <= QueueCap /\ rec[i].main \in 0 .. MaxFrames
       /\ starter[i] \in {"idle", "checked", "opened", "installed", "refused"}
       /\ stopping[i] \in {"no", "wait", "ok", "error"}

\* Of two requests that both saw a room without a recorder one is refused, and
\* none is installed in a room that was closed meanwhile: a recorder that still
\* takes frames is the one of an open room.
OneRecorder ==
  \A i \in RecIds : starter[i] = "installed" /\ ~rec[i].closed => room.rec = i /\ ~room.closed

\* A stop that succeeded has every group that the queue took in the
\* conversation, and every track is as long as the conversation, also the one of
\* a leg that came late; a group that the queue refused fails the recorder, or the
\* tick is still between its two locks (conversation_recording.go).
TakenIsKept ==
  \A i \in RecIds :
    /\ stopping[i] = "ok" =>
         /\ rec[i].main = taken[i]
         /\ \A l \in RecLegs : rec[i].track[l] \in {NoTrack, rec[i].main}
    /\ lost[i] => rec[i].status = "failed" \/ (tick.full /\ tick.rec = i)

\* docs/audio-quality.md:28 says that a partial file is not reported as completed:
\* a stop that succeeded has refused no group.
PartialIsNotCompleted == \A i \in RecIds : stopping[i] = "ok" => ~lost[i]

\* A recorder that fails says so exactly once, whatever fails after it and even
\* if its consumer ends after the stop gave it up.
FailureToldOnce ==
  \A i \in RecIds : rec[i].reports = IF rec[i].status = "failed" THEN 1 ELSE 0

\* The consumer of a recorder that was stopped ends: nothing is queued behind it.
ConsumerEnds == \A i \in RecIds : rec[i].closed ~> rec[i].done /\ rec[i].queue = <<>>

\* A group that the full queue refused is told as a failure in the end, also after
\* a stop that had reported success.
LossIsTold == \A i \in RecIds : lost[i] ~> rec[i].status = "failed"
=============================================================================
