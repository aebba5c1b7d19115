---------------------------- MODULE MediaPlaneProofs ----------------------------
(***************************************************************************)
(* MediaPlane for any values of its constants.  Its parts share no         *)
(* variable and one of them moves at a time, so what one part keeps alone  *)
(* it keeps in the sum (PartsMove).  Every part has a section with its     *)
(* invariant, the lemmas that one step each preserves it, and what follows *)
(* from it; the last section puts the theorems together.                   *)
(***************************************************************************)
EXTENDS MediaPlane, ListProofs, FiniteSetTheorems, SequenceTheorems, TLAPS

-------------------------------------------------------------------------------
(* Recordings.  As long as a recorder has not failed, what its queue took is in  *)
(* the conversation or in the queue, and the queue of a recorder that is done is *)
(* closed and empty.  A stop that succeeded saw a recorder that was whole, and    *)
(* stays so when a tick fails it later.                                          *)

Recorder == [queue: Seq(SUBSET RecLegs), closed: BOOLEAN, status: {"recording", "failed", "completed"},
             main: Nat, track: [RecLegs -> Int], done: BOOLEAN, reports: Nat]

RecTyped ==
  /\ room \in [closed: BOOLEAN, rec: RecIds \union {NoRec}, legs: SUBSET RecLegs]
  /\ starter \in [RecIds -> {"idle", "checked", "opened", "installed", "refused"}]
  /\ rec \in [RecIds -> Recorder]
  /\ tick = Recording!NoTick \/ tick \in [rec: RecIds, legs: SUBSET RecLegs, full: BOOLEAN]
  /\ stopping \in [RecIds -> {"no", "wait", "ok", "error"}]
  /\ frames \in 0 .. MaxFrames /\ taken \in [RecIds -> Nat] /\ lost \in [RecIds -> BOOLEAN]

\* The groups that the tick may still hand over are counted as frames.
TakenAreFrames ==
  \A i \in RecIds : taken[i] + (IF tick # Recording!NoTick /\ tick.rec = i THEN 1 ELSE 0) <= frames

\* One recorder, by itself.
Sound(r, t) ==
  /\ Len(r.queue) <= QueueCap /\ r.main + Len(r.queue) <= t
  /\ r.reports = IF r.status = "failed" THEN 1 ELSE 0
  /\ r.status # "failed" =>
       /\ r.main + Len(r.queue) = t
       /\ \A l \in RecLegs : r.track[l] = Recording!NoTrack \/ r.track[l] = r.main
  /\ r.status = "completed" => r.done
  /\ r.done => r.closed /\ r.queue = <<>> /\ r.status # "recording"

\* A recorder whose consumer is done wrote all that was taken, to equal lengths.
Whole(r, t) ==
  r.done /\ r.main = t /\ \A l \in RecLegs : r.track[l] = Recording!NoTrack \/ r.track[l] = r.main

StopIsTrue == \A i \in RecIds : stopping[i] = "ok" => Whole(rec[i], taken[i])

LossIsOwned ==
  \A i \in RecIds : lost[i] => rec[i].status = "failed" \/ (tick.full /\ tick.rec = i)

RecInv ==
  /\ RecTyped /\ TakenAreFrames /\ StopIsTrue /\ LossIsOwned /\ Recording!OneRecorder
  /\ \A i \in RecIds : Sound(rec[i], taken[i])

LEMMA RecInitInv == Recording!Init => RecInv
<1> SUFFICES ASSUME Recording!Init PROVE RecInv
  OBVIOUS
<1> USE DEF Recording!Init
<1>1. Recording!New \in Recorder /\ Sound(Recording!New, 0)
  BY MediaAssumption DEF Recording!New, Recorder, Sound, Recording!NoTrack
<1>2. RecTyped
  BY <1>1, MediaAssumption DEF RecTyped
<1>3. TakenAreFrames /\ StopIsTrue /\ LossIsOwned /\ Recording!OneRecorder
  BY DEF TakenAreFrames, StopIsTrue, LossIsOwned, Recording!OneRecorder
<1>. QED BY <1>1, <1>2, <1>3 DEF RecInv

\* A step of one recorder, that the stop and the room see as it was or closed.
LEMMA OneRecorderSteps ==
  ASSUME RecInv, NEW i \in RecIds, NEW r \in Recorder, rec' = [rec EXCEPT ![i] = r],
         Sound(r, taken[i]), rec[i].closed => r.closed,
         rec[i].status = "failed" => r.status = "failed",
         Whole(rec[i], taken[i]) => Whole(r, taken[i]),
         UNCHANGED <<room, starter, tick, frames, taken, lost>>,
         stopping' \in [RecIds -> {"no", "wait", "ok", "error"}],
         \A j \in RecIds : stopping'[j] = "ok" => stopping[j] = "ok" \/ (j = i /\ Whole(r, taken[i]))
  PROVE  RecInv'
<1>1. rec' \in [RecIds -> Recorder] /\ \A j \in RecIds : rec'[j] = IF j = i THEN r ELSE rec[j]
  BY DEF RecInv, RecTyped
<1>2. RecTyped' /\ TakenAreFrames'
  BY <1>1 DEF RecInv, RecTyped, TakenAreFrames
<1>3. StopIsTrue'
  BY <1>1 DEF RecInv, StopIsTrue
<1>4. Recording!OneRecorder'
  BY <1>1 DEF RecInv, Recording!OneRecorder
<1>5. \A j \in RecIds : Sound(rec'[j], taken'[j])
  BY <1>1 DEF RecInv
<1>6. LossIsOwned'
  BY <1>1 DEF RecInv, LossIsOwned
<1>. QED BY <1>2, <1>3, <1>4, <1>5, <1>6 DEF RecInv

\* What a recorder can do.
LEMMA RecorderFails ==
  ASSUME NEW r \in Recorder, NEW t \in Nat, Sound(r, t)
  PROVE  /\ Recording!Failed(r) \in Recorder /\ Sound(Recording!Failed(r), t)
         /\ Recording!Failed(r).status = "failed" /\ Recording!Failed(r).closed = r.closed
         /\ Recording!Failed(r).queue = r.queue /\ Recording!Failed(r).done = r.done
         /\ Whole(r, t) => Whole(Recording!Failed(r), t)
<1>1. CASE r.status = "failed"
  BY <1>1 DEF Recording!Failed
<1>2. CASE r.status # "failed"
  <2> DEFINE f == [r EXCEPT !.status = "failed", !.reports = @ + 1]
  <2>1. Recording!Failed(r) = f
    BY <1>2 DEF Recording!Failed
  <2>2. r.reports = 0 /\ r.reports + 1 \in Nat
    BY <1>2 DEF Sound
  <2>3. f \in Recorder
    BY <2>2 DEF Recorder
  <2>4. /\ f.status = "failed" /\ f.closed = r.closed /\ f.queue = r.queue /\ f.done = r.done
        /\ f.main = r.main /\ f.reports = 1 /\ f.track = r.track
    BY <2>2 DEF Recorder
  <2> HIDE DEF f
  <2>5. Sound(f, t)
    BY <2>4 DEF Sound
  <2>6. Whole(r, t) => Whole(f, t)
    BY <2>4 DEF Whole
  <2>. QED BY <2>1, <2>3, <2>4, <2>5, <2>6
<1>. QED BY <1>1, <1>2

\* The consumer takes a group from the queue, and writes it or not.
LEMMA RecorderDrops ==
  ASSUME NEW r \in Recorder, NEW t \in Nat, Sound(r, t), r.queue # <<>>, ~r.done
  PROVE  LET d == [r EXCEPT !.queue = Tail(@)] IN
         /\ d \in Recorder /\ d.queue = Tail(r.queue) /\ d.status = r.status /\ d.closed = r.closed
         /\ d.main = r.main /\ d.reports = r.reports /\ d.done = r.done /\ d.track = r.track
         /\ Len(d.queue) = Len(r.queue) - 1 /\ Len(d.queue) <= QueueCap
<1> DEFINE d == [r EXCEPT !.queue = Tail(@)]
<1>1. r.queue \in Seq(SUBSET RecLegs) /\ Len(r.queue) \in Nat
  BY DEF Recorder
<1>2. Tail(r.queue) \in Seq(SUBSET RecLegs) /\ Len(Tail(r.queue)) = Len(r.queue) - 1
  BY <1>1
<1>3. /\ d \in Recorder /\ d.queue = Tail(r.queue) /\ d.status = r.status /\ d.closed = r.closed
      /\ d.main = r.main /\ d.reports = r.reports /\ d.done = r.done /\ d.track = r.track
  BY <1>1, <1>2 DEF Recorder
<1>4. Len(r.queue) - 1 <= QueueCap
  <2>1. Len(r.queue) <= QueueCap
    BY DEF Sound
  <2>2. QueueCap \in Nat
    BY MediaAssumption
  <2>. QED BY <1>1, <2>1, <2>2
<1>. QED BY <1>2, <1>3, <1>4

LEMMA RecorderWrites ==
  ASSUME NEW r \in Recorder, NEW t \in Nat, Sound(r, t), r.queue # <<>>, ~r.done, r.status # "failed"
  PROVE  LET w == [Recording!Written(r) EXCEPT !.queue = Tail(@)] IN
         w \in Recorder /\ Sound(w, t) /\ w.closed = r.closed /\ w.status = r.status
<1> DEFINE track == [l \in RecLegs |->
                       IF r.track[l] = Recording!NoTrack
                         THEN IF l \in Head(r.queue) THEN r.main + 1 ELSE Recording!NoTrack
                         ELSE r.track[l] + 1]
           v == Recording!Written(r)
           w == [v EXCEPT !.queue = Tail(@)]
<1>1. /\ r.queue \in Seq(SUBSET RecLegs) /\ Len(r.queue) \in Nat /\ r.main \in Nat
      /\ r.track \in [RecLegs -> Int]
  BY DEF Recorder
<1>2. Tail(r.queue) \in Seq(SUBSET RecLegs) /\ Len(Tail(r.queue)) = Len(r.queue) - 1
  BY <1>1
<1>3. /\ r.main + Len(r.queue) = t
      /\ \A l \in RecLegs : r.track[l] = Recording!NoTrack \/ r.track[l] = r.main
      /\ Len(r.queue) <= QueueCap
  BY DEF Sound
<1>4. /\ track \in [RecLegs -> Int]
      /\ \A l \in RecLegs : track[l] = Recording!NoTrack \/ track[l] = r.main + 1
  BY <1>1, <1>3 DEF Recording!NoTrack
<1>5. r.main + 1 \in Nat
  BY <1>1
<1>6. /\ v \in Recorder /\ v.queue = r.queue /\ v.status = r.status /\ v.closed = r.closed
      /\ v.main = r.main + 1 /\ v.reports = r.reports /\ v.done = r.done /\ v.track = track
  <2>1. /\ v.queue = r.queue /\ v.status = r.status /\ v.closed = r.closed
        /\ v.main = r.main + 1 /\ v.reports = r.reports /\ v.done = r.done /\ v.track = track
    BY DEF Recording!Written, Recorder
  <2>2. v \in Recorder
    BY <1>1, <1>4, <1>5 DEF Recording!Written, Recorder
  <2>. QED BY <2>1, <2>2
<1> HIDE DEF track, v
<1>7. /\ w \in Recorder /\ w.queue = Tail(r.queue) /\ w.status = r.status /\ w.closed = r.closed
      /\ w.main = r.main + 1 /\ w.reports = r.reports /\ w.done = r.done /\ w.track = track
  BY <1>2, <1>6 DEF Recorder
<1> HIDE DEF w
<1>8. Len(w.queue) <= QueueCap /\ w.main + Len(w.queue) = t
  <2>1. Len(w.queue) = Len(r.queue) - 1 /\ w.main = r.main + 1
    BY <1>2, <1>7
  <2>2. QueueCap \in Nat
    BY MediaAssumption
  <2>. QED BY <1>1, <1>3, <2>1, <2>2
<1>9. Sound(w, t)
  BY <1>4, <1>7, <1>8 DEF Sound
<1>. QED BY <1>7, <1>9 DEF v, w

LEMMA ConsumeStep ==
  ASSUME RecInv, NEW i \in RecIds, Recording!Consume(i)
  PROVE  RecInv'
<1> DEFINE r == rec[i]
           d == [r EXCEPT !.queue = Tail(@)]
<1>1. /\ r \in Recorder /\ Sound(r, taken[i]) /\ r.queue # <<>> /\ ~r.done /\ taken[i] \in Nat
      /\ stopping \in [RecIds -> {"no", "wait", "ok", "error"}]
      /\ UNCHANGED <<room, starter, tick, stopping, frames, taken, lost>>
  BY DEF Recording!Consume, RecInv, RecTyped
<1>3. /\ d \in Recorder /\ d.queue = Tail(r.queue) /\ d.status = r.status /\ d.closed = r.closed
      /\ d.main = r.main /\ d.reports = r.reports /\ d.done = r.done /\ d.track = r.track
      /\ Len(d.queue) = Len(r.queue) - 1 /\ Len(d.queue) <= QueueCap
  BY <1>1, RecorderDrops
<1>4. ASSUME NEW s \in Recorder, rec' = [rec EXCEPT ![i] = s], Sound(s, taken[i]), s.closed = r.closed,
             r.status = "failed" => s.status = "failed"
      PROVE  RecInv'
  <2>1. ~Whole(r, taken[i])
    BY <1>1 DEF Whole
  <2>. QED BY <1>1, <1>4, <2>1, OneRecorderSteps
<1>5. Len(r.queue) \in Nat /\ r.main \in Nat /\ r.main + 1 \in Nat
  BY <1>1 DEF Recorder
\* A group that is dropped or half written leaves a failed recorder.
<1>6. ASSUME NEW s \in Recorder, s.queue = d.queue, s.closed = r.closed, s.done = r.done,
             s.status = r.status, s.reports = r.reports, s.main \in {r.main, r.main + 1}
      PROVE  Recording!Failed(s) \in Recorder /\ Sound(Recording!Failed(s), taken[i])
             /\ Recording!Failed(s).closed = r.closed /\ Recording!Failed(s).status = "failed"
  <2>3. s.main + Len(s.queue) <= taken[i] /\ Len(s.queue) <= QueueCap
    <3>1. r.main + Len(r.queue) <= taken[i]
      BY <1>1 DEF Sound
    <3>2. /\ Len(s.queue) = Len(r.queue) - 1 /\ Len(s.queue) <= QueueCap
          /\ s.main \in Nat /\ s.main <= r.main + 1
      BY <1>3, <1>5, <1>6
    <3> DEFINE left == Len(s.queue)
               had == Len(r.queue)
               main == s.main
               was == r.main
               t == taken[i]
    <3>3. /\ was \in Nat /\ had \in Nat /\ main \in Nat /\ t \in Nat
          /\ was + had <= t /\ left = had - 1 /\ main <= was + 1
      BY <1>1, <1>5, <3>1, <3>2
    <3> HIDE DEF left, had, main, was, t
    <3>4. main + left <= t
      BY <3>3
    <3>. QED BY <3>2, <3>4 DEF main, left, t
  <2>1. CASE r.status = "failed"
    <3>1. Recording!Failed(s) = s
      BY <1>6, <2>1 DEF Recording!Failed
    <3>3. Sound(s, taken[i])
      BY <1>1, <1>6, <2>1, <2>3 DEF Sound
    <3>. QED BY <1>6, <2>1, <3>1, <3>3
  <2>2. CASE r.status # "failed"
    <3> DEFINE f == [s EXCEPT !.status = "failed", !.reports = @ + 1]
    <3>1. Recording!Failed(s) = f
      BY <1>6, <2>2 DEF Recording!Failed
    <3>2. s.reports = 0 /\ s.reports + 1 \in Nat
      BY <1>1, <1>6, <2>2 DEF Sound
    <3>3. /\ f \in Recorder /\ f.status = "failed" /\ f.closed = r.closed /\ f.queue = d.queue
          /\ f.done = r.done /\ f.main = s.main /\ f.reports = s.reports + 1
      BY <1>6, <3>2 DEF Recorder
    <3> HIDE DEF f
    <3>4. f.main + Len(f.queue) <= taken[i] /\ Len(f.queue) <= QueueCap
      BY <1>6, <2>3, <3>3
    <3>5. Sound(f, taken[i])
      BY <1>1, <3>2, <3>3, <3>4 DEF Sound
    <3>. QED BY <3>1, <3>3, <3>5
  <2>. QED BY <2>1, <2>2
<1>7. CASE r.status = "failed" /\ rec' = [rec EXCEPT ![i] = d]
  <2>1. Recording!Failed(d) = d
    BY <1>3, <1>7 DEF Recording!Failed
  <2>. QED BY <1>3, <1>4, <1>6, <1>7, <2>1
<1>8. CASE r.status # "failed" /\ rec' = [rec EXCEPT ![i] = [Recording!Written(r) EXCEPT !.queue = Tail(@)]]
  BY <1>1, <1>4, <1>8, RecorderWrites
<1>9. CASE rec' = [rec EXCEPT ![i] = Recording!Failed(d)]
  BY <1>3, <1>4, <1>6, <1>9
<1>10. CASE rec' = [rec EXCEPT ![i] = Recording!Failed([d EXCEPT !.main = @ + 1])]
  <2> DEFINE s == [d EXCEPT !.main = @ + 1]
  <2> HIDE DEF d
  <2>0. d.main + 1 \in Nat
    BY <1>3, <1>5
  <2>1. /\ s \in Recorder /\ s.queue = d.queue /\ s.closed = r.closed /\ s.done = r.done
        /\ s.status = r.status /\ s.reports = r.reports /\ s.main = r.main + 1
    BY <1>3, <1>5, <2>0 DEF Recorder
  <2> HIDE DEF s
  <2>. QED BY <1>4, <1>6, <1>10, <2>1 DEF d, s
<1>. QED BY <1>7, <1>8, <1>9, <1>10 DEF Recording!Consume

LEMMA FinishStep ==
  ASSUME RecInv, NEW i \in RecIds, Recording!Finish(i)
  PROVE  RecInv'
<1> DEFINE r == rec[i]
<1>1. /\ r \in Recorder /\ Sound(r, taken[i]) /\ r.closed /\ r.queue = <<>> /\ ~r.done /\ taken[i] \in Nat
      /\ stopping \in [RecIds -> {"no", "wait", "ok", "error"}]
      /\ UNCHANGED <<room, starter, tick, stopping, frames, taken, lost>>
  BY DEF Recording!Finish, RecInv, RecTyped
<1>2. r.status # "completed"
  BY <1>1 DEF Sound
<1>3. PICK s \in {r, Recording!Failed(r)} :
        rec' = [rec EXCEPT ![i] =
          [s EXCEPT !.done = TRUE, !.status = IF s.status = "failed" THEN s.status ELSE "completed"]]
  BY DEF Recording!Finish
<1>4. /\ s \in Recorder /\ Sound(s, taken[i]) /\ s.status # "completed"
      /\ s.closed /\ s.queue = <<>> /\ ~s.done
  BY <1>1, <1>2, <1>3, RecorderFails
<1>9. r.status = "failed" => s.status = "failed"
  BY <1>1, <1>3, RecorderFails
<1>10. ~Whole(r, taken[i])
  BY <1>1 DEF Whole
<1> DEFINE to == IF s.status = "failed" THEN s.status ELSE "completed"
           e == [s EXCEPT !.done = TRUE, !.status = to]
<1>5. to \in {"failed", "completed"} /\ (to = "failed" <=> s.status = "failed")
  OBVIOUS
<1> HIDE DEF to
<1>6. /\ e \in Recorder /\ e.status = to /\ e.closed /\ e.queue = <<>> /\ e.done
      /\ e.main = s.main /\ e.reports = s.reports /\ e.track = s.track
  BY <1>4, <1>5 DEF Recorder
<1> HIDE DEF e
<1>7. Sound(e, taken[i])
  BY <1>4, <1>5, <1>6 DEF Sound
<1>8. rec' = [rec EXCEPT ![i] = e]
  BY <1>3 DEF e, to
<1>. QED BY <1>1, <1>5, <1>6, <1>7, <1>8, <1>9, <1>10, OneRecorderSteps

LEMMA RecorderCloses ==
  ASSUME RecInv, NEW i \in RecIds
  PROVE  LET c == [rec[i] EXCEPT !.closed = TRUE] IN
         /\ c \in Recorder /\ Sound(c, taken[i]) /\ c.closed /\ c.status = rec[i].status
         /\ Whole(rec[i], taken[i]) => Whole(c, taken[i])
         /\ [rec EXCEPT ![i].closed = TRUE] = [rec EXCEPT ![i] = c]
<1> DEFINE r == rec[i]
           c == [r EXCEPT !.closed = TRUE]
<1>1. r \in Recorder /\ Sound(r, taken[i])
  BY DEF RecInv, RecTyped
<1>2. /\ c \in Recorder /\ c.closed /\ c.status = r.status /\ c.queue = r.queue /\ c.done = r.done
      /\ c.main = r.main /\ c.reports = r.reports /\ c.track = r.track
  BY <1>1 DEF Recorder
<1>3. [rec EXCEPT ![i].closed = TRUE] = [rec EXCEPT ![i] = c]
  BY DEF RecInv, RecTyped
<1> HIDE DEF c
<1>4. Sound(c, taken[i])
  BY <1>1, <1>2 DEF Sound
<1>5. Whole(r, taken[i]) => Whole(c, taken[i])
  BY <1>2 DEF Whole
<1>. QED BY <1>2, <1>3, <1>4, <1>5 DEF c

LEMMA RoomSteps ==
  ASSUME RecInv, \/ \E l \in RecLegs : Recording!Join(l)
                 \/ \E i \in RecIds : Recording!Check(i) \/ Recording!Open(i)
                 \/ Recording!TickRead
  PROVE  RecInv'
<1>1. CASE \E l \in RecLegs : Recording!Join(l)
  <2>1. /\ room' = [room EXCEPT !.legs = room'.legs] /\ room'.legs \in SUBSET RecLegs
        /\ UNCHANGED <<starter, rec, tick, stopping, frames, taken, lost>>
    BY <1>1 DEF Recording!Join, RecInv, RecTyped
  <2>2. RecTyped' /\ room'.rec = room.rec /\ room'.closed = room.closed
    BY <2>1 DEF RecInv, RecTyped
  <2>. QED BY <2>1, <2>2 DEF RecInv, TakenAreFrames, StopIsTrue, LossIsOwned, Recording!OneRecorder
<1>2. CASE \E i \in RecIds : Recording!Check(i) \/ Recording!Open(i)
  <2>1. /\ UNCHANGED <<room, rec, tick, stopping, frames, taken, lost>>
        /\ starter' \in [RecIds -> {"idle", "checked", "opened", "installed", "refused"}]
        /\ \A i \in RecIds : starter'[i] = "installed" => starter[i] = "installed"
    BY <1>2 DEF Recording!Check, Recording!Open, RecInv, RecTyped
  <2>. QED BY <2>1 DEF RecInv, RecTyped, TakenAreFrames, StopIsTrue, LossIsOwned, Recording!OneRecorder
<1>3. CASE Recording!TickRead
  <2>1. /\ tick = Recording!NoTick /\ frames < MaxFrames /\ frames' = frames + 1
        /\ tick' = [rec |-> room.rec, legs |-> room.legs, full |-> FALSE] /\ room.rec # NoRec
        /\ UNCHANGED <<room, starter, rec, stopping, taken, lost>>
    BY <1>3 DEF Recording!TickRead
  <2>2. RecTyped'
    BY <2>1, MediaAssumption DEF RecInv, RecTyped
  <2>3. \A i \in RecIds : taken[i] <= frames /\ taken[i] \in Nat /\ frames \in Nat
    BY <2>1 DEF RecInv, RecTyped, TakenAreFrames
  <2>4. TakenAreFrames'
    BY <2>1, <2>3 DEF TakenAreFrames
  <2>5. ~tick.full
    BY <2>1 DEF Recording!NoTick
  <2>6. LossIsOwned'
    BY <2>1, <2>5 DEF RecInv, LossIsOwned
  <2>. QED BY <2>1, <2>2, <2>4, <2>6 DEF RecInv, StopIsTrue, Recording!OneRecorder
<1>. QED BY <1>1, <1>2, <1>3

LEMMA InstallStep ==
  ASSUME RecInv, NEW i \in RecIds, Recording!Install(i)
  PROVE  RecInv'
<1> DEFINE c == [rec[i] EXCEPT !.closed = TRUE]
<1>1. /\ c \in Recorder /\ Sound(c, taken[i]) /\ c.closed /\ c.status = rec[i].status
      /\ Whole(rec[i], taken[i]) => Whole(c, taken[i])
      /\ [rec EXCEPT ![i].closed = TRUE] = [rec EXCEPT ![i] = c]
  BY RecorderCloses
<1>2. starter[i] = "opened" /\ UNCHANGED <<tick, stopping, frames, taken, lost>>
  BY DEF Recording!Install
<1>3. CASE /\ starter' = [starter EXCEPT ![i] = "refused"]
           /\ rec' = [rec EXCEPT ![i].closed = TRUE] /\ UNCHANGED room
  <2> HIDE DEF c
  <2>1. /\ rec' \in [RecIds -> Recorder]
        /\ \A j \in RecIds : rec'[j] = IF j = i THEN c ELSE rec[j]
    BY <1>1, <1>3 DEF RecInv, RecTyped
  <2>2. RecTyped' /\ TakenAreFrames'
    BY <1>2, <1>3, <2>1 DEF RecInv, RecTyped, TakenAreFrames
  <2>3. StopIsTrue'
    BY <1>1, <1>2, <2>1 DEF RecInv, StopIsTrue
  <2>4. Recording!OneRecorder'
    BY <1>1, <1>3, <2>1 DEF RecInv, RecTyped, Recording!OneRecorder
  <2>5. \A j \in RecIds : Sound(rec'[j], taken'[j])
    BY <1>1, <1>2, <2>1 DEF RecInv
  <2>6. LossIsOwned'
    BY <1>1, <1>2, <2>1 DEF RecInv, LossIsOwned
  <2>. QED BY <2>2, <2>3, <2>4, <2>5, <2>6 DEF RecInv
<1>4. CASE /\ room.rec = NoRec /\ ~room.closed /\ starter' = [starter EXCEPT ![i] = "installed"]
           /\ room' = [room EXCEPT !.rec = i] /\ UNCHANGED rec
  <2>1. RecTyped' /\ room'.rec = i /\ ~room'.closed
    BY <1>2, <1>4 DEF RecInv, RecTyped
  <2>2. \A j \in RecIds : starter[j] = "installed" => rec[j].closed
    BY <1>4, MediaAssumption DEF RecInv, Recording!OneRecorder
  <2>3. Recording!OneRecorder'
    BY <1>4, <2>1, <2>2 DEF RecInv, RecTyped, Recording!OneRecorder
  <2>. QED BY <1>2, <1>4, <2>1, <2>3 DEF RecInv, TakenAreFrames, StopIsTrue, LossIsOwned
<1>. QED BY <1>3, <1>4 DEF Recording!Install

\* A recorder that is closed and taken out of the room.
LEMMA RecorderLeaves ==
  ASSUME RecInv, NEW i \in RecIds, rec' = [rec EXCEPT ![i].closed = TRUE],
         room' \in [closed: BOOLEAN, rec: RecIds \union {NoRec}, legs: SUBSET RecLegs],
         room'.rec = (IF room.rec = i THEN NoRec ELSE room.rec),
         room.rec = i \/ room'.closed = room.closed,
         stopping' = [stopping EXCEPT ![i] = "wait"], UNCHANGED <<starter, tick, frames, taken, lost>>
  PROVE  RecInv'
<1> DEFINE c == [rec[i] EXCEPT !.closed = TRUE]
<1>1. /\ c \in Recorder /\ Sound(c, taken[i]) /\ c.closed /\ c.status = rec[i].status
      /\ Whole(rec[i], taken[i]) => Whole(c, taken[i])
      /\ [rec EXCEPT ![i].closed = TRUE] = [rec EXCEPT ![i] = c]
  BY RecorderCloses
<1> HIDE DEF c
<1>2. /\ rec' \in [RecIds -> Recorder]
      /\ \A j \in RecIds : rec'[j] = IF j = i THEN c ELSE rec[j]
  BY <1>1 DEF RecInv, RecTyped
<1>3. RecTyped' /\ TakenAreFrames'
  <2>1. stopping' \in [RecIds -> {"no", "wait", "ok", "error"}]
    BY DEF RecInv, RecTyped
  <2>2. RecTyped'
    BY <1>2, <2>1 DEF RecInv, RecTyped
  <2>3. TakenAreFrames'
    BY DEF RecInv, TakenAreFrames
  <2>. QED BY <2>2, <2>3
<1>4. StopIsTrue'
  BY <1>1, <1>2 DEF RecInv, RecTyped, StopIsTrue
<1>5. Recording!OneRecorder'
  BY <1>1, <1>2, MediaAssumption DEF RecInv, Recording!OneRecorder
<1>6. \A j \in RecIds : Sound(rec'[j], taken'[j])
  BY <1>1, <1>2 DEF RecInv
<1>7. LossIsOwned'
  BY <1>1, <1>2 DEF RecInv, LossIsOwned
<1>. QED BY <1>3, <1>4, <1>5, <1>6, <1>7 DEF RecInv

LEMMA StopSteps ==
  ASSUME RecInv, (\E i \in RecIds : Recording!Stop(i)) \/ Recording!CloseRoom
  PROVE  RecInv'
<1>1. CASE \E i \in RecIds : Recording!Stop(i)
  <2>1. PICK i \in RecIds : Recording!Stop(i)
    BY <1>1
  <2>2. /\ room' = IF room.rec = i THEN [room EXCEPT !.rec = NoRec] ELSE room
        /\ rec' = [rec EXCEPT ![i].closed = TRUE] /\ stopping' = [stopping EXCEPT ![i] = "wait"]
        /\ UNCHANGED <<starter, tick, frames, taken, lost>>
    BY <2>1 DEF Recording!Stop
  <2>3. /\ room' \in [closed: BOOLEAN, rec: RecIds \union {NoRec}, legs: SUBSET RecLegs]
        /\ room'.rec = (IF room.rec = i THEN NoRec ELSE room.rec) /\ room'.closed = room.closed
    BY <2>2 DEF RecInv, RecTyped
  <2>. QED BY <2>2, <2>3, RecorderLeaves
<1>2. CASE Recording!CloseRoom
  <2>1. /\ room' = [room EXCEPT !.closed = TRUE, !.rec = NoRec, !.legs = {}]
        /\ UNCHANGED <<starter, tick, frames, taken, lost>>
    BY <1>2 DEF Recording!CloseRoom
  <2>2. /\ room' \in [closed: BOOLEAN, rec: RecIds \union {NoRec}, legs: SUBSET RecLegs]
        /\ room'.rec = NoRec /\ room.rec \in RecIds \union {NoRec}
    BY <2>1 DEF RecInv, RecTyped
  <2>3. CASE room.rec = NoRec
    <3>1. UNCHANGED <<rec, stopping>>
      BY <1>2, <2>3 DEF Recording!CloseRoom
    <3>2. Recording!OneRecorder'
      BY <2>1, <2>3, <3>1, MediaAssumption DEF RecInv, Recording!OneRecorder
    <3>. QED BY <2>1, <2>2, <3>1, <3>2 DEF RecInv, RecTyped, TakenAreFrames, StopIsTrue, LossIsOwned
  <2>4. CASE room.rec # NoRec
    <3>1. rec' = [rec EXCEPT ![room.rec].closed = TRUE] /\ stopping' = [stopping EXCEPT ![room.rec] = "wait"]
      BY <1>2, <2>4 DEF Recording!CloseRoom
    <3>. QED BY <2>1, <2>2, <2>4, <3>1, RecorderLeaves
  <2>. QED BY <2>3, <2>4
<1>. QED BY <1>1, <1>2

\* The wait for the consumer ends.
LEMMA ReturnSteps ==
  ASSUME RecInv, NEW i \in RecIds, Recording!StopDone(i) \/ Recording!StopTimeout(i)
  PROVE  RecInv'
<1>1. /\ rec[i] \in Recorder /\ Sound(rec[i], taken[i]) /\ taken[i] \in Nat
      /\ stopping \in [RecIds -> {"no", "wait", "ok", "error"}] /\ rec \in [RecIds -> Recorder]
  BY DEF RecInv, RecTyped
<1>2. PICK r : /\ Recording!Returned(i, r)
               /\ (r = rec[i] /\ rec[i].done) \/ (r = Recording!Failed(rec[i]) /\ ~rec[i].done)
  <2>1. CASE Recording!StopDone(i)
    BY <2>1, Zenon DEF Recording!StopDone
  <2>2. CASE Recording!StopTimeout(i)
    BY <2>2, Zenon DEF Recording!StopTimeout
  <2>. QED BY <2>1, <2>2
<1>3. /\ rec' = [rec EXCEPT ![i] = r] /\ UNCHANGED <<room, starter, tick, frames, taken, lost>>
      /\ stopping' = [stopping EXCEPT ![i] = IF r.status = "failed" THEN "error" ELSE "ok"]
  BY <1>2 DEF Recording!Returned
<1>4. r \in Recorder /\ Sound(r, taken[i]) /\ (rec[i].closed => r.closed)
      /\ (r.status = "failed" \/ Whole(r, taken[i])) /\ (rec[i].status = "failed" => r.status = "failed")
      /\ (Whole(rec[i], taken[i]) => Whole(r, taken[i]))
  <2>1. CASE r = rec[i] /\ rec[i].done
    <3>1. r.queue = <<>> /\ r.main \in Nat
      BY <1>1, <2>1 DEF Recorder, Sound
    <3>2. r.status # "failed" => r.main + 0 = taken[i]
      BY <1>1, <2>1, <3>1 DEF Sound
    <3>3. r.status # "failed" => Whole(r, taken[i])
      BY <1>1, <2>1, <3>1, <3>2 DEF Sound, Whole
    <3>. QED BY <1>1, <2>1, <3>3
  <2>2. CASE r = Recording!Failed(rec[i]) /\ ~rec[i].done
    BY <1>1, <2>2, RecorderFails
  <2>. QED BY <1>2, <2>1, <2>2
<1>5. /\ stopping' \in [RecIds -> {"no", "wait", "ok", "error"}]
      /\ \A j \in RecIds : stopping'[j] = "ok" => stopping[j] = "ok" \/ (j = i /\ Whole(r, taken[i]))
  BY <1>1, <1>3, <1>4
<1>. QED BY <1>3, <1>4, <1>5, OneRecorderSteps

LEMMA TickEnqueueStep ==
  ASSUME RecInv, Recording!TickEnqueue
  PROVE  RecInv'
<1> DEFINE i == tick.rec
           r == rec[i]
<1>1. /\ tick # Recording!NoTick /\ ~tick.full /\ i \in RecIds /\ tick.legs \in SUBSET RecLegs
      /\ r \in Recorder /\ Sound(r, taken[i]) /\ taken[i] \in Nat /\ frames \in Nat
      /\ rec \in [RecIds -> Recorder] /\ taken \in [RecIds -> Nat]
      /\ tick \in [rec: RecIds, legs: SUBSET RecLegs, full: BOOLEAN]
      /\ UNCHANGED <<room, starter, stopping, frames>>
  BY DEF Recording!TickEnqueue, RecInv, RecTyped
<1>2. /\ taken[i] + 1 <= frames /\ \A j \in RecIds : taken[j] <= frames
  BY <1>1 DEF RecInv, RecTyped, TakenAreFrames
\* No recorder waits for the tick to fail it.
<1>3. \A j \in RecIds : lost[j] => rec[j].status = "failed"
  BY <1>1 DEF RecInv, LossIsOwned
\* The recorder is closed or failed: the group goes nowhere.
<1>4. CASE tick' = Recording!NoTick /\ UNCHANGED <<rec, taken, lost>>
  <2>1. TakenAreFrames'
    BY <1>1, <1>2, <1>4 DEF TakenAreFrames
  <2>2. RecTyped'
    BY <1>1, <1>4 DEF RecInv, RecTyped
  <2>3. LossIsOwned'
    BY <1>3, <1>4 DEF LossIsOwned
  <2>. QED BY <1>1, <1>4, <2>1, <2>2, <2>3 DEF RecInv, StopIsTrue, Recording!OneRecorder
\* The queue is full: the tick keeps the recorder to fail it.
<1>5. CASE tick' = [tick EXCEPT !.full = TRUE] /\ lost' = [lost EXCEPT ![i] = TRUE] /\ UNCHANGED <<rec, taken>>
  <2>1. /\ tick' \in [rec: RecIds, legs: SUBSET RecLegs, full: BOOLEAN] /\ tick'.rec = i /\ tick'.full
        /\ lost' \in [RecIds -> BOOLEAN] /\ \A j \in RecIds : lost'[j] => lost[j] \/ j = i
    BY <1>1, <1>5 DEF RecInv, RecTyped
  <2>2. TakenAreFrames'
    BY <1>1, <1>2, <1>5, <2>1 DEF TakenAreFrames
  <2>3. RecTyped'
    BY <1>1, <1>5, <2>1 DEF RecInv, RecTyped
  <2>4. LossIsOwned'
    BY <1>3, <1>5, <2>1 DEF LossIsOwned
  <2>. QED BY <1>1, <1>5, <2>2, <2>3, <2>4 DEF RecInv, StopIsTrue, Recording!OneRecorder
<1>6. ASSUME NEW s \in Recorder, rec' = [rec EXCEPT ![i] = s], taken' = [taken EXCEPT ![i] = taken[i] + 1],
             Sound(s, taken[i] + 1), s.closed = r.closed, ~r.done, tick' = Recording!NoTick,
             r.status # "failed", UNCHANGED lost
      PROVE  RecInv'
  <2> HIDE DEF r, i
  <2>1. /\ rec' \in [RecIds -> Recorder] /\ taken' \in [RecIds -> Nat]
        /\ \A j \in RecIds : rec'[j] = IF j = i THEN s ELSE rec[j]
        /\ \A j \in RecIds : taken'[j] = IF j = i THEN taken[i] + 1 ELSE taken[j]
    BY <1>1, <1>6
  <2>2. RecTyped'
    BY <1>1, <1>6, <2>1 DEF RecInv, RecTyped
  <2>3. TakenAreFrames'
    BY <1>1, <1>2, <1>6, <2>1 DEF TakenAreFrames
  <2>4. StopIsTrue'
    <3>1. stopping[i] # "ok"
      BY <1>1, <1>6 DEF RecInv, StopIsTrue, Whole, r
    <3>. QED BY <1>1, <2>1, <3>1 DEF RecInv, StopIsTrue
  <2>5. Recording!OneRecorder'
    BY <1>1, <1>6, <2>1 DEF RecInv, Recording!OneRecorder, r
  <2>6. LossIsOwned'
    BY <1>3, <1>6, <2>1 DEF LossIsOwned, r
  <2>7. \A j \in RecIds : Sound(rec'[j], taken'[j])
    BY <1>1, <1>6, <2>1 DEF RecInv
  <2>. QED BY <2>2, <2>3, <2>4, <2>5, <2>6, <2>7 DEF RecInv
<1>7. CASE /\ Recording!Accepts(r) /\ Len(r.queue) < QueueCap /\ tick' = Recording!NoTick /\ UNCHANGED lost
           /\ rec' = [rec EXCEPT ![i].queue = Append(@, tick.legs)]
           /\ taken' = [taken EXCEPT ![i] = @ + 1]
  <2> DEFINE s == [r EXCEPT !.queue = Append(r.queue, tick.legs)]
  <2>1. /\ r.queue \in Seq(SUBSET RecLegs) /\ Len(r.queue) \in Nat
        /\ Append(r.queue, tick.legs) \in Seq(SUBSET RecLegs)
        /\ Len(Append(r.queue, tick.legs)) = Len(r.queue) + 1
    BY <1>1 DEF Recorder
  <2>2. rec' = [rec EXCEPT ![i] = s] /\ taken' = [taken EXCEPT ![i] = taken[i] + 1]
    BY <1>1, <1>7
  <2>3. /\ s \in Recorder /\ s.queue = Append(r.queue, tick.legs) /\ s.status = r.status
        /\ s.closed = r.closed /\ s.main = r.main /\ s.reports = r.reports /\ s.done = r.done
        /\ s.track = r.track /\ r.main \in Nat
    BY <1>1, <2>1 DEF Recorder
  <2>4. /\ ~r.done /\ r.status # "completed" /\ r.status # "failed" /\ r.main + Len(r.queue) = taken[i]
        /\ r.reports = 0 /\ \A l \in RecLegs : r.track[l] = Recording!NoTrack \/ r.track[l] = r.main
    BY <1>1, <1>7 DEF Recording!Accepts, Sound
  <2> HIDE DEF s, r, i
  <2>5. Len(s.queue) <= QueueCap /\ s.main + Len(s.queue) = taken[i] + 1
    <3>1. Len(s.queue) = Len(r.queue) + 1 /\ s.main = r.main
      BY <2>1, <2>3
    <3>2. QueueCap \in Nat /\ Len(r.queue) < QueueCap
      BY <1>7, MediaAssumption
    <3> DEFINE n == Len(r.queue)
               m == r.main
    <3>3. n \in Nat /\ m \in Nat /\ m + n = taken[i] /\ n < QueueCap
      BY <2>1, <2>3, <2>4, <3>2
    <3>4. Len(s.queue) = n + 1 /\ s.main = m
      BY <3>1
    <3> HIDE DEF n, m
    <3>5. n + 1 <= QueueCap /\ m + (n + 1) = taken[i] + 1
      BY <3>2, <3>3
    <3>. QED BY <3>4, <3>5
  <2>6. Sound(s, taken[i] + 1)
    BY <2>3, <2>4, <2>5 DEF Sound
  <2>. QED BY <1>6, <1>7, <2>2, <2>3, <2>4, <2>6
<1>. QED BY <1>4, <1>5, <1>7 DEF Recording!TickEnqueue

LEMMA TickFailStep ==
  ASSUME RecInv, Recording!TickFail
  PROVE  RecInv'
<1> DEFINE i == tick.rec
           r == rec[i]
           f == Recording!Failed(r)
<1>1. /\ tick.full /\ tick' = Recording!NoTick /\ UNCHANGED <<room, starter, stopping, frames, taken, lost>>
      /\ rec' = [rec EXCEPT ![i] = f]
  BY DEF Recording!TickFail
<1>2. tick # Recording!NoTick
  BY <1>1 DEF Recording!NoTick
<1>3. /\ i \in RecIds /\ r \in Recorder /\ Sound(r, taken[i]) /\ taken[i] \in Nat /\ frames \in Nat
      /\ rec \in [RecIds -> Recorder] /\ taken \in [RecIds -> Nat]
  BY <1>2 DEF RecInv, RecTyped
<1>4. /\ f \in Recorder /\ Sound(f, taken[i]) /\ f.status = "failed" /\ f.closed = r.closed
      /\ Whole(r, taken[i]) => Whole(f, taken[i])
  BY <1>3, RecorderFails
<1> HIDE DEF f, r, i
<1>5. /\ rec' \in [RecIds -> Recorder]
      /\ \A j \in RecIds : rec'[j] = IF j = i THEN f ELSE rec[j]
  BY <1>1, <1>3, <1>4
<1>6. RecTyped'
  BY <1>1, <1>5 DEF RecInv, RecTyped
<1>7. \A j \in RecIds : taken[j] <= frames
  BY <1>3 DEF RecInv, TakenAreFrames
<1>8. TakenAreFrames'
  BY <1>1, <1>3, <1>7 DEF TakenAreFrames
<1>9. StopIsTrue' /\ Recording!OneRecorder'
  BY <1>1, <1>4, <1>5 DEF RecInv, StopIsTrue, Recording!OneRecorder, r
<1>10. LossIsOwned'
  BY <1>1, <1>4, <1>5 DEF RecInv, LossIsOwned, i
<1>11. \A j \in RecIds : Sound(rec'[j], taken'[j])
  BY <1>1, <1>4, <1>5 DEF RecInv
<1>. QED BY <1>6, <1>8, <1>9, <1>10, <1>11 DEF RecInv

LEMMA RecInductive ==
  ASSUME RecInv, [Recording!Next]_recVars
  PROVE  RecInv'
<1>1. CASE UNCHANGED recVars
  BY <1>1 DEF recVars, RecInv, RecTyped, TakenAreFrames, StopIsTrue, LossIsOwned, Recording!OneRecorder
<1>2. CASE Recording!Next
  BY <1>2, RoomSteps, InstallStep, ConsumeStep, FinishStep, StopSteps, ReturnSteps, TickEnqueueStep,
     TickFailStep
  DEF Recording!Next, Recording!Consumer
<1>. QED BY <1>1, <1>2

\* What the invariant says of recordings.
LEMMA RecOK ==
  ASSUME RecInv
  PROVE  Recording!TypeOK /\ Recording!TakenIsKept /\ Recording!FailureToldOnce /\ Recording!OneRecorder
<1>1. ASSUME NEW i \in RecIds
      PROVE  rec[i].main \in 0 .. MaxFrames
  <2>1. /\ rec[i].main \in Nat /\ rec[i].queue \in Seq(SUBSET RecLegs) /\ Len(rec[i].queue) \in Nat
        /\ taken[i] \in Nat /\ frames \in 0 .. MaxFrames
    BY <1>1 DEF RecInv, RecTyped, Recorder
  <2>2. rec[i].main + Len(rec[i].queue) <= taken[i]
    BY <1>1 DEF RecInv, Sound
  <2>3. taken[i] <= frames
    BY <1>1, <2>1 DEF RecInv, TakenAreFrames
  <2>4. MaxFrames \in Nat /\ frames \in Nat /\ frames <= MaxFrames
    BY <2>1, MediaAssumption
  <2> DEFINE n == Len(rec[i].queue)
             m == rec[i].main
  <2>5. m \in Nat /\ n \in Nat /\ m + n <= taken[i]
    BY <2>1, <2>2
  <2> HIDE DEF m, n
  <2>6. m \in 0 .. MaxFrames
    BY <2>1, <2>3, <2>4, <2>5
  <2>. QED BY <2>6 DEF m
<1>2. \A i \in RecIds : /\ rec[i].status \in {"recording", "failed", "completed"}
                        /\ Len(rec[i].queue) <= QueueCap
  BY DEF RecInv, RecTyped, Recorder, Sound
<1>3. Recording!TypeOK
  BY <1>1, <1>2 DEF Recording!TypeOK, RecInv, RecTyped
<1>4. \A i \in RecIds : stopping[i] = "ok" =>
        rec[i].main = taken[i] /\ \A l \in RecLegs : rec[i].track[l] \in {Recording!NoTrack, rec[i].main}
  BY DEF RecInv, StopIsTrue, Whole
<1>5. Recording!TakenIsKept
  BY <1>4 DEF Recording!TakenIsKept, RecInv, LossIsOwned
<1>6. Recording!FailureToldOnce
  BY DEF Recording!FailureToldOnce, RecInv, Sound
<1>. QED BY <1>3, <1>5, <1>6 DEF RecInv

-------------------------------------------------------------------------------
(* The modules count with the Cardinality of one library.                        *)
LEMMA PromptsCount == \A S : Prompts!Cardinality(S) = Cardinality(S)
BY DEF Prompts!Cardinality, Cardinality

LEMMA AssetsCount == \A S : PlayedAssets!Cardinality(S) = Cardinality(S)
BY DEF PlayedAssets!Cardinality, Cardinality

-------------------------------------------------------------------------------
(* Prompts.  A generation is loaded or installed by one producer, and its end    *)
(* was not told as long as it may be.                                            *)

Loading == [gen: 1 .. MaxSeq, loop: BOOLEAN]
Playing == [gen: 1 .. MaxSeq, loop: BOOLEAN, left: 0 .. Length]
Sleeper == [gen: 0 .. MaxGens, seq: 0 .. Prompts!TopSeq, at: {"sleep", "bump"}]

PromptTyped ==
  /\ seq \in Nat /\ loading \subseteq Loading /\ prompt \subseteq Playing
  /\ \A p, q \in prompt : p = q
  /\ grace \in BOOLEAN /\ stop \in {"none", "later", "now"}
  /\ fade \in [total: {0, FadeFrames}, left: 0 .. FadeFrames]
  /\ handoffs \in 0 .. MaxGens /\ closed \in BOOLEAN
  /\ told \in [1 .. Prompts!TopSeq -> Nat] /\ shots \subseteq 1 .. MaxSeq /\ last \in Nat

\* What is left of the generations: a sleeper, a handoff and the closing have
\* one each.
Spare == Cardinality(sleepers) + (MaxGens - handoffs) + (IF closed THEN 0 ELSE 1)

SleepersFew ==
  /\ sleepers \subseteq Sleeper /\ IsFiniteSet(sleepers)
  /\ Cardinality(sleepers) <= MaxSleeps /\ seq + Spare <= Prompts!TopSeq

GensReached ==
  /\ last <= seq
  /\ \A g \in shots : g <= seq
  /\ \A x \in loading : x.gen <= seq
  /\ \A p \in prompt : p.gen <= seq

OneProducer ==
  /\ \A x, y \in loading : x.gen = y.gen => x = y
  /\ \A x \in loading, p \in prompt : x.gen # p.gen

Tellable ==
  /\ \A g \in 1 .. Prompts!TopSeq : told[g] <= IF g \in shots THEN 1 ELSE 0
  /\ \A x \in loading : told[x.gen] = 0 /\ (~x.loop => x.gen \in shots)
  /\ \A p \in prompt : ~p.loop => told[p.gen] = 0 /\ p.gen \in shots

PromptInv == PromptTyped /\ SleepersFew /\ GensReached /\ OneProducer /\ Tellable

LEMMA PromptNumbers ==
  /\ {MaxSeq, MaxSleeps, MaxGens, Length, FadeFrames} \subseteq Nat
  /\ Prompts!TopSeq = MaxSeq + MaxSleeps + MaxGens + 2 /\ Prompts!TopSeq \in Nat
  /\ 1 .. MaxSeq \subseteq 1 .. Prompts!TopSeq /\ 1 .. MaxSeq \subseteq Nat
<1>1. {MaxSeq, MaxSleeps, MaxGens, Length, FadeFrames} \subseteq Nat
  BY MediaAssumption
<1>2. Prompts!TopSeq = MaxSeq + MaxSleeps + MaxGens + 2
  BY DEF Prompts!TopSeq
<1>. QED BY <1>1, <1>2

\* Where the generation may be.
LEMMA SpareIs ==
  ASSUME PromptInv
  PROVE  /\ Cardinality(sleepers) \in Nat /\ Spare \in Nat
         /\ Cardinality(sleepers) + (MaxGens - handoffs) <= Spare
         /\ ~closed => Cardinality(sleepers) + (MaxGens - handoffs) + 1 = Spare
         /\ Spare <= MaxSleeps + MaxGens + 1
         /\ seq <= Prompts!TopSeq
<1>1. Cardinality(sleepers) \in Nat
  BY FS_CardinalityType DEF PromptInv, SleepersFew
<1>2. /\ handoffs \in Nat /\ handoffs <= MaxGens /\ Cardinality(sleepers) <= MaxSleeps /\ seq \in Nat
      /\ closed \in BOOLEAN /\ seq + Spare <= Prompts!TopSeq
  BY PromptNumbers DEF PromptInv, PromptTyped, SleepersFew
<1>. QED BY <1>1, <1>2, PromptNumbers DEF Spare

LEMMA PromptInitInv == Prompts!Init => PromptInv
<1> SUFFICES ASSUME Prompts!Init PROVE PromptInv
  OBVIOUS
<1> USE DEF Prompts!Init
<1>1. PromptTyped
  <2>1. Prompts!NoFade \in [total: {0, FadeFrames}, left: 0 .. FadeFrames] /\ 0 \in 0 .. MaxGens
    BY PromptNumbers DEF Prompts!NoFade
  <2>2. told \in [1 .. Prompts!TopSeq -> Nat]
    OBVIOUS
  <2>3. loading \subseteq Loading /\ prompt \subseteq Playing /\ shots \subseteq 1 .. MaxSeq
    OBVIOUS
  <2>. QED BY <2>1, <2>2, <2>3 DEF PromptTyped
<1>2. SleepersFew
  <2>1. Cardinality(sleepers) = 0 /\ IsFiniteSet(sleepers)
    BY FS_EmptySet
  <2>2. seq + Spare = MaxGens + 1
    BY <2>1, PromptNumbers DEF Spare
  <2>. QED BY <2>1, <2>2, PromptNumbers DEF SleepersFew
<1>3. GensReached /\ OneProducer /\ Tellable
  BY PromptNumbers DEF GensReached, OneProducer, Tellable
<1>. QED BY <1>1, <1>2, <1>3 DEF PromptInv

\* A generation that is new while calls may still make one.
LEMMA SleepersStay ==
  ASSUME PromptInv, seq' \in Nat, seq' <= MaxSeq + 1, UNCHANGED <<sleepers, handoffs, closed>>
  PROVE  SleepersFew'
<1>1. Spare' = Spare
  BY DEF Spare
<1>2. Spare \in Nat /\ Spare <= MaxSleeps + MaxGens + 1
  BY SpareIs
<1>3. seq' + Spare <= Prompts!TopSeq
  BY <1>2, PromptNumbers
<1>. QED BY <1>1, <1>3 DEF PromptInv, SleepersFew

LEMMA GenerationStep ==
  ASSUME PromptInv, NEW loop \in BOOLEAN, Prompts!Inject(loop) \/ (loop /\ Prompts!HoldMusic)
  PROVE  PromptInv'
<1> DEFINE n == seq + 1
           x == [gen |-> n, loop |-> loop]
<1>1. /\ seq < MaxSeq /\ seq' = n /\ loading' = loading \union {x}
      /\ shots' = IF loop THEN shots ELSE shots \union {n}
      /\ UNCHANGED <<prompt, ready, handoffs, sleepers, closed, told, last>>
      /\ (grace' = FALSE /\ stop' = "none" /\ fade' = Prompts!NoFade) \/ UNCHANGED <<grace, stop, fade>>
  <2>1. CASE Prompts!Inject(loop)
    BY <2>1 DEF Prompts!Inject, Prompts!Generation, Prompts!ClearHandoff
  <2>2. CASE loop /\ Prompts!HoldMusic
    BY <2>2 DEF Prompts!HoldMusic, Prompts!Generation, Prompts!handoffVars
  <2>. QED BY <2>1, <2>2
<1>2. seq \in Nat /\ n \in Nat /\ n \in 1 .. MaxSeq /\ n > seq
  BY <1>1, PromptNumbers DEF PromptInv, PromptTyped
<1>3. x \in Loading /\ x.gen = n /\ x.loop = loop
  BY <1>2 DEF Loading
<1> HIDE DEF x
<1>4. PromptTyped'
  <2>1. Prompts!NoFade \in [total: {0, FadeFrames}, left: 0 .. FadeFrames]
    BY PromptNumbers DEF Prompts!NoFade
  <2>. QED BY <1>1, <1>2, <1>3, <2>1 DEF PromptInv, PromptTyped
<1>5. SleepersFew'
  BY <1>1, <1>2, SleepersStay, PromptNumbers
<1>6. /\ \A g \in shots : g \in Nat /\ g <= seq
      /\ \A y \in loading : y.gen \in Nat /\ y.gen <= seq
      /\ \A p \in prompt : p.gen \in Nat /\ p.gen <= seq
      /\ last \in Nat /\ last <= seq
  BY PromptNumbers DEF PromptInv, PromptTyped, GensReached, Loading, Playing
<1>7. GensReached'
  BY <1>1, <1>2, <1>3, <1>6 DEF GensReached
<1>8. /\ n \notin shots /\ \A y \in loading : y.gen # n
      /\ \A p \in prompt : p.gen # n
  BY <1>2, <1>6
<1>9. OneProducer'
  BY <1>1, <1>3, <1>8 DEF PromptInv, OneProducer
<1>10. n \in 1 .. Prompts!TopSeq /\ told[n] = 0
  <2>1. n \in 1 .. Prompts!TopSeq
    BY <1>2, PromptNumbers
  <2>2. told[n] \in Nat /\ told[n] <= 0
    BY <1>8, <2>1 DEF PromptInv, PromptTyped, Tellable
  <2>. QED BY <2>1, <2>2
<1>11. Tellable'
  <2>1. \A g \in 1 .. Prompts!TopSeq : told[g] <= IF g \in shots' THEN 1 ELSE 0
    <3>1. ASSUME NEW g \in 1 .. Prompts!TopSeq PROVE told[g] <= IF g \in shots' THEN 1 ELSE 0
      <4>1. told[g] \in Nat /\ told[g] <= IF g \in shots THEN 1 ELSE 0
        BY DEF PromptInv, PromptTyped, Tellable
      <4>. QED BY <1>1, <4>1
    <3>. QED BY <3>1
  <2>2. \A y \in loading' : told[y.gen] = 0 /\ (~y.loop => y.gen \in shots')
    BY <1>1, <1>3, <1>10 DEF PromptInv, Tellable
  <2>3. \A p \in prompt : ~p.loop => told[p.gen] = 0 /\ p.gen \in shots'
    BY <1>1 DEF PromptInv, Tellable
  <2>. QED BY <1>1, <2>1, <2>2, <2>3 DEF Tellable
<1>. QED BY <1>4, <1>5, <1>7, <1>9, <1>11 DEF PromptInv

LEMMA PromptInstallStep ==
  ASSUME PromptInv, NEW x \in loading, Prompts!Install(x)
  PROVE  PromptInv'
<1> DEFINE p == [gen |-> x.gen, loop |-> x.loop, left |-> Length]
<1>1. /\ loading' = loading \ {x}
      /\ UNCHANGED <<seq, ready, grace, stop, fade, handoffs, sleepers, closed, told, last>>
      /\ \/ prompt' = {p} /\ UNCHANGED shots
         \/ UNCHANGED <<prompt, shots>>
         \/ shots' = shots \ {x.gen} /\ UNCHANGED prompt
  BY DEF Prompts!Install, Prompts!handoffVars
<1>2. /\ x.gen \in 1 .. MaxSeq /\ x.loop \in BOOLEAN /\ x.gen <= seq
      /\ told[x.gen] = 0 /\ (~x.loop => x.gen \in shots)
      /\ \A y \in loading' : y \in loading /\ y.gen # x.gen
      /\ \A q \in prompt : q.gen # x.gen
  BY <1>1 DEF PromptInv, PromptTyped, Loading, GensReached, OneProducer, Tellable
<1>3. p \in Playing /\ p.gen = x.gen /\ p.loop = x.loop
  BY <1>2, PromptNumbers DEF Playing
<1> HIDE DEF p
<1>4. PromptTyped'
  BY <1>1, <1>3 DEF PromptInv, PromptTyped
<1>5. SleepersFew'
  BY <1>1 DEF PromptInv, SleepersFew, Spare
<1>6. GensReached'
  BY <1>1, <1>2, <1>3 DEF PromptInv, GensReached
<1>7. OneProducer'
  BY <1>1, <1>2, <1>3 DEF PromptInv, OneProducer
<1>8. Tellable'
  <2>1. ASSUME NEW g \in 1 .. Prompts!TopSeq PROVE told[g] <= IF g \in shots' THEN 1 ELSE 0
    <3>1. told[g] \in Nat /\ told[g] <= IF g \in shots THEN 1 ELSE 0
      BY DEF PromptInv, PromptTyped, Tellable
    <3>. QED BY <1>1, <1>2, <3>1
  <2>2. \A y \in loading' : told[y.gen] = 0 /\ (~y.loop => y.gen \in shots')
    BY <1>1, <1>2 DEF PromptInv, Tellable
  <2>3. \A q \in prompt' : ~q.loop => told[q.gen] = 0 /\ q.gen \in shots'
    BY <1>1, <1>2, <1>3 DEF PromptInv, Tellable
  <2>. QED BY <1>1, <2>1, <2>2, <2>3 DEF Tellable
<1>. QED BY <1>4, <1>5, <1>6, <1>7, <1>8 DEF PromptInv

\* What the tick does to the fade.
LEMMA FadeIs ==
  ASSUME PromptInv
  PROVE  /\ Prompts!FadeLeft \in 0 .. FadeFrames
         /\ [fade EXCEPT !.left = IF Prompts!FadeLeft > 0 THEN Prompts!FadeLeft - 1 ELSE 0]
              \in [total: {0, FadeFrames}, left: 0 .. FadeFrames]
<1>1. /\ fade \in [total: {0, FadeFrames}, left: 0 .. FadeFrames] /\ FadeFrames \in Nat
  BY PromptNumbers DEF PromptInv, PromptTyped
<1>2. Prompts!FadeLeft \in 0 .. FadeFrames
  BY <1>1 DEF Prompts!FadeLeft
<1> DEFINE left == IF Prompts!FadeLeft > 0 THEN Prompts!FadeLeft - 1 ELSE 0
<1>3. left \in 0 .. FadeFrames
  BY <1>1, <1>2
<1> HIDE DEF left
<1>4. [fade EXCEPT !.left = left] \in [total: {0, FadeFrames}, left: 0 .. FadeFrames]
  BY <1>1, <1>3
<1>. QED BY <1>2, <1>4 DEF left

LEMMA PromptTickStep ==
  ASSUME PromptInv, Prompts!Tick
  PROVE  PromptInv'
<1>1. UNCHANGED <<loading, ready, handoffs, sleepers, closed, shots>>
  BY DEF Prompts!Tick
<1>2. PICK p \in prompt :
        \/ Prompts!Stale(p) /\ prompt' = {} /\ UNCHANGED <<seq, Prompts!handoffVars, told, last>>
        \/ ~Prompts!Stale(p) /\ ready /\ p.left > 0 /\ Prompts!PlayFrame(p)
        \/ /\ ~Prompts!Stale(p) /\ ready /\ p.left = 0
           /\ prompt' = Prompts!Rest(p) /\ Prompts!AtEnd(p)
           /\ UNCHANGED <<seq, Prompts!handoffVars, last>>
  BY DEF Prompts!Tick
<1>3. /\ p \in Playing /\ p.gen \in 1 .. MaxSeq /\ p.gen \in Nat /\ p.loop \in BOOLEAN /\ p.left \in 0 .. Length
      /\ p.gen <= seq /\ (~p.loop => told[p.gen] = 0 /\ p.gen \in shots)
      /\ \A x \in loading : x.gen # p.gen
      /\ seq \in Nat /\ last \in Nat /\ last <= seq /\ Length \in Nat
  BY PromptNumbers DEF PromptInv, PromptTyped, Playing, GensReached, OneProducer, Tellable
<1>4. CASE Prompts!Stale(p) /\ prompt' = {} /\ UNCHANGED <<seq, Prompts!handoffVars, told, last>>
  BY <1>1, <1>4 DEF Prompts!handoffVars, PromptInv, PromptTyped, SleepersFew, Spare, GensReached, OneProducer, Tellable
<1>5. CASE ~Prompts!Stale(p) /\ p.left > 0 /\ Prompts!PlayFrame(p)
  <2> DEFINE q == [p EXCEPT !.left = p.left - 1]
  <2>1. last' = seq /\ prompt' = {q} /\ told' = told
    BY <1>5 DEF Prompts!PlayFrame, Prompts!Stale
  <2>2. p.left - 1 \in 0 .. Length
    BY <1>3, <1>5
  <2>3. q \in Playing /\ q.gen = p.gen /\ q.loop = p.loop
    BY <1>3, <2>2 DEF Playing
  <2> HIDE DEF q
  <2>4. /\ seq' \in {seq, seq + 1} /\ seq <= MaxSeq
        /\ grace' \in BOOLEAN /\ stop' \in {"none", "later", "now"}
        /\ fade' \in [total: {0, FadeFrames}, left: 0 .. FadeFrames]
    <3>1. seq \in 1 .. MaxSeq
      BY <1>3, <1>5 DEF Prompts!Stale
    <3>2. Prompts!NoFade \in [total: {0, FadeFrames}, left: 0 .. FadeFrames]
      BY PromptNumbers DEF Prompts!NoFade
    <3>3. CASE seq' = seq + 1 /\ Prompts!ClearHandoff
      <4>1. seq \in Nat /\ seq <= MaxSeq
        BY <3>1, PromptNumbers
      <4>2. grace' = FALSE /\ stop' = "none" /\ fade' = Prompts!NoFade
        BY <3>3 DEF Prompts!ClearHandoff
      <4>. QED BY <3>2, <3>3, <4>1, <4>2
    <3>4. CASE /\ fade' = [fade EXCEPT !.left = IF Prompts!FadeLeft > 0 THEN Prompts!FadeLeft - 1 ELSE 0]
               /\ UNCHANGED <<seq, grace, stop>>
      <4>1. fade' \in [total: {0, FadeFrames}, left: 0 .. FadeFrames]
        BY <3>4, FadeIs
      <4>. QED BY <3>1, <3>4, <4>1, PromptNumbers DEF PromptInv, PromptTyped
    <3>. QED BY <1>5, <3>3, <3>4 DEF Prompts!PlayFrame
  <2>5. PromptTyped'
    BY <1>1, <1>3, <2>1, <2>3, <2>4 DEF PromptInv, PromptTyped
  <2>6. SleepersFew'
    <3>1. seq' \in Nat /\ seq' <= MaxSeq + 1
      BY <1>3, <2>4, PromptNumbers
    <3>. QED BY <1>1, <3>1, SleepersStay
  <2>7. GensReached'
    <3>1. seq <= seq' /\ seq' \in Nat
      BY <1>3, <2>4
    <3>2. /\ \A g \in shots : g \in Nat /\ g <= seq
          /\ \A y \in loading : y.gen \in Nat /\ y.gen <= seq
      BY PromptNumbers DEF PromptInv, PromptTyped, GensReached, Loading
    <3>. QED BY <1>1, <1>3, <2>1, <2>3, <3>1, <3>2 DEF GensReached
  <2>8. OneProducer' /\ Tellable'
    BY <1>1, <1>3, <2>1, <2>3 DEF PromptInv, OneProducer, Tellable
  <2>. QED BY <2>5, <2>6, <2>7, <2>8 DEF PromptInv
<1>6. CASE /\ prompt' = Prompts!Rest(p) /\ Prompts!AtEnd(p)
           /\ UNCHANGED <<seq, Prompts!handoffVars, last>>
  <2>1. /\ SleepersFew'
        /\ UNCHANGED <<seq, grace, stop, fade, last>>
    BY <1>1, <1>6 DEF Prompts!handoffVars, PromptInv, SleepersFew, Spare
  <2>2. CASE p.loop
    <3> DEFINE q == [p EXCEPT !.left = Length]
    <3>1. prompt' = {q} /\ told' = told
      BY <1>6, <2>2 DEF Prompts!Rest, Prompts!AtEnd
    <3>2. Length \in 0 .. Length
      BY <1>3
    <3>3. q \in Playing /\ q.gen = p.gen /\ q.loop = p.loop
      BY <1>3, <3>2 DEF Playing
    <3> HIDE DEF q
    <3>4. PromptTyped'
      BY <1>1, <2>1, <3>1, <3>3 DEF PromptInv, PromptTyped
    <3>5. GensReached' /\ OneProducer' /\ Tellable'
      BY <1>1, <1>3, <2>1, <2>2, <3>1, <3>3 DEF PromptInv, GensReached, OneProducer, Tellable
    <3>. QED BY <2>1, <3>4, <3>5 DEF PromptInv
  <2>3. CASE ~p.loop
    <3>1. prompt' = {} /\ told' = [told EXCEPT ![p.gen] = @ + 1]
      BY <1>6, <2>3 DEF Prompts!Rest, Prompts!AtEnd, Prompts!Tell
    <3>2. p.gen \in 1 .. Prompts!TopSeq /\ told \in [1 .. Prompts!TopSeq -> Nat]
      BY <1>3, PromptNumbers DEF PromptInv, PromptTyped
    <3>3. /\ told' \in [1 .. Prompts!TopSeq -> Nat] /\ told'[p.gen] = 1
          /\ \A g \in 1 .. Prompts!TopSeq : g # p.gen => told'[g] = told[g]
      BY <1>3, <2>3, <3>1, <3>2
    <3>4. PromptTyped'
      BY <1>1, <2>1, <3>1, <3>3 DEF PromptInv, PromptTyped
    <3>5. GensReached' /\ OneProducer'
      BY <1>1, <2>1, <3>1 DEF PromptInv, GensReached, OneProducer
    <3>6. \A x \in loading : x.gen \in 1 .. Prompts!TopSeq
      BY PromptNumbers DEF PromptInv, PromptTyped, Loading
    <3>7. Tellable'
      <4>1. \A g \in 1 .. Prompts!TopSeq : told'[g] <= IF g \in shots THEN 1 ELSE 0
        BY <1>3, <2>3, <3>3 DEF PromptInv, Tellable
      <4>2. \A x \in loading : told'[x.gen] = 0 /\ (~x.loop => x.gen \in shots)
        BY <1>3, <3>3, <3>6 DEF PromptInv, Tellable
      <4>. QED BY <1>1, <3>1, <4>1, <4>2 DEF Tellable
    <3>. QED BY <2>1, <3>4, <3>5, <3>7 DEF PromptInv
  <2>. QED BY <2>2, <2>3
<1>. QED BY <1>2, <1>4, <1>5, <1>6

\* A step that leaves the producers and what they made.
LEMMA PromptsStay ==
  ASSUME PromptInv, SleepersFew', seq' \in Nat, seq <= seq',
         prompt' = prompt \/ prompt' = {}, UNCHANGED <<loading, told, shots, last>>,
         grace' \in BOOLEAN, stop' \in {"none", "later", "now"}, closed' \in BOOLEAN, handoffs' \in 0 .. MaxGens,
         fade' \in [total: {0, FadeFrames}, left: 0 .. FadeFrames]
  PROVE  PromptInv'
<1>1. PromptTyped'
  BY DEF PromptInv, PromptTyped
<1>2. GensReached'
  <2>1. /\ \A g \in shots : g \in Nat /\ g <= seq
        /\ \A y \in loading : y.gen \in Nat /\ y.gen <= seq
        /\ \A p \in prompt : p.gen \in Nat /\ p.gen <= seq
        /\ last \in Nat /\ last <= seq /\ seq \in Nat
    BY PromptNumbers DEF PromptInv, PromptTyped, GensReached, Loading, Playing
  <2>. QED BY <2>1 DEF GensReached
<1>3. OneProducer' /\ Tellable'
  BY DEF PromptInv, OneProducer, Tellable
<1>. QED BY <1>1, <1>2, <1>3 DEF PromptInv

LEMMA HandoffStep ==
  ASSUME PromptInv, \/ Prompts!Unhold \/ Prompts!GetReady \/ Prompts!Handoff \/ Prompts!GraceEnds
                    \/ Prompts!StopInjected \/ Prompts!CloseRoom
                    \/ \E x \in sleepers : Prompts!SleeperChecks(x) \/ Prompts!SleeperBumps(x)
  PROVE  PromptInv'
<1> USE DEF Prompts!handoffVars
<1>1. /\ seq \in Nat /\ handoffs \in 0 .. MaxGens /\ handoffs \in Nat /\ closed \in BOOLEAN /\ grace \in BOOLEAN
      /\ stop \in {"none", "later", "now"}
      /\ fade \in [total: {0, FadeFrames}, left: 0 .. FadeFrames]
      /\ sleepers \subseteq Sleeper /\ IsFiniteSet(sleepers) /\ Cardinality(sleepers) <= MaxSleeps
      /\ seq + Spare <= Prompts!TopSeq
  BY PromptNumbers DEF PromptInv, PromptTyped, SleepersFew
<1>2. /\ Cardinality(sleepers) \in Nat /\ Spare \in Nat
      /\ Cardinality(sleepers) + (MaxGens - handoffs) <= Spare
      /\ ~closed => Cardinality(sleepers) + (MaxGens - handoffs) + 1 = Spare
      /\ Spare <= MaxSleeps + MaxGens + 1 /\ seq <= Prompts!TopSeq
  BY SpareIs
<1>3. CASE Prompts!Unhold
  <2>1. seq' = seq + 1 /\ seq < MaxSeq
        /\ UNCHANGED <<loading, prompt, ready, grace, stop, fade, handoffs, sleepers, closed, told, shots, last>>
    BY <1>3 DEF Prompts!Unhold
  <2>2. seq' \in Nat /\ seq' <= MaxSeq + 1 /\ seq <= seq'
    BY <1>1, <2>1, PromptNumbers
  <2>3. SleepersFew'
    BY <2>1, <2>2, SleepersStay
  <2>. QED BY <1>1, <2>1, <2>2, <2>3, PromptsStay
<1>4. CASE Prompts!GetReady \/ Prompts!GraceEnds
  <2>1. /\ UNCHANGED <<seq, loading, prompt, fade, handoffs, sleepers, closed, told, shots, last>>
        /\ grace' \in BOOLEAN /\ stop' \in {"none", "later", "now"}
    BY <1>1, <1>4 DEF Prompts!GetReady, Prompts!GraceEnds
  <2>2. SleepersFew'
    BY <2>1 DEF PromptInv, SleepersFew, Spare
  <2>. QED BY <1>1, <2>1, <2>2, PromptsStay
\* One sleeper more.
<1>5. ASSUME NEW x \in Sleeper, sleepers' = sleepers \union {x}, Cardinality(sleepers) < MaxSleeps
      PROVE  /\ sleepers' \subseteq Sleeper /\ IsFiniteSet(sleepers') /\ Cardinality(sleepers') <= MaxSleeps
             /\ Cardinality(sleepers') \in Nat /\ Cardinality(sleepers') <= Cardinality(sleepers) + 1
  <2>1. /\ IsFiniteSet(sleepers')
        /\ Cardinality(sleepers') = IF x \in sleepers THEN Cardinality(sleepers) ELSE Cardinality(sleepers) + 1
    BY <1>1, <1>5, FS_AddElement
  <2>. QED BY <1>1, <1>2, <1>5, <2>1, PromptNumbers
<1>6. CASE Prompts!Handoff
  <2> DEFINE x == [gen |-> handoffs + 1, seq |-> seq, at |-> "sleep"]
             f == [total |-> FadeFrames, left |-> 0]
  <2>1. /\ ~closed /\ handoffs < MaxGens /\ Cardinality(sleepers) < MaxSleeps /\ handoffs' = handoffs + 1
        /\ grace' = TRUE /\ stop' = "later" /\ fade' = f /\ sleepers' = sleepers \union {x}
        /\ UNCHANGED <<seq, loading, prompt, ready, closed, told, shots, last>>
    BY <1>6, PromptsCount DEF Prompts!Handoff
  <2>2. handoffs + 1 \in 0 .. MaxGens /\ seq \in 0 .. Prompts!TopSeq
    BY <1>1, <1>2, <2>1, PromptNumbers
  <2>3. x \in Sleeper /\ f \in [total: {0, FadeFrames}, left: 0 .. FadeFrames]
    BY <2>2, PromptNumbers DEF Sleeper
  <2> HIDE DEF x, f
  <2>4. /\ sleepers' \subseteq Sleeper /\ IsFiniteSet(sleepers') /\ Cardinality(sleepers') <= MaxSleeps
        /\ Cardinality(sleepers') \in Nat /\ Cardinality(sleepers') <= Cardinality(sleepers) + 1
    BY <1>5, <2>1, <2>3
  <2>5. Spare' = Cardinality(sleepers') + (MaxGens - (handoffs + 1)) + 1
    BY <2>1 DEF Spare
  <2>6. seq' + Spare' <= Prompts!TopSeq
    BY <1>1, <1>2, <2>1, <2>4, <2>5, PromptNumbers
  <2>7. SleepersFew'
    BY <2>4, <2>6 DEF SleepersFew
  <2>. QED BY <1>1, <2>1, <2>2, <2>3, <2>7, PromptsStay
<1>7. CASE Prompts!StopInjected
  <2> DEFINE x == [gen |-> Prompts!AnyGen, seq |-> seq, at |-> "sleep"]
             left == IF fade.left = 0 THEN FadeFrames ELSE fade.left
             f == [total |-> FadeFrames, left |-> left]
  <2>1. /\ ~closed /\ seq < MaxSeq /\ Cardinality(sleepers) < MaxSleeps
        /\ grace' = FALSE /\ stop' = "now" /\ fade' = f /\ sleepers' = sleepers \union {x}
        /\ UNCHANGED <<seq, loading, prompt, ready, handoffs, closed, told, shots, last>>
    BY <1>7, PromptsCount DEF Prompts!StopInjected
  <2>2. seq \in 0 .. Prompts!TopSeq /\ 0 \in 0 .. MaxGens /\ left \in 0 .. FadeFrames
    BY <1>1, <1>2, PromptNumbers
  <2> HIDE DEF left
  <2>3. x \in Sleeper /\ f \in [total: {0, FadeFrames}, left: 0 .. FadeFrames]
    BY <2>2, PromptNumbers DEF Sleeper, Prompts!AnyGen
  <2> HIDE DEF x, f
  <2>4. /\ sleepers' \subseteq Sleeper /\ IsFiniteSet(sleepers') /\ Cardinality(sleepers') <= MaxSleeps
        /\ Cardinality(sleepers') \in Nat
    BY <1>5, <2>1, <2>3
  <2>5. Spare' = Cardinality(sleepers') + (MaxGens - handoffs) + 1
    BY <2>1 DEF Spare
  <2>6. seq' + Spare' <= Prompts!TopSeq
    BY <1>1, <2>1, <2>4, <2>5, PromptNumbers
  <2>7. SleepersFew'
    BY <2>4, <2>6 DEF SleepersFew
  <2>8. /\ seq' \in Nat /\ seq <= seq' /\ prompt' = prompt /\ UNCHANGED <<loading, told, shots, last>>
        /\ grace' \in BOOLEAN /\ stop' \in {"none", "later", "now"}
    <3>1. seq \in Nat
      BY <1>1
    <3>2. seq' = seq /\ prompt' = prompt /\ UNCHANGED <<loading, told, shots, last>>
      BY <2>1
    <3>3. grace' = FALSE
      BY <2>1
    <3>4. stop' = "now"
      BY <2>1
    <3>5. seq' \in Nat /\ seq <= seq'
      BY <3>1, <3>2
    <3>6. grace' \in BOOLEAN
      BY <3>3
    <3>7. stop' \in {"none", "later", "now"}
      BY <3>4
    <3>. QED BY <3>2, <3>5, <3>6, <3>7
  <2>9. closed' \in BOOLEAN /\ handoffs' \in 0 .. MaxGens
    BY <2>1 DEF PromptInv, PromptTyped
  <2>10. fade' \in [total: {0, FadeFrames}, left: 0 .. FadeFrames]
    BY <2>1, <2>3
  <2>. QED BY <2>7, <2>8, <2>9, <2>10, PromptsStay
<1>8. CASE Prompts!CloseRoom
  <2>1. /\ ~closed /\ closed' = TRUE /\ seq' = seq + 1 /\ prompt' = {}
        /\ UNCHANGED <<loading, ready, grace, stop, fade, handoffs, sleepers, told, shots, last>>
    BY <1>8 DEF Prompts!CloseRoom
  <2>2. Spare' = Cardinality(sleepers) + (MaxGens - handoffs) + 0
    BY <2>1 DEF Spare
  <2>3. seq' + Spare' <= Prompts!TopSeq /\ seq' \in Nat /\ seq <= seq'
    BY <1>1, <1>2, <2>1, <2>2, PromptNumbers
  <2>4. SleepersFew'
    BY <1>1, <2>1, <2>3 DEF SleepersFew
  <2>. QED BY <1>1, <2>1, <2>3, <2>4, PromptsStay
<1>9. ASSUME NEW x \in sleepers, Prompts!SleeperChecks(x) \/ Prompts!SleeperBumps(x)
      PROVE  PromptInv'
  <2> DEFINE less == sleepers \ {x}
             y == [x EXCEPT !.at = "bump"]
  <2>1. /\ IsFiniteSet(less) /\ Cardinality(less) = Cardinality(sleepers) - 1
        /\ less \subseteq Sleeper
    BY <1>1, FS_RemoveElement
  <2>2. y \in Sleeper
    BY <1>1 DEF Sleeper
  <2>3. /\ IsFiniteSet(less \union {y}) /\ less \union {y} \subseteq Sleeper
        /\ Cardinality(less \union {y}) <= Cardinality(sleepers) /\ Cardinality(less \union {y}) \in Nat
    <3> HIDE DEF less, y
    <3>1. /\ IsFiniteSet(less \union {y})
          /\ Cardinality(less \union {y}) = IF y \in less THEN Cardinality(less) ELSE Cardinality(less) + 1
      BY <2>1, FS_AddElement
    <3>2. Cardinality(less \union {y}) \in Nat
      BY <3>1, FS_CardinalityType
    <3>. QED BY <1>2, <2>1, <2>2, <3>1, <3>2
  <2> HIDE DEF y
  <2>4. CASE Prompts!SleeperChecks(x)
    <3>1. /\ sleepers' \in {less, less \union {y}}
          /\ UNCHANGED <<seq, loading, prompt, ready, grace, stop, fade, handoffs, closed, told, shots, last>>
      BY <2>4 DEF Prompts!SleeperChecks, y
    <3> HIDE DEF less
    <3>2. /\ IsFiniteSet(sleepers') /\ sleepers' \subseteq Sleeper /\ Cardinality(sleepers') \in Nat
          /\ Cardinality(sleepers') <= Cardinality(sleepers)
      <4>1. Cardinality(less) \in Nat
        BY <2>1, FS_CardinalityType
      <4>2. CASE sleepers' = less
        BY <1>2, <2>1, <4>1, <4>2
      <4>3. CASE sleepers' = less \union {y}
        BY <2>3, <4>3
      <4>. QED BY <3>1, <4>2, <4>3
    <3>3. Spare' = Cardinality(sleepers') + (MaxGens - handoffs) + (IF closed THEN 0 ELSE 1)
      BY <3>1 DEF Spare
    <3>4. Spare' <= Spare /\ Spare' \in Nat
      BY <1>1, <1>2, <3>2, <3>3, PromptNumbers DEF Spare
    <3>5. seq' + Spare' <= Prompts!TopSeq /\ Cardinality(sleepers') <= MaxSleeps
      BY <1>1, <1>2, <3>1, <3>2, <3>4, PromptNumbers
    <3>6. SleepersFew'
      BY <3>2, <3>5 DEF SleepersFew
    <3>7. seq' \in Nat /\ seq <= seq'
      BY <1>1, <3>1
    <3>. QED BY <1>1, <3>1, <3>6, <3>7, PromptsStay
  <2>5. CASE Prompts!SleeperBumps(x)
    <3>1. /\ sleepers' = less /\ seq' = seq + 1
          /\ grace' = FALSE /\ stop' = "none" /\ fade' = Prompts!NoFade
          /\ UNCHANGED <<loading, prompt, ready, handoffs, closed, told, shots, last>>
      BY <2>5 DEF Prompts!SleeperBumps, Prompts!ClearHandoff
    <3> HIDE DEF less
    <3>2. fade' \in [total: {0, FadeFrames}, left: 0 .. FadeFrames]
      BY <3>1, PromptNumbers DEF Prompts!NoFade
    <3>3. Spare' = Cardinality(sleepers) - 1 + (MaxGens - handoffs) + (IF closed THEN 0 ELSE 1)
      BY <2>1, <3>1 DEF Spare
    <3>4. Spare' = Spare - 1
      BY <1>1, <1>2, <3>3, PromptNumbers DEF Spare
    <3>5. seq' + Spare' <= Prompts!TopSeq /\ Cardinality(sleepers') <= MaxSleeps /\ seq' \in Nat /\ seq <= seq'
      BY <1>1, <1>2, <2>1, <3>1, <3>4, PromptNumbers
    <3>6. SleepersFew'
      BY <2>1, <3>1, <3>5 DEF SleepersFew
    <3>. QED BY <1>1, <3>1, <3>2, <3>5, <3>6, PromptsStay
  <2>. QED BY <1>9, <2>4, <2>5
<1>. QED BY <1>3, <1>4, <1>6, <1>7, <1>8, <1>9

LEMMA PromptInductive ==
  ASSUME PromptInv, [Prompts!Next]_promptVars
  PROVE  PromptInv'
<1>1. CASE UNCHANGED promptVars
  BY <1>1 DEF promptVars, PromptInv, PromptTyped, SleepersFew, Spare, GensReached, OneProducer, Tellable
<1>2. CASE Prompts!Next
  <2>1. CASE Prompts!HoldMusic
    BY <2>1, GenerationStep
  <2>. QED BY <1>2, <2>1, GenerationStep, PromptInstallStep, PromptTickStep, HandoffStep DEF Prompts!Next
<1>. QED BY <1>1, <1>2

\* What the invariant says of prompts.
LEMMA PromptOK == PromptInv => Prompts!TypeOK /\ Prompts!ToldOnce
<1> SUFFICES ASSUME PromptInv PROVE Prompts!TypeOK /\ Prompts!ToldOnce
  OBVIOUS
<1>1. seq \in 0 .. Prompts!TopSeq /\ last \in 0 .. Prompts!TopSeq
  <2>1. seq \in Nat /\ last \in Nat /\ last <= seq
    BY DEF PromptInv, PromptTyped, GensReached
  <2>2. seq <= Prompts!TopSeq /\ Prompts!TopSeq \in Nat
    BY SpareIs, PromptNumbers
  <2>. QED BY <2>1, <2>2
<1>2. Cardinality(prompt) <= 1
  <2>1. CASE prompt = {}
    BY <2>1, FS_EmptySet
  <2>2. CASE prompt # {}
    <3>1. PICK p : p \in prompt
      BY <2>2
    <3>2. \A q \in prompt : q = p
      BY <3>1 DEF PromptInv, PromptTyped
    <3>3. prompt = {p}
      BY <3>1, <3>2
    <3>4. Cardinality({p}) = 1
      BY FS_Singleton
    <3>. QED BY <3>3, <3>4
  <2>. QED BY <2>1, <2>2
<1>3. Prompts!TypeOK
  BY <1>1, <1>2, PromptsCount DEF PromptInv, PromptTyped, SleepersFew, Loading, Playing, Sleeper, Prompts!TypeOK
<1>4. Prompts!ToldOnce
  BY DEF PromptInv, Tellable, Prompts!ToldOnce
<1>. QED BY <1>3, <1>4

\* A prompt that plays is of the generation that counts.
LEMMA PromptForward ==
  ASSUME PromptInv, [Prompts!Next]_promptVars
  PROVE  last' >= last /\ (last' # last => last' = seq)
<1>1. last \in Nat /\ seq \in Nat /\ last <= seq
  BY DEF PromptInv, PromptTyped, GensReached
<1>2. last' = last \/ last' = seq
  <2>1. CASE Prompts!Tick
    BY <2>1 DEF Prompts!Tick, Prompts!PlayFrame, Prompts!Stale
  <2>2. CASE UNCHANGED promptVars
    BY <2>2 DEF promptVars
  <2>. QED BY <2>1, <2>2 DEF Prompts!Next, Prompts!Inject, Prompts!HoldMusic, Prompts!Generation, Prompts!Install,
        Prompts!SleeperChecks, Prompts!SleeperBumps, Prompts!Unhold, Prompts!GetReady, Prompts!Handoff,
        Prompts!GraceEnds, Prompts!StopInjected, Prompts!CloseRoom
<1>. QED BY <1>1, <1>2

-------------------------------------------------------------------------------
(* Audio of applications.  What waits is of the generation that speaks, and of   *)
(* that one the frames pulled and those that wait are the frames accepted; of a  *)
(* later generation nothing was accepted or told.                                *)

Session == [at: {"none", "open", "done", "gone"}, gen: Audio!Gens, pcm: Seq(Audio!Gens), pulled: Nat,
            finished: BOOLEAN, drain: BOOLEAN, completed: BOOLEAN]

\* One session, with the frames accepted and the ends told of its generations.
Speaks(s, acc, end) ==
  /\ Len(s.pcm) <= OutputCap /\ \A i \in DOMAIN s.pcm : s.pcm[i] = s.gen
  /\ s.at \in {"none", "open"} => s.pulled + Len(s.pcm) = acc[s.gen]
  /\ \A g \in Audio!Gens : g > s.gen => acc[g] = 0 /\ end[g] = 0
  /\ \A g \in Audio!Gens : end[g] <= 1
  /\ s.completed => s.finished /\ s.pcm = <<>>
  /\ ~s.completed => end[s.gen] = 0

AudioInv ==
  /\ streams \in [AudioLegs -> Session]
  /\ accepted \in [AudioLegs -> [Audio!Gens -> Nat]] /\ ended \in [AudioLegs -> [Audio!Gens -> Nat]]
  /\ events \in [AudioLegs -> Seq(Audio!Gens)]
  /\ \A l \in AudioLegs : Len(events[l]) <= EventCap /\ Speaks(streams[l], accepted[l], ended[l])

LEMMA AudioInitInv == Audio!Init => AudioInv
<1> SUFFICES ASSUME Audio!Init PROVE AudioInv
  OBVIOUS
<1> USE DEF Audio!Init
<1>1. 1 \in Audio!Gens /\ \A g \in Audio!Gens : g \in Nat
  BY MediaAssumption DEF Audio!Gens
<1>2. Audio!NoStream \in Session
  BY <1>1 DEF Audio!NoStream, Session
<1>3. /\ streams \in [AudioLegs -> Session]
      /\ accepted \in [AudioLegs -> [Audio!Gens -> Nat]] /\ ended \in [AudioLegs -> [Audio!Gens -> Nat]]
      /\ events \in [AudioLegs -> Seq(Audio!Gens)]
  BY <1>2
<1>4. ASSUME NEW l \in AudioLegs
      PROVE  Len(events[l]) <= EventCap /\ Speaks(streams[l], accepted[l], ended[l])
  <2>1. Len(<<>>) = 0 /\ 0 <= EventCap /\ 0 <= OutputCap
    BY MediaAssumption
  <2>. QED BY <1>1, <2>1 DEF Speaks, Audio!NoStream
<1>. QED BY <1>3, <1>4 DEF AudioInv

\* A step of one leg.
LEMMA OneLegSpeaks ==
  ASSUME AudioInv, NEW l \in AudioLegs, NEW s \in Session, NEW acc \in [Audio!Gens -> Nat],
         NEW end \in [Audio!Gens -> Nat], NEW q \in Seq(Audio!Gens), Len(q) <= EventCap, Speaks(s, acc, end),
         streams' = [streams EXCEPT ![l] = s], accepted' = [accepted EXCEPT ![l] = acc],
         ended' = [ended EXCEPT ![l] = end], events' = [events EXCEPT ![l] = q]
  PROVE  AudioInv'
<1>1. /\ streams' \in [AudioLegs -> Session] /\ accepted' \in [AudioLegs -> [Audio!Gens -> Nat]]
      /\ ended' \in [AudioLegs -> [Audio!Gens -> Nat]] /\ events' \in [AudioLegs -> Seq(Audio!Gens)]
      /\ \A m \in AudioLegs : /\ streams'[m] = IF m = l THEN s ELSE streams[m]
                              /\ accepted'[m] = IF m = l THEN acc ELSE accepted[m]
                              /\ ended'[m] = IF m = l THEN end ELSE ended[m]
                              /\ events'[m] = IF m = l THEN q ELSE events[m]
  BY DEF AudioInv
<1>2. \A m \in AudioLegs : Len(events'[m]) <= EventCap /\ Speaks(streams'[m], accepted'[m], ended'[m])
  BY <1>1 DEF AudioInv
<1>. QED BY <1>1, <1>2 DEF AudioInv

\* A step of the session of one leg.
LEMMA SessionSpeaks ==
  ASSUME AudioInv, NEW l \in AudioLegs, NEW s \in Session, Speaks(s, accepted[l], ended[l]),
         streams' = [streams EXCEPT ![l] = s], UNCHANGED <<accepted, events, ended>>
  PROVE  AudioInv'
<1>1. /\ accepted[l] \in [Audio!Gens -> Nat] /\ ended[l] \in [Audio!Gens -> Nat]
      /\ events[l] \in Seq(Audio!Gens) /\ Len(events[l]) <= EventCap
  BY DEF AudioInv
<1>2. /\ accepted' = [accepted EXCEPT ![l] = accepted[l]] /\ ended' = [ended EXCEPT ![l] = ended[l]]
      /\ events' = [events EXCEPT ![l] = events[l]]
  BY DEF AudioInv
<1>. QED BY <1>1, <1>2, OneLegSpeaks

\* A session that ends leaves nothing to play.
LEMMA EndedSpeaks ==
  ASSUME NEW s \in Session, NEW acc, NEW end, Speaks(s, acc, end), NEW at \in {"done", "gone"}
  PROVE  LET e == [Audio!Ended(s) EXCEPT !.at = at] IN
         /\ e \in Session /\ Speaks(e, acc, end) /\ e.at = at
         /\ Audio!Ended(s) \in Session /\ Speaks(Audio!Ended(s), acc, end)
         /\ Audio!Ended(s).at = "done"
<1> DEFINE d == Audio!Ended(s)
           e == [d EXCEPT !.at = at]
<1>0. <<>> \in Seq(Audio!Gens)
  OBVIOUS
<1>1. /\ d \in Session /\ d.at = "done" /\ d.gen = s.gen /\ d.pcm = <<>> /\ d.finished
      /\ d.completed = s.completed /\ d.drain = s.drain /\ d.pulled = s.pulled
  BY <1>0 DEF Audio!Ended, Session
<1> HIDE DEF d
<1>2. /\ e \in Session /\ e.at = at /\ e.gen = s.gen /\ e.pcm = <<>> /\ e.finished /\ e.completed = s.completed
  BY <1>1 DEF Session
<1>3. Len(<<>>) = 0 /\ 0 <= OutputCap
  BY MediaAssumption
<1>4. ASSUME NEW x, x.at \notin {"none", "open"}, x.gen = s.gen, x.pcm = <<>>, x.finished, x.completed = s.completed
      PROVE  Speaks(x, acc, end)
  BY <1>3, <1>4 DEF Speaks
<1> HIDE DEF e
<1>5. Speaks(d, acc, end) /\ Speaks(e, acc, end)
  BY <1>1, <1>2, <1>4
<1>. QED BY <1>1, <1>2, <1>5 DEF d, e

LEMMA WriteStep ==
  ASSUME AudioInv, NEW l \in AudioLegs, NEW g \in Audio!Gens, Audio!Write(l, g)
  PROVE  AudioInv'
<1> DEFINE s == streams[l]
           acc == accepted[l]
           t == [s EXCEPT !.pcm = Append(@, g)]
           more == [acc EXCEPT ![g] = @ + 1]
<1>1. /\ s \in Session /\ Speaks(s, acc, ended[l]) /\ acc \in [Audio!Gens -> Nat]
      /\ ended[l] \in [Audio!Gens -> Nat] /\ events[l] \in Seq(Audio!Gens) /\ Len(events[l]) <= EventCap
  BY DEF AudioInv
<1>2. /\ s.at = "open" /\ g = s.gen /\ ~s.finished /\ Len(s.pcm) < OutputCap
      /\ streams' = [streams EXCEPT ![l] = t] /\ accepted' = [accepted EXCEPT ![l] = more]
      /\ UNCHANGED <<events, ended>>
  BY DEF Audio!Write, Audio!Takes, Audio!Stream, AudioInv
<1>3. /\ s.pcm \in Seq(Audio!Gens) /\ Len(s.pcm) \in Nat /\ Append(s.pcm, g) \in Seq(Audio!Gens)
      /\ Len(Append(s.pcm, g)) = Len(s.pcm) + 1 /\ s.pulled \in Nat
      /\ \A i \in DOMAIN Append(s.pcm, g) : Append(s.pcm, g)[i] = s.gen
  <2>1. s.pcm \in Seq(Audio!Gens) /\ s.pulled \in Nat /\ \A i \in DOMAIN s.pcm : s.pcm[i] = s.gen
    BY <1>1 DEF Session, Speaks
  <2> DEFINE q == s.pcm
  <2>2. q \in Seq(Audio!Gens) /\ \A i \in DOMAIN q : q[i] = g
    BY <1>2, <2>1
  <2> HIDE DEF s, q
  <2>3. /\ Append(q, g) \in Seq(Audio!Gens) /\ Len(q) \in Nat /\ Len(Append(q, g)) = Len(q) + 1
        /\ \A i \in DOMAIN Append(q, g) : Append(q, g)[i] = g
    BY <2>2
  <2>. QED BY <1>2, <2>1, <2>3 DEF q
<1>4. /\ t \in Session /\ t.pcm = Append(s.pcm, g) /\ t.at = "open" /\ t.gen = s.gen /\ t.pulled = s.pulled
      /\ t.completed = s.completed /\ ~s.completed
  BY <1>1, <1>2, <1>3 DEF Session, Speaks
<1>5. /\ more \in [Audio!Gens -> Nat] /\ more[g] = acc[g] + 1 /\ acc[g] \in Nat
      /\ \A h \in Audio!Gens : h # g => more[h] = acc[h]
  BY <1>1
<1>6. s.pulled + Len(s.pcm) = acc[g]
  BY <1>1, <1>2 DEF Speaks
<1>7. \A h \in Audio!Gens : h > s.gen => h # g
  BY <1>2 DEF Audio!Gens
<1> HIDE DEF t, more
<1>8. Len(t.pcm) <= OutputCap /\ t.pulled + Len(t.pcm) = more[t.gen]
  <2>1. OutputCap \in Nat
    BY MediaAssumption
  <2>2. Len(t.pcm) = Len(s.pcm) + 1 /\ t.pulled = s.pulled /\ more[t.gen] = acc[g] + 1
    BY <1>2, <1>3, <1>4, <1>5
  <2>3. Len(s.pcm) \in Nat /\ s.pulled \in Nat /\ acc[g] \in Nat /\ Len(s.pcm) < OutputCap
    BY <1>2, <1>3, <1>5
  <2> HIDE DEF s, acc
  <2>. QED BY <1>6, <2>1, <2>2, <2>3
<1>9. Speaks(t, more, ended[l])
  BY <1>1, <1>3, <1>4, <1>5, <1>7, <1>8 DEF Speaks
<1>10. ended' = [ended EXCEPT ![l] = ended[l]] /\ events' = [events EXCEPT ![l] = events[l]]
  BY <1>2 DEF AudioInv
<1>. QED BY <1>1, <1>2, <1>4, <1>5, <1>9, <1>10, OneLegSpeaks

LEMMA ClearStep ==
  ASSUME AudioInv, NEW l \in AudioLegs, NEW g \in Audio!Gens, Audio!Clear(l, g)
  PROVE  AudioInv'
<1> DEFINE s == streams[l]
           t == Audio!Cleared(s, g)
<1>1. /\ s \in Session /\ Speaks(s, accepted[l], ended[l])
      /\ g > s.gen /\ streams' = [streams EXCEPT ![l] = t] /\ UNCHANGED <<accepted, events, ended>>
  BY DEF Audio!Clear, Audio!Stream, AudioInv
<1>0. <<>> \in Seq(Audio!Gens) /\ 0 \in Nat
  OBVIOUS
<1>2. /\ t \in Session /\ t.gen = g /\ t.pcm = <<>> /\ t.pulled = 0 /\ ~t.completed
  BY <1>0, <1>1 DEF Audio!Cleared, Session
<1> HIDE DEF t
<1>3. accepted[l][g] = 0 /\ ended[l][g] = 0 /\ \A h \in Audio!Gens : h > g => h > s.gen
  BY <1>1 DEF Speaks, Session, Audio!Gens
<1>4. Len(<<>>) = 0 /\ 0 <= OutputCap /\ DOMAIN <<>> = {}
  BY MediaAssumption
<1>5. Speaks(t, accepted[l], ended[l])
  BY <1>1, <1>2, <1>3, <1>4 DEF Speaks
<1>. QED BY <1>1, <1>2, <1>5, SessionSpeaks

\* What a leg pulls: nothing, a frame, the end of the generation or the end of the session.
LEMMA PullStep ==
  ASSUME AudioInv, NEW l \in AudioLegs, NEW s \in Session, Speaks(s, accepted[l], ended[l]),
         Audio!PullOutput(l, s), accepted' = accepted
  PROVE  AudioInv'
<1> DEFINE p == Audio!Pulled(s)
<1>1. /\ p \in Session /\ Speaks(p, accepted[l], ended[l])
  <2>1. CASE s.pcm = <<>>
    BY <2>1 DEF Audio!Pulled
  <2>2. CASE s.pcm # <<>>
    <3>1. /\ s.pcm \in Seq(Audio!Gens) /\ Len(s.pcm) \in Nat /\ Tail(s.pcm) \in Seq(Audio!Gens)
          /\ Len(Tail(s.pcm)) = Len(s.pcm) - 1 /\ s.pulled \in Nat /\ s.pulled + 1 \in Nat
      BY <2>2 DEF Session
    <3>2. \A i \in DOMAIN Tail(s.pcm) : Tail(s.pcm)[i] = s.gen
      BY <2>2, <3>1 DEF Speaks
    <3>3. /\ p \in Session /\ p.pcm = Tail(s.pcm) /\ p.pulled = s.pulled + 1 /\ p.at = s.at /\ p.gen = s.gen
          /\ p.completed = s.completed /\ ~s.completed
      BY <2>2, <3>1 DEF Audio!Pulled, Session, Speaks
    <3> HIDE DEF p
    <3>4. Len(p.pcm) <= OutputCap /\ p.pulled + Len(p.pcm) = s.pulled + Len(s.pcm)
      <4>1. OutputCap \in Nat /\ Len(s.pcm) <= OutputCap
        BY MediaAssumption DEF Speaks
      <4>2. /\ Len(p.pcm) = Len(s.pcm) - 1 /\ Len(s.pcm) \in Nat
            /\ p.pulled = s.pulled + 1 /\ s.pulled \in Nat
        BY <2>2, <3>1, <3>3 DEF Session
      <4> DEFINE left == Len(p.pcm)
                 had == Len(s.pcm)
                 now == p.pulled
                 was == s.pulled
      <4>3. /\ had \in Nat /\ had <= OutputCap /\ left = had - 1
            /\ was \in Nat /\ now = was + 1
        BY <4>1, <4>2
      <4> HIDE DEF left, had, now, was
      <4>4. left <= OutputCap /\ now + left = was + had
        BY <4>1, <4>3
      <4>. QED BY <4>4 DEF left, had, now, was
    <3>. QED BY <3>2, <3>3, <3>4 DEF Speaks
  <2>. QED BY <2>1, <2>2
<1> DEFINE c == [p EXCEPT !.completed = TRUE]
<1>2. ASSUME Audio!Drained(p)
      PROVE  /\ c \in Session /\ c.at = p.at /\ c.gen = p.gen /\ c.pcm = <<>> /\ c.pulled = p.pulled
             /\ c.completed /\ c.finished /\ ~p.completed /\ p.pcm = <<>>
  BY <1>1, <1>2 DEF Audio!Drained, Session
<1>3. ASSUME Audio!Drained(p), NEW end, end[p.gen] <= 1,
             \A h \in Audio!Gens : h # p.gen => end[h] = ended[l][h]
      PROVE  Speaks(c, accepted[l], end)
  <2> HIDE DEF c, p
  <2>1. \A h \in Audio!Gens : h > p.gen => h # p.gen
    BY <1>1 DEF Session, Audio!Gens
  <2>. QED BY <1>1, <1>2, <1>3, <2>1 DEF Speaks
<1>4. /\ accepted[l] \in [Audio!Gens -> Nat] /\ ended[l] \in [Audio!Gens -> Nat]
      /\ events[l] \in Seq(Audio!Gens) /\ Len(events[l]) <= EventCap /\ Len(events[l]) \in Nat
      /\ p.gen \in Audio!Gens
  BY <1>1 DEF AudioInv, Session
<1>5. CASE /\ Audio!Drained(p) /\ Len(events[l]) < EventCap /\ Audio!Stream(l, c)
           /\ events' = [events EXCEPT ![l] = Append(@, p.gen)]
           /\ ended' = [ended EXCEPT ![l][p.gen] = @ + 1]
  <2> DEFINE end == [ended[l] EXCEPT ![p.gen] = @ + 1]
  <2> HIDE DEF p
  <2>1. ended[l][p.gen] = 0
    BY <1>1, <1>2, <1>5 DEF Speaks
  <2>2. /\ end \in [Audio!Gens -> Nat] /\ end[p.gen] = 1
        /\ \A h \in Audio!Gens : h # p.gen => end[h] = ended[l][h]
    BY <1>4, <2>1
  <2>3. ended' = [ended EXCEPT ![l] = end] /\ streams' = [streams EXCEPT ![l] = c]
        /\ events' = [events EXCEPT ![l] = Append(events[l], p.gen)]
        /\ accepted' = [accepted EXCEPT ![l] = accepted[l]]
    BY <1>5 DEF AudioInv, Audio!Stream
  <2>4. Append(events[l], p.gen) \in Seq(Audio!Gens) /\ Len(Append(events[l], p.gen)) <= EventCap
    <3>1. Append(events[l], p.gen) \in Seq(Audio!Gens) /\ Len(Append(events[l], p.gen)) = Len(events[l]) + 1
      BY <1>4
    <3>2. EventCap \in Nat
      BY MediaAssumption
    <3>. QED BY <1>4, <1>5, <3>1, <3>2
  <2> HIDE DEF c, end
  <2>5. Speaks(c, accepted[l], end)
    BY <1>3, <1>5, <2>2
  <2>. QED BY <1>2, <1>4, <1>5, <2>2, <2>3, <2>4, <2>5, OneLegSpeaks
<1>6. CASE Audio!Drained(p) /\ Audio!Stream(l, Audio!Ended(c)) /\ UNCHANGED <<events, ended>>
  <2> HIDE DEF p
  <2>1. ended[l][p.gen] <= 1
    BY <1>1, <1>4 DEF Speaks
  <2> HIDE DEF c
  <2>2. c \in Session /\ Speaks(c, accepted[l], ended[l])
    BY <1>2, <1>3, <1>6, <2>1
  <2>3. Audio!Ended(c) \in Session /\ Speaks(Audio!Ended(c), accepted[l], ended[l])
    BY <2>2, EndedSpeaks
  <2>. QED BY <1>6, <2>3, SessionSpeaks DEF Audio!Stream
<1>7. CASE Audio!Stream(l, [p EXCEPT !.drain = @ \/ Audio!Drained(p)]) /\ UNCHANGED <<events, ended>>
  <2> DEFINE dr == p.drain \/ Audio!Drained(p)
             d == [p EXCEPT !.drain = dr]
  <2> HIDE DEF p
  <2>1. /\ d \in Session /\ d.at = p.at /\ d.gen = p.gen /\ d.pcm = p.pcm /\ d.pulled = p.pulled
        /\ d.finished = p.finished /\ d.completed = p.completed
    BY <1>1 DEF Session
  <2>2. streams' = [streams EXCEPT ![l] = d]
    BY <1>7 DEF Audio!Stream
  <2> HIDE DEF d, dr
  <2>3. Speaks(d, accepted[l], ended[l])
    BY <1>1, <2>1 DEF Speaks
  <2>. QED BY <1>7, <2>1, <2>2, <2>3, SessionSpeaks
<1>. QED BY <1>5, <1>6, <1>7 DEF Audio!PullOutput

LEMMA AudioInductive ==
  ASSUME AudioInv, [Audio!Next]_audioVars
  PROVE  AudioInv'
<1>1. CASE UNCHANGED audioVars
  BY <1>1 DEF audioVars, AudioInv
<1>2. ASSUME NEW l \in AudioLegs, Audio!OpenStream(l) \/ Audio!Finish(l)
      PROVE  AudioInv'
  <2> DEFINE s == streams[l]
  <2>1. s \in Session /\ Speaks(s, accepted[l], ended[l])
    BY DEF AudioInv
  <2>2. CASE Audio!OpenStream(l)
    <3> DEFINE t == [s EXCEPT !.at = "open"]
    <3>1. /\ t \in Session /\ t.gen = s.gen /\ t.pcm = s.pcm /\ t.pulled = s.pulled
          /\ t.finished = s.finished /\ t.completed = s.completed /\ t.at = "open"
      BY <2>1 DEF Session
    <3>2. s.at = "none" /\ streams' = [streams EXCEPT ![l] = t] /\ UNCHANGED <<accepted, events, ended>>
      BY <2>2 DEF Audio!OpenStream, Audio!Stream
    <3> HIDE DEF t
    <3>3. Speaks(t, accepted[l], ended[l])
      BY <2>1, <3>1, <3>2 DEF Speaks
    <3>. QED BY <3>1, <3>2, <3>3, SessionSpeaks
  <2>3. CASE Audio!Finish(l)
    <3> DEFINE t == [s EXCEPT !.finished = TRUE]
    <3>1. /\ t \in Session /\ t.gen = s.gen /\ t.pcm = s.pcm /\ t.pulled = s.pulled
          /\ t.finished /\ t.completed = s.completed /\ t.at = s.at
      BY <2>1 DEF Session
    <3>2. streams' = [streams EXCEPT ![l] = t] /\ UNCHANGED <<accepted, events, ended>>
      BY <2>3 DEF Audio!Finish, Audio!Stream
    <3> HIDE DEF t
    <3>3. Speaks(t, accepted[l], ended[l])
      BY <2>1, <3>1 DEF Speaks
    <3>. QED BY <3>1, <3>2, <3>3, SessionSpeaks
  <2>. QED BY <1>2, <2>2, <2>3
<1>3. ASSUME NEW l \in AudioLegs, Audio!TickStream(l) \/ Audio!CloseStream(l)
      PROVE  AudioInv'
  <2> DEFINE s == streams[l]
             t == Audio!Ended(s)
             g == [s EXCEPT !.at = "gone"]
  <2>1. s \in Session /\ Speaks(s, accepted[l], ended[l])
    BY DEF AudioInv
  <2>2. t \in Session /\ Speaks(t, accepted[l], ended[l])
    BY <2>1, EndedSpeaks
  <2>3. \/ s.at = "done" /\ Audio!Stream(l, g) /\ UNCHANGED <<accepted, events, ended>>
        \/ Audio!PullOutput(l, s) /\ accepted' = accepted
        \/ Audio!PullOutput(l, t) /\ accepted' = accepted
        \/ Audio!Stream(l, t) /\ UNCHANGED <<accepted, events, ended>>
    BY <1>3, Zenon DEF Audio!TickStream, Audio!CloseStream
  <2>4. CASE s.at = "done" /\ Audio!Stream(l, g) /\ UNCHANGED <<accepted, events, ended>>
    <3>1. /\ g \in Session /\ g.gen = s.gen /\ g.pcm = s.pcm /\ g.pulled = s.pulled
          /\ g.finished = s.finished /\ g.completed = s.completed /\ g.at = "gone"
      BY <2>1 DEF Session
    <3> HIDE DEF g
    <3>2. Speaks(g, accepted[l], ended[l])
      BY <2>1, <3>1 DEF Speaks
    <3>. QED BY <2>4, <3>1, <3>2, SessionSpeaks DEF Audio!Stream
  <2> HIDE DEF s, t, g
  <2>5. CASE Audio!PullOutput(l, s) /\ accepted' = accepted
    BY <2>1, <2>5, PullStep
  <2>6. CASE Audio!PullOutput(l, t) /\ accepted' = accepted
    BY <2>2, <2>6, PullStep
  <2>7. CASE Audio!Stream(l, t) /\ UNCHANGED <<accepted, events, ended>>
    BY <2>2, <2>7, SessionSpeaks DEF Audio!Stream
  <2>. QED BY <2>3, <2>4, <2>5, <2>6, <2>7
<1>4. ASSUME NEW l \in AudioLegs
      PROVE  /\ Audio!Gone(streams[l]) \in Session
             /\ Speaks(Audio!Gone(streams[l]), accepted[l], ended[l])
  <2>1. streams[l] \in Session /\ Speaks(streams[l], accepted[l], ended[l])
    BY DEF AudioInv
  <2>. QED BY <2>1, EndedSpeaks DEF Audio!Gone
<1>5. ASSUME NEW l \in AudioLegs, Audio!Leave(l)
      PROVE  AudioInv'
  BY <1>4, <1>5, SessionSpeaks DEF Audio!Leave, Audio!Stream
<1>6. ASSUME NEW l \in AudioLegs, Audio!Read(l)
      PROVE  AudioInv'
  <2>1. /\ events[l] \in Seq(Audio!Gens) /\ events[l] # <<>> /\ Len(events[l]) \in Nat /\ Len(events[l]) <= EventCap
        /\ events' = [events EXCEPT ![l] = Tail(events[l])] /\ UNCHANGED <<streams, accepted, ended>>
    BY <1>6 DEF Audio!Read, AudioInv
  <2>2. Tail(events[l]) \in Seq(Audio!Gens) /\ Len(Tail(events[l])) = Len(events[l]) - 1
    BY <2>1
  <2>3. Len(Tail(events[l])) <= EventCap
    BY <2>1, <2>2, MediaAssumption
  <2>4. /\ events' \in [AudioLegs -> Seq(Audio!Gens)]
        /\ \A m \in AudioLegs : Len(events'[m]) <= EventCap
    BY <2>1, <2>2, <2>3 DEF AudioInv
  <2>. QED BY <2>1, <2>4 DEF AudioInv
<1>7. ASSUME NEW l \in AudioLegs, Audio!Hold(l)
      PROVE  AudioInv'
  BY <1>7 DEF Audio!Hold, AudioInv
<1>8. CASE Audio!CloseRoom
  <2>1. /\ streams' = [l \in AudioLegs |-> Audio!Gone(streams[l])] /\ UNCHANGED <<accepted, events, ended>>
    BY <1>8 DEF Audio!CloseRoom
  <2>2. streams' \in [AudioLegs -> Session] /\ \A l \in AudioLegs : streams'[l] = Audio!Gone(streams[l])
    BY <1>4, <2>1
  <2>. QED BY <1>4, <2>1, <2>2 DEF AudioInv
<1>9. CASE Audio!Next
  BY <1>2, <1>3, <1>5, <1>6, <1>7, <1>8, <1>9, WriteStep, ClearStep DEF Audio!Next
<1>. QED BY <1>1, <1>9

\* What the invariant says of the audio of applications.
LEMMA AudioOK == AudioInv => Audio!TypeOK /\ Audio!NoOldAudio /\ Audio!EndIsTrue
<1> SUFFICES ASSUME AudioInv PROVE Audio!TypeOK /\ Audio!NoOldAudio /\ Audio!EndIsTrue
  OBVIOUS
<1>1. Audio!TypeOK
  BY DEF AudioInv, Session, Speaks, Audio!TypeOK
<1>2. Audio!NoOldAudio
  BY DEF AudioInv, Speaks, Audio!NoOldAudio
<1>3. ASSUME NEW l \in AudioLegs, streams[l].completed, streams[l].at = "open"
      PROVE  streams[l].pulled = accepted[l][streams[l].gen]
  <2>1. streams[l].pcm = <<>> /\ streams[l].pulled + Len(streams[l].pcm) = accepted[l][streams[l].gen]
    BY <1>3 DEF AudioInv, Speaks
  <2>2. streams[l].pulled \in Nat /\ Len(<<>>) = 0
    BY DEF AudioInv, Session
  <2>. QED BY <2>1, <2>2
<1>4. Audio!EndIsTrue
  BY <1>3 DEF AudioInv, Speaks, Audio!EndIsTrue
<1>. QED BY <1>1, <1>2, <1>4

-------------------------------------------------------------------------------
(* Assets.  What was told of an asset is one end of those that are over.         *)

Playback == [at: {"none", "on", "over"}, leg: PlayLegs \union {PlayedAssets!NoAsset.leg},
             left: Int, drain: BOOLEAN]

AssetInv ==
  /\ targets \subseteq PlayLegs /\ heldLegs \subseteq PlayLegs /\ playRoom \in BOOLEAN
  /\ assets \in [Assets -> Playback] /\ outcome \in [Assets -> SUBSET {"stopped", "failed", "finished"}]
  /\ \A a \in Assets : assets[a].left <= Frames
  /\ \A a, b \in Assets : a # b /\ assets[a].at = "on" /\ assets[b].at = "on" => assets[a].leg # assets[b].leg
  /\ \A a \in Assets : /\ assets[a].at = "over" => \E how : outcome[a] = {how}
                       /\ assets[a].at # "over" => outcome[a] = {}

LEMMA AssetInitInv == PlayedAssets!Init => AssetInv
BY MediaAssumption DEF PlayedAssets!Init, PlayedAssets!NoAsset, AssetInv, Playback

\* Some of the playbacks end.
LEMMA AssetsOver ==
  ASSUME AssetInv, NEW how \in {"stopped", "failed", "finished"}, NEW A \in SUBSET Assets,
         \A a \in A : assets[a].at = "on", PlayedAssets!Over(A, how),
         targets' \subseteq PlayLegs, heldLegs' = heldLegs, playRoom' \in BOOLEAN
  PROVE  AssetInv'
<1> DEFINE over(a) == [assets[a] EXCEPT !.at = "over"]
<1>1. \A a \in Assets : /\ over(a) \in Playback /\ over(a).at = "over" /\ over(a).leg = assets[a].leg
                        /\ over(a).left = assets[a].left
  BY DEF AssetInv, Playback
<1>2. /\ assets' = [a \in Assets |-> IF a \in A THEN over(a) ELSE assets[a]]
      /\ outcome' = [a \in Assets |-> IF a \in A THEN outcome[a] \union {how} ELSE outcome[a]]
  BY DEF PlayedAssets!Over
<1> HIDE DEF over
<1>3. /\ assets' \in [Assets -> Playback] /\ outcome' \in [Assets -> SUBSET {"stopped", "failed", "finished"}]
      /\ \A a \in Assets : /\ assets'[a] = IF a \in A THEN over(a) ELSE assets[a]
                           /\ outcome'[a] = IF a \in A THEN outcome[a] \union {how} ELSE outcome[a]
  BY <1>1, <1>2 DEF AssetInv
<1>4. ASSUME NEW a \in Assets
      PROVE  /\ assets'[a].at = "over" => \E h : outcome'[a] = {h}
             /\ assets'[a].at # "over" => outcome'[a] = {}
  <2>1. CASE a \in A
    <3>1. outcome[a] = {}
      BY <2>1 DEF AssetInv
    <3>2. outcome'[a] = {how} /\ assets'[a].at = "over"
      BY <1>1, <1>3, <2>1, <3>1
    <3>. QED BY <3>2
  <2>2. CASE a \notin A
    <3>1. assets'[a] = assets[a] /\ outcome'[a] = outcome[a]
      BY <1>3, <2>2
    <3>2. /\ assets[a].at = "over" => \E h : outcome[a] = {h}
          /\ assets[a].at # "over" => outcome[a] = {}
      BY DEF AssetInv
    <3>. QED BY <3>1, <3>2
  <2>. QED BY <2>1, <2>2
<1>5. /\ \A a \in Assets : assets'[a].left <= Frames
      /\ \A a, b \in Assets : a # b /\ assets'[a].at = "on" /\ assets'[b].at = "on"
                                => assets'[a].leg # assets'[b].leg
  BY <1>1, <1>3 DEF AssetInv
<1>. QED BY <1>3, <1>4, <1>5 DEF AssetInv

\* A playback that begins or goes on.
LEMMA AssetOn ==
  ASSUME AssetInv, NEW a \in Assets, NEW x \in Playback, assets' = [assets EXCEPT ![a] = x],
         x.at = "on", x.left <= Frames, assets[a].at \in {"none", "on"},
         \A b \in Assets : b # a /\ assets[b].at = "on" => assets[b].leg # x.leg,
         UNCHANGED <<targets, heldLegs, outcome, playRoom>>
  PROVE  AssetInv'
<1>1. assets' \in [Assets -> Playback] /\ \A b \in Assets : assets'[b] = IF b = a THEN x ELSE assets[b]
  BY DEF AssetInv
<1>2. \A b \in Assets : assets'[b].left <= Frames
  BY <1>1 DEF AssetInv
<1>3. \A b, c \in Assets : b # c /\ assets'[b].at = "on" /\ assets'[c].at = "on" => assets'[b].leg # assets'[c].leg
  BY <1>1 DEF AssetInv
<1>4. \A b \in Assets : /\ assets'[b].at = "over" => \E how : outcome'[b] = {how}
                        /\ assets'[b].at # "over" => outcome'[b] = {}
  BY <1>1 DEF AssetInv
<1>. QED BY <1>1, <1>2, <1>3, <1>4 DEF AssetInv

LEMMA AssetInductive ==
  ASSUME AssetInv, [PlayedAssets!Next]_assetVars
  PROVE  AssetInv'
<1>1. CASE UNCHANGED assetVars
  BY <1>1 DEF assetVars, AssetInv
<1>2. ASSUME NEW l \in PlayLegs, PlayedAssets!Connect(l)
      PROVE  AssetInv'
  BY <1>2 DEF PlayedAssets!Connect, AssetInv
<1>3. ASSUME NEW l \in PlayLegs, NEW a \in Assets, PlayedAssets!StartPlayback(a, l)
      PROVE  AssetInv'
  <2> DEFINE x == [at |-> "on", leg |-> l, left |-> Frames, drain |-> FALSE]
  <2>1. /\ assets' = [assets EXCEPT ![a] = x] /\ assets[a].at = "none" /\ ~PlayedAssets!Busy(l)
        /\ UNCHANGED <<targets, heldLegs, outcome, playRoom>>
    BY <1>3 DEF PlayedAssets!StartPlayback
  <2>2. x \in Playback /\ x.at = "on" /\ x.left <= Frames /\ x.leg = l
    BY MediaAssumption DEF Playback
  <2>3. \A b \in Assets : assets[b].at = "on" => assets[b].leg # l
    BY <2>1 DEF PlayedAssets!Busy
  <2> HIDE DEF x
  <2>. QED BY <2>1, <2>2, <2>3, AssetOn
<1>4. ASSUME NEW a \in Assets, PlayedAssets!StopPlayback(a)
      PROVE  AssetInv'
  <2>1. PlayedAssets!Over({a}, "stopped") /\ assets[a].at = "on" /\ UNCHANGED <<targets, heldLegs, playRoom>>
    BY <1>4 DEF PlayedAssets!StopPlayback
  <2>2. targets' \subseteq PlayLegs /\ playRoom' \in BOOLEAN /\ {a} \in SUBSET Assets
    BY <2>1 DEF AssetInv
  <2>. QED BY <2>1, <2>2, AssetsOver
<1>5. ASSUME NEW a \in Assets, PlayedAssets!TickAsset(a)
      PROVE  AssetInv'
  <2>1. assets[a].at = "on" /\ UNCHANGED <<targets, heldLegs, playRoom>>
    BY <1>5 DEF PlayedAssets!TickAsset
  <2>2. targets' \subseteq PlayLegs /\ playRoom' \in BOOLEAN /\ {a} \in SUBSET Assets
    BY <2>1 DEF AssetInv
  <2>3. CASE PlayedAssets!Over({a}, "failed") \/ PlayedAssets!Over({a}, "finished")
    BY <2>1, <2>2, <2>3, AssetsOver
  <2>4. CASE /\ assets' = [assets EXCEPT ![a].left = @ - 1] \/ assets' = [assets EXCEPT ![a].drain = TRUE]
             /\ UNCHANGED outcome
    <3>1. assets[a] \in Playback /\ assets[a].left \in Int /\ assets[a].left <= Frames
      BY DEF AssetInv, Playback
    <3>2. assets[a].left - 1 \in Int /\ assets[a].left - 1 <= Frames
      BY <3>1, MediaAssumption
    <3> DEFINE y == [assets[a] EXCEPT !.left = assets[a].left - 1]
               z == [assets[a] EXCEPT !.drain = TRUE]
    <3>3. assets' = [assets EXCEPT ![a] = y] \/ assets' = [assets EXCEPT ![a] = z]
      BY <2>4 DEF AssetInv
    <3>4. /\ y \in Playback /\ y.at = "on" /\ y.left <= Frames /\ y.leg = assets[a].leg
          /\ z \in Playback /\ z.at = "on" /\ z.left <= Frames /\ z.leg = assets[a].leg
      BY <2>1, <3>1, <3>2 DEF Playback
    <3>5. \A b \in Assets : b # a /\ assets[b].at = "on" => assets[b].leg # assets[a].leg
      BY <2>1 DEF AssetInv
    <3>6. UNCHANGED <<targets, heldLegs, outcome, playRoom>> /\ assets[a].at \in {"none", "on"}
      BY <2>1, <2>4
    <3> HIDE DEF y, z
    <3>7. ASSUME NEW x \in Playback, assets' = [assets EXCEPT ![a] = x],
                 x.at = "on", x.left <= Frames, x.leg = assets[a].leg
          PROVE  AssetInv'
      <4>1. \A b \in Assets : b # a /\ assets[b].at = "on" => assets[b].leg # x.leg
        BY <3>5, <3>7
      <4>. QED BY <3>6, <3>7, <4>1, AssetOn
    <3>8. CASE assets' = [assets EXCEPT ![a] = y]
      BY <3>4, <3>7, <3>8
    <3>9. CASE assets' = [assets EXCEPT ![a] = z]
      BY <3>4, <3>7, <3>9
    <3>. QED BY <3>3, <3>8, <3>9
  <2>. QED BY <1>5, <2>3, <2>4 DEF PlayedAssets!TickAsset
<1>6. ASSUME NEW l \in PlayLegs, PlayedAssets!Leave(l)
      PROVE  AssetInv'
  <2> DEFINE A == {a \in PlayedAssets!Playing(Assets) : assets[a].leg = l}
  <2>1. A \in SUBSET Assets /\ \A a \in A : assets[a].at = "on"
    BY DEF PlayedAssets!Playing
  <2>2. /\ PlayedAssets!Over(A, "stopped") /\ targets' \subseteq PlayLegs /\ playRoom' \in BOOLEAN
        /\ heldLegs' = heldLegs
    BY <1>6 DEF PlayedAssets!Leave, AssetInv
  <2> HIDE DEF A
  <2>. QED BY <2>1, <2>2, AssetsOver
<1>7. CASE PlayedAssets!CloseRoom
  <2> DEFINE A == PlayedAssets!Playing(Assets)
  <2>1. A \in SUBSET Assets /\ \A a \in A : assets[a].at = "on"
    BY DEF PlayedAssets!Playing
  <2>2. /\ PlayedAssets!Over(A, "stopped") /\ targets' \subseteq PlayLegs /\ playRoom' \in BOOLEAN
        /\ heldLegs' = heldLegs
    BY <1>7 DEF PlayedAssets!CloseRoom, AssetInv
  <2> HIDE DEF A
  <2>. QED BY <2>1, <2>2, AssetsOver
<1>8. CASE PlayedAssets!Next
  BY <1>2, <1>3, <1>4, <1>5, <1>6, <1>7, <1>8 DEF PlayedAssets!Next
<1>. QED BY <1>1, <1>8

\* What the invariant says of assets.
LEMMA AssetOK == AssetInv => PlayedAssets!TypeOK /\ PlayedAssets!OneAssetOneEnd
<1> SUFFICES ASSUME AssetInv PROVE PlayedAssets!TypeOK /\ PlayedAssets!OneAssetOneEnd
  OBVIOUS
<1>1. PlayedAssets!TypeOK
  BY DEF AssetInv, Playback, PlayedAssets!TypeOK
<1>2. ASSUME NEW a \in Assets
      PROVE  Cardinality(outcome[a]) = IF assets[a].at = "over" THEN 1 ELSE 0
  <2>1. Cardinality({}) = 0 /\ \A how : Cardinality({how}) = 1
    BY FS_EmptySet, FS_Singleton
  <2>2. (\E how : outcome[a] = {how} /\ assets[a].at = "over") \/ (outcome[a] = {} /\ assets[a].at # "over")
    BY DEF AssetInv
  <2>. QED BY <2>1, <2>2
<1>. QED BY <1>1, <1>2, AssetsCount DEF AssetInv, PlayedAssets!OneAssetOneEnd

-------------------------------------------------------------------------------
(* Candidates.                                                                   *)

IceInv ==
  /\ Ice!TypeOK /\ Ice!CandidatesAdded
  /\ asked \subseteq [what: Ice!What, to: Ice!Joins]

LEMMA IceInitInv == Ice!Init => IceInv
BY DEF Ice!Init, IceInv, Ice!TypeOK, Ice!CandidatesAdded

LEMMA IceInductive ==
  ASSUME IceInv, [Ice!Next]_iceVars
  PROVE  IceInv'
<1> USE DEF IceInv, Ice!TypeOK, Ice!CandidatesAdded
<1>1. CASE UNCHANGED iceVars
  BY <1>1 DEF iceVars
<1>2. ASSUME NEW p \in Ice!Joins, Ice!Join(p) \/ Ice!Close(p)
      PROVE  IceInv'
  BY <1>2 DEF Ice!Join, Ice!Close
<1>3. ASSUME NEW what \in Ice!What, Ice!Ask(what)
      PROVE  IceInv'
  BY <1>3 DEF Ice!Ask
<1>4. ASSUME NEW p \in Ice!Joins, Ice!AcceptAnswer(p)
      PROVE  IceInv'
  BY <1>4 DEF Ice!AcceptAnswer
<1>5. ASSUME NEW p \in Ice!Joins, NEW c \in Candidates, Ice!TrickleICE(p, c)
      PROVE  IceInv'
  BY <1>5 DEF Ice!TrickleICE
<1>6. CASE Ice!Next
  BY <1>2, <1>3, <1>4, <1>5, <1>6 DEF Ice!Next
<1>. QED BY <1>1, <1>6

-------------------------------------------------------------------------------
(* Rooms.  A room whose mixer stops has given its peers away.                    *)

RoomInv ==
  /\ Room!TypeOK /\ Room!NoPeerLost /\ Room!NothingAfterStop
  /\ sends \subseteq RoomLegs \X (Room!Peers \union {NoPeer})
  /\ \A l \in RoomLegs : peers[l] # NoPeer => peers[l] \in {l} \X (1 .. MaxPeers)
  /\ mixer # "running" => phase \in {"taken", "over"}

LEMMA PeersAre ==
  /\ NoPeer \notin Room!Peers
  /\ \A p \in Room!Peers : p[1] \in RoomLegs /\ p = <<p[1], p[2]>>
BY MediaAssumption DEF Room!Peers

LEMMA RoomInitInv == Room!Init => RoomInv
<1> SUFFICES ASSUME Room!Init PROVE RoomInv
  OBVIOUS
<1>1. Room!TypeOK
  BY DEF Room!Init, Room!TypeOK
<1>2. Room!NoPeerLost
  BY PeersAre DEF Room!Init, Room!NoPeerLost
<1>. QED BY <1>1, <1>2 DEF Room!Init, RoomInv, Room!NothingAfterStop

\* A peer whose connection is not in the table goes from one place to another.
LEMMA PeerMoves ==
  ASSUME RoomInv, NEW p \in Room!Peers, pc[p] # "in",
         NEW to \in {"made", "replaced", "left", "leaving", "taken", "closed"}, pc' = [pc EXCEPT ![p] = to],
         UNCHANGED <<phase, peers, mixer, sends, reads>>,
         \/ UNCHANGED <<senders, buffers>>
         \/ Room!RemoveLeg(p[1])
  PROVE  RoomInv'
<1>1. /\ pc' \in [Room!Peers -> {"none", "made", "in", "replaced", "left", "leaving", "taken", "closed"}]
      /\ \A q \in Room!Peers : pc'[q] = "in" <=> pc[q] = "in"
  BY DEF RoomInv, Room!TypeOK
<1>2. /\ senders' \in [RoomLegs -> Room!Peers \union {NoPeer}] /\ buffers' \subseteq RoomLegs
      /\ mixer = "stopped" => buffers' = {} /\ \A l \in RoomLegs : senders'[l] = NoPeer
  BY PeersAre DEF RoomInv, Room!TypeOK, Room!NothingAfterStop, Room!RemoveLeg
<1>3. Room!TypeOK' /\ Room!NothingAfterStop'
  BY <1>1, <1>2 DEF RoomInv, Room!TypeOK, Room!NothingAfterStop
<1>4. Room!NoPeerLost'
  BY <1>1 DEF RoomInv, Room!NoPeerLost
<1>. QED BY <1>3, <1>4 DEF RoomInv

LEMMA JoinInstallStep ==
  ASSUME RoomInv, NEW p \in Room!Peers, Room!JoinInstall(p)
  PROVE  RoomInv'
<1> DEFINE l == p[1]
           old == peers[l]
<1>1. /\ pc[p] = "made" /\ UNCHANGED <<phase, mixer, sends, reads>> /\ l \in RoomLegs /\ p # NoPeer
      /\ p = <<l, p[2]>>
  BY PeersAre DEF Room!JoinInstall
<1>2. CASE phase # "open"
  BY <1>1, <1>2, PeerMoves DEF Room!JoinInstall
<1>3. CASE phase = "open"
  <2>1. /\ peers' = [peers EXCEPT ![l] = p]
        /\ \/ old = NoPeer /\ pc' = [pc EXCEPT ![p] = "in"] /\ UNCHANGED <<senders, buffers>>
           \/ old # NoPeer /\ pc' = [pc EXCEPT ![p] = "in", ![old] = "replaced"] /\ Room!RemoveLeg(l)
    BY <1>3 DEF Room!JoinInstall
  <2>2. old \in Room!Peers \union {NoPeer} /\ (old # NoPeer => old \in Room!Peers /\ old[1] = l)
    BY <1>1 DEF RoomInv, Room!TypeOK
  <2>3. old # p
    BY <1>1 DEF RoomInv, Room!NoPeerLost
  <2>4. /\ peers' \in [RoomLegs -> Room!Peers \union {NoPeer}]
        /\ \A m \in RoomLegs : peers'[m] = IF m = l THEN p ELSE peers[m]
    BY <1>1, <2>1 DEF RoomInv, Room!TypeOK
  <2>5. /\ pc' \in [Room!Peers -> {"none", "made", "in", "replaced", "left", "leaving", "taken", "closed"}]
        /\ pc'[p] = "in" /\ (old # NoPeer => pc'[old] = "replaced")
        /\ \A q \in Room!Peers : q # p /\ q # old => pc'[q] = pc[q]
    BY <2>1, <2>2, <2>3 DEF RoomInv, Room!TypeOK
  <2>6. \A q \in Room!Peers : pc[q] = "in" <=> peers[q[1]] = q
    BY DEF RoomInv, Room!NoPeerLost
  <2>7. ASSUME NEW q \in Room!Peers
        PROVE  pc'[q] = "in" <=> peers'[q[1]] = q
    <3>1. q[1] \in RoomLegs /\ q # NoPeer
      BY PeersAre
    <3>2. CASE q = p
      BY <1>1, <2>4, <2>5, <3>2
    <3>3. CASE q = old
      BY <1>1, <2>2, <2>3, <2>4, <2>5, <3>1, <3>3
    <3>4. CASE q # p /\ q # old
      BY <2>4, <2>5, <2>6, <3>1, <3>4
    <3>. QED BY <3>2, <3>3, <3>4
  <2>8. /\ senders' \in [RoomLegs -> Room!Peers \union {NoPeer}] /\ buffers' \subseteq RoomLegs
    BY <1>1, <2>1 DEF RoomInv, Room!TypeOK, Room!RemoveLeg
  <2>9. mixer = "running"
    BY <1>3 DEF RoomInv, Room!TypeOK
  <2>10. Room!TypeOK' /\ Room!NothingAfterStop'
    BY <1>1, <2>4, <2>5, <2>8, <2>9 DEF RoomInv, Room!TypeOK, Room!NothingAfterStop
  <2>11. Room!NoPeerLost'
    BY <1>1, <1>3, <2>7 DEF Room!NoPeerLost
  <2>12. \A m \in RoomLegs : peers'[m] # NoPeer => peers'[m] \in {m} \X (1 .. MaxPeers)
    BY <1>1, <2>4 DEF RoomInv, Room!Peers
  <2>. QED BY <1>1, <2>10, <2>11, <2>12 DEF RoomInv
<1>. QED BY <1>2, <1>3

LEMMA LeaveStep ==
  ASSUME RoomInv, NEW l \in RoomLegs, Room!Leave(l)
  PROVE  RoomInv'
<1> DEFINE p == peers[l]
<1>1. /\ phase = "open" /\ p # NoPeer /\ peers' = [peers EXCEPT ![l] = NoPeer] /\ pc' = [pc EXCEPT ![p] = "left"]
      /\ UNCHANGED <<phase, mixer, senders, buffers, sends, reads>>
  BY DEF Room!Leave, Room!mixVars
<1>2. p \in Room!Peers /\ p[1] = l
  BY <1>1 DEF RoomInv, Room!TypeOK
<1>3. /\ Room!TypeOK' /\ \A m \in RoomLegs : peers'[m] = IF m = l THEN NoPeer ELSE peers[m]
      /\ \A q \in Room!Peers : pc'[q] = IF q = p THEN "left" ELSE pc[q]
  BY <1>1, <1>2 DEF RoomInv, Room!TypeOK
<1>4. ASSUME NEW q \in Room!Peers
      PROVE  pc'[q] = "in" <=> peers'[q[1]] = q
  <2>1. q[1] \in RoomLegs /\ q # NoPeer /\ (pc[q] = "in" <=> peers[q[1]] = q)
    BY PeersAre DEF RoomInv, Room!NoPeerLost
  <2>. QED BY <1>2, <1>3, <2>1
<1>5. Room!NoPeerLost'
  BY <1>1, <1>4 DEF Room!NoPeerLost
<1>6. \A m \in RoomLegs : peers'[m] # NoPeer => peers'[m] \in {m} \X (1 .. MaxPeers)
  BY <1>3 DEF RoomInv
<1>. QED BY <1>1, <1>3, <1>5, <1>6 DEF RoomInv, Room!NothingAfterStop

LEMMA CloseSteps ==
  ASSUME RoomInv, Room!CreateRoom \/ Room!CloseRoom \/ Room!CloseTake \/ Room!CloseMixer \/ Room!MixerStops
  PROVE  RoomInv'
<1> USE DEF Room!mixVars, Room!tableVars
<1>1. CASE Room!CreateRoom \/ Room!CloseRoom
  BY <1>1 DEF Room!CreateRoom, Room!CloseRoom, RoomInv, Room!TypeOK, Room!NoPeerLost, Room!NothingAfterStop
<1>2. CASE Room!CloseTake
  <2>1. /\ phase' = "taken" /\ peers' = [l \in RoomLegs |-> NoPeer]
        /\ pc' = [p \in Room!Peers |-> IF peers[p[1]] = p THEN "taken" ELSE pc[p]]
        /\ UNCHANGED <<mixer, senders, buffers, sends, reads>>
    BY <1>2 DEF Room!CloseTake
  <2>2. \A p \in Room!Peers : pc'[p] # "in" /\ peers'[p[1]] # p
    BY <2>1, PeersAre DEF RoomInv, Room!NoPeerLost
  <2>3. Room!TypeOK'
    BY <2>1 DEF RoomInv, Room!TypeOK
  <2>. QED BY <2>1, <2>2, <2>3 DEF RoomInv, Room!NoPeerLost, Room!NothingAfterStop
<1>3. CASE Room!CloseMixer
  BY <1>3 DEF Room!CloseMixer, RoomInv, Room!TypeOK, Room!NoPeerLost, Room!NothingAfterStop
<1>4. CASE Room!MixerStops
  BY <1>4 DEF Room!MixerStops, RoomInv, Room!TypeOK, Room!NoPeerLost, Room!NothingAfterStop
<1>. QED BY <1>1, <1>2, <1>3, <1>4

LEMMA MixerSteps ==
  ASSUME RoomInv, \/ Room!TickCollect \/ Room!TickSend
                  \/ \E p \in Room!Peers : Room!ForwardRead(p) \/ Room!Ingest(p)
  PROVE  RoomInv'
<1> USE DEF Room!mixVars, Room!tableVars
<1>1. CASE Room!TickCollect
  <2>1. sends' \subseteq RoomLegs \X (Room!Peers \union {NoPeer}) /\ UNCHANGED <<phase, peers, pc, mixer, senders, buffers, reads>>
    BY <1>1 DEF Room!TickCollect, RoomInv, Room!TypeOK
  <2>. QED BY <2>1 DEF RoomInv, Room!TypeOK, Room!NoPeerLost, Room!NothingAfterStop
<1>2. CASE Room!TickSend
  <2>1. PICK d \in sends :
          /\ sends' = sends \ {d}
          /\ senders' = IF mixer = "running" /\ senders[d[1]] = NoPeer
                          THEN [senders EXCEPT ![d[1]] = d[2]] ELSE senders
    BY <1>2 DEF Room!TickSend
  <2>2. UNCHANGED <<phase, peers, pc, mixer, buffers, reads>>
    BY <1>2 DEF Room!TickSend
  <2>3. d[2] \in Room!Peers \union {NoPeer}
    BY DEF RoomInv
  <2>4. senders' \in [RoomLegs -> Room!Peers \union {NoPeer}] /\ (mixer # "running" => senders' = senders)
    BY <2>1, <2>3 DEF RoomInv, Room!TypeOK
  <2>. QED BY <2>1, <2>2, <2>4 DEF RoomInv, Room!TypeOK, Room!NoPeerLost, Room!NothingAfterStop
<1>3. ASSUME NEW p \in Room!Peers, Room!ForwardRead(p) \/ Room!Ingest(p)
      PROVE  RoomInv'
  <2>1. p[1] \in RoomLegs
    BY PeersAre
  <2>2. /\ UNCHANGED <<phase, peers, pc, mixer, senders, sends>> /\ reads' \subseteq Room!Peers
        /\ buffers' = buffers \/ (mixer = "running" /\ buffers' = buffers \union {p[1]})
    BY <1>3 DEF Room!ForwardRead, Room!Ingest, RoomInv, Room!TypeOK
  <2>. QED BY <2>1, <2>2 DEF RoomInv, Room!TypeOK, Room!NoPeerLost, Room!NothingAfterStop
<1>. QED BY <1>1, <1>2, <1>3

LEMMA RoomInductive ==
  ASSUME RoomInv, [Room!Next]_roomVars
  PROVE  RoomInv'
<1>1. CASE UNCHANGED roomVars
  BY <1>1 DEF roomVars, RoomInv, Room!TypeOK, Room!NoPeerLost, Room!NothingAfterStop
<1>2. ASSUME NEW p \in Room!Peers, Room!JoinMake(p) \/ Room!LeaveMixer(p) \/ Room!ClosePeer(p)
      PROVE  RoomInv'
  BY <1>2, PeerMoves DEF Room!JoinMake, Room!LeaveMixer, Room!ClosePeer, Room!mixVars
<1>3. CASE Room!Next
  BY <1>2, <1>3, JoinInstallStep, LeaveStep, CloseSteps, MixerSteps DEF Room!Next
<1>. QED BY <1>1, <1>3

-------------------------------------------------------------------------------
(* Keys.  What the read loops have queued is, in this order, what the handlers   *)
(* have heard, what the worker has in its hand and what waits.  The last         *)
(* timestamp of a SIP leg is the one of its last queued key.                     *)

Key == KeyLegs \X (1 .. MaxKeys)

DtmfTyped ==
  /\ pressed \in 0 .. MaxKeys /\ lastDTMF \in [KeyLegs -> 0 .. MaxKeys]
  /\ wire \in [KeyLegs -> [1 .. MaxKeys -> 0 .. Repeats]]
  /\ queued \in Seq(Key) /\ heard \in Seq(Key) /\ pending \in Seq(Key) /\ running \in BOOLEAN

\* There is one worker while the flag says so, and none has keys to wait.
WorkerRuns ==
  /\ running => \E k \in Key \union {<<>>} : workers = <<k>>
  /\ ~running => workers = <<>> /\ pending = <<>>

\* How many keys the worker has in its hand.
InHand == IF workers = <<>> \/ workers = <<<<>>>> THEN 0 ELSE 1

Queues ==
  /\ Len(queued) = Len(heard) + InHand + Len(pending)
  /\ \A i \in 1 .. Len(heard) : heard[i] = queued[i]
  /\ \A k \in Key : workers = <<k>> => queued[Len(heard) + 1] = k
  /\ \A i \in 1 .. Len(pending) : pending[i] = queued[Len(heard) + InHand + i]

\* The last key of a SIP leg among those queued has the timestamp that is kept.
LastIsKept ==
  \A i \in 1 .. Len(queued) :
    /\ queued[i][1] \in SipKeys
    /\ \A j \in i + 1 .. Len(queued) : queued[j][1] # queued[i][1]
    => queued[i][2] = lastDTMF[queued[i][1]]

NotTwice ==
  \A i, j \in 1 .. Len(queued) :
    /\ i < j /\ queued[i] = queued[j] /\ queued[i][1] \in SipKeys
    => \E k \in i + 1 .. j - 1 : queued[k][1] = queued[i][1]

DtmfInv == DtmfTyped /\ WorkerRuns /\ Queues /\ LastIsKept /\ NotTwice

LEMMA KeysAre ==
  \A k \in Key : k # <<>> /\ k[1] \in KeyLegs /\ k[2] \in 1 .. MaxKeys /\ k = <<k[1], k[2]>>
BY DEF Key

LEMMA DtmfInitInv == DtmfKeys!Init => DtmfInv
<1> SUFFICES ASSUME DtmfKeys!Init PROVE DtmfInv
  OBVIOUS
<1> USE DEF DtmfKeys!Init
<1>1. DtmfTyped
  <2>1. <<>> \in Seq(Key) /\ 0 \in 0 .. MaxKeys /\ 0 \in 0 .. Repeats
    BY MediaAssumption
  <2>. QED BY <2>1 DEF DtmfTyped
<1>2. Len(<<>>) = 0 /\ 1 .. 0 = {} /\ \A k : <<>> # <<k>>
  OBVIOUS
<1>3. WorkerRuns /\ Queues /\ LastIsKept /\ NotTwice
  BY <1>2 DEF WorkerRuns, Queues, InHand, LastIsKept, NotTwice
<1>. QED BY <1>1, <1>3 DEF DtmfInv

LEMMA PressStep ==
  ASSUME DtmfInv, NEW l \in KeyLegs, DtmfKeys!Press(l)
  PROVE  DtmfInv'
<1>1. /\ pressed' = pressed + 1 /\ pressed < MaxKeys
      /\ UNCHANGED <<lastDTMF, pending, running, workers, queued, heard>>
  BY DEF DtmfKeys!Press
<1>2. PICK n \in 0 .. Repeats : wire' = [wire EXCEPT ![l][pressed + 1] = n]
  BY DEF DtmfKeys!Press
<1>3. pressed' \in 0 .. MaxKeys
  BY <1>1, MediaAssumption DEF DtmfInv, DtmfTyped
<1>4. wire' \in [KeyLegs -> [1 .. MaxKeys -> 0 .. Repeats]]
  BY <1>2 DEF DtmfInv, DtmfTyped
<1>5. DtmfTyped'
  BY <1>1, <1>3, <1>4 DEF DtmfInv, DtmfTyped
<1>. QED BY <1>1, <1>5 DEF DtmfInv, WorkerRuns, Queues, InHand, LastIsKept, NotTwice

\* A key is put at the end of the queue, and the leg keeps its timestamp.
LEMMA EnqueueStep ==
  ASSUME DtmfInv, NEW l \in KeyLegs, NEW ts \in 1 .. MaxKeys, DtmfKeys!New(l, ts),
         lastDTMF' = [lastDTMF EXCEPT ![l] = ts], DtmfKeys!Enqueue(<<l, ts>>), heard' = heard
  PROVE  WorkerRuns' /\ Queues' /\ LastIsKept' /\ NotTwice'
         /\ queued' \in Seq(Key) /\ pending' \in Seq(Key) /\ running' \in BOOLEAN
<1> DEFINE k == <<l, ts>>
<1>1. k \in Key /\ k[1] = l /\ k[2] = ts
  BY DEF Key
<1>2. /\ pending' = Append(pending, k) /\ queued' = Append(queued, k) /\ running' = TRUE
      /\ workers' = IF running THEN workers ELSE Append(workers, <<>>)
  BY DEF DtmfKeys!Enqueue
<1>3. queued \in Seq(Key) /\ pending \in Seq(Key) /\ heard \in Seq(Key)
  BY DEF DtmfInv, DtmfTyped
<1> DEFINE q == Len(queued)
           p == Len(pending)
           h == Len(heard)
<1> HIDE DEF k
<1>4. /\ queued' \in Seq(Key) /\ Len(queued') = q + 1 /\ queued'[q + 1] = k
      /\ \A i \in 1 .. q : queued'[i] = queued[i] /\ queued[i] \in Key
  BY <1>1, <1>2, <1>3, Queued, Places
<1>5. /\ pending' \in Seq(Key) /\ Len(pending') = p + 1 /\ pending'[p + 1] = k
      /\ \A i \in 1 .. p : pending'[i] = pending[i]
  BY <1>1, <1>2, <1>3, Queued
<1>6. q \in Nat /\ p \in Nat /\ h \in Nat
  BY <1>3
<1>7. workers' = workers \/ (workers = <<>> /\ workers' = <<<<>>>>)
  <2>1. Append(<<>>, <<>>) = <<<<>>>>
    OBVIOUS
  <2>2. ~running => workers = <<>>
    BY DEF DtmfInv, WorkerRuns
  <2>. QED BY <1>2, <2>1, <2>2
<1>8. InHand' = InHand /\ InHand \in {0, 1}
  BY <1>7 DEF InHand
<1>9. WorkerRuns'
  <2>1. CASE running
    BY <1>2, <2>1 DEF DtmfInv, WorkerRuns
  <2>2. CASE ~running
    <3>1. workers' = <<<<>>>>
      BY <1>2, <2>2 DEF DtmfInv, WorkerRuns
    <3>. QED BY <1>2, <3>1 DEF WorkerRuns
  <2>. QED BY <2>1, <2>2
<1>10. Queues'
  <2>1. /\ q = h + InHand + p
        /\ \A i \in 1 .. h : heard[i] = queued[i]
        /\ \A x \in Key : workers = <<x>> => queued[h + 1] = x
        /\ \A i \in 1 .. p : pending[i] = queued[h + InHand + i]
    BY DEF DtmfInv, Queues
  <2> HIDE DEF q, p, h
  <2>2. Len(queued') = h + InHand + Len(pending')
    BY <1>4, <1>5, <1>6, <1>8, <2>1
  <2>3. \A i \in 1 .. h : heard[i] = queued'[i]
    <3>1. \A i \in 1 .. h : i \in 1 .. q
      BY <1>6, <1>8, <2>1
    <3>. QED BY <1>4, <2>1, <3>1
  <2>4. ASSUME NEW x \in Key, workers' = <<x>> PROVE queued'[h + 1] = x
    <3>1. workers = <<x>> /\ x # <<>>
      BY <1>7, <2>4, KeysAre
    <3>2. InHand = 1
      BY <3>1 DEF InHand
    <3>3. h + 1 \in 1 .. q
      BY <1>6, <2>1, <3>2
    <3>. QED BY <1>4, <2>1, <3>1, <3>3
  <2>5. ASSUME NEW i \in 1 .. Len(pending') PROVE pending'[i] = queued'[h + InHand + i]
    <3>1. CASE i \in 1 .. p
      <4>1. h + InHand + i \in 1 .. q
        BY <1>6, <1>8, <2>1, <3>1
      <4>. QED BY <1>4, <1>5, <2>1, <3>1, <4>1
    <3>2. CASE i = p + 1
      <4>1. h + InHand + i = q + 1
        BY <1>6, <1>8, <2>1, <3>2
      <4>. QED BY <1>4, <1>5, <3>2, <4>1
    <3>. QED BY <1>5, <1>6, <2>5, <3>1, <3>2
  <2>. QED BY <1>8, <2>2, <2>3, <2>4, <2>5 DEF Queues, h
<1>11. \A i \in 1 .. q + 1 : i \in 1 .. q \/ i = q + 1
  BY <1>6
<1>12. /\ \A m \in KeyLegs : lastDTMF'[m] = IF m = l THEN ts ELSE lastDTMF[m]
       /\ \A i \in 1 .. q : queued[i][1] \in KeyLegs
  BY <1>4, KeysAre DEF DtmfInv, DtmfTyped
<1>13. LastIsKept'
  <2> SUFFICES ASSUME NEW i \in 1 .. q + 1, queued'[i][1] \in SipKeys,
                      \A j \in i + 1 .. q + 1 : queued'[j][1] # queued'[i][1]
               PROVE  queued'[i][2] = lastDTMF'[queued'[i][1]]
    BY <1>4 DEF LastIsKept
  <2>1. CASE i = q + 1
    BY <1>1, <1>4, <1>12, <2>1
  <2>2. CASE i \in 1 .. q
    <3>1. q + 1 \in i + 1 .. q + 1 /\ \A j \in i + 1 .. q : j \in i + 1 .. q + 1 /\ j \in 1 .. q
      BY <1>6, <2>2
    <3>2. queued[i][1] # l
      BY <1>1, <1>4, <2>2, <3>1
    <3>3. \A j \in i + 1 .. q : queued[j][1] # queued[i][1]
      BY <1>4, <2>2, <3>1
    <3>4. queued[i][2] = lastDTMF[queued[i][1]]
      BY <1>4, <2>2, <3>3 DEF DtmfInv, LastIsKept
    <3>. QED BY <1>4, <1>12, <2>2, <3>2, <3>4
  <2>. QED BY <1>11, <2>1, <2>2
<1>14. NotTwice'
  <2> SUFFICES ASSUME NEW i \in 1 .. q + 1, NEW j \in 1 .. q + 1, i < j,
                      queued'[i] = queued'[j], queued'[i][1] \in SipKeys
               PROVE  \E m \in i + 1 .. j - 1 : queued'[m][1] = queued'[i][1]
    BY <1>4 DEF NotTwice
  <2>1. i \in 1 .. q /\ queued'[i] = queued[i]
    BY <1>4, <1>6
  <2>2. CASE j \in 1 .. q
    <3>1. PICK m \in i + 1 .. j - 1 : queued[m][1] = queued[i][1]
      BY <1>4, <2>1, <2>2 DEF DtmfInv, NotTwice
    <3>2. m \in 1 .. q
      BY <1>6, <2>1, <2>2
    <3>. QED BY <1>4, <2>1, <3>1, <3>2
  <2>3. CASE j = q + 1
    <3>1. queued[i] = k /\ l \in SipKeys
      BY <1>1, <1>4, <2>1, <2>3
    <3>2. ts # lastDTMF[l]
      BY <3>1 DEF DtmfKeys!New
    <3>3. PICK m \in i + 1 .. q : queued[m][1] = queued[i][1]
      BY <1>1, <2>1, <3>1, <3>2 DEF DtmfInv, LastIsKept
    <3>4. m \in i + 1 .. j - 1 /\ m \in 1 .. q
      BY <1>6, <2>1, <2>3
    <3>. QED BY <1>4, <2>1, <3>3, <3>4
  <2>. QED BY <1>11, <2>2, <2>3
<1>. QED BY <1>2, <1>4, <1>5, <1>9, <1>10, <1>13, <1>14

LEMMA ReceiveStep ==
  ASSUME DtmfInv, NEW l \in KeyLegs, NEW ts \in 1 .. MaxKeys, DtmfKeys!Receive(l, ts)
  PROVE  DtmfInv'
<1>1. /\ wire[l][ts] > 0 /\ wire' = [wire EXCEPT ![l][ts] = @ - 1] /\ UNCHANGED <<pressed, heard>>
  BY DEF DtmfKeys!Receive
<1>2. wire' \in [KeyLegs -> [1 .. MaxKeys -> 0 .. Repeats]]
  <2>1. wire[l][ts] \in 0 .. Repeats
    BY DEF DtmfInv, DtmfTyped
  <2>2. wire[l][ts] - 1 \in 0 .. Repeats
    BY <1>1, <2>1, MediaAssumption
  <2>. QED BY <1>1, <2>2 DEF DtmfInv, DtmfTyped
<1>3. CASE UNCHANGED <<lastDTMF, pending, running, workers, queued>>
  <2>1. DtmfTyped'
    BY <1>1, <1>2, <1>3 DEF DtmfInv, DtmfTyped
  <2>2. WorkerRuns' /\ Queues'
    BY <1>1, <1>3 DEF DtmfInv, WorkerRuns, Queues, InHand
  <2>3. LastIsKept' /\ NotTwice'
    BY <1>1, <1>3 DEF DtmfInv, LastIsKept, NotTwice
  <2>. QED BY <2>1, <2>2, <2>3 DEF DtmfInv
<1>4. CASE DtmfKeys!New(l, ts) /\ lastDTMF' = [lastDTMF EXCEPT ![l] = ts] /\ DtmfKeys!Enqueue(<<l, ts>>)
  <2>1. /\ WorkerRuns' /\ Queues' /\ LastIsKept' /\ NotTwice'
        /\ queued' \in Seq(Key) /\ pending' \in Seq(Key) /\ running' \in BOOLEAN
    BY <1>1, <1>4, EnqueueStep
  <2>2. ts \in 0 .. MaxKeys
    BY MediaAssumption
  <2>3. lastDTMF' \in [KeyLegs -> 0 .. MaxKeys]
    BY <1>4, <2>2 DEF DtmfInv, DtmfTyped
  <2>4. DtmfTyped'
    BY <1>1, <1>2, <2>1, <2>3 DEF DtmfInv, DtmfTyped
  <2>. QED BY <2>1, <2>4 DEF DtmfInv
<1>. QED BY <1>3, <1>4 DEF DtmfKeys!Receive

LEMMA PickStep ==
  ASSUME DtmfInv, NEW w \in Int, DtmfKeys!Pick(w)
  PROVE  DtmfInv'
<1>1. /\ workers[w] = <<>> /\ w \in DOMAIN workers /\ UNCHANGED <<pressed, wire, lastDTMF, queued, heard>>
  BY DEF DtmfKeys!Pick
<1>2. running /\ workers = <<<<>>>> /\ w = 1
  BY <1>1 DEF DtmfInv, WorkerRuns, DtmfTyped
<1>3. InHand = 0
  BY <1>2 DEF InHand
<1>4. CASE pending = <<>> /\ workers' = DtmfKeys!Without(w) /\ ~running' /\ UNCHANGED pending
  <2>1. workers' = <<>>
    BY <1>2, <1>4 DEF DtmfKeys!Without
  <2>2. InHand' = 0
    BY <2>1 DEF InHand
  <2>3. \A k : <<>> # <<k>>
    OBVIOUS
  <2>4. running' \in BOOLEAN
    BY DEF DtmfKeys!Pick, DtmfInv, DtmfTyped
  <2>5. DtmfTyped' /\ WorkerRuns'
    BY <1>1, <1>4, <2>1, <2>4 DEF DtmfInv, DtmfTyped, WorkerRuns
  <2>6. Queues'
    BY <1>1, <1>3, <1>4, <2>1, <2>2, <2>3 DEF DtmfInv, Queues
  <2>. QED BY <1>1, <2>5, <2>6 DEF DtmfInv, LastIsKept, NotTwice
<1>5. CASE /\ pending # <<>> /\ workers' = [workers EXCEPT ![w] = Head(pending)]
           /\ pending' = Tail(pending) /\ running' = running
  <2>1. /\ pending' \in Seq(Key) /\ Len(pending) \in Nat \ {0} /\ Len(pending') = Len(pending) - 1
        /\ Head(pending) = pending[1] /\ pending[1] \in Key
        /\ \A i \in 1 .. Len(pending) - 1 : pending'[i] = pending[i + 1]
    BY <1>5, Shorter DEF DtmfInv, DtmfTyped
  <2>2. workers' = <<pending[1]>> /\ pending[1] # <<>>
    BY <1>2, <1>5, <2>1, KeysAre
  <2>3. DtmfTyped' /\ WorkerRuns'
    BY <1>1, <1>2, <1>5, <2>1, <2>2 DEF DtmfInv, DtmfTyped, WorkerRuns
  <2>4. InHand' = 1
    BY <2>2 DEF InHand
  <2>5. Queues'
    <3> DEFINE h == Len(heard)
               p == Len(pending)
    <3>1. /\ Len(queued) = h + 0 + p /\ \A i \in 1 .. h : heard[i] = queued[i]
          /\ \A i \in 1 .. p : pending[i] = queued[h + 0 + i]
      BY <1>3 DEF DtmfInv, Queues
    <3>2. h \in Nat /\ p \in Nat \ {0}
      BY <2>1 DEF DtmfInv, DtmfTyped
    <3> HIDE DEF h, p
    <3>3. 1 \in 1 .. p /\ \A i \in 1 .. p - 1 : i + 1 \in 1 .. p /\ h + 0 + (i + 1) = h + 1 + i
      BY <3>2
    <3>4. Len(queued) = h + 1 + Len(pending') /\ queued[h + 1] = pending[1]
      BY <2>1, <3>1, <3>2, <3>3 DEF p
    <3>5. \A i \in 1 .. Len(pending') : pending'[i] = queued[h + 1 + i]
      BY <2>1, <3>1, <3>3 DEF p
    <3>6. \A x : workers' = <<x>> => x = pending[1]
      BY <2>2
    <3>. QED BY <1>1, <2>4, <3>1, <3>4, <3>5, <3>6 DEF Queues, h
  <2>. QED BY <1>1, <2>3, <2>5 DEF DtmfInv, LastIsKept, NotTwice
<1>. QED BY <1>4, <1>5 DEF DtmfKeys!Pick

LEMMA CallStep ==
  ASSUME DtmfInv, NEW w \in Int, DtmfKeys!Call(w)
  PROVE  DtmfInv'
<1>1. /\ workers[w] # <<>> /\ w \in DOMAIN workers
      /\ UNCHANGED <<pressed, wire, lastDTMF, pending, running, queued>>
      /\ heard' = Append(heard, workers[w]) /\ workers' = [workers EXCEPT ![w] = <<>>]
  BY DEF DtmfKeys!Call
<1>2. PICK k \in Key \union {<<>>} : running /\ workers = <<k>>
  BY <1>1 DEF DtmfInv, WorkerRuns
<1>3. w = 1 /\ k \in Key /\ workers[w] = k /\ workers' = <<<<>>>> /\ k # <<>>
  BY <1>1, <1>2
<1>4. /\ heard \in Seq(Key) /\ Len(heard) \in Nat /\ heard' \in Seq(Key) /\ Len(heard') = Len(heard) + 1
      /\ heard'[Len(heard) + 1] = k /\ \A i \in 1 .. Len(heard) : heard'[i] = heard[i]
  BY <1>1, <1>3, Queued DEF DtmfInv, DtmfTyped
<1>5. \A i \in 1 .. Len(heard') : i \in 1 .. Len(heard) \/ i = Len(heard) + 1
  BY <1>4
<1>6. InHand = 1 /\ InHand' = 0
  BY <1>2, <1>3 DEF InHand
<1>7. DtmfTyped' /\ WorkerRuns'
  BY <1>1, <1>2, <1>3, <1>4 DEF DtmfInv, DtmfTyped, WorkerRuns
<1>8. Queues'
  <2> DEFINE h == Len(heard)
             p == Len(pending)
  <2>1. /\ Len(queued) = h + 1 + p /\ \A i \in 1 .. h : heard[i] = queued[i]
        /\ \A x \in Key : workers = <<x>> => queued[h + 1] = x
        /\ \A i \in 1 .. p : pending[i] = queued[h + 1 + i]
    BY <1>6 DEF DtmfInv, Queues
  <2>2. h \in Nat /\ p \in Nat
    BY <1>4 DEF DtmfInv, DtmfTyped
  <2>3. \A i \in 1 .. Len(heard') : heard'[i] = queued[i]
    BY <1>2, <1>3, <1>4, <1>5, <2>1
  <2>4. \A x \in Key : workers' # <<x>>
    BY <1>3, KeysAre
  <2> HIDE DEF p
  <2>5. /\ Len(queued) = Len(heard') + 0 + p
        /\ \A i \in 1 .. p : pending[i] = queued[Len(heard') + 0 + i]
    <3>1. Len(heard') + 0 + p = h + 1 + p /\ \A i \in 1 .. p : Len(heard') + 0 + i = h + 1 + i
      BY <1>4, <2>2
    <3>. QED BY <2>1, <3>1
  <2>. QED BY <1>1, <1>6, <2>3, <2>4, <2>5 DEF Queues, p
<1>. QED BY <1>1, <1>7, <1>8 DEF DtmfInv, LastIsKept, NotTwice

LEMMA DtmfInductive ==
  ASSUME DtmfInv, [DtmfKeys!Next]_dtmfVars
  PROVE  DtmfInv'
<1>1. CASE UNCHANGED dtmfVars
  BY <1>1 DEF dtmfVars, DtmfInv, DtmfTyped, WorkerRuns, Queues, InHand, LastIsKept, NotTwice
<1>2. CASE DtmfKeys!Next
  BY <1>2, PressStep, ReceiveStep, PickStep, CallStep DEF DtmfKeys!Next
<1>. QED BY <1>1, <1>2

\* What the invariant says of keys.
LEMMA DtmfOK == DtmfInv => DtmfKeys!TypeOK /\ DtmfKeys!HeardAsQueued
<1> SUFFICES ASSUME DtmfInv PROVE DtmfKeys!TypeOK /\ DtmfKeys!HeardAsQueued
  OBVIOUS
<1>1. Len(workers) <= 2
  <2>1. workers = <<>> \/ \E k : workers = <<k>>
    BY DEF DtmfInv, DtmfTyped, WorkerRuns
  <2>2. CASE workers = <<>>
    BY <2>2
  <2>3. ASSUME NEW k, workers = <<k>> PROVE Len(workers) <= 2
    BY <2>3
  <2>. QED BY <2>1, <2>2, <2>3
<1>2. DtmfKeys!TypeOK
  BY <1>1 DEF DtmfInv, DtmfTyped, DtmfKeys!TypeOK, DtmfKeys!MaxWorkers
<1>3. DOMAIN heard = 1 .. Len(heard) /\ Len(heard) \in Nat /\ Len(pending) \in Nat /\ InHand \in {0, 1}
  BY DEF DtmfInv, DtmfTyped, InHand
<1>4. /\ Len(queued) = Len(heard) + InHand + Len(pending)
      /\ \A i \in 1 .. Len(heard) : heard[i] = queued[i]
  BY DEF DtmfInv, Queues
<1> DEFINE h == Len(heard)
           q == Len(queued)
           p == Len(pending)
<1>5. h \in Nat /\ q = h + InHand + p /\ p \in Nat /\ \A i \in 1 .. h : heard[i] = queued[i]
  BY <1>3, <1>4
<1> HIDE DEF h, q, p
<1>6. h <= q /\ \A i \in 1 .. h : i \in 1 .. q
  BY <1>3, <1>5
<1>7. ASSUME NEW i \in 1 .. h, NEW j \in 1 .. h, i < j, heard[i] = heard[j], heard[i][1] \in SipKeys
      PROVE  \E k \in i + 1 .. j - 1 : heard[k][1] = heard[i][1]
  <2>1. PICK k \in i + 1 .. j - 1 : queued[k][1] = queued[i][1]
    BY <1>5, <1>6, <1>7 DEF DtmfInv, NotTwice, q
  <2>2. k \in 1 .. h
    BY <1>5, <1>7
  <2>. QED BY <1>5, <2>1, <2>2
<1>8. DtmfKeys!HeardAsQueued
  BY <1>3, <1>4, <1>6, <1>7 DEF DtmfKeys!HeardAsQueued, h, q
<1>. QED BY <1>2, <1>8

-------------------------------------------------------------------------------
(* Timestamps.  A difference that the width can tell is the one that was meant.  *)

LEMMA RemainderIs ==
  ASSUME NEW m \in Nat, m > 0, NEW x \in Int
  PROVE  /\ x % m \in 0 .. m - 1
         /\ x \div m \in Int
         /\ x = m * (x \div m) + (x % m)
<1>1. x % m \in 0 .. m - 1 /\ x \div m \in Int
  OBVIOUS
<1>2. x = m * (x \div m) + (x % m)
  BY Z3T(30)
<1>. QED BY <1>1, <1>2

LEMMA RemainderOnly ==
  ASSUME NEW m \in Nat, m > 0, NEW x \in Int, NEW k \in Int, NEW r \in Int,
         x = m * k + r, r >= 0, r < m
  PROVE  x % m = r
OBVIOUS

\* What two timestamps differ by, as the unsigned and as the signed number.
LEMMA DifferenceIs ==
  ASSUME NEW m \in Nat, m > 0, NEW a \in Int, NEW b \in Int,
         - (m \div 2) <= a - b, a - b < m \div 2
  PROVE  LET d == ((a % m) - (b % m)) % m IN
           (IF d >= m \div 2 THEN d - m ELSE d) = a - b
<1> DEFINE ra == a % m
           rb == b % m
           ka == a \div m
           kb == b \div m
           h == m \div 2
           x == ra - rb
           d == x % m
<1>1. ra \in Int /\ ka \in Int /\ a = m * ka + ra
  BY RemainderIs
<1>2. rb \in Int /\ kb \in Int /\ b = m * kb + rb
  BY RemainderIs
<1>3. h \in Int /\ 2 * h <= m /\ m <= 2 * h + 1
  OBVIOUS
<1>4. - h <= a - b /\ a - b < h
  OBVIOUS
<1> HIDE DEF ra, rb, ka, kb, h
<1>5. x \in Int /\ x = (a - b) - m * (ka - kb)
  BY <1>1, <1>2
<1> HIDE DEF x
<1>6. (IF d >= h THEN d - m ELSE d) = a - b
  <2>1. CASE a - b >= 0
    <3>1. x = m * (kb - ka) + (a - b)
      BY <1>1, <1>2, <1>5
    <3>2. kb - ka \in Int /\ a - b \in Int /\ a - b < m
      BY <1>1, <1>2, <1>3, <1>4
    <3>3. d = a - b
      BY <1>5, <2>1, <3>1, <3>2, RemainderOnly
    <3> HIDE DEF d
    <3>. QED BY <1>3, <1>4, <3>3
  <2>2. CASE a - b < 0
    <3>1. x = m * (kb - ka - 1) + (a - b + m)
      BY <1>1, <1>2, <1>5
    <3>2. kb - ka - 1 \in Int /\ a - b + m \in Int /\ a - b + m < m /\ a - b + m >= 0
      BY <1>1, <1>2, <1>3, <1>4, <2>2
    <3>3. d = a - b + m
      BY <1>5, <3>1, <3>2, RemainderOnly
    <3>4. a - b + m >= h
      BY <1>3, <1>4
    <3> HIDE DEF d
    <3>. QED BY <1>3, <1>4, <3>3, <3>4
  <2>. QED BY <2>1, <2>2
<1>. QED BY <1>6 DEF ra, rb, h, x

-------------------------------------------------------------------------------
(* Playout.  The last packet has the position that the sender counted for it,    *)
(* what waits lies between the cursor and the end of what was written, and what  *)
(* was heard lies before both.                                                   *)

PositionTyped ==
  /\ clock \in Nat /\ anchored \in BOOLEAN /\ position \in Nat /\ primed \in BOOLEAN
  /\ lastTS \in 0 .. Playout!Modulus - 1

SenderFollowed ==
  /\ ~anchored => clock = 0
  /\ anchored => /\ \E len \in Sizes : position + len = clock
                 /\ lastTS = (Start + position) % Playout!Modulus

WrittenTyped ==
  /\ cursor \in 0 .. MaxPos /\ maxWritten \in 0 .. MaxPos
  /\ lateRunSamples \in 0 .. LateRun - 1
  /\ samples \subseteq Int /\ lastHeard \in Int

WaitsInWindow == \A p \in samples : cursor <= p /\ p < maxWritten

HeardBefore == lastHeard < cursor /\ lastHeard < maxWritten

PlayInv == PositionTyped /\ SenderFollowed /\ WrittenTyped /\ WaitsInWindow /\ HeardBefore

LEMMA PlayNumbers ==
  /\ Playout!Modulus \in Nat /\ Playout!Modulus > 0
  /\ {Start, Capacity, MaxPos, Ahead, Back, LateRun} \subseteq Nat /\ LateRun > 0
  /\ Sizes \subseteq Nat
<1>1. 2 ^ Width \in Nat \ {0} /\ LateRun \in Nat \ {0} /\ Sizes \subseteq Nat
      /\ {Start, Capacity, MaxPos, Ahead, Back} \subseteq Nat
  BY TimestampAssumption
<1>. QED BY <1>1 DEF Playout!Modulus

LEMMA PlayInitInv == Playout!Init => PlayInv
<1> SUFFICES ASSUME Playout!Init PROVE PlayInv
  OBVIOUS
<1> USE DEF Playout!Init
<1>1. PositionTyped
  <2>1. 0 \in 0 .. Playout!Modulus - 1
    BY PlayNumbers
  <2>. QED BY <2>1 DEF PositionTyped
<1>3. SenderFollowed
  BY DEF SenderFollowed
<1>2. WrittenTyped /\ WaitsInWindow /\ HeardBefore
  BY PlayNumbers DEF WrittenTyped, WaitsInWindow, HeardBefore
<1>. QED BY <1>1, <1>2, <1>3 DEF PlayInv

\* rtpSampleIndex gives back what the sender counted, whether the timestamp
\* wrapped or not.
LEMMA IndexIsSent ==
  ASSUME PlayInv, anchored, NEW jump \in -Back .. Ahead, clock + jump >= 0
  PROVE  position + Playout!Index((Start + (clock + jump)) % Playout!Modulus, lastTS) = clock + jump
<1>1. PICK len \in Sizes : position + len = clock
  BY DEF PlayInv, SenderFollowed
<1>2. /\ position \in Nat /\ len \in Nat /\ clock \in Nat /\ jump \in Int /\ Start \in Nat
      /\ lastTS = (Start + position) % Playout!Modulus
  BY PlayNumbers DEF PlayInv, PositionTyped, SenderFollowed
<1>3. - (Playout!Modulus \div 2) <= len + jump /\ len + jump < Playout!Modulus \div 2
  BY TimestampAssumption DEF Playout!Modulus
<1> DEFINE a == Start + (clock + jump)
           b == Start + position
           m == Playout!Modulus
<1>4. a \in Int /\ b \in Int /\ a - b = len + jump
  BY <1>1, <1>2
<1>5. m \in Nat /\ m > 0 /\ - (m \div 2) <= a - b /\ a - b < m \div 2
  BY <1>3, <1>4, PlayNumbers
<1>6. Playout!Index(a % m, b % m) = LET d == ((a % m) - (b % m)) % m IN IF d >= m \div 2 THEN d - m ELSE d
  BY DEF Playout!Index
<1> HIDE DEF a, b, m
<1>7. Playout!Index(a % m, b % m) = a - b
  BY <1>4, <1>5, <1>6, DifferenceIs
<1>8. position + (a - b) = clock + jump
  BY <1>1, <1>2, <1>4
<1>. QED BY <1>2, <1>7, <1>8 DEF a, b, m

LEMMA PacketStep ==
  ASSUME PlayInv, NEW len \in Sizes, NEW jump \in -Back .. Ahead, Playout!Packet(len, jump)
  PROVE  PlayInv'
<1> DEFINE at == clock + jump
           end == at + len
           from == Playout!Overflow(end)
           run == IF Playout!Late(at, end) THEN lateRunSamples + len ELSE 0
<1>1. /\ at >= 0 /\ end <= MaxPos /\ (anchored \/ jump = 0)
      /\ clock' = end /\ anchored' = TRUE /\ lastTS' = (Start + at) % Playout!Modulus
      /\ position' = IF anchored THEN position + Playout!Index((Start + at) % Playout!Modulus, lastTS) ELSE 0
      /\ lastHeard' = lastHeard /\ Playout!Accept(position', len)
  BY DEF Playout!Packet
<1>2. /\ len \in Nat /\ at \in Nat /\ end \in Nat /\ end = at + len /\ Start \in Nat
      /\ clock \in Nat
  BY <1>1, PlayNumbers DEF PlayInv, PositionTyped
<1>3. position' = at
  <2>1. CASE anchored
    BY <1>1, <2>1, IndexIsSent
  <2>2. CASE ~anchored
    BY <1>1, <2>2 DEF PlayInv, SenderFollowed
  <2>. QED BY <2>1, <2>2
<1>4. PositionTyped'
  <2>1. Start + at \in Int
    BY <1>2
  <2>2. (Start + at) % Playout!Modulus \in 0 .. Playout!Modulus - 1
    BY <2>1, PlayNumbers, RemainderIs
  <2>3. primed' \in BOOLEAN
    BY <1>1 DEF Playout!Accept, PlayInv, PositionTyped
  <2>. QED BY <1>1, <1>2, <1>3, <2>2, <2>3 DEF PositionTyped, Playout!Modulus
<1>5. SenderFollowed'
  BY <1>1, <1>2, <1>3 DEF SenderFollowed, Playout!Modulus
<1>6. /\ cursor \in Nat /\ maxWritten \in Nat /\ cursor <= MaxPos /\ maxWritten <= MaxPos
      /\ lateRunSamples \in Nat /\ lateRunSamples < LateRun /\ samples \subseteq Int /\ lastHeard \in Int
      /\ lastHeard < cursor /\ lastHeard < maxWritten
      /\ \A p \in samples : cursor <= p /\ p < maxWritten
      /\ MaxPos \in Nat /\ Capacity \in Nat /\ LateRun \in Nat /\ LateRun > 0
  BY PlayNumbers DEF PlayInv, WrittenTyped, WaitsInWindow, HeardBefore
<1>7. /\ IF run >= LateRun
           THEN /\ cursor' = end /\ maxWritten' = end /\ samples' = {} /\ lateRunSamples' = 0
           ELSE /\ cursor' = from /\ maxWritten' = IF end > maxWritten THEN end ELSE maxWritten
                /\ samples' = {p \in samples \union at .. end - 1 : p >= from}
                /\ lateRunSamples' = run
  BY <1>1, <1>3 DEF Playout!Accept
<1>8. run \in Nat /\ (run >= LateRun => at >= maxWritten)
  BY <1>2, <1>6 DEF Playout!Late
<1>9. from \in Nat /\ cursor <= from /\ from <= MaxPos
  BY <1>1, <1>2, <1>6 DEF Playout!Overflow
<1> HIDE DEF at, end, from, run
<1>10. CASE run >= LateRun
  <2>1. cursor' = end /\ maxWritten' = end /\ samples' = {} /\ lateRunSamples' = 0
    BY <1>7, <1>10
  <2>2. lastHeard < end
    BY <1>2, <1>6, <1>8, <1>10
  <2>3. WrittenTyped'
    BY <1>1, <1>2, <1>6, <2>1 DEF WrittenTyped
  <2>4. WaitsInWindow' /\ HeardBefore'
    BY <1>1, <2>1, <2>2 DEF WaitsInWindow, HeardBefore
  <2>. QED BY <1>4, <1>5, <2>3, <2>4 DEF PlayInv
<1>11. CASE ~(run >= LateRun)
  <2> DEFINE w == IF end > maxWritten THEN end ELSE maxWritten
  <2>1. /\ cursor' = from /\ maxWritten' = w /\ lateRunSamples' = run
        /\ samples' = {p \in samples \union at .. end - 1 : p >= from}
    BY <1>7, <1>11
  <2>2. w \in Nat /\ w <= MaxPos /\ end <= w /\ maxWritten <= w
    BY <1>1, <1>2, <1>6
  <2> HIDE DEF w
  <2>3. \A p \in samples' : p \in Int /\ from <= p /\ p < w
    <3>1. \A p \in samples : p \in Int /\ p < w
      BY <1>6, <2>2
    <3>2. \A p \in at .. end - 1 : p \in Int /\ p < w
      BY <1>2, <2>2
    <3>. QED BY <1>9, <2>1, <3>1, <3>2
  <2>4. WrittenTyped'
    <3>1. cursor' \in 0 .. MaxPos /\ maxWritten' \in 0 .. MaxPos
      BY <1>6, <1>9, <2>1, <2>2
    <3>2. lateRunSamples' \in 0 .. LateRun - 1
      BY <1>6, <1>8, <1>11, <2>1
    <3>3. samples' \subseteq Int /\ lastHeard' \in Int
      BY <1>1, <1>6, <2>3
    <3>. QED BY <3>1, <3>2, <3>3 DEF WrittenTyped
  <2>5. WaitsInWindow'
    BY <2>1, <2>3 DEF WaitsInWindow
  <2>6. HeardBefore'
    BY <1>1, <1>6, <1>9, <2>1, <2>2 DEF HeardBefore
  <2>. QED BY <1>4, <1>5, <2>4, <2>5, <2>6 DEF PlayInv
<1>. QED BY <1>10, <1>11

LEMMA PullSampleStep ==
  ASSUME PlayInv, Playout!Pull
  PROVE  PlayInv'
<1>1. /\ cursor < MaxPos /\ cursor' = cursor + 1 /\ samples' = samples \ {cursor}
      /\ lastHeard' = IF cursor \in samples THEN cursor ELSE lastHeard
      /\ UNCHANGED <<clock, anchored, lastTS, position, maxWritten, lateRunSamples, primed>>
  BY DEF Playout!Pull
<1>2. /\ cursor \in Nat /\ maxWritten \in Nat /\ samples \subseteq Int /\ lastHeard \in Int
      /\ lastHeard < cursor /\ lastHeard < maxWritten
      /\ \A p \in samples : cursor <= p /\ p < maxWritten
      /\ MaxPos \in Nat
  BY PlayNumbers DEF PlayInv, WrittenTyped, WaitsInWindow, HeardBefore
<1>3. PositionTyped' /\ SenderFollowed'
  BY <1>1 DEF PlayInv, PositionTyped, SenderFollowed, Playout!Modulus
<1>4. WrittenTyped'
  BY <1>1, <1>2 DEF PlayInv, WrittenTyped
<1>5. WaitsInWindow'
  BY <1>1, <1>2 DEF WaitsInWindow
<1>6. HeardBefore'
  BY <1>1, <1>2 DEF HeardBefore
<1>. QED BY <1>3, <1>4, <1>5, <1>6 DEF PlayInv

LEMMA PlayInductive ==
  ASSUME PlayInv, [Playout!Next]_playVars
  PROVE  PlayInv'
<1>1. CASE UNCHANGED playVars
  BY <1>1 DEF playVars, PlayInv, PositionTyped, SenderFollowed, WrittenTyped, WaitsInWindow, HeardBefore, Playout!Modulus
<1>2. CASE Playout!Primed
  BY <1>2 DEF Playout!Primed, PlayInv, PositionTyped, SenderFollowed, WrittenTyped, WaitsInWindow, HeardBefore, Playout!Modulus
<1>. QED BY <1>1, <1>2, PacketStep, PullSampleStep DEF Playout!Next

\* What the invariant says of the buffer.
LEMMA PlayOK == PlayInv => Playout!TypeOK /\ Playout!PositionIsSent /\ Playout!HeardForward
<1> SUFFICES ASSUME PlayInv PROVE Playout!TypeOK /\ Playout!PositionIsSent /\ Playout!HeardForward
  OBVIOUS
<1>1. Playout!TypeOK
  BY DEF PlayInv, PositionTyped, WrittenTyped, Playout!TypeOK
<1>2. Playout!PositionIsSent
  BY DEF PlayInv, SenderFollowed, Playout!PositionIsSent
<1>3. Playout!HeardForward
  <2> SUFFICES ASSUME NEW p \in samples PROVE p > lastHeard
    BY DEF Playout!HeardForward
  <2>1. p \in Int /\ cursor \in Int /\ cursor <= p /\ lastHeard < cursor /\ lastHeard \in Int
    BY DEF PlayInv, WrittenTyped, WaitsInWindow, HeardBefore
  <2>. QED BY <2>1
<1>. QED BY <1>1, <1>2, <1>3

-------------------------------------------------------------------------------
(* SIP.  A session that is over has returned its socket or an end of it is on    *)
(* its way, a confirmed one has said BYE only if it has ended, and the gate      *)
(* stands for the one dialog that came in and is not answered yet.               *)

InProgress == {"offered", "accepted", "prack", "checked", "answered"}

InStates == {"idle", "up", "failed"} \union InProgress
OutStates == {"idle", "opened", "inviting", "answered", "up", "failed"}

EndingRecords == [d: Sip!Dialogs, hop: 0 .. MaxHops + 1, by: {"room", "leg", "peer"}]

\* Of a session s of the dialog d with b BYEs, where the ends E are on their way.
SessionOK(d, s, b, E) ==
  /\ s.at = "idle" => s = Sip!Fresh /\ \A e \in E : e.d # d
  /\ s.confirmed => s.at = "up"
  /\ b = 0 \/ (b = 1 /\ s.confirmed /\ s.ended)
  /\ s.ended => s.rtp = "closed"
  /\ s.at = "failed" => s.rtp = "closed" \/ \E e \in E : e.d = d
  /\ d \in InDialogs /\ s.at # "idle" /\ ~s.indexed => s.rtp = "closed"
  /\ s.at = "opened" => s.hop <= MaxHops
  /\ s.at \in IF d \in InDialogs THEN InStates ELSE OutStates

SipTyped ==
  /\ dlg \in [Sip!Dialogs -> Sip!Session] /\ endings \subseteq EndingRecords
  /\ byes \in [Sip!Dialogs -> Nat]

SessionsOK == \A d \in Sip!Dialogs : SessionOK(d, dlg[d], byes[d], endings)

GateTyped ==
  /\ roomState \in {"none", "open", "closing", "closed"}
  /\ gate \in BOOLEAN /\ deferred \in 0 .. MaxDefers /\ ran \in 0 .. MaxDefers

GateOK ==
  /\ \A d, e \in InDialogs : dlg[d].at # "idle" /\ dlg[e].at # "idle" => d = e
  /\ gate <=> \E d \in InDialogs : dlg[d].at \in InProgress
  /\ ~gate => deferred = 0
  /\ gate => ran = 0
  /\ ran > 0 => \E d \in InDialogs : dlg[d].at = "up"
  /\ roomState = "none" => \A d \in InDialogs : dlg[d].at \in {"idle", "offered"}

SipInv == SipTyped /\ SessionsOK /\ GateTyped /\ GateOK

LEMMA DialogsDisjoint ==
  /\ InDialogs \subseteq Sip!Dialogs /\ OutDialogs \subseteq Sip!Dialogs
  /\ \A d \in OutDialogs : d \notin InDialogs
  /\ MaxHops \in Nat /\ MaxDefers \in Nat
BY MediaAssumption DEF Sip!Dialogs

LEMMA FreshIs ==
  /\ Sip!Fresh \in Sip!Session /\ Sip!Fresh.at = "idle" /\ Sip!Fresh.hop = 0 /\ ~Sip!Fresh.ended
  /\ ~Sip!Fresh.confirmed /\ ~Sip!Fresh.indexed /\ Sip!Fresh.rtp = "none" /\ Sip!Fresh.peer = "none"
<1>1. 0 \in 0 .. MaxHops + 1
  BY DialogsDisjoint
<1>. QED BY <1>1 DEF Sip!Fresh, Sip!Session

LEMMA SipInitInv == Sip!Init => SipInv
<1> SUFFICES ASSUME Sip!Init PROVE SipInv
  OBVIOUS
<1> USE DEF Sip!Init
<1>1. SipTyped
  BY FreshIs DEF SipTyped
<1>2. SessionsOK
  <2> SUFFICES ASSUME NEW d \in Sip!Dialogs PROVE SessionOK(d, dlg[d], byes[d], endings)
    BY DEF SessionsOK
  <2>1. dlg[d] = Sip!Fresh /\ byes[d] = 0 /\ endings = {}
    OBVIOUS
  <2>2. SessionOK(d, Sip!Fresh, 0, {})
    BY FreshIs DEF SessionOK, InStates, OutStates
  <2>. QED BY <2>1, <2>2
<1>3. GateTyped
  <2>1. 0 \in 0 .. MaxDefers
    BY DialogsDisjoint
  <2>. QED BY <2>1 DEF GateTyped
<1>4. GateOK
  BY FreshIs, DialogsDisjoint DEF GateOK, InProgress
<1>. QED BY <1>1, <1>2, <1>3, <1>4 DEF SipInv

\* The ends of the dialogs that the tables hold.
LEMMA EndingIs ==
  ASSUME SipInv, NEW S \in SUBSET Sip!Dialogs, NEW by \in {"room", "leg", "peer"}
  PROVE  /\ Sip!Ending(S, by) \subseteq EndingRecords
         /\ \A e \in Sip!Ending(S, by) : e.d \in S /\ dlg[e.d].indexed
         /\ \A d \in S : dlg[d].indexed => \E e \in Sip!Ending(S, by) : e.d = d
<1>1. \A d \in Sip!Dialogs : dlg[d].hop \in 0 .. MaxHops + 1
  BY DEF SipInv, SipTyped, Sip!Session
<1>2. ASSUME NEW d \in S
      PROVE  [d |-> d, hop |-> dlg[d].hop, by |-> by] \in EndingRecords
  BY <1>1 DEF EndingRecords
<1>3. \A d \in S : [d |-> d, hop |-> dlg[d].hop, by |-> by].d = d
  OBVIOUS
<1>. QED BY <1>2, <1>3 DEF Sip!Ending

\* New ends of indexed sessions: what they may be.
MoreEndings ==
  \/ endings' = endings
  \/ \E S \in SUBSET Sip!Dialogs, by \in {"room", "leg", "peer"} : endings' = endings \union Sip!Ending(S, by)

LEMMA MoreEndingsAre ==
  ASSUME SipInv, MoreEndings
  PROVE  /\ endings' \subseteq EndingRecords /\ endings \subseteq endings'
         /\ \A e \in endings' : e \in endings \/ dlg[e.d].indexed
<1>1. endings \subseteq EndingRecords
  BY DEF SipInv, SipTyped
<1>2. CASE endings' = endings
  BY <1>1, <1>2
<1>3. CASE \E S \in SUBSET Sip!Dialogs, by \in {"room", "leg", "peer"} : endings' = endings \union Sip!Ending(S, by)
  <2>1. PICK S \in SUBSET Sip!Dialogs, by \in {"room", "leg", "peer"} : endings' = endings \union Sip!Ending(S, by)
    BY <1>3
  <2>2. /\ Sip!Ending(S, by) \subseteq EndingRecords
        /\ \A e \in Sip!Ending(S, by) : dlg[e.d].indexed
    BY EndingIs
  <2>. QED BY <1>1, <2>1, <2>2
<1>. QED BY <1>2, <1>3 DEF MoreEndings

\* What is known of a session.
LEMMA SessionIs ==
  ASSUME SipInv, MoreEndings, NEW d \in Sip!Dialogs
  PROVE  /\ dlg[d] \in Sip!Session
         /\ SessionOK(d, dlg[d], byes[d], endings) /\ SessionOK(d, dlg[d], byes[d], endings')
<1>1. dlg[d] \in Sip!Session /\ SessionOK(d, dlg[d], byes[d], endings)
  BY DEF SipInv, SipTyped, SessionsOK
<1>2. endings \subseteq endings' /\ \A e \in endings' : e \in endings \/ dlg[e.d].indexed
  BY MoreEndingsAre
<1>3. dlg[d].at = "idle" => dlg[d] = Sip!Fresh /\ \A e \in endings' : e.d # d
  BY <1>1, <1>2, FreshIs DEF SessionOK
<1>4. dlg[d].at = "failed" => dlg[d].rtp = "closed" \/ \E e \in endings' : e.d = d
  BY <1>1, <1>2 DEF SessionOK
<1>5. SessionOK(d, dlg[d], byes[d], endings')
  BY <1>1, <1>3, <1>4 DEF SessionOK
<1>. QED BY <1>1, <1>5

\* A session that does not change stays as it must be.
LEMMA SessionStays ==
  ASSUME SipInv, MoreEndings, NEW d \in Sip!Dialogs, dlg'[d] = dlg[d], byes'[d] = byes[d]
  PROVE  SessionOK(d, dlg'[d], byes'[d], endings')
BY SessionIs

\* One session changes and no BYE is sent.
LEMMA SessionStep ==
  ASSUME SipInv, MoreEndings, NEW d \in Sip!Dialogs, NEW s \in Sip!Session,
         dlg' = [dlg EXCEPT ![d] = s], byes' = byes, SessionOK(d, s, byes[d], endings')
  PROVE  SipTyped' /\ SessionsOK'
<1>1. SipTyped'
  BY MoreEndingsAre DEF SipInv, SipTyped, EndingRecords, Sip!Dialogs, Sip!Session
<1>2. ASSUME NEW x \in Sip!Dialogs
      PROVE  SessionOK(x, dlg'[x], byes'[x], endings')
  <2>1. dlg \in [Sip!Dialogs -> Sip!Session]
    BY DEF SipInv, SipTyped
  <2>2. CASE x = d
    <3>1. dlg'[x] = s /\ byes'[x] = byes[d]
      BY <2>1, <2>2
    <3>. QED BY <2>2, <3>1
  <2>3. CASE x # d
    <3>1. dlg'[x] = dlg[x] /\ byes'[x] = byes[x]
      BY <2>1, <2>3
    <3>. QED BY <3>1, SessionStays
  <2>. QED BY <2>2, <2>3
<1>3. SessionsOK'
  BY <1>2 DEF SessionsOK, Sip!Dialogs
<1>. QED BY <1>1, <1>3

\* No session changes.
LEMMA SessionsStay ==
  ASSUME SipInv, MoreEndings, dlg' = dlg, byes' = byes
  PROVE  SipTyped' /\ SessionsOK'
<1>1. SipTyped'
  BY MoreEndingsAre DEF SipInv, SipTyped, EndingRecords, Sip!Dialogs, Sip!Session
<1>2. ASSUME NEW x \in Sip!Dialogs
      PROVE  SessionOK(x, dlg'[x], byes'[x], endings')
  BY SessionStays
<1>3. SessionsOK'
  BY <1>2 DEF SessionsOK, Sip!Dialogs
<1>. QED BY <1>1, <1>3

-------------------------------------------------------------------------------

\* The dialogs that came in stay where they are, or in progress.
LEMMA GateStays ==
  ASSUME SipInv, UNCHANGED <<gate, ran>>, deferred' = deferred \/ (gate /\ deferred' \in 0 .. MaxDefers),
         roomState' \in {"open", "closing", "closed"} \/ roomState' = roomState,
         \A x \in InDialogs : \/ dlg'[x].at = dlg[x].at
                              \/ /\ dlg[x].at \in InProgress /\ dlg'[x].at \in InProgress
                                 /\ roomState' # "none"
  PROVE  GateTyped' /\ GateOK'
<1>1. GateTyped /\ GateOK
  BY DEF SipInv
<1>2. GateTyped'
  BY <1>1 DEF GateTyped
<1>3. \A d, e \in InDialogs : dlg'[d].at # "idle" /\ dlg'[e].at # "idle" => d = e
  BY <1>1 DEF GateOK, InProgress
<1>4. gate' <=> \E d \in InDialogs : dlg'[d].at \in InProgress
  BY <1>1 DEF GateOK
<1>5. ran' > 0 => \E d \in InDialogs : dlg'[d].at = "up"
  BY <1>1 DEF GateOK, InProgress
<1>6. roomState' = "none" => \A d \in InDialogs : dlg'[d].at \in {"idle", "offered"}
  BY <1>1 DEF GateOK
<1>7. (~gate' => deferred' = 0) /\ (gate' => ran' = 0)
  BY <1>1 DEF GateOK
<1>. QED BY <1>2, <1>3, <1>4, <1>5, <1>6, <1>7 DEF GateOK

\* The one that is in progress is answered or fails.
LEMMA GateEnds ==
  ASSUME SipInv, NEW d \in InDialogs, dlg[d].at \in InProgress, dlg'[d].at \in {"up", "failed"},
         \A x \in InDialogs : x # d => dlg'[x].at = dlg[x].at,
         gate' = FALSE, deferred' = 0, ran' = ran \/ (ran' = ran + deferred /\ dlg'[d].at = "up"),
         \/ roomState' \in {"open", "closing", "closed"}
         \/ roomState' = roomState /\ dlg[d].at # "offered"
  PROVE  GateTyped' /\ GateOK'
<1>1. GateTyped /\ GateOK
  BY DEF SipInv
<1>2. \A x \in InDialogs : x # d => dlg[x].at = "idle" /\ dlg'[x].at = "idle"
  BY <1>1 DEF GateOK, InProgress
<1>3. gate /\ ran = 0 /\ deferred \in 0 .. MaxDefers
  BY <1>1 DEF GateOK, GateTyped
<1>4. roomState' \in {"open", "closing", "closed"}
  <2>1. roomState = "none" => dlg[d].at \in {"idle", "offered"}
    BY <1>1 DEF GateOK
  <2>2. dlg[d].at # "idle"
    BY DEF InProgress
  <2>3. roomState \in {"none", "open", "closing", "closed"}
    BY <1>1 DEF GateTyped
  <2>. QED BY <2>1, <2>2, <2>3
<1>5. ran' \in 0 .. MaxDefers
  <2>1. 0 \in 0 .. MaxDefers /\ 0 + deferred = deferred
    BY <1>3, DialogsDisjoint
  <2>2. ran' = 0 \/ ran' = 0 + deferred
    BY <1>3
  <2>. QED BY <1>3, <2>1, <2>2
<1>6. GateTyped'
  <2>1. 0 \in 0 .. MaxDefers
    BY DialogsDisjoint
  <2>2. gate' \in BOOLEAN /\ deferred' \in 0 .. MaxDefers
    BY <2>1
  <2>. QED BY <1>4, <1>5, <2>2 DEF GateTyped
<1>7. \A x \in InDialogs : dlg'[x].at \notin InProgress
  BY <1>2 DEF InProgress
<1>8. ran' > 0 => dlg'[d].at = "up"
  BY <1>3
<1>. QED BY <1>2, <1>4, <1>6, <1>7, <1>8 DEF GateOK

\* A session that moves, and the gate stays.
LEMMA SessionMoves ==
  ASSUME SipInv, MoreEndings, NEW d \in Sip!Dialogs, NEW s \in Sip!Session,
         dlg' = [dlg EXCEPT ![d] = s], byes' = byes, SessionOK(d, s, byes[d], endings'),
         \/ d \notin InDialogs
         \/ s.at = dlg[d].at
         \/ dlg[d].at \in InProgress /\ s.at \in InProgress /\ roomState' # "none",
         UNCHANGED <<gate, deferred, ran>>,
         roomState' \in {"open", "closing", "closed"} \/ roomState' = roomState
  PROVE  SipInv'
<1>1. SipTyped' /\ SessionsOK'
  BY SessionStep
<1>2. dlg'[d] = s /\ \A x \in Sip!Dialogs : x # d => dlg'[x] = dlg[x]
  BY DEF SipInv, SipTyped
<1>3. \A x \in InDialogs : \/ dlg'[x].at = dlg[x].at
                           \/ /\ dlg[x].at \in InProgress /\ dlg'[x].at \in InProgress
                              /\ roomState' # "none"
  BY <1>2, DialogsDisjoint
<1>4. GateTyped' /\ GateOK'
  BY <1>3, GateStays
<1>. QED BY <1>1, <1>4 DEF SipInv

\* The session that came in is answered or fails.
LEMMA SessionEnds ==
  ASSUME SipInv, MoreEndings, NEW d \in InDialogs, NEW s \in Sip!Session,
         dlg' = [dlg EXCEPT ![d] = s], byes' = byes, SessionOK(d, s, byes[d], endings'),
         dlg[d].at \in InProgress, s.at \in {"up", "failed"},
         gate' = FALSE, deferred' = 0, ran' = ran \/ (ran' = ran + deferred /\ s.at = "up"),
         \/ roomState' \in {"open", "closing", "closed"}
         \/ roomState' = roomState /\ dlg[d].at # "offered"
  PROVE  SipInv'
<1>1. SipTyped' /\ SessionsOK'
  BY SessionStep, DialogsDisjoint
<1>2. dlg'[d] = s /\ \A x \in InDialogs : x # d => dlg'[x] = dlg[x]
  BY DialogsDisjoint DEF SipInv, SipTyped
<1>3. GateTyped' /\ GateOK'
  BY <1>2, GateEnds
<1>. QED BY <1>1, <1>3 DEF SipInv

LEMMA RoomIsThere ==
  ASSUME SipInv, NEW d \in InDialogs, dlg[d].at \in InProgress, dlg[d].at # "offered"
  PROVE  roomState # "none"
BY DEF SipInv, GateOK, InProgress

-------------------------------------------------------------------------------

LEMMA InvitedStep ==
  ASSUME SipInv, NEW d \in InDialogs, Sip!Invited(d)
  PROVE  SipInv'
<1> DEFINE s == [dlg[d] EXCEPT !.at = "offered", !.rtp = "open", !.indexed = TRUE, !.peer = "ringing"]
<1>1. /\ dlg[d].at = "idle" /\ roomState = "none" /\ ~gate /\ dlg' = [dlg EXCEPT ![d] = s] /\ gate' = TRUE
      /\ UNCHANGED <<endings, roomState, deferred, ran, byes>>
  BY DEF Sip!Invited, Sip!Set
<1>2. d \in Sip!Dialogs /\ MoreEndings
  BY <1>1, DialogsDisjoint DEF MoreEndings
<1>3. dlg[d] \in Sip!Session /\ SessionOK(d, dlg[d], byes[d], endings')
  BY <1>2, SessionIs
<1>4. /\ s \in Sip!Session /\ s.at = "offered" /\ s.indexed
      /\ s.ended = dlg[d].ended /\ s.confirmed = dlg[d].confirmed
  BY <1>3 DEF Sip!Session
<1> HIDE DEF s
<1>5. ~dlg[d].ended /\ ~dlg[d].confirmed
  BY <1>1, <1>3, FreshIs DEF SessionOK
<1>6. SessionOK(d, s, byes[d], endings')
  BY <1>3, <1>4, <1>5 DEF SessionOK, InStates, InProgress
<1>7. SipTyped' /\ SessionsOK'
  BY <1>1, <1>2, <1>4, <1>6, SessionStep
<1>8. dlg'[d] = s /\ \A x \in InDialogs : x # d => dlg'[x] = dlg[x]
  BY <1>1, DialogsDisjoint DEF SipInv, SipTyped
<1>9. GateTyped /\ GateOK
  BY DEF SipInv
<1>10. \A x \in InDialogs : x # d => dlg'[x].at = "idle"
  BY <1>1, <1>8, <1>9 DEF GateOK, InProgress
<1>11. ran = 0
  BY <1>1, <1>9 DEF GateOK, GateTyped
<1>12. GateTyped'
  BY <1>1, <1>9 DEF GateTyped
<1>13. GateOK'
  BY <1>1, <1>4, <1>8, <1>10, <1>11 DEF GateOK, InProgress
<1>. QED BY <1>7, <1>12, <1>13 DEF SipInv

LEMMA HandlerStep ==
  ASSUME SipInv, NEW d \in InDialogs, Sip!HandlerReturns(d)
  PROVE  SipInv'
<1>1. dlg[d].at = "offered" /\ UNCHANGED <<endings, byes>>
  BY DEF Sip!HandlerReturns
<1>2. d \in Sip!Dialogs /\ MoreEndings
  BY <1>1, DialogsDisjoint DEF MoreEndings
<1>3. dlg[d] \in Sip!Session /\ SessionOK(d, dlg[d], byes[d], endings')
  BY <1>2, SessionIs
<1>4. CASE /\ Sip!Set(d, [dlg[d] EXCEPT !.at = "accepted"])
           /\ roomState' = "open" /\ UNCHANGED <<gate, deferred, ran>>
  <2> DEFINE s == [dlg[d] EXCEPT !.at = "accepted"]
  <2>1. dlg' = [dlg EXCEPT ![d] = s]
    BY <1>4 DEF Sip!Set
  <2>2. /\ s \in Sip!Session /\ s.at = "accepted" /\ s.indexed = dlg[d].indexed /\ s.rtp = dlg[d].rtp
        /\ s.ended = dlg[d].ended /\ s.confirmed = dlg[d].confirmed
    BY <1>3 DEF Sip!Session
  <2> HIDE DEF s
  <2>3. SessionOK(d, s, byes[d], endings')
    BY <1>1, <1>3, <2>2 DEF SessionOK, InStates, InProgress
  <2>4. dlg[d].at \in InProgress /\ s.at \in InProgress /\ roomState' # "none"
    BY <1>1, <1>4, <2>2 DEF InProgress
  <2>. QED BY <1>1, <1>2, <1>4, <2>1, <2>2, <2>3, <2>4, SessionMoves
<1>5. CASE /\ Sip!Set(d, [dlg[d] EXCEPT !.at = "failed", !.indexed = FALSE, !.rtp = "closed", !.peer = "gone"])
           /\ roomState' = "closed" /\ Sip!Finish(FALSE)
  <2> DEFINE s == [dlg[d] EXCEPT !.at = "failed", !.indexed = FALSE, !.rtp = "closed", !.peer = "gone"]
  <2>1. /\ dlg' = [dlg EXCEPT ![d] = s] /\ gate' = FALSE /\ deferred' = 0 /\ ran' = ran + 0
    BY <1>5 DEF Sip!Set, Sip!Finish
  <2>2. /\ s \in Sip!Session /\ s.at = "failed" /\ s.rtp = "closed"
        /\ s.ended = dlg[d].ended /\ s.confirmed = dlg[d].confirmed
    BY <1>3 DEF Sip!Session
  <2> HIDE DEF s
  <2>3. SessionOK(d, s, byes[d], endings')
    BY <1>1, <1>3, <2>2 DEF SessionOK, InStates, InProgress
  <2>4. ran' = ran
    BY <2>1 DEF SipInv, GateTyped
  <2>5. dlg[d].at \in InProgress
    BY <1>1 DEF InProgress
  <2>. QED BY <1>1, <1>2, <1>5, <2>1, <2>2, <2>3, <2>4, <2>5, SessionEnds
<1>. QED BY <1>4, <1>5 DEF Sip!HandlerReturns

LEMMA CheckEndedStep ==
  ASSUME SipInv, NEW d \in InDialogs, Sip!CheckEnded(d)
  PROVE  SipInv'
<1>1. dlg[d].at = "accepted" /\ UNCHANGED <<endings, roomState, byes>>
  BY DEF Sip!CheckEnded
<1>2. d \in Sip!Dialogs /\ MoreEndings
  BY <1>1, DialogsDisjoint DEF MoreEndings
<1>3. dlg[d] \in Sip!Session /\ SessionOK(d, dlg[d], byes[d], endings')
  BY <1>2, SessionIs
<1>4. dlg[d].at \in InProgress /\ roomState # "none"
  BY <1>1, RoomIsThere DEF InProgress
<1>5. CASE dlg[d].ended
  <2> DEFINE s == [dlg[d] EXCEPT !.at = "failed", !.peer = "gone"]
  <2>1. /\ dlg' = [dlg EXCEPT ![d] = s] /\ gate' = FALSE /\ deferred' = 0 /\ ran' = ran + 0
    BY <1>5 DEF Sip!CheckEnded, Sip!Set, Sip!Finish
  <2>2. /\ s \in Sip!Session /\ s.at = "failed" /\ s.rtp = dlg[d].rtp
        /\ s.ended = dlg[d].ended /\ s.confirmed = dlg[d].confirmed
    BY <1>3 DEF Sip!Session
  <2> HIDE DEF s
  <2>3. SessionOK(d, s, byes[d], endings')
    BY <1>1, <1>3, <1>5, <2>2 DEF SessionOK, InStates, InProgress
  <2>4. ran' = ran
    BY <2>1 DEF SipInv, GateTyped
  <2>. QED BY <1>1, <1>2, <1>4, <2>1, <2>2, <2>3, <2>4, SessionEnds
<1>6. CASE ~dlg[d].ended
  <2>1. PICK to \in {"prack", "checked"} : Sip!Set(d, [dlg[d] EXCEPT !.at = to])
    BY <1>6 DEF Sip!CheckEnded
  <2> DEFINE s == [dlg[d] EXCEPT !.at = to]
  <2>2. dlg' = [dlg EXCEPT ![d] = s] /\ UNCHANGED <<gate, deferred, ran>>
    BY <1>6, <2>1 DEF Sip!CheckEnded, Sip!Set
  <2>3. /\ s \in Sip!Session /\ s.at = to /\ s.indexed = dlg[d].indexed /\ s.rtp = dlg[d].rtp
        /\ s.ended = dlg[d].ended /\ s.confirmed = dlg[d].confirmed
    BY <1>3 DEF Sip!Session
  <2> HIDE DEF s
  <2>4. SessionOK(d, s, byes[d], endings')
    BY <1>1, <1>3, <2>3 DEF SessionOK, InStates, InProgress
  <2>5. s.at \in InProgress
    BY <2>3 DEF InProgress
  <2>. QED BY <1>1, <1>2, <1>4, <2>2, <2>3, <2>4, <2>5, SessionMoves
<1>. QED BY <1>5, <1>6

\* What fails ends every dialog that the tables hold, its own too.
LEMMA FailInStep ==
  ASSUME SipInv, NEW d \in InDialogs, dlg[d].at \in {"prack", "checked"}, Sip!FailIn(d)
  PROVE  SipInv'
<1> DEFINE s == [dlg[d] EXCEPT !.at = "failed", !.peer = "gone"]
<1>1. /\ dlg' = [dlg EXCEPT ![d] = s] /\ gate' = FALSE /\ deferred' = 0 /\ ran' = ran + 0
      /\ endings' = endings \union Sip!Ending(Sip!Dialogs, "peer") /\ UNCHANGED <<roomState, byes>>
  BY DEF Sip!FailIn, Sip!Set, Sip!Finish
<1>2. d \in Sip!Dialogs /\ MoreEndings
  BY <1>1, DialogsDisjoint DEF MoreEndings
<1>3. dlg[d] \in Sip!Session /\ SessionOK(d, dlg[d], byes[d], endings')
  BY <1>2, SessionIs
<1>4. /\ s \in Sip!Session /\ s.at = "failed" /\ s.indexed = dlg[d].indexed /\ s.rtp = dlg[d].rtp
      /\ s.ended = dlg[d].ended /\ s.confirmed = dlg[d].confirmed
  BY <1>3 DEF Sip!Session
<1>5. dlg[d].indexed => \E e \in endings' : e.d = d
  <2>1. dlg[d].indexed => \E e \in Sip!Ending(Sip!Dialogs, "peer") : e.d = d
    BY <1>2, EndingIs
  <2>. QED BY <1>1, <2>1
<1>6. dlg[d].at \in InProgress /\ dlg[d].at # "offered"
  BY DEF InProgress
<1>7. ran' = ran
  BY <1>1 DEF SipInv, GateTyped
<1> HIDE DEF s
<1>8. ~dlg[d].confirmed /\ dlg[d].at # "idle"
  BY <1>3 DEF SessionOK
<1>9. s.rtp = "closed" \/ \E e \in endings' : e.d = d
  BY <1>3, <1>4, <1>5, <1>8 DEF SessionOK
<1>10. SessionOK(d, s, byes[d], endings')
  BY <1>3, <1>4, <1>8, <1>9 DEF SessionOK, InStates
<1>. QED BY <1>1, <1>2, <1>4, <1>6, <1>7, <1>10, SessionEnds

LEMMA AcknowledgedStep ==
  ASSUME SipInv, NEW d \in InDialogs, Sip!Acknowledged(d)
  PROVE  SipInv'
<1> DEFINE s == [dlg[d] EXCEPT !.at = "checked"]
<1>1. /\ dlg[d].at = "prack" /\ dlg' = [dlg EXCEPT ![d] = s]
      /\ UNCHANGED <<endings, roomState, gate, deferred, ran, byes>>
  BY DEF Sip!Acknowledged, Sip!Set, Sip!callVars
<1>2. d \in Sip!Dialogs /\ MoreEndings
  BY <1>1, DialogsDisjoint DEF MoreEndings
<1>3. dlg[d] \in Sip!Session /\ SessionOK(d, dlg[d], byes[d], endings')
  BY <1>2, SessionIs
<1>4. /\ s \in Sip!Session /\ s.at = "checked" /\ s.indexed = dlg[d].indexed /\ s.rtp = dlg[d].rtp
      /\ s.ended = dlg[d].ended /\ s.confirmed = dlg[d].confirmed
  BY <1>3 DEF Sip!Session
<1> HIDE DEF s
<1>5. SessionOK(d, s, byes[d], endings')
  BY <1>1, <1>3, <1>4 DEF SessionOK, InStates, InProgress
<1>6. dlg[d].at \in InProgress /\ s.at \in InProgress /\ roomState # "none"
  BY <1>1, <1>4, RoomIsThere DEF InProgress
<1>. QED BY <1>1, <1>2, <1>4, <1>5, <1>6, SessionMoves

LEMMA OkStep ==
  ASSUME SipInv, NEW d \in InDialogs, Sip!Ok(d)
  PROVE  SipInv'
<1>1. dlg[d].at = "checked"
  BY DEF Sip!Ok
<1>2. CASE Sip!FailIn(d)
  BY <1>1, <1>2, FailInStep
<1>3. CASE ~Sip!FailIn(d)
  <2> DEFINE p == IF dlg[d].peer = "ringing" THEN "talking" ELSE dlg[d].peer
             s == [dlg[d] EXCEPT !.at = "answered", !.peer = p]
  <2>1. dlg' = [dlg EXCEPT ![d] = s] /\ UNCHANGED <<endings, roomState, gate, deferred, ran, byes>>
    BY <1>3 DEF Sip!Ok, Sip!Set, Sip!callVars
  <2>2. d \in Sip!Dialogs /\ MoreEndings
    BY <2>1, DialogsDisjoint DEF MoreEndings
  <2>3. dlg[d] \in Sip!Session /\ SessionOK(d, dlg[d], byes[d], endings')
    BY <2>2, SessionIs
  <2>4. p \in {"none", "ringing", "talking", "gone"}
    BY <2>3 DEF Sip!Session
  <2> HIDE DEF p
  <2>5. /\ s \in Sip!Session /\ s.at = "answered" /\ s.indexed = dlg[d].indexed /\ s.rtp = dlg[d].rtp
        /\ s.ended = dlg[d].ended /\ s.confirmed = dlg[d].confirmed
    BY <2>3, <2>4 DEF Sip!Session
  <2> HIDE DEF s
  <2>6. SessionOK(d, s, byes[d], endings')
    BY <1>1, <2>3, <2>5 DEF SessionOK, InStates, InProgress
  <2>7. dlg[d].at \in InProgress /\ s.at \in InProgress /\ roomState # "none"
    BY <1>1, <2>5, RoomIsThere DEF InProgress
  <2>. QED BY <2>1, <2>2, <2>5, <2>6, <2>7, SessionMoves
<1>. QED BY <1>2, <1>3

LEMMA ConfirmStep ==
  ASSUME SipInv, NEW d \in Sip!Dialogs, Sip!Confirm(d)
  PROVE  SipInv'
<1> DEFINE i == IF d \in OutDialogs THEN TRUE ELSE dlg[d].indexed
           s == [dlg[d] EXCEPT !.at = "up", !.confirmed = TRUE, !.indexed = i]
<1>1. dlg[d].at = "answered" /\ dlg' = [dlg EXCEPT ![d] = s] /\ UNCHANGED <<endings, roomState, byes>>
  BY DEF Sip!Confirm, Sip!Set
<1>2. MoreEndings
  BY <1>1 DEF MoreEndings
<1>3. dlg[d] \in Sip!Session /\ SessionOK(d, dlg[d], byes[d], endings')
  BY <1>2, SessionIs
<1>4. i \in BOOLEAN /\ (d \in InDialogs => i = dlg[d].indexed)
  BY <1>3, DialogsDisjoint DEF Sip!Session
<1> HIDE DEF i
<1>5. /\ s \in Sip!Session /\ s.at = "up" /\ s.indexed = i /\ s.rtp = dlg[d].rtp
      /\ s.ended = dlg[d].ended /\ s.confirmed
  BY <1>3, <1>4 DEF Sip!Session
<1> HIDE DEF s
<1>6. SessionOK(d, s, byes[d], endings')
  BY <1>1, <1>3, <1>4, <1>5 DEF SessionOK, InStates, OutStates, InProgress
<1>7. CASE d \in InDialogs
  <2>1. gate' = FALSE /\ deferred' = 0 /\ ran' = ran + deferred
    BY <1>7 DEF Sip!Confirm, Sip!Finish
  <2>2. dlg[d].at \in InProgress /\ dlg[d].at # "offered"
    BY <1>1 DEF InProgress
  <2>. QED BY <1>1, <1>2, <1>5, <1>6, <1>7, <2>1, <2>2, SessionEnds
<1>8. CASE d \notin InDialogs
  <2>1. UNCHANGED <<gate, deferred, ran>>
    BY <1>8 DEF Sip!Confirm
  <2>. QED BY <1>1, <1>2, <1>5, <1>6, <1>8, <2>1, SessionMoves
<1>. QED BY <1>7, <1>8

-------------------------------------------------------------------------------

LEMMA OriginateStep ==
  ASSUME SipInv, NEW d \in OutDialogs, Sip!Originate(d)
  PROVE  SipInv'
<1> DEFINE s == [dlg[d] EXCEPT !.at = "opened", !.rtp = "open"]
<1>1. /\ dlg[d].at = "idle" /\ dlg' = [dlg EXCEPT ![d] = s]
      /\ UNCHANGED <<endings, roomState, gate, deferred, ran, byes>>
  BY DEF Sip!Originate, Sip!Set, Sip!callVars
<1>2. d \in Sip!Dialogs /\ d \notin InDialogs /\ MoreEndings
  BY <1>1, DialogsDisjoint DEF MoreEndings
<1>3. dlg[d] \in Sip!Session /\ SessionOK(d, dlg[d], byes[d], endings')
  BY <1>2, SessionIs
<1>4. /\ s \in Sip!Session /\ s.at = "opened" /\ s.hop = dlg[d].hop
      /\ s.ended = dlg[d].ended /\ s.confirmed = dlg[d].confirmed
  BY <1>3 DEF Sip!Session
<1> HIDE DEF s
<1>5. dlg[d].hop = 0 /\ ~dlg[d].ended /\ ~dlg[d].confirmed
  BY <1>1, <1>3, FreshIs DEF SessionOK
<1>6. s.hop <= MaxHops
  BY <1>4, <1>5, DialogsDisjoint
<1>7. SessionOK(d, s, byes[d], endings')
  BY <1>2, <1>3, <1>4, <1>5, <1>6 DEF SessionOK, OutStates
<1>. QED BY <1>1, <1>2, <1>4, <1>7, SessionMoves

LEMMA InviteStep ==
  ASSUME SipInv, NEW d \in OutDialogs, Sip!Invite(d)
  PROVE  SipInv'
<1> DEFINE s == [Sip!Fresh EXCEPT !.at = "inviting", !.hop = dlg[d].hop + 1, !.rtp = dlg[d].rtp,
                                  !.indexed = TRUE, !.peer = "ringing"]
           t == [dlg[d] EXCEPT !.at = "failed", !.rtp = "closed", !.peer = "gone"]
<1>1. /\ dlg[d].at = "opened" /\ UNCHANGED <<endings, roomState, gate, deferred, ran, byes>>
      /\ dlg' = [dlg EXCEPT ![d] = s] \/ dlg' = [dlg EXCEPT ![d] = t]
  BY DEF Sip!Invite, Sip!Set, Sip!callVars
<1>2. d \in Sip!Dialogs /\ d \notin InDialogs /\ MoreEndings
  BY <1>1, DialogsDisjoint DEF MoreEndings
<1>3. dlg[d] \in Sip!Session /\ SessionOK(d, dlg[d], byes[d], endings')
  BY <1>2, SessionIs
<1>4. dlg[d].hop \in Nat /\ dlg[d].hop <= MaxHops /\ dlg[d].hop + 1 \in 0 .. MaxHops + 1
  BY <1>1, <1>3, DialogsDisjoint DEF Sip!Session, SessionOK
<1>5. ~dlg[d].confirmed /\ byes[d] = 0
  BY <1>1, <1>3 DEF SessionOK
<1>6. s \in Sip!Session /\ s.at = "inviting" /\ ~s.ended /\ ~s.confirmed
  BY <1>3, <1>4 DEF Sip!Session, Sip!Fresh
<1>7. /\ t \in Sip!Session /\ t.at = "failed" /\ t.rtp = "closed"
      /\ t.ended = dlg[d].ended /\ t.confirmed = dlg[d].confirmed
  BY <1>3 DEF Sip!Session
<1> HIDE DEF s, t
<1>8. SessionOK(d, s, byes[d], endings')
  BY <1>2, <1>5, <1>6 DEF SessionOK, OutStates
<1>9. SessionOK(d, t, byes[d], endings')
  BY <1>2, <1>5, <1>7 DEF SessionOK, OutStates
<1>. QED BY <1>1, <1>2, <1>6, <1>7, <1>8, <1>9, SessionMoves

LEMMA AnsweredStep ==
  ASSUME SipInv, NEW d \in OutDialogs, Sip!Answered(d)
  PROVE  SipInv'
<1> DEFINE s == [dlg[d] EXCEPT !.at = "answered", !.peer = "talking"]
<1>1. /\ dlg[d].at = "inviting" /\ dlg' = [dlg EXCEPT ![d] = s]
      /\ UNCHANGED <<endings, roomState, gate, deferred, ran, byes>>
  BY DEF Sip!Answered, Sip!Set, Sip!callVars
<1>2. d \in Sip!Dialogs /\ d \notin InDialogs /\ MoreEndings
  BY <1>1, DialogsDisjoint DEF MoreEndings
<1>3. dlg[d] \in Sip!Session /\ SessionOK(d, dlg[d], byes[d], endings')
  BY <1>2, SessionIs
<1>4. /\ s \in Sip!Session /\ s.at = "answered" /\ s.rtp = dlg[d].rtp
      /\ s.ended = dlg[d].ended /\ s.confirmed = dlg[d].confirmed
  BY <1>3 DEF Sip!Session
<1> HIDE DEF s
<1>5. SessionOK(d, s, byes[d], endings')
  BY <1>1, <1>2, <1>3, <1>4 DEF SessionOK, OutStates
<1>. QED BY <1>1, <1>2, <1>4, <1>5, SessionMoves

LEMMA RefusedStep ==
  ASSUME SipInv, NEW d \in OutDialogs, Sip!Refused(d)
  PROVE  SipInv'
<1> DEFINE s == [dlg[d] EXCEPT !.at = "failed", !.indexed = FALSE, !.rtp = "closed", !.peer = "gone"]
           t == [dlg[d] EXCEPT !.at = "opened", !.indexed = FALSE, !.peer = "gone"]
<1>1. /\ dlg[d].at = "inviting" /\ UNCHANGED <<endings, roomState, gate, deferred, ran, byes>>
      /\ \/ dlg' = [dlg EXCEPT ![d] = s]
         \/ dlg[d].hop <= MaxHops /\ dlg' = [dlg EXCEPT ![d] = t]
  BY DEF Sip!Refused, Sip!Set, Sip!callVars
<1>2. d \in Sip!Dialogs /\ d \notin InDialogs /\ MoreEndings
  BY <1>1, DialogsDisjoint DEF MoreEndings
<1>3. dlg[d] \in Sip!Session /\ SessionOK(d, dlg[d], byes[d], endings')
  BY <1>2, SessionIs
<1>4. /\ s \in Sip!Session /\ s.at = "failed" /\ s.rtp = "closed"
      /\ s.ended = dlg[d].ended /\ s.confirmed = dlg[d].confirmed
  BY <1>3 DEF Sip!Session
<1>5. /\ t \in Sip!Session /\ t.at = "opened" /\ t.rtp = dlg[d].rtp /\ t.hop = dlg[d].hop
      /\ t.ended = dlg[d].ended /\ t.confirmed = dlg[d].confirmed
  BY <1>3 DEF Sip!Session
<1> HIDE DEF s, t
<1>6. SessionOK(d, s, byes[d], endings')
  BY <1>1, <1>2, <1>3, <1>4 DEF SessionOK, OutStates
<1>7. CASE dlg' = [dlg EXCEPT ![d] = s]
  BY <1>1, <1>2, <1>4, <1>6, <1>7, SessionMoves
<1>8. CASE dlg[d].hop <= MaxHops /\ dlg' = [dlg EXCEPT ![d] = t]
  <2>1. SessionOK(d, t, byes[d], endings')
    BY <1>1, <1>2, <1>3, <1>5, <1>8 DEF SessionOK, OutStates
  <2>. QED BY <1>1, <1>2, <1>5, <1>8, <2>1, SessionMoves
<1>. QED BY <1>1, <1>7, <1>8

-------------------------------------------------------------------------------

LEMMA LeaveRoomStep ==
  ASSUME SipInv, NEW d \in Sip!Dialogs, Sip!LeaveRoom(d)
  PROVE  SipInv'
<1> DEFINE s == [dlg[d] EXCEPT !.rtp = "closed"]
<1>1. /\ dlg[d].rtp = "open" /\ endings' = endings \union Sip!Ending({d}, "leg")
      /\ dlg' = IF dlg[d].indexed THEN dlg ELSE [dlg EXCEPT ![d] = s]
      /\ UNCHANGED <<roomState, gate, deferred, ran, byes>>
  BY DEF Sip!LeaveRoom, Sip!callVars
<1>2. MoreEndings
  BY <1>1 DEF MoreEndings
<1>3. dlg[d] \in Sip!Session /\ SessionOK(d, dlg[d], byes[d], endings')
  BY <1>2, SessionIs
<1>4. CASE dlg[d].indexed
  <2>1. dlg' = dlg /\ SipTyped' /\ SessionsOK'
    BY <1>1, <1>2, <1>4, SessionsStay
  <2>2. GateTyped' /\ GateOK'
    BY <1>1, <2>1, GateStays
  <2>. QED BY <2>1, <2>2 DEF SipInv
<1>5. CASE ~dlg[d].indexed
  <2>1. /\ s \in Sip!Session /\ s.at = dlg[d].at /\ s.rtp = "closed" /\ s.hop = dlg[d].hop
        /\ s.ended = dlg[d].ended /\ s.confirmed = dlg[d].confirmed
    BY <1>3 DEF Sip!Session
  <2> HIDE DEF s
  <2>2. dlg[d].at # "idle"
    BY <1>1, <1>3, FreshIs DEF SessionOK
  <2>3. SessionOK(d, s, byes[d], endings')
    BY <1>3, <2>1, <2>2 DEF SessionOK
  <2>. QED BY <1>1, <1>2, <1>5, <2>1, <2>3, SessionMoves
<1>. QED BY <1>4, <1>5

LEMMA PeerEndsStep ==
  ASSUME SipInv, NEW d \in Sip!Dialogs, Sip!PeerEnds(d)
  PROVE  SipInv'
<1> DEFINE s == [dlg[d] EXCEPT !.peer = "gone"]
<1>1. /\ dlg[d].peer \in {"talking", "ringing"} /\ dlg' = [dlg EXCEPT ![d] = s]
      /\ endings' = endings \union Sip!Ending({d}, "peer")
      /\ UNCHANGED <<roomState, gate, deferred, ran, byes>>
  BY DEF Sip!PeerEnds, Sip!Set, Sip!callVars
<1>2. MoreEndings
  BY <1>1 DEF MoreEndings
<1>3. dlg[d] \in Sip!Session /\ SessionOK(d, dlg[d], byes[d], endings')
  BY <1>2, SessionIs
<1>4. /\ s \in Sip!Session /\ s.at = dlg[d].at /\ s.rtp = dlg[d].rtp /\ s.hop = dlg[d].hop
      /\ s.ended = dlg[d].ended /\ s.confirmed = dlg[d].confirmed /\ s.indexed = dlg[d].indexed
  BY <1>3 DEF Sip!Session
<1> HIDE DEF s
<1>5. dlg[d].at # "idle"
  BY <1>1, <1>3, FreshIs DEF SessionOK
<1>6. SessionOK(d, s, byes[d], endings')
  BY <1>3, <1>4, <1>5 DEF SessionOK
<1>. QED BY <1>1, <1>2, <1>4, <1>6, SessionMoves

\* The first of the ends says BYE; every one closes the socket.
LEMMA EndStep ==
  ASSUME SipInv, NEW e \in endings, Sip!End(e)
  PROVE  SipInv'
<1> DEFINE d == e.d
           bye == Sip!SaysBye(e)
           p == IF bye THEN "gone" ELSE dlg[d].peer
           s == [dlg[d] EXCEPT !.rtp = "closed"]
           t == [dlg[d] EXCEPT !.indexed = FALSE, !.ended = TRUE, !.rtp = "closed", !.peer = p]
           b == IF bye THEN byes[d] + 1 ELSE byes[d]
<1>1. d \in Sip!Dialogs /\ endings \subseteq EndingRecords /\ byes[d] \in Nat
  BY DEF SipInv, SipTyped, EndingRecords
<1>2. /\ endings' = endings \ {e} /\ UNCHANGED <<roomState, gate, deferred, ran>>
      /\ \/ dlg' = [dlg EXCEPT ![d] = s] /\ byes' = byes
         \/ dlg' = [dlg EXCEPT ![d] = t] /\ byes' = [byes EXCEPT ![d] = b]
  BY DEF Sip!End, Sip!Set, Sip!callVars
<1>3. dlg[d] \in Sip!Session /\ SessionOK(d, dlg[d], byes[d], endings)
  BY <1>1 DEF SipInv, SipTyped, SessionsOK
<1>4. dlg[d].at # "idle"
  BY <1>3 DEF SessionOK
<1>5. p \in {"none", "ringing", "talking", "gone"}
  BY <1>3 DEF Sip!Session
<1>6. b \in Nat /\ (bye => b = 1 /\ dlg[d].confirmed) /\ (~bye => b = byes[d])
  <2>1. bye => dlg[d].confirmed /\ byes[d] = 0
    BY <1>3 DEF SessionOK, Sip!SaysBye
  <2> HIDE DEF bye
  <2>. QED BY <1>1, <2>1
<1> HIDE DEF p, b, bye
<1>7. /\ s \in Sip!Session /\ s.at = dlg[d].at /\ s.rtp = "closed" /\ s.hop = dlg[d].hop
      /\ s.ended = dlg[d].ended /\ s.confirmed = dlg[d].confirmed
  BY <1>3 DEF Sip!Session
<1>8. /\ t \in Sip!Session /\ t.at = dlg[d].at /\ t.rtp = "closed" /\ t.hop = dlg[d].hop
      /\ t.ended /\ t.confirmed = dlg[d].confirmed
  BY <1>3, <1>5 DEF Sip!Session
<1> HIDE DEF s, t
<1>9. SessionOK(d, s, byes[d], endings')
  BY <1>3, <1>4, <1>7 DEF SessionOK
<1>10. SessionOK(d, t, b, endings')
  BY <1>3, <1>4, <1>6, <1>8 DEF SessionOK
<1>11. PICK u \in Sip!Session, c \in Nat :
         /\ dlg' = [dlg EXCEPT ![d] = u] /\ byes' = [byes EXCEPT ![d] = c]
         /\ SessionOK(d, u, c, endings') /\ u.at = dlg[d].at
  <2>1. byes = [byes EXCEPT ![d] = byes[d]]
    BY DEF SipInv, SipTyped
  <2>. QED BY <1>1, <1>2, <1>6, <1>7, <1>8, <1>9, <1>10, <2>1
<1>12. SipTyped'
  BY <1>1, <1>2, <1>11 DEF SipInv, SipTyped, EndingRecords, Sip!Dialogs, Sip!Session
<1>13. /\ dlg'[d] = u /\ byes'[d] = c
       /\ \A x \in Sip!Dialogs : x # d => dlg'[x] = dlg[x] /\ byes'[x] = byes[x]
  BY <1>1, <1>11 DEF SipInv, SipTyped
<1>14. ASSUME NEW x \in Sip!Dialogs
       PROVE  SessionOK(x, dlg'[x], byes'[x], endings')
  <2>1. CASE x = d
    BY <1>11, <1>13, <2>1
  <2>2. CASE x # d
    <3> DEFINE r == dlg[x]
               a == byes[x]
    <3>1. r = dlg'[x] /\ a = byes'[x] /\ SessionOK(x, r, a, endings)
      BY <1>13, <2>2 DEF SipInv, SessionsOK
    <3> HIDE DEF r, a
    <3>2. \A y \in endings' : y \in endings
      BY <1>2
    <3>3. \A y \in endings : y.d = x => y \in endings'
      BY <1>2, <2>2
    <3>4. SessionOK(x, r, a, endings')
      BY <3>1, <3>2, <3>3 DEF SessionOK
    <3>. QED BY <3>1, <3>4
  <2>. QED BY <2>1, <2>2
<1>15. SessionsOK'
  BY <1>14 DEF SessionsOK, Sip!Dialogs
<1>16. \A x \in InDialogs : dlg'[x].at = dlg[x].at
  BY <1>11, <1>13, DialogsDisjoint
<1>17. GateTyped' /\ GateOK'
  BY <1>2, <1>16, GateStays
<1>. QED BY <1>12, <1>15, <1>17 DEF SipInv

LEMMA RoomClosedStep ==
  ASSUME SipInv, Sip!RoomClosed
  PROVE  SipInv'
<1> DEFINE left(d) == [dlg[d] EXCEPT !.rtp = "closed"]
           s(d) == IF dlg[d].rtp = "open" THEN left(d) ELSE dlg[d]
<1>1. /\ dlg' = [d \in Sip!Dialogs |-> s(d)] /\ roomState' = "closed" /\ endings' = endings
      /\ UNCHANGED <<gate, deferred, ran, byes>>
  BY DEF Sip!RoomClosed
<1>2. ASSUME NEW d \in Sip!Dialogs
      PROVE  dlg'[d] \in Sip!Session /\ dlg'[d].at = dlg[d].at /\ SessionOK(d, dlg'[d], byes'[d], endings')
  <2> DEFINE r == dlg[d]
             l == left(d)
             b == byes[d]
  <2>1. r \in Sip!Session /\ SessionOK(d, r, b, endings)
    BY DEF SipInv, SipTyped, SessionsOK
  <2>2. dlg'[d] = s(d) /\ byes'[d] = b
    BY <1>1
  <2>3. CASE r.rtp = "open"
    <3>1. /\ l \in Sip!Session /\ l.at = r.at /\ l.rtp = "closed" /\ l.hop = r.hop
          /\ l.ended = r.ended /\ l.confirmed = r.confirmed
      BY <2>1 DEF Sip!Session
    <3>2. dlg'[d] = l
      BY <2>2, <2>3
    <3> HIDE DEF l, r, b
    <3>3. r.at # "idle"
      BY <2>1, <2>3, FreshIs DEF SessionOK
    <3>4. SessionOK(d, l, b, endings)
      BY <2>1, <3>1, <3>3 DEF SessionOK
    <3>5. l.at = dlg[d].at
      BY <3>1 DEF r
    <3>. QED BY <1>1, <2>2, <3>1, <3>2, <3>4, <3>5
  <2>4. CASE r.rtp # "open"
    <3>1. dlg'[d] = r
      BY <2>2, <2>4
    <3>. QED BY <1>1, <2>1, <2>2, <3>1
  <2>. QED BY <2>3, <2>4
<1> HIDE DEF s
<1>3. SipTyped'
  BY <1>1, <1>2 DEF SipInv, SipTyped, EndingRecords, Sip!Dialogs, Sip!Session
<1>4. SessionsOK'
  BY <1>2 DEF SessionsOK, Sip!Dialogs
<1>5. GateTyped' /\ GateOK'
  BY <1>1, <1>2, GateStays, DialogsDisjoint
<1>. QED BY <1>3, <1>4, <1>5 DEF SipInv

LEMMA CloseRoomStep ==
  ASSUME SipInv, Sip!CloseRoom \/ Sip!Defer \/ UNCHANGED sipVars
  PROVE  SipInv'
<1>1. /\ MoreEndings /\ dlg' = dlg /\ byes' = byes /\ gate' = gate /\ ran' = ran
      /\ roomState' = roomState \/ roomState' = "closing"
  BY DEF Sip!CloseRoom, Sip!Defer, sipVars, MoreEndings
<1>2. deferred' = deferred \/ (gate /\ deferred' \in 0 .. MaxDefers)
  <2>1. CASE Sip!Defer
    BY <2>1, DialogsDisjoint DEF Sip!Defer, SipInv, GateTyped
  <2>. QED BY <2>1 DEF Sip!CloseRoom, sipVars
<1>3. SipTyped' /\ SessionsOK'
  BY <1>1, SessionsStay
<1>4. GateTyped' /\ GateOK'
  BY <1>1, <1>2, GateStays
<1>. QED BY <1>3, <1>4 DEF SipInv

LEMMA SipInductive ==
  ASSUME SipInv, [Sip!Next]_sipVars
  PROVE  SipInv'
<1>1. ASSUME NEW d \in InDialogs, Sip!Inbound(d)
      PROVE  SipInv'
  <2>1. CASE Sip!PrackTimeout(d)
    BY <2>1, FailInStep DEF Sip!PrackTimeout
  <2>. QED BY <1>1, <2>1, InvitedStep, HandlerStep, CheckEndedStep, AcknowledgedStep, OkStep
           DEF Sip!Inbound, Sip!Answering
<1>2. ASSUME NEW d \in OutDialogs, Sip!Outbound(d)
      PROVE  SipInv'
  BY <1>2, OriginateStep, InviteStep, AnsweredStep, RefusedStep DEF Sip!Outbound
<1>. QED BY <1>1, <1>2, ConfirmStep, LeaveRoomStep, PeerEndsStep, EndStep, CloseRoomStep, RoomClosedStep DEF Sip!Next

\* What the invariant says of the dialogs.
LEMMA SipOK ==
  SipInv => Sip!TypeOK /\ Sip!ByeOnce /\ Sip!PortReturned /\ Sip!FlowWaitsForAnswer
<1> SUFFICES ASSUME SipInv PROVE Sip!TypeOK /\ Sip!ByeOnce /\ Sip!PortReturned /\ Sip!FlowWaitsForAnswer
  OBVIOUS
<1>1. Sip!TypeOK
  BY DEF SipInv, SipTyped, GateTyped, EndingRecords, Sip!TypeOK
<1>2. Sip!ByeOnce
  <2> SUFFICES ASSUME NEW d \in Sip!Dialogs PROVE byes[d] <= IF dlg[d].confirmed THEN 1 ELSE 0
    BY DEF Sip!ByeOnce
  <2>1. byes[d] = 0 \/ (byes[d] = 1 /\ dlg[d].confirmed)
    BY DEF SipInv, SessionsOK, SessionOK
  <2>. QED BY <2>1
<1>3. Sip!PortReturned
  <2> SUFFICES ASSUME NEW d \in Sip!Dialogs, endings = {}, dlg[d].at = "failed" \/ dlg[d].ended
               PROVE  dlg[d].rtp = "closed"
    BY DEF Sip!PortReturned
  <2>. QED BY DEF SipInv, SessionsOK, SessionOK
<1>4. Sip!FlowWaitsForAnswer
  <2>1. \A d \in InDialogs : dlg[d].at \in {"up", "failed"} => ~gate
    BY DEF SipInv, GateOK, InProgress
  <2>. QED BY <2>1 DEF SipInv, GateOK, Sip!FlowWaitsForAnswer
<1>. QED BY <1>1, <1>2, <1>3, <1>4

-------------------------------------------------------------------------------
(* The sum.                                                                    *)

\* A step of the sum is a step of one part and leaves the others as they are.
LEMMA PartsMove ==
  ASSUME [Next]_vars
  PROVE  /\ [Recording!Next]_recVars /\ [Prompts!Next]_promptVars /\ [Audio!Next]_audioVars
         /\ [PlayedAssets!Next]_assetVars /\ [Room!Next]_roomVars /\ [Ice!Next]_iceVars
         /\ [DtmfKeys!Next]_dtmfVars /\ [Playout!Next]_playVars /\ [Sip!Next]_sipVars
<1>1. CASE UNCHANGED vars
  BY <1>1 DEF vars
<1>2. CASE RecordingStep
  BY <1>2 DEF RecordingStep
<1>3. CASE PromptStep
  BY <1>3 DEF PromptStep
<1>4. CASE AudioStep
  BY <1>4 DEF AudioStep
<1>5. CASE AssetStep
  BY <1>5 DEF AssetStep
<1>6. CASE RoomStep
  BY <1>6 DEF RoomStep
<1>7. CASE IceStep
  BY <1>7 DEF IceStep
<1>8. CASE DtmfStep
  BY <1>8 DEF DtmfStep
<1>9. CASE PlayoutStep
  BY <1>9 DEF PlayoutStep
<1>10. CASE SipStep
  BY <1>10 DEF SipStep
<1>. QED BY <1>1, <1>2, <1>3, <1>4, <1>5, <1>6, <1>7, <1>8, <1>9, <1>10 DEF Next

SoundInv == RecInv /\ PromptInv /\ AudioInv /\ AssetInv
CallInv == RoomInv /\ IceInv /\ DtmfInv /\ PlayInv /\ SipInv
MediaInv == SoundInv /\ CallInv

LEMMA MediaInitInv == Init => MediaInv
<1>1. Init => SoundInv
  BY RecInitInv, PromptInitInv, AudioInitInv, AssetInitInv DEF Init, SoundInv
<1>2. Init => CallInv
  BY RoomInitInv, IceInitInv, DtmfInitInv, PlayInitInv, SipInitInv DEF Init, CallInv
<1>. QED BY <1>1, <1>2 DEF MediaInv

LEMMA MediaInductive == MediaInv /\ [Next]_vars => MediaInv'
<1> SUFFICES ASSUME MediaInv, [Next]_vars PROVE MediaInv'
  OBVIOUS
<1>1. SoundInv'
  BY PartsMove, RecInductive, PromptInductive, AudioInductive, AssetInductive DEF MediaInv, SoundInv
<1>2. CallInv'
  BY PartsMove, RoomInductive, IceInductive, DtmfInductive, PlayInductive, SipInductive DEF MediaInv, CallInv
<1>. QED BY <1>1, <1>2 DEF MediaInv

LEMMA MediaHolds == Spec => []MediaInv
<1>. QED BY MediaInitInv, MediaInductive, PTL DEF Spec

\* The variables of the nine parts keep their types.
THEOREM TypesHold == Spec => []TypesOK
<1>1. MediaInv => TypesOK
  BY RecOK, PromptOK, AudioOK, AssetOK, DtmfOK, PlayOK, SipOK
  DEF MediaInv, SoundInv, CallInv, RoomInv, IceInv, TypesOK
<1>. QED BY <1>1, MediaHolds, PTL

\* For any recordings, legs, frames and length of the queue, whoever stops, fails
\* or refuses a recorder meanwhile, also between the two locks of a full queue: a
\* stop that succeeded has written every group that the queue took, and a recorder
\* whose queue refused one is failed or about to be (conversation_recording.go).
THEOREM RecordingsAreWhole == Spec => []TakenIsKept
<1>1. MediaInv => TakenIsKept
  BY RecOK DEF MediaInv, SoundInv, TakenIsKept
<1>. QED BY <1>1, MediaHolds, PTL

\* For any number of ends that race: one of them is told, and it is the true one
\* (finishRecorder, the completions of prompts, streams and assets, endDialog).
THEOREM EndsAreToldOnce == Spec => []EndsToldOnce
<1>1. MediaInv => EndsToldOnce
  BY RecOK, PromptOK, AudioOK, AssetOK, SipOK DEF MediaInv, SoundInv, CallInv, EndsToldOnce
<1>. QED BY <1>1, MediaHolds, PTL

\* For any number of generations: audio of an older one is not played, and the
\* prompts that play go forward (service.go, application_audio.go).
THEOREM OldIsSilent == Spec => NothingOldPlays
<1>1. MediaInv => Audio!NoOldAudio
  BY AudioOK DEF MediaInv, SoundInv
<1>2. MediaInv /\ [Next]_vars => [last' >= last /\ (last' # last => last' = seq)]_Prompts!promptVars
  <2> SUFFICES ASSUME MediaInv, [Next]_vars PROVE last' >= last /\ (last' # last => last' = seq)
    OBVIOUS
  <2>. QED BY PartsMove, PromptForward DEF MediaInv, SoundInv
<1>. QED BY <1>1, <1>2, MediaHolds, PTL DEF Spec, NothingOldPlays, Prompts!NoOlderPrompt

\* For any joins, answers and candidates in any order: a connection that is
\* replaced is closed, and a candidate that came early is added (service.go).
THEOREM NothingIsLost == Spec => []NothingLost
<1>1. MediaInv => NothingLost
  BY DEF MediaInv, CallInv, RoomInv, IceInv, NothingLost
<1>. QED BY <1>1, MediaHolds, PTL

\* For any recorders, peers and dialogs: what has stopped holds no recorder, takes
\* no packet, and keeps no socket (conversation_recording.go, service.go, sip.go).
THEOREM NothingIsHeld == Spec => []NothingAfterEnd
<1>1. MediaInv => NothingAfterEnd
  BY RecOK, SipOK DEF MediaInv, SoundInv, CallInv, RoomInv, NothingAfterEnd
<1>. QED BY <1>1, MediaHolds, PTL

\* For any keys, any loss, repetition and overtaking of their packets, and any
\* timestamps and jumps that the width can tell: the handlers hear the keys as the
\* read loops queued them, a leg is not heard with one key twice in a row, and
\* audio is heard in the order of its samples (service.go, sip_rtp.go, playout.go).
THEOREM HeardInOrder == Spec => []InOrder
<1>1. MediaInv => InOrder
  BY DtmfOK, PlayOK DEF MediaInv, CallInv, InOrder
<1>. QED BY <1>1, MediaHolds, PTL

\* For any dialogs, redirects and races with a hang-up: the flow of a call waits
\* for its 200 OK (finishSIPAnswer).
THEOREM FlowWaits == Spec => []FlowWaitsForAnswer
<1>1. MediaInv => FlowWaitsForAnswer
  BY SipOK DEF MediaInv, CallInv, FlowWaitsForAnswer
<1>. QED BY <1>1, MediaHolds, PTL
=================================================================================
