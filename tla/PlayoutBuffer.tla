----------------------------- MODULE PlayoutBuffer -----------------------------
(***************************************************************************)
(* The playout buffer of a leg: audio by sample position, which the RTP    *)
(* timestamps (integers of Width bits, that wrap) give relative to the     *)
(* packet before, and a cursor that the clock of the room moves whatever   *)
(* has arrived.  A lasting lag re-anchors the cursor, an excess drops the  *)
(* oldest audio.  A position stands for the samples of half a frame.       *)
(***************************************************************************)
EXTENDS Integers, FiniteSets

CONSTANTS
  Width,    \* bits of a timestamp (32)
  Start,    \* the timestamp of the first packet
  Capacity, \* positions after the cursor that fit (capSamples - 320)
  LateRun,  \* late positions in a row that re-anchor (three frames)
  Sizes,    \* positions of a packet
  Ahead, Back, \* bounds: how far a timestamp is off the expected one
  MaxPos    \* bound: positions sent

VARIABLES
  clock,     \* what the sender counts, without wrap
  anchored, lastTS, position, cursor, maxWritten, samples, lateRunSamples,
  primed,     \* the reserve is over
  lastHeard  \* the last position that was heard, -1: none   (history)

playVars == <<clock, anchored, lastTS, position, cursor, maxWritten, samples,
              lateRunSamples, primed, lastHeard>>

Modulus == 2 ^ Width

Init ==
  /\ clock = 0 /\ anchored = FALSE /\ lastTS = 0 /\ position = 0
  /\ cursor = 0 /\ maxWritten = 0 /\ samples = {} /\ lateRunSamples = 0
  /\ primed = FALSE /\ lastHeard = -1

---------------------------------------------------------------------------

IndexUnsigned(ts, anchor) == (ts - anchor) % Modulus

\* rtpSampleIndex: the difference as a signed integer of the same width.
Index(ts, anchor) ==
  LET d == (ts - anchor) % Modulus IN IF d >= Modulus \div 2 THEN d - Modulus ELSE d

\* The packet is behind the cursor and after everything that was written.
Late(start, end) == end <= cursor /\ start >= maxWritten

\* The cursor that leaves the packet room; what is before it is dropped.
Overflow(end) == IF end - cursor > Capacity THEN end - Capacity ELSE cursor

\* accept, for one of the packets that the jitter buffer hands over in order.
Accept(start, len) ==
  LET end == start + len
      run == IF Late(start, end) THEN lateRunSamples + len ELSE 0
      from == Overflow(end) IN
  IF run >= LateRun
    THEN /\ cursor' = end /\ maxWritten' = end /\ samples' = {} /\ lateRunSamples' = 0
         /\ primed' = FALSE
    ELSE /\ cursor' = from /\ maxWritten' = IF end > maxWritten THEN end ELSE maxWritten
         /\ samples' = {p \in samples \union start .. end - 1 : p >= from}
         /\ lateRunSamples' = run
         /\ UNCHANGED primed

\* A packet: its timestamp is off by a jump (silence that was not sent, a clock
\* that was set back) or is the expected one.
Packet(len, jump) ==
  LET at == clock + jump
      ts == (Start + at) % Modulus
      start == IF anchored THEN position + Index(ts, lastTS) ELSE 0 IN
  /\ at >= 0 /\ at + len <= MaxPos /\ (anchored \/ jump = 0)
  /\ clock' = at + len
  /\ anchored' = TRUE /\ lastTS' = ts /\ position' = start
  /\ Accept(start, len)
  /\ UNCHANGED lastHeard

\* The reserve before playback is over.
Primed == ~primed /\ anchored /\ primed' = TRUE
         /\ UNCHANGED <<clock, anchored, lastTS, position, cursor, maxWritten, samples, lateRunSamples, lastHeard>>

\* pullSamplesLocked: what is present is heard, the rest is concealed.
Pull ==
  /\ anchored /\ primed /\ cursor < MaxPos
  /\ cursor' = cursor + 1 /\ samples' = samples \ {cursor}
  /\ lastHeard' = IF cursor \in samples THEN cursor ELSE lastHeard
  /\ UNCHANGED <<clock, anchored, lastTS, position, maxWritten, lateRunSamples, primed>>

Next == Primed \/ Pull \/ \E len \in Sizes, jump \in -Back .. Ahead : Packet(len, jump)

\* The room has a clock.
Fairness == WF_playVars(Pull) /\ WF_playVars(Primed)

Spec == Init /\ [][Next]_playVars
FairSpec == Spec /\ Fairness

---------------------------------------------------------------------------

\* The variables keep the types of the buffer.
TypeOK ==
  /\ lastTS \in 0 .. Modulus - 1 /\ anchored \in BOOLEAN /\ primed \in BOOLEAN
  /\ cursor \in 0 .. MaxPos /\ maxWritten \in 0 .. MaxPos /\ lateRunSamples \in 0 .. LateRun - 1

\* A timestamp that wraps moves nothing: a packet has the position that the
\* sender counts.
PositionIsSent == anchored => \E len \in Sizes : position + len = clock

\* What is heard goes forward: where the cursor is set back to a stream that
\* lags, everything that waits is still after everything that was heard.
HeardForward == \A p \in samples : p > lastHeard

\* However the packets came, the buffer is empty when the sender has paused for
\* long enough (here: has sent what it may).
BufferDrains == samples # {} ~> samples = {}
=============================================================================
