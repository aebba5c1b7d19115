---------------------------------- MODULE Dtmf ----------------------------------
(***************************************************************************)
(* Keys pressed on a phone, from the RTP events to the handlers of a room. *)
(* A phone repeats the end of an event; packets are lost and overtake each *)
(* other.  The read loop of a SIP leg takes an end for a repetition when   *)
(* its timestamp is the last one, the one of a WebRTC track takes them     *)
(* all, and one worker of the room calls the handlers.                     *)
(***************************************************************************)
EXTENDS Naturals, Sequences, FiniteSets

CONSTANTS
  KeyLegs,   \* legs whose phone presses keys
  SipKeys,   \* the legs among them that are SIP
  MaxKeys,   \* bound: keys pressed
  Repeats    \* end packets per key

VARIABLES
  pressed,   \* keys pressed so far; the number of a key is its timestamp
  wire,      \* leg |-> timestamp |-> its end packets on their way, in no order
  lastDTMF,  \* leg |-> timestamp of the last key (0: none yet)
  pending,   \* keys queued for the worker
  running,   \* dtmfRunning
  workers,   \* goroutines: "pick", or the key one calls the handlers with
  queued,    \* keys the read loops queued, in order         (history)
  heard      \* keys the handlers got, in order              (history)

dtmfVars == <<pressed, wire, lastDTMF, pending, running, workers, queued, heard>>

Init ==
  /\ pressed = 0
  /\ wire = [l \in KeyLegs |-> [ts \in 1 .. MaxKeys |-> 0]]
  /\ lastDTMF = [l \in KeyLegs |-> 0]
  /\ pending = <<>> /\ running = FALSE /\ workers = <<>>
  /\ queued = <<>> /\ heard = <<>>

---------------------------------------------------------------------------

\* A key: its end packet, sent more than once, some of it lost.
Press(l) ==
  /\ pressed < MaxKeys /\ pressed' = pressed + 1
  /\ \E n \in 0 .. Repeats : wire' = [wire EXCEPT ![l][pressed + 1] = n]
  /\ UNCHANGED <<lastDTMF, pending, running, workers, queued, heard>>

\* enqueueDTMF: the worker that runs takes it, or one starts.
Enqueue(k) ==
  /\ pending' = Append(pending, k) /\ queued' = Append(queued, k)
  /\ running' = TRUE
  /\ workers' = IF running THEN workers ELSE Append(workers, <<>>)

NewAlways(l, ts) == l \in KeyLegs /\ ts > 0

\* sipReadLoop remembers one timestamp, that of the key before.  readDTMF
\* forgets the event it has dispatched and takes every packet.
New(l, ts) == l \in SipKeys => ts # lastDTMF[l]

\* Any packet on its way comes next.
Receive(l, ts) ==
  /\ wire[l][ts] > 0 /\ wire' = [wire EXCEPT ![l][ts] = @ - 1]
  /\ IF New(l, ts)
       THEN lastDTMF' = [lastDTMF EXCEPT ![l] = ts] /\ Enqueue(<<l, ts>>)
       ELSE UNCHANGED <<lastDTMF, pending, running, workers, queued>>
  /\ UNCHANGED <<pressed, heard>>

Without(w) == SubSeq(workers, 1, w - 1) \o SubSeq(workers, w + 1, Len(workers))

\* The worker takes the next key, or finds none and ends.
Pick(w) ==
  /\ w \in DOMAIN workers /\ workers[w] = <<>>
  /\ IF pending = <<>> THEN workers' = Without(w) /\ running' = FALSE /\ UNCHANGED pending
     ELSE /\ workers' = [workers EXCEPT ![w] = Head(pending)]
          /\ pending' = Tail(pending) /\ UNCHANGED running
  /\ UNCHANGED <<pressed, wire, lastDTMF, queued, heard>>

\* The handlers of the room return.
Call(w) ==
  /\ w \in DOMAIN workers /\ workers[w] # <<>>
  /\ heard' = Append(heard, workers[w]) /\ workers' = [workers EXCEPT ![w] = <<>>]
  /\ UNCHANGED <<pressed, wire, lastDTMF, pending, running, queued>>

MaxWorkers == 2

Next ==
  \/ \E l \in KeyLegs : Press(l) \/ \E ts \in 1 .. MaxKeys : Receive(l, ts)
  \/ \E w \in 1 .. MaxWorkers : Pick(w) \/ Call(w)

\* The worker is a goroutine of its own; packets need not arrive.
Fairness ==
  \A w \in 1 .. MaxWorkers : WF_dtmfVars(Pick(w)) /\ WF_dtmfVars(Call(w))

Spec == Init /\ [][Next]_dtmfVars
FairSpec == Spec /\ Fairness

---------------------------------------------------------------------------

\* The variables keep the types of the read loops and of the worker.
TypeOK ==
  /\ pressed \in 0 .. MaxKeys /\ lastDTMF \in [KeyLegs -> 0 .. MaxKeys]
  /\ wire \in [KeyLegs -> [1 .. MaxKeys -> 0 .. Repeats]]
  /\ running \in BOOLEAN /\ Len(workers) <= MaxWorkers

\* The handlers hear the keys in the order in which the read loops queued them,
\* whichever worker calls them, and a SIP leg is not heard twice with one key
\* when nothing of that leg came between (service.go, sip_rtp.go).
HeardAsQueued ==
  /\ Len(heard) <= Len(queued) /\ \A i \in DOMAIN heard : heard[i] = queued[i]
  /\ \A i, j \in DOMAIN heard :
       /\ i < j /\ heard[i] = heard[j] /\ heard[i][1] \in SipKeys
       => \E k \in i + 1 .. j - 1 : heard[k][1] = heard[i][1]

\* sip_rtp.go:312 says that one timestamp is dispatched as a key only once.
OncePerTimestamp ==
  \A i, j \in DOMAIN heard : heard[i] = heard[j] /\ heard[i][1] \in SipKeys => i = j

\* A key that was queued is heard: no worker that ends leaves it behind.
KeysHeard == queued # heard ~> queued = heard
=============================================================================
