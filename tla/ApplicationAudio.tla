---------------------------- MODULE ApplicationAudio ----------------------------
(***************************************************************************)
(* The audio that an application brings into a room: a PCM session per     *)
(* leg, whose output belongs to a generation the application may cancel.   *)
(* The application writes, clears and finishes while the tick of the room  *)
(* pulls frames, feeds the input and tells the ends.  Frames stand for     *)
(* blocks of samples.                                                      *)
(***************************************************************************)
EXTENDS Naturals, Sequences

CONSTANTS
  AudioLegs,
  OutputCap, \* frames of output (200 ms)
  EventCap,  \* events the application has not read (16)
  MaxGen,    \* bound: generations
  MaxWrites  \* bound: frames written

VARIABLES
  streams,  \* leg |-> its session
  accepted, \* leg |-> generation |-> frames written            (history)
  events,   \* leg |-> generations whose end is to be read
  ended,    \* leg |-> generation |-> ends told                 (history)
  onHold,   \* legs on hold
  roomOpen

audioVars == <<streams, accepted, events, ended, onHold, roomOpen>>

Gens == 1 .. MaxGen

NoStream == [at |-> "none", gen |-> 1, pcm |-> <<>>, pulled |-> 0, finished |-> FALSE,
             drain |-> FALSE, completed |-> FALSE]

Init ==
  /\ streams = [l \in AudioLegs |-> NoStream]
  /\ accepted = [l \in AudioLegs |-> [g \in Gens |-> 0]]
  /\ events = [l \in AudioLegs |-> <<>>]
  /\ ended = [l \in AudioLegs |-> [g \in Gens |-> 0]]
  /\ onHold = {} /\ roomOpen = TRUE

---------------------------------------------------------------------------

roomVars == <<onHold, roomOpen>>

Stream(l, s) == streams' = [streams EXCEPT ![l] = s]

\* fail and Close: done, and nothing is left to play.
Ended(s) == [s EXCEPT !.at = "done", !.pcm = <<>>, !.finished = TRUE]

\* OpenApplicationStream: one session per leg; one that is done is replaced.
\* (A bound: a leg opens once.)
OpenStream(l) ==
  /\ roomOpen /\ streams[l].at = "none"
  /\ Stream(l, [streams[l] EXCEPT !.at = "open"])
  /\ UNCHANGED <<accepted, events, ended, roomVars>>

TakesFinished(s, g) == s.at = "open" /\ g = s.gen /\ Len(s.pcm) < OutputCap

\* writeRate: the frame is of this generation, which is not finished, and fits.
Takes(s, g) == s.at = "open" /\ g = s.gen /\ ~s.finished /\ Len(s.pcm) < OutputCap

Write(l, g) ==
  LET s == streams[l] IN
  /\ Takes(s, g) /\ accepted[l][g] < MaxWrites
  /\ Stream(l, [s EXCEPT !.pcm = Append(@, g)])
  /\ accepted' = [accepted EXCEPT ![l][g] = @ + 1]
  /\ UNCHANGED <<events, ended, roomVars>>

\* clear: a later generation begins and what the one before left is dropped.
Cleared(s, g) ==
  [s EXCEPT !.gen = g, !.pcm = <<>>, !.finished = FALSE, !.completed = FALSE, !.drain = FALSE, !.pulled = 0]

Clear(l, g) ==
  /\ streams[l].at # "none" /\ g > streams[l].gen
  /\ Stream(l, Cleared(streams[l], g))
  /\ UNCHANGED <<accepted, events, ended, roomVars>>

\* finish: the tail that the resampler kept may follow as one more frame.
Finish(l) ==
  LET s == streams[l] IN
  /\ s.at # "none" /\ ~s.finished
  /\ Stream(l, [s EXCEPT !.finished = TRUE])
  /\ UNCHANGED <<accepted, events, ended, roomVars>>

\* Nothing is left of a generation that was finished.
Drained(s) == s.finished /\ s.pcm = <<>> /\ ~s.completed

\* pull: a frame; then, when the silence after the last one is over, the end.
Pulled(s) == IF s.pcm = <<>> THEN s ELSE [s EXCEPT !.pcm = Tail(@), !.pulled = @ + 1]

PullOutput(l, s) ==
  LET p == Pulled(s) IN
  IF Drained(p) /\ p.drain
    THEN IF Len(events[l]) < EventCap
           THEN /\ Stream(l, [p EXCEPT !.completed = TRUE])
                /\ events' = [events EXCEPT ![l] = Append(@, p.gen)]
                /\ ended' = [ended EXCEPT ![l][p.gen] = @ + 1]
           ELSE Stream(l, Ended([p EXCEPT !.completed = TRUE])) /\ UNCHANGED <<events, ended>>
    ELSE Stream(l, [p EXCEPT !.drain = @ \/ Drained(p)]) /\ UNCHANGED <<events, ended>>

\* applicationFrames for one leg: a session that is done leaves the room, one
\* whose application reads nothing of the input for 2 seconds fails (at any
\* tick, for the model), one on hold waits.
TickStream(l) ==
  LET s == streams[l] IN
  /\ roomOpen /\ s.at \in {"open", "done"}
  /\ IF s.at = "done" THEN Stream(l, [s EXCEPT !.at = "gone"]) /\ UNCHANGED <<events, ended>>
     ELSE /\ l \notin onHold
          /\ PullOutput(l, s) \/ PullOutput(l, Ended(s))
  /\ UNCHANGED <<accepted, roomVars>>

\* The application reads its events.
Read(l) ==
  /\ events[l] # <<>> /\ events' = [events EXCEPT ![l] = Tail(@)]
  /\ UNCHANGED <<streams, accepted, ended, roomVars>>

\* The application ends its session.
CloseStream(l) ==
  /\ streams[l].at = "open" /\ Stream(l, Ended(streams[l]))
  /\ UNCHANGED <<accepted, events, ended, roomVars>>

\* The leg is held or not.
Hold(l) ==
  /\ onHold' = (onHold \ {l}) \union ({l} \ onHold)
  /\ UNCHANGED <<streams, accepted, events, ended, roomOpen>>

Gone(s) == IF s.at = "open" THEN [Ended(s) EXCEPT !.at = "gone"] ELSE s

\* LeaveRoom and CloseRoom end the sessions.
Leave(l) ==
  /\ roomOpen /\ Stream(l, Gone(streams[l]))
  /\ UNCHANGED <<accepted, events, ended, roomVars>>

CloseRoom ==
  /\ roomOpen /\ roomOpen' = FALSE
  /\ streams' = [l \in AudioLegs |-> Gone(streams[l])]
  /\ UNCHANGED <<accepted, events, ended, onHold>>

Next ==
  \/ \E l \in AudioLegs :
       \/ OpenStream(l) \/ Finish(l) \/ TickStream(l) \/ Read(l) \/ CloseStream(l)
       \/ Hold(l) \/ Leave(l)
       \/ \E g \in Gens : Write(l, g) \/ Clear(l, g)
  \/ CloseRoom

Spec == Init /\ [][Next]_audioVars

---------------------------------------------------------------------------

\* The variables keep the types of the sessions.
TypeOK ==
  \A l \in AudioLegs :
    /\ streams[l].at \in {"none", "open", "done", "gone"} /\ streams[l].gen \in Gens
    /\ Len(streams[l].pcm) <= OutputCap /\ Len(events[l]) <= EventCap

\* What plays is of the generation the application speaks in: after it was
\* interrupted not one frame of the sentence before is left, whatever was
\* written, finished or pulled meanwhile.
NoOldAudio ==
  \A l \in AudioLegs : \A i \in DOMAIN streams[l].pcm : streams[l].pcm[i] = streams[l].gen

\* The end of a generation is told once, and only when every frame that was
\* accepted for it has been pulled.
EndIsTrue ==
  \A l \in AudioLegs :
    /\ \A g \in Gens : ended[l][g] <= 1
    /\ streams[l].completed /\ streams[l].at = "open" => streams[l].pulled = accepted[l][streams[l].gen]
=============================================================================
