------------------------------ MODULE PromptPlayer ------------------------------
(***************************************************************************)
(* What the callers of one room hear beside each other: the prompt of the  *)
(* IVR, the waiting music and its end when an agent answers.  A prompt is  *)
(* injected in two steps, a generation number that cancels the prompt      *)
(* before it and a goroutine that installs the samples; the mixer's tick   *)
(* plays and fades; goroutines that sleep end what a tick did not end.     *)
(***************************************************************************)
EXTENDS Naturals, FiniteSets

CONSTANTS
  MaxSeq,     \* bound: generations that a request begins
  MaxSleeps,  \* bound: goroutines that sleep at one time
  MaxGens,    \* bound: handoffs
  Length,     \* frames of a prompt
  FadeFrames  \* frames of a fade

VARIABLES
  seq,      \* promptSeq
  loading,  \* producers that have not installed their prompt: [gen, loop]
  prompt,   \* the installed prompts (one at most): [gen, loop, left]
  ready,    \* an endpoint can receive the prompt
  grace,    \* connectGraceUntil is in the future
  stop,     \* promptStopAt: "none", "later" or "now"
  fade,     \* [total, left]
  handoffs, \* handoffGen
  sleepers, \* goroutines that end a prompt: [gen, seq, at]
  closed,
  told,     \* generations whose end was told to the control layer  (history)
  shots,    \* non-looping generations that can be converted       (history)
  last      \* generation of the last frame that was played        (history)

promptVars == <<seq, loading, prompt, ready, grace, stop, fade, handoffs, sleepers, closed,
                told, shots, last>>

\* The last generations are those of the sleepers, a fade and the closing.
TopSeq == MaxSeq + MaxSleeps + MaxGens + 2

NoFade == [total |-> 0, left |-> 0]

\* The sleeper of StopInjectedAudio has no handoff of its own.
AnyGen == 0

Init ==
  /\ seq = 0 /\ loading = {} /\ prompt = {} /\ ready = FALSE
  /\ grace = FALSE /\ stop = "none" /\ fade = NoFade
  /\ handoffs = 0 /\ sleepers = {} /\ closed = FALSE
  /\ told = [g \in 1 .. TopSeq |-> 0] /\ shots = {} /\ last = 0

---------------------------------------------------------------------------

\* clearHandoffLocked.
ClearHandoff == grace' = FALSE /\ stop' = "none" /\ fade' = NoFade

handoffVars == <<grace, stop, fade>>

Tell(g) == told' = [told EXCEPT ![g] = @ + 1]

\* A new generation, which cancels the prompt of the one before.
Generation(loop) ==
  /\ ~closed /\ seq < MaxSeq /\ seq' = seq + 1
  /\ loading' = loading \union {[gen |-> seq + 1, loop |-> loop]}
  /\ shots' = IF loop THEN shots ELSE shots \union {seq + 1}
  /\ UNCHANGED <<prompt, ready, handoffs, sleepers, closed, told, last>>

\* InjectAudio: the handoff is cleared with the old prompt.
Inject(loop) == Generation(loop) /\ ClearHandoff

\* SetHold: the music of a leg on hold; a handoff stays as it is.
HoldMusic == Generation(TRUE) /\ UNCHANGED handoffVars

\* A leg that is taken from hold ends the music.
Unhold ==
  /\ ~closed /\ seq < MaxSeq /\ seq' = seq + 1
  /\ UNCHANGED <<loading, prompt, ready, handoffVars, handoffs, sleepers, closed, told, shots, last>>

\* playPCMToRoom.  Samples that cannot be converted are reported as the end of
\* a looping prompt, which the control layer ignores.
Install(x) ==
  /\ loading' = loading \ {x}
  /\ \/ /\ prompt' = IF ~closed /\ x.gen = seq
                       THEN {[gen |-> x.gen, loop |-> x.loop, left |-> Length]} ELSE prompt
        /\ UNCHANGED shots
     \/ shots' = shots \ {x.gen} /\ UNCHANGED prompt
  /\ UNCHANGED <<seq, ready, handoffVars, handoffs, sleepers, closed, told, last>>

\* The step of a fade that a frame takes; the last one ends the generation.
FadeStarts == stop = "now" /\ fade.left = 0
FadeLeft == IF FadeStarts THEN fade.total ELSE fade.left

PlayFrame(p) ==
  /\ last' = p.gen
  /\ prompt' = {[p EXCEPT !.left = @ - 1]}
  /\ IF FadeLeft = 1 THEN seq' = seq + 1 /\ ClearHandoff
     ELSE /\ fade' = [fade EXCEPT !.left = IF FadeLeft > 0 THEN FadeLeft - 1 ELSE 0]
          /\ UNCHANGED <<seq, grace, stop>>
  /\ UNCHANGED told

StaleNever(p) == FALSE

\* A newer generation has cancelled the prompt.
Stale(p) == p.gen # seq

\* What plays after the last frame.
Rest(p) == IF p.loop THEN {[p EXCEPT !.left = Length]} ELSE {}

\* The end of a prompt is told to the control layer.
AtEnd(p) == IF p.loop THEN UNCHANGED told ELSE Tell(p.gen)

\* promptFrameLocked: one tick of the mixer.
Tick ==
  /\ ~closed
  /\ \E p \in prompt :
       \/ Stale(p) /\ prompt' = {} /\ UNCHANGED <<seq, handoffVars, told, last>>
       \/ ~Stale(p) /\ ready /\ p.left > 0 /\ PlayFrame(p)
       \/ /\ ~Stale(p) /\ ready /\ p.left = 0
          /\ prompt' = Rest(p) /\ AtEnd(p)
          /\ UNCHANGED <<seq, handoffVars, last>>
  /\ UNCHANGED <<loading, ready, handoffs, sleepers, closed, shots>>

\* The media of an endpoint gets ready.
GetReady ==
  /\ ~ready /\ ready' = TRUE
  /\ UNCHANGED <<seq, loading, prompt, handoffVars, handoffs, sleepers, closed, told, shots, last>>

\* BeginQueueAnswerHandoff: once while the grace lasts, with a watchdog.
Handoff ==
  /\ ~closed /\ ~grace /\ handoffs < MaxGens /\ Cardinality(sleepers) < MaxSleeps
  /\ grace' = TRUE /\ stop' = "later" /\ fade' = [total |-> FadeFrames, left |-> 0]
  /\ handoffs' = handoffs + 1
  /\ sleepers' = sleepers \union {[gen |-> handoffs + 1, seq |-> seq, at |-> "sleep"]}
  /\ UNCHANGED <<seq, loading, prompt, ready, closed, told, shots, last>>

\* The grace is over: agent and caller hear each other and the fade begins.
GraceEnds ==
  /\ grace /\ grace' = FALSE /\ stop' = "now"
  /\ UNCHANGED <<seq, loading, prompt, ready, fade, handoffs, sleepers, closed, told, shots, last>>

\* StopInjectedAudio: nothing while the grace lasts, else the fade begins.
StopInjected ==
  /\ ~closed /\ ~grace /\ seq < MaxSeq /\ Cardinality(sleepers) < MaxSleeps
  /\ stop' = "now" /\ grace' = FALSE
  /\ fade' = [total |-> FadeFrames, left |-> IF fade.left = 0 THEN FadeFrames ELSE fade.left]
  /\ sleepers' = sleepers \union {[gen |-> AnyGen, seq |-> seq, at |-> "sleep"]}
  /\ UNCHANGED <<seq, loading, prompt, ready, handoffs, closed, told, shots, last>>

DueBefore(x) == ~closed /\ x.gen \in {AnyGen, handoffs - 1} /\ x.seq = seq

\* Still the same handoff and the same generation.
Due(x) == ~closed /\ x.gen \in {AnyGen, handoffs} /\ x.seq = seq

\* handoffWatchdog and schedulePromptSeqBump: the sleep is over.
SleeperChecks(x) ==
  /\ x.at = "sleep" /\ (x.gen = handoffs => ~grace)
  /\ sleepers' = (sleepers \ {x}) \union
       IF Due(x) THEN {[x EXCEPT !.at = "bump"]} ELSE {}
  /\ UNCHANGED <<seq, loading, prompt, ready, handoffVars, handoffs, closed, told, shots, last>>

\* Then the next generation, whichever is the one by now.
SleeperBumps(x) ==
  /\ x.at = "bump" /\ sleepers' = sleepers \ {x}
  /\ seq' = seq + 1 /\ ClearHandoff
  /\ UNCHANGED <<loading, prompt, ready, handoffs, closed, told, shots, last>>

CloseRoom ==
  /\ ~closed /\ closed' = TRUE /\ seq' = seq + 1 /\ prompt' = {}
  /\ UNCHANGED <<loading, ready, handoffVars, handoffs, sleepers, told, shots, last>>

Next ==
  \/ \E loop \in BOOLEAN : Inject(loop)
  \/ \E x \in loading : Install(x)
  \/ \E x \in sleepers : SleeperChecks(x) \/ SleeperBumps(x)
  \/ HoldMusic \/ Unhold \/ Tick \/ GetReady \/ Handoff \/ GraceEnds \/ StopInjected \/ CloseRoom

\* Goroutines run on, the clock of the room ticks, times pass.
Fairness ==
  /\ WF_promptVars(\E x \in loading : Install(x))
  /\ WF_promptVars(\E x \in sleepers : SleeperChecks(x))
  /\ WF_promptVars(\E x \in sleepers : SleeperBumps(x))
  /\ WF_promptVars(Tick) /\ WF_promptVars(GraceEnds) /\ WF_promptVars(prompt # {} /\ GetReady)

Spec == Init /\ [][Next]_promptVars
FairSpec == Spec /\ Fairness

---------------------------------------------------------------------------

\* The variables keep the types of the generations, prompts and times.
TypeOK ==
  /\ seq \in 0 .. TopSeq /\ last \in 0 .. TopSeq
  /\ loading \subseteq [gen: 1 .. MaxSeq, loop: BOOLEAN]
  /\ prompt \subseteq [gen: 1 .. MaxSeq, loop: BOOLEAN, left: 0 .. Length]
  /\ Cardinality(prompt) <= 1
  /\ grace \in BOOLEAN /\ stop \in {"none", "later", "now"}
  /\ fade \in [total: {0, FadeFrames}, left: 0 .. FadeFrames]
  /\ sleepers \subseteq [gen: 0 .. MaxGens, seq: 0 .. TopSeq, at: {"sleep", "bump"}]

\* A producer that was slow does not take the room back to an older prompt:
\* the frames that are played never belong to a generation before one that was
\* played already.
NoOlderPrompt == [][last' >= last /\ (last' # last => last' = seq)]_promptVars

\* The end of a prompt is told at most once, and never of a looping one.
ToldOnce == \A g \in 1 .. TopSeq : told[g] <= IF g \in shots THEN 1 ELSE 0

\* A prompt that is to be told, of the generation that counts.
Untold == ~closed /\ seq \in shots /\ told[seq] = 0

\* The flow behind a prompt goes on: it is told, or something newer plays or
\* the prompt was ended on purpose or could not be converted.
PromptEnds == Untold ~> ~Untold

\* When an agent has answered, the waiting music ends, also when no endpoint is
\* ready for it: the tick fades it out or the sleeper cuts it.
MusicEnds ==
  \A g \in 1 .. MaxSeq : seq = g /\ (\E x \in sleepers : x.seq = g) ~> seq # g \/ closed
=============================================================================
