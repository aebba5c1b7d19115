------------------------------- MODULE MediaPlane -------------------------------
(***************************************************************************)
(* The media of a call in one run: the room and its peers, candidates,     *)
(* recordings, prompts, the audio of applications, keys and playout        *)
(* buffers, and the dialogs of SIP.  The modules share no variable, so a   *)
(* behaviour belongs to one of them: turn, chosen in the initial state,    *)
(* and the variables of the others keep their values.                      *)
(***************************************************************************)
EXTENDS Integers, Sequences, FiniteSets

CONSTANTS
  Parts,
  RecIds, NoRec, RecLegs, QueueCap, MaxFrames,
  MaxSeq, MaxSleeps, MaxGens, Length, FadeFrames,
  AudioLegs, OutputCap, EventCap, MaxGen, MaxWrites,
  PlayLegs, Assets, Frames,
  RoomLegs, NoPeer, MaxPeers,
  MaxJoins, Candidates, NoJoin,
  KeyLegs, SipKeys, MaxKeys, Repeats,
  Width, Start, Capacity, LateRun, Sizes, Ahead, Back, MaxPos,
  InDialogs, OutDialogs, MaxHops, MaxDefers, MaxEndings

\* The bounds are numbers, who is nobody differs from everybody, a dialog came in
\* or was dialled, and a timestamp tells a jump forward from one back.
ASSUME MediaAssumption ==
  /\ QueueCap \in Nat /\ MaxFrames \in Nat /\ NoRec \notin RecIds
  /\ {MaxSeq, MaxSleeps, MaxGens, Length, FadeFrames} \subseteq Nat
  /\ {OutputCap, EventCap, Frames} \subseteq Nat /\ MaxGen \in Nat \ {0}
  /\ NoPeer \notin RoomLegs \X (1 .. MaxPeers)
  /\ {MaxKeys, Repeats} \subseteq Nat
  /\ InDialogs \intersect OutDialogs = {} /\ {MaxHops, MaxDefers} \subseteq Nat

ASSUME TimestampAssumption ==
  /\ 2 ^ Width \in Nat \ {0} /\ {Start, Capacity, MaxPos, Ahead, Back} \subseteq Nat
  /\ LateRun \in Nat \ {0} /\ Sizes \subseteq Nat
  /\ \A len \in Sizes, jump \in -Back .. Ahead :
       - (2 ^ Width \div 2) <= len + jump /\ len + jump < 2 ^ Width \div 2

VARIABLES
  turn,
  room, starter, rec, tick, stopping, frames, taken, lost,
  seq, loading, prompt, ready, grace, stop, fade, handoffs, sleepers, closed, told, shots, last,
  streams, accepted, events, ended, onHold, roomOpen,
  targets, heldLegs, assets, outcome, playRoom,
  peer, open, answered, pendingICE, added, asked,
  phase, peers, pc, mixer, senders, buffers, sends, reads,
  pressed, wire, lastDTMF, pending, running, workers, queued, heard,
  clock, anchored, lastTS, position, cursor, maxWritten, samples, lateRunSamples, primed, lastHeard,
  dlg, endings, roomState, gate, deferred, ran, byes

Recording == INSTANCE CallRecording
Prompts == INSTANCE PromptPlayer
Audio == INSTANCE ApplicationAudio
PlayedAssets == INSTANCE AssetPlayback
Room == INSTANCE MediaRoom
Ice == INSTANCE IceExchange
DtmfKeys == INSTANCE Dtmf
Playout == INSTANCE PlayoutBuffer
Sip == INSTANCE SipDialogs

recVars == <<room, starter, rec, tick, stopping, frames, taken, lost>>
promptVars == <<seq, loading, prompt, ready, grace, stop, fade, handoffs, sleepers, closed,
                told, shots, last>>
audioVars == <<streams, accepted, events, ended, onHold, roomOpen>>
assetVars == <<targets, heldLegs, assets, outcome, playRoom>>
iceVars == <<peer, open, answered, pendingICE, added, asked>>
roomVars == <<phase, peers, pc, mixer, senders, buffers, sends, reads>>
dtmfVars == <<pressed, wire, lastDTMF, pending, running, workers, queued, heard>>
playVars == <<clock, anchored, lastTS, position, cursor, maxWritten, samples,
              lateRunSamples, primed, lastHeard>>
sipVars == <<dlg, endings, roomState, gate, deferred, ran, byes>>
vars == <<turn, recVars, promptVars, audioVars, assetVars,
          roomVars, iceVars, dtmfVars, playVars, sipVars>>

Init ==
  /\ turn \in Parts
  /\ Recording!Init /\ Prompts!Init /\ Audio!Init
  /\ PlayedAssets!Init /\ Room!Init /\ Ice!Init /\ DtmfKeys!Init /\ Playout!Init /\ Sip!Init

RecordingStep == turn = "recording" /\ Recording!Next /\ UNCHANGED
  <<turn, promptVars, audioVars, assetVars, roomVars, iceVars, dtmfVars, playVars, sipVars>>
PromptStep == turn = "prompts" /\ Prompts!Next /\ UNCHANGED
  <<turn, recVars, audioVars, assetVars, roomVars, iceVars, dtmfVars, playVars, sipVars>>
AudioStep == turn = "audio" /\ Audio!Next /\ UNCHANGED
  <<turn, recVars, promptVars, assetVars, roomVars, iceVars, dtmfVars, playVars, sipVars>>
AssetStep == turn = "assets" /\ PlayedAssets!Next /\ UNCHANGED
  <<turn, recVars, promptVars, audioVars, roomVars, iceVars, dtmfVars, playVars, sipVars>>
RoomStep == turn = "room" /\ Room!Next /\ UNCHANGED
  <<turn, recVars, promptVars, audioVars, assetVars, iceVars, dtmfVars, playVars, sipVars>>
IceStep == turn = "ice" /\ Ice!Next /\ UNCHANGED
  <<turn, recVars, promptVars, audioVars, assetVars, roomVars, dtmfVars, playVars, sipVars>>
DtmfStep == turn = "dtmf" /\ DtmfKeys!Next /\ UNCHANGED
  <<turn, recVars, promptVars, audioVars, assetVars, roomVars, iceVars, playVars, sipVars>>
PlayoutStep == turn = "playout" /\ Playout!Next /\ UNCHANGED
  <<turn, recVars, promptVars, audioVars, assetVars, roomVars, iceVars, dtmfVars, sipVars>>
SipStep == turn = "sip" /\ Sip!Next /\ UNCHANGED
  <<turn, recVars, promptVars, audioVars, assetVars, roomVars, iceVars, dtmfVars, playVars>>

Next ==
  \/ RecordingStep \/ PromptStep \/ AudioStep
  \/ AssetStep \/ RoomStep \/ IceStep \/ DtmfStep \/ PlayoutStep
  \/ SipStep

\* The fair actions are disabled in the initial state of a part, so the
\* fairness of the parts that do not move is vacuous.
Spec ==
  /\ Init /\ [][Next]_vars
  /\ Recording!Fairness /\ Prompts!Fairness
  /\ PlayedAssets!Fairness /\ Room!Fairness /\ DtmfKeys!Fairness /\ Playout!Fairness
  /\ Sip!Fairness

---------------------------------------------------------------------------

\* The type invariants of the nine modules.
TypesOK ==
  /\ Recording!TypeOK /\ Prompts!TypeOK /\ Audio!TypeOK
  /\ PlayedAssets!TypeOK /\ Room!TypeOK /\ Ice!TypeOK /\ DtmfKeys!TypeOK /\ Playout!TypeOK
  /\ Sip!TypeOK

\* A recording whose stop succeeded holds every group that its queue took, and a
\* group that its full queue refused fails it (conversation_recording.go).
TakenIsKept == Recording!TakenIsKept

\* An end is told once and truly, whoever else ends the same thing meanwhile:
\* of a recording, a prompt, a generation of application audio, an asset and,
\* with BYE, a dialog.
EndsToldOnce ==
  /\ Recording!FailureToldOnce
  /\ Prompts!ToldOnce
  /\ Audio!EndIsTrue
  /\ PlayedAssets!OneAssetOneEnd
  /\ Sip!ByeOnce

\* What was replaced or interrupted is not heard any more: audio of an older
\* generation, and a prompt older than one that has played.
NothingOldPlays == []Audio!NoOldAudio /\ Prompts!NoOlderPrompt

\* What comes while a peer is set up is not lost: the connection that another
\* join replaces is closed, and candidates that came before the answer are
\* added with it (service.go of the media).
NothingLost == Room!NoPeerLost /\ Ice!CandidatesAdded

\* What has stopped holds nothing: a room has one recorder and every other one
\* is closed, a mixer takes no packet after its stop, and the socket of a
\* dialog that is over is returned.
NothingAfterEnd == Recording!OneRecorder /\ Room!NothingAfterStop /\ Sip!PortReturned

\* What is heard keeps an order: keys the one in which the read loops queued
\* them, and packets the one in which they were sent, also when their timestamps
\* wrap (service.go and playout_buffer.go of the media).
InOrder == DtmfKeys!HeardAsQueued /\ Playout!PositionIsSent /\ Playout!HeardForward

\* The flow of a call that comes in by SIP waits for the answer (sip.go).
FlowWaitsForAnswer == Sip!FlowWaitsForAnswer

\* What was begun comes to an end: the consumer of a recorder, prompts and
\* music, assets, the peers of a call, keys, buffers and dialogs.
MediaSettles ==
  /\ Recording!ConsumerEnds /\ Recording!LossIsTold
  /\ Prompts!PromptEnds /\ Prompts!MusicEnds
  /\ PlayedAssets!AssetEnds
  /\ Room!PeersClose
  /\ DtmfKeys!KeysHeard
  /\ Playout!BufferDrains
  /\ Sip!DialogSettles
=================================================================================
