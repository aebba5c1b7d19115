------------------------------- MODULE MediaRoom -------------------------------
(***************************************************************************)
(* The media room of a call: its WebRTC peers and what the mixer keeps for *)
(* a leg.  A join makes a peer, installs it and closes the one it replaces,*)
(* and room and mixer have a lock each: the tick of the mixer collects its *)
(* destinations under the one and sends under the other.                   *)
(***************************************************************************)
EXTENDS Naturals, FiniteSets

CONSTANTS
  RoomLegs,
  NoPeer,
  MaxPeers  \* bound: joins of a leg

Peers == RoomLegs \X (1 .. MaxPeers)

VARIABLES
  phase,    \* the room: "none", "open", "closing", "taken", "over"
  peers,    \* leg |-> its peer
  pc,       \* peer |-> where its connection is
  mixer,    \* "running", "stopping", "stopped"
  senders,  \* leg |-> the peer whose track its sender writes
  buffers,  \* legs with a playout buffer
  sends,    \* destinations the tick collected
  reads     \* peers whose packet was read and not yet ingested

roomVars == <<phase, peers, pc, mixer, senders, buffers, sends, reads>>
tableVars == <<phase, peers, pc>>
mixVars == <<mixer, senders, buffers, sends, reads>>

Init ==
  /\ phase = "none" /\ peers = [l \in RoomLegs |-> NoPeer]
  /\ pc = [p \in Peers |-> "none"]
  /\ mixer = "running" /\ senders = [l \in RoomLegs |-> NoPeer]
  /\ buffers = {} /\ sends = {} /\ reads = {}

---------------------------------------------------------------------------

\* CreateRoom: a repeated call finds the room.
CreateRoom == phase = "none" /\ phase' = "open" /\ UNCHANGED <<peers, pc, mixVars>>

\* JoinWebRTC: the room is not closed, and a connection is made.
JoinMake(p) ==
  /\ phase = "open" /\ pc[p] = "none" /\ \A n \in 1 .. p[2] - 1 : pc[<<p[1], n>>] # "none"
  /\ pc' = [pc EXCEPT ![p] = "made"]
  /\ UNCHANGED <<phase, peers, mixVars>>

\* removeLeg: what the mixer keeps for the leg.
RemoveLeg(l) == senders' = [senders EXCEPT ![l] = NoPeer] /\ buffers' = buffers \ {l}

JoinInstallUnchecked(p) ==
  /\ pc[p] = "made" /\ peers' = [peers EXCEPT ![p[1]] = p] /\ pc' = [pc EXCEPT ![p] = "in"]
  /\ UNCHANGED <<phase, mixVars>>

\* Under the lock: closed meanwhile, or the peer of the leg from now on.  The
\* connection that is replaced is closed after the unlock.
JoinInstall(p) ==
  LET l == p[1]
      old == peers[l] IN
  /\ pc[p] = "made"
  /\ IF phase # "open"
       THEN pc' = [pc EXCEPT ![p] = "closed"] /\ UNCHANGED <<peers, senders, buffers>>
       ELSE /\ peers' = [peers EXCEPT ![l] = p]
            /\ IF old = NoPeer
                 THEN pc' = [pc EXCEPT ![p] = "in"] /\ UNCHANGED <<senders, buffers>>
                 ELSE pc' = [pc EXCEPT ![p] = "in", ![old] = "replaced"] /\ RemoveLeg(l)
  /\ UNCHANGED <<phase, mixer, sends, reads>>

\* LeaveRoom: out of the table under the lock; its mixer state and then its
\* connection after it.
Leave(l) ==
  LET p == peers[l] IN
  /\ phase = "open" /\ p # NoPeer
  /\ peers' = [peers EXCEPT ![l] = NoPeer] /\ pc' = [pc EXCEPT ![p] = "left"]
  /\ UNCHANGED <<phase, mixVars>>

LeaveMixer(p) ==
  /\ pc[p] = "left" /\ RemoveLeg(p[1]) /\ pc' = [pc EXCEPT ![p] = "leaving"]
  /\ UNCHANGED <<phase, peers, mixer, sends, reads>>

ClosePeer(p) ==
  /\ pc[p] \in {"replaced", "leaving"} \/ (pc[p] = "taken" /\ mixer = "stopped")
  /\ pc' = [pc EXCEPT ![p] = "closed"]
  /\ UNCHANGED <<phase, peers, mixVars>>

\* CloseRoom: closed and out of the register; then its peers are taken, ...
CloseRoom == phase = "open" /\ phase' = "closing" /\ UNCHANGED <<peers, pc, mixVars>>

CloseTake ==
  /\ phase = "closing" /\ phase' = "taken"
  /\ peers' = [l \in RoomLegs |-> NoPeer]
  /\ pc' = [p \in Peers |-> IF peers[p[1]] = p THEN "taken" ELSE pc[p]]
  /\ UNCHANGED <<mixVars>>

\* ... and the mixer stops: no sender and no buffer is made from now on, and
\* when the tick has come to its end those there are are closed.
CloseMixer ==
  /\ phase = "taken" /\ mixer = "running" /\ mixer' = "stopping"
  /\ UNCHANGED <<tableVars, senders, buffers, sends, reads>>

MixerStops ==
  /\ mixer = "stopping" /\ sends = {}
  /\ mixer' = "stopped" /\ phase' = "over"
  /\ senders' = [l \in RoomLegs |-> NoPeer] /\ buffers' = {}
  /\ UNCHANGED <<peers, pc, sends, reads>>

---------------------------------------------------------------------------

\* dispatchMixFrames: the destinations, under the lock of the room.
TickCollect ==
  /\ phase = "open" /\ mixer = "running" /\ sends = {}
  /\ sends' = {<<l, peers[l]>> : l \in {m \in RoomLegs : peers[m] # NoPeer}}
  /\ UNCHANGED <<tableVars, mixer, senders, buffers, reads>>

\* send, under the lock of the mixer: the sender of the leg, made at need.
TickSend ==
  /\ \E d \in sends :
       /\ sends' = sends \ {d}
       /\ senders' = IF mixer = "running" /\ senders[d[1]] = NoPeer
                       THEN [senders EXCEPT ![d[1]] = d[2]] ELSE senders
  /\ UNCHANGED <<tableVars, mixer, buffers, reads>>

\* forward: a packet of the peer; the room is still registered.  (A bound: one
\* packet is under way.)
ForwardRead(p) ==
  /\ reads = {} /\ phase = "open" /\ pc[p] \in {"in", "replaced", "left", "leaving"}
  /\ reads' = reads \union {p}
  /\ UNCHANGED <<tableVars, mixer, senders, buffers, sends>>

\* ingestPacket: the buffer of the leg, unless the mixer stops.
Ingest(p) ==
  /\ p \in reads /\ reads' = reads \ {p}
  /\ buffers' = IF mixer = "running" THEN buffers \union {p[1]} ELSE buffers
  /\ UNCHANGED <<tableVars, mixer, senders, sends>>

Next ==
  \/ CreateRoom \/ CloseRoom \/ CloseTake \/ CloseMixer \/ MixerStops \/ TickCollect \/ TickSend
  \/ \E l \in RoomLegs : Leave(l)
  \/ \E p \in Peers : \/ JoinMake(p) \/ JoinInstall(p) \/ LeaveMixer(p) \/ ClosePeer(p)
                      \/ ForwardRead(p) \/ Ingest(p)

\* Handlers that hold a peer go on, and so does the tick of a mixer.
Fairness ==
  /\ WF_roomVars(CloseTake) /\ WF_roomVars(CloseMixer) /\ WF_roomVars(MixerStops) /\ WF_roomVars(TickSend)
  /\ \A p \in Peers : WF_roomVars(JoinInstall(p)) /\ WF_roomVars(LeaveMixer(p)) /\ WF_roomVars(ClosePeer(p))

Spec == Init /\ [][Next]_roomVars
FairSpec == Spec /\ Fairness

---------------------------------------------------------------------------

\* The variables keep the types of the room, its peers and its mixer.
TypeOK ==
  /\ phase \in {"none", "open", "closing", "taken", "over"}
  /\ peers \in [RoomLegs -> Peers \union {NoPeer}] /\ senders \in [RoomLegs -> Peers \union {NoPeer}]
  /\ pc \in [Peers -> {"none", "made", "in", "replaced", "left", "leaving", "taken", "closed"}]
  /\ reads \subseteq Peers /\ buffers \subseteq RoomLegs
  /\ mixer \in {"running", "stopping", "stopped"}

\* Every connection that was made is in the table of the room or in the hands
\* of the handler that is to close it: none is lost where joins, a leave and
\* the end of the call cross.
NoPeerLost ==
  \A p \in Peers :
    /\ pc[p] = "in" <=> peers[p[1]] = p
    /\ phase \in {"taken", "over"} => pc[p] # "in"

\* A mixer that has stopped keeps no playout buffer and no sender, and gets
\* none from a packet or a tick that was under way.
NothingAfterStop == mixer = "stopped" => buffers = {} /\ \A l \in RoomLegs : senders[l] = NoPeer

\* The connections of a call that ended are closed.
PeersClose == phase = "closing" ~> \A p \in Peers : pc[p] \in {"none", "closed"}

\* JoinWebRTC binds the track of the leg that it adds: while no tick is under
\* way the sender of a leg writes the track of its peer.  This does not hold for
\* a leg that joins again while a tick is under way (README, Disagreements).
SenderWritesPeer ==
  sends = {} /\ phase = "open" =>
    \A l \in RoomLegs : peers[l] # NoPeer /\ senders[l] # NoPeer => senders[l] = peers[l]
=============================================================================
