------------------------------- MODULE SipDialogs -------------------------------
(***************************************************************************)
(* The SIP dialogs of one call: the one it came in by and those dialled    *)
(* for it.  The goroutine that answers or dials goes through its steps     *)
(* while others end the dialog: the room is closed, the leg leaves, the    *)
(* peer sends BYE or CANCEL.  Ending is two steps: the dialogs are looked  *)
(* up under the lock of the user agent, then dropped from its tables and   *)
(* ended one by one.                                                       *)
(*                                                                         *)
(* A redirect or a longer session interval makes the dialling goroutine    *)
(* invite again with a new session and the same RTP socket.                *)
(***************************************************************************)
EXTENDS Naturals, FiniteSets

CONSTANTS
  InDialogs,   \* dialogs that came in (one opens the call)
  OutDialogs,  \* dialogs dialled for a leg
  MaxHops,     \* further invitations of one dial (sipMaxRedirectHops)
  MaxDefers,   \* bound: callbacks deferred until the answer
  MaxEndings   \* bound: ends on their way before another leg leaves or peer ends

VARIABLES
  dlg,       \* dialog |-> its session
  endings,   \* ends on their way: [d, hop, by], "peer" and every other end without BYE as one
  roomState, \* "none", "open", "closing" or "closed"
  gate,      \* the call waits for its 200 OK
  deferred,  \* callbacks that wait behind the gate
  ran,       \* callbacks that were run                       (history)
  byes       \* dialog |-> BYEs sent                          (history)

sipVars == <<dlg, endings, roomState, gate, deferred, ran, byes>>

Dialogs == InDialogs \union OutDialogs

\* A session: where its goroutine is, its flags, its socket and its peer.
Session ==
  [at: {"idle", "offered", "accepted", "prack", "checked", "opened", "inviting",
        "answered", "up", "failed"},
   hop: 0 .. MaxHops + 1, ended: BOOLEAN, confirmed: BOOLEAN, indexed: BOOLEAN,
   rtp: {"none", "open", "closed"}, peer: {"none", "ringing", "talking", "gone"}]

Fresh == [at |-> "idle", hop |-> 0, ended |-> FALSE, confirmed |-> FALSE,
          indexed |-> FALSE, rtp |-> "none", peer |-> "none"]

Init ==
  /\ dlg = [d \in Dialogs |-> Fresh]
  /\ endings = {} /\ roomState = "none"
  /\ gate = FALSE /\ deferred = 0 /\ ran = 0
  /\ byes = [d \in Dialogs |-> 0]

---------------------------------------------------------------------------

callVars == <<roomState, gate, deferred, ran>>

Set(d, s) == dlg' = [dlg EXCEPT ![d] = s]

\* The ends of the dialogs of the set S, looked up under the lock.
Ending(S, by) == {[d |-> d, hop |-> dlg[d].hop, by |-> by] : d \in {x \in S : dlg[x].indexed}}

FinishAlways(answered) == gate' = FALSE /\ deferred' = 0 /\ ran' = ran + deferred

\* finishSIPAnswer: the callbacks run after the answer or are dropped.
Finish(answered) ==
  /\ gate' = FALSE /\ deferred' = 0
  /\ ran' = ran + IF answered THEN deferred ELSE 0

\* onInvite up to the handler of the call: the socket, the table, the gate.
Invited(d) ==
  /\ dlg[d].at = "idle" /\ roomState = "none" /\ ~gate
  /\ Set(d, [dlg[d] EXCEPT !.at = "offered", !.rtp = "open", !.indexed = TRUE, !.peer = "ringing"])
  /\ gate' = TRUE
  /\ UNCHANGED <<endings, roomState, deferred, ran, byes>>

\* The handler creates the call, or it is refused and taken back.
HandlerReturns(d) ==
  /\ dlg[d].at = "offered"
  /\ \/ /\ Set(d, [dlg[d] EXCEPT !.at = "accepted"])
        /\ roomState' = "open" /\ UNCHANGED <<gate, deferred, ran>>
     \/ /\ Set(d, [dlg[d] EXCEPT !.at = "failed", !.indexed = FALSE, !.rtp = "closed", !.peer = "gone"])
        /\ roomState' = "closed" /\ Finish(FALSE)
  /\ UNCHANGED <<endings, byes>>

\* DeferUntilAnswered: behind the gate, or at once.
Defer ==
  /\ gate /\ roomState = "open" /\ deferred < MaxDefers
  /\ deferred' = deferred + 1
  /\ UNCHANGED <<dlg, endings, roomState, gate, ran, byes>>

\* The dialog has ended meanwhile: 487; else 180, reliable or not.
CheckEnded(d) ==
  /\ dlg[d].at = "accepted"
  /\ IF dlg[d].ended
       THEN Set(d, [dlg[d] EXCEPT !.at = "failed", !.peer = "gone"]) /\ Finish(FALSE)
       ELSE /\ \E to \in {"prack", "checked"} : Set(d, [dlg[d] EXCEPT !.at = to])
            /\ UNCHANGED <<gate, deferred, ran>>
  /\ UNCHANGED <<endings, roomState, byes>>

\* A failure before the answer ends every dialog of the call, without BYE.
FailIn(d) ==
  /\ Set(d, [dlg[d] EXCEPT !.at = "failed", !.peer = "gone"])
  /\ endings' = endings \union Ending(Dialogs, "peer")
  /\ Finish(FALSE) /\ UNCHANGED <<roomState, byes>>

\* waitPRACK: acknowledged, or the time is over or the dialog has ended.
Acknowledged(d) ==
  /\ dlg[d].at = "prack" /\ ~dlg[d].ended
  /\ Set(d, [dlg[d] EXCEPT !.at = "checked"])
  /\ UNCHANGED <<endings, callVars, byes>>

PrackTimeout(d) == dlg[d].at = "prack" /\ FailIn(d)

\* 200 OK with the answer of the offer; it may not be built or not be sent.
Ok(d) ==
  /\ dlg[d].at = "checked"
  /\ \/ FailIn(d)
     \/ /\ Set(d, [dlg[d] EXCEPT !.at = "answered",
                                 !.peer = IF @ = "ringing" THEN "talking" ELSE @])
        /\ UNCHANGED <<endings, callVars, byes>>

\* The goroutine confirms the dialog; a dialled one enters the tables again.
Confirm(d) ==
  /\ dlg[d].at = "answered"
  /\ Set(d, [dlg[d] EXCEPT !.at = "up", !.confirmed = TRUE,
                           !.indexed = IF d \in OutDialogs THEN TRUE ELSE @])
  /\ IF d \in InDialogs THEN Finish(TRUE) ELSE UNCHANGED <<gate, deferred, ran>>
  /\ UNCHANGED <<endings, roomState, byes>>

\* originate: the socket joins the room of a call that is open.
Originate(d) ==
  /\ dlg[d].at = "idle" /\ roomState = "open"
  /\ Set(d, [dlg[d] EXCEPT !.at = "opened", !.rtp = "open"])
  /\ UNCHANGED <<endings, callVars, byes>>

\* One invitation, a session of its own; a later end is a later step.
Invite(d) ==
  /\ dlg[d].at = "opened"
  /\ \/ Set(d, [Fresh EXCEPT !.at = "inviting", !.hop = dlg[d].hop + 1, !.rtp = dlg[d].rtp,
                             !.indexed = TRUE, !.peer = "ringing"])
     \/ Set(d, [dlg[d] EXCEPT !.at = "failed", !.rtp = "closed", !.peer = "gone"])
  /\ UNCHANGED <<endings, callVars, byes>>

\* WaitAnswer: answered; refused, cancelled, without a usable codec or without
\* an answer for 60 seconds; or asked to invite again.
Answered(d) ==
  /\ dlg[d].at = "inviting" /\ ~dlg[d].ended
  /\ Set(d, [dlg[d] EXCEPT !.at = "answered", !.peer = "talking"])
  /\ UNCHANGED <<endings, callVars, byes>>

Refused(d) ==
  /\ dlg[d].at = "inviting"
  /\ \/ Set(d, [dlg[d] EXCEPT !.at = "failed", !.indexed = FALSE, !.rtp = "closed", !.peer = "gone"])
     \/ /\ dlg[d].hop <= MaxHops
        /\ Set(d, [dlg[d] EXCEPT !.at = "opened", !.indexed = FALSE, !.peer = "gone"])
  /\ UNCHANGED <<endings, callVars, byes>>

\* CloseRoom: the dialogs of the call, then what is left in the room.
CloseRoom ==
  /\ roomState = "open" /\ roomState' = "closing"
  /\ endings' = endings \union Ending(Dialogs, "room")
  /\ UNCHANGED <<dlg, gate, deferred, ran, byes>>

RoomClosed ==
  /\ roomState = "closing" /\ endings = {} /\ roomState' = "closed"
  /\ dlg' = [d \in Dialogs |-> IF dlg[d].rtp = "open" THEN [dlg[d] EXCEPT !.rtp = "closed"] ELSE dlg[d]]
  /\ UNCHANGED <<endings, gate, deferred, ran, byes>>

\* LeaveRoom of the leg of a dialog.
LeaveRoom(d) ==
  /\ Cardinality(endings) < MaxEndings
  /\ roomState = "open" /\ dlg[d].rtp = "open"
  /\ endings' = endings \union Ending({d}, "leg")
  /\ dlg' = IF dlg[d].indexed THEN dlg ELSE [dlg EXCEPT ![d].rtp = "closed"]
  /\ UNCHANGED <<callVars, byes>>

\* BYE of the peer, or CANCEL of one that was not answered; the control layer
\* then closes the room.
PeerEnds(d) ==
  /\ Cardinality(endings) < MaxEndings
  /\ dlg[d].peer = "talking" \/ (dlg[d].peer = "ringing" /\ d \in InDialogs /\ ~dlg[d].confirmed)
  /\ Set(d, [dlg[d] EXCEPT !.peer = "gone"])
  /\ endings' = endings \union Ending({d}, "peer")
  /\ UNCHANGED <<callVars, byes>>

\* dropDialog and endDialog: the first end says BYE to a confirmed peer.
SaysBye(e) == e.by \in {"room", "leg"} /\ dlg[e.d].confirmed /\ ~dlg[e.d].ended

End(e) ==
  /\ endings' = endings \ {e}
  /\ IF e.hop # dlg[e.d].hop
       THEN Set(e.d, [dlg[e.d] EXCEPT !.rtp = "closed"]) /\ UNCHANGED byes
       ELSE /\ Set(e.d, [dlg[e.d] EXCEPT !.indexed = FALSE, !.ended = TRUE, !.rtp = "closed",
                                         !.peer = IF SaysBye(e) THEN "gone" ELSE @])
            /\ byes' = [byes EXCEPT ![e.d] = IF SaysBye(e) THEN @ + 1 ELSE @]
  /\ UNCHANGED callVars

Answering(d) == HandlerReturns(d) \/ CheckEnded(d) \/ Acknowledged(d) \/ PrackTimeout(d) \/ Ok(d)
Inbound(d) == Invited(d) \/ Answering(d)
Outbound(d) == Originate(d) \/ Invite(d) \/ Answered(d) \/ Refused(d)

Next ==
  \/ \E d \in InDialogs : Inbound(d)
  \/ \E d \in OutDialogs : Outbound(d)
  \/ \E d \in Dialogs : Confirm(d) \/ LeaveRoom(d) \/ PeerEnds(d)
  \/ \E e \in endings : End(e)
  \/ Defer \/ CloseRoom \/ RoomClosed

\* The goroutines run on; an invitation and a PRACK have their time.
Fairness ==
  /\ \A d \in InDialogs : WF_sipVars(Answering(d)) /\ WF_sipVars(Confirm(d))
  /\ \A d \in OutDialogs : WF_sipVars(Invite(d) \/ Refused(d)) /\ WF_sipVars(Confirm(d))
  /\ WF_sipVars(\E e \in endings : End(e))

Spec == Init /\ [][Next]_sipVars
FairSpec == Spec /\ Fairness

---------------------------------------------------------------------------

\* The variables keep the types of the sessions and of the gate.
TypeOK ==
  /\ dlg \in [Dialogs -> Session]
  /\ endings \subseteq [d: Dialogs, hop: 0 .. MaxHops + 1, by: {"room", "leg", "peer"}]
  /\ roomState \in {"none", "open", "closing", "closed"}
  /\ gate \in BOOLEAN /\ deferred \in 0 .. MaxDefers /\ ran \in 0 .. MaxDefers

\* A hang-up, the leaving of the leg and the peer's own BYE race for one
\* dialog: one BYE is sent at most, and none by a dialog that is not confirmed.
ByeOnce == \A d \in Dialogs : byes[d] <= IF dlg[d].confirmed THEN 1 ELSE 0

\* The flow that waits for the 200 OK runs once it is sent and only then, also
\* when the call is hung up, cancelled or fails in between.
FlowWaitsForAnswer ==
  /\ ran > 0 => \E d \in InDialogs : dlg[d].at = "up"
  /\ (\E d \in InDialogs : dlg[d].at \in {"up", "failed"}) => ~gate /\ deferred = 0

\* A dialog that failed or ended gives its port back, whoever ended it and at
\* whatever step its goroutine was.
PortReturned ==
  \A d \in Dialogs : endings = {} /\ dlg[d].at \in {"up", "failed"}
    /\ (dlg[d].at = "failed" \/ dlg[d].ended) => dlg[d].rtp = "closed"

\* Every dialog comes to an answer or to an end.
DialogSettles ==
  \A d \in Dialogs : dlg[d].at \notin {"idle", "up", "failed"} ~> dlg[d].at \in {"up", "failed"}

\* service.go:352: CloseRoom closes the SIP resources of the call.  A dialog
\* that was answered and not yet confirmed is marked as ended without BYE, and
\* its peer talks on after the room is closed: this does not hold (README,
\* Disagreements).
NobodyTalksOn ==
  \A d \in Dialogs : roomState = "closed" /\ endings = {} /\ dlg[d].at = "up" => dlg[d].peer # "talking"
=============================================================================
