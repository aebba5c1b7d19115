---------------------------- MODULE Notifications ----------------------------
(***************************************************************************)
(* A voice notification of open-call: a row that workers of several        *)
(* instances claim under a lease and move one step at a time by requests   *)
(* to the switch, which calls the telephone, plays the message and hangs   *)
(* up, while the initiator may cancel and the deadline may pass.           *)
(***************************************************************************)
EXTENDS Naturals

CONSTANTS
  Workers, Nobody,
  MaxFaults, \* bound: requests that fail or whose answer is lost
  MaxStops   \* bound: workers that stop in the middle of a step

VARIABLES
  task,     \* the row: [state, error, lease, played]; played: a playback id is stored
  working,  \* worker |-> [at, old, state, error, played]: its copy of the row
  late,     \* the deadline has passed
  phone,    \* the call in the switch: none, made, ringing, active, ended
  playback, \* none, playing, finished, stopped
  dials, plays, \* made by the switch   (history)
  faults, stops

noteVars == <<task, working, late, phone, playback, dials, plays, faults, stops>>

Ended == {"completed", "failed", "canceled"}
TaskStates == {"none", "queued", "dialing", "playing", "finishing", "stopping"} \union Ended
Rest == [at |-> "rest", old |-> "none", state |-> "none", error |-> "", played |-> FALSE]

Init ==
  /\ task = [state |-> "none", error |-> "", lease |-> Nobody, played |-> FALSE]
  /\ working = [w \in Workers |-> Rest]
  /\ late = FALSE /\ phone = "none" /\ playback = "none" /\ dials = 0 /\ plays = 0
  /\ faults = 0 /\ stops = 0

switch == <<phone, playback, dials, plays>>

---------------------------------------------------------------------------

\* Submit: the request key makes one row.
Submit ==
  /\ task.state = "none" /\ task' = [task EXCEPT !.state = "queued"]
  /\ UNCHANGED <<working, late, faults, stops>> /\ UNCHANGED switch

Cancel ==
  /\ task.state \notin Ended \union {"none"} /\ task.error # "canceled"
  /\ task' = [task EXCEPT !.state = "stopping", !.error = "canceled"]
  /\ UNCHANGED <<working, late, faults, stops>> /\ UNCHANGED switch

DeadlinePasses ==
  /\ task.state \notin Ended \union {"none"} /\ ~late /\ late' = TRUE
  /\ UNCHANGED <<task, working, faults, stops>> /\ UNCHANGED switch

\* tick takes the lease and reads the row again; step stops what is too late.
Claim(w) ==
  LET stop == late /\ task.state # "stopping" IN
  /\ working[w].at = "rest" /\ task.lease = Nobody /\ task.state \notin Ended \union {"none"}
  /\ task' = [task EXCEPT !.lease = w]
  /\ working' = [working EXCEPT ![w] =
       [at |-> "step", old |-> task.state, played |-> task.played,
        state |-> IF stop THEN "stopping" ELSE task.state, error |-> IF stop THEN "late" ELSE task.error]]
  /\ UNCHANGED <<late, faults, stops>> /\ UNCHANGED switch

\* What the switch makes of the requests.
Switch(req) ==
  CASE req = "create" -> phone' = (IF phone = "none" THEN "made" ELSE phone) /\ UNCHANGED <<playback, dials, plays>>
    [] req = "dial" ->
         IF dials = 0 THEN phone' = "ringing" /\ dials' = 1 /\ UNCHANGED <<playback, plays>> ELSE UNCHANGED switch
    [] req = "hangup" ->
         /\ phone' = (IF phone = "none" THEN "none" ELSE "ended")
         /\ playback' = (IF playback = "playing" THEN "stopped" ELSE playback) /\ UNCHANGED <<dials, plays>>
    [] OTHER -> UNCHANGED switch

\* Both the dial and the playback carry a key made of the notification's id.
PlayKeyed == IF plays = 0 THEN playback' = "playing" /\ plays' = 1 ELSE UNCHANGED <<playback, plays>>

Step(w, at, state) == working' = [working EXCEPT ![w].at = at, ![w].state = state]
Failed(w) ==
  working' = [working EXCEPT ![w].at = "write", ![w].state = "stopping",
                             ![w].error = IF @ = "" THEN "failed" ELSE @]

\* A request comes to nothing, or its answer is lost.
Fault(w, req) ==
  /\ faults < MaxFaults /\ faults' = faults + 1
  /\ Failed(w) /\ (Switch(req) \/ UNCHANGED switch)

Ok == UNCHANGED faults

Over(w) == Step(w, "write", IF working[w].error = "canceled" THEN "canceled" ELSE "failed")
\* Only a call that the switch does not know counts as hung up; after another
\* failure the next tick tries again.
HangupFailed(w) == Failed(w)

Stopping(w) ==
  /\ working[w].at = "step" /\ working[w].state = "stopping"
  /\ \/ Ok /\ Switch("hangup") /\ Over(w)
     \/ /\ faults < MaxFaults /\ faults' = faults + 1
        /\ HangupFailed(w) /\ (Switch("hangup") \/ UNCHANGED switch)
  /\ UNCHANGED <<task, late, stops>>

\* A call that has ended refuses to dial.
Queued(w) ==
  /\ working[w].at = "step" /\ working[w].state = "queued"
  /\ \/ Ok /\ Switch("create") /\ Step(w, "dial", "queued")
     \/ Fault(w, "create")
  /\ UNCHANGED <<task, late, stops>>

Dial(w) ==
  /\ working[w].at = "dial"
  /\ \/ Ok /\ (phone # "ended" \/ dials > 0) /\ Switch("dial") /\ Step(w, "write", "dialing")
     \/ Ok /\ phone = "ended" /\ dials = 0 /\ Failed(w) /\ UNCHANGED switch
     \/ Fault(w, "dial")
  /\ UNCHANGED <<task, late, stops>>

\* The call is read; the message is played once the telephone answers.
Dialing(w) ==
  /\ working[w].at = "step" /\ working[w].state = "dialing"
  /\ \/ Ok /\ phone = "ended" /\ Step(w, "write", "failed") /\ UNCHANGED switch
     \/ Ok /\ phone \in {"made", "ringing"} /\ Step(w, "write", "dialing") /\ UNCHANGED switch
     \/ Ok /\ phone = "active" /\ Step(w, "play", "dialing") /\ UNCHANGED switch
     \/ Fault(w, "read")
  /\ UNCHANGED <<task, late, stops>>

Play(w) ==
  /\ working[w].at = "play"
  /\ \/ /\ phone = "active" /\ Ok /\ PlayKeyed /\ UNCHANGED <<phone, dials>>
        /\ working' = [working EXCEPT ![w].at = "write", ![w].state = "playing", ![w].played = TRUE]
     \/ phone = "ended" /\ Ok /\ Failed(w) /\ UNCHANGED switch
     \/ /\ faults < MaxFaults /\ faults' = faults + 1 /\ Failed(w)
        /\ \/ phone = "active" /\ PlayKeyed /\ UNCHANGED <<phone, dials>>
           \/ UNCHANGED switch
  /\ UNCHANGED <<task, late, stops>>

\* The playback is read, and the call while the message is still played.
Playing(w) ==
  /\ working[w].at = "step" /\ working[w].state = "playing"
  /\ \/ Ok /\ playback = "finished" /\ Step(w, "step", "finishing") /\ UNCHANGED switch
     \/ Ok /\ playback = "stopped" /\ Failed(w) /\ UNCHANGED switch
     \/ Ok /\ playback = "playing" /\ Step(w, "write", IF phone = "ended" THEN "failed" ELSE "playing")
           /\ UNCHANGED switch
     \/ Fault(w, "read")
  /\ UNCHANGED <<task, late, stops>>

Finishing(w) ==
  /\ working[w].at = "step" /\ working[w].state = "finishing"
  /\ \/ Ok /\ Switch("hangup") /\ Step(w, "write", "completed")
     \/ Fault(w, "hangup")
  /\ UNCHANGED <<task, late, stops>>

LeaseOnly(w) == task.lease = w

\* What a step has found is stored over the state it began from only.
StillIts(w) == task.lease = w /\ task.state = working[w].old

Write(w) ==
  /\ working[w].at = "write"
  /\ task' = IF StillIts(w)
             THEN [state |-> working[w].state, error |-> working[w].error, lease |-> Nobody,
                   played |-> working[w].played]
             ELSE IF task.lease = w THEN [task EXCEPT !.lease = Nobody] ELSE task
  /\ working' = [working EXCEPT ![w] = Rest]
  /\ UNCHANGED <<late, faults, stops>> /\ UNCHANGED switch

\* A worker stops; nobody else takes the row until the lease has run out.
Stop(w) ==
  /\ working[w].at # "rest" /\ stops < MaxStops /\ stops' = stops + 1
  /\ working' = [working EXCEPT ![w] = Rest]
  /\ UNCHANGED <<task, late, faults>> /\ UNCHANGED switch

LeaseRunsOut ==
  /\ task.lease # Nobody /\ working[task.lease].at = "rest"
  /\ task' = [task EXCEPT !.lease = Nobody]
  /\ UNCHANGED <<working, late, faults, stops>> /\ UNCHANGED switch

\* The telephone answers or the call ends, the message comes to its end.
Telephone ==
  /\ \/ phone = "ringing" /\ phone' = "active" /\ UNCHANGED playback
     \/ /\ phone \in {"ringing", "active"} /\ phone' = "ended"
        /\ playback' = IF playback = "playing" THEN "stopped" ELSE playback
     \/ playback = "playing" /\ playback' = "finished" /\ UNCHANGED phone
  /\ UNCHANGED <<task, working, late, dials, plays, faults, stops>>

Work(w) ==
  Stopping(w) \/ Queued(w) \/ Dial(w) \/ Dialing(w) \/ Play(w) \/ Playing(w) \/ Finishing(w) \/ Write(w)

Next ==
  \/ Submit \/ Cancel \/ DeadlinePasses \/ LeaseRunsOut \/ Telephone
  \/ \E w \in Workers : Claim(w) \/ Work(w) \/ Stop(w)

\* The ticks go on, a step goes on, leases and deadlines run out.
Fairness ==
  /\ WF_noteVars(DeadlinePasses) /\ WF_noteVars(LeaseRunsOut)
  /\ WF_noteVars(\E w \in Workers : Claim(w))
  /\ \A w \in Workers : WF_noteVars(Work(w))

Spec == Init /\ [][Next]_noteVars
FairSpec == Spec /\ Fairness

---------------------------------------------------------------------------

\* The variables keep the types of the row and of the steps.
TypeOK ==
  /\ task.state \in TaskStates /\ task.lease \in Workers \union {Nobody} /\ task.played \in BOOLEAN
  /\ \A w \in Workers : working[w].at \in {"rest", "step", "dial", "play", "write"}
                        /\ working[w].state \in TaskStates /\ working[w].old \in TaskStates
  /\ phone \in {"none", "made", "ringing", "active", "ended"}
  /\ playback \in {"none", "playing", "finished", "stopped"}

\* A cancellation is not undone by a step that was under way ("Cancellation
\* wins over an in-flight step", service.go:126).
CancelWins == [][task.state = "stopping" => task'.state \in {"stopping", "failed", "canceled"}]_noteVars

\* Whatever stops or is lost, the telephone rings once and the message is
\* played once.
ToldOnce == dials <= 1 /\ plays <= 1

\* A notification that is over leaves no telephone ringing and no call open.
NothingLeftRinging == task.state \in Ended => phone \in {"none", "ended"}

\* Every notification is over in the end.
NotificationEnds == task.state # "none" ~> task.state \in Ended
=============================================================================
