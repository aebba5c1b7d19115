----------------------------- MODULE EventDelivery -----------------------------
(***************************************************************************)
(* The way of an event from the switch to open-call and its browsers.      *)
(*                                                                         *)
(* The switch stores an event and its delivery row in one transaction and  *)
(* a dispatcher posts the rows that are due, a batch at a time and in the  *)
(* order of their ids; a failed post is retried later, behind younger      *)
(* events, and is given up after MaxAttempts.  open-call stores an event   *)
(* in its inbox, projects it (call record, recording, requested action)    *)
(* and writes an outbox row in one transaction, counts the transactions    *)
(* that fail, and answers "accepted" for what it stored or gave up.  A     *)
(* second loop hands the outbox to the hub of the WebSockets.  Replies are *)
(* lost, processes die between two steps, posts are repeated.              *)
(***************************************************************************)
EXTENDS Naturals, Sequences, FiniteSetsExt

CONSTANTS
  EvCalls,      \* calls
  EvTypes,      \* the types of event published
  MaxEvents,    \* bound: events
  MaxAttempts,  \* posts of one event before the switch gives it up (12)
  MaxFailures,  \* failed transactions before open-call gives it up (12)
  MaxFaults     \* bound: crashes and failing outbox transactions

VARIABLES
  log,        \* os_call_events, a sequence: the id is the place
  tech,       \* call |-> [cdr, rec, action], the rows of the switch
  deliveries, \* id |-> os_integrator_event_deliveries
  batch,      \* ids the dispatcher read and has not posted, a set
  post,       \* the answer to the post of the first of them
  inbox,      \* ids in oc_switch_event_inbox
  failures,   \* id |-> failed transactions
  dead,       \* ids in the dead letters
  outbox,     \* id |-> "none", "waiting" or "delivered"
  proj,       \* call |-> [cdr, version, rec], the projected rows
  hub,        \* ids handed to the hub
  faults

evVars == <<log, tech, deliveries, batch, post, inbox, failures, dead, outbox,
            proj, hub, faults>>

Ids == 1 .. MaxEvents

\* The stages of a call record and of a recording, in the order they grow.
Cdr == 0 .. 2          \* none, answered, ended
Rec == 0 .. 3          \* none, recording, completed, failed
Failed == 3

Event == [type: EvTypes, call: EvCalls, data: 0 .. 3, version: {0}]

NoRow == [status |-> "none", attempts |-> 0, due |-> FALSE]

Init ==
  /\ log = <<>>
  /\ tech = [c \in EvCalls |-> [cdr |-> 0, rec |-> 0, action |-> "none"]]
  /\ deliveries = [i \in Ids |-> NoRow]
  /\ batch = {} /\ post = "none"
  /\ inbox = {} /\ dead = {} /\ hub = {}
  /\ failures = [i \in Ids |-> 0]
  /\ outbox = [i \in Ids |-> "none"]
  /\ proj = [c \in EvCalls |-> [cdr |-> 0, version |-> 0, rec |-> 0]]
  /\ faults = 0

intakeVars == <<inbox, failures, dead, outbox, proj, hub>>

---------------------------------------------------------------------------
\* The switch

\* Append, with Stage as its BeforeCommit: the event and its delivery row.
Logged(type, c, data) ==
  /\ type \in EvTypes /\ Len(log) < MaxEvents
  /\ log' = Append(log, [type |-> type, call |-> c, data |-> data, version |-> 0])
  /\ deliveries' = [deliveries EXCEPT ![Len(log) + 1] =
                      [status |-> "pending", attempts |-> 0, due |-> TRUE]]
  /\ UNCHANGED <<batch, post, intakeVars, faults>>

\* The call record is written and its event carries no version.
UpsertCdr(c) ==
  /\ tech[c].cdr < 2
  /\ tech' = [tech EXCEPT ![c].cdr = @ + 1]
  /\ Logged("cdr", c, tech[c].cdr + 1)

MergeLast(old, new) == new

\* The merge of a recording's row: failed stays, nothing falls back.
Merge(old, new) == IF old # Failed \/ new = Failed
                     THEN IF new = 1 /\ old \notin {0, 1} THEN old ELSE new
                     ELSE old

\* Save publishes the merged row.
SaveRecording(c) ==
  \E new \in Rec \ {0} :
    /\ tech' = [tech EXCEPT ![c].rec = Merge(@, new)]
    /\ Logged("rec", c, Merge(tech[c].rec, new))

\* OnRecordingFailed publishes the failure even when the row was not saved.
RecordingFailedUnsaved(c) == Logged("rec", c, Failed) /\ UNCHANGED tech

BeginAction(c) ==
  /\ tech[c].action = "none"
  /\ tech' = [tech EXCEPT ![c].action = "pending"]
  /\ Logged("action", c, 0)

\* The deadline of the action passes in the IVR.
ExpireAction(c) ==
  /\ tech[c].action = "pending"
  /\ tech' = [tech EXCEPT ![c].action = "expired"]
  /\ UNCHANGED <<log, deliveries, batch, post, intakeVars, faults>>

Due == {i \in Ids : deliveries[i].status = "pending" /\ deliveries[i].due}

\* The back-off of a failed post ends.
Elapse(i) ==
  /\ deliveries[i].status = "pending" /\ ~deliveries[i].due
  /\ deliveries' = [deliveries EXCEPT ![i].due = TRUE]
  /\ UNCHANGED <<log, tech, batch, post, intakeVars, faults>>

\* flushPending reads the rows that are due; they are posted in the order of
\* their ids.
Flush ==
  /\ batch = {} /\ post = "none" /\ Due # {}
  /\ batch' = Due
  /\ UNCHANGED <<log, tech, deliveries, post, intakeVars, faults>>

\* markFailed: one more attempt, and the next later or none.
Postponed(row) ==
  [status |-> IF row.attempts + 1 >= MaxAttempts THEN "failed" ELSE "pending",
   attempts |-> row.attempts + 1, due |-> FALSE]

\* deliverOne, after the answer.
Record ==
  /\ post # "none"
  /\ deliveries' = [deliveries EXCEPT ![Min(batch)] =
       IF post = "accepted" THEN [@ EXCEPT !.status = "success"] ELSE Postponed(@)]
  /\ batch' = batch \ {Min(batch)} /\ post' = "none"
  /\ UNCHANGED <<log, tech, intakeVars, faults>>

---------------------------------------------------------------------------
\* open-call

\* RecorderService.Upsert takes a younger version only.
UpsertRecord(row, ev) ==
  IF row.cdr = 0 \/ row.version < ev.version
    THEN [row EXCEPT !.cdr = ev.data, !.version = ev.version] ELSE row

\* Save of open-call merges by the same rule.
SaveMeta(old, new) == Merge(old, new)

\* projectSwitchEvent
Project(row, ev) ==
  CASE ev.type = "cdr" -> UpsertRecord(row, ev)
    [] ev.type = "rec" -> [row EXCEPT !.rec = SaveMeta(@, ev.data)]
    [] OTHER -> row

CommitSilently(i) ==
  IF i \in inbox THEN UNCHANGED <<inbox, failures, outbox, proj>>
  ELSE /\ inbox' = inbox \union {i}
       /\ proj' = [proj EXCEPT ![log[i].call] = Project(@, log[i])]
       /\ failures' = [failures EXCEPT ![i] = 0]
       /\ UNCHANGED outbox

\* CommitSwitchEvent: nothing for an event that is in the inbox already.
Commit(i) ==
  IF i \in inbox THEN UNCHANGED <<inbox, failures, outbox, proj>>
  ELSE /\ inbox' = inbox \union {i}
       /\ proj' = [proj EXCEPT ![log[i].call] = Project(@, log[i])]
       /\ failures' = [failures EXCEPT ![i] = 0]
       /\ outbox' = [outbox EXCEPT ![i] = "waiting"]

\* HandleRequested answers the action; a conflict (expired) counts as done.
Handled(i) ==
  tech' = [tech EXCEPT ![log[i].call].action = IF @ = "pending" THEN "completed" ELSE @]

\* The post of event i, answered with a or with nothing.
Answer(a) == post' \in {a, "lost"}

RefusePolitely(i) ==
  /\ i \notin dead /\ i \notin inbox
  /\ failures' = [failures EXCEPT ![i] = @ + 1]
  /\ dead' = IF failures[i] + 1 >= MaxFailures THEN dead \union {i} ELSE dead
  /\ Answer("accepted")
  /\ UNCHANGED <<inbox, outbox, proj, hub, tech>>

\* SwitchEventHTTP for the first event of the batch.
Skip(i)  == /\ i \in dead
            /\ Answer("accepted") /\ UNCHANGED <<intakeVars, tech>>
Store(i) == /\ i \notin dead /\ Commit(i) /\ UNCHANGED <<dead, hub>>
            /\ IF log[i].type = "action"
                 THEN \/ Handled(i) /\ Answer("accepted")
                      \/ UNCHANGED tech /\ Answer("error")
                 ELSE Answer("accepted") /\ UNCHANGED tech
Refuse(i) == /\ i \notin dead /\ i \notin inbox
             /\ failures' = [failures EXCEPT ![i] = @ + 1]
             /\ dead' = IF failures[i] + 1 >= MaxFailures THEN dead \union {i} ELSE dead
             /\ Answer(IF i \in dead' THEN "accepted" ELSE "error")
             /\ UNCHANGED <<inbox, outbox, proj, hub, tech>>
Unreachable == post' = "lost" /\ UNCHANGED <<intakeVars, tech>>

Deliver ==
  /\ batch # {} /\ post = "none"
  /\ LET i == Min(batch) IN Skip(i) \/ Store(i) \/ Refuse(i) \/ Unreachable
  /\ UNCHANGED <<log, deliveries, batch, faults>>

Waiting == {i \in Ids : outbox[i] = "waiting"}

\* DeliverSwitchEvents hands the waiting rows over, in the order of their ids.
DeliverOutbox ==
  /\ Waiting # {}
  /\ hub' = hub \union Waiting
  /\ outbox' = [i \in Ids |-> IF i \in Waiting THEN "delivered" ELSE outbox[i]]
  /\ UNCHANGED <<log, tech, deliveries, batch, post, inbox, failures, dead, proj, faults>>

\* Its transaction fails half way: what was handed over stays waiting.
OutboxFails ==
  /\ Waiting # {} /\ faults < MaxFaults
  /\ \E n \in Waiting : hub' = hub \union {i \in Waiting : i <= n}
  /\ faults' = faults + 1
  /\ UNCHANGED <<log, tech, deliveries, batch, post, inbox, failures, dead, outbox, proj>>

\* The switch dies; the deliveries are where its table says.
Crash ==
  /\ batch # {} /\ faults < MaxFaults
  /\ batch' = {} /\ post' = "none" /\ faults' = faults + 1
  /\ UNCHANGED <<log, tech, deliveries, intakeVars>>

Publish(c) == UpsertCdr(c) \/ SaveRecording(c) \/ RecordingFailedUnsaved(c)
                \/ BeginAction(c) \/ ExpireAction(c)

Next ==
  \/ \E c \in EvCalls : Publish(c)
  \/ \E i \in Ids : Elapse(i)
  \/ Flush \/ Deliver \/ Record
  \/ DeliverOutbox \/ OutboxFails \/ Crash

\* The retry loop of the switch and the outbox loop of open-call are tickers.
Fairness == /\ WF_evVars(Flush) /\ WF_evVars(Deliver) /\ WF_evVars(Record)
            /\ WF_evVars(DeliverOutbox)
            /\ \A i \in Ids : WF_evVars(Elapse(i))

Spec == Init /\ [][Next]_evVars
FairSpec == Spec /\ Fairness

---------------------------------------------------------------------------

\* The variables keep the types of the tables and of the dispatcher.
TypeOK ==
  /\ \A i \in DOMAIN log : log[i] \in Event
  /\ tech \in [EvCalls -> [cdr: Cdr, rec: Rec, action: {"none", "pending", "completed", "expired"}]]
  /\ \A i \in Ids : deliveries[i].attempts \in 0 .. MaxAttempts
  /\ batch \subseteq Ids /\ post \in {"none", "accepted", "error", "lost"}
  /\ inbox \subseteq Ids /\ dead \subseteq Ids /\ hub \subseteq Ids
  /\ outbox \in [Ids -> {"none", "waiting", "delivered"}]
  /\ proj \in [EvCalls -> [cdr: Cdr, version: {0}, rec: Rec]]

\* What the switch records as delivered is stored by open-call or is one of its
\* dead letters; what is dead was never half stored.
AckMeansStored ==
  /\ \A i \in Ids : deliveries[i].status = "success" => i \in inbox \union dead
  /\ inbox \intersect dead = {}

\* A projected recording is the gravest of its stored events whatever the
\* order they arrived in: a late "recording" or "completed" undoes nothing.
RecordingIsGravest ==
  \A c \in EvCalls :
    proj[c].rec = Max({0} \union {log[i].data : i \in {j \in inbox : log[j].type = "rec" /\ log[j].call = c}})

\* The browsers hear of an event only when it is stored, and an event that the
\* outbox no longer holds was handed over.
HubHearsStored ==
  /\ hub \subseteq inbox
  /\ \A i \in inbox : outbox[i] = "waiting" \/ i \in hub

\* recorder.go:84: the call record follows the call from the queue to its end.
\* Every event carries version 0, so only the first that arrives is kept.
CdrFollowsCall ==
  \A c \in EvCalls :
    (\A i \in DOMAIN log : log[i].type = "cdr" /\ log[i].call = c => i \in inbox)
      => proj[c].cdr = tech[c].cdr

\* Every published event is delivered or given up, through lost answers,
\* refusals and crashes.
EventSettles ==
  \A i \in Ids : deliveries[i].status = "pending" ~> deliveries[i].status \in {"success", "failed"}

\* A stored event reaches the browsers.
StoredIsHeard == \A i \in Ids : i \in inbox ~> i \in hub
=============================================================================
