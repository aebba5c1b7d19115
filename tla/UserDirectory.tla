----------------------------- MODULE UserDirectory -----------------------------
(***************************************************************************)
(* One user of open-call who is an agent: the row of the user in the       *)
(* database and the copy of its agent that the switch works with.  The     *)
(* copy is written after the transaction has ended, under the request that *)
(* may be cancelled; what could not be written is left to a worker that    *)
(* tries again, or undone.  Each of these steps may fail, most of them     *)
(* without a word, and open-call may stop between them.                    *)
(***************************************************************************)
EXTENDS Naturals, FiniteSets

CONSTANTS
  Admins,      \* requests in flight
  MaxEdits,    \* bound: profiles
  MaxAttempts, \* of the worker (12 in the code)
  MaxLapses    \* bound: kinds of failure that come together

VARIABLES
  account,   \* [here, profile]: the rows of the user and its agent
  copy,      \* the profile the switch has, 0: no such agent
  task,      \* [id, attempts]: the task of the worker, id 0: none
  job,       \* admin |-> the request it is in
  worker,    \* [at, id, attempts, profile]: the worker
  made,      \* profiles written so far
  taskIds,   \* tasks made so far
  overtaken, \* an older profile was written over a newer one, or in or after the end (history)
  lapses,    \* what failed or was cut off for good                      (history)
  told       \* an admin was told that the switch still has the agent    (history)

dirVars == <<account, copy, task, job, worker, made, taskIds, overtaken, lapses, told>>

Lapses == {"unread", "unqueued", "given up", "rows kept", "agent kept", "cut off"}

Rest == [at |-> "rest"]
NoTask == [id |-> 0, attempts |-> 0]

Init ==
  /\ account = [here |-> FALSE, profile |-> 0] /\ copy = 0 /\ made = 0
  /\ task = NoTask /\ taskIds = 0
  /\ job = [a \in Admins |-> Rest] /\ worker = Rest
  /\ overtaken = FALSE /\ lapses = {} /\ told = FALSE

---------------------------------------------------------------------------

Goes(a, at) == job' = [job EXCEPT ![a] = [at |-> at]]
Lapse(what) == lapses' = lapses \cup {what} /\ Cardinality(lapses') <= MaxLapses

\* Create: the rows in one transaction.  A user created anew is another user.
Create(a) ==
  /\ job[a].at = "rest" /\ made = 0
  /\ made' = 1 /\ account' = [here |-> TRUE, profile |-> 1]
  /\ job' = [job EXCEPT ![a] = [at |-> "read", kind |-> "create"]]
  /\ UNCHANGED <<copy, task, worker, taskIds, overtaken, lapses, told>>

\* Update: the rows in one transaction.
Update(a) ==
  /\ job[a].at = "rest" /\ account.here /\ made < MaxEdits
  /\ made' = made + 1 /\ account' = [account EXCEPT !.profile = made + 1]
  /\ job' = [job EXCEPT ![a] = [at |-> "read", kind |-> "update"]]
  /\ UNCHANGED <<copy, task, worker, taskIds, overtaken, lapses, told>>

\* The agent is read again for the switch; without it nothing is sent.
Read(a) ==
  /\ job[a].at = "read"
  /\ \/ account.here /\ UNCHANGED lapses
        /\ job' = [job EXCEPT ![a] = [at |-> "send", profile |-> account.profile, kind |-> job[a].kind]]
     \/ ~account.here /\ Goes(a, "rest") /\ UNCHANGED lapses
     \/ Goes(a, "rest") /\ Lapse("unread")
  /\ UNCHANGED <<account, copy, task, worker, made, taskIds, overtaken, told>>

\* UpsertAgentConfig arrives at the switch.
Arrives(p) ==
  /\ copy' = p
  /\ overtaken' = (overtaken \/ p < copy \/ ~account.here
                     \/ \E b \in Admins : job[b].at = "undoRows")

Sent(a) ==
  /\ job[a].at = "send" /\ Arrives(job[a].profile)
  /\ Goes(a, "rest")
  /\ UNCHANGED <<account, task, worker, made, taskIds, lapses, told>>

\* The switch does not answer: it has taken the profile or it has not.
SendFails(a) ==
  /\ job[a].at = "send"
  /\ Arrives(job[a].profile) \/ UNCHANGED <<copy, overtaken>>
  /\ Goes(a, IF job[a].kind = "create" THEN "undo" ELSE "enqueue")
  /\ UNCHANGED <<account, task, worker, made, taskIds, lapses, told>>

\* enqueueAgentSync: the task before is deleted, then a new one is made, which
\* the unique agent of a task refuses beside another.  Nobody hears an error.
Clear(a) ==
  /\ job[a].at = "enqueue" /\ Goes(a, "queue")
  /\ (task' = NoTask /\ UNCHANGED lapses) \/ (Lapse("unqueued") /\ UNCHANGED task)
  /\ UNCHANGED <<account, copy, worker, made, taskIds, overtaken, told>>

Enqueue(a) ==
  /\ job[a].at = "queue" /\ Goes(a, "rest")
  /\ \/ task.id = 0 /\ taskIds' = taskIds + 1 /\ UNCHANGED lapses
        /\ task' = [id |-> taskIds + 1, attempts |-> 0]
     \/ task.id # 0 /\ UNCHANGED <<task, taskIds, lapses>>
     \/ task.id = 0 /\ Lapse("unqueued") /\ UNCHANGED <<task, taskIds>>
  /\ UNCHANGED <<account, copy, worker, made, overtaken, told>>

\* compensateCreate: the switch first, then the rows, and the admin is told that
\* the account is gone, whatever the two said.
UndoSwitch(a) ==
  /\ job[a].at = "undo" /\ Goes(a, "undoRows")
  /\ (copy' = 0 /\ UNCHANGED lapses) \/ (Lapse("agent kept") /\ UNCHANGED copy)
  /\ UNCHANGED <<account, task, worker, made, taskIds, overtaken, told>>

UndoRows(a) ==
  /\ job[a].at = "undoRows" /\ Goes(a, "rest")
  /\ \/ account' = [account EXCEPT !.here = FALSE] /\ UNCHANGED lapses
     \/ Lapse("rows kept") /\ UNCHANGED account
  /\ UNCHANGED <<copy, task, worker, made, taskIds, overtaken, told>>

\* Delete: the rows, then the switch; a failure is reported, to an admin who may
\* have left.
Delete(a) ==
  /\ job[a].at = "rest" /\ account.here
  /\ account' = [account EXCEPT !.here = FALSE]
  /\ Goes(a, "remove")
  /\ UNCHANGED <<copy, task, worker, made, taskIds, overtaken, lapses, told>>

Remove(a) ==
  /\ job[a].at = "remove" /\ Goes(a, "rest")
  /\ \/ copy' = 0 /\ UNCHANGED <<told, lapses>>
     \/ copy' \in {0, copy} /\ told' = TRUE /\ UNCHANGED lapses
     \/ copy' \in {0, copy} /\ Lapse("cut off") /\ UNCHANGED told
  /\ UNCHANGED <<account, task, worker, made, taskIds, overtaken>>

---------------------------------------------------------------------------

\* A task is deleted and updated by its own id; either may fail unheard.
DroppedAny(id) == NoTask
Dropped(id) == IF task.id = id THEN NoTask ELSE task

\* flushAgentSync takes a task: the agent is read; without it, or when the read
\* fails, the task is dropped.
Take ==
  /\ worker.at = "rest" /\ task.id # 0
  /\ \/ /\ account.here /\ UNCHANGED <<task, lapses>>
        /\ worker' = [at |-> "send", id |-> task.id, attempts |-> task.attempts, profile |-> account.profile]
     \/ ~account.here /\ task' = NoTask /\ UNCHANGED <<worker, lapses>>
     \/ account.here /\ task' = NoTask /\ Lapse("given up") /\ UNCHANGED worker
  /\ UNCHANGED <<account, copy, job, made, taskIds, overtaken, told>>

WorkerSent ==
  /\ worker.at = "send" /\ Arrives(worker.profile)
  /\ task' \in {Dropped(worker.id), task} /\ worker' = Rest
  /\ UNCHANGED <<account, job, made, taskIds, lapses, told>>

WorkerFails ==
  /\ worker.at = "send"
  /\ Arrives(worker.profile) \/ UNCHANGED <<copy, overtaken>>
  /\ \/ UNCHANGED <<task, lapses>>
     \/ /\ worker.attempts + 1 < MaxAttempts /\ UNCHANGED lapses
        /\ task' = IF task.id = worker.id THEN [task EXCEPT !.attempts = worker.attempts + 1] ELSE task
     \/ /\ worker.attempts + 1 >= MaxAttempts /\ task' = Dropped(worker.id)
        /\ IF task.id = worker.id THEN Lapse("given up") ELSE UNCHANGED lapses
  /\ worker' = Rest
  /\ UNCHANGED <<account, job, made, taskIds, told>>

\* open-call stops; a task outlives it, a request does not.
Crash ==
  /\ worker.at # "rest" \/ \E a \in Admins : job[a].at # "rest"
  /\ worker' = Rest /\ job' = [a \in Admins |-> Rest]
  /\ IF \E a \in Admins : job[a].at # "rest" THEN Lapse("cut off") ELSE UNCHANGED lapses
  /\ UNCHANGED <<account, copy, task, made, taskIds, overtaken, told>>

Next ==
  \/ \E a \in Admins :
       Create(a) \/ Update(a) \/ Read(a) \/ Sent(a) \/ SendFails(a) \/ Clear(a)
         \/ Enqueue(a) \/ UndoSwitch(a) \/ UndoRows(a) \/ Delete(a) \/ Remove(a)
  \/ Take \/ WorkerSent \/ WorkerFails \/ Crash

Spec == Init /\ [][Next]_dirVars

---------------------------------------------------------------------------

Quiet == worker.at = "rest" /\ \A a \in Admins : job[a].at = "rest"

\* The variables keep the types of the rows, tasks and requests.
TypeOK ==
  /\ account \in [here : BOOLEAN, profile : 0 .. MaxEdits] /\ copy \in 0 .. MaxEdits
  /\ task.attempts \in 0 .. MaxAttempts - 1 /\ task.id <= taskIds
  /\ lapses \subseteq Lapses

\* An edit the switch did not take has a task, unless requests have overtaken
\* each other or one of the steps that nobody hears of has failed: no
\* interleaving alone, and no lost answer of the switch, makes the two forget it
\* (user/service.go Update, agent_sync_worker.go).
EditNotForgotten ==
  Quiet /\ account.here /\ copy # account.profile =>
    task.id # 0 \/ overtaken
      \/ lapses \cap {"unread", "unqueued", "given up", "rows kept", "cut off"} # {}

\* The switch keeps no agent without a user, unless an admin was told so, a
\* profile arrived in or after the end, the undoing failed at the switch or
\* open-call stopped in between: a worker that gives up or an edit that is not
\* queued leaves none (user/service.go Delete, compensateCreate).
NoAgentAlone ==
  Quiet /\ ~account.here /\ copy # 0 =>
    told \/ overtaken \/ lapses \cap {"agent kept", "cut off"} # {}

\* An admin who reads "已回滚新建账号" finds no account (user/service.go:231).
RolledBack == [][\A a \in Admins : UndoRows(a) => ~account'.here]_dirVars
=============================================================================
