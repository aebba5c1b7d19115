------------------------------- MODULE Webhooks -------------------------------
(***************************************************************************)
(* Deliveries of open-call to one webhook subscription: each event is a    *)
(* row made once, which workers of several instances claim under a lease,  *)
(* post and mark, and which an operator may send again.                    *)
(***************************************************************************)
EXTENDS Naturals

CONSTANTS
  Events, Workers,
  MaxRetries,  \* attempts until a delivery is dead (8 in the code)
  MaxAgain,    \* bound: retries by an operator
  MaxLate      \* bound: leases that run out

VARIABLES
  enabled,   \* of the subscription
  row,       \* event |-> [status, attempts]
  worker,    \* worker |-> [at, event, attempts]: the job it has claimed
  received,  \* events the receiver has answered with success
  again, late,
  overtaken  \* events posted by two workers at a time      (history)

hookVars == <<enabled, row, worker, received, again, late, overtaken>>

Rest == [at |-> "rest"]

Init ==
  /\ enabled = TRUE
  /\ row = [e \in Events |-> [status |-> "none", attempts |-> 0]]
  /\ worker = [w \in Workers |-> Rest]
  /\ received = {} /\ again = 0 /\ late = 0 /\ overtaken = {}

---------------------------------------------------------------------------

\* The row has an id made of event and subscription: a second one is ignored.
Made(r) == IF r.status = "none" THEN [status |-> "pending", attempts |-> 0] ELSE r

\* Dispatch, also of an event that the intake handles again.
Dispatch(e) ==
  /\ enabled /\ row' = [row EXCEPT ![e] = Made(@)]
  /\ UNCHANGED <<enabled, worker, received, again, late, overtaken>>

\* ProcessBatch: rows that nobody holds are claimed; what a worker knows of
\* the attempts is what it read then.
Claim(w, e) ==
  /\ worker[w].at = "rest" /\ row[e].status = "pending"
  /\ row' = [row EXCEPT ![e].status = "processing"]
  /\ worker' = [worker EXCEPT ![w] = [at |-> "post", event |-> e, attempts |-> row[e].attempts]]
  /\ UNCHANGED <<enabled, received, again, late, overtaken>>

OrphanedNever(e) == FALSE

\* No worker is at the delivery that is marked as being processed.
Orphaned(e) == ~\E w \in Workers : worker[w].at # "rest" /\ worker[w].event = e

\* A claim older than two minutes is anybody's again, though its worker may
\* only be slow.
LeaseExpires(e) ==
  /\ row[e].status = "processing"
  /\ \/ Orphaned(e) /\ UNCHANGED <<late, overtaken>>
     \/ /\ ~Orphaned(e) /\ late < MaxLate
        /\ late' = late + 1 /\ overtaken' = overtaken \union {e}
  /\ row' = [row EXCEPT ![e].status = "pending"]
  /\ UNCHANGED <<enabled, worker, received, again>>

\* postOnce: success is seen, or the post fails, at the receiver or on its way
\* back.  A subscription that was disabled is not posted to.
Post(w) ==
  /\ worker[w].at = "post"
  /\ \/ /\ enabled /\ received' = received \union {worker[w].event}
        /\ worker' = [worker EXCEPT ![w].at = "succeeded"]
     \/ /\ received' \in {received, received \union {worker[w].event}}
        /\ ~enabled => received' = received
        /\ worker' = [worker EXCEPT ![w].at = "failed"]
  /\ UNCHANGED <<enabled, row, again, late, overtaken>>

\* A success counts only for a row that is still being processed.
StillProcessing(e) == row[e].status = "processing"

Succeed(w) ==
  LET e == worker[w].event IN
  /\ worker[w].at = "succeeded"
  /\ row' = IF StillProcessing(e)
            THEN [row EXCEPT ![e] = [status |-> "success", attempts |-> worker[w].attempts + 1]]
            ELSE row
  /\ worker' = [worker EXCEPT ![w] = Rest]
  /\ UNCHANGED <<enabled, received, again, late, overtaken>>

AfterFailureNever(n) == "pending"

\* finishFailure: pending again, or dead after the last attempt.
AfterFailure(n) == IF n >= MaxRetries THEN "dead_letter" ELSE "pending"

\* It is written whatever the row has become.
Fail(w) ==
  LET n == worker[w].attempts + 1 IN
  /\ worker[w].at = "failed"
  /\ row' = [row EXCEPT ![worker[w].event] = [status |-> AfterFailure(n), attempts |-> n]]
  /\ worker' = [worker EXCEPT ![w] = Rest]
  /\ UNCHANGED <<enabled, received, again, late, overtaken>>

\* A worker stops with what it has claimed.
Stop(w) ==
  /\ worker[w].at # "rest" /\ late < MaxLate
  /\ worker' = [worker EXCEPT ![w] = Rest] /\ late' = late + 1
  /\ UNCHANGED <<enabled, row, received, again, overtaken>>

\* Retry: an operator sends any delivery again, one that is claimed too.
Retry(e) ==
  /\ row[e].status # "none" /\ again < MaxAgain /\ again' = again + 1
  /\ row' = [row EXCEPT ![e] = [status |-> "pending", attempts |-> 0]]
  /\ overtaken' = IF row[e].status = "processing" THEN overtaken \union {e} ELSE overtaken
  /\ UNCHANGED <<enabled, worker, received, late>>

\* Update of the subscription.
Toggle ==
  /\ enabled' = ~enabled
  /\ UNCHANGED <<row, worker, received, again, late, overtaken>>

Next ==
  \/ \E e \in Events : Dispatch(e) \/ LeaseExpires(e) \/ Retry(e)
  \/ \E w \in Workers : (\E e \in Events : Claim(w, e)) \/ Post(w) \/ Succeed(w) \/ Fail(w) \/ Stop(w)
  \/ Toggle

\* Run ticks each second and the leases run out.
Fairness ==
  /\ \A w \in Workers :
       /\ WF_hookVars(\E e \in Events : Claim(w, e))
       /\ WF_hookVars(Post(w)) /\ WF_hookVars(Succeed(w)) /\ WF_hookVars(Fail(w))
  /\ \A e \in Events : WF_hookVars(LeaseExpires(e))

Spec == Init /\ [][Next]_hookVars
FairSpec == Spec /\ Fairness

---------------------------------------------------------------------------

\* The variables keep the types of the rows and workers.
TypeOK ==
  /\ \A e \in Events : row[e].status \in {"none", "pending", "processing", "success", "dead_letter"}
                       /\ row[e].attempts \in 0 .. MaxRetries
  /\ \A w \in Workers : worker[w].at \in {"rest", "post", "succeeded", "failed"}

\* What the receiver has confirmed is posted again only for an operator or
\* because two workers had it at a time, never for the event coming in twice.
ConfirmedIsDone ==
  [][\A e \in Events :
       row[e].status = "success" /\ row'[e].status # "success" => again' # again \/ e \in overtaken]_hookVars

\* Every delivery ends, as a success or a dead letter, though workers stop
\* with it and the subscription is switched off and on.
DeliveriesEnd ==
  \A e \in Events : row[e].status # "none" ~> row[e].status \in {"success", "dead_letter"}
=============================================================================
