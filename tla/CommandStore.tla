----------------------------- MODULE CommandStore ------------------------------
(***************************************************************************)
(* The commands of the switch: a mutation of a call that carries an        *)
(* Idempotency-Key is recorded in os_commands before it runs, so that the  *)
(* same request sent again is answered from the record.  The module keeps  *)
(* the order of the code: the lock of the call, the guard on the expected  *)
(* version, the look-up of the key, the insertion of the row, the mark     *)
(* "running", the mutation and the outcome.  The look-up and the insertion *)
(* are two statements; requests for different calls race between them.     *)
(*                                                                         *)
(* A request is a "mutate" (answer, decline, hold, transfer, bridge), an   *)
(* "enter" (EnterIVR, whose version guard is part of the mutation) or a    *)
(* "hangup" (whose idempotency is written out in the function).            *)
(***************************************************************************)
EXTENDS Naturals, Sequences

CONSTANTS
  CmdCalls,     \* calls
  Keys,         \* Idempotency-Key values
  Bodies,       \* request hashes: type and arguments, not the call
  Clients,      \* requests in flight
  NoClient,
  Kinds,        \* the kinds of request sent
  Expected,     \* the values of expected_version, 0 for none
  MaxSent,      \* bound: requests sent
  MaxVersion    \* bound: versions of a call

VARIABLES
  rows,     \* key |-> row of os_commands
  calls,    \* call |-> [version, ended]
  owner,    \* call |-> the request that holds its command lock
  job,      \* client |-> the request it waits for
  starts,   \* key |-> calls whose mutation it started, in order (history)
  effects,  \* key |-> <<call, body>> of the mutations that took effect (history)
  sent      \* requests sent so far                        (bound)

cmdVars == <<rows, calls, owner, job, starts, effects, sent>>

NoRow == [status |-> "none"]

Statuses == {"accepted", "running", "succeeded", "failed", "unknown"}

Row == [status: Statuses, call: CmdCalls, body: Bodies, kind: Kinds]

Request == [kind: Kinds, key: Keys, call: CmdCalls, body: Bodies,
            exp: Expected]

\* "refused" is answered with the version conflict, "idle" with anything else.
Stages == {"idle", "refused", "wait", "lookup", "insert", "mark", "run", "complete"}

Idle == [at |-> "idle"]

Init ==
  /\ rows = [k \in Keys |-> NoRow]
  /\ calls = [c \in CmdCalls |-> [version |-> 1, ended |-> FALSE]]
  /\ owner = [c \in CmdCalls |-> NoClient]
  /\ job = [r \in Clients |-> Idle]
  /\ starts = [k \in Keys |-> <<>>]
  /\ effects = [k \in Keys |-> {}]
  /\ sent = 0

---------------------------------------------------------------------------

\* The request of r moves on to another stage.
To(r, stage) == job' = [job EXCEPT ![r].at = stage]

\* The request of r is answered; the deferred unlock runs.
Reply(r) ==
  /\ job' = [job EXCEPT ![r] = Idle]
  /\ owner' = [owner EXCEPT ![job[r].call] = NoClient]

\* guardExpectedVersion: 0 is "no expectation".
Guarded(r) == job[r].exp > 0 /\ calls[job[r].call].version # job[r].exp

\* A client sends a request, which waits for the lock of its call.
Send(r) ==
  /\ job[r].at \in {"idle", "refused"} /\ sent < MaxSent
  /\ \E q \in Request :
       job' = [job EXCEPT ![r] =
         [at |-> "wait", kind |-> q.kind, key |-> q.key, call |-> q.call,
          body |-> q.body, exp |-> q.exp, ran |-> "no"]]
  /\ sent' = sent + 1
  /\ UNCHANGED <<rows, calls, owner, starts, effects>>

\* command and, but for EnterIVR, the version guard in front of the row.
Enter(r) ==
  /\ job[r].at = "wait" /\ owner[job[r].call] = NoClient
  /\ IF job[r].kind # "enter" /\ Guarded(r)
       THEN To(r, "refused") /\ UNCHANGED owner
       ELSE To(r, "lookup") /\ owner' = [owner EXCEPT ![job[r].call] = r]
  /\ UNCHANGED <<rows, calls, starts, effects, sent>>

\* Accept, first statement: another body is refused, a known command is
\* replayed, an unknown one goes on to the insertion.
Replayed(r, row) ==
  IF job[r].kind = "hangup" /\ row.status # "succeeded"
    THEN To(r, "mark") /\ UNCHANGED owner
    ELSE Reply(r)

Lookup(r) ==
  /\ job[r].at = "lookup"
  /\ LET row == rows[job[r].key] IN
       IF row = NoRow THEN To(r, "insert") /\ UNCHANGED owner
       ELSE IF row.body # job[r].body \/ row.kind # job[r].kind
              THEN Reply(r)
              ELSE Replayed(r, row)
  /\ UNCHANGED <<rows, calls, starts, effects, sent>>

InsertAgain(r) ==
  /\ job[r].at = "insert"
  /\ rows' = [rows EXCEPT ![job[r].key] =
       [status |-> "accepted", call |-> job[r].call, body |-> job[r].body,
        kind |-> job[r].kind]]
  /\ To(r, "mark")
  /\ UNCHANGED <<calls, owner, starts, effects, sent>>

\* Accept, second statement: the key is unique in the table.
Insert(r) ==
  /\ job[r].at = "insert"
  /\ IF rows[job[r].key] = NoRow
       THEN /\ rows' = [rows EXCEPT ![job[r].key] =
                 [status |-> "accepted", call |-> job[r].call, body |-> job[r].body,
                  kind |-> job[r].kind]]
            /\ To(r, "mark") /\ UNCHANGED owner
       ELSE Reply(r) /\ UNCHANGED rows
  /\ UNCHANGED <<calls, starts, effects, sent>>

\* MarkRunning moves an accepted row only; Hangup ignores its error.
MarkRunning(r) ==
  /\ job[r].at = "mark"
  /\ LET k == job[r].key IN
       IF rows[k].status = "accepted"
         THEN rows' = [rows EXCEPT ![k].status = "running"] /\ To(r, "run") /\ UNCHANGED owner
         ELSE /\ UNCHANGED rows
              /\ IF job[r].kind = "hangup" THEN To(r, "run") /\ UNCHANGED owner
                                           ELSE Reply(r)
  /\ UNCHANGED <<calls, starts, effects, sent>>

\* The mutation takes effect: another version of the call.
Perform(r) ==
  LET c == job[r].call IN
  /\ calls[c].version < MaxVersion
  /\ calls' = [calls EXCEPT ![c].version = @ + 1, ![c].ended = @ \/ job[r].kind = "hangup"]
  /\ effects' = [effects EXCEPT ![job[r].key] = @ \union {<<c, job[r].body>>}]

\* The mutation: refused by the state of the call (or by the guard of
\* EnterIVR), done, or failing after it changed something.
Run(r) ==
  /\ job[r].at = "run"
  /\ starts' = [starts EXCEPT ![job[r].key] = Append(@, job[r].call)]
  /\ IF job[r].kind = "hangup" /\ calls[job[r].call].ended
       THEN job' = [job EXCEPT ![r].at = "complete", ![r].ran = "ok"] /\ UNCHANGED <<calls, effects>>
       ELSE \/ /\ ~(job[r].kind = "enter" /\ Guarded(r))
               /\ ~calls[job[r].call].ended
               /\ Perform(r)
               /\ \E ran \in {"ok", "failed"} :
                    job' = [job EXCEPT ![r].at = "complete", ![r].ran = ran]
            \/ /\ job' = [job EXCEPT ![r].at = "complete", ![r].ran = "failed"]
               /\ UNCHANGED <<calls, effects>>
  /\ UNCHANGED <<rows, owner, sent>>

\* Complete takes a row that is not settled; its error is ignored.
Settled(row, status) ==
  IF row.status \in {"accepted", "running", "unknown"} THEN [row EXCEPT !.status = status] ELSE row

\* The outcome; a failing Hangup returns without recording one.
Complete(r) ==
  /\ job[r].at = "complete"
  /\ LET k == job[r].key IN
       rows' = IF job[r].ran = "ok" THEN [rows EXCEPT ![k] = Settled(@, "succeeded")]
               ELSE IF job[r].kind = "hangup" THEN rows
               ELSE [rows EXCEPT ![k] = Settled(@, "failed")]
  /\ Reply(r)
  /\ UNCHANGED <<calls, starts, effects, sent>>

\* The tick or another caller moves the call, under its lock.
Tick(c) ==
  /\ owner[c] = NoClient /\ ~calls[c].ended /\ calls[c].version < MaxVersion
  /\ calls' = [calls EXCEPT ![c].version = @ + 1]
  /\ UNCHANGED <<rows, owner, job, starts, effects, sent>>

RestartForgets ==
  /\ rows' = [k \in Keys |->
       IF rows[k] # NoRow THEN [rows[k] EXCEPT !.status = "unknown"] ELSE rows[k]]
  /\ job' = [r \in Clients |-> Idle]
  /\ owner' = [c \in CmdCalls |-> NoClient]
  /\ UNCHANGED <<calls, starts, effects, sent>>

Open == {k \in Keys : rows[k] # NoRow /\ rows[k].status \in {"accepted", "running"}}

\* The process dies with its requests and starts again: ReconcileStale takes
\* the open rows that are older than two minutes.
Restart ==
  /\ \E stale \in SUBSET Open :
       rows' = [k \in Keys |->
         IF k \in stale THEN [rows[k] EXCEPT !.status = "unknown"] ELSE rows[k]]
  /\ job' = [r \in Clients |-> Idle]
  /\ owner' = [c \in CmdCalls |-> NoClient]
  /\ UNCHANGED <<calls, starts, effects, sent>>

Serve(r) == Enter(r) \/ Lookup(r) \/ Insert(r) \/ MarkRunning(r) \/ Run(r) \/ Complete(r)

Next ==
  \/ \E r \in Clients : Send(r) \/ Serve(r)
  \/ \E c \in CmdCalls : Tick(c)
  \/ Restart

Spec == Init /\ [][Next]_cmdVars

---------------------------------------------------------------------------

\* The variables keep the types of the table, the lock and the requests.
TypeOK ==
  /\ rows \in [Keys -> Row \union {NoRow}]
  /\ calls \in [CmdCalls -> [version: 1 .. MaxVersion, ended: BOOLEAN]]
  /\ owner \in [CmdCalls -> Clients \union {NoClient}]
  /\ \A r \in Clients : job[r].at \in Stages /\ (job[r].at # "idle" => job[r].key \in Keys)
  /\ starts \in [Keys -> Seq(CmdCalls)] /\ sent \in 0 .. MaxSent

\* A mutation other than a hang-up is started at most once under one key,
\* through races, refusals, crashes and restarts (runIdempotentMutation).
AtMostOnce ==
  \A k \in Keys : (rows[k] # NoRow => rows[k].kind # "hangup") => Len(starts[k]) <= 1

\* A recorded success is a mutation that took effect on the call and with the
\* body of the row, or a hang-up of a call that had ended; a client that uses one
\* key to hang up two calls is outside of it (the body does not name the call).
SuccessIsTrue ==
  \A k \in Keys : rows[k] # NoRow /\ rows[k].status = "succeeded" =>
    \/ <<rows[k].call, rows[k].body>> \in effects[k]
    \/ /\ rows[k].kind = "hangup"
       /\ calls[rows[k].call].ended \/ \E i \in DOMAIN starts[k] : starts[k][i] # rows[k].call

\* A settled outcome is never rewritten: what a client was told stays true.
OutcomeStays ==
  [][\A k \in Keys : rows[k] # NoRow /\ rows[k].status \in {"succeeded", "failed"} =>
       rows'[k] = rows[k]]_rows

\* command_idempotency.go:10: a request that carries an Idempotency-Key can be
\* replayed after it succeeded.  The code compares the version first, so the
\* same request sent again is refused with the version its success changed:
\* this does not hold (README, Disagreements).
RetryReplays ==
  \A r \in Clients : job[r].at = "refused" =>
    LET row == rows[job[r].key] IN
    ~ (row # NoRow /\ row.status = "succeeded" /\ row.call = job[r].call
       /\ row.body = job[r].body /\ row.kind = job[r].kind)
=============================================================================
