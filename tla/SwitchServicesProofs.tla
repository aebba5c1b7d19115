-------------------------- MODULE SwitchServicesProofs --------------------------
(***************************************************************************)
(* SwitchServices for any values of its constants.  Its services share no  *)
(* variable and one of them moves at a time, so each behaves, in the sum,  *)
(* as it does alone (ServicesBehave).  Every service has a section with    *)
(* its invariant, the lemmas that one step each preserves it, and what     *)
(* follows from it; the last section puts the theorems together.           *)
(***************************************************************************)
EXTENDS SwitchServices, ListProofs, TLAPS

-------------------------------------------------------------------------------
(* Commands.  The look-up of a key and its insertion are two steps and several *)
(* requests may be between them, so the argument is not the lock of a call but *)
(* the row: Turn says that under a key one request at most is past the         *)
(* insertion, and that as long as the row is accepted, or that request has not *)
(* begun, nothing has been started.                                            *)

CommandJob == [at: Stages \ {"idle"}, kind: Kinds, key: Keys, call: CmdCalls, body: Bodies,
        exp: Expected, ran: {"no", "ok", "failed"}]

CommandTyped ==
  /\ rows \in [Keys -> Row \cup {NoRow}]
  /\ job \in [Clients -> CommandJob \cup {Idle}]
  /\ starts \in [Keys -> Seq(CmdCalls)]

\* The request of r is past the row of key k.
Past(r, k) == job[r] # Idle /\ job[r].at \in {"mark", "run", "complete"} /\ job[r].key = k

\* A key without a row has started nothing; past a row is only what has its kind.
RowFirst ==
  \A k \in Keys :
    /\ rows[k] = NoRow => starts[k] = <<>>
    /\ \A r \in Clients : Past(r, k) => rows[k] # NoRow /\ rows[k].kind = job[r].kind

\* Of a key whose row is no hang-up.
Turn ==
  \A k \in Keys : rows[k] # NoRow /\ rows[k].kind # "hangup" =>
    /\ Len(starts[k]) <= 1
    /\ rows[k].status = "accepted" =>
         starts[k] = <<>> /\ \A r \in Clients : Past(r, k) => job[r].at = "mark"
    /\ \A r \in Clients : Past(r, k) /\ job[r].at = "run" => starts[k] = <<>>
    /\ \A r, s \in Clients : Past(r, k) /\ Past(s, k) => r = s

CommandInv == CommandTyped /\ RowFirst /\ Turn

LEMMA CommandInitInv == Init => CommandInv
BY DEF Init, CommandInv, CommandTyped, RowFirst, Turn, Past, NoRow, Row, Statuses

LEMMA RowIsNot == NoRow \notin Row /\ Idle \notin CommandJob
BY DEF NoRow, Row, Statuses, Idle, CommandJob, Stages

\* A request that is not past a row moves on in front of it, or is answered.
LEMMA InFront ==
  ASSUME CommandInv, NEW r \in Clients, NEW y \in CommandJob \cup {Idle},
         y # Idle => y.at \notin {"mark", "run", "complete"},
         job' = [job EXCEPT ![r] = y], UNCHANGED <<rows, starts>>
  PROVE  CommandInv'
<1>1. CommandTyped'
  BY DEF CommandInv, CommandTyped
<1>2. \A s \in Clients, k \in Keys : Past(s, k)' => Past(s, k) /\ job'[s] = job[s]
  BY DEF CommandInv, CommandTyped, Past
<1>3. RowFirst'
  BY <1>2 DEF CommandInv, RowFirst
<1>4. Turn'
  BY <1>2 DEF CommandInv, Turn
<1>. QED BY <1>1, <1>3, <1>4 DEF CommandInv

LEMMA SendStep ==
  ASSUME CommandInv, NEW r \in Clients, Send(r)
  PROVE  CommandInv'
<1>1. PICK q \in Request :
        job' = [job EXCEPT ![r] =
          [at |-> "wait", kind |-> q.kind, key |-> q.key, call |-> q.call,
           body |-> q.body, exp |-> q.exp, ran |-> "no"]]
  BY DEF Send
<1> DEFINE y == [at |-> "wait", kind |-> q.kind, key |-> q.key, call |-> q.call,
                 body |-> q.body, exp |-> q.exp, ran |-> "no"]
<1>2. y \in CommandJob /\ y.at = "wait"
  BY DEF Request, CommandJob, Stages
<1>3. UNCHANGED <<rows, starts>>
  BY DEF Send
<1> HIDE DEF y
<1>. QED BY <1>1, <1>2, <1>3, InFront DEF y

\* What is known of a request at a stage, and of its next one.
LEMMA AtStage ==
  ASSUME CommandTyped, NEW r \in Clients, job[r].at # "idle"
  PROVE  /\ job[r] \in CommandJob /\ job[r] # Idle
         /\ \A stage \in Stages \ {"idle"} :
              /\ [job[r] EXCEPT !.at = stage] \in CommandJob
              /\ [job[r] EXCEPT !.at = stage].at = stage
              /\ [job[r] EXCEPT !.at = stage].key = job[r].key
              /\ [job[r] EXCEPT !.at = stage].kind = job[r].kind
<1>1. job[r] \in CommandJob
  BY DEF CommandTyped, Idle
<1>2. job[r] # Idle
  BY DEF Idle
<1>3. ASSUME NEW stage \in Stages \ {"idle"}
      PROVE  /\ [job[r] EXCEPT !.at = stage] \in CommandJob
             /\ [job[r] EXCEPT !.at = stage].at = stage
             /\ [job[r] EXCEPT !.at = stage].key = job[r].key
             /\ [job[r] EXCEPT !.at = stage].kind = job[r].kind
  BY <1>1 DEF CommandJob
<1>. QED BY <1>1, <1>2, <1>3

\* Waiting for the lock, and the version guard.
LEMMA EnterStep ==
  ASSUME CommandInv, NEW r \in Clients, Enter(r)
  PROVE  CommandInv'
<1>1. job[r].at = "wait" /\ UNCHANGED <<rows, starts>>
  BY DEF Enter
<1>2. PICK stage \in {"refused", "lookup"} : job' = [job EXCEPT ![r] = [job[r] EXCEPT !.at = stage]]
  BY DEF Enter, To
<1>3. stage \in Stages \ {"idle"}
  BY DEF Stages
<1>4. [job[r] EXCEPT !.at = stage] \in CommandJob /\ [job[r] EXCEPT !.at = stage].at = stage
  BY <1>1, <1>3, AtStage DEF CommandInv
<1>. QED BY <1>1, <1>2, <1>4, InFront

LEMMA LookupStep ==
  ASSUME CommandInv, NEW r \in Clients, Lookup(r)
  PROVE  CommandInv'
<1> DEFINE k == job[r].key
           row == rows[k]
<1>1. job[r].at = "lookup" /\ UNCHANGED <<rows, starts>>
  BY DEF Lookup
<1>2. job[r] \in CommandJob /\ job[r] # Idle /\ k \in Keys
  BY <1>1, AtStage DEF CommandInv, CommandJob
<1>3. \/ job' = [job EXCEPT ![r] = Idle]
      \/ job' = [job EXCEPT ![r] = [job[r] EXCEPT !.at = "insert"]]
      \/ /\ job' = [job EXCEPT ![r] = [job[r] EXCEPT !.at = "mark"]]
         /\ row # NoRow /\ row.kind = job[r].kind /\ job[r].kind = "hangup"
  BY DEF Lookup, Replayed, Reply, To
<1>4. CASE job' = [job EXCEPT ![r] = Idle]
  BY <1>1, <1>4, InFront
<1>5. CASE job' = [job EXCEPT ![r] = [job[r] EXCEPT !.at = "insert"]]
  <2>1. [job[r] EXCEPT !.at = "insert"] \in CommandJob /\ [job[r] EXCEPT !.at = "insert"].at = "insert"
    BY <1>2 DEF CommandJob, Stages
  <2>. QED BY <1>1, <1>5, <2>1, InFront
<1>6. CASE /\ job' = [job EXCEPT ![r] = [job[r] EXCEPT !.at = "mark"]]
           /\ row # NoRow /\ row.kind = job[r].kind /\ job[r].kind = "hangup"
  <2> DEFINE y == [job[r] EXCEPT !.at = "mark"]
  <2>1. y \in CommandJob /\ y.key = k /\ y.kind = job[r].kind
    BY <1>2 DEF CommandJob, Stages
  <2> HIDE DEF y
  <2>2. job' = [job EXCEPT ![r] = y]
    BY <1>6 DEF y
  <2>3. CommandTyped'
    BY <1>1, <2>1, <2>2 DEF CommandInv, CommandTyped
  <2>4. \A s \in Clients, l \in Keys : Past(s, l)' =>
          (Past(s, l) /\ job'[s] = job[s]) \/ (l = k /\ job'[s].kind = job[r].kind)
    BY <2>1, <2>2 DEF CommandInv, CommandTyped, Past
  <2>5. RowFirst'
    BY <1>1, <1>6, <2>4 DEF CommandInv, RowFirst
  <2>6. Turn'
    BY <1>1, <1>6, <2>4 DEF CommandInv, Turn
  <2>. QED BY <2>3, <2>5, <2>6 DEF CommandInv
<1>. QED BY <1>3, <1>4, <1>5, <1>6

\* The first insertion under a key is the only one.
LEMMA InsertStep ==
  ASSUME CommandInv, NEW r \in Clients, Insert(r)
  PROVE  CommandInv'
<1> DEFINE k == job[r].key
           new == [status |-> "accepted", call |-> job[r].call, body |-> job[r].body,
                   kind |-> job[r].kind]
           y == [job[r] EXCEPT !.at = "mark"]
<1>1. job[r].at = "insert" /\ UNCHANGED starts
  BY DEF Insert
<1>2. job[r] \in CommandJob /\ job[r] # Idle /\ k \in Keys
  BY <1>1, AtStage DEF CommandInv, CommandJob
<1>3. CASE rows[k] # NoRow
  <2>1. job' = [job EXCEPT ![r] = Idle] /\ UNCHANGED rows
    BY <1>3 DEF Insert, Reply
  <2>. QED BY <1>1, <2>1, InFront
<1>4. CASE rows[k] = NoRow
  <2>1. rows' = [rows EXCEPT ![k] = new] /\ job' = [job EXCEPT ![r] = y]
    BY <1>4 DEF Insert, To
  <2>2. y \in CommandJob /\ y.key = k /\ y.kind = job[r].kind /\ y.at = "mark"
    BY <1>2 DEF CommandJob, Stages
  <2>3. new \in Row /\ new.kind = job[r].kind /\ new.status = "accepted" /\ new # NoRow
    BY <1>2 DEF CommandJob, Row, Statuses, NoRow
  <2> HIDE DEF y, new
  <2>4. CommandTyped'
    BY <1>1, <2>1, <2>2, <2>3 DEF CommandInv, CommandTyped
  <2>5. \A s \in Clients : ~Past(s, k)
    BY <1>2, <1>4 DEF CommandInv, RowFirst
  <2>6. \A s \in Clients, l \in Keys : Past(s, l)' =>
          \/ s # r /\ l # k /\ Past(s, l) /\ job'[s] = job[s]
          \/ s = r /\ l = k /\ job'[s] = y
    BY <2>1, <2>2, <2>5 DEF CommandInv, CommandTyped, Past
  <2>7. /\ starts[k] = <<>> /\ rows'[k] = new
        /\ \A l \in Keys : l # k => rows'[l] = rows[l]
    BY <1>2, <1>4, <2>1 DEF CommandInv, RowFirst, CommandTyped
  <2>8. RowFirst'
    BY <1>1, <2>2, <2>3, <2>6, <2>7 DEF CommandInv, RowFirst
  <2>9. Turn'
    <3> SUFFICES ASSUME NEW l \in Keys, rows'[l] # NoRow, rows'[l].kind # "hangup"
                 PROVE  /\ Len(starts[l]) <= 1
                        /\ rows'[l].status = "accepted" =>
                             starts[l] = <<>> /\ \A s \in Clients : Past(s, l)' => job'[s].at = "mark"
                        /\ \A s \in Clients : Past(s, l)' /\ job'[s].at = "run" => starts[l] = <<>>
                        /\ \A s, t \in Clients : Past(s, l)' /\ Past(t, l)' => s = t
      BY <1>1 DEF Turn
    <3>1. CASE l = k
      BY <2>2, <2>6, <2>7, <3>1
    <3>2. CASE l # k
      BY <2>6, <2>7, <3>2 DEF CommandInv, Turn
    <3>. QED BY <3>1, <3>2
  <2>. QED BY <2>4, <2>8, <2>9 DEF CommandInv
<1>. QED BY <1>3, <1>4

\* A request past its row moves on; what it makes of the row and the key has
\* to keep Turn for this key, and touches no other.
LEMMA MovesOn ==
  ASSUME CommandInv, NEW r \in Clients, NEW k \in Keys, Past(r, k),
         NEW y \in CommandJob, y.key = k, y.kind = job[r].kind, y.at \in {"run", "complete"},
         NEW w \in Row, w.kind = rows[k].kind,
         job' = [job EXCEPT ![r] = y], rows' = [rows EXCEPT ![k] = w],
         starts' \in [Keys -> Seq(CmdCalls)],
         \A l \in Keys : l # k => starts'[l] = starts[l],
         w.kind # "hangup" => /\ w.status # "accepted" /\ Len(starts'[k]) <= 1
                              /\ y.at = "run" => starts'[k] = <<>>
  PROVE  CommandInv'
<1>1. CommandTyped'
  BY DEF CommandInv, CommandTyped
<1>2. /\ rows'[k] = w /\ w # NoRow /\ \A l \in Keys : l # k => rows'[l] = rows[l]
      /\ rows[k] # NoRow /\ y.kind = w.kind
  BY RowIsNot DEF CommandInv, CommandTyped, RowFirst
<1>3. \A s \in Clients, l \in Keys : Past(s, l)' =>
        \/ s = r /\ l = k /\ job'[s] = y
        \/ s # r /\ Past(s, l) /\ job'[s] = job[s]
  BY DEF CommandInv, CommandTyped, Past
<1>4. RowFirst'
  BY <1>2, <1>3 DEF CommandInv, RowFirst
<1>5. Turn'
  <2> SUFFICES ASSUME NEW l \in Keys, rows'[l] # NoRow, rows'[l].kind # "hangup"
               PROVE  /\ Len(starts'[l]) <= 1
                      /\ rows'[l].status = "accepted" =>
                           starts'[l] = <<>> /\ \A s \in Clients : Past(s, l)' => job'[s].at = "mark"
                      /\ \A s \in Clients : Past(s, l)' /\ job'[s].at = "run" => starts'[l] = <<>>
                      /\ \A s, t \in Clients : Past(s, l)' /\ Past(t, l)' => s = t
    BY DEF Turn
  <2>1. CASE l = k
    <3>1. \A s \in Clients : Past(s, k) => s = r
      BY <1>2, <2>1 DEF CommandInv, Turn
    <3>. QED BY <1>2, <1>3, <2>1, <3>1
  <2>2. CASE l # k
    BY <1>2, <1>3, <2>2 DEF CommandInv, Turn
  <2>. QED BY <2>1, <2>2
<1>. QED BY <1>1, <1>4, <1>5 DEF CommandInv

LEMMA MarkRunningStep ==
  ASSUME CommandInv, NEW r \in Clients, MarkRunning(r)
  PROVE  CommandInv'
<1> DEFINE k == job[r].key
           y == [job[r] EXCEPT !.at = "run"]
           w == [rows[k] EXCEPT !.status = "running"]
<1>1. job[r].at = "mark" /\ UNCHANGED starts
  BY DEF MarkRunning
<1>2. job[r] \in CommandJob /\ job[r] # Idle /\ k \in Keys
  BY <1>1, AtStage DEF CommandInv, CommandJob
<1>3. Past(r, k)
  BY <1>1, <1>2 DEF Past
<1>4. rows[k] \in Row /\ rows[k] # NoRow /\ rows[k].kind = job[r].kind
  BY <1>2, <1>3 DEF CommandInv, CommandTyped, RowFirst
<1>5. y \in CommandJob /\ y.key = k /\ y.kind = job[r].kind /\ y.at = "run"
  BY <1>2 DEF CommandJob, Stages
<1>6. w \in Row /\ w.kind = rows[k].kind /\ w.status = "running"
  BY <1>4 DEF Row, Statuses
<1>7. starts' \in [Keys -> Seq(CmdCalls)] /\ \A l \in Keys : starts'[l] = starts[l]
  BY <1>1 DEF CommandInv, CommandTyped
<1>8. CASE rows[k].status = "accepted"
  <2>1. rows' = [rows EXCEPT ![k] = w] /\ job' = [job EXCEPT ![r] = y]
    BY <1>8 DEF MarkRunning, To
  <2>2. w.kind # "hangup" => starts'[k] = <<>> /\ Len(starts'[k]) <= 1
    BY <1>2, <1>4, <1>6, <1>7, <1>8 DEF CommandInv, Turn
  <2> HIDE DEF y, w
  <2>. QED BY <1>2, <1>3, <1>5, <1>6, <1>7, <2>1, <2>2, MovesOn
<1>9. CASE rows[k].status # "accepted" /\ job[r].kind = "hangup"
  <2>1. job' = [job EXCEPT ![r] = y]
    BY <1>9 DEF MarkRunning, To
  <2>2. PICK v \in Row : v.kind = rows[k].kind /\ v.kind = "hangup" /\ rows' = [rows EXCEPT ![k] = v]
    <3>1. UNCHANGED rows
      BY <1>9 DEF MarkRunning
    <3>. QED BY <1>2, <1>4, <1>9, <3>1 DEF CommandInv, CommandTyped
  <2> HIDE DEF y
  <2>. QED BY <1>2, <1>3, <1>5, <1>7, <2>1, <2>2, MovesOn
<1>10. CASE rows[k].status # "accepted" /\ job[r].kind # "hangup"
  <2>1. UNCHANGED rows /\ job' = [job EXCEPT ![r] = Idle]
    BY <1>10 DEF MarkRunning, Reply
  <2>. QED BY <1>1, <2>1, InFront
<1>. QED BY <1>8, <1>9, <1>10

\* The one step that starts something.
LEMMA RunStep ==
  ASSUME CommandInv, NEW r \in Clients, Run(r)
  PROVE  CommandInv'
<1> DEFINE k == job[r].key
<1>1. /\ job[r].at = "run" /\ UNCHANGED rows
      /\ starts' = [starts EXCEPT ![k] = Append(@, job[r].call)]
  BY DEF Run
<1>2. job[r] \in CommandJob /\ job[r] # Idle /\ k \in Keys /\ job[r].call \in CmdCalls
  BY <1>1, AtStage DEF CommandInv, CommandJob
<1>3. Past(r, k)
  BY <1>1, <1>2 DEF Past
<1>4. rows[k] \in Row /\ rows[k] # NoRow /\ rows[k].kind = job[r].kind
  BY <1>2, <1>3 DEF CommandInv, CommandTyped, RowFirst
<1>5. PICK ran \in {"ok", "failed"} :
        job' = [job EXCEPT ![r].at = "complete", ![r].ran = ran]
  BY DEF Run
<1> DEFINE y == [job[r] EXCEPT !.at = "complete", !.ran = ran]
<1>6. job' = [job EXCEPT ![r] = y]
  BY <1>2, <1>5 DEF CommandInv, CommandTyped
<1>7. y \in CommandJob /\ y.key = k /\ y.kind = job[r].kind /\ y.at = "complete"
  BY <1>2 DEF CommandJob, Stages
<1>8. starts' \in [Keys -> Seq(CmdCalls)] /\ \A l \in Keys : l # k => starts'[l] = starts[l]
  BY <1>1, <1>2 DEF CommandInv, CommandTyped
<1>9. rows[k].kind # "hangup" => rows[k].status # "accepted" /\ Len(starts'[k]) <= 1
  <2>1. SUFFICES ASSUME rows[k].kind # "hangup"
                 PROVE  rows[k].status # "accepted" /\ Len(starts'[k]) <= 1
    OBVIOUS
  <2>2. rows[k].status # "accepted" /\ starts[k] = <<>>
    BY <1>1, <1>2, <1>3, <1>4, <2>1 DEF CommandInv, Turn
  <2>3. starts'[k] = Append(<<>>, job[r].call)
    BY <1>1, <1>2, <2>2 DEF CommandInv, CommandTyped
  <2>. QED BY <1>2, <2>2, <2>3
<1>10. rows' = [rows EXCEPT ![k] = rows[k]]
  BY <1>1, <1>2 DEF CommandInv, CommandTyped
<1> HIDE DEF y
<1>. QED BY <1>2, <1>3, <1>4, <1>6, <1>7, <1>8, <1>9, <1>10, MovesOn

\* The outcome settles the row; the request ends.
LEMMA CompleteStep ==
  ASSUME CommandInv, NEW r \in Clients, Complete(r)
  PROVE  CommandInv'
<1> DEFINE k == job[r].key
<1>1. job[r].at = "complete" /\ UNCHANGED starts /\ job' = [job EXCEPT ![r] = Idle]
  BY DEF Complete, Reply
<1>2. job[r] \in CommandJob /\ job[r] # Idle /\ k \in Keys
  BY <1>1, AtStage DEF CommandInv, CommandJob
<1>3. Past(r, k)
  BY <1>1, <1>2 DEF Past
<1>4. rows[k] \in Row /\ rows[k] # NoRow /\ rows[k].kind = job[r].kind
  BY <1>2, <1>3 DEF CommandInv, CommandTyped, RowFirst
<1>5. PICK w \in Row : /\ w.kind = rows[k].kind /\ rows' = [rows EXCEPT ![k] = w]
                       /\ w = rows[k] \/ w.status \in {"succeeded", "failed"}
  <2>1. \A st \in {"succeeded", "failed"} :
          /\ Settled(rows[k], st) \in Row /\ Settled(rows[k], st).kind = rows[k].kind
          /\ Settled(rows[k], st) = rows[k] \/ Settled(rows[k], st).status = st
    BY <1>4 DEF Settled, Row, Statuses
  <2>2. \/ \E st \in {"succeeded", "failed"} : rows' = [rows EXCEPT ![k] = Settled(rows[k], st)]
        \/ rows' = rows
    BY DEF Complete
  <2>3. rows = [rows EXCEPT ![k] = rows[k]]
    BY <1>2 DEF CommandInv, CommandTyped
  <2>. QED BY <1>4, <2>1, <2>2, <2>3
<1>6. CommandTyped'
  BY <1>1, <1>2, <1>5 DEF CommandInv, CommandTyped
<1>7. \A s \in Clients, l \in Keys : Past(s, l)' => s # r /\ Past(s, l) /\ job'[s] = job[s]
  BY <1>1 DEF CommandInv, CommandTyped, Past, Idle
<1>8. rows'[k] = w /\ w # NoRow /\ \A l \in Keys : l # k => rows'[l] = rows[l]
  BY <1>2, <1>5, RowIsNot DEF CommandInv, CommandTyped
<1>9. RowFirst'
  BY <1>1, <1>4, <1>5, <1>7, <1>8 DEF CommandInv, RowFirst
<1>10. Turn'
  BY <1>1, <1>3, <1>4, <1>5, <1>7, <1>8 DEF CommandInv, Turn
<1>. QED BY <1>6, <1>9, <1>10 DEF CommandInv

\* After a restart nobody is past a row.
LEMMA RestartStep == CommandInv /\ Restart => CommandInv'
<1> SUFFICES ASSUME CommandInv, Restart PROVE CommandInv'
  OBVIOUS
<1>1. PICK stale \in SUBSET Open :
        rows' = [k \in Keys |-> IF k \in stale THEN [rows[k] EXCEPT !.status = "unknown"] ELSE rows[k]]
  BY DEF Restart
<1>2. job' = [r \in Clients |-> Idle] /\ UNCHANGED starts
  BY DEF Restart
<1>3. \A k \in Keys :
        /\ rows'[k] \in Row \cup {NoRow}
        /\ rows'[k] = NoRow <=> rows[k] = NoRow
        /\ rows'[k] # NoRow => /\ rows'[k].kind = rows[k].kind
                               /\ rows'[k].status = "accepted" => rows[k].status = "accepted"
  <2> SUFFICES ASSUME NEW k \in Keys
               PROVE  /\ rows'[k] \in Row \cup {NoRow}
                      /\ rows'[k] = NoRow <=> rows[k] = NoRow
                      /\ rows'[k] # NoRow => /\ rows'[k].kind = rows[k].kind
                                             /\ rows'[k].status = "accepted" => rows[k].status = "accepted"
    OBVIOUS
  <2>1. CASE k \notin stale
    BY <1>1, <2>1 DEF CommandInv, CommandTyped
  <2>2. CASE k \in stale
    <3>1. rows[k] \in Row /\ rows[k] # NoRow
      BY <2>2 DEF Open, CommandInv, CommandTyped
    <3>2. rows'[k] = [rows[k] EXCEPT !.status = "unknown"]
      BY <1>1, <2>2
    <3>3. rows'[k] \in Row /\ rows'[k].kind = rows[k].kind /\ rows'[k].status = "unknown"
      BY <3>1, <3>2 DEF Row, Statuses
    <3>. QED BY <3>1, <3>3, RowIsNot
  <2>. QED BY <2>1, <2>2
<1>4. \A s \in Clients, k \in Keys : ~Past(s, k)'
  BY <1>2 DEF Past
<1>5. CommandTyped'
  BY <1>1, <1>2, <1>3 DEF CommandInv, CommandTyped
<1>6. RowFirst'
  BY <1>2, <1>3, <1>4 DEF CommandInv, RowFirst
<1>7. Turn'
  BY <1>2, <1>3, <1>4 DEF CommandInv, Turn
<1>. QED BY <1>5, <1>6, <1>7 DEF CommandInv

LEMMA CommandInductive == CommandInv /\ [Next]_cmdVars => CommandInv'
<1> SUFFICES ASSUME CommandInv, [Next]_cmdVars PROVE CommandInv'
  OBVIOUS
<1>1. CASE UNCHANGED cmdVars
  BY <1>1 DEF cmdVars, CommandInv, CommandTyped, RowFirst, Turn, Past
<1>2. CASE \E c \in CmdCalls : Tick(c)
  BY <1>2 DEF Tick, CommandInv, CommandTyped, RowFirst, Turn, Past
<1>3. CASE Restart
  BY <1>3, RestartStep
<1>4. CASE \E r \in Clients : Send(r) \/ Serve(r)
  BY <1>4, SendStep, EnterStep, LookupStep, InsertStep, MarkRunningStep, RunStep, CompleteStep
     DEF Serve
<1>. QED BY <1>1, <1>2, <1>3, <1>4 DEF Next

\* One key starts one mutation.
LEMMA OnceHolds == CommandInv => AtMostOnce
<1> SUFFICES ASSUME CommandInv, NEW k \in Keys, rows[k] # NoRow => rows[k].kind # "hangup"
             PROVE  Len(starts[k]) <= 1
  BY DEF AtMostOnce
<1>1. CASE rows[k] = NoRow
  BY <1>1 DEF CommandInv, RowFirst
<1>2. CASE rows[k] # NoRow
  BY <1>2 DEF CommandInv, Turn
<1>. QED BY <1>1, <1>2

\* What a client is told.  The row of a request that is past it has its body and,
\* but for a hang-up, its call; a request that is done well has done something.
RowIsOf(r, k) ==
  /\ rows[k].body = job[r].body
  /\ job[r].kind # "hangup" => rows[k].call = job[r].call

DoneWell(r, k) ==
  /\ job[r].kind # "hangup" => <<job[r].call, job[r].body>> \in effects[k]
  /\ job[r].kind = "hangup" =>
       calls[job[r].call].ended /\ \E i \in DOMAIN starts[k] : starts[k][i] = job[r].call

TrueOf(r, k) ==
  RowIsOf(r, k) /\ (job[r].at = "complete" /\ job[r].ran = "ok" => DoneWell(r, k))

CallsTyped ==
  /\ calls \in [CmdCalls -> [version: 1 .. MaxVersion, ended: BOOLEAN]]
  /\ owner \in [CmdCalls -> Clients \union {NoClient}]
  /\ sent \in 0 .. MaxSent
  /\ effects \in [Keys -> SUBSET (CmdCalls \X Bodies)]

TruthInv ==
  /\ CallsTyped
  /\ \A r \in Clients, k \in Keys : Past(r, k) => TrueOf(r, k)
  /\ SuccessIsTrue

\* A row stays what it is, and a settled one altogether.
RowsStay ==
  \A k \in Keys : rows[k] # NoRow =>
    /\ rows'[k] # NoRow /\ rows'[k].call = rows[k].call /\ rows'[k].body = rows[k].body
    /\ rows'[k].kind = rows[k].kind
    /\ rows[k].status \in {"succeeded", "failed"} => rows'[k] = rows[k]

\* What was done is not undone.
DeedsStay ==
  /\ \A k \in Keys : /\ effects[k] \subseteq effects'[k]
                     /\ \A i \in DOMAIN starts[k] : i \in DOMAIN starts'[k] /\ starts'[k][i] = starts[k][i]
  /\ \A c \in CmdCalls : calls[c].ended => calls'[c].ended

LEMMA TruthInitInv == Init => TruthInv
<1> SUFFICES ASSUME Init PROVE TruthInv
  OBVIOUS
<1>1. 1 \in 1 .. MaxVersion /\ 0 \in 0 .. MaxSent
  BY ServicesAssumption
<1>2. CallsTyped
  BY <1>1 DEF Init, CallsTyped
<1>3. \A r \in Clients, k \in Keys : ~Past(r, k)
  BY DEF Init, Past
<1>4. SuccessIsTrue
  BY DEF Init, SuccessIsTrue
<1>. QED BY <1>2, <1>3, <1>4 DEF TruthInv

\* What a step has to show of the requests that are past a row, and of the rows
\* that succeed with it.
LEMMA TruthKept ==
  ASSUME CommandInv, TruthInv, CallsTyped', RowsStay, DeedsStay,
         \A r \in Clients, k \in Keys : Past(r, k)' => (Past(r, k) /\ job'[r] = job[r]) \/ TrueOf(r, k)',
         \A k \in Keys : rows'[k] # NoRow /\ rows'[k].status = "succeeded" =>
           \/ rows[k] # NoRow /\ rows[k].status = "succeeded"
           \/ \E r \in Clients : Past(r, k) /\ job[r].at = "complete" /\ job[r].ran = "ok" /\ rows[k] # NoRow
  PROVE  TruthInv'
<1>1. \A r \in Clients, k \in Keys : Past(r, k) =>
        rows[k] # NoRow /\ job[r] \in CommandJob /\ job[r].call \in CmdCalls
        /\ rows[k].kind = job[r].kind
  BY DEF CommandInv, RowFirst, Past, CommandTyped, CommandJob
<1>2. ASSUME NEW r \in Clients, NEW k \in Keys, Past(r, k), DoneWell(r, k)
      PROVE  DoneWell(r, k)' \/ job'[r] # job[r]
  BY <1>1, <1>2 DEF DoneWell, DeedsStay
<1>3. \A r \in Clients, k \in Keys : Past(r, k)' => TrueOf(r, k)'
  <2> SUFFICES ASSUME NEW r \in Clients, NEW k \in Keys, Past(r, k), job'[r] = job[r]
               PROVE  TrueOf(r, k)'
    OBVIOUS
  <2>1. TrueOf(r, k)
    BY DEF TruthInv
  <2>2. RowIsOf(r, k)'
    BY <1>1, <2>1 DEF TrueOf, RowIsOf, RowsStay
  <2>. QED BY <1>2, <2>1, <2>2 DEF TrueOf
<1>4. SuccessIsTrue'
  <2> SUFFICES ASSUME NEW k \in Keys, rows'[k] # NoRow, rows'[k].status = "succeeded"
               PROVE  \/ <<rows'[k].call, rows'[k].body>> \in effects'[k]
                      \/ /\ rows'[k].kind = "hangup"
                         /\ calls'[rows'[k].call].ended \/ \E i \in DOMAIN starts'[k] : starts'[k][i] # rows'[k].call
    BY DEF SuccessIsTrue
  <2>0. rows[k] # NoRow
    OBVIOUS
  <2>1. /\ rows'[k].call = rows[k].call /\ rows'[k].body = rows[k].body /\ rows'[k].kind = rows[k].kind
        /\ rows[k].call \in CmdCalls
    BY <2>0 DEF RowsStay, CommandInv, CommandTyped, Row
  <2>2. CASE rows[k].status = "succeeded"
    <3>1. \/ <<rows[k].call, rows[k].body>> \in effects[k]
          \/ /\ rows[k].kind = "hangup"
             /\ calls[rows[k].call].ended \/ \E i \in DOMAIN starts[k] : starts[k][i] # rows[k].call
      BY <2>0, <2>2 DEF TruthInv, SuccessIsTrue
    <3>. QED BY <2>1, <3>1 DEF DeedsStay
  <2>3. CASE rows[k].status # "succeeded"
    <3>1. PICK r \in Clients : Past(r, k) /\ job[r].at = "complete" /\ job[r].ran = "ok"
      BY <2>3
    <3>2. RowIsOf(r, k) /\ DoneWell(r, k)
      BY <3>1 DEF TruthInv, TrueOf
    <3>3. CASE job[r].kind = "hangup"
      BY <1>1, <2>1, <3>1, <3>2, <3>3 DEF DoneWell, DeedsStay
    <3>4. CASE job[r].kind # "hangup"
      BY <2>1, <3>2, <3>4 DEF DoneWell, RowIsOf, DeedsStay
    <3>. QED BY <3>3, <3>4
  <2>. QED BY <2>2, <2>3
<1>. QED BY <1>3, <1>4 DEF TruthInv

\* The owners of the locks, whoever takes or gives one up.
LEMMA OwnersTyped ==
  ASSUME CallsTyped, NEW r \in Clients \union {NoClient}, NEW c,
         owner' = owner \/ owner' = [owner EXCEPT ![c] = r]
  PROVE  owner' \in [CmdCalls -> Clients \union {NoClient}]
BY DEF CallsTyped

\* A request that does not get past its row, or stays there, leaves the rest.
LEMMA TruthQuiet ==
  ASSUME CommandInv, TruthInv, NEW r \in Clients, NEW y \in CommandJob \union {Idle},
         job' = [job EXCEPT ![r] = y],
         y # Idle /\ y.at \in {"mark", "run", "complete"} =>
           \A k \in Keys : y.key = k => y.at # "complete" /\ rows[k] # NoRow /\ rows[k].body = y.body
                                        /\ (y.kind # "hangup" => rows[k].call = y.call),
         UNCHANGED <<rows, calls, starts, effects>>,
         owner' \in [CmdCalls -> Clients \union {NoClient}], sent' \in 0 .. MaxSent
  PROVE  TruthInv'
<1>1. CallsTyped' /\ RowsStay /\ DeedsStay
  BY DEF TruthInv, CallsTyped, RowsStay, DeedsStay
<1>2. job \in [Clients -> CommandJob \union {Idle}]
  BY DEF CommandInv, CommandTyped
<1>3. ASSUME NEW s \in Clients, NEW k \in Keys, Past(s, k)'
      PROVE  (Past(s, k) /\ job'[s] = job[s]) \/ TrueOf(s, k)'
  <2>1. CASE s = r
    <3>1. job'[s] = y /\ y # Idle /\ y.at \in {"mark", "run", "complete"} /\ y.key = k
      BY <1>2, <1>3, <2>1 DEF Past
    <3>. QED BY <3>1 DEF TrueOf, RowIsOf
  <2>2. CASE s # r
    BY <1>2, <1>3, <2>2 DEF Past
  <2>. QED BY <2>1, <2>2
<1>. QED BY <1>1, <1>3, TruthKept

\* A stage in front of the row.
LEMMA StageInFront ==
  ASSUME CommandInv, TruthInv, NEW r \in Clients, job[r].at # "idle",
         NEW stage \in {"refused", "lookup", "insert"}, To(r, stage),
         UNCHANGED <<rows, calls, starts, effects, sent>>,
         owner' \in [CmdCalls -> Clients \union {NoClient}]
  PROVE  TruthInv'
<1> DEFINE y == [job[r] EXCEPT !.at = stage]
<1>1. y \in CommandJob /\ y.at = stage
  BY AtStage DEF CommandInv, Stages
<1>2. job' = [job EXCEPT ![r] = y] /\ sent' \in 0 .. MaxSent
  BY DEF To, TruthInv, CallsTyped
<1> HIDE DEF y
<1>. QED BY <1>1, <1>2, TruthQuiet

LEMMA Answered ==
  ASSUME CommandInv, TruthInv, NEW r \in Clients, Reply(r),
         UNCHANGED <<rows, calls, starts, effects, sent>>
  PROVE  TruthInv'
<1>1. owner' \in [CmdCalls -> Clients \union {NoClient}]
  BY OwnersTyped DEF TruthInv, Reply
<1>2. sent' \in 0 .. MaxSent /\ job' = [job EXCEPT ![r] = Idle]
  BY DEF TruthInv, CallsTyped, Reply
<1>. QED BY <1>1, <1>2, TruthQuiet

LEMMA TruthSend ==
  ASSUME CommandInv, TruthInv, NEW r \in Clients, Send(r)
  PROVE  TruthInv' /\ RowsStay
<1>1. PICK q \in Request :
        job' = [job EXCEPT ![r] =
          [at |-> "wait", kind |-> q.kind, key |-> q.key, call |-> q.call,
           body |-> q.body, exp |-> q.exp, ran |-> "no"]]
  BY DEF Send
<1> DEFINE y == [at |-> "wait", kind |-> q.kind, key |-> q.key, call |-> q.call,
                 body |-> q.body, exp |-> q.exp, ran |-> "no"]
<1>2. y \in CommandJob /\ y.at = "wait"
  BY DEF Request, CommandJob, Stages
<1>3. UNCHANGED <<rows, calls, owner, starts, effects>> /\ sent < MaxSent /\ sent' = sent + 1
  BY DEF Send
<1>4. sent' \in 0 .. MaxSent /\ owner' \in [CmdCalls -> Clients \union {NoClient}]
  BY <1>3, ServicesAssumption DEF TruthInv, CallsTyped
<1>5. job' = [job EXCEPT ![r] = y]
  BY <1>1
<1> HIDE DEF y
<1>. QED BY <1>2, <1>3, <1>4, <1>5, TruthQuiet DEF RowsStay

LEMMA TruthEnter ==
  ASSUME CommandInv, TruthInv, NEW r \in Clients, Enter(r)
  PROVE  TruthInv' /\ RowsStay
<1>1. job[r].at = "wait" /\ UNCHANGED <<rows, calls, starts, effects, sent>>
  BY DEF Enter
<1>2. To(r, "refused") \/ To(r, "lookup")
  BY DEF Enter
<1>3. owner' = owner \/ owner' = [owner EXCEPT ![job[r].call] = r]
  BY DEF Enter
<1>4. owner' \in [CmdCalls -> Clients \union {NoClient}]
  BY <1>3, OwnersTyped DEF TruthInv
<1>. QED BY <1>1, <1>2, <1>4, StageInFront DEF RowsStay

LEMMA TruthLookup ==
  ASSUME CommandInv, TruthInv, NEW r \in Clients, Lookup(r)
  PROVE  TruthInv' /\ RowsStay
<1> DEFINE k == job[r].key
           row == rows[k]
           y == [job[r] EXCEPT !.at = "mark"]
<1>1. job[r].at = "lookup" /\ UNCHANGED <<rows, calls, starts, effects, sent>>
  BY DEF Lookup
<1>2. job[r] \in CommandJob /\ job[r] # Idle /\ k \in Keys
  BY <1>1, AtStage DEF CommandInv, CommandJob
<1>3. \/ Reply(r)
      \/ To(r, "insert") /\ UNCHANGED owner
      \/ /\ job' = [job EXCEPT ![r] = y] /\ UNCHANGED owner
         /\ row # NoRow /\ row.body = job[r].body /\ job[r].kind = "hangup"
  BY DEF Lookup, Replayed, To
<1>4. CASE Reply(r)
  BY <1>1, <1>4, Answered DEF RowsStay
<1>5. CASE To(r, "insert") /\ UNCHANGED owner
  <2>1. owner' \in [CmdCalls -> Clients \union {NoClient}]
    BY <1>5 DEF TruthInv, CallsTyped
  <2>. QED BY <1>1, <1>5, <2>1, StageInFront DEF RowsStay
<1>6. CASE /\ job' = [job EXCEPT ![r] = y] /\ UNCHANGED owner
           /\ row # NoRow /\ row.body = job[r].body /\ job[r].kind = "hangup"
  <2>1. /\ y \in CommandJob /\ y.at = "mark" /\ y.key = k /\ y.body = job[r].body
        /\ y.kind = "hangup"
    BY <1>2, <1>6 DEF CommandJob, Stages
  <2>2. owner' \in [CmdCalls -> Clients \union {NoClient}] /\ sent' \in 0 .. MaxSent
    BY <1>1, <1>6 DEF TruthInv, CallsTyped
  <2> HIDE DEF y
  <2>. QED BY <1>1, <1>6, <2>1, <2>2, TruthQuiet DEF RowsStay
<1>. QED BY <1>3, <1>4, <1>5, <1>6

LEMMA TruthInsert ==
  ASSUME CommandInv, TruthInv, NEW r \in Clients, Insert(r)
  PROVE  TruthInv' /\ RowsStay
<1> DEFINE k == job[r].key
           new == [status |-> "accepted", call |-> job[r].call, body |-> job[r].body,
                   kind |-> job[r].kind]
           y == [job[r] EXCEPT !.at = "mark"]
<1>1. job[r].at = "insert" /\ UNCHANGED <<calls, starts, effects, sent>>
  BY DEF Insert
<1>2. job[r] \in CommandJob /\ job[r] # Idle /\ k \in Keys
  BY <1>1, AtStage DEF CommandInv, CommandJob
<1>3. CASE rows[k] # NoRow
  <2>1. Reply(r) /\ UNCHANGED rows
    BY <1>3 DEF Insert
  <2>. QED BY <1>1, <2>1, Answered DEF RowsStay
<1>4. CASE rows[k] = NoRow
  <2>1. rows' = [rows EXCEPT ![k] = new] /\ job' = [job EXCEPT ![r] = y] /\ UNCHANGED owner
    BY <1>4 DEF Insert, To
  <2>2. /\ y.key = k /\ y.kind = job[r].kind /\ y.at = "mark" /\ y.call = job[r].call
        /\ y.body = job[r].body /\ y # Idle
    BY <1>2 DEF CommandJob, Stages, Idle
  <2>3. new.call = job[r].call /\ new.body = job[r].body /\ new.status = "accepted" /\ new # NoRow
    BY DEF NoRow
  <2> HIDE DEF y, new
  <2>4. /\ rows'[k] = new /\ \A l \in Keys : l # k => rows'[l] = rows[l]
        /\ job'[r] = y /\ \A s \in Clients : s # r => job'[s] = job[s]
    BY <1>2, <2>1 DEF CommandInv, CommandTyped
  <2>5. RowsStay
    BY <1>4, <2>4 DEF RowsStay
  <2>6. CallsTyped' /\ DeedsStay
    BY <1>1, <2>1 DEF TruthInv, CallsTyped, DeedsStay
  <2>7. ASSUME NEW s \in Clients, NEW l \in Keys, Past(s, l)'
        PROVE  (Past(s, l) /\ job'[s] = job[s]) \/ TrueOf(s, l)'
    <3>1. CASE s = r
      <4>1. l = k
        BY <2>2, <2>4, <2>7, <3>1 DEF Past
      <4>2. RowIsOf(r, k)'
        BY <2>2, <2>3, <2>4 DEF RowIsOf
      <4>. QED BY <2>2, <2>4, <3>1, <4>1, <4>2 DEF TrueOf
    <3>2. CASE s # r
      BY <2>4, <2>7, <3>2 DEF Past
    <3>. QED BY <3>1, <3>2
  <2>8. \A l \in Keys : rows'[l] # NoRow /\ rows'[l].status = "succeeded" =>
          rows[l] # NoRow /\ rows[l].status = "succeeded"
    BY <2>3, <2>4
  <2>. QED BY <2>5, <2>6, <2>7, <2>8, TruthKept
<1>. QED BY <1>3, <1>4

\* A request past its row goes on with it; the row is rewritten unless it is settled.
LEMMA TruthGoesOn ==
  ASSUME CommandInv, TruthInv, NEW r \in Clients, NEW k \in Keys, Past(r, k),
         NEW y \in CommandJob \union {Idle}, job' = [job EXCEPT ![r] = y],
         NEW w \in Row, rows' = [rows EXCEPT ![k] = w],
         w.call = rows[k].call, w.body = rows[k].body, w.kind = rows[k].kind,
         rows[k].status \in {"succeeded", "failed"} => w = rows[k],
         w.status = "succeeded" => \/ rows[k].status = "succeeded"
                                   \/ job[r].at = "complete" /\ job[r].ran = "ok",
         y # Idle => y.key = k /\ y.call = job[r].call /\ y.body = job[r].body /\ y.kind = job[r].kind,
         CallsTyped', DeedsStay,
         y # Idle /\ y.at = "complete" /\ y.ran = "ok" => DoneWell(r, k)'
  PROVE  TruthInv' /\ RowsStay
<1>1. /\ rows'[k] = w /\ \A l \in Keys : l # k => rows'[l] = rows[l]
      /\ job'[r] = y /\ \A s \in Clients : s # r => job'[s] = job[s]
      /\ w # NoRow /\ rows[k] # NoRow
  BY RowIsNot DEF CommandInv, CommandTyped, RowFirst
<1>2. RowsStay
  BY <1>1 DEF RowsStay
<1>3. ASSUME NEW s \in Clients, NEW l \in Keys, Past(s, l)'
      PROVE  (Past(s, l) /\ job'[s] = job[s]) \/ TrueOf(s, l)'
  <2>1. CASE s = r
    <3>1. l = k /\ y # Idle
      BY <1>1, <1>3, <2>1 DEF Past
    <3>2. RowIsOf(r, k)'
      BY <1>1, <3>1 DEF RowIsOf, TruthInv, TrueOf
    <3>. QED BY <1>1, <2>1, <3>1, <3>2 DEF TrueOf
  <2>2. CASE s # r
    BY <1>1, <1>3, <2>2 DEF Past
  <2>. QED BY <2>1, <2>2
<1>4. \A l \in Keys : rows'[l] # NoRow /\ rows'[l].status = "succeeded" =>
        \/ rows[l] # NoRow /\ rows[l].status = "succeeded"
        \/ \E s \in Clients : Past(s, l) /\ job[s].at = "complete" /\ job[s].ran = "ok" /\ rows[l] # NoRow
  BY <1>1
<1>. QED BY <1>2, <1>3, <1>4, TruthKept

\* The same with the rows as they are.
LEMMA TruthWithRows ==
  ASSUME CommandInv, TruthInv, NEW r \in Clients, NEW k \in Keys, Past(r, k),
         NEW y \in CommandJob, job' = [job EXCEPT ![r] = y], rows' = rows,
         y.key = k, y.call = job[r].call, y.body = job[r].body, y.kind = job[r].kind,
         CallsTyped', DeedsStay,
         y.at = "complete" /\ y.ran = "ok" => DoneWell(r, k)'
  PROVE  TruthInv' /\ RowsStay
<1>1. job'[r] = y /\ \A s \in Clients : s # r => job'[s] = job[s]
  BY DEF CommandInv, CommandTyped
<1>2. RowsStay
  BY DEF RowsStay
<1>3. ASSUME NEW s \in Clients, NEW l \in Keys, Past(s, l)'
      PROVE  (Past(s, l) /\ job'[s] = job[s]) \/ TrueOf(s, l)'
  <2>1. CASE s = r
    <3>1. l = k
      BY <1>1, <1>3, <2>1 DEF Past
    <3>2. RowIsOf(r, k)'
      BY <1>1 DEF RowIsOf, TruthInv, TrueOf
    <3>. QED BY <1>1, <2>1, <3>1, <3>2 DEF TrueOf
  <2>2. CASE s # r
    BY <1>1, <1>3, <2>2 DEF Past
  <2>. QED BY <2>1, <2>2
<1>4. \A l \in Keys : rows'[l] # NoRow /\ rows'[l].status = "succeeded" =>
        \/ rows[l] # NoRow /\ rows[l].status = "succeeded"
        \/ \E s \in Clients : Past(s, l) /\ job[s].at = "complete" /\ job[s].ran = "ok" /\ rows[l] # NoRow
  OBVIOUS
<1>. QED BY <1>2, <1>3, <1>4, TruthKept

\* Where a request past its row stands.
LEMMA AtRow ==
  ASSUME CommandInv, NEW r \in Clients, job[r].at \in {"mark", "run", "complete"}
  PROVE  /\ job[r] \in CommandJob /\ job[r] # Idle /\ job[r].key \in Keys /\ job[r].call \in CmdCalls
         /\ job[r].body \in Bodies
         /\ Past(r, job[r].key)
         /\ rows[job[r].key] \in Row /\ rows[job[r].key] # NoRow
         /\ rows[job[r].key].kind = job[r].kind
<1>1. job[r] \in CommandJob /\ job[r] # Idle
  BY AtStage DEF CommandInv
<1>2. /\ job[r].key \in Keys /\ job[r].call \in CmdCalls /\ job[r].body \in Bodies
      /\ Past(r, job[r].key)
  BY <1>1 DEF CommandJob, Past
<1>. QED BY <1>1, <1>2 DEF CommandInv, CommandTyped, RowFirst

LEMMA TruthMark ==
  ASSUME CommandInv, TruthInv, NEW r \in Clients, MarkRunning(r)
  PROVE  TruthInv' /\ RowsStay
<1> DEFINE k == job[r].key
           y == [job[r] EXCEPT !.at = "run"]
           w == [rows[k] EXCEPT !.status = "running"]
<1>1. job[r].at = "mark" /\ UNCHANGED <<calls, starts, effects, sent>>
  BY DEF MarkRunning
<1>2. /\ job[r] \in CommandJob /\ job[r] # Idle /\ k \in Keys /\ Past(r, k)
      /\ rows[k] \in Row /\ rows[k] # NoRow
  BY <1>1, AtRow
<1>3. /\ y \in CommandJob /\ y.key = k /\ y.kind = job[r].kind /\ y.at = "run"
      /\ y.call = job[r].call /\ y.body = job[r].body
  BY <1>2 DEF CommandJob, Stages
<1>4. /\ w \in Row /\ w.kind = rows[k].kind /\ w.status = "running"
      /\ w.call = rows[k].call /\ w.body = rows[k].body
  BY <1>2 DEF Row, Statuses
<1>5. rows = [rows EXCEPT ![k] = rows[k]]
  BY <1>2 DEF CommandInv, CommandTyped
<1>6. \/ Reply(r) /\ UNCHANGED rows
      \/ /\ job' = [job EXCEPT ![r] = y] /\ UNCHANGED owner
         /\ \/ rows[k].status = "accepted" /\ rows' = [rows EXCEPT ![k] = w]
            \/ rows' = rows
  BY DEF MarkRunning, To
<1>7. CASE Reply(r) /\ UNCHANGED rows
  BY <1>1, <1>7, Answered DEF RowsStay
<1>8. CASE job' = [job EXCEPT ![r] = y] /\ UNCHANGED owner
  <2>1. CallsTyped' /\ DeedsStay
    BY <1>1, <1>8 DEF TruthInv, CallsTyped, DeedsStay
  <2>2. PICK v \in Row : /\ rows' = [rows EXCEPT ![k] = v]
                         /\ v = rows[k] \/ (v = w /\ rows[k].status = "accepted")
    BY <1>2, <1>4, <1>5, <1>6, <1>8 DEF Reply
  <2>3. /\ v.call = rows[k].call /\ v.body = rows[k].body /\ v.kind = rows[k].kind
        /\ rows[k].status \in {"succeeded", "failed"} => v = rows[k]
        /\ v.status = "succeeded" => rows[k].status = "succeeded"
    BY <1>4, <2>2
  <2> HIDE DEF y, w
  <2>. QED BY <1>2, <1>3, <1>8, <2>1, <2>2, <2>3, TruthGoesOn
<1>. QED BY <1>6, <1>7, <1>8

\* A mutation that is run: nothing, or a new version of its call.
LEMMA TruthRun ==
  ASSUME CommandInv, TruthInv, NEW r \in Clients, Run(r)
  PROVE  TruthInv' /\ RowsStay
<1> DEFINE k == job[r].key
           c == job[r].call
<1>1. /\ job[r].at = "run" /\ UNCHANGED <<rows, owner, sent>>
      /\ starts' = [starts EXCEPT ![k] = Append(starts[k], c)]
  BY DEF Run
<1>2. /\ job[r] \in CommandJob /\ job[r] # Idle /\ k \in Keys /\ c \in CmdCalls /\ job[r].body \in Bodies
      /\ Past(r, k) /\ rows[k] \in Row /\ rows[k] # NoRow
  BY <1>1, AtRow
<1>3. PICK ran \in {"ok", "failed"} :
        /\ job' = [job EXCEPT ![r].at = "complete", ![r].ran = ran]
        /\ \/ job[r].kind = "hangup" /\ calls[c].ended /\ UNCHANGED <<calls, effects>>
           \/ Perform(r)
           \/ ran = "failed" /\ UNCHANGED <<calls, effects>>
  BY DEF Run
<1> DEFINE y == [job[r] EXCEPT !.at = "complete", !.ran = ran]
<1>4. job' = [job EXCEPT ![r] = y]
  BY <1>2, <1>3 DEF CommandInv, CommandTyped
<1>5. /\ y \in CommandJob /\ y.key = k /\ y.kind = job[r].kind /\ y.call = c
      /\ y.body = job[r].body /\ y.ran = ran
  BY <1>2 DEF CommandJob, Stages
<1> HIDE DEF y
<1>7. /\ starts[k] \in Seq(CmdCalls) /\ starts'[k] = Append(starts[k], c)
      /\ \A l \in Keys : l # k => starts'[l] = starts[l]
  BY <1>1, <1>2 DEF CommandInv, CommandTyped
<1>8. /\ \A i \in DOMAIN starts[k] : i \in DOMAIN starts'[k] /\ starts'[k][i] = starts[k][i]
      /\ \E i \in DOMAIN starts'[k] : starts'[k][i] = c
  <2>1. Len(starts[k]) + 1 \in DOMAIN starts'[k] /\ starts'[k][Len(starts[k]) + 1] = c
    BY <1>2, <1>7
  <2>. QED BY <1>2, <1>7, <2>1
<1>9. calls[c] \in [version: 1 .. MaxVersion, ended: BOOLEAN]
  BY <1>2 DEF TruthInv, CallsTyped
<1>10. CASE Perform(r)
  <2> DEFINE d == [calls[c] EXCEPT !.version = calls[c].version + 1,
                                   !.ended = calls[c].ended \/ job[r].kind = "hangup"]
  <2>1. /\ calls[c].version < MaxVersion
        /\ calls' = [calls EXCEPT ![c].version = @ + 1, ![c].ended = @ \/ job[r].kind = "hangup"]
        /\ effects' = [effects EXCEPT ![k] = effects[k] \union {<<c, job[r].body>>}]
    BY <1>10 DEF Perform
  <2>2. calls' = [calls EXCEPT ![c] = d]
    BY <1>2, <2>1 DEF TruthInv, CallsTyped
  <2>3. d.version = calls[c].version + 1 /\ (d.ended <=> (calls[c].ended \/ job[r].kind = "hangup"))
    BY <1>9
  <2>4. calls[c].version + 1 \in 1 .. MaxVersion
    BY <1>9, <2>1, ServicesAssumption
  <2>5. d \in [version: 1 .. MaxVersion, ended: BOOLEAN]
    BY <1>9, <2>4
  <2> HIDE DEF d
  <2>6. CallsTyped'
    <3>1. calls' \in [CmdCalls -> [version: 1 .. MaxVersion, ended: BOOLEAN]]
      BY <1>2, <2>2, <2>5 DEF TruthInv, CallsTyped
    <3>2. owner' \in [CmdCalls -> Clients \union {NoClient}] /\ sent' \in 0 .. MaxSent
      BY <1>1 DEF TruthInv, CallsTyped
    <3>3. effects' \in [Keys -> SUBSET (CmdCalls \X Bodies)]
      <4>1. effects[k] \union {<<c, job[r].body>>} \in SUBSET (CmdCalls \X Bodies)
        BY <1>2 DEF TruthInv, CallsTyped
      <4>. QED BY <1>2, <2>1, <4>1 DEF TruthInv, CallsTyped
    <3>. QED BY <3>1, <3>2, <3>3 DEF CallsTyped
  <2>7. /\ calls'[c] = d /\ \A b \in CmdCalls : b # c => calls'[b] = calls[b]
        /\ <<c, job[r].body>> \in effects'[k] /\ \A l \in Keys : effects[l] \subseteq effects'[l]
    BY <1>2, <2>1, <2>2 DEF TruthInv, CallsTyped
  <2>8. DeedsStay
    BY <1>7, <1>8, <2>3, <2>7 DEF DeedsStay
  <2>9. y.kind = "hangup" => calls'[c].ended
    BY <1>5, <2>3, <2>7
  <2>10. job'[r] = y
    BY <1>4 DEF CommandInv, CommandTyped
  <2>11. DoneWell(r, k)'
    BY <1>5, <1>8, <2>7, <2>9, <2>10 DEF DoneWell
  <2>. QED BY <1>1, <1>2, <1>1, <1>4, <1>5, <2>6, <2>8, <2>11, TruthWithRows
<1>11. CASE /\ UNCHANGED <<calls, effects>>
            /\ ran = "failed" \/ (job[r].kind = "hangup" /\ calls[c].ended)
  <2>1. CallsTyped' /\ DeedsStay
    BY <1>1, <1>7, <1>8, <1>11 DEF TruthInv, CallsTyped, DeedsStay
  <2>2. job'[r] = y
    BY <1>4 DEF CommandInv, CommandTyped
  <2>3. y.at = "complete" /\ y.ran = "ok" => DoneWell(r, k)'
    BY <1>5, <1>8, <1>11, <2>2 DEF DoneWell
  <2>. QED BY <1>1, <1>2, <1>1, <1>4, <1>5, <2>1, <2>3, TruthWithRows
<1>. QED BY <1>3, <1>10, <1>11

LEMMA TruthComplete ==
  ASSUME CommandInv, TruthInv, NEW r \in Clients, Complete(r)
  PROVE  TruthInv' /\ RowsStay
<1> DEFINE k == job[r].key
<1>1. job[r].at = "complete" /\ UNCHANGED <<calls, starts, effects, sent>> /\ Reply(r)
  BY DEF Complete
<1>2. /\ job[r] \in CommandJob /\ k \in Keys /\ Past(r, k) /\ rows[k] \in Row /\ rows[k] # NoRow
  BY <1>1, AtRow
<1>3. \A st \in {"succeeded", "failed"} :
        LET w == Settled(rows[k], st) IN
        /\ w \in Row /\ w.kind = rows[k].kind /\ w.call = rows[k].call /\ w.body = rows[k].body
        /\ rows[k].status \in {"succeeded", "failed"} => w = rows[k]
        /\ w.status \in {st, rows[k].status}
  BY <1>2 DEF Settled, Row, Statuses
<1>4. PICK w \in Row : /\ w.kind = rows[k].kind /\ w.call = rows[k].call /\ w.body = rows[k].body
                       /\ rows[k].status \in {"succeeded", "failed"} => w = rows[k]
                       /\ w.status = "succeeded" => rows[k].status = "succeeded" \/ job[r].ran = "ok"
                       /\ rows' = [rows EXCEPT ![k] = w]
  <2>1. CASE job[r].ran = "ok"
    <3>1. rows' = [rows EXCEPT ![k] = Settled(rows[k], "succeeded")]
      BY <2>1 DEF Complete
    <3>. QED BY <1>3, <2>1, <3>1
  <2>2. CASE job[r].ran # "ok"
    <3>1. rows' = rows \/ rows' = [rows EXCEPT ![k] = Settled(rows[k], "failed")]
      BY <2>2 DEF Complete
    <3>2. rows = [rows EXCEPT ![k] = rows[k]]
      BY <1>2 DEF CommandInv, CommandTyped
    <3>. QED BY <1>2, <1>3, <3>1, <3>2
  <2>. QED BY <2>1, <2>2
<1>5. owner' \in [CmdCalls -> Clients \union {NoClient}] /\ job' = [job EXCEPT ![r] = Idle]
  BY <1>1, OwnersTyped DEF TruthInv, Reply
<1>6. CallsTyped' /\ DeedsStay
  BY <1>1, <1>5 DEF TruthInv, CallsTyped, DeedsStay
<1>. QED BY <1>1, <1>2, <1>4, <1>5, <1>6, TruthGoesOn

\* The tick makes a version, a restart loses the requests.
LEMMA TruthOthers ==
  ASSUME CommandInv, TruthInv, Restart \/ \E c \in CmdCalls : Tick(c)
  PROVE  TruthInv' /\ RowsStay
<1>1. CASE \E c \in CmdCalls : Tick(c)
  <2>1. PICK c \in CmdCalls : Tick(c)
    BY <1>1
  <2>2. /\ calls[c].version < MaxVersion /\ calls' = [calls EXCEPT ![c].version = calls[c].version + 1]
        /\ UNCHANGED <<rows, owner, job, starts, effects, sent>>
    BY <2>1 DEF Tick
  <2>3. calls[c] \in [version: 1 .. MaxVersion, ended: BOOLEAN]
    BY DEF TruthInv, CallsTyped
  <2>4. calls[c].version + 1 \in 1 .. MaxVersion
    BY <2>2, <2>3, ServicesAssumption
  <2>5. /\ calls' \in [CmdCalls -> [version: 1 .. MaxVersion, ended: BOOLEAN]]
        /\ \A b \in CmdCalls : calls'[b].ended = calls[b].ended
    BY <2>2, <2>3, <2>4 DEF TruthInv, CallsTyped
  <2>6. CallsTyped' /\ DeedsStay /\ RowsStay
    BY <2>2, <2>5 DEF TruthInv, CallsTyped, DeedsStay, RowsStay
  <2>7. \A r \in Clients, k \in Keys : Past(r, k)' => Past(r, k) /\ job'[r] = job[r]
    BY <2>2 DEF Past
  <2>. QED BY <2>2, <2>6, <2>7, TruthKept
<1>2. CASE Restart
  <2>1. PICK stale \in SUBSET Open :
          rows' = [k \in Keys |-> IF k \in stale THEN [rows[k] EXCEPT !.status = "unknown"] ELSE rows[k]]
    BY <1>2 DEF Restart
  <2>2. /\ job' = [r \in Clients |-> Idle] /\ owner' = [c \in CmdCalls |-> NoClient]
        /\ UNCHANGED <<calls, starts, effects, sent>>
    BY <1>2 DEF Restart
  <2>3. CallsTyped' /\ DeedsStay
    BY <2>2 DEF TruthInv, CallsTyped, DeedsStay
  <2>4. \A k \in Keys :
          \/ rows'[k] = rows[k]
          \/ /\ rows[k].status \in {"accepted", "running"} /\ rows[k] \in Row /\ rows'[k] \in Row
             /\ rows'[k].call = rows[k].call /\ rows'[k].body = rows[k].body
             /\ rows'[k].kind = rows[k].kind /\ rows'[k].status = "unknown"
    <3> SUFFICES ASSUME NEW k \in Keys, k \in stale
                 PROVE  /\ rows[k].status \in {"accepted", "running"} /\ rows[k] \in Row /\ rows'[k] \in Row
                        /\ rows'[k].call = rows[k].call /\ rows'[k].body = rows[k].body
                        /\ rows'[k].kind = rows[k].kind /\ rows'[k].status = "unknown"
      BY <2>1
    <3>1. rows[k] \in Row /\ rows[k].status \in {"accepted", "running"}
      BY DEF Open, CommandInv, CommandTyped
    <3>2. rows'[k] = [rows[k] EXCEPT !.status = "unknown"]
      BY <2>1
    <3>. QED BY <3>1, <3>2 DEF Row, Statuses
  <2>5. RowsStay
    BY <2>4, RowIsNot DEF RowsStay
  <2>6. \A r \in Clients, k \in Keys : ~Past(r, k)'
    BY <2>2 DEF Past
  <2>7. \A k \in Keys : rows'[k] # NoRow /\ rows'[k].status = "succeeded" =>
          rows[k] # NoRow /\ rows[k].status = "succeeded"
    BY <2>4
  <2>. QED BY <2>3, <2>5, <2>6, <2>7, TruthKept
<1>. QED BY <1>1, <1>2

LEMMA TruthInductive == CommandInv /\ TruthInv /\ [Next]_cmdVars => TruthInv' /\ RowsStay
<1> SUFFICES ASSUME CommandInv, TruthInv, [Next]_cmdVars PROVE TruthInv' /\ RowsStay
  OBVIOUS
<1>1. CASE UNCHANGED cmdVars
  BY <1>1 DEF cmdVars, TruthInv, CallsTyped, Past, TrueOf, RowIsOf, DoneWell, SuccessIsTrue, RowsStay
<1>2. CASE Next
  BY <1>2, TruthSend, TruthEnter, TruthLookup, TruthInsert, TruthMark, TruthRun, TruthComplete,
     TruthOthers DEF Next, Serve
<1>. QED BY <1>1, <1>2

LEMMA CommandsTyped == CommandInv /\ TruthInv => TypeOK
<1> SUFFICES ASSUME CommandInv, TruthInv PROVE TypeOK
  OBVIOUS
<1>1. \A r \in Clients : job[r].at \in Stages /\ (job[r].at # "idle" => job[r].key \in Keys)
  BY DEF CommandInv, CommandTyped, CommandJob, Idle, Stages
<1>. QED BY <1>1 DEF TypeOK, CommandInv, CommandTyped, TruthInv, CallsTyped

-------------------------------------------------------------------------------
(* Events.  Between two statements the switch knows of an event what the row   *)
(* of its delivery says, and open-call what its inbox and outbox say.          *)

EventRow == [type: EvTypes, call: EvCalls, data: 0 .. 3, version: {0}]
TechRow == [cdr: 0 .. 2, rec: 0 .. 3, action: {"none", "pending", "completed", "expired"}]
DeliveryRow == [status: {"none", "pending", "success", "failed"}, attempts: 0 .. MaxAttempts,
                due: BOOLEAN]
ProjectedRow == [cdr: 0 .. 2, version: {0}, rec: 0 .. 3]

SwitchTyped ==
  /\ log \in Seq(EventRow) /\ Len(log) <= MaxEvents
  /\ \A i \in 1 .. Len(log) : /\ log[i].type = "rec" => log[i].data >= 1
                              /\ log[i].type = "cdr" => log[i].data <= 2
  /\ tech \in [EvCalls -> TechRow]

\* A delivery that is due has an attempt left, and only events have deliveries.
DeliveriesTyped ==
  /\ deliveries \in [Events!Ids -> DeliveryRow]
  /\ \A i \in Events!Ids : deliveries[i].status \in {"none", "pending"} => deliveries[i].attempts < MaxAttempts
  /\ \A i \in Events!Ids : deliveries[i].status = "pending" => i <= Len(log)
  /\ batch \subseteq Events!Ids /\ \A i \in batch : deliveries[i].status = "pending"
  /\ post \in {"none", "accepted", "error", "lost"} /\ (post # "none" => batch # {})

IntakeTyped ==
  /\ inbox \subseteq Events!Ids /\ dead \subseteq Events!Ids /\ hub \subseteq Events!Ids
  /\ \A i \in inbox : i <= Len(log)
  /\ outbox \in [Events!Ids -> {"none", "waiting", "delivered"}]
  /\ proj \in [EvCalls -> ProjectedRow]

\* An answer of open-call is about what it has stored or given up.
AnswerIsTrue == post = "accepted" => Events!Min(batch) \in inbox \union dead

\* What waits for the browsers is stored.
OutboxIsStored == \A i \in Events!Ids : outbox[i] = "waiting" => i \in inbox

Speaks(i, c) == log[i].type = "rec" /\ log[i].call = c

\* The row of a recording is one of its stored events and none is above it.
RowIsGravest ==
  \A c \in EvCalls :
    /\ proj[c].rec = 0 \/ \E i \in inbox : Speaks(i, c) /\ log[i].data = proj[c].rec
    /\ \A i \in inbox : Speaks(i, c) => log[i].data <= proj[c].rec

EventInv ==
  /\ SwitchTyped /\ DeliveriesTyped /\ IntakeTyped
  /\ AnswerIsTrue /\ Events!AckMeansStored
  /\ OutboxIsStored /\ Events!HubHearsStored /\ RowIsGravest

\* The first of the batch is one of it.
LEMMA FirstOfBatch ==
  ASSUME NEW S \in SUBSET Events!Ids, S # {}
  PROVE  Events!Min(S) \in S
<1>1. S \in SUBSET Nat
  BY DEF Events!Ids
<1>. QED BY <1>1, Least DEF Events!Min

\* What a stored event is.
LEMMA Stored ==
  ASSUME SwitchTyped
  PROVE  /\ DOMAIN log = 1 .. Len(log)
         /\ \A i \in 1 .. Len(log) : /\ log[i] \in EventRow /\ log[i].call \in EvCalls
                                     /\ log[i].data \in 0 .. 3 /\ log[i].version = 0
<1>1. log \in Seq(EventRow)
  BY DEF SwitchTyped
<1>2. DOMAIN log = 1 .. Len(log) /\ \A i \in 1 .. Len(log) : log[i] \in EventRow
  BY <1>1
<1>3. \A e \in EventRow : e.call \in EvCalls /\ e.data \in 0 .. 3 /\ e.version = 0
  BY DEF EventRow
<1>. QED BY <1>2, <1>3

LEMMA EventInitInv == Events!Init => EventInv
<1> SUFFICES ASSUME Events!Init PROVE EventInv
  OBVIOUS
<1> USE DEF Events!Init
<1>1. SwitchTyped
  BY ServicesAssumption DEF SwitchTyped, EventRow, TechRow
<1>2. 0 \in 0 .. MaxAttempts /\ 0 < MaxAttempts
  BY ServicesAssumption
<1>3. DeliveriesTyped
  BY <1>2 DEF DeliveriesTyped, DeliveryRow, Events!NoRow
<1>4. IntakeTyped
  BY DEF IntakeTyped, ProjectedRow
<1>5. AnswerIsTrue /\ Events!AckMeansStored
  BY DEF AnswerIsTrue, Events!AckMeansStored, Events!NoRow
<1>6. OutboxIsStored /\ Events!HubHearsStored /\ RowIsGravest
  BY DEF OutboxIsStored, Events!HubHearsStored, RowIsGravest
<1>. QED BY <1>1, <1>3, <1>4, <1>5, <1>6 DEF EventInv

\* Another event is stored with its delivery.
LEMMA LoggedStep ==
  ASSUME EventInv, NEW kind, NEW c \in EvCalls, NEW d \in 0 .. 3,
         kind = "rec" => d >= 1, kind = "cdr" => d <= 2,
         Events!Logged(kind, c, d), tech' \in [EvCalls -> TechRow]
  PROVE  EventInv'
<1> DEFINE e == [type |-> kind, call |-> c, data |-> d, version |-> 0]
           n == Len(log) + 1
           fresh == [status |-> "pending", attempts |-> 0, due |-> TRUE]
<1>1. /\ kind \in EvTypes /\ Len(log) < MaxEvents /\ log' = Append(log, e)
      /\ deliveries' = [deliveries EXCEPT ![n] = fresh]
      /\ UNCHANGED <<batch, post, inbox, failures, dead, outbox, proj, hub, faults>>
  BY DEF Events!Logged, Events!intakeVars
<1>2. e \in EventRow /\ e.type = kind /\ e.data = d
  BY <1>1 DEF EventRow
<1>3. log \in Seq(EventRow) /\ Len(log) \in Nat /\ MaxEvents \in Nat
  BY ServicesAssumption DEF EventInv, SwitchTyped
<1> HIDE DEF e
<1>4. /\ log' \in Seq(EventRow) /\ Len(log') = n /\ n <= MaxEvents /\ n \in Events!Ids
      /\ log'[n] = e /\ \A i \in 1 .. Len(log) : log'[i] = log[i]
  BY <1>1, <1>2, <1>3 DEF Events!Ids
<1>5. \A i \in 1 .. Len(log') : i = n \/ i \in 1 .. Len(log)
  BY <1>3, <1>4
<1>6. SwitchTyped'
  BY <1>2, <1>3, <1>4, <1>5 DEF EventInv, SwitchTyped
<1>7. fresh \in DeliveryRow /\ 0 < MaxAttempts /\ fresh.status = "pending" /\ fresh.attempts = 0
  BY ServicesAssumption DEF DeliveryRow
<1> HIDE DEF fresh
<1>8. /\ deliveries' \in [Events!Ids -> DeliveryRow] /\ deliveries'[n] = fresh
      /\ \A i \in Events!Ids : i # n => deliveries'[i] = deliveries[i]
  BY <1>1, <1>4, <1>7 DEF EventInv, DeliveriesTyped
<1>9. n \notin batch
  BY <1>3, <1>4 DEF EventInv, DeliveriesTyped
<1>10. DeliveriesTyped'
  <2>1. \A i \in Events!Ids : deliveries'[i].status \in {"none", "pending"} => deliveries'[i].attempts < MaxAttempts
    BY <1>7, <1>8 DEF EventInv, DeliveriesTyped
  <2>2. \A i \in Events!Ids : deliveries'[i].status = "pending" => i <= Len(log')
    <3> SUFFICES ASSUME NEW i \in Events!Ids, deliveries'[i].status = "pending" PROVE i <= Len(log')
      OBVIOUS
    <3>1. CASE i = n
      BY <1>3, <1>4, <3>1
    <3>2. CASE i # n
      BY <1>3, <1>4, <1>8, <3>2 DEF EventInv, DeliveriesTyped, Events!Ids
    <3>. QED BY <3>1, <3>2
  <2>3. \A i \in batch : deliveries'[i].status = "pending"
    BY <1>8, <1>9 DEF EventInv, DeliveriesTyped
  <2>. QED BY <1>1, <1>8, <2>1, <2>2, <2>3 DEF EventInv, DeliveriesTyped
<1>11. IntakeTyped' /\ \A i \in inbox : i \in 1 .. Len(log) /\ log'[i] = log[i]
  <2>1. \A i \in inbox : i \in 1 .. Len(log)
    BY <1>3 DEF EventInv, IntakeTyped, Events!Ids
  <2>2. \A i \in inbox : i <= Len(log')
    BY <1>3, <1>4, <2>1
  <2>. QED BY <1>1, <1>4, <2>1, <2>2 DEF EventInv, IntakeTyped
<1>12. AnswerIsTrue' /\ OutboxIsStored' /\ Events!HubHearsStored'
  BY <1>1 DEF EventInv, AnswerIsTrue, OutboxIsStored, Events!HubHearsStored
<1>13. Events!AckMeansStored'
  BY <1>1, <1>7, <1>8 DEF EventInv, Events!AckMeansStored
<1>14. RowIsGravest'
  BY <1>1, <1>11 DEF EventInv, RowIsGravest, Speaks
<1>. QED BY <1>6, <1>10, <1>11, <1>12, <1>13, <1>14 DEF EventInv

\* The merge of a recording takes the graver of the two.
LEMMA MergeIsGraver ==
  ASSUME NEW old \in 0 .. 3, NEW new \in 1 .. 3
  PROVE  /\ Events!Merge(old, new) \in {old, new}
         /\ Events!Merge(old, new) >= old /\ Events!Merge(old, new) >= new
BY DEF Events!Merge, Events!Failed

\* The switch publishes.
LEMMA PublishStep ==
  ASSUME EventInv, NEW c \in EvCalls, Events!Publish(c)
  PROVE  EventInv'
<1>1. tech \in [EvCalls -> TechRow] /\ tech[c] \in TechRow
  BY DEF EventInv, SwitchTyped
<1>2. tech[c].cdr \in 0 .. 2 /\ tech[c].rec \in 0 .. 3
  BY <1>1 DEF TechRow
<1>3. CASE Events!UpsertCdr(c)
  <2>1. /\ tech' = [tech EXCEPT ![c] = [tech[c] EXCEPT !.cdr = tech[c].cdr + 1]]
        /\ tech[c].cdr < 2 /\ Events!Logged("cdr", c, tech[c].cdr + 1)
    BY <1>3 DEF Events!UpsertCdr
  <2>2. [tech[c] EXCEPT !.cdr = tech[c].cdr + 1] \in TechRow /\ tech[c].cdr + 1 \in 0 .. 3
        /\ tech[c].cdr + 1 <= 2
    BY <1>1, <1>2, <2>1 DEF TechRow
  <2>. QED BY <1>1, <2>1, <2>2, LoggedStep
<1>4. CASE Events!SaveRecording(c)
  <2>1. PICK new \in 1 .. 3 :
          /\ tech' = [tech EXCEPT ![c] = [tech[c] EXCEPT !.rec = Events!Merge(tech[c].rec, new)]]
          /\ Events!Logged("rec", c, Events!Merge(tech[c].rec, new))
    <3>1. PICK new \in Events!Rec \ {0} :
            /\ tech' = [tech EXCEPT ![c].rec = Events!Merge(tech[c].rec, new)]
            /\ Events!Logged("rec", c, Events!Merge(tech[c].rec, new))
      BY <1>4 DEF Events!SaveRecording
    <3>2. new \in 1 .. 3
      BY DEF Events!Rec
    <3>. QED BY <3>1, <3>2
  <2>2. Events!Merge(tech[c].rec, new) \in 0 .. 3 /\ Events!Merge(tech[c].rec, new) >= 1
    BY <1>2, MergeIsGraver
  <2>3. [tech[c] EXCEPT !.rec = Events!Merge(tech[c].rec, new)] \in TechRow
    BY <1>1, <2>2 DEF TechRow
  <2>. QED BY <1>1, <2>1, <2>2, <2>3, LoggedStep
<1>5. CASE Events!RecordingFailedUnsaved(c)
  BY <1>1, <1>5, LoggedStep DEF Events!RecordingFailedUnsaved, Events!Failed
<1>6. CASE Events!BeginAction(c)
  <2>1. /\ tech' = [tech EXCEPT ![c] = [tech[c] EXCEPT !.action = "pending"]]
        /\ Events!Logged("action", c, 0)
    BY <1>6 DEF Events!BeginAction
  <2>2. [tech[c] EXCEPT !.action = "pending"] \in TechRow
    BY <1>1 DEF TechRow
  <2>. QED BY <1>1, <2>1, <2>2, LoggedStep
<1>7. CASE Events!ExpireAction(c)
  <2>1. /\ tech' = [tech EXCEPT ![c] = [tech[c] EXCEPT !.action = "expired"]]
        /\ UNCHANGED <<log, deliveries, batch, post, inbox, failures, dead, outbox, proj, hub, faults>>
    BY <1>7 DEF Events!ExpireAction, Events!intakeVars
  <2>2. [tech[c] EXCEPT !.action = "expired"] \in TechRow
    BY <1>1 DEF TechRow
  <2>3. SwitchTyped'
    BY <1>1, <2>1, <2>2 DEF EventInv, SwitchTyped
  <2>. QED BY <2>1, <2>3 DEF EventInv, DeliveriesTyped, IntakeTyped, AnswerIsTrue,
                Events!AckMeansStored, OutboxIsStored, Events!HubHearsStored, RowIsGravest, Speaks
<1>. QED BY <1>3, <1>4, <1>5, <1>6, <1>7 DEF Events!Publish

\* A step that changes deliveries, batch and post only.
LEMMA DispatcherStep ==
  ASSUME EventInv, DeliveriesTyped', AnswerIsTrue',
         \A i \in Events!Ids : deliveries'[i].status = "success" => i \in inbox \union dead,
         UNCHANGED <<log, tech, inbox, failures, dead, outbox, proj, hub>>
  PROVE  EventInv'
BY DEF EventInv, SwitchTyped, IntakeTyped, Events!AckMeansStored, OutboxIsStored,
       Events!HubHearsStored, RowIsGravest, Speaks

LEMMA ElapseStep ==
  ASSUME EventInv, NEW i \in Events!Ids, Events!Elapse(i)
  PROVE  EventInv'
<1>1. /\ deliveries[i].status = "pending"
      /\ deliveries' = [deliveries EXCEPT ![i] = [deliveries[i] EXCEPT !.due = TRUE]]
      /\ UNCHANGED <<log, tech, batch, post, inbox, failures, dead, outbox, proj, hub, faults>>
  BY DEF Events!Elapse, Events!intakeVars
<1>2. deliveries \in [Events!Ids -> DeliveryRow]
  BY DEF EventInv, DeliveriesTyped
<1> DEFINE w == [deliveries[i] EXCEPT !.due = TRUE]
<1>3. w \in DeliveryRow /\ w.status = deliveries[i].status /\ w.attempts = deliveries[i].attempts
  BY <1>2 DEF DeliveryRow
<1> HIDE DEF w
<1>4. /\ deliveries' \in [Events!Ids -> DeliveryRow]
      /\ \A j \in Events!Ids : /\ deliveries'[j].status = deliveries[j].status
                               /\ deliveries'[j].attempts = deliveries[j].attempts
  BY <1>1, <1>2, <1>3 DEF w
<1>5. DeliveriesTyped' /\ AnswerIsTrue'
  BY <1>1, <1>4 DEF EventInv, DeliveriesTyped, AnswerIsTrue
<1>. QED BY <1>1, <1>4, <1>5, DispatcherStep DEF EventInv, Events!AckMeansStored

LEMMA FlushStep ==
  ASSUME EventInv, Events!Flush
  PROVE  EventInv'
<1>1. /\ batch' = Events!Due /\ batch' # {} /\ post = "none"
      /\ UNCHANGED <<log, tech, deliveries, post, inbox, failures, dead, outbox, proj, hub, faults>>
  BY DEF Events!Flush, Events!intakeVars
<1>2. DeliveriesTyped'
  BY <1>1 DEF EventInv, DeliveriesTyped, Events!Due
<1>3. AnswerIsTrue'
  BY <1>1 DEF AnswerIsTrue
<1>. QED BY <1>1, <1>2, <1>3, DispatcherStep DEF EventInv, Events!AckMeansStored

\* The outcome of a post is written to the row of its delivery.
LEMMA RecordStep ==
  ASSUME EventInv, Events!Record
  PROVE  EventInv'
<1> DEFINE i == Events!Min(batch)
           w == IF post = "accepted" THEN [deliveries[i] EXCEPT !.status = "success"]
                                     ELSE Events!Postponed(deliveries[i])
<1>1. /\ post # "none" /\ batch' = batch \ {i} /\ post' = "none"
      /\ deliveries' = [deliveries EXCEPT ![i] = w]
      /\ UNCHANGED <<log, tech, inbox, failures, dead, outbox, proj, hub, faults>>
  BY DEF Events!Record, Events!intakeVars
<1>2. i \in batch /\ i \in Events!Ids
  BY <1>1, FirstOfBatch DEF EventInv, DeliveriesTyped
<1>3. /\ deliveries \in [Events!Ids -> DeliveryRow] /\ deliveries[i] \in DeliveryRow
      /\ deliveries[i].status = "pending" /\ deliveries[i].attempts < MaxAttempts
      /\ deliveries[i].attempts \in 0 .. MaxAttempts /\ MaxAttempts \in Nat
  BY <1>2, ServicesAssumption DEF EventInv, DeliveriesTyped, DeliveryRow
<1>4. /\ w \in DeliveryRow
      /\ w.status = "success" => post = "accepted"
      /\ w.status = "pending" => w.attempts < MaxAttempts
      /\ w.status # "none"
  <2>1. CASE post = "accepted"
    BY <1>3, <2>1 DEF DeliveryRow
  <2>2. CASE post # "accepted"
    <3>1. /\ w.status = (IF deliveries[i].attempts + 1 >= MaxAttempts THEN "failed" ELSE "pending")
          /\ w.attempts = deliveries[i].attempts + 1 /\ w.due = FALSE
          /\ w = [status |-> w.status, attempts |-> w.attempts, due |-> FALSE]
      BY <2>2 DEF Events!Postponed
    <3>2. w.attempts \in 0 .. MaxAttempts /\ w.status \in {"failed", "pending"}
      BY <1>3, <3>1
    <3>3. w.status = "pending" => w.attempts < MaxAttempts
      BY <1>3, <3>1
    <3> HIDE DEF w
    <3>4. w \in DeliveryRow
      BY <3>1, <3>2 DEF DeliveryRow
    <3>. QED BY <3>2, <3>3, <3>4
  <2>. QED BY <2>1, <2>2
<1> HIDE DEF i, w
<1>5. /\ deliveries' \in [Events!Ids -> DeliveryRow] /\ deliveries'[i] = w
      /\ \A j \in Events!Ids : j # i => deliveries'[j] = deliveries[j]
  BY <1>1, <1>2, <1>3, <1>4
<1>6. DeliveriesTyped'
  <2>1. \A j \in Events!Ids : deliveries'[j].status \in {"none", "pending"} => deliveries'[j].attempts < MaxAttempts
    BY <1>4, <1>5 DEF EventInv, DeliveriesTyped
  <2>2. \A j \in Events!Ids : deliveries'[j].status = "pending" => j <= Len(log)
    BY <1>2, <1>3, <1>5 DEF EventInv, DeliveriesTyped
  <2>3. batch' \subseteq Events!Ids /\ \A j \in batch' : deliveries'[j].status = "pending"
    BY <1>1, <1>5 DEF EventInv, DeliveriesTyped
  <2>. QED BY <1>1, <1>5, <2>1, <2>2, <2>3 DEF DeliveriesTyped
<1>7. AnswerIsTrue'
  BY <1>1 DEF AnswerIsTrue
<1>8. \A j \in Events!Ids : deliveries'[j].status = "success" => j \in inbox \union dead
  <2>1. post = "accepted" => i \in inbox \union dead
    BY DEF EventInv, AnswerIsTrue, i
  <2>. QED BY <1>4, <1>5, <2>1 DEF EventInv, Events!AckMeansStored
<1>. QED BY <1>1, <1>6, <1>7, <1>8, DispatcherStep

\* The switch dies.
LEMMA CrashStep ==
  ASSUME EventInv, Events!Crash
  PROVE  EventInv'
<1>1. /\ batch' = {} /\ post' = "none"
      /\ UNCHANGED <<log, tech, deliveries, inbox, failures, dead, outbox, proj, hub>>
  BY DEF Events!Crash, Events!intakeVars
<1>2. DeliveriesTyped' /\ AnswerIsTrue'
  BY <1>1 DEF EventInv, DeliveriesTyped, AnswerIsTrue
<1>. QED BY <1>1, <1>2, DispatcherStep DEF EventInv, Events!AckMeansStored

\* What an event makes of the row it is projected into.
LEMMA Projected ==
  ASSUME NEW r \in ProjectedRow, NEW e \in EventRow, e.type = "rec" => e.data >= 1,
         e.type = "cdr" => e.data <= 2
  PROVE  /\ Events!Project(r, e) \in ProjectedRow
         /\ e.type # "rec" => Events!Project(r, e).rec = r.rec
         /\ e.type = "rec" => /\ Events!Project(r, e).rec \in {r.rec, e.data}
                              /\ Events!Project(r, e).rec >= r.rec
                              /\ Events!Project(r, e).rec >= e.data
<1>1. r.rec \in 0 .. 3 /\ e.data \in 0 .. 3 /\ e.version = 0
  BY DEF ProjectedRow, EventRow
<1>2. CASE e.type = "cdr"
  <2>1. Events!Project(r, e) = Events!UpsertRecord(r, e)
    BY <1>2 DEF Events!Project
  <2>2. [r EXCEPT !.cdr = e.data, !.version = e.version] \in ProjectedRow
    <3>1. e.data \in 0 .. 2 /\ e.version \in {0}
      BY <1>1, <1>2
    <3>. QED BY <3>1 DEF ProjectedRow
  <2>3. [r EXCEPT !.cdr = e.data, !.version = e.version].rec = r.rec
    BY DEF ProjectedRow
  <2>. QED BY <1>2, <2>1, <2>2, <2>3 DEF Events!UpsertRecord
<1>3. CASE e.type = "rec"
  <2> DEFINE m == Events!Merge(r.rec, e.data)
  <2>1. Events!Project(r, e) = [r EXCEPT !.rec = m]
    BY <1>3 DEF Events!Project, Events!SaveMeta
  <2>2. m \in {r.rec, e.data} /\ m >= r.rec /\ m >= e.data
    BY <1>1, <1>3, MergeIsGraver
  <2> HIDE DEF m
  <2>3. [r EXCEPT !.rec = m] \in ProjectedRow /\ [r EXCEPT !.rec = m].rec = m
    BY <1>1, <2>2 DEF ProjectedRow
  <2>. QED BY <1>3, <2>1, <2>2, <2>3
<1>4. CASE e.type \notin {"cdr", "rec"}
  BY <1>4 DEF Events!Project
<1>. QED BY <1>2, <1>3, <1>4

\* The transaction of open-call: the inbox, the row of the projection and the outbox.
LEMMA CommitStep ==
  ASSUME EventInv, NEW i \in Events!Ids, i <= Len(log), i \notin inbox, Events!Commit(i),
         UNCHANGED <<log, hub>>
  PROVE  /\ IntakeTyped' \/ ~(dead' = dead)
         /\ OutboxIsStored' /\ Events!HubHearsStored' /\ RowIsGravest'
         /\ inbox' = inbox \union {i}
<1> DEFINE e == log[i]
           p == Events!Project(proj[e.call], e)
<1>1. /\ inbox' = inbox \union {i} /\ proj' = [proj EXCEPT ![e.call] = p]
      /\ outbox' = [outbox EXCEPT ![i] = "waiting"]
  BY DEF Events!Commit
<1>2. i \in 1 .. Len(log) /\ e \in EventRow /\ (e.type = "rec" => e.data >= 1)
      /\ (e.type = "cdr" => e.data <= 2)
  BY DEF EventInv, SwitchTyped, Events!Ids
<1>3. e.call \in EvCalls /\ proj \in [EvCalls -> ProjectedRow] /\ proj[e.call] \in ProjectedRow
      /\ e.data \in 0 .. 3
  BY <1>2 DEF EventInv, IntakeTyped, EventRow
<1>4. /\ p \in ProjectedRow
      /\ e.type # "rec" => p.rec = proj[e.call].rec
      /\ e.type = "rec" => p.rec \in {proj[e.call].rec, e.data} /\ p.rec >= proj[e.call].rec
                                                                /\ p.rec >= e.data
  BY <1>2, <1>3, Projected
<1> HIDE DEF p
<1>5. /\ proj' \in [EvCalls -> ProjectedRow] /\ proj'[e.call] = p
      /\ \A c \in EvCalls : c # e.call => proj'[c] = proj[c]
      /\ outbox' \in [Events!Ids -> {"none", "waiting", "delivered"}] /\ outbox'[i] = "waiting"
      /\ \A j \in Events!Ids : j # i => outbox'[j] = outbox[j]
  BY <1>1, <1>3, <1>4 DEF EventInv, IntakeTyped
<1>6. dead' = dead => IntakeTyped'
  BY <1>1, <1>5 DEF EventInv, IntakeTyped
<1>7. OutboxIsStored' /\ Events!HubHearsStored'
  BY <1>1, <1>5 DEF EventInv, OutboxIsStored, Events!HubHearsStored, IntakeTyped
<1>8. RowIsGravest'
  <2> SUFFICES ASSUME NEW c \in EvCalls
               PROVE  /\ proj'[c].rec = 0 \/ \E j \in inbox' : Speaks(j, c) /\ log[j].data = proj'[c].rec
                      /\ \A j \in inbox' : Speaks(j, c) => log[j].data <= proj'[c].rec
    BY DEF RowIsGravest, Speaks
  <2>1. /\ proj[c].rec = 0 \/ \E j \in inbox : Speaks(j, c) /\ log[j].data = proj[c].rec
        /\ \A j \in inbox : Speaks(j, c) => log[j].data <= proj[c].rec
    BY DEF EventInv, RowIsGravest
  <2>2. CASE Speaks(i, c)
    <3>1. c = e.call /\ e.type = "rec" /\ proj'[c] = p
      BY <1>5, <2>2 DEF Speaks
    <3>2. p.rec \in {proj[c].rec, e.data} /\ p.rec >= proj[c].rec /\ p.rec >= e.data
      BY <1>4, <3>1
    <3>3. p.rec \in 0 .. 3 /\ proj[c].rec \in 0 .. 3
      BY <1>3, <1>4, <3>1 DEF ProjectedRow
    <3>4. \A j \in inbox : Speaks(j, c) => log[j].data \in 0 .. 3
      <4>1. \A j \in inbox : j \in 1 .. Len(log)
        BY DEF EventInv, IntakeTyped, SwitchTyped, Events!Ids
      <4>. QED BY <4>1, Stored DEF EventInv
    <3>5. proj'[c].rec = 0 \/ \E j \in inbox' : Speaks(j, c) /\ log[j].data = proj'[c].rec
      BY <1>1, <2>1, <2>2, <3>1, <3>2
    <3>6. \A j \in inbox' : Speaks(j, c) => log[j].data <= proj'[c].rec
      <4> SUFFICES ASSUME NEW j \in inbox', Speaks(j, c) PROVE log[j].data <= p.rec
        BY <3>1
      <4>1. CASE j = i
        BY <1>3, <3>2, <3>3, <4>1
      <4>2. CASE j # i
        <5>1. j \in inbox /\ log[j].data <= proj[c].rec /\ log[j].data \in 0 .. 3
          BY <1>1, <2>1, <3>4, <4>2
        <5>. QED BY <3>2, <3>3, <5>1
      <4>. QED BY <4>1, <4>2
    <3>. QED BY <3>5, <3>6
  <2>3. CASE ~Speaks(i, c)
    <3>1. proj'[c].rec = proj[c].rec
      BY <1>4, <1>5, <2>3 DEF Speaks
    <3>. QED BY <1>1, <2>1, <2>3, <3>1
  <2>. QED BY <2>2, <2>3
<1>. QED BY <1>1, <1>6, <1>7, <1>8

\* A post, as open-call takes it and as it is answered.
LEMMA DeliverStep ==
  ASSUME EventInv, Events!Deliver
  PROVE  EventInv'
<1> DEFINE i == Events!Min(batch)
<1>1. /\ batch # {} /\ post = "none" /\ UNCHANGED <<log, deliveries, batch, faults>>
      /\ Events!Skip(i) \/ Events!Store(i) \/ Events!Refuse(i) \/ Events!Unreachable
  BY DEF Events!Deliver
<1>2. i \in batch /\ i \in Events!Ids /\ i <= Len(log)
  BY <1>1, FirstOfBatch DEF EventInv, DeliveriesTyped
<1> HIDE DEF i
<1>3. /\ tech' \in [EvCalls -> TechRow]
      /\ post' \in {"accepted", "error", "lost"}
  <2>1. i \in 1 .. Len(log) /\ log[i] \in EventRow /\ log[i].call \in EvCalls
    <3>1. i \in 1 .. Len(log)
      BY <1>2 DEF EventInv, SwitchTyped, Events!Ids
    <3>. QED BY <3>1, Stored DEF EventInv
  <2>2. tech \in [EvCalls -> TechRow] /\ tech[log[i].call] \in TechRow
    BY <2>1 DEF EventInv, SwitchTyped
  <2>3. \A x \in {"none", "pending", "completed", "expired"} :
          [tech[log[i].call] EXCEPT !.action = x] \in TechRow
    BY <2>2 DEF TechRow
  <2>4. Events!Handled(i) => tech' \in [EvCalls -> TechRow]
    <3> SUFFICES ASSUME Events!Handled(i) PROVE tech' \in [EvCalls -> TechRow]
      OBVIOUS
    <3>1. PICK x \in {"none", "pending", "completed", "expired"} :
            tech' = [tech EXCEPT ![log[i].call] = [tech[log[i].call] EXCEPT !.action = x]]
      BY <2>2 DEF Events!Handled, TechRow
    <3>. QED BY <2>2, <2>3, <3>1
  <2>. QED BY <1>1, <2>2, <2>4 DEF Events!Skip, Events!Store, Events!Refuse, Events!Unreachable,
                Events!Answer
<1>4. SwitchTyped'
  BY <1>1, <1>3 DEF EventInv, SwitchTyped
<1>5. DeliveriesTyped'
  BY <1>1, <1>3 DEF EventInv, DeliveriesTyped
<1>6. ASSUME UNCHANGED <<inbox, dead, outbox, proj, hub>>, post' = "accepted" => i \in inbox \union dead
      PROVE  EventInv'
  <2>1. AnswerIsTrue'
    BY <1>1, <1>6 DEF AnswerIsTrue, i
  <2>. QED BY <1>1, <1>4, <1>5, <1>6, <2>1
           DEF EventInv, IntakeTyped, Events!AckMeansStored, OutboxIsStored,
               Events!HubHearsStored, RowIsGravest, Speaks
<1>7. CASE Events!Skip(i)
  BY <1>6, <1>7 DEF Events!Skip, Events!intakeVars
<1>8. CASE Events!Unreachable
  BY <1>6, <1>8 DEF Events!Unreachable, Events!intakeVars
<1>9. CASE Events!Store(i)
  <2>1. i \notin dead /\ Events!Commit(i) /\ UNCHANGED <<dead, hub>>
    BY <1>9 DEF Events!Store
  <2>2. CASE i \in inbox
    BY <1>6, <2>1, <2>2 DEF Events!Commit
  <2>3. CASE i \notin inbox
    <3>1. /\ IntakeTyped' /\ OutboxIsStored' /\ Events!HubHearsStored' /\ RowIsGravest'
          /\ inbox' = inbox \union {i}
      BY <1>1, <1>2, <2>1, <2>3, CommitStep
    <3>2. AnswerIsTrue'
      BY <1>1, <3>1 DEF AnswerIsTrue, i
    <3>3. Events!AckMeansStored'
      BY <1>1, <2>1, <3>1 DEF EventInv, Events!AckMeansStored
    <3>. QED BY <1>4, <1>5, <3>1, <3>2, <3>3 DEF EventInv
  <2>. QED BY <2>2, <2>3
<1>10. CASE Events!Refuse(i)
  <2>1. /\ i \notin inbox /\ dead' \in {dead, dead \union {i}}
        /\ post' = "accepted" => i \in dead'
        /\ UNCHANGED <<inbox, outbox, proj, hub>>
    BY <1>10 DEF Events!Refuse, Events!Answer
  <2>2. IntakeTyped'
    BY <1>1, <1>2, <2>1 DEF EventInv, IntakeTyped
  <2>3. AnswerIsTrue'
    BY <1>1, <2>1 DEF AnswerIsTrue, i
  <2>4. Events!AckMeansStored'
    BY <1>1, <2>1 DEF EventInv, Events!AckMeansStored
  <2>5. OutboxIsStored' /\ Events!HubHearsStored' /\ RowIsGravest'
    BY <1>1, <2>1 DEF EventInv, OutboxIsStored, Events!HubHearsStored, RowIsGravest, Speaks
  <2>. QED BY <1>4, <1>5, <2>2, <2>3, <2>4, <2>5 DEF EventInv
<1>. QED BY <1>1, <1>7, <1>8, <1>9, <1>10

\* The loop of the outbox, whether its transaction is committed or not.
LEMMA OutboxStep ==
  ASSUME EventInv, Events!DeliverOutbox \/ Events!OutboxFails
  PROVE  EventInv'
<1>1. UNCHANGED <<log, tech, deliveries, batch, post, inbox, failures, dead, proj>>
  BY DEF Events!DeliverOutbox, Events!OutboxFails
<1>2. Events!Waiting \subseteq inbox /\ Events!Waiting \subseteq Events!Ids
  BY DEF EventInv, OutboxIsStored, Events!Waiting
<1>3. hub' \subseteq inbox /\ hub \subseteq hub' /\ hub' \subseteq Events!Ids
  BY <1>2 DEF EventInv, IntakeTyped, Events!HubHearsStored, Events!DeliverOutbox, Events!OutboxFails
<1>4. /\ outbox' \in [Events!Ids -> {"none", "waiting", "delivered"}]
      /\ \A j \in Events!Ids : outbox'[j] = outbox[j] \/ (outbox'[j] = "delivered" /\ j \in hub')
  <2>1. CASE Events!OutboxFails
    BY <2>1 DEF EventInv, IntakeTyped, Events!OutboxFails
  <2>2. CASE Events!DeliverOutbox
    BY <2>2 DEF EventInv, IntakeTyped, Events!DeliverOutbox
  <2>. QED BY <2>1, <2>2
<1>5. SwitchTyped' /\ DeliveriesTyped' /\ AnswerIsTrue' /\ Events!AckMeansStored' /\ RowIsGravest'
  BY <1>1 DEF EventInv, SwitchTyped, DeliveriesTyped, AnswerIsTrue, Events!AckMeansStored,
              RowIsGravest, Speaks
<1>6. IntakeTyped'
  BY <1>1, <1>3, <1>4 DEF EventInv, IntakeTyped
<1>7. OutboxIsStored' /\ Events!HubHearsStored'
  BY <1>1, <1>3, <1>4 DEF EventInv, OutboxIsStored, Events!HubHearsStored, IntakeTyped
<1>. QED BY <1>5, <1>6, <1>7 DEF EventInv

LEMMA EventInductive == EventInv /\ [Events!Next]_eventVars => EventInv'
<1> SUFFICES ASSUME EventInv, [Events!Next]_eventVars PROVE EventInv'
  OBVIOUS
<1>1. CASE UNCHANGED eventVars
  BY <1>1 DEF eventVars, EventInv, SwitchTyped, DeliveriesTyped, IntakeTyped, AnswerIsTrue,
              Events!AckMeansStored, OutboxIsStored, Events!HubHearsStored, RowIsGravest, Speaks
<1>2. CASE Events!Next
  BY <1>2, PublishStep, ElapseStep, FlushStep, DeliverStep, RecordStep, OutboxStep, CrashStep
     DEF Events!Next
<1>. QED BY <1>1, <1>2

\* The greatest of the events is the value of the row.
LEMMA GravestHolds == EventInv => Events!RecordingIsGravest
<1> SUFFICES ASSUME EventInv, NEW c \in EvCalls
             PROVE  proj[c].rec = Events!Max({0} \union {log[i].data : i \in {j \in inbox : log[j].type = "rec" /\ log[j].call = c}})
  BY DEF Events!RecordingIsGravest
<1> DEFINE S == {0} \union {log[i].data : i \in {j \in inbox : log[j].type = "rec" /\ log[j].call = c}}
<1>1. proj[c].rec \in 0 .. 3
  BY DEF EventInv, IntakeTyped, ProjectedRow
<1>2. proj[c].rec \in S
  BY DEF EventInv, RowIsGravest, Speaks
<1>3. \A y \in S : proj[c].rec >= y
  <2> SUFFICES ASSUME NEW y \in S PROVE proj[c].rec >= y
    OBVIOUS
  <2>1. CASE y = 0
    BY <1>1, <2>1
  <2>2. CASE y # 0
    <3>1. PICK i \in inbox : Speaks(i, c) /\ y = log[i].data
      BY <2>2 DEF Speaks
    <3>2. y <= proj[c].rec
      BY <3>1 DEF EventInv, RowIsGravest
    <3>3. log[i].data \in 0 .. 3
      <4>1. i \in 1 .. Len(log)
        BY DEF EventInv, IntakeTyped, SwitchTyped, Events!Ids
      <4>. QED BY <4>1, Stored DEF EventInv
    <3>. QED BY <1>1, <3>1, <3>2, <3>3
  <2>. QED BY <2>1, <2>2
<1>4. \A x \in S : x \in Int
  <2>1. \A i \in inbox : log[i].data \in 0 .. 3
    <3>1. \A i \in inbox : i \in 1 .. Len(log)
      BY DEF EventInv, IntakeTyped, SwitchTyped, Events!Ids
    <3>. QED BY <3>1, Stored DEF EventInv
  <2>. QED BY <2>1
<1> HIDE DEF S
<1>5. \A x \in S : (\A y \in S : x >= y) => x = proj[c].rec
  BY <1>1, <1>2, <1>3, <1>4
<1>6. Events!Max(S) \in S /\ \A y \in S : Events!Max(S) >= y
  BY <1>2, <1>3 DEF Events!Max
<1>. QED BY <1>5, <1>6 DEF S

\* The types that TLC checks.
LEMMA EventsTyped == EventInv => Events!TypeOK
<1> SUFFICES ASSUME EventInv PROVE Events!TypeOK
  OBVIOUS
<1>1. \A i \in DOMAIN log : log[i] \in Events!Event
  BY Stored DEF EventInv, EventRow, Events!Event
<1>2. tech \in [EvCalls -> [cdr: Events!Cdr, rec: Events!Rec, action: {"none", "pending", "completed", "expired"}]]
  BY DEF EventInv, SwitchTyped, TechRow, Events!Cdr, Events!Rec
<1>3. \A i \in Events!Ids : deliveries[i].attempts \in 0 .. MaxAttempts
  BY DEF EventInv, DeliveriesTyped, DeliveryRow
<1>4. proj \in [EvCalls -> [cdr: Events!Cdr, version: {0}, rec: Events!Rec]]
  BY DEF EventInv, IntakeTyped, ProjectedRow, Events!Cdr, Events!Rec
<1>. QED BY <1>1, <1>2, <1>3, <1>4 DEF EventInv, DeliveriesTyped, IntakeTyped, Events!TypeOK

-------------------------------------------------------------------------------
(* The flow.  It is on in the state "ivr" only, and where it waits for an      *)
(* action that action is pending.                                              *)

Wherever == FlowNodes \union {Nowhere}

NodeTypes == {"play", "menu", "action", "condition", "route_queue", "collect", "voicemail", "tts"}

FlowNode == [type: NodeTypes, next: Wherever, default: Wherever, invalid: Wherever,
             choices: SUBSET FlowNodes]

\* The nodes of the flow lead to nodes of the flow.
LEMMA FlowLeads ==
  /\ Engine!Nodes = FlowNodes /\ Start \in FlowNodes
  /\ \A n \in FlowNodes :
       /\ Flow[n].next \in Wherever /\ Flow[n].default \in Wherever /\ Flow[n].invalid \in Wherever
       /\ Flow[n].choices \subseteq FlowNodes
<1>1. \A n \in FlowNodes : Flow[n] \in FlowNode
  <2> SUFFICES ASSUME NEW n \in FlowNodes PROVE Flow[n] \in FlowNode
    OBVIOUS
  <2>1. \A type \in NodeTypes, a, b, c \in Wherever, S \in SUBSET FlowNodes : N(type, a, b, c, S) \in FlowNode
    BY DEF N, FlowNode
  <2>2. FlowNodes \subseteq Wherever /\ Nowhere \in Wherever
    BY DEF Wherever
  <2>3. /\ n1 \in FlowNodes /\ n2 \in FlowNodes /\ n3 \in FlowNodes /\ n4 \in FlowNodes
        /\ n5 \in FlowNodes /\ n6 \in FlowNodes /\ n7 \in FlowNodes /\ n8 \in FlowNodes
    BY DEF FlowNodes
  <2>4. /\ N("play", n2, Nowhere, Nowhere, {}) \in FlowNode
        /\ N("menu", Nowhere, n1, n5, {n3, n6}) \in FlowNode
        /\ N("action", Nowhere, n4, Nowhere, {n2, n4}) \in FlowNode
        /\ N("condition", Nowhere, Nowhere, Nowhere, {n5, n7}) \in FlowNode
    <3>1. {n3, n6} \subseteq FlowNodes /\ {n2, n4} \subseteq FlowNodes /\ {n5, n7} \subseteq FlowNodes
      BY <2>3
    <3>2. N("play", n2, Nowhere, Nowhere, {}) \in FlowNode
      BY <2>1, <2>2, <2>3, <3>1 DEF NodeTypes
    <3>3. N("menu", Nowhere, n1, n5, {n3, n6}) \in FlowNode
      BY <2>1, <2>2, <2>3, <3>1 DEF NodeTypes
    <3>4. N("action", Nowhere, n4, Nowhere, {n2, n4}) \in FlowNode
      BY <2>1, <2>2, <2>3, <3>1 DEF NodeTypes
    <3>5. N("condition", Nowhere, Nowhere, Nowhere, {n5, n7}) \in FlowNode
      BY <2>1, <2>2, <2>3, <3>1 DEF NodeTypes
    <3>. QED BY <3>2, <3>3, <3>4, <3>5
  <2>5. /\ N("route_queue", Nowhere, Nowhere, Nowhere, {}) \in FlowNode
        /\ N("collect", n8, n2, Nowhere, {}) \in FlowNode
        /\ N("voicemail", Nowhere, Nowhere, Nowhere, {}) \in FlowNode
        /\ N("tts", Nowhere, n4, Nowhere, {}) \in FlowNode
    <3>1. N("route_queue", Nowhere, Nowhere, Nowhere, {}) \in FlowNode
      BY <2>1, <2>2, <2>3 DEF NodeTypes
    <3>2. N("collect", n8, n2, Nowhere, {}) \in FlowNode
      BY <2>1, <2>2, <2>3 DEF NodeTypes
    <3>3. N("voicemail", Nowhere, Nowhere, Nowhere, {}) \in FlowNode
      BY <2>1, <2>2, <2>3 DEF NodeTypes
    <3>4. N("tts", Nowhere, n4, Nowhere, {}) \in FlowNode
      BY <2>1, <2>2, <2>3 DEF NodeTypes
    <3>. QED BY <3>1, <3>2, <3>3, <3>4
  <2>6. n = n1 \/ n = n2 \/ n = n3 \/ n = n4 \/ n = n5 \/ n = n6 \/ n = n7 \/ n = n8
    BY DEF FlowNodes
  <2>. QED BY <2>4, <2>5, <2>6 DEF Flow
<1>2. Engine!Nodes = FlowNodes /\ Start \in FlowNodes
  BY DEF Engine!Nodes, Flow, Start, FlowNodes
<1>. QED BY <1>1, <1>2 DEF FlowNode

IvrRow == [node: Wherever, hops: 0 .. MaxHops, tries: 0 .. MaxTries + 1, action: Nat, awaiting: BOOLEAN]

ActionStates == {"pending", "completed", "expired"}

EngineTyped ==
  /\ state \in {"created", "ivr", "queued", "active", "ended"}
  /\ ivr \in IvrRow /\ (ivr = Engine!Off \/ ivr.node \in FlowNodes)
  /\ running \in BOOLEAN /\ playing \in BOOLEAN /\ recorder \in BOOLEAN
  /\ actions \in Seq(ActionStates) /\ ivr.action \in 0 .. Len(actions)
  /\ finished \in Wherever

FlowIsOn ==
  /\ ivr # Engine!Off => state = "ivr"
  /\ running => ivr # Engine!Off

ActionWaits ==
  ivr # Engine!Off /\ ~running /\ ~ivr.awaiting /\ Flow[ivr.node].type = "action" =>
    ivr.action \in 1 .. Len(actions) /\ actions[ivr.action] = "pending"

EngineInv == EngineTyped /\ FlowIsOn /\ ActionWaits /\ Engine!Valid

\* What a step may do: jump inside of the flow, and take a result once.
JumpsInside == path' # path => state = "ivr"

ResultOnce ==
  \A a \in DOMAIN actions :
    /\ actions[a] # "pending" => actions'[a] = actions[a]
    /\ actions[a] = "pending" /\ actions'[a] = "completed" =>
         ivr' # ivr /\ (state' = "ended" \/ path' \in {<<ivr.node, n>> : n \in Engine!Node.choices})

EngineKept == EngineInv' /\ JumpsInside /\ ResultOnce

LEMMA OffIsRow == Engine!Off \in IvrRow /\ Engine!Off.action = 0 /\ ~Engine!Off.awaiting
                  /\ Engine!Off.node = Nowhere /\ Engine!Off.hops = 0 /\ Engine!Off.tries = 0
<1>1. 0 \in 0 .. MaxHops /\ 0 \in 0 .. MaxTries + 1
  BY ServicesAssumption
<1>. QED BY <1>1 DEF Engine!Off, IvrRow, Wherever

\* A flow at a node.
OnNode(r, n, h, b) ==
  r \in IvrRow /\ r # Engine!Off /\ r.node = n /\ r.hops = h /\ r.action = 0 /\ r.awaiting = b

LEMMA AtNode ==
  ASSUME NEW n \in FlowNodes, NEW h \in 0 .. MaxHops, NEW b \in BOOLEAN
  PROVE  /\ OnNode([Engine!Off EXCEPT !.node = n, !.hops = h], n, h, FALSE)
         /\ OnNode([Engine!Off EXCEPT !.node = n, !.awaiting = b], n, 0, b)
         /\ OnNode([Engine!Off EXCEPT !.node = n], n, 0, FALSE)
<1>1. n # Nowhere /\ n \in Wherever
  BY ServicesAssumption DEF Wherever
<1> DEFINE off == Engine!Off
<1>2. off \in IvrRow /\ off.node # n /\ off.action = 0 /\ ~off.awaiting /\ off.hops = 0
  BY <1>1, OffIsRow
<1> HIDE DEF off
<1>3. OnNode([off EXCEPT !.node = n, !.hops = h], n, h, FALSE)
  BY <1>1, <1>2 DEF OnNode, IvrRow, off
<1>4. OnNode([off EXCEPT !.node = n, !.awaiting = b], n, 0, b)
  BY <1>1, <1>2 DEF OnNode, IvrRow, off
<1>5. OnNode([off EXCEPT !.node = n], n, 0, FALSE)
  BY <1>1, <1>2 DEF OnNode, IvrRow, off
<1>. QED BY <1>3, <1>4, <1>5 DEF off

LEMMA EngineInitInv == Engine!Init => EngineInv
<1> SUFFICES ASSUME Engine!Init PROVE EngineInv
  OBVIOUS
<1> USE DEF Engine!Init
<1>1. EngineTyped
  <2>1. actions \in Seq(ActionStates) /\ Len(actions) = 0
    OBVIOUS
  <2>2. ivr \in IvrRow /\ ivr = Engine!Off /\ ivr.action \in 0 .. Len(actions)
    BY <2>1, OffIsRow
  <2>. QED BY <2>1, <2>2 DEF EngineTyped, Wherever
<1>2. FlowIsOn /\ ActionWaits
  BY DEF FlowIsOn, ActionWaits
<1>. QED BY <1>1, <1>2 DEF EngineInv

\* The call leaves its flow.
LEMMA QuitStep ==
  ASSUME EngineInv, NEW s \in {"ended", "queued"}, Engine!Quit(s), recorder' \in BOOLEAN,
         actions' \in Seq(ActionStates), finished' \in Wherever, UNCHANGED path
  PROVE  EngineInv' /\ JumpsInside
<1>1. state' = s /\ ivr' = Engine!Off /\ running' = FALSE /\ playing' = FALSE
  BY DEF Engine!Quit
<1>2. EngineTyped'
  <2>1. ivr' \in IvrRow /\ ivr' = Engine!Off /\ ivr'.action = 0 /\ Len(actions') \in Nat
    BY <1>1, OffIsRow
  <2>2. ivr'.action \in 0 .. Len(actions')
    BY <2>1
  <2>. QED BY <1>1, <2>1, <2>2 DEF EngineTyped
<1>3. FlowIsOn' /\ ActionWaits'
  BY <1>1 DEF FlowIsOn, ActionWaits
<1>. QED BY <1>2, <1>3 DEF EngineInv, JumpsInside

\* The call goes on to another node of it, or has made too many jumps.
LEMMA GotoStep ==
  ASSUME EngineInv, ivr # Engine!Off, NEW n \in FlowNodes, Engine!Goto(n),
         actions' \in Seq(ActionStates), finished' \in Wherever
  PROVE  /\ EngineInv' /\ JumpsInside /\ ivr' # ivr
         /\ state' = "ended" \/ path' = <<ivr.node, n>>
<1>1. ivr \in IvrRow /\ state = "ivr" /\ ivr.hops \in 0 .. MaxHops /\ MaxHops \in Nat
  BY ServicesAssumption DEF EngineInv, EngineTyped, FlowIsOn, IvrRow
<1>2. CASE ivr.hops + 1 > MaxHops
  <2>1. Engine!Quit("ended") /\ recorder' = FALSE /\ UNCHANGED path
    BY <1>2 DEF Engine!Goto
  <2>2. state' = "ended" /\ ivr' = Engine!Off
    BY <2>1 DEF Engine!Quit
  <2>. QED BY <2>1, <2>2, QuitStep
<1>3. CASE ~(ivr.hops + 1 > MaxHops)
  <2>1. /\ ivr' = [Engine!Off EXCEPT !.node = n, !.hops = ivr.hops + 1]
        /\ running' = TRUE /\ playing' = FALSE /\ path' = <<ivr.node, n>>
        /\ UNCHANGED <<state, recorder>>
    BY <1>3, Zenon DEF Engine!Goto
  <2>2. ivr.hops + 1 \in 0 .. MaxHops
    BY <1>1, <1>3
  <2>3. OnNode(ivr', n, ivr.hops + 1, FALSE)
    BY <2>1, <2>2, AtNode
  <2>4. /\ ivr' \in IvrRow /\ ivr' # Engine!Off /\ ivr'.node = n /\ ivr'.hops = ivr.hops + 1
        /\ ivr'.action = 0
    BY <2>3 DEF OnNode
  <2>5. EngineTyped'
    <3>1. Len(actions') \in Nat
      OBVIOUS
    <3>2. ivr'.action \in 0 .. Len(actions')
      BY <2>4, <3>1
    <3>3. state' = "ivr" /\ recorder' \in BOOLEAN
      BY <1>1, <2>1 DEF EngineInv, EngineTyped
    <3>. QED BY <2>1, <2>4, <3>2, <3>3 DEF EngineTyped
  <2>6. FlowIsOn' /\ ActionWaits'
    BY <1>1, <2>1, <2>4 DEF FlowIsOn, ActionWaits
  <2>7. EngineInv' /\ JumpsInside
    BY <1>1, <2>5, <2>6 DEF EngineInv, JumpsInside
  <2>8. ivr' # ivr
    BY <1>1, <2>4
  <2>. QED BY <2>1, <2>7, <2>8
<1>. QED BY <1>2, <1>3

\* A result is taken by who changes the actions; the others leave them.
LEMMA SameActions == UNCHANGED actions => ResultOnce
BY DEF ResultOnce

\* A handler finds the flow on at a node of it.
LEMMA AtWork ==
  ASSUME EngineInv, ivr # Engine!Off
  PROVE  /\ state = "ivr" /\ ivr.node \in FlowNodes /\ Engine!Node = Flow[ivr.node]
         /\ Engine!WellFormed(ivr.node)
         /\ Engine!Node.next \in Wherever /\ Engine!Node.default \in Wherever
         /\ Engine!Node.invalid \in Wherever /\ Engine!Node.choices \subseteq FlowNodes
         /\ actions \in Seq(ActionStates) /\ finished \in Wherever /\ recorder \in BOOLEAN
<1>1. state = "ivr" /\ ivr.node \in FlowNodes
  BY DEF EngineInv, EngineTyped, FlowIsOn
<1>2. Engine!WellFormed(ivr.node)
  BY <1>1, FlowLeads DEF EngineInv, Engine!Valid
<1>. QED BY <1>1, <1>2, FlowLeads DEF Engine!Node, EngineInv, EngineTyped

LEMMA WhereverIsNode ==
  ASSUME NEW n \in Wherever, n # Nowhere
  PROVE  n \in FlowNodes
BY DEF Wherever

LEMMA HangUpStep ==
  ASSUME EngineInv, Engine!HangUp
  PROVE  EngineKept
<1>1. Engine!Quit("ended") /\ recorder' = FALSE /\ UNCHANGED <<actions, finished, path>>
  BY DEF Engine!HangUp
<1>2. actions' \in Seq(ActionStates) /\ finished' \in Wherever
  BY <1>1 DEF EngineInv, EngineTyped
<1>. QED BY <1>1, <1>2, QuitStep, SameActions DEF EngineKept

\* The handler that entered the node executes it.
LEMMA RunNodeStep ==
  ASSUME EngineInv, Engine!RunNode
  PROVE  EngineKept
<1>1. running /\ ivr # Engine!Off
  BY DEF Engine!RunNode, EngineInv, FlowIsOn
<1>2. /\ state = "ivr" /\ ivr.node \in FlowNodes /\ Engine!Node = Flow[ivr.node]
      /\ Engine!WellFormed(ivr.node)
      /\ Engine!Node.default \in Wherever /\ Engine!Node.choices \subseteq FlowNodes
      /\ actions \in Seq(ActionStates) /\ finished \in Wherever /\ recorder \in BOOLEAN
  BY <1>1, AtWork
<1>3. CASE Engine!HangUp
  BY <1>3, HangUpStep
<1>4. CASE Engine!EnterQueue
  <2>1. Engine!Quit("queued") /\ UNCHANGED <<actions, finished, recorder, path>>
    BY <1>4 DEF Engine!EnterQueue
  <2>. QED BY <1>2, <2>1, QuitStep, SameActions DEF EngineKept
<1>5. ASSUME running' = FALSE, playing' \in BOOLEAN, recorder' \in BOOLEAN, Engine!Node.type # "action",
             UNCHANGED <<state, ivr, actions, finished, path>>
      PROVE  EngineKept
  <2>1. EngineTyped' /\ FlowIsOn'
    BY <1>5 DEF EngineInv, EngineTyped, FlowIsOn
  <2>2. ActionWaits'
    BY <1>2, <1>5 DEF ActionWaits
  <2>. QED BY <1>5, <2>1, <2>2, SameActions DEF EngineKept, EngineInv, JumpsInside
<1>6. CASE Engine!PlayNode
  <2>1. CASE /\ running' = FALSE /\ playing' = (Engine!Node.type = "play")
             /\ UNCHANGED <<state, ivr, actions, finished, recorder, path>>
    BY <1>2, <1>5, <1>6, <2>1 DEF Engine!PlayNode
  <2>. QED BY <1>3, <1>6, <2>1 DEF Engine!PlayNode
<1>7. CASE Engine!VoicemailNode
  BY <1>5, <1>7 DEF Engine!VoicemailNode, EngineInv, EngineTyped
<1>8. CASE Engine!JumpNode
  <2>1. PICK n \in IF Engine!Node.type = "tts" THEN {Engine!Node.default} ELSE Engine!Node.choices : Engine!Goto(n)
    BY <1>8 DEF Engine!JumpNode
  <2>2. n \in FlowNodes
    BY <1>2, <2>1, WhereverIsNode DEF Engine!WellFormed
  <2>3. UNCHANGED <<actions, finished>>
    BY <1>8 DEF Engine!JumpNode
  <2>. QED BY <1>1, <1>2, <2>1, <2>2, <2>3, GotoStep, SameActions DEF EngineKept
<1>9. CASE /\ Engine!Node.type = "action"
           /\ actions' = Append(actions, "pending")
           /\ ivr' = [ivr EXCEPT !.action = Len(actions) + 1] /\ running' = FALSE
           /\ UNCHANGED <<state, playing, finished, recorder, path>>
  <2>1. ivr \in IvrRow
    BY DEF EngineInv, EngineTyped
  <2>2. /\ ivr' \in IvrRow /\ ivr'.node = ivr.node /\ ivr'.action = Len(actions) + 1
    BY <1>2, <1>9, <2>1 DEF IvrRow
  <2>3. /\ actions' \in Seq(ActionStates) /\ Len(actions') = Len(actions) + 1
        /\ actions'[Len(actions) + 1] = "pending"
        /\ \A a \in DOMAIN actions : actions'[a] = actions[a]
    BY <1>2, <1>9 DEF ActionStates
  <2>4. ivr' # Engine!Off
    BY <1>2, <2>2, OffIsRow, ServicesAssumption
  <2>5. EngineTyped'
    <3>1. ivr'.action \in 0 .. Len(actions')
      BY <1>2, <2>2, <2>3
    <3>. QED BY <1>2, <1>9, <2>2, <2>3, <3>1 DEF EngineInv, EngineTyped
  <2>6. FlowIsOn' /\ ActionWaits'
    BY <1>2, <1>9, <2>2, <2>3, <2>4 DEF FlowIsOn, ActionWaits
  <2>7. JumpsInside /\ ResultOnce
    BY <1>9, <2>3 DEF JumpsInside, ResultOnce
  <2>. QED BY <2>5, <2>6, <2>7 DEF EngineKept, EngineInv
<1>10. CASE Engine!ActionNode
  BY <1>3, <1>9, <1>10 DEF Engine!ActionNode
<1>11. CASE Engine!QueueNode
  BY <1>3, <1>4, <1>11 DEF Engine!QueueNode
<1>. QED BY <1>3, <1>6, <1>7, <1>8, <1>10, <1>11 DEF Engine!RunNode

\* A key the node takes, and one it does not.
LEMMA KeyStep ==
  ASSUME EngineInv, Engine!Key \/ Engine!WrongKey
  PROVE  EngineKept
<1>1. /\ ivr # Engine!Off /\ ~running /\ ~ivr.awaiting /\ UNCHANGED <<actions, finished>>
  BY DEF Engine!Key, Engine!WrongKey, Engine!Handles
<1>2. /\ state = "ivr" /\ ivr.node \in FlowNodes /\ Engine!Node = Flow[ivr.node]
      /\ Engine!WellFormed(ivr.node)
      /\ Engine!Node.next \in Wherever /\ Engine!Node.default \in Wherever
      /\ Engine!Node.invalid \in Wherever /\ Engine!Node.choices \subseteq FlowNodes
      /\ actions \in Seq(ActionStates) /\ finished \in Wherever /\ recorder \in BOOLEAN
  BY <1>1, AtWork
<1>3. ASSUME NEW n \in FlowNodes, Engine!Goto(n)
      PROVE  EngineKept
  BY <1>1, <1>2, <1>3, GotoStep, SameActions DEF EngineKept
<1>4. CASE Engine!Key
  <2>1. CASE Engine!Node.type = "collect" /\ Engine!Goto(Engine!Node.next)
    BY <1>2, <1>3, <2>1, WhereverIsNode DEF Engine!WellFormed
  <2>2. CASE \E n \in Engine!Node.choices : Engine!Goto(n)
    BY <1>2, <1>3, <2>2
  <2>. QED BY <1>4, <2>1, <2>2 DEF Engine!Key
<1>5. CASE Engine!WrongKey
  <2> DEFINE target == IF Engine!Node.invalid # Nowhere THEN Engine!Node.invalid ELSE Engine!Node.default
  <2>1. \/ target # Nowhere /\ Engine!Goto(target)
        \/ /\ ivr' = [ivr EXCEPT !.tries = ivr.tries + 1] /\ ivr.tries <= MaxTries
           /\ UNCHANGED <<state, running, playing, recorder, path>>
    BY <1>5 DEF Engine!WrongKey
  <2>2. CASE target # Nowhere /\ Engine!Goto(target)
    <3>1. target \in FlowNodes
      BY <1>2, <2>2, WhereverIsNode
    <3>. QED BY <1>3, <2>2, <3>1
  <2>3. CASE /\ ivr' = [ivr EXCEPT !.tries = ivr.tries + 1] /\ ivr.tries <= MaxTries
             /\ UNCHANGED <<state, running, playing, recorder, path>>
    <3>1. ivr \in IvrRow /\ ivr.tries \in 0 .. MaxTries + 1 /\ MaxTries \in Nat
      BY ServicesAssumption DEF EngineInv, EngineTyped, IvrRow
    <3>2. ivr.tries + 1 \in 0 .. MaxTries + 1
      BY <2>3, <3>1
    <3>3. /\ ivr' \in IvrRow /\ ivr'.node = ivr.node /\ ivr'.action = ivr.action
          /\ ivr'.awaiting = ivr.awaiting
      BY <2>3, <3>1, <3>2 DEF IvrRow
    <3>4. ivr' # Engine!Off
      BY <1>2, <3>3, OffIsRow, ServicesAssumption
    <3>5. EngineTyped' /\ FlowIsOn' /\ ActionWaits'
      BY <1>1, <1>2, <2>3, <3>3, <3>4 DEF EngineInv, EngineTyped, FlowIsOn, ActionWaits
    <3>. QED BY <1>1, <2>3, <3>5, SameActions DEF EngineKept, EngineInv, JumpsInside
  <2>. QED BY <2>1, <2>2, <2>3
<1>. QED BY <1>4, <1>5

\* The time of the node is over: an action expires, which was pending.
LEMMA TimeStep ==
  ASSUME EngineInv, Engine!Tick
  PROVE  EngineKept
<1> DEFINE n == IF Engine!Node.type = "play" THEN Engine!Node.next ELSE Engine!Node.default
<1>1. /\ ivr # Engine!Off /\ ~running /\ ~ivr.awaiting /\ UNCHANGED finished
      /\ IF Engine!Node.type = "action" THEN Engine!Settle("expired") ELSE UNCHANGED actions
      /\ IF n = Nowhere THEN Engine!Quit("queued") /\ UNCHANGED <<recorder, path>> ELSE Engine!Goto(n)
  BY DEF Engine!Tick, Engine!Handles
<1>2. /\ state = "ivr" /\ ivr.node \in FlowNodes /\ Engine!Node = Flow[ivr.node]
      /\ Engine!Node.next \in Wherever /\ Engine!Node.default \in Wherever
      /\ actions \in Seq(ActionStates) /\ finished \in Wherever /\ recorder \in BOOLEAN
  BY <1>1, AtWork
<1>3. actions' \in Seq(ActionStates) /\ ResultOnce
  <2>1. CASE Engine!Node.type = "action"
    <3>1. ivr.action \in 1 .. Len(actions) /\ actions[ivr.action] = "pending"
      BY <1>1, <1>2, <2>1 DEF EngineInv, ActionWaits
    <3>2. actions' = [actions EXCEPT ![ivr.action] = "expired"]
      BY <1>1, <2>1 DEF Engine!Settle
    <3>3. /\ actions' \in Seq(ActionStates)
          /\ \A a \in DOMAIN actions : actions'[a] = IF a = ivr.action THEN "expired" ELSE actions[a]
      BY <1>2, <3>1, <3>2 DEF ActionStates
    <3>. QED BY <3>1, <3>3 DEF ResultOnce
  <2>2. CASE Engine!Node.type # "action"
    BY <1>1, <1>2, <2>2, SameActions
  <2>. QED BY <2>1, <2>2
<1>4. CASE n = Nowhere
  BY <1>1, <1>2, <1>3, <1>4, QuitStep DEF EngineKept
<1>5. CASE n # Nowhere
  <2>1. n \in FlowNodes
    BY <1>2, <1>5, WhereverIsNode
  <2> HIDE DEF n
  <2>. QED BY <1>1, <1>2, <1>3, <1>5, <2>1, GotoStep DEF EngineKept
<1>. QED BY <1>4, <1>5

\* The result of an action: of the one that the flow waits for.
LEMMA ResultStep ==
  ASSUME EngineInv, NEW a \in DOMAIN actions, Engine!CompleteAction(a)
  PROVE  EngineKept
<1>1. /\ ivr # Engine!Off /\ actions[a] = "pending"
      /\ actions' = [actions EXCEPT ![a] = "completed"] /\ UNCHANGED finished
  BY DEF Engine!CompleteAction, Engine!Waits, Engine!Handles
<1>2. PICK n \in Engine!Node.choices : Engine!Goto(n)
  BY DEF Engine!CompleteAction
<1>3. /\ Engine!Node.choices \subseteq FlowNodes
      /\ actions \in Seq(ActionStates) /\ finished \in Wherever
  BY <1>1, AtWork
<1>4. /\ actions' \in Seq(ActionStates)
      /\ \A b \in DOMAIN actions : b # a => actions'[b] = actions[b]
  BY <1>1, <1>3 DEF ActionStates
<1>5. /\ EngineInv' /\ JumpsInside /\ ivr' # ivr
      /\ state' = "ended" \/ path' = <<ivr.node, n>>
  BY <1>1, <1>2, <1>3, <1>4, GotoStep
<1>6. ResultOnce
  BY <1>1, <1>4, <1>5 DEF ResultOnce
<1>. QED BY <1>5, <1>6 DEF EngineKept

\* The callback of a prompt, which reads the node and jumps later.
LEMMA PromptStep ==
  ASSUME EngineInv, Engine!PromptFinished \/ Engine!PromptJump
  PROVE  EngineKept
<1>1. finished' \in Wherever /\ UNCHANGED actions
  <2>1. CASE Engine!PromptFinished /\ ivr # Engine!Off
    BY <2>1, AtWork DEF Engine!PromptFinished, Wherever
  <2>2. CASE Engine!PromptFinished /\ ivr = Engine!Off
    BY <2>2 DEF Engine!PromptFinished, Wherever
  <2>3. CASE Engine!PromptJump
    BY <2>3 DEF Engine!PromptJump, Wherever
  <2>. QED BY <2>1, <2>2, <2>3
<1>2. CASE UNCHANGED <<state, ivr, running, recorder, path>> /\ playing' \in BOOLEAN
  BY <1>1, <1>2, SameActions DEF EngineKept, EngineInv, EngineTyped, FlowIsOn, ActionWaits, JumpsInside
<1>3. CASE ivr # Engine!Off /\ finished # Nowhere /\ Engine!Goto(finished)
  <2>1. finished \in FlowNodes /\ actions' \in Seq(ActionStates)
    BY <1>1, <1>3, WhereverIsNode DEF EngineInv, EngineTyped
  <2>. QED BY <1>1, <1>3, <2>1, GotoStep, SameActions DEF EngineKept
<1>. QED BY <1>2, <1>3 DEF Engine!PromptFinished, Engine!PromptJump, EngineInv, EngineTyped

\* The flow begins, for a call that is new, that is answered or that an agent sends back.
LEMMA BeginStep ==
  ASSUME EngineInv, Engine!StartIVR \/ Engine!BeginIVR \/ Engine!EnterIVR
  PROVE  EngineKept
<1>1. /\ UNCHANGED <<actions, playing, finished, recorder, path>> /\ actions \in Seq(ActionStates)
      /\ Len(actions) \in Nat /\ ivr \in IvrRow
  <2>1. actions \in Seq(ActionStates) /\ Len(actions) \in Nat /\ ivr \in IvrRow
    BY DEF EngineInv, EngineTyped
  <2>2. UNCHANGED <<actions, playing, finished, recorder, path>>
    BY Zenon DEF Engine!StartIVR, Engine!BeginIVR, Engine!EnterIVR
  <2>. QED BY <2>1, <2>2
<1>2. ASSUME ivr' \in IvrRow, ivr' # Engine!Off, ivr'.node \in FlowNodes, ivr'.action \in 0 .. Len(actions),
             state' = "ivr", running' \in BOOLEAN, running' \/ ivr'.awaiting
      PROVE  EngineKept
  BY <1>1, <1>2, SameActions
     DEF EngineKept, EngineInv, EngineTyped, FlowIsOn, ActionWaits, JumpsInside
<1>3. ASSUME NEW b \in BOOLEAN, OnNode(ivr', Start, 0, b), state' = "ivr", running' = ~b
      PROVE  EngineKept
  <2>2. 0 \in 0 .. MaxHops /\ Start \in FlowNodes
    BY ServicesAssumption, FlowLeads
  <2>3. /\ ivr' \in IvrRow /\ ivr' # Engine!Off /\ ivr'.node = Start /\ ivr'.action = 0
        /\ ivr'.awaiting = b
    BY <1>3 DEF OnNode
  <2>4. ivr'.action \in 0 .. Len(actions)
    BY <1>1, <2>3
  <2>5. running' \in BOOLEAN /\ (running' \/ ivr'.awaiting)
    BY <1>3, <2>3
  <2>. QED BY <1>2, <1>3, <2>2, <2>3, <2>4, <2>5
<1>4. CASE Engine!StartIVR
  <2>1. PICK b \in BOOLEAN : ivr' = [Engine!Off EXCEPT !.node = Start, !.awaiting = b] /\ running' = ~b
    BY <1>4, Zenon DEF Engine!StartIVR
  <2>2. Start \in FlowNodes /\ 0 \in 0 .. MaxHops
    BY FlowLeads, ServicesAssumption
  <2>3. OnNode(ivr', Start, 0, b)
    BY <2>1, <2>2, AtNode
  <2>4. state' = "ivr"
    BY <1>4, Zenon DEF Engine!StartIVR
  <2>. QED BY <1>3, <2>1, <2>3, <2>4
<1>5. CASE Engine!EnterIVR
  <2>1. ivr' = [Engine!Off EXCEPT !.node = Start] /\ state' = "ivr" /\ running' = ~FALSE
    BY <1>5, Zenon DEF Engine!EnterIVR
  <2>2. Start \in FlowNodes /\ 0 \in 0 .. MaxHops
    BY FlowLeads, ServicesAssumption
  <2>3. OnNode(ivr', Start, 0, FALSE)
    BY <2>1, <2>2, AtNode
  <2>. QED BY <1>3, <2>1, <2>3
<1>6. CASE Engine!BeginIVR
  <2>1. ivr.awaiting /\ ivr' = [ivr EXCEPT !.awaiting = FALSE] /\ running' = TRUE /\ UNCHANGED state
    BY <1>6 DEF Engine!BeginIVR
  <2>2. ivr # Engine!Off
    BY <2>1, OffIsRow
  <2>3. state = "ivr" /\ ivr.node \in FlowNodes /\ ivr.action \in 0 .. Len(actions)
    BY <2>2 DEF EngineInv, EngineTyped, FlowIsOn
  <2>4. ivr' \in IvrRow /\ ivr'.node = ivr.node /\ ivr'.action = ivr.action
    BY <1>1, <2>1 DEF IvrRow
  <2>5. ivr' # Engine!Off
    BY <2>3, <2>4, OffIsRow, ServicesAssumption
  <2>. QED BY <1>2, <2>1, <2>3, <2>4, <2>5
<1>. QED BY <1>4, <1>5, <1>6

LEMMA EngineInductive == EngineInv /\ [Engine!Next]_engineVars => EngineKept
<1> SUFFICES ASSUME EngineInv, [Engine!Next]_engineVars PROVE EngineKept
  OBVIOUS
<1>1. CASE UNCHANGED engineVars
  BY <1>1, SameActions DEF engineVars, EngineKept, EngineInv, EngineTyped, FlowIsOn, ActionWaits, JumpsInside
<1>2. CASE Engine!Answered
  <2>1. state = "queued" /\ state' = "active" /\ UNCHANGED <<ivr, running, actions, playing, finished, recorder, path>>
    BY <1>2 DEF Engine!Answered
  <2>2. ivr = Engine!Off /\ ~running
    BY <2>1 DEF EngineInv, FlowIsOn
  <2>. QED BY <2>1, <2>2, SameActions DEF EngineKept, EngineInv, EngineTyped, FlowIsOn, ActionWaits, JumpsInside
<1>3. CASE Engine!TotalTimeout \/ Engine!Ends \/ Engine!RecorderEnds
  BY <1>3, HangUpStep DEF Engine!TotalTimeout, Engine!Ends, Engine!RecorderEnds
<1>. QED BY <1>1, <1>2, <1>3, RunNodeStep, KeyStep, TimeStep, ResultStep, PromptStep, BeginStep
         DEF Engine!Next

LEMMA EnginesTyped == EngineInv => Engine!TypeOK
<1> SUFFICES ASSUME EngineInv PROVE Engine!TypeOK
  OBVIOUS
<1>1. ivr.hops \in 0 .. MaxHops /\ ivr.tries \in 0 .. MaxTries + 1 /\ ivr.action \in 0 .. Len(actions)
  BY DEF EngineInv, EngineTyped, IvrRow
<1>2. \A a \in DOMAIN actions : actions[a] \in {"pending", "completed", "expired"}
  BY DEF EngineInv, EngineTyped, ActionStates
<1>. QED BY <1>1, <1>2, FlowLeads DEF EngineInv, EngineTyped, Engine!TypeOK, Wherever

-------------------------------------------------------------------------------
(* Direct control.  A key whose command was never claimed has dialled nobody;  *)
(* a leg in the room has a dial that came back; a playback is told when its    *)
(* row leaves "playing".                                                       *)

DirectTyped ==
  /\ call \in {"none", "created", "ringing", "active", "ended"}
  /\ legs \subseteq Direct!Legs /\ sip \subseteq DialKeys
  /\ commands \in [DialKeys -> {"none", "accepted", "running", "succeeded", "failed"}]
  /\ dialing \in [DialKeys -> {"no", "out", "answered", "refused", "done"}]
  /\ hashes \in [DialKeys -> Destinations \union {NoDestination}]
  /\ outs \in [DialKeys -> Nat]
  /\ playbacks \in [Playbacks -> Direct!Ends \union {"none", "playing"}]
  /\ reports \in [Playbacks -> Nat]
  /\ played \subseteq [id: Playbacks, leg: Direct!Legs]
  /\ callbacks \subseteq [id: Playbacks, state: Direct!Ends]

\* A dial is recorded before it rings.
RingsAreClaimed ==
  \A k \in DialKeys : /\ commands[k] = "none" => outs[k] = 0 /\ dialing[k] = "no"
                      /\ dialing[k] = "no" => outs[k] = 0
                      /\ k \in sip => dialing[k] \in {"answered", "done"}

DirectInv ==
  /\ DirectTyped /\ RingsAreClaimed
  /\ Direct!DialledOnce /\ Direct!LateAnswerLeaves /\ Direct!PlaybackToldOnce

LEMMA DirectInitInv == Direct!Init => DirectInv
<1> SUFFICES ASSUME Direct!Init PROVE DirectInv
  OBVIOUS
<1> USE DEF Direct!Init
<1>1. DirectTyped
  BY DEF DirectTyped
<1>2. RingsAreClaimed
  BY DEF RingsAreClaimed
<1>3. Direct!DialledOnce /\ Direct!LateAnswerLeaves /\ Direct!PlaybackToldOnce
  BY DEF Direct!DialledOnce, Direct!LateAnswerLeaves, Direct!PlaybackToldOnce, Direct!Ends
<1>. QED BY <1>1, <1>2, <1>3 DEF DirectInv

\* A step that leaves the dials and the playbacks alone: it may take legs out of
\* the room and does not end the call.
LEMMA LegsStep ==
  ASSUME DirectInv, UNCHANGED Direct!dialVars, UNCHANGED Direct!playVars,
         call' \in {"none", "created", "ringing", "active", "ended"}, call' = "ended" => call = "ended",
         legs' \subseteq Direct!Legs, sip' \subseteq sip
  PROVE  DirectInv'
<1> USE DEF Direct!dialVars, Direct!playVars
<1>1. DirectTyped'
  BY DEF DirectInv, DirectTyped
<1>2. RingsAreClaimed' /\ Direct!LateAnswerLeaves'
  BY DEF DirectInv, RingsAreClaimed, Direct!LateAnswerLeaves
<1>3. Direct!DialledOnce' /\ Direct!PlaybackToldOnce'
  BY DEF DirectInv, Direct!DialledOnce, Direct!PlaybackToldOnce
<1>. QED BY <1>1, <1>2, <1>3 DEF DirectInv

\* The end of the call: the room is closed and its playbacks are stopped.
LEMMA HangUpPlays ==
  ASSUME DirectInv, Direct!HangUp
  PROVE  /\ call' = "ended" /\ sip' = {} /\ legs' = legs
         /\ played' \subseteq [id: Playbacks, leg: Direct!Legs]
         /\ callbacks' \subseteq [id: Playbacks, state: Direct!Ends]
         /\ UNCHANGED <<playbacks, reports>>
<1>1. \A p \in played : [id |-> p.id, state |-> "stopped"] \in [id: Playbacks, state: Direct!Ends]
  BY DEF DirectInv, DirectTyped, Direct!Ends
<1>2. Direct!Stopped \subseteq [id: Playbacks, state: Direct!Ends]
  BY <1>1 DEF DirectInv, DirectTyped, Direct!Stopped
<1>. QED BY <1>2 DEF Direct!HangUp

\* The goroutine of a dial goes one step: it comes back, or settles its command.
LEMMA DialGoesOn ==
  ASSUME DirectInv, NEW k \in DialKeys, dialing[k] \in {"out", "answered", "refused"},
         NEW x \in {"answered", "refused", "done"}, dialing' = [dialing EXCEPT ![k] = x],
         NEW w \in {"accepted", "running", "succeeded", "failed"},
         commands' = [commands EXCEPT ![k] = w],
         UNCHANGED <<hashes, outs, dials>>,
         call' \in {"none", "created", "ringing", "active", "ended"},
         call' = "ended" => call = "ended" \/ sip' = {},
         x = "done" /\ call' = "ended" => k \notin sip',
         legs' \subseteq Direct!Legs, sip' \subseteq sip \union {k},
         x = "refused" => k \notin sip',
         UNCHANGED <<playbacks, reports>>,
         played' \subseteq [id: Playbacks, leg: Direct!Legs],
         callbacks' \subseteq [id: Playbacks, state: Direct!Ends]
  PROVE  DirectInv'
<1>1. /\ dialing'[k] = x /\ commands'[k] = w
      /\ \A l \in DialKeys : l # k => dialing'[l] = dialing[l] /\ commands'[l] = commands[l]
  BY DEF DirectInv, DirectTyped
<1>2. DirectTyped'
  BY DEF DirectInv, DirectTyped
<1>3. RingsAreClaimed'
  BY <1>1 DEF DirectInv, RingsAreClaimed
<1>4. Direct!LateAnswerLeaves'
  BY <1>1 DEF DirectInv, Direct!LateAnswerLeaves
<1>5. Direct!DialledOnce' /\ Direct!PlaybackToldOnce'
  BY DEF DirectInv, Direct!DialledOnce, Direct!PlaybackToldOnce
<1>. QED BY <1>2, <1>3, <1>4, <1>5 DEF DirectInv

\* A dial that is out has claimed its command.
LEMMA OutIsClaimed ==
  ASSUME DirectInv, NEW k \in DialKeys, dialing[k] # "no"
  PROVE  commands[k] \in {"accepted", "running", "succeeded", "failed"}
BY DEF DirectInv, DirectTyped, RingsAreClaimed

LEMMA OriginatedStep ==
  ASSUME DirectInv, NEW k \in DialKeys, Direct!Originated(k)
  PROVE  DirectInv'
<1>1. /\ dialing[k] = "out"
      /\ UNCHANGED <<call, legs, hashes, commands, outs, dials, playbacks, played, callbacks, reports>>
      /\ \/ dialing' = [dialing EXCEPT ![k] = "answered"] /\ sip' = sip \union {k}
         \/ dialing' = [dialing EXCEPT ![k] = "refused"] /\ sip' = sip
  BY DEF Direct!Originated, Direct!playVars
<1>2. /\ commands[k] \in {"accepted", "running", "succeeded", "failed"}
      /\ commands' = [commands EXCEPT ![k] = commands[k]]
      /\ k \notin sip
  BY <1>1, OutIsClaimed DEF DirectInv, DirectTyped, RingsAreClaimed
<1>3. /\ call' \in {"none", "created", "ringing", "active", "ended"} /\ legs' \subseteq Direct!Legs
      /\ played' \subseteq [id: Playbacks, leg: Direct!Legs]
      /\ callbacks' \subseteq [id: Playbacks, state: Direct!Ends]
  BY <1>1 DEF DirectInv, DirectTyped
<1>. QED BY <1>1, <1>2, <1>3, DialGoesOn

LEMMA DialReturnsStep ==
  ASSUME DirectInv, NEW k \in DialKeys, Direct!DialReturns(k)
  PROVE  DirectInv'
<1>1. dialing[k] \in {"answered", "refused"}
  BY DEF Direct!DialReturns
<1>2. PICK w \in {"accepted", "running", "succeeded", "failed"} :
        /\ commands' = [commands EXCEPT ![k] = w] /\ dialing' = [dialing EXCEPT ![k] = "done"]
        /\ UNCHANGED <<hashes, outs, dials>>
        /\ \/ /\ call \in {"none", "ended"} /\ sip' = sip \ {k} /\ UNCHANGED <<call, legs, Direct!playVars>>
           \/ Direct!HangUp
           \/ /\ call \notin {"none", "ended"} /\ call' \in {call, "active"}
              /\ UNCHANGED <<legs, sip, Direct!playVars>>
  <2>1. commands[k] \in {"accepted", "running", "succeeded", "failed"}
    BY <1>1, OutIsClaimed
  <2>2. CASE Direct!LateDial(k)
    BY <2>2 DEF Direct!LateDial, Direct!Settle, Direct!Alive
  <2>3. CASE Direct!DialFailed(k)
    BY <2>3 DEF Direct!DialFailed, Direct!Settle, Direct!Alive
  <2>4. CASE Direct!DialAnswered(k)
    BY <2>1, <2>4 DEF Direct!DialAnswered, Direct!Settle, Direct!Alive
  <2>. QED BY <2>2, <2>3, <2>4 DEF Direct!DialReturns
<1>3. /\ call \in {"none", "created", "ringing", "active", "ended"} /\ legs \subseteq Direct!Legs
      /\ played \subseteq [id: Playbacks, leg: Direct!Legs]
      /\ callbacks \subseteq [id: Playbacks, state: Direct!Ends]
  BY DEF DirectInv, DirectTyped
<1>4. CASE /\ call \in {"none", "ended"} /\ sip' = sip \ {k} /\ UNCHANGED <<call, legs, Direct!playVars>>
  <2>1. UNCHANGED <<playbacks, played, callbacks, reports>>
    BY <1>4 DEF Direct!playVars
  <2>. QED BY <1>1, <1>2, <1>3, <1>4, <2>1, DialGoesOn
<1>5. CASE Direct!HangUp
  BY <1>1, <1>2, <1>3, <1>5, HangUpPlays, DialGoesOn
<1>6. CASE /\ call \notin {"none", "ended"} /\ call' \in {call, "active"}
           /\ UNCHANGED <<legs, sip, Direct!playVars>>
  <2>1. UNCHANGED <<playbacks, played, callbacks, reports>>
    BY <1>6 DEF Direct!playVars
  <2>. QED BY <1>1, <1>2, <1>3, <1>6, <2>1, DialGoesOn
<1>. QED BY <1>2, <1>4, <1>5, <1>6

\* A request to dial rings only under a key that no command has claimed.
LEMMA DialStep ==
  ASSUME DirectInv, NEW k \in DialKeys, NEW d \in Destinations, Direct!Dial(k, d)
  PROVE  DirectInv'
<1>1. /\ commands[k] = "none" /\ call \notin {"none", "ended"}
      /\ UNCHANGED <<sip, playbacks, played, callbacks, reports>>
  BY DEF Direct!Dial, Direct!DialRefused, Direct!Claimed, Direct!Alive, Direct!playVars
<1>2. PICK w \in {"accepted", "running"} : commands' = [commands EXCEPT ![k] = w]
  BY DEF Direct!Dial
<1>3. /\ call' \in {call, "ringing"}
      /\ legs' \in {legs, legs \union {k}}
      /\ hashes' \in {hashes, [hashes EXCEPT ![k] = d]}
      /\ \/ UNCHANGED <<dialing, outs>>
         \/ dialing' = [dialing EXCEPT ![k] = "out"] /\ outs' = [outs EXCEPT ![k] = outs[k] + 1]
  BY DEF Direct!Dial
<1>4. /\ outs[k] = 0 /\ dialing[k] = "no" /\ k \notin sip
  BY <1>1 DEF DirectInv, RingsAreClaimed
<1>5. /\ commands'[k] = w /\ \A l \in DialKeys : l # k => commands'[l] = commands[l]
      /\ \A l \in DialKeys : l # k => dialing'[l] = dialing[l] /\ outs'[l] = outs[l]
      /\ \/ dialing'[k] = "no" /\ outs'[k] = 0
         \/ dialing'[k] = "out" /\ outs'[k] = 1
  BY <1>2, <1>3, <1>4 DEF DirectInv, DirectTyped
<1>6. DirectTyped'
  <2>1. outs' \in [DialKeys -> Nat] /\ dialing' \in [DialKeys -> {"no", "out", "answered", "refused", "done"}]
    BY <1>3, <1>4 DEF DirectInv, DirectTyped
  <2>2. legs' \subseteq Direct!Legs
    BY <1>3 DEF DirectInv, DirectTyped, Direct!Legs
  <2>3. /\ commands' \in [DialKeys -> {"none", "accepted", "running", "succeeded", "failed"}]
        /\ hashes' \in [DialKeys -> Destinations \union {NoDestination}]
        /\ call' \in {"none", "created", "ringing", "active", "ended"}
    BY <1>2, <1>3 DEF DirectInv, DirectTyped
  <2>. QED BY <1>1, <2>1, <2>2, <2>3 DEF DirectInv, DirectTyped
<1>7. RingsAreClaimed'
  BY <1>1, <1>4, <1>5 DEF DirectInv, RingsAreClaimed
<1>8. Direct!DialledOnce'
  BY <1>5 DEF DirectInv, Direct!DialledOnce
<1>9. Direct!LateAnswerLeaves'
  BY <1>1, <1>3 DEF Direct!LateAnswerLeaves
<1>10. Direct!PlaybackToldOnce'
  BY <1>1 DEF DirectInv, Direct!PlaybackToldOnce
<1>. QED BY <1>6, <1>7, <1>8, <1>9, <1>10 DEF DirectInv

\* A step of a playback.
LEMMA PlayingStep ==
  ASSUME DirectInv, UNCHANGED <<call, legs, sip, Direct!dialVars>>,
         playbacks' \in [Playbacks -> Direct!Ends \union {"none", "playing"}],
         reports' \in [Playbacks -> Nat],
         played' \subseteq [id: Playbacks, leg: Direct!Legs],
         callbacks' \subseteq [id: Playbacks, state: Direct!Ends],
         Direct!PlaybackToldOnce'
  PROVE  DirectInv'
BY DEF DirectInv, DirectTyped, RingsAreClaimed, Direct!DialledOnce, Direct!LateAnswerLeaves,
       Direct!dialVars

LEMMA StartPlaybackStep ==
  ASSUME DirectInv, NEW p \in Playbacks, NEW l \in Direct!Legs, Direct!StartPlayback(p, l)
  PROVE  DirectInv'
<1>1. /\ playbacks[p] = "none" /\ playbacks' = [playbacks EXCEPT ![p] = "playing"]
      /\ UNCHANGED <<call, legs, sip, Direct!dialVars, reports>>
      /\ played' \subseteq played \union {[id |-> p, leg |-> l]}
      /\ callbacks' \subseteq callbacks \union {[id |-> p, state |-> "stopped"]}
  BY DEF Direct!StartPlayback
<1>2. /\ played' \subseteq [id: Playbacks, leg: Direct!Legs]
      /\ callbacks' \subseteq [id: Playbacks, state: Direct!Ends]
      /\ playbacks' \in [Playbacks -> Direct!Ends \union {"none", "playing"}]
      /\ reports' \in [Playbacks -> Nat]
  BY <1>1 DEF DirectInv, DirectTyped, Direct!Ends
<1>3. Direct!PlaybackToldOnce'
  BY <1>1 DEF DirectInv, DirectTyped, Direct!PlaybackToldOnce, Direct!Ends
<1>. QED BY <1>1, <1>2, <1>3, PlayingStep

LEMMA PlaybackEndsStep ==
  ASSUME DirectInv, NEW q \in played, NEW end \in Direct!Ends, Direct!PlaybackEnds(q, end)
  PROVE  DirectInv'
<1>1. /\ played' = played \ {q} /\ callbacks' = callbacks \union {[id |-> q.id, state |-> end]}
      /\ UNCHANGED <<call, legs, sip, Direct!dialVars, playbacks, reports>>
  BY DEF Direct!PlaybackEnds
<1>2. /\ played' \subseteq [id: Playbacks, leg: Direct!Legs]
      /\ callbacks' \subseteq [id: Playbacks, state: Direct!Ends]
      /\ playbacks' \in [Playbacks -> Direct!Ends \union {"none", "playing"}]
      /\ reports' \in [Playbacks -> Nat]
  BY <1>1 DEF DirectInv, DirectTyped
<1>3. Direct!PlaybackToldOnce'
  BY <1>1 DEF DirectInv, Direct!PlaybackToldOnce
<1>. QED BY <1>1, <1>2, <1>3, PlayingStep

\* The end of a playback is told by the one who finds it playing.
LEMMA ReportStep ==
  ASSUME DirectInv, NEW b \in callbacks, Direct!Report(b)
  PROVE  DirectInv'
<1>1. /\ callbacks' = callbacks \ {b} /\ UNCHANGED <<call, legs, sip, Direct!dialVars, played>>
      /\ \/ /\ playbacks[b.id] = "playing"
            /\ playbacks' = [playbacks EXCEPT ![b.id] = b.state]
            /\ reports' = [reports EXCEPT ![b.id] = reports[b.id] + 1]
         \/ UNCHANGED <<playbacks, reports>>
  BY DEF Direct!Report, Direct!StillPlays
<1>2. b.id \in Playbacks /\ b.state \in Direct!Ends
  BY DEF DirectInv, DirectTyped
<1>3. /\ played' \subseteq [id: Playbacks, leg: Direct!Legs]
      /\ callbacks' \subseteq [id: Playbacks, state: Direct!Ends]
      /\ playbacks' \in [Playbacks -> Direct!Ends \union {"none", "playing"}]
      /\ reports' \in [Playbacks -> Nat]
  BY <1>1, <1>2 DEF DirectInv, DirectTyped
<1>4. Direct!PlaybackToldOnce'
  BY <1>1, <1>2 DEF DirectInv, DirectTyped, Direct!PlaybackToldOnce, Direct!Ends
<1>. QED BY <1>1, <1>3, <1>4, PlayingStep

LEMMA DirectInductive == DirectInv /\ [Direct!Next]_directVars => DirectInv'
<1> SUFFICES ASSUME DirectInv, [Direct!Next]_directVars PROVE DirectInv'
  OBVIOUS
<1>1. CASE UNCHANGED directVars
  BY <1>1 DEF directVars, DirectInv, DirectTyped, RingsAreClaimed, Direct!DialledOnce,
              Direct!LateAnswerLeaves, Direct!PlaybackToldOnce
<1>2. legs \subseteq Direct!Legs /\ WebLegs \subseteq Direct!Legs
      /\ call \in {"none", "created", "ringing", "active", "ended"}
  BY DEF DirectInv, DirectTyped, Direct!Legs
<1>3. CASE Direct!Create \/ Direct!Bridge
  BY <1>2, <1>3, LegsStep DEF Direct!Create, Direct!Bridge, Direct!Alive
<1>4. CASE \E l \in WebLegs : Direct!AddLeg(l)
  BY <1>2, <1>4, LegsStep DEF Direct!AddLeg, Direct!Alive
<1>5. CASE \E l \in Direct!Legs : Direct!Leave(l)
  BY <1>2, <1>5, LegsStep DEF Direct!Leave, Direct!Alive
<1>6. CASE Direct!Alive /\ Direct!HangUp /\ UNCHANGED Direct!dialVars
  <2>1. /\ call' = "ended" /\ sip' = {} /\ legs' = legs
        /\ played' \subseteq [id: Playbacks, leg: Direct!Legs]
        /\ callbacks' \subseteq [id: Playbacks, state: Direct!Ends]
        /\ UNCHANGED <<playbacks, reports>>
    BY <1>6, HangUpPlays
  <2>2. UNCHANGED <<hashes, commands, dialing, outs, dials>>
    BY <1>6 DEF Direct!dialVars
  <2>3. DirectTyped'
    BY <2>1, <2>2 DEF DirectInv, DirectTyped
  <2>4. RingsAreClaimed' /\ Direct!LateAnswerLeaves'
    BY <2>1, <2>2 DEF DirectInv, RingsAreClaimed, Direct!LateAnswerLeaves
  <2>5. Direct!DialledOnce' /\ Direct!PlaybackToldOnce'
    BY <2>1, <2>2 DEF DirectInv, Direct!DialledOnce, Direct!PlaybackToldOnce
  <2>. QED BY <2>3, <2>4, <2>5 DEF DirectInv
<1>7. CASE \E k \in DialKeys : Direct!Originated(k) \/ Direct!DialReturns(k)
                                 \/ \E d \in Destinations : Direct!Dial(k, d)
  BY <1>7, OriginatedStep, DialReturnsStep, DialStep
<1>8. CASE \E p \in Playbacks, l \in Direct!Legs : Direct!StartPlayback(p, l)
  BY <1>8, StartPlaybackStep
<1>9. CASE \E q \in played : Direct!Drains(q) \/ Direct!PlaybackEnds(q, "stopped")
  BY <1>9, PlaybackEndsStep DEF Direct!Drains, Direct!Ends
<1>10. CASE \E b \in callbacks : Direct!Report(b)
  BY <1>10, ReportStep
<1>. QED BY <1>1, <1>3, <1>4, <1>5, <1>6, <1>7, <1>8, <1>9, <1>10 DEF Direct!Next

LEMMA DirectsTyped == DirectInv => Direct!TypeOK
BY DEF DirectInv, DirectTyped, Direct!TypeOK

-------------------------------------------------------------------------------
(* The sum.                                                                    *)

\* A step of the sum is a step of one service and leaves the others as they are.
LEMMA ServicesMove ==
  ASSUME [ServicesNext]_vars
  PROVE  /\ [Next]_cmdVars /\ [Events!Next]_eventVars
         /\ [Engine!Next]_engineVars /\ [Direct!Next]_directVars
<1>1. CASE UNCHANGED vars
  BY <1>1 DEF vars
<1>2. CASE CommandStep
  BY <1>2 DEF CommandStep
<1>3. CASE EventStep
  BY <1>3 DEF EventStep
<1>4. CASE EngineStep
  BY <1>4 DEF EngineStep
<1>5. CASE DirectStep
  BY <1>5 DEF DirectStep
<1>. QED BY <1>1, <1>2, <1>3, <1>4, <1>5 DEF ServicesNext

\* So every service behaves, in the sum, as it does alone.
LEMMA ServicesBehave ==
  ServicesSpec => /\ Init /\ [][Next]_cmdVars
                  /\ Events!Init /\ [][Events!Next]_eventVars
                  /\ Engine!Init /\ [][Engine!Next]_engineVars
                  /\ Direct!Init /\ [][Direct!Next]_directVars
<1>1. ServicesInit => Init /\ Events!Init /\ Engine!Init /\ Direct!Init
  BY DEF ServicesInit
<1>. QED BY <1>1, ServicesMove, PTL DEF ServicesSpec

LEMMA InvariantsHold ==
  ServicesSpec => [](CommandInv /\ TruthInv /\ EventInv /\ EngineInv /\ DirectInv)
<1>1. EngineInv /\ [Engine!Next]_engineVars => EngineInv'
  BY EngineInductive DEF EngineKept
<1>2. CommandInv /\ TruthInv /\ [Next]_cmdVars => TruthInv'
  BY TruthInductive
<1>. QED BY <1>1, <1>2, ServicesBehave, CommandInitInv, TruthInitInv, EventInitInv, EngineInitInv,
            DirectInitInv, CommandInductive, EventInductive, DirectInductive, PTL

\* The variables of the four services keep their types.
THEOREM TypesHold == ServicesSpec => []TypesOK
<1>1. CommandInv /\ TruthInv /\ EventInv /\ EngineInv /\ DirectInv => TypesOK
  BY CommandsTyped, EventsTyped, EnginesTyped, DirectsTyped DEF TypesOK
<1>. QED BY <1>1, InvariantsHold, PTL

\* For any calls, keys, clients and numbers of requests, through races, refusals,
\* crashes and restarts: a mutation that is no hang-up is started at most once
\* under one key (runIdempotentMutation).
THEOREM StartedOnce == ServicesSpec => []AtMostOnce
<1>. QED BY OnceHolds, InvariantsHold, PTL

\* For any of them: a recorded success took effect on the call and with the body
\* of its row, and no settled outcome is rewritten (Complete).
THEOREM AnswersStayTrue == ServicesSpec => AnswersAreTrue
<1>1. TruthInv => SuccessIsTrue
  BY DEF TruthInv
<1>2. CommandInv /\ TruthInv /\ [Next]_cmdVars =>
        [\A k \in Keys : rows[k] # NoRow /\ rows[k].status \in {"succeeded", "failed"} =>
           rows'[k] = rows[k]]_rows
  BY TruthInductive DEF RowsStay
<1>. QED BY <1>1, <1>2, ServicesBehave, InvariantsHold, PTL DEF AnswersAreTrue, OutcomeStays

\* For any events, attempts and faults between two statements: what was
\* acknowledged is stored, and what the browsers heard is (dispatcher.go,
\* switch_events.go).
THEOREM NoEventIsLost == ServicesSpec => []EventsAreKept
<1>1. EventInv => EventsAreKept
  BY DEF EventInv, EventsAreKept
<1>. QED BY <1>1, InvariantsHold, PTL

\* For any order of delivery: the row of a recording is the gravest of the events
\* that were taken in (recmeta/service.go).
THEOREM GravestIsKept == ServicesSpec => []RecordingIsGravest
<1>1. EventInv => RecordingIsGravest
  BY GravestHolds DEF RecordingIsGravest
<1>. QED BY <1>1, InvariantsHold, PTL

\* For any number of jumps, tries and actions: a caller jumps only while the call
\* is in the flow, and a result moves the call once (ivr.go, business_actions.go).
THEOREM CallsMoveInFlow == ServicesSpec => MovesInFlow
<1>1. EngineInv /\ [Engine!Next]_engineVars => [path' # path => state = "ivr"]_Engine!ivrVars
  BY EngineInductive DEF EngineKept, JumpsInside
<1>2. EngineInv /\ [Engine!Next]_engineVars =>
        [\A a \in DOMAIN actions :
           /\ actions[a] # "pending" => actions'[a] = actions[a]
           /\ actions[a] = "pending" /\ actions'[a] = "completed" =>
                ivr' # ivr /\ (state' = "ended" \/ path' \in {<<ivr.node, n>> : n \in Engine!Node.choices})
         ]_Engine!ivrVars
  BY EngineInductive DEF EngineKept, ResultOnce
<1>. QED BY <1>1, <1>2, ServicesBehave, InvariantsHold, PTL
         DEF MovesInFlow, Engine!NoJumpOutside, Engine!ResultMovesCall

\* For any keys, telephones and playbacks: a key dials once, a late answer
\* connects nobody, and the end of a playback is told once (direct.go,
\* leg_controls.go).
THEOREM DialsStayTrue == ServicesSpec => []DialsAreTrue
<1>1. DirectInv => DialsAreTrue
  BY DEF DirectInv, DialsAreTrue
<1>. QED BY <1>1, InvariantsHold, PTL
=================================================================================
