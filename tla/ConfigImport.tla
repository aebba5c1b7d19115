------------------------------ MODULE ConfigImport ------------------------------
(***************************************************************************)
(* The import of a configuration file into two systems: the tables of      *)
(* open-call (users, roles, agents, webhooks) and the versions of the      *)
(* switch (queues, skills, seats).  No transaction spans both, so the      *)
(* order is fixed: store a version in the switch, write the tables, then   *)
(* activate the version.  Each call may fail, or work and lose its answer; *)
(* open-call may die in between; imports run side by side.                 *)
(***************************************************************************)
EXTENDS Naturals, FiniteSets

CONSTANTS
  Agents,
  Imports,   \* requests of the import
  Nothing,
  MaxImports \* bound: imports begun

VARIABLES
  import,    \* request |-> what it does
  rows,      \* agents in the tables of open-call
  bundles,   \* versions the switch has stored; a version is its content
  live,      \* the active one
  reports,   \* the answers given: what is said, and what was done   (history)
  begun

importVars == <<import, rows, bundles, live, reports, begun>>

Idle == [at |-> "idle"]

Init ==
  /\ import = [i \in Imports |-> Idle]
  /\ rows = {} /\ bundles = {} /\ live = Nothing
  /\ reports = {} /\ begun = 0

\* A file: its agents, and the agents its queues and skills refer to.
Files == [agents : SUBSET Agents, seats : SUBSET Agents]

\* validate: what the file refers to, it has.
Valid(b) == b.seats \subseteq b.agents

---------------------------------------------------------------------------

\* The request is checked as a whole before anything is written.
Begin(i) ==
  /\ import[i].at = "idle" /\ begun < MaxImports
  /\ \E b \in Files :
       /\ Valid(b)
       /\ import' = [import EXCEPT ![i] =
            [at |-> "store", file |-> b, wrote |-> FALSE, activated |-> FALSE]]
  /\ begun' = begun + 1
  /\ UNCHANGED <<rows, bundles, live, reports>>

\* The answer to the administrator, and the end of the request.
Reports(i, says, x) ==
  /\ reports' = reports \union {[says |-> says, wrote |-> x.wrote, activated |-> x.activated]}
  /\ import' = [import EXCEPT ![i] = Idle]

Goes(i, x) == import' = [import EXCEPT ![i] = x] /\ UNCHANGED reports

\* StoreConfig: refused, stored, or stored without our knowing.
StoreConfig(i) ==
  LET x == import[i] IN
  /\ x.at = "store"
  /\ \/ bundles' = bundles \union {x.file} /\ Goes(i, [x EXCEPT !.at = "write"])
     \/ bundles' \in {bundles, bundles \union {x.file}} /\ Reports(i, "store failed", x)
  /\ UNCHANGED <<rows, live, begun>>

\* ActivateConfig, when the tables have been written: the version becomes the
\* active one, perhaps without our knowing.
Activates(i, x) ==
  \/ live' = x.file /\ Reports(i, "ok", [x EXCEPT !.activated = TRUE])
  \/ live' = x.file /\ Reports(i, "activation failed", [x EXCEPT !.activated = TRUE])
  \/ UNCHANGED live /\ Reports(i, "activation failed", x)

\* The request after a transaction that failed.
FailedWrite(i) == Reports(i, "write failed", import[i])

\* importTransaction: every row of the file is there afterwards, or none of it.
WriteRows(i) ==
  LET x == import[i] IN
  /\ x.at = "write"
  /\ \/ /\ rows' = rows \union x.file.agents
        /\ Goes(i, [x EXCEPT !.at = "activate", !.wrote = TRUE])
     \/ FailedWrite(i) /\ UNCHANGED rows
  /\ UNCHANGED <<bundles, live, begun>>

ActivateConfig(i) ==
  /\ import[i].at = "activate" /\ Activates(i, import[i])
  /\ UNCHANGED <<rows, bundles, begun>>

\* open-call dies, or the browser goes away and its context with it: whatever
\* was done stays.
Interrupted(i) ==
  /\ import[i].at # "idle"
  /\ import' = [import EXCEPT ![i] = Idle]
  /\ UNCHANGED <<rows, bundles, live, reports, begun>>

Next == \E i \in Imports :
          Begin(i) \/ StoreConfig(i) \/ WriteRows(i) \/ ActivateConfig(i) \/ Interrupted(i)

Spec == Init /\ [][Next]_importVars

---------------------------------------------------------------------------

\* The variables keep the types of the requests and of the two systems.
TypeOK ==
  /\ \A i \in Imports : import[i].at \in {"idle", "store", "write", "activate"}
  /\ rows \subseteq Agents /\ bundles \subseteq Files /\ live \in Files \union {Nothing}
  /\ begun \in 0 .. MaxImports

\* "Store 失败则库未动；库失败则 Switch 仅多一个未激活版本" (service.go:161):
\* what the administrator is told was not touched was not touched, and what is
\* told as done was done, though answers get lost.
ReportIsTrue ==
  \A r \in reports :
    /\ r.says \in {"store failed", "write failed"} => ~r.wrote /\ ~r.activated
    /\ r.says = "activation failed" => r.wrote
    /\ r.says = "ok" => r.wrote /\ r.activated

\* Whoever the active version seats is an agent of open-call, after any
\* failure and with any imports beside each other.
SeatsHaveRows == live # Nothing => live \in bundles /\ live.agents \union live.seats \subseteq rows
=============================================================================
