----------------------------- MODULE ConfigVersions -----------------------------
(***************************************************************************)
(* The configuration of the switch: immutable versions, one of them active,*)
(* and the calls that keep the version they came in under.  A bundle is    *)
(* its items (numbers, queues, flows) and the references among them.  An   *)
(* edit loads the active bundle, changes it and checks it, and only then   *)
(* takes the lock under which it stores and activates the result; a client *)
(* may also store a bundle and activate any version.                       *)
(***************************************************************************)
EXTENDS Naturals, Sequences, FiniteSets

CONSTANTS
  Queues, Flows, Dids,  \* queues, IVR flows and numbers
  Editors,
  Calls,
  MaxVersions, \* bound: versions
  MaxRefs      \* bound: references of a bundle that a client hands in

\* A queue and a flow are told apart by their ids.
ASSUME ConfigAssumption == Queues \cap Flows = {}

VARIABLES
  versions,  \* version |-> its bundle
  status,    \* version |-> "validated", "active" or "superseded"
  active,    \* the active version, 0: none
  editor,    \* editor |-> the edit it has prepared
  call,      \* call |-> [at, version, item]
  confirmed  \* items whose creation was confirmed          (history)

configVars == <<versions, status, active, editor, call, confirmed>>

Items == Queues \union Flows \union Dids

\* What an item may refer to.
Targets(x) == IF x \in Flows THEN Queues ELSE (Queues \union Flows) \ {x}

\* What a client may hand in.
Bundles ==
  {b \in [items : SUBSET Items, refs : SUBSET UNION {{x} \X Targets(x) : x \in Items}] :
    Cardinality(b.refs) <= MaxRefs}

Empty == [items |-> {}, refs |-> {}]
NoEdit == [at |-> "idle"]
NoCall == [at |-> "idle"]

Init ==
  /\ versions = <<>> /\ status = <<>> /\ active = 0
  /\ editor = [e \in Editors |-> NoEdit]
  /\ call = [c \in Calls |-> NoCall]
  /\ confirmed = {}

---------------------------------------------------------------------------

\* validateBundle: nothing refers to an item that is not there.
Valid(b) == \A r \in b.refs : r[1] \in b.items /\ r[2] \in b.items

\* loadActiveBundleOrEmpty.
Loaded == IF active = 0 THEN Empty ELSE versions[active]

\* The edits of config_resources.go: an item is created, its references are
\* replaced, or it is deleted; a flow takes with it what queues refer to it by.
Created(b, x) == [b EXCEPT !.items = @ \union {x}]
Pointed(b, x, S) == [b EXCEPT !.refs = {r \in @ : r[1] # x} \union ({x} \X S)]
Deleted(b, x) ==
  [items |-> b.items \ {x},
   refs |-> {r \in b.refs : r[1] # x /\ (x \in Flows /\ r[2] = x => r[1] \in Dids)}]

Edits(b) ==
  {[kind |-> "create", item |-> x, bundle |-> Created(b, x)] : x \in Items \ b.items}
    \union (UNION {{[kind |-> "point", item |-> x, bundle |-> Pointed(b, x, S)] : S \in SUBSET Targets(x)} :
                     x \in b.items})
    \union {[kind |-> "delete", item |-> x, bundle |-> Deleted(b, x)] : x \in b.items}

\* ApplyConfigMutation before its transaction: load, change, validate.
Prepare(e) ==
  /\ editor[e].at = "idle"
  /\ \E x \in Edits(Loaded) :
       /\ Valid(x.bundle)
       /\ editor' = [editor EXCEPT ![e] = [at |-> "prepared", edit |-> x]]
  /\ UNCHANGED <<versions, status, active, call, confirmed>>

\* storeConfigTx: the version with this checksum, or the next one.
VersionOf(b, vs) == CHOOSE v \in DOMAIN vs : vs[v] = b
Known(b) == \E v \in DOMAIN versions : versions[v] = b
StoredIn(b) == IF Known(b) THEN versions ELSE Append(versions, b)
StatusIn(b) == IF Known(b) THEN status ELSE Append(status, "validated")

\* activateConfigTx: the one before is superseded.
Activated(st, v) ==
  [w \in DOMAIN st |-> IF w = v THEN "active" ELSE IF st[w] = "active" THEN "superseded" ELSE st[w]]

\* The transaction of an edit.
Commit(e) ==
  LET x == editor[e].edit
      vs == StoredIn(x.bundle)
      v == VersionOf(x.bundle, vs) IN
  /\ editor[e].at = "prepared" /\ Len(vs) <= MaxVersions
  /\ versions' = vs /\ status' = Activated(StatusIn(x.bundle), v) /\ active' = v
  /\ editor' = [editor EXCEPT ![e] = NoEdit]
  /\ confirmed' = IF x.kind = "create" THEN confirmed \union {x.item}
                  ELSE IF x.kind = "delete" THEN confirmed \ {x.item} ELSE confirmed
  /\ UNCHANGED call

\* StoreConfig: a whole bundle, checked.
StoreConfig ==
  /\ \E b \in Bundles :
       /\ Valid(b) /\ ~Known(b) /\ Len(versions) < MaxVersions
       /\ versions' = StoredIn(b) /\ status' = StatusIn(b)
  /\ UNCHANGED <<active, editor, call, confirmed>>

\* ActivateConfig: any version, checked again.
ActivateConfig(v) ==
  /\ v \in DOMAIN versions /\ Valid(versions[v])
  /\ status' = Activated(status, v) /\ active' = v
  /\ confirmed' = confirmed \intersect versions[v].items
  /\ UNCHANGED <<versions, editor, call>>

---------------------------------------------------------------------------

\* ResolveDID: the number in the active version, and what it refers to.
Resolve(c) ==
  /\ call[c].at = "idle" /\ active # 0
  /\ \E r \in versions[active].refs :
       /\ r[1] \in Dids
       /\ call' = [call EXCEPT ![c] = [at |-> "routed", version |-> active, item |-> r[2]]]
  /\ UNCHANGED <<versions, status, active, editor, confirmed>>

\* StartInbound of a queue: GetQueue in the version of the route, which the
\* call keeps.  One of a flow keeps the version that is active by now.
StartInbound(c) ==
  LET r == call[c] IN
  /\ r.at = "routed"
  /\ call' = [call EXCEPT ![c] =
       [at |-> "in", version |-> IF r.item \in Flows THEN active ELSE r.version, item |-> r.item]]
  /\ UNCHANGED <<versions, status, active, editor, confirmed>>

ReadsActive(c) == versions[active]

\* Commands and ticks read in the version of the call.
Reads(c) == versions[call[c].version]

\* The call goes to what its queue or flow refers to.
MovesOn(c) ==
  /\ call[c].at \in {"in", "on"}
  /\ \E r \in Reads(c).refs :
       r[1] = call[c].item /\ call' = [call EXCEPT ![c].at = "on", ![c].item = r[2]]
  /\ UNCHANGED <<versions, status, active, editor, confirmed>>

Next ==
  \/ \E e \in Editors : Prepare(e) \/ Commit(e)
  \/ StoreConfig
  \/ \E v \in 1 .. MaxVersions : ActivateConfig(v)
  \/ \E c \in Calls : Resolve(c) \/ StartInbound(c) \/ MovesOn(c)

Spec == Init /\ [][Next]_configVars

---------------------------------------------------------------------------

\* The variables keep the types of the versions, edits and calls.
TypeOK ==
  /\ active \in 0 .. Len(versions) /\ DOMAIN status = DOMAIN versions
  /\ \A v \in DOMAIN versions : versions[v].items \subseteq Items /\ versions[v].refs \subseteq Items \X Items
  /\ \A c \in Calls : call[c].at \in {"idle", "routed", "in", "on"}

\* Whatever was deleted, edited and activated side by side, what new calls
\* are routed by refers to nothing that is gone.
ActiveIsWhole ==
  active # 0 => \A r \in versions[active].refs : {r[1], r[2]} \subseteq versions[active].items

\* The table of versions and the row of the active one agree.
OneActive == {v \in DOMAIN status : status[v] = "active"} = IF active = 0 THEN {} ELSE {active}

\* A call finds every queue and flow it goes to in its own version, though the
\* versions after it no longer have them; so does one that enters by a queue.
CallFindsItsConfig ==
  \A c \in Calls :
    call[c].at = "on" \/ (call[c].at = "in" /\ call[c].item \in Queues)
      => call[c].item \in versions[call[c].version].items

\* config_editor.go:14 says that the lock covers the loading too, so that no
\* concurrent edit is lost: an item whose creation was confirmed and that
\* nobody deleted is in the active version.
NoLostUpdate == active # 0 => confirmed \subseteq versions[active].items
=============================================================================
