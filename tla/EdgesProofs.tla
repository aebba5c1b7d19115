------------------------------ MODULE EdgesProofs ------------------------------
(***************************************************************************)
(* Edges for any values of its constants.  Its parts share no variable     *)
(* and one of them moves at a time, so a step of the sum is a step of one  *)
(* part and a stutter of the others (PartsMove), and every behaviour of    *)
(* the sum is a behaviour of each part (PartsBehave).  What is proved of   *)
(* a part, in a section of its own below, holds of the sum; the last       *)
(* section puts together what the sum promises.                            *)
(*                                                                         *)
(* Each part has its invariant, named after it, the lemmas that one step   *)
(* each preserves it, and the promises that follow from it.                *)
(***************************************************************************)
EXTENDS Edges, ListProofs, FiniteSetTheorems

\* A step of the sum is a step of one part and leaves the others as they are.
LEMMA PartsMove ==
  ASSUME [EdgesNext]_vars
  PROVE  /\ [Next]_configVars
         /\ [Access!Next]_Access!accessVars
         /\ [Directory!Next]_Directory!dirVars
         /\ [Guests!Next]_Guests!guestVars
         /\ [Hooks!Next]_Hooks!hookVars
         /\ [Browsers!Next]_Browsers!wsVars
         /\ [Robot!Next]_Robot!botVars
         /\ [Notes!Next]_Notes!noteVars
         /\ [Gateway!Next]_Gateway!bffVars
         /\ [Registrar!Next]_Registrar!regVars
         /\ [SignOn!Next]_SignOn!ssoVars
         /\ [Import!Next]_Import!importVars
<1> USE DEF configVars, accessVars, dirVars, guestVars, hookVars, wsVars, robotVars, noteVars, bffVars,
            regVars, signVars, importVars,
            Access!accessVars, Directory!dirVars, Guests!guestVars, Hooks!hookVars,
            Browsers!wsVars, Robot!botVars, Notes!noteVars, Gateway!bffVars,
            Registrar!regVars, SignOn!ssoVars, Import!importVars
<1>1. CASE UNCHANGED vars
  BY <1>1 DEF vars
<1>2. CASE ConfigStep
  BY <1>2 DEF ConfigStep
<1>3. CASE AccessStep
  BY <1>3 DEF AccessStep
<1>4. CASE DirectoryStep
  BY <1>4 DEF DirectoryStep
<1>5. CASE GuestStep
  BY <1>5 DEF GuestStep
<1>6. CASE HookStep
  BY <1>6 DEF HookStep
<1>7. CASE BrowserStep
  BY <1>7 DEF BrowserStep
<1>8. CASE RobotStep
  BY <1>8 DEF RobotStep
<1>9. CASE NoteStep
  BY <1>9 DEF NoteStep
<1>10. CASE GatewayStep
  BY <1>10 DEF GatewayStep
<1>11. CASE RegistrarStep
  BY <1>11 DEF RegistrarStep
<1>12. CASE SignOnStep
  BY <1>12 DEF SignOnStep
<1>13. CASE ImportStep
  BY <1>13 DEF ImportStep
<1>. QED
  BY <1>1, <1>2, <1>3, <1>4, <1>5, <1>6, <1>7, <1>8, <1>9, <1>10, <1>11, <1>12, <1>13
     DEF EdgesNext

\* So every part behaves, in the sum, as it does alone: what is proved of a
\* part holds of the sum.
LEMMA PartsBehave ==
  EdgesSpec => /\ Spec /\ Access!Spec /\ Directory!Spec /\ Guests!Spec /\ Hooks!Spec
               /\ Browsers!Spec /\ Robot!Spec /\ Notes!Spec /\ Gateway!Spec
               /\ Registrar!Spec /\ SignOn!Spec /\ Import!Spec
<1>1. EdgesInit => /\ Init /\ Access!Init /\ Directory!Init /\ Guests!Init /\ Hooks!Init
                   /\ Browsers!Init /\ Robot!Init /\ Notes!Init /\ Gateway!Init
                   /\ Registrar!Init /\ SignOn!Init /\ Import!Init
  BY DEF EdgesInit
<1>. QED BY <1>1, PartsMove, PTL
       DEF EdgesSpec, Spec, Access!Spec, Directory!Spec, Guests!Spec, Hooks!Spec,
           Browsers!Spec, Robot!Spec, Notes!Spec, Gateway!Spec,
           Registrar!Spec, SignOn!Spec, Import!Spec

\* A longer sequence keeps what it had and has one thing more, in one place.
LEMMA Longer ==
  ASSUME NEW S, NEW q \in Seq(S), NEW x \in S
  PROVE  /\ Append(q, x) \in Seq(S)
         /\ \A i \in DOMAIN Append(q, x) :
              \/ Append(q, x)[i] = x /\ i \notin DOMAIN q
              \/ i \in DOMAIN q /\ Append(q, x)[i] = q[i]
         /\ \A i, j \in DOMAIN Append(q, x) : i # j => i \in DOMAIN q \/ j \in DOMAIN q
<1> DEFINE z == Append(q, x)
<1>1. z \in Seq(S) /\ Len(z) = Len(q) + 1 /\ Len(q) \in Nat
  OBVIOUS
<1>2. DOMAIN z = 1 .. Len(q) + 1 /\ DOMAIN q = 1 .. Len(q)
  BY <1>1
<1>3. \A i \in 1 .. Len(q) : z[i] = q[i]
  OBVIOUS
<1>4. z[Len(q) + 1] = x
  OBVIOUS
<1>5. \A i \in DOMAIN z : (i = Len(q) + 1 /\ i \notin DOMAIN q) \/ i \in DOMAIN q
  BY <1>1, <1>2
<1> HIDE DEF z
<1>6. \A i \in DOMAIN z : (z[i] = x /\ i \notin DOMAIN q) \/ (i \in DOMAIN q /\ z[i] = q[i])
  BY <1>2, <1>3, <1>4, <1>5
<1>7. \A i, j \in DOMAIN z : i # j => i \in DOMAIN q \/ j \in DOMAIN q
  BY <1>5
<1>. QED BY <1>1, <1>6, <1>7 DEF z

---------------------------------------------------------------------------

(***************************************************************************)
(* ConfigVersions for any items, editors, calls and numbers of versions.   *)
(* A version may be activated long after it was stored, and a call keeps   *)
(* its version while others follow, so what holds of the active version    *)
(* has to hold of every one that was ever stored: Whole.  A call is safe   *)
(* (OnItsWay) because a stored version never changes.                      *)
(***************************************************************************)

Bundle == [items: SUBSET Items, refs: SUBSET (Items \X Items)]
Marks == {"validated", "active", "superseded"}

Types ==
  /\ versions \in Seq(Bundle)
  /\ status \in Seq(Marks) /\ Len(status) = Len(versions)
  /\ active \in 0 .. Len(versions)

\* Every version, and every edit that waits for the lock, was checked.
Whole ==
  /\ \A v \in 1 .. Len(versions) : Valid(versions[v])
  /\ \A e \in Editors : editor[e].at = "prepared" =>
       editor[e].edit.bundle \in Bundle /\ Valid(editor[e].edit.bundle)

\* A call that has been routed has a version, and what it goes to is there;
\* one that starts by a flow finds it only once it moves on.
OnItsWay ==
  \A c \in Calls : call[c].at \in {"routed", "in", "on"} =>
    /\ active # 0 /\ call[c].version \in 1 .. Len(versions)
    /\ call[c].at \in {"routed", "on"} \/ call[c].item \in Queues =>
         call[c].item \in versions[call[c].version].items

\* The requests and the calls are tables.
Tables ==
  /\ editor = [e \in Editors |-> editor[e]]
  /\ call = [c \in Calls |-> call[c]]

Inv == Types /\ Tables /\ Whole /\ OnItsWay /\ OneActive

LEMMA InitInv == Init => Inv
BY DEF Init, Inv, Types, Tables, Whole, OnItsWay, OneActive, NoEdit, NoCall

\* An edit of a bundle makes a bundle.
LEMMA EditsAreBundles ==
  ASSUME NEW b \in Bundle, NEW x \in Edits(b)
  PROVE  x.bundle \in Bundle
<1>1. \A i \in Items : Created(b, i) \in Bundle
  BY DEF Created, Bundle
<1>2. \A i \in Items : Deleted(b, i) \in Bundle
  BY DEF Deleted, Bundle
<1>3. \A i \in Items : Targets(i) \subseteq Items
  BY DEF Targets, Items
<1>4. \A i \in Items, S \in SUBSET Items : Pointed(b, i, S) \in Bundle
  BY DEF Pointed, Bundle
<1>5. b.items \subseteq Items
  BY DEF Bundle
<1>6. \/ \E i \in Items \ b.items : x = [kind |-> "create", item |-> i, bundle |-> Created(b, i)]
      \/ \E i \in b.items : \E S \in SUBSET Targets(i) :
           x = [kind |-> "point", item |-> i, bundle |-> Pointed(b, i, S)]
      \/ \E i \in b.items : x = [kind |-> "delete", item |-> i, bundle |-> Deleted(b, i)]
  BY DEF Edits
<1>7. CASE \E i \in Items \ b.items : x = [kind |-> "create", item |-> i, bundle |-> Created(b, i)]
  BY <1>1, <1>7
<1>8. CASE \E i \in b.items : \E S \in SUBSET Targets(i) :
             x = [kind |-> "point", item |-> i, bundle |-> Pointed(b, i, S)]
  <2>1. PICK i \in b.items : \E S \in SUBSET Targets(i) :
          x = [kind |-> "point", item |-> i, bundle |-> Pointed(b, i, S)]
    BY <1>8
  <2>. QED BY <1>3, <1>4, <1>5, <2>1
<1>9. CASE \E i \in b.items : x = [kind |-> "delete", item |-> i, bundle |-> Deleted(b, i)]
  BY <1>2, <1>5, <1>9
<1>. QED BY <1>6, <1>7, <1>8, <1>9

LEMMA PrepareStep ==
  ASSUME Inv, NEW e \in Editors, Prepare(e)
  PROVE  Inv'
<1>1. PICK x \in Edits(Loaded) :
        Valid(x.bundle) /\ editor' = [editor EXCEPT ![e] = [at |-> "prepared", edit |-> x]]
  BY DEF Prepare
<1>2. UNCHANGED <<versions, status, active, call>>
  BY DEF Prepare
<1>3. Loaded \in Bundle
  <2>1. Empty \in Bundle
    BY DEF Empty, Bundle
  <2>2. active # 0 => versions[active] \in Bundle
    BY DEF Inv, Types
  <2>. QED BY <2>1, <2>2 DEF Loaded
<1>4. x.bundle \in Bundle
  BY <1>3, EditsAreBundles
<1>5. \A d \in Editors : editor'[d] = editor[d] \/ editor'[d] = [at |-> "prepared", edit |-> x]
  BY <1>1 DEF Inv, Tables
<1>6. Whole'
  BY <1>1, <1>2, <1>4, <1>5 DEF Inv, Whole, Valid
<1>7. Tables'
  BY <1>1, <1>2 DEF Inv, Tables
<1>. QED BY <1>2, <1>6, <1>7 DEF Inv, Types, OnItsWay, OneActive

\* What storing a bundle leaves: the versions there were, and its own.
LEMMA Stored ==
  ASSUME Types, NEW b \in Bundle
  PROVE  /\ StoredIn(b) \in Seq(Bundle) /\ Len(StoredIn(b)) >= Len(versions)
         /\ \A v \in 1 .. Len(versions) : StoredIn(b)[v] = versions[v]
         /\ \A v \in 1 .. Len(StoredIn(b)) : v > Len(versions) => StoredIn(b)[v] = b
         /\ StatusIn(b) \in Seq(Marks) /\ Len(StatusIn(b)) = Len(StoredIn(b))
         /\ \A v \in 1 .. Len(versions) : StatusIn(b)[v] = status[v]
         /\ \A v \in 1 .. Len(StoredIn(b)) : v > Len(versions) => StatusIn(b)[v] = "validated"
         /\ VersionOf(b, StoredIn(b)) \in 1 .. Len(StoredIn(b))
         /\ StoredIn(b)[VersionOf(b, StoredIn(b))] = b
<1>1. CASE Known(b)
  <2>1. StoredIn(b) = versions /\ StatusIn(b) = status
    BY <1>1 DEF StoredIn, StatusIn
  <2>2. \E v \in DOMAIN versions : versions[v] = b
    BY <1>1 DEF Known
  <2>3. VersionOf(b, versions) \in DOMAIN versions /\ versions[VersionOf(b, versions)] = b
    BY <2>2 DEF VersionOf
  <2>. QED BY <2>1, <2>3 DEF Types
<1>2. CASE ~Known(b)
  <2> DEFINE vs == Append(versions, b)
             st == Append(status, "validated")
  <2>1. StoredIn(b) = vs /\ StatusIn(b) = st
    BY <1>2 DEF StoredIn, StatusIn
  <2>2. /\ vs \in Seq(Bundle) /\ Len(vs) = Len(versions) + 1 /\ vs[Len(versions) + 1] = b
        /\ \A v \in 1 .. Len(versions) : vs[v] = versions[v]
    BY DEF Types
  <2>3. /\ st \in Seq(Marks) /\ Len(st) = Len(versions) + 1 /\ st[Len(versions) + 1] = "validated"
        /\ \A v \in 1 .. Len(versions) : st[v] = status[v]
    BY DEF Types, Marks
  <2> HIDE DEF vs, st
  <2>4. Len(versions) \in Nat
    BY DEF Types
  <2>5. \E v \in DOMAIN vs : vs[v] = b
    BY <2>2, <2>4
  <2>6. VersionOf(b, vs) \in DOMAIN vs /\ vs[VersionOf(b, vs)] = b
    BY <2>5 DEF VersionOf
  <2>. QED BY <2>1, <2>2, <2>3, <2>4, <2>6
<1>. QED BY <1>1, <1>2

\* Activating a version makes it the one active version.
LEMMA OneIsActive ==
  ASSUME NEW st \in Seq(Marks), NEW v \in 1 .. Len(st)
  PROVE  /\ Activated(st, v) \in Seq(Marks) /\ Len(Activated(st, v)) = Len(st)
         /\ {w \in DOMAIN Activated(st, v) : Activated(st, v)[w] = "active"} = {v}
<1>1. DOMAIN st = 1 .. Len(st) /\ Len(st) \in Nat
  OBVIOUS
<1>2. /\ DOMAIN Activated(st, v) = 1 .. Len(st)
      /\ \A w \in 1 .. Len(st) : /\ Activated(st, v)[w] \in Marks
                                 /\ Activated(st, v)[w] = "active" <=> w = v
  BY <1>1 DEF Activated, Marks
<1>3. Activated(st, v) \in [1 .. Len(st) -> Marks]
  BY <1>1, <1>2 DEF Activated
<1>. QED BY <1>1, <1>2, <1>3

\* The bundle is stored and its version becomes the active one.
LEMMA CommitStep ==
  ASSUME Inv, NEW e \in Editors, Commit(e)
  PROVE  Inv'
<1> DEFINE b == editor[e].edit.bundle
           vs == StoredIn(b)
           v == VersionOf(b, vs)
<1>1. /\ versions' = vs /\ status' = Activated(StatusIn(b), v) /\ active' = v
      /\ editor[e].at = "prepared" /\ editor' = [editor EXCEPT ![e] = NoEdit] /\ UNCHANGED call
  BY DEF Commit
<1>2. b \in Bundle /\ Valid(b)
  BY <1>1 DEF Inv, Whole
<1>3. /\ vs \in Seq(Bundle) /\ Len(vs) >= Len(versions) /\ Len(versions) \in Nat /\ Len(vs) \in Nat
      /\ \A u \in 1 .. Len(versions) : vs[u] = versions[u]
      /\ \A u \in 1 .. Len(vs) : u > Len(versions) => vs[u] = b
      /\ StatusIn(b) \in Seq(Marks) /\ Len(StatusIn(b)) = Len(vs)
      /\ v \in 1 .. Len(vs)
  <2>1. Types /\ Len(versions) \in Nat
    BY DEF Inv, Types
  <2>2. \A S : \A q \in Seq(S) : Len(q) \in Nat
    OBVIOUS
  <2>. QED BY <1>2, <2>1, <2>2, Stored
<1> HIDE DEF vs, v, b
<1>4. /\ status' \in Seq(Marks) /\ Len(status') = Len(vs)
      /\ {w \in DOMAIN status' : status'[w] = "active"} = {v}
  BY <1>1, <1>3, OneIsActive
<1>5. Types'
  BY <1>1, <1>3, <1>4 DEF Types
<1>6. \A u \in 1 .. Len(vs) : Valid(vs[u])
  <2> SUFFICES ASSUME NEW u \in 1 .. Len(vs) PROVE Valid(vs[u])
    OBVIOUS
  <2>1. u \in 1 .. Len(versions) \/ vs[u] = b
    BY <1>3
  <2>. QED BY <1>2, <1>3, <2>1 DEF Inv, Whole
<1>7. \A d \in Editors : editor'[d] = editor[d] \/ editor'[d] = NoEdit
  BY <1>1 DEF Inv, Tables
<1>8. Whole'
  BY <1>1, <1>6, <1>7 DEF Inv, Whole, Valid, NoEdit
<1>9. Tables'
  BY <1>1 DEF Inv, Tables
<1>10. OneActive'
  BY <1>1, <1>3, <1>4 DEF OneActive
<1>11. OnItsWay'
  BY <1>1, <1>3 DEF Inv, OnItsWay
<1>. QED BY <1>5, <1>8, <1>9, <1>10, <1>11 DEF Inv

\* A client stores a bundle; the active version stays.
LEMMA StoreConfigStep == Inv /\ StoreConfig => Inv'
<1> SUFFICES ASSUME Inv, StoreConfig PROVE Inv'
  OBVIOUS
<1>1. PICK b \in Bundles : Valid(b) /\ versions' = StoredIn(b) /\ status' = StatusIn(b)
  BY DEF StoreConfig
<1>2. UNCHANGED <<active, editor, call>>
  BY DEF StoreConfig
<1>3. b \in Bundle
  <2>1. UNION {{x} \X Targets(x) : x \in Items} \subseteq Items \X Items
    BY DEF Targets, Items
  <2>. QED BY <2>1 DEF Bundles, Bundle
<1> DEFINE vs == StoredIn(b)
           st == StatusIn(b)
<1>4. /\ vs \in Seq(Bundle) /\ Len(vs) >= Len(versions) /\ Len(versions) \in Nat /\ Len(vs) \in Nat
      /\ \A u \in 1 .. Len(versions) : vs[u] = versions[u] /\ st[u] = status[u]
      /\ \A u \in 1 .. Len(vs) : u > Len(versions) => vs[u] = b /\ st[u] = "validated"
      /\ st \in Seq(Marks) /\ Len(st) = Len(vs)
  <2>1. Types /\ Len(versions) \in Nat
    BY DEF Inv, Types
  <2>2. \A S : \A q \in Seq(S) : Len(q) \in Nat
    OBVIOUS
  <2>. QED BY <1>3, <2>1, <2>2, Stored
<1>5. versions' = vs /\ status' = st
  BY <1>1
<1> HIDE DEF vs, st
<1>6. Types'
  BY <1>2, <1>4, <1>5 DEF Inv, Types
<1>7. \A u \in 1 .. Len(vs) : u \in 1 .. Len(versions) \/ (vs[u] = b /\ st[u] = "validated")
  BY <1>4
<1>8. \A u \in 1 .. Len(vs) : Valid(vs[u])
  BY <1>1, <1>4, <1>7 DEF Inv, Whole
<1>9. Whole' /\ Tables'
  BY <1>2, <1>5, <1>8 DEF Inv, Whole, Tables, Valid
<1>10. OneActive'
  <2>1. DOMAIN st = 1 .. Len(vs) /\ DOMAIN status = 1 .. Len(versions)
    BY <1>4 DEF Inv, Types
  <2>2. {u \in DOMAIN st : st[u] = "active"} = {u \in DOMAIN status : status[u] = "active"}
    BY <1>4, <1>7, <2>1
  <2>. QED BY <1>2, <1>5, <2>2 DEF Inv, OneActive
<1>11. OnItsWay'
  BY <1>2, <1>4, <1>5 DEF Inv, OnItsWay
<1>. QED BY <1>6, <1>9, <1>10, <1>11 DEF Inv

LEMMA ActivateConfigStep ==
  ASSUME Inv, NEW v \in 1 .. MaxVersions, ActivateConfig(v)
  PROVE  Inv'
<1>1. /\ v \in DOMAIN versions /\ status' = Activated(status, v) /\ active' = v
      /\ UNCHANGED <<versions, editor, call>>
  BY DEF ActivateConfig
<1>2. v \in 1 .. Len(status) /\ v \in 1 .. Len(versions) /\ Len(versions) \in Nat
  BY <1>1 DEF Inv, Types
<1>3. /\ status' \in Seq(Marks) /\ Len(status') = Len(versions)
      /\ {w \in DOMAIN status' : status'[w] = "active"} = {v}
  BY <1>1, <1>2, OneIsActive DEF Inv, Types
<1>4. Types' /\ OneActive'
  BY <1>1, <1>2, <1>3 DEF Inv, Types, OneActive
<1>5. OnItsWay'
  BY <1>1, <1>2 DEF Inv, OnItsWay
<1>6. Whole' /\ Tables'
  BY <1>1 DEF Inv, Whole, Tables, Valid
<1>. QED BY <1>4, <1>5, <1>6 DEF Inv

\* A call takes a step: what it goes to is in its version, which is whole.
LEMMA CallStep ==
  ASSUME Queues \cap Flows = {}, Inv, NEW c \in Calls, Resolve(c) \/ StartInbound(c) \/ MovesOn(c)
  PROVE  Inv'
<1>1. UNCHANGED <<versions, status, active, editor>>
  BY DEF Resolve, StartInbound, MovesOn
<1>2. Types' /\ OneActive' /\ Whole'
  BY <1>1 DEF Inv, Types, OneActive, Whole, Valid
<1>3. \A d \in Calls : d # c => call'[d] = call[d]
  BY DEF Inv, Tables, Resolve, StartInbound, MovesOn
<1>4. Tables'
  BY <1>1 DEF Inv, Tables, Resolve, StartInbound, MovesOn
<1>5. SUFFICES /\ active # 0 /\ call'[c].version \in 1 .. Len(versions)
               /\ call'[c].at \in {"routed", "on"} \/ call'[c].item \in Queues =>
                    call'[c].item \in versions[call'[c].version].items
  BY <1>1, <1>2, <1>3, <1>4 DEF Inv, OnItsWay
<1>6. active \in 1 .. Len(versions) \/ active = 0
  BY DEF Inv, Types
<1>7. CASE Resolve(c)
  <2>1. PICK r \in versions[active].refs :
          call' = [call EXCEPT ![c] = [at |-> "routed", version |-> active, item |-> r[2]]]
    BY <1>7 DEF Resolve
  <2>2. active # 0 /\ r[2] \in versions[active].items
    BY <1>6, <1>7 DEF Resolve, Inv, Whole, Valid
  <2>3. call'[c] = [at |-> "routed", version |-> active, item |-> r[2]]
    BY <2>1 DEF Inv, Tables
  <2>. QED BY <1>6, <2>2, <2>3
<1>8. CASE StartInbound(c)
  <2> DEFINE r == call[c]
  <2>1. /\ r.at = "routed"
        /\ call'[c] = [at |-> "in", version |-> IF r.item \in Flows THEN active ELSE r.version, item |-> r.item]
    BY <1>8 DEF StartInbound, Inv, Tables
  <2>2. active # 0 /\ r.version \in 1 .. Len(versions) /\ r.item \in versions[r.version].items
    BY <2>1 DEF Inv, OnItsWay
  <2>. QED BY <1>6, <2>1, <2>2
<1>9. CASE MovesOn(c)
  <2>1. /\ call[c].at \in {"in", "on"}
        /\ \E r \in versions[call[c].version].refs :
             call' = [call EXCEPT ![c].at = "on", ![c].item = r[2]]
    BY <1>9 DEF MovesOn, Reads
  <2>2. PICK r \in versions[call[c].version].refs : call' = [call EXCEPT ![c].at = "on", ![c].item = r[2]]
    BY <2>1
  <2>3. active # 0 /\ call[c].version \in 1 .. Len(versions)
    BY <2>1 DEF Inv, OnItsWay
  <2>4. r[2] \in versions[call[c].version].items
    BY <2>3 DEF Inv, Whole, Valid
  <2>5. call'[c] = [call[c] EXCEPT !.at = "on", !.item = r[2]]
    BY <2>2 DEF Inv, Tables
  <2>. QED BY <2>3, <2>4, <2>5
<1>. QED BY <1>7, <1>8, <1>9

LEMMA Inductive == Queues \cap Flows = {} /\ Inv /\ [Next]_configVars => Inv'
<1> SUFFICES ASSUME Queues \cap Flows = {}, Inv, [Next]_configVars PROVE Inv'
  OBVIOUS
<1>1. CASE UNCHANGED configVars
  BY <1>1 DEF configVars, Inv, Types, Tables, Whole, OnItsWay, OneActive, Valid
<1>2. CASE Next
  BY <1>2, PrepareStep, CommitStep, StoreConfigStep, ActivateConfigStep, CallStep DEF Next
<1>. QED BY <1>1, <1>2

LEMMA ConfigHolds == Spec => []Inv
<1>1. Inv /\ [Next]_configVars => Inv'
  BY Inductive, ConfigAssumption
<1>. QED BY <1>1, InitInv, PTL DEF Spec

\* For any edits, deletions and activations beside each other: what new calls
\* are routed by refers to nothing that is gone.
THEOREM TheActiveIsWhole == Spec => []ActiveIsWhole
<1>1. Inv => ActiveIsWhole
  BY DEF Inv, Types, Whole, Valid, ActiveIsWhole
<1>. QED BY <1>1, ConfigHolds, PTL

\* For any versions: the table marks one version as active, the one that the
\* row of the active version names.
THEOREM TheActiveIsOne == Spec => []OneActive
<1>1. Inv => OneActive
  BY DEF Inv
<1>. QED BY <1>1, ConfigHolds, PTL

\* For any calls and versions: a call finds what it is sent to in the version
\* it keeps, however many versions follow.
THEOREM CallsFindTheirs == Spec => []CallFindsItsConfig
<1>1. Inv => CallFindsItsConfig
  BY DEF Inv, OnItsWay, CallFindsItsConfig
<1>. QED BY <1>1, ConfigHolds, PTL

---------------------------------------------------------------------------

(***************************************************************************)
(* BffGateway for any agents, any requests in flight and any number of     *)
(* versions: what open-call has checked still holds when the switch takes  *)
(* the command.  OnlyItsOwnCall speaks of the steps and says nothing of a  *)
(* request that is still on its way; FreshIsOwn does: while the call is in *)
(* the version that was read for a request, its agent has the call or has  *)
(* lost it in that version.  It is inductive because every other change    *)
(* makes a version that is later than all that were read.                  *)
(***************************************************************************)

GatewayCall ==
  [state: {"queued", "ringing", "active", "held", "ivr", "ended"}, version: Nat \ {0},
   offered: Agents \cup {NoAgent}, active: Agents \cup {NoAgent}, consult: Agents \cup {NoAgent},
   legs: SUBSET Agents, taken: SUBSET Agents]

GatewayRequest ==
  [at: {"out", "sent"}, agent: Agents \cup {NoAgent}, op: Gateway!Ops, read: Nat, expected: Nat]

GatewayTypes ==
  agentCall \in GatewayCall /\ request \in [Commands -> GatewayRequest] /\ displaced \in SUBSET Agents

FreshIsOwn ==
  \A r \in Commands :
    /\ request[r].expected = IF Gateway!Carried(request[r].op) THEN request[r].read ELSE 0
    /\ request[r].at = "sent" =>
         /\ request[r].agent \in Agents /\ request[r].read <= agentCall.version
         /\ Gateway!Versioned(request[r].op) => request[r].read > 0
         /\ request[r].read = agentCall.version =>
              Gateway!Owns(request[r].agent) \/ request[r].agent \in displaced

GatewayInv == GatewayTypes /\ FreshIsOwn

\* The two ways in which the call changes: to a later version, and within one.
GatewayNewer == agentCall' \in GatewayCall /\ agentCall'.version > agentCall.version /\ displaced' = {}

GatewaySame ==
  /\ agentCall' \in GatewayCall /\ agentCall'.version = agentCall.version
  /\ displaced' \in SUBSET Agents /\ displaced \subseteq displaced'
  /\ \A a \in Agents : Gateway!Owns(a) => Gateway!HasCall(agentCall', a) \/ a \in displaced'

LEMMA GatewayInitInv == Gateway!Init => GatewayInv
BY DEF Gateway!Init, GatewayInv, GatewayTypes, GatewayCall, GatewayRequest, FreshIsOwn,
       Gateway!Out, Gateway!Ops, Gateway!Carried

LEMMA GatewayMoved ==
  ASSUME GatewayTypes, NEW c \in GatewayCall, NEW n \in Nat \ {0}, Gateway!Moved(c, n)
  PROVE  GatewayNewer
<1>1. agentCall.version + n \in Nat \ {0} /\ agentCall.version + n > agentCall.version
  BY DEF GatewayTypes, GatewayCall
<1> DEFINE v == agentCall.version + n
<1>2. agentCall' = [c EXCEPT !.version = v] /\ displaced' = {}
  BY DEF Gateway!Moved
<1> HIDE DEF v
<1>3. [c EXCEPT !.version = v] \in GatewayCall /\ [c EXCEPT !.version = v].version = v
  BY <1>1 DEF v, GatewayCall
<1>. QED BY <1>1, <1>2, <1>3 DEF GatewayNewer, v

LEMMA GatewayWithin ==
  ASSUME GatewayTypes, NEW c \in GatewayCall, c.version = agentCall.version, Gateway!Within(c)
  PROVE  GatewaySame
BY DEF GatewayTypes, Gateway!Within, GatewaySame

LEMMA GatewayRings ==
  ASSUME NEW c \in GatewayCall, NEW b \in Agents
  PROVE  Gateway!Ringing(c, b) \in GatewayCall /\ Gateway!Ringing(c, b).version = c.version
BY DEF Gateway!Ringing, GatewayCall

LEMMA GatewayDispatched ==
  ASSUME GatewayTypes, NEW c \in GatewayCall, NEW n \in Nat, Gateway!Dispatched(c, n)
  PROVE  GatewayNewer
<1>1. PICK b \in Agents : \/ Gateway!Moved(Gateway!Ringing(c, b), n + 1)
                          \/ Gateway!Moved([c EXCEPT !.state = "queued", !.offered = b], n + 2)
  BY DEF Gateway!Dispatched, Gateway!Free
<1>2. [c EXCEPT !.state = "queued", !.offered = b] \in GatewayCall
  BY DEF GatewayCall
<1>3. n + 1 \in Nat \ {0} /\ n + 2 \in Nat \ {0}
  OBVIOUS
<1>. QED BY <1>1, <1>2, <1>3, GatewayMoved, GatewayRings

LEMMA GatewayQueued ==
  ASSUME GatewayTypes, NEW c \in GatewayCall, NEW n \in Nat \ {0}, Gateway!Queued(c, n)
  PROVE  GatewayNewer
<1>1. [c EXCEPT !.state = "queued"] \in GatewayCall
  BY DEF GatewayCall
<1>. QED BY <1>1, GatewayMoved, GatewayDispatched DEF Gateway!Queued

LEMMA GatewayUnanswered ==
  ASSUME GatewayTypes, Gateway!Unanswered
  PROVE  GatewayNewer
<1> DEFINE c == [agentCall EXCEPT !.offered = NoAgent, !.taken = @ \ {agentCall.offered}]
<1>1. c \in GatewayCall
  BY DEF GatewayTypes, GatewayCall
<1>2. \/ Gateway!Moved([c EXCEPT !.state = "active", !.consult = NoAgent], 1)
      \/ Gateway!Queued(c, 1)
  BY Zenon DEF Gateway!Unanswered
<1> HIDE DEF c
<1>3. [c EXCEPT !.state = "active", !.consult = NoAgent] \in GatewayCall
  BY <1>1 DEF GatewayCall
<1>. QED BY <1>1, <1>2, <1>3, GatewayMoved, GatewayQueued

LEMMA GatewayTransfer ==
  ASSUME GatewayTypes, Gateway!Transfer
  PROVE  GatewayNewer
<1> DEFINE f == Gateway!Current
           left == [agentCall EXCEPT !.taken = @ \ {f}, !.consult = NoAgent]
           blind == [left EXCEPT !.legs = @ \ {f}]
           consult == [agentCall EXCEPT !.consult = f]
           waits == [left EXCEPT !.offered = NoAgent]
<1>1. f \in Agents \cup {NoAgent} /\ agentCall \in GatewayCall
  BY DEF Gateway!Current, GatewayTypes, GatewayCall
<1>2. \/ \E b \in Agents : \/ Gateway!Moved(Gateway!Ringing(blind, b), 1)
                           \/ Gateway!Moved(Gateway!Ringing(consult, b), 2)
      \/ Gateway!Queued(waits, 1)
  BY Zenon DEF Gateway!Transfer, Gateway!Free
<1> HIDE DEF f
<1>3. left \in GatewayCall /\ consult \in GatewayCall
  BY <1>1 DEF GatewayCall
<1> HIDE DEF left
<1>4. blind \in GatewayCall /\ waits \in GatewayCall
  BY <1>3 DEF GatewayCall
<1> HIDE DEF blind, consult, waits
<1>. QED BY <1>2, <1>3, <1>4, GatewayMoved, GatewayQueued, GatewayRings

\* What the handlers of the switch do with a command.
LEMMA GatewayEffect ==
  ASSUME GatewayTypes, NEW op \in Gateway!Ops, NEW a \in Agents, Gateway!Effect(op, a)
  PROVE  GatewayNewer \/ GatewaySame
<1>0. agentCall \in GatewayCall
  BY DEF GatewayTypes
<1>1. CASE op = "answer"
  <2> DEFINE s == IF agentCall.consult \notin {NoAgent, a} THEN "held" ELSE "active"
             c == [agentCall EXCEPT !.state = s, !.legs = @ \union {a}, !.active = a, !.offered = NoAgent]
  <2>1. Gateway!Moved(c, 1)
    BY <1>1 DEF Gateway!Effect, Gateway!Answer
  <2>2. s \in {"held", "active"}
    OBVIOUS
  <2> HIDE DEF s
  <2>3. c \in GatewayCall
    BY <1>0, <2>2 DEF GatewayCall
  <2>. QED BY <2>1, <2>3, GatewayMoved
<1>2. CASE op = "decline"
  BY <1>2, GatewayUnanswered DEF Gateway!Effect
<1>3. CASE op = "hangup"
  <2>1. Gateway!Moved(Gateway!Ended, 1)
    BY <1>3 DEF Gateway!Effect
  <2>2. Gateway!Ended \in GatewayCall
    BY <1>0 DEF Gateway!Ended, GatewayCall
  <2>. QED BY <2>1, <2>2, GatewayMoved
<1>4. CASE op = "hold"
  <2>1. PICK s \in {"active", "held"} : Gateway!Moved([agentCall EXCEPT !.state = s], 1)
    BY <1>4 DEF Gateway!Effect
  <2>2. [agentCall EXCEPT !.state = s] \in GatewayCall
    BY <1>0 DEF GatewayCall
  <2>. QED BY <2>1, <2>2, GatewayMoved
<1>5. CASE op = "transfer"
  BY <1>5, GatewayTransfer DEF Gateway!Effect
<1>6. CASE op = "complete"
  <2> DEFINE c == [agentCall EXCEPT !.state = "active", !.consult = NoAgent,
                                    !.legs = @ \ {agentCall.consult}, !.taken = @ \ {agentCall.consult}]
  <2>1. Gateway!Moved(c, 1)
    BY <1>6 DEF Gateway!Effect, Gateway!Complete
  <2>2. c \in GatewayCall
    BY <1>0 DEF GatewayCall
  <2>. QED BY <2>1, <2>2, GatewayMoved
<1>7. CASE op = "conference"
  <2>1. PICK b \in Agents : Gateway!Within([Gateway!Ringing(agentCall, b) EXCEPT !.state = "active"])
    BY <1>7 DEF Gateway!Effect, Gateway!Free
  <2> DEFINE c == Gateway!Ringing(agentCall, b)
  <2>2. c \in GatewayCall /\ c.version = agentCall.version
    BY <1>0, GatewayRings
  <2> HIDE DEF c
  <2>3. [c EXCEPT !.state = "active"] \in GatewayCall /\ [c EXCEPT !.state = "active"].version = agentCall.version
    BY <2>2 DEF GatewayCall
  <2>. QED BY <2>1, <2>3, GatewayWithin DEF c
<1>8. CASE op = "video"
  BY <1>0, <1>8, GatewayMoved DEF Gateway!Effect
<1>9. CASE op = "dtmf"
  <2>1. UNCHANGED <<agentCall, displaced>>
    BY <1>9 DEF Gateway!Effect
  <2>. QED BY <1>0, <2>1 DEF GatewaySame, GatewayTypes, Gateway!Owns, Gateway!HasCall
<1>. QED BY <1>1, <1>2, <1>3, <1>4, <1>5, <1>6, <1>7, <1>8, <1>9 DEF Gateway!Ops

\* What the switch does by itself.
LEMMA GatewayMoves ==
  ASSUME GatewayTypes, Gateway!Moves
  PROVE  GatewayNewer
<1>0. agentCall \in GatewayCall
  BY DEF GatewayTypes
<1>1. CASE Gateway!Offer
  BY <1>0, <1>1, GatewayDispatched DEF Gateway!Offer
<1>2. CASE Gateway!Withdraw
  BY <1>2, GatewayUnanswered DEF Gateway!Withdraw
<1>3. CASE Gateway!DeviceFails
  <2> DEFINE c == [agentCall EXCEPT !.offered = NoAgent, !.taken = @ \ {agentCall.offered}]
             back == [c EXCEPT !.state = "active", !.active = agentCall.consult, !.consult = NoAgent]
             waits == [c EXCEPT !.state = "queued"]
  <2>1. Gateway!Moved(back, 1) \/ Gateway!Moved(waits, 1)
    BY <1>3, Zenon DEF Gateway!DeviceFails
  <2>2. c \in GatewayCall /\ agentCall.consult \in Agents \cup {NoAgent}
    BY <1>0 DEF GatewayCall
  <2> HIDE DEF c
  <2>3. back \in GatewayCall /\ waits \in GatewayCall
    BY <2>2 DEF GatewayCall
  <2> HIDE DEF back, waits
  <2>. QED BY <2>1, <2>3, GatewayMoved
<1>4. CASE Gateway!EnterIVR
  <2> DEFINE c == [agentCall EXCEPT !.state = "ivr", !.active = NoAgent, !.offered = NoAgent, !.legs = {},
                                    !.taken = @ \ agentCall.legs]
  <2>1. Gateway!Moved(c, 1)
    BY <1>4 DEF Gateway!EnterIVR
  <2>2. c \in GatewayCall
    BY <1>0 DEF GatewayCall
  <2>. QED BY <2>1, <2>2, GatewayMoved
<1>5. CASE Gateway!LeaveIVR
  BY <1>0, <1>5, GatewayQueued DEF Gateway!LeaveIVR
<1>6. CASE Gateway!Ends
  <2>1. Gateway!Moved(Gateway!Ended, 1)
    BY <1>6 DEF Gateway!Ends
  <2>2. Gateway!Ended \in GatewayCall
    BY <1>0 DEF Gateway!Ended, GatewayCall
  <2>. QED BY <2>1, <2>2, GatewayMoved
<1>. QED BY <1>1, <1>2, <1>3, <1>4, <1>5, <1>6 DEF Gateway!Moves

\* What changes without a new version.
LEMMA GatewayShifts ==
  ASSUME GatewayTypes, Gateway!Shifts
  PROVE  GatewaySame
<1>0. agentCall \in GatewayCall
  BY DEF GatewayTypes
<1>1. PICK legs \in SUBSET Agents :
        \/ Gateway!Within([agentCall EXCEPT !.legs = legs])
        \/ Gateway!Within([agentCall EXCEPT !.offered = NoAgent, !.taken = @ \ {agentCall.offered}])
  <2>1. CASE \E a \in Agents : Gateway!Within([agentCall EXCEPT !.legs = @ \union {a}])
    BY <1>0, <2>1 DEF GatewayCall
  <2>2. CASE \E a \in agentCall.legs : Gateway!Within([agentCall EXCEPT !.legs = @ \ {a}])
    BY <1>0, <2>2 DEF GatewayCall
  <2>3. CASE Gateway!Within([agentCall EXCEPT !.offered = NoAgent, !.taken = @ \ {agentCall.offered}])
    BY <2>3
  <2>. QED BY <2>1, <2>2, <2>3 DEF Gateway!Shifts
<1>2. [agentCall EXCEPT !.legs = legs] \in GatewayCall
      /\ [agentCall EXCEPT !.legs = legs].version = agentCall.version
  BY <1>0 DEF GatewayCall
<1>3. /\ [agentCall EXCEPT !.offered = NoAgent, !.taken = @ \ {agentCall.offered}] \in GatewayCall
      /\ [agentCall EXCEPT !.offered = NoAgent, !.taken = @ \ {agentCall.offered}].version = agentCall.version
  BY <1>0 DEF GatewayCall
<1>. QED BY <1>1, <1>2, <1>3, GatewayWithin

\* A step of the call, with the requests that are still on their way.
LEMMA GatewayKeeps ==
  ASSUME GatewayInv, GatewayNewer \/ GatewaySame,
         NEW r \in Commands, request' \in {request, [request EXCEPT ![r] = Gateway!Out]}
  PROVE  GatewayInv'
<1>1. GatewayTypes'
  BY DEF GatewayInv, GatewayTypes, GatewayNewer, GatewaySame, GatewayRequest, Gateway!Out, Gateway!Ops
<1>2. ASSUME NEW q \in Commands
      PROVE  request'[q] = request[q] \/ request'[q] = Gateway!Out
  BY DEF GatewayInv, GatewayTypes
<1>3. ASSUME NEW q \in Commands, request'[q] = request[q], request[q].at = "sent"
      PROVE  /\ request[q].agent \in Agents /\ request[q].read <= agentCall'.version
             /\ request[q].read = agentCall'.version =>
                  Gateway!HasCall(agentCall', request[q].agent) \/ request[q].agent \in displaced'
  <2>1. /\ request[q].agent \in Agents /\ request[q].read <= agentCall.version
        /\ request[q].read = agentCall.version =>
             Gateway!Owns(request[q].agent) \/ request[q].agent \in displaced
        /\ request[q].read \in Nat /\ agentCall.version \in Nat
    BY <1>3 DEF GatewayInv, GatewayTypes, GatewayCall, GatewayRequest, FreshIsOwn
  <2>2. CASE GatewayNewer
    <3>1. agentCall'.version \in Nat /\ agentCall'.version > agentCall.version
      BY <2>2 DEF GatewayNewer, GatewayCall
    <3>. QED BY <2>1, <3>1
  <2>3. CASE GatewaySame
    BY <2>1, <2>3 DEF GatewaySame
  <2>. QED BY <2>2, <2>3
<1>4. FreshIsOwn'
  <2> SUFFICES ASSUME NEW q \in Commands
               PROVE  /\ request'[q].expected = IF Gateway!Carried(request'[q].op) THEN request'[q].read ELSE 0
                      /\ request'[q].at = "sent" =>
                           /\ request'[q].agent \in Agents /\ request'[q].read <= agentCall'.version
                           /\ Gateway!Versioned(request'[q].op) => request'[q].read > 0
                           /\ request'[q].read = agentCall'.version =>
                                Gateway!HasCall(agentCall', request'[q].agent) \/ request'[q].agent \in displaced'
    BY DEF FreshIsOwn, Gateway!Owns, Gateway!HasCall, Gateway!Carried, Gateway!Versioned
  <2>1. CASE request'[q] = request[q]
    BY <1>3, <2>1 DEF GatewayInv, FreshIsOwn
  <2>2. CASE request'[q] = Gateway!Out
    BY <2>2 DEF Gateway!Out
  <2>. QED BY <1>2, <2>1, <2>2
<1>. QED BY <1>1, <1>4 DEF GatewayInv

\* open-call reads the call and gives the command its version.
LEMMA GatewayPrepareStep ==
  ASSUME GatewayInv, NEW r \in Commands, NEW a \in Agents, NEW op \in Gateway!Ops, Gateway!Prepare(r, a, op)
  PROVE  GatewayInv'
<1> DEFINE x == [at |-> "sent", agent |-> a, op |-> op, read |-> Gateway!Read(op), expected |-> Gateway!Injected(op)]
<1>1. /\ request \in [Commands -> GatewayRequest] /\ agentCall \in GatewayCall /\ agentCall.version \in Nat \ {0}
      /\ UNCHANGED <<agentCall, displaced>> /\ displaced \in SUBSET Agents
      /\ Gateway!Owns(a)
  BY DEF GatewayInv, GatewayTypes, GatewayCall, Gateway!Prepare
<1>2. request' = [request EXCEPT ![r] = x]
  BY DEF Gateway!Prepare
<1>3. /\ Gateway!Read(op) \in Nat /\ Gateway!Read(op) <= agentCall.version
      /\ Gateway!Versioned(op) => Gateway!Read(op) > 0
      /\ Gateway!Injected(op) = IF Gateway!Carried(op) THEN Gateway!Read(op) ELSE 0
      /\ Gateway!Injected(op) \in Nat
  BY <1>1 DEF Gateway!Read, Gateway!Injected
<1>4. x \in GatewayRequest
  BY <1>3 DEF GatewayRequest
<1>5. /\ x.expected = IF Gateway!Carried(x.op) THEN x.read ELSE 0
      /\ x.agent \in Agents /\ x.read <= agentCall.version /\ Gateway!Owns(x.agent)
      /\ Gateway!Versioned(x.op) => x.read > 0
  BY <1>1, <1>3
<1> HIDE DEF x
<1>6. GatewayTypes'
  BY <1>1, <1>2, <1>4 DEF GatewayTypes
<1>7. ASSUME NEW q \in Commands
      PROVE  request'[q] = request[q] \/ request'[q] = x
  BY <1>1, <1>2
<1>8. FreshIsOwn'
  <2> SUFFICES ASSUME NEW q \in Commands
               PROVE  /\ request'[q].expected = IF Gateway!Carried(request'[q].op) THEN request'[q].read ELSE 0
                      /\ request'[q].at = "sent" =>
                           /\ request'[q].agent \in Agents /\ request'[q].read <= agentCall.version
                           /\ Gateway!Versioned(request'[q].op) => request'[q].read > 0
                           /\ request'[q].read = agentCall.version =>
                                Gateway!Owns(request'[q].agent) \/ request'[q].agent \in displaced
    BY <1>1 DEF FreshIsOwn, Gateway!Owns, Gateway!HasCall, Gateway!Carried, Gateway!Versioned
  <2>1. CASE request'[q] = request[q]
    BY <2>1 DEF GatewayInv, FreshIsOwn
  <2>2. CASE request'[q] = x
    BY <1>5, <2>2
  <2>. QED BY <1>7, <2>1, <2>2
<1>. QED BY <1>6, <1>8 DEF GatewayInv

\* The switch takes the command.
LEMMA GatewayExecuteStep ==
  ASSUME GatewayInv, NEW r \in Commands, Gateway!Execute(r)
  PROVE  GatewayInv'
<1>1. request' = [request EXCEPT ![r] = Gateway!Out]
      /\ request[r].agent \in Agents /\ request[r].op \in Gateway!Ops
  BY DEF Gateway!Execute, GatewayInv, GatewayTypes, GatewayRequest, FreshIsOwn
<1>2. \/ Gateway!Effect(request[r].op, request[r].agent)
      \/ UNCHANGED <<agentCall, displaced>>
  BY DEF Gateway!Execute
<1>3. GatewayNewer \/ GatewaySame
  <2>1. CASE Gateway!Effect(request[r].op, request[r].agent)
    BY <1>1, <2>1, GatewayEffect DEF GatewayInv
  <2>2. CASE UNCHANGED <<agentCall, displaced>>
    BY <2>2 DEF GatewaySame, GatewayInv, GatewayTypes, Gateway!Owns, Gateway!HasCall
  <2>. QED BY <1>2, <2>1, <2>2
<1>. QED BY <1>1, <1>3, GatewayKeeps

LEMMA GatewayUnchanged ==
  ASSUME GatewayInv, UNCHANGED Gateway!bffVars
  PROVE  GatewayInv'
BY DEF Gateway!bffVars, GatewayInv, GatewayTypes, FreshIsOwn, Gateway!Owns, Gateway!HasCall

LEMMA GatewayStep0 ==
  ASSUME GatewayInv, Gateway!Commanded \/ Gateway!Moves \/ Gateway!Shifts
  PROVE  GatewayInv'
<1>1. request' = request
  BY DEF Gateway!Commanded, Gateway!Moves, Gateway!Shifts
<1>2. GatewayNewer \/ GatewaySame
  BY GatewayEffect, GatewayMoves, GatewayShifts DEF GatewayInv, Gateway!Commanded
<1>3. CASE Commands = {}
  BY <1>1, <1>2, <1>3 DEF GatewayInv, GatewayTypes, FreshIsOwn, GatewayNewer, GatewaySame
<1>4. ASSUME NEW r \in Commands PROVE GatewayInv'
  BY <1>1, <1>2, GatewayKeeps
<1>. QED BY <1>3, <1>4

LEMMA GatewayNextInv ==
  ASSUME GatewayInv, [Gateway!Next]_Gateway!bffVars
  PROVE  GatewayInv'
<1>1. ASSUME NEW r \in Commands, Gateway!Lost(r) PROVE GatewayInv'
  <2>1. GatewaySame
    BY <1>1 DEF Gateway!Lost, GatewaySame, GatewayInv, GatewayTypes, Gateway!Owns, Gateway!HasCall
  <2>2. request' \in {request, [request EXCEPT ![r] = Gateway!Out]}
    BY <1>1 DEF Gateway!Lost
  <2>. QED BY <2>1, <2>2, GatewayKeeps
<1>. QED BY <1>1, GatewayUnchanged, GatewayStep0, GatewayPrepareStep, GatewayExecuteStep DEF Gateway!Next

LEMMA GatewayHolds == Gateway!Spec => []GatewayInv
BY GatewayInitInv, GatewayNextInv, PTL DEF Gateway!Spec

\* For any agents, requests and versions of the call: a command that brings the
\* version it was checked on to the switch takes effect for an agent who has the
\* call or has lost it in that version, and an answer or a refusal for the one
\* the call is offered to.
THEOREM OwnCallOnly == Gateway!Spec => Gateway!OnlyItsOwnCall
<1> DEFINE Own(r) == \/ Gateway!Owns(request[r].agent)
                     \/ /\ Gateway!Versioned(request[r].op)
                        /\ Gateway!Carried(request[r].op) => request[r].agent \in displaced
<1>1. ASSUME GatewayInv, Gateway!Next, NEW r \in Commands, Gateway!Applied(r)
      PROVE  Own(r)
  <2>0. request \in [Commands -> GatewayRequest] /\ request'[r] # request[r] /\ agentCall' # agentCall
    BY <1>1 DEF Gateway!Applied, Gateway!Out, GatewayInv, GatewayTypes
  <2>1. CASE \E q \in Commands, a \in Agents, op \in Gateway!Ops : Gateway!Prepare(q, a, op)
    BY <2>0, <2>1 DEF Gateway!Prepare
  <2>2. CASE \E q \in Commands : Gateway!Lost(q)
    BY <2>0, <2>2 DEF Gateway!Lost
  <2>3. CASE Gateway!Commanded \/ Gateway!Moves \/ Gateway!Shifts
    BY <2>0, <2>3 DEF Gateway!Commanded, Gateway!Moves, Gateway!Shifts
  <2>4. ASSUME NEW q \in Commands, Gateway!Execute(q) PROVE Own(r)
    <3>1. q = r
      BY <2>0, <2>4 DEF Gateway!Execute
    <3>2. Gateway!GuardPasses(r) /\ Gateway!Accepts(request[r].op, request[r].agent)
          /\ Gateway!Effect(request[r].op, request[r].agent)
      BY <2>0, <2>4, <3>1 DEF Gateway!Execute
    <3>3. request[r].op \in Gateway!Ops /\ request[r].op # "dtmf"
      BY <2>0, <3>2 DEF GatewayRequest, Gateway!Effect
    <3>4. CASE request[r].op \in {"answer", "decline"}
      <4>1. agentCall.offered = request[r].agent
        BY <3>2, <3>4 DEF Gateway!Accepts
      <4>. QED BY <4>1 DEF Gateway!Owns, Gateway!HasCall
    <3>5. CASE Gateway!Versioned(request[r].op)
      <4>1. CASE Gateway!Carried(request[r].op)
        <5>1. /\ request[r].at = "sent" /\ request[r].expected = request[r].read /\ request[r].read > 0
              /\ request[r].read \in Nat
              /\ request[r].read = agentCall.version =>
                   Gateway!Owns(request[r].agent) \/ request[r].agent \in displaced
          BY <1>1, <2>0, <3>5, <4>1 DEF Gateway!Applied, GatewayInv, FreshIsOwn, GatewayRequest
        <5>2. request[r].read = agentCall.version
          BY <3>2, <5>1 DEF Gateway!GuardPasses
        <5>. QED BY <3>5, <5>1, <5>2
      <4>2. CASE ~Gateway!Carried(request[r].op)
        BY <3>5, <4>2
      <4>. QED BY <4>1, <4>2
    <3>. QED BY <3>3, <3>4, <3>5 DEF Gateway!Ops, Gateway!Versioned
  <2>. QED BY <1>1, <2>1, <2>2, <2>3, <2>4 DEF Gateway!Next
<1>2. GatewayInv /\ [Gateway!Next]_Gateway!bffVars =>
        [\A r \in Commands : Gateway!Applied(r) =>
           \/ Gateway!Owns(request[r].agent)
           \/ Gateway!Versioned(request[r].op) /\ (Gateway!Carried(request[r].op) => request[r].agent \in displaced)]_Gateway!bffVars
  BY <1>1
<1>. QED BY <1>2, GatewayHolds, PTL DEF Gateway!Spec, Gateway!OnlyItsOwnCall

---------------------------------------------------------------------------

(***************************************************************************)
(* SingleSignOn for any people, accounts and requests.  The properties     *)
(* speak of the rows and of the sessions made; between the two stand a     *)
(* callback and a ticket.  OnceEach says that a state is in one place: in  *)
(* its row, with one callback, in its ticket or in a session.  OwnEach     *)
(* says that a callback and a ticket name an account that was bound to     *)
(* the subject.                                                            *)
(***************************************************************************)

SignOnAsking == [at: {"claims", "new"}, f: States, s: Subjects, n: Names]
SignOnKnowing == [at: {"account"}, f: States, s: Subjects, a: Accounts]
SignOnTicket == [at: {"open"}, s: Subjects, a: Accounts]
SignOnSession == [state: States, subject: Subjects, account: Accounts]

SignOnTypes ==
  /\ flow \in [States -> {"none", "open", "gone"}]
  /\ callback \in [Callbacks -> {SignOn!Idle} \cup SignOnAsking \cup SignOnKnowing]
  /\ name \in [Accounts -> Names \cup {NoName}]
  /\ identity \subseteq Subjects \X Accounts /\ everBound \subseteq Subjects \X Accounts
  /\ ticket \in [States -> {SignOn!NoTicket} \cup SignOnTicket]
  /\ signedIn \in Seq(SignOnSession)

\* A state that a callback has taken is with it alone; one in a ticket has no
\* callback; one that made a session is nowhere else.
SignOnOnceEach ==
  /\ \A c \in Callbacks : callback[c] # SignOn!Idle =>
       /\ flow[callback[c].f] = "gone" /\ ticket[callback[c].f] = SignOn!NoTicket
       /\ \A d \in Callbacks : callback[d] # SignOn!Idle /\ callback[d].f = callback[c].f => d = c
       /\ \A i \in DOMAIN signedIn : signedIn[i].state # callback[c].f
  /\ \A f \in States : ticket[f] # SignOn!NoTicket =>
       flow[f] = "gone" /\ \A i \in DOMAIN signedIn : signedIn[i].state # f
  /\ \A i \in DOMAIN signedIn : flow[signedIn[i].state] = "gone"

\* Whoever is about to come into an account has had it.
SignOnOwnEach ==
  /\ identity \subseteq everBound
  /\ \A c \in Callbacks : callback[c].at = "account" => <<callback[c].s, callback[c].a>> \in everBound
  /\ \A f \in States : ticket[f] # SignOn!NoTicket => <<ticket[f].s, ticket[f].a>> \in everBound

SignOnInv == SignOnTypes /\ SignOnOnceEach /\ SignOnOwnEach /\ SignOn!OneAccount /\ SignOn!SignedInOnce /\ SignOn!OnlyOwnAccount

LEMMA SignOnInitInv == NoName \notin Names /\ SignOn!Init => SignOnInv
<1> SUFFICES ASSUME NoName \notin Names, SignOn!Init PROVE SignOnInv
  OBVIOUS
<1> USE DEF SignOn!Init
<1>1. SignOnTypes /\ SignOnOwnEach
  BY DEF SignOnTypes, SignOnOwnEach, SignOn!Idle
<1>2. SignOnOnceEach /\ SignOn!SignedInOnce /\ SignOn!OnlyOwnAccount
  BY DEF SignOnOnceEach, SignOn!SignedInOnce, SignOn!OnlyOwnAccount
<1>3. SignOn!OneAccount
  BY DEF SignOn!OneAccount
<1>. QED BY <1>1, <1>2, <1>3 DEF SignOnInv

\* A state is handed out.
LEMMA SignOnStartStep ==
  ASSUME SignOnInv, NEW f \in States, SignOn!Start(f)
  PROVE  SignOnInv'
<1>1. /\ flow[f] = "none" /\ flow' = [flow EXCEPT ![f] = "open"]
      /\ UNCHANGED <<callback, name, identity, ticket, signedIn, everBound, adminBinds>>
  BY DEF SignOn!Start
<1>2. SignOnTypes' /\ SignOnOwnEach' /\ SignOn!OneAccount' /\ SignOn!SignedInOnce' /\ SignOn!OnlyOwnAccount'
  BY <1>1
     DEF SignOnInv, SignOnTypes, SignOnOwnEach, SignOn!OneAccount, SignOn!SignedInOnce,
         SignOn!OnlyOwnAccount
<1>3. SignOnOnceEach'
  BY <1>1
     DEF SignOnInv, SignOnTypes, SignOnOnceEach, SignOn!Idle, SignOnAsking, SignOnKnowing,
         SignOnSession, SignOn!NoTicket
<1>. QED BY <1>2, <1>3 DEF SignOnInv

\* A callback takes a state, which no callback, ticket or session can have.
LEMMA SignOnTakeFlowStep ==
  ASSUME SignOnInv, NEW c \in Callbacks, NEW f \in States, SignOn!TakeFlow(c, f)
  PROVE  SignOnInv'
<1>1. /\ callback[c].at = "idle" /\ flow[f] = "open" /\ flow' = [flow EXCEPT ![f] = "gone"]
      /\ UNCHANGED <<name, identity, ticket, signedIn, everBound, adminBinds>>
  BY DEF SignOn!TakeFlow, SignOn!Consumed
<1>2. /\ ticket[f] = SignOn!NoTicket
      /\ \A d \in Callbacks : callback[d] # SignOn!Idle => callback[d].f # f
      /\ \A i \in DOMAIN signedIn : signedIn[i].state # f
  BY <1>1 DEF SignOnInv, SignOnOnceEach
<1>3. SignOn!OneAccount' /\ SignOn!SignedInOnce' /\ SignOn!OnlyOwnAccount'
  BY <1>1 DEF SignOnInv, SignOn!OneAccount, SignOn!SignedInOnce, SignOn!OnlyOwnAccount
<1>4. CASE UNCHANGED callback
  <2>1. SignOnTypes' /\ SignOnOwnEach'
    BY <1>1, <1>4 DEF SignOnInv, SignOnTypes, SignOnOwnEach
  <2>2. SignOnOnceEach'
    BY <1>1, <1>2, <1>4
       DEF SignOnInv, SignOnTypes, SignOnOnceEach, SignOn!Idle, SignOnAsking, SignOnKnowing,
           SignOnSession
  <2>. QED BY <1>3, <2>1, <2>2 DEF SignOnInv
<1>5. CASE \E x \in SignOn!Claims : callback' = [callback EXCEPT ![c] = [at |-> "claims", f |-> f, s |-> x.s, n |-> x.n]]
  <2>1. PICK y \in SignOnAsking : y.f = f /\ y.at = "claims" /\ callback' = [callback EXCEPT ![c] = y]
    BY <1>5 DEF SignOn!Claims, SignOnAsking
  <2>2. SignOnTypes' /\ SignOnOwnEach'
    BY <1>1, <2>1 DEF SignOnInv, SignOnTypes, SignOnOwnEach
  <2>3. SignOnOnceEach'
    BY <1>1, <1>2, <2>1
       DEF SignOnInv, SignOnTypes, SignOnOnceEach, SignOn!Idle, SignOnAsking, SignOnKnowing,
           SignOnSession
  <2>. QED BY <1>3, <2>2, <2>3 DEF SignOnInv
<1>. QED BY <1>4, <1>5 DEF SignOn!TakeFlow

\* A callback goes on with its state, or drops it.
LEMMA SignOnMovesOn ==
  ASSUME SignOnTypes, SignOnOnceEach, NEW c \in Callbacks, callback[c] # SignOn!Idle,
         NEW y \in {SignOn!Idle} \cup SignOnAsking \cup SignOnKnowing, y # SignOn!Idle => y.f = callback[c].f,
         callback' = [callback EXCEPT ![c] = y],
         UNCHANGED <<flow, ticket, signedIn>>
  PROVE  SignOnOnceEach'
BY DEF SignOnTypes, SignOnOnceEach

LEMMA SignOnEndsKeeps ==
  ASSUME SignOnInv, NEW c \in Callbacks, callback[c] # SignOn!Idle, SignOn!Ends(c),
         UNCHANGED <<flow, name, identity, ticket, signedIn, everBound>>
  PROVE  SignOnInv'
<1>1. callback' = [callback EXCEPT ![c] = SignOn!Idle]
  BY DEF SignOn!Ends
<1>2. SignOnOnceEach'
  BY <1>1, SignOnMovesOn DEF SignOnInv
<1>3. SignOnTypes' /\ SignOnOwnEach'
  BY <1>1 DEF SignOnInv, SignOnTypes, SignOnOwnEach, SignOn!Idle
<1>. QED BY <1>2, <1>3
   DEF SignOnInv, SignOn!OneAccount, SignOn!SignedInOnce, SignOn!OnlyOwnAccount

\* The account of the identity is found, or it is looked for no longer.
LEMMA SignOnFindStep ==
  ASSUME SignOnInv, NEW c \in Callbacks, SignOn!FindUser(c)
  PROVE  SignOnInv'
<1> DEFINE r == callback[c]
<1>1. r \in SignOnAsking /\ r.at = "claims" /\ r # SignOn!Idle
  <2>1. r.at = "claims"
    BY DEF SignOn!FindUser
  <2>. QED BY <2>1 DEF SignOnInv, SignOnTypes, SignOn!Idle, SignOnKnowing
<1>2. UNCHANGED <<flow, name, identity, ticket, signedIn, everBound, adminBinds>>
  BY DEF SignOn!FindUser
<1>3. SignOn!OneAccount' /\ SignOn!SignedInOnce' /\ SignOn!OnlyOwnAccount'
  BY <1>2 DEF SignOnInv, SignOn!OneAccount, SignOn!SignedInOnce, SignOn!OnlyOwnAccount
<1>4. \/ \E a \in Accounts : /\ SignOn!Found(r.s, r.n, a)
                             /\ callback' = [callback EXCEPT ![c] =
                                  [at |-> "account", f |-> @.f, s |-> r.s, a |-> a]]
      \/ SignOn!Ends(c)
      \/ callback' = [callback EXCEPT ![c].at = "new"]
  BY DEF SignOn!FindUser
<1>5. CASE \E a \in Accounts : /\ SignOn!Found(r.s, r.n, a)
                               /\ callback' = [callback EXCEPT ![c] =
                                    [at |-> "account", f |-> @.f, s |-> r.s, a |-> a]]
  <2>1. PICK a \in Accounts : /\ <<r.s, a>> \in everBound
                              /\ callback' = [callback EXCEPT ![c] =
                                   [at |-> "account", f |-> r.f, s |-> r.s, a |-> a]]
    BY <1>5 DEF SignOnInv, SignOnOwnEach, SignOn!Found, SignOn!BoundTo, SignOnTypes
  <2>2. [at |-> "account", f |-> r.f, s |-> r.s, a |-> a] \in SignOnKnowing
    BY <1>1 DEF SignOnAsking, SignOnKnowing
  <2>3. SignOnOnceEach'
    BY <1>1, <1>2, <2>1, <2>2, SignOnMovesOn DEF SignOnInv
  <2>4. SignOnTypes' /\ SignOnOwnEach'
    BY <1>2, <2>1, <2>2 DEF SignOnInv, SignOnTypes, SignOnOwnEach
  <2>. QED BY <1>3, <2>3, <2>4 DEF SignOnInv
<1>6. CASE SignOn!Ends(c)
  BY <1>1, <1>2, <1>6, SignOnEndsKeeps
<1>7. CASE callback' = [callback EXCEPT ![c].at = "new"]
  <2>1. /\ callback' = [callback EXCEPT ![c] = [r EXCEPT !.at = "new"]]
        /\ [r EXCEPT !.at = "new"] \in SignOnAsking /\ [r EXCEPT !.at = "new"].f = r.f
    BY <1>1, <1>7 DEF SignOnAsking
  <2>2. SignOnOnceEach'
    BY <1>1, <1>2, <2>1, SignOnMovesOn DEF SignOnInv
  <2>3. SignOnTypes' /\ SignOnOwnEach'
    BY <1>2, <2>1 DEF SignOnInv, SignOnTypes, SignOnOwnEach
  <2>. QED BY <1>3, <2>2, <2>3 DEF SignOnInv
<1>. QED BY <1>4, <1>5, <1>6, <1>7

\* An account is made, under a name and for an identity that none has.
LEMMA SignOnCreateStep ==
  ASSUME NoName \notin Names, SignOnInv, NEW c \in Callbacks, SignOn!CreateUser(c)
  PROVE  SignOnInv'
<1> DEFINE r == callback[c]
<1>1. r \in SignOnAsking /\ r # SignOn!Idle /\ UNCHANGED <<flow, ticket, signedIn, adminBinds>>
  <2>1. r.at = "new" /\ UNCHANGED <<flow, ticket, signedIn, adminBinds>>
    BY DEF SignOn!CreateUser
  <2>. QED BY <2>1 DEF SignOnInv, SignOnTypes, SignOn!Idle, SignOnKnowing
<1>2. CASE ~SignOn!Free(r.s, r.n)
  <2>1. SignOn!Ends(c) /\ UNCHANGED <<name, identity, everBound>>
    BY <1>2 DEF SignOn!CreateUser
  <2>. QED BY <1>1, <2>1, SignOnEndsKeeps
<1>3. CASE SignOn!Free(r.s, r.n)
  <2>1. PICK a \in Accounts :
          /\ name[a] = NoName /\ name' = [name EXCEPT ![a] = r.n]
          /\ identity' = identity \cup {<<r.s, a>>} /\ everBound' = everBound \cup {<<r.s, a>>}
          /\ callback' = [callback EXCEPT ![c] = [at |-> "account", f |-> r.f, s |-> r.s, a |-> a]]
    BY <1>3 DEF SignOn!CreateUser
  <2>2. [at |-> "account", f |-> r.f, s |-> r.s, a |-> a] \in SignOnKnowing /\ r.n \in Names
    BY <1>1 DEF SignOnAsking, SignOnKnowing
  <2>3. SignOnOnceEach'
    BY <1>1, <2>1, <2>2, SignOnMovesOn DEF SignOnInv
  <2>4. SignOnTypes'
    BY <1>1, <2>1, <2>2 DEF SignOnInv, SignOnTypes, SignOnKnowing
  <2>5. SignOnOwnEach'
    BY <1>1, <2>1 DEF SignOnInv, SignOnTypes, SignOnOwnEach
  <2>6. \A b \in Accounts : name[b] # r.n /\ <<r.s, b>> \notin identity
    BY <1>3 DEF SignOn!Free, SignOn!BoundTo
  <2>7. SignOn!OneAccount'
    <3>1. \A x, y \in Accounts : x # y /\ name'[x] # NoName => name'[x] # name'[y]
      BY <2>1, <2>2, <2>6 DEF SignOnInv, SignOnTypes, SignOn!OneAccount
    <3>2. \A q \in identity : q[1] # r.s
      BY <2>6 DEF SignOnInv, SignOnTypes
    <3>3. \A p, q \in identity' : p[1] = q[1] => p = q
      BY <2>1, <3>2 DEF SignOnInv, SignOn!OneAccount
    <3>. QED BY <3>1, <3>3 DEF SignOn!OneAccount
  <2>8. SignOn!SignedInOnce' /\ SignOn!OnlyOwnAccount'
    BY <1>1, <2>1 DEF SignOnInv, SignOn!SignedInOnce, SignOn!OnlyOwnAccount
  <2>. QED BY <2>3, <2>4, <2>5, <2>7, <2>8 DEF SignOnInv
<1>. QED BY <1>2, <1>3

LEMMA SignOnRefuseStep ==
  ASSUME SignOnInv, NEW c \in Callbacks, SignOn!Refuse(c)
  PROVE  SignOnInv'
<1>1. callback[c].at = "account" /\ SignOn!Ends(c)
      /\ UNCHANGED <<flow, name, identity, ticket, signedIn, everBound>>
  BY DEF SignOn!Refuse
<1>2. callback[c] # SignOn!Idle
  BY <1>1 DEF SignOn!Idle
<1>. QED BY <1>1, <1>2, SignOnEndsKeeps

\* The state goes from the callback into its ticket.
LEMMA SignOnGiveTicketStep ==
  ASSUME SignOnInv, NEW c \in Callbacks, SignOn!GiveTicket(c)
  PROVE  SignOnInv'
<1> DEFINE r == callback[c]
           t == [at |-> "open", s |-> r.s, a |-> r.a]
<1>1. /\ r.at = "account" /\ callback' = [callback EXCEPT ![c] = SignOn!Idle]
      /\ ticket' = [ticket EXCEPT ![r.f] = t]
      /\ UNCHANGED <<flow, name, identity, signedIn, everBound, adminBinds>>
  BY DEF SignOn!GiveTicket, SignOn!Ends
<1>2. r \in SignOnKnowing /\ r # SignOn!Idle
  BY <1>1 DEF SignOnInv, SignOnTypes, SignOn!Idle, SignOnAsking
<1>3. t \in SignOnTicket /\ r.f \in States /\ <<r.s, r.a>> \in everBound
  BY <1>1, <1>2 DEF SignOnInv, SignOnOwnEach, SignOnKnowing, SignOnTicket
<1>4. SignOnTypes'
  BY <1>1, <1>3 DEF SignOnInv, SignOnTypes, SignOn!Idle
<1>5. SignOnOnceEach'
  <2>1. /\ flow[r.f] = "gone" /\ \A i \in DOMAIN signedIn : signedIn[i].state # r.f
        /\ \A d \in Callbacks : callback[d] # SignOn!Idle /\ callback[d].f = r.f => d = c
    BY <1>2 DEF SignOnInv, SignOnOnceEach
  <2>2. \A d \in Callbacks : callback'[d] # SignOn!Idle =>
          callback'[d] = callback[d] /\ callback[d] # SignOn!Idle /\ callback[d].f # r.f
    BY <1>1, <2>1 DEF SignOnInv, SignOnTypes
  <2>3. \A f \in States : f # r.f => ticket'[f] = ticket[f]
    BY <1>1 DEF SignOnInv, SignOnTypes
  <2>4. \A d \in Callbacks : callback'[d] # SignOn!Idle => ticket'[callback'[d].f] = SignOn!NoTicket
    <3> SUFFICES ASSUME NEW d \in Callbacks, callback'[d] # SignOn!Idle
                 PROVE  ticket'[callback'[d].f] = SignOn!NoTicket
      OBVIOUS
    <3>1. callback'[d] = callback[d] /\ callback[d] # SignOn!Idle /\ callback[d].f # r.f
      BY <2>2
    <3>2. callback[d].f \in States
      BY <3>1 DEF SignOnInv, SignOnTypes, SignOnAsking, SignOnKnowing
    <3>. QED BY <2>3, <3>1, <3>2 DEF SignOnInv, SignOnOnceEach
  <2>5. \A f \in States : ticket'[f] # SignOn!NoTicket =>
          flow[f] = "gone" /\ \A i \in DOMAIN signedIn : signedIn[i].state # f
    BY <2>1, <2>3 DEF SignOnInv, SignOnOnceEach
  <2>6. \A d \in Callbacks : callback'[d] # SignOn!Idle =>
          /\ flow[callback'[d].f] = "gone"
          /\ \A e \in Callbacks : callback'[e] # SignOn!Idle /\ callback'[e].f = callback'[d].f => e = d
          /\ \A i \in DOMAIN signedIn : signedIn[i].state # callback'[d].f
    BY <2>2 DEF SignOnInv, SignOnOnceEach
  <2>7. \A i \in DOMAIN signedIn : flow[signedIn[i].state] = "gone"
    BY DEF SignOnInv, SignOnOnceEach
  <2>. QED BY <1>1, <2>4, <2>5, <2>6, <2>7 DEF SignOnOnceEach
<1>6. SignOnOwnEach'
  <2>1. \A f \in States : f # r.f => ticket'[f] = ticket[f]
    BY <1>1 DEF SignOnInv, SignOnTypes
  <2>2. ticket'[r.f] = t
    BY <1>1, <1>3 DEF SignOnInv, SignOnTypes
  <2>3. \A f \in States : ticket'[f] # SignOn!NoTicket => <<ticket'[f].s, ticket'[f].a>> \in everBound
    BY <1>3, <2>1, <2>2 DEF SignOnInv, SignOnOwnEach
  <2>4. \A d \in Callbacks : callback'[d].at = "account" =>
          <<callback'[d].s, callback'[d].a>> \in everBound
    BY <1>1 DEF SignOnInv, SignOnTypes, SignOnOwnEach, SignOn!Idle
  <2>. QED BY <1>1, <2>3, <2>4 DEF SignOnInv, SignOnOwnEach
<1>7. SignOn!OneAccount' /\ SignOn!SignedInOnce' /\ SignOn!OnlyOwnAccount'
  BY <1>1 DEF SignOnInv, SignOn!OneAccount, SignOn!SignedInOnce, SignOn!OnlyOwnAccount
<1>. QED BY <1>4, <1>5, <1>6, <1>7 DEF SignOnInv

\* The ticket becomes a session, or nothing.
LEMMA SignOnExchangeStep ==
  ASSUME SignOnInv, NEW f \in States, SignOn!Exchange(f)
  PROVE  SignOnInv'
<1> DEFINE x == [state |-> f, subject |-> ticket[f].s, account |-> ticket[f].a]
<1>1. /\ ticket[f] # SignOn!NoTicket /\ ticket' = [ticket EXCEPT ![f] = SignOn!NoTicket]
      /\ signedIn' \in {signedIn, Append(signedIn, x)}
      /\ UNCHANGED <<flow, callback, name, identity, everBound, adminBinds>>
  BY DEF SignOn!Exchange, SignOn!NoTicket
<1>2. /\ x \in SignOnSession /\ x.state = f
      /\ <<x.subject, x.account>> \in everBound
  BY <1>1 DEF SignOnInv, SignOnTypes, SignOnOwnEach, SignOnTicket, SignOnSession
<1>3. /\ \A c \in Callbacks : callback[c] # SignOn!Idle => callback[c].f # f
      /\ \A i \in DOMAIN signedIn : signedIn[i].state # f
      /\ flow[f] = "gone"
  BY <1>1 DEF SignOnInv, SignOnOnceEach
<1> HIDE DEF x
<1>4. /\ signedIn' \in Seq(SignOnSession)
      /\ \A i \in DOMAIN signedIn' :
           \/ signedIn'[i] = x /\ i \notin DOMAIN signedIn
           \/ i \in DOMAIN signedIn /\ signedIn'[i] = signedIn[i]
      /\ signedIn' # signedIn =>
           \A i, j \in DOMAIN signedIn' : i # j => i \in DOMAIN signedIn \/ j \in DOMAIN signedIn
  <2>1. signedIn \in Seq(SignOnSession)
    BY DEF SignOnInv, SignOnTypes
  <2>2. CASE signedIn' = signedIn
    BY <2>1, <2>2
  <2>3. CASE signedIn' = Append(signedIn, x)
    BY <1>2, <2>1, <2>3, Longer
  <2>. QED BY <1>1, <2>2, <2>3
<1>5. \A i, j \in DOMAIN signedIn' : i # j => i \in DOMAIN signedIn \/ j \in DOMAIN signedIn
  BY <1>4
<1>6. SignOnTypes' /\ SignOnOwnEach'
  <2>1. SignOnTypes'
    BY <1>1, <1>4 DEF SignOnInv, SignOnTypes
  <2>2. SignOnOwnEach'
    BY <1>1 DEF SignOnInv, SignOnTypes, SignOnOwnEach
  <2>. QED BY <2>1, <2>2
<1>7. SignOnOnceEach'
  <2>1. \A c \in Callbacks : callback[c] # SignOn!Idle => callback[c].f \in States
    BY DEF SignOnInv, SignOnTypes, SignOnAsking, SignOnKnowing
  <2>2. \A c \in Callbacks : callback[c] # SignOn!Idle =>
          ticket'[callback[c].f] = SignOn!NoTicket /\ \A i \in DOMAIN signedIn' : signedIn'[i].state # callback[c].f
    BY <1>1, <1>2, <1>3, <1>4, <2>1 DEF SignOnInv, SignOnTypes, SignOnOnceEach
  <2>3. \A g \in States : ticket'[g] # SignOn!NoTicket =>
          flow[g] = "gone" /\ \A i \in DOMAIN signedIn' : signedIn'[i].state # g
    BY <1>1, <1>2, <1>4 DEF SignOnInv, SignOnTypes, SignOnOnceEach
  <2>4. \A i \in DOMAIN signedIn' : flow[signedIn'[i].state] = "gone"
    BY <1>2, <1>3, <1>4 DEF SignOnInv, SignOnOnceEach
  <2>5. \A c \in Callbacks : callback[c] # SignOn!Idle =>
          /\ flow[callback[c].f] = "gone"
          /\ \A d \in Callbacks : callback[d] # SignOn!Idle /\ callback[d].f = callback[c].f => d = c
    BY DEF SignOnInv, SignOnOnceEach
  <2>. QED BY <1>1, <2>2, <2>3, <2>4, <2>5 DEF SignOnOnceEach
<1>8. SignOn!SignedInOnce'
  <2> SUFFICES ASSUME NEW i \in DOMAIN signedIn', NEW j \in DOMAIN signedIn', i # j
               PROVE  signedIn'[i].state # signedIn'[j].state
    BY DEF SignOn!SignedInOnce
  <2>. QED BY <1>2, <1>3, <1>4, <1>5 DEF SignOnInv, SignOn!SignedInOnce
<1>9. SignOn!OnlyOwnAccount'
  BY <1>1, <1>2, <1>4 DEF SignOnInv, SignOn!OnlyOwnAccount
<1>10. SignOn!OneAccount'
  BY <1>1 DEF SignOnInv, SignOn!OneAccount
<1>. QED BY <1>6, <1>7, <1>8, <1>9, <1>10 DEF SignOnInv

\* The administrator changes who has which account.
LEMMA SignOnIdentityStep ==
  ASSUME SignOnInv, NEW a \in Accounts, NEW s \in Subjects, SignOn!BindIdentity(a, s) \/ SignOn!DeleteIdentity(a, s)
  PROVE  SignOnInv'
<1>1. UNCHANGED <<flow, callback, name, ticket, signedIn>>
  BY DEF SignOn!BindIdentity, SignOn!DeleteIdentity
<1>2. CASE SignOn!BindIdentity(a, s)
  <2>1. /\ \A p \in identity : p[1] # s
        /\ identity' = identity \cup {<<s, a>>} /\ everBound' = everBound \cup {<<s, a>>}
    BY <1>2 DEF SignOn!BindIdentity
  <2>2. SignOn!OneAccount'
    <3>1. \A p, q \in identity' : p[1] = q[1] => p = q
      BY <2>1 DEF SignOnInv, SignOn!OneAccount
    <3>. QED BY <1>1, <3>1 DEF SignOnInv, SignOn!OneAccount
  <2>. QED BY <1>1, <2>1, <2>2
       DEF SignOnInv, SignOnTypes, SignOnOnceEach, SignOnOwnEach, SignOn!SignedInOnce, SignOn!OnlyOwnAccount
<1>3. CASE SignOn!DeleteIdentity(a, s)
  <2>1. identity' = identity \ {<<s, a>>} /\ UNCHANGED everBound
    BY <1>3 DEF SignOn!DeleteIdentity
  <2>. QED BY <1>1, <2>1
     DEF SignOnInv, SignOnTypes, SignOnOnceEach, SignOnOwnEach, SignOn!OneAccount,
         SignOn!SignedInOnce, SignOn!OnlyOwnAccount
<1>. QED BY <1>2, <1>3

LEMMA SignOnInductive == NoName \notin Names /\ SignOnInv /\ [SignOn!Next]_SignOn!ssoVars => SignOnInv'
<1> SUFFICES ASSUME NoName \notin Names, SignOnInv, [SignOn!Next]_SignOn!ssoVars PROVE SignOnInv'
  OBVIOUS
<1>1. CASE UNCHANGED SignOn!ssoVars
  BY <1>1
     DEF SignOn!ssoVars, SignOnInv, SignOnTypes, SignOnOnceEach, SignOnOwnEach,
         SignOn!OneAccount, SignOn!SignedInOnce, SignOn!OnlyOwnAccount
<1>2. CASE SignOn!Next
  BY <1>2, SignOnStartStep, SignOnTakeFlowStep, SignOnFindStep, SignOnCreateStep,
     SignOnRefuseStep, SignOnGiveTicketStep,
     SignOnExchangeStep, SignOnIdentityStep DEF SignOn!Next
<1>. QED BY <1>1, <1>2

LEMMA SignOnHolds == SignOn!Spec => []SignOnInv
<1>1. SignOn!Init => SignOnInv
  BY SignOnInitInv, EdgesAssumption
<1>2. SignOnInv /\ [SignOn!Next]_SignOn!ssoVars => SignOnInv'
  BY SignOnInductive, EdgesAssumption
<1>. QED BY <1>1, <1>2, PTL DEF SignOn!Spec

\* For any people, accounts and sign-ins at a time: no name has two accounts
\* and no identity two.
THEOREM OnePersonOneAccount == SignOn!Spec => []SignOn!OneAccount
<1>1. SignOnInv => SignOn!OneAccount
  BY DEF SignOnInv
<1>. QED BY <1>1, SignOnHolds, PTL

\* For any states, callbacks and tickets: one sign-in at the provider makes at
\* most one session.
THEOREM OneSessionForAState == SignOn!Spec => []SignOn!SignedInOnce
<1>1. SignOnInv => SignOn!SignedInOnce
  BY DEF SignOnInv
<1>. QED BY <1>1, SignOnHolds, PTL

\* For any names that the provider gives: nobody comes into an account that
\* was never bound to them.
THEOREM NobodyElsesAccount == SignOn!Spec => []SignOn!OnlyOwnAccount
<1>1. SignOnInv => SignOn!OnlyOwnAccount
  BY DEF SignOnInv
<1>. QED BY <1>1, SignOnHolds, PTL

---------------------------------------------------------------------------

(***************************************************************************)
(* GuestEntry for any tokens, visitors and number of calls.  SameCall says *)
(* nothing of a visitor whose call is started and not yet stored; Inv adds *)
(* that such a visitor holds the row of the token and that the row names   *)
(* no call yet, so that nobody can have landed.                            *)
(***************************************************************************)

GuestTypes ==
  /\ pass \in [Tokens -> [at: {"none", "issued", "expired"}, call: Nat]]
  /\ holder \in [Tokens -> Visitors \cup {NoVisitor}]
  /\ visit \in [Visitors -> {Guests!Away} \cup [at: {"start"}, token: Tokens]
                                   \cup [at: {"commit"}, token: Tokens, call: Nat \ {0}]]
  /\ landed \in [Tokens -> SUBSET Nat]
  /\ started \in Nat

\* Who has asked the switch for a call holds the row, and the row names none.
HolderAlone ==
  \A v \in Visitors : visit[v] # Guests!Away =>
    holder[visit[v].token] = v /\ pass[visit[v].token].call = 0

\* Visitors have landed in the call that the row names and in no other.
LandedAsStored ==
  \A t \in Tokens : landed[t] \subseteq {pass[t].call} \ {0}

GuestInv == GuestTypes /\ HolderAlone /\ LandedAsStored

LEMMA GuestInitInv == Guests!Init => GuestInv
BY DEF Guests!Init, GuestInv, GuestTypes, HolderAlone, LandedAsStored

\* A token is issued or is past its time.
LEMMA GuestTokenStep ==
  ASSUME GuestInv, NEW t \in Tokens, Guests!CreateSession(t) \/ Guests!Expires(t)
  PROVE  GuestInv'
<1>1. /\ UNCHANGED <<holder, visit, started, landed>>
      /\ \E a \in {"issued", "expired"} : pass' = [pass EXCEPT ![t].at = a]
  BY DEF Guests!CreateSession, Guests!Expires
<1>. QED BY <1>1 DEF GuestInv, GuestTypes, HolderAlone, LandedAsStored

\* A visitor brings a token whose row nobody holds.
LEMMA GuestJoinStep ==
  ASSUME NoVisitor \notin Visitors, GuestInv,
         NEW v \in Visitors, NEW t \in Tokens, Guests!JoinByToken(v, t)
  PROVE  GuestInv'
<1> USE DEF GuestInv, Guests!JoinByToken
<1>1. CASE pass[t].call # 0
  <2>1. /\ landed' = [landed EXCEPT ![t] = @ \union {pass[t].call}]
        /\ UNCHANGED <<pass, holder, visit, started>>
    BY <1>1
  <2>. QED BY <1>1, <2>1 DEF GuestTypes, HolderAlone, LandedAsStored
<1>2. CASE pass[t].call = 0
  <2>1. /\ holder' = [holder EXCEPT ![t] = v]
        /\ visit' = [visit EXCEPT ![v] = [at |-> "start", token |-> t]]
        /\ UNCHANGED <<pass, started, landed>>
    BY <1>2
  <2>2. \A w \in Visitors : visit[w] # Guests!Away => visit[w].token # t
    BY DEF HolderAlone, Guests!Unlocked
  <2>3. GuestTypes'
    BY <2>1 DEF GuestTypes
  <2>4. HolderAlone'
    BY <1>2, <2>1, <2>2 DEF GuestTypes, HolderAlone, Guests!Away
  <2>5. LandedAsStored'
    BY <2>1 DEF LandedAsStored
  <2>. QED BY <2>3, <2>4, <2>5
<1>. QED BY <1>1, <1>2

\* The visitor's transaction ends and gives the row back.
LEMMA GuestLeaves ==
  ASSUME GuestInv, NEW v \in Visitors, visit[v] # Guests!Away,
         holder' = Guests!Released(v, visit[v].token), visit' = [visit EXCEPT ![v] = Guests!Away]
  PROVE  /\ holder' \in [Tokens -> Visitors \cup {NoVisitor}]
         /\ visit' \in [Visitors -> {Guests!Away} \cup [at: {"start"}, token: Tokens]
                                           \cup [at: {"commit"}, token: Tokens, call: Nat \ {0}]]
         /\ \A w \in Visitors : visit'[w] # Guests!Away =>
              /\ w # v /\ visit'[w] = visit[w] /\ holder'[visit[w].token] = w
              /\ visit[w].token # visit[v].token
<1>1. visit[v].token \in Tokens /\ holder[visit[v].token] = v
  BY DEF GuestInv, GuestTypes, HolderAlone, Guests!Away
<1>2. \A w \in Visitors : visit[w] # Guests!Away => visit[w].token \in Tokens /\ holder[visit[w].token] = w
  BY DEF GuestInv, GuestTypes, HolderAlone, Guests!Away
<1>3. visit' \in [Visitors -> {Guests!Away} \cup [at: {"start"}, token: Tokens]
                                     \cup [at: {"commit"}, token: Tokens, call: Nat \ {0}]]
  BY DEF GuestInv, GuestTypes
<1>4. /\ \A w \in Visitors \ {v} : visit'[w] = visit[w]
      /\ visit'[v] = Guests!Away
  BY DEF GuestInv, GuestTypes
<1>5. /\ holder' \in [Tokens -> Visitors \cup {NoVisitor}]
      /\ \A t \in Tokens \ {visit[v].token} : holder'[t] = holder[t]
  BY <1>1 DEF GuestInv, GuestTypes, Guests!Released
<1>. QED BY <1>1, <1>2, <1>3, <1>4, <1>5

\* The switch answers or does not.
LEMMA GuestSwitchStep ==
  ASSUME NoVisitor \notin Visitors, MaxCalls \in Nat, GuestInv, NEW v \in Visitors,
         Guests!Starts(v) \/ Guests!StartFails(v)
  PROVE  GuestInv'
<1> USE DEF GuestInv
<1>1. CASE Guests!Starts(v)
  <2>1. visit[v] # Guests!Away /\ visit[v].token \in Tokens
    BY <1>1 DEF Guests!Starts, GuestTypes, Guests!Away
  <2>2. GuestTypes'
    BY <1>1, <2>1 DEF Guests!Starts, GuestTypes
  <2>3. HolderAlone'
    BY <1>1, <2>1 DEF Guests!Starts, GuestTypes, HolderAlone
  <2>4. LandedAsStored'
    BY <1>1 DEF Guests!Starts, LandedAsStored
  <2>. QED BY <2>2, <2>3, <2>4
<1>2. CASE Guests!StartFails(v)
  <2>1. visit[v] # Guests!Away
    BY <1>2 DEF Guests!StartFails, Guests!Away
  <2>2. /\ holder' = Guests!Released(v, visit[v].token) /\ visit' = [visit EXCEPT ![v] = Guests!Away]
        /\ started' \in {started, started + 1} /\ UNCHANGED <<pass, landed>>
    BY <1>2 DEF Guests!StartFails
  <2>3. /\ holder' \in [Tokens -> Visitors \cup {NoVisitor}]
        /\ visit' \in [Visitors -> {Guests!Away} \cup [at: {"start"}, token: Tokens]
                                          \cup [at: {"commit"}, token: Tokens, call: Nat \ {0}]]
        /\ \A w \in Visitors : visit'[w] # Guests!Away =>
             visit'[w] = visit[w] /\ holder'[visit[w].token] = w
    BY <2>1, <2>2, GuestLeaves
  <2>4. GuestTypes'
    BY <2>2, <2>3 DEF GuestTypes
  <2>5. HolderAlone'
    BY <2>2, <2>3 DEF HolderAlone
  <2>6. LandedAsStored'
    BY <2>2 DEF LandedAsStored
  <2>. QED BY <2>4, <2>5, <2>6
<1>. QED BY <1>1, <1>2

\* The transaction of the visitor commits or does not.
LEMMA GuestCommitStep ==
  ASSUME GuestInv, NEW v \in Visitors, Guests!Commits(v) \/ Guests!CommitFails(v)
  PROVE  GuestInv'
<1> USE DEF GuestInv
<1>1. visit[v] # Guests!Away /\ visit[v].token \in Tokens /\ visit[v].call \in Nat \ {0}
  BY DEF Guests!Commits, Guests!CommitFails, GuestTypes, Guests!Away
<1>2. holder' = Guests!Released(v, visit[v].token) /\ visit' = [visit EXCEPT ![v] = Guests!Away]
  BY DEF Guests!Commits, Guests!CommitFails
<1>3. /\ holder' \in [Tokens -> Visitors \cup {NoVisitor}]
      /\ visit' \in [Visitors -> {Guests!Away} \cup [at: {"start"}, token: Tokens]
                                        \cup [at: {"commit"}, token: Tokens, call: Nat \ {0}]]
      /\ \A w \in Visitors : visit'[w] # Guests!Away =>
           /\ w # v /\ visit'[w] = visit[w] /\ holder'[visit[w].token] = w
           /\ visit[w].token # visit[v].token
  BY <1>1, <1>2, GuestLeaves
<1>4. CASE Guests!Commits(v)
  <2>1. /\ pass' = [pass EXCEPT ![visit[v].token].call = visit[v].call]
        /\ landed' = [landed EXCEPT ![visit[v].token] = @ \union {visit[v].call}]
        /\ UNCHANGED started
    BY <1>4 DEF Guests!Commits
  <2>2. GuestTypes'
    <3>1. pass' \in [Tokens -> [at: {"none", "issued", "expired"}, call: Nat]]
      BY <1>1, <2>1 DEF GuestTypes
    <3>2. landed' \in [Tokens -> SUBSET Nat]
      BY <1>1, <2>1 DEF GuestTypes
    <3>. QED BY <1>3, <2>1, <3>1, <3>2 DEF GuestTypes
  <2>3. HolderAlone'
    <3> SUFFICES ASSUME NEW w \in Visitors, visit'[w] # Guests!Away
                 PROVE  holder'[visit'[w].token] = w /\ pass'[visit'[w].token].call = 0
      BY DEF HolderAlone
    <3>1. /\ visit'[w] = visit[w] /\ holder'[visit[w].token] = w
          /\ visit[w].token # visit[v].token
      BY <1>3
    <3>2. visit[w].token \in Tokens /\ pass[visit[w].token].call = 0
      BY <3>1 DEF GuestTypes, HolderAlone, Guests!Away
    <3>3. pass'[visit[w].token] = pass[visit[w].token]
      BY <2>1, <3>1, <3>2 DEF GuestTypes
    <3>. QED BY <3>1, <3>2, <3>3
  <2>4. pass[visit[v].token].call = 0
    BY <1>1 DEF HolderAlone
  <2>5. landed[visit[v].token] = {}
    BY <1>1, <2>4 DEF LandedAsStored
  <2>6. LandedAsStored'
    BY <1>1, <2>1, <2>5 DEF GuestTypes, LandedAsStored
  <2>. QED BY <2>2, <2>3, <2>6
<1>5. CASE Guests!CommitFails(v)
  BY <1>3, <1>5 DEF Guests!CommitFails, GuestTypes, HolderAlone, LandedAsStored
<1>. QED BY <1>4, <1>5

LEMMA GuestsHold == Guests!Spec => []GuestInv
<1>1. GuestInv /\ [Guests!Next]_Guests!guestVars => GuestInv'
  <2> SUFFICES ASSUME GuestInv, [Guests!Next]_Guests!guestVars PROVE GuestInv'
    OBVIOUS
  <2>1. CASE UNCHANGED Guests!guestVars
    BY <2>1 DEF Guests!guestVars, GuestInv, GuestTypes, HolderAlone, LandedAsStored
  <2>2. CASE Guests!Next
    BY <2>2, EdgesAssumption, GuestTokenStep, GuestJoinStep, GuestSwitchStep, GuestCommitStep
       DEF Guests!Next
  <2>. QED BY <2>1, <2>2
<1>. QED BY GuestInitInv, <1>1, PTL DEF Guests!Spec

\* For any tokens, visitors and number of calls: whoever joins with a token
\* lands in the call that the others with this token landed in.
THEOREM OneCallForAToken == Guests!Spec => []Guests!SameCall
<1>1. GuestInv => Guests!SameCall
  BY DEF GuestInv, LandedAsStored, Guests!SameCall
<1>. QED BY <1>1, GuestsHold, PTL

---------------------------------------------------------------------------

(***************************************************************************)
(* ConfigImport for any agents and any number of imports beside each       *)
(* other.  SeatsHaveRows speaks of the active version only; InOrder says,  *)
(* for an import under way, what the fixed order has done already: its     *)
(* version is stored before its rows are written, and its rows are there   *)
(* before it activates.  Nobody takes rows away, so the other imports do   *)
(* not disturb it.                                                         *)
(***************************************************************************)

ImportWork == [at: {"store", "write", "activate"}, file: Import!Files, wrote: BOOLEAN, activated: BOOLEAN]

ImportReport == [says: {"ok", "store failed", "write failed", "activation failed"},
           wrote: BOOLEAN, activated: BOOLEAN]

ImportTypes ==
  /\ import \in [Imports -> {Import!Idle} \cup ImportWork]
  /\ rows \subseteq Agents /\ bundles \subseteq Import!Files /\ live \in Import!Files \cup {Nothing}
  /\ reports \subseteq ImportReport

\* What an import has done so far, by the step it is at.
ImportInOrder ==
  \A i \in Imports : LET x == import[i] IN x \in ImportWork =>
    /\ Import!Valid(x.file) /\ ~x.activated
    /\ x.at \in {"store", "write"} => ~x.wrote
    /\ x.at \in {"write", "activate"} => x.file \in bundles
    /\ x.at = "activate" => x.wrote /\ x.file.agents \subseteq rows

ImportInv == ImportTypes /\ ImportInOrder /\ Import!ReportIsTrue /\ Import!SeatsHaveRows

LEMMA ImportInitInv == Import!Init => ImportInv
BY
   DEF Import!Init, ImportInv, ImportTypes, ImportInOrder, Import!ReportIsTrue,
       Import!SeatsHaveRows, Import!Idle, ImportWork

\* A request that moves on keeps the others as they were.
LEMMA ImportBeginStep ==
  ASSUME ImportInv, NEW i \in Imports, Import!Begin(i)
  PROVE  ImportInv'
<1>1. PICK b \in Import!Files :
        /\ Import!Valid(b)
        /\ import' = [import EXCEPT ![i] =
             [at |-> "store", file |-> b, wrote |-> FALSE, activated |-> FALSE]]
  BY DEF Import!Begin
<1>2. UNCHANGED <<rows, bundles, live, reports>>
  BY DEF Import!Begin
<1>3. ImportTypes'
  BY <1>1, <1>2 DEF ImportInv, ImportTypes, ImportWork
<1>4. ImportInOrder'
  BY <1>1, <1>2 DEF ImportInv, ImportTypes, ImportInOrder
<1>. QED BY <1>2, <1>3, <1>4 DEF ImportInv, Import!ReportIsTrue, Import!SeatsHaveRows

\* The end of a request, with what it tells the administrator.
LEMMA ImportReportsKeeps ==
  ASSUME ImportTypes, Import!ReportIsTrue, NEW i \in Imports, NEW x \in ImportWork,
         NEW says \in {"ok", "store failed", "write failed", "activation failed"},
         says \in {"store failed", "write failed"} => ~x.wrote /\ ~x.activated,
         says = "activation failed" => x.wrote,
         says = "ok" => x.wrote /\ x.activated,
         Import!Reports(i, says, x)
  PROVE  /\ import' \in [Imports -> {Import!Idle} \cup ImportWork]
         /\ \A j \in Imports : import'[j] \in ImportWork => import'[j] = import[j]
         /\ reports' \subseteq ImportReport
         /\ Import!ReportIsTrue'
<1>1. Import!Idle \notin ImportWork
  BY DEF Import!Idle, ImportWork
<1>2. reports' = reports \cup {[says |-> says, wrote |-> x.wrote, activated |-> x.activated]}
      /\ import' = [import EXCEPT ![i] = Import!Idle]
  BY DEF Import!Reports
<1>3. [says |-> says, wrote |-> x.wrote, activated |-> x.activated] \in ImportReport
  BY DEF ImportWork, ImportReport
<1>4. Import!ReportIsTrue'
  <2> SUFFICES ASSUME NEW r \in reports'
               PROVE  /\ r.says \in {"store failed", "write failed"} => ~r.wrote /\ ~r.activated
                      /\ r.says = "activation failed" => r.wrote
                      /\ r.says = "ok" => r.wrote /\ r.activated
    BY DEF Import!ReportIsTrue
  <2>1. CASE r \in reports
    BY <2>1 DEF Import!ReportIsTrue
  <2>2. CASE r = [says |-> says, wrote |-> x.wrote, activated |-> x.activated]
    <3>1. r.says = says /\ r.wrote = x.wrote /\ r.activated = x.activated
      BY <2>2
    <3>. QED BY <3>1, Zenon
  <2>. QED BY <1>2, <2>1, <2>2
<1>. QED BY <1>1, <1>2, <1>3, <1>4 DEF ImportTypes

LEMMA ImportStoreStep ==
  ASSUME ImportInv, NEW i \in Imports, Import!StoreConfig(i)
  PROVE  ImportInv'
<1> DEFINE x == import[i]
<1> USE DEF ImportInv
<1>1. x \in ImportWork /\ x.at = "store"
  <2>1. x.at = "store"
    BY DEF Import!StoreConfig
  <2>. QED BY <2>1 DEF ImportTypes, Import!Idle
<1>2. /\ bundles' \subseteq Import!Files /\ bundles \subseteq bundles'
      /\ UNCHANGED <<rows, live>>
  BY <1>1 DEF Import!StoreConfig, ImportTypes, ImportWork
<1>3. Import!SeatsHaveRows'
  BY <1>2 DEF Import!SeatsHaveRows
<1>4. CASE bundles' = bundles \cup {x.file} /\ Import!Goes(i, [x EXCEPT !.at = "write"])
  <2>1. import' = [import EXCEPT ![i] = [x EXCEPT !.at = "write"]] /\ UNCHANGED reports
    BY <1>4 DEF Import!Goes
  <2>2. [x EXCEPT !.at = "write"] \in ImportWork
    BY <1>1 DEF ImportWork
  <2>3. ImportTypes'
    BY <1>2, <2>1, <2>2 DEF ImportTypes
  <2>4. Import!Valid(x.file) /\ ~x.activated /\ ~x.wrote
    BY <1>1 DEF ImportInOrder
  <2>5. ImportInOrder'
    BY <1>1, <1>2, <1>4, <2>1, <2>4 DEF ImportTypes, ImportInOrder, ImportWork
  <2>. QED BY <1>3, <2>1, <2>3, <2>5 DEF Import!ReportIsTrue
<1>5. CASE Import!Reports(i, "store failed", x)
  <2>1. ~x.activated /\ ~x.wrote
    BY <1>1 DEF ImportInOrder
  <2>2. /\ import' \in [Imports -> {Import!Idle} \cup ImportWork]
        /\ \A j \in Imports : import'[j] \in ImportWork => import'[j] = import[j]
        /\ reports' \subseteq ImportReport /\ Import!ReportIsTrue'
    BY <1>1, <1>5, <2>1, ImportReportsKeeps
  <2>3. ImportTypes' /\ ImportInOrder'
    BY <1>2, <2>2 DEF ImportTypes, ImportInOrder
  <2>. QED BY <1>3, <2>2, <2>3
<1>. QED BY <1>4, <1>5 DEF Import!StoreConfig

LEMMA ImportWriteStep ==
  ASSUME ImportInv, NEW i \in Imports, Import!WriteRows(i)
  PROVE  ImportInv'
<1> DEFINE x == import[i]
<1> USE DEF ImportInv
<1>1. x \in ImportWork /\ x.at = "write" /\ UNCHANGED <<bundles, live>>
  BY DEF Import!WriteRows, ImportTypes, Import!Idle
<1>2. Import!Valid(x.file) /\ ~x.activated /\ ~x.wrote /\ x.file \in bundles
  BY <1>1 DEF ImportInOrder
<1>3. CASE rows' = rows \cup x.file.agents
           /\ Import!Goes(i, [x EXCEPT !.at = "activate", !.wrote = TRUE])
  <2>1. /\ import' = [import EXCEPT ![i] = [x EXCEPT !.at = "activate", !.wrote = TRUE]]
        /\ UNCHANGED reports
    BY <1>3 DEF Import!Goes
  <2>2. [x EXCEPT !.at = "activate", !.wrote = TRUE] \in ImportWork /\ x.file.agents \subseteq Agents
    BY <1>1 DEF ImportWork, Import!Files
  <2>3. ImportTypes'
    BY <1>1, <1>3, <2>1, <2>2 DEF ImportTypes
  <2>4. ImportInOrder'
    BY <1>1, <1>2, <1>3, <2>1 DEF ImportTypes, ImportInOrder, ImportWork
  <2>5. Import!SeatsHaveRows'
    BY <1>1, <1>3 DEF Import!SeatsHaveRows
  <2>. QED BY <2>1, <2>3, <2>4, <2>5 DEF Import!ReportIsTrue
<1>4. CASE Import!FailedWrite(i) /\ UNCHANGED rows
  <2>1. /\ import' \in [Imports -> {Import!Idle} \cup ImportWork]
        /\ \A j \in Imports : import'[j] \in ImportWork => import'[j] = import[j]
        /\ reports' \subseteq ImportReport /\ Import!ReportIsTrue'
    BY <1>1, <1>2, <1>4, ImportReportsKeeps DEF Import!FailedWrite
  <2>2. ImportTypes' /\ ImportInOrder' /\ Import!SeatsHaveRows'
    BY <1>1, <1>4, <2>1 DEF ImportTypes, ImportInOrder, Import!SeatsHaveRows
  <2>. QED BY <2>1, <2>2
<1>. QED BY <1>3, <1>4 DEF Import!WriteRows

LEMMA ImportActivateStep ==
  ASSUME ImportInv, NEW i \in Imports, Import!ActivateConfig(i)
  PROVE  ImportInv'
<1> DEFINE x == import[i]
           y == [x EXCEPT !.activated = TRUE]
<1> USE DEF ImportInv
<1>1. x \in ImportWork /\ x.at = "activate" /\ UNCHANGED <<rows, bundles>> /\ Import!Activates(i, x)
  BY DEF Import!ActivateConfig, ImportTypes, Import!Idle
<1>2. /\ Import!Valid(x.file) /\ ~x.activated /\ x.wrote
      /\ x.file \in bundles /\ x.file.agents \subseteq rows
  BY <1>1 DEF ImportInOrder
<1>3. y \in ImportWork /\ y.activated /\ y.wrote
  BY <1>1, <1>2 DEF ImportWork
<1>4. live' \in {live, x.file}
  BY <1>1 DEF Import!Activates
<1>5. Import!SeatsHaveRows' /\ live' \in Import!Files \cup {Nothing}
  BY <1>1, <1>2, <1>4 DEF Import!SeatsHaveRows, Import!Valid, ImportTypes, ImportWork
<1>6. /\ import' \in [Imports -> {Import!Idle} \cup ImportWork]
      /\ \A j \in Imports : import'[j] \in ImportWork => import'[j] = import[j]
      /\ reports' \subseteq ImportReport /\ Import!ReportIsTrue'
  <2>1. CASE Import!Reports(i, "ok", y)
    BY <1>3, <2>1, ImportReportsKeeps
  <2>2. CASE Import!Reports(i, "activation failed", y)
    BY <1>3, <2>2, ImportReportsKeeps
  <2>3. CASE Import!Reports(i, "activation failed", x)
    BY <1>1, <1>2, <2>3, ImportReportsKeeps
  <2>. QED BY <1>1, <2>1, <2>2, <2>3 DEF Import!Activates
<1>7. ImportTypes' /\ ImportInOrder'
  BY <1>1, <1>5, <1>6 DEF ImportTypes, ImportInOrder
<1>. QED BY <1>5, <1>6, <1>7

LEMMA ImportInterruptedStep ==
  ASSUME ImportInv, NEW i \in Imports, Import!Interrupted(i)
  PROVE  ImportInv'
<1>1. Import!Idle \notin ImportWork
  BY DEF Import!Idle, ImportWork
<1>2. import' = [import EXCEPT ![i] = Import!Idle] /\ UNCHANGED <<rows, bundles, live, reports>>
  BY DEF Import!Interrupted
<1>. QED BY <1>1, <1>2
   DEF ImportInv, ImportTypes, ImportInOrder, Import!ReportIsTrue, Import!SeatsHaveRows

LEMMA ImportInductive == ImportInv /\ [Import!Next]_Import!importVars => ImportInv'
<1> SUFFICES ASSUME ImportInv, [Import!Next]_Import!importVars PROVE ImportInv'
  OBVIOUS
<1>1. CASE UNCHANGED Import!importVars
  BY <1>1
     DEF Import!importVars, ImportInv, ImportTypes, ImportInOrder, Import!ReportIsTrue,
         Import!SeatsHaveRows
<1>2. CASE Import!Next
  BY <1>2, ImportBeginStep, ImportStoreStep, ImportWriteStep, ImportActivateStep,
     ImportInterruptedStep
     DEF Import!Next
<1>. QED BY <1>1, <1>2

LEMMA ImportHolds == Import!Spec => []ImportInv
BY ImportInitInv, ImportInductive, PTL DEF Import!Spec

\* For any agents and imports: whoever the active version of the switch seats
\* has a row in open-call, after any failure and any overlap of imports.
THEOREM SeatsAreAgents == Import!Spec => []Import!SeatsHaveRows
<1>1. ImportInv => Import!SeatsHaveRows
  BY DEF ImportInv
<1>. QED BY <1>1, ImportHolds, PTL

\* For any agents and imports: what the administrator is told was done was
\* done, and what is told as untouched was not touched.
THEOREM ReportsAreTrue == Import!Spec => []Import!ReportIsTrue
<1>1. ImportInv => Import!ReportIsTrue
  BY DEF ImportInv
<1>. QED BY <1>1, ImportHolds, PTL

---------------------------------------------------------------------------

(***************************************************************************)
(* Notifications for any number of workers, faults and stops.  LeaseIsHeld *)
(* is what makes the steps of one notification follow each other: whoever  *)
(* is in the middle of a step has the lease.  From it follow the two       *)
(* promises: a step that began under a cancellation ends in it             *)
(* (StopsStop), and a state that is final was found with no call open      *)
(* (FinalIsQuiet), which nobody can open behind the back of the worker.    *)
(***************************************************************************)

NoteErrors == {"", "canceled", "failed", "late"}
NoteStages == {"rest", "step", "dial", "play", "write"}

NoteTask == [state: Notes!TaskStates, error: NoteErrors, lease: Workers \cup {Nobody}, played: BOOLEAN]
NoteCopy == [at: NoteStages, old: Notes!TaskStates, state: Notes!TaskStates, error: NoteErrors, played: BOOLEAN]

NoteTypes ==
  /\ task \in NoteTask
  /\ working \in [Workers -> NoteCopy]

NoteQuiet == phone \in {"none", "ended"}

\* A worker that is in a step has the lease of a notification that goes on.
LeaseIsHeld ==
  \A w \in Workers : working[w].at # "rest" =>
    task.lease = w /\ task.state \notin Notes!Ended \cup {"none"}

\* What began as a stop remains one.
StopsStop ==
  \A w \in Workers : working[w].at # "rest" /\ working[w].old = "stopping" =>
    \/ working[w].at = "step" /\ working[w].state = "stopping"
    \/ working[w].at = "write" /\ working[w].state \in {"stopping", "failed", "canceled"}

\* A final state is found in the last moment of a step, and no call is open.
FinalIsQuiet ==
  \A w \in Workers : working[w].at # "rest" /\ working[w].state \in Notes!Ended =>
    working[w].at = "write" /\ NoteQuiet

NoteInv == NoteTypes /\ LeaseIsHeld /\ StopsStop /\ FinalIsQuiet /\ Notes!NothingLeftRinging

LEMMA NoteInitInv == Notes!Init => NoteInv
<1> SUFFICES ASSUME Notes!Init PROVE NoteInv
  OBVIOUS
<1>1. Notes!Rest \in NoteCopy /\ Notes!Rest.at = "rest"
  BY DEF Notes!Rest, NoteCopy, NoteStages, Notes!TaskStates, NoteErrors
<1>2. task \in NoteTask /\ task.state = "none"
  BY DEF Notes!Init, NoteTask, Notes!TaskStates, NoteErrors
<1>3. \A w \in Workers : working[w] = Notes!Rest
  BY DEF Notes!Init
<1>4. NoteTypes
  BY <1>1, <1>2 DEF Notes!Init, NoteTypes
<1>5. LeaseIsHeld /\ StopsStop /\ FinalIsQuiet
  BY <1>1, <1>3 DEF LeaseIsHeld, StopsStop, FinalIsQuiet
<1>6. Notes!NothingLeftRinging
  BY <1>2 DEF Notes!NothingLeftRinging, Notes!Ended
<1>. QED BY <1>4, <1>5, <1>6 DEF NoteInv

\* What happens to the row from outside while a step is under way.
LEMMA NoteOutsideStep ==
  ASSUME NoteInv, Notes!Submit \/ Notes!Cancel \/ Notes!DeadlinePasses
  PROVE  NoteInv'
<1>1. UNCHANGED <<working, phone>>
  BY DEF Notes!Submit, Notes!Cancel, Notes!DeadlinePasses, Notes!switch
<1>2. \/ UNCHANGED task
      \/ \E s \in {"queued", "stopping"}, e \in NoteErrors : task' = [task EXCEPT !.state = s, !.error = e]
  <2>1. task.error \in NoteErrors /\ task = [task EXCEPT !.error = task.error]
    BY DEF NoteInv, NoteTypes, NoteTask
  <2>2. CASE Notes!Submit
    <3>1. task' = [task EXCEPT !.state = "queued"]
      BY <2>2 DEF Notes!Submit
    <3>2. [task EXCEPT !.state = "queued"] = [task EXCEPT !.state = "queued", !.error = task.error]
      BY DEF NoteInv, NoteTypes, NoteTask
    <3>. QED BY <2>1, <3>1, <3>2
  <2>3. CASE Notes!Cancel
    BY <2>3 DEF Notes!Cancel, NoteErrors
  <2>4. CASE Notes!DeadlinePasses
    BY <2>4 DEF Notes!DeadlinePasses
  <2>. QED BY <2>2, <2>3, <2>4
<1>3. /\ task' \in NoteTask /\ task'.lease = task.lease
      /\ task' = task \/ task'.state \notin Notes!Ended \cup {"none"}
  BY <1>2 DEF NoteInv, NoteTypes, NoteTask, Notes!TaskStates, Notes!Ended
<1>. QED BY <1>1, <1>3
   DEF NoteInv, NoteTypes, LeaseIsHeld, StopsStop, FinalIsQuiet, NoteQuiet,
       Notes!NothingLeftRinging

\* The telephone moves on; a call that has ended, or was never made, does not.
LEMMA NoteTelephoneStep == NoteInv /\ Notes!Telephone => NoteInv'
<1> SUFFICES ASSUME NoteInv, Notes!Telephone PROVE NoteInv'
  OBVIOUS
<1>1. UNCHANGED <<task, working>> /\ (NoteQuiet => NoteQuiet')
  BY DEF Notes!Telephone, NoteQuiet
<1>. QED BY <1>1
   DEF NoteInv, NoteTypes, LeaseIsHeld, StopsStop, FinalIsQuiet, Notes!NothingLeftRinging,
       NoteQuiet

\* The lease is taken by whoever finds it free, and then nobody is in a step.
LEMMA NoteClaimStep ==
  ASSUME Nobody \notin Workers, NoteInv, NEW w \in Workers, Notes!Claim(w)
  PROVE  NoteInv'
<1> DEFINE stop == late /\ task.state # "stopping"
           y == [at |-> "step", old |-> task.state, played |-> task.played,
                 state |-> IF stop THEN "stopping" ELSE task.state,
                 error |-> IF stop THEN "late" ELSE task.error]
<1>1. /\ task.lease = Nobody /\ task.state \notin Notes!Ended \cup {"none"}
      /\ task' = [task EXCEPT !.lease = w] /\ working' = [working EXCEPT ![w] = y]
      /\ UNCHANGED phone
  BY DEF Notes!Claim, Notes!switch
<1>2. /\ y \in NoteCopy /\ y.at = "step" /\ y.state \notin Notes!Ended
      /\ y.old = "stopping" => y.state = "stopping"
  BY <1>1
     DEF NoteInv, NoteTypes, NoteTask, NoteCopy, NoteErrors, NoteStages, Notes!TaskStates,
         Notes!Ended
<1> HIDE DEF y
<1>3. task' \in NoteTask /\ task'.lease = w /\ task'.state = task.state
  BY <1>1 DEF NoteInv, NoteTypes, NoteTask
<1>4. NoteTypes'
  BY <1>1, <1>2, <1>3 DEF NoteInv, NoteTypes
<1>5. \A v \in Workers : v # w => working'[v] = working[v] /\ working'[v].at = "rest"
  BY <1>1 DEF NoteInv, NoteTypes, LeaseIsHeld
<1>6. working'[w] = y
  BY <1>1 DEF NoteInv, NoteTypes
<1>7. LeaseIsHeld' /\ StopsStop' /\ FinalIsQuiet'
  BY <1>1, <1>2, <1>3, <1>5, <1>6 DEF LeaseIsHeld, StopsStop, FinalIsQuiet, NoteStages
<1>8. Notes!NothingLeftRinging'
  BY <1>1, <1>3 DEF Notes!NothingLeftRinging
<1>. QED BY <1>4, <1>7, <1>8 DEF NoteInv

\* A worker in a step reaches another place of it: what it finds has to keep
\* the two promises, for itself only, as the others rest.
LEMMA NoteReaches ==
  ASSUME NoteInv, NEW w \in Workers, working[w].at # "rest",
         NEW y \in NoteCopy, y.at # "rest", y.old = working[w].old,
         working' = [working EXCEPT ![w] = y], UNCHANGED task,
         y.old = "stopping" => \/ y.at = "step" /\ y.state = "stopping"
                               \/ y.at = "write" /\ y.state \in {"stopping", "failed", "canceled"},
         y.state \in Notes!Ended => y.at = "write" /\ NoteQuiet'
  PROVE  NoteInv'
<1>1. \A v \in Workers : v # w => working'[v] = working[v] /\ working'[v].at = "rest"
  BY DEF NoteInv, NoteTypes, LeaseIsHeld
<1>2. working'[w] = y
  BY DEF NoteInv, NoteTypes
<1>3. NoteTypes'
  BY DEF NoteInv, NoteTypes
<1>4. LeaseIsHeld' /\ StopsStop' /\ FinalIsQuiet'
  BY <1>1, <1>2 DEF NoteInv, LeaseIsHeld, StopsStop, FinalIsQuiet
<1>5. Notes!NothingLeftRinging'
  BY DEF NoteInv, LeaseIsHeld, Notes!NothingLeftRinging
<1>. QED BY <1>3, <1>4, <1>5 DEF NoteInv

\* A step that moves on by Step.
LEMMA NoteStepKeeps ==
  ASSUME NoteInv, NEW w \in Workers, working[w].at # "rest",
         NEW at \in NoteStages \ {"rest"}, NEW state \in Notes!TaskStates,
         Notes!Step(w, at, state), UNCHANGED task,
         working[w].old = "stopping" => at = "write" /\ state \in {"stopping", "failed", "canceled"},
         state \in Notes!Ended => at = "write" /\ NoteQuiet'
  PROVE  NoteInv'
<1> DEFINE y == [working[w] EXCEPT !.at = at, !.state = state]
<1>1. y \in NoteCopy /\ y.at = at /\ y.state = state /\ y.old = working[w].old
  <2>1. working[w] \in NoteCopy
    BY DEF NoteInv, NoteTypes
  <2>. QED BY <2>1 DEF NoteCopy
<1>2. working' = [working EXCEPT ![w] = y]
  <2>1. working \in [Workers -> NoteCopy] /\ working' = [working EXCEPT ![w].at = at, ![w].state = state]
    BY DEF Notes!Step, NoteInv, NoteTypes
  <2>. QED BY <2>1
<1>3. y.at # "rest"
  BY <1>1
<1> HIDE DEF y
<1>. QED BY <1>1, <1>2, <1>3, NoteReaches

\* A step that fails leaves the notification to be stopped.
LEMMA NoteFailedKeeps ==
  ASSUME NoteInv, NEW w \in Workers, working[w].at # "rest", Notes!Failed(w), UNCHANGED task
  PROVE  NoteInv'
<1>1. PICK e \in NoteErrors : working' = [working EXCEPT ![w] =
                            [working[w] EXCEPT !.at = "write", !.state = "stopping", !.error = e]]
  <2>1. working[w].error \in NoteErrors /\ "failed" \in NoteErrors
    BY DEF NoteInv, NoteTypes, NoteCopy, NoteErrors
  <2>2. working \in [Workers -> NoteCopy]
    BY DEF NoteInv, NoteTypes
  <2>3. PICK e \in NoteErrors : working' =
          [working EXCEPT ![w].at = "write", ![w].state = "stopping", ![w].error = e]
    BY <2>1, <2>2 DEF Notes!Failed
  <2>. QED BY <2>2, <2>3
<1> DEFINE y == [working[w] EXCEPT !.at = "write", !.state = "stopping", !.error = e]
<1>2. y \in NoteCopy /\ y.at = "write" /\ y.state = "stopping" /\ y.old = working[w].old
  <2>1. working[w] \in NoteCopy
    BY DEF NoteInv, NoteTypes
  <2>. QED BY <2>1 DEF NoteCopy, NoteStages, Notes!TaskStates
<1>3. y.state \notin Notes!Ended
  BY <1>2 DEF Notes!Ended
<1> HIDE DEF y
<1>. QED BY <1>1, <1>2, <1>3, NoteReaches DEF y

\* The steps that talk to the switch.
LEMMA NoteSwitchStep ==
  ASSUME NoteInv, NEW w \in Workers,
         Notes!Stopping(w) \/ Notes!Queued(w) \/ Notes!Dial(w) \/ Notes!Dialing(w) \/ Notes!Play(w) \/ Notes!Playing(w) \/ Notes!Finishing(w)
  PROVE  NoteInv'
<1>1. UNCHANGED task /\ working[w].at \in {"step", "dial", "play"}
  BY
     DEF Notes!Stopping, Notes!Queued, Notes!Dial, Notes!Dialing, Notes!Play, Notes!Playing,
         Notes!Finishing
<1>2. CASE Notes!Failed(w)
  BY <1>1, <1>2, NoteFailedKeeps
<1>3. working[w].old = "stopping" => working[w].at = "step" /\ working[w].state = "stopping"
  BY <1>1 DEF NoteInv, StopsStop
<1>4. NoteStages \ {"rest"} = {"step", "dial", "play", "write"}
  BY DEF NoteStages
<1>5. CASE Notes!Stopping(w) /\ ~Notes!Failed(w)
  <2>1. PICK s \in {"canceled", "failed"} : Notes!Step(w, "write", s)
    BY <1>5 DEF Notes!Stopping, Notes!Over, Notes!HangupFailed
  <2>2. NoteQuiet'
    BY <1>5 DEF Notes!Stopping, Notes!HangupFailed, Notes!Switch, NoteQuiet
  <2>. QED BY <1>1, <1>4, <2>1, <2>2, NoteStepKeeps DEF Notes!TaskStates, Notes!Ended
<1>6. CASE Notes!Queued(w) /\ ~Notes!Failed(w)
  <2>1. Notes!Step(w, "dial", "queued") /\ working[w].state = "queued"
    BY <1>6 DEF Notes!Queued, Notes!Fault
  <2>. QED BY <1>1, <1>3, <1>4, <2>1, NoteStepKeeps DEF Notes!TaskStates, Notes!Ended
<1>7. CASE Notes!Dial(w) /\ ~Notes!Failed(w)
  <2>1. Notes!Step(w, "write", "dialing") /\ working[w].at = "dial"
    BY <1>7 DEF Notes!Dial, Notes!Fault
  <2>. QED BY <1>1, <1>3, <1>4, <2>1, NoteStepKeeps DEF Notes!TaskStates, Notes!Ended
<1>8. CASE Notes!Dialing(w) /\ ~Notes!Failed(w)
  <2>1. working[w].state = "dialing"
    BY <1>8 DEF Notes!Dialing
  <2>2. CASE phone = "ended" /\ Notes!Step(w, "write", "failed") /\ UNCHANGED Notes!switch
    BY <1>1, <1>3, <1>4, <2>2, NoteStepKeeps
       DEF Notes!TaskStates, Notes!Ended, Notes!switch, NoteQuiet
  <2>3. CASE Notes!Step(w, "write", "dialing") \/ Notes!Step(w, "play", "dialing")
    BY <1>1, <1>3, <1>4, <2>1, <2>3, NoteStepKeeps DEF Notes!TaskStates, Notes!Ended
  <2>. QED BY <1>8, <2>2, <2>3 DEF Notes!Dialing, Notes!Fault
<1>9. CASE Notes!Play(w) /\ ~Notes!Failed(w)
  <2> DEFINE y == [working[w] EXCEPT !.at = "write", !.state = "playing", !.played = TRUE]
  <2>1. working' = [working EXCEPT ![w] = y] /\ working[w].at = "play"
    BY <1>9 DEF Notes!Play, NoteInv, NoteTypes
  <2>2. y \in NoteCopy /\ y.at = "write" /\ y.state = "playing" /\ y.old = working[w].old
    BY DEF NoteInv, NoteTypes, NoteCopy, NoteStages, Notes!TaskStates
  <2>3. y.state \notin Notes!Ended /\ y.old # "stopping"
    BY <1>3, <2>1, <2>2 DEF Notes!Ended
  <2> HIDE DEF y
  <2>. QED BY <1>1, <2>1, <2>2, <2>3, NoteReaches
<1>10. CASE Notes!Playing(w) /\ ~Notes!Failed(w)
  <2>1. working[w].state = "playing"
    BY <1>10 DEF Notes!Playing
  <2>2. CASE Notes!Step(w, "step", "finishing") \/ Notes!Step(w, "write", "playing")
    BY <1>1, <1>3, <1>4, <2>1, <2>2, NoteStepKeeps DEF Notes!TaskStates, Notes!Ended
  <2>3. CASE phone = "ended" /\ Notes!Step(w, "write", "failed") /\ UNCHANGED Notes!switch
    BY <1>1, <1>3, <1>4, <2>3, NoteStepKeeps
       DEF Notes!TaskStates, Notes!Ended, Notes!switch, NoteQuiet
  <2>. QED BY <1>10, <2>2, <2>3 DEF Notes!Playing, Notes!Fault
<1>11. CASE Notes!Finishing(w) /\ ~Notes!Failed(w)
  <2>1. Notes!Step(w, "write", "completed") /\ working[w].state = "finishing"
    BY <1>11 DEF Notes!Finishing, Notes!Fault
  <2>2. NoteQuiet'
    BY <1>11 DEF Notes!Finishing, Notes!Fault, Notes!Switch, NoteQuiet
  <2>. QED BY <1>1, <1>3, <1>4, <2>1, <2>2, NoteStepKeeps DEF Notes!TaskStates, Notes!Ended
<1>. QED BY <1>2, <1>5, <1>6, <1>7, <1>8, <1>9, <1>10, <1>11

\* The worker of the step rests, the row may be written or given back.
LEMMA NoteRestsStep ==
  ASSUME Nobody \notin Workers, NoteInv, NEW w \in Workers, Notes!Write(w) \/ Notes!Stop(w)
  PROVE  NoteInv' /\ (task.state = "stopping" => task'.state \in {"stopping", "failed", "canceled"})
<1> DEFINE y == working[w]
<1>1. /\ y.at # "rest" /\ working' = [working EXCEPT ![w] = Notes!Rest] /\ UNCHANGED phone
      /\ y \in NoteCopy
  BY DEF Notes!Write, Notes!Stop, Notes!switch, NoteInv, NoteTypes
<1>2. Notes!Rest \in NoteCopy /\ Notes!Rest.at = "rest"
  BY DEF Notes!Rest, NoteCopy, NoteStages, Notes!TaskStates, NoteErrors
<1>3. \A v \in Workers : working'[v].at = "rest"
  BY <1>1, <1>2 DEF NoteInv, NoteTypes, LeaseIsHeld
<1>4. task.lease = w /\ task.state \notin Notes!Ended
  BY <1>1 DEF NoteInv, LeaseIsHeld
<1>5. /\ task' \in NoteTask
      /\ \/ task'.state = task.state
         \/ task'.state = y.state /\ task.state = y.old /\ y.at = "write"
  <2>1. CASE Notes!Stop(w)
    BY <2>1 DEF Notes!Stop, NoteInv, NoteTypes
  <2>2. CASE Notes!Write(w) /\ Notes!StillIts(w)
    BY <1>1, <2>2 DEF Notes!Write, Notes!StillIts, NoteCopy, NoteTask
  <2>3. CASE Notes!Write(w) /\ ~Notes!StillIts(w)
    BY <2>3 DEF Notes!Write, NoteInv, NoteTypes, NoteTask
  <2>. QED BY <2>1, <2>2, <2>3
<1>6. NoteTypes'
  BY <1>1, <1>2, <1>5 DEF NoteInv, NoteTypes
<1>7. LeaseIsHeld' /\ StopsStop' /\ FinalIsQuiet'
  BY <1>3 DEF LeaseIsHeld, StopsStop, FinalIsQuiet
<1>8. Notes!NothingLeftRinging'
  BY <1>1, <1>4, <1>5 DEF NoteInv, FinalIsQuiet, Notes!NothingLeftRinging, NoteQuiet
<1>9. task.state = "stopping" => task'.state \in {"stopping", "failed", "canceled"}
  BY <1>1, <1>5 DEF NoteInv, StopsStop
<1>. QED BY <1>6, <1>7, <1>8, <1>9 DEF NoteInv

LEMMA NoteLeaseRunsOutStep ==
  ASSUME Nobody \notin Workers, NoteInv, Notes!LeaseRunsOut
  PROVE  NoteInv' /\ task'.state = task.state
<1>1. /\ task.lease # Nobody /\ working[task.lease].at = "rest"
      /\ task' = [task EXCEPT !.lease = Nobody] /\ UNCHANGED <<working, phone>>
  BY DEF Notes!LeaseRunsOut, Notes!switch
<1>2. task' \in NoteTask /\ task'.state = task.state
  BY <1>1 DEF NoteInv, NoteTypes, NoteTask
<1>3. \A v \in Workers : working[v].at = "rest"
  BY <1>1 DEF NoteInv, LeaseIsHeld
<1>. QED BY <1>1, <1>2, <1>3
     DEF NoteInv, NoteTypes, LeaseIsHeld, StopsStop, FinalIsQuiet, Notes!NothingLeftRinging, NoteQuiet

\* Every step keeps the invariant and does not undo a cancellation.
LEMMA NoteInductive ==
  ASSUME Nobody \notin Workers, NoteInv, [Notes!Next]_Notes!noteVars
  PROVE  NoteInv' /\ (task.state = "stopping" => task'.state \in {"stopping", "failed", "canceled"})
<1>1. CASE UNCHANGED Notes!noteVars
  BY <1>1
     DEF Notes!noteVars, NoteInv, NoteTypes, LeaseIsHeld, StopsStop, FinalIsQuiet,
         Notes!NothingLeftRinging, NoteQuiet
<1>2. CASE Notes!Submit \/ Notes!Cancel \/ Notes!DeadlinePasses
  <2>1. task.state = "stopping" => task'.state = "stopping"
    BY <1>2 DEF Notes!Submit, Notes!Cancel, Notes!DeadlinePasses, NoteInv, NoteTypes, NoteTask
  <2>. QED BY <1>2, <2>1, NoteOutsideStep
<1>3. CASE Notes!LeaseRunsOut
  BY <1>3, NoteLeaseRunsOutStep
<1>4. CASE Notes!Telephone
  BY <1>4, NoteTelephoneStep DEF Notes!Telephone
<1>5. CASE \E w \in Workers : Notes!Claim(w)
  <2>1. task.state = "stopping" => task'.state = "stopping"
    BY <1>5 DEF Notes!Claim, NoteInv, NoteTypes, NoteTask
  <2>. QED BY <1>5, <2>1, NoteClaimStep
<1>6. CASE \E w \in Workers : Notes!Work(w) \/ Notes!Stop(w)
  <2> PICK w \in Workers : Notes!Work(w) \/ Notes!Stop(w)
    BY <1>6
  <2>1. CASE Notes!Write(w) \/ Notes!Stop(w)
    BY <2>1, NoteRestsStep
  <2>2. CASE Notes!Stopping(w) \/ Notes!Queued(w) \/ Notes!Dial(w) \/ Notes!Dialing(w) \/ Notes!Play(w) \/ Notes!Playing(w) \/ Notes!Finishing(w)
    <3>1. UNCHANGED task
      BY <2>2
         DEF Notes!Stopping, Notes!Queued, Notes!Dial, Notes!Dialing, Notes!Play,
             Notes!Playing, Notes!Finishing
    <3>. QED BY <2>2, <3>1, NoteSwitchStep
  <2>. QED BY <2>1, <2>2 DEF Notes!Work
<1>. QED BY <1>1, <1>2, <1>3, <1>4, <1>5, <1>6 DEF Notes!Next

LEMMA NotesHold == Notes!Spec => []NoteInv
<1>1. NoteInv /\ [Notes!Next]_Notes!noteVars => NoteInv'
  BY NoteInductive, EdgesAssumption
<1>. QED BY <1>1, NoteInitInv, PTL DEF Notes!Spec

\* For any workers, faults and stops: a notification that is over has no
\* telephone ringing and no call open.
THEOREM NoCallIsLeft == Notes!Spec => []Notes!NothingLeftRinging
<1>1. NoteInv => Notes!NothingLeftRinging
  BY DEF NoteInv
<1>. QED BY <1>1, NotesHold, PTL

\* For any workers, faults and stops: no step that was under way undoes a
\* cancellation.
THEOREM CancellationHolds == Notes!Spec => Notes!CancelWins
<1>1. NoteInv /\ [Notes!Next]_Notes!noteVars
        => [task.state = "stopping" => task'.state \in {"stopping", "failed", "canceled"}]_Notes!noteVars
  BY NoteInductive, EdgesAssumption
<1>. QED BY <1>1, NotesHold, PTL DEF Notes!Spec, Notes!CancelWins

\* The telephone and the playback are in one of their states, and the switch has
\* dialled and played at most once.
NoteSwitch ==
  /\ phone \in {"none", "made", "ringing", "active", "ended"}
  /\ playback \in {"none", "playing", "finished", "stopped"}
  /\ dials \in {0, 1} /\ plays \in {0, 1}

LEMMA NoteRequestKeeps ==
  ASSUME NoteSwitch, NEW asking, Notes!Switch(asking)
  PROVE  NoteSwitch'
<1>1. CASE asking \in {"create", "dial", "hangup"}
  BY <1>1 DEF Notes!Switch, NoteSwitch, Notes!switch
<1>2. CASE asking \notin {"create", "dial", "hangup"}
  BY <1>2 DEF Notes!Switch, NoteSwitch, Notes!switch
<1>. QED BY <1>1, <1>2

LEMMA NoteSwitchHolds == Notes!Spec => []NoteSwitch
<1>1. Notes!Init => NoteSwitch
  BY DEF Notes!Init, NoteSwitch
<1>2. NoteSwitch /\ [Notes!Next]_Notes!noteVars => NoteSwitch'
  <2> SUFFICES ASSUME NoteSwitch, [Notes!Next]_Notes!noteVars PROVE NoteSwitch'
    OBVIOUS
  <2>1. UNCHANGED Notes!switch => NoteSwitch'
    BY DEF Notes!switch, NoteSwitch
  <2>2. CASE UNCHANGED Notes!noteVars \/ Notes!Submit \/ Notes!Cancel \/ Notes!DeadlinePasses
             \/ Notes!LeaseRunsOut \/ \E w \in Workers : Notes!Claim(w) \/ Notes!Stop(w) \/ Notes!Write(w)
    BY <2>1, <2>2 DEF Notes!noteVars, Notes!Submit, Notes!Cancel, Notes!DeadlinePasses,
                      Notes!LeaseRunsOut, Notes!Claim, Notes!Stop, Notes!Write, Notes!switch
  <2>3. CASE Notes!Telephone
    BY <2>3 DEF Notes!Telephone, NoteSwitch
  <2>4. CASE \E w \in Workers : Notes!Play(w)
    BY <2>1, <2>4 DEF Notes!Play, Notes!PlayKeyed, Notes!switch, NoteSwitch
  <2>5. CASE \E w \in Workers : Notes!Stopping(w) \/ Notes!Queued(w) \/ Notes!Dial(w) \/ Notes!Dialing(w)
                                \/ Notes!Playing(w) \/ Notes!Finishing(w)
    BY <2>1, <2>5, NoteRequestKeeps
       DEF Notes!Stopping, Notes!Queued, Notes!Dial, Notes!Dialing, Notes!Playing, Notes!Finishing,
           Notes!Fault
  <2>. QED BY <2>2, <2>3, <2>4, <2>5 DEF Notes!Next, Notes!Work
<1>. QED BY <1>1, <1>2, PTL DEF Notes!Spec

\* For any workers that stop and answers that are lost: the telephone rings once
\* and the message is played once.
THEOREM ToldAtMostOnce == Notes!Spec => []Notes!ToldOnce
<1>1. NoteSwitch => Notes!ToldOnce
  BY DEF NoteSwitch, Notes!ToldOnce
<1>. QED BY <1>1, NoteSwitchHolds, PTL

---------------------------------------------------------------------------

(***************************************************************************)
(* UserAccess for any logins, requests and changes.  A version of the user *)
(* and a change of the account go together (OneVersionEach), so a token of *)
(* an older change has an older version.  What a refresh has read stays    *)
(* true until it has signed (HoldersAreCurrent): it has the row of its     *)
(* session, and whoever changes the account must have the rows of all live *)
(* sessions first.                                                         *)
(***************************************************************************)

AccessRow == [at: {"none", "live", "revoked", "expired"}, jti: Nat, oidc: BOOLEAN]
AccessToken == [login: Logins, ver: Nat, epoch: Nat]

\* What a request is at: reading, holding the row of a session, or writing.
AccessReading == [at: {"login"}, ver: Nat, epoch: Nat, oidc: BOOLEAN] \cup [at: {"asks"}, t: Nat]
Holding == {"provider", "sign", "changed", "refused", "revokeOthers", "revokeAll"}
Writing == {"revokeOthers", "revokeAll", "apply"}
AccessHolder == [at: Holding, t: Nat, ver: Nat, epoch: Nat]
AccessChange == [at: {"change", "apply"}, disabled: BOOLEAN, signsOut: BOOLEAN]

AccessTypes ==
  /\ user \in [ver: Nat, disabled: BOOLEAN]
  /\ login \in [Logins -> AccessRow]
  /\ tokens \in Seq(AccessToken)
  /\ req \in [Requests -> {Access!Idle} \cup AccessReading \cup AccessHolder \cup AccessChange]
  /\ userLock \in Requests \cup {NoRequest}
  /\ loginLock \in [Logins -> Requests \cup {NoRequest}]
  /\ epoch \in Nat /\ rotated \in Seq(Nat) /\ loggedOut \subseteq Logins

\* A change of the account is a version of the user, in the row, in what was
\* read of it and in what was signed.
OneVersionEach ==
  /\ user.ver = epoch + 1
  /\ \A t \in DOMAIN tokens : tokens[t].ver = tokens[t].epoch + 1
  /\ \A r \in Requests : req[r].at \in {"login"} \cup Holding => req[r].ver = req[r].epoch + 1

\* A request names a token that was signed, and the sessions too.
TokensAreSigned ==
  /\ \A r \in Requests : req[r].at \in {"asks"} \cup Holding => req[r].t \in DOMAIN tokens
  /\ \A l \in Logins : login[l].jti <= Len(tokens)

\* Who has the row of a session brought its token of now, and nobody has
\* changed the user since it was read.
HoldersAreCurrent ==
  \A r \in Requests : req[r].at \in Holding =>
    /\ loginLock[tokens[req[r].t].login] = r
    /\ login[tokens[req[r].t].login].at = "live"
    /\ login[tokens[req[r].t].login].jti = req[r].t
    /\ user.ver = req[r].ver

\* One request at a time writes the row of the user.
WritersAreAlone ==
  /\ epoch <= MaxChanges
  /\ \A r \in Requests : req[r].at \in Writing => userLock = r /\ epoch < MaxChanges

\* A token that was exchanged is not the one of its session.
RotatedAreOld ==
  /\ \A i \in DOMAIN rotated :
       rotated[i] \in DOMAIN tokens /\ login[tokens[rotated[i]].login].jti > rotated[i]
  /\ Access!RotatedOnce

\* A session that was logged out is never live again.
LoggedOutIsOut == \A l \in loggedOut : login[l].at \in {"revoked", "expired"}

AccessInv ==
  /\ AccessTypes /\ OneVersionEach /\ TokensAreSigned /\ HoldersAreCurrent
  /\ WritersAreAlone /\ RotatedAreOld /\ LoggedOutIsOut

LEMMA AccessInitInv == Access!Init => AccessInv
<1> SUFFICES ASSUME Access!Init PROVE AccessInv
  OBVIOUS
<1> USE DEF Access!Init
<1>1. AccessTypes
  BY DEF AccessTypes, AccessRow, Access!NoLogin
<1>2. /\ \A r \in Requests : req[r].at = "idle"
      /\ \A l \in Logins : login[l].jti = 0
  BY DEF Access!Idle, Access!NoLogin
<1>3. OneVersionEach
  BY <1>2 DEF OneVersionEach, Holding
<1>4. HoldersAreCurrent /\ RotatedAreOld /\ LoggedOutIsOut
  BY <1>2 DEF HoldersAreCurrent, RotatedAreOld, LoggedOutIsOut, Access!RotatedOnce, Holding
<1>5. TokensAreSigned
  BY <1>2 DEF TokensAreSigned, Holding
<1>6. WritersAreAlone
  BY <1>2, EdgesAssumption DEF WritersAreAlone, Writing
<1>. QED BY <1>1, <1>3, <1>4, <1>5, <1>6 DEF AccessInv

LEMMA TokensOfLogins ==
  ASSUME AccessTypes
  PROVE  \A t \in DOMAIN tokens : t \in Nat /\ tokens[t] \in AccessToken /\ tokens[t].login \in Logins
<1>1. \A t \in DOMAIN tokens : t \in Nat /\ tokens[t] \in AccessToken
  BY DEF AccessTypes
<1>. QED BY <1>1 DEF AccessToken

\* One more token: those there were remain.
LEMMA SignedTokens ==
  ASSUME AccessTypes, NEW l \in Logins, NEW v \in Nat, NEW e \in Nat
  PROVE  /\ Access!Signed(l, v, e) \in Seq(AccessToken)
         /\ Len(Access!Signed(l, v, e)) = Len(tokens) + 1 /\ Len(tokens) \in Nat
         /\ DOMAIN tokens = 1 .. Len(tokens)
         /\ DOMAIN Access!Signed(l, v, e) = 1 .. Len(tokens) + 1
         /\ \A t \in 1 .. Len(tokens) : Access!Signed(l, v, e)[t] = tokens[t]
         /\ Access!Signed(l, v, e)[Len(tokens) + 1] = [login |-> l, ver |-> v, epoch |-> e]
<1> DEFINE x == [login |-> l, ver |-> v, epoch |-> e]
<1>1. x \in AccessToken
  BY DEF AccessToken
<1>2. tokens \in Seq(AccessToken)
  BY DEF AccessTypes
<1> HIDE DEF x
<1>3. /\ Append(tokens, x) \in Seq(AccessToken) /\ Len(Append(tokens, x)) = Len(tokens) + 1
      /\ Len(tokens) \in Nat /\ DOMAIN tokens = 1 .. Len(tokens)
      /\ \A t \in 1 .. Len(tokens) : Append(tokens, x)[t] = tokens[t]
      /\ Append(tokens, x)[Len(tokens) + 1] = x
  BY <1>1, <1>2
<1>4. DOMAIN Append(tokens, x) = 1 .. Len(tokens) + 1
  BY <1>3
<1>. QED BY <1>3, <1>4 DEF Access!Signed, x

\* What the end of a transaction leaves of the others.
LEMMA EndsLeaves ==
  ASSUME NoRequest \notin Requests, AccessTypes, NEW r \in Requests, Access!Ends(r)
  PROVE  /\ req' \in [Requests -> {Access!Idle} \cup AccessReading \cup AccessHolder \cup AccessChange]
         /\ req'[r].at = "idle" /\ \A q \in Requests : q # r => req'[q] = req[q]
         /\ userLock' \in Requests \cup {NoRequest}
         /\ \A q \in Requests : q # r /\ userLock = q => userLock' = q
         /\ loginLock' \in [Logins -> Requests \cup {NoRequest}]
         /\ \A q \in Requests, l \in Logins : q # r /\ loginLock[l] = q => loginLock'[l] = q
BY DEF AccessTypes, Access!Ends, Access!Becomes, Access!Idle

\* A request that reads, asks, or goes on.
LEMMA AccessReadStep ==
  ASSUME NoRequest \notin Requests, AccessInv, NEW r \in Requests,
         \/ \E oidc \in BOOLEAN : Access!ReadUser(r, oidc)
         \/ \E t \in 1 .. MaxTokens : Access!RefreshAsks(r, t)
         \/ \E flag \in BOOLEAN : Access!Update(r, flag)
         \/ Access!ChangeAccount(r)
  PROVE  AccessInv'
<1> USE DEF AccessInv
<1>1. UNCHANGED <<user, login, tokens, userLock, loginLock, epoch, rotated, loggedOut>>
  BY DEF Access!ReadUser, Access!RefreshAsks, Access!Update, Access!ChangeAccount
<1>2. PICK x \in AccessReading \cup AccessChange :
        /\ req' = [req EXCEPT ![r] = x] /\ x.at \notin Holding \cup Writing
        /\ x.at = "login" => x.ver = x.epoch + 1
        /\ x.at = "asks" => x.t \in DOMAIN tokens
  <2>1. CASE \E oidc \in BOOLEAN : Access!ReadUser(r, oidc)
    <3> PICK oidc \in BOOLEAN : Access!ReadUser(r, oidc)
      BY <2>1
    <3> DEFINE x == [at |-> "login", ver |-> user.ver, epoch |-> epoch, oidc |-> oidc]
    <3>1. req' = [req EXCEPT ![r] = x]
      BY DEF Access!ReadUser, Access!Becomes
    <3>2. x \in AccessReading /\ x.ver = x.epoch + 1 /\ x.at = "login"
      BY DEF AccessTypes, AccessReading, OneVersionEach
    <3> HIDE DEF x
    <3>. QED BY <3>1, <3>2 DEF Holding, Writing
  <2>2. CASE \E t \in 1 .. MaxTokens : Access!RefreshAsks(r, t)
    <3> PICK t \in 1 .. MaxTokens : Access!RefreshAsks(r, t)
      BY <2>2
    <3> DEFINE x == [at |-> "asks", t |-> t]
    <3>1. req' = [req EXCEPT ![r] = x] /\ t \in DOMAIN tokens
      BY DEF Access!RefreshAsks, Access!Becomes
    <3>2. x \in AccessReading /\ x.at = "asks" /\ x.t = t
      BY EdgesAssumption DEF AccessReading
    <3> HIDE DEF x
    <3>. QED BY <3>1, <3>2 DEF Holding, Writing
  <2>3. CASE (\E flag \in BOOLEAN : Access!Update(r, flag)) \/ Access!ChangeAccount(r)
    <3>1. PICK d \in BOOLEAN, s \in BOOLEAN :
            req' = [req EXCEPT ![r] = [at |-> "change", disabled |-> d, signsOut |-> s]]
      BY <2>3 DEF AccessTypes, Access!Update, Access!ChangeAccount, Access!Becomes
    <3> DEFINE x == [at |-> "change", disabled |-> d, signsOut |-> s]
    <3>2. x \in AccessChange /\ x.at = "change"
      BY DEF AccessChange
    <3> HIDE DEF x
    <3>. QED BY <3>1, <3>2 DEF Holding, Writing, x
  <2>. QED BY <2>1, <2>2, <2>3
<1>3. req'[r] = x /\ \A q \in Requests : q # r => req'[q] = req[q]
  BY <1>2 DEF AccessTypes
<1>4. AccessTypes'
  BY <1>1, <1>2 DEF AccessTypes
<1>5. OneVersionEach' /\ TokensAreSigned' /\ HoldersAreCurrent' /\ WritersAreAlone'
  BY <1>1, <1>2, <1>3 DEF OneVersionEach, TokensAreSigned, HoldersAreCurrent, WritersAreAlone, Holding,
     Writing
<1>6. RotatedAreOld' /\ LoggedOutIsOut'
  BY <1>1 DEF RotatedAreOld, LoggedOutIsOut, Access!RotatedOnce
<1>. QED BY <1>4, <1>5, <1>6

\* A refresh takes the row of its session, or is refused.
LEMMA RefreshLocksStep ==
  ASSUME NoRequest \notin Requests, AccessInv, NEW r \in Requests, Access!RefreshLocks(r)
  PROVE  AccessInv'
<1> DEFINE t == req[r].t
           l == tokens[t].login
           y == [at |-> IF login[l].oidc THEN "provider" ELSE "sign",
                 t |-> t, ver |-> user.ver, epoch |-> epoch]
<1> USE DEF AccessInv
<1>1. /\ UNCHANGED <<user, login, tokens, spent, userLock, epoch, rotated, loggedOut>>
      /\ req[r].at = "asks" /\ loginLock[l] = NoRequest
  BY DEF Access!RefreshLocks
<1>2. t \in DOMAIN tokens /\ l \in Logins
  BY <1>1, TokensOfLogins DEF TokensAreSigned
<1>3. RotatedAreOld' /\ LoggedOutIsOut'
  BY <1>1 DEF RotatedAreOld, LoggedOutIsOut, Access!RotatedOnce
<1>4. CASE /\ Access!Current(l, t)
           /\ loginLock' = [loginLock EXCEPT ![l] = r] /\ req' = [req EXCEPT ![r] = y]
  <2>1. t \in Nat
    BY <1>2, TokensOfLogins
  <2>2. y \in AccessHolder /\ y.at \in Holding \ Writing /\ y.t = t /\ y.ver = user.ver /\ y.epoch = epoch
    BY <2>1 DEF AccessHolder, AccessTypes, Holding, Writing
  <2> HIDE DEF y
  <2>3. req'[r] = y /\ \A q \in Requests : q # r => req'[q] = req[q]
    BY <1>4 DEF AccessTypes
  <2>4. loginLock'[l] = r /\ \A k \in Logins : k # l => loginLock'[k] = loginLock[k]
    BY <1>2, <1>4 DEF AccessTypes
  <2>5. AccessTypes'
    BY <1>1, <1>4, <2>2 DEF AccessTypes
  <2>6. OneVersionEach'
    BY <1>1, <2>2, <2>3 DEF OneVersionEach
  <2>7. TokensAreSigned'
    BY <1>1, <1>2, <2>2, <2>3 DEF TokensAreSigned
  <2>8. WritersAreAlone'
    BY <1>1, <2>2, <2>3 DEF WritersAreAlone
  <2>9. HoldersAreCurrent'
    <3> SUFFICES ASSUME NEW q \in Requests, req'[q].at \in Holding
                 PROVE  /\ loginLock'[tokens[req'[q].t].login] = q
                        /\ login[tokens[req'[q].t].login].at = "live"
                        /\ login[tokens[req'[q].t].login].jti = req'[q].t
                        /\ user.ver = req'[q].ver
      BY <1>1 DEF HoldersAreCurrent
    <3>1. CASE q = r
      BY <1>4, <2>2, <2>3, <2>4, <3>1 DEF Access!Current
    <3>2. CASE q # r
      <4>1. loginLock[tokens[req[q].t].login] = q /\ tokens[req[q].t].login \in Logins
        BY <2>3, <3>2, TokensOfLogins DEF HoldersAreCurrent, TokensAreSigned
      <4>2. tokens[req[q].t].login # l
        BY <1>1, <4>1
      <4>. QED BY <2>3, <2>4, <3>2, <4>1, <4>2 DEF HoldersAreCurrent
    <3>. QED BY <3>1, <3>2
  <2>. QED BY <1>3, <2>5, <2>6, <2>7, <2>8, <2>9
<1>5. CASE UNCHANGED loginLock /\ req' = [req EXCEPT ![r] = Access!Idle]
  <2>1. req'[r].at = "idle" /\ \A q \in Requests : q # r => req'[q] = req[q]
    BY <1>5 DEF AccessTypes, Access!Idle
  <2>2. AccessTypes'
    BY <1>1, <1>5 DEF AccessTypes
  <2>3. OneVersionEach' /\ TokensAreSigned' /\ HoldersAreCurrent' /\ WritersAreAlone'
    BY <1>1, <1>5, <2>1
       DEF OneVersionEach, TokensAreSigned, HoldersAreCurrent, WritersAreAlone, Holding, Writing
  <2>. QED BY <1>3, <2>2, <2>3
<1>. QED BY <1>4, <1>5 DEF Access!RefreshLocks, Access!Becomes

\* A refresh that goes on with what it read, and a change of the account that
\* takes the row of the user.
LEMMA AccessGoesOnStep ==
  ASSUME NoRequest \notin Requests, AccessInv, NEW r \in Requests,
         \/ \E answer \in {"sign", "changed", "refused"} : Access!Provider(r, answer)
         \/ Access!LockUser(r)
  PROVE  AccessInv'
<1> USE DEF AccessInv
<1>1. UNCHANGED <<user, login, tokens, spent, loginLock, epoch, rotated, loggedOut>>
  BY DEF Access!Provider, Access!LockUser
<1>2. RotatedAreOld' /\ LoggedOutIsOut'
  BY <1>1 DEF RotatedAreOld, LoggedOutIsOut, Access!RotatedOnce
<1>3. req[r] \in AccessHolder \/ req[r] \in AccessChange
  BY DEF AccessTypes, AccessReading, Access!Provider, Access!LockUser, Access!Idle
<1>4. PICK at \in Holding \cup {"apply"} :
        /\ req' = [req EXCEPT ![r] = [req[r] EXCEPT !.at = at]]
        /\ at = "apply" <=> req[r].at = "change"
        /\ at \in Writing => userLock = NoRequest /\ userLock' = r /\ epoch < MaxChanges
        /\ at \notin Writing => UNCHANGED userLock
  <2>1. CASE \E answer \in {"sign", "changed", "refused"} : Access!Provider(r, answer)
    BY <2>1 DEF Access!Provider, Access!Becomes, Holding, Writing
  <2>2. CASE Access!LockUser(r) /\ req[r].at = "changed"
    BY <2>2 DEF Access!LockUser, Access!Becomes, Holding, Writing
  <2>3. CASE Access!LockUser(r) /\ req[r].at = "refused"
    BY <2>3 DEF Access!LockUser, Access!Becomes, Holding, Writing
  <2>4. CASE Access!LockUser(r) /\ req[r].at = "change"
    BY <2>4 DEF Access!LockUser, Access!Becomes, Holding, Writing
  <2>. QED BY <2>1, <2>2, <2>3, <2>4 DEF Access!LockUser
<1> DEFINE y == [req[r] EXCEPT !.at = at]
<1>5. /\ y \in AccessHolder \cup AccessChange /\ y.at = at
      /\ at \in Holding => req[r].at \in Holding /\ y.t = req[r].t /\ y.ver = req[r].ver /\ y.epoch = req[r].epoch
  <2>1. CASE req[r] \in AccessHolder
    <3>1. at \in Holding /\ req[r].at \in Holding
      BY <1>4, <2>1 DEF AccessHolder, Holding
    <3>. QED BY <2>1, <3>1 DEF AccessHolder
  <2>2. CASE req[r] \in AccessChange
    <3>1. req[r].at \in {"change", "apply"}
      BY <2>2 DEF AccessChange
    <3>2. req[r].at = "change"
      BY <3>1 DEF Access!Provider, Access!LockUser
    <3>3. at = "apply"
      BY <1>4, <3>2
    <3>. QED BY <2>2, <3>3 DEF AccessChange, Holding
  <2>. QED BY <1>3, <2>1, <2>2
<1>6. req' = [req EXCEPT ![r] = y]
  BY <1>4
<1> HIDE DEF y
<1>7. req'[r] = y /\ \A q \in Requests : q # r => req'[q] = req[q]
  BY <1>6 DEF AccessTypes
<1>8. AccessTypes'
  BY <1>1, <1>4, <1>5, <1>6 DEF AccessTypes
<1>9. OneVersionEach' /\ TokensAreSigned' /\ HoldersAreCurrent'
  BY <1>1, <1>4, <1>5, <1>7 DEF OneVersionEach, TokensAreSigned, HoldersAreCurrent, Holding
<1>10. WritersAreAlone'
  BY <1>1, <1>4, <1>5, <1>7 DEF WritersAreAlone, AccessTypes
<1>. QED BY <1>2, <1>8, <1>9, <1>10

\* A transaction that fails.
LEMMA AbortStep ==
  ASSUME NoRequest \notin Requests, AccessInv, NEW r \in Requests, Access!Abort(r)
  PROVE  AccessInv'
<1> USE DEF AccessInv
<1>1. Access!Ends(r) /\ UNCHANGED <<user, login, tokens, spent, epoch, rotated, loggedOut>>
  BY DEF Access!Abort
<1>2. /\ req' \in [Requests -> {Access!Idle} \cup AccessReading \cup AccessHolder \cup AccessChange]
      /\ req'[r].at = "idle" /\ \A q \in Requests : q # r => req'[q] = req[q]
      /\ userLock' \in Requests \cup {NoRequest}
      /\ \A q \in Requests : q # r /\ userLock = q => userLock' = q
      /\ loginLock' \in [Logins -> Requests \cup {NoRequest}]
      /\ \A q \in Requests, l \in Logins : q # r /\ loginLock[l] = q => loginLock'[l] = q
  BY <1>1, EndsLeaves
<1>3. AccessTypes'
  BY <1>1, <1>2 DEF AccessTypes
<1>4. OneVersionEach' /\ TokensAreSigned' /\ WritersAreAlone'
  BY <1>1, <1>2 DEF OneVersionEach, TokensAreSigned, WritersAreAlone, Holding, Writing
<1>5. HoldersAreCurrent'
  <2> SUFFICES ASSUME NEW q \in Requests, req'[q].at \in Holding
               PROVE  /\ loginLock'[tokens[req'[q].t].login] = q
                      /\ login[tokens[req'[q].t].login].at = "live"
                      /\ login[tokens[req'[q].t].login].jti = req'[q].t
                      /\ user.ver = req'[q].ver
    BY <1>1 DEF HoldersAreCurrent
  <2>1. q # r /\ req'[q] = req[q]
    BY <1>2 DEF Holding
  <2>2. tokens[req[q].t].login \in Logins
    BY <2>1, TokensOfLogins DEF TokensAreSigned
  <2>. QED BY <1>2, <2>1, <2>2 DEF HoldersAreCurrent
<1>6. RotatedAreOld' /\ LoggedOutIsOut'
  BY <1>1 DEF RotatedAreOld, LoggedOutIsOut, Access!RotatedOnce
<1>. QED BY <1>3, <1>4, <1>5, <1>6

\* Sessions that are revoked, or stay as they are.
LEMMA RevokedRows ==
  ASSUME AccessTypes, NEW S
  PROVE  /\ Access!RevokedBut(S) \in [Logins -> AccessRow]
         /\ \A l \in Logins : /\ Access!RevokedBut(S)[l].jti = login[l].jti
                              /\ Access!RevokedBut(S)[l].at \in {login[l].at, "revoked"}
                              /\ Access!RevokedBut(S)[l].at = "revoked" =>
                                   login[l].at \in {"live", "revoked"}
                              /\ l \in S => Access!RevokedBut(S)[l] = login[l]
<1>1. \A l \in Logins : login[l] \in AccessRow
  BY DEF AccessTypes
<1>2. \A l \in Logins : [login[l] EXCEPT !.at = "revoked"] \in AccessRow
  BY <1>1 DEF AccessRow
<1>3. Access!RevokedBut(S) \in [Logins -> AccessRow]
  BY <1>1, <1>2 DEF Access!RevokedBut
<1>4. \A l \in Logins : [login[l] EXCEPT !.at = "revoked"].jti = login[l].jti
                        /\ [login[l] EXCEPT !.at = "revoked"].at = "revoked"
  BY <1>1 DEF AccessRow
<1>. QED BY <1>3, <1>4 DEF Access!RevokedBut

\* A change of the account has to wait for whoever has the row of a live
\* session, and these are all that hold one.
LEMMA NobodyHolds ==
  ASSUME NoRequest \notin Requests, AccessInv, NEW r \in Requests, NEW S \in SUBSET Logins,
         Access!MayRevoke(r, S),
         NEW q \in Requests, q # r, req[q].at \in Holding
  PROVE  tokens[req[q].t].login \in S
BY TokensOfLogins DEF AccessInv, Access!MayRevoke, HoldersAreCurrent, TokensAreSigned

\* What is signed for a version and a change that go together.
LEMMA SignedVersions ==
  ASSUME AccessInv, NEW l \in Logins, NEW v \in Nat, NEW e \in Nat, v = e + 1,
         tokens' = Access!Signed(l, v, e)
  PROVE  /\ tokens' \in Seq(AccessToken) /\ DOMAIN tokens \subseteq DOMAIN tokens'
         /\ Len(tokens') = Len(tokens) + 1 /\ Len(tokens) \in Nat
         /\ \A t \in DOMAIN tokens : tokens'[t] = tokens[t] /\ t <= Len(tokens)
         /\ \A t \in DOMAIN tokens' : tokens'[t].ver = tokens'[t].epoch + 1
<1>1. /\ tokens' \in Seq(AccessToken) /\ Len(tokens') = Len(tokens) + 1 /\ Len(tokens) \in Nat
      /\ DOMAIN tokens = 1 .. Len(tokens) /\ DOMAIN tokens' = 1 .. Len(tokens) + 1
      /\ \A t \in 1 .. Len(tokens) : tokens'[t] = tokens[t]
      /\ tokens'[Len(tokens) + 1] = [login |-> l, ver |-> v, epoch |-> e]
  BY SignedTokens DEF AccessInv
<1>2. tokens'[Len(tokens) + 1].ver = tokens'[Len(tokens) + 1].epoch + 1
  BY <1>1
<1>3. \A t \in 1 .. Len(tokens) : tokens'[t].ver = tokens'[t].epoch + 1
  BY <1>1 DEF AccessInv, OneVersionEach
<1>4. \A t \in DOMAIN tokens' : t \in 1 .. Len(tokens) \/ t = Len(tokens) + 1
  BY <1>1
<1>5. \A t \in DOMAIN tokens' : tokens'[t].ver = tokens'[t].epoch + 1
  BY <1>2, <1>3, <1>4
<1>6. DOMAIN tokens \subseteq DOMAIN tokens'
  BY <1>1
<1>. QED BY <1>1, <1>5, <1>6

\* A login makes its session.
LEMMA CreateLoginStep ==
  ASSUME NoRequest \notin Requests, AccessInv,
         NEW r \in Requests, NEW l \in Logins, Access!CreateLogin(r, l)
  PROVE  AccessInv'
<1> DEFINE opened == [at |-> "live", jti |-> Len(tokens'), oidc |-> req[r].oidc]
<1> USE DEF AccessInv
<1>1. /\ req[r].at = "login" /\ login[l].at = "none" /\ tokens' = Access!Signed(l, req[r].ver, req[r].epoch)
      /\ login' = [login EXCEPT ![l] = opened] /\ Access!Ends(r)
      /\ UNCHANGED <<user, spent, epoch, rotated, loggedOut>>
  BY DEF Access!CreateLogin
<1>2. req[r].ver \in Nat /\ req[r].epoch \in Nat /\ req[r].oidc \in BOOLEAN
  <2>1. req[r] \in {Access!Idle} \cup AccessReading \cup AccessHolder \cup AccessChange
    BY DEF AccessTypes
  <2>2. req[r] \notin AccessHolder /\ req[r] \notin AccessChange /\ req[r] # Access!Idle
    BY <1>1 DEF AccessHolder, AccessChange, Holding, Access!Idle
  <2>. QED BY <1>1, <2>1, <2>2 DEF AccessReading
<1>3. req[r].ver = req[r].epoch + 1
  BY <1>1 DEF OneVersionEach
<1>4. /\ tokens' \in Seq(AccessToken) /\ DOMAIN tokens \subseteq DOMAIN tokens'
      /\ Len(tokens') = Len(tokens) + 1 /\ Len(tokens) \in Nat
      /\ \A t \in DOMAIN tokens : tokens'[t] = tokens[t] /\ t <= Len(tokens)
      /\ \A t \in DOMAIN tokens' : tokens'[t].ver = tokens'[t].epoch + 1
  BY <1>1, <1>2, <1>3, SignedVersions
<1>5. opened \in AccessRow /\ opened.at = "live" /\ opened.jti = Len(tokens) + 1
  BY <1>2, <1>4 DEF AccessRow
<1> HIDE DEF opened
<1>6. login'[l] = opened /\ \A k \in Logins : k # l => login'[k] = login[k]
  BY <1>1 DEF AccessTypes
<1>7. /\ req' \in [Requests -> {Access!Idle} \cup AccessReading \cup AccessHolder \cup AccessChange]
      /\ req'[r].at = "idle" /\ \A q \in Requests : q # r => req'[q] = req[q]
      /\ userLock' \in Requests \cup {NoRequest}
      /\ \A q \in Requests : q # r /\ userLock = q => userLock' = q
      /\ loginLock' \in [Logins -> Requests \cup {NoRequest}]
      /\ \A q \in Requests, k \in Logins : q # r /\ loginLock[k] = q => loginLock'[k] = q
  BY <1>1, EndsLeaves
<1>8. AccessTypes'
  BY <1>1, <1>4, <1>5, <1>7 DEF AccessTypes
<1>9. OneVersionEach'
  BY <1>1, <1>4, <1>7 DEF OneVersionEach, Holding
<1>10. TokensAreSigned'
  <2>1. \A k \in Logins : login'[k].jti <= Len(tokens')
    <3>1. \A k \in Logins : login[k].jti \in Nat /\ login[k].jti <= Len(tokens)
      BY DEF TokensAreSigned, AccessTypes, AccessRow
    <3>. QED BY <1>4, <1>5, <1>6, <3>1
  <2>. QED BY <1>4, <1>7, <2>1 DEF TokensAreSigned, Holding
<1>11. WritersAreAlone'
  BY <1>1, <1>7 DEF WritersAreAlone, Writing
<1>12. HoldersAreCurrent'
  <2> SUFFICES ASSUME NEW q \in Requests, req'[q].at \in Holding
               PROVE  /\ loginLock'[tokens'[req'[q].t].login] = q
                      /\ login'[tokens'[req'[q].t].login].at = "live"
                      /\ login'[tokens'[req'[q].t].login].jti = req'[q].t
                      /\ user.ver = req'[q].ver
    BY <1>1 DEF HoldersAreCurrent
  <2>1. q # r /\ req'[q] = req[q]
    BY <1>7 DEF Holding
  <2>2. /\ tokens[req[q].t].login \in Logins /\ tokens'[req[q].t] = tokens[req[q].t]
        /\ tokens[req[q].t].login # l
    BY <1>1, <1>4, <2>1, TokensOfLogins DEF TokensAreSigned, HoldersAreCurrent
  <2> DEFINE k == tokens[req[q].t].login
  <2>3. /\ k \in Logins /\ k # l /\ tokens'[req'[q].t].login = k
        /\ req'[q].t = req[q].t /\ req'[q].ver = req[q].ver
    BY <2>1, <2>2
  <2>4. loginLock[k] = q /\ login[k].at = "live" /\ login[k].jti = req[q].t /\ user.ver = req[q].ver
    BY <2>1 DEF HoldersAreCurrent
  <2> HIDE DEF k, AccessInv
  <2>5. login'[k] = login[k] /\ loginLock'[k] = q
    BY <1>6, <1>7, <2>1, <2>3, <2>4
  <2>. QED BY <2>3, <2>4, <2>5
<1>13. RotatedAreOld'
  <2> SUFFICES ASSUME NEW i \in DOMAIN rotated
               PROVE  /\ rotated[i] \in DOMAIN tokens'
                      /\ login'[tokens'[rotated[i]].login].jti > rotated[i]
    BY <1>1 DEF RotatedAreOld, Access!RotatedOnce
  <2>1. /\ rotated[i] \in DOMAIN tokens /\ login[tokens[rotated[i]].login].jti > rotated[i]
        /\ tokens[rotated[i]].login \in Logins /\ rotated[i] \in Nat
    BY TokensOfLogins DEF RotatedAreOld
  <2>2. tokens'[rotated[i]] = tokens[rotated[i]] /\ rotated[i] <= Len(tokens)
    BY <1>4, <2>1
  <2>. QED BY <1>4, <1>5, <1>6, <2>1, <2>2
<1>14. LoggedOutIsOut'
  BY <1>1, <1>6 DEF LoggedOutIsOut, AccessTypes
<1>. QED BY <1>8, <1>9, <1>10, <1>11, <1>12, <1>13, <1>14

\* A refresh ends with a new pair: the token it brought is the old one now.
LEMMA RotateKeeps ==
  ASSUME NoRequest \notin Requests, AccessInv, NEW r \in Requests, req[r].at \in Holding,
         NEW e \in Nat, NEW v \in Nat, v = e + 1,
         NEW kept \in [Logins -> AccessRow],
         \A k \in Logins : kept[k].jti = login[k].jti,
         Access!Rotate(r, v, e, kept)
  PROVE  /\ tokens' \in Seq(AccessToken) /\ DOMAIN tokens \subseteq DOMAIN tokens'
         /\ \A t \in DOMAIN tokens : tokens'[t] = tokens[t]
         /\ \A t \in DOMAIN tokens' : tokens'[t].ver = tokens'[t].epoch + 1
         /\ login' \in [Logins -> AccessRow]
         /\ \A k \in Logins : login'[k].jti <= Len(tokens') /\ login'[k].at = kept[k].at
         /\ \A k \in Logins : k # tokens[req[r].t].login => login'[k] = kept[k]
         /\ rotated' \in Seq(Nat) /\ RotatedAreOld'
<1> DEFINE t == req[r].t
           l == tokens[t].login
<1> USE DEF AccessInv
<1>1. /\ tokens' = Access!Signed(l, v, e) /\ rotated' = Append(rotated, t)
      /\ login' = [kept EXCEPT ![l].jti = Len(tokens')]
  BY DEF Access!Rotate
<1>2. t \in DOMAIN tokens /\ t \in Nat /\ l \in Logins /\ login[l].jti = t
  BY TokensOfLogins DEF TokensAreSigned, HoldersAreCurrent
<1>3. /\ tokens' \in Seq(AccessToken) /\ DOMAIN tokens \subseteq DOMAIN tokens'
      /\ Len(tokens') = Len(tokens) + 1 /\ Len(tokens) \in Nat
      /\ \A u \in DOMAIN tokens : tokens'[u] = tokens[u] /\ u <= Len(tokens)
      /\ \A u \in DOMAIN tokens' : tokens'[u].ver = tokens'[u].epoch + 1
  BY <1>1, <1>2, SignedVersions
<1> DEFINE signed == [kept[l] EXCEPT !.jti = Len(tokens')]
<1>4. signed \in AccessRow /\ signed.at = kept[l].at /\ signed.jti = Len(tokens) + 1
  <2>1. kept[l] \in AccessRow
    BY <1>2
  <2>2. \A n \in Nat : LET x == [kept[l] EXCEPT !.jti = n] IN
          x \in AccessRow /\ x.at = kept[l].at /\ x.jti = n
    BY <2>1 DEF AccessRow
  <2>3. Len(tokens') \in Nat
    BY <1>3
  <2>. QED BY <1>3, <2>2, <2>3
<1>5. login' = [kept EXCEPT ![l] = signed]
  BY <1>1
<1> HIDE DEF signed
<1>6. /\ login' \in [Logins -> AccessRow] /\ login'[l] = signed
      /\ \A k \in Logins : k # l => login'[k] = kept[k]
  BY <1>2, <1>4, <1>5
<1>7. \A k \in Logins : login'[k].jti <= Len(tokens') /\ login'[k].at = kept[k].at
  <2>1. \A k \in Logins : login[k].jti \in Nat /\ login[k].jti <= Len(tokens)
    BY DEF TokensAreSigned, AccessTypes, AccessRow
  <2>. QED BY <1>3, <1>4, <1>6, <2>1
<1>8. \A i \in DOMAIN rotated : rotated[i] # t
  BY <1>2 DEF RotatedAreOld
<1>9. /\ rotated' \in Seq(Nat)
      /\ \A i \in DOMAIN rotated' : \/ rotated'[i] = t /\ i \notin DOMAIN rotated
                                    \/ i \in DOMAIN rotated /\ rotated'[i] = rotated[i]
      /\ \A i, j \in DOMAIN rotated' : i # j => i \in DOMAIN rotated \/ j \in DOMAIN rotated
  <2>1. rotated \in Seq(Nat) /\ t \in Nat /\ rotated' = Append(rotated, t)
    BY <1>1, <1>2 DEF AccessTypes
  <2> HIDE DEF t, AccessInv
  <2>. QED BY <2>1, Longer
<1>10. \A i \in DOMAIN rotated : /\ rotated[i] \in DOMAIN tokens'
                                 /\ login'[tokens'[rotated[i]].login].jti > rotated[i]
  <2> SUFFICES ASSUME NEW i \in DOMAIN rotated
               PROVE  /\ rotated[i] \in DOMAIN tokens'
                      /\ login'[tokens'[rotated[i]].login].jti > rotated[i]
    OBVIOUS
  <2>1. /\ rotated[i] \in DOMAIN tokens /\ login[tokens[rotated[i]].login].jti > rotated[i]
        /\ tokens[rotated[i]].login \in Logins /\ rotated[i] \in Nat
    BY TokensOfLogins DEF RotatedAreOld
  <2>2. tokens'[rotated[i]] = tokens[rotated[i]] /\ rotated[i] <= Len(tokens)
    BY <1>3, <2>1
  <2>. QED BY <1>3, <1>4, <1>6, <2>1, <2>2
<1>11. t \in DOMAIN tokens' /\ login'[tokens'[t].login].jti > t
  <2>1. tokens'[t].login = l /\ t <= Len(tokens)
    BY <1>2, <1>3
  <2>. QED BY <1>2, <1>3, <1>4, <1>6, <2>1
<1>12. \A i \in DOMAIN rotated' : /\ rotated'[i] \in DOMAIN tokens'
                                  /\ login'[tokens'[rotated'[i]].login].jti > rotated'[i]
  BY <1>9, <1>10, <1>11
<1>13. \A i, j \in DOMAIN rotated' : i # j => rotated'[i] # rotated'[j]
  BY <1>8, <1>9 DEF RotatedAreOld, Access!RotatedOnce
<1>. QED BY <1>3, <1>6, <1>7, <1>9, <1>12, <1>13 DEF RotatedAreOld, Access!RotatedOnce

\* A refresh signs with what it read.
LEMMA SignStep ==
  ASSUME NoRequest \notin Requests, AccessInv, NEW r \in Requests, Access!Sign(r)
  PROVE  AccessInv'
<1> DEFINE l == tokens[req[r].t].login
<1> USE DEF AccessInv
<1>1. /\ req[r].at = "sign" /\ Access!Rotate(r, req[r].ver, req[r].epoch, login) /\ Access!Ends(r)
      /\ UNCHANGED <<user, epoch, loggedOut>>
  BY DEF Access!Sign, Access!Rotate
<1>2. req[r].at \in Holding
  BY <1>1 DEF Holding
<1>3. /\ req[r].ver \in Nat /\ req[r].epoch \in Nat /\ req[r].ver = req[r].epoch + 1
  <2>1. req[r] \in {Access!Idle} \cup AccessReading \cup AccessHolder \cup AccessChange
    BY DEF AccessTypes
  <2>2. req[r] \notin AccessReading /\ req[r] \notin AccessChange /\ req[r] # Access!Idle
    BY <1>1 DEF AccessReading, AccessChange, Access!Idle
  <2>. QED BY <1>2, <2>1, <2>2 DEF AccessHolder, OneVersionEach
<1>4. login \in [Logins -> AccessRow]
  BY DEF AccessTypes
<1>5. /\ tokens' \in Seq(AccessToken) /\ DOMAIN tokens \subseteq DOMAIN tokens'
      /\ \A t \in DOMAIN tokens : tokens'[t] = tokens[t]
      /\ \A t \in DOMAIN tokens' : tokens'[t].ver = tokens'[t].epoch + 1
      /\ login' \in [Logins -> AccessRow]
      /\ \A k \in Logins : login'[k].jti <= Len(tokens') /\ login'[k].at = login[k].at
      /\ \A k \in Logins : k # l => login'[k] = login[k]
      /\ rotated' \in Seq(Nat) /\ RotatedAreOld'
  BY <1>1, <1>2, <1>3, <1>4, RotateKeeps
<1>6. /\ req' \in [Requests -> {Access!Idle} \cup AccessReading \cup AccessHolder \cup AccessChange]
      /\ req'[r].at = "idle" /\ \A q \in Requests : q # r => req'[q] = req[q]
      /\ userLock' \in Requests \cup {NoRequest}
      /\ \A q \in Requests : q # r /\ userLock = q => userLock' = q
      /\ loginLock' \in [Logins -> Requests \cup {NoRequest}]
      /\ \A q \in Requests, k \in Logins : q # r /\ loginLock[k] = q => loginLock'[k] = q
  BY <1>1, EndsLeaves
<1>7. AccessTypes'
  BY <1>1, <1>5, <1>6 DEF AccessTypes
<1>8. OneVersionEach'
  BY <1>1, <1>5, <1>6 DEF OneVersionEach, Holding
<1>9. TokensAreSigned'
  BY <1>5, <1>6 DEF TokensAreSigned, Holding
<1>10. WritersAreAlone'
  BY <1>1, <1>6 DEF WritersAreAlone, Writing
<1>11. HoldersAreCurrent'
  <2> SUFFICES ASSUME NEW q \in Requests, req'[q].at \in Holding
               PROVE  /\ loginLock'[tokens'[req'[q].t].login] = q
                      /\ login'[tokens'[req'[q].t].login].at = "live"
                      /\ login'[tokens'[req'[q].t].login].jti = req'[q].t
                      /\ user.ver = req'[q].ver
    BY <1>1 DEF HoldersAreCurrent
  <2>1. q # r /\ req'[q] = req[q]
    BY <1>6 DEF Holding
  <2>2. /\ tokens[req[q].t].login \in Logins /\ tokens'[req[q].t] = tokens[req[q].t]
        /\ tokens[req[q].t].login # l
    BY <1>2, <1>5, <2>1, TokensOfLogins DEF TokensAreSigned, HoldersAreCurrent
  <2>3. /\ loginLock[tokens[req[q].t].login] = q /\ login[tokens[req[q].t].login].at = "live"
        /\ login[tokens[req[q].t].login].jti = req[q].t /\ user.ver = req[q].ver
    BY <2>1 DEF HoldersAreCurrent
  <2>4. login'[tokens[req[q].t].login] = login[tokens[req[q].t].login]
    BY <1>5, <2>2
  <2>5. loginLock'[tokens[req[q].t].login] = q
    BY <1>6, <2>1, <2>2, <2>3
  <2>. QED BY <2>1, <2>2, <2>3, <2>4, <2>5
<1>12. LoggedOutIsOut'
  BY <1>1, <1>5 DEF LoggedOutIsOut, AccessTypes
<1>. QED BY <1>5, <1>7, <1>8, <1>9, <1>10, <1>11, <1>12

\* The account changes: whoever held the row of a live session would have had
\* to be waited for, so nobody does, and nobody else writes.
LEMMA ChangeKeeps ==
  ASSUME NoRequest \notin Requests, AccessInv, NEW r \in Requests, Access!Ends(r),
         req[r].at \in Writing,
         \A q \in Requests : q # r => req[q].at \notin Holding,
         epoch' = epoch + 1,
         user' \in [ver: Nat, disabled: BOOLEAN], user'.ver = user.ver + 1,
         tokens' \in Seq(AccessToken), DOMAIN tokens \subseteq DOMAIN tokens',
         \A t \in DOMAIN tokens' : tokens'[t].ver = tokens'[t].epoch + 1,
         login' \in [Logins -> AccessRow],
         \A k \in Logins : login'[k].jti <= Len(tokens') /\ login'[k].at \in {login[k].at, "revoked"},
         rotated' \in Seq(Nat), RotatedAreOld', UNCHANGED loggedOut
  PROVE  AccessInv'
<1> USE DEF AccessInv
<1>1. /\ req' \in [Requests -> {Access!Idle} \cup AccessReading \cup AccessHolder \cup AccessChange]
      /\ req'[r].at = "idle" /\ \A q \in Requests : q # r => req'[q] = req[q]
      /\ userLock' \in Requests \cup {NoRequest}
      /\ loginLock' \in [Logins -> Requests \cup {NoRequest}]
  BY EndsLeaves
<1>2. \A q \in Requests : req'[q].at \notin Holding
  BY <1>1 DEF Holding
<1>3. \A q \in Requests : req'[q].at \notin Writing
  <2>1. \A q \in Requests : req[q].at \in Writing => q = r
    BY DEF WritersAreAlone
  <2>. QED BY <1>1, <2>1 DEF Writing
<1>4. AccessTypes'
  BY <1>1 DEF AccessTypes
<1>5. OneVersionEach'
  <2>1. user'.ver = epoch' + 1
    BY DEF OneVersionEach, AccessTypes
  <2>2. \A q \in Requests : req'[q].at \in {"login"} \cup Holding => req'[q].ver = req'[q].epoch + 1
    BY <1>1 DEF OneVersionEach, Holding
  <2>. QED BY <2>1, <2>2 DEF OneVersionEach
<1>6. TokensAreSigned'
  BY <1>1, <1>2 DEF TokensAreSigned
<1>7. HoldersAreCurrent'
  BY <1>2 DEF HoldersAreCurrent
<1>8. WritersAreAlone'
  <2>1. epoch' <= MaxChanges
    BY EdgesAssumption DEF WritersAreAlone, AccessTypes
  <2>. QED BY <1>3, <2>1 DEF WritersAreAlone
<1>9. LoggedOutIsOut'
  BY DEF LoggedOutIsOut, AccessTypes
<1>. QED BY <1>4, <1>5, <1>6, <1>7, <1>8, <1>9

\* A refresh takes the roles the provider has now.
LEMMA TakeRolesStep ==
  ASSUME NoRequest \notin Requests, AccessInv, NEW r \in Requests, Access!TakeRoles(r)
  PROVE  AccessInv'
<1> DEFINE l == tokens[req[r].t].login
           left == Access!RevokedBut({l})
<1> USE DEF AccessInv
<1>1. /\ req[r].at = "revokeOthers" /\ Access!MayRevoke(r, {l}) /\ Access!Ends(r)
      /\ user' = [user EXCEPT !.ver = req[r].ver + 1] /\ epoch' = epoch + 1
      /\ Access!Rotate(r, req[r].ver + 1, epoch + 1, left) /\ UNCHANGED loggedOut
  BY DEF Access!TakeRoles, Access!Rotate
<1>2. req[r].at \in Holding /\ req[r].at \in Writing
  BY <1>1 DEF Holding, Writing
<1>3. req[r].t \in DOMAIN tokens /\ l \in Logins /\ req[r].ver = user.ver
      /\ loginLock[l] = r
  BY <1>2, TokensOfLogins DEF TokensAreSigned, HoldersAreCurrent
<1>4. user.ver \in Nat /\ epoch \in Nat /\ user.ver = epoch + 1
  BY DEF AccessTypes, OneVersionEach
<1>5. /\ left \in [Logins -> AccessRow]
      /\ \A k \in Logins : left[k].jti = login[k].jti /\ left[k].at \in {login[k].at, "revoked"}
  BY RevokedRows
<1> HIDE DEF left
<1>6. req[r].ver + 1 \in Nat /\ epoch + 1 \in Nat /\ req[r].ver + 1 = (epoch + 1) + 1
  BY <1>3, <1>4
<1>7. /\ tokens' \in Seq(AccessToken) /\ DOMAIN tokens \subseteq DOMAIN tokens'
      /\ \A t \in DOMAIN tokens : tokens'[t] = tokens[t]
      /\ \A t \in DOMAIN tokens' : tokens'[t].ver = tokens'[t].epoch + 1
      /\ login' \in [Logins -> AccessRow]
      /\ \A k \in Logins : login'[k].jti <= Len(tokens') /\ login'[k].at = left[k].at
      /\ rotated' \in Seq(Nat) /\ RotatedAreOld'
  BY <1>1, <1>2, <1>5, <1>6, RotateKeeps
<1>8. \A q \in Requests : q # r => req[q].at \notin Holding
  <2> SUFFICES ASSUME NEW q \in Requests, q # r, req[q].at \in Holding PROVE FALSE
    OBVIOUS
  <2>1. tokens[req[q].t].login = l
    BY <1>1, <1>3, NobodyHolds
  <2>. QED BY <1>3, <2>1 DEF HoldersAreCurrent
<1>9. user' \in [ver: Nat, disabled: BOOLEAN] /\ user'.ver = user.ver + 1
  <2>1. user \in [ver: Nat, disabled: BOOLEAN]
    BY DEF AccessTypes
  <2>2. user.ver + 1 \in Nat
    BY <1>4
  <2>3. user' = [user EXCEPT !.ver = user.ver + 1]
    BY <1>1, <1>3
  <2>. QED BY <2>1, <2>2, <2>3
<1>. QED BY <1>1, <1>2, <1>5, <1>7, <1>8, <1>9, ChangeKeeps

\* Everybody is signed out, by a refusal or by a change of the account.
LEMMA SignOutStep ==
  ASSUME NoRequest \notin Requests, AccessInv, NEW r \in Requests,
         Access!Refuse(r) \/ (Access!Apply(r) /\ req[r].signsOut)
  PROVE  AccessInv'
<1> USE DEF AccessInv
<1>1. /\ req[r].at \in {"revokeAll", "apply"} /\ Access!MayRevoke(r, {}) /\ Access!Ends(r)
      /\ login' = Access!RevokedBut({}) /\ epoch' = epoch + 1
      /\ UNCHANGED <<tokens, rotated, loggedOut>>
  BY DEF Access!Refuse, Access!Apply
<1>2. req[r].at \in Writing
  BY <1>1 DEF Writing
<1>3. \A q \in Requests : q # r => req[q].at \notin Holding
  BY <1>1, NobodyHolds
<1>4. user' \in [ver: Nat, disabled: BOOLEAN] /\ user'.ver = user.ver + 1
  <2>1. user \in [ver: Nat, disabled: BOOLEAN]
    BY DEF AccessTypes
  <2>2. CASE Access!Refuse(r)
    BY <2>1, <2>2 DEF Access!Refuse
  <2>3. CASE Access!Apply(r) /\ req[r].signsOut
    <3>1. req[r].at = "apply" /\ user' = [ver |-> user.ver + 1, disabled |-> req[r].disabled]
      BY <2>3 DEF Access!Apply, Access!Bumped
    <3>2. req[r].disabled \in BOOLEAN
      <4>1. req[r] \in {Access!Idle} \cup AccessReading \cup AccessHolder \cup AccessChange
        BY DEF AccessTypes
      <4>2. req[r] \notin AccessReading /\ req[r] \notin AccessHolder /\ req[r] # Access!Idle
        BY <3>1 DEF AccessReading, AccessHolder, Holding, Access!Idle
      <4>. QED BY <4>1, <4>2 DEF AccessChange
    <3>. QED BY <2>1, <3>1, <3>2
  <2>. QED BY <2>2, <2>3
<1>5. /\ login' \in [Logins -> AccessRow]
      /\ \A k \in Logins : login'[k].jti = login[k].jti /\ login'[k].at \in {login[k].at, "revoked"}
  BY <1>1, RevokedRows
<1>6. /\ tokens' \in Seq(AccessToken) /\ DOMAIN tokens \subseteq DOMAIN tokens'
      /\ \A t \in DOMAIN tokens' : tokens'[t].ver = tokens'[t].epoch + 1
      /\ \A k \in Logins : login'[k].jti <= Len(tokens') /\ login'[k].at \in {login[k].at, "revoked"}
      /\ rotated' \in Seq(Nat)
  BY <1>1, <1>5 DEF AccessTypes, OneVersionEach, TokensAreSigned
<1>7. RotatedAreOld'
  <2>1. \A i \in DOMAIN rotated : tokens[rotated[i]].login \in Logins
    BY TokensOfLogins DEF RotatedAreOld
  <2>. QED BY <1>1, <1>5, <2>1 DEF RotatedAreOld, Access!RotatedOnce
<1>. QED BY <1>1, <1>2, <1>3, <1>4, <1>5, <1>6, <1>7, ChangeKeeps

\* A change that signs nobody out.
LEMMA ApplyQuietStep ==
  ASSUME NoRequest \notin Requests, AccessInv, NEW r \in Requests,
         Access!Apply(r), ~req[r].signsOut
  PROVE  AccessInv'
<1> USE DEF AccessInv
<1>1. /\ Access!Ends(r) /\ UNCHANGED <<login, tokens, spent, epoch, rotated, loggedOut>>
      /\ user' = [user EXCEPT !.disabled = req[r].disabled] /\ req[r].at = "apply"
  BY DEF Access!Apply
<1>2. user' \in [ver: Nat, disabled: BOOLEAN] /\ user'.ver = user.ver
  <2>1. req[r] \in {Access!Idle} \cup AccessReading \cup AccessHolder \cup AccessChange
    BY DEF AccessTypes
  <2>2. req[r] \notin AccessReading /\ req[r] \notin AccessHolder /\ req[r] # Access!Idle
    BY <1>1 DEF AccessReading, AccessHolder, Holding, Access!Idle
  <2>3. req[r].disabled \in BOOLEAN
    BY <2>1, <2>2 DEF AccessChange
  <2>. QED BY <1>1, <2>3 DEF AccessTypes
<1>3. /\ req' \in [Requests -> {Access!Idle} \cup AccessReading \cup AccessHolder \cup AccessChange]
      /\ req'[r].at = "idle" /\ \A q \in Requests : q # r => req'[q] = req[q]
      /\ userLock' \in Requests \cup {NoRequest}
      /\ \A q \in Requests : q # r /\ userLock = q => userLock' = q
      /\ loginLock' \in [Logins -> Requests \cup {NoRequest}]
      /\ \A q \in Requests, l \in Logins : q # r /\ loginLock[l] = q => loginLock'[l] = q
  BY <1>1, EndsLeaves
<1>4. AccessTypes'
  BY <1>1, <1>2, <1>3 DEF AccessTypes
<1>5. OneVersionEach' /\ TokensAreSigned' /\ WritersAreAlone'
  BY <1>1, <1>2, <1>3 DEF OneVersionEach, TokensAreSigned, WritersAreAlone, Holding, Writing
<1>6. HoldersAreCurrent'
  <2> SUFFICES ASSUME NEW q \in Requests, req'[q].at \in Holding
               PROVE  /\ loginLock'[tokens[req'[q].t].login] = q
                      /\ login[tokens[req'[q].t].login].at = "live"
                      /\ login[tokens[req'[q].t].login].jti = req'[q].t
                      /\ user'.ver = req'[q].ver
    BY <1>1 DEF HoldersAreCurrent
  <2>1. q # r /\ req'[q] = req[q]
    BY <1>3 DEF Holding
  <2>2. tokens[req[q].t].login \in Logins
    BY <2>1, TokensOfLogins DEF TokensAreSigned
  <2>. QED BY <1>2, <1>3, <2>1, <2>2 DEF HoldersAreCurrent
<1>7. RotatedAreOld' /\ LoggedOutIsOut'
  BY <1>1 DEF RotatedAreOld, LoggedOutIsOut, Access!RotatedOnce
<1>. QED BY <1>4, <1>5, <1>6, <1>7

\* A session ends whose row nobody holds.
LEMMA SessionEndsStep ==
  ASSUME NoRequest \notin Requests, AccessInv, NEW l \in Logins,
         Access!Logout(l) \/ Access!CleanupExpired(l)
  PROVE  AccessInv'
<1> USE DEF AccessInv
<1>1. /\ loginLock[l] = NoRequest
      /\ UNCHANGED <<user, tokens, req, userLock, loginLock, epoch, rotated>>
  BY DEF Access!Logout, Access!CleanupExpired
<1>2. PICK at \in {"revoked", "expired"} :
        login' = [login EXCEPT ![l].at = at] /\ loggedOut' \in {loggedOut, loggedOut \cup {l}}
  BY DEF Access!Logout, Access!CleanupExpired, Access!LoggedOutLogin
<1>3. /\ login' \in [Logins -> AccessRow] /\ login'[l].at = at /\ login'[l].jti = login[l].jti
      /\ \A k \in Logins : k # l => login'[k] = login[k]
  <2> DEFINE x == [login[l] EXCEPT !.at = at]
  <2>1. login \in [Logins -> AccessRow]
    BY DEF AccessTypes
  <2>2. login' = [login EXCEPT ![l] = x]
    BY <1>2, <2>1
  <2>3. x \in AccessRow /\ x.at = at /\ x.jti = login[l].jti
    BY <2>1 DEF AccessRow
  <2> HIDE DEF x
  <2>. QED BY <2>1, <2>2, <2>3
<1>4. AccessTypes'
  BY <1>1, <1>2, <1>3 DEF AccessTypes
<1>5. OneVersionEach' /\ TokensAreSigned' /\ WritersAreAlone'
  BY <1>1, <1>3 DEF OneVersionEach, TokensAreSigned, WritersAreAlone
<1>6. HoldersAreCurrent'
  <2> SUFFICES ASSUME NEW q \in Requests, req[q].at \in Holding
               PROVE  tokens[req[q].t].login \in Logins \ {l}
    BY <1>1, <1>3 DEF HoldersAreCurrent
  <2>. QED BY <1>1, TokensOfLogins DEF HoldersAreCurrent, TokensAreSigned
<1>7. RotatedAreOld'
  <2>1. \A i \in DOMAIN rotated : tokens[rotated[i]].login \in Logins
    BY TokensOfLogins DEF RotatedAreOld
  <2>. QED BY <1>1, <1>3, <2>1 DEF RotatedAreOld, Access!RotatedOnce
<1>8. LoggedOutIsOut'
  BY <1>2, <1>3 DEF LoggedOutIsOut, AccessTypes
<1>. QED BY <1>4, <1>5, <1>6, <1>7, <1>8

LEMMA AccessHolds == Access!Spec => []AccessInv
<1>1. AccessInv /\ [Access!Next]_Access!accessVars => AccessInv'
  <2> SUFFICES ASSUME AccessInv, [Access!Next]_Access!accessVars PROVE AccessInv'
    OBVIOUS
  <2>1. CASE UNCHANGED Access!accessVars
    BY <2>1 DEF Access!accessVars, AccessInv, AccessTypes, OneVersionEach, TokensAreSigned,
                HoldersAreCurrent, WritersAreAlone, RotatedAreOld, LoggedOutIsOut, Access!RotatedOnce
  <2>2. CASE Access!Next
    BY <2>2, EdgesAssumption, AccessReadStep, RefreshLocksStep, AccessGoesOnStep, AbortStep,
       CreateLoginStep, SignStep, TakeRolesStep, SignOutStep, ApplyQuietStep, SessionEndsStep
       DEF Access!Next
  <2>. QED BY <2>1, <2>2
<1>. QED BY AccessInitInv, <1>1, PTL DEF Access!Spec

\* For any logins, requests and changes: no token outlives a change of the
\* account.
THEOREM NoOldTokenIsTaken == Access!Spec => []Access!NoOldCredential
<1>1. AccessInv => Access!NoOldCredential
  <2> SUFFICES ASSUME AccessInv, NEW t \in DOMAIN tokens, user.ver = tokens[t].ver
               PROVE  tokens[t].epoch = epoch
    BY DEF Access!NoOldCredential, Access!Accepted
  <2>1. tokens[t].epoch \in Nat /\ epoch \in Nat
    BY TokensOfLogins DEF AccessInv, AccessTypes, AccessToken
  <2>. QED BY <2>1 DEF AccessInv, OneVersionEach
<1>. QED BY <1>1, AccessHolds, PTL

\* For any logins and refreshes beside a logout: what was signed is no way back.
THEOREM LogoutIsFinal == Access!Spec => []Access!LogoutHolds
<1>1. AccessInv => Access!LogoutHolds
  BY DEF AccessInv, LoggedOutIsOut, Access!LogoutHolds, Access!Accepted
<1>. QED BY <1>1, AccessHolds, PTL

\* For any requests that bring it: a refresh token is exchanged once.
THEOREM ExchangedOnce == Access!Spec => []Access!RotatedOnce
<1>1. AccessInv => Access!RotatedOnce
  BY DEF AccessInv, RotatedAreOld
<1>. QED BY <1>1, AccessHolds, PTL

---------------------------------------------------------------------------

(***************************************************************************)
(* UserDirectory for any admins, profiles, failures and restarts.  Both    *)
(* properties speak of a moment at which nobody is at work, and are not    *)
(* inductive.  Of an agent without a user somebody is on the way to tell   *)
(* the switch (AloneIsRemoved); of a profile that the switch does not have *)
(* there is a task, or a request that holds this profile, will read it or  *)
(* is about to queue it (EditIsCarried).  A request that queues beside the *)
(* task of another leaves it to that task: the worker has taken it with    *)
(* the newest profile, or whoever wrote a newer one is still on its way to *)
(* the queue and will delete it first (WorkerIsCurrent).                   *)
(***************************************************************************)

DirectoryJob == {Directory!Rest} \cup [at: {"read"}, kind: {"create", "update"}]
                  \cup [at: {"enqueue", "queue", "undo", "undoRows", "remove"}]
                  \cup [at: {"send"}, profile: 0 .. MaxEdits, kind: {"create", "update"}]
DirectoryWorker == {Directory!Rest}
                     \cup [at: {"send"}, id: Nat, attempts: 0 .. MaxAttempts - 1, profile: 0 .. MaxEdits]

DirectoryTypes ==
  /\ account \in [here: BOOLEAN, profile: 0 .. MaxEdits] /\ copy \in 0 .. MaxEdits
  /\ agentTask \in [id: Nat, attempts: 0 .. MaxAttempts - 1]
  /\ job \in [Admins -> DirectoryJob] /\ agentWorker \in DirectoryWorker
  /\ made \in Nat /\ taskIds \in Nat
  /\ overwritten \in BOOLEAN /\ lapses \subseteq Directory!Lapses /\ told \in BOOLEAN

\* A profile was written once, and a user is made once.
ProfilesInOrder ==
  /\ account.profile = made /\ (account.here => made # 0)
  /\ \A a \in Admins : job[a].at = "send" => job[a].profile <= made
  /\ \A a \in Admins : job[a].at = "remove" => ~account.here /\ made # 0
  /\ agentWorker.at = "send" => agentWorker.profile <= made

\* The worker has a task that was made.
TasksInOrder ==
  /\ agentTask.id <= taskIds
  /\ agentWorker.at = "send" => agentWorker.id <= taskIds

\* What nobody hears of: an agent that stays, an edit that is lost.
LeftAlone == overwritten \/ "agent kept" \in lapses
Silent == overwritten \/ lapses \cap {"unread", "unqueued", "given up", "rows kept", "cut off"} # {}

AloneIsRemoved ==
  /\ ~account.here /\ copy # 0 =>
       told \/ LeftAlone \/ "cut off" \in lapses \/ \E a \in Admins : job[a].at = "remove"
  /\ copy # 0 => LeftAlone \/ \A a \in Admins : job[a].at # "undoRows"

\* Who still has the newest profile or will read it, or is about to queue it.
JobReads(a) ==
  job[a].at \in {"read", "enqueue", "undo", "undoRows"}
    \/ (job[a].at = "send" /\ job[a].profile = account.profile)
JobCarries(a) == JobReads(a) \/ job[a].at = "queue"
WorkerHasTask == agentTask.id # 0 /\ agentWorker.at = "send" /\ agentWorker.id = agentTask.id
TaskCarries == agentTask.id # 0 /\ (WorkerHasTask => agentWorker.profile = account.profile)

EditIsCarried ==
  account.here /\ copy # account.profile => Silent \/ TaskCarries \/ \E a \in Admins : JobCarries(a)

WorkerIsCurrent ==
  account.here /\ copy # account.profile /\ WorkerHasTask =>
    agentWorker.profile = account.profile \/ Silent \/ \E a \in Admins : JobReads(a)

DirectoryInv ==
  DirectoryTypes /\ ProfilesInOrder /\ TasksInOrder /\ AloneIsRemoved /\ EditIsCarried /\ WorkerIsCurrent

LEMMA DirectoryInitInv == Directory!Init => DirectoryInv
<1> SUFFICES ASSUME Directory!Init PROVE DirectoryInv
  OBVIOUS
<1>1. DirectoryTypes
  <2>1. 0 \in 0 .. MaxEdits /\ 0 \in 0 .. MaxAttempts - 1 /\ 0 \in Nat
    BY EdgesAssumption
  <2>2. account \in [here: BOOLEAN, profile: 0 .. MaxEdits]
    BY <2>1 DEF Directory!Init
  <2>3. agentTask \in [id: Nat, attempts: 0 .. MaxAttempts - 1]
    BY <2>1 DEF Directory!Init, Directory!NoTask
  <2>4. job \in [Admins -> DirectoryJob] /\ agentWorker \in DirectoryWorker
    BY DEF Directory!Init, DirectoryJob, DirectoryWorker
  <2>. QED BY <2>1, <2>2, <2>3, <2>4 DEF Directory!Init, DirectoryTypes
<1>2. \A a \in Admins : job[a].at = "rest"
  BY DEF Directory!Init, Directory!Rest
<1>3. ~account.here /\ account.profile = 0 /\ made = 0 /\ copy = 0
      /\ agentTask.id = 0 /\ taskIds = 0 /\ agentWorker.at = "rest"
  BY DEF Directory!Init, Directory!Rest, Directory!NoTask
<1>. QED BY <1>1, <1>2, <1>3
         DEF DirectoryInv, ProfilesInOrder, TasksInOrder, AloneIsRemoved, EditIsCarried, WorkerIsCurrent

\* What a record of a type holds.
LEMMA DirectoryFields ==
  ASSUME DirectoryTypes
  PROVE  /\ account.here \in BOOLEAN /\ account.profile \in 0 .. MaxEdits
         /\ agentTask.id \in Nat /\ agentTask.attempts \in 0 .. MaxAttempts - 1
         /\ \A a \in Admins : job[a].at = "send" =>
              job[a].profile \in 0 .. MaxEdits /\ job[a].kind \in {"create", "update"}
         /\ \A a \in Admins : job[a].at = "read" => job[a].kind \in {"create", "update"}
         /\ agentWorker.at = "send" =>
              /\ agentWorker.id \in Nat /\ agentWorker.attempts \in 0 .. MaxAttempts - 1
              /\ agentWorker.profile \in 0 .. MaxEdits
<1>1. \A a \in Admins : job[a].at = "send" =>
        job[a].profile \in 0 .. MaxEdits /\ job[a].kind \in {"create", "update"}
  <2> SUFFICES ASSUME NEW a \in Admins, job[a].at = "send"
               PROVE  job[a] \in [at: {"send"}, profile: 0 .. MaxEdits, kind: {"create", "update"}]
    OBVIOUS
  <2>1. job[a] \in DirectoryJob
    BY DEF DirectoryTypes
  <2>. QED BY <2>1 DEF DirectoryJob, Directory!Rest
<1>2. \A a \in Admins : job[a].at = "read" => job[a].kind \in {"create", "update"}
  <2> SUFFICES ASSUME NEW a \in Admins, job[a].at = "read"
               PROVE  job[a] \in [at: {"read"}, kind: {"create", "update"}]
    OBVIOUS
  <2>1. job[a] \in DirectoryJob
    BY DEF DirectoryTypes
  <2>. QED BY <2>1 DEF DirectoryJob, Directory!Rest
<1>3. agentWorker.at = "send" =>
        agentWorker \in [at: {"send"}, id: Nat, attempts: 0 .. MaxAttempts - 1, profile: 0 .. MaxEdits]
  BY DEF DirectoryTypes, DirectoryWorker, Directory!Rest
<1>. QED BY <1>1, <1>2, <1>3 DEF DirectoryTypes

\* A step of an admin changes its own job.
LEMMA DirectoryJobMoves ==
  ASSUME DirectoryTypes, NEW a \in Admins, NEW j, j \in DirectoryJob,
         job' = [job EXCEPT ![a] = j]
  PROVE  job' \in [Admins -> DirectoryJob] /\ job'[a] = j
         /\ \A b \in Admins : b # a => job'[b] = job[b]
BY DEF DirectoryTypes

\* What it goes to next without a profile.
LEMMA DirectoryGoes ==
  ASSUME DirectoryTypes, NEW a \in Admins,
         NEW at \in {"rest", "enqueue", "queue", "undo", "undoRows", "remove"}, Directory!Goes(a, at)
  PROVE  job' \in [Admins -> DirectoryJob] /\ job'[a].at = at
         /\ \A b \in Admins : b # a => job'[b] = job[b]
<1>1. [at |-> at] \in DirectoryJob /\ job' = [job EXCEPT ![a] = [at |-> at]]
  BY DEF DirectoryJob, Directory!Rest, Directory!Goes
<1>. QED BY <1>1, DirectoryJobMoves

\* Of a failure something stays.
LEMMA DirectoryLapse ==
  ASSUME DirectoryTypes, NEW w \in Directory!Lapses, Directory!Lapse(w)
  PROVE  lapses' \subseteq Directory!Lapses /\ lapses \subseteq lapses' /\ w \in lapses'
BY DEF DirectoryTypes, Directory!Lapse

LEMMA DirectoryWorse ==
  ASSUME lapses \subseteq lapses', overwritten => overwritten'
  PROVE  /\ Silent => Silent'
         /\ LeftAlone => LeftAlone'
         /\ "cut off" \in lapses => "cut off" \in lapses'
BY DEF Silent, LeftAlone

\* A user is made: the request will read its profile.
LEMMA DirectoryCreateStep ==
  ASSUME DirectoryInv, NEW a \in Admins, Directory!Create(a)
  PROVE  DirectoryInv'
<1> USE DEF DirectoryInv
<1> DEFINE j == [at |-> "read", kind |-> "create"]
<1>1. /\ job[a].at = "rest" /\ made = 0 /\ made' = 1 /\ account' = [here |-> TRUE, profile |-> 1]
      /\ job' = [job EXCEPT ![a] = j]
      /\ UNCHANGED <<copy, agentTask, agentWorker, taskIds, overwritten, lapses, told>>
  BY DEF Directory!Create
<1>2. j \in DirectoryJob /\ 1 \in 0 .. MaxEdits
  BY EdgesAssumption DEF DirectoryJob
<1>3. job' \in [Admins -> DirectoryJob] /\ job'[a] = j /\ \A b \in Admins : b # a => job'[b] = job[b]
  BY <1>1, <1>2, DirectoryJobMoves
<1>4. DirectoryTypes'
  BY <1>1, <1>2, <1>3 DEF DirectoryTypes
<1>5. ProfilesInOrder'
  BY <1>1, <1>3, DirectoryFields DEF ProfilesInOrder
<1>6. TasksInOrder' /\ AloneIsRemoved'
  BY <1>1, <1>3 DEF TasksInOrder, AloneIsRemoved, LeftAlone
<1>7. JobReads(a)'
  BY <1>3 DEF JobReads
<1>. QED BY <1>4, <1>5, <1>6, <1>7 DEF EditIsCarried, WorkerIsCurrent, JobCarries

\* A new profile: the request will read it.
LEMMA DirectoryUpdateStep ==
  ASSUME DirectoryInv, NEW a \in Admins, Directory!Update(a)
  PROVE  DirectoryInv'
<1> USE DEF DirectoryInv
<1> DEFINE j == [at |-> "read", kind |-> "update"]
<1>1. /\ account.here /\ made < MaxEdits /\ made' = made + 1
      /\ account' = [account EXCEPT !.profile = made + 1]
      /\ job' = [job EXCEPT ![a] = j]
      /\ UNCHANGED <<copy, agentTask, agentWorker, taskIds, overwritten, lapses, told>>
  BY DEF Directory!Update
<1>2. j \in DirectoryJob
  BY DEF DirectoryJob
<1>3. job' \in [Admins -> DirectoryJob] /\ job'[a] = j /\ \A b \in Admins : b # a => job'[b] = job[b]
  BY <1>1, <1>2, DirectoryJobMoves
<1>4. made \in Nat /\ made + 1 \in 0 .. MaxEdits
  BY <1>1, EdgesAssumption DEF DirectoryTypes
<1>5. /\ account' \in [here: BOOLEAN, profile: 0 .. MaxEdits]
      /\ account'.here = account.here /\ account'.profile = made + 1
  BY <1>1, <1>4 DEF DirectoryTypes
<1>6. DirectoryTypes'
  BY <1>1, <1>3, <1>4, <1>5 DEF DirectoryTypes
<1>7. ProfilesInOrder'
  <2>1. \A b \in Admins : job'[b].at = "send" => job'[b].profile <= made + 1
    BY <1>3, <1>4, DirectoryFields DEF ProfilesInOrder
  <2>2. \A b \in Admins : job'[b].at # "remove"
    BY <1>1, <1>3 DEF ProfilesInOrder
  <2>3. agentWorker.at = "send" => agentWorker.profile <= made + 1
    BY <1>4, DirectoryFields DEF ProfilesInOrder
  <2>. QED BY <1>1, <1>4, <1>5, <2>1, <2>2, <2>3 DEF ProfilesInOrder
<1>8. TasksInOrder' /\ AloneIsRemoved'
  BY <1>1, <1>3, <1>5 DEF TasksInOrder, AloneIsRemoved, LeftAlone
<1>9. JobReads(a)'
  BY <1>3 DEF JobReads
<1>. QED BY <1>6, <1>7, <1>8, <1>9 DEF EditIsCarried, WorkerIsCurrent, JobCarries

\* The request has what it will send.
LEMMA DirectoryReadStep ==
  ASSUME DirectoryInv, NEW a \in Admins, Directory!Read(a)
  PROVE  DirectoryInv'
<1> USE DEF DirectoryInv
<1>1. /\ job[a].at = "read"
      /\ UNCHANGED <<account, copy, agentTask, agentWorker, made, taskIds, overwritten, told>>
  BY DEF Directory!Read
<1>2. CASE account.here /\ UNCHANGED lapses /\ ~Directory!Goes(a, "rest")
  <2> DEFINE j == [at |-> "send", profile |-> account.profile, kind |-> job[a].kind]
  <2>1. job' = [job EXCEPT ![a] = j]
    BY <1>2 DEF Directory!Read
  <2>2. j \in DirectoryJob
    BY <1>1, DirectoryFields DEF DirectoryJob
  <2>3. job' \in [Admins -> DirectoryJob] /\ job'[a] = j /\ \A b \in Admins : b # a => job'[b] = job[b]
    BY <2>1, <2>2, DirectoryJobMoves
  <2>4. DirectoryTypes'
    BY <1>1, <1>2, <2>3 DEF DirectoryTypes
  <2>5. ProfilesInOrder'
    BY <1>1, <2>3, DirectoryFields DEF ProfilesInOrder, DirectoryTypes
  <2>6. TasksInOrder' /\ AloneIsRemoved'
    <3>1. /\ \A b \in Admins : job[b].at = "remove" => job'[b].at = "remove"
          /\ \A b \in Admins : job'[b].at = "undoRows" => job[b].at = "undoRows"
      BY <1>1, <2>3
    <3>. QED BY <1>1, <1>2, <3>1 DEF TasksInOrder, AloneIsRemoved, LeftAlone
  <2>7. JobReads(a)'
    BY <1>1, <2>3 DEF JobReads
  <2>. QED BY <2>4, <2>5, <2>6, <2>7 DEF EditIsCarried, WorkerIsCurrent, JobCarries
<1>3. CASE Directory!Goes(a, "rest")
  <2>1. /\ job' \in [Admins -> DirectoryJob] /\ job'[a].at = "rest"
        /\ \A b \in Admins : b # a => job'[b] = job[b]
    BY <1>3, DirectoryGoes
  <2>2. lapses' \subseteq Directory!Lapses /\ lapses \subseteq lapses' /\ (~account.here \/ Silent')
    <3>1. CASE Directory!Lapse("unread")
      <4>1. "unread" \in Directory!Lapses
        BY DEF Directory!Lapses
      <4>. QED BY <3>1, <4>1, DirectoryLapse DEF Silent
    <3>2. CASE ~Directory!Lapse("unread")
      <4>1. [at |-> "send", profile |-> account.profile, kind |-> job[a].kind].at = "send"
        OBVIOUS
      <4>2. ~(job' = [job EXCEPT ![a] = [at |-> "send", profile |-> account.profile, kind |-> job[a].kind]])
        BY <2>1, <4>1 DEF DirectoryTypes
      <4>. QED BY <3>2, <4>2 DEF Directory!Read, DirectoryTypes
    <3>. QED BY <3>1, <3>2
  <2>3. DirectoryTypes'
    BY <1>1, <2>1, <2>2 DEF DirectoryTypes
  <2>4. ProfilesInOrder'
    BY <1>1, <2>1 DEF ProfilesInOrder
  <2>5. TasksInOrder'
    BY <1>1 DEF TasksInOrder
  <2>6. AloneIsRemoved'
    BY <1>1, <2>1, <2>2, DirectoryWorse DEF AloneIsRemoved
  <2>. QED BY <1>1, <2>2, <2>3, <2>4, <2>5, <2>6 DEF EditIsCarried, WorkerIsCurrent
<1>4. CASE ~Directory!Goes(a, "rest") /\ ~(account.here /\ UNCHANGED lapses)
  BY <1>4 DEF Directory!Read
<1>. QED BY <1>2, <1>3, <1>4

\* A profile that arrives is the newest, or somebody else has the newest, or
\* it comes late.
LEMMA DirectoryArrives ==
  ASSUME DirectoryInv, NEW p \in 0 .. MaxEdits, p <= made, Directory!Arrives(p),
         UNCHANGED <<account, made>>
  PROVE  /\ copy' \in 0 .. MaxEdits /\ overwritten' \in BOOLEAN /\ (overwritten => overwritten')
         /\ ~account.here => overwritten'
         /\ (\E b \in Admins : job[b].at = "undoRows") => overwritten'
         /\ p # account.profile /\ copy = account.profile => overwritten'
         /\ p = account.profile => copy' = account.profile
<1> DEFINE undoing == \E b \in Admins : job[b].at = "undoRows"
<1>1. copy' = p /\ overwritten' = (overwritten \/ p < copy \/ ~account.here \/ undoing)
  BY DEF Directory!Arrives
<1>2. account.profile = made /\ made \in Nat /\ p \in Nat /\ overwritten \in BOOLEAN /\ copy \in Nat
  BY EdgesAssumption DEF DirectoryInv, ProfilesInOrder, DirectoryTypes
<1>3. p # account.profile /\ copy = account.profile => p < copy
  BY <1>2
<1>4. overwritten' \in BOOLEAN /\ (overwritten => overwritten') /\ (~account.here => overwritten')
      /\ (undoing => overwritten') /\ (p < copy => overwritten')
  BY <1>1, Zenon
<1>. QED BY <1>1, <1>3, <1>4

\* The switch has the profile of a request, or may have it.
LEMMA DirectorySendStep ==
  ASSUME DirectoryInv, NEW a \in Admins, Directory!Sent(a) \/ Directory!SendFails(a)
  PROVE  DirectoryInv'
<1> USE DEF DirectoryInv
<1>1. /\ job[a].at = "send"
      /\ Directory!Arrives(job[a].profile) \/ (Directory!SendFails(a) /\ UNCHANGED <<copy, overwritten>>)
      /\ UNCHANGED <<account, agentTask, agentWorker, made, taskIds, lapses, told>>
  BY DEF Directory!Sent, Directory!SendFails
<1>2. PICK at \in {"rest", "enqueue", "undo"} :
        /\ Directory!Goes(a, at)
        /\ Directory!SendFails(a) => at \in {"enqueue", "undo"}
        /\ ~Directory!SendFails(a) => Directory!Arrives(job[a].profile)
  BY DEF Directory!Sent, Directory!SendFails
<1>3. /\ job' \in [Admins -> DirectoryJob] /\ job'[a].at = at
      /\ \A b \in Admins : b # a => job'[b] = job[b]
  BY <1>2, DirectoryGoes
<1>4. job[a].profile \in 0 .. MaxEdits /\ job[a].profile <= made
  BY <1>1, DirectoryFields DEF ProfilesInOrder
<1>5. /\ copy' \in 0 .. MaxEdits /\ overwritten' \in BOOLEAN /\ (overwritten => overwritten')
      /\ ~account.here => overwritten' \/ copy' = copy
      /\ (\E b \in Admins : job[b].at = "undoRows") => overwritten' \/ copy' = copy
  BY <1>1, <1>4, DirectoryArrives DEF DirectoryTypes
<1>6. DirectoryTypes'
  BY <1>1, <1>3, <1>5 DEF DirectoryTypes
<1>7. ProfilesInOrder'
  BY <1>1, <1>2, <1>3 DEF ProfilesInOrder
<1>8. TasksInOrder'
  BY <1>1 DEF TasksInOrder
<1>9. /\ \A b \in Admins : job[b].at \in {"remove", "undoRows"} => job'[b].at = job[b].at
      /\ \A b \in Admins : job'[b].at = "undoRows" => job[b].at = "undoRows"
  BY <1>1, <1>2, <1>3
<1>10. AloneIsRemoved'
  BY <1>1, <1>5, <1>9, DirectoryWorse DEF AloneIsRemoved, LeftAlone
<1>11. /\ \A b \in Admins : b # a => (JobReads(b) => JobReads(b)') /\ (JobCarries(b) => JobCarries(b)')
       /\ (TaskCarries => TaskCarries') /\ (WorkerHasTask' => WorkerHasTask) /\ (Silent => Silent')
  BY <1>1, <1>3, <1>5 DEF JobCarries, JobReads, TaskCarries, WorkerHasTask, Silent
<1>12. CASE Directory!SendFails(a)
  <2>1. JobReads(a)'
    BY <1>2, <1>3, <1>12 DEF JobReads
  <2>. QED BY <1>6, <1>7, <1>8, <1>10, <2>1 DEF EditIsCarried, WorkerIsCurrent, JobCarries
<1>13. CASE ~Directory!SendFails(a)
  <2>1. /\ job[a].profile # account.profile /\ copy = account.profile => overwritten'
        /\ job[a].profile = account.profile => copy' = account.profile
    BY <1>1, <1>2, <1>4, <1>13, DirectoryArrives
  <2>2. (JobReads(a) \/ JobCarries(a)) => job[a].profile = account.profile
    BY <1>1 DEF JobReads, JobCarries
  <2>3. /\ copy' # account.profile => Silent' \/ copy # account.profile
        /\ copy' # account.profile => ~JobReads(a) /\ ~JobCarries(a)
    BY <2>1, <2>2 DEF Silent
  <2>4. EditIsCarried'
    <3> SUFFICES ASSUME account.here, copy' # account.profile, ~Silent'
                 PROVE  TaskCarries' \/ \E b \in Admins : JobCarries(b)'
      BY <1>1 DEF EditIsCarried
    <3>1. TaskCarries \/ \E b \in Admins : JobCarries(b)
      BY <1>11, <2>3, Zenon DEF EditIsCarried
    <3>2. \A b \in Admins : JobCarries(b) => JobCarries(b)'
      BY <1>11, <2>3, Zenon
    <3>. QED BY <1>11, <3>1, <3>2, Zenon
  <2>5. WorkerIsCurrent'
    <3> SUFFICES ASSUME account.here, copy' # account.profile, ~Silent', WorkerHasTask',
                        agentWorker.profile # account.profile
                 PROVE  \E b \in Admins : JobReads(b)'
      BY <1>1 DEF WorkerIsCurrent
    <3>1. \E b \in Admins : JobReads(b)
      BY <1>11, <2>3, Zenon DEF WorkerIsCurrent
    <3>2. \A b \in Admins : JobReads(b) => JobReads(b)'
      BY <1>11, <2>3, Zenon
    <3>. QED BY <3>1, <3>2, Zenon
  <2>. QED BY <1>6, <1>7, <1>8, <1>10, <2>4, <2>5
<1>. QED BY <1>12, <1>13

\* The task before is deleted, or the request gives up.
LEMMA DirectoryClearStep ==
  ASSUME DirectoryInv, NEW a \in Admins, Directory!Clear(a)
  PROVE  DirectoryInv'
<1> USE DEF DirectoryInv
<1>1. /\ job[a].at = "enqueue" /\ Directory!Goes(a, "queue")
      /\ UNCHANGED <<account, copy, agentWorker, made, taskIds, overwritten, told>>
  BY DEF Directory!Clear
<1>2. /\ job' \in [Admins -> DirectoryJob] /\ job'[a].at = "queue"
      /\ \A b \in Admins : b # a => job'[b] = job[b]
  BY <1>1, DirectoryGoes
<1>3. /\ lapses' \subseteq Directory!Lapses /\ lapses \subseteq lapses'
      /\ (agentTask' = Directory!NoTask) \/ (agentTask' = agentTask /\ Silent')
  <2>1. CASE Directory!Lapse("unqueued") /\ UNCHANGED agentTask
    <3>1. "unqueued" \in Directory!Lapses
      BY DEF Directory!Lapses
    <3>. QED BY <2>1, <3>1, DirectoryLapse DEF Silent
  <2>2. CASE agentTask' = Directory!NoTask /\ UNCHANGED lapses
    BY <2>2 DEF DirectoryTypes
  <2>. QED BY <2>1, <2>2 DEF Directory!Clear
<1>4. Directory!NoTask \in [id: Nat, attempts: 0 .. MaxAttempts - 1] /\ Directory!NoTask.id = 0
  BY EdgesAssumption DEF Directory!NoTask
<1>5. DirectoryTypes'
  BY <1>1, <1>2, <1>3, <1>4 DEF DirectoryTypes
<1>6. ProfilesInOrder'
  BY <1>1, <1>2 DEF ProfilesInOrder
<1>7. TasksInOrder'
  BY <1>1, <1>3, <1>4 DEF TasksInOrder, DirectoryTypes
<1>8. AloneIsRemoved'
  BY <1>1, <1>2, <1>3, DirectoryWorse DEF AloneIsRemoved
<1>9. EditIsCarried'
  BY <1>2 DEF EditIsCarried, JobCarries
<1>10. WorkerIsCurrent'
  <2>1. CASE Silent'
    BY <2>1 DEF WorkerIsCurrent
  <2>2. CASE ~Silent'
    <3>1. agentTask'.id = 0
      BY <1>3, <1>4, <2>2
    <3>. QED BY <3>1 DEF WorkerIsCurrent, WorkerHasTask
  <2>. QED BY <2>1, <2>2
<1>. QED BY <1>5, <1>6, <1>7, <1>8, <1>9, <1>10

\* A new task, which the worker does not have yet; or one of another request.
LEMMA DirectoryEnqueueStep ==
  ASSUME DirectoryInv, NEW a \in Admins, Directory!Enqueue(a)
  PROVE  DirectoryInv'
<1> USE DEF DirectoryInv
<1>1. /\ job[a].at = "queue" /\ Directory!Goes(a, "rest")
      /\ UNCHANGED <<account, copy, agentWorker, made, overwritten, told>>
  BY DEF Directory!Enqueue
<1>2. /\ job' \in [Admins -> DirectoryJob] /\ job'[a].at = "rest"
      /\ \A b \in Admins : b # a => job'[b] = job[b]
  BY <1>1, DirectoryGoes
<1>3. ProfilesInOrder'
  BY <1>1, <1>2 DEF ProfilesInOrder
<1>4. taskIds \in Nat /\ 0 \in 0 .. MaxAttempts - 1
  BY EdgesAssumption DEF DirectoryTypes
<1>5. \A b \in Admins : JobReads(b) => JobReads(b)'
  BY <1>1, <1>2 DEF JobReads
<1>6. CASE /\ taskIds' = taskIds + 1 /\ UNCHANGED lapses
           /\ agentTask' = [id |-> taskIds + 1, attempts |-> 0]
  <2>1. DirectoryTypes'
    BY <1>1, <1>2, <1>4, <1>6 DEF DirectoryTypes
  <2>2. AloneIsRemoved'
    BY <1>1, <1>2, <1>6 DEF AloneIsRemoved, LeftAlone
  <2>3. agentTask'.id = taskIds + 1 /\ agentTask'.id # 0
        /\ (agentWorker.at = "send" => agentWorker.id # taskIds + 1 /\ agentWorker.id <= taskIds + 1)
    BY <1>4, <1>6, DirectoryFields DEF TasksInOrder
  <2>4. TasksInOrder'
    BY <1>1, <1>4, <1>6, <2>3 DEF TasksInOrder
  <2>5. ~WorkerHasTask' /\ TaskCarries'
    BY <1>1, <2>3 DEF TaskCarries, WorkerHasTask
  <2>. QED BY <1>3, <2>1, <2>2, <2>4, <2>5 DEF EditIsCarried, WorkerIsCurrent
<1>7. CASE agentTask.id # 0 /\ UNCHANGED <<agentTask, taskIds, lapses>>
  <2>1. DirectoryTypes'
    BY <1>1, <1>2, <1>7 DEF DirectoryTypes
  <2>2. AloneIsRemoved' /\ TasksInOrder'
    BY <1>1, <1>2, <1>7 DEF AloneIsRemoved, LeftAlone, TasksInOrder
  <2>3. WorkerIsCurrent'
    BY <1>1, <1>5, <1>7 DEF WorkerIsCurrent, WorkerHasTask, Silent
  <2>4. EditIsCarried'
    <3>1. WorkerIsCurrent' => EditIsCarried'
      BY <1>1, <1>7 DEF EditIsCarried, WorkerIsCurrent, TaskCarries, WorkerHasTask, JobCarries
    <3>. QED BY <2>3, <3>1
  <2>. QED BY <1>3, <2>1, <2>2, <2>3, <2>4
<1>8. CASE Directory!Lapse("unqueued") /\ UNCHANGED <<agentTask, taskIds>>
  <2>1. "unqueued" \in Directory!Lapses
    BY DEF Directory!Lapses
  <2>2. lapses' \subseteq Directory!Lapses /\ lapses \subseteq lapses' /\ Silent'
    BY <1>8, <2>1, DirectoryLapse DEF Silent
  <2>3. DirectoryTypes'
    BY <1>1, <1>2, <1>8, <2>2 DEF DirectoryTypes
  <2>4. AloneIsRemoved' /\ TasksInOrder'
    BY <1>1, <1>2, <1>8, <2>2, DirectoryWorse DEF AloneIsRemoved, TasksInOrder
  <2>. QED BY <1>3, <2>2, <2>3, <2>4 DEF EditIsCarried, WorkerIsCurrent
<1>. QED BY <1>6, <1>7, <1>8 DEF Directory!Enqueue

\* The switch is told to forget the new agent, or nobody hears that it was not.
LEMMA DirectoryUndoSwitchStep ==
  ASSUME DirectoryInv, NEW a \in Admins, Directory!UndoSwitch(a)
  PROVE  DirectoryInv'
<1> USE DEF DirectoryInv
<1>1. /\ job[a].at = "undo" /\ Directory!Goes(a, "undoRows")
      /\ UNCHANGED <<account, agentTask, agentWorker, made, taskIds, overwritten, told>>
  BY DEF Directory!UndoSwitch
<1>2. /\ job' \in [Admins -> DirectoryJob] /\ job'[a].at = "undoRows"
      /\ \A b \in Admins : b # a => job'[b] = job[b]
  BY <1>1, DirectoryGoes
<1>3. /\ lapses' \subseteq Directory!Lapses /\ lapses \subseteq lapses'
      /\ copy' = 0 \/ (copy' = copy /\ LeftAlone')
  <2>1. CASE Directory!Lapse("agent kept") /\ UNCHANGED copy
    <3>1. "agent kept" \in Directory!Lapses
      BY DEF Directory!Lapses
    <3>. QED BY <2>1, <3>1, DirectoryLapse DEF LeftAlone
  <2>2. CASE copy' = 0 /\ UNCHANGED lapses
    BY <2>2 DEF DirectoryTypes
  <2>. QED BY <2>1, <2>2 DEF Directory!UndoSwitch
<1>4. 0 \in 0 .. MaxEdits
  BY EdgesAssumption
<1>5. DirectoryTypes'
  BY <1>1, <1>2, <1>3, <1>4 DEF DirectoryTypes
<1>6. ProfilesInOrder' /\ TasksInOrder'
  BY <1>1, <1>2 DEF ProfilesInOrder, TasksInOrder
<1>7. AloneIsRemoved'
  BY <1>3 DEF AloneIsRemoved
<1>8. JobReads(a)'
  BY <1>2 DEF JobReads
<1>. QED BY <1>5, <1>6, <1>7, <1>8 DEF EditIsCarried, WorkerIsCurrent, JobCarries

\* The user goes; or its rows stay, and nobody hears of it.
LEMMA DirectoryUndoRowsStep ==
  ASSUME DirectoryInv, NEW a \in Admins, Directory!UndoRows(a)
  PROVE  DirectoryInv'
<1> USE DEF DirectoryInv
<1>1. /\ job[a].at = "undoRows" /\ Directory!Goes(a, "rest")
      /\ UNCHANGED <<copy, agentTask, agentWorker, made, taskIds, overwritten, told>>
  BY DEF Directory!UndoRows
<1>2. /\ job' \in [Admins -> DirectoryJob] /\ job'[a].at = "rest"
      /\ \A b \in Admins : b # a => job'[b] = job[b]
  BY <1>1, DirectoryGoes
<1>3. /\ lapses' \subseteq Directory!Lapses /\ lapses \subseteq lapses'
      /\ account' \in [here: BOOLEAN, profile: 0 .. MaxEdits] /\ account'.profile = account.profile
      /\ (account'.here => account.here) /\ (account'.here => Silent')
  <2>1. CASE Directory!Lapse("rows kept") /\ UNCHANGED account
    <3>1. "rows kept" \in Directory!Lapses
      BY DEF Directory!Lapses
    <3>. QED BY <2>1, <3>1, DirectoryLapse DEF Silent, DirectoryTypes
  <2>2. CASE account' = [account EXCEPT !.here = FALSE] /\ UNCHANGED lapses
    BY <2>2 DEF DirectoryTypes
  <2>. QED BY <2>1, <2>2 DEF Directory!UndoRows
<1>4. DirectoryTypes'
  BY <1>1, <1>2, <1>3 DEF DirectoryTypes
<1>5. ProfilesInOrder' /\ TasksInOrder'
  BY <1>1, <1>2, <1>3 DEF ProfilesInOrder, TasksInOrder
<1>6. AloneIsRemoved'
  <2>1. copy = 0 \/ LeftAlone
    BY <1>1 DEF AloneIsRemoved
  <2>. QED BY <1>1, <1>3, <2>1, DirectoryWorse DEF AloneIsRemoved
<1>. QED BY <1>3, <1>4, <1>5, <1>6 DEF EditIsCarried, WorkerIsCurrent

\* The user goes, and the request is on its way to the switch.
LEMMA DirectoryDeleteStep ==
  ASSUME DirectoryInv, NEW a \in Admins, Directory!Delete(a)
  PROVE  DirectoryInv'
<1> USE DEF DirectoryInv
<1>1. /\ account.here /\ account' = [account EXCEPT !.here = FALSE] /\ Directory!Goes(a, "remove")
      /\ UNCHANGED <<copy, agentTask, agentWorker, made, taskIds, overwritten, lapses, told>>
  BY DEF Directory!Delete
<1>2. /\ job' \in [Admins -> DirectoryJob] /\ job'[a].at = "remove"
      /\ \A b \in Admins : b # a => job'[b] = job[b]
  BY <1>1, DirectoryGoes
<1>3. /\ account' \in [here: BOOLEAN, profile: 0 .. MaxEdits] /\ account'.profile = account.profile
      /\ ~account'.here
  BY <1>1 DEF DirectoryTypes
<1>4. DirectoryTypes'
  BY <1>1, <1>2, <1>3 DEF DirectoryTypes
<1>5. ProfilesInOrder' /\ TasksInOrder'
  BY <1>1, <1>2, <1>3 DEF ProfilesInOrder, TasksInOrder
<1>6. AloneIsRemoved'
  BY <1>1, <1>2 DEF AloneIsRemoved, LeftAlone
<1>. QED BY <1>3, <1>4, <1>5, <1>6 DEF EditIsCarried, WorkerIsCurrent

\* The switch is told, or somebody hears that not, or nobody can.
LEMMA DirectoryRemoveStep ==
  ASSUME DirectoryInv, NEW a \in Admins, Directory!Remove(a)
  PROVE  DirectoryInv'
<1> USE DEF DirectoryInv
<1>1. /\ job[a].at = "remove" /\ Directory!Goes(a, "rest") /\ ~account.here
      /\ UNCHANGED <<account, agentTask, agentWorker, made, taskIds, overwritten>>
  BY DEF Directory!Remove, ProfilesInOrder
<1>2. /\ job' \in [Admins -> DirectoryJob] /\ job'[a].at = "rest"
      /\ \A b \in Admins : b # a => job'[b] = job[b]
  BY <1>1, DirectoryGoes
<1>3. /\ lapses' \subseteq Directory!Lapses /\ lapses \subseteq lapses'
      /\ told' \in BOOLEAN /\ copy' \in {0, copy}
      /\ copy' = 0 \/ told' \/ "cut off" \in lapses'
  <2>1. CASE Directory!Lapse("cut off") /\ UNCHANGED told /\ copy' \in {0, copy}
    <3>1. "cut off" \in Directory!Lapses
      BY DEF Directory!Lapses
    <3>. QED BY <2>1, <3>1, DirectoryLapse DEF DirectoryTypes
  <2>2. CASE UNCHANGED lapses /\ ((copy' = 0 /\ UNCHANGED told) \/ (copy' \in {0, copy} /\ told' = TRUE))
    BY <2>2 DEF DirectoryTypes
  <2>. QED BY <2>1, <2>2 DEF Directory!Remove
<1>4. DirectoryTypes'
  <2>1. copy' \in 0 .. MaxEdits
    <3>1. 0 \in 0 .. MaxEdits
      BY EdgesAssumption
    <3>2. copy' = 0 \/ copy' = copy
      BY <1>3
    <3>. QED BY <3>1, <3>2 DEF DirectoryTypes
  <2>. QED BY <1>1, <1>2, <1>3, <2>1 DEF DirectoryTypes
<1>5. ProfilesInOrder' /\ TasksInOrder'
  BY <1>1, <1>2 DEF ProfilesInOrder, TasksInOrder
<1>6. AloneIsRemoved'
  BY <1>1, <1>2, <1>3, DirectoryWorse DEF AloneIsRemoved, LeftAlone
<1>. QED BY <1>1, <1>4, <1>5, <1>6 DEF EditIsCarried, WorkerIsCurrent

\* The worker takes the task, with the profile of now, or drops it.
LEMMA DirectoryTakeStep ==
  ASSUME DirectoryInv, Directory!Take
  PROVE  DirectoryInv'
<1> USE DEF DirectoryInv
<1>1. /\ agentTask.id # 0
      /\ UNCHANGED <<account, copy, job, made, taskIds, overwritten, told>>
  BY DEF Directory!Take
<1>2. CASE account.here /\ UNCHANGED <<agentTask, lapses>>
           /\ agentWorker' = [at |-> "send", id |-> agentTask.id, attempts |-> agentTask.attempts,
                              profile |-> account.profile]
  <2>1. agentWorker' \in DirectoryWorker
    BY <1>2, DirectoryFields DEF DirectoryWorker
  <2>2. DirectoryTypes'
    BY <1>1, <1>2, <2>1 DEF DirectoryTypes
  <2>3. ProfilesInOrder' /\ TasksInOrder'
    BY <1>1, <1>2, DirectoryFields DEF ProfilesInOrder, TasksInOrder, DirectoryTypes
  <2>4. AloneIsRemoved'
    BY <1>1, <1>2 DEF AloneIsRemoved, LeftAlone
  <2>5. TaskCarries' /\ agentWorker'.profile = account'.profile
    BY <1>1, <1>2 DEF TaskCarries
  <2>. QED BY <2>2, <2>3, <2>4, <2>5 DEF EditIsCarried, WorkerIsCurrent
<1>3. CASE /\ agentTask' = Directory!NoTask /\ UNCHANGED agentWorker
           /\ (~account.here /\ UNCHANGED lapses) \/ Directory!Lapse("given up")
  <2>1. lapses' \subseteq Directory!Lapses /\ lapses \subseteq lapses' /\ (~account.here \/ Silent')
    <3>1. "given up" \in Directory!Lapses
      BY DEF Directory!Lapses
    <3>. QED BY <1>3, <3>1, DirectoryLapse DEF Silent, DirectoryTypes
  <2>2. Directory!NoTask \in [id: Nat, attempts: 0 .. MaxAttempts - 1] /\ Directory!NoTask.id = 0
    BY EdgesAssumption DEF Directory!NoTask
  <2>3. DirectoryTypes'
    BY <1>1, <1>3, <2>1, <2>2 DEF DirectoryTypes
  <2>4. ProfilesInOrder' /\ TasksInOrder'
    <3>1. agentTask'.id <= taskIds
      <4>1. agentTask'.id = 0
        BY <1>3, <2>2
      <4>. QED BY <4>1 DEF DirectoryTypes
    <3>2. TasksInOrder'
      BY <1>1, <1>3, <3>1 DEF TasksInOrder
    <3>3. ProfilesInOrder'
      BY <1>1, <1>3 DEF ProfilesInOrder
    <3>. QED BY <3>2, <3>3
  <2>5. AloneIsRemoved'
    BY <1>1, <2>1, DirectoryWorse DEF AloneIsRemoved
  <2>. QED BY <1>1, <2>1, <2>3, <2>4, <2>5 DEF EditIsCarried, WorkerIsCurrent
<1>. QED BY <1>2, <1>3 DEF Directory!Take

\* The worker has sent a profile, or tried to.
LEMMA DirectoryWorkerStep ==
  ASSUME DirectoryInv, Directory!WorkerSent \/ Directory!WorkerFails
  PROVE  DirectoryInv'
<1> USE DEF DirectoryInv
<1> DEFINE w == agentWorker
           same == agentTask.id = w.id
           sent == Directory!Arrives(w.profile)
<1>1. /\ w.at = "send" /\ agentWorker' = Directory!Rest
      /\ sent \/ (Directory!WorkerFails /\ UNCHANGED <<copy, overwritten>>)
      /\ UNCHANGED <<account, job, made, taskIds, told>>
  BY DEF Directory!WorkerSent, Directory!WorkerFails
<1>2. /\ w.id \in Nat /\ w.attempts \in 0 .. MaxAttempts - 1
      /\ w.profile \in 0 .. MaxEdits /\ w.profile <= made
  BY <1>1, DirectoryFields DEF ProfilesInOrder
<1>3. /\ copy' \in 0 .. MaxEdits /\ overwritten' \in BOOLEAN /\ (overwritten => overwritten')
      /\ ~account.here => overwritten' \/ copy' = copy
      /\ (\E b \in Admins : job[b].at = "undoRows") => overwritten' \/ copy' = copy
      /\ w.profile # account.profile /\ copy = account.profile =>
           overwritten' \/ copy' = account.profile
      /\ sent /\ w.profile = account.profile => copy' = account.profile
  BY <1>1, <1>2, DirectoryArrives DEF DirectoryTypes
<1>4. /\ lapses' \subseteq Directory!Lapses /\ lapses \subseteq lapses'
      /\ \/ agentTask' = agentTask
         \/ agentTask' = Directory!NoTask /\ same /\ ((sent /\ ~Directory!WorkerFails) \/ Silent')
         \/ agentTask' = [agentTask EXCEPT !.attempts = w.attempts + 1] /\ w.attempts + 1 < MaxAttempts
  <2>1. CASE Directory!WorkerFails
    <3>1. CASE UNCHANGED <<agentTask, lapses>>
      BY <3>1 DEF DirectoryTypes
    <3>2. CASE /\ w.attempts + 1 < MaxAttempts /\ UNCHANGED lapses
               /\ agentTask' = IF same THEN [agentTask EXCEPT !.attempts = w.attempts + 1] ELSE agentTask
      BY <3>2 DEF DirectoryTypes
    <3>3. CASE /\ agentTask' = Directory!Dropped(w.id)
               /\ IF same THEN Directory!Lapse("given up") ELSE UNCHANGED lapses
      <4>1. "given up" \in Directory!Lapses
        BY DEF Directory!Lapses
      <4>2. CASE same
        BY <3>3, <4>1, <4>2, DirectoryLapse DEF Silent, Directory!Dropped
      <4>3. CASE ~same
        BY <3>3, <4>3 DEF Directory!Dropped, DirectoryTypes
      <4>. QED BY <4>2, <4>3
    <3>. QED BY <2>1, <3>1, <3>2, <3>3 DEF Directory!WorkerFails
  <2>2. CASE ~Directory!WorkerFails
    BY <2>2 DEF Directory!WorkerSent, Directory!Dropped, DirectoryTypes
  <2>. QED BY <2>1, <2>2
<1>5. /\ agentTask' \in [id: Nat, attempts: 0 .. MaxAttempts - 1]
      /\ agentTask'.id \in {0, agentTask.id}
      /\ agentTask'.id = agentTask.id \/ (same /\ ((sent /\ ~Directory!WorkerFails) \/ Silent'))
  <2>1. 0 \in 0 .. MaxAttempts - 1
    BY EdgesAssumption
  <2>2. w.attempts + 1 < MaxAttempts => w.attempts + 1 \in 0 .. MaxAttempts - 1
    BY <1>2, EdgesAssumption
  <2>3. agentTask \in [id: Nat, attempts: 0 .. MaxAttempts - 1]
    BY DEF DirectoryTypes
  <2>. QED BY <1>4, <2>1, <2>2, <2>3 DEF Directory!NoTask
<1>6. DirectoryTypes'
  BY <1>1, <1>3, <1>4, <1>5 DEF DirectoryTypes, DirectoryWorker
<1>7. ProfilesInOrder'
  BY <1>1 DEF ProfilesInOrder, Directory!Rest
<1>8. TasksInOrder'
  BY <1>1, <1>5 DEF TasksInOrder, Directory!Rest, DirectoryTypes
<1>9. (LeftAlone => LeftAlone') /\ (Silent => Silent') /\ ("cut off" \in lapses => "cut off" \in lapses')
  BY <1>3, <1>4, DirectoryWorse
<1>10. AloneIsRemoved'
  BY <1>1, <1>3, <1>9 DEF AloneIsRemoved, LeftAlone
<1>11. ~WorkerHasTask'
  BY <1>1 DEF WorkerHasTask, Directory!Rest
<1>12. EditIsCarried'
  <2> SUFFICES ASSUME account.here, copy' # account.profile, ~Silent',
                      \A a \in Admins : ~JobCarries(a)
               PROVE  TaskCarries'
    BY <1>1 DEF EditIsCarried, JobCarries, JobReads
  <2>1. copy # account.profile /\ ~Silent
    BY <1>3, <1>9, <1>1 DEF Silent
  <2>2. TaskCarries
    BY <2>1 DEF EditIsCarried
  <2>3. same => w.profile = account.profile
    BY <1>1, <2>2 DEF TaskCarries, WorkerHasTask
  <2>4. agentTask'.id = agentTask.id
    BY <1>3, <1>5, <2>3
  <2>. QED BY <1>11, <2>2, <2>4 DEF TaskCarries
<1>. QED BY <1>6, <1>7, <1>8, <1>10, <1>11, <1>12 DEF WorkerIsCurrent

\* open-call stops: what was on its way is cut off, a task stays.
LEMMA DirectoryCrashStep ==
  ASSUME DirectoryInv, Directory!Crash
  PROVE  DirectoryInv'
<1> USE DEF DirectoryInv
<1>1. /\ agentWorker' = Directory!Rest /\ job' = [a \in Admins |-> Directory!Rest]
      /\ UNCHANGED <<account, copy, agentTask, made, taskIds, overwritten, told>>
  BY DEF Directory!Crash
<1>2. Directory!Rest \in DirectoryJob /\ Directory!Rest \in DirectoryWorker
  BY DEF DirectoryJob, DirectoryWorker
<1>3. /\ lapses' \subseteq Directory!Lapses /\ lapses \subseteq lapses'
      /\ (\A a \in Admins : job[a].at = "rest") \/ "cut off" \in lapses'
  <2>1. "cut off" \in Directory!Lapses
    BY DEF Directory!Lapses
  <2>. QED BY <2>1, DirectoryLapse DEF Directory!Crash, DirectoryTypes
<1>4. DirectoryTypes'
  BY <1>1, <1>2, <1>3 DEF DirectoryTypes
<1>5. /\ agentWorker'.at = "rest" /\ \A a \in Admins : job'[a].at = "rest"
  BY <1>1 DEF Directory!Rest
<1>6. ProfilesInOrder' /\ TasksInOrder'
  BY <1>1, <1>5 DEF ProfilesInOrder, TasksInOrder
<1>7. AloneIsRemoved'
  BY <1>1, <1>3, <1>5, DirectoryWorse DEF AloneIsRemoved
<1>8. ~WorkerHasTask'
  BY <1>5 DEF WorkerHasTask
<1>9. EditIsCarried'
  <2>1. CASE "cut off" \in lapses'
    BY <2>1 DEF EditIsCarried, Silent
  <2>2. CASE \A a \in Admins : job[a].at = "rest"
    <3>1. \A a \in Admins : ~JobCarries(a)
      BY <2>2 DEF JobCarries, JobReads
    <3>2. TaskCarries => TaskCarries'
      BY <1>1, <1>8 DEF TaskCarries
    <3>. QED BY <1>1, <1>3, <3>1, <3>2, DirectoryWorse DEF EditIsCarried
  <2>. QED BY <1>3, <2>1, <2>2
<1>. QED BY <1>4, <1>6, <1>7, <1>8, <1>9 DEF WorkerIsCurrent

LEMMA DirectoryHolds == Directory!Spec => []DirectoryInv
<1>1. DirectoryInv /\ [Directory!Next]_Directory!dirVars => DirectoryInv'
  <2> SUFFICES ASSUME DirectoryInv, [Directory!Next]_Directory!dirVars PROVE DirectoryInv'
    OBVIOUS
  <2>1. CASE UNCHANGED Directory!dirVars
    BY <2>1 DEF Directory!dirVars, DirectoryInv, DirectoryTypes, ProfilesInOrder, TasksInOrder,
                AloneIsRemoved, LeftAlone, Silent, EditIsCarried, WorkerIsCurrent, WorkerHasTask,
                JobCarries, JobReads, TaskCarries
  <2>2. CASE Directory!Next
    BY <2>2, DirectoryCreateStep, DirectoryUpdateStep, DirectoryReadStep, DirectorySendStep,
       DirectoryClearStep, DirectoryEnqueueStep, DirectoryUndoSwitchStep, DirectoryUndoRowsStep,
       DirectoryDeleteStep, DirectoryRemoveStep, DirectoryTakeStep, DirectoryWorkerStep,
       DirectoryCrashStep
       DEF Directory!Next
  <2>. QED BY <2>1, <2>2
<1>. QED BY DirectoryInitInv, <1>1, PTL DEF Directory!Spec

\* For any admins, edits, failures and restarts: an edit that the switch did not
\* take has a task, unless it was overtaken or a step that nobody hears of failed.
THEOREM EditsAreCarried == Directory!Spec => []Directory!EditNotForgotten
<1>1. DirectoryInv => Directory!EditNotForgotten
  BY DEF DirectoryInv, EditIsCarried, Silent, TaskCarries, JobCarries, JobReads,
         Directory!EditNotForgotten, Directory!Quiet
<1>. QED BY <1>1, DirectoryHolds, PTL

\* For any admins, edits, failures and restarts: an agent stays in the switch
\* without a user only when an admin was told, when a profile came too late, when
\* the undoing failed at the switch, or when open-call stopped in between.
THEOREM AgentsHaveUsers == Directory!Spec => []Directory!NoAgentAlone
<1>1. DirectoryInv => Directory!NoAgentAlone
  BY DEF DirectoryInv, AloneIsRemoved, LeftAlone, Directory!NoAgentAlone, Directory!Quiet
<1>. QED BY <1>1, DirectoryHolds, PTL

---------------------------------------------------------------------------

(***************************************************************************)
(* VoiceBot for any capacities and any number of responses.  A message     *)
(* that is not a clear has the generation of the one before it on the wire *)
(* (StreamInOrder), so the switch never discards one; what is on its way   *)
(* of a response that was cut is older than its end (Timely); and of the   *)
(* response that goes on, the blocks that the reader took are those that   *)
(* the switch has, the one the sender holds, and a run of the chunks       *)
(* (BlocksCounted: the places after k up to k + n).                        *)
(***************************************************************************)

RobotItem == [kind: {"audio", "finish"}, gen: Nat, of: 1 .. MaxResponses]
RobotMessage == RobotItem \cup [kind: {"clear"}, gen: Nat, of: {0}]

RobotTypes ==
  /\ robotCall \in {"waiting", "ringing", "talking", "passed_on", "ended"}
  /\ session \in {"none", "answering", "running", "closing", "checked"}
  /\ reader \in [gen: Nat, current: 0 .. MaxResponses, blocked: SUBSET Nat, interrupted: BOOLEAN]
  /\ chunks \in Seq(RobotItem) /\ Len(chunks) <= HandoffCap
  /\ sender \in [at: {"idle", "send", "wait"}, item: RobotItem \cup {Robot!NoItem}]
  /\ sender.at # "idle" => sender.item \in RobotItem
  /\ sender.at = "wait" => sender.item.kind = "audio"
  /\ pcmGen \in Nat /\ wire \in Seq(RobotMessage)
  /\ far \in [gen: Nat, queue: Seq(1 .. MaxResponses)] /\ Len(far.queue) <= QueueCap
  /\ created \in 0 .. MaxResponses /\ complete \subseteq 1 .. MaxResponses
  /\ asked \in [1 .. MaxResponses -> Nat] /\ said \in [1 .. MaxResponses -> Nat]
  /\ over \in [1 .. MaxResponses -> Nat]

\* The generation after i messages.
GenAfter(f, w, i) == IF i = 0 THEN f.gen ELSE w[i].gen

StreamInOrder ==
  /\ pcmGen = reader.gen /\ GenAfter(far, wire, Len(wire)) = pcmGen
  /\ \A i \in 1 .. Len(wire) : wire[i].kind # "clear" => wire[i].gen = GenAfter(far, wire, i - 1)
  /\ \A i, j \in 0 .. Len(wire) : i <= j => GenAfter(far, wire, i) <= GenAfter(far, wire, j)

\* All responses but the last have been cut, and it has if the caller spoke.
LastResponse ==
  /\ reader.current = created
  /\ \A r \in 1 .. MaxResponses : r > created => over[r] = 0 /\ asked[r] = 0 /\ said[r] = 0
                                                 /\ r \notin complete
  /\ \A r \in 1 .. MaxResponses : r < created => over[r] # 0
  /\ created # 0 => (over[created] = 0 <=> ~reader.interrupted)

Timely(x) ==
  x.kind = "audio" =>
    /\ x.of <= created
    /\ over[x.of] = 0 => x.gen = pcmGen
    /\ over[x.of] # 0 => x.gen < over[x.of]

AudioIsTimely ==
  /\ \A i \in 1 .. Len(chunks) : Timely(chunks[i])
  /\ sender.at # "idle" => Timely(sender.item)

\* The block on the wire is the one that the sender waits for.
OneBlockAhead ==
  /\ \A i \in 1 .. Len(wire) : wire[i].kind = "audio" => sender.at = "wait" /\ wire[i] = sender.item
  /\ \A i, j \in 1 .. Len(wire) : wire[i].kind = "audio" /\ wire[j].kind = "audio" => i = j

IsBlock(x) == x.kind = "audio" /\ x.of = created
Held == IF sender.at # "idle" /\ IsBlock(sender.item) THEN 1 ELSE 0
BlocksAt(k, n) ==
  /\ k + n <= Len(chunks)
  /\ \A i \in 1 .. Len(chunks) : IsBlock(chunks[i]) <=> k < i /\ i <= k + n
  /\ created \notin complete => k + n = Len(chunks)
  /\ asked[created] = said[created] + n + Held

BlocksCounted == created # 0 /\ over[created] = 0 => \E k, n \in Nat : BlocksAt(k, n)

RobotInv ==
  /\ RobotTypes /\ StreamInOrder /\ LastResponse /\ AudioIsTimely /\ OneBlockAhead /\ BlocksCounted
  /\ Robot!NothingOldIsSaid

\* A session that begins, or is forgotten.
RobotFresh ==
  /\ robotCall \in {"waiting", "ringing", "talking", "passed_on", "ended"}
  /\ session \in {"none", "answering", "running", "closing", "checked"}
  /\ reader = Robot!Fresh /\ chunks = <<>> /\ sender = Robot!Idle /\ pcmGen = 1 /\ wire = <<>>
  /\ far = [gen |-> 1, queue |-> <<>>]
  /\ created = 0 /\ complete = {} /\ asked = Robot!Zero /\ said = Robot!Zero /\ over = Robot!Zero

LEMMA RobotFreshInv == RobotFresh => RobotInv
<1> SUFFICES ASSUME RobotFresh PROVE RobotInv
  OBVIOUS
<1> USE DEF RobotFresh
<1>1. Robot!Zero \in [1 .. MaxResponses -> Nat] /\ \A r \in 1 .. MaxResponses : Robot!Zero[r] = 0
  BY DEF Robot!Zero, Robot!Responses
<1>2. reader \in [gen: Nat, current: 0 .. MaxResponses, blocked: SUBSET Nat, interrupted: BOOLEAN]
      /\ reader.gen = 1 /\ reader.current = 0
  BY EdgesAssumption DEF Robot!Fresh
<1>3. sender \in [at: {"idle", "send", "wait"}, item: RobotItem \cup {Robot!NoItem}]
      /\ sender.at = "idle"
  BY DEF Robot!Idle
<1>4. far \in [gen: Nat, queue: Seq(1 .. MaxResponses)] /\ far.gen = 1 /\ far.queue = <<>>
  OBVIOUS
<1>5. chunks \in Seq(RobotItem) /\ Len(chunks) = 0 /\ wire \in Seq(RobotMessage) /\ Len(wire) = 0
      /\ Len(far.queue) = 0
  BY <1>4
<1>6. RobotTypes
  BY <1>1, <1>2, <1>3, <1>4, <1>5, EdgesAssumption DEF RobotTypes
<1>7. StreamInOrder
  BY <1>2, <1>4, <1>5 DEF StreamInOrder, GenAfter
<1>8. LastResponse
  BY <1>1, <1>2, EdgesAssumption DEF LastResponse
<1>9. AudioIsTimely /\ OneBlockAhead /\ BlocksCounted
  BY <1>3, <1>5 DEF AudioIsTimely, OneBlockAhead, BlocksCounted
<1>10. Robot!NothingOldIsSaid
  BY <1>4 DEF Robot!NothingOldIsSaid
<1>. QED BY <1>6, <1>7, <1>8, <1>9, <1>10 DEF RobotInv

\* A message follows the others on the wire.
LEMMA WireLonger ==
  ASSUME RobotTypes, StreamInOrder, NEW x \in RobotMessage, wire' = Append(wire, x),
         UNCHANGED far, x.gen >= pcmGen, x.kind # "clear" => x.gen = pcmGen,
         pcmGen' = x.gen, reader'.gen = x.gen
  PROVE  wire' \in Seq(RobotMessage) /\ StreamInOrder'
<1>1. /\ wire' \in Seq(RobotMessage) /\ Len(wire) \in Nat /\ Len(wire') = Len(wire) + 1
      /\ \A i \in 1 .. Len(wire) : wire'[i] = wire[i]
      /\ wire'[Len(wire) + 1] = x
  BY Queued DEF RobotTypes
<1>2. /\ \A i \in 0 .. Len(wire) : GenAfter(far', wire', i) = GenAfter(far, wire, i)
      /\ GenAfter(far', wire', Len(wire) + 1) = x.gen
  BY <1>1 DEF GenAfter
<1>3. \A i \in 0 .. Len(wire) : GenAfter(far, wire, i) \in Nat /\ GenAfter(far, wire, i) <= pcmGen
  <2>1. \A i \in 1 .. Len(wire) : wire[i] \in RobotMessage
    BY Places DEF RobotTypes
  <2>2. \A i \in 1 .. Len(wire) : wire[i].gen \in Nat
    BY <2>1 DEF RobotMessage, RobotItem
  <2>3. far.gen \in Nat
    BY DEF RobotTypes
  <2>4. \A i \in 0 .. Len(wire) : GenAfter(far, wire, i) \in Nat
    BY <2>2, <2>3 DEF GenAfter
  <2>. QED BY <1>1, <2>4 DEF StreamInOrder
<1>4. x.gen \in Nat /\ pcmGen \in Nat
  BY DEF RobotTypes, RobotMessage, RobotItem
<1> DEFINE g(i) == GenAfter(far, wire, i)
           h(i) == GenAfter(far', wire', i)
<1>5. \A i \in 1 .. Len(wire') : wire'[i].kind # "clear" => wire'[i].gen = h(i - 1)
  <2> SUFFICES ASSUME NEW i \in 1 .. Len(wire'), wire'[i].kind # "clear"
               PROVE  wire'[i].gen = h(i - 1)
    OBVIOUS
  <2>1. CASE i \in 1 .. Len(wire)
    <3>1. i - 1 \in 0 .. Len(wire)
      BY <1>1, <2>1
    <3>. QED BY <1>1, <1>2, <2>1, <3>1 DEF StreamInOrder
  <2>2. CASE i = Len(wire) + 1
    BY <1>1, <1>2, <2>2 DEF StreamInOrder
  <2>. QED BY <1>1, <2>1, <2>2
<1>6. \A i, j \in 0 .. Len(wire') : i <= j => h(i) <= h(j)
  <2> SUFFICES ASSUME NEW i \in 0 .. Len(wire'), NEW j \in 0 .. Len(wire'), i <= j PROVE h(i) <= h(j)
    OBVIOUS
  <2>1. CASE j \in 0 .. Len(wire)
    BY <1>1, <1>2, <2>1 DEF StreamInOrder
  <2>2. CASE j = Len(wire) + 1 /\ i \in 0 .. Len(wire)
    <3>1. h(j) = x.gen /\ h(i) = g(i)
      BY <1>2, <2>2
    <3> HIDE DEF g, h
    <3>2. g(i) \in Nat /\ g(i) <= pcmGen
      BY <1>3, <2>2 DEF g
    <3>. QED BY <1>4, <3>1, <3>2
  <2>3. CASE i = Len(wire) + 1 /\ j = Len(wire) + 1
    <3>1. h(i) = x.gen /\ h(j) = x.gen
      BY <1>2, <2>3
    <3> HIDE DEF h
    <3>. QED BY <1>4, <3>1
  <2>. QED BY <1>1, <2>1, <2>2, <2>3
<1>. QED BY <1>1, <1>2, <1>5, <1>6 DEF StreamInOrder

\* The switch has read a message: its generation is the one of the message.
LEMMA WireShorter ==
  ASSUME RobotTypes, StreamInOrder, wire # <<>>, wire' = Tail(wire), far'.gen = Head(wire).gen,
         UNCHANGED <<pcmGen, reader>>
  PROVE  wire' \in Seq(RobotMessage) /\ StreamInOrder'
<1>1. /\ wire' \in Seq(RobotMessage) /\ Len(wire) \in Nat \ {0} /\ Len(wire') = Len(wire) - 1
      /\ Head(wire) = wire[1] /\ \A i \in 1 .. Len(wire) - 1 : wire'[i] = wire[i + 1]
  BY Shorter DEF RobotTypes
<1>2. \A i \in 0 .. Len(wire') : GenAfter(far', wire', i) = GenAfter(far, wire, i + 1) /\ i + 1 \in 1 .. Len(wire)
  BY <1>1 DEF GenAfter
<1>3. \A i \in 1 .. Len(wire') : i + 1 \in 1 .. Len(wire) /\ i - 1 \in 0 .. Len(wire') /\ (i + 1) - 1 = (i - 1) + 1
  BY <1>1
<1>4. \A i \in 1 .. Len(wire') : wire'[i].kind # "clear" => wire'[i].gen = GenAfter(far', wire', i - 1)
  <2> SUFFICES ASSUME NEW i \in 1 .. Len(wire'), wire'[i].kind # "clear"
               PROVE  wire'[i].gen = GenAfter(far', wire', i - 1)
    OBVIOUS
  <2>1. wire'[i] = wire[i + 1]
    BY <1>1
  <2>2. wire[i + 1].gen = GenAfter(far, wire, (i + 1) - 1)
    BY <1>3, <2>1 DEF StreamInOrder
  <2>3. GenAfter(far', wire', i - 1) = GenAfter(far, wire, (i - 1) + 1)
    BY <1>2, <1>3
  <2>. QED BY <1>3, <2>1, <2>2, <2>3
<1>5. \A i, j \in 0 .. Len(wire') : i <= j => GenAfter(far', wire', i) <= GenAfter(far', wire', j)
  BY <1>1, <1>2 DEF StreamInOrder
<1>6. GenAfter(far', wire', Len(wire')) = pcmGen
  BY <1>1, <1>2 DEF StreamInOrder
<1>. QED BY <1>1, <1>4, <1>5, <1>6 DEF StreamInOrder

\* What one block is, and how far it is from the responses.
LEMMA RobotItems ==
  ASSUME RobotTypes
  PROVE  /\ \A i \in 1 .. Len(chunks) : chunks[i] \in RobotItem
         /\ \A i \in 1 .. Len(wire) : wire[i] \in RobotMessage
         /\ \A x \in RobotItem : x.gen \in Nat /\ x.of \in 1 .. MaxResponses /\ x.kind \in {"audio", "finish"}
         /\ \A x \in RobotMessage : x.gen \in Nat /\ x.of \in 0 .. MaxResponses
                                    /\ x.kind \in {"audio", "finish", "clear"}
                                    /\ (x.kind # "clear" => x \in RobotItem)
         /\ Len(chunks) \in Nat /\ Len(wire) \in Nat
         /\ \A i \in DOMAIN far.queue : far.queue[i] \in 1 .. MaxResponses
         /\ reader.gen \in Nat /\ far.gen \in Nat /\ reader.current \in 0 .. MaxResponses
         /\ reader.interrupted \in BOOLEAN
<1>1. /\ chunks \in Seq(RobotItem) /\ wire \in Seq(RobotMessage)
      /\ far.queue \in Seq(1 .. MaxResponses) /\ far.gen \in Nat
      /\ reader.gen \in Nat /\ reader.current \in 0 .. MaxResponses /\ reader.interrupted \in BOOLEAN
  BY DEF RobotTypes
<1>2. \A x \in RobotItem : x.gen \in Nat /\ x.of \in 1 .. MaxResponses /\ x.kind \in {"audio", "finish"}
  BY DEF RobotItem
<1>3. \A x \in RobotMessage : x.gen \in Nat /\ x.of \in 0 .. MaxResponses
                              /\ x.kind \in {"audio", "finish", "clear"}
                              /\ (x.kind # "clear" => x \in RobotItem)
  BY EdgesAssumption DEF RobotMessage, RobotItem
<1>4. Len(far.queue) \in Nat /\ DOMAIN far.queue = 1 .. Len(far.queue)
      /\ \A i \in 1 .. Len(far.queue) : far.queue[i] \in 1 .. MaxResponses
  BY <1>1, Places
<1>. QED BY <1>1, <1>2, <1>3, <1>4, Places

\* The session around the audio goes on.
LEMMA RobotAroundStep ==
  ASSUME RobotInv, UNCHANGED Robot!audioVars,
         robotCall' \in {"waiting", "ringing", "talking", "passed_on", "ended"},
         session' \in {"none", "answering", "running", "closing", "checked"}
  PROVE  RobotInv'
BY DEF RobotInv, RobotTypes, StreamInOrder, LastResponse, AudioIsTimely, Timely, OneBlockAhead,
       BlocksCounted, BlocksAt, Held, IsBlock, Robot!NothingOldIsSaid, Robot!audioVars

\* The near end moves on: what the model says now is cut, by the caller or by
\* the next response.
LEMMA RobotCutKeeps ==
  ASSUME RobotInv,
         pcmGen' = reader.gen + 1,
         wire' = Append(wire, [kind |-> "clear", gen |-> reader.gen + 1, of |-> 0]),
         over' = [r \in Robot!Responses |->
                    IF r = reader.current /\ over[r] = 0 THEN reader.gen + 1 ELSE over[r]],
         reader' \in [gen: Nat, current: 0 .. MaxResponses, blocked: SUBSET Nat, interrupted: BOOLEAN],
         reader'.gen = reader.gen + 1, reader'.current = created',
         created' \in 0 .. MaxResponses,
         \/ created' = created /\ reader'.interrupted = TRUE
         \/ created' = created + 1 /\ reader'.interrupted = FALSE,
         UNCHANGED <<robotCall, session, chunks, sender, far, complete, asked, said>>
  PROVE  RobotInv'
<1> USE DEF RobotInv
<1>1. reader.gen \in Nat /\ pcmGen = reader.gen /\ reader.current = created /\ created \in Nat
  BY RobotItems DEF StreamInOrder, LastResponse
<1>2. over \in [1 .. MaxResponses -> Nat]
  BY DEF RobotTypes
<1>3. /\ over' \in [1 .. MaxResponses -> Nat]
      /\ \A r \in 1 .. MaxResponses :
           /\ r = created /\ over[r] = 0 => over'[r] = reader.gen + 1
           /\ ~(r = created /\ over[r] = 0) => over'[r] = over[r]
  BY <1>1, <1>2 DEF Robot!Responses
<1> DEFINE x == [kind |-> "clear", gen |-> reader.gen + 1, of |-> 0]
<1>4. x \in RobotMessage /\ x.kind = "clear" /\ x.gen = reader.gen + 1
  BY <1>1 DEF RobotMessage
<1> HIDE DEF x
<1>5. wire' = Append(wire, x)
  BY DEF x
<1>6. wire' \in Seq(RobotMessage) /\ StreamInOrder'
  BY <1>1, <1>4, <1>5, WireLonger
<1>7. RobotTypes'
  BY <1>1, <1>3, <1>6 DEF RobotTypes
<1>8. LastResponse'
  <2>1. \A r \in 1 .. MaxResponses : r > created' => over'[r] = 0 /\ asked[r] = 0 /\ said[r] = 0
                                                     /\ r \notin complete
    BY <1>1, <1>3 DEF LastResponse
  <2>2. \A r \in 1 .. MaxResponses : r < created' => over'[r] # 0
    BY <1>1, <1>2, <1>3 DEF LastResponse
  <2>3. created' # 0 => (over'[created'] = 0 <=> ~reader'.interrupted)
    BY <1>1, <1>2, <1>3 DEF LastResponse
  <2>. QED BY <2>1, <2>2, <2>3 DEF LastResponse
<1>9. \A y \in RobotItem : Timely(y) /\ y.kind = "audio" =>
        y.of <= created /\ over'[y.of] # 0 /\ y.gen < over'[y.of]
  <2> SUFFICES ASSUME NEW y \in RobotItem, Timely(y), y.kind = "audio"
               PROVE  y.of <= created /\ over'[y.of] # 0 /\ y.gen < over'[y.of]
    OBVIOUS
  <2>1. y.of \in 1 .. MaxResponses /\ y.gen \in Nat
    BY RobotItems
  <2>2. over[y.of] \in Nat
    BY <1>2, <2>1
  <2>3. CASE over[y.of] = 0
    BY <1>1, <1>3, <2>1, <2>3 DEF Timely, LastResponse
  <2>4. CASE over[y.of] # 0
    BY <1>3, <2>1, <2>4 DEF Timely
  <2>. QED BY <2>3, <2>4
<1>10. AudioIsTimely'
  <2>1. \A i \in 1 .. Len(chunks) : chunks[i].kind = "audio" =>
          /\ chunks[i].of <= created /\ chunks[i].of \in 1 .. MaxResponses
          /\ over'[chunks[i].of] # 0 /\ chunks[i].gen < over'[chunks[i].of]
    BY <1>9, RobotItems DEF AudioIsTimely
  <2>2. sender.at # "idle" /\ sender.item.kind = "audio" =>
          /\ sender.item.of <= created /\ sender.item.of \in 1 .. MaxResponses
          /\ over'[sender.item.of] # 0 /\ sender.item.gen < over'[sender.item.of]
    BY <1>9, RobotItems DEF AudioIsTimely, RobotTypes
  <2>3. \A r \in 1 .. MaxResponses : r <= created => r <= created'
    BY <1>1
  <2>. QED BY <2>1, <2>2, <2>3 DEF AudioIsTimely, Timely
<1>11. OneBlockAhead'
  <2>1. /\ Len(wire) \in Nat /\ Len(wire') = Len(wire) + 1
        /\ \A i \in 1 .. Len(wire) : wire'[i] = wire[i]
        /\ wire'[Len(wire) + 1] = x
    BY <1>4, <1>5, Queued DEF RobotTypes
  <2>2. \A i \in 1 .. Len(wire') : wire'[i].kind = "audio" => i \in 1 .. Len(wire) /\ wire'[i] = wire[i]
    BY <1>4, <2>1
  <2>. QED BY <2>2 DEF OneBlockAhead
<1>12. BlocksCounted'
  <2> SUFFICES ASSUME created' # 0, over'[created'] = 0
               PROVE  \E k, n \in Nat : BlocksAt(k, n)'
    BY DEF BlocksCounted
  <2>1. created' = created + 1
    BY <1>8 DEF LastResponse
  <2>2. created' \in 1 .. MaxResponses /\ created' > created
    BY <1>1, <2>1
  <2>3. asked[created'] = 0 /\ said[created'] = 0 /\ created' \notin complete
    BY <2>2 DEF LastResponse
  <2>4. Held' = 0
    BY <1>1, <1>10, <2>2, RobotItems DEF Held, IsBlock, AudioIsTimely, Timely, RobotTypes
  <2>5. \A i \in 1 .. Len(chunks) : ~(chunks[i].kind = "audio" /\ chunks[i].of = created')
    BY <1>1, <2>2 DEF AudioIsTimely, Timely
  <2>6. Len(chunks) \in Nat
    BY RobotItems
  <2>7. BlocksAt(Len(chunks), 0)'
    BY <2>3, <2>4, <2>5, <2>6 DEF BlocksAt, IsBlock
  <2>8. PICK k \in Nat : k = Len(chunks)
    BY <2>6
  <2>9. BlocksAt(k, 0)'
    BY <2>7, <2>8 DEF BlocksAt
  <2>. QED BY <2>9
<1>13. Robot!NothingOldIsSaid'
  <2>1. far.gen <= reader.gen
    <3>1. 0 \in 0 .. Len(wire) /\ Len(wire) \in 0 .. Len(wire)
      BY RobotItems
    <3>. QED BY <1>1, <3>1 DEF StreamInOrder, GenAfter
  <2> SUFFICES ASSUME NEW i \in DOMAIN far.queue
               PROVE  over'[far.queue[i]] = 0 \/ far.gen < over'[far.queue[i]]
    BY DEF Robot!NothingOldIsSaid
  <2>2. far.queue[i] \in 1 .. MaxResponses /\ far.gen \in Nat
    BY RobotItems
  <2>3. over[far.queue[i]] = 0 \/ far.gen < over[far.queue[i]]
    BY DEF Robot!NothingOldIsSaid
  <2>4. \A r \in 1 .. MaxResponses : over[r] = 0 \/ far.gen < over[r] => over'[r] = 0 \/ far.gen < over'[r]
    BY <1>1, <1>3, <2>1, <2>2
  <2>. QED BY <2>2, <2>3, <2>4
<1>. QED BY <1>6, <1>7, <1>8, <1>10, <1>11, <1>12, <1>13

LEMMA RobotCutStep ==
  ASSUME RobotInv, Robot!SpeechStarted \/ Robot!ResponseCreated
  PROVE  RobotInv'
<1> USE DEF RobotInv
<1>1. /\ reader.gen \in Nat /\ reader.gen + 1 \in Nat /\ reader.current \in 0 .. MaxResponses
      /\ reader.current = created /\ reader.blocked \in SUBSET Nat /\ reader.interrupted \in BOOLEAN
      /\ reader = [gen |-> reader.gen, current |-> reader.current, blocked |-> reader.blocked,
                   interrupted |-> reader.interrupted]
  BY RobotItems DEF RobotTypes, LastResponse
<1>2. CASE Robot!SpeechStarted
  <2>1. reader' = [reader EXCEPT !.gen = @ + 1, !.interrupted = TRUE,
                       !.blocked = IF reader.current = 0 THEN @ ELSE @ \union {reader.current}]
        /\ UNCHANGED created
    BY <1>2 DEF Robot!SpeechStarted
  <2> DEFINE b == IF reader.current = 0 THEN reader.blocked ELSE reader.blocked \union {reader.current}
  <2>4. b \in SUBSET Nat
    BY <1>1
  <2>5. reader' = [gen |-> reader.gen + 1, current |-> reader.current, blocked |-> b, interrupted |-> TRUE]
    BY <1>1, <2>1
  <2> HIDE DEF b
  <2>2. /\ reader' \in [gen: Nat, current: 0 .. MaxResponses, blocked: SUBSET Nat, interrupted: BOOLEAN]
        /\ reader'.gen = reader.gen + 1 /\ reader'.current = created /\ reader'.interrupted = TRUE
    BY <1>1, <2>4, <2>5
  <2>3. created \in 0 .. MaxResponses
    BY DEF RobotTypes
  <2>. QED BY <1>2, <2>1, <2>2, <2>3, RobotCutKeeps DEF Robot!SpeechStarted, Robot!Cleared
<1>3. CASE Robot!ResponseCreated
  <2>1. reader' = [reader EXCEPT !.gen = @ + 1, !.current = created + 1, !.interrupted = FALSE]
        /\ created' = created + 1 /\ created < MaxResponses
    BY <1>3 DEF Robot!ResponseCreated
  <2>2. created + 1 \in 0 .. MaxResponses
    <3>1. created \in 0 .. MaxResponses
      BY DEF RobotTypes
    <3>2. MaxResponses \in Nat
      BY EdgesAssumption
    <3>. QED BY <2>1, <3>1, <3>2
  <2>3. /\ reader' \in [gen: Nat, current: 0 .. MaxResponses, blocked: SUBSET Nat, interrupted: BOOLEAN]
        /\ reader'.gen = reader.gen + 1 /\ reader'.current = created + 1 /\ reader'.interrupted = FALSE
    BY <1>1, <2>1, <2>2
  <2>. QED BY <1>3, <2>1, <2>2, <2>3, RobotCutKeeps DEF Robot!ResponseCreated, Robot!Cleared
<1>. QED BY <1>2, <1>3

\* The reader takes a block, or the end of a response.
LEMMA RobotReaderStep ==
  ASSUME RobotInv, NEW r \in Robot!Responses, Robot!Delta(r) \/ Robot!Done(r)
  PROVE  RobotInv'
<1> USE DEF RobotInv
<1>1. /\ r \in 1 .. created /\ r \notin complete /\ Robot!Wanted(r) /\ session = "running"
      /\ UNCHANGED <<robotCall, reader, sender, pcmGen, wire, far, created, said, over>>
  BY DEF Robot!Delta, Robot!Done
<1>2. r = created /\ over[created] = 0 /\ r \in 1 .. MaxResponses /\ created # 0
      /\ reader.gen \in Nat /\ pcmGen = reader.gen
  <2>1. r = reader.current /\ ~reader.interrupted
    BY <1>1 DEF Robot!Wanted
  <2>2. created \in 0 .. MaxResponses
    BY DEF RobotTypes
  <2>3. r = created /\ created # 0
    BY <1>1, <2>1, <2>2 DEF LastResponse
  <2>. QED BY <2>1, <2>2, <2>3, RobotItems DEF LastResponse, StreamInOrder, Robot!Responses
<1>3. PICK k \in Nat, n \in Nat : BlocksAt(k, n)
  BY <1>2 DEF BlocksCounted
<1>4. CASE UNCHANGED <<chunks, asked>>
  <2>1. session' \in {"running", "closing"} /\ complete' \in {complete, complete \union {r}}
    BY <1>1 DEF Robot!Delta, Robot!Done, Robot!Fails
  <2>2. RobotTypes'
    BY <1>1, <1>2, <1>4, <2>1 DEF RobotTypes
  <2>3. StreamInOrder' /\ AudioIsTimely' /\ OneBlockAhead' /\ Robot!NothingOldIsSaid'
    BY <1>1, <1>4 DEF StreamInOrder, AudioIsTimely, Timely, OneBlockAhead, Robot!NothingOldIsSaid
  <2>4. LastResponse'
    <3>1. \A q \in 1 .. MaxResponses : q > created => q # r
      BY <1>2
    <3>. QED BY <1>1, <1>4, <2>1, <3>1 DEF LastResponse
  <2>5. BlocksAt(k, n)'
    BY <1>1, <1>3, <1>4, <2>1 DEF BlocksAt, Held, IsBlock
  <2>. QED BY <2>2, <2>3, <2>4, <2>5 DEF BlocksCounted
<1>5. CASE ~UNCHANGED <<chunks, asked>>
  <2>1. PICK x \in RobotItem :
          /\ chunks' = Append(chunks, x) /\ Len(chunks) < HandoffCap /\ session' = session
          /\ x.gen = pcmGen /\ x.of = r
          /\ \/ /\ x.kind = "audio" /\ asked' = [asked EXCEPT ![r] = @ + 1] /\ complete' = complete
             \/ /\ x.kind = "finish" /\ asked' = asked /\ complete' = complete \union {r}
    <3> DEFINE a == Robot!Item("audio", r)
               f == Robot!Item("finish", r)
    <3>1. /\ a \in RobotItem /\ a.kind = "audio" /\ a.gen = pcmGen /\ a.of = r
          /\ f \in RobotItem /\ f.kind = "finish" /\ f.gen = pcmGen /\ f.of = r
      BY <1>2 DEF Robot!Item, RobotItem
    <3>2. CASE Robot!Delta(r)
      BY <1>5, <3>1, <3>2 DEF Robot!Delta, Robot!Fails
    <3>3. CASE Robot!Done(r)
      BY <1>5, <3>1, <3>3 DEF Robot!Done, Robot!Fails
    <3>. QED BY <3>2, <3>3
  <2>2. /\ chunks' \in Seq(RobotItem) /\ Len(chunks) \in Nat /\ Len(chunks') = Len(chunks) + 1
        /\ \A i \in 1 .. Len(chunks) : chunks'[i] = chunks[i]
        /\ chunks'[Len(chunks) + 1] = x
    BY <2>1, Queued DEF RobotTypes
  <2>3. asked \in [1 .. MaxResponses -> Nat]
    BY DEF RobotTypes
  <2>4. /\ asked' \in [1 .. MaxResponses -> Nat] /\ \A q \in 1 .. MaxResponses : q # r => asked'[q] = asked[q]
        /\ x.kind = "audio" => asked'[r] = asked[r] + 1
        /\ x.kind # "audio" => asked'[r] = asked[r]
    <3>1. asked[r] \in Nat /\ asked[r] + 1 \in Nat
      BY <1>2, <2>3
    <3>2. asked' = asked \/ asked' = [asked EXCEPT ![r] = asked[r] + 1]
      BY <2>1
    <3>3. asked' \in [1 .. MaxResponses -> Nat] /\ \A q \in 1 .. MaxResponses : q # r => asked'[q] = asked[q]
      BY <1>2, <2>3, <3>1, <3>2
    <3>4. x.kind = "audio" => asked' = [asked EXCEPT ![r] = asked[r] + 1]
      BY <2>1
    <3>5. x.kind # "audio" => asked' = asked
      BY <2>1
    <3>. QED BY <1>2, <2>3, <3>3, <3>4, <3>5
  <2>5. Len(chunks') <= HandoffCap
    BY <2>1, <2>2, EdgesAssumption
  <2>6. RobotTypes'
    BY <1>1, <1>2, <2>1, <2>2, <2>4, <2>5 DEF RobotTypes
  <2>7. StreamInOrder' /\ OneBlockAhead' /\ Robot!NothingOldIsSaid'
    BY <1>1 DEF StreamInOrder, OneBlockAhead, Robot!NothingOldIsSaid
  <2>8. LastResponse'
    <3>1. \A q \in 1 .. MaxResponses : q > created => q # r
      BY <1>2
    <3>. QED BY <1>1, <2>1, <2>4, <3>1 DEF LastResponse
  <2>9. AudioIsTimely'
    <3>1. Timely(x)
      BY <1>2, <2>1 DEF Timely
    <3>2. \A i \in 1 .. Len(chunks') : Timely(chunks'[i])
      BY <2>2, <3>1 DEF AudioIsTimely
    <3>3. \A y : Timely(y) => Timely(y)'
      BY <1>1 DEF Timely
    <3>. QED BY <1>1, <3>2, <3>3 DEF AudioIsTimely, Timely
  <2>10. Held' = Held /\ \A y : IsBlock(y)' <=> IsBlock(y)
    BY <1>1 DEF Held, IsBlock
  <2>11. k + n = Len(chunks) /\ asked[created] = said[created] + n + Held
         /\ \A i \in 1 .. Len(chunks) : IsBlock(chunks[i]) <=> k < i /\ i <= k + n
    BY <1>1, <1>2, <1>3 DEF BlocksAt
  <2>12. said[created] \in Nat /\ Held \in Nat /\ asked[created] \in Nat
    BY <1>2 DEF RobotTypes, Held
  <2>13. CASE x.kind = "audio"
    <3>1. \A i \in 1 .. Len(chunks') : IsBlock(chunks'[i]) <=> k < i /\ i <= k + (n + 1)
      <4>1. IsBlock(x)
        BY <1>2, <2>1, <2>13 DEF IsBlock
      <4>. QED BY <2>2, <2>11, <4>1
    <3>2. k + (n + 1) = Len(chunks') /\ asked'[created] = said[created] + (n + 1) + Held
      BY <1>2, <2>2, <2>4, <2>11, <2>12, <2>13
    <3>3. BlocksAt(k, n + 1)'
      BY <1>1, <2>10, <3>1, <3>2 DEF BlocksAt, IsBlock
    <3>4. n + 1 \in Nat
      OBVIOUS
    <3>5. PICK m \in Nat : m = n + 1
      BY <3>4
    <3>6. BlocksAt(k, m)'
      BY <3>3, <3>5 DEF BlocksAt
    <3>. QED BY <2>6, <2>7, <2>8, <2>9, <3>6 DEF BlocksCounted
  <2>14. CASE x.kind = "finish"
    <3>1. ~IsBlock(x)
      BY <2>14 DEF IsBlock
    <3>2. \A i \in 1 .. Len(chunks') : IsBlock(chunks'[i]) <=> k < i /\ i <= k + n
      BY <2>2, <2>11, <3>1
    <3>3. k + n <= Len(chunks') /\ asked'[created] = said[created] + n + Held /\ created \in complete'
      BY <1>2, <2>1, <2>2, <2>4, <2>11, <2>14
    <3>4. BlocksAt(k, n)'
      BY <1>1, <2>10, <3>2, <3>3 DEF BlocksAt, IsBlock
    <3>. QED BY <2>6, <2>7, <2>8, <2>9, <3>4 DEF BlocksCounted
  <2>. QED BY <2>1, <2>13, <2>14
<1>. QED BY <1>4, <1>5

\* The sender takes the first of the chunks.
LEMMA RobotTakeStep ==
  ASSUME RobotInv, Robot!Take
  PROVE  RobotInv'
<1> USE DEF RobotInv
<1>1. /\ sender.at = "idle" /\ chunks # <<>>
      /\ sender' = [at |-> "send", item |-> Head(chunks)] /\ chunks' = Tail(chunks)
      /\ UNCHANGED <<robotCall, session, reader, pcmGen, wire, far, created, complete, asked, said, over>>
  BY DEF Robot!Take
<1>2. /\ chunks' \in Seq(RobotItem) /\ Len(chunks) \in Nat \ {0} /\ Len(chunks') = Len(chunks) - 1
      /\ Head(chunks) = chunks[1] /\ chunks[1] \in RobotItem
      /\ \A i \in 1 .. Len(chunks) - 1 : chunks'[i] = chunks[i + 1]
  BY <1>1, Shorter DEF RobotTypes
<1>3. sender'.at = "send" /\ sender'.item = chunks[1]
      /\ sender' \in [at: {"idle", "send", "wait"}, item: RobotItem \cup {Robot!NoItem}]
  BY <1>1, <1>2
<1>4. RobotTypes'
  <2>1. Len(chunks') <= HandoffCap
    BY <1>2, EdgesAssumption DEF RobotTypes
  <2>. QED BY <1>1, <1>2, <1>3, <2>1 DEF RobotTypes
<1>5. StreamInOrder' /\ LastResponse' /\ Robot!NothingOldIsSaid'
  BY <1>1 DEF StreamInOrder, LastResponse, Robot!NothingOldIsSaid
<1>6. OneBlockAhead'
  BY <1>1, <1>3 DEF OneBlockAhead
<1>7. AudioIsTimely'
  <2>1. \A i \in 1 .. Len(chunks') : Timely(chunks'[i])
    BY <1>2 DEF AudioIsTimely
  <2>2. Timely(chunks[1])
    BY <1>2 DEF AudioIsTimely
  <2>3. \A y : Timely(y) => Timely(y)'
    BY <1>1 DEF Timely
  <2>. QED BY <1>3, <2>1, <2>2, <2>3 DEF AudioIsTimely, Timely
<1>8. BlocksCounted'
  <2> SUFFICES ASSUME created # 0, over[created] = 0
               PROVE  \E k, n \in Nat : BlocksAt(k, n)'
    BY <1>1 DEF BlocksCounted
  <2>1. PICK k \in Nat, n \in Nat : BlocksAt(k, n)
    BY DEF BlocksCounted
  <2>2. /\ k + n <= Len(chunks)
        /\ \A i \in 1 .. Len(chunks) : IsBlock(chunks[i]) <=> k < i /\ i <= k + n
        /\ created \notin complete => k + n = Len(chunks)
        /\ asked[created] = said[created] + n
    <3>1. Held = 0
      BY <1>1 DEF Held
    <3>2. said[created] + n \in Nat
      BY DEF RobotTypes
    <3>. QED BY <2>1, <3>1, <3>2 DEF BlocksAt
  <2>3. said[created] \in Nat
    BY DEF RobotTypes
  <2>4. CASE k > 0
    <3>1. ~IsBlock(chunks[1])
      BY <1>2, <2>2, <2>4
    <3>2. Held' = 0
      BY <1>1, <1>3, <3>1 DEF Held, IsBlock
    <3>3. PICK m \in Nat : m = k - 1
      BY <2>4
    <3>4. \A i \in 1 .. Len(chunks') : IsBlock(chunks'[i]) <=> m < i /\ i <= m + n
      <4> SUFFICES ASSUME NEW i \in 1 .. Len(chunks') PROVE IsBlock(chunks'[i]) <=> m < i /\ i <= m + n
        OBVIOUS
      <4>1. i + 1 \in 1 .. Len(chunks) /\ chunks'[i] = chunks[i + 1]
        BY <1>2
      <4>2. IsBlock(chunks[i + 1]) <=> k < i + 1 /\ i + 1 <= k + n
        BY <2>2, <4>1
      <4>3. (k < i + 1 /\ i + 1 <= k + n) <=> (m < i /\ i <= m + n)
        BY <1>2, <3>3
      <4>. QED BY <4>1, <4>2, <4>3
    <3>5. m + n <= Len(chunks') /\ (created \notin complete => m + n = Len(chunks'))
          /\ asked[created] = said[created] + n + 0
      BY <1>2, <2>2, <2>3, <3>3
    <3>6. BlocksAt(m, n)'
      BY <1>1, <3>2, <3>4, <3>5 DEF BlocksAt, IsBlock
    <3>. QED BY <3>6
  <2>5. CASE k = 0 /\ n > 0
    <3>1. IsBlock(chunks[1])
      BY <1>2, <2>2, <2>5
    <3>2. Held' = 1
      BY <1>1, <1>3, <3>1 DEF Held, IsBlock
    <3>3. PICK m \in Nat : m = n - 1
      BY <2>5
    <3>4. \A i \in 1 .. Len(chunks') : IsBlock(chunks'[i]) <=> 0 < i /\ i <= 0 + m
      <4> SUFFICES ASSUME NEW i \in 1 .. Len(chunks') PROVE IsBlock(chunks'[i]) <=> 0 < i /\ i <= 0 + m
        OBVIOUS
      <4>1. i + 1 \in 1 .. Len(chunks) /\ chunks'[i] = chunks[i + 1]
        BY <1>2
      <4>2. IsBlock(chunks[i + 1]) <=> k < i + 1 /\ i + 1 <= k + n
        BY <2>2, <4>1
      <4>3. (k < i + 1 /\ i + 1 <= k + n) <=> (0 < i /\ i <= 0 + m)
        BY <1>2, <2>5, <3>3
      <4>. QED BY <4>1, <4>2, <4>3
    <3>5. 0 + m <= Len(chunks') /\ (created \notin complete => 0 + m = Len(chunks'))
          /\ asked[created] = said[created] + m + 1
      BY <1>2, <2>2, <2>3, <2>5, <3>3
    <3>6. BlocksAt(0, m)'
      BY <1>1, <3>2, <3>4, <3>5 DEF BlocksAt, IsBlock
    <3>. QED BY <3>6
  <2>6. CASE k = 0 /\ n = 0
    <3>1. ~IsBlock(chunks[1])
      BY <1>2, <2>2, <2>6
    <3>2. Held' = 0
      BY <1>1, <1>3, <3>1 DEF Held, IsBlock
    <3>3. \A i \in 1 .. Len(chunks') : ~IsBlock(chunks'[i])
      BY <1>2, <2>2, <2>6
    <3>4. BlocksAt(0, 0)'
      BY <1>1, <1>2, <2>2, <2>3, <2>6, <3>2, <3>3 DEF BlocksAt, IsBlock
    <3>. QED BY <3>4
  <2>. QED BY <2>4, <2>5, <2>6
<1>. QED BY <1>4, <1>5, <1>6, <1>7, <1>8

\* The sender drops an item that was cut, or puts it on the wire.
LEMMA RobotWriteStep ==
  ASSUME RobotInv, Robot!Write
  PROVE  RobotInv'
<1> USE DEF RobotInv
<1> DEFINE x == sender.item
<1>1. /\ sender.at = "send" /\ x \in RobotItem
      /\ UNCHANGED <<robotCall, session, reader, chunks, pcmGen, far, created, complete, asked, said, over>>
  BY DEF Robot!Write, RobotTypes
<1>2. sender \in [at: {"idle", "send", "wait"}, item: RobotItem \cup {Robot!NoItem}]
      /\ x.kind \in {"audio", "finish"} /\ Timely(x)
  BY <1>1, RobotItems DEF RobotTypes, AudioIsTimely
<1>3. \A i \in 1 .. Len(wire) : wire[i].kind # "audio"
  BY <1>1 DEF OneBlockAhead
<1>4. LastResponse' /\ Robot!NothingOldIsSaid'
  BY <1>1 DEF LastResponse, Robot!NothingOldIsSaid
<1>5. \A y : Timely(y) => Timely(y)'
  BY <1>1 DEF Timely
<1>6. Robot!Idle \in [at: {"idle", "send", "wait"}, item: RobotItem \cup {Robot!NoItem}]
      /\ Robot!Idle.at = "idle"
  BY DEF Robot!Idle
<1>7. CASE x.gen # pcmGen
  <2>1. sender' = Robot!Idle /\ wire' = wire
    BY <1>1, <1>7 DEF Robot!Write
  <2>2. RobotTypes'
    BY <1>1, <1>6, <2>1 DEF RobotTypes
  <2>3. StreamInOrder' /\ AudioIsTimely' /\ OneBlockAhead'
    BY <1>1, <1>3, <1>6, <2>1 DEF StreamInOrder, AudioIsTimely, Timely, OneBlockAhead
  <2>4. BlocksCounted'
    <3>1. created # 0 /\ over[created] = 0 => ~IsBlock(x)
      BY <1>2, <1>7 DEF IsBlock, Timely
    <3>2. created # 0 /\ over[created] = 0 => Held = 0 /\ Held' = 0
      BY <1>6, <2>1, <3>1 DEF Held
    <3>. QED BY <1>1, <3>2 DEF BlocksCounted, BlocksAt, IsBlock
  <2>. QED BY <1>4, <2>2, <2>3, <2>4
<1>8. CASE x.gen = pcmGen
  <2>1. /\ wire' = Append(wire, x)
        /\ sender' = IF x.kind = "audio" THEN [sender EXCEPT !.at = "wait"] ELSE Robot!Idle
    BY <1>1, <1>8 DEF Robot!Write
  <2>2. x \in RobotMessage /\ x.gen >= pcmGen
    BY <1>1, <1>8 DEF RobotMessage, RobotTypes
  <2>3. pcmGen = reader.gen
    BY DEF StreamInOrder
  <2>4. wire' \in Seq(RobotMessage) /\ StreamInOrder'
    BY <1>1, <1>8, <2>1, <2>2, <2>3, WireLonger
  <2>5. /\ Len(wire) \in Nat /\ Len(wire') = Len(wire) + 1
        /\ \A i \in 1 .. Len(wire) : wire'[i] = wire[i]
        /\ wire'[Len(wire) + 1] = x
    BY <2>1, <2>2, Queued DEF RobotTypes
  <2>6. CASE x.kind = "audio"
    <3>1. sender'.at = "wait" /\ sender'.item = x
          /\ sender' \in [at: {"idle", "send", "wait"}, item: RobotItem \cup {Robot!NoItem}]
      BY <1>2, <2>1, <2>6
    <3>2. RobotTypes'
      BY <1>1, <2>4, <2>6, <3>1 DEF RobotTypes
    <3>3. AudioIsTimely'
      BY <1>1, <1>2, <1>5, <3>1 DEF AudioIsTimely, Timely
    <3>4. OneBlockAhead'
      <4>1. \A i \in 1 .. Len(wire') : wire'[i].kind = "audio" => i = Len(wire) + 1
        BY <1>3, <2>5
      <4>. QED BY <2>5, <3>1, <4>1 DEF OneBlockAhead
    <3>5. BlocksCounted'
      <4>1. Held' = Held
        BY <1>1, <3>1 DEF Held, IsBlock
      <4>. QED BY <1>1, <4>1 DEF BlocksCounted, BlocksAt, IsBlock
    <3>. QED BY <1>4, <2>4, <3>2, <3>3, <3>4, <3>5
  <2>7. CASE x.kind = "finish"
    <3>1. sender' = Robot!Idle
      BY <2>1, <2>7
    <3>2. RobotTypes'
      BY <1>1, <1>6, <2>4, <3>1 DEF RobotTypes
    <3>3. AudioIsTimely'
      BY <1>1, <1>5, <1>6, <3>1 DEF AudioIsTimely, Timely
    <3>4. OneBlockAhead'
      <4>1. \A i \in 1 .. Len(wire') : wire'[i].kind # "audio"
        BY <1>3, <2>5, <2>7
      <4>. QED BY <4>1 DEF OneBlockAhead
    <3>5. BlocksCounted'
      <4>1. Held' = 0 /\ Held = 0
        BY <1>6, <2>7, <3>1 DEF Held, IsBlock
      <4>. QED BY <1>1, <4>1 DEF BlocksCounted, BlocksAt, IsBlock
    <3>. QED BY <1>4, <2>4, <3>2, <3>3, <3>4, <3>5
  <2>. QED BY <1>2, <2>6, <2>7
<1>. QED BY <1>7, <1>8

\* The switch reads a message: it empties its queue for a newer generation, and
\* takes the block of the one it has unless its queue is full.
LEMMA RobotReceiveStep ==
  ASSUME RobotInv, Robot!Receive
  PROVE  RobotInv'
<1> USE DEF RobotInv
<1> DEFINE m == wire[1]
<1>1. /\ wire # <<>> /\ wire' = Tail(wire)
      /\ UNCHANGED <<robotCall, session, reader, chunks, pcmGen, created, complete, asked, over>>
  BY DEF Robot!Receive
<1>2. /\ wire' \in Seq(RobotMessage) /\ Len(wire) \in Nat \ {0} /\ Len(wire') = Len(wire) - 1
      /\ Head(wire) = m /\ m \in RobotMessage
      /\ \A i \in 1 .. Len(wire) - 1 : wire'[i] = wire[i + 1]
  BY <1>1, Shorter DEF RobotTypes
<1>3. m.kind \in {"audio", "finish", "clear"} /\ m.gen \in Nat /\ (m.kind # "clear" => m.gen = far.gen)
  <2>1. 1 \in 1 .. Len(wire)
    BY <1>2
  <2>. QED BY <1>2, <2>1, RobotItems DEF StreamInOrder, GenAfter
<1>4. far \in [gen: Nat, queue: Seq(1 .. MaxResponses)] /\ Len(far.queue) <= QueueCap
      /\ said \in [1 .. MaxResponses -> Nat]
      /\ sender \in [at: {"idle", "send", "wait"}, item: RobotItem \cup {Robot!NoItem}]
  BY DEF RobotTypes
<1>5. \A y : Timely(y) => Timely(y)'
  BY <1>1 DEF Timely
<1>6. \A i \in 1 .. Len(wire') : wire'[i] = wire[i + 1] /\ i + 1 \in 1 .. Len(wire) /\ i + 1 # 1
  BY <1>2
<1>7. far'.gen = m.gen => StreamInOrder'
  BY <1>1, <1>2, WireShorter
<1>8. CASE m.kind = "clear"
  <2>1. far' = [gen |-> m.gen, queue |-> <<>>] /\ UNCHANGED <<sender, said>>
    BY <1>2, <1>8 DEF Robot!Receive
  <2>2. far'.gen = m.gen /\ far'.queue = <<>> /\ far' \in [gen: Nat, queue: Seq(1 .. MaxResponses)]
    BY <1>3, <2>1
  <2>3. RobotTypes'
    <3>1. Len(far'.queue) = 0
      BY <2>2
    <3>2. Len(far'.queue) <= QueueCap
      BY <3>1, EdgesAssumption
    <3> HIDE DEF m
    <3>3. wire' \in Seq(RobotMessage) /\ UNCHANGED sender
          /\ far' \in [gen: Nat, queue: Seq(1 .. MaxResponses)]
      BY <1>2, <2>1, <2>2
    <3>4. /\ sender'.at # "idle" => sender'.item \in RobotItem
          /\ sender'.at = "wait" => sender'.item.kind = "audio"
          /\ sender' \in [at: {"idle", "send", "wait"}, item: RobotItem \cup {Robot!NoItem}]
      BY <1>4, <3>3 DEF RobotTypes
    <3>5. /\ reader' \in [gen: Nat, current: 0 .. MaxResponses, blocked: SUBSET Nat, interrupted: BOOLEAN]
          /\ chunks' \in Seq(RobotItem) /\ Len(chunks') <= HandoffCap
      BY <1>1 DEF RobotTypes
    <3> HIDE DEF RobotItem, RobotMessage
    <3>. QED BY <1>1, <2>1, <3>2, <3>3, <3>4, <3>5 DEF RobotTypes
  <2>4. LastResponse' /\ AudioIsTimely' /\ Robot!NothingOldIsSaid'
    BY <1>1, <1>5, <2>1, <2>2 DEF LastResponse, AudioIsTimely, Timely, Robot!NothingOldIsSaid
  <2>5. OneBlockAhead'
    <3>1. \A i \in 1 .. Len(wire') : wire'[i].kind = "audio" => sender.at = "wait" /\ wire'[i] = sender.item
      BY <1>6 DEF OneBlockAhead
    <3>2. ASSUME NEW i \in 1 .. Len(wire'), NEW j \in 1 .. Len(wire'),
                 wire'[i].kind = "audio", wire'[j].kind = "audio"
          PROVE  i = j
      <4>1. i + 1 = j + 1
        BY <1>6, <3>2 DEF OneBlockAhead
      <4>. QED BY <4>1
    <3>3. sender' = sender
      BY <2>1
    <3>. QED BY <3>1, <3>2, <3>3 DEF OneBlockAhead
  <2>6. BlocksCounted'
    BY <1>1, <2>1 DEF BlocksCounted, BlocksAt, IsBlock, Held
  <2>. QED BY <1>7, <2>2, <2>3, <2>4, <2>5, <2>6
<1>9. CASE m.kind = "finish"
  <2>1. UNCHANGED <<far, sender, said>>
    BY <1>2, <1>9 DEF Robot!Receive
  <2>2. RobotTypes'
    BY <1>1, <1>2, <2>1 DEF RobotTypes
  <2>3. LastResponse' /\ AudioIsTimely' /\ Robot!NothingOldIsSaid' /\ StreamInOrder'
    BY <1>1, <1>3, <1>5, <1>7, <1>9, <2>1 DEF LastResponse, AudioIsTimely, Timely, Robot!NothingOldIsSaid
  <2>4. OneBlockAhead'
    <3>1. /\ \A i \in 1 .. Len(wire) : wire[i].kind = "audio" => sender.at = "wait" /\ wire[i] = sender.item
          /\ \A i, j \in 1 .. Len(wire) : wire[i].kind = "audio" /\ wire[j].kind = "audio" => i = j
      BY DEF OneBlockAhead
    <3> HIDE DEF m, RobotInv
    <3>2. \A i \in 1 .. Len(wire') : wire'[i].kind = "audio" => sender'.at = "wait" /\ wire'[i] = sender'.item
      BY <1>6, <2>1, <3>1
    <3>3. \A i, j \in 1 .. Len(wire') : wire'[i].kind = "audio" /\ wire'[j].kind = "audio" => i = j
      <4> SUFFICES ASSUME NEW i \in 1 .. Len(wire'), NEW j \in 1 .. Len(wire'),
                          wire'[i].kind = "audio", wire'[j].kind = "audio"
                   PROVE  i = j
        OBVIOUS
      <4>1. i + 1 = j + 1
        BY <1>6, <3>1
      <4>. QED BY <4>1
    <3>. QED BY <3>2, <3>3 DEF OneBlockAhead
  <2>5. BlocksCounted'
    BY <1>1, <2>1 DEF BlocksCounted, BlocksAt, IsBlock, Held
  <2>. QED BY <2>2, <2>3, <2>4, <2>5
<1>10. CASE m.kind = "audio"
  <2>1. sender.at = "wait" /\ m = sender.item /\ m \in RobotItem /\ Timely(m)
    BY <1>2, <1>10 DEF OneBlockAhead, AudioIsTimely, RobotTypes
  <2>2. \A i \in 1 .. Len(wire') : wire'[i].kind # "audio"
    <3>1. 1 \in 1 .. Len(wire)
      BY <1>2
    <3>. QED BY <1>6, <1>10, <3>1 DEF OneBlockAhead
  <2>3. OneBlockAhead'
    BY <2>2 DEF OneBlockAhead
  <2>4. m.of \in 1 .. MaxResponses
    BY <2>1, RobotItems
  <2>5. CASE Len(far.queue) >= QueueCap
    <3>1. sender' = [sender EXCEPT !.at = "send"] /\ UNCHANGED <<far, said>>
      BY <1>2, <1>3, <1>10, <2>5 DEF Robot!Receive, Robot!Answered
    <3>2. sender'.at = "send" /\ sender'.item = m
          /\ sender' \in [at: {"idle", "send", "wait"}, item: RobotItem \cup {Robot!NoItem}]
      BY <1>4, <2>1, <3>1
    <3>3. RobotTypes'
      <4>1. sender'.item \in RobotItem
        BY <2>1, <3>2
      <4> HIDE DEF m
      <4>. QED BY <1>1, <1>2, <3>1, <3>2, <4>1 DEF RobotTypes
    <3>4. LastResponse' /\ Robot!NothingOldIsSaid' /\ StreamInOrder'
      BY <1>1, <1>3, <1>7, <1>10, <3>1 DEF LastResponse, Robot!NothingOldIsSaid
    <3>5. AudioIsTimely'
      BY <1>1, <1>5, <2>1, <3>2 DEF AudioIsTimely, Timely
    <3>6. BlocksCounted'
      <4>1. Held' = Held
        BY <1>1, <2>1, <3>2 DEF Held, IsBlock
      <4>. QED BY <1>1, <3>1, <4>1 DEF BlocksCounted, BlocksAt, IsBlock
    <3>. QED BY <2>3, <3>3, <3>4, <3>5, <3>6
  <2>6. CASE ~(Len(far.queue) >= QueueCap)
    <3> DEFINE r == m.of
    <3>1. /\ sender' = Robot!Idle /\ far' = [far EXCEPT !.queue = Append(@, r)]
          /\ said' = [said EXCEPT ![r] = @ + 1]
      BY <1>2, <1>3, <1>10, <2>6 DEF Robot!Receive, Robot!Answered
    <3>2. /\ sender'.at = "idle"
          /\ sender' \in [at: {"idle", "send", "wait"}, item: RobotItem \cup {Robot!NoItem}]
      BY <3>1 DEF Robot!Idle
    <3>3. far.queue \in Seq(1 .. MaxResponses) /\ far.gen \in Nat
      BY <1>4
    <3>4. /\ Append(far.queue, r) \in Seq(1 .. MaxResponses) /\ Len(far.queue) \in Nat
          /\ Len(Append(far.queue, r)) = Len(far.queue) + 1
          /\ \A i \in 1 .. Len(far.queue) : Append(far.queue, r)[i] = far.queue[i]
          /\ Append(far.queue, r)[Len(far.queue) + 1] = r
      BY <2>4, <3>3, Queued
    <3>5. /\ far'.gen = far.gen /\ far'.queue = Append(far.queue, r)
          /\ far' \in [gen: Nat, queue: Seq(1 .. MaxResponses)]
      BY <1>4, <3>1, <3>4
    <3>6. Len(far'.queue) <= QueueCap
      BY <2>6, <3>4, <3>5, EdgesAssumption
    <3>7. /\ said' \in [1 .. MaxResponses -> Nat] /\ said'[r] = said[r] + 1 /\ said[r] \in Nat
          /\ \A q \in 1 .. MaxResponses : q # r => said'[q] = said[q]
      BY <1>4, <2>4, <3>1
    <3>8. RobotTypes'
      BY <1>1, <1>2, <3>2, <3>5, <3>6, <3>7 DEF RobotTypes
    <3>9. r <= created
      BY <1>10, <2>1 DEF Timely
    <3>10. created \in 0 .. MaxResponses
      BY DEF RobotTypes
    <3>11. LastResponse'
      <4>1. \A q \in 1 .. MaxResponses : q > created => q # r
        BY <2>4, <3>9, <3>10
      <4>. QED BY <1>1, <3>7, <4>1 DEF LastResponse
    <3>12. StreamInOrder'
      BY <1>3, <1>7, <1>10, <3>5
    <3>13. AudioIsTimely'
      BY <1>1, <1>5, <3>2 DEF AudioIsTimely, Timely
    <3>14. Robot!NothingOldIsSaid'
      <4>1. over[r] = 0 \/ far.gen < over[r]
        BY <1>3, <1>10, <2>1 DEF Timely
      <4> SUFFICES ASSUME NEW i \in DOMAIN far'.queue
                   PROVE  over[far'.queue[i]] = 0 \/ far.gen < over[far'.queue[i]]
        BY <1>1, <3>5 DEF Robot!NothingOldIsSaid
      <4>2. DOMAIN far'.queue = 1 .. Len(far.queue) + 1 /\ DOMAIN far.queue = 1 .. Len(far.queue)
        BY <3>3, <3>4, <3>5, Places
      <4>3. far'.queue[i] = r \/ (i \in DOMAIN far.queue /\ far'.queue[i] = far.queue[i])
        BY <3>4, <3>5, <4>2
      <4>4. i \in DOMAIN far.queue => over[far.queue[i]] = 0 \/ far.gen < over[far.queue[i]]
        BY DEF Robot!NothingOldIsSaid
      <4>. QED BY <4>1, <4>3, <4>4
    <3>15. BlocksCounted'
      <4> SUFFICES ASSUME created # 0, over[created] = 0
                   PROVE  \E k, n \in Nat : BlocksAt(k, n)'
        BY <1>1 DEF BlocksCounted
      <4>1. PICK k \in Nat, n \in Nat : BlocksAt(k, n)
        BY DEF BlocksCounted
      <4>2. Held' = 0
        BY <3>2 DEF Held
      <4>3. Held = IF r = created THEN 1 ELSE 0
        BY <1>10, <2>1 DEF Held, IsBlock
      <4>4. created \in 1 .. MaxResponses /\ said[created] \in Nat
        BY <1>4, <3>10
      <4>5. said'[created] + n + 0 = said[created] + n + Held
        BY <3>7, <4>3, <4>4
      <4>6. BlocksAt(k, n)'
        BY <1>1, <4>1, <4>2, <4>5 DEF BlocksAt, IsBlock
      <4>. QED BY <4>6
    <3>. QED BY <2>3, <3>8, <3>11, <3>12, <3>13, <3>14, <3>15
  <2>. QED BY <2>5, <2>6
<1>. QED BY <1>3, <1>8, <1>9, <1>10

\* A block is played.
LEMMA RobotPlayStep ==
  ASSUME RobotInv, Robot!Play
  PROVE  RobotInv'
<1> USE DEF RobotInv
<1>1. /\ far.queue # <<>> /\ far' = [far EXCEPT !.queue = Tail(@)]
      /\ UNCHANGED <<robotCall, session, reader, chunks, sender, pcmGen, wire, created, complete,
                     asked, said, over>>
  BY DEF Robot!Play
<1>2. far \in [gen: Nat, queue: Seq(1 .. MaxResponses)] /\ far.queue \in Seq(1 .. MaxResponses)
      /\ Len(far.queue) <= QueueCap
  BY DEF RobotTypes
<1>3. /\ Tail(far.queue) \in Seq(1 .. MaxResponses) /\ Len(far.queue) \in Nat \ {0}
      /\ Len(Tail(far.queue)) = Len(far.queue) - 1
      /\ \A i \in 1 .. Len(far.queue) - 1 : Tail(far.queue)[i] = far.queue[i + 1]
  BY <1>1, <1>2, Shorter
<1>4. /\ far'.gen = far.gen /\ far'.queue = Tail(far.queue)
      /\ far' \in [gen: Nat, queue: Seq(1 .. MaxResponses)]
  BY <1>1, <1>2, <1>3
<1>5. Len(far'.queue) <= QueueCap
  BY <1>2, <1>3, <1>4, EdgesAssumption
<1>6. RobotTypes'
  BY <1>1, <1>4, <1>5 DEF RobotTypes
<1>7. LastResponse' /\ AudioIsTimely' /\ OneBlockAhead' /\ BlocksCounted'
  BY <1>1 DEF LastResponse, AudioIsTimely, Timely, OneBlockAhead, BlocksCounted, BlocksAt, IsBlock, Held
<1>8. StreamInOrder'
  BY <1>1, <1>4 DEF StreamInOrder, GenAfter
<1>9. Robot!NothingOldIsSaid'
  <2>1. \A i \in DOMAIN far'.queue : i + 1 \in DOMAIN far.queue /\ far'.queue[i] = far.queue[i + 1]
    <3>1. DOMAIN far'.queue = 1 .. Len(far.queue) - 1 /\ DOMAIN far.queue = 1 .. Len(far.queue)
      BY <1>2, <1>3, <1>4, Places
    <3>. QED BY <1>3, <1>4, <3>1
  <2>. QED BY <1>1, <1>4, <2>1 DEF Robot!NothingOldIsSaid
<1>. QED BY <1>6, <1>7, <1>8, <1>9

LEMMA RobotHolds == Robot!Spec => []RobotInv
<1>1. Robot!Init => RobotFresh
  BY DEF Robot!Init, RobotFresh
<1>2. RobotInv /\ [Robot!Next]_Robot!botVars => RobotInv' \/ RobotFresh'
  <2> SUFFICES ASSUME RobotInv, [Robot!Next]_Robot!botVars PROVE RobotInv' \/ RobotFresh'
    OBVIOUS
  <2>1. CASE UNCHANGED Robot!botVars
    BY <2>1, RobotAroundStep DEF Robot!botVars, Robot!audioVars, RobotInv, RobotTypes
  <2>2. CASE Robot!Look
    BY <2>2 DEF Robot!Look, RobotFresh, RobotInv, RobotTypes
  <2>3. CASE \/ Robot!Ring \/ Robot!Open \/ Robot!SessionOver \/ Robot!ModelLost \/ Robot!Leave
             \/ Robot!CallEnds \/ Robot!OfferEnds \/ Robot!PassedOn \/ Robot!Cancel
    BY <2>3, RobotAroundStep
       DEF Robot!Ring, Robot!Open, Robot!SessionOver, Robot!ModelLost, Robot!Leave, Robot!HangsUp,
           Robot!CallEnds, Robot!OfferEnds, Robot!PassedOn, Robot!Cancel, RobotInv, RobotTypes
  <2>. QED
    BY <2>1, <2>2, <2>3, RobotCutStep, RobotReaderStep, RobotTakeStep, RobotWriteStep,
       RobotReceiveStep, RobotPlayStep DEF Robot!Next
<1>. QED BY <1>1, <1>2, RobotFreshInv, PTL DEF Robot!Spec

\* For any capacities and responses: of a response that nobody has cut, every
\* block that the reader took is in the switch once the sender rests.
THEOREM BlocksAreDelivered == Robot!Spec => []Robot!NothingSwallowed
<1>1. RobotInv => Robot!NothingSwallowed
  <2> SUFFICES ASSUME RobotInv, NEW r \in 1 .. MaxResponses, over[r] = 0, chunks = <<>>,
                      sender.at = "idle"
               PROVE  said[r] = asked[r]
    BY DEF Robot!NothingSwallowed, Robot!Responses
  <2> USE DEF RobotInv
  <2>1. created \in Nat /\ (r > created \/ r < created \/ r = created)
    BY DEF RobotTypes
  <2>2. CASE r > created
    BY <2>2 DEF LastResponse
  <2>3. CASE r < created
    BY <2>3 DEF LastResponse
  <2>4. CASE r = created
    <3>1. PICK k \in Nat, n \in Nat : BlocksAt(k, n)
      BY <2>4 DEF BlocksCounted
    <3>2. k + n <= 0 /\ asked[r] = said[r] + n + 0 /\ said[r] \in Nat
      BY <2>4, <3>1 DEF BlocksAt, Held, RobotTypes
    <3>. QED BY <3>2
  <2>. QED BY <2>1, <2>2, <2>3, <2>4
<1>. QED BY <1>1, RobotHolds, PTL

\* For any interruptions: once the switch knows of one, nothing of what was
\* cut is left to be played.
THEOREM TheCutIsSilent == Robot!Spec => []Robot!NothingOldIsSaid
<1>1. RobotInv => Robot!NothingOldIsSaid
  BY DEF RobotInv
<1>. QED BY <1>1, RobotHolds, PTL

---------------------------------------------------------------------------

(***************************************************************************)
(* Webhooks for any events and workers.  ConfirmedIsDone speaks of what a  *)
(* step does to a row that was confirmed; that no worker with an older     *)
(* claim writes it is in the invariant: whoever has a delivery has it      *)
(* marked as being processed, and has it alone, unless it was taken over   *)
(* (ClaimedIsProcessing, ClaimedOnce).                                     *)
(***************************************************************************)

HookRow == [status: {"none", "pending", "processing", "success", "dead_letter"}, attempts: 0 .. MaxRetries]
HookJob == [at: {"post", "succeeded", "failed"}, event: Events, attempts: 0 .. MaxRetries]

HookTypes ==
  /\ row \in [Events -> HookRow] /\ worker \in [Workers -> {Hooks!Rest} \cup HookJob]
  /\ again \in Nat /\ overtaken \subseteq Events

\* Who has a delivery and who waits has an attempt left.
AttemptsAreLeft ==
  /\ \A e \in Events : row[e].status \in {"none", "pending", "processing"} => row[e].attempts < MaxRetries
  /\ \A w \in Workers : worker[w].at # "rest" => worker[w].attempts < MaxRetries

ClaimedIsProcessing ==
  \A w \in Workers : worker[w].at # "rest" =>
    row[worker[w].event].status = "processing" \/ worker[w].event \in overtaken

ClaimedOnce ==
  \A v, w \in Workers : v # w /\ worker[v].at # "rest" /\ worker[w].at # "rest"
                          /\ worker[v].event = worker[w].event => worker[w].event \in overtaken

HookInv == HookTypes /\ AttemptsAreLeft /\ ClaimedIsProcessing /\ ClaimedOnce

LEMMA HookInitInv == Hooks!Init => HookInv
<1> SUFFICES ASSUME Hooks!Init PROVE HookInv
  OBVIOUS
<1>1. \A w \in Workers : worker[w] = Hooks!Rest /\ worker[w].at = "rest"
  BY DEF Hooks!Init, Hooks!Rest
<1>2. 0 \in 0 .. MaxRetries /\ 0 < MaxRetries
  BY EdgesAssumption
<1>3. \A e \in Events : row[e] \in HookRow /\ row[e].attempts = 0
  BY <1>2 DEF Hooks!Init, HookRow
<1>4. row \in [Events -> HookRow] /\ worker \in [Workers -> {Hooks!Rest} \cup HookJob]
  BY <1>3 DEF Hooks!Init
<1>5. AttemptsAreLeft
  BY <1>1, <1>2, <1>3 DEF AttemptsAreLeft
<1>. QED BY <1>1, <1>4, <1>5 DEF Hooks!Init, HookInv, HookTypes, ClaimedIsProcessing, ClaimedOnce

\* What a worker and a row have.
LEMMA HookFields ==
  ASSUME HookTypes
  PROVE  /\ \A w \in Workers : worker[w].at # "rest" => worker[w] \in HookJob
         /\ \A j \in HookJob : /\ j.at \in {"post", "succeeded", "failed"} /\ j.event \in Events
                               /\ j.attempts \in 0 .. MaxRetries
         /\ \A e \in Events : row[e] \in HookRow
         /\ \A r \in HookRow : /\ r.attempts \in 0 .. MaxRetries
                               /\ r.status \in {"none", "pending", "processing", "success", "dead_letter"}
         /\ Hooks!Rest.at = "rest"
<1>1. Hooks!Rest.at = "rest"
  BY DEF Hooks!Rest
<1>2. \A w \in Workers : worker[w] \in {Hooks!Rest} \cup HookJob
  BY DEF HookTypes
<1>3. \A w \in Workers : worker[w].at # "rest" => worker[w] \in HookJob
  BY <1>1, <1>2
<1>. QED BY <1>1, <1>3 DEF HookTypes, HookJob, HookRow

\* A worker that is done with its delivery, whatever is written of it.
LEMMA HookRests ==
  ASSUME HookInv, NEW w \in Workers, worker[w].at # "rest",
         worker' = [worker EXCEPT ![w] = Hooks!Rest],
         NEW r \in HookRow, row' = row \/ row' = [row EXCEPT ![worker[w].event] = r],
         r.status \in {"none", "pending", "processing"} => r.attempts < MaxRetries,
         UNCHANGED <<again, overtaken>>
  PROVE  HookInv'
<1> USE DEF HookInv
<1> DEFINE e == worker[w].event
<1>1. e \in Events
  BY HookFields
<1>2. /\ worker' \in [Workers -> {Hooks!Rest} \cup HookJob] /\ worker'[w].at = "rest"
      /\ \A v \in Workers : v # w => worker'[v] = worker[v]
  BY HookFields DEF HookTypes
<1>3. /\ row' \in [Events -> HookRow] /\ row'[e] \in {row[e], r}
      /\ \A d \in Events : d # e => row'[d] = row[d]
  BY <1>1 DEF HookTypes
<1>4. HookTypes'
  BY <1>2, <1>3 DEF HookTypes
<1>5. AttemptsAreLeft'
  <2>1. \A d \in Events : row'[d].status \in {"none", "pending", "processing"} => row'[d].attempts < MaxRetries
    BY <1>1, <1>3 DEF AttemptsAreLeft
  <2>2. \A v \in Workers : worker'[v].at # "rest" => worker'[v].attempts < MaxRetries
    BY <1>2 DEF AttemptsAreLeft
  <2>. QED BY <2>1, <2>2 DEF AttemptsAreLeft
<1>6. ClaimedIsProcessing'
  <2> SUFFICES ASSUME NEW v \in Workers, worker'[v].at # "rest"
               PROVE  row'[worker'[v].event].status = "processing" \/ worker'[v].event \in overtaken
    BY DEF ClaimedIsProcessing
  <2>1. v # w /\ worker'[v] = worker[v] /\ worker[v].event \in Events
    BY <1>2, HookFields
  <2>2. CASE worker[v].event = e
    BY <1>2, <2>1, <2>2 DEF ClaimedOnce
  <2>3. CASE worker[v].event # e
    BY <1>3, <2>1, <2>3 DEF ClaimedIsProcessing
  <2>. QED BY <2>2, <2>3
<1>7. ClaimedOnce'
  BY <1>2 DEF ClaimedOnce
<1>. QED BY <1>4, <1>5, <1>6, <1>7

\* A row is changed by nobody who has it.
LEMMA HookRowKeeps ==
  ASSUME HookInv, NEW e \in Events, NEW r \in HookRow, row' = [row EXCEPT ![e] = r],
         r.status \in {"none", "pending", "processing"} => r.attempts < MaxRetries,
         overtaken' \subseteq Events, overtaken \subseteq overtaken', again' \in Nat,
         \/ r.status = row[e].status \/ e \in overtaken'
         \/ \A w \in Workers : worker[w].at # "rest" => worker[w].event # e,
         UNCHANGED worker
  PROVE  HookInv'
<1> USE DEF HookInv
<1>1. /\ row' \in [Events -> HookRow] /\ row'[e] = r /\ \A d \in Events : d # e => row'[d] = row[d]
  BY DEF HookTypes
<1>2. HookTypes'
  BY <1>1 DEF HookTypes
<1>3. AttemptsAreLeft'
  BY <1>1 DEF AttemptsAreLeft
<1>4. ClaimedIsProcessing'
  <2> SUFFICES ASSUME NEW w \in Workers, worker[w].at # "rest"
               PROVE  row'[worker[w].event].status = "processing" \/ worker[w].event \in overtaken'
    BY DEF ClaimedIsProcessing
  <2>1. worker[w].event \in Events
    BY HookFields
  <2>. QED BY <1>1, <2>1 DEF ClaimedIsProcessing
<1>5. ClaimedOnce'
  BY DEF ClaimedOnce
<1>. QED BY <1>2, <1>3, <1>4, <1>5

\* What the switch of rows does: an event comes in, a lease runs out, an
\* operator asks again.
LEMMA HookEventStep ==
  ASSUME HookInv, NEW e \in Events, Hooks!Dispatch(e) \/ Hooks!LeaseExpires(e) \/ Hooks!Retry(e)
  PROVE  HookInv'
<1> USE DEF HookInv
<1>1. row[e] \in HookRow /\ row \in [Events -> HookRow] /\ overtaken \subseteq Events /\ again \in Nat
  BY DEF HookTypes
<1>2. 0 \in 0 .. MaxRetries /\ 0 < MaxRetries
  BY EdgesAssumption
<1>3. CASE Hooks!Dispatch(e)
  <2> DEFINE r == Hooks!Made(row[e])
  <2>1. r \in HookRow /\ (r.status \in {"none", "pending", "processing"} => r.attempts < MaxRetries)
    BY <1>1, <1>2 DEF Hooks!Made, HookRow, AttemptsAreLeft
  <2>2. row[e].status = "none" => \A w \in Workers : worker[w].at # "rest" /\ worker[w].event = e
                                    => e \in overtaken
    BY DEF ClaimedIsProcessing
  <2>3. r.status = row[e].status \/ e \in overtaken
        \/ \A w \in Workers : worker[w].at # "rest" => worker[w].event # e
    BY <2>2 DEF Hooks!Made
  <2>4. row' = [row EXCEPT ![e] = r] /\ UNCHANGED <<worker, again, overtaken>>
    BY <1>3 DEF Hooks!Dispatch
  <2> HIDE DEF r
  <2>. QED BY <1>1, <2>1, <2>3, <2>4, HookRowKeeps
<1>4. CASE Hooks!LeaseExpires(e)
  <2> DEFINE r == [status |-> "pending", attempts |-> row[e].attempts]
  <2>1. row[e] = [status |-> row[e].status, attempts |-> row[e].attempts]
        /\ row[e].attempts \in 0 .. MaxRetries
    BY <1>1 DEF HookRow
  <2>2. r \in HookRow /\ r.attempts < MaxRetries
    BY <1>4, <2>1 DEF Hooks!LeaseExpires, HookRow, AttemptsAreLeft
  <2>3. row' = [row EXCEPT ![e] = r]
    <3>1. row' = [row EXCEPT ![e].status = "pending"]
      BY <1>4 DEF Hooks!LeaseExpires
    <3>2. [row[e] EXCEPT !.status = "pending"] = r
      BY <2>1
    <3> HIDE DEF r
    <3>. QED BY <1>1, <3>1, <3>2
  <2>4. /\ UNCHANGED <<worker, again>> /\ overtaken' \subseteq Events /\ overtaken \subseteq overtaken'
        /\ e \in overtaken' \/ \A w \in Workers : worker[w].at # "rest" => worker[w].event # e
    BY <1>1, <1>4 DEF Hooks!LeaseExpires, Hooks!Orphaned
  <2> HIDE DEF r
  <2>. QED BY <1>1, <2>2, <2>3, <2>4, HookRowKeeps
<1>5. CASE Hooks!Retry(e)
  <2> DEFINE r == [status |-> "pending", attempts |-> 0]
  <2>1. r \in HookRow /\ r.attempts < MaxRetries
    BY <1>2 DEF HookRow
  <2>2. /\ row' = [row EXCEPT ![e] = r] /\ again' = again + 1 /\ UNCHANGED worker
        /\ overtaken' = IF row[e].status = "processing" THEN overtaken \union {e} ELSE overtaken
    BY <1>5 DEF Hooks!Retry
  <2>3. e \in overtaken' \/ \A w \in Workers : worker[w].at # "rest" => worker[w].event # e
    BY <2>2 DEF ClaimedIsProcessing
  <2>4. again' \in Nat /\ overtaken' \subseteq Events /\ overtaken \subseteq overtaken'
    BY <1>1, <2>2
  <2> HIDE DEF r
  <2>. QED BY <2>1, <2>2, <2>3, <2>4, HookRowKeeps
<1>. QED BY <1>3, <1>4, <1>5

\* A worker takes a delivery that nobody has, or that was taken over.
LEMMA HookClaimStep ==
  ASSUME HookInv, NEW w \in Workers, NEW e \in Events, Hooks!Claim(w, e)
  PROVE  HookInv'
<1> USE DEF HookInv
<1> DEFINE j == [at |-> "post", event |-> e, attempts |-> row[e].attempts]
           r == [status |-> "processing", attempts |-> row[e].attempts]
<1>1. /\ worker[w].at = "rest" /\ row[e].status = "pending"
      /\ row' = [row EXCEPT ![e].status = "processing"] /\ worker' = [worker EXCEPT ![w] = j]
      /\ UNCHANGED <<again, overtaken>>
  BY DEF Hooks!Claim
<1>2. row[e].attempts \in 0 .. MaxRetries /\ row[e].attempts < MaxRetries
  BY <1>1, HookFields DEF AttemptsAreLeft
<1>3. j \in HookJob /\ r \in HookRow
  BY <1>2 DEF HookJob, HookRow
<1>4. row[e] = [status |-> row[e].status, attempts |-> row[e].attempts]
  BY DEF HookTypes, HookRow
<1>5. /\ worker' \in [Workers -> {Hooks!Rest} \cup HookJob] /\ worker'[w] = j
      /\ \A v \in Workers : v # w => worker'[v] = worker[v]
  BY <1>1, <1>3 DEF HookTypes
<1>6. /\ row' \in [Events -> HookRow] /\ row'[e] = r /\ \A d \in Events : d # e => row'[d] = row[d]
  BY <1>1, <1>3, <1>4 DEF HookTypes
<1>7. HookTypes'
  BY <1>1, <1>5, <1>6 DEF HookTypes
<1>8. AttemptsAreLeft'
  BY <1>2, <1>5, <1>6 DEF AttemptsAreLeft
<1>9. \A v \in Workers : worker[v].at # "rest" /\ worker[v].event = e => e \in overtaken
  BY <1>1 DEF ClaimedIsProcessing
<1>10. ClaimedIsProcessing'
  <2> SUFFICES ASSUME NEW v \in Workers, worker'[v].at # "rest"
               PROVE  row'[worker'[v].event].status = "processing" \/ worker'[v].event \in overtaken
    BY <1>1 DEF ClaimedIsProcessing
  <2>1. CASE v = w
    BY <1>5, <1>6, <2>1
  <2>2. CASE v # w
    <3>1. worker'[v] = worker[v] /\ worker[v].event \in Events
      BY <1>5, <2>2, HookFields
    <3>. QED BY <1>6, <1>9, <3>1 DEF ClaimedIsProcessing
  <2>. QED BY <2>1, <2>2
<1>11. ClaimedOnce'
  BY <1>1, <1>5, <1>9 DEF ClaimedOnce
<1>. QED BY <1>7, <1>8, <1>10, <1>11

\* The receiver answers, or not.
LEMMA HookPostStep ==
  ASSUME HookInv, NEW w \in Workers, Hooks!Post(w)
  PROVE  HookInv'
<1> USE DEF HookInv
<1>1. worker[w].at = "post" /\ UNCHANGED <<row, again, overtaken>>
  BY DEF Hooks!Post
<1>2. PICK at \in {"succeeded", "failed"} : worker' = [worker EXCEPT ![w].at = at]
  BY DEF Hooks!Post
<1> DEFINE j == [at |-> at, event |-> worker[w].event, attempts |-> worker[w].attempts]
<1>3. worker[w] \in HookJob
  BY <1>1, HookFields
<1>4. j \in HookJob /\ [worker[w] EXCEPT !.at = at] = j
  BY <1>3 DEF HookJob
<1>5. /\ worker' \in [Workers -> {Hooks!Rest} \cup HookJob] /\ worker'[w] = j
      /\ \A v \in Workers : v # w => worker'[v] = worker[v]
  BY <1>2, <1>4 DEF HookTypes
<1>6. \A v \in Workers : worker'[v].at # "rest" =>
        /\ worker[v].at # "rest" /\ worker'[v].event = worker[v].event
        /\ worker'[v].attempts = worker[v].attempts
  BY <1>1, <1>5
<1>. QED BY <1>1, <1>5, <1>6 DEF HookTypes, AttemptsAreLeft, ClaimedIsProcessing, ClaimedOnce

\* The worker writes what it has found, or stops.
LEMMA HookEndStep ==
  ASSUME HookInv, NEW w \in Workers, Hooks!Succeed(w) \/ Hooks!Fail(w) \/ Hooks!Stop(w)
  PROVE  HookInv'
<1> USE DEF HookInv
<1> DEFINE e == worker[w].event
           n == worker[w].attempts + 1
<1>1. worker[w].at # "rest" /\ worker' = [worker EXCEPT ![w] = Hooks!Rest] /\ UNCHANGED <<again, overtaken>>
  BY DEF Hooks!Succeed, Hooks!Fail, Hooks!Stop
<1>2. e \in Events /\ n \in 0 .. MaxRetries
  <2>1. worker[w].attempts \in 0 .. MaxRetries /\ worker[w].attempts < MaxRetries
    BY <1>1, HookFields DEF AttemptsAreLeft
  <2>. QED BY <1>1, <2>1, HookFields, EdgesAssumption
<1>3. PICK r \in HookRow : /\ row' = row \/ row' = [row EXCEPT ![e] = r]
                           /\ r.status \in {"none", "pending", "processing"} => r.attempts < MaxRetries
  <2>1. CASE Hooks!Succeed(w)
    <3>1. [status |-> "success", attempts |-> n] \in HookRow
      BY <1>2 DEF HookRow
    <3>. QED BY <2>1, <3>1 DEF Hooks!Succeed
  <2>2. CASE Hooks!Fail(w)
    <3> DEFINE f == [status |-> Hooks!AfterFailure(n), attempts |-> n]
    <3>1. f \in HookRow /\ (f.status = "pending" => n < MaxRetries) /\ f.status \in {"dead_letter", "pending"}
      BY <1>2, EdgesAssumption DEF Hooks!AfterFailure, HookRow
    <3>2. row' = [row EXCEPT ![e] = f]
      BY <2>2 DEF Hooks!Fail
    <3>. QED BY <3>1, <3>2
  <2>3. CASE Hooks!Stop(w)
    <3>1. row[e] \in HookRow
      BY <1>2, HookFields
    <3>. QED BY <1>2, <2>3, <3>1 DEF Hooks!Stop, AttemptsAreLeft
  <2>. QED BY <2>1, <2>2, <2>3
<1>. QED BY <1>1, <1>3, HookRests

LEMMA HookInductive == HookInv /\ [Hooks!Next]_Hooks!hookVars => HookInv'
<1> SUFFICES ASSUME HookInv, [Hooks!Next]_Hooks!hookVars PROVE HookInv'
  OBVIOUS
<1>1. CASE UNCHANGED Hooks!hookVars \/ Hooks!Toggle
  BY <1>1 DEF Hooks!hookVars, Hooks!Toggle, HookInv, HookTypes, AttemptsAreLeft, ClaimedIsProcessing, ClaimedOnce
<1>. QED BY <1>1, HookEventStep, HookClaimStep, HookPostStep, HookEndStep DEF Hooks!Next

LEMMA HooksHold == Hooks!Spec => []HookInv
<1>. QED BY HookInitInv, HookInductive, PTL DEF Hooks!Spec

\* For any events and workers: a delivery that was confirmed is posted again for
\* an operator only, or because two workers had it.
THEOREM ConfirmedStaysSo == Hooks!Spec => Hooks!ConfirmedIsDone
<1>1. HookInv /\ [Hooks!Next]_Hooks!hookVars =>
        [\A e \in Events : row[e].status = "success" /\ row'[e].status # "success"
                             => again' # again \/ e \in overtaken]_Hooks!hookVars
  <2> SUFFICES ASSUME HookInv, Hooks!Next, NEW e \in Events,
                      row[e].status = "success", row'[e].status # "success"
               PROVE  again' # again \/ e \in overtaken
    BY DEF Hooks!hookVars
  <2> USE DEF HookInv
  <2>1. row \in [Events -> HookRow] /\ again \in Nat
    BY DEF HookTypes
  <2>2. CASE \E d \in Events : Hooks!Dispatch(d)
    BY <2>1, <2>2 DEF Hooks!Dispatch, Hooks!Made
  <2>3. CASE \E d \in Events : Hooks!LeaseExpires(d)
    <3>1. PICK d \in Events : Hooks!LeaseExpires(d)
      BY <2>3
    <3>2. d # e /\ row' = [row EXCEPT ![d].status = "pending"]
      BY <3>1 DEF Hooks!LeaseExpires
    <3>. QED BY <2>1, <3>2
  <2>4. CASE \E d \in Events : Hooks!Retry(d)
    BY <2>1, <2>4 DEF Hooks!Retry
  <2>5. CASE \E w \in Workers, d \in Events : Hooks!Claim(w, d)
    <3>1. PICK w \in Workers, d \in Events : Hooks!Claim(w, d)
      BY <2>5
    <3>2. d # e /\ row' = [row EXCEPT ![d].status = "processing"]
      BY <3>1 DEF Hooks!Claim
    <3>. QED BY <2>1, <3>2
  <2>6. CASE \E w \in Workers : Hooks!Succeed(w)
    <3>1. PICK w \in Workers : Hooks!Succeed(w)
      BY <2>6
    <3> DEFINE d == worker[w].event
    <3>2. row' = row \/ (row[d].status = "processing"
                         /\ row' = [row EXCEPT ![d] = [status |-> "success", attempts |-> worker[w].attempts + 1]])
      BY <3>1 DEF Hooks!Succeed, Hooks!StillProcessing
    <3>. QED BY <2>1, <3>2
  <2>7. CASE \E w \in Workers : Hooks!Fail(w)
    <3>1. PICK w \in Workers : Hooks!Fail(w)
      BY <2>7
    <3> DEFINE d == worker[w].event
               f == [status |-> Hooks!AfterFailure(worker[w].attempts + 1), attempts |-> worker[w].attempts + 1]
    <3>2. row' = [row EXCEPT ![d] = f] /\ worker[w].at # "rest"
      BY <3>1 DEF Hooks!Fail
    <3>3. d = e
      BY <2>1, <3>2
    <3>. QED BY <3>2, <3>3 DEF ClaimedIsProcessing
  <2>8. CASE Hooks!Toggle \/ \E w \in Workers : Hooks!Post(w) \/ Hooks!Stop(w)
    BY <2>8 DEF Hooks!Toggle, Hooks!Post, Hooks!Stop
  <2>. QED BY <2>2, <2>3, <2>4, <2>5, <2>6, <2>7, <2>8 DEF Hooks!Next
<1>. QED BY <1>1, HooksHold, PTL DEF Hooks!Spec, Hooks!ConfirmedIsDone

---------------------------------------------------------------------------

(***************************************************************************)
(* SipRegistrar for any telephones, requests, challenges and restarts.  A  *)
(* list of bindings is written by whoever is last and read again by a      *)
(* restart, so every list that is under way must be one that could be the  *)
(* registrations (ContactList), not only the present one.  NeverOlder      *)
(* follows: a list is made of the one before it, in which a Contact is     *)
(* there once, and of one request that passed its check, which is newer    *)
(* than all of its Contact as long as no newer one was written beside it   *)
(* (CheckedIsNewer).                                                       *)
(***************************************************************************)

ContactList(list) ==
  /\ list \in Seq(Registrar!Binding)
  /\ \A i, j \in 1 .. Len(list) : list[i].who = list[j].who => i = j

RegRequest == [who: Phones, seq: 1 .. MaxRequests, want: {"reg", "unreg"}, nonce: Nonces \union {NoNonce}]
RegDevice == [seq: 0 .. MaxRequests, want: {"reg", "unreg"}, nonce: Nonces \union {NoNonce}, waits: BOOLEAN]

DevicesAreTyped ==
  /\ device \in [Phones -> RegDevice] /\ registers \subseteq RegRequest
  /\ \A p \in Phones : device[p].waits => device[p].seq > 0

NoncesAreFew ==
  /\ nonces \subseteq [n: Nonces, aged: BOOLEAN]
  /\ IsFiniteSet(nonces) /\ Cardinality(nonces) <= NonceCap

ListsAreOfContacts == \A list \in saves \union {binds, stored} : ContactList(list)

RegServing == [at: {"verified", "checked"}, who: Phones, seq: 1 .. MaxRequests, want: {"reg", "unreg"},
               nonce: Nonces \union {NoNonce}, beside: BOOLEAN]

ServingIsTyped == serving \subseteq RegServing

\* What has passed its check is newer than the binding of its telephone, or
\* the newer one was written since.
CheckedIsNewer ==
  \A g \in serving : g.at = "checked" =>
    g.beside \/ \A i \in 1 .. Len(binds) : binds[i].who = g.who => g.seq > binds[i].seq

RegInv == DevicesAreTyped /\ NoncesAreFew /\ ListsAreOfContacts /\ ServingIsTyped /\ CheckedIsNewer

\* Every element of k is one of the list.
Among(k, list) == \A i \in 1 .. Len(k) : \E j \in 1 .. Len(list) : k[i] = list[j]

LEMMA AmongAmong ==
  ASSUME NEW k, NEW l, NEW m, Among(k, l), Among(l, m)
  PROVE  Among(k, m)
<1>. QED BY DEF Among

\* What a purge or a removal leaves is a list of Contacts again.
LEMMA ContactsDropped ==
  ASSUME NEW list, ContactList(list), NEW S
  PROVE  /\ ContactList(Registrar!Dropping(list, S)) /\ Among(Registrar!Dropping(list, S), list)
         /\ \A i \in 1 .. Len(Registrar!Dropping(list, S)) : Registrar!Dropping(list, S)[i] \notin S
<1> DEFINE d == Dropping(list, S)
<1>1. Registrar!Dropping(list, S) = d
  BY DEF Registrar!Dropping, Dropping
<1>2. list \in Seq(Registrar!Binding) /\ Len(list) \in Nat
  BY DEF ContactList
<1>3. d \in Seq(Registrar!Binding) /\ Len(d) \in Nat /\ \A i \in 1 .. Len(d) : d[i] \notin S
  BY <1>2, DroppingProperties
<1>4. PICK f : PlacesOf(f, d, list, Len(list))
  BY <1>2, DroppingProperties
<1> HIDE DEF d
<1>5. /\ f \in [1 .. Len(d) -> 1 .. Len(list)]
      /\ \A i \in 1 .. Len(d) : d[i] = list[f[i]]
  BY <1>4 DEF PlacesOf
<1>6. ASSUME NEW i \in 1 .. Len(d), NEW j \in 1 .. Len(d), d[i].who = d[j].who
      PROVE  i = j
  <2>1. f[i] \in 1 .. Len(list) /\ f[j] \in 1 .. Len(list) /\ list[f[i]].who = list[f[j]].who
    BY <1>5, <1>6
  <2>2. f[i] = f[j]
    BY <2>1 DEF ContactList
  <2>. QED BY <1>2, <1>3, <1>4, <2>2, PlacesApart
<1>7. Among(d, list)
  BY <1>5 DEF Among
<1>. QED BY <1>1, <1>3, <1>6, <1>7 DEF ContactList

LEMMA LiveContacts ==
  ASSUME NEW list, ContactList(list)
  PROVE  ContactList(Registrar!Live(list)) /\ Among(Registrar!Live(list), list)
<1>. QED BY ContactsDropped DEF Registrar!Live

LEMMA WithoutContact ==
  ASSUME NEW list, ContactList(list), NEW p
  PROVE  /\ ContactList(Registrar!Without(list, p)) /\ Among(Registrar!Without(list, p), list)
         /\ \A i \in 1 .. Len(Registrar!Without(list, p)) : Registrar!Without(list, p)[i].who # p
<1> DEFINE S == {b \in Registrar!Range(list) : b.who = p}
           d == Registrar!Dropping(list, S)
<1>1. ContactList(d) /\ Among(d, list) /\ \A i \in 1 .. Len(d) : d[i] \notin S
  BY ContactsDropped
<1>2. \A j \in 1 .. Len(list) : list[j] \in Registrar!Range(list)
  BY DEF Registrar!Range, ContactList
<1>3. \A i \in 1 .. Len(d) : d[i] \in Registrar!Range(list)
  <2> HIDE DEF d
  <2>. QED BY <1>1, <1>2 DEF Among
<1>4. \A i \in 1 .. Len(d) : d[i].who # p
  <2> HIDE DEF d
  <2>. QED BY <1>1, <1>3
<1>. QED BY <1>1, <1>4 DEF Registrar!Without

\* The renewed Contact comes first and is not there a second time.
LEMMA PutContact ==
  ASSUME NEW list, ContactList(list), NEW b \in Registrar!Binding
  PROVE  /\ ContactList(Registrar!Put(list, b))
         /\ \A i \in 1 .. Len(Registrar!Put(list, b)) :
              \/ Registrar!Put(list, b)[i] = b
              \/ \E j \in 1 .. Len(list) : Registrar!Put(list, b)[i] = list[j]
<1> DEFINE w == Registrar!Without(list, b.who)
           q == <<b>> \o w
<1>1. ContactList(w) /\ Among(w, list) /\ \A i \in 1 .. Len(w) : w[i].who # b.who
  BY WithoutContact
<1> HIDE DEF w
<1>2. w \in Seq(Registrar!Binding) /\ Len(w) \in Nat
  BY <1>1 DEF ContactList
<1>3. <<b>> \in Seq(Registrar!Binding) /\ Len(<<b>>) = 1 /\ <<b>>[1] = b
  OBVIOUS
<1>4. /\ q \in Seq(Registrar!Binding) /\ Len(q) = Len(w) + 1 /\ q[1] = b
      /\ \A i \in 1 .. Len(q) : i # 1 => i - 1 \in 1 .. Len(w) /\ q[i] = w[i - 1]
  <2> HIDE DEF Registrar!Binding
  <2>. QED BY <1>2, <1>3, ConcatProperties
<1> HIDE DEF q
<1>5. \A i, j \in 1 .. Len(q) : q[i].who = q[j].who => i = j
  <2> SUFFICES ASSUME NEW i \in 1 .. Len(q), NEW j \in 1 .. Len(q), q[i].who = q[j].who
               PROVE  i = j
    OBVIOUS
  <2>1. CASE i = 1 \/ j = 1
    BY <1>1, <1>4, <2>1
  <2>2. CASE i # 1 /\ j # 1
    <3>1. i - 1 = j - 1
      <4>1. /\ i - 1 \in 1 .. Len(w) /\ q[i] = w[i - 1]
            /\ j - 1 \in 1 .. Len(w) /\ q[j] = w[j - 1]
        BY <1>4, <2>2
      <4>2. w[i - 1].who = w[j - 1].who
        BY <4>1
      <4>3. \A k, n \in 1 .. Len(w) : w[k].who = w[n].who => k = n
        BY <1>1 DEF ContactList
      <4>. QED BY <4>1, <4>2, <4>3
    <3>. QED BY <1>2, <1>4, <3>1
  <2>. QED BY <2>1, <2>2
<1>6. \A i \in 1 .. Len(q) : q[i] = b \/ \E j \in 1 .. Len(list) : q[i] = list[j]
  BY <1>1, <1>4 DEF Among
<1>. QED BY <1>4, <1>5, <1>6 DEF q, w, Registrar!Put, ContactList

LEMMA RegInitInv == Registrar!Init => RegInv
<1> SUFFICES ASSUME Registrar!Init PROVE RegInv
  OBVIOUS
<1>1. DevicesAreTyped
  BY EdgesAssumption DEF Registrar!Init, DevicesAreTyped, RegDevice
<1>2. NoncesAreFew
  BY EdgesAssumption, FS_EmptySet DEF Registrar!Init, NoncesAreFew
<1>3. ContactList(<<>>)
  BY DEF ContactList
<1>4. ListsAreOfContacts
  BY <1>3 DEF Registrar!Init, ListsAreOfContacts
<1>5. ServingIsTyped /\ CheckedIsNewer
  BY DEF Registrar!Init, ServingIsTyped, CheckedIsNewer
<1>. QED BY <1>1, <1>2, <1>4, <1>5 DEF RegInv

\* Shorter lists and fewer requests in service keep CheckedIsNewer.
LEMMA CheckedKept ==
  ASSUME CheckedIsNewer, Among(binds', binds), \A g \in serving' : g \in serving \/ g.at = "verified"
  PROVE  CheckedIsNewer'
<1> SUFFICES ASSUME NEW g \in serving', g.at = "checked", ~g.beside,
                    NEW i \in 1 .. Len(binds'), binds'[i].who = g.who
             PROVE  g.seq > binds'[i].seq
  BY DEF CheckedIsNewer
<1>1. g \in serving
  OBVIOUS
<1>2. PICK j \in 1 .. Len(binds) : binds'[i] = binds[j]
  BY DEF Among
<1>. QED BY <1>1, <1>2 DEF CheckedIsNewer

\* The telephones send and repeat what they ask for.
LEMMA RegDeviceStep ==
  ASSUME RegInv, NEW p \in Phones, Registrar!Send(p) \/ Registrar!Repeat(p)
  PROVE  RegInv' /\ UNCHANGED binds
<1> USE DEF RegInv
<1>1. UNCHANGED <<serving, nonces, binds, saves, stored>>
  BY DEF Registrar!Send, Registrar!Repeat
<1>2. NoncesAreFew' /\ ListsAreOfContacts' /\ ServingIsTyped' /\ CheckedIsNewer'
  BY <1>1 DEF NoncesAreFew, ListsAreOfContacts, ServingIsTyped, CheckedIsNewer
<1>3. device[p] \in RegDevice /\ device \in [Phones -> RegDevice]
  BY DEF DevicesAreTyped
<1>4. CASE Registrar!Send(p)
  <2>1. PICK want \in {"reg", "unreg"} :
          LET s == device[p].seq + 1
              w == IF device[p].waits THEN device[p].want ELSE want IN
          /\ device' = [device EXCEPT ![p] = [@ EXCEPT !.seq = s, !.want = w, !.waits = TRUE]]
          /\ registers' = registers \union {[who |-> p, seq |-> s, want |-> w, nonce |-> NoNonce]}
    BY <1>4 DEF Registrar!Send
  <2> DEFINE s == device[p].seq + 1
             w == IF device[p].waits THEN device[p].want ELSE want
             d == [seq |-> s, want |-> w, nonce |-> device[p].nonce, waits |-> TRUE]
             r == [who |-> p, seq |-> s, want |-> w, nonce |-> NoNonce]
  <2>2. s \in 1 .. MaxRequests /\ s \in 0 .. MaxRequests /\ w \in {"reg", "unreg"}
    BY <1>3, <1>4, EdgesAssumption DEF Registrar!Send, RegDevice
  <2>3. device[p].nonce \in Nonces \union {NoNonce}
    BY <1>3 DEF RegDevice
  <2>4. [device[p] EXCEPT !.seq = s, !.want = w, !.waits = TRUE] = d
    <3>1. device[p] = [seq |-> device[p].seq, want |-> device[p].want, nonce |-> device[p].nonce,
                       waits |-> device[p].waits]
      BY <1>3 DEF RegDevice
    <3> HIDE DEF s, w
    <3>2. ASSUME NEW v, v = [device[p] EXCEPT !.seq = s, !.want = w, !.waits = TRUE]
          PROVE  v = d
      BY <3>1, <3>2
    <3>. QED BY <3>2
  <2>5. device' = [device EXCEPT ![p] = d] /\ registers' = registers \union {r}
    BY <1>3, <2>1, <2>4
  <2> HIDE DEF s, w
  <2>6. d \in RegDevice /\ r \in RegRequest /\ d.seq > 0
    BY <2>2, <2>3 DEF RegDevice, RegRequest
  <2> HIDE DEF d, r
  <2>. QED BY <1>1, <1>2, <1>3, <2>5, <2>6 DEF DevicesAreTyped
<1>5. CASE Registrar!Repeat(p)
  <2> DEFINE r == [who |-> p, seq |-> device[p].seq, want |-> device[p].want, nonce |-> device[p].nonce]
  <2>1. device[p].waits /\ UNCHANGED device /\ registers' = registers \union {r}
    BY <1>5 DEF Registrar!Repeat
  <2>2. device[p].seq \in 1 .. MaxRequests
    BY <1>3, <2>1, EdgesAssumption DEF DevicesAreTyped, RegDevice
  <2>3. r \in RegRequest
    BY <1>3, <2>2 DEF RegDevice, RegRequest
  <2> HIDE DEF r
  <2>. QED BY <1>1, <1>2, <2>1, <2>3 DEF DevicesAreTyped
<1>. QED BY <1>4, <1>5

\* The challenges that are not over are some of those there are.
LEMMA FreshNonces ==
  ASSUME NoncesAreFew, NEW S, S \subseteq nonces
  PROVE  IsFiniteSet(S) /\ Cardinality(S) <= NonceCap /\ Cardinality(S) \in Nat
         /\ S \subseteq [n: Nonces, aged: BOOLEAN]
<1>1. IsFiniteSet(nonces) /\ Cardinality(nonces) <= NonceCap /\ NonceCap \in Nat
  BY EdgesAssumption DEF NoncesAreFew
<1>2. IsFiniteSet(S) /\ Cardinality(S) <= Cardinality(nonces)
  BY <1>1, FS_Subset
<1>3. Cardinality(S) \in Nat /\ Cardinality(nonces) \in Nat
  BY <1>1, <1>2, FS_CardinalityType
<1>. QED BY <1>1, <1>2, <1>3 DEF NoncesAreFew

\* A telephone whose answer has come, or that has a challenge, is a telephone.
LEMMA DeviceKeeps ==
  ASSUME DevicesAreTyped, NEW p \in Phones, NEW n \in Nonces \union {NoNonce},
         registers' \subseteq registers,
         \/ UNCHANGED device
         \/ device' = [device EXCEPT ![p].nonce = n]
         \/ device' = [device EXCEPT ![p].waits = FALSE, ![p].nonce = n]
  PROVE  DevicesAreTyped'
<1>1. device[p] \in RegDevice /\ device \in [Phones -> RegDevice]
  BY DEF DevicesAreTyped
<1>2. registers' \subseteq RegRequest
  BY DEF DevicesAreTyped
<1> DEFINE D(b) == [seq |-> device[p].seq, want |-> device[p].want, nonce |-> n, waits |-> b]
<1>3. \A b \in BOOLEAN : D(b) \in RegDevice
  BY <1>1 DEF RegDevice
<1>4. CASE UNCHANGED device
  BY <1>2, <1>4 DEF DevicesAreTyped
<1>5. ASSUME NEW b \in {FALSE, device[p].waits}, device' = [device EXCEPT ![p] = D(b)]
      PROVE  DevicesAreTyped'
  <2>1. b \in BOOLEAN /\ D(b).seq = device[p].seq /\ (D(b).waits => device[p].waits)
    BY <1>1 DEF RegDevice
  <2>2. D(b) \in RegDevice
    BY <1>3, <2>1
  <2> HIDE DEF D
  <2>. QED BY <1>1, <1>2, <1>5, <2>1, <2>2 DEF DevicesAreTyped
<1>6. CASE device' = [device EXCEPT ![p].nonce = n]
  <2>1. device' = [device EXCEPT ![p] = D(device[p].waits)]
    <3>1. [device[p] EXCEPT !.nonce = n] = D(device[p].waits)
      BY <1>1 DEF RegDevice
    <3>2. device' = [device EXCEPT ![p] = [device[p] EXCEPT !.nonce = n]]
      BY <1>1, <1>6
    <3>. QED BY <3>1, <3>2
  <2>. QED BY <1>5, <2>1
<1>7. CASE device' = [device EXCEPT ![p].waits = FALSE, ![p].nonce = n]
  <2>1. device' = [device EXCEPT ![p] = D(FALSE)]
    <3>1. device[p] = [seq |-> device[p].seq, want |-> device[p].want, nonce |-> device[p].nonce,
                       waits |-> device[p].waits]
      BY <1>1 DEF RegDevice
    <3>2. ASSUME NEW v, v = [[device[p] EXCEPT !.waits = FALSE] EXCEPT !.nonce = n]
          PROVE  v = D(FALSE)
      BY <3>1, <3>2
    <3>. QED BY <1>1, <1>7, <3>2
  <2>. QED BY <1>5, <2>1
<1>. QED BY <1>4, <1>6, <1>7

\* The telephones and the proofs count alike.
LEMMA RegCardinality == \A S : Registrar!Cardinality(S) = Cardinality(S)
<1>. QED BY DEF Registrar!Cardinality, Cardinality

\* A request without valid credentials is answered by a challenge, if there is
\* room for one.
LEMMA RegChallengeStep ==
  ASSUME RegInv, NEW r \in registers, Registrar!Challenge(r)
  PROVE  RegInv' /\ UNCHANGED binds
<1> USE DEF RegInv
<1> DEFINE F == Registrar!Fresh
           n == CHOOSE n \in Registrar!Unused : TRUE
           x == [n |-> n, aged |-> FALSE]
<1>1. UNCHANGED <<serving, binds, saves, stored>> /\ registers' = registers \ {r} /\ r.who \in Phones
  BY DEF Registrar!Challenge, DevicesAreTyped, RegRequest
<1>2. ListsAreOfContacts' /\ ServingIsTyped' /\ CheckedIsNewer'
  BY <1>1 DEF ListsAreOfContacts, ServingIsTyped, CheckedIsNewer
<1>3. IsFiniteSet(F) /\ Cardinality(F) <= NonceCap /\ Cardinality(F) \in Nat
      /\ F \subseteq [n: Nonces, aged: BOOLEAN]
  BY FreshNonces DEF Registrar!Fresh
<1>4. CASE Cardinality(F) >= NonceCap
  <2>1. nonces' = F /\ UNCHANGED device
    BY <1>4, RegCardinality DEF Registrar!Challenge
  <2>2. NoncesAreFew'
    BY <1>3, <2>1 DEF NoncesAreFew
  <2>. QED BY <1>1, <1>2, <2>1, <2>2 DEF DevicesAreTyped
<1>5. CASE ~(Cardinality(F) >= NonceCap)
  <2>1. /\ Registrar!Unused # {} /\ nonces' = F \union {x}
        /\ device' = IF device[r.who].waits /\ device[r.who].seq = r.seq
                       THEN [device EXCEPT ![r.who].nonce = n] ELSE device
    BY <1>5, RegCardinality DEF Registrar!Challenge
  <2>2. n \in Nonces
    <3>1. \E k : k \in Registrar!Unused
      BY <2>1
    <3>2. n \in Registrar!Unused
      BY <3>1
    <3>. QED BY <3>2 DEF Registrar!Unused
  <2>3. x \in [n: Nonces, aged: BOOLEAN]
    BY <2>2
  <2> HIDE DEF n, x, F
  <2>4. IsFiniteSet(nonces') /\ Cardinality(nonces') <= NonceCap
    <3>1. IsFiniteSet(F \union {x})
          /\ (Cardinality(F \union {x}) = Cardinality(F) \/ Cardinality(F \union {x}) = Cardinality(F) + 1)
      BY <1>3, FS_AddElement
    <3>. QED BY <1>3, <1>5, <2>1, <3>1, EdgesAssumption
  <2>5. NoncesAreFew'
    BY <1>3, <2>1, <2>3, <2>4 DEF NoncesAreFew
  <2>6. DevicesAreTyped'
    BY <1>1, <2>1, <2>2, DeviceKeeps
  <2>. QED BY <1>1, <1>2, <2>5, <2>6
<1>. QED BY <1>4, <1>5

\* A list after another one: its bindings are those of the other, or newer, or
\* of a request that had passed its check when a newer one was written.
NotOlder(k, list) ==
  \A i \in 1 .. Len(list), j \in 1 .. Len(k) :
    list[i].who = k[j].who /\ list[i].seq > k[j].seq =>
      \E h \in serving : h.beside /\ h.who = k[j].who /\ h.seq = k[j].seq

LEMMA ContactFields ==
  ASSUME NEW list, ContactList(list), NEW i \in 1 .. Len(list)
  PROVE  i \in DOMAIN list /\ list[i].seq \in Nat
<1>1. i \in DOMAIN list /\ list[i] \in Registrar!Binding
  BY DEF ContactList
<1>. QED BY <1>1, EdgesAssumption DEF Registrar!Binding

\* What was among a list of Contacts is not older than it.
LEMMA AmongNotOlder ==
  ASSUME NEW list, ContactList(list), NEW k, Among(k, list)
  PROVE  NotOlder(k, list)
<1> SUFFICES ASSUME NEW i \in 1 .. Len(list), NEW j \in 1 .. Len(k), list[i].who = k[j].who
             PROVE  ~(list[i].seq > k[j].seq)
  BY DEF NotOlder
<1>1. PICK h \in 1 .. Len(list) : k[j] = list[h]
  BY DEF Among
<1>2. h = i
  BY <1>1 DEF ContactList
<1>3. list[i].seq \in Nat
  BY ContactFields
<1>. QED BY <1>1, <1>2, <1>3

\* A request with valid credentials comes into service.
LEMMA RegVerifyStep ==
  ASSUME RegInv, NEW r \in registers, Registrar!Verify(r)
  PROVE  RegInv' /\ UNCHANGED binds
<1> DEFINE h == [at |-> "verified", who |-> r.who, seq |-> r.seq, want |-> r.want, nonce |-> r.nonce, beside |-> FALSE]
<1>1. /\ registers' = registers \ {r} /\ serving' = serving \union {h}
      /\ UNCHANGED <<device, nonces, binds, saves, stored>>
  BY DEF Registrar!Verify
<1>2. h \in RegServing /\ h.at = "verified"
  BY DEF RegInv, DevicesAreTyped, RegRequest, RegServing
<1> HIDE DEF h
<1>3. Among(binds', binds)
  BY <1>1 DEF Among
<1>4. CheckedIsNewer'
  BY <1>1, <1>2, <1>3, CheckedKept DEF RegInv
<1>5. DevicesAreTyped' /\ NoncesAreFew'
  BY <1>1 DEF RegInv, DevicesAreTyped, NoncesAreFew
<1>6. ListsAreOfContacts' /\ ServingIsTyped'
  BY <1>1, <1>2 DEF RegInv, ListsAreOfContacts, ServingIsTyped
<1>. QED BY <1>1, <1>4, <1>5, <1>6 DEF RegInv

\* Its challenge is used and its CSeq is looked at.
LEMMA RegCheckStep ==
  ASSUME RegInv, NEW h \in serving, Registrar!Check(h)
  PROVE  RegInv' /\ UNCHANGED binds
<1> DEFINE g == [h EXCEPT !.at = "checked", !.nonce = NoNonce]
<1>1. UNCHANGED <<registers, binds, saves, stored>> /\ nonces' \subseteq nonces
  BY DEF Registrar!Check
<1>2. h \in RegServing /\ h.who \in Phones
  BY DEF RegInv, ServingIsTyped, RegServing
<1>3. g \in RegServing /\ g.who = h.who /\ g.seq = h.seq
  BY <1>2 DEF RegServing
<1> HIDE DEF g
<1>4. NoncesAreFew' /\ ListsAreOfContacts'
  BY <1>1, FreshNonces DEF RegInv, NoncesAreFew, ListsAreOfContacts
<1>5. DevicesAreTyped'
  <2>1. UNCHANGED device \/ device' = [device EXCEPT ![h.who].waits = FALSE, ![h.who].nonce = NoNonce]
    BY DEF Registrar!Check, Registrar!Answered
  <2>. QED BY <1>1, <1>2, <2>1, DeviceKeeps DEF RegInv
<1>6. serving' \subseteq serving \union {g} /\ (g \in serving' /\ g \notin serving => Registrar!SeqFollows(h))
  BY DEF Registrar!Check, g
<1>7. ServingIsTyped'
  BY <1>3, <1>6 DEF RegInv, ServingIsTyped
<1>8. CheckedIsNewer'
  <2> SUFFICES ASSUME NEW k \in serving', k.at = "checked", ~k.beside,
                      NEW i \in 1 .. Len(binds), binds[i].who = k.who
               PROVE  k.seq > binds[i].seq
    BY <1>1 DEF CheckedIsNewer
  <2>1. CASE k \in serving
    BY <2>1 DEF RegInv, CheckedIsNewer
  <2>2. CASE k \notin serving
    <3>1. k = g /\ Registrar!SeqFollows(h)
      BY <1>6, <2>2
    <3>2. i \in DOMAIN binds
      BY ContactFields DEF RegInv, ListsAreOfContacts
    <3>. QED BY <1>3, <3>1, <3>2 DEF Registrar!SeqFollows
  <2>. QED BY <2>1, <2>2
<1>. QED BY <1>1, <1>4, <1>5, <1>7, <1>8 DEF RegInv

\* It changes the list.
LEMMA RegWriteStep ==
  ASSUME RegInv, NEW h \in serving, Registrar!Write(h)
  PROVE  RegInv' /\ NotOlder(binds', binds)
<1> DEFINE b == [who |-> h.who, seq |-> h.seq]
           purged == Registrar!Live(binds)
           list == IF h.want = "reg" THEN Registrar!Put(purged, b) ELSE Registrar!Without(purged, h.who)
<1>1. /\ UNCHANGED <<registers, stored>> /\ nonces' \subseteq nonces /\ h.at = "checked"
      /\ binds' = list /\ saves' = saves \union {list}
      /\ serving' = {Registrar!Beside(g, h) : g \in serving \ {h}}
  BY DEF Registrar!Write, Registrar!Fresh
<1>2. h.who \in Phones /\ h.seq \in 1 .. MaxRequests /\ b \in Registrar!Binding /\ h.want \in {"reg", "unreg"}
  BY DEF RegInv, ServingIsTyped, RegServing, Registrar!Binding
<1>3. DevicesAreTyped'
  <2>1. UNCHANGED device \/ device' = [device EXCEPT ![h.who].waits = FALSE, ![h.who].nonce = NoNonce]
    BY DEF Registrar!Write, Registrar!Answered
  <2>. QED BY <1>1, <1>2, <2>1, DeviceKeeps DEF RegInv
<1>4. NoncesAreFew'
  BY <1>1, FreshNonces DEF RegInv, NoncesAreFew
<1>5. ContactList(binds) /\ ContactList(stored) /\ \A l \in saves : ContactList(l)
  BY DEF RegInv, ListsAreOfContacts
<1>6. ContactList(purged) /\ Among(purged, binds)
  BY <1>5, LiveContacts
<1> HIDE DEF purged
<1>7. /\ ContactList(list)
      /\ \A i \in 1 .. Len(list) :
           \/ list[i] = b /\ h.want = "reg"
           \/ \E j \in 1 .. Len(purged) : list[i] = purged[j]
  <2>1. CASE h.want = "reg"
    BY <1>2, <1>6, <2>1, PutContact
  <2>2. CASE h.want # "reg"
    BY <1>6, <2>2, WithoutContact DEF Among
  <2>. QED BY <2>1, <2>2
<1> HIDE DEF list
<1>8. \A i \in 1 .. Len(list) : (list[i] = b /\ h.want = "reg") \/ \E j \in 1 .. Len(binds) : list[i] = binds[j]
  BY <1>6, <1>7 DEF Among
<1>9. ListsAreOfContacts'
  BY <1>1, <1>5, <1>7 DEF ListsAreOfContacts
<1>10. ASSUME NEW k \in serving'
       PROVE  \E g \in serving :
                /\ k \in {g, [g EXCEPT !.beside = TRUE]}
                /\ ~k.beside => k = g /\ ~(g.at = "checked" /\ g.who = h.who /\ h.want = "reg" /\ g.seq <= h.seq)
  <2>1. PICK g \in serving : k = Registrar!Beside(g, h)
    BY <1>1
  <2>2. g \in RegServing
    BY DEF RegInv, ServingIsTyped
  <2>. QED BY <2>1, <2>2 DEF Registrar!Beside, RegServing
<1>11. ServingIsTyped'
  <2> SUFFICES ASSUME NEW k \in serving' PROVE k \in RegServing
    BY DEF ServingIsTyped
  <2>1. PICK g \in serving : k \in {g, [g EXCEPT !.beside = TRUE]}
    BY <1>10
  <2>. QED BY <2>1 DEF RegInv, ServingIsTyped, RegServing
<1>12. CheckedIsNewer'
  <2> SUFFICES ASSUME NEW k \in serving', k.at = "checked", ~k.beside,
                      NEW i \in 1 .. Len(list), list[i].who = k.who
               PROVE  k.seq > list[i].seq
    BY <1>1 DEF CheckedIsNewer
  <2>1. k \in serving /\ k.seq \in Nat /\ ~(k.who = h.who /\ h.want = "reg" /\ k.seq <= h.seq)
    BY <1>10, EdgesAssumption DEF RegInv, ServingIsTyped, RegServing
  <2>2. CASE list[i] = b /\ h.want = "reg"
    BY <1>2, <2>1, <2>2, EdgesAssumption
  <2>3. ASSUME NEW j \in 1 .. Len(binds), list[i] = binds[j] PROVE k.seq > list[i].seq
    BY <2>1, <2>3 DEF RegInv, CheckedIsNewer
  <2>. QED BY <1>8, <2>2, <2>3
<1>13. NotOlder(list, binds)
  <2> SUFFICES ASSUME NEW i \in 1 .. Len(binds), NEW j \in 1 .. Len(list),
                      binds[i].who = list[j].who, binds[i].seq > list[j].seq
               PROVE  \E g \in serving : g.beside /\ g.who = list[j].who /\ g.seq = list[j].seq
    BY DEF NotOlder
  <2>1. binds[i].seq \in Nat
    BY <1>5, ContactFields
  <2>2. CASE list[j] = b
    <3>1. list[j].who = h.who /\ list[j].seq = h.seq
      BY <2>2
    <3>2. ~(h.seq > binds[i].seq)
      BY <1>2, <2>1, <3>1
    <3>3. h.beside
      BY <1>1, <3>1, <3>2 DEF RegInv, CheckedIsNewer
    <3>. QED BY <3>1, <3>3
  <2>3. ASSUME NEW g \in 1 .. Len(binds), list[j] = binds[g]
        PROVE  FALSE
    <3>1. g = i
      BY <1>5, <2>3 DEF ContactList
    <3>. QED BY <2>1, <2>3, <3>1
  <2>. QED BY <1>8, <2>2, <2>3
<1>. QED BY <1>1, <1>3, <1>4, <1>9, <1>11, <1>12, <1>13 DEF RegInv

\* The table and the database follow.
RegTable ==
  \/ Registrar!Lookup
  \/ \E list \in saves : Registrar!Save(list)
  \/ \E i \in DOMAIN binds : Registrar!Expire(binds[i])
  \/ \E x \in nonces : Registrar!Age(x)

LEMMA RegTableStep ==
  ASSUME RegInv, RegTable
  PROVE  RegInv' /\ NotOlder(binds', binds)
<1> USE DEF RegInv
<1>1. ContactList(binds) /\ ContactList(stored) /\ \A l \in saves : ContactList(l)
  BY DEF ListsAreOfContacts
<1>2. Among(binds, binds)
  BY DEF Among
<1>3. NotOlder(binds, binds)
  BY <1>1, <1>2, AmongNotOlder
<1>4. CASE Registrar!Lookup
  <2>1. /\ binds' = Registrar!Live(binds) /\ nonces' = Registrar!Fresh
        /\ UNCHANGED <<device, registers, serving, saves, stored>>
    BY <1>4 DEF Registrar!Lookup
  <2>2. ContactList(binds') /\ Among(binds', binds)
    BY <1>1, <2>1, LiveContacts
  <2>3. NoncesAreFew'
    <3>1. nonces' \subseteq nonces
      BY <2>1 DEF Registrar!Fresh
    <3>. QED BY <3>1, FreshNonces DEF NoncesAreFew
  <2>4. ServingIsTyped' /\ CheckedIsNewer'
    BY <2>1, <2>2, CheckedKept DEF ServingIsTyped
  <2>. QED BY <1>1, <2>1, <2>2, <2>3, <2>4, AmongNotOlder DEF DevicesAreTyped, ListsAreOfContacts
<1>5. ASSUME NEW list \in saves, Registrar!Save(list)
      PROVE  RegInv' /\ NotOlder(binds', binds)
  <2>1. saves' = saves \ {list} /\ stored' \in {list, stored} /\ UNCHANGED <<device, registers, serving, nonces, binds>>
    BY <1>5 DEF Registrar!Save
  <2>. QED BY <1>1, <1>3, <2>1
     DEF DevicesAreTyped, NoncesAreFew, ListsAreOfContacts, ServingIsTyped, CheckedIsNewer
<1>6. ASSUME NEW i \in DOMAIN binds, Registrar!Expire(binds[i])
      PROVE  RegInv' /\ NotOlder(binds', binds)
  <2>1. UNCHANGED <<device, registers, serving, nonces, binds, saves, stored>>
    BY <1>6 DEF Registrar!Expire
  <2>. QED BY <1>3, <2>1
     DEF DevicesAreTyped, NoncesAreFew, ListsAreOfContacts, ServingIsTyped, CheckedIsNewer
<1>7. ASSUME NEW x \in nonces, Registrar!Age(x)
      PROVE  RegInv' /\ NotOlder(binds', binds)
  <2> DEFINE y == [x EXCEPT !.aged = TRUE]
  <2>1. nonces' = (nonces \ {x}) \union {y} /\ UNCHANGED <<device, registers, serving, binds, saves, stored>>
    BY <1>7 DEF Registrar!Age
  <2>2. y \in [n: Nonces, aged: BOOLEAN] /\ nonces \subseteq [n: Nonces, aged: BOOLEAN]
    BY DEF NoncesAreFew
  <2> HIDE DEF y
  <2>3. IsFiniteSet(nonces) /\ Cardinality(nonces) \in Nat /\ Cardinality(nonces) <= NonceCap
    BY FreshNonces DEF NoncesAreFew
  <2>4. IsFiniteSet(nonces \ {x}) /\ Cardinality(nonces \ {x}) = Cardinality(nonces) - 1
    BY <2>3, FS_RemoveElement
  <2>5. /\ IsFiniteSet(nonces')
        /\ \/ Cardinality(nonces') = Cardinality(nonces \ {x})
           \/ Cardinality(nonces') = Cardinality(nonces \ {x}) + 1
    BY <2>1, <2>4, FS_AddElement
  <2>6. Cardinality(nonces') <= NonceCap
    BY <2>3, <2>4, <2>5, EdgesAssumption
  <2>. QED BY <1>3, <2>1, <2>2, <2>5, <2>6
     DEF DevicesAreTyped, NoncesAreFew, ListsAreOfContacts, ServingIsTyped, CheckedIsNewer
<1>. QED BY <1>4, <1>5, <1>6, <1>7 DEF RegTable

\* The switch starts again with what the database has.
LEMMA RegRestartStep ==
  ASSUME RegInv, Registrar!Restart
  PROVE  RegInv'
<1> USE DEF RegInv
<1>1. /\ binds' = Registrar!Live(stored) /\ stored' = Registrar!Live(stored)
      /\ nonces' = {} /\ saves' = {} /\ registers' = {} /\ serving' = {} /\ UNCHANGED device
  BY DEF Registrar!Restart
<1>2. ContactList(Registrar!Live(stored))
  BY LiveContacts DEF ListsAreOfContacts
<1>3. NoncesAreFew'
  BY <1>1, EdgesAssumption, FS_EmptySet DEF NoncesAreFew
<1>. QED BY <1>1, <1>2, <1>3 DEF DevicesAreTyped, ListsAreOfContacts, ServingIsTyped, CheckedIsNewer

\* The starts are counted.
StartsCounted == restarts \in Nat

LEMMA StartsCount == Registrar!Spec => []StartsCounted
<1>1. Registrar!Init => StartsCounted
  BY DEF Registrar!Init, StartsCounted
<1>2. StartsCounted /\ [Registrar!Next]_Registrar!regVars => StartsCounted'
  <2> SUFFICES ASSUME StartsCounted, [Registrar!Next]_Registrar!regVars PROVE StartsCounted'
    OBVIOUS
  <2>1. CASE Registrar!Restart
    BY <2>1 DEF Registrar!Restart, StartsCounted
  <2>2. \/ UNCHANGED Registrar!regVars \/ Registrar!Lookup \/ Registrar!Restart
        \/ \E p \in Phones : Registrar!Send(p) \/ Registrar!Repeat(p)
        \/ \E r \in registers : Registrar!Challenge(r) \/ Registrar!Verify(r)
        \/ \E h \in serving : Registrar!Check(h) \/ Registrar!Write(h)
        \/ \E list \in saves : Registrar!Save(list)
        \/ \E i \in DOMAIN binds : Registrar!Expire(binds[i])
        \/ \E x \in nonces : Registrar!Age(x)
    BY DEF Registrar!Next
  <2>3. CASE ~Registrar!Restart
    <3>1. CASE UNCHANGED Registrar!regVars \/ Registrar!Lookup
      BY <3>1 DEF Registrar!regVars, Registrar!Lookup, StartsCounted
    <3>2. CASE \E p \in Phones : Registrar!Send(p) \/ Registrar!Repeat(p)
      BY <3>2 DEF Registrar!Send, Registrar!Repeat, StartsCounted
    <3>3. CASE \E r \in registers : Registrar!Challenge(r) \/ Registrar!Verify(r)
      BY <3>3 DEF Registrar!Challenge, Registrar!Verify, StartsCounted
    <3>5. CASE \E h \in serving : Registrar!Check(h) \/ Registrar!Write(h)
      BY <3>5 DEF Registrar!Check, Registrar!Write, StartsCounted
    <3>4. CASE \/ \E list \in saves : Registrar!Save(list)
               \/ \E i \in DOMAIN binds : Registrar!Expire(binds[i])
               \/ \E x \in nonces : Registrar!Age(x)
      BY <3>4 DEF Registrar!Save, Registrar!Expire, Registrar!Age, StartsCounted
    <3>. QED BY <2>2, <2>3, <3>1, <3>2, <3>3, <3>4, <3>5
  <2>. QED BY <2>1, <2>3
<1>. QED BY <1>1, <1>2, PTL DEF Registrar!Spec

LEMMA RegInductive ==
  ASSUME RegInv, StartsCounted, [Registrar!Next]_Registrar!regVars
  PROVE  RegInv' /\ (restarts' = restarts => NotOlder(binds', binds))
<1>1. UNCHANGED binds => NotOlder(binds', binds)
  <2>1. ContactList(binds) /\ Among(binds, binds)
    BY DEF RegInv, ListsAreOfContacts, Among
  <2>2. NotOlder(binds, binds)
    BY <2>1, AmongNotOlder
  <2>. QED BY <2>2
<1>2. CASE UNCHANGED Registrar!regVars
  BY <1>1, <1>2
     DEF Registrar!regVars, RegInv, DevicesAreTyped, NoncesAreFew, ListsAreOfContacts, ServingIsTyped, CheckedIsNewer
<1>3. CASE \E p \in Phones : Registrar!Send(p) \/ Registrar!Repeat(p)
  BY <1>1, <1>3, RegDeviceStep
<1>4. CASE \E r \in registers : Registrar!Challenge(r)
  BY <1>1, <1>4, RegChallengeStep
<1>5. CASE \E r \in registers : Registrar!Verify(r)
  BY <1>1, <1>5, RegVerifyStep
<1>8. CASE \E h \in serving : Registrar!Check(h)
  BY <1>1, <1>8, RegCheckStep
<1>9. CASE \E h \in serving : Registrar!Write(h)
  BY <1>9, RegWriteStep
<1>6. CASE RegTable
  BY <1>6, RegTableStep
<1>7. CASE Registrar!Restart
  <2>1. restarts' # restarts \/ NotOlder(binds', binds)
    BY <1>7 DEF Registrar!Restart, StartsCounted
  <2>. QED BY <1>7, <2>1, RegRestartStep
<1>. QED BY <1>2, <1>3, <1>4, <1>5, <1>6, <1>7, <1>8, <1>9 DEF Registrar!Next, RegTable

LEMMA RegHolds == Registrar!Spec => []RegInv
<1>1. RegInv /\ StartsCounted /\ [Registrar!Next]_Registrar!regVars => RegInv'
  BY RegInductive
<1>. QED BY <1>1, RegInitInv, StartsCount, PTL DEF Registrar!Spec

\* For any telephones, requests and restarts: a telephone is bound once.
THEOREM OneBindingEach == Registrar!Spec => []Registrar!OncePerContact
<1>1. RegInv => Registrar!OncePerContact
  BY DEF RegInv, ListsAreOfContacts, ContactList, Registrar!OncePerContact
<1>. QED BY <1>1, RegHolds, PTL

\* For any telephones, requests and delays: no binding goes back to an older
\* request, restarts apart, but to one that had passed its check when the newer
\* one was written.
THEOREM NewestIsKept == Registrar!Spec => Registrar!NeverOlder
<1>1. RegInv /\ RegInv' /\ StartsCounted /\ [Registrar!Next]_Registrar!regVars =>
        [restarts' = restarts =>
           \A i \in DOMAIN binds, j \in DOMAIN binds' :
             binds[i].who = binds'[j].who /\ binds[i].seq > binds'[j].seq =>
               \E h \in serving : h.beside /\ h.who = binds'[j].who /\ h.seq = binds'[j].seq]_Registrar!regVars
  <2> SUFFICES ASSUME RegInv, RegInv', StartsCounted, [Registrar!Next]_Registrar!regVars, restarts' = restarts,
                      NEW i \in DOMAIN binds, NEW j \in DOMAIN binds', binds[i].who = binds'[j].who,
                      binds[i].seq > binds'[j].seq
               PROVE  \E h \in serving : h.beside /\ h.who = binds'[j].who /\ h.seq = binds'[j].seq
    OBVIOUS
  <2>1. NotOlder(binds', binds)
    BY RegInductive
  <2>2. i \in 1 .. Len(binds) /\ j \in 1 .. Len(binds')
    BY DEF RegInv, ListsAreOfContacts, ContactList
  <2>. QED BY <2>1, <2>2 DEF NotOlder
<1>. QED BY <1>1, RegHolds, StartsCount, PTL DEF Registrar!Spec, Registrar!NeverOlder

---------------------------------------------------------------------------

(***************************************************************************)
(* WsHub for any publishers, connections and capacities.  Every number     *)
(* that is on its way to a browser was given before (WsConnFine), so what  *)
(* a browser has heard was given too; and no queue outgrows its capacity,  *)
(* whoever writes to it, the publisher or the replay.                      *)
(***************************************************************************)

WsJob(n) ==
  [at: {"free"}, seq: 0 .. n, todo: SUBSET Conns]
    \cup [at: {"insert", "trim", "broadcast", "send"}, seq: 1 .. n, todo: SUBSET Conns]
WsConn ==
  [at: {"new", "added", "replaying", "reading", "left"}, since: Nat, queue: Seq(Nat \ {0}),
   replay: SUBSET (Nat \ {0}), done: BOOLEAN, up: BOOLEAN]

WsConnFine(x, n) ==
  /\ x \in WsConn /\ Len(x.queue) <= Cap
  /\ \A i \in 1 .. Len(x.queue) : x.queue[i] <= n
  /\ \A s \in x.replay : s <= n

WsPublishers == pub \in [Publishers -> WsJob(last)]
WsConns == conn = [c \in Conns |-> conn[c]] /\ \A c \in Conns : WsConnFine(conn[c], last)
WsNumbers ==
  /\ last \in 0 .. MaxSeq /\ buffer \subseteq 1 .. last /\ heard \subseteq 1 .. last
  /\ byAgent \subseteq Conns /\ tab \in Conns \union {NoConn}

WsInv == WsNumbers /\ WsPublishers /\ WsConns

LEMMA WsInitInv == Browsers!Init => WsInv
<1> SUFFICES ASSUME Browsers!Init PROVE WsInv
  OBVIOUS
<1> USE DEF Browsers!Init
<1>1. WsNumbers
  BY BoundsAssumption DEF WsNumbers
<1>2. Browsers!Free \in WsJob(0)
  BY DEF WsJob, Browsers!Free
<1>3. WsPublishers
  BY <1>2 DEF WsPublishers
<1> DEFINE x == [at |-> "new", since |-> 0, queue |-> <<>>, replay |-> {}, done |-> FALSE, up |-> TRUE]
<1>4. x \in WsConn /\ Len(x.queue) = 0 /\ x.replay = {}
  BY DEF WsConn
<1>5. conn = [c \in Conns |-> x]
  OBVIOUS
<1> HIDE DEF x
<1>6. WsConnFine(x, 0)
  BY <1>4, BoundsAssumption DEF WsConnFine
<1>7. last = 0 /\ conn = [c \in Conns |-> conn[c]] /\ \A c \in Conns : conn[c] = x
  BY <1>5
<1>8. WsConns
  BY <1>6, <1>7 DEF WsConns
<1>. QED BY <1>1, <1>3, <1>8 DEF WsInv

\* A connection that moves on keeps the others as they were.
LEMMA WsConnMoves ==
  ASSUME WsConns, UNCHANGED last, NEW c \in Conns, NEW x, WsConnFine(x, last),
         conn' = [conn EXCEPT ![c] = x]
  PROVE  WsConns'
<1>1. conn' = [d \in Conns |-> conn'[d]] /\ \A d \in Conns : conn'[d] = IF d = c THEN x ELSE conn[d]
  BY DEF WsConns
<1>. QED BY <1>1 DEF WsConns

\* A number at the end of a queue that has room.
LEMMA WsQueued ==
  ASSUME WsInv, NEW c \in Conns, Browsers!HasRoom(c), NEW s \in 1 .. last,
         NEW rest \in SUBSET conn[c].replay
  PROVE  WsConnFine([conn[c] EXCEPT !.queue = Append(@, s), !.replay = rest], last)
<1> DEFINE q == conn[c].queue
           z == Append(q, s)
           x == [conn[c] EXCEPT !.queue = z, !.replay = rest]
<1>1. conn[c] \in WsConn /\ last \in Nat /\ Cap \in Nat /\ Len(q) < Cap
  BY BoundsAssumption DEF WsInv, WsConns, WsConnFine, WsNumbers, Browsers!HasRoom
<1>2. q \in Seq(Nat \ {0}) /\ s \in Nat \ {0} /\ rest \in SUBSET (Nat \ {0})
  BY <1>1 DEF WsConn
<1>3. z \in Seq(Nat \ {0}) /\ Len(z) = Len(q) + 1 /\ Len(q) \in Nat
  BY <1>2
<1>4. \A i \in 1 .. Len(z) : z[i] <= last
  <2>1. \A i \in 1 .. Len(q) : q[i] <= last
    BY DEF WsInv, WsConns, WsConnFine
  <2>2. \A i \in 1 .. Len(z) : z[i] = IF i = Len(q) + 1 THEN s ELSE q[i]
    BY <1>2
  <2>. QED BY <1>1, <1>3, <2>1, <2>2
<1>5. \A t \in rest : t <= last
  BY DEF WsInv, WsConns, WsConnFine
<1>6. x \in WsConn /\ x.queue = z /\ x.replay = rest
  BY <1>1, <1>2, <1>3 DEF WsConn
<1>7. Len(z) <= Cap
  BY <1>1, <1>3
<1> HIDE DEF z
<1>8. WsConnFine(x, last)
  <2> HIDE DEF x
  <2>. QED BY <1>4, <1>5, <1>6, <1>7 DEF WsConnFine
<1>. QED BY <1>8 DEF z

\* The first of the rows is one of them.
LEMMA WsFirst ==
  ASSUME NEW S \in SUBSET Nat, S # {}
  PROVE  Browsers!Min(S) \in S
BY Least DEF Browsers!Min

\* The number of the last event that was heard is one.
LEMMA WsLastHeard ==
  ASSUME WsNumbers
  PROVE  Browsers!LastHeard \in Nat
<1> DEFINE S == {0} \union heard
           U == {n \in Nat : \A s \in S : s <= n}
<1>1. last \in U /\ S \subseteq Nat
  BY BoundsAssumption DEF WsNumbers
<1>2. PICK m \in U : \A n \in U : m <= n
  <2> HIDE DEF S
  <2>1. U \in SUBSET Nat /\ U # {}
    BY <1>1
  <2> HIDE DEF U
  <2>. QED BY <2>1, Least
<1>3. m \in S
  <2> SUFFICES ASSUME m \notin S PROVE FALSE
    OBVIOUS
  <2>1. m # 0 /\ m \in Nat
    OBVIOUS
  <2>2. \A s \in S : s <= m - 1
    BY <1>1, <2>1
  <2>3. m - 1 \in U
    BY <2>1, <2>2
  <2>. QED BY <1>2, <2>1, <2>3
<1>4. \E x \in S : \A y \in S : x >= y
  BY <1>1, <1>3
<1>5. Browsers!Max(S) \in S
  BY <1>4 DEF Browsers!Max
<1>. QED BY <1>1, <1>5 DEF Browsers!LastHeard

\* An event has its number, its row and the connections it goes to.
LEMMA WsPublishStep ==
  ASSUME WsInv, NEW p \in Publishers,
         Browsers!Allocate(p) \/ Browsers!Insert(p) \/ Browsers!Trim(p) \/ Browsers!Collect(p)
  PROVE  WsInv'
<1>0. last \in Nat /\ MaxSeq \in Nat /\ pub \in [Publishers -> WsJob(last)] /\ pub[p] \in WsJob(last)
  BY BoundsAssumption DEF WsInv, WsNumbers, WsPublishers
<1>1. CASE Browsers!Allocate(p)
  <2>1. /\ last' = last + 1 /\ last < MaxSeq /\ UNCHANGED <<buffer, conn, byAgent, tab, heard>>
        /\ pub' = [pub EXCEPT ![p] = [Browsers!Free EXCEPT !.at = "insert", !.seq = last + 1]]
    BY <1>1 DEF Browsers!Allocate
  <2>2. WsNumbers'
    BY <1>0, <2>1 DEF WsInv, WsNumbers
  <2>3. WsJob(last) \subseteq WsJob(last + 1)
    <3>1. 0 .. last \subseteq 0 .. last + 1 /\ 1 .. last \subseteq 1 .. last + 1
      BY <1>0
    <3>. QED BY <3>1 DEF WsJob
  <2>4. [Browsers!Free EXCEPT !.at = "insert", !.seq = last + 1] \in WsJob(last + 1)
    <3> DEFINE f == Browsers!Free
               n == last + 1
    <3>1. f \in [at: {"free"}, seq: {0}, todo: SUBSET Conns]
      BY DEF Browsers!Free
    <3>2. n \in 1 .. n
      BY <1>0
    <3> HIDE DEF f, n
    <3>3. [f EXCEPT !.at = "insert", !.seq = n] \in WsJob(n)
      BY <3>1, <3>2 DEF WsJob
    <3>. QED BY <3>3 DEF f, n
  <2>5. WsPublishers'
    BY <1>0, <2>1, <2>3, <2>4 DEF WsPublishers
  <2>6. \A c \in Conns : WsConnFine(conn[c], last + 1)
    <3>1. ASSUME NEW c \in Conns PROVE WsConnFine(conn[c], last + 1)
      <4>1. conn[c] \in WsConn /\ WsConnFine(conn[c], last)
        BY DEF WsInv, WsConns, WsConnFine
      <4>2. \A i \in 1 .. Len(conn[c].queue) : conn[c].queue[i] \in Nat
        BY <4>1 DEF WsConn
      <4>3. \A s \in conn[c].replay : s \in Nat
        BY <4>1 DEF WsConn
      <4>. QED BY <1>0, <4>1, <4>2, <4>3 DEF WsConnFine
    <3>. QED BY <3>1
  <2>7. WsConns'
    BY <2>1, <2>6 DEF WsInv, WsConns
  <2>. QED BY <2>2, <2>5, <2>7 DEF WsInv
<1>2. CASE Browsers!Insert(p) \/ Browsers!Trim(p) \/ Browsers!Collect(p)
  <2>1. UNCHANGED <<last, conn, byAgent, tab, heard>>
    BY <1>2 DEF Browsers!Insert, Browsers!Trim, Browsers!Collect
  <2>2. WsConns'
    BY <2>1 DEF WsInv, WsConns
  <2>3. buffer' \subseteq 1 .. last
    <3>1. CASE Browsers!Insert(p)
      <4>1. pub[p].seq \in 1 .. last
        BY <1>0, <3>1 DEF Browsers!Insert, WsJob
      <4>. QED BY <3>1, <4>1 DEF Browsers!Insert, WsInv, WsNumbers
    <3>2. CASE Browsers!Trim(p)
      BY <3>2 DEF Browsers!Trim, Browsers!Trimmed, WsInv, WsNumbers
    <3>3. CASE Browsers!Collect(p)
      BY <3>3 DEF Browsers!Collect, WsInv, WsNumbers
    <3>. QED BY <1>2, <3>1, <3>2, <3>3
  <2>4. WsNumbers'
    BY <2>1, <2>3 DEF WsInv, WsNumbers
  <2>5. \E x \in WsJob(last) : pub' = [pub EXCEPT ![p] = x]
    <3>1. CASE Browsers!Insert(p)
      <4>1. pub' = [pub EXCEPT ![p] = [pub[p] EXCEPT !.at = "trim"]]
        BY <3>1 DEF Browsers!Insert
      <4>2. [pub[p] EXCEPT !.at = "trim"] \in WsJob(last)
        BY <1>0, <3>1 DEF Browsers!Insert, WsJob
      <4>. QED BY <4>1, <4>2
    <3>2. CASE Browsers!Trim(p)
      <4>1. pub' = [pub EXCEPT ![p] = [pub[p] EXCEPT !.at = "broadcast"]]
        BY <3>2 DEF Browsers!Trim
      <4>2. [pub[p] EXCEPT !.at = "broadcast"] \in WsJob(last)
        BY <1>0, <3>2 DEF Browsers!Trim, WsJob
      <4>. QED BY <4>1, <4>2
    <3>3. CASE Browsers!Collect(p)
      <4>1. \/ pub' = [pub EXCEPT ![p] = Browsers!Free]
            \/ pub' = [pub EXCEPT ![p] = [pub[p] EXCEPT !.at = "send", !.todo = byAgent]]
        BY <3>3 DEF Browsers!Collect
      <4>2. [pub[p] EXCEPT !.at = "send", !.todo = byAgent] \in WsJob(last)
        BY <1>0, <3>3 DEF Browsers!Collect, WsJob, WsInv, WsNumbers
      <4>3. Browsers!Free \in WsJob(last)
        BY <1>0 DEF Browsers!Free, WsJob
      <4>. QED BY <4>1, <4>2, <4>3
    <3>. QED BY <1>2, <3>1, <3>2, <3>3
  <2>6. WsPublishers'
    BY <1>0, <2>1, <2>5 DEF WsPublishers
  <2>. QED BY <2>2, <2>4, <2>6 DEF WsInv
<1>. QED BY <1>1, <1>2

\* An event is put into a queue that has room; a connection without is closed.
LEMMA WsSendStep ==
  ASSUME WsInv, NEW p \in Publishers, NEW c \in Conns, Browsers!Send(p, c)
  PROVE  WsInv'
<1>0. last \in Nat /\ pub \in [Publishers -> WsJob(last)] /\ pub[p] \in WsJob(last)
      /\ pub[p].at = "send"
  BY BoundsAssumption DEF WsInv, WsNumbers, WsPublishers, Browsers!Send
<1>1. UNCHANGED <<last, buffer, tab, heard>> /\ byAgent' \subseteq byAgent
  BY DEF Browsers!Send
<1>2. WsNumbers'
  BY <1>1 DEF WsInv, WsNumbers
<1>3. WsPublishers'
  <2> DEFINE left == pub[p].todo \ {c}
             x == [pub[p] EXCEPT !.todo = left, !.at = IF left = {} THEN "free" ELSE "send",
                                 !.seq = IF left = {} THEN 0 ELSE @]
  <2>1. pub' = [pub EXCEPT ![p] = x]
    BY DEF Browsers!Send, Browsers!Sent
  <2>2. pub[p].seq \in 1 .. last /\ left \in SUBSET Conns
    BY <1>0 DEF WsJob
  <2>3. x \in WsJob(last)
    <3>1. CASE left = {}
      <4>1. x = [at |-> "free", seq |-> 0, todo |-> left]
        <5>1. x = [pub[p] EXCEPT !.todo = left, !.at = "free", !.seq = 0]
          BY <3>1
        <5>2. pub[p] = [at |-> pub[p].at, seq |-> pub[p].seq, todo |-> pub[p].todo]
          BY <1>0 DEF WsJob
        <5> HIDE DEF x, left
        <5>. QED BY <5>1, <5>2
      <4>2. 0 \in 0 .. last
        BY <1>0
      <4>. QED BY <2>2, <4>1, <4>2 DEF WsJob
    <3>2. CASE left # {}
      BY <1>0, <2>2, <3>2 DEF WsJob
    <3>. QED BY <3>1, <3>2
  <2> HIDE DEF x
  <2>. QED BY <1>0, <1>1, <2>1, <2>3 DEF WsPublishers
<1>4. WsConns'
  <2>1. CASE Browsers!HasRoom(c) /\ conn' = [conn EXCEPT ![c].queue = Append(@, pub[p].seq)]
    <3> DEFINE x == [conn[c] EXCEPT !.queue = Append(@, pub[p].seq), !.replay = conn[c].replay]
    <3>1. pub[p].seq \in 1 .. last
      BY <1>0 DEF WsJob
    <3>2. WsConnFine(x, last)
      BY <2>1, <3>1, WsQueued
    <3>3. [conn[c] EXCEPT !.queue = Append(@, pub[p].seq)] = x
      BY DEF WsInv, WsConns, WsConnFine, WsConn
    <3>4. conn' = [conn EXCEPT ![c] = [conn[c] EXCEPT !.queue = Append(@, pub[p].seq)]]
      BY <2>1
    <3>5. conn' = [conn EXCEPT ![c] = x]
      BY <3>3, <3>4
    <3> HIDE DEF x
    <3>. QED BY <1>1, <3>2, <3>5, WsConnMoves DEF WsInv
  <2>2. CASE conn' = [conn EXCEPT ![c].done = TRUE]
    <3> DEFINE x == [conn[c] EXCEPT !.done = TRUE]
    <3>1. WsConnFine(conn[c], last)
      BY DEF WsInv, WsConns
    <3>2. x \in WsConn /\ x.queue = conn[c].queue /\ x.replay = conn[c].replay
      BY <3>1 DEF WsConnFine, WsConn
    <3>3. conn' = [conn EXCEPT ![c] = x]
      BY <2>2
    <3> HIDE DEF x
    <3>4. WsConnFine(x, last)
      BY <3>1, <3>2 DEF WsConnFine
    <3>. QED BY <1>1, <3>3, <3>4, WsConnMoves DEF WsInv
  <2>. QED BY <2>1, <2>2 DEF Browsers!Send
<1>. QED BY <1>2, <1>3, <1>4 DEF WsInv

\* A browser comes, and the rows that it has missed are read and sent.
LEMMA WsReplayStep ==
  ASSUME WsInv, NEW c \in Conns,
         Browsers!Connect(c) \/ Browsers!ReadBuffer(c) \/ Browsers!Replay(c) \/ Browsers!Replayed(c)
  PROVE  WsInv'
<1>0. /\ WsConnFine(conn[c], last) /\ conn[c] \in WsConn
      /\ last \in Nat /\ buffer \subseteq 1 .. last
  BY DEF WsInv, WsConns, WsConnFine, WsNumbers
<1>1. UNCHANGED <<last, buffer, pub, heard>>
  BY DEF Browsers!Connect, Browsers!ReadBuffer, Browsers!Replay, Browsers!Replayed
<1>2. WsPublishers'
  BY <1>1 DEF WsInv, WsPublishers
<1>3. WsNumbers'
  BY <1>1 DEF WsInv, WsNumbers, Browsers!Connect, Browsers!ReadBuffer, Browsers!Replay, Browsers!Replayed
<1>4. ASSUME NEW x, conn' = [conn EXCEPT ![c] = x], WsConnFine(x, last)
      PROVE  WsConns'
  BY <1>1, <1>4, WsConnMoves DEF WsInv
<1>5. ASSUME NEW x \in WsConn, conn' = [conn EXCEPT ![c] = x], x.queue = conn[c].queue,
             \A s \in x.replay : s <= last
      PROVE  WsConns'
  <2>1. WsConnFine(x, last)
    BY <1>0, <1>5 DEF WsConnFine
  <2>. QED BY <1>4, <1>5, <2>1
<1>6. ASSUME Browsers!Connect(c) PROVE WsConns'
  <2> DEFINE x == [conn[c] EXCEPT !.at = "added", !.since = Browsers!LastHeard]
  <2>1. Browsers!LastHeard \in Nat
    BY WsLastHeard DEF WsInv
  <2>2. x \in WsConn /\ x.queue = conn[c].queue /\ x.replay = conn[c].replay
    BY <1>0, <2>1 DEF WsConn
  <2>3. conn' = [conn EXCEPT ![c] = x]
    BY <1>6 DEF Browsers!Connect
  <2> HIDE DEF x
  <2>. QED BY <1>0, <1>5, <2>2, <2>3 DEF WsConnFine
<1>7. ASSUME Browsers!ReadBuffer(c) PROVE WsConns'
  <2> DEFINE missed == {s \in buffer : conn[c].since > 0 /\ s > conn[c].since}
             x == [conn[c] EXCEPT !.at = "replaying", !.replay = missed]
  <2>1. conn' = [conn EXCEPT ![c] = x]
    BY <1>7 DEF Browsers!ReadBuffer
  <2>2. missed \in SUBSET (1 .. last)
    BY <1>0
  <2> HIDE DEF missed
  <2>3. missed \in SUBSET (Nat \ {0}) /\ \A s \in missed : s <= last
    BY <1>0, <2>2
  <2>4. x \in WsConn /\ x.queue = conn[c].queue /\ x.replay = missed
    BY <1>0, <2>3 DEF WsConn
  <2> HIDE DEF x
  <2>. QED BY <1>5, <2>1, <2>3, <2>4
<1>8. ASSUME Browsers!Replay(c) PROVE WsConns'
  <2> DEFINE s == Browsers!Min(conn[c].replay)
             rest == conn[c].replay \ {s}
  <2>1. s \in conn[c].replay /\ conn[c].replay \subseteq Nat
    <3>1. conn[c].replay \in SUBSET Nat /\ conn[c].replay # {}
      BY <1>0, <1>8 DEF WsConn, Browsers!Replay
    <3>. QED BY <3>1, WsFirst
  <2>2. s \in 1 .. last /\ rest \in SUBSET conn[c].replay
    BY <1>0, <2>1 DEF WsConn, WsConnFine
  <2>3. CASE /\ Browsers!HasRoom(c)
             /\ conn' = [conn EXCEPT ![c].queue = Append(@, s), ![c].replay = rest]
    <3> DEFINE x == [conn[c] EXCEPT !.queue = Append(@, s), !.replay = rest]
    <3>1. conn' = [conn EXCEPT ![c] = x]
      BY <2>3
    <3>2. WsConnFine(x, last)
      BY <2>2, <2>3, WsQueued
    <3> HIDE DEF x
    <3>. QED BY <1>4, <3>1, <3>2
  <2>4. CASE conn' = [conn EXCEPT ![c].replay = {}]
    <3> DEFINE x == [conn[c] EXCEPT !.replay = {}]
    <3>1. x \in WsConn /\ x.queue = conn[c].queue /\ x.replay = {}
      BY <1>0 DEF WsConn
    <3>2. conn' = [conn EXCEPT ![c] = x]
      BY <2>4
    <3> HIDE DEF x
    <3>. QED BY <1>5, <3>1, <3>2
  <2>. QED BY <1>8, <2>3, <2>4 DEF Browsers!Replay
<1>9. ASSUME Browsers!Replayed(c) PROVE WsConns'
  <2> DEFINE x == [conn[c] EXCEPT !.at = "reading"]
  <2>1. x \in WsConn /\ x.queue = conn[c].queue /\ x.replay = conn[c].replay
    BY <1>0 DEF WsConn
  <2>2. conn' = [conn EXCEPT ![c] = x]
    BY <1>9 DEF Browsers!Replayed
  <2> HIDE DEF x
  <2>. QED BY <1>0, <1>5, <2>1, <2>2 DEF WsConnFine
<1>10. WsConns'
  BY <1>6, <1>7, <1>8, <1>9
<1>. QED BY <1>2, <1>3, <1>10 DEF WsInv

\* What is in the queue goes to the browser, which may have gone.
LEMMA WsWriteStep ==
  ASSUME WsInv, NEW c \in Conns,
         Browsers!Write(c) \/ Browsers!Lose(c) \/ Browsers!Leave(c)
  PROVE  WsInv'
<1>0. /\ WsConnFine(conn[c], last) /\ conn[c] \in WsConn
      /\ last \in Nat /\ heard \subseteq 1 .. last /\ Cap \in Nat
  BY BoundsAssumption DEF WsInv, WsConns, WsConnFine, WsNumbers
<1>1. UNCHANGED <<last, buffer, pub>>
  BY DEF Browsers!Write, Browsers!Lose, Browsers!Leave
<1>2. WsPublishers'
  BY <1>1 DEF WsInv, WsPublishers
<1>3. ASSUME NEW x \in WsConn, conn' = [conn EXCEPT ![c] = x],
             x.queue = conn[c].queue \/ x.queue = <<>>, x.replay = conn[c].replay
      PROVE  WsConns'
  <2>1. Len(x.queue) <= Cap /\ \A i \in 1 .. Len(x.queue) : x.queue[i] <= last
    BY <1>0, <1>3 DEF WsConnFine
  <2>. QED BY <1>0, <1>1, <1>3, <2>1, WsConnMoves DEF WsInv, WsConnFine
<1>4. CASE Browsers!Write(c)
  <2> DEFINE q == conn[c].queue
  <2>1. q \in Seq(Nat \ {0}) /\ q # <<>>
    BY <1>0, <1>4 DEF WsConn, Browsers!Write
  <2>2. Head(q) \in 1 .. last
    <3>1. Head(q) = q[1] /\ Head(q) \in Nat \ {0} /\ 1 \in 1 .. Len(q)
      BY <2>1
    <3>. QED BY <1>0, <3>1 DEF WsConnFine
  <2>3. heard' \subseteq 1 .. last
    BY <1>0, <1>4, <2>2 DEF Browsers!Write
  <2>4. WsNumbers'
    BY <1>1, <1>4, <2>3 DEF Browsers!Write, WsInv, WsNumbers
  <2>5. CASE conn' = [conn EXCEPT ![c].queue = Tail(@)]
    <3> DEFINE x == [conn[c] EXCEPT !.queue = Tail(q)]
    <3>1. /\ Tail(q) \in Seq(Nat \ {0}) /\ Len(Tail(q)) = Len(q) - 1 /\ Len(q) \in Nat
          /\ \A i \in 1 .. Len(Tail(q)) : Tail(q)[i] = q[i + 1] /\ i + 1 \in 1 .. Len(q)
      BY <2>1
    <3>2. x \in WsConn /\ x.queue = Tail(q) /\ x.replay = conn[c].replay
      BY <1>0, <3>1 DEF WsConn
    <3>3. Len(Tail(q)) <= Cap /\ \A i \in 1 .. Len(Tail(q)) : Tail(q)[i] <= last
      BY <1>0, <3>1 DEF WsConnFine
    <3>4. conn' = [conn EXCEPT ![c] = x]
      BY <2>5
    <3> HIDE DEF x, q
    <3>5. WsConnFine(x, last)
      BY <1>0, <3>2, <3>3 DEF WsConnFine
    <3>6. WsConns'
      BY <1>1, <3>4, <3>5, WsConnMoves DEF WsInv
    <3>. QED BY <1>2, <2>4, <3>6 DEF WsInv
  <2>6. CASE conn' = [conn EXCEPT ![c].done = TRUE]
    <3> DEFINE x == [conn[c] EXCEPT !.done = TRUE]
    <3>1. x \in WsConn /\ x.queue = conn[c].queue /\ x.replay = conn[c].replay
      BY <1>0 DEF WsConn
    <3>2. conn' = [conn EXCEPT ![c] = x]
      BY <2>6
    <3> HIDE DEF x
    <3>3. WsConns'
      BY <1>3, <3>1, <3>2
    <3>. QED BY <1>2, <2>4, <3>3 DEF WsInv
  <2>. QED BY <1>4, <2>5, <2>6 DEF Browsers!Write
<1>5. CASE Browsers!Lose(c)
  <2> DEFINE x == [conn[c] EXCEPT !.up = FALSE]
  <2>1. x \in WsConn /\ x.queue = conn[c].queue /\ x.replay = conn[c].replay
    BY <1>0 DEF WsConn
  <2>2. conn' = [conn EXCEPT ![c] = x]
    BY <1>5 DEF Browsers!Lose
  <2> HIDE DEF x
  <2>3. WsConns'
    BY <1>3, <2>1, <2>2
  <2>4. WsNumbers'
    BY <1>1, <1>5 DEF Browsers!Lose, WsInv, WsNumbers
  <2>. QED BY <1>2, <2>3, <2>4 DEF WsInv
<1>6. CASE Browsers!Leave(c)
  <2>0. <<>> \in Seq(Nat \ {0})
    OBVIOUS
  <2> DEFINE x == [conn[c] EXCEPT !.at = "left", !.done = TRUE, !.queue = <<>>]
  <2>1. x \in WsConn /\ x.queue = <<>> /\ x.replay = conn[c].replay
    BY <1>0, <2>0 DEF WsConn
  <2>2. conn' = [conn EXCEPT ![c] = x]
    BY <1>6 DEF Browsers!Leave
  <2> HIDE DEF x
  <2>3. WsConns'
    BY <1>3, <2>1, <2>2
  <2>4. WsNumbers'
    BY <1>1, <1>6 DEF Browsers!Leave, WsInv, WsNumbers
  <2>. QED BY <1>2, <2>3, <2>4 DEF WsInv
<1>. QED BY <1>4, <1>5, <1>6

LEMMA WsHolds == Browsers!Spec => []WsInv
<1>1. WsInv /\ [Browsers!Next]_Browsers!wsVars => WsInv'
  <2> SUFFICES ASSUME WsInv, [Browsers!Next]_Browsers!wsVars PROVE WsInv'
    OBVIOUS
  <2>1. CASE UNCHANGED Browsers!wsVars
    BY <2>1 DEF Browsers!wsVars, WsInv, WsNumbers, WsPublishers, WsConns
  <2>. QED BY <2>1, WsPublishStep, WsSendStep, WsReplayStep, WsWriteStep DEF Browsers!Next
<1>. QED BY <1>1, WsInitInv, PTL DEF Browsers!Spec

\* For any publishers and capacities: a browser hears numbers that were given,
\* and no queue outgrows its capacity.
THEOREM QueuesStayShort == Browsers!Spec => []Browsers!TypeOK
<1>1. WsInv => Browsers!TypeOK
  <2> SUFFICES ASSUME WsInv PROVE Browsers!TypeOK
    OBVIOUS
  <2>1. ASSUME NEW p \in Publishers
        PROVE  /\ pub[p].at \in {"free", "insert", "trim", "broadcast", "send"}
               /\ pub[p].seq \in 0 .. last /\ pub[p].todo \subseteq Conns
    <3>1. pub[p] \in WsJob(last) /\ 1 .. last \subseteq 0 .. last
      BY DEF WsInv, WsPublishers, WsNumbers
    <3>. QED BY <3>1 DEF WsJob
  <2>2. \A c \in Conns : conn[c] \in WsConn /\ Len(conn[c].queue) <= Cap
    BY DEF WsInv, WsConns, WsConnFine
  <2>3. \A c \in Conns : conn[c].at \in {"new", "added", "replaying", "reading", "left"}
    BY <2>2 DEF WsConn
  <2>. QED BY <2>1, <2>2, <2>3 DEF WsInv, WsNumbers, Browsers!TypeOK
<1>. QED BY <1>1, WsHolds, PTL

---------------------------------------------------------------------------

(***************************************************************************)
(* The types of the sum.  Most are in the invariants above; a bound that a *)
(* guard keeps, and that no other property needs, is added here.           *)
(***************************************************************************)

LEMMA AccessTyped == Access!Spec => []Access!TypeOK
<1>1. AccessInv => Access!TypeOK
  <2> SUFFICES ASSUME AccessInv PROVE Access!TypeOK
    OBVIOUS
  <2>1. user.ver \in 1 .. MaxChanges + 1
    BY EdgesAssumption DEF AccessInv, AccessTypes, OneVersionEach, WritersAreAlone
  <2>2. \A l \in Logins : login[l].at \in {"none", "live", "revoked", "expired"}
    BY DEF AccessInv, AccessTypes, AccessRow
  <2>3. Len(tokens) \in Nat /\ \A l \in Logins : login[l].jti \in Nat
    BY DEF AccessInv, AccessTypes, AccessRow
  <2>4. \A l \in Logins : login[l].jti \in 0 .. Len(tokens)
    BY <2>3 DEF AccessInv, TokensAreSigned
  <2>. QED BY <2>1, <2>2, <2>4 DEF AccessInv, AccessTypes, Access!TypeOK
<1>. QED BY <1>1, AccessHolds, PTL

LEMMA DirectoryTyped == Directory!Spec => []Directory!TypeOK
<1>1. DirectoryInv => Directory!TypeOK
  BY DEF DirectoryInv, DirectoryTypes, TasksInOrder, Directory!TypeOK
<1>. QED BY <1>1, DirectoryHolds, PTL

LEMMA HooksTyped == Hooks!Spec => []Hooks!TypeOK
<1>1. HookInv => Hooks!TypeOK
  <2> SUFFICES ASSUME HookInv PROVE Hooks!TypeOK
    OBVIOUS
  <2>1. \A e \in Events : row[e].status \in {"none", "pending", "processing", "success", "dead_letter"}
                          /\ row[e].attempts \in 0 .. MaxRetries
    BY DEF HookInv, HookTypes, HookRow
  <2>2. \A w \in Workers : worker[w].at \in {"rest", "post", "succeeded", "failed"}
    BY DEF HookInv, HookTypes, HookJob, Hooks!Rest
  <2>. QED BY <2>1, <2>2 DEF Hooks!TypeOK
<1>. QED BY <1>1, HooksHold, PTL

LEMMA RobotTyped == Robot!Spec => []Robot!TypeOK
<1>1. RobotInv => Robot!TypeOK
  <2> SUFFICES ASSUME RobotInv PROVE Robot!TypeOK
    OBVIOUS
  <2>1. far.gen <= pcmGen /\ pcmGen = reader.gen
    <3>1. Len(wire) \in Nat
      BY DEF RobotInv, RobotTypes
    <3>2. GenAfter(far, wire, 0) <= GenAfter(far, wire, Len(wire))
      BY <3>1 DEF RobotInv, StreamInOrder
    <3>. QED BY <3>2 DEF RobotInv, StreamInOrder, GenAfter
  <2>2. sender.at \in {"idle", "send", "wait"} /\ reader.current \in 0 .. MaxResponses
    BY DEF RobotInv, RobotTypes
  <2>. QED BY <2>1, <2>2 DEF RobotInv, RobotTypes, Robot!TypeOK
<1>. QED BY <1>1, RobotHolds, PTL

LEMMA RegistrarTyped == Registrar!Spec => []Registrar!TypeOK
<1>1. RegInv => Registrar!TypeOK
  <2> SUFFICES ASSUME RegInv PROVE Registrar!TypeOK
    OBVIOUS
  <2>1. Registrar!Cardinality(nonces) <= NonceCap
    BY RegCardinality DEF RegInv, NoncesAreFew
  <2>2. ASSUME NEW list \in saves \union {binds, stored}
        PROVE  list \in Seq(Registrar!Binding) /\ Registrar!IsInjective(list)
    <3>1. ContactList(list)
      BY DEF RegInv, ListsAreOfContacts
    <3>2. \A i, j \in DOMAIN list : list[i] = list[j] => i = j
      BY <3>1 DEF ContactList
    <3>. QED BY <3>1, <3>2 DEF ContactList, Registrar!IsInjective
  <2>3. device \in [Phones -> RegDevice] /\ registers \subseteq RegRequest
    BY DEF RegInv, DevicesAreTyped
  <2>. QED BY <2>1, <2>2, <2>3
         DEF RegInv, NoncesAreFew, RegDevice, RegRequest, ServingIsTyped, RegServing, Registrar!TypeOK
<1>. QED BY <1>1, RegHolds, PTL

\* A call is in one of its four stages.
CallStages ==
  \A c \in Calls : "at" \in DOMAIN call[c] /\ call[c].at \in {"idle", "routed", "in", "on"}

LEMMA ConfigTyped == Spec => []TypeOK
<1>1. Init => CallStages
  BY DEF Init, CallStages, NoCall
<1>2. Inv /\ CallStages /\ [Next]_configVars => CallStages'
  <2> SUFFICES ASSUME Inv, CallStages, [Next]_configVars PROVE CallStages'
    OBVIOUS
  <2>1. ASSUME NEW c \in Calls, Resolve(c) \/ StartInbound(c) \/ MovesOn(c)
        PROVE  CallStages'
    <3>1. \/ \E x : call' = [call EXCEPT ![c] = [at |-> "routed", version |-> active, item |-> x]]
          \/ \E v, x : call' = [call EXCEPT ![c] = [at |-> "in", version |-> v, item |-> x]]
          \/ /\ call[c].at \in {"in", "on"}
             /\ \E x : call' = [call EXCEPT ![c].at = "on", ![c].item = x]
      BY <2>1 DEF Resolve, StartInbound, MovesOn
    <3>2. call = [d \in Calls |-> call[d]]
      BY DEF Inv, Tables
    <3>3. \A d \in Calls \ {c} : call'[d] = call[d]
      BY <3>1, <3>2
    <3>4. "at" \in DOMAIN call'[c] /\ call'[c].at \in {"routed", "in", "on"}
      <4>1. CASE \E x : call' = [call EXCEPT ![c] = [at |-> "routed", version |-> active, item |-> x]]
        BY <3>2, <4>1
      <4>2. CASE \E v, x : call' = [call EXCEPT ![c] = [at |-> "in", version |-> v, item |-> x]]
        BY <3>2, <4>2
      <4>3. CASE /\ call[c].at \in {"in", "on"}
                 /\ \E x : call' = [call EXCEPT ![c].at = "on", ![c].item = x]
        <5>1. PICK x : call' = [call EXCEPT ![c].at = "on", ![c].item = x]
          BY <4>3
        <5>2. call'[c] = [call[c] EXCEPT !.at = "on", !.item = x]
          BY <3>2, <5>1
        <5>3. "at" \in DOMAIN call[c]
          BY DEF CallStages
        <5>. QED BY <5>2, <5>3
      <4>. QED BY <3>1, <4>1, <4>2, <4>3
    <3>. QED BY <3>3, <3>4 DEF CallStages
  <2>2. CASE UNCHANGED call
    BY <2>2 DEF CallStages
  <2>. QED
    BY <2>1, <2>2
       DEF Next, configVars, Prepare, Commit, StoreConfig, ActivateConfig
<1>3. Inv /\ CallStages => TypeOK
  <2> SUFFICES ASSUME Inv, CallStages PROVE TypeOK
    OBVIOUS
  <2>1. DOMAIN status = DOMAIN versions
    BY DEF Inv, Types
  <2>2. \A v \in DOMAIN versions : versions[v] \in Bundle
    BY DEF Inv, Types
  <2>3. \A b \in Bundle : b.items \subseteq Items /\ b.refs \subseteq Items \X Items
    BY DEF Bundle
  <2>. QED BY <2>1, <2>2, <2>3 DEF Inv, Types, CallStages, TypeOK
<1>. QED BY <1>1, <1>2, <1>3, ConfigHolds, PTL DEF Spec

LEMMA GatewayTyped == Gateway!Spec => []Gateway!TypeOK
<1>1. GatewayInv => Gateway!TypeOK
  BY DEF GatewayInv, GatewayTypes, GatewayCall, GatewayRequest, FreshIsOwn, Gateway!TypeOK
<1>. QED BY <1>1, GatewayHolds, PTL

\* What an administrator binds and unbinds is bounded.
BindsAreFew == adminBinds \in 0 .. MaxBinds

LEMMA SignOnTyped == SignOn!Spec => []SignOn!TypeOK
<1>1. SignOn!Init => BindsAreFew
  BY BoundsAssumption DEF SignOn!Init, BindsAreFew
<1>2. BindsAreFew /\ [SignOn!Next]_SignOn!ssoVars => BindsAreFew'
  <2> SUFFICES ASSUME BindsAreFew, [SignOn!Next]_SignOn!ssoVars PROVE BindsAreFew'
    OBVIOUS
  <2>1. UNCHANGED adminBinds \/ (adminBinds < MaxBinds /\ adminBinds' = adminBinds + 1)
    BY DEF SignOn!Next, SignOn!ssoVars, SignOn!Start, SignOn!Exchange, SignOn!TakeFlow, SignOn!FindUser,
           SignOn!CreateUser, SignOn!Refuse, SignOn!GiveTicket, SignOn!BindIdentity, SignOn!DeleteIdentity
  <2>. QED BY <2>1, BoundsAssumption DEF BindsAreFew
<1>3. SignOnInv /\ BindsAreFew => SignOn!TypeOK
  <2> SUFFICES ASSUME SignOnInv, BindsAreFew PROVE SignOn!TypeOK
    OBVIOUS
  <2>1. \A c \in Callbacks : callback[c].at \in {"idle", "claims", "new", "account"}
    BY DEF SignOnInv, SignOnTypes, SignOnAsking, SignOnKnowing, SignOn!Idle
  <2>. QED BY <2>1 DEF SignOnInv, SignOnTypes, BindsAreFew, SignOn!TypeOK
<1>. QED BY <1>1, <1>2, <1>3, SignOnHolds, PTL DEF SignOn!Spec

\* Imports that were begun are bounded.
ImportsAreFew == begun \in 0 .. MaxImports

LEMMA ImportTyped == Import!Spec => []Import!TypeOK
<1>1. Import!Init => ImportsAreFew
  BY BoundsAssumption DEF Import!Init, ImportsAreFew
<1>2. ImportsAreFew /\ [Import!Next]_Import!importVars => ImportsAreFew'
  <2> SUFFICES ASSUME ImportsAreFew, [Import!Next]_Import!importVars PROVE ImportsAreFew'
    OBVIOUS
  <2>1. UNCHANGED begun \/ (begun < MaxImports /\ begun' = begun + 1)
    BY DEF Import!Next, Import!importVars, Import!Begin, Import!StoreConfig, Import!WriteRows,
           Import!ActivateConfig, Import!Interrupted
  <2>. QED BY <2>1, BoundsAssumption DEF ImportsAreFew
<1>3. ImportInv /\ ImportsAreFew => Import!TypeOK
  <2> SUFFICES ASSUME ImportInv, ImportsAreFew PROVE Import!TypeOK
    OBVIOUS
  <2>1. \A i \in Imports : import[i].at \in {"idle", "store", "write", "activate"}
    BY DEF ImportInv, ImportTypes, ImportWork, Import!Idle
  <2>. QED BY <2>1 DEF ImportInv, ImportTypes, ImportsAreFew, Import!TypeOK
<1>. QED BY <1>1, <1>2, <1>3, ImportHolds, PTL DEF Import!Spec

\* The call of a token, and the one a visitor is about to store, was started.
CallsWereStarted ==
  /\ \A t \in Tokens : pass[t].call <= started
  /\ \A v \in Visitors : visit[v].at = "commit" => visit[v].call <= started

LEMMA GuestsTyped == Guests!Spec => []Guests!TypeOK
<1>1. Guests!Init => CallsWereStarted
  BY DEF Guests!Init, CallsWereStarted, Guests!Away
<1>2. GuestInv /\ CallsWereStarted /\ [Guests!Next]_Guests!guestVars => CallsWereStarted'
  <2> SUFFICES ASSUME GuestInv, CallsWereStarted, [Guests!Next]_Guests!guestVars PROVE CallsWereStarted'
    OBVIOUS
  <2> USE DEF GuestInv
  <2>1. CASE UNCHANGED Guests!guestVars
    BY <2>1 DEF Guests!guestVars, CallsWereStarted
  <2>2. ASSUME NEW t \in Tokens, Guests!CreateSession(t) \/ Guests!Expires(t)
        PROVE  CallsWereStarted'
    <3>1. \E a \in {"issued", "expired"} : pass' = [pass EXCEPT ![t].at = a]
      BY <2>2 DEF Guests!CreateSession, Guests!Expires
    <3>2. \A u \in Tokens : pass'[u].call = pass[u].call
      BY <3>1 DEF GuestTypes
    <3>3. UNCHANGED <<visit, started>>
      BY <2>2 DEF Guests!CreateSession, Guests!Expires
    <3>. QED BY <3>2, <3>3 DEF CallsWereStarted
  <2>3. ASSUME NEW v \in Visitors, NEW t \in Tokens, Guests!JoinByToken(v, t)
        PROVE  CallsWereStarted'
    <3>1. visit' = visit \/ visit' = [visit EXCEPT ![v] = [at |-> "start", token |-> t]]
      BY <2>3 DEF Guests!JoinByToken
    <3>2. \A w \in Visitors : visit'[w] = visit[w] \/ visit'[w].at = "start"
      BY <3>1 DEF GuestTypes
    <3>3. UNCHANGED <<pass, started>>
      BY <2>3 DEF Guests!JoinByToken
    <3>. QED BY <3>2, <3>3 DEF CallsWereStarted
  <2>4. ASSUME NEW v \in Visitors, Guests!Starts(v)
        PROVE  CallsWereStarted'
    <3>1. /\ started' = started + 1 /\ UNCHANGED pass
          /\ visit' = [visit EXCEPT ![v] = [at |-> "commit", token |-> visit[v].token, call |-> started + 1]]
      BY <2>4 DEF Guests!Starts
    <3>2. \A w \in Visitors : visit'[w] = visit[w] \/ visit'[w].call = started + 1
      BY <3>1 DEF GuestTypes
    <3>3. \A w \in Visitors : visit[w].at = "commit" => visit[w].call \in Nat
      BY DEF GuestTypes, Guests!Away
    <3>4. started \in Nat /\ \A t \in Tokens : pass[t].call \in Nat
      BY DEF GuestTypes
    <3>5. \A w \in Visitors : visit'[w].at = "commit" => visit'[w].call <= started'
      BY <3>1, <3>2, <3>3, <3>4 DEF CallsWereStarted
    <3>. QED BY <3>1, <3>4, <3>5 DEF CallsWereStarted
  <2>5. ASSUME NEW v \in Visitors, Guests!StartFails(v) \/ Guests!Commits(v) \/ Guests!CommitFails(v)
        PROVE  CallsWereStarted'
    <3>1. visit' = [visit EXCEPT ![v] = Guests!Away]
      BY <2>5 DEF Guests!StartFails, Guests!Commits, Guests!CommitFails
    <3>2. \A w \in Visitors : visit'[w] = visit[w] \/ visit'[w].at = "away"
      BY <3>1 DEF GuestTypes, Guests!Away
    <3>3. started \in Nat /\ (started' = started \/ started' = started + 1)
      BY <2>5 DEF Guests!StartFails, Guests!Commits, Guests!CommitFails, GuestTypes
    <3>4. \A t \in Tokens : pass[t].call \in Nat
      BY DEF GuestTypes
    <3>5. \A w \in Visitors : visit[w].at = "commit" => visit[w].call \in Nat
      BY DEF GuestTypes, Guests!Away
    <3>6. \A w \in Visitors : visit'[w].at = "commit" => visit'[w].call <= started'
      BY <3>2, <3>3, <3>5 DEF CallsWereStarted
    <3>7. CASE UNCHANGED pass
      BY <3>3, <3>4, <3>6, <3>7 DEF CallsWereStarted
    <3>8. CASE Guests!Commits(v)
      <4>1. pass' = [pass EXCEPT ![visit[v].token].call = visit[v].call] /\ visit[v].at = "commit"
            /\ UNCHANGED started
        BY <3>8 DEF Guests!Commits
      <4>2. \A t \in Tokens : pass'[t].call = pass[t].call \/ pass'[t].call = visit[v].call
        BY <4>1 DEF GuestTypes
      <4>3. \A t \in Tokens : pass'[t].call <= started'
        BY <4>1, <4>2 DEF CallsWereStarted
      <4>. QED BY <3>6, <4>3 DEF CallsWereStarted
    <3>. QED BY <2>5, <3>7, <3>8 DEF Guests!StartFails, Guests!CommitFails
  <2>. QED BY <2>1, <2>2, <2>3, <2>4, <2>5 DEF Guests!Next
<1>3. GuestInv /\ CallsWereStarted => Guests!TypeOK
  <2> SUFFICES ASSUME GuestInv, CallsWereStarted PROVE Guests!TypeOK
    OBVIOUS
  <2>1. \A t \in Tokens : pass[t].at \in {"none", "issued", "expired"} /\ pass[t].call \in Nat
    BY DEF GuestInv, GuestTypes
  <2>2. \A t \in Tokens : pass[t].call \in 0 .. started
    BY <2>1 DEF GuestInv, GuestTypes, CallsWereStarted
  <2>3. \A v \in Visitors : visit[v].at \in {"away", "start", "commit"}
    BY DEF GuestInv, GuestTypes, Guests!Away
  <2>. QED BY <2>1, <2>2, <2>3 DEF GuestInv, GuestTypes, Guests!TypeOK
<1>. QED BY <1>1, <1>2, <1>3, GuestsHold, PTL DEF Guests!Spec

LEMMA NotesTyped == Notes!Spec => []Notes!TypeOK
<1>1. NoteInv /\ NoteSwitch => Notes!TypeOK
  BY DEF NoteInv, NoteTypes, NoteTask, NoteCopy, NoteStages, NoteSwitch, Notes!TypeOK
<1>. QED BY <1>1, NotesHold, NoteSwitchHolds, PTL

---------------------------------------------------------------------------

(***************************************************************************)
(* The sum.                                                                *)
(***************************************************************************)

\* For any people, accounts and sign-ins at a time: a person at the provider has
\* one account, nobody comes into the account of somebody else, and for any
\* agents, requests and moves of a call a command with a version is for a call of
\* its own.
THEOREM EverybodyTheirOwn == EdgesSpec => OnlyItsOwn
<1>. QED BY PartsBehave, OnePersonOneAccount, NobodyElsesAccount, OwnCallOnly, PTL DEF OnlyItsOwn

\* For any logins, requests and changes: no session of before a logout, a new
\* password or a new role is a way in.
THEOREM NoWayBack == EdgesSpec => []NoWayBackIn
<1>1. Access!NoOldCredential /\ Access!LogoutHolds <=> NoWayBackIn
  BY DEF NoWayBackIn
<1>. QED BY <1>1, PartsBehave, NoOldTokenIsTaken, LogoutIsFinal, PTL

\* For any calls and versions, beside everything else: a call finds its
\* configuration.
THEOREM CallsFindTheirsHere == EdgesSpec => []CallFindsItsConfig
<1>. QED BY PartsBehave, CallsFindTheirs, PTL

\* For any interruptions between the server, its database and the switch: what
\* they say of each other is true, in the directory, in an import, of a
\* notification and of a robot.
THEOREM ServersTellTheSame == EdgesSpec => []ServersAgree
<1>1. /\ Directory!NoAgentAlone /\ Directory!EditNotForgotten
      /\ Import!SeatsHaveRows /\ Import!ReportIsTrue
      /\ Notes!NothingLeftRinging
      /\ Robot!NothingSwallowed
      => ServersAgree
  BY DEF ServersAgree
<1>. QED BY <1>1, PartsBehave, EditsAreCarried, AgentsHaveUsers, SeatsAreAgents, ReportsAreTrue,
            NoCallIsLeft, BlocksAreDelivered, PTL

\* For any number of askers, at the same time or again: what may happen once
\* happens once.
THEOREM HappensOnce == EdgesSpec => OnceOnly
<1>. QED BY PartsBehave, ExchangedOnce, OneSessionForAState, OneCallForAToken, OneBindingEach,
            ToldAtMostOnce, ConfirmedStaysSo, PTL DEF OnceOnly

\* For any delays: what is over does not come back.
THEOREM OverIsOver == EdgesSpec => NothingOldReturns
<1>. QED BY PartsBehave, CancellationHolds, NewestIsKept, TheCutIsSilent, PTL DEF NothingOldReturns

\* For any constants: the variables of the twelve parts keep their types and
\* bounds.
THEOREM TypesHold == EdgesSpec => []TypesOK
<1>1. /\ TypeOK /\ Access!TypeOK /\ Directory!TypeOK /\ Guests!TypeOK /\ Hooks!TypeOK
      /\ Browsers!TypeOK /\ Robot!TypeOK /\ Notes!TypeOK /\ Gateway!TypeOK
      /\ Registrar!TypeOK /\ SignOn!TypeOK /\ Import!TypeOK
      <=> TypesOK
  BY DEF TypesOK
<1>. QED BY <1>1, PartsBehave, ConfigTyped, AccessTyped, DirectoryTyped, GuestsTyped, HooksTyped,
            QueuesStayShort, RobotTyped, NotesTyped, GatewayTyped, RegistrarTyped, SignOnTyped,
            ImportTyped, PTL

================================================================================
