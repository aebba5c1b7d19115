----------------------------- MODULE AssetPlayback -----------------------------
(***************************************************************************)
(* The assets that an application plays to the legs of a room: the tick of *)
(* the room plays them, and their end is told with its reason.             *)
(***************************************************************************)
EXTENDS Naturals, FiniteSets

CONSTANTS
  PlayLegs, Assets,
  Frames  \* frames of an asset

VARIABLES
  targets,  \* legs whose media is connected
  heldLegs,
  assets,   \* asset |-> [at, leg, left, drain]
  outcome,  \* asset |-> what was told of it                    (history)
  playRoom  \* the room is open

assetVars == <<targets, heldLegs, assets, outcome, playRoom>>

NoAsset == [at |-> "none", leg |-> CHOOSE l \in PlayLegs : TRUE, left |-> 0, drain |-> FALSE]

Init ==
  /\ targets = {} /\ heldLegs = {}
  /\ assets = [a \in Assets |-> NoAsset]
  /\ outcome = [a \in Assets |-> {}]
  /\ playRoom = TRUE

---------------------------------------------------------------------------

\* The media of a leg connects or is lost; a leg is held or not.
Connect(l) ==
  /\ \/ targets' = (targets \ {l}) \union ({l} \ targets) /\ UNCHANGED heldLegs
     \/ heldLegs' = (heldLegs \ {l}) \union ({l} \ heldLegs) /\ UNCHANGED targets
  /\ UNCHANGED <<assets, outcome, playRoom>>

\* The leg has an asset that plays.
Busy(l) == \E a \in Assets : assets[a].at = "on" /\ assets[a].leg = l

\* StartPlayback: one asset per leg; a repeated identifier is the same playback.
StartPlayback(a, l) ==
  /\ playRoom /\ l \in targets /\ ~Busy(l) /\ assets[a].at = "none"
  /\ assets' = [assets EXCEPT ![a] = [at |-> "on", leg |-> l, left |-> Frames, drain |-> FALSE]]
  /\ UNCHANGED <<targets, heldLegs, outcome, playRoom>>

\* complete: the playback leaves the room and its end is told.
Over(A, how) ==
  /\ assets' = [a \in Assets |-> IF a \in A THEN [assets[a] EXCEPT !.at = "over"] ELSE assets[a]]
  /\ outcome' = [a \in Assets |-> IF a \in A THEN outcome[a] \union {how} ELSE outcome[a]]

Playing(A) == {a \in A : assets[a].at = "on"}

StopPlayback(a) ==
  /\ playRoom /\ assets[a].at = "on" /\ Over({a}, "stopped")
  /\ UNCHANGED <<targets, heldLegs, playRoom>>

\* applicationFrames for one asset.
TickAsset(a) ==
  LET x == assets[a] IN
  /\ playRoom /\ x.at = "on"
  /\ IF x.leg \notin targets THEN Over({a}, "failed")
     ELSE /\ x.leg \notin heldLegs
          /\ IF x.left > 0 THEN assets' = [assets EXCEPT ![a].left = @ - 1] /\ UNCHANGED outcome
             ELSE IF ~x.drain THEN assets' = [assets EXCEPT ![a].drain = TRUE] /\ UNCHANGED outcome
             ELSE Over({a}, "finished")
  /\ UNCHANGED <<targets, heldLegs, playRoom>>

\* LeaveRoom and CloseRoom stop the playbacks.
Leave(l) ==
  /\ playRoom /\ Over({a \in Playing(Assets) : assets[a].leg = l}, "stopped")
  /\ targets' = targets \ {l}
  /\ UNCHANGED <<heldLegs, playRoom>>

CloseRoom ==
  /\ playRoom /\ playRoom' = FALSE
  /\ Over(Playing(Assets), "stopped")
  /\ UNCHANGED <<targets, heldLegs>>

Next ==
  \/ \E l \in PlayLegs : Connect(l) \/ Leave(l) \/ \E a \in Assets : StartPlayback(a, l)
  \/ \E a \in Assets : StopPlayback(a) \/ TickAsset(a)
  \/ CloseRoom

\* The room has a clock; a leg that is held for ever holds its playback.
Fairness == \A a \in Assets : SF_assetVars(TickAsset(a))

Spec == Init /\ [][Next]_assetVars
FairSpec == Spec /\ Fairness

---------------------------------------------------------------------------

\* The variables keep the types of the playbacks.
TypeOK ==
  /\ targets \subseteq PlayLegs /\ heldLegs \subseteq PlayLegs /\ playRoom \in BOOLEAN
  /\ \A a \in Assets : assets[a].at \in {"none", "on", "over"} /\ assets[a].left <= Frames

\* A leg has one asset at a time, and of each the application hears one end:
\* finished, stopped or failed.
OneAssetOneEnd ==
  /\ \A a, b \in Assets : a # b /\ assets[a].at = "on" /\ assets[b].at = "on"
                            => assets[a].leg # assets[b].leg
  /\ \A a \in Assets : Cardinality(outcome[a]) = IF assets[a].at = "over" THEN 1 ELSE 0

\* An asset comes to its end, unless its leg stays on hold.
AssetEnds ==
  \A a \in Assets : assets[a].at = "on" ~> assets[a].at = "over" \/ assets[a].leg \in heldLegs
=============================================================================
