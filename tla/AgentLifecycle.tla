---------------------------- MODULE AgentLifecycle ----------------------------
(***************************************************************************)
(* What the rest of the switch may rely on about the agents, whatever the  *)
(* calls, the operators and the recovery do: an agent is reserved for      *)
(* exactly one call at a time, a reservation starts from a free agent,     *)
(* turns into a conversation with the same call, and ends in a release     *)
(* before another call can reserve the agent.  A handler may move several  *)
(* agents in one step, each along its own lifecycle.                       *)
(***************************************************************************)
CONSTANTS Agents, Calls, NoCall

VARIABLES state, call

vars == <<state, call>>

Free == {"offline", "idle", "acw", "busy"}

Init == /\ state = [a \in Agents |-> "offline"]
        /\ call  = [a \in Agents |-> NoCall]

Becomes(a, st, c) == state'[a] = st /\ call'[a] = c

CheckIn(a) == state[a] \in Free /\ Becomes(a, "idle", call[a])

Presence(a) == /\ state[a] \in Free \ {"offline"}
               /\ \E st \in Free : Becomes(a, st, call[a])

\* The ACD, a transfer, a conference or an internal call rings the agent.
Offer(a) == state[a] = "idle" /\ \E c \in Calls : Becomes(a, "ringing", c)

\* The agent dials out.
Dial(a) == /\ state[a] \in {"idle", "acw"}
           /\ \E c \in Calls : Becomes(a, "on_call", c)

Connect(a) == state[a] = "ringing" /\ Becomes(a, "on_call", call[a])

Release(a) == state[a] \notin Free /\ \E st \in Free : Becomes(a, st, NoCall)

Step(a) == \/ CheckIn(a) \/ Presence(a) \/ Offer(a) \/ Dial(a)
           \/ Connect(a) \/ Release(a)

Next == /\ state' \in [Agents -> Free \cup {"ringing", "on_call"}]
        /\ call' \in [Agents -> Calls \cup {NoCall}]
        /\ \A a \in Agents : Step(a) \/ Becomes(a, state[a], call[a])

Spec == Init /\ [][Next]_vars
===============================================================================
