# A verification development of open-voip

open-voip is a call centre. **open-switch** (Go) is the telephone switch: call
control, distribution of calls to agents (ACD), voice menus (IVR), media and
SIP. **open-call** (Go) is the business backend: users, guests, configuration,
records, webhooks, notifications and a robot seat. **open-call-web** is the
browser client. The two servers talk over HTTP, and events flow from the switch
to open-call and on to the browsers; each server keeps its state in PostgreSQL.

Paths are relative to `src/open-switch/internal/` or, marked (oc), to
`src/open-call/internal/`.

## 1. Inventory

| Part | State | Operations and partners | What is hard | What makes it correct | Module |
|---|---|---|---|---|---|
| Agent directory, ACD (`layers/cccore/runtime.go`) | `os_agent_sessions` | agents sign in and out, call control reserves and releases | every caller is concurrent; read and write in two transactions; late releases | one call per agent, no reservation lost or orphaned | `AgentSessions` |
| Call control (`layers/control`) | `Service.calls`, `os_calls`, a lock per call | inbound, dispatch, answer, transfer, conference, IVR, hang-up, tick, a goroutine per dial | dial results, ticks and commands race; several fields describe one conversation; restart | conversations are backed by reservations, ended calls stay ended, offers end | `CallControl` |
| IVR engine (`layers/control/ivr.go`) | node, timers, hops, suspended business action | keys, tick, result, end of a prompt | the end of a prompt is told without the lock of the call; result against expiry | every caller leaves the flow; a result counts once | `IvrEngine` |
| Commands (`store/commands.go`, `layers/control/command_idempotency.go`) | `os_commands`, versions of calls | accept, run, complete, reconcile | look-up and insertion are two statements; restart while running | a key starts one mutation, the outcome is true and final | `CommandStore` |
| Direct control (`layers/control/direct.go`) | legs, dials, playbacks | an application creates, dials, bridges, plays | answers after the end, repeated requests | one ring per key, late answers leave nobody connected | `DirectControl` |
| Event log and delivery (`layers/integration/dispatcher.go`, `store/call_events.go`), intake (oc `app/switch_events.go`) | event log, deliveries; inbox, outbox, projections | publish, post, store, project, hand on | lost answers, retries out of order, crash between two writes | nothing acknowledged is lost, projections do not depend on the order | `EventDelivery` |
| Configuration (`layers/cccore/config_*.go`) | immutable versions, the active one | store, activate, edit | load before lock; calls keep their version | the active version is whole and one, a call finds what it goes to | `ConfigVersions` |
| Rooms and mixer (`layers/media/service.go`, `mix_scheduler.go`) | peers, senders, buffers | join, leave, close, tick, packets | three locks, handlers that hold a peer outside of them | no connection lost, nothing after the stop | `MediaRoom`, `IceExchange` |
| Recordings, prompts, application audio, assets, keys, playout (`layers/media/*.go`) | recorder, prompt, stream, asset, worker, buffer | start, stop, tick, goroutines | generations overtake each other; bounded queues; wrapping timestamps | each end is told once; order and bounds | `CallRecording`, `PromptPlayer`, `ApplicationAudio`, `AssetPlayback`, `Dtmf`, `PlayoutBuffer` |
| SIP dialogs (`layers/media/sip*.go`) | dialogs, ports | INVITE, PRACK, ACK, CANCEL, BYE | three parties end one dialog while it is answered | one BYE, ports returned, the flow waits for the 200 OK | `SipDialogs` |
| SIP registry (`layers/media/sip_registrar.go`) | bindings, nonces | REGISTER, look-up, restart | late requests, a bounded table | bindings never go back, telephones are served | `SipRegistrar` |
| HTTP interface (`app/http`) | - | decoding and routing | - | - | not modelled |
| Gateway (oc `app/http/bff*.go`) | - | reads the call, checks that the agent is offered it or has a leg, forwards with or without the version | the call moves on between the two; some versions are left behind | a command with a version takes effect on its agent's call only | `BffGateway` |
| Users and agents (oc `layers/biz/user`) | users, tasks of the worker | create, update, delete, synchronise | no transaction spans the two servers, and most steps after it fail unheard | an edit is forgotten, or an agent left without its user, by a failing step only, never by the order of steps | `UserDirectory` |
| Authentication (oc `layers/biz/auth`) | logins, revoked tokens | log in, refresh, log out, change | tokens are signed beside a change | nothing signed before a change is valid after it | `UserAccess` |
| Single sign-on (oc `layers/biz/oidcauth`, `authz`) | states, tickets, identities | callback, exchange, bind | repeated callbacks, first sign-ins at a time | one account per person, one session per state | `SingleSignOn` |
| Guests (oc `layers/biz/guest`) | tokens | issue, join, expire | joins at a time, failed starts | one call per token | `GuestEntry` |
| Import (oc `layers/biz/configio`) | tables of both servers | store, write, activate | failure and lost answer at every step | the report is true, seats have agents | `ConfigImport` |
| Webhooks (oc `layers/biz/webhook`) | deliveries with leases | dispatch, claim, post, retry | leases that run out, operators | nothing confirmed is posted again, deliveries end | `Webhooks` |
| Browser connections (oc `app/ws`) | hub, queues, replay buffer | broadcast, replay, leave | slow consumers | publishing ends, replay is complete | `WsHub` |
| Notifications (oc `notification`) | rows with leases | submit, cancel, step | lost answers, cancellation during a step | one ring, no call left | `Notifications` |
| Robot seat (oc `aibot`, `integration/switchapi`) | session, stream | ring, talk, interrupt, end | audio of an interrupted answer still arrives | nothing old is said, silence ends | `VoiceBot` |
| Speech synthesis, reports, surveys, audit, front of the configuration, web clients | - | - | - | - | not modelled |

`PROJECT.json` lists the components with their status and, under `hazards`, the
lines where something hard to test can go wrong, each with the properties that
watch it or the reason why none does.

## 2. Modules

Every component is one module: its state as variables, an action per handler,
transaction or step of a goroutine. What the code does under one lock or in one
transaction is one action; where it gives the lock up, reads before it takes it
or waits for another machine, the action ends. Variables marked *history* only
record what happened, for the properties; those marked *bound* count.

`AgentLifecycle` is the abstract specification of one agent as call control may
rely on it; `AgentSessions` and `CallControl` are both shown to implement it.
`SessionStore` holds the effects of the transactions of `runtime.go`, which both
use; `Lists` is the filtering of a list by its elements, for legs and bindings.
`MCCallControl` gives constants of `CallControl` their values. `SwitchServices`,
`MediaPlane` and `Edges` put modules that share no variable into one run
(section 3).

### Agents and calls

**SessionStore, AgentSessions.** A row is `[state, call, pend]` for the columns
`state`, `current_call_id`, `pending_checkout`; a missing row is `Offline`.
`Refused`, `Ignored` and `Moved` are the three outcomes of `setState`: a
conflict, the silent success of a late release, the write. `CheckOut` and
`SetPresence` are two actions, the read (`ReadPresence`, kept in `intent`) and
the guarded write. Call control is the most general client: `grants[c]` is what
call `c` reserved and did not give back, and `Release` may come at any time.

**CallControl.**

| Variable | In the code |
|---|---|
| `mem[c]` | the `runtimeCall` in `Service.calls`: state, queue, `offeredAgent`, `activeAgent`, `consultFrom`, agents' legs, `sipOfferLeg`, whether `sipOfferCancel` and `answeredAt` are set |
| `db[c]` | the row of `os_calls` as the last `transition` wrote it |
| `session` | `os_agent_sessions` |
| `dials` | goroutines in `OriginateSIP`, of devices (`ringDevice`) and carriers (`originateSIPCall`) |
| `dispatching` | calls whose handler is inside `tryDispatch` and holds the lock |
| `registered` | devices that `lookupReg` finds |
| `phase` | serving, or in the recovery of `app/run.go` |

A handler is one action, since it runs under the lock of its call; one that ends
in `tryDispatch` puts the call into `dispatching`, and each round of it is an
action (`NobodyFree`, `Offer`, `OfferFails`), because several calls compete for
agents there and the function calls itself again after a failed dial. Dial
results, ticks, requests of agents, registrations and crashes interleave freely.
`Commands` and `Faults` select what operators and environment do in an instance;
without `"overlap"` the operators wait for a consultation to be answered before
they complete it and do not transfer or re-enter the IVR during one.

### Services of the switch

**CommandStore.** `rows` is `os_commands`, `calls` the version and end of each
call, `owner` its lock, `job` the requests. The stages of a request are the
statements of `runIdempotentMutation`: lock, version guard, `Lookup`, `Insert`
(refused by the unique key), `MarkRunning`, the mutation, `Complete`. `Restart`
loses the requests; `Open` and `Serve` are the start-up with `ReconcileStale`.

**EventDelivery.** `log`/`deliveries` are written in the transaction of the
change; `Flush` reads a batch, `Deliver` posts its first event, `Record` writes
the outcome. On the other side `Project` and `Commit` are the transaction of
inbox, projection and outbox; an answer may be lost, a transaction fail, either
process die. `DeliverOutbox` hands stored events to the hub. A recording's
statuses come from `SaveRecording`, from `RecordingFailedUnsaved` and from
`SaveMeta`, in which a failure stays (`Merge`).

**IvrEngine.** A flow is a graph of nodes with the shapes `validateIVR` lets
through; `running` says that the handler that entered a node has still to
execute it. Keys, `Tick`, results (`CompleteAction`) and the voicemail's timer
run under the lock; `PromptFinished` reads the node without it and `PromptJump`
jumps with it. Hours and queue conditions are choices, data of the call as well.

**DirectControl.** One call of an application: `dialing[k]` is the goroutine of
the dial with key `k`, `commands[k]` its row, `hashes[k]` the memory of the
runtime, `sip` what is connected in the room. `LateDial`, `DialFailed` and
`DialAnswered` are the three ends of the goroutine after it has the lock again.

### Media

**MediaRoom**: `phase`, `peers` (under the lock of the room), `pc` (where each
connection is, with the handlers that hold one outside the lock), `senders` and
`buffers` (under the lock of the mixer), `sends` and `reads` (a tick and packets
between the two). **IceExchange**: requests that looked up a peer which a new
join may have replaced. **CallRecording**: `StartRecording` as `Check`, `Open`,
`Install`; the tick that reads the recorder and hands it a group after the
unlock (`TickEnqueue`), which a full queue refuses, and fails the recorder in a
step of its own (`TickFail`), since `enqueue` gives its lock up between the two;
one consumer; stop with its time limit. **PromptPlayer**: generation
numbers, producers, the fade to a conversation, sleeping goroutines that end
what no tick ended. **ApplicationAudio**, **AssetPlayback**: streams with
generations and their end markers, assets with their ends. **Dtmf**: the end
packets of keys, which arrive in any order, the last timestamp a SIP leg
remembers, one worker that ends when the list is empty.
**PlayoutBuffer**: positions from timestamps of `Width` bits, a cursor that
moves with the clock of the room, late runs, overflow. **SipDialogs**: the
goroutine that answers or dials step by step (`at`), the ends on their way
(`endings`: looked up under the lock, carried out later one dialog at a time),
the callbacks deferred until the 200 OK (`gate`, `deferred`).

### Around the calls

| Module | State | One action is |
|---|---|---|
| `SipRegistrar` | `requests` on their way, those in `onRegister` (`serving`), `nonces`, `binds` in order, `saves` and `stored` | the look at the challenge (`Verify`), at the CSeq (`Check`) and the change of the list (`Write`), each under the lock and others between them; the write to the table after it; a restart |
| `ConfigVersions` | `versions`, `status`, `active`, `editor` (the edit prepared before the lock), `call` (pinned version) | load and edit; the transaction that stores and activates; a step of a call |
| `UserAccess` | rows of the user and its logins with their locks, tokens, revocations | a statement or the transaction from lock to commit |
| `SingleSignOn` | states, callbacks under way, accounts, identities, tickets | a statement; `NewOIDCUser` is a transaction |
| `UserDirectory` | account, copy in the switch, task, requests, worker, `lapses` (what failed unheard) | a transaction, a request, the arrival of a request (lost answers), each of which may fail; a stop of open-call |
| `GuestEntry` | tokens, row locks, visitors, calls started | lock, start in the switch, commit |
| `ConfigImport` | tables of open-call, versions of the switch, answers | store, write, activate, each with failure or lost answer |
| `Webhooks` | rows with status and attempts, workers | claim, post, mark |
| `WsHub` | number, buffer, publisher, connections with their queues | a statement of a publish, a broadcast, a step of a connection's handler |
| `Notifications` | row with lease, workers' copies, the call in the switch | claim, a request to the switch (with lost answer), the guarded write |
| `VoiceBot` | worker's session, reader, sender, stream, queue of the switch | an event of the model, a message, an acknowledgement |
| `BffGateway` | the call as the view shows it (who is offered, active, asked, with a leg), requests with the version read and the one they carry, `displaced` (who lost the call within its version) | the check over a view (`Prepare`), the execution; a command of another agent taken meanwhile (`Commanded`); a step of the switch by itself (`Moves`, `Shifts`) |

## 3. Runs

Passing runs. Each module checked in a sum is explored completely by itself: the
modules share no variable, `turn` is chosen in the initial state, only that
module moves. The sum exists because a question about ten small machines is one
run, not ten. `SwitchServices` extends `CommandStore` and `Edges` extends
`ConfigVersions`, the other modules are instances.

| Run | Instance | Shows |
|---|---|---|
| `agent_sessions` | 2 agents, 2 calls; 250 thousand states | `TypeOK`, `GrantKept`, `EachAgentLifecycle`: no granted reservation is lost |
| `calls_one` | 3 agents (one on SIP), 1 call; hold, transfers, consultations, outbound, crashes | `TypeOK`, `OfferReserved`, `TalkersReserved`, `RecoveryFreesAll` |
| `calls_two` | 2 agents (one on SIP), 2 calls, 2 queues with overflow; transfers, consultations, IVR, carrier, crashes; 1.2 million states | `NoStrayReservation`, `ActiveIsStaffed`, `HangupReleases`, `EachAgentLifecycle`: `CallControl` implements `AgentLifecycle` |
| `calls_overlap` | 2 agents, 2 calls, overlapping commands, conference, failing rooms and recordings, crashes | `MemoryPersisted`, `EndedForGood` |
| `calls_live` | 3 agents (one on SIP), 1 call, three dial ids; transfers, consultations, conference, IVR, carrier, unregistered devices, crashes; fair | `OffersEnd`, `HandlersEnd`: an offer that the tick or its own dial watches ends, and so does each dispatch that meets no unregistered device |
| `switch_services` | `CommandStore`, `EventDelivery`, `IvrEngine`, `DirectControl`; 390 thousand states | commands run once and tell the truth; events survive retries and crashes; callers leave the flow; dials and playbacks end and are told once |
| `media` | the nine media modules; 120 thousand states | recorders, prompts, streams, assets, rooms, candidates, keys, buffers, dialogs |
| `edges` | the twelve modules around the calls; 206 thousand states | registrations, versions, tokens, accounts, imports, guests, webhooks, browsers, notifications, the robot and the gateway |

A property of a sum is one promise, made of the properties of the modules that
owe it; each part is stated and explained in its own module:

| Run | Property | Parts |
|---|---|---|
| `switch_services` | `AtMostOnce` | of `CommandStore`: a mutation starts once under a key |
| | `AnswersAreTrue` | `SuccessIsTrue`, `OutcomeStays` of `CommandStore` |
| | `EventsAreKept` | `AckMeansStored`, `HubHearsStored` of `EventDelivery` |
| | `RecordingIsGravest` | of `EventDelivery`: the projection does not depend on the order |
| | `MovesInFlow` | `NoJumpOutside`, `ResultMovesCall` of `IvrEngine` |
| | `DialsAreTrue` | `DialledOnce`, `LateAnswerLeaves`, `PlaybackToldOnce` of `DirectControl` |
| | `ServicesSettle` | `EventSettles`, `StoredIsHeard`; `FlowIsLeft`; `DialSettles`, `PlaybackEnded` |
| `media` | `TakenIsKept` | of `CallRecording` |
| | `EndsToldOnce` | `FailureToldOnce` (recording), `ToldOnce` (prompt), `EndIsTrue` (application audio), `OneAssetOneEnd`, `ByeOnce` (dialog) |
| | `NothingOldPlays` | `NoOldAudio`, `NoOlderPrompt` |
| | `NothingLost` | `NoPeerLost`, `CandidatesAdded` |
| | `NothingAfterEnd` | `OneRecorder`, `NothingAfterStop` (mixer), `PortReturned` (dialog) |
| | `InOrder` | `HeardAsQueued` (keys), `PositionIsSent`, `HeardForward` (buffer) |
| | `FlowWaitsForAnswer` | of `SipDialogs` |
| | `MediaSettles` | `ConsumerEnds`, `LossIsTold`, `PromptEnds`, `MusicEnds`, `AssetEnds`, `PeersClose`, `KeysHeard`, `BufferDrains`, `DialogSettles` |
| `edges` | `CallFindsItsConfig` | of `ConfigVersions` |
| | `NoWayBackIn` | `NoOldCredential`, `LogoutHolds` of `UserAccess` |
| | `OnceOnly` | `RotatedOnce` (token), `SignedInOnce` (sign-in), `SameCall` (guest), `OncePerContact` (telephone), `ToldOnce` (notification), `ConfirmedIsDone` (webhook) |
| | `OnlyItsOwn` | `OneAccount`, `OnlyOwnAccount` (sign-on), `OnlyItsOwnCall` (gateway) |
| | `ServersAgree` | `NoAgentAlone`, `EditNotForgotten` (users), `SeatsHaveRows`, `ReportIsTrue` (import), `NothingLeftRinging` (notification), `NothingSwallowed` (robot) |
| | `NothingOldReturns` | `CancelWins` (notification), `NeverOlder` (telephone), `NothingOldIsSaid` (robot) |
| | `EdgesSettle` | `DeliveriesEnd`, `NotificationEnds`, `PublishEnds`, `ClosedIsForgotten`, `SilenceEnds`, `SessionEnds`, `Served` |

The sums check the types of their modules together (`TypesOK`).

Runs in which TLC finds that the code does not do what a comment says:

| Run | Property | Behaviour |
|---|---|---|
| `unregistered_device` | `DispatchReturns` | `tryDispatch` reserves, fails to dial, releases and calls itself with the same agent; only a registration ends it |
| `cdr_projection` | `CdrFollowsCall` | events of a call record carry version 0 and only a greater version updates: a record keeps the first state that arrived |
| `config_lost_update` | `NoLostUpdate` | two edits load the same active bundle before either takes the lock; the later one drops the other's item |
| `ws_replay` | `ReplayComplete` | while there are fewer than 1000 rows each event deletes the oldest row, so the replay buffer is empty after each event |

### Bounds

Agents and calls: two of each are the smallest instance in which a late release
can hit the wrong call and two calls compete for the last agent; three agents
are the smallest with a consultation and one more to dispatch to. Each call id
is used once. `MaxLegs` bounds the legs, `Legs` the ids of outstanding SIP
dials. The ids of the code are fresh, so a decline may forget its dial only while
two ids are left (`MayForgetDial`): with three, as in the runs about offers, the
dial that was declined is under way while the next agents ring, by telephone or in
the browser; `calls_overlap` has one id and no such decline. `calls_two` and
`calls_overlap` declare the calls symmetric (no property of theirs is a liveness
property and none names a call).

Services: two calls, one key and two clients are what a race for a key needs
(`MaxSent` 3 lets a third request find the row, `MaxVersion` 2 bounds the
mutations). Two events of a call, two attempts, two failing transactions and one
fault (`MaxEvents`, `MaxAttempts`, `MaxFailures`, `MaxFaults`) allow a younger
event to overtake an older one, a give-up and a crash between two writes. The
flow has a node of each type and a cycle; `MaxHops` 4 stands for the 100 of the
code. Three dials (`MaxDials`) with two keys and two destinations allow the
repetition and the misuse of a key.

Media: two recorders, so that two starts race; queues of one, so that they are
full; two keys with two end packets each, in any order; timestamps of 3 bits
that begin at 6, so that they wrap (`Width`, `Start`, and `MaxPos` for how far
the sender counts); `Capacity` 3 and `LateRun` 3 stand for the sizes of the
buffer; one redirect, one deferred callback and two ends on their way
(`MaxHops`, `MaxDefers`, `MaxEndings`).

Around the calls: two versions and one reference in a bundle (`MaxVersions`,
`MaxRefs`) suffice for a dangling reference and for a call that is a version
behind. `config_lost_update` has a second editor. The call of the gateway moves
on up to its sixth version (`MaxMoves`): an offer, an answer, a transfer to the
queue and the offer to the next agent while the former one still has a leg. One
request is on its way (`Commands`) while `Commanded` takes those of the other
agents; the theorem is for any number. `MaxLapses` 1 lets one kind of step of
the directory fail, as often as it likes; a property that excuses several names
each of them. Three tokens and one change of an account; three edits of two
administrators; two visitors and three calls; two workers, one late lease, one
retry of an operator; `Cap`, `Keep`, `HandoffCap`, `QueueCap` of one or two, so
that queues are full; three REGISTERs with a table of one challenge, so that it
is full; two states, callbacks, subjects and names with three accounts, one of
them local, and one binding by an administrator; two imports. The name of the
local account is fixed while another part than the sign-on moves. `Nonces` and
`Accounts` are large enough never to be exhausted, because the code draws fresh
ones.

Deadlock is not checked: a system without calls, requests or free ids may stop.

### Fairness

Fairness is assumed of what the processes themselves run, never of callers,
agents, operators, browsers, devices or faults:

- `CallControl`: the rounds of a dispatch, the goroutine of a dial (its context
  ends after 30 or 60 s), the tick of a timed-out offer, the recovery;
- `EventDelivery`: the retry loop, the recording of an answer, the outbox loop
  (tickers), the passing of a back-off;
- `IvrEngine`: the tick and the handler under way; `DirectControl`: the dial
  (60 s), the mixer and the goroutine that tells an end;
- media: consumers, workers and timers, the mixer between the two locks of a full
  queue, the clock of the room (a ticker of
  20 ms), goroutines that sleep. `AssetPlayback` assumes strong fairness of the
  tick: the leg may be held and resumed again and again, by people, whose holds
  are many ticks apart; a leg held for ever keeps its asset, and the property
  says so;
- `Notifications`, `Webhooks`: the tick of the workers, their requests (30 s,
  5 s), the passing of leases (90 s, 2 min) and deadlines;
- `WsHub`: the publisher and the handler of a connection; a browser that takes
  nothing is allowed, a broken connection is noticed;
- `VoiceBot`: the threads of a session and the switch, not the model;
- `SipRegistrar`: a telephone repeats its request, requests arrive, a challenge
  ages.

In a sum the fairness of a module that does not move is vacuous, because its fair
actions are disabled in its initial state.

## 4. Theorems

A theorem holds for every value of the constants that satisfies the named
assumptions below. `PROJECT.json` lists them; this is how they are reached.

**AgentSessionsProofs** (`TypesHold`, `RowsConsistent`, `GrantsKept`,
`SessionsImplementLifecycle`). `GrantKept` alone is not inductive: a pending
write could take a granted agent away. `IntentFree` says that it was read from a
free agent. `Spec => Lifecycle!Spec` is a refinement with the columns `state` and
`current_call_id` as the mapping, because a step changes one agent's row along
one of six transitions. What one transaction does to a row is in
`SessionStoreProofs`, which the proofs about call control use too.

**CallControlProofs** (`CallTypes`, `MemoryIsPersisted`, `EndedStaysEnded`,
`RecoveryFreesEveryone`), for all commands and all faults. The invariant is
`Base`: the types, `SoundRow` (state and call of a row agree: a transition writes
back what it read there), `RecoveryIdle` (nothing is in memory until the recovery
is over) and the queue that a dispatch follows. `EndedForGood` is an action
property; it comes from the same lemmas, one for each kind of handler.

**ReservationProofs** (`OfferReserved`, `TalkersReserved`, `ActiveIsStaffed`,
`NoStrayReservation`, `HangupReleases`, `EachAgentLifecycle`). The two directions,
every agent a call names is reserved for it and every reserved agent is named,
are only inductive together, and only with the forms a call may have between
them (`Formed`: who stands where while the carrier is asked, while a
consultation rings, after it was answered). `Reservations` says so of each call,
with the rows of the agents as a parameter, since a handler makes two
transactions. `OwnRows` (a handler touches only rows that are free or its own)
keeps the other calls as they are.

The first five have one hypothesis, `Orderly`: no `"overlap"` and no `"conference"`
among the commands, no failing `"recording"`, and not both the way back into the
IVR and a second queue. It is what the code needs and not what the prover
needs. With one call and three agents TLC shows that the properties are false
of the code without it:

| Allowed | Fails | Because |
|---|---|---|
| `"overlap"` | `TalkersReserved`, `NoStrayReservation`, `HangupReleases`, `ActiveIsStaffed` | a consultation completed, or the call transferred, before it is answered overwrites the field that named the other agent |
| `"conference"` | `NoStrayReservation`, `HangupReleases` | an invited agent who still rings is named by no field that the hang-up releases as ringing |
| `"recording"` | `OfferReserved`, `TalkersReserved`, `ActiveIsStaffed` | a handler that cannot stop the recording returns between its transactions |
| `"queue"` with `"ivr"` | `TalkersReserved`, `ActiveIsStaffed` | `consultFrom` survives the entry into the IVR and the next queue finds it |

`EachAgentLifecycle` needs less, and its theorem (`CallsImplementLifecycle`) assumes
less: `OneOffer`, no `"overlap"` and no `"conference"`. Recordings that cannot be
stopped and the second queue after an IVR leave reservations astray, but every
agent goes on along its life cycle. The invariant is `Offers`: whoever rings for a
call is the agent it is offered to (`Rung`), and while the carrier is asked nobody
is (`Waits`). A step keeps it and moves every row in one (`Along`), because what a
handler does to a row is one of three things (`RowFollows`): it releases or leaves
it, it engages a free agent for its call, or it connects an agent that rings for
its call. With `"conference"` and a failing `"recording"` TLC shows that the
property is false: a hang-up that fails half-way frees an agent whom the call goes
on naming as offered, a second call invites that agent to a conference and ends
without releasing it, and the answer for the first call takes it straight from
the one call to the other. With `"overlap"` and `"complete"` it is a consultation
completed before it is answered whose second agent goes on ringing for an ended
call, and is taken from it in the same way. Whether either alone, with recordings
that always stop, breaks the property is not settled: TLC found no case with
`"consult"`, `"blind"`, `"queue"` and `"overlap"` (3 agents, 2 calls, no faults).

The constants of `calls_one` and `calls_two` satisfy `Orderly`; those of
`calls_overlap` and of `calls_live` do not: the properties of the first are
proved without a hypothesis, those of the second are liveness.

**SwitchServicesProofs.** As in `EdgesProofs` below, each service has its
invariant and a step of the sum is a step of one of them (`ServicesMove`,
`ServicesBehave`). Every property of `switch_services` but `ServicesSettle`, which
is liveness, is proved: `TypesOK`, `AtMostOnce`, `AnswersAreTrue`, `EventsAreKept`,
`RecordingIsGravest`, `MovesInFlow`, `DialsAreTrue`.

| Service | Strengthening, and why it is needed |
|---|---|
| `CommandStore` | `RowFirst` and `Turn`: at most one request is past the row of a key, and before it marks the row running nothing has started; `TruthInv`: that request has the body and the call of the row, and one that is done well has its effect |
| `EventDelivery` | `AnswerIsTrue`: an accepted post is in the inbox or among the dead; `OutboxIsStored`: what waits for the browsers is in the inbox; `RowIsGravest`: the projected row is at least as grave as every event of the inbox, and is one of them |
| `IvrEngine` | `FlowIsOn`: a flow that runs belongs to a call in the state `ivr`; `ActionWaits`: the action a flow waits for is pending, so the tick and the result find one outcome to give |
| `DirectControl` | `RingsAreClaimed`: a key without a claimed command has dialled nobody, and a telephone in the room has answered a dial |

**MediaPlaneProofs.** The same for the nine parts of the media (`MediaInv`,
`PartsMove`). Every property of `media` but `MediaSettles`, which is liveness, is
proved: `TypesOK`, `TakenIsKept`, `EndsToldOnce`, `NothingOldPlays`,
`NothingLost`, `NothingAfterEnd`, `InOrder`, `FlowWaitsForAnswer`.

| Part | Strengthening, and why it is needed |
|---|---|
| `CallRecording` | `Sound`: while a recorder has not failed, what its queue took is in the conversation or in the queue, and every track is as long as the conversation; what is done is closed and empty. `StopIsTrue`: what a stop reported as whole stays whole when a tick fails the recorder later; `LossIsOwned`: until then the tick holds the refused group. `TakenAreFrames` counts the group that a tick has in hand |
| `PromptPlayer` | `OneProducer`: a generation is loaded or plays, never both; `Tellable`: what may still tell its end has not told it; `GensReached`: no prompt, load or shot is of a generation to come; `SleepersFew`: the generations that sleepers, handoffs and the closing may still make |
| `ApplicationAudio` | `Speaks`: what waits is of the generation that speaks, frames pulled and frames waiting are those accepted for it, and of later generations nothing was accepted or told |
| `AssetPlayback` | an asset that is over has told one end, any other none; a leg hears one |
| `MediaRoom` | a connection in the table of a leg is one of that leg, and a mixer that stops has given its peers away |
| `IceExchange` | requests are about the joins that were looked up |
| `Dtmf` | `Queues`: what is heard, in the hand of the worker and in the list is, in this order, what the read loops queued; `LastIsKept`: the last key queued of a SIP leg has the timestamp that is remembered, whatever order the packets came in; `WorkerRuns`: a worker is there while keys wait |
| `PlayoutBuffer` | `SenderFollowed`: the last packet has the position the sender counted and the timestamp of that position; `WaitsInWindow`, `HeardBefore`: what waits is between the cursor and the end of what was written, what was heard before both, so that the cursor may be set back |
| `SipDialogs` | `SessionOK`: a session that is over has returned its socket or an end of it is on its way, a BYE was said by one that was confirmed and has ended; `GateOK`: the gate is closed while the one dialog that came in is in progress, and until then nothing has run |

That a timestamp which wraps moves nothing is arithmetic for any width
(`DifferenceIs`): the difference of two remainders, read as a signed number,
is the difference that was meant if that is less than half the modulus.

**EdgesProofs.** Each part has an invariant in a section of its own; the last
section proves that a step of the sum is a step of one part and a stutter of the
others (`PartsMove`), so a behaviour of the sum is one of each part
(`PartsBehave`) and what was proved of the parts holds of the sum: `TypesOK`,
`OnlyItsOwn`, `NoWayBackIn`, `CallFindsItsConfig`, `ServersAgree`, `OnceOnly`,
`NothingOldReturns`. Most types are
in the invariants of the parts; a bound that a guard keeps and that nothing else
needs has one of its own (`CallsWereStarted`, `BindsAreFew`, `ImportsAreFew`).

| Part | Strengthening, and why it is needed |
|---|---|
| `ConfigVersions` | `Whole`: every version ever stored is valid, since an older one may be activated again and calls keep theirs; `OnItsWay`: a routed call has what it goes to in its version |
| `BffGateway` | `FreshIsOwn`: while the call has the version that was read for a request, its agent has the call or lost it within that version; every step makes a later version and forgets who was displaced, or keeps the version and adds to them (`GatewayNewer`, `GatewaySame`) |
| `SingleSignOn` | `OnceEach`: a state is in its row, with one callback, in a ticket or in a session; `OwnEach`: callbacks and tickets name accounts that were bound to their subject |
| `GuestEntry` | `HolderAlone`: who has asked the switch for a call holds the row and the row names none; `LandedAsStored` |
| `ConfigImport` | `InOrder`: what an import has done by the step it is at |
| `Notifications` | `LeaseIsHeld`: who is in a step has the lease; `StopsStop`: a step begun under a cancellation ends in one; `FinalIsQuiet`: a final state was found with no call open |
| `UserAccess` | `HoldersAreCurrent`: who has the row of a session brought its token of now and the user has not changed since it was read; `OneVersionEach`: a change is a version of the user, in the row, in what was read and in what was signed; `RotatedAreOld`, `LoggedOutIsOut` |
| `UserDirectory` | `EditIsCarried`: while the copy is not the profile, a request or the task carries it, or a step that nobody hears of has failed; `WorkerIsCurrent`: the profile a worker took with the task is the newest, or somebody is on the way to replace the task; `AloneIsRemoved`: an agent without a user is being removed, or one of the named failures left it; profiles and tasks are numbered in the order they were made |
| `VoiceBot` | `StreamInOrder`: the generations on the wire and at the switch never fall; `AudioIsTimely`: a block of a cut response has an older generation; `BlocksCounted`: what is left of the running response is the end of the queue, and the blocks said, held, sent and waiting add up |
| `Webhooks` | `AttemptsAreLeft`, `ClaimedIsProcessing`, `ClaimedOnce`: who posts a delivery has it marked as processing and alone, unless a lease ran out |
| `SipRegistrar` | `ListsAreOfContacts`: the list in memory, those on their way to the table and the stored one each name a Contact once (`Dropping` it and appending it keeps that); `NoncesAreFew`; `CheckedIsNewer`: a REGISTER that has passed its check is newer than the binding of its telephone, or the newer one was written since |
| `WsHub` | `WsConnFine`: what is queued or waits to be replayed has a number that was given, and the queue is within its capacity whoever writes to it |

**ListProofs** holds the one recursion the proofs meet, `Dropping(list, S)` of
`Lists`: legs without an agent, bindings without a Contact. The library's
induction theorems take an operator and cannot be used by the provers here; the
induction is done over sets instead: a non-empty set of natural numbers has a
least element (`Least`, from the well-founded order of the library), the function
exists for every length (`KeptExists`) and its value has the elements, the order
and the length it should (`DroppingProperties`).

Assumptions: null values differ from real ones (`NullAssumption`; `NoVisitor`,
`NoName`, `Nobody` in `EdgesAssumption`, `Nowhere` in `ServicesAssumption`), the
bounds that are compared are natural numbers (`BoundsAssumption` has those that only
the types of `Edges` need), `MaxLegs`, `MaxAttempts`, `MaxGen` and
`MaxVersion` positive ones, queues and flows have different names, no dialog both
came in and was dialled (`MediaAssumption`), and a packet is off the packet before
it by less than half of what the timestamp counts (`TimestampAssumption`; without
it a jump forward looks like one back, to any receiver). The nodes of
the flow may even be one. Nothing else is assumed of the bounds. TLC evaluates the
assumptions in the runs of `CallControl`, `AgentSessions`, `SwitchServices`,
`MediaPlane` and `Edges`.

Only model-checked: all liveness, because the proof system has no ENABLED and so
no fairness; the four disagreements. Every other property of a run is a theorem.

## 5. Disagreements and observations

The four runs above are disagreements between the code and a line of the
repository. What follows was met while modelling. The definitions named in bold
items state what a comment or a document promises and do not hold; TLC refutes
them in a few steps, and no run keeps them.

- **Sign-out while ringing** (`AgentSessions!CheckOutHonoured`): answering
  clears `pending_checkout` (`runtime.go:323`).
- **Replay of a command** (`CommandStore!RetryReplays`): the version guard is
  before the replay (`service.go:268`), so the repetition of a successful
  request with an expected version is refused.
- **Voicemail** (`IvrEngine!VoicemailEndsCall`): the tick goes on with the time
  of the node before the voicemail and may queue the call (`features.go:673`).
- **Confirmed after the end** (`SipDialogs!NobodyTalksOn`): a dialog answered
  and not confirmed when its room closes ends without BYE (`media/service.go:352`).
- **Rejoin during a tick** (`MediaRoom!SenderWritesPeer`): a tick collected
  before a leg joined again binds the sender of the old track
  (`media_output.go:54`).
- **Offers nobody watches** (`CallControl!OfferExpires`): a decline through the API
  leaves `sipOfferCancel` and `sipOfferLeg` of its dial set (`service.go:390-405`),
  and the tick takes the next offer for that dial's and never withdraws it
  (`service_tick.go:95-100`). `OffersEnd` is about the offers that the tick or their
  own dial ends (`Watched`); it leaves these out.
- **Conference** (`CallControl!HangupReleases`, once `"conference"` is allowed): the
  invited agent rings while the call is active. The tick looks at ringing calls
  only (`service_tick.go:80-94`), so an invitation nobody answers ends with a
  command, and the hang-up releases the agent from `on_call`, which is refused and
  the refusal dropped (`service.go:503`): it rings on for an ended call.
- **Half-way into the IVR** (`CallControl!EnterIVRRuns`): the call enters the state
  `ivr`, the release of a leg that a queue transfer left is refused, and no flow is
  started (`ivr_entry.go:70`).
- **A partial recording** (`CallRecording!PartialIsNotCompleted`): a stop between
  the refusal of a full queue and `fail()` reports the recording as completed
  (`conversation_recording.go:99-104`; `docs/audio-quality.md:28` says never);
  `LossIsTold` says that the failure is told in the end.
- **A key heard again** (`Dtmf!OncePerTimestamp`): the repeated end of a key that
  comes after a later key of its leg is taken for a new one, because one timestamp
  is remembered (`sip_rtp.go:312-318`). Every repetition on a WebRTC track is heard
  again, and keys are heard in the order of their packets; `HeardAsQueued` says
  only what holds.
- **Versions left behind** (`BffGateway!StaleIsRefused`): the client drops the
  version of `CompleteTransfer`, `ConferenceInvite`, `RespondVideo` and
  `DowngradeVideo` (`client.go:134`), which take effect on a call that has moved on.
- **An account that was not rolled back** (`UserDirectory!RolledBack`):
  `compensateCreate` drops the error of its transaction (`user/service.go:490`).
- **Half a hang-up**: when the recording cannot be stopped, `Hangup` returns after
  it freed the agents and before it ended the call (`service.go:436`), which goes
  on naming a free agent as offered; what may follow is in section 4.
- **`consultFrom`** survives an IVR entry, and the leg of an agent who left by a
  queue transfer makes a later entry stop half-way.
- A carrier or inbound call whose room cannot be created stays `created`; an
  internal call transferred to a queue is offered to the agent still on it.
- Direct control: `EndBridge` ends the row but does not part the media,
  `ReplaceBridge` changes the row before the media, `BridgeDirect` twice makes
  two rows; an error after an answer leaves the command running.
- IVR: a business action stays pending when its caller hangs up; a late prompt
  may move a call that has gone on to another node of its flow.
- Prompts: an old handoff survives a hold, and its sleeper may end a newer
  prompt; a prompt that cannot be converted is reported as a looping one, which
  call control ignores.
- Registrar: the CSeq is checked under one lock and the list changed under another
  (`sip_registrar.go:47-95`), so of two REGISTERs of a telephone that both passed
  the older may be written last; `NeverOlder` says that nothing else takes a binding
  back. The list is stored after the lock is given up, so an older one may be
  stored last; an unregistered Contact forgets its CSeq.
- Configuration: a call that starts by a flow pins the active version and reads
  the flow with another query; PATCH handlers read and write the whole item.
- Import: two imports at a time may leave the tables of one beside the active
  version of the other, both reported done; the mode `replace-bindings` is not
  used; removed permissions and mappings leave sessions as they are.
- Sign-on: a ticket made before an identity is removed or a mapping changed is
  exchanged after it; two callbacks may store older roles last.
- Users: the reading of the agent and the queueing of its task run under the
  request that may be cancelled and fail unheard (`user/service.go:362-364`), so do
  the undoing of an account and a worker that gives up; a stop
  between the commit and the task, or between the rows and the switch, leaves
  nothing to repeat it. `EditNotForgotten` and `NoAgentAlone` name these, and say
  that no order of steps and no lost answer does the same. A deletion whose agent
  could not be removed cannot be repeated; an older profile may be stored last in
  the switch.
- Webhooks: `Retry` resets a delivery that is being posted; a batch of slow posts
  may take longer than its lease.
- Browsers: events of two publishers may arrive out of order; presence on the
  last disconnect is checked and then set.
- Gateway: hang-up, hold and transfer carry the version that was read and the
  switch compares it. An agent keeps its leg, and with it the right to command, after a transfer to a
  queue. An invitation to a conference changes whom the call is offered to without
  a new version; so do removed and supervisors' legs, and an IVR entry that stops
  half-way (`Shifts`), which is why `OnlyItsOwnCall` excuses `displaced`. Completing
  a transfer while its target rings leaves the target ringing.
  `/legs/{leg}/hold` is executed as a hold of the whole call.
- Queues: deletion checks references in reads of its own, outside the write.
- Recordings: nothing sets `retain_until`, so `PurgeExpired` deletes nothing.

## 6. Not modelled

- Supervisor listening, video, screen sharing and hold music in call control:
  they change no reservation and no state of the call. Priorities and the order
  of candidates are a choice among all, skills are the membership of a queue.
  The waiting clock is a choice. Errors of the database in call control. The
  recovery is interrupted between the calls it ends, not between the transactions
  of one handler.
- In `CommandStore`, the answer of `doAnswer` that does nothing because the agent
  has answered already (`service.go:284-286`), and an error of the database while
  the outcome is written.
- The samples, codecs, gains, file and message formats of media and SIP; video
  recording; re-INVITE and the refresh of a session timer; `ReplaceBridge` and
  `EndBridge`, which touch no state the properties of `DirectControl` are about.
- Conditions and texts of a flow, the queue prompt, usage accounting and the
  model of the robot, the identity provider, receivers of webhooks: outside, a
  choice of what they may do.
- Presence on the last disconnect, numbers given without a database and routing
  of events by call in the hub; retention of recordings (nothing to observe).
- HTTP decoding, reports, surveys, audit, speech synthesis, lists and exports:
  no state between two steps. `PROJECT.json` gives the reason for each.

## 7. Plan

1. `MediaRoom` and `SipDialogs` composed with the end of a call in
   `CallControl`, whose closing of the room they start from.
2. Presence in `WsHub`, and bridges in `DirectControl`.
