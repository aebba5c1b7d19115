--------------------------------- MODULE Edges ---------------------------------
(***************************************************************************)
(* What lies around the calls, in one run: the registrations of telephones *)
(* and the configuration of the switch and, in open-call, the sign-in and  *)
(* the access of users, their copies in the switch, the import of a        *)
(* configuration, guests, webhooks, browser connections, the robot seat,   *)
(* notifications and the gateway of the agents' commands.  The modules     *)
(* share no variable, so a behaviour belongs to one of them: turn, chosen  *)
(* in the initial state, and the variables of the others keep their        *)
(* values.                                                                 *)
(***************************************************************************)
EXTENDS ConfigVersions

CONSTANTS
  Parts,
  Requests, Logins, NoRequest, MaxTokens, MaxChanges,
  Admins, MaxEdits, MaxAttempts, MaxLapses,
  Tokens, Visitors, NoVisitor, MaxCalls,
  Events, Workers, MaxRetries, MaxAgain, MaxLate,
  Publishers, Conns, NoConn, Cap, Keep, MaxSeq,
  HandoffCap, QueueCap, MaxResponses, MaxSpeech, MaxBlocks, MaxRings,
  Nobody, MaxFaults, MaxStops,
  Agents, NoAgent, Commands, MaxMoves,
  Phones, Nonces, NoNonce, NonceCap, MaxRequests, MaxStarts,
  States, Callbacks, Subjects, Names, Accounts, Local, NoName, MaxBinds,
  Imports, Nothing, MaxImports

ASSUME EdgesAssumption ==
  /\ NoRequest \notin Requests /\ NoVisitor \notin Visitors /\ Nobody \notin Workers
  /\ NoName \notin Names
  /\ MaxTokens \in Nat /\ MaxChanges \in Nat /\ MaxCalls \in Nat
  /\ MaxEdits \in Nat \ {0} /\ MaxAttempts \in Nat \ {0}
  /\ HandoffCap \in Nat /\ QueueCap \in Nat /\ MaxResponses \in Nat
  /\ MaxRetries \in Nat \ {0}
  /\ NonceCap \in Nat /\ MaxRequests \in Nat

\* What only the types of the variables need.
ASSUME BoundsAssumption ==
  /\ Cap \in Nat /\ MaxSeq \in Nat /\ MaxBinds \in Nat /\ MaxImports \in Nat
  /\ MaxMoves \in Nat \ {0}

VARIABLES
  turn,
  user, login, tokens, spent, req, userLock, loginLock, epoch, rotated, loggedOut,
  account, copy, agentTask, job, agentWorker, made, taskIds, overwritten, lapses, told,
  pass, holder, visit, started, landed,
  enabled, row, worker, received, again, lateLeases, overtaken,
  last, buffer, pub, conn, byAgent, tab, heard,
  robotCall, session, canceled, reader, chunks, sender, pcmGen, wire, far, rings, speech, created,
  complete, asked, said, over,
  task, working, late, phone, playback, dials, plays, faults, stops,
  agentCall, request, displaced,
  device, registers, serving, nonces, binds, expired, saves, stored, restarts,
  flow, callback, name, identity, ticket, signedIn, everBound, adminBinds,
  import, rows, bundles, live, reports, begun

Access == INSTANCE UserAccess
Directory == INSTANCE UserDirectory
  WITH task <- agentTask, worker <- agentWorker, overtaken <- overwritten
Guests == INSTANCE GuestEntry
Hooks == INSTANCE Webhooks WITH late <- lateLeases
Browsers == INSTANCE WsHub
Robot == INSTANCE VoiceBot WITH call <- robotCall
Notes == INSTANCE Notifications
Gateway == INSTANCE BffGateway WITH call <- agentCall, Requests <- Commands
Registrar == INSTANCE SipRegistrar WITH phone <- device, requests <- registers, over <- expired
SignOn == INSTANCE SingleSignOn WITH binds <- adminBinds
Import == INSTANCE ConfigImport

accessVars == <<user, login, tokens, spent, req, userLock, loginLock, epoch, rotated, loggedOut>>
dirVars == <<account, copy, agentTask, job, agentWorker, made, taskIds, overwritten, lapses, told>>
guestVars == <<pass, holder, visit, started, landed>>
hookVars == <<enabled, row, worker, received, again, lateLeases, overtaken>>
wsVars == <<last, buffer, pub, conn, byAgent, tab, heard>>
robotVars == <<robotCall, session, canceled, reader, chunks, sender, pcmGen, wire, far, rings,
               speech, created, complete, asked, said, over>>
noteVars == <<task, working, late, phone, playback, dials, plays, faults, stops>>
bffVars == <<agentCall, request, displaced>>
regVars == <<device, registers, serving, nonces, binds, expired, saves, stored, restarts>>
signVars == <<flow, callback, name, identity, ticket, signedIn, everBound, adminBinds>>
importVars == <<import, rows, bundles, live, reports, begun>>
vars == <<turn, configVars, accessVars, dirVars, guestVars, hookVars, wsVars, robotVars,
          noteVars, bffVars, regVars, signVars, importVars>>

\* The accounts of the sign-in that does not move begin in one way only.
EdgesInit ==
  /\ turn \in Parts
  /\ Init /\ Access!Init /\ Directory!Init /\ Guests!Init /\ Hooks!Init
  /\ Browsers!Init /\ Robot!Init /\ Notes!Init /\ Gateway!Init
  /\ Registrar!Init /\ SignOn!Init /\ Import!Init
  /\ turn # "signon" => name[Local] = CHOOSE n \in Names : TRUE

ConfigStep == turn = "config" /\ Next /\ UNCHANGED
  <<turn, accessVars, dirVars, guestVars, hookVars, wsVars,
    robotVars, noteVars, bffVars, regVars, signVars, importVars>>
AccessStep == turn = "access" /\ Access!Next /\ UNCHANGED
  <<turn, configVars, dirVars, guestVars, hookVars, wsVars,
    robotVars, noteVars, bffVars, regVars, signVars, importVars>>
DirectoryStep == turn = "directory" /\ Directory!Next /\ UNCHANGED
  <<turn, configVars, accessVars, guestVars, hookVars, wsVars,
    robotVars, noteVars, bffVars, regVars, signVars, importVars>>
GuestStep == turn = "guests" /\ Guests!Next /\ UNCHANGED
  <<turn, configVars, accessVars, dirVars, hookVars, wsVars,
    robotVars, noteVars, bffVars, regVars, signVars, importVars>>
HookStep == turn = "hooks" /\ Hooks!Next /\ UNCHANGED
  <<turn, configVars, accessVars, dirVars, guestVars, wsVars,
    robotVars, noteVars, bffVars, regVars, signVars, importVars>>
BrowserStep == turn = "browsers" /\ Browsers!Next /\ UNCHANGED
  <<turn, configVars, accessVars, dirVars, guestVars, hookVars,
    robotVars, noteVars, bffVars, regVars, signVars, importVars>>
RobotStep == turn = "robot" /\ Robot!Next /\ UNCHANGED
  <<turn, configVars, accessVars, dirVars, guestVars, hookVars, wsVars,
    noteVars, bffVars, regVars, signVars, importVars>>
NoteStep == turn = "notes" /\ Notes!Next /\ UNCHANGED
  <<turn, configVars, accessVars, dirVars, guestVars, hookVars, wsVars,
    robotVars, bffVars, regVars, signVars, importVars>>
GatewayStep == turn = "gateway" /\ Gateway!Next /\ UNCHANGED
  <<turn, configVars, accessVars, dirVars, guestVars, hookVars, wsVars,
    robotVars, noteVars, regVars, signVars, importVars>>
RegistrarStep == turn = "registrar" /\ Registrar!Next /\ UNCHANGED
  <<turn, configVars, accessVars, dirVars, guestVars, hookVars, wsVars, robotVars,
    noteVars, bffVars, signVars, importVars>>
SignOnStep == turn = "signon" /\ SignOn!Next /\ UNCHANGED
  <<turn, configVars, accessVars, dirVars, guestVars, hookVars, wsVars, robotVars,
    noteVars, bffVars, regVars, importVars>>
ImportStep == turn = "import" /\ Import!Next /\ UNCHANGED
  <<turn, configVars, accessVars, dirVars, guestVars, hookVars, wsVars, robotVars,
    noteVars, bffVars, regVars, signVars>>

EdgesNext ==
  \/ ConfigStep \/ AccessStep \/ DirectoryStep \/ GuestStep \/ HookStep
  \/ BrowserStep \/ RobotStep \/ NoteStep \/ GatewayStep
  \/ RegistrarStep \/ SignOnStep \/ ImportStep

\* The fair actions are disabled in the initial state of a part, so the
\* fairness of the parts that do not move is vacuous.
EdgesSpec ==
  /\ EdgesInit /\ [][EdgesNext]_vars
  /\ Hooks!Fairness /\ Browsers!Fairness /\ Robot!Fairness /\ Notes!Fairness
  /\ Registrar!Fairness

---------------------------------------------------------------------------

(* CallFindsItsConfig is the property of ConfigVersions.                   *)

\* The variables of the twelve modules keep their types.
TypesOK ==
  /\ TypeOK /\ Access!TypeOK /\ Directory!TypeOK /\ Guests!TypeOK /\ Hooks!TypeOK
  /\ Browsers!TypeOK /\ Robot!TypeOK /\ Notes!TypeOK /\ Gateway!TypeOK
  /\ Registrar!TypeOK /\ SignOn!TypeOK /\ Import!TypeOK

\* No session of before a logout, a new password or a new role lives on, also
\* when a refresh or a login runs beside the change (auth/service.go,
\* user/service.go).
NoWayBackIn == Access!NoOldCredential /\ Access!LogoutHolds

\* What may happen once happens once, whoever asks at the same time or again: a
\* refresh token is exchanged, a sign-in at the provider makes a session, a
\* guest's token leads to one call, a telephone has one binding for a contact,
\* a notification rings and speaks, and what a receiver has confirmed is not
\* sent again.
OnceOnly ==
  /\ [](/\ Access!RotatedOnce
        /\ SignOn!SignedInOnce
        /\ Guests!SameCall
        /\ Registrar!OncePerContact
        /\ Notes!ToldOnce)
  /\ Hooks!ConfirmedIsDone

\* Everybody reaches their own only: a person at the provider has one account
\* that nobody else comes into, and an agent commands the calls that are its own,
\* although bindings and calls change between the check and the use (auth/oidc.go,
\* app/http/bff_trusted.go).
OnlyItsOwn == [](SignOn!OneAccount /\ SignOn!OnlyOwnAccount) /\ Gateway!OnlyItsOwnCall

\* The two servers keep the same account, agent and call, or one of them is
\* still to be told, or somebody was told that they differ: after edits of
\* users, after an import that stops halfway, after the end of a notification
\* and after a response of the robot seat.
ServersAgree ==
  /\ Directory!NoAgentAlone /\ Directory!EditNotForgotten
  /\ Import!SeatsHaveRows /\ Import!ReportIsTrue
  /\ Notes!NothingLeftRinging
  /\ Robot!NothingSwallowed

\* What is over does not come back with a late answer: a cancelled
\* notification, an older binding, a response that was interrupted.
NothingOldReturns == Notes!CancelWins /\ Registrar!NeverOlder /\ []Robot!NothingOldIsSaid

\* What was begun comes to an end: deliveries, notifications, the publishing to
\* browsers that take nothing, connections, robots that can talk no more, and
\* the requests of a telephone that keeps asking.
EdgesSettle ==
  /\ Hooks!DeliveriesEnd
  /\ Notes!NotificationEnds
  /\ Browsers!PublishEnds /\ Browsers!ClosedIsForgotten
  /\ Robot!SilenceEnds /\ Robot!SessionEnds
  /\ Registrar!Served
=================================================================================
