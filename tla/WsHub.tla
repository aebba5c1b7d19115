-------------------------------- MODULE WsHub --------------------------------
(***************************************************************************)
(* The events open-call pushes to the browser of one agent: a number and a *)
(* row of the buffer for each event, the connections it is broadcast to,   *)
(* each with a queue of its own, and the replay for a browser that comes   *)
(* back with the number of the last event it has seen.                     *)
(***************************************************************************)
EXTENDS Naturals, Sequences, FiniteSets, FiniteSetsExt

CONSTANTS
  Publishers,  \* requests that publish events
  Conns,       \* connections, each used once
  NoConn,
  Cap,         \* length of a connection's queue (256 in the code)
  Keep,        \* rows that the buffer is meant to keep (1000 in the code)
  MaxSeq       \* bound: events

VARIABLES
  last,     \* the number given last
  buffer,   \* numbers with a row in oc_ws_event_buffer
  pub,      \* publisher |-> [at, seq, todo]
  conn,     \* connection |-> [at, since, queue, replay, done, up]
  byAgent,  \* the connections the hub knows
  tab,      \* the connection of the browser, NoConn between two of them
  heard     \* numbers of the events the browser has heard

wsVars == <<last, buffer, pub, conn, byAgent, tab, heard>>

Free == [at |-> "free", seq |-> 0, todo |-> {}]

Init ==
  /\ last = 0 /\ buffer = {} /\ byAgent = {} /\ tab = NoConn /\ heard = {}
  /\ pub = [p \in Publishers |-> Free]
  /\ conn = [c \in Conns |-> [at |-> "new", since |-> 0, queue |-> <<>>, replay |-> {},
                              done |-> FALSE, up |-> TRUE]]

---------------------------------------------------------------------------

\* allocateSeq: the number is taken in the database.
Allocate(p) ==
  /\ pub[p].at = "free" /\ last < MaxSeq
  /\ last' = last + 1
  /\ pub' = [pub EXCEPT ![p] = [Free EXCEPT !.at = "insert", !.seq = last + 1]]
  /\ UNCHANGED <<buffer, conn, byAgent, tab, heard>>

\* persistBufferedEvent, first statement.
Insert(p) ==
  /\ pub[p].at = "insert"
  /\ buffer' = buffer \union {pub[p].seq}
  /\ pub' = [pub EXCEPT ![p].at = "trim"]
  /\ UNCHANGED <<last, conn, byAgent, tab, heard>>

\* The newest rows, and what the second statement leaves: it deletes up to
\* and with the oldest of them, also while there are fewer than Keep.
Newest == CHOOSE K \in SUBSET buffer :
            /\ Cardinality(K) = Min({Keep, Cardinality(buffer)})
            /\ \A s \in K, t \in buffer \ K : s > t
Trimmed == IF buffer = {} THEN {} ELSE {s \in buffer : s > Min(Newest)}

Trim(p) ==
  /\ pub[p].at = "trim"
  /\ buffer' = Trimmed
  /\ pub' = [pub EXCEPT ![p].at = "broadcast"]
  /\ UNCHANGED <<last, conn, byAgent, tab, heard>>

\* broadcast: the connections are collected under the lock...
Collect(p) ==
  /\ pub[p].at = "broadcast"
  /\ pub' = [pub EXCEPT ![p] = IF byAgent = {} THEN Free ELSE [@ EXCEPT !.at = "send", !.todo = byAgent]]
  /\ UNCHANGED <<last, buffer, conn, byAgent, tab, heard>>

\* ... and written to without it.  A closed connection is forgotten.  One whose
\* queue is full is closed rather than waited for.
HasRoom(c) == Len(conn[c].queue) < Cap
SendReturns(c) == TRUE

Sent(p, c) ==
  LET left == pub[p].todo \ {c} IN
  pub' = [pub EXCEPT ![p].todo = left, ![p].at = IF left = {} THEN "free" ELSE "send",
                          ![p].seq = IF left = {} THEN 0 ELSE @]

Send(p, c) ==
  /\ pub[p].at = "send" /\ c \in pub[p].todo /\ SendReturns(c)
  /\ Sent(p, c)
  /\ \/ /\ HasRoom(c) /\ conn' = [conn EXCEPT ![c].queue = Append(@, pub[p].seq)]
        /\ UNCHANGED byAgent
     \/ /\ conn[c].done \/ ~HasRoom(c)
        /\ conn' = [conn EXCEPT ![c].done = TRUE] /\ byAgent' = byAgent \ {c}
  /\ UNCHANGED <<last, buffer, tab, heard>>

---------------------------------------------------------------------------

\* The number of the last event the browser has seen goes with its request.
LastHeard == Max({0} \union heard)

\* ServeHTTP: the connection is known to the hub before the replay is read.
Connect(c) ==
  /\ tab = NoConn /\ conn[c].at = "new"
  /\ conn' = [conn EXCEPT ![c].at = "added", ![c].since = LastHeard]
  /\ byAgent' = byAgent \union {c} /\ tab' = c
  /\ UNCHANGED <<last, buffer, pub, heard>>

\* replayFromDB: the rows after since, none for a browser that has seen none.
ReadBuffer(c) ==
  LET missed == {s \in buffer : conn[c].since > 0 /\ s > conn[c].since} IN
  /\ conn[c].at = "added"
  /\ conn' = [conn EXCEPT ![c].at = "replaying", ![c].replay = missed]
  /\ UNCHANGED <<last, buffer, pub, byAgent, tab, heard>>

\* sendWait waits for room, or for the end of the connection; the rows come in
\* the order of their numbers.
WaitOver(c) == HasRoom(c) \/ conn[c].done

Replay(c) ==
  /\ conn[c].at = "replaying" /\ conn[c].replay # {} /\ WaitOver(c)
  /\ \/ /\ HasRoom(c)
        /\ conn' = [conn EXCEPT ![c].queue = Append(@, Min(conn[c].replay)),
                                ![c].replay = @ \ {Min(@)}]
     \/ conn[c].done /\ conn' = [conn EXCEPT ![c].replay = {}]
  /\ UNCHANGED <<last, buffer, pub, byAgent, tab, heard>>

Replayed(c) ==
  /\ conn[c].at = "replaying" /\ conn[c].replay = {}
  /\ conn' = [conn EXCEPT ![c].at = "reading"]
  /\ UNCHANGED <<last, buffer, pub, byAgent, tab, heard>>

\* writeLoop: to the browser, which hears only its present connection.  A write
\* to a browser that has gone fails and closes the connection.
Write(c) ==
  /\ conn[c].queue # <<>> /\ ~conn[c].done
  /\ IF conn[c].up
     THEN /\ conn' = [conn EXCEPT ![c].queue = Tail(@)]
          /\ heard' = IF tab = c THEN heard \union {Head(conn[c].queue)} ELSE heard
     ELSE conn' = [conn EXCEPT ![c].done = TRUE] /\ UNCHANGED heard
  /\ UNCHANGED <<last, buffer, pub, byAgent, tab>>

\* The browser loses its connection, or the hub has closed it.
Lose(c) ==
  /\ tab = c
  /\ conn' = [conn EXCEPT ![c].up = FALSE] /\ tab' = NoConn
  /\ UNCHANGED <<last, buffer, pub, byAgent, heard>>

\* The reader fails and the deferred calls forget the connection.
Leave(c) ==
  /\ conn[c].at = "reading" /\ (conn[c].done \/ ~conn[c].up)
  /\ conn' = [conn EXCEPT ![c].at = "left", ![c].done = TRUE, ![c].queue = <<>>]
  /\ byAgent' = byAgent \ {c}
  /\ UNCHANGED <<last, buffer, pub, tab, heard>>

Next ==
  \/ \E p \in Publishers :
       Allocate(p) \/ Insert(p) \/ Trim(p) \/ Collect(p) \/ \E c \in Conns : Send(p, c)
  \/ \E c \in Conns :
       Connect(c) \/ ReadBuffer(c) \/ Replay(c) \/ Replayed(c) \/ Write(c) \/ Lose(c) \/ Leave(c)

\* The publisher and the handler of a connection go on.  The browser need not
\* take what is written to it; a write that fails is noticed.
Fairness ==
  /\ \A p \in Publishers :
       WF_wsVars(Insert(p) \/ Trim(p) \/ Collect(p) \/ \E c \in Conns : Send(p, c))
  /\ \A c \in Conns :
       /\ WF_wsVars(ReadBuffer(c) \/ Replay(c) \/ Replayed(c) \/ Leave(c))
       /\ WF_wsVars(Write(c) /\ ~conn[c].up)

Spec == Init /\ [][Next]_wsVars
FairSpec == Spec /\ Fairness

---------------------------------------------------------------------------

\* The variables keep the types of the hub's maps and of the buffer.
TypeOK ==
  /\ last \in 0 .. MaxSeq /\ buffer \subseteq 1 .. last /\ byAgent \subseteq Conns
  /\ tab \in Conns \union {NoConn} /\ heard \subseteq 1 .. last
  /\ \A p \in Publishers :
       /\ pub[p].at \in {"free", "insert", "trim", "broadcast", "send"}
       /\ pub[p].seq \in 0 .. last /\ pub[p].todo \subseteq Conns
  /\ \A c \in Conns :
       /\ conn[c].at \in {"new", "added", "replaying", "reading", "left"}
       /\ Len(conn[c].queue) <= Cap

\* Publishing ends though a browser takes nothing and its queue stays full: the
\* hooks and the webhooks of a call come after the broadcast (hub.go
\* PublishCallEvent).
PublishEnds == \A p \in Publishers : pub[p].at # "free" ~> pub[p].at = "free"

\* A connection that has ended is forgotten, also when its handler was waiting
\* for room in the queue (client.go sendWait).
ClosedIsForgotten == \A c \in Conns : conn[c].at # "new" /\ ~conn[c].up ~> c \notin byAgent

Quiet == \A p \in Publishers : pub[p].at = "free"

\* A browser that comes back with the number of its last event gets those it
\* has missed, of the last Keep ones ("客户端按 since 重连补发", client.go:17).
ReplayComplete ==
  \A c \in Conns :
    conn[c].at = "reading" /\ tab = c /\ ~conn[c].done /\ conn[c].queue = <<>> /\ Quiet /\ conn[c].since > 0
      => \A s \in 1 .. last : s > conn[c].since /\ s > last - Keep => s \in heard
=============================================================================
