------------------------------ MODULE SipRegistrar ------------------------------
(***************************************************************************)
(* The registrar of the switch, for the telephones that share one address  *)
(* of record, each with its Contact and its Call-ID.  A REGISTER may be    *)
(* late; its telephone has then given up and sent another, and the two are *)
(* served at the same time: the CSeq is checked under the lock and the     *)
(* binding is written under it later.  The challenges are outstanding in a *)
(* table of bounded size.  The bindings are written to the database after  *)
(* the answer, without a lock, and read again when the switch starts.      *)
(***************************************************************************)
EXTENDS Lists, Naturals, Sequences, FiniteSets, Functions

CONSTANTS
  Phones,
  Nonces,     \* bound: values of a challenge; more than NonceCap
  NoNonce,
  NonceCap,   \* challenges outstanding (4096)
  MaxRequests,     \* bound: requests of a telephone
  MaxStarts   \* bound: restarts of the switch

VARIABLES
  phone,    \* telephone |-> [seq, want, nonce, waits]
  requests, \* REGISTERs on their way: [who, seq, want, nonce]
  serving,  \* REGISTERs in onRegister: [at, who, seq, want, nonce, beside]
  nonces,   \* challenges outstanding: [n, aged]
  binds,    \* the bindings, the preferred one first: [who, seq]
  over,     \* registrations whose time is over
  saves,    \* lists of bindings on their way to the database
  stored,   \* the list in the database
  restarts  \* (bound)

regVars == <<phone, requests, serving, nonces, binds, over, saves, stored, restarts>>

Binding == [who: Phones, seq: 1 .. MaxRequests]

Init ==
  /\ phone = [p \in Phones |-> [seq |-> 0, want |-> "reg", nonce |-> NoNonce, waits |-> FALSE]]
  /\ requests = {} /\ serving = {} /\ nonces = {}
  /\ binds = <<>> /\ stored = <<>> /\ saves = {}
  /\ over = {} /\ restarts = 0

---------------------------------------------------------------------------

\* purgeExpiredBindingsLocked, and the rows that LoadSIPBindings keeps.
Live(list) == Dropping(list, over)

\* The challenges whose five minutes are not over.
Fresh == {x \in nonces : ~x.aged}

Without(list, p) == Dropping(list, {b \in Range(list) : b.who = p})

\* upsertBindingLocked: the renewed Contact comes first.
Put(list, b) == <<b>> \o Without(list, b.who)

\* A telephone sends a request, also when it has given up the one before.
Send(p) ==
  /\ phone[p].seq < MaxRequests
  /\ \E want \in {"reg", "unreg"} :
       LET s == phone[p].seq + 1
           w == IF phone[p].waits THEN phone[p].want ELSE want IN
       /\ phone' = [phone EXCEPT ![p] = [@ EXCEPT !.seq = s, !.want = w, !.waits = TRUE]]
       /\ requests' = requests \union {[who |-> p, seq |-> s, want |-> w, nonce |-> NoNonce]}
  /\ UNCHANGED <<serving, nonces, binds, over, saves, stored, restarts>>

\* The telephone repeats its last request, with the challenge it has got.
Repeat(p) ==
  /\ phone[p].waits /\ ~\E r \in requests \union serving : r.who = p /\ r.seq = phone[p].seq
  /\ requests' = requests \union
       {[who |-> p, seq |-> phone[p].seq, want |-> phone[p].want, nonce |-> phone[p].nonce]}
  /\ UNCHANGED <<phone, serving, nonces, binds, over, saves, stored, restarts>>

\* The answer reaches the telephone if that is the request it waits for.
Answered(r) ==
  IF phone[r.who].seq = r.seq THEN phone' = [phone EXCEPT ![r.who].waits = FALSE, ![r.who].nonce = NoNonce]
  ELSE UNCHANGED phone

\* newDigestNonce: a value that nobody has (which one makes no difference).
Unused ==
  {n \in Nonces : ~ \/ \E x \in Fresh : x.n = n
                    \/ \E p \in Phones : phone[p].nonce = n
                    \/ \E q \in requests \union serving : q.nonce = n}

\* checkRegistrarAuth without valid credentials: the challenges that are over
\* leave the table, and a full table is 503.
Challenge(r) ==
  /\ ~\E x \in Fresh : x.n = r.nonce
  /\ requests' = requests \ {r}
  /\ IF Cardinality(Fresh) >= NonceCap THEN nonces' = Fresh /\ UNCHANGED phone
     ELSE LET n == CHOOSE n \in Unused : TRUE IN
            /\ Unused # {}
            /\ nonces' = Fresh \union {[n |-> n, aged |-> FALSE]}
            /\ phone' = IF phone[r.who].waits /\ phone[r.who].seq = r.seq
                          THEN [phone EXCEPT ![r.who].nonce = n] ELSE phone
  /\ UNCHANGED <<serving, binds, over, saves, stored, restarts>>

\* onRegister with valid credentials: nonceValid looks at the challenge only.
Verify(r) ==
  /\ \E x \in Fresh : x.n = r.nonce
  /\ requests' = requests \ {r}
  /\ serving' = serving \union
       {[at |-> "verified", who |-> r.who, seq |-> r.seq, want |-> r.want, nonce |-> r.nonce, beside |-> FALSE]}
  /\ UNCHANGED <<phone, nonces, binds, over, saves, stored, restarts>>

\* A CSeq must be above those of the bindings of its Call-ID.
SeqFollows(r) == \A i \in DOMAIN binds : binds[i].who = r.who => r.seq > binds[i].seq

\* The challenge is used, and the CSeq is looked at: the lock is given up after.
Check(h) ==
  /\ h.at = "verified"
  /\ nonces' = {x \in nonces : x.n # h.nonce}
  /\ IF SeqFollows(h)
     THEN /\ serving' = (serving \ {h}) \union {[h EXCEPT !.at = "checked", !.nonce = NoNonce]}
          /\ UNCHANGED phone
     ELSE serving' = serving \ {h} /\ Answered(h)
  /\ UNCHANGED <<requests, binds, over, saves, stored, restarts>>

\* A newer REGISTER is written beside one that has passed its check (history).
Beside(g, h) ==
  IF g.at = "checked" /\ g.who = h.who /\ h.want = "reg" /\ g.seq <= h.seq
  THEN [g EXCEPT !.beside = TRUE] ELSE g

\* Under the lock again, without another look at the CSeq: the list is purged,
\* changed and put on its way to the database.
Write(h) ==
  /\ h.at = "checked"
  /\ LET list == IF h.want = "reg" THEN Put(Live(binds), [who |-> h.who, seq |-> h.seq])
                 ELSE Without(Live(binds), h.who) IN
     binds' = list /\ saves' = saves \union {list}
  /\ nonces' = Fresh
  /\ serving' = {Beside(g, h) : g \in serving \ {h}}
  /\ Answered(h)
  /\ UNCHANGED <<requests, over, stored, restarts>>

\* persistBindings: the list of its request, whichever was later; it may fail.
Save(list) ==
  /\ saves' = saves \ {list}
  /\ stored' \in {list, stored}
  /\ UNCHANGED <<phone, requests, serving, nonces, binds, over, restarts>>

\* lookupReg: the first binding after a purge.
Lookup ==
  /\ binds # Live(binds) \/ nonces # Fresh
  /\ binds' = Live(binds) /\ nonces' = Fresh
  /\ UNCHANGED <<phone, requests, serving, over, saves, stored, restarts>>

\* A registration ends; a challenge ends that no telephone is about to answer.
Expire(b) == over' = over \union {b} /\ UNCHANGED <<phone, requests, serving, nonces, binds, saves, stored, restarts>>

Age(x) ==
  /\ ~x.aged /\ \A p \in Phones : phone[p].waits => phone[p].nonce # x.n
  /\ nonces' = (nonces \ {x}) \union {[x EXCEPT !.aged = TRUE]}
  /\ UNCHANGED <<phone, requests, serving, binds, over, saves, stored, restarts>>

\* SetSIPBindingStore: the bindings are read again before the socket is open.
Restart ==
  /\ restarts < MaxStarts /\ restarts' = restarts + 1
  /\ binds' = Live(stored) /\ stored' = Live(stored)
  /\ nonces' = {} /\ saves' = {} /\ requests' = {} /\ serving' = {}
  /\ UNCHANGED <<phone, over>>

Next ==
  \/ \E p \in Phones : Send(p) \/ Repeat(p)
  \/ \E r \in requests : Challenge(r) \/ Verify(r)
  \/ \E h \in serving : Check(h) \/ Write(h)
  \/ \E list \in saves : Save(list)
  \/ Lookup
  \/ \E i \in DOMAIN binds : binds[i] \notin over /\ Expire(binds[i])
  \/ \E x \in nonces : Age(x)
  \/ Restart

\* A telephone repeats its request and answers a challenge within its five
\* minutes, requests arrive, and a challenge nobody answers ends.
Fairness ==
  /\ \A p \in Phones : WF_regVars(Repeat(p))
  /\ \A p \in Phones : WF_regVars(\E r \in requests : r.who = p /\ Challenge(r))
  /\ \A p \in Phones : WF_regVars(\E r \in requests : r.who = p /\ Verify(r))
  /\ \A p \in Phones : WF_regVars(\E h \in serving : h.who = p /\ Check(h))
  /\ \A p \in Phones : WF_regVars(\E h \in serving : h.who = p /\ Write(h))
  /\ WF_regVars(\E x \in nonces : Age(x))

Spec == Init /\ [][Next]_regVars
FairSpec == Spec /\ Fairness

---------------------------------------------------------------------------

\* The variables keep the types of the requests, challenges and bindings.
TypeOK ==
  /\ phone \in [Phones -> [seq: 0 .. MaxRequests, want: {"reg", "unreg"},
                           nonce: Nonces \union {NoNonce}, waits: BOOLEAN]]
  /\ requests \subseteq [who: Phones, seq: 1 .. MaxRequests, want: {"reg", "unreg"},
                         nonce: Nonces \union {NoNonce}]
  /\ serving \subseteq [at: {"verified", "checked"}, who: Phones, seq: 1 .. MaxRequests,
                        want: {"reg", "unreg"}, nonce: Nonces \union {NoNonce}, beside: BOOLEAN]
  /\ nonces \subseteq [n: Nonces, aged: BOOLEAN] /\ Cardinality(nonces) <= NonceCap
  /\ \A list \in saves \union {binds, stored} : list \in Seq(Binding) /\ IsInjective(list)

\* A Contact is bound once and the list keeps the order of the registrations,
\* also after a restart: the first one rings, and no telephone rings twice.
OncePerContact == \A i, j \in DOMAIN binds : binds[i].who = binds[j].who => i = j

\* A REGISTER that was late takes no binding back to an older one, unless it had
\* passed its check when the newer one was written (sip_registrar.go onRegister
\* gives the lock up between the two): neither a repeated request, nor a purge,
\* nor one that comes after the newer one has been served.
NeverOlder ==
  [][restarts' = restarts =>
      \A i \in DOMAIN binds, j \in DOMAIN binds' :
        binds[i].who = binds'[j].who /\ binds[i].seq > binds'[j].seq =>
          \E h \in serving : h.beside /\ h.who = binds'[j].who /\ h.seq = binds'[j].seq]_regVars

\* A telephone that keeps asking is answered: challenges nobody answers fill
\* the table for a while only.
Served == \A p \in Phones : phone[p].waits ~> ~phone[p].waits
=============================================================================
