--------------------------- MODULE CloudLinkProofs ---------------------------
(***************************************************************************)
(* The cloud link proved for every number of records, connections, nonces, *)
(* challenges and crashes, and every capacity of the queues and the        *)
(* ledger: the transport reports no record the broker has not confirmed,   *)
(* a challenge the ledger remembers gets one hello, and epochs only grow.  *)
(***************************************************************************)
EXTENDS CloudLink, TLAPS

\* What the proofs use of sequences: elements, first and rest, and appending.
LEMMA SequenceFacts ==
  ASSUME NEW S
  PROVE  /\ <<>> \in Seq(S)
         /\ \A s \in Seq(S) :
              /\ Len(s) \in Nat /\ DOMAIN s = 1 .. Len(s)
              /\ \A i \in DOMAIN s : s[i] \in S
              /\ s # <<>> => Head(s) \in S /\ Tail(s) \in Seq(S)
              /\ \A x \in S : /\ Append(s, x) \in Seq(S) /\ Len(Append(s, x)) = Len(s) + 1
                              /\ Append(s, x)[Len(s) + 1] = x
                              /\ \A i \in 1 .. Len(s) : Append(s, x)[i] = s[i]
OBVIOUS

-----------------------------------------------------------------------------
(* The session: what task, ledger, cloud and queue agree on.                *)

\* What may wait for the task: connection events, challenges as issued, epochs.
SessionEvents(issued) ==
  {<<"connected">>, <<"disconnected">>}
    \cup {<<"challenge", c>> : c \in {issued[i] : i \in DOMAIN issued}}
    \cup {<<"accepted", n>> : n \in Nat}

Issued(c, issued) == c \in Stamps /\ c.id \in DOMAIN issued /\ issued[c.id] = c

PeerOK(p) ==
  /\ p = [nonces |-> p.nonces, issued |-> p.issued, accepted |-> p.accepted, sent |-> p.sent]
  /\ p.nonces \in Nat
  /\ p.issued \in Seq(Stamps)
  /\ \A i \in DOMAIN p.issued : p.issued[i].id = i
  /\ p.accepted \in Seq(Nat)
  /\ p.sent \subseteq SessionEvents(p.issued)

InboxOK(b, issued) == b \in Seq(SessionEvents(issued))

\* A record is of an issued challenge; while pending it holds its request and
\* at most its own hello.
LedgerOK(l, issued) ==
  /\ l = [pending |-> l.pending, records |-> l.records, next |-> l.next]
  /\ l.pending \in Stamps \cup {Nobody}
  /\ l.next \in Nat \ {0}
  /\ l.records \in [DOMAIN l.records -> LedgerRecords]
  /\ \A d \in DOMAIN l.records :
       /\ d \in DOMAIN issued
       /\ l.records[d].until = issued[d].until
       /\ l.records[d].order = 0 => l.records[d].request \in Nat
       /\ l.records[d].hello # Nobody => l.records[d].hello[1] = d

SessionSteps == {"waiting", "challenge", "sign", "accept", "complete", "commit", "serving"}

\* An epoch that is bound and not yet committed is above the file's.
TaskOK(t, issued, file) ==
  /\ t = [pc |-> t.pc, request |-> t.request, challenge |-> t.challenge, hello |-> t.hello,
          epoch |-> t.epoch]
  /\ t.pc \in SessionSteps
  /\ t.epoch \in Nat
  /\ t.pc \in {"sign", "accept", "complete"} => Issued(t.challenge, issued)
  /\ t.pc \in {"complete", "commit"} => t.epoch > file
  /\ t.pc = "serving" => file = t.epoch

\* Epochs served so far grew up to the file's.
NetOK(n, file) ==
  /\ n = [up |-> n.up, links |-> n.links, stops |-> n.stops, hellos |-> n.hellos,
          evicted |-> n.evicted, served |-> n.served]
  /\ n.served \in Seq(Nat)
  /\ \A i \in DOMAIN n.served : n.served[i] <= file
  /\ \A i, j \in DOMAIN n.served : i < j => n.served[i] < n.served[j]

\* A hello that was sent is still what the ledger would answer, or its challenge
\* can no longer be answered, or the ledger gave the challenge up.
Answered(h, issued, l, clock, evicted) ==
  /\ h \in Hellos
  /\ h[1] \in DOMAIN issued
  /\ \/ h[1] \in evicted
     \/ issued[h[1]].until <= clock
     \/ h[1] \in DOMAIN l.records /\ (l.records[h[1]].order > 0 \/ l.records[h[1]].hello = h)

HellosOK(n, issued, l, clock) ==
  /\ \A h \in n.hellos : Answered(h, issued, l, clock, n.evicted)
  /\ \A g, h \in n.hellos : g[1] = h[1] /\ g[1] \notin n.evicted => g = h

\* The inductive invariant of the session.
SessionInv ==
  /\ sessionClock \in Nat
  /\ epochFile \in Nat
  /\ PeerOK(peer)
  /\ InboxOK(sessionInbox, peer.issued)
  /\ LedgerOK(ledger, peer.issued)
  /\ TaskOK(task, peer.issued, epochFile)
  /\ NetOK(net, epochFile)
  /\ HellosOK(net, peer.issued, ledger, sessionClock)

-----------------------------------------------------------------------------
(* Lemmas about events and sequences of them.                               *)

\* A challenge that waits is as issued, an epoch that waits is a number.
LEMMA EventShape ==
  ASSUME NEW issued \in Seq(Stamps), \A i \in DOMAIN issued : issued[i].id = i,
         NEW e \in SessionEvents(issued)
  PROVE  /\ e[1] = "challenge" => Issued(e[2], issued)
         /\ e[1] = "accepted" => e[2] \in Nat
<1>1. CASE e \in {<<"connected">>, <<"disconnected">>}
  BY <1>1
<1>2. CASE e \in {<<"challenge", c>> : c \in {issued[i] : i \in DOMAIN issued}}
  <2>1. PICK i \in DOMAIN issued : e = <<"challenge", issued[i]>>
    BY <1>2
  <2>2. issued[i] \in Stamps
    BY SequenceFacts, <2>1
  <2> QED
    BY <2>1, <2>2 DEF Issued
<1>3. CASE e \in {<<"accepted", n>> : n \in Nat}
  BY <1>3
<1> QED
  BY <1>1, <1>2, <1>3 DEF SessionEvents

\* Issuing another challenge keeps everything that waits.
LEMMA EventsGrow ==
  ASSUME NEW issued \in Seq(Stamps), NEW c \in Stamps
  PROVE  /\ SessionEvents(issued) \subseteq SessionEvents(Append(issued, c))
         /\ <<"challenge", c>> \in SessionEvents(Append(issued, c))
         /\ \A i \in DOMAIN issued : i \in DOMAIN Append(issued, c) /\ Append(issued, c)[i] = issued[i]
<1> DEFINE more == Append(issued, c)
<1>1. /\ more \in Seq(Stamps) /\ Len(more) = Len(issued) + 1 /\ Len(issued) \in Nat
      /\ \A i \in 1 .. Len(issued) : more[i] = issued[i]
      /\ more[Len(issued) + 1] = c
  BY SequenceFacts
<1>2. DOMAIN issued = 1 .. Len(issued) /\ DOMAIN more = 1 .. Len(more)
  BY <1>1, SequenceFacts
<1>3. \A i \in DOMAIN issued : i \in DOMAIN more /\ more[i] = issued[i]
  BY <1>1, <1>2
<1>4. Len(issued) + 1 \in DOMAIN more
  BY <1>1, <1>2
<1> HIDE DEF more
<1>5. <<"challenge", c>> \in SessionEvents(more)
  BY <1>1, <1>4 DEF SessionEvents
<1>6. SessionEvents(issued) \subseteq SessionEvents(more)
  <2> SUFFICES ASSUME NEW e \in SessionEvents(issued) PROVE e \in SessionEvents(more)
    OBVIOUS
  <2>1. CASE e \in {<<"challenge", d>> : d \in {issued[i] : i \in DOMAIN issued}}
    <3>1. PICK i \in DOMAIN issued : e = <<"challenge", issued[i]>>
      BY <2>1
    <3>2. i \in DOMAIN more /\ e = <<"challenge", more[i]>>
      BY <1>3, <3>1
    <3> QED
      BY <3>2 DEF SessionEvents
  <2> QED
    BY <2>1 DEF SessionEvents
<1> QED
  BY <1>3, <1>5, <1>6 DEF more

\* Taking the first event, adding one, and enlarging the set of events.
LEMMA InboxSteps ==
  ASSUME NEW issued, NEW b, InboxOK(b, issued)
  PROVE  /\ b # <<>> => Head(b) \in SessionEvents(issued) /\ InboxOK(Tail(b), issued)
         /\ \A e \in SessionEvents(issued) : InboxOK(Append(b, e), issued)
         /\ \A more : SessionEvents(issued) \subseteq SessionEvents(more) => InboxOK(b, more)
         /\ InboxOK(<<>>, issued)
<1> DEFINE S == SessionEvents(issued)
<1>1. b \in Seq(S)
  BY DEF InboxOK
<1> HIDE DEF S
<1>2. b # <<>> => Head(b) \in S /\ Tail(b) \in Seq(S)
  BY <1>1, SequenceFacts
<1>3. \A e \in S : Append(b, e) \in Seq(S)
  BY <1>1, SequenceFacts
<1>4. \A T : S \subseteq T => b \in Seq(T)
  BY <1>1
<1>5. <<>> \in Seq(S)
  BY SequenceFacts
<1> QED
  BY <1>2, <1>3, <1>4, <1>5 DEF S, InboxOK

-----------------------------------------------------------------------------
(* Lemmas about the ledger's operations.                                    *)

\* reserve keeps the ledger well formed and remembers every hello it does not evict;
\* the record it leaves for the challenge is pending, new or as it was.
LEMMA ReserveIsSound ==
  ASSUME sessionClock \in Nat,
         NEW issued \in Seq(Stamps), NEW l, LedgerOK(l, issued),
         NEW c, Issued(c, issued), NEW request, MayReserve(l, c, request)
  PROVE  LET m == Reserved(l, c, request)
         IN /\ LedgerOK(m, issued)
            /\ c.id \in DOMAIN m.records
            /\ m.records[c.id].order = 0
            /\ m.records[c.id].hello # Nobody =>
                 c.id \in DOMAIN l.records /\ m.records[c.id] = l.records[c.id] /\ Forgets(l, c) = {}
            /\ \A h, ev : Answered(h, issued, l, sessionClock, ev) =>
                            Answered(h, issued, m, sessionClock, ev \cup Forgets(l, c))
<1> DEFINE m == Reserved(l, c, request)
           keep == IF c.id \in Kept(l) THEN Kept(l) ELSE Kept(l) \ Room(l)
           new == [until |-> c.until, request |-> request, hello |-> Nobody, order |-> 0]
<1>1. /\ m = [pending |-> Stamped(l.pending.id, c.until), next |-> l.next, records |-> m.records]
      /\ m.records = [d \in keep \cup {c.id} |->
                        IF d \in DOMAIN l.records /\ d \in keep THEN l.records[d] ELSE new]
  BY DEF Reserved
<1>2. /\ c.id \in DOMAIN issued /\ issued[c.id] = c /\ c.id \in Nat /\ c.until \in Nat
      /\ sessionClock < c.until
  BY DEF Issued, Stamps, MayReserve
<1>3. l.pending # Nobody /\ l.pending \in Stamps /\ l.pending.id = request /\ request \in Nat
  BY DEF MayReserve, Live, LedgerOK, Stamps
<1>4. keep \subseteq DOMAIN l.records
  BY DEF Kept
<1>5. Stamped(l.pending.id, c.until) \in Stamps
  BY <1>2, <1>3 DEF Stamped, Stamps
<1>6. new \in LedgerRecords
  BY <1>2, <1>3 DEF LedgerRecords
<1>7. /\ l.records \in [DOMAIN l.records -> LedgerRecords]
      /\ l.next \in Nat \ {0}
      /\ \A d \in DOMAIN l.records :
           /\ d \in DOMAIN issued
           /\ l.records[d].until = issued[d].until
           /\ l.records[d].order = 0 => l.records[d].request \in Nat
           /\ l.records[d].hello # Nobody => l.records[d].hello[1] = d
  BY DEF LedgerOK
<1>8. c.id \in DOMAIN l.records => c.id \in Kept(l)
  BY <1>2, <1>7 DEF Kept
<1>9. c.id \in keep => c.id \in DOMAIN l.records /\ l.records[c.id].order = 0
  BY <1>4, <1>8 DEF MayReserve
<1>10. c.id \in keep => c.id \in Kept(l)
  OBVIOUS
<1>11. \A d \in DOMAIN l.records : d \notin keep \cup Forgets(l, c) => l.records[d].until <= sessionClock
  <2> SUFFICES ASSUME NEW d \in DOMAIN l.records, d \notin keep, d \notin Forgets(l, c)
               PROVE  l.records[d].until <= sessionClock
    OBVIOUS
  <2>1. l.records[d].until \in Nat /\ l.records[d].order \in Nat
    BY <1>7 DEF LedgerRecords
  <2>2. CASE d \notin Kept(l)
    BY <2>1, <2>2 DEF Kept
  <2>3. CASE d \in Kept(l)
    <3>1. c.id \notin Kept(l) /\ d \in Room(l)
      BY <2>3
    <3> QED
      BY <3>1, <2>1 DEF Forgets
  <2> QED
    BY <2>2, <2>3
<1>12. c.id \in Kept(l) => Forgets(l, c) = {}
  BY DEF Forgets
<1> HIDE DEF m, keep, new
<1>13. DOMAIN m.records = keep \cup {c.id}
  BY <1>1
<1>14. \A d \in DOMAIN m.records : m.records[d] = IF d \in keep THEN l.records[d] ELSE new
  BY <1>1, <1>4
<1>15. LedgerOK(m, issued)
  <2>1. /\ m = [pending |-> m.pending, records |-> m.records, next |-> m.next]
        /\ m.pending \in Stamps \cup {Nobody}
        /\ m.next \in Nat \ {0}
    BY <1>1, <1>5, <1>7
  <2>2. m.records \in [DOMAIN m.records -> LedgerRecords]
    <3>1. \A d \in keep \cup {c.id} :
            (IF d \in DOMAIN l.records /\ d \in keep THEN l.records[d] ELSE new) \in LedgerRecords
      BY <1>6, <1>7
    <3> QED
      BY <1>1, <1>13, <3>1
  <2>3. ASSUME NEW d \in DOMAIN m.records
        PROVE  /\ d \in DOMAIN issued
               /\ m.records[d].until = issued[d].until
               /\ m.records[d].order = 0 => m.records[d].request \in Nat
               /\ m.records[d].hello # Nobody => m.records[d].hello[1] = d
    <3>1. CASE d \in keep
      BY <1>4, <1>7, <1>14, <3>1
    <3>2. CASE d \notin keep
      BY <1>2, <1>3, <1>13, <1>14, <3>2 DEF new
    <3> QED
      BY <3>1, <3>2
  <2> QED
    BY <2>1, <2>2, <2>3 DEF LedgerOK
<1>16. c.id \in DOMAIN m.records /\ m.records[c.id].order = 0
  BY <1>9, <1>13, <1>14 DEF new
<1>17. m.records[c.id].hello # Nobody =>
         c.id \in DOMAIN l.records /\ m.records[c.id] = l.records[c.id] /\ Forgets(l, c) = {}
  BY <1>9, <1>10, <1>12, <1>13, <1>14 DEF new
<1>18. ASSUME NEW h, NEW ev, Answered(h, issued, l, sessionClock, ev)
       PROVE  Answered(h, issued, m, sessionClock, ev \cup Forgets(l, c))
  <2>1. CASE h[1] \in ev \/ issued[h[1]].until <= sessionClock
    BY <1>18, <2>1 DEF Answered
  <2>2. CASE h[1] \in DOMAIN l.records /\ (l.records[h[1]].order > 0 \/ l.records[h[1]].hello = h)
    <3>1. CASE h[1] \in keep
      BY <1>13, <1>14, <1>18, <2>2, <3>1 DEF Answered
    <3>2. CASE h[1] \notin keep
      BY <1>7, <1>11, <1>18, <2>2, <3>2 DEF Answered
    <3> QED
      BY <3>1, <3>2
  <2> QED
    BY <1>18, <2>1, <2>2 DEF Answered
<1> QED
  BY <1>15, <1>16, <1>17, <1>18 DEF m

\* store_hello keeps the ledger well formed and remembers every hello of others.
LEMMA SignIsSound ==
  ASSUME NEW clock \in Nat, NEW issued \in Seq(Stamps), NEW l, LedgerOK(l, issued),
         NEW id, id \in DOMAIN l.records, l.records[id].order = 0,
         NEW hello \in Hellos, hello[1] = id, l.records[id].hello \in {Nobody, hello}
  PROVE  LET m == Signed(l, id, hello)
         IN /\ LedgerOK(m, issued)
            /\ DOMAIN m.records = DOMAIN l.records
            /\ m.records[id].hello = hello /\ m.records[id].order = 0
            /\ \A h, ev : Answered(h, issued, l, clock, ev) => Answered(h, issued, m, clock, ev)
<1> DEFINE m == Signed(l, id, hello)
           r == l.records[id]
           new == [until |-> r.until, request |-> r.request, hello |-> hello, order |-> r.order]
<1>1. /\ l = [pending |-> l.pending, records |-> l.records, next |-> l.next]
      /\ l.pending \in Stamps \cup {Nobody}
      /\ l.next \in Nat \ {0}
      /\ l.records \in [DOMAIN l.records -> LedgerRecords]
      /\ \A d \in DOMAIN l.records :
           /\ d \in DOMAIN issued
           /\ l.records[d].until = issued[d].until
           /\ l.records[d].order = 0 => l.records[d].request \in Nat
           /\ l.records[d].hello # Nobody => l.records[d].hello[1] = d
  BY DEF LedgerOK
<1>2. r \in LedgerRecords
  BY <1>1
<1>3. new \in LedgerRecords /\ [r EXCEPT !.hello = hello] = new
  BY <1>2 DEF LedgerRecords
<1>4. /\ m = [pending |-> l.pending, next |-> l.next, records |-> m.records]
      /\ m.records = [l.records EXCEPT ![id] = new]
  <2> DEFINE f == [l.records EXCEPT ![id] = [r EXCEPT !.hello = hello]]
  <2>1. m = [l EXCEPT !.records = f]
    BY DEF Signed
  <2>2. f = [l.records EXCEPT ![id] = new]
    BY <1>3
  <2> HIDE DEF f, new, m
  <2>3. m = [pending |-> l.pending, next |-> l.next, records |-> f]
    BY <1>1, <2>1
  <2> QED
    BY <2>2, <2>3
<1>5. new.until = r.until /\ new.request = r.request /\ new.hello = hello /\ new.order = r.order
  OBVIOUS
<1> HIDE DEF m, new
<1>6. /\ DOMAIN m.records = DOMAIN l.records
      /\ m.records \in [DOMAIN m.records -> LedgerRecords]
      /\ \A d \in DOMAIN m.records : m.records[d] = IF d = id THEN new ELSE l.records[d]
  BY <1>1, <1>3, <1>4
<1>7. LedgerOK(m, issued)
  <2>1. /\ m = [pending |-> m.pending, records |-> m.records, next |-> m.next]
        /\ m.pending \in Stamps \cup {Nobody}
        /\ m.next \in Nat \ {0}
    BY <1>1, <1>4
  <2>2. \A d \in DOMAIN m.records :
           /\ d \in DOMAIN issued
           /\ m.records[d].until = issued[d].until
           /\ m.records[d].order = 0 => m.records[d].request \in Nat
           /\ m.records[d].hello # Nobody => m.records[d].hello[1] = d
    BY <1>1, <1>5, <1>6
  <2> QED
    BY <1>6, <2>1, <2>2 DEF LedgerOK
<1>8. ASSUME NEW h, NEW ev, Answered(h, issued, l, clock, ev)
      PROVE  Answered(h, issued, m, clock, ev)
  <2>1. h \in Hellos /\ h # Nobody
    BY <1>8, SessionAssumption DEF Answered
  <2> QED
    BY <1>5, <1>6, <1>8, <2>1 DEF Answered
<1> QED
  BY <1>5, <1>6, <1>7, <1>8 DEF m

\* complete keeps the ledger well formed and remembers every hello.
LEMMA CompleteIsSound ==
  ASSUME NEW clock \in Nat, NEW issued \in Seq(Stamps), NEW l, LedgerOK(l, issued),
         NEW id, id \in DOMAIN l.records
  PROVE  LET m == Complete(l, id)
         IN /\ LedgerOK(m, issued)
            /\ \A h, ev : Answered(h, issued, l, clock, ev) => Answered(h, issued, m, clock, ev)
<1> DEFINE m == Complete(l, id)
           r == l.records[id]
           new == [until |-> r.until, request |-> Nobody, hello |-> Nobody, order |-> l.next]
<1>1. /\ l.next \in Nat \ {0}
      /\ l.records \in [DOMAIN l.records -> LedgerRecords]
      /\ \A d \in DOMAIN l.records :
           /\ d \in DOMAIN issued
           /\ l.records[d].until = issued[d].until
           /\ l.records[d].order = 0 => l.records[d].request \in Nat
           /\ l.records[d].hello # Nobody => l.records[d].hello[1] = d
  BY DEF LedgerOK
<1>2. r \in LedgerRecords
  BY <1>1
<1>3. new \in LedgerRecords
  BY <1>1, <1>2 DEF LedgerRecords
<1>4. [l.records EXCEPT ![id].order = l.next, ![id].request = Nobody, ![id].hello = Nobody]
        = [l.records EXCEPT ![id] = new]
  <2> DEFINE r1 == [until |-> r.until, request |-> r.request, hello |-> r.hello, order |-> l.next]
             r2 == [until |-> r.until, request |-> Nobody, hello |-> r.hello, order |-> l.next]
             f1 == [l.records EXCEPT ![id] = r1]
             f2 == [l.records EXCEPT ![id] = r2]
  <2>1. [r EXCEPT !.order = l.next] = r1
    BY <1>2 DEF LedgerRecords
  <2>2. [l.records EXCEPT ![id].order = l.next] = f1
    BY <2>1
  <2>3. [f1 EXCEPT ![id].request = Nobody] = f2
    <3>1. f1[id] = r1 /\ [r1 EXCEPT !.request = Nobody] = r2
      BY <1>1
    <3> HIDE DEF r1, r2
    <3> QED
      BY <1>1, <3>1
  <2>4. [f2 EXCEPT ![id].hello = Nobody] = [l.records EXCEPT ![id] = new]
    <3>1. f2[id] = r2 /\ [r2 EXCEPT !.hello = Nobody] = new
      BY <1>1
    <3> HIDE DEF r2, new
    <3> QED
      BY <1>1, <3>1
  <2> HIDE DEF f1, f2, new, r1, r2
  <2>5. [l.records EXCEPT ![id].order = l.next, ![id].request = Nobody, ![id].hello = Nobody]
          = [[[l.records EXCEPT ![id].order = l.next] EXCEPT ![id].request = Nobody]
               EXCEPT ![id].hello = Nobody]
    OBVIOUS
  <2> QED
    BY <2>2, <2>3, <2>4, <2>5
<1>5. /\ m = [pending |-> Nobody, next |-> l.next + 1, records |-> m.records]
      /\ m.records = [l.records EXCEPT ![id] = new]
  BY <1>4 DEF Complete
<1>6. new.until = r.until /\ new.hello = Nobody /\ new.order > 0
  BY <1>1
<1> HIDE DEF m, new
<1>7. /\ DOMAIN m.records = DOMAIN l.records
      /\ m.records \in [DOMAIN m.records -> LedgerRecords]
      /\ \A d \in DOMAIN m.records : m.records[d] = IF d = id THEN new ELSE l.records[d]
  BY <1>1, <1>3, <1>5
<1>8. LedgerOK(m, issued)
  <2>1. /\ m = [pending |-> m.pending, records |-> m.records, next |-> m.next]
        /\ m.pending \in Stamps \cup {Nobody}
        /\ m.next \in Nat \ {0}
    BY <1>1, <1>5
  <2>2. \A d \in DOMAIN m.records :
           /\ d \in DOMAIN issued
           /\ m.records[d].until = issued[d].until
           /\ m.records[d].order = 0 => m.records[d].request \in Nat
           /\ m.records[d].hello # Nobody => m.records[d].hello[1] = d
    BY <1>1, <1>6, <1>7
  <2> QED
    BY <1>7, <2>1, <2>2 DEF LedgerOK
<1>9. \A h, ev : Answered(h, issued, l, clock, ev) => Answered(h, issued, m, clock, ev)
  BY <1>6, <1>7 DEF Answered
<1> QED
  BY <1>8, <1>9 DEF m

-----------------------------------------------------------------------------
(* Lemmas that carry the parts of the invariant over a step.                *)

\* A task that gave up satisfies its part whatever the files hold.
LEMMA IdleTaskIsOK ==
  ASSUME NEW issued, NEW file
  PROVE  TaskOK(SessionIdle("waiting"), issued, file)
BY DEF TaskOK, SessionIdle, SessionSteps

\* A further challenge leaves ledger, task and hellos in order.
LEMMA IssuingIsSound ==
  ASSUME NEW issued, NEW more,
         \A i \in DOMAIN issued : i \in DOMAIN more /\ more[i] = issued[i]
  PROVE  /\ \A l : LedgerOK(l, issued) => LedgerOK(l, more)
         /\ \A t, file : TaskOK(t, issued, file) => TaskOK(t, more, file)
         /\ \A n, l, clock : HellosOK(n, issued, l, clock) => HellosOK(n, more, l, clock)
<1>1. \A l : LedgerOK(l, issued) => LedgerOK(l, more)
  <2> SUFFICES ASSUME NEW l, LedgerOK(l, issued) PROVE LedgerOK(l, more)
    OBVIOUS
  <2>1. \A d \in DOMAIN l.records :
          /\ d \in DOMAIN more
          /\ l.records[d].until = more[d].until
    BY DEF LedgerOK
  <2> QED
    BY <2>1 DEF LedgerOK
<1>2. \A c : Issued(c, issued) => Issued(c, more)
  BY DEF Issued
<1>3. \A t, file : TaskOK(t, issued, file) => TaskOK(t, more, file)
  BY <1>2 DEF TaskOK
<1>4. \A h, l, clock, ev : Answered(h, issued, l, clock, ev) => Answered(h, more, l, clock, ev)
  BY DEF Answered
<1>5. \A n, l, clock : HellosOK(n, issued, l, clock) => HellosOK(n, more, l, clock)
  BY <1>4 DEF HellosOK
<1> QED
  BY <1>1, <1>3, <1>5

\* A change of the ledger that remembers every hello, with what it evicts.
LEMMA RememberingIsSound ==
  ASSUME NEW issued, NEW l, NEW m, NEW clock, NEW n, NEW n2, NEW gone,
         HellosOK(n, issued, l, clock),
         n2.hellos = n.hellos, n2.evicted = n.evicted \cup gone,
         \A h, ev : Answered(h, issued, l, clock, ev) => Answered(h, issued, m, clock, ev \cup gone)
  PROVE  HellosOK(n2, issued, m, clock)
BY DEF HellosOK

\* Time only makes more challenges unanswerable.
LEMMA TimeIsSound ==
  ASSUME NEW issued \in Seq(Stamps), NEW l, NEW clock \in Nat, NEW n, HellosOK(n, issued, l, clock)
  PROVE  HellosOK(n, issued, l, clock + 1)
<1> SUFFICES ASSUME NEW h, Answered(h, issued, l, clock, n.evicted)
             PROVE  Answered(h, issued, l, clock + 1, n.evicted)
  BY DEF HellosOK
<1>1. h[1] \in DOMAIN issued
  BY DEF Answered
<1>2. issued[h[1]] \in Stamps
  BY <1>1, SequenceFacts
<1>3. issued[h[1]].until \in Nat
  BY <1>2 DEF Stamps
<1> QED
  BY <1>3 DEF Answered

\* A change of net that concerns neither hellos nor epochs.
LEMMA NetStays ==
  ASSUME NEW n, NEW n2, NEW file,
         n2 = [up |-> n2.up, links |-> n2.links, stops |-> n2.stops, hellos |-> n.hellos,
               evicted |-> n.evicted, served |-> n.served]
  PROVE  /\ NetOK(n, file) => NetOK(n2, file)
         /\ \A issued, l, clock : HellosOK(n, issued, l, clock) => HellosOK(n2, issued, l, clock)
<1>1. n2.hellos = n.hellos /\ n2.evicted = n.evicted /\ n2.served = n.served
  OBVIOUS
<1>2. NetOK(n, file) => NetOK(n2, file)
  BY <1>1 DEF NetOK
<1>3. \A issued, l, clock : HellosOK(n, issued, l, clock) => HellosOK(n2, issued, l, clock)
  BY <1>1 DEF HellosOK
<1> QED
  BY <1>2, <1>3

\* A hello that is the ledger's answer to a challenge that can be answered may be sent.
LEMMA SendingIsSound ==
  ASSUME NEW issued \in Seq(Stamps), NEW l, NEW clock \in Nat, NEW n, NEW n2,
         HellosOK(n, issued, l, clock), LedgerOK(l, issued),
         NEW c, Issued(c, issued), clock < c.until,
         c.id \in DOMAIN l.records, l.records[c.id].order = 0, l.records[c.id].hello # Nobody,
         n2.hellos = n.hellos \cup {l.records[c.id].hello}, n2.evicted = n.evicted
  PROVE  HellosOK(n2, issued, l, clock)
<1> DEFINE h == l.records[c.id].hello
<1>1. h \in Hellos /\ h[1] = c.id /\ c.id \in DOMAIN issued /\ issued[c.id].until = c.until
  BY DEF LedgerOK, LedgerRecords, Issued
<1>2. Answered(h, issued, l, clock, n.evicted)
  BY <1>1 DEF Answered
<1>3. c.until \in Nat
  BY DEF Issued, Stamps
<1>4. ASSUME NEW g \in n.hellos, g[1] = c.id, g[1] \notin n.evicted
      PROVE  g = h
  <2>1. Answered(g, issued, l, clock, n.evicted)
    BY <1>4 DEF HellosOK
  <2> QED
    BY <1>1, <1>3, <1>4, <2>1 DEF Answered
<1> HIDE DEF h
<1>5. n2.hellos = n.hellos \cup {h}
  BY DEF h
<1> QED
  BY <1>1, <1>2, <1>4, <1>5 DEF HellosOK

-----------------------------------------------------------------------------
(* Every step keeps the invariant.                                          *)

\* Steps that touch neither ledger, peer nor files: events, time and retries.
LEMMA QuietSteps ==
  ASSUME SessionInv,
         Resend \/ TimeOut \/ Serve \/ CrashRestart \/ Connects \/ Disconnects \/ SessionTick
           \/ CloudRepeats
  PROVE  SessionInv'
<1> USE DEF SessionInv
<1>1. CASE Resend
  <2>1. UNCHANGED <<task, ledger, epochFile, sessionInbox, sessionClock, peer, net>>
    BY <1>1, Zenon DEF Resend
  <2> QED
    BY <2>1
<1>2. CASE TimeOut
  <2>1. /\ task' = SessionIdle("waiting")
        /\ UNCHANGED <<ledger, epochFile, sessionInbox, uplinked, sessionClock, peer, net>>
    BY <1>2, Zenon DEF TimeOut, GiveUp
  <2>2. TaskOK(task', peer'.issued, epochFile')
    BY <2>1, IdleTaskIsOK
  <2> QED
    BY <2>1, <2>2
<1>3. CASE Serve
  <2>1. /\ task' = SessionIdle("waiting") \/ task' = task
        /\ sessionInbox # <<>> /\ sessionInbox' = Tail(sessionInbox)
        /\ UNCHANGED <<ledger, epochFile, uplinked, sessionClock, peer, net>>
    BY <1>3, Zenon DEF Serve, GiveUp
  <2>2. TaskOK(task', peer'.issued, epochFile')
    BY <2>1, IdleTaskIsOK
  <2>3. InboxOK(sessionInbox', peer'.issued)
    BY <2>1, InboxSteps
  <2> QED
    BY <2>1, <2>2, <2>3
<1>4. CASE CrashRestart
  <2>1. /\ net' = [net EXCEPT !.stops = @ + 1, !.up = FALSE]
        /\ task' = SessionIdle("waiting")
        /\ sessionInbox' = <<>>
        /\ UNCHANGED <<ledger, epochFile, sessionClock, peer>>
    BY <1>4, Zenon DEF CrashRestart
  <2>2. TaskOK(task', peer'.issued, epochFile')
    BY <2>1, IdleTaskIsOK
  <2>3. InboxOK(sessionInbox', peer'.issued)
    BY <2>1, InboxSteps
  <2>4. net' = [up |-> net'.up, links |-> net'.links, stops |-> net'.stops, hellos |-> net.hellos,
                evicted |-> net.evicted, served |-> net.served]
    BY <2>1 DEF NetOK
  <2>5. NetOK(net', epochFile') /\ HellosOK(net', peer'.issued, ledger', sessionClock')
    BY <2>1, <2>4, NetStays
  <2> QED
    BY <2>1, <2>2, <2>3, <2>5
<1>5. CASE Connects
  <2>1. /\ net' = [net EXCEPT !.up = TRUE, !.links = @ + 1]
        /\ sessionInbox' = Append(sessionInbox, <<"connected">>)
        /\ UNCHANGED <<task, ledger, epochFile, sessionClock, peer>>
    BY <1>5, Zenon DEF Connects
  <2>2. <<"connected">> \in SessionEvents(peer.issued)
    BY DEF SessionEvents
  <2>3. InboxOK(sessionInbox', peer'.issued)
    BY <2>1, <2>2, InboxSteps
  <2>4. net' = [up |-> net'.up, links |-> net'.links, stops |-> net'.stops, hellos |-> net.hellos,
                evicted |-> net.evicted, served |-> net.served]
    BY <2>1 DEF NetOK
  <2>5. NetOK(net', epochFile') /\ HellosOK(net', peer'.issued, ledger', sessionClock')
    BY <2>1, <2>4, NetStays
  <2> QED
    BY <2>1, <2>3, <2>5
<1>6. CASE Disconnects
  <2>1. /\ net' = [net EXCEPT !.up = FALSE]
        /\ sessionInbox' = Append(sessionInbox, <<"disconnected">>)
        /\ UNCHANGED <<task, ledger, epochFile, sessionClock, peer>>
    BY <1>6, Zenon DEF Disconnects
  <2>2. <<"disconnected">> \in SessionEvents(peer.issued)
    BY DEF SessionEvents
  <2>3. InboxOK(sessionInbox', peer'.issued)
    BY <2>1, <2>2, InboxSteps
  <2>4. net' = [up |-> net'.up, links |-> net'.links, stops |-> net'.stops, hellos |-> net.hellos,
                evicted |-> net.evicted, served |-> net.served]
    BY <2>1 DEF NetOK
  <2>5. NetOK(net', epochFile') /\ HellosOK(net', peer'.issued, ledger', sessionClock')
    BY <2>1, <2>4, NetStays
  <2> QED
    BY <2>1, <2>3, <2>5
<1>7. CASE SessionTick
  <2>1. /\ sessionClock' = sessionClock + 1
        /\ UNCHANGED <<task, ledger, epochFile, sessionInbox, peer, net>>
    BY <1>7, Zenon DEF SessionTick
  <2>2. sessionClock' \in Nat
    BY <2>1
  <2>3. HellosOK(net', peer'.issued, ledger', sessionClock')
    BY <2>1, TimeIsSound DEF PeerOK
  <2> QED
    BY <2>1, <2>2, <2>3
<1>8. CASE CloudRepeats
  <2>1. PICK e \in peer.sent : sessionInbox' = Append(sessionInbox, e)
    BY <1>8, Zenon DEF CloudRepeats, Deliver
  <2>2. UNCHANGED <<task, ledger, epochFile, sessionClock, peer, net>>
    BY <1>8, Zenon DEF CloudRepeats
  <2>3. e \in SessionEvents(peer.issued)
    BY DEF PeerOK
  <2>4. InboxOK(sessionInbox', peer'.issued)
    BY <2>1, <2>2, <2>3, InboxSteps
  <2> QED
    BY <2>2, <2>4
<1> QED
  BY <1>1, <1>2, <1>3, <1>4, <1>5, <1>6, <1>7, <1>8

\* prepare_request: the ledger gets a request, the task starts a handshake.
LEMMA ConnectionStep ==
  ASSUME SessionInv, AwaitConnection
  PROVE  SessionInv'
<1> USE DEF SessionInv
<1>1. /\ sessionInbox # <<>> /\ sessionInbox' = Tail(sessionInbox)
      /\ UNCHANGED <<epochFile, sessionClock, net>>
  BY Zenon DEF AwaitConnection
<1>2. CASE UNCHANGED <<task, ledger, uplinked, peer>>
  <2>1. InboxOK(sessionInbox', peer'.issued)
    BY <1>1, <1>2, InboxSteps
  <2> QED
    BY <1>1, <1>2, <2>1
<1>3. CASE /\ ledger' = Prepared(ledger, peer.nonces + 1)
           /\ peer' = [peer EXCEPT !.nonces = @ + 1]
           /\ task' = [SessionIdle("challenge") EXCEPT !.request = ledger'.pending.id]
  <2>1. PeerOK(peer') /\ peer'.issued = peer.issued /\ peer.nonces + 1 \in Nat
    <3>1. peer = [nonces |-> peer.nonces, issued |-> peer.issued, accepted |-> peer.accepted,
                  sent |-> peer.sent]
      BY DEF PeerOK
    <3>2. peer.nonces + 1 \in Nat
      BY DEF PeerOK
    <3>3. peer' = [nonces |-> peer.nonces + 1, issued |-> peer.issued,
                   accepted |-> peer.accepted, sent |-> peer.sent]
      BY <1>3, <3>1
    <3> QED
      BY <3>2, <3>3 DEF PeerOK
  <2>2. InboxOK(sessionInbox', peer'.issued)
    BY <1>1, <2>1, InboxSteps
  <2>3. TaskOK(task', peer'.issued, epochFile')
    BY <1>3 DEF TaskOK, SessionIdle, SessionSteps
  <2>4. Stamped(peer.nonces + 1, sessionClock + RequestLife) \in Stamps
    BY <2>1, SessionAssumption DEF Stamped, Stamps
  <2>5. LedgerOK(ledger', peer'.issued) /\ ledger'.records = ledger.records
    <3>1. CASE Live(ledger)
      BY <1>3, <2>1, <3>1 DEF Prepared
    <3>2. CASE ~Live(ledger)
      <4>1. ledger' = [ledger EXCEPT !.pending = Stamped(peer.nonces + 1, sessionClock + RequestLife)]
        BY <1>3, <3>2 DEF Prepared
      <4> QED
        BY <2>1, <2>4, <4>1 DEF LedgerOK
    <3> QED
      BY <3>1, <3>2
  <2>6. HellosOK(net', peer'.issued, ledger', sessionClock')
    BY <1>1, <2>1, <2>5 DEF HellosOK, Answered
  <2> QED
    BY <1>1, <2>1, <2>2, <2>3, <2>5, <2>6
<1> QED
  BY <1>2, <1>3, Zenon DEF AwaitConnection

\* A challenge is reserved, and answered at once when its hello was stored before.
LEMMA ChallengeStep ==
  ASSUME SessionInv, AwaitChallenge
  PROVE  SessionInv'
<1> USE DEF SessionInv
<1> DEFINE e == Head(sessionInbox)
           c == e[2]
           m == Reserved(ledger, c, task.request)
           hello == ledger'.records[c.id].hello
<1>1. /\ sessionInbox # <<>> /\ sessionInbox' = Tail(sessionInbox)
      /\ UNCHANGED <<epochFile, sessionClock, peer>>
      /\ task.pc = "challenge"
  BY Zenon DEF AwaitChallenge
<1>2. InboxOK(sessionInbox', peer'.issued) /\ e \in SessionEvents(peer.issued)
  BY <1>1, InboxSteps
<1>3. peer.issued \in Seq(Stamps) /\ \A i \in DOMAIN peer.issued : peer.issued[i].id = i
  BY DEF PeerOK
<1>4. CASE UNCHANGED <<task, ledger, uplinked, net>>
  BY <1>1, <1>2, <1>4
<1>5. CASE GiveUp /\ UNCHANGED <<ledger, uplinked, net>>
  <2>1. TaskOK(task', peer'.issued, epochFile')
    BY <1>5, IdleTaskIsOK DEF GiveUp
  <2> QED
    BY <1>1, <1>2, <1>5, <2>1
<1>6. CASE /\ e[1] = "challenge"
           /\ MayReserve(ledger, c, task.request)
           /\ ledger' = m
           /\ IF hello = Nobody
                THEN /\ task' = [task EXCEPT !.pc = "sign", !.challenge = c]
                     /\ net' = Evicts(c)
                ELSE /\ task' = [task EXCEPT !.pc = "accept", !.challenge = c, !.hello = hello]
                     /\ net' = Told(hello)
  <2>1. Issued(c, peer.issued)
    BY <1>2, <1>3, <1>6, EventShape
  <2>2. /\ LedgerOK(m, peer.issued)
        /\ c.id \in DOMAIN m.records
        /\ m.records[c.id].order = 0
        /\ m.records[c.id].hello # Nobody =>
             c.id \in DOMAIN ledger.records /\ m.records[c.id] = ledger.records[c.id]
             /\ Forgets(ledger, c) = {}
        /\ \A h, ev : Answered(h, peer.issued, ledger, sessionClock, ev) =>
                        Answered(h, peer.issued, m, sessionClock, ev \cup Forgets(ledger, c))
    BY <1>3, <1>6, <2>1, ReserveIsSound
  <2>3. sessionClock < c.until
    BY <1>6 DEF MayReserve
  <2> HIDE DEF m, c, e
  <2>4. LedgerOK(ledger', peer'.issued)
    BY <1>1, <1>6, <2>2
  <2>5. CASE hello = Nobody
    <3>1. task' = [task EXCEPT !.pc = "sign", !.challenge = c] /\ net' = Evicts(c)
      BY <1>6, <2>5
    <3>2. TaskOK(task', peer'.issued, epochFile')
      BY <1>1, <2>1, <3>1 DEF TaskOK, SessionSteps
    <3>3. /\ net'.hellos = net.hellos /\ net'.evicted = net.evicted \cup Forgets(ledger, c)
          /\ NetOK(net', epochFile')
      BY <1>1, <3>1 DEF NetOK, Evicts
    <3>4. HellosOK(net', peer.issued, m, sessionClock)
      BY <2>2, <3>3, RememberingIsSound
    <3> QED
      BY <1>1, <1>2, <1>6, <2>4, <3>2, <3>3, <3>4
  <2>6. CASE hello # Nobody
    <3>1. /\ task' = [task EXCEPT !.pc = "accept", !.challenge = c, !.hello = hello]
          /\ net' = Told(hello)
      BY <1>6, <2>6
    <3>2. TaskOK(task', peer'.issued, epochFile')
      BY <1>1, <2>1, <3>1 DEF TaskOK, SessionSteps
    <3>3. /\ net'.hellos = net.hellos \cup {hello} /\ net'.evicted = net.evicted
          /\ NetOK(net', epochFile')
      BY <1>1, <3>1 DEF NetOK, Told
    <3>4. hello = m.records[c.id].hello
      BY <1>6
    <3>5. HellosOK(net, peer.issued, m, sessionClock)
      <4>1. Forgets(ledger, c) = {}
        BY <2>2, <2>6, <3>4
      <4>2. net.evicted = net.evicted \cup Forgets(ledger, c)
        BY <4>1
      <4> QED
        BY <2>2, <4>2, RememberingIsSound
    <3>6. HellosOK(net', peer.issued, m, sessionClock)
      BY <1>3, <2>1, <2>2, <2>3, <2>6, <3>3, <3>4, <3>5, SendingIsSound
    <3> QED
      BY <1>1, <1>2, <1>6, <2>4, <3>2, <3>3, <3>6
  <2> QED
    BY <2>5, <2>6
<1> QED
  BY <1>4, <1>5, <1>6, Zenon DEF AwaitChallenge

\* The hello is stored before it is sent.
LEMMA SignStep ==
  ASSUME SessionInv, SignHello
  PROVE  SessionInv'
<1> USE DEF SessionInv
<1> DEFINE c == task.challenge
           hello == <<c.id, ledger.records[c.id].request>>
<1>1. task.pc = "sign" /\ UNCHANGED <<epochFile, sessionInbox, sessionClock, peer>>
  BY Zenon DEF SignHello
<1>2. CASE GiveUp /\ UNCHANGED <<ledger, uplinked, net>>
  <2>1. TaskOK(task', peer'.issued, epochFile')
    BY <1>2, IdleTaskIsOK DEF GiveUp
  <2> QED
    BY <1>1, <1>2, <2>1
<1>3. CASE /\ sessionClock < c.until
           /\ MaySign(ledger, c.id, hello)
           /\ ledger' = Signed(ledger, c.id, hello)
           /\ task' = [task EXCEPT !.pc = "accept", !.hello = hello]
           /\ net' = Told(hello)
  <2>1. Issued(c, peer.issued)
    BY <1>1 DEF TaskOK
  <2>2. /\ c.id \in DOMAIN ledger.records
        /\ ledger.records[c.id].order = 0
        /\ ledger.records[c.id].hello \in {Nobody, hello}
    BY <1>3 DEF MaySign
  <2>3. hello \in Hellos /\ hello[1] = c.id
    BY <2>1, <2>2 DEF LedgerOK, Hellos, Issued, Stamps
  <2>4. peer.issued \in Seq(Stamps)
    BY DEF PeerOK
  <2> HIDE DEF hello, c
  <2>5. /\ LedgerOK(ledger', peer.issued)
        /\ DOMAIN ledger'.records = DOMAIN ledger.records
        /\ ledger'.records[c.id].hello = hello /\ ledger'.records[c.id].order = 0
        /\ \A h, ev : Answered(h, peer.issued, ledger, sessionClock, ev) =>
                        Answered(h, peer.issued, ledger', sessionClock, ev)
    BY <1>3, <2>2, <2>3, <2>4, SignIsSound
  <2>7. HellosOK(net, peer.issued, ledger', sessionClock)
    BY <2>5 DEF HellosOK
  <2>8. /\ net'.hellos = net.hellos \cup {hello} /\ net'.evicted = net.evicted
        /\ NetOK(net', epochFile')
    BY <1>1, <1>3 DEF NetOK, Told
  <2>9. hello # Nobody
    BY <2>3, SessionAssumption
  <2>10. HellosOK(net', peer.issued, ledger', sessionClock)
    BY <1>3, <2>1, <2>2, <2>4, <2>5, <2>7, <2>8, <2>9, SendingIsSound
  <2>11. TaskOK(task', peer'.issued, epochFile')
    BY <1>1, <1>3, <2>1 DEF TaskOK, SessionSteps, c
  <2> QED
    BY <1>1, <2>5, <2>8, <2>10, <2>11
<1> QED
  BY <1>2, <1>3, Zenon DEF SignHello

\* A repeated challenge is answered again, a higher epoch is bound.
LEMMA AcceptedStep ==
  ASSUME SessionInv, AwaitAccepted
  PROVE  SessionInv'
<1> USE DEF SessionInv
<1> DEFINE e == Head(sessionInbox)
           c == e[2]
           m == Reserved(ledger, c, task.request)
<1>1. /\ sessionInbox # <<>> /\ sessionInbox' = Tail(sessionInbox)
      /\ UNCHANGED <<epochFile, sessionClock, peer>>
      /\ task.pc = "accept"
  BY Zenon DEF AwaitAccepted
<1>2. InboxOK(sessionInbox', peer'.issued) /\ e \in SessionEvents(peer.issued)
  BY <1>1, InboxSteps
<1>3. peer.issued \in Seq(Stamps) /\ \A i \in DOMAIN peer.issued : peer.issued[i].id = i
  BY DEF PeerOK
<1>4. CASE UNCHANGED <<task, ledger, uplinked, net>>
  BY <1>1, <1>2, <1>4
<1>5. CASE GiveUp /\ UNCHANGED <<ledger, uplinked, net>>
  <2>1. TaskOK(task', peer'.issued, epochFile')
    BY <1>5, IdleTaskIsOK DEF GiveUp
  <2> QED
    BY <1>1, <1>2, <1>5, <2>1
<1>6. CASE /\ e[1] = "accepted" /\ Binds(e[2])
           /\ task' = [task EXCEPT !.pc = "complete", !.epoch = e[2]]
           /\ UNCHANGED <<ledger, uplinked, net>>
  <2>1. e[2] \in Nat /\ e[2] > epochFile
    BY <1>2, <1>3, <1>6, EventShape DEF Binds
  <2> HIDE DEF e
  <2>2. TaskOK(task', peer'.issued, epochFile')
    BY <1>1, <1>6, <2>1 DEF TaskOK, SessionSteps
  <2> QED
    BY <1>1, <1>2, <1>6, <2>2
<1>7. CASE /\ e[1] = "challenge"
           /\ MayReserve(ledger, c, task.request)
           /\ ledger' = m
           /\ net' = Evicts(c)
           /\ UNCHANGED task
  <2>1. Issued(c, peer.issued)
    BY <1>2, <1>3, <1>7, EventShape
  <2>2. /\ LedgerOK(m, peer.issued)
        /\ \A h, ev : Answered(h, peer.issued, ledger, sessionClock, ev) =>
                        Answered(h, peer.issued, m, sessionClock, ev \cup Forgets(ledger, c))
    BY <1>3, <1>7, <2>1, ReserveIsSound
  <2> HIDE DEF m, c, e
  <2>3. /\ net'.hellos = net.hellos /\ net'.evicted = net.evicted \cup Forgets(ledger, c)
        /\ NetOK(net', epochFile')
    BY <1>1, <1>7 DEF NetOK, Evicts
  <2>4. HellosOK(net', peer.issued, m, sessionClock)
    BY <2>2, <2>3, RememberingIsSound
  <2> QED
    BY <1>1, <1>2, <1>7, <2>2, <2>3, <2>4
<1> QED
  BY <1>4, <1>5, <1>6, <1>7, Zenon DEF AwaitAccepted

\* The challenge is completed, then the epoch is committed; either write may fail.
LEMMA CommitSteps ==
  ASSUME SessionInv, CompleteChallenge \/ CommitEpoch \/ SessionWriteFails
  PROVE  SessionInv'
<1> USE DEF SessionInv
<1>1. CASE CompleteChallenge
  <2>1. task.pc = "complete" /\ UNCHANGED <<epochFile, sessionInbox, sessionClock, peer, net>>
    BY <1>1, Zenon DEF CompleteChallenge
  <2>2. CASE GiveUp /\ UNCHANGED ledger
    <3>1. TaskOK(task', peer'.issued, epochFile')
      BY <2>2, IdleTaskIsOK DEF GiveUp
    <3> QED
      BY <2>1, <2>2, <3>1
  <2>3. CASE /\ MayComplete(ledger, task.challenge.id)
             /\ ledger' = Complete(ledger, task.challenge.id)
             /\ task' = [task EXCEPT !.pc = "commit"]
    <3>1. task.challenge.id \in DOMAIN ledger.records
      BY <2>3 DEF MayComplete
    <3>2. peer.issued \in Seq(Stamps)
      BY DEF PeerOK
    <3>3. /\ LedgerOK(ledger', peer.issued)
          /\ \A h, ev : Answered(h, peer.issued, ledger, sessionClock, ev) =>
                          Answered(h, peer.issued, ledger', sessionClock, ev)
      BY <2>3, <3>1, <3>2, CompleteIsSound
    <3>4. HellosOK(net, peer.issued, ledger', sessionClock)
      BY <3>3 DEF HellosOK
    <3>5. TaskOK(task', peer'.issued, epochFile')
      BY <2>1, <2>3 DEF TaskOK, SessionSteps
    <3> QED
      BY <2>1, <3>3, <3>4, <3>5
  <2> QED
    BY <1>1, <2>2, <2>3, Zenon DEF CompleteChallenge
<1>2. CASE CommitEpoch
  <2>1. /\ task.pc = "commit"
        /\ epochFile' = task.epoch
        /\ task' = [task EXCEPT !.pc = "serving"]
        /\ net' = [net EXCEPT !.served = Append(@, task.epoch)]
        /\ UNCHANGED <<ledger, sessionInbox, uplinked, sessionClock, peer>>
    BY <1>2, Zenon DEF CommitEpoch
  <2>2. task.epoch \in Nat /\ task.epoch > epochFile
    BY <2>1 DEF TaskOK
  <2>3. TaskOK(task', peer'.issued, epochFile')
    BY <2>1 DEF TaskOK, SessionSteps
  <2>4. NetOK(net', epochFile')
    <3> DEFINE s == net.served
               t == Append(s, task.epoch)
    <3>1. s \in Seq(Nat) /\ \A i \in DOMAIN s : s[i] <= epochFile
      BY DEF NetOK
    <3>2. /\ t \in Seq(Nat) /\ Len(s) \in Nat /\ Len(t) = Len(s) + 1
          /\ \A i \in 1 .. Len(s) : t[i] = s[i]
          /\ t[Len(s) + 1] = task.epoch
      BY <2>2, <3>1, SequenceFacts
    <3>3. DOMAIN s = 1 .. Len(s) /\ DOMAIN t = 1 .. Len(s) + 1
      BY <3>1, <3>2, SequenceFacts
    <3>4. \A i, j \in DOMAIN s : i < j => s[i] < s[j]
      BY DEF NetOK
    <3>5. net' = [up |-> net.up, links |-> net.links, stops |-> net.stops, hellos |-> net.hellos,
                  evicted |-> net.evicted, served |-> t]
      BY <2>1 DEF NetOK
    <3>6. \A i \in DOMAIN s : s[i] \in Nat
      BY <3>1, <3>3, SequenceFacts
    <3> HIDE DEF s, t
    <3>7. ASSUME NEW i \in DOMAIN t
          PROVE  t[i] <= task.epoch
      <4>1. CASE i \in DOMAIN s
        <5>1. t[i] = s[i] /\ s[i] \in Nat /\ s[i] <= epochFile /\ epochFile \in Nat
          BY <3>1, <3>2, <3>3, <3>6, <4>1
        <5> QED
          BY <2>2, <5>1
      <4>2. CASE i \notin DOMAIN s
        <5>1. t[i] = task.epoch
          BY <3>2, <3>3, <4>2
        <5> QED
          BY <2>2, <5>1
      <4> QED
        BY <4>1, <4>2
    <3>8. ASSUME NEW i \in DOMAIN t, NEW j \in DOMAIN t, i < j
          PROVE  t[i] < t[j]
      <4>1. i \in DOMAIN s /\ t[i] = s[i] /\ s[i] \in Nat /\ s[i] <= epochFile
        BY <3>1, <3>2, <3>3, <3>6, <3>8
      <4>2. CASE j \in DOMAIN s
        BY <3>2, <3>3, <3>4, <3>8, <4>1, <4>2
      <4>3. CASE j \notin DOMAIN s
        <5>1. t[j] = task.epoch
          BY <3>2, <3>3, <4>3
        <5> QED
          BY <2>2, <4>1, <5>1
      <4> QED
        BY <4>2, <4>3
    <3>9. net'.served = t
      BY <3>5
    <3>10. net' = [up |-> net'.up, links |-> net'.links, stops |-> net'.stops,
                   hellos |-> net'.hellos, evicted |-> net'.evicted, served |-> net'.served]
      BY <3>5
    <3> QED
      BY <2>1, <3>2, <3>7, <3>8, <3>9, <3>10 DEF NetOK
  <2>5. HellosOK(net', peer'.issued, ledger', sessionClock')
    <3>1. net'.hellos = net.hellos /\ net'.evicted = net.evicted
      BY <2>1 DEF NetOK
    <3> QED
      BY <2>1, <3>1 DEF HellosOK
  <2> QED
    BY <2>1, <2>2, <2>3, <2>4, <2>5
<1>3. CASE SessionWriteFails
  <2>1. /\ task.pc \in {"sign", "complete", "commit"}
        /\ net' = [net EXCEPT !.stops = @ + 1]
        /\ task' = SessionIdle("waiting")
        /\ UNCHANGED <<ledger, sessionInbox, uplinked, sessionClock, peer>>
        /\ epochFile' = epochFile \/ (task.pc = "commit" /\ epochFile' = task.epoch)
    BY <1>3, Zenon DEF SessionWriteFails, SessionStopped, GiveUp
  <2>2. TaskOK(task', peer'.issued, epochFile')
    BY <2>1, IdleTaskIsOK
  <2>3. epochFile' \in Nat /\ epochFile' >= epochFile
    BY <2>1 DEF TaskOK
  <2>4. net' = [up |-> net'.up, links |-> net'.links, stops |-> net'.stops, hellos |-> net.hellos,
                evicted |-> net.evicted, served |-> net.served]
    BY <2>1 DEF NetOK
  <2>5. NetOK(net', epochFile) /\ HellosOK(net', peer'.issued, ledger', sessionClock')
    <3>1. NetOK(net', epochFile) /\ HellosOK(net', peer.issued, ledger, sessionClock)
      BY <2>4, NetStays
    <3> QED
      BY <2>1, <3>1
  <2>6. NetOK(net', epochFile')
    <3>1. \A i \in DOMAIN net'.served : net'.served[i] \in Nat
      BY <2>5, SequenceFacts DEF NetOK
    <3> QED
      BY <2>3, <2>5, <3>1 DEF NetOK
  <2> QED
    BY <2>1, <2>2, <2>3, <2>5, <2>6
<1> QED
  BY <1>1, <1>2, <1>3

\* The cloud issues a challenge or accepts a hello.
LEMMA CloudSteps ==
  ASSUME SessionInv, CloudChallenges \/ CloudAccepts
  PROVE  SessionInv'
<1> USE DEF SessionInv
<1>1. CASE CloudChallenges
  <2>1. UNCHANGED <<task, ledger, epochFile, sessionClock, net>>
    BY <1>1, Zenon DEF CloudChallenges
  <2>2. PICK life \in ChallengeLives :
          LET c == Stamped(Len(peer.issued) + 1, sessionClock + life)
          IN /\ sessionInbox' = Append(sessionInbox, <<"challenge", c>>)
             /\ peer' = [peer EXCEPT !.issued = Append(@, c), !.sent = @ \cup {<<"challenge", c>>}]
    BY <1>1, Zenon DEF CloudChallenges, Deliver
  <2> DEFINE c == Stamped(Len(peer.issued) + 1, sessionClock + life)
             more == Append(peer.issued, c)
  <2>3. peer.issued \in Seq(Stamps) /\ Len(peer.issued) \in Nat
    BY SequenceFacts DEF PeerOK
  <2>4. c \in Stamps /\ c.id = Len(peer.issued) + 1
    BY <2>3, SessionAssumption DEF Stamped, Stamps
  <2>5. /\ sessionInbox' = Append(sessionInbox, <<"challenge", c>>)
        /\ peer' = [peer EXCEPT !.issued = more, !.sent = @ \cup {<<"challenge", c>>}]
    BY <2>2
  <2> HIDE DEF c
  <2>6. /\ SessionEvents(peer.issued) \subseteq SessionEvents(more)
        /\ <<"challenge", c>> \in SessionEvents(more)
        /\ \A i \in DOMAIN peer.issued : i \in DOMAIN more /\ more[i] = peer.issued[i]
    BY <2>3, <2>4, EventsGrow
  <2>7. /\ more \in Seq(Stamps)
        /\ \A i \in DOMAIN more : more[i].id = i
    <3>1. /\ more \in Seq(Stamps) /\ Len(more) = Len(peer.issued) + 1
          /\ more[Len(peer.issued) + 1] = c
      BY <2>3, <2>4, SequenceFacts
    <3>2. DOMAIN more = 1 .. Len(peer.issued) + 1 /\ DOMAIN peer.issued = 1 .. Len(peer.issued)
      BY <2>3, <3>1, SequenceFacts
    <3> HIDE DEF more
    <3>3. \A i \in DOMAIN peer.issued : peer.issued[i].id = i
      BY DEF PeerOK
    <3> QED
      BY <2>3, <2>4, <2>6, <3>1, <3>2, <3>3
  <2> HIDE DEF more
  <2>8. /\ peer'.issued = more
        /\ peer' = [nonces |-> peer'.nonces, issued |-> peer'.issued, accepted |-> peer'.accepted,
                    sent |-> peer'.sent]
        /\ peer'.nonces = peer.nonces /\ peer'.accepted = peer.accepted
        /\ peer'.sent = peer.sent \cup {<<"challenge", c>>}
    BY <2>5 DEF PeerOK
  <2>9. PeerOK(peer')
    BY <2>6, <2>7, <2>8 DEF PeerOK
  <2>10. InboxOK(sessionInbox', peer'.issued)
    BY <2>5, <2>6, <2>8, InboxSteps
  <2>11. /\ LedgerOK(ledger', peer'.issued)
         /\ TaskOK(task', peer'.issued, epochFile')
         /\ HellosOK(net', peer'.issued, ledger', sessionClock')
    BY <2>1, <2>6, <2>8, IssuingIsSound
  <2> QED
    BY <2>1, <2>9, <2>10, <2>11
<1>2. CASE CloudAccepts
  <2>1. UNCHANGED <<task, ledger, epochFile, sessionClock, net>>
    BY <1>2, Zenon DEF CloudAccepts
  <2>2. PICK h \in net.hellos :
          LET epoch == Len(peer.accepted) + 1
          IN /\ sessionInbox' = Append(sessionInbox, <<"accepted", epoch>>)
             /\ peer' = [peer EXCEPT !.accepted = Append(@, h[1]),
                                     !.sent = @ \cup {<<"accepted", epoch>>}]
    BY <1>2, Zenon DEF CloudAccepts, Deliver
  <2> DEFINE epoch == Len(peer.accepted) + 1
             f == Append(peer.accepted, h[1])
  <2>3. epoch \in Nat
    BY SequenceFacts DEF PeerOK
  <2>4. f \in Seq(Nat)
    <3>1. h[1] \in Nat
      BY DEF HellosOK, Answered, Hellos
    <3> QED
      BY <3>1, SequenceFacts DEF PeerOK
  <2>5. /\ sessionInbox' = Append(sessionInbox, <<"accepted", epoch>>)
        /\ peer' = [peer EXCEPT !.accepted = f, !.sent = @ \cup {<<"accepted", epoch>>}]
    BY <2>2
  <2> HIDE DEF epoch, f
  <2>6. <<"accepted", epoch>> \in SessionEvents(peer.issued)
    BY <2>3 DEF SessionEvents
  <2>7. /\ peer'.issued = peer.issued
        /\ peer' = [nonces |-> peer'.nonces, issued |-> peer'.issued, accepted |-> peer'.accepted,
                    sent |-> peer'.sent]
        /\ peer'.nonces = peer.nonces /\ peer'.accepted = f
        /\ peer'.sent = peer.sent \cup {<<"accepted", epoch>>}
    BY <2>5 DEF PeerOK
  <2>8. PeerOK(peer')
    BY <2>4, <2>6, <2>7 DEF PeerOK
  <2>9. InboxOK(sessionInbox', peer'.issued)
    BY <2>5, <2>6, <2>7, InboxSteps
  <2> QED
    BY <2>1, <2>7, <2>8, <2>9
<1> QED
  BY <1>1, <1>2

\* The session starts in order.
LEMMA SessionStarts == SessionInit => SessionInv
<1> SUFFICES ASSUME SessionInit PROVE SessionInv
  OBVIOUS
<1>1. PeerOK(peer)
  <2>1. peer = [nonces |-> 0, issued |-> <<>>, accepted |-> <<>>, sent |-> {}]
    BY DEF SessionInit
  <2>2. peer.issued = <<>> /\ peer.accepted = <<>> /\ peer.sent = {} /\ peer.nonces \in Nat
    BY <2>1
  <2>3. DOMAIN peer.issued = {} /\ peer.issued \in Seq(Stamps) /\ peer.accepted \in Seq(Nat)
    BY <2>2
  <2> QED
    BY <2>1, <2>2, <2>3 DEF PeerOK
<1>2. LedgerOK(ledger, peer.issued)
  <2>1. ledger = [pending |-> Nobody, records |-> <<>>, next |-> 1]
    BY DEF SessionInit
  <2>2. /\ ledger.records = <<>> /\ ledger.pending = Nobody /\ ledger.next = 1
        /\ ledger = [pending |-> ledger.pending, records |-> ledger.records, next |-> ledger.next]
    BY <2>1
  <2>3. DOMAIN ledger.records = {} /\ ledger.records \in [{} -> LedgerRecords]
    BY <2>2
  <2> QED
    BY <2>2, <2>3 DEF LedgerOK
<1>3. InboxOK(sessionInbox, peer.issued)
  BY DEF SessionInit, InboxOK
<1>4. TaskOK(task, peer.issued, epochFile)
  BY IdleTaskIsOK DEF SessionInit
<1>5. NetOK(net, epochFile) /\ HellosOK(net, peer.issued, ledger, sessionClock)
  BY DEF SessionInit, NetOK, HellosOK
<1> QED
  BY <1>1, <1>2, <1>3, <1>4, <1>5 DEF SessionInit, SessionInv

\* A challenge the ledger remembers gets one hello, and epochs only grow, whatever
\* is repeated, retried, lost, timed out or interrupted by crashes.
THEOREM SessionsAreFresh == SessionSpec => [](OneHelloPerChallenge /\ EpochsAreFresh)
<1>1. SessionInv /\ [SessionNext]_sessionVars => SessionInv'
  <2> SUFFICES ASSUME SessionInv, [SessionNext]_sessionVars PROVE SessionInv'
    OBVIOUS
  <2>1. CASE UNCHANGED sessionVars
    BY <2>1 DEF sessionVars, SessionInv
  <2>2. CASE SessionNext
    BY <2>2, QuietSteps, ConnectionStep, ChallengeStep, SignStep, AcceptedStep, CommitSteps,
       CloudSteps DEF SessionNext
  <2> QED
    BY <2>1, <2>2
<1>2. SessionInv => OneHelloPerChallenge /\ EpochsAreFresh
  BY DEF SessionInv, HellosOK, NetOK, TaskOK, OneHelloPerChallenge, EpochsAreFresh
<1> QED
  BY <1>1, <1>2, SessionStarts, PTL DEF SessionSpec

-----------------------------------------------------------------------------
(* The transport: identities and packets stay paired.                       *)

\* The connection's packets still stand for something: it was not lost.
LinkAlive == manager.link # "sleeping" /\ ~(manager.pc = "report" /\ manager.held = <<Disconnected>>)

TransportShape ==
  /\ transportRuntime = [pc |-> transportRuntime.pc, next |-> transportRuntime.next]
  /\ transportRuntime.next \in Nat
  /\ manager = [pc |-> manager.pc, held |-> manager.held, link |-> manager.link,
                connection |-> manager.connection]
  /\ reported = [confirmed |-> reported.confirmed, told |-> reported.told]
  /\ outbound \in Seq(Nat) /\ transportRequests \in Seq(Nat) /\ waiting \in Seq(Nat)

\* The identities that wait are those of the queued requests, in order, and of the
\* message being published.
Queued ==
  IF manager.pc = "publish"
    THEN manager.held[1] \in Nat /\ waiting = Append(transportRequests, manager.held[1])
    ELSE waiting = transportRequests

\* A packet identifier names the record its packet carries.
PacketsArePaired ==
  LinkAlive => \A k \in DOMAIN inflight : k \in DOMAIN wire /\ inflight[k] = wire[k]

\* What is about to be reported was confirmed.
ReportIsTrue == manager.pc = "report" /\ Len(manager.held) = 2 => manager.held[2] \in reported.confirmed

\* The inductive invariant of the transport.
TransportInv ==
  TransportShape /\ Queued /\ PacketsArePaired /\ ReportIsTrue /\ ReportedWereConfirmed

\* The runtime's steps concern neither packets nor reports.
LEMMA RuntimeSteps ==
  ASSUME TransportInv, RuntimeEvent \/ RuntimeSend
  PROVE  TransportInv'
<1>1. UNCHANGED <<manager, transportRequests, waiting, inflight, wire, reported>>
  BY Zenon DEF RuntimeEvent, RuntimeSend
<1>2. /\ transportRuntime' = [pc |-> transportRuntime'.pc, next |-> transportRuntime'.next]
      /\ transportRuntime'.next \in Nat
      /\ outbound' \in Seq(Nat)
  <2>1. CASE RuntimeEvent
    BY <2>1 DEF RuntimeEvent, TransportInv, TransportShape
  <2>2. CASE RuntimeSend
    BY <2>2 DEF RuntimeSend, TransportInv, TransportShape
  <2> QED
    BY <2>1, <2>2
<1> QED
  BY <1>1, <1>2 DEF TransportInv, TransportShape, Queued, PacketsArePaired, LinkAlive, ReportIsTrue,
                    ReportedWereConfirmed

\* The manager takes a message, publishes it, or reports.
LEMMA ManagerSteps ==
  ASSUME TransportInv, ManagerTakes \/ ManagerPublishes \/ ManagerReports
  PROVE  TransportInv'
<1> USE DEF TransportInv, TransportShape
<1>1. CASE ManagerTakes
  <2>1. /\ manager.pc = "select" /\ manager.link # "sleeping"
        /\ outbound # <<>> /\ outbound' = Tail(outbound)
        /\ waiting' = Append(waiting, Head(outbound))
        /\ manager' = [manager EXCEPT !.pc = "publish", !.held = <<Head(outbound)>>]
        /\ UNCHANGED <<transportRuntime, transportRequests, inflight, wire, events, reported>>
    BY <1>1, Zenon DEF ManagerTakes, Selecting
  <2>2. Head(outbound) \in Nat /\ Tail(outbound) \in Seq(Nat)
    BY <2>1, SequenceFacts
  <2>3. /\ manager'.pc = "publish" /\ manager'.held[1] = Head(outbound)
        /\ manager'.link = manager.link
    BY <2>1
  <2>4. TransportShape'
    <3>1. waiting' \in Seq(Nat)
      BY <2>1, <2>2, SequenceFacts
    <3>2. manager' = [pc |-> manager'.pc, held |-> manager'.held, link |-> manager'.link,
                      connection |-> manager'.connection]
      BY <2>1
    <3> QED
      BY <2>1, <2>2, <3>1, <3>2
  <2>5. Queued'
    BY <2>1, <2>2, <2>3 DEF Queued
  <2>6. PacketsArePaired' /\ ReportIsTrue' /\ ReportedWereConfirmed'
    BY <2>1, <2>3 DEF PacketsArePaired, LinkAlive, ReportIsTrue, ReportedWereConfirmed
  <2> QED
    BY <2>4, <2>5, <2>6
<1>2. CASE ManagerPublishes
  <2>1. /\ manager.pc = "publish"
        /\ transportRequests' = Append(transportRequests, manager.held[1])
        /\ manager' = [manager EXCEPT !.pc = "select", !.held = <<>>]
        /\ UNCHANGED <<transportRuntime, outbound, waiting, inflight, wire, events, reported>>
    BY <1>2, Zenon DEF ManagerPublishes
  <2>2. manager'.pc = "select" /\ manager'.link = manager.link
    BY <2>1
  <2>3. TransportShape' /\ Queued'
    BY <2>1, <2>2 DEF Queued
  <2>4. PacketsArePaired' /\ ReportIsTrue' /\ ReportedWereConfirmed'
    BY <2>1, <2>2 DEF PacketsArePaired, LinkAlive, ReportIsTrue, ReportedWereConfirmed
  <2> QED
    BY <2>3, <2>4
<1>3. CASE ManagerReports
  <2>1. /\ manager.pc = "report"
        /\ manager' = [manager EXCEPT !.held = <<>>, !.pc = "select",
                         !.link = IF manager.held = <<Disconnected>> THEN "sleeping" ELSE @]
        /\ reported' = IF Len(manager.held) = 2
                         THEN [reported EXCEPT !.told = @ \cup {manager.held[2]}] ELSE reported
        /\ UNCHANGED <<transportRuntime, outbound, transportRequests, waiting, inflight, wire>>
    BY <1>3, Zenon DEF ManagerReports
  <2>2. /\ manager'.pc = "select"
        /\ manager'.link = IF manager.held = <<Disconnected>> THEN "sleeping" ELSE manager.link
    BY <2>1
  <2>3. TransportShape' /\ Queued'
    BY <2>1, <2>2 DEF Queued
  <2>4. PacketsArePaired' /\ ReportIsTrue'
    BY <2>1, <2>2 DEF PacketsArePaired, LinkAlive, ReportIsTrue
  <2>5. ReportedWereConfirmed'
    <3>1. CASE Len(manager.held) = 2
      <4>1. reported'.told = reported.told \cup {manager.held[2]} /\ reported'.confirmed = reported.confirmed
        BY <2>1, <3>1
      <4> QED
        BY <2>1, <3>1, <4>1 DEF ReportIsTrue, ReportedWereConfirmed
    <3>2. CASE Len(manager.held) # 2
      BY <2>1, <3>2 DEF ReportedWereConfirmed
    <3> QED
      BY <3>1, <3>2
  <2> QED
    BY <2>3, <2>4, <2>5
<1> QED
  BY <1>1, <1>2, <1>3

\* A written request takes a free packet, and its identity with it.
LEMMA OutgoingStep ==
  ASSUME TransportInv, PollOutgoing
  PROVE  TransportInv'
<1> USE DEF TransportInv, TransportShape
<1> DEFINE k == FreePacket
           v == Head(transportRequests)
<1>1. /\ manager.pc = "select" /\ manager.link # "sleeping"
      /\ transportRequests # <<>> /\ transportRequests' = Tail(transportRequests)
      /\ Packets \ DOMAIN wire # {}
      /\ wire' = Extended(wire, k, v)
      /\ UNCHANGED <<transportRuntime, outbound, manager, events, reported>>
  BY Zenon DEF PollOutgoing, Selecting
<1>2. waiting = transportRequests
  BY <1>1 DEF Queued
<1>3. /\ waiting' = Tail(waiting)
      /\ inflight' = IF v = 0 THEN inflight ELSE Extended(inflight, k, v)
  BY <1>1, <1>2, Zenon DEF PollOutgoing
<1>4. k \notin DOMAIN wire
  <2>1. \E j \in Packets : j \notin DOMAIN wire
    BY <1>1
  <2> QED
    BY <2>1, Zenon DEF FreePacket
<1>5. v \in Nat /\ Tail(transportRequests) \in Seq(Nat)
  BY <1>1, SequenceFacts
<1> HIDE DEF k, v
<1>6. TransportShape' /\ Queued'
  BY <1>1, <1>2, <1>3, <1>5 DEF Queued
<1>7. PacketsArePaired'
  <2>1. \A j \in DOMAIN inflight : j \in DOMAIN wire /\ inflight[j] = wire[j]
    BY <1>1 DEF PacketsArePaired, LinkAlive
  <2>2. /\ DOMAIN wire' = DOMAIN wire \cup {k} /\ wire'[k] = v
        /\ \A j \in DOMAIN wire : wire'[j] = wire[j]
    BY <1>1, <1>4 DEF Extended
  <2>3. CASE v = 0
    BY <1>3, <2>1, <2>2, <2>3 DEF PacketsArePaired
  <2>4. CASE v # 0
    <3>1. DOMAIN inflight' = DOMAIN inflight \cup {k} /\ inflight'[k] = v
          /\ \A j \in DOMAIN inflight : j # k => inflight'[j] = inflight[j]
      BY <1>3, <2>4 DEF Extended
    <3> QED
      BY <1>4, <2>1, <2>2, <3>1 DEF PacketsArePaired
  <2> QED
    BY <2>3, <2>4
<1>8. ReportIsTrue' /\ ReportedWereConfirmed'
  BY <1>1 DEF ReportIsTrue, ReportedWereConfirmed
<1> QED
  BY <1>6, <1>7, <1>8

\* A confirmed packet is reported as the record it carried.
LEMMA PubAckStep ==
  ASSUME TransportInv, PollPubAck
  PROVE  TransportInv'
<1> USE DEF TransportInv, TransportShape
<1>1. /\ manager.pc = "select" /\ manager.link # "sleeping"
      /\ UNCHANGED <<transportRuntime, outbound, transportRequests, waiting, events>>
  BY Zenon DEF PollPubAck, Selecting
<1>2. PICK k \in DOMAIN wire :
        /\ wire' = Dropped(wire, k)
        /\ reported' = [reported EXCEPT !.confirmed = @ \cup {wire[k]}]
        /\ IF k \in DOMAIN inflight
             THEN /\ inflight' = Dropped(inflight, k)
                  /\ manager' = [manager EXCEPT !.pc = "report",
                                   !.held = <<"published", inflight[k]>>]
             ELSE UNCHANGED <<inflight, manager>>
  BY Zenon DEF PollPubAck
<1>3. /\ reported'.confirmed = reported.confirmed \cup {wire[k]} /\ reported'.told = reported.told
      /\ reported' = [confirmed |-> reported'.confirmed, told |-> reported'.told]
  BY <1>2
<1>4. \A j \in DOMAIN inflight : j \in DOMAIN wire /\ inflight[j] = wire[j]
  BY <1>1 DEF PacketsArePaired, LinkAlive
<1>5. DOMAIN wire' = DOMAIN wire \ {k} /\ \A j \in DOMAIN wire' : wire'[j] = wire[j]
  BY <1>2 DEF Dropped
<1>6. ReportedWereConfirmed'
  BY <1>3 DEF ReportedWereConfirmed
<1>7. CASE k \in DOMAIN inflight
  <2>1. /\ inflight' = Dropped(inflight, k)
        /\ manager' = [manager EXCEPT !.pc = "report", !.held = <<"published", inflight[k]>>]
    BY <1>2, <1>7
  <2>2. /\ manager'.pc = "report" /\ manager'.held = <<"published", inflight[k]>>
        /\ manager' = [pc |-> manager'.pc, held |-> manager'.held, link |-> manager'.link,
                       connection |-> manager'.connection]
    BY <2>1
  <2>3. DOMAIN inflight' = DOMAIN inflight \ {k} /\ \A j \in DOMAIN inflight' : inflight'[j] = inflight[j]
    BY <2>1 DEF Dropped
  <2>4. PacketsArePaired'
    BY <1>4, <1>5, <2>3 DEF PacketsArePaired
  <2>5. ReportIsTrue'
    BY <1>3, <1>4, <1>7, <2>2 DEF ReportIsTrue
  <2>6. TransportShape' /\ Queued'
    BY <1>1, <1>3, <2>2 DEF Queued
  <2> QED
    BY <1>6, <2>4, <2>5, <2>6
<1>8. CASE k \notin DOMAIN inflight
  <2>1. UNCHANGED <<inflight, manager>>
    BY <1>2, <1>8
  <2>2. PacketsArePaired'
    BY <1>4, <1>5, <1>8, <2>1 DEF PacketsArePaired
  <2>3. TransportShape' /\ Queued' /\ ReportIsTrue'
    BY <1>1, <1>3, <2>1 DEF Queued, ReportIsTrue
  <2> QED
    BY <1>6, <2>2, <2>3
<1> QED
  BY <1>7, <1>8

\* The link comes up, is lost, and starts anew.
LEMMA LinkSteps ==
  ASSUME TransportInv, PollConnAck \/ PollDisconnected \/ Reconnect
  PROVE  TransportInv'
<1> USE DEF TransportInv, TransportShape
<1>1. CASE PollConnAck
  <2>1. /\ manager.pc = "select" /\ manager.link # "sleeping"
        /\ manager' = [manager EXCEPT !.link = "up", !.pc = "report", !.held = <<Connected>>]
        /\ UNCHANGED <<transportRuntime, outbound, transportRequests, waiting, inflight, wire, events,
                       reported>>
    BY <1>1, Zenon DEF PollConnAck, Selecting
  <2>2. manager'.pc = "report" /\ Len(manager'.held) = 1
    BY <2>1
  <2>3. TransportShape' /\ Queued' /\ ReportedWereConfirmed'
    BY <2>1, <2>2 DEF Queued, ReportedWereConfirmed
  <2>4. PacketsArePaired'
    BY <2>1 DEF PacketsArePaired, LinkAlive
  <2>5. ReportIsTrue'
    BY <2>2 DEF ReportIsTrue
  <2> QED
    BY <2>3, <2>4, <2>5
<1>2. CASE PollDisconnected
  <2>1. /\ manager.pc = "select"
        /\ manager' = [manager EXCEPT !.pc = "report", !.held = <<Disconnected>>]
        /\ UNCHANGED <<transportRuntime, outbound, transportRequests, waiting, inflight, events, reported>>
    BY <1>2, Zenon DEF PollDisconnected, Selecting
  <2>2. manager'.pc = "report" /\ manager'.held = <<Disconnected>> /\ Len(manager'.held) = 1
    BY <2>1
  <2>3. TransportShape' /\ Queued' /\ ReportedWereConfirmed'
    BY <2>1, <2>2 DEF Queued, ReportedWereConfirmed
  <2>4. PacketsArePaired' /\ ReportIsTrue'
    BY <2>2 DEF PacketsArePaired, LinkAlive, ReportIsTrue
  <2> QED
    BY <2>3, <2>4
<1>3. CASE Reconnect
  <2>1. /\ manager.pc = "select"
        /\ manager' = [manager EXCEPT !.link = "connecting", !.connection = @ + 1]
        /\ transportRequests' = <<>> /\ waiting' = <<>> /\ inflight' = <<>>
        /\ UNCHANGED <<transportRuntime, outbound, wire, events, reported>>
    BY <1>3, Zenon DEF Reconnect
  <2>2. manager'.pc = "select"
    BY <2>1
  <2>3. Queued' /\ ReportedWereConfirmed' /\ ReportIsTrue'
    BY <2>1, <2>2 DEF Queued, ReportedWereConfirmed, ReportIsTrue
  <2>4. PacketsArePaired'
    BY <2>1 DEF PacketsArePaired
  <2>5. TransportShape'
    <3>1. manager' = [pc |-> manager'.pc, held |-> manager'.held, link |-> manager'.link,
                      connection |-> manager'.connection]
      BY <2>1
    <3>2. transportRequests' \in Seq(Nat) /\ waiting' \in Seq(Nat)
      BY <2>1, SequenceFacts
    <3> QED
      BY <2>1, <3>1, <3>2
  <2> QED
    BY <2>3, <2>4, <2>5
<1> QED
  BY <1>1, <1>2, <1>3

\* The transport reports no record the broker has not confirmed.
THEOREM TransportReportsTruly == TransportSpec => []ReportedWereConfirmed
<1>1. TransportInit => TransportInv
  BY DEF TransportInit, TransportInv, TransportShape, Queued, PacketsArePaired, ReportIsTrue,
         ReportedWereConfirmed
<1>2. TransportInv /\ [TransportNext]_transportVars => TransportInv'
  <2> SUFFICES ASSUME TransportInv, [TransportNext]_transportVars PROVE TransportInv'
    OBVIOUS
  <2>1. CASE UNCHANGED transportVars
    BY <2>1 DEF transportVars, TransportInv, TransportShape, Queued, PacketsArePaired, LinkAlive,
                ReportIsTrue, ReportedWereConfirmed
  <2>2. CASE TransportNext
    BY <2>2, RuntimeSteps, ManagerSteps, OutgoingStep, PubAckStep, LinkSteps DEF TransportNext
  <2> QED
    BY <2>1, <2>2
<1>3. TransportInv => ReportedWereConfirmed
  BY DEF TransportInv
<1> QED
  BY <1>1, <1>2, <1>3, PTL DEF TransportSpec

\* Transport and session together: what the cloud link reports and binds is fresh.
THEOREM CloudLinkIsFresh == TransportSpec /\ SessionSpec => []CloudSessionsAreFresh
BY TransportReportsTruly, SessionsAreFresh, PTL DEF CloudSessionsAreFresh

=============================================================================
