--------------------------- MODULE GovernedProofs ---------------------------
(***************************************************************************)
(* Proofs about the operations whose effect must happen at most once and   *)
(* whose records must be true. A governed operation is announced before    *)
(* its effect, takes effect at most once where the client may retry, and   *)
(* leaves a true trail, for any set of requests and any number of tries    *)
(* and crashes. A command the cloud sends through the integration plane    *)
(* calls its provider at most once, and its receipts are true and final,   *)
(* for any set of jobs and any number of offers, crashes and failures.     *)
(***************************************************************************)
EXTENDS IntegrationControl, GovernedOperation, TLAPS

(* Integration commands. The invariant relates the ledger in memory and the  *)
(* one on disk to the provider, the audit file and the messages; it is       *)
(* stated of any ledger, so that one lemma per ledger operation serves both. *)

ControlPcs == {"idle", "reject", "authorize", "claim", "execute", "outcome", "complete", "flush",
               "recover"}
WorkType == [pc : ControlPcs, job : Jobs \cup {NoJob}, digest : Digests \cup {NoJob},
             failed : BOOLEAN, result : {"accepted", "rejected", "unknown", NoJob},
             receipt : ReceiptValues \cup {NoJob}]
AuditEvents == {"edge_rejected", "authorized", "accepted", "rejected", "unknown", "interrupted"}
TrailType == [lines : SUBSET (Jobs \X AuditEvents), torn : BOOLEAN]
ProviderType == [calls : [Jobs -> Nat], did : [Jobs -> SUBSET {"accepted", "rejected"}]]
MessageType == (Nat \ {0}) \X Jobs \X ReceiptValues
ReceiptsType == [way : SUBSET MessageType, stored : SUBSET MessageType]

\* The audit file has the event of the job, unless a record failed half written
Logged(t, j, event) == t.torn \/ <<j, event>> \in t.lines

HasReceipt(l, j) == l.jobs[j] # NoJob /\ l.jobs[j].receipt # NoJob

\* A receipt of the job is true of what the provider did and the audit file has.
IsTrue(j, r, p, t) ==
  /\ r.stage \in {"accepted", "rejected"} => p.did[j] = {r.stage}
  /\ r.stage = "edge_rejected" => p.calls[j] = 0
  /\ r.audited => Logged(t, j, r.stage) \/ Logged(t, j, "interrupted")

\* The positions of a ledger are those of its receipts.
InOrder(l) ==
  /\ l \in ControlLedgers /\ l.acked < l.next /\ l.pending \subseteq Nat \ {0}
  /\ \A j \in Jobs : l.place[j] < l.next /\ (l.place[j] > 0 <=> HasReceipt(l, j))
  /\ \A j, k \in Jobs : j # k /\ l.place[j] > 0 => l.place[j] # l.place[k]
  /\ \A n \in l.pending : \E j \in Jobs : l.place[j] = n
  /\ \A j \in Jobs : l.place[j] > l.acked <=> l.place[j] \in l.pending

\* Receipts are true, and a job the provider was called for is in the ledger.
Honest(l, p, t) ==
  \A j \in Jobs : /\ HasReceipt(l, j) => IsTrue(j, l.jobs[j].receipt, p, t)
                  /\ p.calls[j] > 0 => l.jobs[j] # NoJob

\* A receipt that was sent is the job's, at a position of its own; what is
\* acknowledged is stored.
Final(l, r) ==
  /\ \A m \in r.way \cup r.stored :
       /\ HasReceipt(l, m[2]) /\ l.jobs[m[2]].receipt = m[3] /\ m[1] < l.next
       /\ \A k \in Jobs : l.place[k] = m[1] => k = m[2]
  /\ \A j \in Jobs : l.place[j] \in 1 .. l.acked => \E m \in r.stored : m[2] = j

Good(l, p, t, r) == InOrder(l) /\ Honest(l, p, t) /\ Final(l, r)

\* A call is made once, and only when its authorization was recorded.
CalledOnce(p, t) ==
  \A j \in Jobs : /\ p.calls[j] \in {0, 1}
                  /\ p.calls[j] = 0 => p.did[j] = {}
                  /\ p.calls[j] > 0 => Logged(t, j, "authorized")

\* What the processor's offer has reached
Before == {"reject", "authorize", "claim"}
After == {"execute", "outcome", "complete"}

WorkIsSound(w, l, p, t) ==
  /\ w.pc \in Before \cup After => w.job \in Jobs /\ w.digest \in Digests
  /\ w.pc \in {"reject", "authorize"} => w.receipt = NoJob
  /\ w.pc \in Before => l.jobs[w.job] = NoJob
  /\ w.pc \in After => l.jobs[w.job] = InProgress(w.digest)
  /\ w.pc = "claim" =>
       IF w.receipt = NoJob THEN Logged(t, w.job, "authorized")
       ELSE w.receipt \in ReceiptValues /\ IsTrue(w.job, w.receipt, p, t)
  /\ w.pc = "execute" => p.calls[w.job] = 0 /\ Logged(t, w.job, "authorized")
  /\ w.pc = "outcome" => /\ w.result \in {"accepted", "rejected", "unknown"}
                         /\ w.result # "unknown" => p.did[w.job] = {w.result}
  /\ w.pc = "complete" => w.receipt \in ReceiptValues /\ IsTrue(w.job, w.receipt, p, t)

\* Memory is the file while an offer is executed and while receipts are sent.
MemoryIsFile ==
  \/ work.pc \in After \cup {"flush"}
  \/ work.pc = "recover" /\ Interrupted(control) = {}
  => control = controlFile

ControlTypes == /\ work \in WorkType /\ controlTrail \in TrailType
                /\ provider \in ProviderType /\ receipts \in ReceiptsType

ControlInv ==
  /\ ControlTypes /\ CalledOnce(provider, controlTrail)
  /\ Good(controlFile, provider, controlTrail, receipts)
  /\ control = NoJob => work.pc = "idle"
  /\ control # NoJob => /\ Good(control, provider, controlTrail, receipts)
                        /\ WorkIsSound(work, control, provider, controlTrail)
                        /\ MemoryIsFile

---------------------------------------------------------------------------
(* The ledger's operations keep a good ledger good. claim: a job it does not *)
(* know is in progress.                                                      *)
LEMMA ClaimedIsGood ==
    ASSUME NEW l, NEW p, NEW t, NEW r, Good(l, p, t, r), r \in ReceiptsType,
           NEW j \in Jobs, NEW d \in Digests, l.jobs[j] = NoJob
    PROVE  Good(Claimed(l, j, d), p, t, r) /\ Claimed(l, j, d).jobs[j] = InProgress(d)
<1>. DEFINE n == Claimed(l, j, d)
<1>1. l \in ControlLedgers /\ InOrder(l) /\ Honest(l, p, t) /\ Final(l, r)
  BY DEF Good, InOrder
<1>2. InProgress(d) \in ControlEntries /\ InProgress(d) # NoJob /\ InProgress(d).receipt = NoJob
  BY ControlAssumption DEF InProgress, ControlEntries
<1>3. /\ n \in ControlLedgers
      /\ n.place = l.place /\ n.pending = l.pending /\ n.next = l.next /\ n.acked = l.acked
      /\ \A k \in Jobs : n.jobs[k] = IF k = j THEN InProgress(d) ELSE l.jobs[k]
  BY <1>1, <1>2 DEF Claimed, ControlLedgers
<1>. HIDE DEF n
<1>4. \A k \in Jobs : HasReceipt(n, k) <=> HasReceipt(l, k)
  BY <1>2, <1>3 DEF HasReceipt
<1>5. \A k \in Jobs : HasReceipt(l, k) => n.jobs[k] = l.jobs[k]
  BY <1>3 DEF HasReceipt
<1>6. InOrder(n)
  BY <1>1, <1>3, <1>4 DEF InOrder
<1>7. Honest(n, p, t)
  BY <1>1, <1>2, <1>3, <1>4, <1>5 DEF Honest
<1>8. Final(n, r)
  BY <1>1, <1>3, <1>4, <1>5 DEF Final, ReceiptsType, MessageType
<1>. QED
  BY <1>3, <1>6, <1>7, <1>8 DEF Good, n

(* complete: a job in progress gets a true receipt at the next position. *)
LEMMA CompletedIsGood ==
    ASSUME NEW l, NEW p, NEW t, NEW r, Good(l, p, t, r), r \in ReceiptsType,
           NEW j \in Jobs, NEW d \in Digests, NEW c \in ReceiptValues, IsTrue(j, c, p, t),
           ~HasReceipt(l, j)
    PROVE  Good(ControlCompleted(l, j, d, c), p, t, r)
<1>. DEFINE n == ControlCompleted(l, j, d, c)
<1>1. l \in ControlLedgers /\ InOrder(l) /\ Honest(l, p, t) /\ Final(l, r)
  BY DEF Good, InOrder
<1>2. /\ ControlComplete(d, c) \in ControlEntries /\ ControlComplete(d, c) # NoJob
      /\ ControlComplete(d, c).receipt = c /\ c # NoJob
  BY ControlAssumption DEF ControlComplete, ControlEntries
<1>3. /\ n \in ControlLedgers /\ l.next \in Nat /\ l.acked \in Nat
      /\ n.pending = l.pending \cup {l.next} /\ n.next = l.next + 1 /\ n.acked = l.acked
      /\ \A k \in Jobs : /\ n.jobs[k] = IF k = j THEN ControlComplete(d, c) ELSE l.jobs[k]
                         /\ n.place[k] = IF k = j THEN l.next ELSE l.place[k]
                         /\ l.place[k] \in Nat
  <2>. DEFINE J == [l.jobs EXCEPT ![j] = ControlComplete(d, c)]
              P == [l.place EXCEPT ![j] = l.next]
  <2>1. /\ l.jobs \in [Jobs -> ControlEntries \cup {NoJob}] /\ l.place \in [Jobs -> Nat]
        /\ l.pending \in SUBSET Nat /\ l.next \in Nat /\ l.acked \in Nat
    BY <1>1 DEF ControlLedgers
  <2>2. n = [jobs |-> J, place |-> P, pending |-> l.pending \cup {l.next},
             next |-> l.next + 1, acked |-> l.acked]
    <3>1. n = [l EXCEPT !.jobs = J, !.place = P, !.pending = l.pending \cup {l.next},
                        !.next = l.next + 1]
      BY <1>1 DEF ControlCompleted, ControlLedgers
    <3>. HIDE DEF n, J, P
    <3>. QED
      BY <1>1, <3>1 DEF ControlLedgers
  <2>3. /\ J \in [Jobs -> ControlEntries \cup {NoJob}] /\ P \in [Jobs -> Nat]
        /\ \A k \in Jobs : /\ J[k] = IF k = j THEN ControlComplete(d, c) ELSE l.jobs[k]
                           /\ P[k] = IF k = j THEN l.next ELSE l.place[k]
    BY <1>2, <2>1
  <2>. HIDE DEF n, J, P
  <2>. QED
    BY <2>1, <2>2, <2>3 DEF ControlLedgers
<1>. HIDE DEF n
<1>4. \A k \in Jobs : HasReceipt(n, k) <=> k = j \/ HasReceipt(l, k)
  BY <1>2, <1>3 DEF HasReceipt
<1>5. \A k \in Jobs : HasReceipt(l, k) => k # j /\ n.jobs[k] = l.jobs[k] /\ n.place[k] = l.place[k]
  BY <1>3
<1>6. InOrder(n)
  <2>1. n.acked < n.next /\ n.pending \subseteq Nat \ {0} /\ l.next > l.acked /\ l.next > 0
    BY <1>1, <1>3 DEF InOrder
  <2>2. \A k \in Jobs : n.place[k] < n.next /\ (n.place[k] > 0 <=> HasReceipt(n, k))
    BY <1>1, <1>3, <1>4, <2>1 DEF InOrder
  <2>3. \A k, i \in Jobs : k # i /\ n.place[k] > 0 => n.place[k] # n.place[i]
    BY <1>1, <1>3, <2>1 DEF InOrder
  <2>4. l.place[j] = 0
    BY <1>1, <1>3 DEF InOrder
  <2>5. \A i \in n.pending : \E k \in Jobs : n.place[k] = i
    <3>1. ASSUME NEW i \in l.pending PROVE \E k \in Jobs : n.place[k] = i
      <4>1. PICK k \in Jobs : l.place[k] = i /\ i # 0
        BY <1>1 DEF InOrder
      <4>. QED
        BY <1>3, <2>4, <4>1
    <3>. QED
      BY <1>3, <3>1
  <2>6. \A k \in Jobs : n.place[k] > n.acked <=> n.place[k] \in n.pending
    BY <1>1, <1>3, <2>1 DEF InOrder
  <2>. QED
    BY <1>3, <2>1, <2>2, <2>3, <2>5, <2>6 DEF InOrder
<1>7. Honest(n, p, t)
  BY <1>1, <1>2, <1>3, <1>4, <1>5 DEF Honest
<1>8. Final(n, r)
  <2>1. ASSUME NEW m \in r.way \cup r.stored
        PROVE  /\ HasReceipt(n, m[2]) /\ n.jobs[m[2]].receipt = m[3] /\ m[1] < n.next
               /\ \A k \in Jobs : n.place[k] = m[1] => k = m[2]
    <3>1. m[2] \in Jobs /\ m[1] \in Nat
      BY DEF ReceiptsType, MessageType
    <3>2. /\ HasReceipt(l, m[2]) /\ l.jobs[m[2]].receipt = m[3] /\ m[1] < l.next
          /\ \A k \in Jobs : l.place[k] = m[1] => k = m[2]
      BY <1>1 DEF Final
    <3>3. HasReceipt(n, m[2]) /\ n.jobs[m[2]].receipt = m[3]
      BY <1>4, <1>5, <3>1, <3>2
    <3>4. m[1] < n.next
      BY <1>3, <3>1, <3>2
    <3>5. \A k \in Jobs : n.place[k] = m[1] => k = m[2]
      BY <1>3, <3>1, <3>2
    <3>. QED
      BY <3>3, <3>4, <3>5
  <2>2. ASSUME NEW k \in Jobs, n.place[k] \in 1 .. n.acked PROVE \E m \in r.stored : m[2] = k
    <3>1. l.acked < l.next
      BY <1>1 DEF InOrder
    <3>2. l.place[k] \in 1 .. l.acked
      BY <1>3, <2>2, <3>1
    <3>. QED
      BY <1>1, <3>2 DEF Final
  <2>. QED
    BY <2>1, <2>2 DEF Final
<1>. QED
  BY <1>6, <1>7, <1>8 DEF Good, n

(* requeue: an acknowledged receipt moves to the next position. *)
LEMMA RequeuedIsGood ==
    ASSUME NEW l, NEW p, NEW t, NEW r, Good(l, p, t, r), r \in ReceiptsType,
           NEW j \in Jobs, HasReceipt(l, j)
    PROVE  Good(Requeued(l, j), p, t, r)
<1>. DEFINE n == Requeued(l, j)
<1>1. l \in ControlLedgers /\ InOrder(l) /\ Honest(l, p, t) /\ Final(l, r)
  BY DEF Good, InOrder
<1>2. CASE l.place[j] > l.acked
  <2>1. l.place[j] \in l.pending
    BY <1>1, <1>2 DEF InOrder
  <2>2. n = [l EXCEPT !.pending = l.pending \cup {l.place[j]}]
    BY <1>2 DEF Requeued
  <2>3. l.pending \cup {l.place[j]} = l.pending
    BY <2>1
  <2>4. n = l
    BY <1>1, <2>2, <2>3 DEF ControlLedgers
  <2>. QED
    BY <2>4
<1>3. CASE ~(l.place[j] > l.acked)
  <2>1. /\ n \in ControlLedgers /\ l.next \in Nat /\ l.acked \in Nat /\ n.jobs = l.jobs
        /\ n.pending = l.pending \cup {l.next} /\ n.next = l.next + 1 /\ n.acked = l.acked
        /\ \A k \in Jobs : /\ n.place[k] = IF k = j THEN l.next ELSE l.place[k]
                           /\ l.place[k] \in Nat
    <3>. DEFINE P == [l.place EXCEPT ![j] = l.next]
    <3>1. /\ l.jobs \in [Jobs -> ControlEntries \cup {NoJob}] /\ l.place \in [Jobs -> Nat]
          /\ l.pending \in SUBSET Nat /\ l.next \in Nat /\ l.acked \in Nat
      BY <1>1 DEF ControlLedgers
    <3>2. n = [jobs |-> l.jobs, place |-> P, pending |-> l.pending \cup {l.next},
               next |-> l.next + 1, acked |-> l.acked]
      BY <1>1, <1>3 DEF Requeued, ControlLedgers
    <3>3. P \in [Jobs -> Nat] /\ \A k \in Jobs : P[k] = IF k = j THEN l.next ELSE l.place[k]
      BY <3>1
    <3>. HIDE DEF n, P
    <3>. QED
      BY <3>1, <3>2, <3>3 DEF ControlLedgers
  <2>. HIDE DEF n
  <2>2. \A k \in Jobs : HasReceipt(n, k) <=> HasReceipt(l, k)
    BY <2>1 DEF HasReceipt
  <2>3. InOrder(n)
    <3>1. n.acked < n.next /\ n.pending \subseteq Nat \ {0} /\ l.next > l.acked /\ l.next > 0
      BY <1>1, <2>1 DEF InOrder
    <3>2. \A k \in Jobs : n.place[k] < n.next /\ (n.place[k] > 0 <=> HasReceipt(n, k))
      BY <1>1, <2>1, <2>2, <3>1 DEF InOrder
    <3>3. \A k, i \in Jobs : k # i /\ n.place[k] > 0 => n.place[k] # n.place[i]
      BY <1>1, <2>1, <3>1 DEF InOrder
    <3>4. l.place[j] \notin l.pending
      BY <1>1, <1>3 DEF InOrder
    <3>5. \A i \in n.pending : \E k \in Jobs : n.place[k] = i
      BY <1>1, <2>1, <3>4 DEF InOrder
    <3>6. \A k \in Jobs : n.place[k] > n.acked <=> n.place[k] \in n.pending
      BY <1>1, <2>1, <3>1 DEF InOrder
    <3>. QED
      BY <2>1, <3>1, <3>2, <3>3, <3>5, <3>6 DEF InOrder
  <2>4. Honest(n, p, t)
    BY <1>1, <2>1, <2>2 DEF Honest
  <2>5. Final(n, r)
    <3>1. ASSUME NEW m \in r.way \cup r.stored
          PROVE  /\ HasReceipt(n, m[2]) /\ n.jobs[m[2]].receipt = m[3] /\ m[1] < n.next
                 /\ \A k \in Jobs : n.place[k] = m[1] => k = m[2]
      <4>1. m[2] \in Jobs /\ m[1] \in Nat
        BY DEF ReceiptsType, MessageType
      <4>2. /\ HasReceipt(l, m[2]) /\ l.jobs[m[2]].receipt = m[3] /\ m[1] < l.next
            /\ \A k \in Jobs : l.place[k] = m[1] => k = m[2]
        BY <1>1 DEF Final
      <4>. QED
        BY <2>1, <2>2, <4>1, <4>2
    <3>2. ASSUME NEW k \in Jobs, n.place[k] \in 1 .. n.acked PROVE \E m \in r.stored : m[2] = k
      BY <1>1, <2>1, <3>2 DEF Final, InOrder
    <3>. QED
      BY <3>1, <3>2 DEF Final
  <2>. QED
    BY <2>3, <2>4, <2>5 DEF Good, n
<1>. QED
  BY <1>2, <1>3

(* acknowledge: the cloud stored a message at every position up to this one, *)
(* and a position has had one job only.                                      *)
LEMMA AckedIsGood ==
    ASSUME NEW l, NEW p, NEW t, NEW r, Good(l, p, t, r), r \in ReceiptsType,
           NEW m \in r.stored, MayAck(l, m[1]),
           \A q \in 1 .. m[1] : \E n \in r.stored : n[1] = q
    PROVE  Good(Acked(l, m[1]), p, t, r)
<1>. DEFINE n == Acked(l, m[1])
<1>1. l \in ControlLedgers /\ InOrder(l) /\ Honest(l, p, t) /\ Final(l, r)
  BY DEF Good, InOrder
<1>2. m[1] \in Nat /\ m[1] > l.acked /\ m[1] < l.next /\ l.acked \in Nat /\ l.next \in Nat
  BY <1>1 DEF ReceiptsType, MessageType, MayAck, Final, ControlLedgers
<1>3. /\ n \in ControlLedgers /\ n.jobs = l.jobs /\ n.place = l.place /\ n.next = l.next
      /\ n.pending = {q \in l.pending : q > m[1]} /\ n.acked = m[1] /\ l.place \in [Jobs -> Nat]
  BY <1>1, <1>2 DEF Acked, ControlLedgers
<1>. HIDE DEF n
<1>4. \A k \in Jobs : HasReceipt(n, k) <=> HasReceipt(l, k)
  BY <1>3 DEF HasReceipt
<1>5. InOrder(n)
  <2>1. ASSUME NEW k \in Jobs PROVE n.place[k] > n.acked <=> n.place[k] \in n.pending
    <3>1. l.place[k] \in Nat /\ (l.place[k] > l.acked <=> l.place[k] \in l.pending)
      BY <1>1, <1>3 DEF InOrder
    <3>. QED
      BY <1>2, <1>3, <3>1
  <2>. QED
    BY <1>1, <1>2, <1>3, <1>4, <2>1 DEF InOrder
<1>6. Honest(n, p, t)
  BY <1>1, <1>3, <1>4 DEF Honest
<1>7. Final(n, r)
  <2>1. \A q \in r.way \cup r.stored : q[2] \in Jobs
    BY DEF ReceiptsType, MessageType
  <2>2. ASSUME NEW k \in Jobs, n.place[k] \in 1 .. n.acked PROVE \E q \in r.stored : q[2] = k
    <3>1. l.place[k] \in 1 .. m[1]
      BY <1>3, <2>2
    <3>2. PICK q \in r.stored : q[1] = l.place[k]
      BY <3>1
    <3>3. \A i \in Jobs : l.place[i] = q[1] => i = q[2]
      BY <1>1 DEF Final
    <3>. QED
      BY <3>2, <3>3
  <2>3. ASSUME NEW q \in r.way \cup r.stored
        PROVE  /\ HasReceipt(n, q[2]) /\ n.jobs[q[2]].receipt = q[3] /\ q[1] < n.next
               /\ \A k \in Jobs : n.place[k] = q[1] => k = q[2]
    <3>1. /\ HasReceipt(l, q[2]) /\ l.jobs[q[2]].receipt = q[3] /\ q[1] < l.next
          /\ \A k \in Jobs : l.place[k] = q[1] => k = q[2]
      BY <1>1 DEF Final
    <3>. QED
      BY <1>3, <1>4, <2>1, <3>1
  <2>. QED
    BY <2>2, <2>3 DEF Final
<1>. QED
  BY <1>5, <1>6, <1>7 DEF Good, n

(* A ledger stays good while the audit file grows and messages get lost or *)
(* are stored ...                                                          *)
LEMMA GrownIsGood ==
    ASSUME NEW l, NEW p, NEW t, NEW r, NEW u, NEW s, Good(l, p, t, r),
           \A j \in Jobs, e \in AuditEvents : Logged(t, j, e) => Logged(u, j, e),
           r.stored \subseteq s.stored, s.way \cup s.stored \subseteq r.way \cup r.stored
    PROVE  Good(l, p, u, s)
<1>1. Honest(l, p, u)
  <2>. SUFFICES ASSUME NEW j \in Jobs, HasReceipt(l, j)
                PROVE  IsTrue(j, l.jobs[j].receipt, p, u)
    BY DEF Good, Honest
  <2>1. /\ IsTrue(j, l.jobs[j].receipt, p, t)
        /\ l.jobs[j].receipt.stage \in AuditEvents /\ "interrupted" \in AuditEvents
    <3>1. l.jobs[j] \in ControlEntries
      BY DEF Good, InOrder, ControlLedgers, HasReceipt
    <3>2. l.jobs[j].receipt \in ReceiptValues
      BY <3>1 DEF HasReceipt, ControlEntries
    <3>. QED
      BY <3>2 DEF ReceiptValues, Good, Honest, AuditEvents
  <2>. QED
    BY <2>1, Zenon DEF IsTrue
<1>2. Final(l, s)
  BY DEF Good, Final
<1>. QED
  BY <1>1, <1>2 DEF Good

(* ... when its pending receipts are sent ... *)
LEMMA SentIsGood ==
    ASSUME NEW l, NEW p, NEW t, NEW r, Good(l, p, t, r), r \in ReceiptsType, NEW s,
           s = [r EXCEPT !.way = r.way \cup
                  {<<l.place[j], j, l.jobs[j].receipt>> : j \in {k \in Jobs : l.place[k] \in l.pending}}]
    PROVE  Good(l, p, t, s) /\ s \in ReceiptsType
<1>. DEFINE M == {<<l.place[j], j, l.jobs[j].receipt>> : j \in {k \in Jobs : l.place[k] \in l.pending}}
<1>1. l \in ControlLedgers /\ InOrder(l) /\ Honest(l, p, t) /\ Final(l, r)
  BY DEF Good, InOrder
<1>2. s.way = r.way \cup M /\ s.stored = r.stored /\ s = [way |-> s.way, stored |-> s.stored]
  BY DEF ReceiptsType
<1>3. ASSUME NEW m \in M
      PROVE  /\ m \in MessageType /\ HasReceipt(l, m[2]) /\ l.jobs[m[2]].receipt = m[3]
             /\ m[1] < l.next /\ \A k \in Jobs : l.place[k] = m[1] => k = m[2]
  <2>1. PICK j \in Jobs : l.place[j] \in l.pending /\ m = <<l.place[j], j, l.jobs[j].receipt>>
    OBVIOUS
  <2>2. l.place[j] \in Nat \ {0} /\ HasReceipt(l, j) /\ l.place[j] < l.next
    BY <1>1, <2>1 DEF InOrder
  <2>3. l.jobs[j].receipt \in ReceiptValues
    <3>1. l.jobs[j] \in ControlEntries
      BY <1>1, <2>2 DEF ControlLedgers, HasReceipt
    <3>. QED
      BY <2>2, <3>1 DEF HasReceipt, ControlEntries
  <2>4. \A k \in Jobs : l.place[k] = l.place[j] => k = j
    BY <1>1, <2>2 DEF InOrder
  <2>. QED
    BY <2>1, <2>2, <2>3, <2>4 DEF MessageType
<1>. HIDE DEF M
<1>4. Final(l, s)
  BY <1>1, <1>2, <1>3 DEF Final
<1>5. s \in ReceiptsType
  BY <1>2, <1>3 DEF ReceiptsType
<1>. QED
  BY <1>1, <1>4, <1>5 DEF Good

(* ... and when the provider is called for a job in progress. *)
LEMMA CalledIsGood ==
    ASSUME NEW l, NEW p, NEW t, NEW r, Good(l, p, t, r), NEW q, NEW j \in Jobs,
           l.jobs[j] # NoJob, ~HasReceipt(l, j),
           \A k \in Jobs : k # j => q.calls[k] = p.calls[k] /\ q.did[k] = p.did[k]
    PROVE  Good(l, q, t, r)
<1>1. Honest(l, q, t)
  BY DEF Good, Honest, IsTrue
<1>. QED
  BY <1>1 DEF Good

---------------------------------------------------------------------------
(* The audit file only grows; a record that was written is in it, or in the *)
(* torn line before it.                                                     *)
LEMMA TrailGrows ==
    ASSUME controlTrail \in TrailType, NEW j \in Jobs, NEW e \in AuditEvents,
           controlTrail' \in {controlTrail, Recorded(<<j, e>>), [controlTrail EXCEPT !.torn = TRUE]}
    PROVE  /\ controlTrail' \in TrailType
           /\ \A k \in Jobs, f \in AuditEvents : Logged(controlTrail, k, f) => Logged(controlTrail', k, f)
           /\ controlTrail' = Recorded(<<j, e>>) => Logged(controlTrail', j, e)
<1>. DEFINE more == [controlTrail EXCEPT !.lines = @ \cup {<<j, e>>}]
            torn == [controlTrail EXCEPT !.torn = TRUE]
<1>1. /\ more \in TrailType /\ more.lines = controlTrail.lines \cup {<<j, e>>}
      /\ torn \in TrailType /\ torn.lines = controlTrail.lines
  <2>1. more \in TrailType /\ more.lines = controlTrail.lines \cup {<<j, e>>}
    BY DEF TrailType
  <2>2. \A b \in BOOLEAN : /\ [controlTrail EXCEPT !.torn = b] \in TrailType
                          /\ [controlTrail EXCEPT !.torn = b].lines = controlTrail.lines
    BY DEF TrailType
  <2>. QED
    BY <2>1, <2>2, Zenon
<1>2. (more.torn <=> controlTrail.torn) /\ torn.torn
  BY Zenon DEF TrailType
<1>3. \A k \in Jobs, f \in AuditEvents : /\ Logged(controlTrail, k, f) => Logged(more, k, f)
                                       /\ Logged(torn, k, f)
  BY <1>1, <1>2, Zenon DEF Logged
<1>4. Logged(more, j, e)
  BY <1>1 DEF Logged
<1>. HIDE DEF more, torn
<1>5. CASE controlTrail.torn
  <2>1. Recorded(<<j, e>>) = controlTrail /\ Logged(controlTrail, j, e)
    BY <1>5, Zenon DEF Recorded, Logged
  <2>2. controlTrail' = controlTrail \/ controlTrail' = torn
    BY <2>1, Zenon DEF torn
  <2>3. CASE controlTrail' = controlTrail
    BY <2>1, <2>3
  <2>4. CASE controlTrail' = torn
    BY <1>1, <1>3, <2>4, Zenon
  <2>. QED
    BY <2>2, <2>3, <2>4
<1>6. CASE ~controlTrail.torn
  <2>1. Recorded(<<j, e>>) = more
    BY <1>6, Zenon DEF Recorded, more
  <2>2. controlTrail' = controlTrail \/ controlTrail' = more \/ controlTrail' = torn
    BY <2>1, Zenon DEF torn
  <2>. QED
    BY <1>1, <1>3, <1>4, <2>1, <2>2, Zenon
<1>. QED
  BY <1>5, <1>6

(* Between offers nothing is asked of the work. *)
LEMMA QuietIsSound ==
    /\ \A w, l, p, t : w.pc \in {"idle", "flush", "recover"} => WorkIsSound(w, l, p, t)
    /\ \A c \in {"idle", "flush", "recover"} : /\ [Quiescent EXCEPT !.pc = c] \in WorkType
                                            /\ [Quiescent EXCEPT !.pc = c].pc = c
    /\ Quiescent \in WorkType /\ Quiescent.pc = "idle"
<1>1. \A w, l, p, t : w.pc \in {"idle", "flush", "recover"} => WorkIsSound(w, l, p, t)
  BY DEF WorkIsSound, Before, After
<1>2. Quiescent \in WorkType /\ Quiescent.pc = "idle"
  BY DEF Quiescent, WorkType, ControlPcs
<1>3. \A c \in {"idle", "flush", "recover"} : /\ [Quiescent EXCEPT !.pc = c] \in WorkType
                                           /\ [Quiescent EXCEPT !.pc = c].pc = c
  BY <1>2 DEF WorkType, ControlPcs
<1>. QED
  BY <1>1, <1>2, <1>3

(* A write of the ledger that goes through, or fails before or after the *)
(* new file is in place                                                  *)
LEMMA PersistInv ==
    ASSUME ControlInv, control # NoJob, UNCHANGED <<controlTrail, provider, receipts>>,
           NEW next, Good(next, provider, controlTrail, receipts),
           \/ /\ control' = next /\ controlFile' = next /\ work' \in WorkType
              /\ WorkIsSound(work', next, provider, controlTrail)
           \/ /\ controlFile' \in {controlFile, next} /\ UNCHANGED control
              /\ work' \in WorkType /\ work'.pc = "idle"
    PROVE  ControlInv'
<1>1. ControlTypes' /\ CalledOnce(provider, controlTrail)'
  BY DEF ControlInv, ControlTypes
<1>2. next # NoJob
  BY ControlAssumption DEF Good, InOrder
<1>3. Good(controlFile, provider, controlTrail, receipts)'
  BY DEF ControlInv
<1>4. Good(control, provider, controlTrail, receipts)' /\ control' # NoJob
  BY <1>2 DEF ControlInv
<1>5. WorkIsSound(work, control, provider, controlTrail)'
  BY QuietIsSound
<1>6. MemoryIsFile'
  BY DEF MemoryIsFile, After
<1>. QED
  BY <1>1, <1>3, <1>4, <1>5, <1>6 DEF ControlInv

(* A step that leaves the ledger alone *)
LEMMA StayInv ==
    ASSUME ControlInv, UNCHANGED <<control, controlFile>>, ControlTypes', CalledOnce(provider', controlTrail'),
           Good(controlFile, provider', controlTrail', receipts'),
           control = NoJob => work'.pc = "idle",
           control # NoJob => /\ Good(control, provider', controlTrail', receipts')
                              /\ WorkIsSound(work', control, provider', controlTrail')
                              /\ MemoryIsFile'
    PROVE  ControlInv'
  BY DEF ControlInv

---------------------------------------------------------------------------
(* ReceiveOffer: a known job is sent again or refused, an unknown one begins. *)
LEMMA OfferInv ==
    ASSUME ControlInv, NEW j \in Jobs, NEW d \in Digests, ReceiveOffer(j, d)
    PROVE  ControlInv'
<1>. DEFINE begin(pc) == [Quiescent EXCEPT !.pc = pc, !.job = j, !.digest = d]
            flush == [Quiescent EXCEPT !.pc = "flush"]
<1>1. control # NoJob /\ work.pc = "idle" /\ UNCHANGED <<controlTrail, provider, receipts>>
  BY Zenon DEF ReceiveOffer
<1>2. \/ control.jobs[j] # NoJob /\ Replayed(j, d)
      \/ /\ control.jobs[j] = NoJob /\ UNCHANGED <<control, controlFile>>
         /\ work' = work \/ work' = begin("reject") \/ work' = begin("authorize")
  BY Zenon DEF ReceiveOffer
<1>3. /\ ControlTypes /\ CalledOnce(provider, controlTrail)
      /\ Good(controlFile, provider, controlTrail, receipts)
      /\ Good(control, provider, controlTrail, receipts)
  BY <1>1 DEF ControlInv
<1>4. ASSUME UNCHANGED <<control, controlFile>>, control.jobs[j] = NoJob \/ work' = work,
             work' = work \/ work' = begin("reject") \/ work' = begin("authorize")
      PROVE  ControlInv'
  <2>1. CASE work' = work
    <3>1. WorkIsSound(work', control, provider, controlTrail) /\ work' \in WorkType /\ MemoryIsFile'
      BY <1>1, <1>3, <2>1, QuietIsSound DEF ControlTypes, MemoryIsFile, After
    <3>. QED
      BY <1>1, <1>3, <1>4, <3>1, StayInv DEF ControlTypes
  <2>2. CASE work' # work
    <3>1. PICK c \in {"reject", "authorize"} : work' = begin(c)
      BY <1>4, <2>2
    <3>2. /\ work' \in WorkType /\ work'.pc = c /\ work'.job = j /\ work'.digest = d
          /\ work'.receipt = NoJob
      BY <3>1 DEF WorkType, ControlPcs, Quiescent
    <3>3. WorkIsSound(work', control, provider, controlTrail) /\ MemoryIsFile'
      BY <1>4, <2>2, <3>2 DEF WorkIsSound, Before, After, MemoryIsFile
    <3>. QED
      BY <1>1, <1>3, <1>4, <3>2, <3>3, StayInv DEF ControlTypes
  <2>. QED
    BY <2>1, <2>2
<1>5. CASE control.jobs[j] # NoJob /\ Replayed(j, d)
  <2>1. \/ UNCHANGED <<control, controlFile, work>>
        \/ /\ control.jobs[j] # NoJob /\ control.jobs[j].receipt # NoJob
           /\ Persist(Requeued(control, j), flush)
    BY <1>5, Zenon DEF Replayed
  <2>2. CASE UNCHANGED <<control, controlFile, work>>
    BY <1>4, <2>2
  <2>3. CASE /\ control.jobs[j] # NoJob /\ control.jobs[j].receipt # NoJob
             /\ Persist(Requeued(control, j), flush)
    <3>1. Good(Requeued(control, j), provider, controlTrail, receipts)
      BY <1>3, <2>3, RequeuedIsGood DEF ControlTypes, HasReceipt
    <3>2. /\ flush \in WorkType /\ Quiescent \in WorkType /\ Quiescent.pc = "idle"
          /\ \A l, p, t : WorkIsSound(flush, l, p, t)
      <4>1. flush \in WorkType /\ flush.pc = "flush"
        BY QuietIsSound
      <4>. HIDE DEF flush
      <4>. QED
        BY <4>1, QuietIsSound
    <3>. HIDE DEF flush
    <3>3. \/ control' = Requeued(control, j) /\ controlFile' = Requeued(control, j) /\ work' = flush
          \/ /\ controlFile' \in {controlFile, Requeued(control, j)} /\ work' = Quiescent
             /\ UNCHANGED control
      BY <2>3, Zenon DEF Persist
    <3>. QED
      BY <1>1, <3>1, <3>2, <3>3, PersistInv
  <2>. QED
    BY <2>1, <2>2, <2>3
<1>. QED
  BY <1>2, <1>4, <1>5

---------------------------------------------------------------------------
(* A record of the audit, written or failed *)
LEMMA AuditInv ==
    ASSUME ControlInv, control # NoJob, UNCHANGED <<control, controlFile, provider, receipts>>,
           work.job \in Jobs, NEW e \in AuditEvents,
           controlTrail' \in {controlTrail, Recorded(<<work.job, e>>), [controlTrail EXCEPT !.torn = TRUE]},
           work' \in WorkType, WorkIsSound(work', control, provider, controlTrail'), MemoryIsFile'
    PROVE  ControlInv'
<1>1. /\ controlTrail' \in TrailType
      /\ \A k \in Jobs, f \in AuditEvents : Logged(controlTrail, k, f) => Logged(controlTrail', k, f)
  BY TrailGrows DEF ControlInv, ControlTypes
<1>2. CalledOnce(provider, controlTrail')
  <2>1. "authorized" \in AuditEvents
    BY DEF AuditEvents
  <2>. QED
    BY <1>1, <2>1 DEF ControlInv, CalledOnce
<1>3. /\ Good(controlFile, provider, controlTrail', receipts)
      /\ Good(control, provider, controlTrail', receipts)
  BY <1>1, GrownIsGood DEF ControlInv
<1>4. ControlTypes'
  BY <1>1 DEF ControlInv, ControlTypes
<1>. QED
  BY <1>2, <1>3, <1>4, StayInv

(* A receipt may say that its audit is incomplete. *)
LEMMA UnauditedFacts == \A s : ~Receipt(s, FALSE).audited
  BY Zenon DEF Receipt

(* A rejection's receipt is true: the provider was not called. *)
LEMMA AuditRejectionInv == ASSUME ControlInv, AuditRejection PROVE ControlInv'
<1>. DEFINE with(b) == [work EXCEPT !.pc = "claim", !.receipt = Receipt("edge_rejected", b)]
<1>1. /\ work.pc = "reject" /\ UNCHANGED <<control, controlFile, provider, receipts>>
      /\ \/ controlTrail' = Recorded(<<work.job, "edge_rejected">>) /\ work' = with(~work.failed)
         \/ /\ controlTrail' \in {controlTrail, [controlTrail EXCEPT !.torn = TRUE]}
            /\ work' = with(FALSE)
  BY Zenon DEF AuditRejection, Audit
<1>2. /\ control # NoJob /\ work \in WorkType /\ work.job \in Jobs /\ work.digest \in Digests
      /\ control.jobs[work.job] = NoJob /\ provider.calls[work.job] = 0
      /\ controlTrail \in TrailType /\ "edge_rejected" \in AuditEvents
  BY <1>1 DEF ControlInv, ControlTypes, WorkIsSound, Before, Good, Honest, CalledOnce, AuditEvents
<1>3. \A b \in BOOLEAN : /\ with(b) \in WorkType /\ with(b).pc = "claim" /\ with(b).job = work.job
                        /\ with(b).digest = work.digest
                        /\ with(b).receipt = Receipt("edge_rejected", b)
                        /\ with(b).receipt \in ReceiptValues /\ with(b).receipt.stage = "edge_rejected"
  BY <1>2 DEF WorkType, ControlPcs, Receipt, ReceiptValues
<1>4. controlTrail' = Recorded(<<work.job, "edge_rejected">>) =>
        Logged(controlTrail', work.job, "edge_rejected")
  BY <1>2, TrailGrows
<1>5. PICK b \in BOOLEAN : work' = with(b) /\ (b = FALSE \/ Logged(controlTrail', work.job, "edge_rejected"))
  BY <1>1, <1>2, <1>4, Zenon DEF WorkType
<1>6. b = FALSE => ~work'.receipt.audited
  <2>1. work'.receipt = Receipt("edge_rejected", b)
    BY <1>3, <1>5
  <2>. QED
    BY <2>1, UnauditedFacts, Zenon
<1>7. IsTrue(work'.job, work'.receipt, provider, controlTrail')
  <2>1. /\ work'.receipt.stage = "edge_rejected" /\ work'.job = work.job
    BY <1>3, <1>5
  <2>2. work'.receipt.audited => Logged(controlTrail', work.job, "edge_rejected")
    BY <1>5, <1>6, Zenon
  <2>. QED
    BY <1>2, <2>1, <2>2 DEF IsTrue
<1>8. /\ work' \in WorkType /\ work'.pc = "claim" /\ work'.job \in Jobs /\ work'.digest \in Digests
      /\ work'.receipt \in ReceiptValues /\ work'.job = work.job
  BY <1>2, <1>3, <1>5
<1>9. work'.receipt # NoJob
  BY <1>8, ControlAssumption
<1>10. WorkIsSound(work', control, provider, controlTrail') /\ MemoryIsFile'
  BY <1>2, <1>7, <1>8, <1>9 DEF WorkIsSound, Before, After, MemoryIsFile
<1>. QED
  BY <1>1, <1>2, <1>8, <1>10, AuditInv

(* Without a record of its authorization an offer is rejected. *)
LEMMA AuditAuthorizationInv == ASSUME ControlInv, AuditAuthorization PROVE ControlInv'
<1>1. /\ work.pc = "authorize" /\ UNCHANGED <<control, controlFile, provider, receipts>>
      /\ \/ /\ controlTrail' = Recorded(<<work.job, "authorized">>)
            /\ work' = [work EXCEPT !.pc = "claim"]
         \/ /\ controlTrail' \in {controlTrail, [controlTrail EXCEPT !.torn = TRUE]}
            /\ work' = [work EXCEPT !.pc = "reject", !.failed = TRUE]
  BY Zenon DEF AuditAuthorization, Audit
<1>2. /\ control # NoJob /\ work \in WorkType /\ work.job \in Jobs /\ work.digest \in Digests
      /\ control.jobs[work.job] = NoJob /\ work.receipt = NoJob
      /\ controlTrail \in TrailType /\ "authorized" \in AuditEvents
  BY <1>1 DEF ControlInv, ControlTypes, WorkIsSound, Before, AuditEvents
<1>3. controlTrail' = Recorded(<<work.job, "authorized">>) => Logged(controlTrail', work.job, "authorized")
  BY <1>2, TrailGrows
<1>4. /\ work' \in WorkType /\ work'.job = work.job /\ work'.digest = work.digest
      /\ work'.receipt = NoJob
      /\ \/ work'.pc = "claim" /\ Logged(controlTrail', work.job, "authorized")
         \/ work'.pc = "reject"
  <2>1. CASE /\ controlTrail' = Recorded(<<work.job, "authorized">>)
             /\ work' = [work EXCEPT !.pc = "claim"]
    BY <1>2, <1>3, <2>1 DEF WorkType, ControlPcs
  <2>2. CASE work' = [work EXCEPT !.pc = "reject", !.failed = TRUE]
    <3>1. \A b \in BOOLEAN : LET w == [work EXCEPT !.pc = "reject", !.failed = b]
                            IN  /\ w \in WorkType /\ w.job = work.job /\ w.digest = work.digest
                                /\ w.receipt = work.receipt /\ w.pc = "reject"
      BY <1>2 DEF WorkType, ControlPcs
    <3>. QED
      BY <1>2, <2>2, <3>1, Zenon
  <2>. QED
    BY <1>1, <2>1, <2>2
<1>5. WorkIsSound(work', control, provider, controlTrail') /\ MemoryIsFile'
  BY <1>2, <1>4 DEF WorkIsSound, Before, After, MemoryIsFile
<1>. QED
  BY <1>1, <1>2, <1>4, <1>5, AuditInv

(* The outcome's receipt says what the provider answered, or nothing. *)
LEMMA AuditOutcomeInv == ASSUME ControlInv, AuditOutcome PROVE ControlInv'
<1>. DEFINE with(stage, b) == [work EXCEPT !.pc = "complete", !.receipt = Receipt(stage, b)]
<1>1. /\ work.pc = "outcome" /\ UNCHANGED <<control, controlFile, provider, receipts>>
      /\ \/ controlTrail' = Recorded(<<work.job, work.result>>) /\ work' = with(work.result, TRUE)
         \/ /\ controlTrail' \in {controlTrail, [controlTrail EXCEPT !.torn = TRUE]}
            /\ work' = with("unknown", FALSE)
  BY Zenon DEF AuditOutcome, Audit
<1>2. /\ control # NoJob /\ work \in WorkType /\ work.job \in Jobs /\ work.digest \in Digests
      /\ control.jobs[work.job] = InProgress(work.digest) /\ control = controlFile
      /\ controlTrail \in TrailType /\ work.result \in {"accepted", "rejected", "unknown"}
      /\ work.result # "unknown" => provider.did[work.job] = {work.result}
  BY <1>1 DEF ControlInv, ControlTypes, WorkIsSound, After, MemoryIsFile
<1>3. work.result \in AuditEvents
  BY <1>2 DEF AuditEvents
<1>4. \A stage \in {"accepted", "rejected", "unknown"}, b \in BOOLEAN :
        /\ with(stage, b) \in WorkType /\ with(stage, b).pc = "complete"
        /\ with(stage, b).job = work.job /\ with(stage, b).digest = work.digest
        /\ with(stage, b).receipt = Receipt(stage, b)
        /\ with(stage, b).receipt \in ReceiptValues /\ with(stage, b).receipt.stage = stage
  BY <1>2 DEF WorkType, ControlPcs, Receipt, ReceiptValues
<1>5. controlTrail' = Recorded(<<work.job, work.result>>) => Logged(controlTrail', work.job, work.result)
  BY <1>2, <1>3, TrailGrows
<1>6. PICK stage \in {"accepted", "rejected", "unknown"}, b \in BOOLEAN :
        /\ work' = with(stage, b)
        /\ \/ stage = work.result /\ Logged(controlTrail', work.job, work.result)
           \/ stage = "unknown" /\ b = FALSE
  BY <1>1, <1>2, <1>5, Zenon
<1>. HIDE DEF with
<1>7. /\ work' \in WorkType /\ work'.pc = "complete" /\ work'.job = work.job
      /\ work'.digest = work.digest /\ work'.receipt = Receipt(stage, b)
      /\ work'.receipt \in ReceiptValues /\ work'.receipt.stage = stage
  BY <1>4, <1>6
<1>8. IsTrue(work'.job, work'.receipt, provider, controlTrail')
  <2>1. stage = work.result \/ stage = "unknown"
    BY <1>6
  <2>2. work'.receipt.audited => Logged(controlTrail', work.job, stage)
    BY <1>6, <1>7, UnauditedFacts, Zenon
  <2>. QED
    BY <1>2, <1>7, <2>1, <2>2 DEF IsTrue
<1>9. WorkIsSound(work', control, provider, controlTrail') /\ MemoryIsFile'
  BY <1>1, <1>2, <1>7, <1>8 DEF WorkIsSound, Before, After, MemoryIsFile
<1>. QED
  BY <1>1, <1>2, <1>3, <1>7, <1>9, AuditInv

---------------------------------------------------------------------------
(* Claim: the provider has not been called for a job the ledger does not know. *)
LEMMA ClaimInv == ASSUME ControlInv, Claim PROVE ControlInv'
<1>. DEFINE next == Claimed(control, work.job, work.digest)
            c == IF work.receipt = NoJob THEN "execute" ELSE "complete"
            then == [work EXCEPT !.pc = c]
<1>1. /\ work.pc = "claim" /\ UNCHANGED <<controlTrail, provider, receipts>>
      /\ \/ control' = next /\ controlFile' = next /\ work' = then
         \/ controlFile' \in {controlFile, next} /\ work' = Quiescent /\ UNCHANGED control
  BY Zenon DEF Claim, Persist
<1>2. /\ control # NoJob /\ work \in WorkType /\ work.job \in Jobs /\ work.digest \in Digests
      /\ control.jobs[work.job] = NoJob
      /\ Good(control, provider, controlTrail, receipts) /\ receipts \in ReceiptsType
  BY <1>1 DEF ControlInv, ControlTypes, WorkIsSound, Before
<1>. HIDE DEF then
<1>3. Good(next, provider, controlTrail, receipts) /\ next.jobs[work.job] = InProgress(work.digest)
  BY <1>2, ClaimedIsGood
<1>. HIDE DEF next
<1>4. /\ then \in WorkType /\ then.pc = c /\ then.job = work.job /\ then.digest = work.digest
      /\ then.receipt = work.receipt
  BY <1>2 DEF WorkType, ControlPcs, then
<1>5. provider.calls[work.job] = 0
  <2>1. provider.calls[work.job] \in {0, 1}
    BY <1>2 DEF ControlInv, CalledOnce
  <2>2. ~(provider.calls[work.job] > 0)
    BY <1>2 DEF Good, Honest
  <2>. QED
    BY <2>1, <2>2
<1>6. IF work.receipt = NoJob THEN Logged(controlTrail, work.job, "authorized")
      ELSE work.receipt \in ReceiptValues /\ IsTrue(work.job, work.receipt, provider, controlTrail)
  BY <1>1, <1>2 DEF ControlInv, WorkIsSound
<1>7. WorkIsSound(then, next, provider, controlTrail)
  BY <1>2, <1>3, <1>4, <1>5, <1>6 DEF WorkIsSound, Before, After
<1>. QED
  BY <1>1, <1>2, <1>3, <1>4, <1>7, QuietIsSound, PersistInv

(* CompleteJob: the receipt is true. *)
LEMMA CompleteJobInv == ASSUME ControlInv, CompleteJob PROVE ControlInv'
<1>. DEFINE next == ControlCompleted(control, work.job, work.digest, work.receipt)
            flush == [Quiescent EXCEPT !.pc = "flush"]
<1>1. /\ work.pc = "complete" /\ UNCHANGED <<controlTrail, provider, receipts>>
      /\ \/ control' = next /\ controlFile' = next /\ work' = flush
         \/ controlFile' \in {controlFile, next} /\ work' = Quiescent /\ UNCHANGED control
  BY Zenon DEF CompleteJob, Persist
<1>2. /\ control # NoJob /\ work.job \in Jobs /\ work.digest \in Digests
      /\ control.jobs[work.job] = InProgress(work.digest)
      /\ Good(control, provider, controlTrail, receipts) /\ receipts \in ReceiptsType
      /\ work.receipt \in ReceiptValues /\ IsTrue(work.job, work.receipt, provider, controlTrail)
  BY <1>1 DEF ControlInv, ControlTypes, WorkIsSound, After
<1>3. ~HasReceipt(control, work.job)
  BY <1>2 DEF HasReceipt, InProgress
<1>4. Good(next, provider, controlTrail, receipts)
  BY <1>2, <1>3, CompletedIsGood
<1>5. flush \in WorkType /\ flush.pc = "flush"
  BY QuietIsSound
<1>. HIDE DEF next, flush
<1>6. WorkIsSound(flush, next, provider, controlTrail)
  BY <1>5, QuietIsSound
<1>. QED
  BY <1>1, <1>2, <1>4, <1>5, <1>6, QuietIsSound, PersistInv

---------------------------------------------------------------------------
(* Execute: the one call of the job; what is known of the outcome is what *)
(* the provider did.                                                      *)
LEMMA ExecuteInv == ASSUME ControlInv, Execute PROVE ControlInv'
<1>1. /\ work.pc = "execute" /\ UNCHANGED <<control, controlFile, controlTrail, receipts>>
      /\ \E result \in {"accepted", "rejected", "unknown"}, x \in {"accepted", "rejected"} :
           /\ result # "unknown" => x = result
           /\ provider' = [calls |-> [provider.calls EXCEPT ![work.job] = @ + 1],
                           did |-> [provider.did EXCEPT ![work.job] = @ \cup {x}]]
           /\ work' = [work EXCEPT !.pc = "outcome", !.result = result]
  <2>1. work.pc = "execute" /\ UNCHANGED <<control, controlFile, controlTrail, receipts>>
    BY Zenon DEF Execute
  <2>2. PICK result \in {"accepted", "rejected", "unknown"}, switched \in BOOLEAN :
          /\ result # "unknown" => switched = (result = "accepted")
          /\ provider' = [calls |-> [provider.calls EXCEPT ![work.job] = @ + 1],
                          did |-> [provider.did EXCEPT ![work.job] =
                                     @ \cup {IF switched THEN "accepted" ELSE "rejected"}]]
          /\ work' = [work EXCEPT !.pc = "outcome", !.result = result]
    BY Zenon DEF Execute
  <2>. DEFINE x == IF switched THEN "accepted" ELSE "rejected"
  <2>3. x \in {"accepted", "rejected"} /\ (result # "unknown" => x = result)
    BY <2>2
  <2>. QED
    BY <2>1, <2>2, <2>3, Zenon
<1>2. PICK result \in {"accepted", "rejected", "unknown"}, x \in {"accepted", "rejected"} :
        /\ result # "unknown" => x = result
        /\ provider' = [calls |-> [provider.calls EXCEPT ![work.job] = @ + 1],
                        did |-> [provider.did EXCEPT ![work.job] = @ \cup {x}]]
        /\ work' = [work EXCEPT !.pc = "outcome", !.result = result]
  BY <1>1
<1>3. /\ control # NoJob /\ work \in WorkType /\ work.job \in Jobs /\ work.digest \in Digests
      /\ control.jobs[work.job] = InProgress(work.digest) /\ control = controlFile
      /\ Good(control, provider, controlTrail, receipts) /\ provider \in ProviderType
      /\ provider.calls[work.job] = 0 /\ provider.did[work.job] = {}
      /\ Logged(controlTrail, work.job, "authorized") /\ CalledOnce(provider, controlTrail)
  BY <1>1 DEF ControlInv, ControlTypes, WorkIsSound, After, MemoryIsFile, CalledOnce
<1>4. /\ provider' \in ProviderType /\ provider'.calls[work.job] = 1 /\ provider'.did[work.job] = {x}
      /\ \A k \in Jobs : k # work.job => /\ provider'.calls[k] = provider.calls[k]
                                        /\ provider'.did[k] = provider.did[k]
  <2>. DEFINE C == [provider.calls EXCEPT ![work.job] = @ + 1]
              D == [provider.did EXCEPT ![work.job] = @ \cup {x}]
  <2>1. provider.calls \in [Jobs -> Nat] /\ provider.did \in [Jobs -> SUBSET {"accepted", "rejected"}]
    BY <1>3 DEF ProviderType
  <2>2. /\ C \in [Jobs -> Nat] /\ C[work.job] = 1
        /\ \A k \in Jobs : k # work.job => C[k] = provider.calls[k]
    BY <1>3, <2>1
  <2>3. /\ D \in [Jobs -> SUBSET {"accepted", "rejected"}] /\ D[work.job] = {x}
        /\ \A k \in Jobs : k # work.job => D[k] = provider.did[k]
    BY <1>3, <2>1
  <2>4. provider' = [calls |-> C, did |-> D]
    BY <1>2
  <2>. HIDE DEF C, D
  <2>5. provider' \in ProviderType /\ provider'.calls = C /\ provider'.did = D
    BY <2>2, <2>3, <2>4 DEF ProviderType
  <2>. QED
    BY <2>2, <2>3, <2>5
<1>5. /\ work' \in WorkType /\ work'.pc = "outcome" /\ work'.job = work.job
      /\ work'.digest = work.digest /\ work'.result = result
  BY <1>2, <1>3 DEF WorkType, ControlPcs
<1>6. control.jobs[work.job] # NoJob /\ ~HasReceipt(control, work.job)
  BY <1>3, ControlAssumption DEF HasReceipt, InProgress, ControlEntries
<1>7. Good(control, provider', controlTrail, receipts)
  <2>1. work.job \in Jobs /\ Good(control, provider, controlTrail, receipts)
    BY <1>3
  <2>2. \A k \in Jobs : k # work.job => /\ provider'.calls[k] = provider.calls[k]
                                       /\ provider'.did[k] = provider.did[k]
    BY <1>4
  <2>. QED
    BY <1>6, <2>1, <2>2, CalledIsGood
<1>8. CalledOnce(provider', controlTrail)
  <2>1. ASSUME NEW k \in Jobs, k # work.job
        PROVE  /\ provider'.calls[k] \in {0, 1} /\ (provider'.calls[k] = 0 => provider'.did[k] = {})
               /\ provider'.calls[k] > 0 => Logged(controlTrail, k, "authorized")
    BY <1>3, <1>4, <2>1 DEF CalledOnce
  <2>2. /\ provider'.calls[work.job] = 1 /\ Logged(controlTrail, work.job, "authorized")
    BY <1>3, <1>4
  <2>. QED
    BY <2>1, <2>2 DEF CalledOnce
<1>9. WorkIsSound(work', control, provider', controlTrail)
  BY <1>2, <1>3, <1>4, <1>5 DEF WorkIsSound, Before, After
<1>10. ControlTypes' /\ MemoryIsFile'
  BY <1>1, <1>3, <1>4, <1>5 DEF ControlInv, ControlTypes, MemoryIsFile
<1>. QED
  BY <1>1, <1>3, <1>7, <1>8, <1>9, <1>10, StayInv

(* Flush: the receipts sent are those of the file. *)
LEMMA FlushInv == ASSUME ControlInv, Flush PROVE ControlInv'
<1>1. /\ work.pc = "flush" /\ UNCHANGED <<control, controlFile, controlTrail, provider>>
      /\ work' = Quiescent
      /\ receipts' = [receipts EXCEPT !.way = receipts.way \cup
           {<<control.place[j], j, control.jobs[j].receipt>> :
              j \in {k \in Jobs : control.place[k] \in control.pending}}]
  BY Zenon DEF Flush
<1>2. /\ control # NoJob /\ control = controlFile /\ receipts \in ReceiptsType
      /\ Good(control, provider, controlTrail, receipts)
  BY <1>1 DEF ControlInv, ControlTypes, MemoryIsFile
<1>3. Good(control, provider, controlTrail, receipts') /\ receipts' \in ReceiptsType
  BY <1>1, <1>2, SentIsGood
<1>4. work' \in WorkType /\ work'.pc = "idle"
  BY <1>1, QuietIsSound
<1>5. ControlTypes' /\ MemoryIsFile' /\ CalledOnce(provider', controlTrail')
  BY <1>1, <1>3, <1>4 DEF ControlInv, ControlTypes, MemoryIsFile, After
<1>6. WorkIsSound(work', control, provider', controlTrail')
  BY <1>4, QuietIsSound
<1>. QED
  BY <1>1, <1>2, <1>3, <1>5, <1>6, StayInv

(* ReceiptAcked: what is acknowledged is stored. *)
LEMMA ReceiptAckedInv == ASSUME ControlInv, ReceiptAcked PROVE ControlInv'
<1>. DEFINE flush == [Quiescent EXCEPT !.pc = "flush"]
<1>1. /\ control # NoJob /\ UNCHANGED <<controlTrail, provider, receipts>>
      /\ \E m \in receipts.stored :
           /\ \A q \in 1 .. m[1] : \E n \in receipts.stored : n[1] = q
           /\ MayAck(control, m[1])
           /\ Persist(Acked(control, m[1]), flush)
  BY Zenon DEF ReceiptAcked
<1>2. PICK m \in receipts.stored :
        /\ \A q \in 1 .. m[1] : \E n \in receipts.stored : n[1] = q
        /\ MayAck(control, m[1]) /\ Persist(Acked(control, m[1]), flush)
  BY <1>1
<1>. DEFINE next == Acked(control, m[1])
<1>3. \/ control' = next /\ controlFile' = next /\ work' = flush
      \/ controlFile' \in {controlFile, next} /\ work' = Quiescent /\ UNCHANGED control
  BY <1>2, Zenon DEF Persist
<1>4. Good(control, provider, controlTrail, receipts) /\ receipts \in ReceiptsType
  BY <1>1 DEF ControlInv, ControlTypes
<1>5. Good(next, provider, controlTrail, receipts)
  BY <1>2, <1>4, AckedIsGood
<1>6. flush \in WorkType /\ flush.pc = "flush"
  BY QuietIsSound
<1>. HIDE DEF next, flush
<1>7. WorkIsSound(flush, next, provider, controlTrail)
  BY <1>6, QuietIsSound
<1>. QED
  BY <1>1, <1>3, <1>5, <1>6, <1>7, QuietIsSound, PersistInv

(* A receipt on its way is stored or lost. *)
LEMMA ReceiptsInv == ASSUME ControlInv, CloudStoresReceipt \/ ReceiptLost PROVE ControlInv'
<1>1. /\ UNCHANGED <<control, controlFile, work, controlTrail, provider>>
      /\ \E m \in receipts.way :
           \/ receipts' = [way |-> receipts.way \ {m}, stored |-> receipts.stored \cup {m}]
           \/ receipts' = [receipts EXCEPT !.way = @ \ {m}]
  BY Zenon DEF CloudStoresReceipt, ReceiptLost
<1>2. receipts \in ReceiptsType
  BY DEF ControlInv, ControlTypes
<1>3. /\ receipts' \in ReceiptsType /\ receipts.stored \subseteq receipts'.stored
      /\ receipts'.way \cup receipts'.stored \subseteq receipts.way \cup receipts.stored
  BY <1>1, <1>2 DEF ReceiptsType
<1>4. /\ Good(controlFile, provider, controlTrail, receipts')
      /\ control # NoJob => Good(control, provider, controlTrail, receipts')
  BY <1>3, GrownIsGood DEF ControlInv
<1>. QED
  BY <1>1, <1>3, <1>4 DEF ControlInv, ControlTypes, MemoryIsFile

(* A crash may tear the record that was being written. *)
LEMMA ControlCrashInv == ASSUME ControlInv, ControlCrash PROVE ControlInv'
<1>1. /\ control # NoJob /\ control' = NoJob /\ work' = Quiescent
      /\ UNCHANGED <<controlFile, provider, receipts>>
      /\ \/ controlTrail' = controlTrail
         \/ /\ work.pc \in {"reject", "authorize", "outcome"}
            /\ controlTrail' = [controlTrail EXCEPT !.torn = TRUE]
  <2>1. /\ control # NoJob /\ control' = NoJob /\ work' = Quiescent
        /\ UNCHANGED <<controlFile, provider, receipts>>
        /\ controlTrail' \in {controlTrail} \cup IF work.pc \in {"reject", "authorize", "outcome"}
                            THEN {[controlTrail EXCEPT !.torn = TRUE]} ELSE {}
    BY Zenon DEF ControlCrash
  <2>. QED
    BY <2>1, Zenon
<1>2. /\ controlTrail' \in TrailType
      /\ \A k \in Jobs, f \in AuditEvents : Logged(controlTrail, k, f) => Logged(controlTrail', k, f)
  <2>1. controlTrail \in TrailType /\ "authorized" \in AuditEvents
    BY DEF ControlInv, ControlTypes, AuditEvents
  <2>2. CASE controlTrail' = controlTrail
    BY <2>1, <2>2
  <2>3. CASE /\ work.pc \in {"reject", "authorize", "outcome"}
             /\ controlTrail' = [controlTrail EXCEPT !.torn = TRUE]
    <3>1. work.job \in Jobs
      BY <1>1, <2>3 DEF ControlInv, WorkIsSound, Before, After
    <3>2. controlTrail' \in {controlTrail, Recorded(<<work.job, "authorized">>),
                             [controlTrail EXCEPT !.torn = TRUE]}
      BY <2>3, Zenon
    <3>. QED
      BY <2>1, <3>1, <3>2, TrailGrows
  <2>. QED
    BY <1>1, <2>2, <2>3
<1>3. Good(controlFile, provider, controlTrail', receipts)
  BY <1>2, GrownIsGood DEF ControlInv
<1>4. CalledOnce(provider, controlTrail')
  <2>1. "authorized" \in AuditEvents
    BY DEF AuditEvents
  <2>. QED
    BY <1>2, <2>1 DEF ControlInv, CalledOnce
<1>5. work' \in WorkType /\ work'.pc = "idle"
  BY <1>1, QuietIsSound
<1>. QED
  BY <1>1, <1>2, <1>3, <1>4, <1>5 DEF ControlInv, ControlTypes

(* A restart reads the file. *)
LEMMA ControlRestartInv == ASSUME ControlInv, ControlRestart PROVE ControlInv'
<1>1. /\ control' = controlFile /\ work' = [Quiescent EXCEPT !.pc = "recover"]
      /\ UNCHANGED <<controlFile, controlTrail, provider, receipts>>
  BY Zenon DEF ControlRestart
<1>2. work' \in WorkType /\ work'.pc = "recover"
  BY <1>1, QuietIsSound
<1>3. /\ controlFile # NoJob /\ Good(controlFile, provider, controlTrail, receipts)
      /\ ControlTypes /\ CalledOnce(provider, controlTrail)
  BY ControlAssumption DEF ControlInv, Good, InOrder
<1>4. WorkIsSound(work', control', provider', controlTrail')
  BY <1>2, QuietIsSound
<1>5. MemoryIsFile'
  BY <1>1 DEF MemoryIsFile
<1>. QED
  BY <1>1, <1>2, <1>3, <1>4, <1>5 DEF ControlInv, ControlTypes

(* Recovery completes a claim without a receipt as unknown. *)
LEMMA RecoverInv == ASSUME ControlInv, RecoverInterrupted PROVE ControlInv'
<1>1. work.pc = "recover" /\ UNCHANGED <<provider, receipts>>
  BY Zenon DEF RecoverInterrupted
<1>2. /\ control # NoJob /\ Good(control, provider, controlTrail, receipts)
      /\ Good(controlFile, provider, controlTrail, receipts) /\ CalledOnce(provider, controlTrail)
      /\ receipts \in ReceiptsType /\ controlTrail \in TrailType /\ provider \in ProviderType
      /\ work \in WorkType
  BY <1>1 DEF ControlInv, ControlTypes
<1>3. CASE Interrupted(control) = {}
  <2>1. work' = [Quiescent EXCEPT !.pc = "flush"] /\ UNCHANGED <<control, controlFile, controlTrail>>
    BY <1>3, Zenon DEF RecoverInterrupted
  <2>2. work' \in WorkType /\ work'.pc = "flush"
    BY <2>1, QuietIsSound
  <2>3. control = controlFile
    BY <1>1, <1>2, <1>3 DEF ControlInv, MemoryIsFile
  <2>4. WorkIsSound(work', control, provider', controlTrail')
    BY <2>2, QuietIsSound
  <2>5. MemoryIsFile' /\ ControlTypes'
    BY <1>1, <1>2, <2>1, <2>2, <2>3 DEF MemoryIsFile, ControlTypes
  <2>. QED
    BY <1>1, <1>2, <2>1, <2>4, <2>5, StayInv
<1>4. CASE Interrupted(control) # {}
  <2>. DEFINE next(j, audited) ==
                ControlCompleted(control, j, control.jobs[j].digest, Receipt("unknown", audited))
  <2>1. PICK j \in Interrupted(control), audited \in BOOLEAN :
          /\ controlTrail' = IF audited THEN Recorded(<<j, "interrupted">>) ELSE controlTrail
          /\ work' = work
          /\ \/ control' = next(j, audited) /\ controlFile' = next(j, audited)
             \/ controlFile' \in {controlFile, next(j, audited)} /\ control' = control
    BY <1>4, Zenon DEF RecoverInterrupted
  <2>2. /\ j \in Jobs /\ control.jobs[j] # NoJob /\ control.jobs[j].receipt = NoJob
        /\ control.jobs[j].digest \in Digests /\ ~HasReceipt(control, j)
    <3>1. j \in Jobs /\ control.jobs[j] # NoJob /\ control.jobs[j].receipt = NoJob
      BY DEF Interrupted
    <3>. QED
      BY <1>2, <3>1 DEF Good, InOrder, ControlLedgers, ControlEntries, HasReceipt
  <2>3. /\ controlTrail' \in TrailType
        /\ \A k \in Jobs, f \in AuditEvents : Logged(controlTrail, k, f) => Logged(controlTrail', k, f)
        /\ audited => Logged(controlTrail', j, "interrupted")
    <3>1. "interrupted" \in AuditEvents
      BY DEF AuditEvents
    <3>2. /\ controlTrail' \in {controlTrail, Recorded(<<j, "interrupted">>),
                               [controlTrail EXCEPT !.torn = TRUE]}
          /\ audited => controlTrail' = Recorded(<<j, "interrupted">>)
      BY <2>1, Zenon
    <3>. QED
      BY <1>2, <2>2, <3>1, <3>2, TrailGrows
  <2>4. /\ Good(control, provider, controlTrail', receipts)
        /\ Good(controlFile, provider, controlTrail', receipts)
    BY <1>2, <2>3, GrownIsGood
  <2>5. CalledOnce(provider, controlTrail')
    <3>1. "authorized" \in AuditEvents
      BY DEF AuditEvents
    <3>. QED
      BY <1>2, <2>3, <3>1 DEF CalledOnce
  <2>. DEFINE r == Receipt("unknown", audited)
  <2>6. r \in ReceiptValues /\ r.stage = "unknown"
    BY DEF Receipt, ReceiptValues
  <2>7. r.audited => audited
    BY Zenon DEF Receipt
  <2>. HIDE DEF r
  <2>8. IsTrue(j, r, provider, controlTrail')
    <3>1. r.audited => Logged(controlTrail', j, "interrupted")
      BY <2>3, <2>7, Zenon
    <3>. QED
      BY <2>6, <3>1 DEF IsTrue
  <2>9. Good(next(j, audited), provider, controlTrail', receipts)
    BY <1>2, <2>2, <2>4, <2>6, <2>8, CompletedIsGood DEF r
  <2>. DEFINE l == next(j, audited)
  <2>10. \/ control' = l /\ controlFile' = l
         \/ controlFile' \in {controlFile, l} /\ control' = control
    BY <2>1
  <2>11. Good(l, provider, controlTrail', receipts)
    BY <2>9
  <2>. HIDE DEF next, l
  <2>12. l # NoJob
    BY <2>11, ControlAssumption DEF Good, InOrder
  <2>13. /\ Good(controlFile', provider, controlTrail', receipts)
         /\ Good(control', provider, controlTrail', receipts) /\ control' # NoJob
    BY <1>2, <2>4, <2>10, <2>11, <2>12
  <2>14. MemoryIsFile'
    BY <1>1, <1>4, <2>1, <2>10 DEF MemoryIsFile, After, Interrupted
  <2>15. WorkIsSound(work', control', provider', controlTrail')
    BY <1>1, <2>1, QuietIsSound
  <2>. QED
    BY <1>1, <1>2, <2>1, <2>3, <2>5, <2>13, <2>14, <2>15 DEF ControlInv, ControlTypes
<1>. QED
  BY <1>3, <1>4

---------------------------------------------------------------------------
(* The processor starts with nothing claimed, sent or recorded. *)
LEMMA ControlInvInit == ControlInit => ControlInv
<1>. SUFFICES ASSUME ControlInit PROVE ControlInv
  OBVIOUS
<1>1. /\ control = EmptyControl /\ controlFile = EmptyControl /\ work = Quiescent
      /\ controlTrail = [lines |-> {}, torn |-> FALSE]
      /\ provider = [calls |-> [j \in Jobs |-> 0], did |-> [j \in Jobs |-> {}]]
      /\ receipts = [way |-> {}, stored |-> {}]
  BY Zenon DEF ControlInit
<1>2. controlTrail \in TrailType
  <2>1. \A b \in BOOLEAN : [lines |-> {}, torn |-> b] \in TrailType
    BY DEF TrailType
  <2>. QED
    BY <1>1, <2>1, Zenon
<1>3. provider \in ProviderType /\ receipts \in ReceiptsType /\ work \in WorkType
  BY <1>1, QuietIsSound DEF ProviderType, ReceiptsType
<1>4. CalledOnce(provider, controlTrail)
  BY <1>1 DEF CalledOnce
<1>5. /\ EmptyControl \in ControlLedgers /\ EmptyControl.acked = 0 /\ EmptyControl.next = 1
      /\ EmptyControl.pending = {}
      /\ \A j \in Jobs : EmptyControl.jobs[j] = NoJob /\ EmptyControl.place[j] = 0
  BY DEF EmptyControl, ControlLedgers
<1>6. InOrder(EmptyControl)
  BY <1>5 DEF InOrder, HasReceipt
<1>7. Honest(EmptyControl, provider, controlTrail)
  BY <1>1, <1>5 DEF Honest, HasReceipt
<1>8. Final(EmptyControl, receipts)
  BY <1>1, <1>5 DEF Final
<1>9. MemoryIsFile
  BY <1>1 DEF MemoryIsFile
<1>10. WorkIsSound(work, control, provider, controlTrail) /\ work.pc = "idle"
  BY <1>1, QuietIsSound
<1>. QED
  BY <1>1, <1>2, <1>3, <1>4, <1>6, <1>7, <1>8, <1>9, <1>10 DEF ControlInv, ControlTypes, Good

(* Every step keeps the invariant. *)
LEMMA ControlInvStep == ControlInv /\ [ControlNext]_controlVars => ControlInv'
<1>. SUFFICES ASSUME ControlInv, [ControlNext]_controlVars PROVE ControlInv'
  OBVIOUS
<1>1. CASE ControlNext
  BY <1>1, OfferInv, AuditRejectionInv, AuditAuthorizationInv, ClaimInv, ExecuteInv, AuditOutcomeInv,
     CompleteJobInv, FlushInv, ReceiptAckedInv, ReceiptsInv, ControlCrashInv, ControlRestartInv,
     RecoverInv, Zenon DEF ControlNext
<1>2. CASE UNCHANGED controlVars
  <2>1. UNCHANGED <<control, controlFile, work, controlTrail, provider, receipts>>
    BY <1>2, Zenon DEF controlVars
  <2>. QED
    BY <2>1 DEF ControlInv, ControlTypes, MemoryIsFile, Interrupted
<1>. QED
  BY <1>1, <1>2

(* The invariant says what is promised. *)
LEMMA ControlInvMeans == ControlInv => IntegrationCommandsRunOnce
<1>. SUFFICES ASSUME ControlInv PROVE IntegrationCommandsRunOnce
  OBVIOUS
<1>1. /\ InOrder(controlFile) /\ Honest(controlFile, provider, controlTrail)
      /\ Final(controlFile, receipts) /\ CalledOnce(provider, controlTrail)
      /\ receipts \in ReceiptsType
  BY DEF ControlInv, ControlTypes, Good
<1>2. ProviderCalledOnce
  BY <1>1 DEF ProviderCalledOnce, CalledOnce
<1>3. ReceiptsAreTrue
  <2>. SUFFICES ASSUME NEW j \in Jobs, HasReceipt(controlFile, j), NEW r, r = controlFile.jobs[j].receipt
                PROVE  /\ r.stage \in {"accepted", "rejected"} => provider.did[j] = {r.stage}
                       /\ r.stage = "edge_rejected" => provider.calls[j] = 0
                       /\ r.audited => \/ controlTrail.torn
                                       \/ {<<j, r.stage>>, <<j, "interrupted">>} \cap controlTrail.lines # {}
                       /\ provider.calls[j] > 0 => controlTrail.torn \/ <<j, "authorized">> \in controlTrail.lines
    BY DEF ReceiptsAreTrue, HasReceipt
  <2>1. IsTrue(j, r, provider, controlTrail)
    BY <1>1 DEF Honest
  <2>2. provider.calls[j] > 0 => controlTrail.torn \/ <<j, "authorized">> \in controlTrail.lines
    BY <1>1 DEF CalledOnce, Logged
  <2>. QED
    BY <2>1, <2>2, Zenon DEF IsTrue, Logged
<1>4. ReceiptsAreFinal
  <2>1. \A m, n \in receipts.way \cup receipts.stored : m[2] = n[2] => m[3] = n[3]
    BY <1>1 DEF Final
  <2>2. Loads(controlFile)
    <3>. DEFINE l == controlFile
                places == {l.place[j] : j \in {k \in Jobs : l.place[k] > 0}}
    <3>1. \A j \in Jobs : /\ l.place[j] \in Nat /\ l.place[j] < l.next
                          /\ l.place[j] > 0 <=> HasReceipt(l, j)
                          /\ l.place[j] > l.acked <=> l.place[j] \in l.pending
      BY <1>1 DEF InOrder, ControlLedgers
    <3>2. \A p \in places : p < l.next /\ (p > l.acked <=> p \in l.pending)
      BY <3>1
    <3>3. l.pending \subseteq places
      BY <1>1, <3>1 DEF InOrder
    <3>4. \A j \in Jobs : l.jobs[j] # NoJob => (l.jobs[j].receipt # NoJob => l.place[j] > 0)
      BY <3>1 DEF HasReceipt
    <3>5. \A j, k \in Jobs : j # k /\ l.place[j] > 0 => l.place[j] # l.place[k]
      BY <1>1 DEF InOrder
    <3>. QED
      BY <3>2, <3>3, <3>4, <3>5, Zenon DEF Loads
  <2>. QED
    BY <2>1, <2>2 DEF ReceiptsAreFinal
<1>5. AckedWereStored
  BY <1>1 DEF AckedWereStored, Final
<1>. QED
  BY <1>2, <1>3, <1>4, <1>5 DEF IntegrationCommandsRunOnce

(* Whatever the offers, failed writes, crashes and lost messages: the provider *)
(* is called at most once for a job and only after its authorization was       *)
(* recorded, the receipts tell what it did and never change, every file a      *)
(* crash leaves loads, and only stored receipts are acknowledged.              *)
THEOREM IntegrationControlHolds == ControlSpec => []IntegrationCommandsRunOnce
<1>1. ControlInit => ControlInv
  BY ControlInvInit
<1>2. ControlInv /\ [ControlNext]_controlVars => ControlInv'
  BY ControlInvStep
<1>3. ControlInv => IntegrationCommandsRunOnce
  BY ControlInvMeans
<1>. QED
  BY <1>1, <1>2, <1>3, PTL DEF ControlSpec

---------------------------------------------------------------------------
(* Governed operations. *)

Pcs == {"new", "checked", "attempted", "accepted", "port_error", "answered", "lost"}
RequestType == [facade : Facades, expected : {1}, pc : Pcs, tries : 0..MaxTries,
                reply : Replies]
RecordType == [request : GovernedRequests, try : 1..MaxTries, outcome : GovernedOutcomes]

Entered(r, outcome) == GovernedRecord(r, outcome) \in trail

\* A facade whose port is certain and compares no revision
Certain(f) == ~f.revisioned /\ ~f.ambiguous

GovernedTypes ==
  /\ request \in [GovernedRequests -> RequestType]
  /\ trail \subseteq RecordType
  /\ revision \in Nat \ {0} /\ effects \in [GovernedRequests -> Nat] /\ crashes \in 0..MaxCrashes

\* What the trail says of a request's current try is what the try has reached.
TryIsRecorded(r) ==
  /\ request[r].pc = "new" <=> request[r].tries = 0
  /\ request[r].pc = "checked" => \A o \in GovernedOutcomes : ~Entered(r, o)
  /\ request[r].pc \in {"attempted", "accepted", "port_error"} =>
       Entered(r, "attempted") /\ \A o \in GovernedOutcomes \ {"attempted"} : ~Entered(r, o)
  /\ request[r].pc = "accepted" => effects[r] > 0

\* The trail runs no further than the tries.
TrailFollowsTries ==
  /\ \A t \in trail : t.try <= request[t.request].tries
  /\ \A r \in GovernedRequests : TryIsRecorded(r)

\* While the revision is the one the clients read, no revisioned mutation has
\* taken effect; a certain facade that took effect is never submitted again.
EffectsAreBounded ==
  \A r \in GovernedRequests :
    /\ request[r].facade.revisioned =>
         effects[r] <= 1 /\ (revision = 1 => effects[r] = 0)
    /\ Certain(request[r].facade) /\ effects[r] > 0 =>
         /\ effects[r] = 1
         /\ \/ request[r].pc \in {"accepted", "lost"}
            \/ request[r].pc = "answered" /\ request[r].reply \in {"accepted", "incomplete"}

GovernedInv == GovernedTypes /\ TrailFollowsTries /\ EffectsAreBounded /\ OperationsAreGoverned

---------------------------------------------------------------------------
(* Initially nothing is recorded and nothing took effect. *)
LEMMA GovernedInitInv == GovernedInit => GovernedInv
<1>. SUFFICES ASSUME GovernedInit PROVE GovernedInv
  OBVIOUS
<1>1. \A r \in GovernedRequests :
         /\ request[r] \in RequestType
         /\ request[r].pc = "new" /\ request[r].tries = 0 /\ effects[r] = 0
  BY GovernedAssumption DEF GovernedInit, RequestType, Pcs, Replies
<1>2. GovernedTypes
  <2>1. request \in [GovernedRequests -> RequestType]
    BY <1>1 DEF GovernedInit
  <2>. QED
    BY <2>1, GovernedAssumption DEF GovernedInit, GovernedTypes
<1>3. TrailFollowsTries
  BY <1>1 DEF GovernedInit, TrailFollowsTries, TryIsRecorded, Entered
<1>4. EffectsAreBounded /\ OperationsAreGoverned
  BY <1>1 DEF GovernedInit, EffectsAreBounded, OperationsAreGoverned,
         EffectsAreAnnounced, AtMostOnce, TrailIsTrue
<1>. QED
  BY <1>2, <1>3, <1>4 DEF GovernedInv

(* A submission opens a try that the trail does not mention. *)
LEMMA SubmitInv ==
    ASSUME GovernedInv, NEW r \in GovernedRequests, GovernedSubmit(r)
    PROVE  GovernedInv'
<1>. USE GovernedAssumption DEF GovernedInv, GovernedSubmit
<1>1. GovernedTypes'
  BY DEF GovernedTypes, RequestType, Pcs, Replies
<1>2. TrailFollowsTries'
  BY DEF GovernedTypes, RequestType, RecordType, Pcs, TrailFollowsTries, TryIsRecorded, Entered,
         GovernedRecord
<1>3. EffectsAreBounded'
  BY DEF GovernedTypes, RequestType, EffectsAreBounded, Certain
<1>4. OperationsAreGoverned'
  BY DEF GovernedTypes, RequestType, OperationsAreGoverned,
         EffectsAreAnnounced, AtMostOnce, TrailIsTrue
<1>. QED
  BY <1>1, <1>2, <1>3, <1>4

---------------------------------------------------------------------------
\* The step changes the record of request r alone, within its try.
Moved(r) ==
  /\ request' \in [GovernedRequests -> RequestType]
  /\ \A s \in GovernedRequests \ {r} : request'[s] = request[s]
  /\ request'[r].facade = request[r].facade /\ request'[r].tries = request[r].tries

(* An answer changes the state and the reply of its request. *)
LEMMA AnswerMoves ==
    ASSUME GovernedTypes, NEW r \in GovernedRequests, NEW reply \in Replies,
           GovernedAnswer(r, reply)
    PROVE  Moved(r) /\ request'[r].pc = "answered" /\ request'[r].reply = reply
BY DEF GovernedTypes, GovernedAnswer, Moved, RequestType, Pcs

(* A change of state changes nothing else of its request. *)
LEMMA GotoMoves ==
    ASSUME GovernedTypes, NEW r \in GovernedRequests, NEW pc \in Pcs,
           GovernedGoto(r, pc)
    PROVE  Moved(r) /\ request'[r].pc = pc /\ request'[r].reply = request[r].reply
BY DEF GovernedTypes, GovernedGoto, Moved, RequestType

(* One record more enters exactly that outcome of that request's try. *)
LEMMA RecordEnters ==
    ASSUME GovernedTypes, NEW r \in GovernedRequests, NEW o \in GovernedOutcomes,
           request[r].tries > 0, Moved(r), trail' = trail \cup {GovernedRecord(r, o)}
    PROVE  /\ trail' \subseteq RecordType
           /\ \A s \in GovernedRequests, q \in GovernedOutcomes :
                Entered(s, q)' <=> Entered(s, q) \/ (s = r /\ q = o)
<1>1. request[r].tries \in 1..MaxTries
  BY GovernedAssumption DEF GovernedTypes, RequestType
<1>2. trail' \subseteq RecordType
  BY <1>1 DEF GovernedTypes, RecordType, GovernedRecord
<1>3. \A s \in GovernedRequests : request'[s].tries = request[s].tries
  BY DEF Moved
<1>4. ASSUME NEW s \in GovernedRequests, NEW q \in GovernedOutcomes
      PROVE  Entered(s, q)' <=> Entered(s, q) \/ (s = r /\ q = o)
  BY <1>3 DEF Entered, GovernedRecord
<1>. QED
  BY <1>2, <1>4

(* An answer whose audit record was lost: the client of an accepted try is not *)
(* told to retry.                                                              *)
LEMMA UnrecordedInv ==
    ASSUME GovernedInv, NEW r \in GovernedRequests, NEW reply \in Replies,
           request[r].pc \in {"checked", "accepted", "port_error"},
           request[r].pc = "accepted" => reply \in {"accepted", "incomplete"},
           GovernedAnswer(r, reply), UNCHANGED <<trail, revision, effects, crashes>>
    PROVE  GovernedInv'
<1>. USE DEF GovernedInv
<1>1. Moved(r) /\ request'[r].pc = "answered" /\ request'[r].reply = reply
  BY AnswerMoves
<1>2. GovernedTypes'
  BY <1>1 DEF Moved, GovernedTypes
<1>3. \A s \in GovernedRequests, q \in GovernedOutcomes : Entered(s, q)' <=> Entered(s, q)
  BY <1>1 DEF Moved, Entered, GovernedRecord
<1>4. TrailFollowsTries'
  <2>1. \A t \in trail' : t.try <= request'[t.request].tries
    BY <1>1 DEF Moved, TrailFollowsTries, GovernedTypes, RecordType
  <2>2. ASSUME NEW s \in GovernedRequests PROVE TryIsRecorded(s)'
    BY <1>1, <1>3 DEF Moved, TrailFollowsTries, TryIsRecorded, GovernedOutcomes
  <2>. QED
    BY <2>1, <2>2 DEF TrailFollowsTries
<1>5. EffectsAreBounded'
  BY <1>1 DEF Moved, EffectsAreBounded, Certain
<1>6. OperationsAreGoverned'
  BY <1>1 DEF Moved, OperationsAreGoverned, EffectsAreAnnounced, AtMostOnce, TrailIsTrue
<1>. QED
  BY <1>2, <1>4, <1>5, <1>6

(* A terminal record: "rejected" of a try that was not attempted, "succeeded" *)
(* of an accepted one, "failed" of one whose port reported an error.          *)
LEMMA TerminalInv ==
    ASSUME GovernedInv, NEW r \in GovernedRequests, NEW reply \in Replies,
           NEW o \in {"rejected", "succeeded", "failed"},
           o = "rejected" => request[r].pc = "checked",
           o = "succeeded" => request[r].pc = "accepted",
           o = "failed" => request[r].pc = "port_error",
           o = "succeeded" => reply \in {"accepted", "incomplete"},
           GovernedAnswer(r, reply), trail' = trail \cup {GovernedRecord(r, o)},
           UNCHANGED <<revision, effects, crashes>>
    PROVE  GovernedInv'
<1>. USE DEF GovernedInv
<1>1. Moved(r) /\ request'[r].pc = "answered" /\ request'[r].reply = reply
  BY AnswerMoves
<1>2. request[r].tries > 0 /\ o \in GovernedOutcomes
  BY DEF TrailFollowsTries, TryIsRecorded, GovernedTypes, RequestType, GovernedOutcomes
<1>3. /\ trail' \subseteq RecordType
      /\ \A s \in GovernedRequests, q \in GovernedOutcomes :
           Entered(s, q)' <=> Entered(s, q) \/ (s = r /\ q = o)
  BY <1>1, <1>2, RecordEnters
<1>4. GovernedTypes'
  BY <1>1, <1>3 DEF Moved, GovernedTypes
<1>5. TrailFollowsTries'
  <2>1. \A t \in trail' : t.try <= request'[t.request].tries
    BY <1>1 DEF Moved, TrailFollowsTries, GovernedTypes, RequestType, RecordType, GovernedRecord
  <2>2. ASSUME NEW s \in GovernedRequests PROVE TryIsRecorded(s)'
    BY <1>1, <1>2, <1>3 DEF Moved, TrailFollowsTries, TryIsRecorded, GovernedOutcomes
  <2>. QED
    BY <2>1, <2>2 DEF TrailFollowsTries
<1>6. EffectsAreBounded'
  BY <1>1 DEF Moved, EffectsAreBounded, Certain
<1>7. OperationsAreGoverned'
  <2>1. EffectsAreAnnounced' /\ AtMostOnce'
    BY <1>1 DEF Moved, OperationsAreGoverned, EffectsAreAnnounced, AtMostOnce
  <2>2. ASSUME NEW t \in trail'
        PROVE  /\ t.outcome = "succeeded" => effects'[t.request] > 0
               /\ t.outcome = "succeeded" =>
                    [t EXCEPT !.outcome = "attempted"] \in trail'
                      /\ [t EXCEPT !.outcome = "failed"] \notin trail'
               /\ t.outcome = "rejected" => [t EXCEPT !.outcome = "attempted"] \notin trail'
    <3>1. t \in RecordType
      BY <1>3
    <3>2. \A q : [t EXCEPT !.outcome = q] = [request |-> t.request, try |-> t.try, outcome |-> q]
      BY <3>1 DEF RecordType
    <3>3. CASE t = GovernedRecord(r, o)
      <4>1. \A q : [t EXCEPT !.outcome = q] = GovernedRecord(r, q)
        BY <3>2, <3>3 DEF GovernedRecord
      <4>2. t.outcome = o /\ t.request = r /\ \A q : GovernedRecord(r, q) = GovernedRecord(r, o) => q = o
        BY <3>3 DEF GovernedRecord
      <4>3. CASE o = "succeeded"
        <5>1. Entered(r, "attempted") /\ ~Entered(r, "failed") /\ effects[r] > 0
          BY <4>3 DEF TrailFollowsTries, TryIsRecorded, GovernedOutcomes
        <5>. QED
          BY <4>1, <4>2, <4>3, <5>1 DEF Entered
      <4>4. CASE o = "rejected"
        BY <4>1, <4>2, <4>4 DEF TrailFollowsTries, TryIsRecorded, Entered, GovernedOutcomes
      <4>5. CASE o = "failed"
        BY <4>2, <4>5
      <4>. QED
        BY <4>3, <4>4, <4>5
    <3>4. CASE t \in trail
      <4>1. /\ t.outcome = "succeeded" => effects[t.request] > 0
            /\ t.outcome = "succeeded" =>
                 [t EXCEPT !.outcome = "attempted"] \in trail
                   /\ [t EXCEPT !.outcome = "failed"] \notin trail
            /\ t.outcome = "rejected" => [t EXCEPT !.outcome = "attempted"] \notin trail
        BY <3>4 DEF OperationsAreGoverned, TrailIsTrue
      <4>2. ASSUME t.outcome \in {"succeeded", "rejected"}, NEW q,
                   [t EXCEPT !.outcome = q] = GovernedRecord(r, o)
            PROVE  FALSE
        <5>1. t.request = r /\ t.try = request[r].tries
          BY <3>2, <4>2 DEF GovernedRecord
        <5>2. t = GovernedRecord(r, t.outcome)
          BY <3>1, <5>1 DEF GovernedRecord, RecordType
        <5>. QED
          BY <3>4, <4>2, <5>2 DEF TrailFollowsTries, TryIsRecorded, Entered, GovernedOutcomes
      <4>. QED
        BY <4>1, <4>2
    <3>. QED
      BY <3>3, <3>4
  <2>. QED
    BY <2>1, <2>2 DEF OperationsAreGoverned, TrailIsTrue
<1>. QED
  BY <1>4, <1>5, <1>6, <1>7

(* The attempt is recorded before the port is called. *)
LEMMA AttemptedInv ==
    ASSUME GovernedInv, NEW r \in GovernedRequests, request[r].pc = "checked",
           GovernedGoto(r, "attempted"), trail' = trail \cup {GovernedRecord(r, "attempted")},
           UNCHANGED <<revision, effects, crashes>>
    PROVE  GovernedInv'
<1>. USE DEF GovernedInv
<1>1. Moved(r) /\ request'[r].pc = "attempted" /\ request'[r].reply = request[r].reply
  BY GotoMoves DEF Pcs
<1>2. request[r].tries > 0 /\ "attempted" \in GovernedOutcomes
  BY DEF TrailFollowsTries, TryIsRecorded, GovernedTypes, RequestType, GovernedOutcomes
<1>3. /\ trail' \subseteq RecordType
      /\ \A s \in GovernedRequests, q \in GovernedOutcomes :
           Entered(s, q)' <=> Entered(s, q) \/ (s = r /\ q = "attempted")
  BY <1>1, <1>2, RecordEnters
<1>4. GovernedTypes'
  BY <1>1, <1>3 DEF Moved, GovernedTypes
<1>5. TrailFollowsTries'
  <2>1. ASSUME NEW t \in trail' PROVE t.try <= request'[t.request].tries
    <3>1. CASE t \in trail
      <4>1. t.request \in GovernedRequests /\ t.try <= request[t.request].tries
        BY <3>1 DEF TrailFollowsTries, GovernedTypes, RecordType
      <4>. QED
        BY <1>1, <4>1 DEF Moved
    <3>2. CASE t = GovernedRecord(r, "attempted")
      <4>1. t.request = r /\ t.try = request[r].tries /\ request[r].tries \in Nat
        BY <3>2 DEF GovernedRecord, GovernedTypes, RequestType
      <4>. QED
        BY <1>1, <4>1 DEF Moved
    <3>. QED
      BY <3>1, <3>2
  <2>2. ASSUME NEW s \in GovernedRequests PROVE TryIsRecorded(s)'
    BY <1>1, <1>2, <1>3 DEF Moved, TrailFollowsTries, TryIsRecorded, GovernedOutcomes
  <2>. QED
    BY <2>1, <2>2 DEF TrailFollowsTries
<1>6. EffectsAreBounded'
  BY <1>1 DEF Moved, EffectsAreBounded, Certain
<1>7. OperationsAreGoverned'
  <2>1. EffectsAreAnnounced' /\ AtMostOnce'
    BY <1>1 DEF Moved, OperationsAreGoverned, EffectsAreAnnounced, AtMostOnce
  <2>2. ASSUME NEW t \in trail', t.outcome = "rejected"
        PROVE  [t EXCEPT !.outcome = "attempted"] # GovernedRecord(r, "attempted")
    <3>1. t \in trail /\ t \in RecordType
      BY <1>3, <2>2 DEF GovernedRecord
    <3>2. ASSUME [t EXCEPT !.outcome = "attempted"] = GovernedRecord(r, "attempted")
          PROVE  t = GovernedRecord(r, "rejected")
      BY <3>1, <3>2, <2>2 DEF GovernedRecord, RecordType
    <3>. QED
      BY <3>1, <3>2 DEF TrailFollowsTries, TryIsRecorded, Entered, GovernedOutcomes
  <2>3. ASSUME NEW t \in trail'
        PROVE  /\ t.outcome = "succeeded" => effects'[t.request] > 0
               /\ t.outcome = "succeeded" =>
                    [t EXCEPT !.outcome = "attempted"] \in trail'
                      /\ [t EXCEPT !.outcome = "failed"] \notin trail'
               /\ t.outcome = "rejected" => [t EXCEPT !.outcome = "attempted"] \notin trail'
    <3>1. t \in RecordType
      BY <1>3
    <3>2. [t EXCEPT !.outcome = "failed"] # GovernedRecord(r, "attempted")
      BY <3>1 DEF RecordType, GovernedRecord
    <3>3. CASE t \in trail
      BY <3>2, <3>3, <2>2 DEF OperationsAreGoverned, TrailIsTrue
    <3>4. CASE t = GovernedRecord(r, "attempted")
      BY <3>4 DEF GovernedRecord
    <3>. QED
      BY <3>3, <3>4
  <2>. QED
    BY <2>1, <2>3 DEF OperationsAreGoverned, TrailIsTrue
<1>. QED
  BY <1>4, <1>5, <1>6, <1>7

(* The port takes effect once more: for a revisioned mutation the first time, *)
(* since the revision is still the one the client read.                       *)
LEMMA AppliedInv ==
    ASSUME GovernedInv, NEW r \in GovernedRequests, NEW pc \in {"accepted", "port_error"},
           request[r].pc = "attempted", Compares(r), Apply(r, pc),
           pc = "port_error" => request[r].facade.ambiguous,
           UNCHANGED <<trail, crashes>>
    PROVE  GovernedInv'
<1>. USE DEF GovernedInv
<1>1. Moved(r) /\ request'[r].pc = pc /\ request'[r].reply = request[r].reply
  BY GotoMoves DEF Pcs, Apply
<1>2. /\ effects' \in [GovernedRequests -> Nat] /\ effects'[r] = effects[r] + 1
      /\ \A s \in GovernedRequests \ {r} : effects'[s] = effects[s]
  BY DEF Apply, GovernedTypes
<1>3. /\ request[r].facade.revisioned => revision = 1 /\ revision' = 2
      /\ revision' \in Nat \ {0} /\ (revision' = 1 => revision = 1)
  BY DEF Apply, Compares, GovernedTypes, RequestType
<1>4. GovernedTypes'
  BY <1>1, <1>2, <1>3 DEF Moved, GovernedTypes
<1>5. \A s \in GovernedRequests, q \in GovernedOutcomes : Entered(s, q)' <=> Entered(s, q)
  BY <1>1 DEF Moved, Entered, GovernedRecord
<1>6. TrailFollowsTries'
  <2>1. \A t \in trail' : t.try <= request'[t.request].tries
    BY <1>1 DEF Moved, TrailFollowsTries, GovernedTypes, RecordType
  <2>2. ASSUME NEW s \in GovernedRequests PROVE TryIsRecorded(s)'
    BY <1>1, <1>2, <1>5 DEF Moved, TrailFollowsTries, TryIsRecorded, GovernedOutcomes, GovernedTypes
  <2>. QED
    BY <2>1, <2>2 DEF TrailFollowsTries
<1>7. EffectsAreBounded'
  BY <1>1, <1>2, <1>3 DEF Moved, EffectsAreBounded, Certain, GovernedTypes
<1>8. OperationsAreGoverned'
  <2>1. EffectsAreAnnounced'
    <3>1. GovernedRecord(r, "attempted") \in trail
      BY DEF TrailFollowsTries, TryIsRecorded, Entered
    <3>. QED
      BY <1>2, <3>1 DEF OperationsAreGoverned, EffectsAreAnnounced, GovernedRecord
  <2>2. AtMostOnce'
    <3>. SUFFICES ASSUME NEW s \in GovernedRequests,
                         (request[s].facade.revisioned \/ ~request[s].facade.ambiguous)'
                  PROVE  effects'[s] <= 1
      BY DEF AtMostOnce
    <3>1. CASE request'[s].facade.revisioned
      BY <1>7, <3>1 DEF EffectsAreBounded
    <3>2. CASE Certain(request[s].facade)'
      <4>1. effects'[s] > 0 => effects'[s] = 1
        BY <1>7, <3>2 DEF EffectsAreBounded
      <4>. QED
        BY <1>2, <4>1
    <3>. QED
      BY <3>1, <3>2 DEF Certain
  <2>3. TrailIsTrue'
    <3>1. \A t \in trail : effects[t.request] > 0 => effects'[t.request] > 0
      BY <1>2 DEF GovernedTypes, RecordType
    <3>. QED
      BY <3>1 DEF OperationsAreGoverned, TrailIsTrue
  <2>. QED
    BY <2>1, <2>2, <2>3 DEF OperationsAreGoverned
<1>. QED
  BY <1>4, <1>6, <1>7, <1>8

(* The port fails without an effect. *)
LEMMA RefusedInv ==
    ASSUME GovernedInv, NEW r \in GovernedRequests, request[r].pc = "attempted",
           GovernedGoto(r, "port_error"), UNCHANGED <<trail, revision, effects, crashes>>
    PROVE  GovernedInv'
<1>. USE DEF GovernedInv
<1>1. Moved(r) /\ request'[r].pc = "port_error" /\ request'[r].reply = request[r].reply
  BY GotoMoves DEF Pcs
<1>2. GovernedTypes'
  BY <1>1 DEF Moved, GovernedTypes
<1>3. \A s \in GovernedRequests, q \in GovernedOutcomes : Entered(s, q)' <=> Entered(s, q)
  BY <1>1 DEF Moved, Entered, GovernedRecord
<1>4. TrailFollowsTries'
  <2>1. \A t \in trail' : t.try <= request'[t.request].tries
    BY <1>1 DEF Moved, TrailFollowsTries, GovernedTypes, RecordType
  <2>2. ASSUME NEW s \in GovernedRequests PROVE TryIsRecorded(s)'
    <3>1. TryIsRecorded(s)
      BY DEF TrailFollowsTries
    <3>2. CASE s = r
      BY <1>1, <1>3, <3>1, <3>2 DEF Moved, TryIsRecorded, GovernedOutcomes
    <3>3. CASE s # r
      BY <1>1, <1>3, <3>1, <3>3 DEF Moved, TryIsRecorded, GovernedOutcomes
    <3>. QED
      BY <3>2, <3>3
  <2>. QED
    BY <2>1, <2>2 DEF TrailFollowsTries
<1>5. EffectsAreBounded'
  BY <1>1 DEF Moved, EffectsAreBounded, Certain
<1>6. OperationsAreGoverned'
  BY <1>1 DEF Moved, OperationsAreGoverned, EffectsAreAnnounced, AtMostOnce, TrailIsTrue
<1>. QED
  BY <1>2, <1>4, <1>5, <1>6

(* A crash loses answers, neither records nor effects. *)
LEMMA CrashInv ==
    ASSUME GovernedInv, GovernedCrash
    PROVE  GovernedInv'
<1>. USE GovernedAssumption DEF GovernedInv, GovernedCrash
<1>1. GovernedTypes'
  BY DEF GovernedTypes, RequestType, Pcs
<1>2. \A s \in GovernedRequests :
         /\ request'[s].tries = request[s].tries /\ request'[s].facade = request[s].facade
         /\ request'[s].reply = request[s].reply
         /\ IF request[s].pc \in {"new", "answered"} THEN request'[s].pc = request[s].pc
            ELSE request'[s].pc = "lost"
  BY DEF GovernedTypes, RequestType
<1>3. TrailFollowsTries'
  BY <1>2 DEF TrailFollowsTries, TryIsRecorded, GovernedTypes, RecordType
<1>4. EffectsAreBounded'
  BY <1>2 DEF EffectsAreBounded, Certain
<1>5. OperationsAreGoverned'
  BY <1>2 DEF OperationsAreGoverned, EffectsAreAnnounced, AtMostOnce, TrailIsTrue
<1>. QED
  BY <1>1, <1>3, <1>4, <1>5

(* Every step keeps the invariant. *)
LEMMA GovernedStepInv == GovernedInv /\ [GovernedNext]_governedVars => GovernedInv'
<1>. SUFFICES ASSUME GovernedInv, [GovernedNext]_governedVars PROVE GovernedInv'
  OBVIOUS
<1>1. CASE UNCHANGED governedVars
  BY <1>1 DEF governedVars, GovernedInv, GovernedTypes, TrailFollowsTries, TryIsRecorded,
     Entered, GovernedRecord, EffectsAreBounded, OperationsAreGoverned, EffectsAreAnnounced,
     AtMostOnce, TrailIsTrue
<1>2. ASSUME NEW r \in GovernedRequests, GovernedSubmit(r) PROVE GovernedInv'
  BY <1>2, SubmitInv
<1>3. ASSUME NEW r \in GovernedRequests, NEW why, Reject(r, why) PROVE GovernedInv'
  BY <1>3, UnrecordedInv, TerminalInv DEF Reject, Audited, Replies
<1>4. ASSUME NEW r \in GovernedRequests, GovernedAttempt(r) PROVE GovernedInv'
  BY <1>4, UnrecordedInv, AttemptedInv DEF GovernedAttempt, Audited, Replies
<1>5. ASSUME NEW r \in GovernedRequests, Perform(r) PROVE GovernedInv'
  BY <1>5, AppliedInv, RefusedInv DEF Perform
<1>6. ASSUME NEW r \in GovernedRequests, GovernedComplete(r) PROVE GovernedInv'
  BY <1>6, UnrecordedInv, TerminalInv DEF GovernedComplete, Audited, Replies
<1>7. ASSUME NEW r \in GovernedRequests, GovernedFail(r) PROVE GovernedInv'
  BY <1>7, UnrecordedInv, TerminalInv DEF GovernedFail, Audited, Replies
<1>8. CASE GovernedCrash
  BY <1>8, CrashInv
<1>. QED
  BY <1>1, <1>2, <1>3, <1>4, <1>5, <1>6, <1>7, <1>8 DEF GovernedNext

(* Whatever records are lost, whenever the service restarts and however often *)
(* the clients retry: an effect is announced before it happens, a device      *)
(* command and a revisioned mutation take effect at most once, and the        *)
(* terminal records say what happened.                                        *)
THEOREM GovernedOperationsHold == GovernedSpec => []OperationsAreGoverned
<1>1. GovernedInv => OperationsAreGoverned
  BY DEF GovernedInv
<1>. QED
  BY <1>1, GovernedInitInv, GovernedStepInv, PTL DEF GovernedSpec

=============================================================================
