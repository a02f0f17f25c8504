--------------------------- MODULE DataProcessing ---------------------------
(***************************************************************************)
(* A governed data-processing call: the edge assembles a frame of recent   *)
(* history, a live tail and forecast covariates, sends it to a processor   *)
(* and accepts the answer as derived data.                                  *)
(*                                                                         *)
(* While a call runs, the historian keeps storing rows, the device keeps   *)
(* sampling, the forecast snapshot file is replaced, the historian's       *)
(* settings move, the audit sink fails, the clock passes the deadlines,    *)
(* and the processor answers anything: its own answer, the answer to       *)
(* another request, a stale one or none.                                   *)
(*                                                                         *)
(* Times are ticks.  A frame of Steps intervals of Cadence ticks ends at   *)
(* "as of"; an interval is labelled by its END and holds the rows later    *)
(* than the previous label and not later than its own.                     *)
(***************************************************************************)
EXTENDS Integers, Sequences, FiniteSets
LOCAL INSTANCE FiniteSetsExt
LOCAL INSTANCE SequencesExt

CONSTANTS
  Processees,      \* the callers
  Second,          \* ticks of one second
  Cadence,         \* ticks of one interval
  DataSteps,           \* intervals of history in a frame
  Deadline,        \* the route's deadline_ms
  MaxInputAge,     \* the task's max_input_age
  MaxInputGap,     \* the task's max_observation_gap
  MaxCells,        \* the processor's max_frame_samples
  MaxMissing,      \* cells of the history that may be missing
  MaxOutputAge,    \* the task's max_output_age
  FallbackAge,     \* the fallback policy's max_output_age
  Permits,         \* the route's max_concurrency
  Commissions,     \* commissioned configurations tried, each with the callers
                   \* and with what the historian may have stored by then
  SampleValues,    \* values a device reports
  FirstInstant,    \* when the first call may be made
  MaxInstant, MaxRows, MaxRuns, MaxDataMoves,
  NoFrame

VARIABLES
  instant,      \* wall clock
  commission,   \* the configuration the service was built from
  stored,       \* rows of the historian's SQLite file, in rowid order
  sampled,      \* latest live sample of the bound point
  snapshot,     \* forecast runs in the covariate snapshot file
  authority,    \* TRUE while the historian writes the file we read
  moves,        \* settings changes so far
  calls,        \* per caller, the call in flight or its outcome
  asked,        \* requests the processor has received
  auditTrail    \* <<caller, record>> pairs the audit sink holds

dataVars == <<instant, commission, stored, sampled, snapshot, authority, moves,
              calls, asked, auditTrail>>

Usable == {"good", "uncertain"}

-----------------------------------------------------------------------------
(* Commissioning: what the service refuses to start with.                   *)

\* A task: a window, a gap limit no shorter than an interval, and fallback
\* policies that do not outlive ordinary output.
TaskIsValid(c) ==
  /\ Cadence > 0 /\ DataSteps > 0 /\ MaxOutputAge > 0
  /\ MaxInputAge > 0 /\ MaxInputGap >= Cadence
  /\ c.fallback => FallbackAge <= MaxOutputAge

\* The wire contract counts durations in whole seconds and knows one strategy.
TaskFitsContract(c) ==
  /\ Cadence % Second = 0 /\ MaxInputAge % Second = 0 /\ MaxInputGap % Second = 0
  /\ c.fallback => FallbackAge % Second = 0

\* The binding names a point for the target; a live tail stands for a whole
\* interval, so it needs Last.
BindingIsValid(c) ==
  c.livePoint /\ (c.live => c.aggregate = "last")

\* One enabled physical history route per feature, on the point whose live
\* value is bound, in the feature's unit and sign convention.
HistoryRoutesFit(c) ==
  c.historyPoint

\* A processor that speaks the contract, takes the largest frame, and may
\* leave the site only when task and binding both allow egress.
RouteIsValid(c) ==
  /\ Deadline > 0
  /\ Permits \in 1..64
  /\ DataSteps <= MaxCells
  /\ c.remote => c.egress

Buildable(c) ==
  TaskIsValid(c) /\ TaskFitsContract(c) /\ BindingIsValid(c) /\ HistoryRoutesFit(c) /\ RouteIsValid(c)

-----------------------------------------------------------------------------
(* The history query: rows to intervals.                                    *)

\* Labels are interval ends; the first needs a lower edge at or after zero.
Labels(asOf) == [i \in 1..DataSteps |-> asOf - (DataSteps - i) * Cadence]
RawLower(asOf) == Labels(asOf)[1] - Cadence
GridIsValid(asOf) == asOf >= (DataSteps - 1) * Cadence /\ RawLower(asOf) >= 0

\* SELECT ... WHERE lower < time <= upper ORDER BY time, rowid.
InOrder(rows, lower, upper) ==
  LET ids == {i \in DOMAIN rows : rows[i].time > lower /\ rows[i].time <= upper}
      before(i, j) == \/ rows[i].time < rows[j].time
                      \/ rows[i].time = rows[j].time /\ i < j
  IN  [k \in 1..Cardinality(ids) |-> rows[SetToSortSeq(ids, before)[k]]]

\* Two rows of one time: the later row replaces the earlier, or the query
\* fails.
ResolveDuplicates(rows) ==
  FoldLeft(LAMBDA kept, r :
             IF kept # <<>> /\ Last(kept).time = r.time
             THEN Front(kept) \o <<r>> ELSE Append(kept, r),
           <<>>, rows)

HasDuplicates(rows) ==
  \E i \in 1..(Len(rows) - 1) : rows[i].time = rows[i + 1].time

\* Which interval a row falls in.
BucketOf(time, asOf) == (time - RawLower(asOf) - 1) \div Cadence + 1

\* One aggregate per interval, folded over its rows in order; 0 is missing.
Aggregate(kind, values) ==
  CASE values = <<>>     -> 0
    [] kind = "last"     -> Last(values)
    [] kind = "mean"     -> FoldLeft(LAMBDA a, v : a + v, 0, values) \div Len(values)
    [] kind = "sum"      -> FoldLeft(LAMBDA a, v : a + v, 0, values)
    [] kind = "min"      -> Min({values[i] : i \in DOMAIN values})
    [] kind = "max"      -> Max({values[i] : i \in DOMAIN values})

StoredSeries(rows, asOf, c) ==
  LET found == ResolveDuplicates(InOrder(rows, RawLower(asOf), asOf))
      in(i) == SelectSeq(found, LAMBDA r : BucketOf(r.time, asOf) = i)
  IN  [values |-> [i \in 1..DataSteps |->
                     Aggregate(c.aggregate, [k \in 1..Len(in(i)) |-> in(i)[k].value])],
       watermark |-> IF found = <<>> THEN 0 ELSE Last(found).time]

QueryFails(rows, asOf, c) ==
  \/ ~GridIsValid(asOf)
  \/ InOrder(rows, RawLower(asOf), asOf) = <<>>
  \/ c.duplicates = "reject" /\ HasDuplicates(InOrder(rows, RawLower(asOf), asOf))

-----------------------------------------------------------------------------
(* The live tail, the covariates and the frame's own checks.                *)

\* A live sample replaces the last interval only at exactly "as of", and only
\* when it is usable.
LiveFits(sample, asOf) == sample.time = asOf /\ sample.quality \in Usable

MergeLiveTail(series, sample, asOf, c) ==
  IF c.live /\ LiveFits(sample, asOf)
  THEN [values |-> [series.values EXCEPT ![DataSteps] = sample.value],
        watermark |-> sample.time]
  ELSE series

\* The newest run issued by "as of", among runs sorted by issue time.
Issued(runs, asOf) == {r \in runs : r.issued <= asOf}
SelectRun(runs, asOf) == CHOOSE r \in Issued(runs, asOf) :
                            \A q \in Issued(runs, asOf) : q.issued <= r.issued

\* The snapshot file is well formed: distinct issue times, issue <= watermark.
SnapshotIsValid(runs) ==
  /\ \A r \in runs : r.issued <= r.watermark
  /\ \A r, q \in runs : r.issued = q.issued => r = q

\* The run's own watermark and its valid times must suit the window.
CovariateFails(runs, asOf) ==
  \/ ~SnapshotIsValid(runs)
  \/ Issued(runs, asOf) = {}
  \/ SelectRun(runs, asOf).watermark > asOf
  \/ SelectRun(runs, asOf).through < asOf + Cadence

\* Longest time without a usable value, from the window's start to its end and
\* never less than one interval (folded over the labels as the code does).
MaximumGap(values, asOf) ==
  LET walk == FoldLeft(LAMBDA acc, i :
                IF values[i] = 0 THEN acc
                ELSE [last |-> Labels(asOf)[i],
                      gap |-> Max({acc.gap, Labels(asOf)[i] - acc.last})],
              [last |-> RawLower(asOf), gap |-> Cadence],
              [i \in 1..DataSteps |-> i])
  IN  Max({walk.gap, asOf - walk.last})

\* The frame's watermark covers the observed sources, never the calendar.
FrameWatermark(series, run) ==
  IF run = NoFrame THEN series.watermark ELSE Max({series.watermark, run.watermark})

\* No source is later than "as of" or too old; few cells are missing; no gap is
\* too long.
FrameIsValid(series, run, asOf) ==
  LET marks == {series.watermark} \cup (IF run = NoFrame THEN {} ELSE {run.watermark})
  IN  /\ \A w \in marks : w <= asOf /\ asOf - w <= MaxInputAge
      /\ Cardinality({i \in 1..DataSteps : series.values[i] = 0}) <= MaxMissing
      /\ MaximumGap(series.values, asOf) <= MaxInputGap

\* A frame goes on the wire with its gap in seconds and within the cell limits.
FrameFitsWire(f) ==
  /\ MaximumGap(f.values, f.asOf) % Second = 0
  /\ f.asOf % Cadence = 0
  /\ DataSteps <= MaxCells

FrameOf(series, run, asOf) ==
  [asOf |-> asOf, values |-> series.values, run |-> run,
   watermark |-> FrameWatermark(series, run)]

-----------------------------------------------------------------------------
(* The result: its own structure, and its fit to the request.               *)

LatestUsable(f) == CHOOSE i \in 1..DataSteps :
                     f.values[i] # 0 /\ \A j \in (i + 1)..DataSteps : f.values[j] = 0

\* What a well-formed result is, whoever asked for it.
ResultIsWellFormed(r) ==
  /\ r.request.frame.watermark <= r.produced
  /\ r.status # "unavailable" => r.expires > r.produced
  /\ r.status = "fallback" => r.based <= r.request.frame.watermark

\* What a result must be for this request.
Correlates(q, r) == r.request = q

ExpiryFits(c, r) ==
  r.status # "unavailable" =>
    r.expires - r.produced <= (IF r.status = "fallback" THEN FallbackAge ELSE MaxOutputAge)

\* Persistence repeats the latest usable observation of the frame.
FallbackFits(c, q, r) ==
  r.status = "fallback" =>
    /\ c.fallback
    /\ r.based = Labels(q.frame.asOf)[LatestUsable(q.frame)]
    /\ r.value = q.frame.values[LatestUsable(q.frame)]

ProducedInTime(q, r) == r.produced >= q.submitted /\ r.produced <= q.submitted + Deadline

ResultFits(c, q, r) ==
  Correlates(q, r) /\ ProducedInTime(q, r) /\ ExpiryFits(c, r) /\ FallbackFits(c, q, r)

\* Derived data is taken while it is fresh and before the wall deadline.
Acceptable(q, r, at) ==
  /\ r.produced <= at
  /\ at <= q.submitted + Deadline
  /\ at < r.expires
-----------------------------------------------------------------------------
(* Calls.                                                                   *)

NoCallYet == [pc |-> "idle", asOf |-> 0, submitted |-> 0, series |-> NoFrame,
              run |-> NoFrame, frame |-> NoFrame, answer |-> NoFrame,
              outcome |-> "none", rows |-> <<>>, runs |-> {}, moved |-> 0, authentic |-> FALSE,
              accepted |-> 0]

DataInit ==
  /\ instant = FirstInstant
  /\ commission \in {c \in Commissions : Buildable(c)}
  /\ stored \in commission.histories /\ snapshot = {}
  /\ sampled = [time |-> 0, value |-> 0, quality |-> "bad"]
  /\ authority = TRUE /\ moves = 0
  /\ calls = [k \in Processees |-> NoCallYet]
  /\ asked = {} /\ auditTrail = {}

Holding == {k \in Processees : calls[k].pc \notin {"idle", "done"}}

HasPermitToSpare == Cardinality(Holding) <= Permits

\* try_acquire of the route's semaphore
HasPermit == Cardinality(Holding) < Permits

RequestOf(k) == [caller |-> k, submitted |-> calls[k].submitted, frame |-> calls[k].frame]

\* What the audit sink may do with one record within its second: store it,
\* refuse it, or store it after the caller has given up waiting.
Audits(k, record, written) ==
  \E fate \in {"stored", "refused", "late"} :
    /\ auditTrail' = IF fate = "refused" THEN auditTrail
                     ELSE auditTrail \cup {<<k, record>>}
    /\ written = (fate = "stored")

\* A call ends with its error, or with AuditUnavailable when that could not be
\* recorded; the permit goes with it.
EndsWith(k, record, error) ==
  \E written \in BOOLEAN :
    /\ Audits(k, record, written)
    /\ calls' = [calls EXCEPT ![k] = [NoCallYet EXCEPT !.pc = "done",
                   !.outcome = IF written THEN error ELSE "auditDown"]]

Outside == UNCHANGED <<instant, commission, stored, sampled, snapshot, authority, moves>>

\* A viewer may list tasks; an engineer or administrator may process.
MayProcess(role) == role # "viewer"

\* Admission: permission, an as-of time not in the future, a commissioned route,
\* alignment to the cadence, confirmation of remote egress; each refusal is
\* audited.  Then a permit, or a retryable refusal.
Admits(k) ==
  /\ calls[k].pc = "idle" /\ k \in commission.clients
  /\ instant + Deadline <= MaxInstant
  /\ \E asOf \in 0..MaxInstant, role \in {"viewer", "engineer"}, confirmed \in BOOLEAN :
       LET refused == \/ ~MayProcess(role)
                      \/ asOf > instant
                      \/ asOf % Cadence # 0
                      \/ commission.remote /\ ~commission.preapproved /\ ~confirmed
       IN  \/ refused /\ EndsWith(k, "rejected", "refused")
           \/ ~refused /\ ~HasPermit
              /\ EndsWith(k, "rejected", "busy")
           \/ /\ ~refused /\ HasPermit
              /\ calls' = [calls EXCEPT ![k].pc = "check", ![k].asOf = asOf,
                                        ![k].submitted = instant]
              /\ UNCHANGED auditTrail
  /\ Outside /\ UNCHANGED asked

\* The historian's settings still name the file we read.
ChecksAuthority(k) ==
  /\ calls[k].pc = "check"
  /\ IF authority
     THEN /\ calls' = [calls EXCEPT ![k].pc = "query", ![k].moved = moves]
          /\ UNCHANGED auditTrail
     ELSE EndsWith(k, "failed", "noHistory")
  /\ Outside /\ UNCHANGED asked

\* One transaction reads every stored feature.
Queries(k) ==
  LET c == calls[k] IN
  /\ c.pc = "query"
  /\ IF QueryFails(stored, c.asOf, commission)
     THEN EndsWith(k, "failed", "noHistory")
     ELSE /\ calls' = [calls EXCEPT ![k].pc = "recheck", ![k].rows = stored,
                         ![k].authentic = authority,
                         ![k].series = StoredSeries(stored, c.asOf, commission)]
          /\ UNCHANGED auditTrail
  /\ Outside /\ UNCHANGED asked

TrustsFirstCheck(k) ==
  /\ calls[k].pc = "recheck"
  /\ calls' = [calls EXCEPT ![k].pc = "live"]
  /\ UNCHANGED auditTrail
  /\ Outside /\ UNCHANGED asked

\* The settings are read again before the rows are used.
RechecksAuthority(k) ==
  /\ calls[k].pc = "recheck"
  /\ IF authority
     THEN /\ calls' = [calls EXCEPT ![k].pc = "live"]
          /\ UNCHANGED auditTrail
     ELSE EndsWith(k, "failed", "noHistory")
  /\ Outside /\ UNCHANGED asked

MergesLive(k) ==
  LET c == calls[k] IN
  /\ c.pc = "live"
  /\ calls' = [calls EXCEPT ![k].pc = "covariates",
                 ![k].series = MergeLiveTail(c.series, sampled, c.asOf, commission)]
  /\ Outside /\ UNCHANGED <<asked, auditTrail>>

\* The snapshot file is read whole; then the frame is checked and sealed.
Assembles(k) ==
  LET c == calls[k]
      needs == commission.covariates
      fails == needs /\ CovariateFails(snapshot, c.asOf)
      run == IF needs /\ ~fails THEN SelectRun(snapshot, c.asOf) ELSE NoFrame
  IN
  /\ c.pc = "covariates"
  /\ IF fails \/ ~FrameIsValid(c.series, run, c.asOf)
     THEN EndsWith(k, "failed", "noFrame")
     ELSE IF ~FrameFitsWire(FrameOf(c.series, run, c.asOf))
     THEN EndsWith(k, "rejected", "tooLarge")
     ELSE /\ calls' = [calls EXCEPT ![k].pc = "announce", ![k].runs = snapshot, ![k].series = NoFrame,
                         ![k].frame = FrameOf(c.series, run, c.asOf)]
          /\ UNCHANGED auditTrail
  /\ Outside /\ UNCHANGED asked

\* The attempt is recorded before the frame leaves the edge.
DataAnnounces(k) ==
  /\ calls[k].pc = "announce"
  /\ \E written \in BOOLEAN :
       /\ Audits(k, "attempted", written)
       /\ IF written
          THEN /\ calls' = [calls EXCEPT ![k].pc = "waiting", ![k].rows = <<>>, ![k].runs = {}]
               /\ asked' = asked \cup {RequestOf(k)}
          ELSE /\ calls' = [calls EXCEPT ![k].pc = "done", ![k].outcome = "auditDown"]
               /\ UNCHANGED asked
  /\ Outside

\* Anything a processor may send back: for any request it ever saw, produced
\* now or by a clock that runs ahead, with any lifetime or basis.
DataAnswers ==
  LET lives == {MaxOutputAge, MaxOutputAge + 1}
      base == [request : asked, produced : {instant, instant + 1}]
  IN  {[request |-> b.request, produced |-> b.produced, status |-> "produced",
        expires |-> b.produced + l, based |-> 0, value |-> 0] : b \in base, l \in lives}
      \cup
      {[request |-> q, produced |-> instant, status |-> "fallback",
        expires |-> instant + l, based |-> Labels(q.frame.asOf)[i], value |-> v] :
        q \in asked, l \in {FallbackAge, FallbackAge + 1}, i \in 1..DataSteps, v \in SampleValues}
      \cup
      {[request |-> q, produced |-> instant, status |-> "unavailable",
        expires |-> 0, based |-> 0, value |-> 0] : q \in asked}

\* The answer is decoded and checked; an unusable one is an audited error.
Receives(k) ==
  /\ calls[k].pc = "waiting"
  /\ \E r \in DataAnswers :
       IF ~ResultIsWellFormed(r) \/ ~ResultFits(commission, RequestOf(k), r)
       THEN \E written \in BOOLEAN :
              /\ Audits(k, "rejected", written)
              /\ calls' = [calls EXCEPT ![k].pc = "done", ![k].answer = r,
                             ![k].outcome = IF written THEN "badResult" ELSE "auditDown"]
       ELSE IF r.status = "unavailable"
       THEN EndsWith(k, "failed", "unavailable")
       ELSE /\ calls' = [calls EXCEPT ![k].pc = "accept", ![k].answer = r]
            /\ UNCHANGED auditTrail
  /\ Outside /\ UNCHANGED asked

\* The processor reports an error, or the transport does.
ProcessorFails(k) ==
  /\ calls[k].pc = "waiting"
  /\ EndsWith(k, "failed", "processorDown")
  /\ Outside /\ UNCHANGED asked

\* The clock is read again: the answer must still be fresh and in time.
DataAccepts(k) ==
  LET c == calls[k] IN
  /\ c.pc = "accept"
  /\ IF Acceptable(RequestOf(k), c.answer, instant)
     THEN /\ calls' = [calls EXCEPT ![k].pc = "record", ![k].accepted = instant]
          /\ UNCHANGED auditTrail
     ELSE EndsWith(k, "rejected", "late")
  /\ Outside /\ UNCHANGED asked

\* Success is recorded before the data is returned.
Returns(k) ==
  /\ calls[k].pc = "record"
  /\ \E written \in BOOLEAN :
       /\ Audits(k, "succeeded", written)
       /\ calls' = [calls EXCEPT ![k].pc = "done",
                      ![k].outcome = IF written THEN "data" ELSE "auditDown"]
  /\ Outside /\ UNCHANGED asked

TimesOutAssembling(k) ==
  /\ calls[k].pc \in {"check", "query", "recheck", "live", "covariates"}
  /\ instant >= calls[k].submitted + Deadline
  /\ EndsWith(k, "failed", "timeout")
  /\ Outside /\ UNCHANGED asked

\* The work deadline passes while the frame is assembled or the processor works.
TimesOut(k) ==
  /\ calls[k].pc \in {"check", "query", "recheck", "live", "covariates", "waiting"}
  /\ instant >= calls[k].submitted + Deadline
  /\ EndsWith(k, "failed", "timeout")
  /\ Outside /\ UNCHANGED asked

CallSteps(k) ==
  \/ Admits(k) \/ ChecksAuthority(k) \/ Queries(k) \/ RechecksAuthority(k)
  \/ MergesLive(k) \/ Assembles(k) \/ DataAnnounces(k) \/ Receives(k)
  \/ ProcessorFails(k) \/ DataAccepts(k) \/ Returns(k) \/ TimesOut(k)

-----------------------------------------------------------------------------
(* The world around a call, until the last call has ended.                  *)

Underway == \E k \in commission.clients : calls[k].pc # "done"

\* Inputs change while some call may still read them.
Reading == \E k \in commission.clients :
             calls[k].pc \in {"idle", "check", "query", "recheck", "live", "covariates"}

Passes ==
  /\ instant < MaxInstant /\ Underway
  /\ instant' = instant + 1
  /\ UNCHANGED <<commission, stored, sampled, snapshot, authority, moves, calls, asked, auditTrail>>

DeviceSamples ==
  /\ Reading
  /\ \E v \in SampleValues, q \in {"good", "bad"} :
       sampled' = [time |-> instant, value |-> v, quality |-> q]
  /\ UNCHANGED <<instant, commission, stored, snapshot, authority, moves, calls, asked, auditTrail>>

\* The historian stores the sample it saw, perhaps late, perhaps twice.
HistorianStores ==
  /\ Reading /\ Len(stored) < MaxRows /\ sampled.time > 0
  /\ stored' = Append(stored, [time |-> sampled.time, value |-> sampled.value])
  /\ UNCHANGED <<instant, commission, sampled, snapshot, authority, moves, calls, asked, auditTrail>>

\* A new forecast run is added to the snapshot file.
ForecastArrives ==
  /\ Reading /\ commission.covariates /\ Cardinality(snapshot) < MaxRuns
  /\ \E ahead \in {0, 1}, through \in {instant + Cadence, instant + 2 * Cadence} :
       snapshot' = snapshot \cup {[issued |-> instant, watermark |-> instant + ahead,
                                   through |-> through]}
  /\ UNCHANGED <<instant, commission, stored, sampled, authority, moves, calls, asked, auditTrail>>

\* The historian is pointed at another backend, or back.
SettingsMove ==
  /\ Reading /\ moves < MaxDataMoves
  /\ authority' = ~authority /\ moves' = moves + 1
  /\ UNCHANGED <<instant, commission, stored, sampled, snapshot, calls, asked, auditTrail>>

DataNext ==
  \/ Passes \/ DeviceSamples \/ HistorianStores \/ ForecastArrives \/ SettingsMove
  \/ \E k \in Processees : CallSteps(k)

DataSpec == DataInit /\ [][DataNext]_dataVars

\* A call is driven by its own task: every step it can take is taken.  No
\* fairness for the processor: it may never answer.
OwnSteps(k) ==
  \/ ChecksAuthority(k) \/ Queries(k) \/ RechecksAuthority(k) \/ MergesLive(k)
  \/ Assembles(k) \/ DataAnnounces(k) \/ DataAccepts(k) \/ Returns(k) \/ TimesOut(k)

DataFairness ==
  /\ WF_dataVars(Passes)
  /\ \A k \in Processees : WF_dataVars(OwnSteps(k))

-----------------------------------------------------------------------------
(* Properties.                                                              *)

DataTypeOK ==
  /\ instant \in FirstInstant..MaxInstant
  /\ commission \in Commissions
  /\ Len(stored) <= MaxRows
  /\ Cardinality(snapshot) <= MaxRuns
  /\ authority \in BOOLEAN /\ moves \in 0..MaxDataMoves
  /\ Cardinality(Holding) <= Permits
  /\ \A k \in Processees :
       calls[k].outcome \in {"none", "refused", "busy", "tooLarge", "noHistory", "noFrame", "auditDown",
                             "badResult", "unavailable", "processorDown", "late", "timeout",
                             "data"}
  /\ auditTrail \subseteq Processees \X {"rejected", "failed", "attempted", "succeeded"}

\* The reference: an interval's value is that of its latest row, or the mean of
\* its rows where the task says so, with a fitting live sample in its place.
IntervalHolds(f, rows, i, c) ==
  LET upper == Labels(f.asOf)[i]
      ids == {n \in DOMAIN rows : rows[n].time > upper - Cadence /\ rows[n].time <= upper}
      kept == {n \in ids : \A m \in ids : rows[m].time = rows[n].time => m <= n}
  IN  IF kept = {} THEN f.values[i] = 0
      ELSE IF c.aggregate = "mean"
      THEN f.values[i] = FoldSet(LAMBDA n, a : a + rows[n].value, 0, kept) \div Cardinality(kept)
      ELSE \E n \in kept : /\ \A m \in kept : rows[m].time <= rows[n].time
                           /\ f.values[i] = rows[n].value

\* A sealed frame says of every interval what the historian's rows of that
\* interval say, up to a live sample taken exactly at the frame's end, and its
\* covariates are those of the newest forecast issued by then: nothing later than
\* "as of" is in it, whatever was stored, sampled or forecast meanwhile.
FramesMatchSources ==
  \A k \in Processees : calls[k].pc = "announce" =>
    LET c == calls[k]
        f == c.frame
    IN
    /\ \A i \in 1..(DataSteps - 1) : IntervalHolds(f, c.rows, i, commission)
    /\ \/ IntervalHolds(f, c.rows, DataSteps, commission)
       \/ commission.live /\ commission.aggregate = "last" /\ f.watermark = c.asOf
    /\ f.watermark <= c.asOf
    /\ commission.covariates =>
         /\ f.run.issued <= f.asOf /\ f.run.watermark <= f.asOf
         /\ \A r \in c.runs : r.issued <= f.asOf => r.issued <= f.run.issued

\* A frame is sealed only from a file the historian was writing: settings that
\* moved once while the rows were read refuse the frame.
HistoryWasAuthoritative ==
  \A k \in Processees :
    calls[k].pc = "live" => calls[k].authentic \/ moves >= calls[k].moved + 2

\* Data a caller receives answers that caller's own frame, was fresh when it was
\* accepted, and left both records in the audit trail: the attempt before the
\* frame left the edge, and the success.
ReturnedDataIsSound ==
  \A k \in Processees : calls[k].outcome = "data" =>
    LET r == calls[k].answer IN
    /\ r.request = RequestOf(k)
    /\ calls[k].accepted < r.expires
    /\ calls[k].accepted <= calls[k].submitted + Deadline
    /\ r.status = "fallback" => r.value = calls[k].frame.values[LatestUsable(calls[k].frame)]
    /\ {<<k, "attempted">>, <<k, "succeeded">>} \subseteq auditTrail

\* A frame leaves the edge only after its attempt is in the audit trail.
EgressIsRecorded == \A q \in asked : <<q.caller, "attempted">> \in auditTrail

\* Every admitted call comes to an end: a processor that never answers and a
\* query that never returns are cut off by the deadline.
CallsEnd == \A k \in Processees : calls[k].pc = "check" ~> calls[k].pc = "done"

\* "An approved persistence forecast can be usable with degraded quality": a
\* persistence fallback based on the frame's latest usable observation, in time
\* and with the approved lifetime, is not refused as an invalid result.
FallbackIsUsable ==
  \A k \in Processees : calls[k].outcome = "badResult" =>
    LET r == calls[k].answer
        q == RequestOf(k)
    IN  ~(/\ commission.fallback
          /\ r.status = "fallback" /\ r.request = q
          /\ ProducedInTime(q, r)
          /\ r.expires = r.produced + FallbackAge
          /\ r.based = Labels(q.frame.asOf)[LatestUsable(q.frame)]
          /\ r.value = q.frame.values[LatestUsable(q.frame)])
=============================================================================
