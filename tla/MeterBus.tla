------------------------------ MODULE MeterBus ------------------------------
(***************************************************************************)
(* The two request-response adapters that share a serial line with their   *)
(* meters: DL/T 645 (dl645.rs) and Aether-485 (aether_485.rs).  A poll     *)
(* walks the configured points in order.  For each it writes a request,    *)
(* waits for a frame or a timeout, and retries up to retry_count times.    *)
(*                                                                         *)
(* The line is a queue of whole frames.  A meter answers a request in      *)
(* time, after the timeout, garbled, with an error frame, or never.        *)
(* Bytes are abstracted to frames; the BCD payload keeps its digits.       *)
(***************************************************************************)
EXTENDS Integers, Sequences, FiniteSets

CONSTANTS
  BusTargets,    \* number of points of the channel, polled in the order 1 .. BusTargets
  BusFormat,     \* DataFormat of each DL/T 645 point
  BusReading,    \* per adapter, what each meter register holds, in units of its last digit
  RetryCount,    \* retry_count of the channel parameters
  LateAdapters,  \* adapters whose meters may answer after the timeout
  MaxBusPolls,   \* bound: polls started
  MaxGarbled     \* bound: frames damaged on the line

VARIABLES
  bus,      \* the channel: its adapter, connection state and the health of its line
  busPoll,  \* the poll in progress: phase, point, attempt and what was collected
  busInput, \* frames that wait in the receive buffer
  owed,     \* requests the meters have seen and not answered
  busUse    \* polls and damaged frames so far

busVars == <<bus, busPoll, busInput, owed, busUse>>

BusAdapters == {"dl645", "aether485"}
BusPoints == 1 .. BusTargets

-----------------------------------------------------------------------------
(* Payloads.  A DL/T 645 register is sent as BCD digits, least significant  *)
(* first, two per byte; the sign of a power is the top bit of the last.     *)

Digits(format) == CASE format = "Energy" -> 8
                    [] format = "Current" -> 6
                    [] format = "Power" -> 6
                    [] format \in {"Voltage", "PowerFactor"} -> 4

Digit(n, k) == (n \div 10^k) % 10

\* The meter's own encoding of reading n.
Encoded(format, n) ==
  LET size == IF n < 0 THEN 0 - n ELSE n
  IN  [k \in 1 .. Digits(format) |->
         IF k = Digits(format) /\ n < 0 THEN Digit(size, k - 1) + 8 ELSE Digit(size, k - 1)]

Weighted(raw, from, to) ==
  LET sum[k \in from .. (to + 1)] == IF k > to THEN 0 ELSE raw[k] + 10 * sum[k + 1]
  IN  sum[from]

ParseEnergy(raw) == Weighted(raw, 1, 2) + 100 * Weighted(raw, 3, 8)
ParseVoltage(raw) == raw[1] + 10 * Weighted(raw, 2, 4)
ParseCurrent(raw) == Weighted(raw, 1, 3) + 1000 * Weighted(raw, 4, 6)

ParseSigned(raw, digits) ==
  LET top == IF raw[digits] >= 8 THEN raw[digits] - 8 ELSE raw[digits]
      value == Weighted([raw EXCEPT ![digits] = top], 1, digits)
  IN  IF raw[digits] >= 8 THEN 0 - value ELSE value

ParsePower(raw) == ParseSigned(raw, 6)
ParsePowerFactor(raw) == ParseSigned(raw, 4)

\* parse_bcd_data: a payload shorter than the format needs is an error.
Parseable(format, raw) == Len(raw) >= Digits(format)

ParseBcd(format, raw) ==
  CASE format = "Energy" -> ParseEnergy(raw)
    [] format = "Voltage" -> ParseVoltage(raw)
    [] format = "Current" -> ParseCurrent(raw)
    [] format = "Power" -> ParsePower(raw)
    [] format = "PowerFactor" -> ParsePowerFactor(raw)

-----------------------------------------------------------------------------
(* Frames.  An answer names the register it was read from (the echoed data  *)
(* identifier, the device id); neither adapter compares that name.          *)

PollReading(p) == BusReading[bus.adapter][p]

BusAnswer(p) ==
  [kind |-> "answer", of |-> p,
   raw |-> IF bus.adapter = "dl645" THEN Encoded(BusFormat[p], PollReading(p))
                                    ELSE <<PollReading(p) \div 256, PollReading(p) % 256>>]

BusFrame(kind, p) == [kind |-> kind, of |-> p, raw |-> <<>>]

\* decode_response, parse_response: framing, checksum and control code decide.
Decodes(frame) == frame.kind = "answer"

\* What the adapter makes of a decoded frame for point p.
Usable485(frame, p) == Decodes(frame)
Usable645(frame, p) == Decodes(frame) /\ Parseable(BusFormat[p], frame.raw)

ValueOf(frame, p) ==
  IF bus.adapter = "dl645" THEN ParseBcd(BusFormat[p], frame.raw)
                           ELSE 256 * frame.raw[1] + frame.raw[2]

-----------------------------------------------------------------------------
NoPoll == [phase |-> "idle", point |-> 0, attempt |-> 0, batch |-> <<>>, failures |-> {}]

BusInit ==
  /\ \E a \in BusAdapters, ok, echo \in BOOLEAN :
        /\ a = "dl645" => ~echo
        /\ a = "aether485" => ok
        /\ bus = [adapter |-> a, state |-> "Disconnected", addressOk |-> ok, echo |-> echo,
                  up |-> TRUE]
  /\ busPoll = NoPoll
  /\ busInput = <<>>
  /\ owed = {}
  /\ busUse = [polls |-> 0, garbled |-> 0]

BusOpen == bus.state = "Connected"

\* connect of Dl645Channel: the meter address is parsed before the transport opens.
Connect645 ==
  /\ bus.adapter = "dl645"
  /\ IF bus.addressOk /\ bus.up
     THEN bus' = [bus EXCEPT !.state = "Connected"]
     ELSE bus' = [bus EXCEPT !.state = "Error"]

\* connect of Aether485Channel.
Connect485 ==
  /\ bus.adapter = "aether485"
  /\ bus' = [bus EXCEPT !.state = IF bus.up THEN "Connected" ELSE "Error"]

BusConnects ==
  /\ busPoll.phase = "idle"
  /\ ~BusOpen
  /\ Connect645 \/ Connect485
  /\ busInput' = <<>>
  /\ owed' = {}
  /\ UNCHANGED <<busPoll, busUse>>

\* disconnect: the transport is taken and closed, with what it still held.
BusDisconnects ==
  /\ busPoll.phase = "idle"
  /\ BusOpen
  /\ bus' = [bus EXCEPT !.state = "Disconnected"]
  /\ busInput' = <<>>
  /\ owed' = {}
  /\ UNCHANGED <<busPoll, busUse>>

\* The cable or the remote end goes away or comes back.
LineFlips ==
  /\ bus' = [bus EXCEPT !.up = ~@]
  /\ UNCHANGED <<busPoll, busInput, owed, busUse>>

FirstPoint == [NoPoll EXCEPT !.phase = "send", !.point = 1]
AllFail == [NoPoll EXCEPT !.failures = BusPoints]

\* poll_once: without a transport, or a meter address, every point fails.
PollOnce645 ==
  /\ bus.adapter = "dl645"
  /\ busPoll' = IF BusOpen /\ bus.addressOk THEN FirstPoint ELSE AllFail

PollOnce485 ==
  /\ bus.adapter = "aether485"
  /\ busPoll' = IF BusOpen THEN FirstPoint ELSE AllFail

PollStarts ==
  /\ busPoll.phase = "idle"
  /\ busUse.polls < MaxBusPolls
  /\ busUse' = [busUse EXCEPT !.polls = @ + 1]
  /\ PollOnce645 \/ PollOnce485
  /\ UNCHANGED <<bus, busInput, owed>>

\* read_standard_points, poll_all_targets: the next point, or the end of the walk.
Advance(poll) ==
  IF poll.point < BusTargets
  THEN [poll EXCEPT !.phase = "send", !.point = @ + 1, !.attempt = 0]
  ELSE [poll EXCEPT !.phase = "idle"]

\* The retry loop of read_single_di and query_device after a failed attempt.
Retry ==
  IF busPoll.attempt < RetryCount
  THEN [busPoll EXCEPT !.phase = "send", !.attempt = @ + 1]
  ELSE Advance([busPoll EXCEPT !.failures = @ \cup {busPoll.point}])

\* Aether-485 drains stale bytes before it writes; DL/T 645 does not.
Drained == IF bus.adapter = "aether485" THEN <<>> ELSE busInput

\* transact up to the write: the request goes out, and on some transceivers comes back.
Sends ==
  /\ busPoll.phase = "send"
  /\ IF bus.up
     THEN /\ busPoll' = [busPoll EXCEPT !.phase = "wait"]
          /\ busInput' = IF bus.echo THEN Append(Drained, BusFrame("echo", busPoll.point)) ELSE Drained
          /\ owed' = {busPoll.point}
     ELSE /\ busPoll' = Retry
          /\ busInput' = Drained
          /\ UNCHANGED owed
  /\ UNCHANGED <<bus, busUse>>

\* A decoded frame is stored under the point that was asked for.
Collected(frame) ==
  Advance([busPoll EXCEPT !.batch = Append(@, [point |-> busPoll.point,
                                               value |-> ValueOf(frame, busPoll.point)])])

\* receive_frame: one read takes every byte that waits; the first frame is used and
\* the buffer is dropped with the rest.
Receives645 ==
  /\ bus.adapter = "dl645"
  /\ busPoll' = IF Usable645(Head(busInput), busPoll.point) THEN Collected(Head(busInput))
                                                            ELSE Retry
  /\ busInput' = <<>>

\* read_one_frame: one frame is taken, an echo is skipped, a damaged header leaves the
\* rest of its frame behind.
Receives485 ==
  /\ bus.adapter = "aether485"
  /\ LET frame == Head(busInput)
     IN  CASE frame.kind = "echo" /\ frame.of = busPoll.point ->
                /\ busInput' = Tail(busInput)
                /\ UNCHANGED busPoll
           [] frame.kind = "garbled" ->
                /\ busInput' = <<BusFrame("rest", frame.of)>> \o Tail(busInput)
                /\ busPoll' = Retry
           [] OTHER ->
                /\ busInput' = Tail(busInput)
                /\ busPoll' = IF Usable485(frame, busPoll.point) THEN Collected(frame) ELSE Retry

BusReceives ==
  /\ busPoll.phase = "wait"
  /\ busInput # <<>>
  /\ Receives645 \/ Receives485
  /\ UNCHANGED <<bus, owed, busUse>>

\* ReadTimeout, or end of stream when the line is down.
ReadEnds ==
  /\ busPoll.phase = "wait"
  /\ busInput = <<>>
  /\ busPoll' = Retry
  /\ UNCHANGED <<bus, busInput, owed, busUse>>

\* The meter's side: it answers what it owes, damaged or with an error frame at worst.
InTime(p) == busPoll.phase = "wait" /\ busPoll.point = p
Late(p) == busPoll.phase = "send" /\ bus.adapter \in LateAdapters

MeterAnswers ==
  /\ bus.up /\ BusOpen
  /\ \E p \in owed :
       /\ InTime(p) \/ Late(p)
       /\ owed' = owed \ {p}
       /\ \/ busInput' = Append(busInput, BusAnswer(p)) /\ UNCHANGED busUse
          \/ busInput' = Append(busInput, BusFrame("refused", p)) /\ UNCHANGED busUse
          \/ /\ busUse.garbled < MaxGarbled
             /\ busUse' = [busUse EXCEPT !.garbled = @ + 1]
             /\ busInput' = Append(busInput, BusFrame("garbled", p))
  /\ UNCHANGED <<bus, busPoll>>

BusNext ==
  \/ BusConnects \/ BusDisconnects \/ LineFlips
  \/ PollStarts \/ Sends \/ BusReceives \/ ReadEnds
  \/ MeterAnswers

BusSpec == BusInit /\ [][BusNext]_busVars

\* tokio drives the poll: a write completes or times out, a read returns or times out.
BusFairness == WF_busVars(Sends) /\ WF_busVars(BusReceives) /\ WF_busVars(ReadEnds)

-----------------------------------------------------------------------------
BusFrames ==
  [kind : {"answer", "refused", "garbled", "rest", "echo"}, of : BusPoints, raw : Seq(0 .. 255)]

\* Every variable holds a value of its kind.
BusTypeOK ==
  /\ bus \in [adapter : BusAdapters, state : {"Disconnected", "Connected", "Error"},
              addressOk : BOOLEAN, echo : BOOLEAN, up : BOOLEAN]
  /\ busPoll.phase \in {"idle", "send", "wait"}
  /\ busPoll.point \in 0 .. BusTargets
  /\ busPoll.attempt \in 0 .. RetryCount
  /\ busPoll.failures \subseteq BusPoints
  /\ busInput \in Seq(BusFrames)
  /\ owed \subseteq BusPoints
  /\ busUse \in [polls : 0 .. MaxBusPolls, garbled : 0 .. MaxGarbled]

\* Every collected value is the reading of the register its point stands for, whatever was
\* damaged, refused, echoed or answered after an earlier timeout (dl645.rs:80 "each DI code
\* maps to a fixed point_id").
ValuesAreOwn ==
  \A i \in 1 .. Len(busPoll.batch) :
    busPoll.batch[i].value = PollReading(busPoll.batch[i].point)

\* A started poll ends, even when the meter never answers.
PollEnds == (busPoll.phase # "idle") ~> (busPoll.phase = "idle")
=============================================================================
