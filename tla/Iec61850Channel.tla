--------------------------- MODULE Iec61850Channel ---------------------------
(***************************************************************************)
(* The IEC 61850 adapter (services/io/src/protocols/adapters/iec61850.rs   *)
(* with its transport and MMS layers): one TCP association over which the  *)
(* adapter sends one confirmed request at a time and takes the next        *)
(* confirmed answer as its answer, while unconfirmed reports arrive in     *)
(* between and are kept for the poll.  Connecting reads the control model  *)
(* of every control and enables the configured reports; a poll drains the  *)
(* reports, reads the points no report covers and converts both; a control *)
(* selects the point first when its model asks for it.                     *)
(*                                                                         *)
(* A value is modelled by the data attribute it is the value of, so a      *)
(* batch is a set of <<point, attribute>> pairs.  The device is external:  *)
(* it answers in the order it was asked, or late, and reports at any time. *)
(***************************************************************************)
EXTENDS Integers, Sequences, FiniteSets
LOCAL INSTANCE SequencesExt
LOCAL INSTANCE FiniteSetsExt

CONSTANTS
  IecPoints,       \* the polled points (telemetry and signal), in order
  IecControls,     \* the control points
  IecReports,      \* the configured reports: a sequence of dataset_members
  ServedNames,     \* for every report, the name the device knows it under
  DeviceModels,    \* the control model the device has for every control
  LateConnecting,  \* does an answer given up on while connecting still come, late
  MaxIecPolls, MaxIecConnects, MaxIecCommands, MaxIecReports,
  NoIecRequest

VARIABLES
  ied,             \* the adapter: link state, cached models, what runs
  tcp,             \* the association: requests, answers and reports in it
  iecBatch,           \* what the last poll returned
  selections,      \* the controls the device granted on this association
  operated,        \* the operates sent: <<control, model, granted>>
  iecUse           \* how much of each bound is used

iecVars == <<ied, tcp, iecBatch, selections, operated, iecUse>>

-----------------------------------------------------------------------------

\* The points some configured dataset names.  The set is fixed when the
\* adapter is built, whatever becomes of the subscriptions.
ReportSkipSet ==
  {p \in ToSet(IecPoints) : \E r \in DOMAIN IecReports : p \in ToSet(IecReports[r])}

NewChannel ==
  [link |-> "down", doing |-> "idle", todo |-> <<>>, asked |-> NoIecRequest,
   model |-> [c \in IecControls |-> 1], drained |-> <<>>, values |-> {},
   failed |-> {}]

ReadKinds == {"ctlModel", "read", "sbo"}

IecRequest(kind, of) == [kind |-> kind, of |-> of]

\* send_mms: the adapter asks and then waits for one confirmed answer.
Asks(ch, request) == [ch EXCEPT !.asked = request]

Sent(t, request) == [t EXCEPT !.asked = Append(@, request)]

\* go_disconnected: the framer goes, and with it whatever is in flight.
GoDisconnected(ch) == [ch EXCEPT !.link = "down", !.asked = NoIecRequest]

NoAssociation == [asked |-> <<>>, wire |-> <<>>, pending |-> <<>>, enabled |-> {}]

IecInit ==
  /\ ied = NewChannel
  /\ tcp = NoAssociation
  /\ iecBatch = {}
  /\ selections = {}
  /\ operated = {}
  /\ iecUse = [polls |-> 0, connects |-> 0, commands |-> 0, reports |-> 0]

-----------------------------------------------------------------------------
\* The device, seen through the association.

\* It answers the oldest request it has.  The device knows a report under one
\* name, grants or refuses a select, and knows every attribute it is asked for
\* or not.
Results(request) ==
  CASE request.kind = "enable" ->
         IF ServedNames[request.of] = "plain" THEN {"ok", "error"} ELSE {"notfound"}
    [] request.kind = "enable01" ->
         IF ServedNames[request.of] = "indexed" THEN {"ok"} ELSE {"notfound"}
    [] request.kind \in {"ctlModel", "gi"} -> {"ok"}
    [] OTHER -> {"ok", "error"}

DeviceAnswers ==
  /\ tcp.asked # <<>>
  /\ LET request == Head(tcp.asked) IN
     \E result \in Results(request) :
       /\ tcp' = [tcp EXCEPT !.asked = Tail(@),
                             !.wire = Append(@, [kind |-> request.kind, of |-> request.of,
                                                 result |-> result]),
                             !.enabled = IF request.kind \in {"enable", "enable01"} /\ result = "ok"
                                         THEN @ \union {request.of} ELSE @]
       /\ selections' = IF request.kind \in {"sbo", "sbow"} /\ result = "ok"
                        THEN selections \union {request.of} ELSE selections
  /\ UNCHANGED <<ied, iecBatch, operated, iecUse>>

\* An enabled report sends the values of some of its members.
DeviceReports ==
  /\ ied.link = "up"
  /\ iecUse.reports < MaxIecReports
  /\ \E r \in tcp.enabled :
     \E size \in DOMAIN IecReports[r] :
          tcp' = [tcp EXCEPT !.wire =
                    Append(@, [kind |-> "report", of |-> r, result |-> size])]
  /\ iecUse' = [iecUse EXCEPT !.reports = @ + 1]
  /\ UNCHANGED <<ied, iecBatch, selections, operated>>

-----------------------------------------------------------------------------
\* Receiving.

\* recv_mms: reports met before the answer are kept aside, the first confirmed
\* PDU is the answer.  The invoke id it carries is not compared.
Confirmed(t) == {k \in DOMAIN t.wire : t.wire[k].kind # "report"}

Arrived == Confirmed(tcp) # {}

FirstConfirmed(t) == CHOOSE k \in Confirmed(t) : \A j \in Confirmed(t) : k <= j

RecvMms(t) ==
  LET k == FirstConfirmed(t)
  IN  [t EXCEPT !.wire = SubSeq(@, k + 1, Len(@)),
                !.pending = @ \o SubSeq(t.wire, 1, k - 1)]

IecAnswer == tcp.wire[FirstConfirmed(tcp)]

\* parse_read_response and parse_write_response: an answer of the other service
\* does not parse.
Parses(request, pdu) == (request.kind \in ReadKinds) <=> (pdu.kind \in ReadKinds)

Unanswered == ~(Arrived /\ Parses(ied.asked, IecAnswer))

\* drain_socket: the kept reports and the ones at the head of the socket; a
\* confirmed PDU met there is discarded and ends the drain.
Drained61850(t) ==
  LET reports == IF Confirmed(t) = {} THEN t.wire
                 ELSE SubSeq(t.wire, 1, FirstConfirmed(t) - 1)
  IN  t.pending \o reports

AfterDrain(t) ==
  [t EXCEPT !.pending = <<>>,
            !.wire = IF Confirmed(t) = {} THEN <<>>
                     ELSE SubSeq(@, FirstConfirmed(t) + 1, Len(@))]

-----------------------------------------------------------------------------
\* Connecting: handshake, detect_ctrl_models, subscribe_reports.

\* The order in which the control models are read.
ControlOrder == CHOOSE s \in [1 .. Cardinality(IecControls) -> IecControls] :
                  \A i, j \in DOMAIN s : s[i] = s[j] => i = j

\* The next request of a connect, or idle when it is over.
Enables(ch, t, left) ==
  IF left = <<>>
  THEN <<[ch EXCEPT !.doing = "idle", !.todo = <<>>, !.asked = NoIecRequest], t>>
  ELSE LET request == IecRequest("enable", Head(left))
       IN  <<Asks([ch EXCEPT !.doing = "subscribe", !.todo = left], request), Sent(t, request)>>

ReportOrder == [r \in DOMAIN IecReports |-> r]

Detects(ch, t, left) ==
  IF left = <<>> THEN Enables(ch, t, ReportOrder)
  ELSE LET request == IecRequest("ctlModel", Head(left))
       IN  <<Asks([ch EXCEPT !.doing = "detect", !.todo = left], request), Sent(t, request)>>

IecConnects ==
  /\ ied.link # "up" /\ ied.doing = "idle"
  /\ iecUse.connects < MaxIecConnects
  /\ LET next == Detects([ied EXCEPT !.link = "up"], NoAssociation, ControlOrder)
     IN  ied' = next[1] /\ tcp' = next[2]
  /\ selections' = {}
  /\ iecUse' = [iecUse EXCEPT !.connects = @ + 1]
  /\ UNCHANGED <<iecBatch, operated>>

\* The TCP connect, the COTP or the MMS handshake fails or times out.
ConnectFails61850 ==
  /\ ied.link # "up" /\ ied.doing = "idle"
  /\ iecUse.connects < MaxIecConnects
  /\ ied' = [ied EXCEPT !.link = "error"]
  /\ iecUse' = [iecUse EXCEPT !.connects = @ + 1]
  /\ UNCHANGED <<tcp, iecBatch, selections, operated>>

\* A control model arrives.  A time-out or an answer that does not parse stops
\* the detection and leaves the remaining models as configured; the association
\* is kept.
DetectAnswered ==
  /\ ied.doing = "detect" /\ Arrived
  /\ LET c == Head(ied.todo)
         known == IF Parses(ied.asked, IecAnswer)
                  THEN [ied EXCEPT !.model[c] = DeviceModels[IecAnswer.of]] ELSE ied
         next == Detects(known, RecvMms(tcp),
                         IF Parses(ied.asked, IecAnswer) THEN Tail(ied.todo) ELSE <<>>)
     IN  ied' = next[1] /\ tcp' = next[2]
  /\ UNCHANGED <<iecBatch, selections, operated, iecUse>>

\* A read that times out while connecting: its answer comes late, or never.
GivenUp(t) == IF LateConnecting THEN t ELSE [t EXCEPT !.asked = <<>>]

DetectTimesOut ==
  /\ ied.doing = "detect" /\ ~Arrived
  /\ LET next == Detects(ied, GivenUp(tcp), <<>>) IN ied' = next[1] /\ tcp' = next[2]
  /\ UNCHANGED <<iecBatch, selections, operated, iecUse>>

\* try_rcb_write_bool and the rest of subscribe_reports: the configured name,
\* then the indexed one, then the general interrogation.  A failure skips the
\* report and keeps the association.
Subscribed(ch, t, result) ==
  LET asks(kind) == LET request == IecRequest(kind, Head(ch.todo))
                    IN  <<Asks(ch, request), Sent(t, request)>>
  IN  CASE ch.asked.kind = "enable" /\ result = "notfound" -> asks("enable01")
        [] ch.asked.kind \in {"enable", "enable01"} /\ result = "ok" -> asks("gi")
        [] OTHER -> Enables(ch, t, Tail(ch.todo))

SubscribeAnswered ==
  /\ ied.doing = "subscribe" /\ Arrived
  /\ LET result == IF Parses(ied.asked, IecAnswer) THEN IecAnswer.result ELSE "error"
         next == Subscribed(ied, RecvMms(tcp), result)
     IN  ied' = next[1] /\ tcp' = next[2]
  /\ UNCHANGED <<iecBatch, selections, operated, iecUse>>

SubscribeTimesOut ==
  /\ ied.doing = "subscribe" /\ ~Arrived
  /\ LET next == Subscribed(ied, GivenUp(tcp), "error") IN ied' = next[1] /\ tcp' = next[2]
  /\ UNCHANGED <<iecBatch, selections, operated, iecUse>>

IecDisconnects ==
  /\ ied.link = "up" /\ ied.doing = "idle"
  /\ ied' = GoDisconnected(ied)
  /\ tcp' = NoAssociation
  /\ UNCHANGED <<iecBatch, selections, operated, iecUse>>

-----------------------------------------------------------------------------
\* poll_once.

\* process_report_pdus: the element at index k of any report is the member at
\* index k of every configured dataset.
ProcessReportPdus(reports) ==
  UNION {{<<IecReports[r][k], IecReports[reports[n].of][k]>> :
            k \in DOMAIN IecReports[r] \intersect (1 .. reports[n].result)} :
          n \in DOMAIN reports, r \in DOMAIN IecReports}

\* Phases 3 and 4: what was kept during the reads joins what was drained.
PollFinishes(ch, t) ==
  LET kept == IF ch.link = "up" /\ IecReports # <<>> THEN t.pending ELSE <<>>
  IN  /\ iecBatch' = ch.values \union ProcessReportPdus(ch.drained \o kept)
      /\ ied' = [ch EXCEPT !.doing = "idle", !.todo = <<>>, !.asked = NoIecRequest,
                           !.drained = <<>>, !.values = {}, !.failed = {}]
      /\ tcp' = IF ch.link = "up" /\ IecReports # <<>>
                THEN [t EXCEPT !.pending = <<>>] ELSE t

\* The next point to read.  A point in the skip set is passed over.
Unskipped == SelectSeq(IecPoints, LAMBDA p : p \notin ReportSkipSet)

PollReads(ch, t, left) ==
  IF left = <<>> THEN PollFinishes(ch, t)
  ELSE LET request == IecRequest("read", Head(left))
       IN  /\ ied' = Asks([ch EXCEPT !.doing = "poll", !.todo = left], request)
           /\ tcp' = Sent(t, request)
           /\ UNCHANGED iecBatch

PollBegins ==
  /\ ied.link = "up" /\ ied.doing = "idle"
  /\ iecUse.polls < MaxIecPolls
  /\ IF IecReports = <<>> THEN PollReads(ied, tcp, Unskipped)
     ELSE PollReads([ied EXCEPT !.drained = Drained61850(tcp)], AfterDrain(tcp), Unskipped)
  /\ iecUse' = [iecUse EXCEPT !.polls = @ + 1]
  /\ UNCHANGED <<selections, operated>>

\* A value, or a data access error, which fails the point and goes on.
PollAnswered ==
  /\ ied.doing = "poll" /\ Arrived
  /\ Parses(ied.asked, IecAnswer)
  /\ LET p == Head(ied.todo)
         read == IF IecAnswer.result = "ok"
                 THEN [ied EXCEPT !.values = @ \union {<<p, IecAnswer.of>>}]
                 ELSE [ied EXCEPT !.failed = @ \union {p}]
     IN  PollReads(read, RecvMms(tcp), Tail(ied.todo))
  /\ UNCHANGED <<selections, operated, iecUse>>

\* A time-out, a broken association or an answer that does not parse: the
\* association goes, the remaining points are not read.
PollGoesOn ==
  /\ ied.doing = "poll" /\ Unanswered
  /\ PollReads([ied EXCEPT !.failed = @ \union {Head(ied.todo)}], tcp, Tail(ied.todo))
  /\ UNCHANGED <<selections, operated, iecUse>>

PollBreaks ==
  /\ ied.doing = "poll" /\ Unanswered
  /\ PollFinishes(GoDisconnected([ied EXCEPT !.failed = @ \union {Head(ied.todo)}]),
                  NoAssociation)
  /\ UNCHANGED <<selections, operated, iecUse>>

-----------------------------------------------------------------------------
\* write_control and write_adjustment.

\* Operating sends the Oper structure; the ghost records whether the device
\* had granted the selection the cached model asks for.
Operates(ch, t, c) ==
  LET request == IecRequest("operate", c)
  IN  /\ ied' = Asks([ch EXCEPT !.doing = "operate", !.todo = <<c>>], request)
      /\ tcp' = Sent(t, request)
      /\ operated' = operated \union {<<c, ch.model[c], c \in selections>>}

ControlBegins ==
  /\ ied.link = "up" /\ ied.doing = "idle"
  /\ iecUse.commands < MaxIecCommands
  /\ \E c \in IecControls :
       CASE ied.model[c] = 2 ->
              /\ ied' = Asks([ied EXCEPT !.doing = "select", !.todo = <<c>>], IecRequest("sbo", c))
              /\ tcp' = Sent(tcp, IecRequest("sbo", c))
              /\ UNCHANGED operated
         [] ied.model[c] = 4 ->
              /\ ied' = Asks([ied EXCEPT !.doing = "select", !.todo = <<c>>], IecRequest("sbow", c))
              /\ tcp' = Sent(tcp, IecRequest("sbow", c))
              /\ UNCHANGED operated
         [] OTHER -> Operates(ied, tcp, c)
  /\ iecUse' = [iecUse EXCEPT !.commands = @ + 1]
  /\ UNCHANGED <<iecBatch, selections>>

WriteEnds(ch, t) ==
  /\ ied' = [ch EXCEPT !.doing = "idle", !.todo = <<>>, !.asked = NoIecRequest]
  /\ tcp' = t

WriteBreaks ==
  /\ WriteEnds(GoDisconnected(ied), NoAssociation)
  /\ UNCHANGED <<iecBatch, selections, operated, iecUse>>

\* A refused or unreadable select of model 2 leaves the command out and keeps
\* the association; a refused select of model 4 drops it.
SelectAnsweredAnyhow ==
  /\ ied.doing = "select" /\ Arrived
  /\ IF Parses(ied.asked, IecAnswer)
     THEN Operates(ied, RecvMms(tcp), Head(ied.todo)) /\ UNCHANGED <<iecBatch, selections, iecUse>>
     ELSE WriteBreaks

SelectAnswered ==
  /\ ied.doing = "select" /\ Arrived
  /\ CASE Parses(ied.asked, IecAnswer) /\ IecAnswer.result = "ok" ->
            /\ Operates(ied, RecvMms(tcp), Head(ied.todo))
            /\ UNCHANGED <<iecBatch, selections, iecUse>>
       [] ied.asked.kind = "sbo" /\ ~(Parses(ied.asked, IecAnswer) /\ IecAnswer.result = "ok") ->
            /\ WriteEnds(ied, RecvMms(tcp))
            /\ UNCHANGED <<iecBatch, selections, operated, iecUse>>
       [] OTHER -> WriteBreaks

OperateAnswered ==
  /\ ied.doing \in {"operate", "adjust"} /\ Arrived
  /\ IF Parses(ied.asked, IecAnswer) /\ IecAnswer.result = "ok"
     THEN /\ WriteEnds(ied, RecvMms(tcp))
          /\ UNCHANGED <<iecBatch, selections, operated, iecUse>>
     ELSE WriteBreaks

WriteTimesOut ==
  /\ ied.doing \in {"select", "operate", "adjust"} /\ ~Arrived
  /\ WriteBreaks

\* A set-point is one write, with no selection.
AdjustmentBegins ==
  /\ ied.link = "up" /\ ied.doing = "idle"
  /\ iecUse.commands < MaxIecCommands
  /\ ied' = Asks([ied EXCEPT !.doing = "adjust", !.todo = <<>>], IecRequest("adjust", NoIecRequest))
  /\ tcp' = Sent(tcp, IecRequest("adjust", NoIecRequest))
  /\ iecUse' = [iecUse EXCEPT !.commands = @ + 1]
  /\ UNCHANGED <<iecBatch, selections, operated>>

IecNext ==
  \/ DeviceAnswers \/ DeviceReports
  \/ IecConnects \/ ConnectFails61850 \/ IecDisconnects
  \/ DetectAnswered \/ DetectTimesOut \/ SubscribeAnswered \/ SubscribeTimesOut
  \/ PollBegins \/ PollAnswered \/ PollBreaks
  \/ ControlBegins \/ SelectAnswered \/ OperateAnswered \/ WriteTimesOut \/ AdjustmentBegins

IecSpec == IecInit /\ [][IecNext]_iecVars

-----------------------------------------------------------------------------

\* The types of the adapter's state.
IecTypeOK ==
  /\ ied.link \in {"down", "up", "error"}
  /\ ied.doing \in {"idle", "detect", "subscribe", "poll", "select", "operate", "adjust"}
  /\ (ied.doing = "idle") <=> (ied.asked = NoIecRequest)
  /\ ied.doing # "idle" => ied.link = "up"
  /\ ied.model \in [IecControls -> 1 .. 4]
  /\ iecBatch \subseteq ToSet(IecPoints) \X ToSet(IecPoints)
  /\ selections \subseteq IecControls

\* Every value a poll returns for a point is a value of the attribute the point
\* is configured with, however many requests timed out and whatever reports came
\* in between: answers are matched to requests by order alone (read_variable,
\* process_report_pdus).
ValuesAreOfThePoint == \A value \in iecBatch \union ied.values : value[1] = value[2]

\* A control whose cached model asks for a selection is operated only after the
\* device granted one on the same association (write_control).
OperatesWereSelected == \A o \in operated : o[2] \in {2, 4} => o[3]

---------------------------------------------------------------------------
(***************************************************************************)
(* The MMS encoding of the IEC 61850 adapter                               *)
(* (services/io/src/protocols/adapters/iec61850/mms.rs and transport.rs):  *)
(* nested tag-length-value structures whose lengths are computed before    *)
(* the bytes are written, the TPKT/COTP/session/presentation wrapping of   *)
(* every PDU, and the parser of information reports, whose optional fields *)
(* are announced by a bit string.                                          *)
(*                                                                         *)
(* Bytes are numbers; the characters of a name are all the same byte, so a *)
(* name is its length.  A report is a sequence of items, one per field.    *)
(***************************************************************************)

CONSTANTS
  NameLengths,    \* the lengths of domain and item names tried
  MaxNames,       \* the longest domain and item together
  Integers61850,  \* the integers a device may send
  DatasetSize     \* members of a reported dataset

VARIABLES
  message,        \* what is to be sent or parsed
  wireBytes,      \* its encoding
  understood      \* what the other side makes of it

frameVars == <<message, wireBytes, understood>>

MmsNothing == [ok |-> FALSE, rest |-> <<>>, content |-> <<>>]

-----------------------------------------------------------------------------
\* BER lengths and tag-length-value structures.

PushBerLen(n) ==
  IF n < 128 THEN <<n>>
  ELSE IF n < 256 THEN <<129, n>> ELSE <<130, (n \div 256) % 256, n % 256>>

BerLenSize(n) == IF n < 128 THEN 1 ELSE IF n < 256 THEN 2 ELSE 3

\* The length and the size of its own encoding; a longer form is refused.
ParseBerLen(buf) ==
  CASE buf # <<>> /\ buf[1] < 128 -> <<buf[1], 1>>
    [] Len(buf) >= 2 /\ buf[1] = 129 -> <<buf[2], 2>>
    [] Len(buf) >= 3 /\ buf[1] = 130 -> <<buf[2] * 256 + buf[3], 3>>
    [] OTHER -> <<0, 0>>

ParseTlv(buf, tag) ==
  IF buf = <<>> THEN MmsNothing
  ELSE LET length == ParseBerLen(Tail(buf))
           end == 1 + length[2] + length[1]
       IN  IF buf[1] # tag \/ length[2] = 0 \/ end > Len(buf) THEN MmsNothing
           ELSE [ok |-> TRUE, rest |-> SubSeq(buf, end + 1, Len(buf)),
                 content |-> SubSeq(buf, 2 + length[2], end)]

Tlv(tag, declared, content) == <<tag>> \o PushBerLen(declared) \o content

Filled(n) == [k \in 1 .. n |-> 120]

\* A visible string: its length is one byte, whatever it is.
VisibleString(n) == <<26, n % 256>> \o Filled(n)

-----------------------------------------------------------------------------
\* Requests.  Every length is that of its content with a two-byte header for
\* each structure inside.

NamedVariable(d, i) ==
  LET names == 2 + d + 2 + i
  IN  Tlv(48, 2 + (2 + names),
          Tlv(160, 2 + names, Tlv(161, names, VisibleString(d) \o VisibleString(i))))

BuildReadRequest(invoke, d, i) ==
  LET varspec == 2 + (2 + (2 + (2 + d + 2 + i)))
      read == 2 + (2 + varspec)
  IN  Tlv(160, 3 + 2 + read,
          <<2, 1, invoke>>
          \o Tlv(164, read, Tlv(161, 2 + varspec, Tlv(160, varspec, NamedVariable(d, i)))))

BuildWriteRequest(invoke, d, i, data) ==
  LET list == 2 + (2 + (2 + (2 + d + 2 + i)))
      write == (2 + list) + (2 + Len(data))
  IN  Tlv(160, 3 + 2 + write,
          <<2, 1, invoke>>
          \o Tlv(165, write, Tlv(160, list, NamedVariable(d, i)) \o Tlv(160, Len(data), data)))

\* A boolean attribute of a report control block is written as it is; a
\* control writes the Oper structure: value, origin, number, time, test, check.
SimpleBool(value) == <<131, 1, value>>

EncodeOper(value, number) ==
  LET origin == <<133, 1, 3, 137, 0>>
      time == Filled(8)
      size == Len(value) + (2 + Len(origin)) + 3 + (2 + 8) + 3 + 4
  IN  Tlv(162, size, value \o Tlv(162, Len(origin), origin) \o <<134, 1, number>>
                     \o <<145, 8>> \o time \o <<131, 1, 0>> \o <<132, 2, 6, 0>>)

\* A set-point is a structure of one floating-point number inside the Oper.
SetMag == LET float == <<135, 5, 8>> \o Filled(4) IN Tlv(162, Len(float), float)

-----------------------------------------------------------------------------
\* Framing: TPKT, COTP data, session data and presentation around every PDU.

PresDataHeader(n) ==
  LET seq == 3 + BerLenSize(n) + 1 + n
      fed == 1 + BerLenSize(seq) + seq
  IN  <<97>> \o PushBerLen(fed) \o <<48>> \o PushBerLen(seq) \o <<2, 1, 3>>
      \o <<160>> \o PushBerLen(n)

WrapDataPdu(pdu) ==
  LET payload == <<2, 240, 128>> \o <<1, 0, 1, 0>> \o PresDataHeader(Len(pdu)) \o pdu
      total == 4 + Len(payload)
  IN  <<3, 0, (total \div 256) % 256, total % 256>> \o payload

\* recv_tpkt: version, a length the frame agrees with, and the payload.
RecvTpkt(bytes) ==
  IF bytes[1] = 3 /\ bytes[3] * 256 + bytes[4] = Len(bytes)
  THEN SubSeq(bytes, 5, Len(bytes)) ELSE <<>>

StripPrefix(buf, prefix) ==
  IF Len(buf) >= Len(prefix) /\ SubSeq(buf, 1, Len(prefix)) = prefix
  THEN SubSeq(buf, Len(prefix) + 1, Len(buf)) ELSE <<>>

UnwrapDataPdu(payload) ==
  LET data == StripPrefix(StripPrefix(payload, <<2, 240, 128>>), <<1, 0, 1, 0>>)
      list == ParseTlv(ParseTlv(data, 97).content, 48).content
  IN  ParseTlv(StripPrefix(list, <<2, 1, 3>>), 160).content

-----------------------------------------------------------------------------
\* Answers: the device's encoding of an integer (external) and how it is read.

BytesOf(n) ==
  IF n \in -128 .. 127 THEN <<n % 256>> ELSE <<(n \div 256) % 256, n % 256>>

ReadResponse(invoke, n) ==
  LET result == Tlv(133, Len(BytesOf(n)), BytesOf(n))
      list == Tlv(161, Len(result), result)
      read == Tlv(164, Len(list), list)
  IN  Tlv(161, 3 + Len(read), <<2, 1, invoke>> \o read)

\* The sign of the first byte fills the number from the left.
ParseData(tag, val) ==
  CASE tag = 133 /\ val # <<>> ->
         FoldLeft(LAMBDA n, b : n * 256 + b, IF val[1] >= 128 THEN -1 ELSE 0, val)
    [] tag = 134 -> FoldLeft(LAMBDA n, b : n * 256 + b, 0, val)
    [] OTHER -> 0

ParseReadResponse(pdu) ==
  LET body == ParseTlv(pdu, 161).content
      id == ParseTlv(body, 2)
      result == ParseTlv(ParseTlv(id.rest, 164).content, 161).content
      length == ParseBerLen(Tail(result))
  IN  <<id.content[1],
        ParseData(result[1], SubSeq(result, 2 + length[2], 1 + length[2] + length[1]))>>

-----------------------------------------------------------------------------
\* Reports.

\* The order in which a device sends the fields its options announce (external).
ReportItems(options, included) ==
  LET optional(bit, item) == IF bit \in options THEN <<item>> ELSE <<>>
      each(kind) == [k \in 1 .. Cardinality(included) |->
                       <<kind, SetToSortSeq(included, LAMBDA a, b : a < b)[k]>>]
  IN  <<<<"rptId", 0>>, <<"optFlds", options>>>>
      \o optional(1, <<"seqNum", 0>>) \o optional(2, <<"time", 0>>)
      \o optional(4, <<"dataSet", 0>>) \o optional(6, <<"bufOvfl", 0>>)
      \o optional(7, <<"entryId", 0>>) \o optional(8, <<"confRev", 0>>)
      \o (IF 9 \in options THEN <<<<"subSeq", 0>>, <<"more", 0>>>> ELSE <<>>)
      \o <<<<"inclusion", included>>>>
      \o (IF 5 \in options THEN each("reference") ELSE <<>>)
      \o each("value")
      \o (IF 3 \in options THEN each("reason") ELSE <<>>)

\* parse_report: skips what the options announce, reads the inclusion bits,
\* skips a reference per element and takes a value per element.
ParseReport(items) ==
  LET options == items[2][2]
      skipped == Cardinality(options \intersect {1, 2, 4, 6, 7, 8}) + (IF 9 \in options THEN 2 ELSE 0)
      inclusion == items[3 + skipped][2]
      indices == SetToSortSeq(inclusion, LAMBDA a, b : a < b)
      references == IF 5 \in options THEN Len(indices) ELSE 0
  IN  [k \in DOMAIN indices |-> <<indices[k], items[3 + skipped + references + k]>>]

-----------------------------------------------------------------------------

Payload(m) ==
  CASE m.kind = "read" -> BuildReadRequest(7, m.d, m.i)
    [] m.kind = "rcb" -> BuildWriteRequest(7, m.d, m.i, SimpleBool(1))
    [] m.kind = "oper" -> BuildWriteRequest(7, m.d, m.i, EncodeOper(SimpleBool(1), 7))
    [] m.kind = "setMag" -> BuildWriteRequest(7, m.d, m.i, EncodeOper(SetMag, 7))
    [] m.kind = "answer" -> ReadResponse(7, m.d)

\* What a receiver that parses every structure finds of a request: the names,
\* nothing left over, and for a write the data.
Variable(list) ==
  LET names == ParseTlv(ParseTlv(ParseTlv(list, 48).content, 160).content, 161)
      domain == ParseTlv(names.content, 26)
      item == ParseTlv(domain.rest, 26)
  IN  [ok |-> names.ok /\ domain.ok /\ item.ok /\ item.rest = <<>>,
       names |-> <<Len(domain.content), Len(item.content)>>]

Understands(pdu) ==
  LET body == ParseTlv(pdu, 160)
      id == ParseTlv(body.content, 2)
      read == ParseTlv(id.rest, 164)
      write == ParseTlv(id.rest, 165)
      list == ParseTlv(write.content, 160)
      data == ParseTlv(list.rest, 160)
  IN  IF read.ok
      THEN [names |-> Variable(ParseTlv(ParseTlv(read.content, 161).content, 160).content),
            data |-> <<>>, left |-> body.rest \o read.rest]
      ELSE [names |-> Variable(list.content), data |-> data.content,
            left |-> body.rest \o write.rest \o data.rest]

FrameMessages ==
  [kind : {"read", "rcb", "oper", "setMag"}, d : NameLengths, i : NameLengths]
  \union [kind : {"answer"}, d : Integers61850, i : {0}]

FramesInit ==
  /\ message \in {m \in FrameMessages : m.kind = "answer" \/ m.d + m.i <= MaxNames}
                 \union [kind : {"report"}, d : SUBSET (1 .. 9), i : SUBSET (1 .. DatasetSize)]
  /\ wireBytes = <<>>
  /\ understood = <<>>

SendMms ==
  /\ wireBytes = <<>> /\ message.kind # "report"
  /\ wireBytes' = WrapDataPdu(Payload(message))
  /\ UNCHANGED <<message, understood>>

RecvMmsRaw ==
  /\ wireBytes # <<>> /\ understood = <<>> /\ message.kind # "report"
  /\ LET pdu == UnwrapDataPdu(RecvTpkt(wireBytes))
     IN  understood' = <<pdu, IF message.kind = "answer" THEN ParseReadResponse(pdu)
                              ELSE Understands(pdu)>>
  /\ UNCHANGED <<message, wireBytes>>

SendReport ==
  /\ wireBytes = <<>> /\ message.kind = "report"
  /\ wireBytes' = ReportItems(message.d, message.i)
  /\ UNCHANGED <<message, understood>>

RecvReport ==
  /\ wireBytes # <<>> /\ understood = <<>> /\ message.kind = "report"
  /\ understood' = <<ParseReport(wireBytes)>>
  /\ UNCHANGED <<message, wireBytes>>

FramesNext == SendMms \/ RecvMmsRaw \/ SendReport \/ RecvReport

FramesSpec == FramesInit /\ [][FramesNext]_frameVars

-----------------------------------------------------------------------------

DataOf(m) ==
  CASE m.kind = "read" -> <<>>
    [] m.kind = "rcb" -> SimpleBool(1)
    [] m.kind = "oper" -> EncodeOper(SimpleBool(1), 7)
    [] m.kind = "setMag" -> EncodeOper(SetMag, 7)

\* A receiver that follows every length finds in a request the names and the
\* data the adapter put there and nothing else, for names up to MaxNames bytes:
\* every length written by build_read_request, build_write_request, encode_oper
\* and the framing is the length of what follows it.
RequestsAreUnderstood ==
  (understood # <<>> /\ message.kind \notin {"answer", "report"}) =>
     /\ understood[1] = Payload(message)
     /\ understood[2].names = [ok |-> TRUE, names |-> <<message.d, message.i>>]
     /\ understood[2].data = DataOf(message)
     /\ understood[2].left = <<>>

\* An answer is read back as the integer the device sent, with its sign, and a
\* report gives every included element the value the device sent for it,
\* whichever optional fields are in between (parse_read_response, parse_report).
AnswersAreUnderstood ==
  /\ (understood # <<>> /\ message.kind = "answer") => understood[2] = <<7, message.d>>
  /\ (understood # <<>> /\ message.kind = "report") =>
       /\ {understood[1][k][1] : k \in DOMAIN understood[1]} = message.i
       /\ \A k \in DOMAIN understood[1] :
            understood[1][k][2] = <<"value", understood[1][k][1]>>
=============================================================================
