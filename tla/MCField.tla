------------------------------- MODULE MCField -------------------------------
\* The device side of aether-io: channel reconciliation, the task of a
\* channel, point edits and the protocol adapters. One component moves in a
\* behaviour, the others rest in their initial state.
EXTENDS ChannelReconciliation, ChannelTask, PointTopology, MeterBus, ModbusAdapter,
        Iec61850Channel

VARIABLE part   \* the component that moves in this behaviour

MCKeys == {<<"T", 1>>, <<"T", 2>>, <<"C", 1>>}
MCFormat == <<"Power", "Energy", "Voltage">>
MCReading == [dl645 |-> <<-213040, 10342, 2301>>, aether485 |-> <<513, 255, 256>>]
P(i, g, r, w) == [id |-> i, group |-> g, reg |-> r, width |-> w]
SpreadPoints == {P(1, 3, 0, 1), P(2, 3, 2, 1), P(3, 3, 5, 1)}
MCPointSets == {SpreadPoints} \cup
  {{P(1, 3, r, w), P(2, 3, s, v), P(3, g, t, 1)} :
     r \in 0..1, w \in {1, 2}, s \in {1, 2, 4}, v \in {1, 2}, g \in {3, 1}, t \in {0, 5}}
MCServed == <<"a", "b", "c">>
MCReports == << <<"c">> >>
MCNames == <<"indexed">>
MCModels == [x |-> 2, y |-> 4]
MCInts == {-32768, -129, -128, -1, 0, 1, 127, 128, 255, 256, 32767}

EarlyRows == \A c \in Channels : IF row[c] = Gone THEN TRUE ELSE row[c].rev < MaxReconcileRevision

Parts == {"reconcile", "task", "points", "meters", "modbus", "modbus writes", "substation",
          "frames"}

ModelInit ==
  /\ part \in Parts
  /\ ReconciliationInit
  /\ TaskInit
  /\ PointTopologyInit
  /\ BusInit
  /\ part # "meters" => bus.adapter = "dl645" /\ bus.addressOk /\ ~bus.echo
  /\ part \notin {"modbus", "modbus writes"} => config = SpreadPoints
  /\ ModbusInit
  /\ part = "modbus writes" => config = SpreadPoints
  /\ IecInit
  /\ FramesInit
  /\ part # "frames" => message.kind = "answer" /\ message.d = 0

ReconcileMoves ==
  /\ part = "reconcile"
  /\ ReconciliationNext
  /\ (reconcileFaults' = 0 \/ EarlyRows')
  /\ UNCHANGED <<taskVars, pointVars, busVars, modbusVars, iecVars, frameVars>>

TaskMoves ==
  /\ part = "task"
  /\ TaskNext
  /\ UNCHANGED <<reconciliationVars, pointVars, busVars, modbusVars, iecVars, frameVars>>

PointsMoves ==
  /\ part = "points"
  /\ PointTopologyNext
  /\ (channel'.rev = MaxPointRevision => UNCHANGED <<routed, template, mutationCommand>>)
  /\ UNCHANGED <<reconciliationVars, taskVars, busVars, modbusVars, iecVars, frameVars>>

MetersMoves ==
  /\ part = "meters"
  /\ BusNext
  /\ UNCHANGED <<reconciliationVars, taskVars, pointVars, modbusVars, iecVars, frameVars>>

ModbusMoves ==
  /\ part = "modbus"
  /\ (ModbusPolling \/ ModbusLinking)
  /\ UNCHANGED <<reconciliationVars, taskVars, pointVars, busVars, iecVars, frameVars>>

ModbusWritesMoves ==
  /\ part = "modbus writes"
  /\ (ModbusWriting \/ ModbusConnects \/ ModbusDisconnects)
  /\ UNCHANGED <<reconciliationVars, taskVars, pointVars, busVars, iecVars, frameVars>>

SubstationMoves ==
  /\ part = "substation"
  /\ IecNext
  /\ UNCHANGED <<reconciliationVars, taskVars, pointVars, busVars, modbusVars, frameVars>>

FramesMoves ==
  /\ part = "frames"
  /\ FramesNext
  /\ UNCHANGED <<reconciliationVars, taskVars, pointVars, busVars, modbusVars, iecVars>>

ModelNext == UNCHANGED part /\ (ReconcileMoves \/ TaskMoves \/ PointsMoves \/ MetersMoves \/
                                ModbusMoves \/ ModbusWritesMoves \/ SubstationMoves \/
                                FramesMoves)

modelVars == <<part, reconciliationVars, taskVars, pointVars, busVars, modbusVars, iecVars,
               frameVars>>

ModelSpec == ModelInit /\ [][ModelNext]_modelVars

\* Channels run what they were asked to run: a receipt's revision is applied,
\* what is recorded as applied is running, routes name points that exist, a
\* channel reconnects only as often as configured, a stopped one is offline, and
\* a dry run changes nothing.
ChannelsRunAsConfigured ==
  /\ ReceiptsHold /\ AppliedIsRunning /\ RoutedPointsExist
  /\ AttemptsAreBounded /\ StoppedIsOffline /\ DryRunIsHonoured

\* What an adapter reports for a point is what the device says of that point:
\* no value of another meter, register, report entry or frame.
ReportedIsTheDevices ==
  ValuesAreOwn /\ SegmentsAreFaithful /\ ValuesAreOfThePoint /\ AnswersAreUnderstood

\* What an adapter sends is what was asked for: merged writes are sequential,
\* a control is selected before it operates, and the device understands requests.
SentIsWhatWasAsked == BatchIsSequential /\ OperatesWereSelected /\ RequestsAreUnderstood

\* A configuration only moves forward: revisions are never reused, and what is
\* applied is what was prepared and fits its protocol.
ConfigurationMovesForward == [][RevisionStep /\ PreparedStep /\ WrittenStep]_modelVars

\* Channels, points and adapters stay in their types.
FieldTypeOK ==
  /\ ReconciliationTypeOK /\ TaskTypeOK /\ PointTopologyTypeOK
  /\ BusTypeOK /\ ModbusTypeOK /\ IecTypeOK
==============================================================================
