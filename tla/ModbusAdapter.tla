---------------------------- MODULE ModbusAdapter ----------------------------
(***************************************************************************)
(* The Modbus adapter: modbus.rs, modbus_poll.rs, command_batcher.rs.      *)
(*                                                                         *)
(* A poll groups the points by slave and function code, cuts each group    *)
(* into segments of neighbouring registers, reads a segment per request    *)
(* and slices the answer back into points.  Writes go one by one, or, for  *)
(* a batch of FC16 commands on consecutive registers, merged into one      *)
(* request.  The device and the library that speaks to it are external:    *)
(* a request is answered, refused, or applied without an answer.           *)
(*                                                                         *)
(* Registers hold small numbers; a value of width w is w registers, which  *)
(* is what encode_registers and decode_registers turn it into and back.    *)
(***************************************************************************)
EXTENDS Integers, Sequences, FiniteSets
LOCAL INSTANCE SequencesExt
LOCAL INSTANCE FiniteSetsExt

CONSTANTS
  ModbusRegisters,     \* number of holding registers of the device
  PointSets,     \* configurations: sets of [id, group, reg, width]
  MaxGap,        \* max_gap of the channel configuration
  MaxBatch,      \* max_batch_size
  CommandValues, \* values a command may carry
  BadValue,      \* a value that is not numeric or does not fit its format
  MaxModbusPolls, MaxPending, MaxWrites, MaxDrifts
                 \* bounds: polls, batched commands, write calls, device changes

VARIABLES
  registers,  \* the device: register -> content
  modbusClient,     \* ModbusChannel.client: is there a connection
  config,     \* ModbusChannelConfig.points
  cycle,      \* the poll in progress: segments left, results and failures so far
  batcher,    \* CommandBatcher.pending_commands, in order of arrival
  lastWrite,  \* the outcome of the last write call, with the registers before it
  modbusUse   \* polls, write calls and device changes so far

modbusVars == <<registers, modbusClient, config, cycle, batcher, lastWrite, modbusUse>>

Register == 0 .. (ModbusRegisters - 1)
Cells(reg, width) == reg .. (reg + width - 1)

-----------------------------------------------------------------------------
(* Reading *)

\* get_or_init_grouped_points: one group per (slave_id, function_code), sorted by register.
Groups == {p.group : p \in config}
GroupedPoints(g) ==
  SetToSortSeq({p \in config : p.group = g},
               LAMBDA p, q : p.reg < q.reg \/ (p.reg = q.reg /\ p.id < q.id))

Segment(p) == [start |-> p.reg, end |-> p.reg + p.width, points |-> <<p>>]

\* The step of build_register_segments: extend the last segment or open one.
Saturating(n) == IF n < 0 THEN 0 ELSE n
Extends(seg, p) ==
  /\ Saturating(p.reg - seg.end) <= MaxGap
  /\ Saturating(p.reg + p.width - seg.start) <= MaxBatch

ModbusExtended(segments, p) ==
  IF segments = <<>> THEN <<Segment(p)>>
  ELSE LET seg == Last(segments)
       IN  IF Extends(seg, p)
           THEN Append(Front(segments),
                       [seg EXCEPT !.end = p.reg + p.width, !.points = Append(@, p)])
           ELSE Append(segments, Segment(p))

BuildRegisterSegments(points) == FoldLeft(ModbusExtended, <<>>, points)

\* read_register_segment: the registers of the segment, sliced by offset; a point whose
\* slice runs past the answer is skipped.
Answered(seg) == [i \in 1 .. (seg.end - seg.start) |-> registers[seg.start + i - 1]]

ReadRegisterSegment(seg) ==
  LET regs == Answered(seg)
      offset(p) == p.reg - seg.start
      whole(p) == offset(p) + p.width <= Len(regs)
  IN  {[point |-> p, value |-> SubSeq(regs, offset(p) + 1, offset(p) + p.width)] :
         p \in {q \in ToSet(seg.points) : whole(q)}}

NoModbusCycle == [active |-> FALSE, todo |-> {}, group |-> 0, segments |-> <<>>, read |-> {},
            batch |-> {}, failures |-> {}, missed |-> FALSE]

\* poll_once: without a client every point fails.
ModbusPollStarts ==
  /\ ~cycle.active
  /\ modbusUse.polls < MaxModbusPolls
  /\ modbusUse' = [modbusUse EXCEPT !.polls = @ + 1]
  /\ cycle' = IF modbusClient THEN [NoModbusCycle EXCEPT !.active = TRUE, !.todo = Groups]
                        ELSE [NoModbusCycle EXCEPT !.failures = config]
  /\ UNCHANGED <<registers, modbusClient, config, batcher, lastWrite>>

\* Coils and discrete inputs (function codes 1 and 2) are read one by one.
ReadCoilsIndividually(points) == [i \in 1 .. Len(points) |-> Segment(points[i])]

SegmentsOf(g) == IF g \in {1, 2} THEN ReadCoilsIndividually(GroupedPoints(g))
                               ELSE BuildRegisterSegments(GroupedPoints(g))

\* read_point_group begins: the groups come out of a hash map in any order.
ReadPointGroup ==
  /\ cycle.active
  /\ cycle.group = 0
  /\ \E g \in cycle.todo :
       cycle' = [cycle EXCEPT !.todo = @ \ {g}, !.group = g, !.read = {},
                              !.segments = SegmentsOf(g)]
  /\ UNCHANGED <<registers, modbusClient, config, batcher, lastWrite, modbusUse>>

\* read_registers_batched: a segment that cannot be read is skipped.
ReadsSegment ==
  /\ cycle.active
  /\ cycle.segments # <<>>
  /\ \/ cycle' = [cycle EXCEPT !.segments = Tail(@),
                               !.read = @ \cup {[point |-> r.point, value |-> r.value,
                                                 held |-> [i \in 1 .. r.point.width |->
                                                             registers[r.point.reg + i - 1]]] :
                                                  r \in ReadRegisterSegment(Head(cycle.segments))}]
     \/ cycle' = [cycle EXCEPT !.segments = Tail(@), !.missed = TRUE]
  /\ UNCHANGED <<registers, modbusClient, config, batcher, lastWrite, modbusUse>>

\* The group is done: with no result at all its points fail, otherwise the results stand.
GroupEnds ==
  /\ cycle.active
  /\ cycle.group # 0
  /\ cycle.segments = <<>>
  /\ cycle' = [cycle EXCEPT !.group = 0, !.read = {}, !.batch = @ \cup cycle.read,
                            !.failures = IF cycle.read = {}
                                         THEN @ \cup ToSet(GroupedPoints(cycle.group)) ELSE @]
  /\ UNCHANGED <<registers, modbusClient, config, batcher, lastWrite, modbusUse>>

CycleEnds ==
  /\ cycle.active
  /\ cycle.group = 0
  /\ cycle.todo = {}
  /\ cycle' = [cycle EXCEPT !.active = FALSE]
  /\ UNCHANGED <<registers, modbusClient, config, batcher, lastWrite, modbusUse>>

-----------------------------------------------------------------------------
(* Writing *)

\* encode_value: a command of width w fills w registers.
EncodeValue(c) == [i \in 1 .. c.width |-> c.value + i - 1]
Encodable(c) == c.value # BadValue

ModbusWritten(regs, c) ==
  [r \in Register |-> IF r \in Cells(c.reg, c.width) THEN EncodeValue(c)[r - c.reg + 1] ELSE regs[r]]

ByRegister(commands) ==
  SetToSortSeq({i \in 1 .. Len(commands) : TRUE},
               LAMBDA i, j : commands[i].reg < commands[j].reg
                             \/ (commands[i].reg = commands[j].reg /\ i < j))

\* are_strictly_consecutive: sorted by register, each begins where the last one ended.
AreStrictlyConsecutive(commands) ==
  LET order == ByRegister(commands)
  IN  /\ Len(commands) >= 2
      /\ \A k \in 1 .. (Len(commands) - 1) :
           commands[order[k + 1]].reg = commands[order[k]].reg + commands[order[k]].width

\* execute_merged_fc16: one request from the lowest register; one bad value aborts all.
ModbusMerged(commands) ==
  LET order == ByRegister(commands)
      regs == FoldLeft(LAMBDA acc, i : acc \o EncodeValue(commands[i]), <<>>, order)
      start == commands[order[1]].reg
  IN  [r \in Register |-> IF r \in Cells(start, Len(regs)) THEN regs[r - start + 1] ELSE registers[r]]

Applying(regs, commands, which) ==
  FoldLeft(LAMBDA acc, i : IF i \in which THEN ModbusWritten(acc, commands[i]) ELSE acc,
           regs, [i \in 1 .. Len(commands) |-> i])

\* The result of a call: what the device applied and which commands were reported good.
Outcome(commands, applied, good) ==
  lastWrite' = [before |-> registers, commands |-> commands, applied |-> applied, good |-> good]

\* write_single_command, write_single_value: each command is encoded and sent; a request may
\* be refused, or applied without its answer arriving.
WritesEach(commands) ==
  \E applied \in SUBSET {i \in 1 .. Len(commands) : Encodable(commands[i])} :
    \E good \in SUBSET applied :
      /\ registers' = Applying(registers, commands, applied)
      /\ Outcome(commands, applied, good)

WritesMerged(commands) ==
  LET all == 1 .. Len(commands)
  IN  IF \A i \in all : Encodable(commands[i])
      THEN \/ registers' = ModbusMerged(commands) /\ Outcome(commands, all, all)
           \/ registers' = ModbusMerged(commands) /\ Outcome(commands, all, {})
           \/ registers' = registers /\ Outcome(commands, {}, {})
      ELSE registers' = registers /\ Outcome(commands, {}, {})

ModbusCommands == {c \in [reg : Register, width : {1, 2}, value : CommandValues \cup {BadValue}] :
               c.reg + c.width <= ModbusRegisters}

\* CommandBatcher::add_command, for one (slave_id, function code 16) key.
AddCommand ==
  /\ Len(batcher) < MaxPending /\ modbusUse.writes < MaxWrites
  /\ \E c \in ModbusCommands : batcher' = Append(batcher, c)
  /\ UNCHANGED <<registers, modbusClient, config, cycle, lastWrite, modbusUse>>

CountsWrite == modbusUse.writes < MaxWrites /\ modbusUse' = [modbusUse EXCEPT !.writes = @ + 1]

\* execute_batched_commands: the pending commands are taken before the client is looked at.
ExecuteBatchedCommands ==
  /\ ~cycle.active
  /\ batcher # <<>>
  /\ CountsWrite
  /\ batcher' = <<>>
  /\ IF ~modbusClient THEN registers' = registers /\ Outcome(batcher, {}, {})
     ELSE IF AreStrictlyConsecutive(batcher) THEN WritesMerged(batcher)
     ELSE WritesEach(batcher)
  /\ UNCHANGED <<modbusClient, config, cycle>>

\* write_control, write_adjustment: the point is looked up, its value transformed and encoded.
WriteCommand ==
  /\ ~cycle.active
  /\ modbusClient
  /\ CountsWrite
  /\ \E c \in ModbusCommands : WritesEach(<<c>>)
  /\ UNCHANGED <<modbusClient, config, cycle, batcher>>

-----------------------------------------------------------------------------
ModbusInit ==
  /\ registers = [r \in Register |-> 0]
  /\ modbusClient = FALSE
  /\ config \in PointSets
  /\ cycle = NoModbusCycle
  /\ batcher = <<>>
  /\ lastWrite = [before |-> [r \in Register |-> 0], commands |-> <<>>, applied |-> {}, good |-> {}]
  /\ modbusUse = [polls |-> 0, writes |-> 0, drifts |-> 0]

\* connect and disconnect: the client is created, or taken and closed.
ModbusConnects ==
  /\ ~cycle.active
  /\ ~modbusClient
  /\ modbusClient' = TRUE
  /\ UNCHANGED <<registers, config, cycle, batcher, lastWrite, modbusUse>>

ModbusDisconnects ==
  /\ ~cycle.active
  /\ modbusClient
  /\ modbusClient' = FALSE
  /\ UNCHANGED <<registers, config, cycle, batcher, lastWrite, modbusUse>>

\* The device changes its own registers, also between two segments of one poll.
DeviceDrifts ==
  /\ modbusUse.drifts < MaxDrifts
  /\ modbusUse' = [modbusUse EXCEPT !.drifts = @ + 1]
  /\ \E k \in 1 .. 2 : registers' = [r \in Register |-> k * 10 + r]
  /\ lastWrite' = [lastWrite EXCEPT !.before = registers', !.commands = <<>>, !.applied = {},
                                    !.good = {}]
  /\ UNCHANGED <<modbusClient, config, cycle, batcher>>

ModbusPolling == ModbusPollStarts \/ ReadPointGroup \/ ReadsSegment \/ GroupEnds \/ CycleEnds
ModbusWriting == AddCommand \/ ExecuteBatchedCommands \/ WriteCommand
ModbusLinking == ModbusConnects \/ ModbusDisconnects \/ DeviceDrifts

ModbusNext == ModbusPolling \/ ModbusWriting \/ ModbusLinking

ModbusSpec == ModbusInit /\ [][ModbusNext]_modbusVars

-----------------------------------------------------------------------------
Overlap(p, q) == p.group = q.group /\ Cells(p.reg, p.width) \cap Cells(q.reg, q.width) # {}
Disjoint == \A p, q \in config : p # q => ~Overlap(p, q)

\* Every variable holds a value of its kind.
ModbusTypeOK ==
  /\ DOMAIN registers = Register
  /\ modbusClient \in BOOLEAN
  /\ config \in PointSets
  /\ cycle.active \in BOOLEAN
  /\ cycle.todo \subseteq Groups
  /\ cycle.failures \subseteq config
  /\ batcher \in Seq(ModbusCommands)
  /\ lastWrite.good \subseteq lastWrite.applied
  /\ modbusUse \in [polls : 0 .. MaxModbusPolls, writes : 0 .. MaxWrites, drifts : 0 .. MaxDrifts]

\* A value read for a point is what the point's own registers held when their segment was read,
\* however the group was cut into segments; and a poll whose requests were all answered
\* returns every point, when no two share a register (modbus_poll.rs:146, 217).
SegmentsAreFaithful ==
  /\ \A r \in cycle.read \cup cycle.batch : r.value = r.held
  /\ Disjoint /\ ~cycle.active /\ ~cycle.missed /\ cycle.failures = {} /\ cycle.batch # {} =>
       {r.point : r \in cycle.batch} = config

\* Each point of a finished poll is in the data or in the failures (traits.rs:431).
EveryPointReported ==
  ~cycle.active /\ (cycle.batch # {} \/ cycle.failures # {}) =>
    {r.point : r \in cycle.batch} \cup cycle.failures = config

\* A batch leaves in the device what its commands, sent one at a time in order of arrival,
\* would have left, and reports good only what was applied (command_batcher.rs:149).
BatchIsSequential ==
  registers = Applying(lastWrite.before, lastWrite.commands, lastWrite.applied)
=============================================================================
