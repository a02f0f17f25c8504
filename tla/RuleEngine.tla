----------------------------- MODULE RuleEngine -----------------------------
(***************************************************************************)
(* The rule scheduler of aether-automation (libs/aether-rules/src/          *)
(* scheduler.rs) with its PointWatch queue (point_watch_dispatcher.rs) and  *)
(* the reload that mutations and topology changes ask for.                  *)
(*                                                                         *)
(* One loop runs either a tick or a PointWatch event: it samples the        *)
(* subscribed points, filters the due rules under a read lock, executes     *)
(* them with no lock held, and writes their bookkeeping back under a write  *)
(* lock, matching list position and rule id. A reload replaces the list at  *)
(* any moment in between.                                                   *)
(*                                                                         *)
(* Instants are kept as ages: how long ago they were, saturating at MaxAge. *)
(* A rule subscribes to one point.                                          *)
(***************************************************************************)
EXTENDS Integers, Sequences, SequencesExt

CONSTANTS RuleIds,      \* rule ids, in loading order of priority
          OnChange,     \* the rules with an OnChange trigger; the others run at intervals
          Interval,     \* interval_ms of an interval rule
          Cooldown,     \* cooldown_ms
          TimeDeadband, \* time_deadband_ms
          Deadband,     \* absolute value deadband
          RuleSamples,      \* finite point values
          NaN,          \* missing or non-finite
          MaxAge,       \* bound: ages saturate
          MaxRun,       \* bound: how long a pass takes
          MaxHints,     \* capacity of the PointWatch queue
          MaxLoads,     \* bound: reloads
          MaxChanges    \* bound: changes of point values

VARIABLES ruleStored,     \* the enabled rules in SQLite
          loaded,     \* RuleScheduler::rules
          loads,      \* number of loads
          reload,     \* rows read by load_rules, not yet installed
          pass,       \* the running tick or watch event
          point, changes,
          ruleHints,      \* WatchEvents
          running,    \* shutdown not requested
          acted,      \* age and load of the last execution that starts a cooldown
          failed,     \* rules whose last execution failed
          gap         \* rules whose last sample was missing

schedulerVars ==
  <<ruleStored, loaded, loads, reload, pass, point, changes, ruleHints, running, acted, failed, gap>>

ASSUME SchedulerBounds ==
  /\ RuleSamples \subseteq Int /\ NaN \notin RuleSamples
  /\ MaxAge >= Cooldown + MaxRun /\ MaxAge >= Interval /\ MaxAge >= TimeDeadband

Never == MaxAge + 1   \* None
Ages == 0..Never
Older(age) == IF age < MaxAge THEN age + 1 ELSE age

\* ScheduledRule; "last" is last_execution, which is also the last_trigger of
\* an OnChange rule: the two are always written together.
Scheduled == [id : RuleIds, last : Ages, cooldown : Ages, value : RuleSamples \cup {NaN}]

\* load_rules: a ScheduledRule with default bookkeeping
Fresh(id) == [id |-> id, last |-> Never, cooldown |-> Never, value |-> NaN]

Loading(rows) ==
  LET ids == SetToSortSeq(rows, <) IN [i \in 1..Len(ids) |-> Fresh(ids[i])]

NoPass == [pc |-> "idle", path |-> "none", age |-> 0, candidates |-> {}, sample |-> <<>>,
           due |-> {}, done |-> {}]
NotReloading == [rows |-> {}, active |-> FALSE]

SchedulerTypeOK ==
  /\ ruleStored \subseteq RuleIds /\ reload.rows \subseteq RuleIds
  /\ \A i \in 1..Len(loaded) : loaded[i] \in Scheduled
  /\ pass.pc \in {"idle", "sampled", "running"} /\ pass.age \in 0..MaxRun
  /\ \A d \in pass.due \cup pass.done : d.id \in RuleIds
  /\ point \in [OnChange -> RuleSamples \cup {NaN}]
  /\ Len(ruleHints) <= MaxHints
  /\ failed \subseteq OnChange /\ gap \subseteq OnChange

SchedulerInit ==
  /\ ruleStored = RuleIds
  /\ loaded = Loading(ruleStored) /\ loads = 0 /\ reload = NotReloading
  /\ pass = NoPass
  /\ point \in [OnChange -> {NaN} \cup RuleSamples] /\ changes = 0
  /\ ruleHints = <<>> /\ running = TRUE
  /\ acted = [r \in RuleIds |-> [age |-> Never, load |-> 0]]
  /\ failed = {} /\ gap = {}
------------------------------------------------------------------------------
\* The world

\* Time passes; a pass takes at most MaxRun.
Elapse ==
  /\ pass.pc # "idle" => pass.age < MaxRun
  /\ loaded' = [i \in 1..Len(loaded) |->
       [loaded[i] EXCEPT !.last = Older(@), !.cooldown = Older(@)]]
  /\ pass' = IF pass.pc = "idle" THEN pass ELSE [pass EXCEPT !.age = @ + 1]
  /\ acted' = [r \in RuleIds |-> [acted[r] EXCEPT !.age = Older(@)]]
  /\ UNCHANGED <<ruleStored, loads, reload, point, changes, ruleHints, running, failed, gap>>

\* A point changes. io may hint it; PointWatchDispatcher::dispatch drops the
\* hint when the queue is full.
RulePointChanges(r, v) ==
  /\ changes < MaxChanges /\ changes' = changes + 1
  /\ point[r] # v /\ point' = [point EXCEPT ![r] = v]
  /\ \/ Len(ruleHints) < MaxHints /\ ruleHints' = Append(ruleHints, {r})
     \/ UNCHANGED ruleHints
  /\ UNCHANGED <<ruleStored, loaded, loads, reload, pass, running, acted, failed, gap>>

\* A rule mutation commits: the rule is disabled or enabled.
RuleEdited(r) ==
  /\ loads < MaxLoads /\ ~reload.active
  /\ ruleStored' = IF r \in ruleStored THEN ruleStored \ {r} ELSE ruleStored \cup {r}
  /\ UNCHANGED <<loaded, loads, reload, pass, point, changes, ruleHints, running, acted, failed, gap>>

\* load_rules reads the enabled rules; an error leaves the list as it was.
ReloadReads ==
  /\ loads < MaxLoads /\ ~reload.active
  /\ reload' = [rows |-> ruleStored, active |-> TRUE]
  /\ UNCHANGED <<ruleStored, loaded, loads, pass, point, changes, ruleHints, running, acted, failed, gap>>

\* ... and replaces the list under the write lock.
ReloadInstalls ==
  /\ reload.active
  /\ loaded' = Loading(reload.rows) /\ loads' = loads + 1
  /\ reload' = NotReloading
  /\ UNCHANGED <<ruleStored, pass, point, changes, ruleHints, running, acted, failed, gap>>

\* A mutation whose reload failed stops the scheduler.
RuleStop ==
  /\ running /\ reload.active
  /\ running' = FALSE /\ reload' = NotReloading /\ loads' = MaxLoads
  /\ UNCHANGED <<ruleStored, loaded, pass, point, changes, ruleHints, acted, failed, gap>>
------------------------------------------------------------------------------
\* Trigger decisions

RuleDistance(a, b) == IF a < b THEN b - a ELSE a - b
\* ValueDeadband::exceeds, absolute
Exceeds(last, new) == RuleDistance(last, new) > Deadband

\* should_trigger_onchange
ShouldTriggerOnChange(s, sample) ==
  /\ s.last # Never => s.last - pass.age >= TimeDeadband
  /\ sample # NaN /\ (s.value = NaN \/ Exceeds(s.value, sample))

CooldownElapsed(s) == s.cooldown # Never => s.cooldown - pass.age >= Cooldown

IntervalElapsed(s) == s.last # Never => s.last - pass.age >= Interval

\* Phase 1, on either path: what makes a scheduled rule due
Due(s) ==
  /\ IF s.id \in OnChange
       THEN s.id \in pass.candidates /\ ShouldTriggerOnChange(s, pass.sample[s.id])
       ELSE pass.path = "tick" /\ IntervalElapsed(s)
  /\ CooldownElapsed(s)

\* The OnChange rules a pass samples
RuleSubscribed(candidates) ==
  {loaded[i].id : i \in 1..Len(loaded)} \cap OnChange \cap candidates

RuleBegin(path, candidates) ==
  /\ pass' = [NoPass EXCEPT !.pc = "sampled", !.path = path, !.candidates = candidates,
                            !.sample = point]
  /\ gap' = (gap \ RuleSubscribed(candidates))
              \cup {r \in RuleSubscribed(candidates) : point[r] = NaN}
  /\ UNCHANGED <<ruleStored, loaded, loads, reload, point, changes, running, acted, failed>>

\* tick: phases 0 and 0.5
RuleTick ==
  /\ running /\ pass = NoPass
  /\ RuleBegin("tick", RuleIds)
  /\ UNCHANGED ruleHints

\* execute_watch_triggered: the event only selects candidates.
WatchEvent ==
  /\ running /\ pass = NoPass /\ ruleHints # <<>>
  /\ RuleBegin("watch", Head(ruleHints))
  /\ ruleHints' = Tail(ruleHints)

\* Phase 1 under the read lock. A rule loaded since the sample was taken has
\* no sample; its point reads as missing.
Filter ==
  /\ pass.pc = "sampled"
  /\ LET due == {i \in 1..Len(loaded) : Due(loaded[i])}
     IN  pass' = IF due = {} THEN NoPass
                 ELSE [pass EXCEPT !.pc = "running",
                         !.due = {[index |-> i, id |-> loaded[i].id, load |-> loads]
                                    : i \in due}]
  /\ UNCHANGED <<ruleStored, loaded, loads, reload, point, changes, ruleHints, running, acted, failed, gap>>

\* What the flow read of the rule's point
RuleRead(d) == IF d.id \in OnChange THEN point[d.id] ELSE NaN

\* Phase 2: the executor walks the flow (module RuleFlow). It always returns a
\* result; "acts" is a successful one with at least one action.
RuleExecute(d, outcome) ==
  /\ pass.pc = "running" /\ d \in pass.due
  /\ d.id \in OnChange /\ RuleRead(d) = NaN => outcome = "fails"
  /\ pass' = [pass EXCEPT !.due = @ \ {d},
       !.done = @ \cup {[index |-> d.index, id |-> d.id, cools |-> outcome = "acts",
                         value |-> IF d.id \in OnChange /\ RuleRead(d) = NaN
                                     THEN pass.sample[d.id] ELSE RuleRead(d)]}]
  /\ acted' = IF outcome = "acts"
                THEN [acted EXCEPT ![d.id] = [age |-> pass.age, load |-> d.load]] ELSE acted
  /\ failed' = IF outcome = "fails" THEN failed \cup ({d.id} \cap OnChange) ELSE failed \ {d.id}
  /\ UNCHANGED <<ruleStored, loaded, loads, reload, point, changes, ruleHints, running, gap>>

\* The bookkeeping of one result
Updated(s, u) ==
  [s EXCEPT !.last = pass.age,
            !.cooldown = IF u.cools THEN pass.age ELSE @,
            !.value = IF s.id \in OnChange /\ u.value # NaN THEN u.value ELSE @]

\* Mutant of WriteBack: the rule id at the position is not compared
WriteBackByIndex ==
  /\ pass.pc = "running" /\ pass.due = {}
  /\ loaded' = [i \in 1..Len(loaded) |->
       LET us == {u \in pass.done : u.index = i}
       IN  IF us = {} THEN loaded[i] ELSE Updated(loaded[i], CHOOSE u \in us : TRUE)]
  /\ pass' = NoPass
  /\ UNCHANGED <<ruleStored, loads, reload, point, changes, ruleHints, running, acted, failed, gap>>

\* Phase 3 under the write lock
WriteBack ==
  /\ pass.pc = "running" /\ pass.due = {}
  /\ loaded' = [i \in 1..Len(loaded) |->
       LET us == {u \in pass.done : u.index = i /\ u.id = loaded[i].id}
       IN  IF us = {} THEN loaded[i] ELSE Updated(loaded[i], CHOOSE u \in us : TRUE)]
  /\ pass' = NoPass
  /\ UNCHANGED <<ruleStored, loads, reload, point, changes, ruleHints, running, acted, failed, gap>>
------------------------------------------------------------------------------
Working == RuleTick \/ WatchEvent \/ Filter \/ WriteBack
             \/ \E d \in pass.due, o \in {"acts", "idles", "fails"} : RuleExecute(d, o)

SchedulerNext ==
  \/ Elapse \/ Working
  \/ \E r \in OnChange, v \in RuleSamples \cup {NaN} : RulePointChanges(r, v)
  \/ \E r \in RuleIds : RuleEdited(r)
  \/ ReloadReads \/ ReloadInstalls \/ RuleStop

\* The loop is a task of its own, its interval always fires and its executions
\* return; time passes and a reload's write lock is granted.
SchedulerFairness ==
  /\ WF_schedulerVars(RuleTick) /\ WF_schedulerVars(Filter) /\ WF_schedulerVars(WriteBack)
  /\ WF_schedulerVars(\E d \in pass.due, o \in {"acts", "idles", "fails"} : RuleExecute(d, o))
  /\ SF_schedulerVars(Elapse) /\ WF_schedulerVars(ReloadInstalls \/ RuleStop)

SchedulerSpec == SchedulerInit /\ [][SchedulerNext]_schedulerVars /\ SchedulerFairness
------------------------------------------------------------------------------
\* Between two executions of one load of a rule that performed actions lies at
\* least its cooldown, whichever of the tick and PointWatch paths ran them and
\* wherever a reload fell (docs/concepts/rule-engine.md: it "suppresses
\* re-execution until it elapses").
CooldownHolds ==
  \A d \in pass.due :
    (acted[d.id].age # Never /\ acted[d.id].load = d.load)
      => acted[d.id].age - pass.age >= Cooldown

\* A rule is held back only by its own executions: the cooldown it carries
\* started at its own last acting execution, also when a reload moved another
\* rule to the position that execution is written back to.
CooldownIsOwn ==
  \A i \in 1..Len(loaded) :
    LET s == loaded[i] IN
    (s.cooldown # Never /\ \A u \in pass.done : u.id # s.id) => acted[s.id].age = s.cooldown

\* A change is never lost: once points, rules and the scheduler settle, every
\* loaded OnChange rule has been evaluated on a value within the deadband of
\* the current one, although hints are dropped and reloads interfere.
ChangesAreSeen ==
  <>[](running => \A i \in 1..Len(loaded) :
         (loaded[i].id \in OnChange /\ point[loaded[i].id] # NaN)
           => loaded[i].value # NaN /\ ~Exceeds(loaded[i].value, point[loaded[i].id]))

\* scheduler.rs: "The first finite value after observation triggers once
\* (initial sample or recovery from NaN)". A pass that samples a finite value
\* of a rule whose previous sample was missing runs the rule.
RecoveryTriggers ==
  [][\A i \in 1..Len(loaded) :
       LET s == loaded[i] IN
       (/\ pass.pc = "idle" /\ pass'.pc = "sampled"
        /\ s.id \in OnChange \cap gap /\ s.id \in pass'.candidates /\ point[s.id] # NaN
        /\ s.last = Never \/ s.last >= TimeDeadband)
       => s.value = NaN \/ Exceeds(s.value, point[s.id])]_schedulerVars

\* docs/concepts/rule-engine.md: after a failed action "the next cycle
\* re-evaluates from current values". A pass in which nothing holds back a rule
\* whose last execution failed runs it again.
FailedRunsAgain ==
  \A i \in 1..Len(loaded) :
    LET s == loaded[i] IN
    (/\ pass.pc = "sampled" /\ pass.path = "tick" /\ s.id \in OnChange \cap failed
     /\ pass.sample[s.id] # NaN /\ CooldownElapsed(s)
     /\ s.last # Never => s.last - pass.age >= TimeDeadband)
    => Due(s)

---------------------------------------------------------------------------
(***************************************************************************)
(* One execution of a rule flow (libs/aether-rules/src/executor.rs): the    *)
(* walk from the start node over switch, change, calculation and            *)
(* period-delta nodes, reading points on the way and sending commands.      *)
(*                                                                         *)
(* The flow is any small graph, cyclic or dangling ones included. A node    *)
(* reads the measurement "m" and the action point "a"; the live plane       *)
(* answers each read anew. Zero stands for no wire.                         *)
(***************************************************************************)

CONSTANTS NodeIds,        \* node ids of the flow; node 1 is the start node
          UnknownNode,    \* a wire to no node
          Readings,       \* finite values a point may read
          Absent,         \* missing or non-finite in SHM, or the topology fence moved
          MaxIterations   \* max_iterations (100)

VARIABLES flow,  \* Rule::flow.nodes
          walk   \* the local state of RuleExecutor::execute

flowVars == <<flow, walk>>

NoWire == 0
Wires == NodeIds \cup {NoWire, UnknownNode}
Value == Readings \cup {Absent}

\* RuleNode. A change writes a literal or one of the variables; a calculation's
\* output is a point (of default type M), an action point or only a local value.
Nodes ==
  [kind : {"end"}] \cup [kind : {"start", "delta"}, next : Wires]
    \cup [kind : {"switch"}, above : Wires, otherwise : Wires]
    \cup [kind : {"change"}, source : {"literal", "m", "a"}, next : Wires]
    \cup [kind : {"calculation"}, output : {"M", "A", "local"}, next : Wires]

Literal == 7
NewWalk == [pc |-> "walking", node |-> 1, steps |-> 0, m |-> Absent, a |-> Absent,
            seen |-> {}, actions |-> <<>>, success |-> FALSE]

FlowTypeOK ==
  /\ walk.pc \in {"walking", "done"} /\ walk.node \in Wires
  /\ walk.m \in Value /\ walk.a \in Value
  /\ walk.success \in BOOLEAN

FlowInit ==
  /\ flow \in [NodeIds -> Nodes] /\ flow[1] = [kind |-> "start", next |-> 2]
  /\ walk = NewWalk
------------------------------------------------------------------------------
FlowAt(kind) ==
  /\ walk.pc = "walking" /\ walk.steps < MaxIterations
  /\ walk.node \in NodeIds /\ flow[walk.node].kind = kind

\* Every way execute returns without reaching End leaves success FALSE.
FlowReturn(w) == walk' = [w EXCEPT !.pc = "done"] /\ UNCHANGED flow

Follow(w, next) ==
  /\ walk' = IF next = NoWire THEN [w EXCEPT !.pc = "done", !.steps = @ + 1]
             ELSE [w EXCEPT !.node = next, !.steps = @ + 1]
  /\ UNCHANGED flow

\* read_rule_variables_for_execution: the walk with the readings inserted. An
\* absent measurement is missing; an absent action point keeps its old value.
FlowReading(m, a) ==
  [walk EXCEPT !.m = IF m = Absent THEN @ ELSE m, !.a = IF a = Absent THEN @ ELSE a,
               !.seen = @ \cup ({m, a} \ {Absent})]

\* validate_write_target, write_to_point: only action points can be written;
\* write_measurement_point always rejects. An action is attempted and may fail.
FlowWrite(w, type, value, accepted) ==
  [w EXCEPT !.actions = Append(@, [value |-> value, ok |-> accepted /\ type = "A"])]

TooLong == walk.pc = "walking" /\ walk.steps = MaxIterations /\ FlowReturn(walk)

UnknownTarget ==
  /\ walk.pc = "walking" /\ walk.steps < MaxIterations /\ walk.node \notin NodeIds
  /\ FlowReturn(walk)

FlowStart == FlowAt("start") /\ Follow(walk, flow[walk.node].next)

End ==
  /\ FlowAt("end")
  /\ FlowReturn([walk EXCEPT !.success = \A i \in 1..Len(walk.actions) : walk.actions[i].ok])

\* The first branch whose condition holds and whose port is wired; a condition
\* on a variable with no value fails.
Switch(m, a) ==
  /\ FlowAt("switch")
  /\ IF m = Absent THEN FlowReturn(FlowReading(m, a))
     ELSE LET n == flow[walk.node]
              target == IF FlowReading(m, a).m > 1 /\ n.above # NoWire THEN n.above
                        ELSE n.otherwise
          IN  Follow(FlowReading(m, a), target)

\* execute_rule_change_for_execution; action_skipped records an assignment from
\* a variable with no value as a failed action.
ChangeValue(m, a, accepted) ==
  /\ FlowAt("change")
  /\ IF m = Absent THEN FlowReturn(FlowReading(m, a))
     ELSE LET n == flow[walk.node]
              w == FlowReading(m, a)
              value == IF n.source = "literal" THEN Literal ELSE w[n.source]
          IN  Follow(FlowWrite(w, "A", value, accepted /\ value # Absent), n.next)

\* handle_calculation_node: a formula error returns; the result is written when
\* the output is a variable of the node, and becomes a local value.
Calculation(m, a, accepted, computes) ==
  /\ FlowAt("calculation")
  /\ IF m = Absent \/ ~computes THEN FlowReturn(FlowReading(m, a))
     ELSE LET n == flow[walk.node]
              w == FlowReading(m, a)
          IN  Follow(IF n.output = "local" THEN w ELSE FlowWrite(w, n.output, w.m, accepted), n.next)

\* handle_period_delta_node: the output is always a measurement.
PeriodDelta(m, computes) ==
  /\ FlowAt("delta")
  /\ IF m = Absent \/ ~computes THEN FlowReturn(FlowReading(m, Absent))
     ELSE LET w == FlowReading(m, Absent) IN Follow(FlowWrite(w, "M", w.m, TRUE), flow[walk.node].next)

FlowStep ==
  \/ TooLong \/ UnknownTarget \/ FlowStart \/ End
  \/ \E m, a \in Value, accepted, computes \in BOOLEAN :
       \/ Switch(m, a) \/ ChangeValue(m, a, accepted)
       \/ Calculation(m, a, accepted, computes) \/ PeriodDelta(m, computes)

\* The next execution of the rule starts from nothing.
Again == walk.pc = "done" /\ walk' = NewWalk /\ UNCHANGED flow

FlowNext == FlowStep \/ Again

\* The executor runs on a task that is always scheduled.
FlowSpec == FlowInit /\ [][FlowNext]_flowVars /\ WF_flowVars(FlowStep)
------------------------------------------------------------------------------
\* Every command a rule sends carries a literal or a value read from the live
\* plane in the same execution, whatever path leads to it and whatever reads
\* failed on the way (rule-engine.md: "never coerced to a number").
CommandsUseRealValues ==
  \A i \in 1..Len(walk.actions) :
    walk.actions[i].ok => walk.actions[i].value \in {Literal} \cup walk.seen

\* A rule reports success only if the walk reached End and every command it
\* sent was accepted, and never when it wrote a derived measurement.
SuccessIsComplete ==
  walk.success => /\ walk.node \in NodeIds /\ flow[walk.node].kind = "end"
                  /\ \A i \in 1..Len(walk.actions) : walk.actions[i].ok

\* Every execution ends, cyclic flows included.
ExecutionEnds == []<>(walk.pc = "done")
=============================================================================
