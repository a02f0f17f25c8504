---------------------------- MODULE AlarmService ----------------------------
(***************************************************************************)
(* The alarm service: the monitor that evaluates every enabled rule on a   *)
(* timer and on change hints (services/alarm/src/monitor.rs), the SQLite   *)
(* tables it shares with the operators (services/alarm/src/db.rs), the     *)
(* operators' governed mutations (alarm_rule_mutation.rs) and the count of *)
(* active alarms pushed to the other services.                             *)
(*                                                                         *)
(* The monitor reads a rule, then the point, then the rule's alert, and    *)
(* only then writes: an operator's transaction may commit between any two  *)
(* of those reads.  One SQLite statement or transaction is one step.       *)
(***************************************************************************)
EXTENDS Integers, FiniteSets

CONSTANTS
  AlarmRules,      \* rule ids that may be created
  MaxAlerts,       \* alert ids the database hands out
  MaxMoves,        \* changes of a point's reading
  MaxEdits,        \* operator mutations
  MaxAlarmStops,   \* restarts of the service
  NoAlarm          \* a missing rule, check, alert or count

VARIABLES
  rules,     \* table alert_rule: rule id -> NoAlarm or [enabled, when]
  alarmReading,   \* the point each rule watches: "low", "high" or "none"
  alerts,    \* table alert: records [id, rule]
  ended,     \* table alert_event: alert id -> number of recovery rows
  nextAlert, \* the AUTOINCREMENT of table alert
  checks,    \* running check_single_rule tasks: rule id -> NoAlarm or a record
  watched,   \* rules whose slot is set in the alarm's PointWatch bitmap
  hints,     \* change events waiting in the listener's channel
  counting,  \* count broadcasts under way: sender -> NoAlarm, "read" or a count
  shown,     \* the count the other services received last
  alarmUse   \* bounds used up: moves, edits, stops

alarmVars == <<rules, alarmReading, alerts, ended, nextAlert, checks, watched, hints,
               counting, shown, alarmUse>>

Conditions == {"low", "high"}
AlarmSenders == AlarmRules \cup {"operator", "timer"}

AlarmTypeOK ==
  /\ rules \in [AlarmRules -> [enabled: BOOLEAN, when: Conditions] \cup {NoAlarm}]
  /\ alarmReading \in [AlarmRules -> Conditions \cup {"none"}]
  /\ alerts \subseteq [id: 1..MaxAlerts, rule: AlarmRules]
  /\ ended \in [1..MaxAlerts -> 0..2]
  /\ nextAlert \in 1..(MaxAlerts + 1)
  /\ \A r \in AlarmRules :
       \/ checks[r] = NoAlarm
       \/ /\ checks[r].step \in {"read", "lookup", "write"}
          /\ checks[r].when \in Conditions
          /\ checks[r].found \in alerts \cup [id: 1..MaxAlerts, rule: {r}] \cup {NoAlarm}
  /\ watched \subseteq AlarmRules
  /\ hints \subseteq AlarmRules
  /\ \A s \in AlarmSenders : counting[s] \in {NoAlarm} \cup (-1)..MaxAlerts
  /\ shown \in 0..MaxAlerts

AlarmInit ==
  /\ rules \in [AlarmRules -> {NoAlarm, [enabled |-> TRUE, when |-> "high"]}]
  /\ alarmReading = [r \in AlarmRules |-> "low"]
  /\ alerts = {}
  /\ ended = [a \in 1..MaxAlerts |-> 0]
  /\ nextAlert = 1
  /\ checks = [r \in AlarmRules |-> NoAlarm]
  /\ watched = {}
  /\ hints = {}
  /\ counting = [s \in AlarmSenders |-> NoAlarm]
  /\ shown = 0
  /\ alarmUse = [moves |-> 0, edits |-> 0, stops |-> 0]

Exists(r) == rules[r] # NoAlarm
Enabled(r) == Exists(r) /\ rules[r].enabled
AlertsOf(r) == {a \in alerts : a.rule = r}
----------------------------------------------------------------------------
(* The points and the hints about them.                                    *)

\* The reading of r's point changes; a watched slot raises a hint, which a
\* full channel or a reset socket may lose.
PointMoves(r) ==
  /\ alarmUse.moves < MaxMoves
  /\ \E v \in (Conditions \cup {"none"}) \ {alarmReading[r]} : alarmReading' = [alarmReading EXCEPT ![r] = v]
  /\ hints' \in {hints, IF r \in watched THEN hints \cup {r} ELSE hints}
  /\ alarmUse' = [alarmUse EXCEPT !.moves = @ + 1]
  /\ UNCHANGED <<rules, alerts, ended, nextAlert, checks, watched, counting, shown>>
----------------------------------------------------------------------------
(* The monitor.                                                            *)

\* join_all: the loop takes its next branch once every task has ended.
Joined == \A r \in AlarmRules : checks[r] = NoAlarm /\ counting[r] = NoAlarm

\* process_rules: one task per rule, each with the copy of its rule.
Spawn(rs) ==
  checks' = [r \in AlarmRules |->
              IF r \in rs THEN [step |-> "read", when |-> rules[r].when, found |-> NoAlarm,
                                fires |-> FALSE]
                          ELSE checks[r]]

\* reconcile_point_watch_subscriptions: the bitmap is set to the rules' slots,
\* unless it cannot be opened.
Subscribes(rs) == watched' \in {watched, rs}

\* check_all_rules: the tick loads the enabled rules, subscribes to their
\* slots and checks them all.
TickChecksAll ==
  /\ Joined
  /\ Subscribes({r \in AlarmRules : Enabled(r)})
  /\ Spawn({r \in AlarmRules : Enabled(r)})
  /\ UNCHANGED <<rules, alarmReading, alerts, ended, nextAlert, hints, counting, shown, alarmUse>>

\* check_event_batch: the hints drained after the debounce select rules.
HintsCheckSome ==
  /\ Joined
  /\ hints # {}
  /\ hints' = {}
  /\ Spawn({r \in hints : Enabled(r)})
  /\ UNCHANGED <<rules, alarmReading, alerts, ended, nextAlert, watched, counting, shown, alarmUse>>

\* read_rule and evaluate on the copy loaded by the loop.
ReadsPoint(r) ==
  /\ checks[r] # NoAlarm /\ checks[r].step = "read"
  /\ checks' = [checks EXCEPT ![r] =
       IF alarmReading[r] = "none" THEN NoAlarm
       ELSE [@ EXCEPT !.step = "lookup", !.fires = (alarmReading[r] = checks[r].when)]]
  /\ UNCHANGED <<rules, alarmReading, alerts, ended, nextAlert, watched, hints, counting, shown,
                 alarmUse>>

\* get_alert_by_rule_id.
FindsAlert(r) == IF AlertsOf(r) = {} THEN NoAlarm ELSE CHOOSE a \in AlertsOf(r) : TRUE

LooksUp(r) ==
  /\ checks[r] # NoAlarm /\ checks[r].step = "lookup"
  /\ checks' = [checks EXCEPT ![r].step = "write", ![r].found = FindsAlert(r)]
  /\ UNCHANGED <<rules, alarmReading, alerts, ended, nextAlert, watched, hints, counting, shown,
                 alarmUse>>

\* insert_alert: the foreign key refuses a rule that was deleted meanwhile.
\* (update_alert_value on an alert already active changes no modelled state.)
Raises(r) ==
  IF Exists(r) /\ nextAlert <= MaxAlerts
  THEN /\ alerts' = alerts \cup {[id |-> nextAlert, rule |-> r]}
       /\ nextAlert' = nextAlert + 1
       /\ counting' = [counting EXCEPT ![r] = -1]
       /\ ended' = ended
  ELSE UNCHANGED <<alerts, ended, nextAlert, counting>>

\* resolve_alert: the recovery row is inserted and the alert deleted by id,
\* whether or not the alert is still there.
Recovers(r, a) ==
  /\ alerts' = alerts \ {a}
  /\ ended' = [ended EXCEPT ![a.id] = @ + 1]
  /\ counting' = [counting EXCEPT ![r] = -1]
  /\ UNCHANGED nextAlert

WritesAlert(r) ==
  /\ checks[r] # NoAlarm /\ checks[r].step = "write"
  /\ checks' = [checks EXCEPT ![r] = NoAlarm]
  /\ CASE checks[r].fires /\ checks[r].found = NoAlarm -> Raises(r)
       [] ~checks[r].fires /\ checks[r].found # NoAlarm -> Recovers(r, checks[r].found)
       [] OTHER -> UNCHANGED <<alerts, ended, nextAlert, counting>>
  /\ UNCHANGED <<rules, alarmReading, watched, hints, shown, alarmUse>>
----------------------------------------------------------------------------
(* The count of active alarms, read from the table and then sent.          *)

\* The 30-second broadcaster starts a round.
TimerFires ==
  /\ counting["timer"] = NoAlarm
  /\ counting' = [counting EXCEPT !["timer"] = -1]
  /\ UNCHANGED <<rules, alarmReading, alerts, ended, nextAlert, checks, watched, hints, shown, alarmUse>>

Counts(s) ==
  /\ counting[s] = -1
  /\ counting' = [counting EXCEPT ![s] = Cardinality(alerts)]
  /\ UNCHANGED <<rules, alarmReading, alerts, ended, nextAlert, checks, watched, hints, shown, alarmUse>>

SendsCount(s) ==
  /\ counting[s] \in 0..MaxAlerts
  /\ shown' = counting[s]
  /\ counting' = [counting EXCEPT ![s] = NoAlarm]
  /\ UNCHANGED <<rules, alarmReading, alerts, ended, nextAlert, checks, watched, hints, alarmUse>>
----------------------------------------------------------------------------
(* The operators.  A mutation is one transaction; the rows it resolved are *)
(* announced, with the new count, after the commit.                        *)

Edits ==
  /\ alarmUse.edits < MaxEdits
  /\ counting["operator"] = NoAlarm
  /\ alarmUse' = [alarmUse EXCEPT !.edits = @ + 1]
  /\ UNCHANGED <<alarmReading, nextAlert, checks, watched, hints, shown>>

Announces(gone) == counting' = IF gone = {} THEN counting
                               ELSE [counting EXCEPT !["operator"] = -1]

\* Both statements of resolve_alerts: a recovery row and the deletion.
ResolvesAll(r) ==
  /\ ended' = [i \in 1..MaxAlerts |->
                IF \E a \in AlertsOf(r) : a.id = i THEN ended[i] + 1 ELSE ended[i]]
  /\ alerts' = alerts \ AlertsOf(r)
  /\ Announces(AlertsOf(r))

DropsAll(r) ==
  /\ alerts' = alerts \ AlertsOf(r)
  /\ Announces(AlertsOf(r))
  /\ UNCHANGED ended

CreatesRule(r) ==
  /\ Edits
  /\ ~Exists(r)
  /\ \E w \in Conditions, e \in BOOLEAN : rules' = [rules EXCEPT ![r] = [enabled |-> e, when |-> w]]
  /\ UNCHANGED <<alerts, ended, counting>>

\* update: the new definition, and the alerts resolved when it is disabled.
UpdatesRule(r) ==
  /\ Edits
  /\ Exists(r)
  /\ \E w \in Conditions, e \in BOOLEAN :
       /\ rules' = [rules EXCEPT ![r] = [enabled |-> e, when |-> w]]
       /\ IF e THEN UNCHANGED <<alerts, ended, counting>> ELSE ResolvesAll(r)

SetsEnabled(r, e) ==
  /\ Edits
  /\ Exists(r)
  /\ rules' = [rules EXCEPT ![r].enabled = e]
  /\ IF e THEN UNCHANGED <<alerts, ended, counting>> ELSE ResolvesAll(r)

DeletesRuleOnly(r) ==
  /\ Edits
  /\ Exists(r)
  /\ rules' = [rules EXCEPT ![r] = NoAlarm]
  /\ DropsAll(r)

DeletesRule(r) ==
  /\ Edits
  /\ Exists(r)
  /\ rules' = [rules EXCEPT ![r] = NoAlarm]
  /\ ResolvesAll(r)

\* AlertResolver::resolve: DELETE ... RETURNING finds the alert or fails.
ResolvesAlert(a) ==
  /\ Edits
  /\ alerts' = alerts \ {a}
  /\ ended' = [ended EXCEPT ![a.id] = @ + 1]
  /\ Announces({a})
  /\ UNCHANGED rules

\* The process stops and starts: tasks, hints and unsent counts are lost.
AlarmRestarts ==
  /\ alarmUse.stops < MaxAlarmStops
  /\ alarmUse' = [alarmUse EXCEPT !.stops = @ + 1]
  /\ checks' = [r \in AlarmRules |-> NoAlarm]
  /\ hints' = {}
  /\ counting' = [s \in AlarmSenders |-> NoAlarm]
  /\ UNCHANGED <<rules, alarmReading, alerts, ended, nextAlert, watched, shown>>

AlarmEdit ==
  \/ \E r \in AlarmRules : \/ CreatesRule(r) \/ UpdatesRule(r) \/ DeletesRule(r)
                           \/ \E e \in BOOLEAN : SetsEnabled(r, e)
  \/ \E a \in alerts : ResolvesAlert(a)

AlarmNext ==
  \/ \E r \in AlarmRules : PointMoves(r) \/ ReadsPoint(r) \/ LooksUp(r) \/ WritesAlert(r)
  \/ TickChecksAll \/ HintsCheckSome
  \/ TimerFires
  \/ \E s \in AlarmSenders : Counts(s) \/ SendsCount(s)
  \/ AlarmEdit
  \/ AlarmRestarts

AlarmSpec == AlarmInit /\ [][AlarmNext]_alarmVars

\* The interval ticks and the 30-second sleep expire whatever else happens,
\* and a spawned task runs to its end.
AlarmFairness ==
  /\ WF_alarmVars(TickChecksAll)
  /\ WF_alarmVars(TimerFires)
  /\ \A r \in AlarmRules : WF_alarmVars(ReadsPoint(r) \/ LooksUp(r) \/ WritesAlert(r))
  /\ \A s \in AlarmSenders : WF_alarmVars(Counts(s) \/ SendsCount(s))
----------------------------------------------------------------------------
\* No rule ever has two active alerts, although table alert has no unique
\* constraint and checks race operators: check_single_rule looks before it
\* inserts and the loop joins its tasks before it starts others.
OneAlertPerRule == \A r \in AlarmRules : Cardinality(AlertsOf(r)) <= 1

\* Every alert the database handed out is active or has its recovery in the
\* history, whoever ended it: the monitor, an operator, a disable or a delete.
AlertsLeaveARecord ==
  \A i \in 1..(nextAlert - 1) : (\E a \in alerts : a.id = i) \/ ended[i] > 0

\* A disabled rule that no check is working on has no active alert: what the
\* disable endpoint promises (services/alarm/src/routes.rs, disable_rule).
DisabledRulesAreQuiet ==
  \A r \in AlarmRules : Exists(r) /\ ~Enabled(r) /\ checks[r] = NoAlarm => AlertsOf(r) = {}

\* One alert recovers once: its history holds a single recovery row.
RecoveredOnce == \A i \in 1..MaxAlerts : ended[i] <= 1

\* Once operators and points settle, an enabled rule with a readable point has
\* an alert exactly when its condition holds, even when every hint was lost.
AlarmFollowsPoint ==
  \A r \in AlarmRules : <>[](Enabled(r) /\ alarmReading[r] # "none" /\ nextAlert <= MaxAlerts)
    => <>[](Enabled(r) /\ (AlertsOf(r) # {} <=> alarmReading[r] = rules[r].when))

\* Once the alerts settle, the services that show the count of active alarms
\* show the right one, although two senders may overtake each other.
CountSettles == <>[](shown = Cardinality(alerts))

---------------------------------------------------------------------------
(***************************************************************************)
(* The alarm service's rule endpoints, from the HTTP request to the        *)
(* response: parsing (services/alarm/src/routes.rs), the governed command  *)
(* (crates/aether-application/src/alarm_rule.rs) and the SQLite            *)
(* transaction (services/alarm/src/alarm_rule_mutation.rs).  Several       *)
(* clients are served at once; a partial update reads the rule it merges   *)
(* with before its transaction begins.                                     *)
(***************************************************************************)

CONSTANTS
  RequestClients,        \* concurrent HTTP clients
  RuleKeys,       \* ids the table hands out, in order 1..n
  AlarmChannels,  \* channel ids a target may name
  MaxRequestCommands,    \* requests in a behaviour
  NoCommand       \* no request, no rule, no field

VARIABLES
  table,     \* alert_rule: id -> NoCommand or [target, enabled]
  nextRule,  \* the AUTOINCREMENT of the table
  command,   \* per client: the request being served
  trace,     \* per client: the audit outcomes recorded for its request
  sent       \* requests sent

requestVars == <<table, nextRule, command, trace, sent>>

Target == [channel: AlarmChannels, type: {"T", "online"}, point: {0, 1}]

\* validate_channel_online_shape, on the whole tuple.
WellShaped(t) == t.type = "online" => t.point = 0

\* Any subset of the target's fields may be supplied by an update.
Supplied == [channel: AlarmChannels \cup {NoCommand}, type: {"T", "online", NoCommand},
             point: {0, 1, NoCommand}]

IdleClient == [kind |-> "none", rule |-> 0, fields |-> NoCommand, target |-> NoCommand,
               enabled |-> TRUE, step |-> "idle", status |-> 0, effect |-> FALSE]

RequestsInit ==
  /\ \E t \in {t \in Target : WellShaped(t)} :
       table = [r \in RuleKeys |-> IF r = 1 THEN [target |-> t, enabled |-> TRUE] ELSE NoCommand]
  /\ nextRule = 2
  /\ command = [c \in RequestClients |-> IdleClient]
  /\ trace = [c \in RequestClients |-> <<"none", "none">>]
  /\ sent = 0

RequestsTypeOK ==
  /\ \A r \in RuleKeys : table[r] = NoCommand \/ (table[r].target \in Target
                                                  /\ table[r].enabled \in BOOLEAN)
  /\ nextRule \in 1..(Cardinality(RuleKeys) + 1)
  /\ \A c \in RequestClients : /\ command[c].step \in {"idle", "parse", "govern", "mutate", "done"}
                        /\ command[c].status \in {0, 200, 400, 403, 404, 409, 422, 503}
  /\ sent \in 0..MaxRequestCommands
----------------------------------------------------------------------------
(* Arrival.  A confirmed or unconfirmed, permitted or refused request.     *)

Arrives(c, request) ==
  /\ sent < MaxRequestCommands
  /\ command[c].step \in {"idle", "done"}
  /\ sent' = sent + 1
  /\ command' = [command EXCEPT ![c] = request]
  /\ trace' = [trace EXCEPT ![c] = <<"none", "none">>]
  /\ UNCHANGED <<table, nextRule>>

SendsCreate(c) ==
  \E t \in Target, e \in BOOLEAN :
    Arrives(c, [IdleClient EXCEPT !.kind = "create", !.target = t, !.enabled = e, !.step = "parse"])

SendsUpdate(c) ==
  \E r \in RuleKeys, f \in Supplied :
    Arrives(c, [IdleClient EXCEPT !.kind = "update", !.rule = r, !.fields = f, !.step = "parse"])

SendsEnabled(c) ==
  \E r \in RuleKeys, e \in BOOLEAN :
    Arrives(c, [IdleClient EXCEPT !.kind = "set_enabled", !.rule = r, !.enabled = e,
                                  !.step = "govern"])

SendsDelete(c) ==
  \E r \in RuleKeys :
    Arrives(c, [IdleClient EXCEPT !.kind = "delete", !.rule = r, !.step = "govern"])
----------------------------------------------------------------------------
(* The handlers.                                                           *)

Served(status, effect) ==
  [IdleClient EXCEPT !.step = "done", !.status = status, !.effect = effect]

Answers(c, status) == command' = [command EXCEPT ![c] = Served(status, FALSE)]

\* create_rule: parse_alarm_target and the domain constructors.
ParsesCreate(c) ==
  /\ command[c].kind = "create" /\ command[c].step = "parse"
  /\ IF WellShaped(command[c].target)
     THEN command' = [command EXCEPT ![c].step = "govern"]
     ELSE Answers(c, 400)
  /\ UNCHANGED <<table, nextRule, trace, sent>>

Field(supplied, stored) == IF supplied = NoCommand THEN stored ELSE supplied

Merged(f, t) == [channel |-> Field(f.channel, t.channel), type |-> Field(f.type, t.type),
                 point |-> Field(f.point, t.point)]

NoField(f) == f = [channel |-> NoCommand, type |-> NoCommand, point |-> NoCommand]

\* update_rule: when a field of the target is supplied, the handler reads the
\* rule and merges the whole tuple with what it read.
ParsesUpdate(c) ==
  /\ command[c].kind = "update" /\ command[c].step = "parse"
  /\ LET f == command[c].fields
         old == table[command[c].rule]
     IN CASE NoField(f) -> command' = [command EXCEPT ![c].step = "govern"]
          [] ~NoField(f) /\ old = NoCommand -> Answers(c, 404)
          [] ~NoField(f) /\ old # NoCommand ->
               IF WellShaped(Merged(f, old.target))
               THEN command' = [command EXCEPT ![c].step = "govern",
                                               ![c].target = Merged(f, old.target)]
               ELSE Answers(c, 400)
  /\ UNCHANGED <<table, nextRule, trace, sent>>

\* AlarmRuleApplication::mutate up to the mutator: an unauthorized or
\* unconfirmed request is recorded as rejected, a permitted one as attempted;
\* without the record the command is refused.
Governs(c) ==
  /\ command[c].step = "govern"
  /\ \/ \E status \in {403, 422} : /\ Answers(c, status)
                                   /\ trace' = [trace EXCEPT ![c] = <<"rejected", "none">>]
     \/ Answers(c, 503) /\ UNCHANGED trace
     \/ /\ command' = [command EXCEPT ![c].step = "mutate"]
        /\ trace' = [trace EXCEPT ![c] = <<"attempted", "none">>]
  /\ UNCHANGED <<table, nextRule, sent>>

\* The refusal is audited as failed; when that record fails too, the caller
\* is told that the audit is unavailable.
Fails(c, status) ==
  \/ /\ Answers(c, status)
     /\ trace' = [trace EXCEPT ![c][2] = "failed"]
  \/ Answers(c, 503) /\ UNCHANGED trace

\* The success is audited; a failing audit does not take the acceptance back.
Completes(c) ==
  /\ command' = [command EXCEPT ![c] = Served(200, TRUE)]
  /\ trace' \in {trace, [trace EXCEPT ![c][2] = "succeeded"]}

\* reject_duplicate_target, inside the transaction.
Taken(t, r) == \E s \in RuleKeys \ {r} : table[s] # NoCommand /\ table[s].target = t

Creates(c) ==
  /\ command[c].kind = "create" /\ command[c].step = "mutate"
  /\ nextRule \in RuleKeys
  /\ IF Taken(command[c].target, 0)
     THEN Fails(c, 409) /\ UNCHANGED <<table, nextRule>>
     ELSE /\ table' = [table EXCEPT ![nextRule] =
                        [target |-> command[c].target, enabled |-> command[c].enabled]]
          /\ nextRule' = nextRule + 1
          /\ Completes(c)
  /\ UNCHANGED sent

\* The target the transaction writes: the one the handler merged, or the one
\* the transaction reads when the patch has none.
PatchTarget(c) == IF command[c].target = NoCommand THEN table[command[c].rule].target
                  ELSE command[c].target

Updates(c) ==
  /\ command[c].kind = "update" /\ command[c].step = "mutate"
  /\ LET r == command[c].rule
     IN CASE table[r] = NoCommand -> Fails(c, 404) /\ UNCHANGED table
          [] table[r] # NoCommand /\ Taken(PatchTarget(c), r) -> Fails(c, 409) /\ UNCHANGED table
          [] table[r] # NoCommand /\ ~Taken(PatchTarget(c), r) ->
               /\ table' = [table EXCEPT ![r].target = PatchTarget(c)]
               /\ Completes(c)
  /\ UNCHANGED <<nextRule, sent>>

SetsFlag(c) ==
  /\ command[c].kind = "set_enabled" /\ command[c].step = "mutate"
  /\ IF table[command[c].rule] = NoCommand
     THEN Fails(c, 404) /\ UNCHANGED table
     ELSE /\ table' = [table EXCEPT ![command[c].rule].enabled = command[c].enabled]
          /\ Completes(c)
  /\ UNCHANGED <<nextRule, sent>>

Deletes(c) ==
  /\ command[c].kind = "delete" /\ command[c].step = "mutate"
  /\ IF table[command[c].rule] = NoCommand
     THEN Fails(c, 404) /\ UNCHANGED table
     ELSE /\ table' = [table EXCEPT ![command[c].rule] = NoCommand]
          /\ Completes(c)
  /\ UNCHANGED <<nextRule, sent>>

\* BUSY, an unavailable pool or a failed commit: nothing was written.
StorageFails(c) ==
  /\ command[c].step = "mutate"
  /\ Fails(c, 503)
  /\ UNCHANGED <<table, nextRule, sent>>

RequestsNext ==
  \E c \in RequestClients :
    \/ SendsCreate(c) \/ SendsUpdate(c) \/ SendsEnabled(c) \/ SendsDelete(c)
    \/ ParsesCreate(c) \/ ParsesUpdate(c) \/ Governs(c)
    \/ Creates(c) \/ Updates(c) \/ SetsFlag(c) \/ Deletes(c) \/ StorageFails(c)

RequestsSpec == RequestsInit /\ [][RequestsNext]_requestVars
----------------------------------------------------------------------------
\* Two rules never monitor the same target, although the table has no unique
\* index and updates carry a target merged with an older row.
TargetsAreUnique ==
  \A r, s \in RuleKeys : r # s /\ table[r] # NoCommand /\ table[s] # NoCommand
                         => table[r].target # table[s].target

\* A channel-online rule is stored with point 0 whatever partial updates race:
\* "partial updates can't sneak a malformed rule through" (update_rule).
StoredTargetsAreShaped ==
  \A r \in RuleKeys : table[r] # NoCommand => WellShaped(table[r].target)

\* An answer other than 200 means that nothing was written, and 200 that it
\* was and that the attempt is in the audit trail.
AnswersAreTrue ==
  \A c \in RequestClients : command[c].step = "done" =>
    /\ command[c].effect = (command[c].status = 200)
    /\ command[c].effect => trace[c][1] = "attempted"

\* An update writes only the fields it supplies (update_rule's contract).
OnlySuppliedIsWritten ==
  [][\A c \in RequestClients : Updates(c) /\ command'[c].status = 200 =>
       LET r == command[c].rule
       IN table'[r].target = Merged(command[c].fields, table[r].target)]_requestVars
=============================================================================
