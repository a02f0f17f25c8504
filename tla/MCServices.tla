----------------------------- MODULE MCServices -----------------------------
\* The services: automation (topology, scheduler, rule flows, governed
\* operations), alarms, data processing and the gateway. One component
\* moves in a behaviour, the others rest in their initial state.
EXTENDS AutomationTopology, RuleEngine, GovernedOperation, AlarmService, DataProcessing,
        GatewayHub, GatewayAccounts

CONSTANTS l1, l2, t1, g1, g2, q1, q2, c1, c2

VARIABLE part   \* the component that moves in this behaviour

MCLayouts == {l1, l2}
MCTargets == {t1}
MCRequests == {g1, g2}
RestingDatabase == [layout |-> l1, measurement |-> t1, action |-> t1, revision |-> 1, rules |-> 0]
RestingFlow == [n \in NodeIds |-> [kind |-> "start", next |-> 2]]
RestingRequests ==
  [r \in MCRequests |-> [facade |-> WritePoint, expected |-> 1, pc |-> "new", tries |-> 0,
                         reply |-> "none"]]
MCRequestClients == {q1, q2}
MCConns == {c1, c2}
Row(t, v) == [time |-> t, value |-> v]
Commission(who, rows, isLive, how, twice, runs) ==
  [clients |-> who, histories |-> rows, live |-> isLive, livePoint |-> TRUE, historyPoint |-> TRUE,
   aggregate |-> how, duplicates |-> twice, fallback |-> TRUE, remote |-> TRUE, egress |-> TRUE,
   preapproved |-> FALSE, covariates |-> runs]
OneHistory == {<<Row(1, 2), Row(3, 1)>>}
Histories == {<<Row(2, 1)>>, <<Row(4, 2), Row(4, 1)>>} \cup OneHistory
RestingCommission == Commission({"p", "q"}, OneHistory, FALSE, "last", "latest", FALSE)
MCCommissions ==
  {Commission({"p"}, Histories, TRUE, "last", "latest", FALSE),
   Commission({"p"}, Histories, TRUE, "mean", "latest", FALSE),
   Commission({"p"}, Histories, FALSE, "mean", "reject", FALSE),
   Commission({"p"}, OneHistory, FALSE, "last", "latest", TRUE), RestingCommission}
MCIds == [c \in MCConns |-> c]
MCPages == {{}, {"s"}}
AccountCalls == \E c \in GatewayClients : Accounts(c) \/ LoginLooksUp(c) \/ LoginVerifies(c)
SessionCalls ==
  \/ GatewayRestarts \/ SecondPasses
  \/ \E c \in GatewayClients :
       \/ LoginLooksUp(c) \/ LoginVerifies(c) \/ Logout(c)
       \/ RefreshLooksUp(c) \/ RefreshRemoves(c) \/ RefreshIssues(c)
       \/ DeleteLooksUp(c) \/ DeleteRow(c) \/ DeleteTokens(c) \/ CleanupTokens(c)
ProxyCalls == \E c \in GatewayClients : LoginLooksUp(c) \/ LoginVerifies(c) \/ ProxyService(c)
LastNodes == {n \in Nodes : n.kind = "end" \/ (n.kind # "switch" /\ n.next \in {NoWire, 2})}

Parts == {"routes", "watch", "scheduler", "flow", "governed", "alarms", "alarm rules", "data",
          "hub", "accounts", "sessions", "proxy"}

ModelInit ==
  /\ part \in Parts
  /\ part \notin {"routes", "watch"} => database = RestingDatabase
  /\ AutomationInit
  /\ part = "routes" => database.layout = l1
  /\ part = "watch" => database = RestingDatabase
  /\ part # "scheduler" => point = [r \in OnChange |-> NaN]
  /\ SchedulerInit
  /\ part = "scheduler" => \A r \in OnChange : point[r] = 0
  /\ part # "flow" => flow = RestingFlow
  /\ FlowInit
  /\ part = "flow" => flow[3] \in LastNodes
  /\ part # "governed" => request = RestingRequests
  /\ GovernedInit
  /\ part = "governed" => request[g2].facade = MutateRule
  /\ part # "alarms" => rules = [r \in AlarmRules |-> NoAlarm]
  /\ AlarmInit
  /\ RequestsInit
  /\ part = "alarm rules" => table[1].target.type = "T" /\ table[1].target.point = 1
  /\ part # "alarm rules" => table[1].target = CHOOSE t \in Target : WellShaped(t)
  /\ part # "data" => commission = RestingCommission /\ stored = <<Row(1, 2), Row(3, 1)>>
  /\ DataInit
  /\ HubInit
  /\ AccountsInit

RoutesMoves ==
  /\ part = "routes"
  /\ (Replacing \/ Calling)
  /\ UNCHANGED <<schedulerVars, flowVars, governedVars, alarmVars, requestVars, dataVars,
                 hubVars, accountVars>>

WatchMoves ==
  /\ part = "watch"
  /\ (Replacing \/ Watching)
  /\ database'.revision < MaxRevision
  /\ UNCHANGED <<schedulerVars, flowVars, governedVars, alarmVars, requestVars, dataVars,
                 hubVars, accountVars>>

SchedulerMoves ==
  /\ part = "scheduler"
  /\ SchedulerNext
  /\ UNCHANGED <<automationVars, flowVars, governedVars, alarmVars, requestVars, dataVars,
                 hubVars, accountVars>>

FlowMoves ==
  /\ part = "flow"
  /\ FlowNext
  /\ UNCHANGED <<automationVars, schedulerVars, governedVars, alarmVars, requestVars, dataVars,
                 hubVars, accountVars>>

GovernedMoves ==
  /\ part = "governed"
  /\ GovernedNext
  /\ UNCHANGED <<automationVars, schedulerVars, flowVars, alarmVars, requestVars, dataVars,
                 hubVars, accountVars>>

AlarmsMoves ==
  /\ part = "alarms"
  /\ AlarmNext
  /\ UNCHANGED <<automationVars, schedulerVars, flowVars, governedVars, requestVars, dataVars,
                 hubVars, accountVars>>

AlarmRulesMoves ==
  /\ part = "alarm rules"
  /\ RequestsNext
  /\ UNCHANGED <<automationVars, schedulerVars, flowVars, governedVars, alarmVars, dataVars,
                 hubVars, accountVars>>

DataMoves ==
  /\ part = "data"
  /\ DataNext
  /\ UNCHANGED <<automationVars, schedulerVars, flowVars, governedVars, alarmVars, requestVars,
                 hubVars, accountVars>>

HubMoves ==
  /\ part = "hub"
  /\ (Connecting \/ Pinging)
  /\ UNCHANGED <<automationVars, schedulerVars, flowVars, governedVars, alarmVars, requestVars,
                 dataVars, accountVars>>

AccountsMoves ==
  /\ part = "accounts"
  /\ AccountCalls
  /\ UNCHANGED <<automationVars, schedulerVars, flowVars, governedVars, alarmVars, requestVars,
                 dataVars, hubVars>>

SessionsMoves ==
  /\ part = "sessions"
  /\ SessionCalls
  /\ UNCHANGED <<automationVars, schedulerVars, flowVars, governedVars, alarmVars, requestVars,
                 dataVars, hubVars>>

ProxyMoves ==
  /\ part = "proxy"
  /\ ProxyCalls
  /\ UNCHANGED <<automationVars, schedulerVars, flowVars, governedVars, alarmVars, requestVars,
                 dataVars, hubVars>>

ModelNext == UNCHANGED part /\ (RoutesMoves \/ WatchMoves \/ SchedulerMoves \/ FlowMoves \/
                                GovernedMoves \/ AlarmsMoves \/ AlarmRulesMoves \/ DataMoves \/
                                HubMoves \/ AccountsMoves \/ SessionsMoves \/ ProxyMoves)

modelVars == <<part, automationVars, schedulerVars, flowVars, governedVars, alarmVars,
               requestVars, dataVars, hubVars, accountVars>>

ModelSpec == ModelInit /\ [][ModelNext]_modelVars

\* A rule does what it is configured to do: its cooldown holds, whichever path
\* triggered it, commands carry values that were read, and a success means that
\* every action succeeded.
RulesActAsConfigured == CooldownHolds /\ CooldownIsOwn /\ CommandsUseRealValues /\ SuccessIsComplete

\* Alarms are sound: one alert per rule, none vanishes without a record, no two
\* rules watch one target the same way, and answers tell what was stored.
AlarmsAreSound ==
  OneAlertPerRule /\ AlertsLeaveARecord /\ TargetsAreUnique /\ StoredTargetsAreShaped /\ AnswersAreTrue

\* Processed data is sound: frames match their sources, history was read from
\* the authority, results are consistent and every egress is recorded.
ProcessedDataIsSound ==
  FramesMatchSources /\ HistoryWasAuthoritative /\ ReturnedDataIsSound /\ EgressIsRecorded

\* The gateway keeps its sessions apart: a connection gets its own subscription
\* and is forgotten when it is gone; an administrator remains, a revoked token
\* stays revoked and a forwarded mutation names its user.
GatewaySessionsAreSound ==
  OwnSubscription /\ GoneIsForgotten /\ AccountsStay /\ RevokedStaysRevoked /\ MutationsAreIdentified

\* Routes, rules, walks, requests, alerts, calls, connections and accounts stay
\* in their types.
ServicesTypeOK ==
  /\ AutomationTypeOK /\ SchedulerTypeOK /\ FlowTypeOK /\ GovernedTypeOK
  /\ AlarmTypeOK /\ RequestsTypeOK /\ DataTypeOK /\ HubTypeOK /\ AccountsTypeOK
==============================================================================
