----------------------------- MODULE MCLiveness -----------------------------
\* What must eventually happen, component by component: one component moves
\* in a behaviour, under its own fairness, and the others rest in their
\* initial state.
EXTENDS HomeAssistantSync, ChannelReconciliation, ChannelTask, MeterBus, AutomationTopology,
        RuleEngine, AlarmService, DataProcessing, HistoryService, GatewayHub

VARIABLE part   \* the component that moves in this behaviour

MCFormat == <<"Power", "Energy">>
MCReading == [dl645 |-> <<-213040, 10342>>, aether485 |-> <<513, 255>>]
RestingFlow == [n \in NodeIds |-> [kind |-> "start", next |-> 2]]
Row(t, v) == [time |-> t, value |-> v]
MCCommissions ==
  {[clients |-> {"p"}, histories |-> {<<Row(1, 2), Row(3, 1)>>}, live |-> TRUE, livePoint |-> TRUE,
    historyPoint |-> TRUE, aggregate |-> "last", duplicates |-> "latest", fallback |-> TRUE,
    remote |-> TRUE, egress |-> TRUE, preapproved |-> FALSE, covariates |-> FALSE]}
MCIds == [c \in Conns |-> c]
MCPages == {{}, {"s"}}

Parts == {"sync", "reconcile", "task", "meters", "routes", "scheduler", "flow", "alarms",
          "data", "history", "hub"}

ModelInit ==
  /\ part \in Parts
  /\ SyncInit
  /\ ReconciliationInit
  /\ TaskInit
  /\ BusInit
  /\ part # "meters" => bus.adapter = "dl645" /\ bus.addressOk /\ ~bus.echo
  /\ AutomationInit
  /\ part # "scheduler" => point = [r \in OnChange |-> NaN]
  /\ SchedulerInit
  /\ part # "flow" => flow = RestingFlow
  /\ FlowInit
  /\ part # "alarms" => rules = [r \in AlarmRules |-> NoAlarm]
  /\ AlarmInit
  /\ RequestsInit
  /\ table[1].target = CHOOSE t \in Target : WellShaped(t)
  /\ DataInit
  /\ HistoryInit
  /\ HubInit

SyncMoves ==
  /\ part = "sync"
  /\ SyncNext
  /\ UNCHANGED <<reconciliationVars, taskVars, busVars, automationVars, schedulerVars,
                 flowVars, alarmVars, requestVars, dataVars, historyVars, hubVars>>

ReconcileMoves ==
  /\ part = "reconcile"
  /\ ReconciliationNext
  /\ UNCHANGED <<syncVars, taskVars, busVars, automationVars, schedulerVars, flowVars,
                 alarmVars, requestVars, dataVars, historyVars, hubVars>>

TaskMoves ==
  /\ part = "task"
  /\ TaskNext
  /\ UNCHANGED <<syncVars, reconciliationVars, busVars, automationVars, schedulerVars,
                 flowVars, alarmVars, requestVars, dataVars, historyVars, hubVars>>

MetersMoves ==
  /\ part = "meters"
  /\ BusNext
  /\ UNCHANGED <<syncVars, reconciliationVars, taskVars, automationVars, schedulerVars,
                 flowVars, alarmVars, requestVars, dataVars, historyVars, hubVars>>

RoutesMoves ==
  /\ part = "routes"
  /\ AutomationNext
  /\ UNCHANGED <<syncVars, reconciliationVars, taskVars, busVars, schedulerVars, flowVars,
                 alarmVars, requestVars, dataVars, historyVars, hubVars>>

SchedulerMoves ==
  /\ part = "scheduler"
  /\ SchedulerNext
  /\ UNCHANGED <<syncVars, reconciliationVars, taskVars, busVars, automationVars, flowVars,
                 alarmVars, requestVars, dataVars, historyVars, hubVars>>

FlowMoves ==
  /\ part = "flow"
  /\ FlowNext
  /\ UNCHANGED <<syncVars, reconciliationVars, taskVars, busVars, automationVars,
                 schedulerVars, alarmVars, requestVars, dataVars, historyVars, hubVars>>

AlarmsMoves ==
  /\ part = "alarms"
  /\ AlarmNext
  /\ UNCHANGED requestVars
  /\ UNCHANGED <<syncVars, reconciliationVars, taskVars, busVars, automationVars,
                 schedulerVars, flowVars, dataVars, historyVars, hubVars>>

DataMoves ==
  /\ part = "data"
  /\ DataNext
  /\ UNCHANGED <<syncVars, reconciliationVars, taskVars, busVars, automationVars,
                 schedulerVars, flowVars, alarmVars, requestVars, historyVars, hubVars>>

HistoryMoves ==
  /\ part = "history"
  /\ HistoryNext
  /\ UNCHANGED <<syncVars, reconciliationVars, taskVars, busVars, automationVars,
                 schedulerVars, flowVars, alarmVars, requestVars, dataVars, hubVars>>

HubMoves ==
  /\ part = "hub"
  /\ (Connecting \/ Pushing)
  /\ UNCHANGED <<syncVars, reconciliationVars, taskVars, busVars, automationVars,
                 schedulerVars, flowVars, alarmVars, requestVars, dataVars, historyVars>>

ModelNext == UNCHANGED part /\ (SyncMoves \/ ReconcileMoves \/ TaskMoves \/ MetersMoves \/
                                RoutesMoves \/ SchedulerMoves \/ FlowMoves \/ AlarmsMoves \/
                                DataMoves \/ HistoryMoves \/ HubMoves)

modelVars == <<part, syncVars, reconciliationVars, taskVars, busVars, automationVars,
               schedulerVars, flowVars, alarmVars, requestVars, dataVars, historyVars, hubVars>>

ModelSpec == ModelInit /\ [][ModelNext]_modelVars

moving == CASE part = "sync" -> syncVars
            [] part = "reconcile" -> reconciliationVars
            [] part = "task" -> taskVars
            [] part = "meters" -> busVars
            [] part = "routes" -> automationVars
            [] part = "scheduler" -> schedulerVars
            [] part = "flow" -> flowVars
            [] part = "alarms" -> alarmVars
            [] part = "data" -> dataVars
            [] part = "history" -> historyVars
            [] part = "hub" -> hubVars

\* Each component's own fairness, for the behaviours in which it moves. One
\* component moves in a behaviour, so a disjunction over components is fair
\* exactly when each component's own disjunct is; there is one reader.
ModelFairness ==
  /\ SF_moving(UNCHANGED part /\ (\/ part = "reconcile" /\ AutoStep
                                  \/ part = "routes" /\ RefreshBegins("refresh")
                                  \/ part = "scheduler" /\ Elapse))
  /\ SF_moving(UNCHANGED part /\ part = "routes" /\ RefreshLoads)
  /\ SF_moving(UNCHANGED part /\ part = "routes" /\ RefreshOpens)
  /\ SF_moving(UNCHANGED part /\ part = "routes" /\ RefreshPublishes)
  /\ SF_moving(UNCHANGED part /\ part = "routes" /\ (RefreshStores \/ RefreshWithdraws \/ MutationRevokes \/ MutationRestores))
  /\ WF_moving(UNCHANGED part /\ (\/ part = "sync" /\ SyncConnects
                                  \/ part = "reconcile" /\ CallerStep("p")
                                  \/ part = "task" /\ TaskStep
                                  \/ part = "meters" /\ Sends
                                  \/ part = "routes" /\ IoPublishes
                                  \/ part = "scheduler" /\ RuleTick
                                  \/ part = "flow" /\ FlowStep
                                  \/ part = "alarms" /\ TickChecksAll
                                  \/ part = "data" /\ Passes
                                  \/ part = "history" /\ FlushTakes
                                  \/ part = "hub" /\ PushTick))
  /\ WF_moving(UNCHANGED part /\ (\/ part = "sync" /\ FetchBegins
                                  \/ part = "task" /\ ~device /\ DeviceChanges
                                  \/ part = "meters" /\ BusReceives
                                  \/ part = "routes" /\ RefreshFails /\ job.pc \in {"open", "publish"}
                                  \/ part = "scheduler" /\ Filter
                                  \/ part = "alarms" /\ TimerFires
                                  \/ part = "data" /\ OwnSteps("p")
                                  \/ part = "history" /\ FlushBinds
                                  \/ part = "hub" /\ PushReads))
  /\ WF_moving(UNCHANGED part /\ (\/ part = "sync" /\ EventDuringCommand
                                  \/ part = "meters" /\ ReadEnds
                                  \/ part = "routes" /\ MutationStages
                                  \/ part = "scheduler" /\ WriteBack
                                  \/ part = "alarms" /\ (ReadsPoint("r") \/ LooksUp("r") \/ WritesAlert("r"))
                                  \/ part = "data" /\ OwnSteps("q")
                                  \/ part = "history" /\ FlushWrites
                                  \/ part = "hub" /\ PushSends))
  /\ WF_moving(UNCHANGED part /\ (\/ part = "sync" /\ RegistryListed
                                  \/ part = "routes" /\ MutationCommits
                                  \/ part = "scheduler" /\ (\E d \in pass.due, o \in {"acts", "idles", "fails"} : RuleExecute(d, o))
                                  \/ part = "alarms" /\ (Counts("r") \/ SendsCount("r"))
                                  \/ part = "history" /\ FlushPutsBack
                                  \/ part = "hub" /\ Leaves("c")))
  /\ WF_moving(UNCHANGED part /\ (\/ part = "sync" /\ PowerEnds
                                  \/ part = "routes" /\ Dispatched("operator")
                                  \/ part = "scheduler" /\ (ReloadInstalls \/ RuleStop)
                                  \/ part = "alarms" /\ (Counts("operator") \/ SendsCount("operator"))
                                  \/ part = "hub" /\ Welcomes("c")))
  /\ WF_moving(UNCHANGED part /\ (\/ part = "sync" /\ StatesListed
                                  \/ part = "routes" /\ RebuildPins
                                  \/ part = "alarms" /\ (Counts("timer") \/ SendsCount("timer"))
                                  \/ part = "hub" /\ ChannelCloses("c")))
  /\ WF_moving(UNCHANGED part /\ (\/ part = "sync" /\ NextEvent
                                  \/ part = "routes" /\ RebuildReloads
                                  \/ part = "hub" /\ HubSubscribes("c")))
  /\ WF_moving(UNCHANGED part /\ (\/ part = "sync" /\ ReadFails
                                  \/ part = "routes" /\ RebuildIndexes
                                  \/ part = "hub" /\ Leaves("d")))
  /\ WF_moving(UNCHANGED part /\ (\/ part = "routes" /\ RebuildReadies
                                  \/ part = "hub" /\ Welcomes("d")))
  /\ WF_moving(UNCHANGED part /\ part = "hub" /\ ChannelCloses("d"))
  /\ WF_moving(UNCHANGED part /\ part = "hub" /\ HubSubscribes("d"))

FairModel == ModelSpec /\ ModelFairness

\* What was disturbed comes back: the projection of Home Assistant, the running
\* channels, a channel's connection and automation's command routes.
DisturbedComesBack ==
  /\ part = "sync" => SyncCatchesUp
  /\ part = "reconcile" => Reconverges
  /\ part = "task" => LinkRecovers
  /\ part = "routes" => RoutesRecover

\* What changes is noticed: a rule evaluates a changed point, an alert and the
\* count of alerts follow the points, buffered history is written and a
\* subscribed connection shows the live value.
ChangesAreNoticed ==
  /\ part = "scheduler" => ChangesAreSeen
  /\ part = "alarms" => AlarmFollowsPoint /\ CountSettles
  /\ part = "history" => BufferDrains
  /\ part = "hub" => ValuesArrive

\* What starts ends: a poll of a meter, an execution of a rule's flow and a data
\* processing call.
WorkEnds ==
  /\ part = "meters" => PollEnds
  /\ part = "flow" => ExecutionEnds
  /\ part = "data" => CallsEnd
==============================================================================
