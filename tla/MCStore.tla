------------------------------- MODULE MCStore -------------------------------
\* What is kept on disk: the outbox and its recovery, the CloudLink spool,
\* the history buffer, the schema of the site database and the
\* configuration in it. One component moves in a behaviour, the others rest
\* in their initial state.
EXTENDS FileOutbox, JournalRecovery, CloudLinkSpool, HistoryService, SchemaMigration,
        SiteConfiguration

CONSTANTS m1, c1

VARIABLE part   \* the component that moves in this behaviour

MCMessages == {m1}
MCClients == {c1}
MCInputs == {<<"a", 1>>, <<"a", 2>>, <<"b", 1>>}
MCSiteNames == [a |-> 1, b |-> 2]
MCSiteConfigs ==
  {[settings |-> "own", channels |-> {1, 99}, form |-> "array", instances |-> <<"b", "a">>,
    routed |-> {"a"}, actions |-> FALSE, rules |-> {[name |-> "r"]}]}
RestingDb == CHOOSE d \in Legacies : TRUE
RestingDisk == [missing |-> {}, config |-> SafeConfig]

Parts == {"outbox", "recovery", "spool", "history", "paging", "schema", "site"}

ModelInit ==
  /\ part \in Parts
  /\ OutboxInit
  /\ part # "recovery" => file = <<>>
  /\ RecoveryInit
  /\ SpoolInit
  /\ HistoryInit
  /\ part # "schema" => db = RestingDb
  /\ SchemaInit
  /\ part # "site" => disk = RestingDisk /\ site = NoSite
  /\ SiteInit

OutboxMoves ==
  /\ part = "outbox"
  /\ OutboxNext
  /\ UNCHANGED <<recoveryVars, spoolVars, historyVars, schemaVars, siteVars>>

RecoveryMoves ==
  /\ part = "recovery"
  /\ RecoveryNext
  /\ UNCHANGED <<outboxVars, spoolVars, historyVars, schemaVars, siteVars>>

SpoolMoves ==
  /\ part = "spool"
  /\ SpoolNext
  /\ UNCHANGED <<outboxVars, recoveryVars, historyVars, schemaVars, siteVars>>

HistoryMoves ==
  /\ part = "history"
  /\ (Writing \/ Cleaning \/ Operating)
  /\ UNCHANGED <<outboxVars, recoveryVars, spoolVars, schemaVars, siteVars>>

PagingMoves ==
  /\ part = "paging"
  /\ (Writing \/ Cleaning \/ Paging)
  /\ UNCHANGED <<outboxVars, recoveryVars, spoolVars, schemaVars, siteVars>>

SchemaMoves ==
  /\ part = "schema"
  /\ SchemaNext
  /\ UNCHANGED <<outboxVars, recoveryVars, spoolVars, historyVars, siteVars>>

SiteMoves ==
  /\ part = "site"
  /\ SiteNext
  /\ UNCHANGED <<outboxVars, recoveryVars, spoolVars, historyVars, schemaVars>>

\* These models end where their bounds are used up.
Bounded == {"recovery", "spool", "history", "paging", "schema", "site"}

BoundsUsedUp ==
  /\ part \in Bounded
  /\ UNCHANGED <<outboxVars, recoveryVars, spoolVars, historyVars, schemaVars, siteVars>>

ModelNext == UNCHANGED part /\ (OutboxMoves \/ RecoveryMoves \/ SpoolMoves \/ HistoryMoves \/
                                PagingMoves \/ SchemaMoves \/ SiteMoves \/ BoundsUsedUp)

modelVars == <<part, outboxVars, recoveryVars, spoolVars, historyVars, schemaVars, siteVars>>

ModelSpec == ModelInit /\ [][ModelNext]_modelVars

\* The CloudLink spool accounts for every record: it is retained until it is
\* acknowledged or its loss is evidenced, and the journal says what memory says.
SpoolAccountsForAll == RetainedUntilAcknowledged /\ LossIsEvidenced /\ JournalIsState

\* History is complete: what was collected is kept and in order, settings
\* survive, and paging through a result misses no row.
HistoryIsComplete == CollectedIsKept /\ BufferIsOrdered /\ SettingsSurvive /\ PagingMissesNothing

\* A site survives its upgrades and its commissioning: a database is brought to
\* the current schema with its rows, whoever opens it when, routes keep both ends,
\* an owner that was stopped for a synchronisation cannot write afterwards, and
\* one setup writes at a time.
SiteIsKept ==
  /\ RowsSurvive /\ StampedIsCurrent /\ OldTokensDie /\ ReopeningCompletes
  /\ RoutesHaveEnds /\ StaleOwnersCannotWrite /\ OneSetupWrites

\* The journal and its worker, the recovery loop, the spool, the history buffer and
\* the site database stay in their types.
StoreTypeOK ==
  /\ OutboxTypeOK /\ RecoveryTypeOK /\ SpoolTypeOK /\ HistoryTypeOK
  /\ SchemaTypeOK /\ SiteTypeOK

\* The behaviours of the site configuration alone
SiteModelSpec == ModelInit /\ part = "site" /\ [][ModelNext]_modelVars
==============================================================================
