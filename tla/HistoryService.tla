--------------------------- MODULE HistoryService ---------------------------
(***************************************************************************)
(* The historian: a collector samples the live series into a buffer, a     *)
(* flusher writes the buffer to the storage backend in batches, a nightly  *)
(* cleanup removes what is older than the retention, an operator changes   *)
(* the backend and reconnects, and clients page through the rows.          *)
(*                                                                         *)
(* The tasks share the buffer, the settings and the backend handle, each   *)
(* under a lock of its own that is not held across an await: between       *)
(* reading one and using it the others move.                               *)
(*                                                                         *)
(* One logical series.  A sample is its SHM time; a row is a sample with   *)
(* its row number.                                                         *)
(***************************************************************************)
EXTENDS Integers, Sequences, FiniteSets
LOCAL INSTANCE FiniteSetsExt
LOCAL INSTANCE SequencesExt

CONSTANTS
  Stores,          \* storage backends that can be configured
  HistoryBatch,           \* batch_size
  Retention,       \* cleanup_older_than_days, in ticks
  PageSize,        \* rows of one page
  MaxHistoryTime,         \* samples the device produces
  MaxCollections,  \* intervals the collector sees
  MaxRowId,        \* rows ever written
  MaxPuts,         \* PUT /hisApi/storage calls
  MaxHistoryOutages,      \* backend writes and connections that fail
  MaxBoots         \* restarts of the service

VARIABLES
  shmTime,      \* time of the sample now in shared memory
  kept,         \* state.config: the retention in force
  settings,     \* state.storage_settings
  settingsRow,  \* the same in the configuration database
  active,       \* state.storage: the backend handle in use
  pending,      \* state.buffer
  collected,    \* intervals of the series collected so far
  flush,        \* the flush in progress
  rowsOf,       \* rows each backend holds
  nextRow,      \* next row number
  operator,     \* the storage request in progress
  cleanup,      \* the cleanup in progress
  client,       \* the client that pages through the rows
  fates,        \* samples ever collected; samples removed by cleanup or lost with the process
  use           \* puts, outages and boots so far

historyVars == <<shmTime, kept, settings, settingsRow, active, pending, collected, flush,
                 rowsOf, nextRow, operator, cleanup, client, fates, use>>

Disabled == "disabled"
Samples(rows) == {r.time : r \in rows}
IsRunning == settings.enabled /\ active # Disabled
NoFlush == [pc |-> "idle", store |-> Disabled, chunks |-> <<>>, failed |-> <<>>]
NoPaging == [pc |-> "idle", page |-> 0, seen |-> {}, first |-> {}, more |-> FALSE]
NoRequest == [pc |-> "idle", want |-> [enabled |-> FALSE, store |-> Disabled]]

\* Samples in the hands of the flush.
InFlush == Range(flush.failed) \cup UNION {Range(flush.chunks[i]) : i \in DOMAIN flush.chunks}

HistoryFails == use.outages < MaxHistoryOutages
Faulted == [use EXCEPT !.outages = @ + 1]

\* The chunks of a batch, in order.
Chunks(s) ==
  [i \in 1..((Len(s) + HistoryBatch - 1) \div HistoryBatch) |->
     SubSeq(s, (i - 1) * HistoryBatch + 1, IF i * HistoryBatch < Len(s) THEN i * HistoryBatch ELSE Len(s))]

-----------------------------------------------------------------------------
(* Start-up: settings from the database, a backend if it is enabled.        *)

HistoryInit ==
  /\ shmTime = 1 /\ kept = Retention
  /\ settings = [enabled |-> TRUE, store |-> "sqlite"]
  /\ settingsRow = [enabled |-> TRUE, store |-> "sqlite"]
  /\ active = "sqlite"
  /\ pending = <<>> /\ collected = 0 /\ flush = NoFlush
  /\ rowsOf = [b \in Stores |-> {}] /\ nextRow = 1
  /\ operator = NoRequest /\ cleanup = 0 /\ client = NoPaging
  /\ fates = [taken |-> {}, lost |-> {}]
  /\ use = [puts |-> 0, outages |-> 0, boots |-> 0]

\* Memory starts empty; an optional backend that cannot be reached leaves the
\* null backend in place, and the settings keep the operator's intent.
Starts(reachable) ==
  /\ settings' = settingsRow
  /\ active' = IF settingsRow.enabled /\ (reachable \/ settingsRow.store = "sqlite")
               THEN settingsRow.store ELSE Disabled
  /\ pending' = <<>> /\ flush' = NoFlush
  /\ operator' = NoRequest /\ cleanup' = 0
  /\ fates' = [fates EXCEPT !.lost = @ \cup Range(pending) \cup InFlush]

Reboots ==
  /\ use.boots < MaxBoots
  /\ use' = [use EXCEPT !.boots = @ + 1]
  /\ \E reachable \in BOOLEAN : Starts(reachable)
  /\ UNCHANGED <<shmTime, kept, settingsRow, collected, rowsOf, nextRow, client>>

-----------------------------------------------------------------------------
(* Collecting.                                                              *)

DeviceAdvances ==
  /\ shmTime < MaxHistoryTime
  /\ shmTime' = shmTime + 1
  /\ UNCHANGED <<kept, settings, settingsRow, active, pending, collected, flush, rowsOf,
                 nextRow, operator, cleanup, client, fates, use>>

\* A series whose interval has passed is read whole or not at all: a layout that
\* no longer validates, or one slot that cannot be read, leaves it due.  A sample
\* that has not changed since the last interval is collected again.
Collects ==
  /\ IsRunning /\ collected < MaxCollections
  /\ \/ /\ collected' = collected + 1
        /\ pending' = Append(pending, shmTime)
        /\ fates' = [fates EXCEPT !.taken = @ \cup {shmTime}]
        /\ UNCHANGED use
     \/ /\ HistoryFails /\ use' = Faulted
        /\ UNCHANGED <<collected, pending, fates>>
  /\ UNCHANGED <<shmTime, kept, settings, settingsRow, active, flush, rowsOf, nextRow,
                 operator, cleanup, client>>

-----------------------------------------------------------------------------
(* Flushing.                                                                *)

\* The buffer is taken whole; the backend is read after that.
FlushTakes ==
  /\ flush.pc = "idle" /\ IsRunning /\ pending # <<>>
  /\ flush' = [NoFlush EXCEPT !.pc = "taken", !.chunks = Chunks(pending)]
  /\ pending' = <<>>
  /\ UNCHANGED <<shmTime, kept, settings, settingsRow, active, collected, rowsOf, nextRow,
                 operator, cleanup, client, fates, use>>

FlushBinds ==
  /\ flush.pc = "taken"
  /\ flush' = [flush EXCEPT !.pc = "write", !.store = active]
  /\ UNCHANGED <<shmTime, kept, settings, settingsRow, active, pending, collected, rowsOf,
                 nextRow, operator, cleanup, client, fates, use>>

RowsFor(chunk) == {[id |-> nextRow + i - 1, time |-> chunk[i]] : i \in DOMAIN chunk}

FlushRetriesInPlace ==
  /\ flush.pc = "write" /\ flush.chunks # <<>>
  /\ flush.store # Disabled /\ nextRow + Len(Head(flush.chunks)) - 1 <= MaxRowId
  /\ rowsOf' = [rowsOf EXCEPT ![flush.store] = @ \cup RowsFor(Head(flush.chunks))]
  /\ nextRow' = nextRow + Len(Head(flush.chunks))
  /\ flush' = [flush EXCEPT !.chunks = Tail(@)]
  /\ UNCHANGED <<shmTime, kept, settings, settingsRow, active, pending, collected, operator,
                 cleanup, client, fates, use>>

\* One transaction (or one INSERT) per chunk: all of it or none of it.  The null
\* backend refuses every write.
FlushWrites ==
  /\ flush.pc = "write" /\ flush.chunks # <<>>
  /\ LET chunk == Head(flush.chunks)
         stays == flush' = [flush EXCEPT !.chunks = Tail(@), !.failed = @ \o chunk]
     IN  \/ /\ flush.store # Disabled /\ nextRow + Len(chunk) - 1 <= MaxRowId
            /\ rowsOf' = [rowsOf EXCEPT ![flush.store] = @ \cup RowsFor(chunk)]
            /\ nextRow' = nextRow + Len(chunk)
            /\ flush' = [flush EXCEPT !.chunks = Tail(@)]
            /\ UNCHANGED use
         \/ /\ flush.store = Disabled /\ stays
            /\ UNCHANGED <<rowsOf, nextRow, use>>
         \/ /\ flush.store # Disabled /\ HistoryFails /\ use' = Faulted /\ stays
            /\ UNCHANGED <<rowsOf, nextRow>>
  /\ UNCHANGED <<shmTime, kept, settings, settingsRow, active, pending, collected, operator,
                 cleanup, client, fates>>

FlushPutsBackOverwriting ==
  /\ flush.pc = "write" /\ flush.chunks = <<>>
  /\ pending' = IF flush.failed = <<>> THEN pending ELSE flush.failed
  /\ flush' = NoFlush
  /\ UNCHANGED <<shmTime, kept, settings, settingsRow, active, collected, rowsOf, nextRow,
                 operator, cleanup, client, fates, use>>

\* What failed goes back in front of what was collected meanwhile.
FlushPutsBack ==
  /\ flush.pc = "write" /\ flush.chunks = <<>>
  /\ pending' = flush.failed \o pending
  /\ flush' = NoFlush
  /\ UNCHANGED <<shmTime, kept, settings, settingsRow, active, collected, rowsOf, nextRow,
                 operator, cleanup, client, fates, use>>

-----------------------------------------------------------------------------
(* Cleaning up.                                                             *)

\* The retention is read, then the backend is asked to delete.
CleanupReads ==
  /\ cleanup = 0 /\ IsRunning
  /\ cleanup' = kept
  /\ UNCHANGED <<shmTime, kept, settings, settingsRow, active, pending, collected, flush, rowsOf,
                 nextRow, operator, client, fates, use>>

HistoryExpired(rows, days) == {r \in rows : r.time < shmTime - days}

CleanupDeletes ==
  /\ cleanup > 0
  /\ \/ /\ active # Disabled
        /\ rowsOf' = [rowsOf EXCEPT ![active] = @ \ HistoryExpired(@, cleanup)]
        /\ fates' = [fates EXCEPT !.lost = @ \cup Samples(HistoryExpired(rowsOf[active], cleanup))]
     \/ UNCHANGED <<rowsOf, fates>>
  /\ cleanup' = 0
  /\ UNCHANGED <<shmTime, kept, settings, settingsRow, active, pending, collected, flush,
                 nextRow, operator, client, use>>

-----------------------------------------------------------------------------
(* The operator: PUT /hisApi/storage, POST /hisApi/storage/reconnect.       *)

\* Missing fields are refused before anything changes; then the row, the handle
\* (the null backend at once when storage is disabled) and the memory.
PutSaves ==
  /\ operator.pc = "idle" /\ use.puts < MaxPuts
  /\ \E want \in [enabled : BOOLEAN, store : Stores] :
       \/ /\ settingsRow' = want
          /\ operator' = [pc |-> "put", want |-> want]
          /\ use' = [use EXCEPT !.puts = @ + 1]
       \/ /\ HistoryFails /\ use' = [Faulted EXCEPT !.puts = @ + 1]
          /\ UNCHANGED <<settingsRow, operator>>
  /\ UNCHANGED <<shmTime, kept, settings, active, pending, collected, flush, rowsOf, nextRow,
                 cleanup, client, fates>>

PutSwaps ==
  /\ operator.pc = "put"
  /\ active' = IF operator.want.enabled THEN active ELSE Disabled
  /\ operator' = [operator EXCEPT !.pc = "set"]
  /\ UNCHANGED <<shmTime, kept, settings, settingsRow, pending, collected, flush, rowsOf, nextRow,
                 cleanup, client, fates, use>>

PutAnswers ==
  /\ operator.pc = "set"
  /\ settings' = operator.want
  /\ operator' = NoRequest
  /\ UNCHANGED <<shmTime, kept, settingsRow, active, pending, collected, flush, rowsOf, nextRow,
                 cleanup, client, fates, use>>

\* PUT /hisApi/config: normalised (never below one), saved, then in force.
PutConfig ==
  /\ operator.pc = "idle" /\ use.puts < MaxPuts
  /\ use' = [use EXCEPT !.puts = @ + 1]
  /\ \E days \in {0, Retention, Retention + 1} : kept' = IF days < 1 THEN 1 ELSE days
  /\ UNCHANGED <<shmTime, settings, settingsRow, active, pending, collected, flush, rowsOf, nextRow,
                 operator, cleanup, client, fates>>

\* Reconnecting reads the settings, connects and installs the handle.
ReconnectReads ==
  /\ operator.pc = "idle" /\ settings.enabled
  /\ operator' = [pc |-> "connect", want |-> settings]
  /\ UNCHANGED <<shmTime, kept, settings, settingsRow, active, pending, collected, flush, rowsOf,
                 nextRow, cleanup, client, fates, use>>

ReconnectConnects ==
  /\ operator.pc = "connect"
  /\ \/ active' = operator.want.store /\ UNCHANGED use
     \/ HistoryFails /\ use' = Faulted /\ UNCHANGED active
  /\ operator' = NoRequest
  /\ UNCHANGED <<shmTime, kept, settings, settingsRow, pending, collected, flush, rowsOf, nextRow,
                 cleanup, client, fates>>

-----------------------------------------------------------------------------
(* A client that reads page after page while has_more says so.              *)

\* ORDER BY time DESC LIMIT size OFFSET (page - 1) * size.
Newest(rows) == SetToSortSeq(rows, LAMBDA a, b : a.time > b.time \/ (a.time = b.time /\ a.id > b.id))

PageOf(rows, page) ==
  LET s == Newest(rows)
      from == (page - 1) * PageSize + 1
  IN  Range(SubSeq(s, from, IF page * PageSize < Len(s) THEN page * PageSize ELSE Len(s)))

\* The rows are read, then counted.
PageReads ==
  /\ client.pc = "idle" /\ active = "sqlite"
  /\ client.page = 0 \/ client.more
  /\ LET page == client.page + 1
         rows == rowsOf["sqlite"]
     IN  client' = [client EXCEPT !.pc = "count", !.page = page,
                      !.seen = @ \cup PageOf(rows, page),
                      !.first = IF page = 1 THEN rows ELSE @]
  /\ UNCHANGED <<shmTime, kept, settings, settingsRow, active, pending, collected, flush, rowsOf,
                 nextRow, operator, cleanup, fates, use>>

HasMore(page, total) == page * PageSize < total

PageCounts ==
  /\ client.pc = "count"
  /\ client' = [client EXCEPT !.pc = "idle",
                  !.more = HasMore(client.page, Cardinality(rowsOf["sqlite"]))]
  /\ UNCHANGED <<shmTime, kept, settings, settingsRow, active, pending, collected, flush, rowsOf,
                 nextRow, operator, cleanup, fates, use>>

-----------------------------------------------------------------------------

Writing ==
  \/ DeviceAdvances \/ Collects
  \/ FlushTakes \/ FlushBinds \/ FlushWrites \/ FlushPutsBack
Cleaning == CleanupReads \/ CleanupDeletes
Operating ==
  \/ Reboots
  \/ PutSaves \/ PutSwaps \/ PutAnswers \/ PutConfig \/ ReconnectReads \/ ReconnectConnects
Paging == PageReads \/ PageCounts

HistoryNext == Writing \/ Cleaning \/ Operating \/ Paging

HistorySpec == HistoryInit /\ [][HistoryNext]_historyVars

\* The flush task runs on its interval for as long as the process lives.
HistoryFairness ==
  /\ WF_historyVars(FlushTakes) /\ WF_historyVars(FlushBinds)
  /\ WF_historyVars(FlushWrites) /\ WF_historyVars(FlushPutsBack)

-----------------------------------------------------------------------------

HistoryTypeOK ==
  /\ shmTime \in 1..MaxHistoryTime /\ collected \in 0..MaxCollections /\ nextRow \in 1..(MaxRowId + 1)
  /\ active \in Stores \cup {Disabled}
  /\ settings \in [enabled : BOOLEAN, store : Stores]
  /\ settingsRow \in [enabled : BOOLEAN, store : Stores]
  /\ pending \in Seq(1..MaxHistoryTime)
  /\ flush.pc \in {"idle", "taken", "write"}
  /\ operator.pc \in {"idle", "put", "set", "connect"}

\* Every sample the collector took is waiting in the buffer, in the hands of the
\* flush, or a row of a backend, until retention removes it or the process dies:
\* a failing or replaced backend and samples that arrive during a flush lose
\* nothing.
CollectedIsKept ==
  \A t \in fates.taken :
    \/ t \in Range(pending) \cup InFlush \cup fates.lost
    \/ \E b \in Stores : t \in Samples(rowsOf[b])

\* The buffer holds samples oldest first, also after a failed flush put its
\* batch back.
BufferIsOrdered == \A i, j \in DOMAIN pending : i < j => pending[i] <= pending[j]

\* Once a storage request has been answered, a restart comes back with the
\* settings that are in force.
SettingsSurvive == operator.pc \in {"idle", "connect"} => settings = settingsRow

\* A client that follows has_more to the end has seen every row that was there
\* from its first page to its last, whatever was flushed or cleaned up between
\* the pages.
PagingMissesNothing ==
  client.pc = "idle" /\ client.page > 0 /\ ~client.more =>
    (client.first \cap rowsOf["sqlite"]) \subseteq client.seen

\* "If disabling, immediately swap in NullBackend so writes stop": no row is
\* added while storage is disabled.
DisabledStopsWrites ==
  [][~settings.enabled /\ operator.pc = "idle" => nextRow' = nextRow]_historyVars

\* Once the backend works for good, what was collected is written: neither a
\* backend that was swapped under the flush nor a failed batch leaves samples
\* waiting for ever.
BufferDrains ==
  <>[]IsRunning => []<>(pending = <<>> /\ flush.pc = "idle")
=============================================================================
