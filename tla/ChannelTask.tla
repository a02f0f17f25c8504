---------------------------- MODULE ChannelTask ----------------------------
(***************************************************************************)
(* One channel of the io service: the task that owns the protocol client   *)
(* (services/io/src/core/channels/channel_task.rs), its reconnection       *)
(* policy (services/io/src/runtime/reconnect.rs), the entry through which  *)
(* other tasks ask it to connect or to stop (channel_entry.rs), and the    *)
(* online bit it publishes to the channel-health plane.                    *)
(*                                                                         *)
(* A step of the task is one arm of its select loop, up to the awaits at   *)
(* which another command can reach it (the backoff sleep) or at which it   *)
(* can be aborted (a poll or a connect on a device that does not answer).  *)
(***************************************************************************)
EXTENDS Integers, Sequences

CONSTANTS
  Requests,      \* what entries send: subset of {"connect","disconnect","query"}
  MaxRequests,   \* bound on such requests
  MaxQueue,      \* capacity of the protocol command queue
  MaxAttempts,   \* ReconnectPolicy.max_attempts, 0 for unlimited
  MaxRounds,     \* AutoRecoveryPolicy.max_recovery_rounds
  ZeroThreshold, \* zero_data_threshold
  MaxOutages,    \* bound on losses of the device
  MaxBusiness    \* bound on device commands

VARIABLES
  device,    \* the device answers
  link,      \* protocol.connection_state().is_connected()
  helper,    \* ReconnectHelper: [state, attempt, rounds, total]
  stage,     \* where the task is
  inbox,     \* protocol_rx
  prevOnline,\* prev_online: "none", "online", "offline"
  health,    \* the channel's slot in the health plane: "unknown", "online", "offline"
  cached,    \* cached_state as is_connected() sees it
  zero,      \* consecutive_zero_data
  entry,     \* "open", "closing" (500 ms to exit), "removed"
  requests, outages, business,
  retries    \* reconnection attempts since the link was last up

taskVars == <<device, link, helper, stage, inbox, prevOnline, health, cached,
              zero, entry, requests, outages, business, retries>>

NewHelper == [state |-> "Disconnected", attempt |-> 0, rounds |-> 0, total |-> 0]

TaskInit ==
  /\ device = TRUE
  /\ link = FALSE
  /\ helper = NewHelper
  /\ stage = "boot"
  /\ inbox = <<>>
  /\ prevOnline = "none"
  /\ health = "unknown"
  /\ cached = FALSE
  /\ zero = 0
  /\ entry = "open"
  /\ requests = 0 /\ outages = 0 /\ business = 0 /\ retries = 0

---------------------------------------------------------------------------
(* ReconnectHelper.                                                        *)

MarkConnected(h) == [h EXCEPT !.state = "Connected", !.attempt = 0, !.rounds = 0]

Exhausted(h) == MaxAttempts > 0 /\ h.attempt >= MaxAttempts

(* Counts stop at the first value no test of the code distinguishes.       *)
RecordAttempt(h) ==
  IF Exhausted(h)
  THEN [h EXCEPT !.state = "Failed"]
  ELSE [h EXCEPT !.state = "Reconnecting",
                 !.attempt = IF MaxAttempts = 0 THEN 0 ELSE @ + 1,
                 !.total = IF @ = 2 THEN 2 ELSE @ + 1]

RecordFailure(h) == [h EXCEPT !.state = IF Exhausted(h) THEN "Failed" ELSE "Disconnected"]

CanRecover(h) == h.state = "Failed" /\ h.rounds < MaxRounds

LinkRecovered(h) == [h EXCEPT !.state = "Disconnected", !.attempt = 0, !.rounds = @ + 1]

---------------------------------------------------------------------------
(* Steps of the task.                                                      *)

(* update_cached_state and check_online_change with the link as it is left *)
(* by the step: the health plane is written only when it changed.          *)
LinkPublish(up) ==
  LET online == IF up THEN "online" ELSE "offline" IN
  /\ cached' = up
  /\ prevOnline' = online
  /\ health' = IF prevOnline = online THEN health ELSE online

Quiet == UNCHANGED <<cached, prevOnline, health>>
Counters == UNCHANGED <<requests, outages, business>>

(* The task sleeps 500 ms before its first look at the client.             *)
Boot ==
  /\ stage = "boot"
  /\ stage' = "loop"
  /\ LinkPublish(link)
  /\ Counters
  /\ UNCHANGED <<device, link, helper, inbox, zero, entry, retries>>

(* Priority 1: protocol commands.  Shutdown ends the loop; a connection    *)
(* made or dropped here is seen by the next tick.                          *)
HandleProtocolCommand ==
  /\ stage = "loop" /\ inbox # <<>>
  /\ inbox' = Tail(inbox)
  /\ CASE Head(inbox) = "shutdown"   -> stage' = "exit" /\ UNCHANGED link
       [] Head(inbox) = "connect"    -> link' = device /\ UNCHANGED stage
       [] Head(inbox) = "disconnect" -> link' = FALSE /\ UNCHANGED stage
       [] Head(inbox) = "query"      -> UNCHANGED <<link, stage>>
  /\ retries' = IF link' THEN 0 ELSE retries
  /\ Quiet /\ Counters
  /\ UNCHANGED <<device, helper, zero, entry>>

(* Priority 2: a device command, written to the client whatever the state  *)
(* of the link; the client may notice that the link is gone.               *)
HandleBusinessCommand ==
  /\ stage = "loop" /\ inbox = <<>>
  /\ business < MaxBusiness
  /\ business' = business + 1
  /\ link' \in {link, link /\ device}
  /\ Quiet
  /\ UNCHANGED <<device, helper, stage, inbox, zero, entry, requests, outages, retries>>

(* Priority 3: an event-driven client reports its connection state.        *)
ConnectionChanged ==
  /\ stage = "loop" /\ inbox = <<>>
  /\ link # cached
  /\ LinkPublish(link)
  /\ Counters
  /\ UNCHANGED <<device, link, helper, stage, inbox, zero, entry, retries>>

(* Priority 4, connected: poll.  Data resets the zero count; polls without *)
(* data drop the connection at the threshold; a poll may notice that the   *)
(* link is gone.                                                           *)
Poll ==
  /\ stage = "loop" /\ inbox = <<>> /\ link
  /\ helper' = IF helper.state = "Connected" THEN helper ELSE MarkConnected(helper)
  /\ retries' = 0
  /\ \/ /\ device
        /\ zero' = 0
        /\ UNCHANGED link
     \/ /\ ~device
        /\ IF ZeroThreshold > 0 /\ zero + 1 >= ZeroThreshold
           THEN zero' = 0 /\ link' = FALSE
           ELSE /\ zero' = IF ZeroThreshold > 0 THEN zero + 1 ELSE 0
                /\ link' \in BOOLEAN
  /\ LinkPublish(link')
  /\ Counters
  /\ UNCHANGED <<device, stage, inbox, entry>>

(* Priority 4, disconnected.  A failed helper waits for its cooldown and   *)
(* then starts over, for a limited number of rounds.                       *)
FailedTick ==
  /\ stage = "loop" /\ inbox = <<>> /\ ~link
  /\ helper.state = "Failed"
  /\ helper' = IF CanRecover(helper) THEN LinkRecovered(helper) ELSE helper
  /\ LinkPublish(link)
  /\ Counters
  /\ UNCHANGED <<device, link, stage, inbox, zero, entry, retries>>

(* Otherwise an attempt is recorded and, unless it is the first ever, the  *)
(* task sleeps before it.  A helper that is Reconnecting does nothing.     *)
BeginAttempt ==
  /\ stage = "loop" /\ inbox = <<>> /\ ~link
  /\ helper.state \in {"Connected", "Disconnected"}
  /\ helper' = RecordAttempt(helper)
  /\ IF helper'.state = "Failed"
     THEN /\ LinkPublish(link)
          /\ UNCHANGED <<stage, retries>>
     ELSE /\ stage' = IF helper'.total > 1 THEN "backoff" ELSE "attempt"
          /\ retries' = IF MaxAttempts = 0 THEN 0 ELSE retries + 1
          /\ Quiet
  /\ Counters
  /\ UNCHANGED <<device, link, inbox, zero, entry>>

BackoffElapses ==
  /\ stage = "backoff"
  /\ stage' = "attempt"
  /\ Quiet /\ Counters
  /\ UNCHANGED <<device, link, helper, inbox, zero, entry, retries>>

(* A protocol command that arrives during the sleep ends the tick: the     *)
(* attempt is not made, and only a successful connect resets the helper.   *)
BackoffCommand ==
  /\ stage = "backoff" /\ inbox # <<>>
  /\ inbox' = Tail(inbox)
  /\ stage' = IF Head(inbox) = "shutdown" THEN "exit" ELSE "loop"
  /\ link' = (Head(inbox) = "connect" /\ device)
  /\ helper' = IF link' THEN MarkConnected(helper) ELSE helper
  /\ retries' = IF link' THEN 0 ELSE retries
  /\ LinkPublish(link')
  /\ Counters
  /\ UNCHANGED <<device, zero, entry>>

(* The attempt, with its 30 s timeout.                                     *)
Attempt ==
  /\ stage = "attempt"
  /\ stage' = "loop"
  /\ link' = device
  /\ helper' = IF device THEN MarkConnected(helper) ELSE RecordFailure(helper)
  /\ retries' = IF device THEN 0 ELSE retries
  /\ LinkPublish(link')
  /\ Counters
  /\ UNCHANGED <<device, inbox, zero, entry>>

(* After the loop: disconnect, and publish offline unconditionally.        *)
Exit ==
  /\ stage = "exit"
  /\ stage' = "done"
  /\ link' = FALSE /\ cached' = FALSE /\ health' = "offline"
  /\ Counters
  /\ UNCHANGED <<device, helper, inbox, prevOnline, zero, entry, retries>>

TaskStep ==
  \/ Boot \/ HandleProtocolCommand \/ HandleBusinessCommand \/ ConnectionChanged
  \/ Poll \/ FailedTick \/ BeginAttempt \/ BackoffElapses \/ BackoffCommand
  \/ Attempt \/ Exit

---------------------------------------------------------------------------
(* The entry and the manager.                                              *)

(* connect(), disconnect(), diagnostics and log level requests wait for a  *)
(* place in the queue.                                                     *)
LinkSend(kind) ==
  /\ entry = "open" /\ requests < MaxRequests
  /\ Len(inbox) < MaxQueue
  /\ inbox' = Append(inbox, kind)
  /\ requests' = requests + 1
  /\ Quiet
  /\ UNCHANGED <<device, link, helper, stage, zero, entry, outages, business, retries>>

RemoveChannelQueueing ==
  /\ entry = "open"
  /\ entry' = "closing"
  /\ inbox' = Append(inbox, "shutdown")
  /\ Quiet /\ Counters
  /\ UNCHANGED <<device, link, helper, stage, zero, retries>>

(* remove_channel: the shutdown is only tried, a full queue loses it.      *)
RemoveChannel ==
  /\ entry = "open"
  /\ entry' = "closing"
  /\ inbox' = IF Len(inbox) < MaxQueue THEN Append(inbox, "shutdown") ELSE inbox
  /\ Quiet /\ Counters
  /\ UNCHANGED <<device, link, helper, stage, zero, retries>>

TaskJoined ==
  /\ entry = "closing" /\ stage = "done"
  /\ entry' = "removed"
  /\ Quiet /\ Counters
  /\ UNCHANGED <<device, link, helper, stage, inbox, zero, retries>>

(* 500 ms pass while the task waits: for the device, or for its backoff.   *)
TaskAborted ==
  /\ entry = "closing" /\ stage # "done"
  /\ ~device \/ stage = "boot"
  /\ entry' = "removed"
  /\ stage' = "aborted"
  /\ Quiet /\ Counters
  /\ UNCHANGED <<device, link, helper, inbox, zero, retries>>

DeviceChanges ==
  /\ device => outages < MaxOutages
  /\ device' = ~device
  /\ outages' = IF device THEN outages + 1 ELSE outages
  /\ Quiet
  /\ UNCHANGED <<link, helper, stage, inbox, zero, entry, requests, business, retries>>

TaskNext ==
  \/ TaskStep
  \/ \E kind \in Requests : LinkSend(kind)
  \/ RemoveChannel \/ TaskJoined \/ TaskAborted
  \/ DeviceChanges

(* The runtime polls the task, its timer ticks, and an outage ends.        *)
TaskFairness ==
  /\ WF_taskVars(TaskStep)
  /\ WF_taskVars(~device /\ DeviceChanges)

TaskSpec == TaskInit /\ [][TaskNext]_taskVars

---------------------------------------------------------------------------
(* Every variable holds a value of its kind; the helper is Failed only     *)
(* when the policy limits attempts.                                        *)
TaskTypeOK ==
  /\ link \in BOOLEAN /\ cached \in BOOLEAN /\ device \in BOOLEAN
  /\ helper.state \in {"Connected", "Disconnected", "Reconnecting", "Failed"}
  /\ helper.state = "Failed" => MaxAttempts > 0
  /\ stage \in {"boot", "loop", "backoff", "attempt", "exit", "done", "aborted"}
  /\ Len(inbox) <= MaxQueue
  /\ entry \in {"open", "closing", "removed"}

(* Under a limited policy a device that never answers is tried at most     *)
(* max_attempts times in each recovery round and then left alone, however  *)
(* requests interleave with the attempts.                                  *)
AttemptsAreBounded == retries <= MaxAttempts * (MaxRounds + 1)

(* A channel whose task ended in time is offline in the health plane once  *)
(* remove_channel returns, so that no command is routed to it.             *)
StoppedIsOffline == entry = "removed" /\ stage = "done" => health = "offline"

(* With unlimited attempts, and a device that always comes back, the link  *)
(* is up again after every loss, and the health plane says so.             *)
LinkRecovers == [](entry = "open" => <>(entry # "open" \/ (link /\ health = "online")))
=============================================================================
