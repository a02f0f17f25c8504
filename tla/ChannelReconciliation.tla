----------------------- MODULE ChannelReconciliation -----------------------
(***************************************************************************)
(* Channel desired state in SQLite and the channel runtimes of the io      *)
(* service.  Governed commands (create, update, enable, disable, delete    *)
(* and reconcile, services/io/src/channel_mutator.rs) run one step of      *)
(* their handler at a time: `todo` is what is left of it.  The automatic   *)
(* reconciler (automatic_reconciliation.rs) compares SQLite with the       *)
(* snapshot it last applied.  Point commands (point_topology.rs) and       *)
(* import writers, whose revisions the database triggers keep, change      *)
(* SQLite without taking a channel lock.                                   *)
(*                                                                         *)
(* A row's configuration and point definitions are each one of two values  *)
(* that a change toggles, so that a change can also be undone.             *)
(***************************************************************************)
EXTENDS Integers, Sequences, FiniteSets

CONSTANTS
  Channels,     \* channel identities
  ReconcileCallers,      \* tasks that run governed commands
  Gone,         \* no row, no runtime, no snapshot
  MaxReconcileRevision,  \* bound on revisions
  MaxReconcileFaults     \* bound on failed activations, projections and reads

VARIABLES
  row,      \* SQLite channels: [rev, enabled, cfg, pts] or Gone
  tomb,     \* channel_revision_tombstones.last_revision, 0 when there is none
  runtime,  \* ChannelManager slots: [cfg, pts] or Gone
  call,     \* governed commands in flight
  auto,     \* the automatic reconciler's cycle
  applied,  \* AutomaticIoReconciler.applied
  gate,     \* who holds projection_gate for writing, Gone when nobody
  reconcileFaults,   \* failures so far
  high      \* the highest revision each identity ever had

reconciliationVars ==
  <<row, tomb, runtime, call, auto, applied, gate, reconcileFaults, high>>

Content == {1, 2}
Other(x) == 3 - x
Top(a, b) == IF a >= b THEN a ELSE b

(* The part of a row that same_desired_state compares: all but the points. *)
Desired(r) == IF r = Gone THEN Gone ELSE [rev |-> r.rev, enabled |-> r.enabled, cfg |-> r.cfg]

NoReconcileCall == [todo |-> <<>>, ch |-> Gone, seen |-> Gone, proj |-> "none"]
NoCycle == [todo |-> "idle", desired |-> Gone, targets |-> {}, all |-> FALSE, converged |-> TRUE,
            ch |-> Gone, seen |-> Gone]

Busy(p) == call[p].todo # <<>>
LockFree(c) == \A p \in ReconcileCallers : call[p].ch # c
HasRevision(c, rev) == row[c] # Gone /\ row[c].rev = rev
NextRevision(c) == 1 + IF row[c] = Gone THEN tomb[c] ELSE row[c].rev

(* Every write of a row: the new row and the high-water mark it leaves.    *)
Store(c, r) ==
  /\ row' = [row EXCEPT ![c] = r]
  /\ high' = IF r = Gone THEN high ELSE [high EXCEPT ![c] = Top(@, r.rev)]

RemoveRow(c) ==
  /\ tomb' = [tomb EXCEPT ![c] = Top(@, row[c].rev + 1)]
  /\ Store(c, Gone)

ReconcileFault == /\ reconcileFaults < MaxReconcileFaults
         /\ reconcileFaults' = reconcileFaults + 1

Stop(c) == runtime' = [runtime EXCEPT ![c] = Gone]

(* The configuration comes from the caller's copy of the row, the point    *)
(* definitions from SQLite at the time the channel is created.             *)
ReconcileStart(c, r) ==
  runtime' = [runtime EXCEPT ![c] =
    [cfg |-> r.cfg, pts |-> IF row[c] = Gone THEN 1 ELSE row[c].pts]]

ReconciliationInit ==
  /\ row = [c \in Channels |-> [rev |-> 1, enabled |-> TRUE, cfg |-> 1, pts |-> 1]]
  /\ tomb = [c \in Channels |-> 0]
  /\ runtime = [c \in Channels |-> Gone]
  /\ call = [p \in ReconcileCallers |-> NoReconcileCall]
  /\ auto = NoCycle
  /\ applied = Gone
  /\ gate = Gone
  /\ reconcileFaults = 0
  /\ high = [c \in Channels |-> 1]

---------------------------------------------------------------------------
(* Writers that hold no channel lock.                                      *)

(* A point command: its transaction advances the revision by               *)
(* compare-and-set and changes the point rows, or does neither.            *)
MutatePoints(c) ==
  /\ row[c] # Gone
  /\ row[c].rev < MaxReconcileRevision
  /\ Store(c, [row[c] EXCEPT !.rev = @ + 1, !.pts = Other(@)])
  /\ UNCHANGED <<tomb, runtime, call, auto, applied, gate, reconcileFaults>>

(* An import writer updates a row without naming its revision; the trigger *)
(* advances it.                                                            *)
ImportUpdate(c) ==
  /\ row[c] # Gone
  /\ row[c].rev < MaxReconcileRevision
  /\ \/ Store(c, [row[c] EXCEPT !.rev = @ + 1, !.cfg = Other(@)])
     \/ Store(c, [row[c] EXCEPT !.rev = @ + 1, !.enabled = ~@])
  /\ UNCHANGED <<tomb, runtime, call, auto, applied, gate, reconcileFaults>>

(* An import writer inserts with revision 1; the trigger lifts it over the *)
(* tombstone.                                                              *)
ImportInsertAtOne(c) ==
  /\ row[c] = Gone
  /\ NextRevision(c) <= MaxReconcileRevision
  /\ \E x \in Content : Store(c, [rev |-> 1, enabled |-> TRUE, cfg |-> x, pts |-> 1])
  /\ UNCHANGED <<tomb, runtime, call, auto, applied, gate, reconcileFaults>>

ImportInsert(c) ==
  /\ row[c] = Gone
  /\ NextRevision(c) <= MaxReconcileRevision
  /\ \E x \in Content :
       Store(c, [rev |-> NextRevision(c), enabled |-> TRUE, cfg |-> x, pts |-> 1])
  /\ UNCHANGED <<tomb, runtime, call, auto, applied, gate, reconcileFaults>>

ImportDelete(c) ==
  /\ row[c] # Gone
  /\ row[c].rev < MaxReconcileRevision
  /\ RemoveRow(c)
  /\ UNCHANGED <<runtime, call, auto, applied, gate, reconcileFaults>>

---------------------------------------------------------------------------
(* Governed commands.  A command starts with the gate shared and the       *)
(* channel's lock held, having loaded the row; `seen` is that row, later   *)
(* the row it committed.                                                   *)

ReconcileBegin(p, c, steps, r) ==
  /\ ~Busy(p) /\ LockFree(c) /\ gate = Gone
  /\ call' = [call EXCEPT ![p] = [todo |-> steps, ch |-> c, seen |-> r, proj |-> "none"]]
  /\ UNCHANGED <<row, tomb, runtime, auto, applied, gate, reconcileFaults, high>>

(* The lifecycle of an enabled or a disabled row. *)
ReconcileProject(enabled) ==
  IF enabled THEN <<"fence", "activate", "observe", "return">>
             ELSE <<"fence", "observe", "return">>

BeginCreate(p, c) ==
  /\ row[c] = Gone /\ runtime[c] = Gone
  /\ \E x \in Content, e \in BOOLEAN :
       ReconcileBegin(p, c, <<"insert">> \o Tail(ReconcileProject(e)),
             [rev |-> 0, enabled |-> e, cfg |-> x, pts |-> 1])

BeginUpdate(p, c) ==
  /\ row[c] # Gone
  /\ row[c].rev < MaxReconcileRevision
  /\ ReconcileBegin(p, c, <<"commit">> \o ReconcileProject(row[c].enabled),
           [row[c] EXCEPT !.rev = @ + 1, !.cfg = Other(@)])

(* Disabling stops the runtime before it commits, enabling commits before  *)
(* it starts one, and asking for the state a row already has only          *)
(* reconciles drift.                                                       *)
BeginSetEnabled(p, c) ==
  /\ row[c] # Gone
  /\ \/ ReconcileBegin(p, c, ReconcileProject(row[c].enabled), row[c])
     \/ /\ row[c].rev < MaxReconcileRevision
        /\ ReconcileBegin(p, c,
                 IF row[c].enabled THEN <<"fence", "commit", "observe", "return">>
                                   ELSE <<"commit">> \o ReconcileProject(TRUE),
                 [row[c] EXCEPT !.rev = @ + 1, !.enabled = ~@])

BeginDelete(p, c) ==
  /\ row[c] # Gone
  /\ row[c].rev < MaxReconcileRevision
  /\ ReconcileBegin(p, c, <<"fence", "delete", "return">>, row[c])

(* A reconcile command takes the gate exclusively and projects the row it  *)
(* reads; the watchdog uses the same port.                                 *)
BeginReconcile(p, c) ==
  /\ ~Busy(p) /\ gate = Gone /\ \A q \in ReconcileCallers : ~Busy(q)
  /\ gate' = p
  /\ call' = [call EXCEPT ![p] =
       [todo |-> IF row[c] = Gone THEN <<"fence", "return">> ELSE ReconcileProject(row[c].enabled),
        ch |-> c, seen |-> row[c], proj |-> "none"]]
  /\ UNCHANGED <<row, tomb, runtime, auto, applied, reconcileFaults, high>>

At(p, step) == Busy(p) /\ Head(call[p].todo) = step
Pop(p, proj) == call' = [call EXCEPT ![p].todo = Tail(@), ![p].proj = proj]
Abandon(p) == call' = [call EXCEPT ![p] = NoReconcileCall]

(* INSERT: the revision continues after the tombstone; a row that appeared *)
(* in the meantime refuses the command.                                    *)
Insert(p) ==
  /\ At(p, "insert")
  /\ LET c == call[p].ch
         r == [call[p].seen EXCEPT !.rev = NextRevision(c)] IN
     IF row[c] # Gone \/ NextRevision(c) > MaxReconcileRevision
     THEN Abandon(p) /\ UNCHANGED <<row, high>>
     ELSE /\ Store(c, r)
          /\ call' = [call EXCEPT ![p].todo = Tail(@), ![p].seen = r, ![p].proj = "Stopped"]
  /\ UNCHANGED <<tomb, runtime, auto, applied, gate, reconcileFaults>>

(* UPDATE ... WHERE revision = ?.  A disable that loses the race, or whose *)
(* write fails, has already stopped the runtime and restores it.           *)
ReconcileCommit(p) ==
  /\ At(p, "commit")
  /\ LET c == call[p].ch
         r == call[p].seen
         refused == IF r.enabled \/ Len(call[p].todo) = 4
                    THEN Abandon(p)
                    ELSE call' = [call EXCEPT ![p].todo = <<"restore">>, ![p].seen.rev = @ - 1] IN
     \/ /\ HasRevision(c, r.rev - 1)
        /\ Store(c, [r EXCEPT !.pts = row[c].pts])
        /\ call' = [call EXCEPT ![p].todo = Tail(@), ![p].seen.pts = row[c].pts]
        /\ UNCHANGED reconcileFaults
     \/ /\ ~HasRevision(c, r.rev - 1)
        /\ refused
        /\ UNCHANGED <<row, high, reconcileFaults>>
     \/ /\ ReconcileFault
        /\ refused
        /\ UNCHANGED <<row, high>>
  /\ UNCHANGED <<tomb, runtime, auto, applied, gate>>

(* The deletion transaction rechecks the revision; if it fails, or does    *)
(* not commit, the runtime is restored.                                    *)
Delete(p) ==
  /\ At(p, "delete")
  /\ LET c == call[p].ch IN
     \/ /\ HasRevision(c, call[p].seen.rev)
        /\ RemoveRow(c)
        /\ Pop(p, "Removed")
        /\ UNCHANGED reconcileFaults
     \/ /\ ~HasRevision(c, call[p].seen.rev)
        /\ call' = [call EXCEPT ![p].todo = <<"restore">>]
        /\ UNCHANGED <<row, tomb, high, reconcileFaults>>
     \/ /\ ReconcileFault
        /\ call' = [call EXCEPT ![p].todo = <<"restore">>]
        /\ UNCHANGED <<row, tomb, high>>
  /\ UNCHANGED <<runtime, auto, applied, gate>>

ReconcileFence(p) ==
  /\ At(p, "fence")
  /\ Stop(call[p].ch)
  /\ Pop(p, IF call[p].seen = Gone THEN "Removed" ELSE "Stopped")
  /\ UNCHANGED <<row, tomb, auto, applied, gate, reconcileFaults, high>>

Activate(p) ==
  /\ At(p, "activate")
  /\ \/ /\ ReconcileStart(call[p].ch, call[p].seen)
        /\ Pop(p, "Active")
        /\ UNCHANGED reconcileFaults
     \/ /\ ReconcileFault
        /\ Stop(call[p].ch)
        /\ Pop(p, "Degraded")
  /\ UNCHANGED <<row, tomb, auto, applied, gate, high>>

(* observe_reconcile: the row is read again, and a runtime whose row moved *)
(* on, or cannot be read, is stopped.                                      *)
Observe(p) ==
  /\ At(p, "observe")
  /\ LET c == call[p].ch IN
     \/ /\ Desired(row[c]) = Desired(call[p].seen)
        /\ Pop(p, call[p].proj)
        /\ UNCHANGED <<runtime, reconcileFaults>>
     \/ /\ Desired(row[c]) # Desired(call[p].seen)
        /\ Stop(c)
        /\ Pop(p, "Degraded")
        /\ UNCHANGED reconcileFaults
     \/ /\ ReconcileFault
        /\ Stop(c)
        /\ Pop(p, "Degraded")
  /\ UNCHANGED <<row, tomb, auto, applied, gate, high>>

(* restore_authoritative_runtime: start what SQLite says now, provided it  *)
(* is the same entity, and stop it again if SQLite moved on.               *)
SameEntity(p) == tomb[call[p].ch] <= call[p].seen.rev

Restore(p) ==
  /\ At(p, "restore")
  /\ LET c == call[p].ch IN
     IF row[c] # Gone /\ row[c].enabled /\ SameEntity(p)
     THEN /\ ReconcileStart(c, row[c])
          /\ call' = [call EXCEPT ![p].todo = <<"stable">>, ![p].seen = row[c]]
     ELSE /\ Stop(c)
          /\ Abandon(p)
  /\ UNCHANGED <<row, tomb, auto, applied, gate, reconcileFaults, high>>

RestoreFails(p) ==
  /\ At(p, "restore")
  /\ ReconcileFault
  /\ Stop(call[p].ch)
  /\ Abandon(p)
  /\ UNCHANGED <<row, tomb, auto, applied, gate, high>>

ReconcileStable(p) ==
  /\ At(p, "stable")
  /\ IF Desired(row[call[p].ch]) = Desired(call[p].seen) /\ SameEntity(p)
     THEN UNCHANGED runtime
     ELSE Stop(call[p].ch)
  /\ Abandon(p)
  /\ UNCHANGED <<row, tomb, auto, applied, gate, reconcileFaults, high>>

Return(p) ==
  /\ At(p, "return")
  /\ Abandon(p)
  /\ gate' = IF gate = p THEN Gone ELSE gate
  /\ UNCHANGED <<row, tomb, runtime, auto, applied, reconcileFaults, high>>

CallerStep(p) ==
  \/ Insert(p) \/ ReconcileCommit(p) \/ Delete(p) \/ ReconcileFence(p) \/ Activate(p)
  \/ Observe(p) \/ Restore(p) \/ RestoreFails(p) \/ ReconcileStable(p) \/ Return(p)

---------------------------------------------------------------------------
(* The automatic reconciler: one cycle at a time.  Whatever it decides to  *)
(* stop, it stops later, once it has the gate.                             *)

GateFree == gate = Gone /\ \A p \in ReconcileCallers : ~Busy(p)
Present == {c \in Channels : runtime[c] # Gone}
StopAll(S) == runtime' = [c \in Channels |-> IF c \in S THEN Gone ELSE runtime[c]]
Known == Present \cup IF auto.desired = Gone THEN {}
                      ELSE {c \in Channels : auto.desired[c] # Gone}
Fencing(next, S) == auto' = [auto EXCEPT !.todo = next, !.targets = S]

Snapshot ==
  /\ auto.todo = "idle"
  /\ auto' = [NoCycle EXCEPT !.todo = "project", !.desired = row]
  /\ UNCHANGED <<row, tomb, runtime, call, applied, gate, reconcileFaults, high>>

(* fail_closed: a snapshot that cannot be read, or a topology that cannot  *)
(* be projected, stops every known runtime and forgets what was applied.   *)
FailClosed ==
  /\ auto.todo \in {"idle", "project", "verify"}
  /\ ReconcileFault
  /\ Fencing("abort", Known)
  /\ UNCHANGED <<row, tomb, runtime, call, applied, gate, high>>

Changed(before, after) == {c \in Channels : before[c] # after[c]}

TargetsChanged(before, want) == Changed(before, want)

ReconcileTargets(before, want) ==
  Changed(before, want)
    \cup {c \in Channels : (want[c] # Gone /\ want[c].enabled) # (c \in Present)}

SelectTargets ==
  /\ auto.todo = "project"
  /\ auto' = IF applied = Gone
             THEN [auto EXCEPT !.todo = "work", !.all = TRUE, !.targets = Channels]
             ELSE [auto EXCEPT !.todo = "work",
                               !.targets = ReconcileTargets(applied, auto.desired)]
  /\ UNCHANGED <<row, tomb, runtime, call, applied, gate, reconcileFaults, high>>

(* reconcile_channel_locked for one target: with the gate, read the row,   *)
(* start or stop the runtime, and read the row again.  A full pass keeps   *)
(* the gate from its first target to its last.                             *)
Take(c) ==
  /\ auto.todo = "work" /\ c \in auto.targets
  /\ GateFree \/ gate = "auto"
  /\ gate' = "auto"
  /\ auto' = [auto EXCEPT !.todo = "check", !.targets = @ \ {c}, !.ch = c, !.seen = row[c]]
  /\ \/ /\ IF row[c] # Gone /\ row[c].enabled THEN ReconcileStart(c, row[c]) ELSE Stop(c)
        /\ UNCHANGED reconcileFaults
     \/ /\ ReconcileFault
        /\ Stop(c)
  /\ UNCHANGED <<row, tomb, call, applied, high>>

(* The reconcile call itself fails: the cycle ends.                        *)
TakeFails(c) ==
  /\ auto.todo = "work" /\ c \in auto.targets
  /\ GateFree \/ gate = "auto"
  /\ ReconcileFault
  /\ gate' = Gone
  /\ Fencing("abort", IF auto.all THEN Known ELSE {c})
  /\ UNCHANGED <<row, tomb, runtime, call, applied, high>>

Recheck ==
  /\ auto.todo = "check"
  /\ LET c == auto.ch
         good == /\ Desired(row[c]) = Desired(auto.seen)
                 /\ (auto.seen # Gone /\ auto.seen.enabled) = (runtime[c] # Gone) IN
     /\ IF good THEN UNCHANGED runtime ELSE Stop(c)
     /\ auto' = [auto EXCEPT !.todo = IF good \/ auto.all THEN "work" ELSE "distrust",
                             !.converged = @ /\ good, !.seen = Gone]
  /\ gate' = IF auto.all /\ auto.targets # {} THEN gate ELSE Gone
  /\ UNCHANGED <<row, tomb, call, applied, reconcileFaults, high>>

(* A single target that did not converge is stopped once more.             *)
Distrust ==
  /\ auto.todo = "distrust"
  /\ GateFree
  /\ Stop(auto.ch)
  /\ auto' = [auto EXCEPT !.todo = "work"]
  /\ UNCHANGED <<row, tomb, call, applied, gate, reconcileFaults, high>>

(* A full pass that did not converge stops every known runtime.            *)
PassDone ==
  /\ auto.todo = "work" /\ auto.targets = {}
  /\ IF auto.all /\ ~auto.converged THEN Fencing("halt", Known) ELSE Fencing("verify", {})
  /\ UNCHANGED <<row, tomb, runtime, call, applied, gate, reconcileFaults, high>>

(* The second snapshot: what changed during the cycle is stopped, and the  *)
(* snapshot counts as applied only if nothing did.                         *)
VerifyBlind ==
  /\ auto.todo = "verify"
  /\ applied' = IF auto.converged THEN row ELSE Gone
  /\ auto' = NoCycle
  /\ UNCHANGED <<row, tomb, runtime, call, gate, reconcileFaults, high>>

Verify ==
  /\ auto.todo = "verify"
  /\ IF row = auto.desired
     THEN /\ applied' = IF auto.converged THEN row ELSE Gone
          /\ auto' = NoCycle
     ELSE /\ Fencing("abort", Changed(auto.desired, row))
          /\ UNCHANGED applied
  /\ UNCHANGED <<row, tomb, runtime, call, gate, reconcileFaults, high>>

(* fence_untrusted, then the next step of the cycle or its end.            *)
FenceUntrusted ==
  /\ auto.todo \in {"abort", "halt"}
  /\ GateFree
  /\ StopAll(auto.targets)
  /\ IF auto.todo = "halt"
     THEN Fencing("verify", {}) /\ UNCHANGED applied
     ELSE auto' = NoCycle /\ applied' = Gone
  /\ UNCHANGED <<row, tomb, call, gate, reconcileFaults, high>>

AutoStep ==
  \/ Snapshot \/ FailClosed \/ SelectTargets
  \/ \E c \in Channels : Take(c) \/ TakeFails(c)
  \/ Recheck \/ Distrust \/ PassDone \/ Verify \/ FenceUntrusted

---------------------------------------------------------------------------
(* The service restarts: memory is lost, and start-up starts what it can   *)
(* of the enabled rows.                                                    *)
Restart ==
  /\ ReconcileFault
  /\ runtime' \in [Channels -> {Gone} \cup [cfg : Content, pts : Content]]
  /\ \A c \in Channels : runtime'[c] # Gone =>
       /\ row[c] # Gone /\ row[c].enabled
       /\ runtime'[c] = [cfg |-> row[c].cfg, pts |-> row[c].pts]
  /\ call' = [p \in ReconcileCallers |-> NoReconcileCall]
  /\ auto' = NoCycle
  /\ applied' = Gone
  /\ gate' = Gone
  /\ UNCHANGED <<row, tomb, high>>

ReconcileWriters(c) ==
  MutatePoints(c) \/ ImportUpdate(c) \/ ImportInsert(c) \/ ImportDelete(c)

ReconcileCommands(p, c) ==
  \/ BeginCreate(p, c) \/ BeginUpdate(p, c) \/ BeginSetEnabled(p, c)
  \/ BeginDelete(p, c) \/ BeginReconcile(p, c)

ReconciliationNext ==
  \/ \E c \in Channels : ReconcileWriters(c)
  \/ \E p \in ReconcileCallers, c \in Channels : ReconcileCommands(p, c)
  \/ \E p \in ReconcileCallers : CallerStep(p)
  \/ AutoStep
  \/ Restart

(* A handler runs to its end.  The reconciler is a periodic task, and the  *)
(* gate it waits for is a fair lock, so commands cannot keep it out.       *)
ReconciliationFairness ==
  /\ SF_reconciliationVars(AutoStep)
  /\ \A p \in ReconcileCallers : WF_reconciliationVars(CallerStep(p))

ReconciliationSpec == ReconciliationInit /\ [][ReconciliationNext]_reconciliationVars

---------------------------------------------------------------------------
(* Every variable holds a value of its kind; the gate is held by the       *)
(* reconciler or by a caller with work left.                               *)
RowType == {Gone} \cup [rev : 0..MaxReconcileRevision, enabled : BOOLEAN, cfg : Content, pts : Content]

ReconciliationTypeOK ==
  /\ row \in [Channels -> RowType]
  /\ tomb \in [Channels -> 0..MaxReconcileRevision]
  /\ runtime \in [Channels -> {Gone} \cup [cfg : Content, pts : Content]]
  /\ applied \in {Gone} \cup [Channels -> RowType]
  /\ gate \in ReconcileCallers => Busy(gate)
  /\ \A c \in Channels : Cardinality({p \in ReconcileCallers : call[p].ch = c}) <= 1

(* A receipt is true of the runtime when it is returned: Active means that *)
(* the runtime runs the configuration and the points of the revision the   *)
(* receipt names, Stopped and Removed that there is none, whatever other   *)
(* writers did to SQLite while the command ran.                            *)
ReceiptsHold ==
  \A p \in ReconcileCallers : At(p, "return") =>
    /\ call[p].proj = "Active" =>
         runtime[call[p].ch] = [cfg |-> call[p].seen.cfg, pts |-> call[p].seen.pts]
    /\ call[p].proj # "Active" => runtime[call[p].ch] = Gone

(* When the reconciler believes that SQLite is applied and nothing is in   *)
(* flight, no runtime acquires or controls with superseded parameters: one *)
(* that exists belongs to an enabled row and runs its content.             *)
AppliedIsRunning ==
  applied = row /\ auto.todo = "idle" /\ (\A p \in ReconcileCallers : ~Busy(p)) =>
    \A c \in Present :
      /\ row[c] # Gone /\ row[c].enabled
      /\ runtime[c] = [cfg |-> row[c].cfg, pts |-> row[c].pts]

(* A revision is given to one content of a channel identity and never      *)
(* again, through deletion and re-creation, whoever writes.                *)
RevisionStep ==
  \A c \in Channels : row'[c] # row[c] /\ row'[c] # Gone => row'[c].rev > high[c]

RevisionsNeverReused == [][RevisionStep]_reconciliationVars

(* Once writers and failures stop, every enabled channel runs exactly what *)
(* SQLite says and no other channel runs, again after every command that   *)
(* only reconciles.                                                        *)
Reconverges ==
  []<>(\A c \in Channels :
         runtime[c] = IF row[c] # Gone /\ row[c].enabled
                      THEN [cfg |-> row[c].cfg, pts |-> row[c].pts] ELSE Gone)
=============================================================================
