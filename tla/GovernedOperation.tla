-------------------------- MODULE GovernedOperation --------------------------
(***************************************************************************)
(* The use cases of crates/aether-application that change something: each   *)
(* authorises the caller, validates, records "attempted" in the mandatory   *)
(* audit, calls its port once, and records the terminal outcome. The audit  *)
(* store may fail at every record, the service may crash between any two    *)
(* steps, and clients retry what they are told is retryable.                *)
(*                                                                         *)
(* A revisioned mutation compares the revision the client read with the     *)
(* stored one in the transaction that applies it.                           *)
(***************************************************************************)
EXTENDS Naturals, FiniteSets

CONSTANTS GovernedRequests,   \* client requests
          MaxTries,   \* bound: submissions of one request
          MaxCrashes  \* bound: restarts of the service

ASSUME GovernedAssumption == MaxTries \in Nat /\ MaxCrashes \in Nat

VARIABLES request,   \* what each client asked for, and the state of its latest try
          trail,     \* the durable audit records
          revision,  \* the stored revision of the configuration
          effects,   \* how often each request took effect
          crashes

governedVars == <<request, trail, revision, effects, crashes>>

Facade(validates, revisioned, ambiguous) ==
  [validates |-> validates, revisioned |-> revisioned, ambiguous |-> ambiguous]

\* The facades. "validates": the command is checked before it is attempted;
\* "revisioned": the port compares a revision; "ambiguous": the port may report
\* an error although it took effect, because a commit's outcome is unknown or a
\* rule sent some of its commands before it failed.
WritePoint == Facade(TRUE, FALSE, FALSE)
ExecuteRule == Facade(FALSE, FALSE, TRUE)
ResolveAlert == Facade(FALSE, FALSE, TRUE)
MutateAlarmRule == Facade(FALSE, FALSE, TRUE)
MutateRule == Facade(FALSE, TRUE, TRUE)
MutateActionRouting == Facade(FALSE, TRUE, TRUE)
MutateMeasurementRouting == Facade(FALSE, TRUE, TRUE)
MutateChannel == Facade(TRUE, TRUE, TRUE)
ReconcileChannels == Facade(FALSE, FALSE, TRUE)
MutateInstance == Facade(TRUE, TRUE, TRUE)
GovernedMutatePoints == Facade(TRUE, TRUE, TRUE)

Facades == {WritePoint, ExecuteRule, ResolveAlert, MutateAlarmRule, MutateRule,
            MutateActionRouting, MutateMeasurementRouting, MutateChannel,
            ReconcileChannels, MutateInstance, GovernedMutatePoints}

GovernedOutcomes == {"attempted", "rejected", "succeeded", "failed"}
Replies == {"none", "accepted", "incomplete", "refused", "retryable"}

GovernedTypeOK ==
  /\ \A r \in GovernedRequests :
       /\ request[r].facade \in Facades /\ request[r].reply \in Replies
       /\ request[r].pc \in {"new", "checked", "attempted", "accepted", "port_error",
                             "answered", "lost"}
       /\ request[r].tries \in 0..MaxTries
  /\ trail \subseteq [request : GovernedRequests, try : 1..MaxTries, outcome : GovernedOutcomes]
  /\ effects \in [GovernedRequests -> Nat] /\ crashes \in 0..MaxCrashes

GovernedInit ==
  /\ request \in [GovernedRequests -> [facade : Facades, expected : {1}, pc : {"new"}, tries : {0},
                               reply : {"none"}]]
  /\ trail = {} /\ revision = 1 /\ effects = [r \in GovernedRequests |-> 0] /\ crashes = 0
------------------------------------------------------------------------------
GovernedRecord(r, outcome) == [request |-> r, try |-> request[r].tries, outcome |-> outcome]

GovernedGoto(r, pc) == request' = [request EXCEPT ![r].pc = pc]
GovernedAnswer(r, reply) == request' = [request EXCEPT ![r].pc = "answered", ![r].reply = reply]

\* record_audit: the record is stored and the facade goes on, or it is not.
Audited(r, outcome, stored, lost) ==
  \/ trail' = trail \cup {GovernedRecord(r, outcome)} /\ stored
  \/ UNCHANGED trail /\ lost

\* A first submission, or a retry of one the client was told to retry or, for a
\* revisioned mutation, of one whose answer was lost.
GovernedSubmit(r) ==
  /\ request[r].tries < MaxTries
  /\ \/ request[r].pc = "new"
     \/ request[r].pc = "answered" /\ request[r].reply = "retryable"
     \/ request[r].pc = "lost" /\ request[r].facade.revisioned
  /\ request' = [request EXCEPT ![r].pc = "checked", ![r].tries = @ + 1,
                                ![r].reply = "none"]
  /\ UNCHANGED <<trail, revision, effects, crashes>>

\* SafetyPolicy::authorize denies, or a command that is validated is invalid: the
\* rejection is recorded before it is returned; without the record the audit
\* error is.
Reject(r, why) ==
  /\ request[r].pc = "checked"
  /\ why = "invalid" => request[r].facade.validates
  /\ Audited(r, "rejected", GovernedAnswer(r, "refused"), GovernedAnswer(r, "retryable"))
  /\ UNCHANGED <<revision, effects, crashes>>

\* The attempt is durable before the port is called.
GovernedAttempt(r) ==
  /\ request[r].pc = "checked"
  /\ Audited(r, "attempted", GovernedGoto(r, "attempted"), GovernedAnswer(r, "retryable"))
  /\ UNCHANGED <<revision, effects, crashes>>

\* Mutant of Compares: the revision is not compared
ComparesNothing(r) == TRUE
Compares(r) == request[r].facade.revisioned => request[r].expected = revision

Apply(r, pc) ==
  /\ GovernedGoto(r, pc)
  /\ effects' = [effects EXCEPT ![r] = @ + 1]
  /\ revision' = IF request[r].facade.revisioned THEN revision + 1 ELSE revision

\* The port accepts, fails without effect, or commits and reports an error.
Perform(r) ==
  /\ request[r].pc = "attempted"
  /\ \/ Compares(r) /\ Apply(r, "accepted")
     \/ Compares(r) /\ request[r].facade.ambiguous /\ Apply(r, "port_error")
     \/ GovernedGoto(r, "port_error") /\ UNCHANGED <<effects, revision>>
  /\ UNCHANGED <<trail, crashes>>

\* AcceptedOutcome::recorded or audit_incomplete, never retryable
GovernedComplete(r) ==
  /\ request[r].pc = "accepted"
  /\ Audited(r, "succeeded", GovernedAnswer(r, "accepted"), GovernedAnswer(r, "incomplete"))
  /\ UNCHANGED <<revision, effects, crashes>>

\* The port's error is recorded, then returned: Unavailable, Timeout and
\* Conflict are retryable. Without the record the audit error is returned.
GovernedFail(r) ==
  /\ request[r].pc = "port_error"
  /\ \E reply \in {"refused", "retryable"} :
       Audited(r, "failed", GovernedAnswer(r, reply), GovernedAnswer(r, "retryable"))
  /\ UNCHANGED <<revision, effects, crashes>>

\* The service restarts; the clients of every open request lose the answer.
GovernedCrash ==
  /\ crashes < MaxCrashes /\ crashes' = crashes + 1
  /\ request' = [r \in GovernedRequests |->
       IF request[r].pc \in {"new", "answered"} THEN request[r]
       ELSE [request[r] EXCEPT !.pc = "lost"]]
  /\ UNCHANGED <<trail, revision, effects>>

GovernedNext ==
  \/ \E r \in GovernedRequests :
       \/ GovernedSubmit(r) \/ \E why \in {"denied", "invalid"} : Reject(r, why)
       \/ GovernedAttempt(r) \/ Perform(r) \/ GovernedComplete(r) \/ GovernedFail(r)
  \/ GovernedCrash

GovernedSpec == GovernedInit /\ [][GovernedNext]_governedVars
------------------------------------------------------------------------------
\* Nothing takes effect that the audit trail does not announce: whatever the
\* audit store and the service survive, every effect has its "attempted" record.
EffectsAreAnnounced ==
  \A r \in GovernedRequests : effects[r] > 0 => \E t \in trail : t.request = r /\ t.outcome = "attempted"

\* A client that follows the replies executes a device command or a revisioned
\* mutation at most once, although it retries retryable failures and, for
\* revisioned mutations, lost answers (acceptance.rs: a retryable failure "could
\* execute the operation a second time"). The other facades are excluded: their
\* port may have taken effect when it reports an error.
AtMostOnce ==
  \A r \in GovernedRequests :
    (request[r].facade.revisioned \/ ~request[r].facade.ambiguous) => effects[r] <= 1

\* The terminal records are true: "succeeded" and only "succeeded" ones belong
\* to accepted tries, a rejected try has no effect.
TrailIsTrue ==
  \A t \in trail :
    /\ t.outcome = "succeeded" => effects[t.request] > 0
    /\ t.outcome = "succeeded" =>
         [t EXCEPT !.outcome = "attempted"] \in trail
           /\ [t EXCEPT !.outcome = "failed"] \notin trail
    /\ t.outcome = "rejected" => [t EXCEPT !.outcome = "attempted"] \notin trail

\* A governed operation is audited before its effect, takes effect at most once
\* and leaves a trail that says what happened.
OperationsAreGoverned == EffectsAreAnnounced /\ AtMostOnce /\ TrailIsTrue
=============================================================================
