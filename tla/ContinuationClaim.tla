--------------------------- MODULE ContinuationClaim ---------------------------
(***************************************************************************)
(* The ExecAss continuation lifecycle in the SQLite store                  *)
(* (carsinos-storage/src/execass) as the gateway's scheduler drives it: a  *)
(* continuation admitted by an owner decision gets a job, a scheduler      *)
(* worker leases the job, claims the continuation (reserving technical     *)
(* resources for its one logical effect), prepares a provider attempt,     *)
(* crosses the prepared -> invoking boundary, and the signed result of the *)
(* effect recorder closes it.  Claims that were never dispatched are       *)
(* settled or expired.  Owners stop, resume and amend delegations, engage  *)
(* the global stop, and gateway processes crash and are replaced, all      *)
(* between any two transactions.                                           *)
(*                                                                         *)
(* Every action is one committed SQLite transaction (or one step of the    *)
(* scheduler's in-memory progress).  A transaction that returns Lost,      *)
(* Stale or Err commits nothing: only the worker moves on.                 *)
(*                                                                         *)
(* Abstractions.  A continuation has at most one job (its identifier is    *)
(* derived from the continuation's) and at most one logical effect, and    *)
(* the gateway never asks for a retry authorization, so an effect has at   *)
(* most one attempt: jobs, effects, attempts and reservations are indexed  *)
(* by continuation.  The action branch of a continuation has its status    *)
(* (objective recovery moves the branch of an evaluated effect, which no   *)
(* other operation of this module reads again).  A continuation never      *)
(* becomes runnable again, so its fencing token is 0 before its claim and  *)
(* 1 after it, and its own lease columns equal its claim history's exactly *)
(* while it is executing.  An effect needs one unit of its delegation's    *)
(* quota (the exact-overwrite leaf reserves one connector call), and the   *)
(* effects of a delegation share one quota snapshot (its identifier is a   *)
(* digest of the policy, the authority and the limits, which do not change *)
(* here).  A tick's LIMIT of 8 rows is never reached.                      *)
(***************************************************************************)
EXTENDS Integers, FiniteSets

CONSTANTS
    Delegations,        \* delegations of the owner
    Conts,              \* continuations (each with its action branch and job)
    DelegationOf,       \* the delegation of each continuation
    EffectConts,        \* the continuations that carry a logical effect
    Workers,            \* scheduler workers, one per gateway process
    RecorderWorkers,    \* the gateway processes with an authenticated recorder
    None,               \* SQL NULL
    QuotaLimit,         \* technical quota of a delegation
    LeaseMs,            \* job lease length (30 000 ms in scheduler_loop)
    Overlap,            \* may two gateway processes run at the same time?
    ReceiptContention,  \* may another writer move the receipt heads between
                        \* reading them and the transaction (Stale)?
    MaxTime,            \* bound on the clock
    MaxRevision,        \* bound on a delegation's state revision
    MaxGlobalEpoch,     \* bound on the global stop epoch
    MaxGeneration       \* bound on runtime host generations

ASSUME ConstantsAssumption ==
    /\ DelegationOf \in [Conts -> Delegations]
    /\ EffectConts \subseteq Conts /\ RecorderWorkers \subseteq Workers
    /\ None \notin Workers /\ None \notin Conts
    /\ IsFiniteSet(Conts)
    /\ QuotaLimit \in Nat /\ LeaseMs \in Nat \ {0}
    /\ Overlap \in BOOLEAN /\ ReceiptContention \in BOOLEAN
    /\ MaxTime \in Nat /\ MaxRevision \in Nat
    /\ MaxGlobalEpoch \in Nat /\ MaxGeneration \in Nat

VARIABLES
    now,        \* the wall clock
    deleg,      \* delegation -> run control, state revision, stop epoch, open phase
    glob,       \* the global runtime control singleton
    host,       \* the current runtime host generation and its lease
    cont,       \* continuation rows
    claim,      \* the immutable "claim" row of the operation history
    job,        \* job rows
    effect,     \* logical effect state
    attempt,    \* provider attempt status
    resv,       \* technical resource reservation status
    episode,    \* recovery episode of the effect and its last directive
    wk          \* in-memory state of the scheduler workers

vars == <<now, deleg, glob, host, cont, claim, job, effect, attempt, resv, episode, wk>>

ledger == <<cont, claim, job, effect, attempt, resv, episode>>
control == <<deleg, glob, host>>

-----------------------------------------------------------------------------
RunControl == {"running", "stop_requested", "stopped"}

ContinuationStatus ==
    {"none", "runnable", "executing", "waiting", "uncertain", "terminal", "superseded"}

EffectState ==
    {"none", "planned", "claimed", "invoking", "succeeded", "failed",
     "outcome_unknown", "reconciled_present", "reconciled_absent"}

AttemptStatus ==
    {"none", "prepared", "invoking", "succeeded", "failed", "outcome_unknown",
     "reconciled_present", "reconciled_absent"}

ReservationStatus ==
    {"none", "reserved", "settled", "released", "expired", "reconciliation_required"}

\* "none": not evaluated yet; "backoff": evaluated, due again later; "done".
EpisodeState == {"none", "backoff", "done"}

\* "idle": between two ticks; the phases of one tick;
\* "run": executing the leased batch; "claimed", "prepared", "sent": holding
\* the claim identity of one continuation, before and after each boundary.
WorkerPc == {"down", "idle", "recover", "evaluate", "materialize", "acquire", "run",
             "claimed", "prepared", "sent"}

HoldsIdentity(w) == wk[w].pc \in {"claimed", "prepared", "sent"}

NoClaim == [owner |-> None, exp |-> 0, gen |-> 0]
NoJob == [state |-> "none", owner |-> None, exp |-> 0]
UnleasedJob == [state |-> "enabled", owner |-> None, exp |-> 0]

\* Mutant: the deadline column of a closed job is left NULL, not a time.
ClosedJobNullDeadline == [state |-> "closed", owner |-> None, exp |-> None]

\* A closing transaction disables the job and clears its lease.
ClosedJob == [state |-> "closed", owner |-> None, exp |-> 0]
DownWorker == [pc |-> "down", clk |-> 0, todo |-> {}, exp |-> 0, cur |-> None]

DelegationRow == [run: RunControl, rev: Nat, epoch: Nat, open: BOOLEAN]
ContinuationRow == [status: ContinuationStatus, rev: Nat, epoch: Nat, glob: Nat]
ClaimRow == [owner: Workers \cup {None}, exp: Nat, gen: Nat]
JobRow == [state: {"none", "enabled", "closed"}, owner: Workers \cup {None}, exp: Nat]
WorkerState == [pc: WorkerPc, clk: Nat, todo: SUBSET Conts, exp: Nat, cur: Conts \cup {None}]

\* Every row has the columns and the CHECK-constrained values of its table.
TypeOK ==
    /\ now \in Nat
    /\ deleg \in [Delegations -> DelegationRow]
    /\ glob \in [engaged: BOOLEAN, epoch: Nat]
    /\ host \in [gen: Nat, live: BOOLEAN]
    /\ cont \in [Conts -> ContinuationRow]
    /\ claim \in [Conts -> ClaimRow]
    /\ job \in [Conts -> JobRow]
    /\ effect \in [Conts -> EffectState]
    /\ attempt \in [Conts -> AttemptStatus]
    /\ resv \in [Conts -> ReservationStatus]
    /\ episode \in [Conts -> EpisodeState]
    /\ wk \in [Workers -> WorkerState]

Init ==
    /\ now = 1
    /\ deleg = [d \in Delegations |-> [run |-> "running", rev |-> 1, epoch |-> 0, open |-> TRUE]]
    /\ glob = [engaged |-> FALSE, epoch |-> 0]
    /\ host = [gen |-> 0, live |-> FALSE]
    /\ cont = [c \in Conts |-> [status |-> "none", rev |-> 0, epoch |-> 0, glob |-> 0]]
    /\ claim = [c \in Conts |-> NoClaim]
    /\ job = [c \in Conts |-> NoJob]
    /\ effect = [c \in Conts |-> "none"]
    /\ attempt = [c \in Conts |-> "none"]
    /\ resv = [c \in Conts |-> "none"]
    /\ episode = [c \in Conts |-> "none"]
    /\ wk = [w \in Workers |-> DownWorker]

-----------------------------------------------------------------------------
(* What the transactions check. *)

\* Mutant: only the current stop flags count, not the epochs.
DriftFlagsOnly(c) == deleg[DelegationOf[c]].run # "running" \/ glob.engaged

\* objective_drift: the continuation no longer matches the delegation's
\* revision, stop epoch or run control, or the global stop moved.
Drift(c) ==
    LET d == deleg[DelegationOf[c]] IN
    \/ d.run # "running"
    \/ d.epoch # cont[c].epoch
    \/ d.rev # cont[c].rev
    \/ glob.engaged
    \/ glob.epoch # cont[c].glob

\* The receipt of a claim or settle is bound to the continuation's target
\* revision and compared with the delegation's: otherwise nothing commits.
ReceiptRevisionMatches(c) == deleg[DelegationOf[c]].rev = cont[c].rev

JobLeaseMatches(c, owner, exp, at) ==
    /\ job[c].owner = owner
    /\ job[c].exp = exp
    /\ exp > at

HoldingReservation == {"reserved", "reconciliation_required", "settled"}

\* Units of the delegation's technical quota in use.
QuotaUsed(d) ==
    Cardinality({c \in Conts : DelegationOf[c] = d /\ resv[c] \in HoldingReservation})

\* Mutant: only open reservations are counted against the quota.
ResourcesAvailableOpenOnly(c) ==
    effect[c] = "planned" =>
        Cardinality({e \in Conts : /\ DelegationOf[e] = DelegationOf[c]
                                   /\ resv[e] = "reserved"}) + 1 <= QuotaLimit

\* prepare_resource_bundle: a planned effect must fit in the quota; a
\* continuation without one claims an empty bundle.
ResourcesAvailable(c) ==
    effect[c] = "planned" => QuotaUsed(DelegationOf[c]) + 1 <= QuotaLimit

\* validate_claim_identity_live for the identity worker w holds.  The trusted
\* clock of the call lies between the worker's previous step and now.
IdentityLive(w) ==
    LET c == wk[w].cur IN
    /\ cont[c].status = "executing"
    /\ claim[c].owner = w
    /\ JobLeaseMatches(c, w, claim[c].exp, wk[w].clk)
    /\ resv[c] \in {"none", "reserved"}
    /\ host.live /\ host.gen = claim[c].gen

\* list_technical_resource_recovery_candidates, undispatched claims: an
\* invoking effect is only counted as deferred by the gateway.
ExpireCandidate(c, at) ==
    /\ resv[c] = "reserved"
    /\ effect[c] = "claimed"
    /\ claim[c].exp <= at

\* list_due_provider_recovery_effects
RecoveryDue(c) ==
    /\ effect[c] \in {"failed", "outcome_unknown"}
    /\ episode[c] \in {"none", "backoff"}

\* evaluate_provider_recovery_in_transaction and project_recovery_lifecycle
\* refuse an effect without a finished attempt, a delegation that is not
\* running in an open phase, and a closed action branch.
RecoveryEvaluable(c) ==
    /\ attempt[c] \in {"failed", "outcome_unknown"}
    /\ deleg[DelegationOf[c]].run = "running"
    /\ deleg[DelegationOf[c]].open
    /\ cont[c].status \notin {"terminal", "superseded"}

\* Mutant: the acquisition reads the clock again.
JobDueFreshClock(c, at) ==
    /\ job[c].state = "enabled"
    /\ job[c].owner = None \/ job[c].exp < now

\* acquire_due_jobs: the WHERE clause.
JobDue(c, at) ==
    /\ job[c].state = "enabled"
    /\ job[c].owner = None \/ job[c].exp < at

-----------------------------------------------------------------------------
(* The clock, gateway processes and the runtime host lease. *)

Tick ==
    /\ now < MaxTime
    /\ now' = now + 1
    /\ UNCHANGED <<control, ledger, wk>>

\* activate_runtime_host / activate_with_recovery: a new generation replaces
\* the predecessor's, released or not.
StartGateway(w) ==
    /\ wk[w].pc = "down"
    /\ Overlap \/ \A v \in Workers : wk[v].pc = "down"
    /\ host.gen < MaxGeneration
    /\ host' = [gen |-> host.gen + 1, live |-> TRUE]
    /\ wk' = [wk EXCEPT ![w] = [DownWorker EXCEPT !.pc = "idle"]]
    /\ UNCHANGED <<now, deleg, glob, ledger>>

\* transition_runtime_host to `stopped` releases the lease; the process is
\* still running its current step.
ReleaseHost ==
    /\ host.live
    /\ host.gen < MaxGeneration
    /\ host' = [host EXCEPT !.live = FALSE]
    /\ UNCHANGED <<now, deleg, glob, ledger, wk>>

\* The process ends: everything it holds in memory is gone.
Crash(w) ==
    /\ wk[w].pc # "down"
    /\ host.gen < MaxGeneration
    /\ wk' = [wk EXCEPT ![w] = DownWorker]
    /\ UNCHANGED <<now, control, ledger>>

-----------------------------------------------------------------------------
(* One tick of scheduler_loop.  now_ms is read once and used by the recovery *)
(* scan, the recovery evaluation, the materialization and the acquisition.   *)

BeginTick(w) ==
    /\ wk[w].pc = "idle"
    /\ wk' = [wk EXCEPT ![w].pc = "recover", ![w].clk = now]
    /\ UNCHANGED <<now, control, ledger>>

\* Mutant: the expiry closes the continuation but keeps its reservation.
ResolveExpireLeaks(w, c) ==
    /\ wk[w].pc = "recover"
    /\ host.live
    /\ ExpireCandidate(c, wk[w].clk)
    /\ job[c].owner = claim[c].owner /\ job[c].exp = claim[c].exp
    /\ cont' = [cont EXCEPT ![c].status = "superseded"]
    /\ effect' = [effect EXCEPT ![c] = "failed"]
    /\ job' = [job EXCEPT ![c] = ClosedJob]
    /\ UNCHANGED <<now, control, claim, attempt, resv, episode, wk>>

\* Mutant: only the generation that made a claim may expire it; another one
\* ends its tick with an error.
ResolveExpireOwn(w, c) ==
    /\ wk[w].pc = "recover"
    /\ host.live
    /\ ExpireCandidate(c, wk[w].clk)
    /\ job[c].owner = claim[c].owner /\ job[c].exp = claim[c].exp
    /\ \/ /\ host.gen = claim[c].gen
          /\ cont' = [cont EXCEPT ![c].status = "superseded"]
          /\ effect' = [effect EXCEPT ![c] = "failed"]
          /\ resv' = [resv EXCEPT ![c] = "expired"]
          /\ job' = [job EXCEPT ![c] = ClosedJob]
          /\ UNCHANGED wk
       \/ /\ host.gen # claim[c].gen
          /\ wk' = [wk EXCEPT ![w] = [DownWorker EXCEPT !.pc = "idle"]]
          /\ UNCHANGED <<cont, effect, resv, job>>
    /\ UNCHANGED <<now, control, claim, attempt, episode>>

\* resolve_technical_resources_atomically, ExpireUndispatched.
ResolveExpire(w, c) ==
    /\ wk[w].pc = "recover"
    /\ host.live
    /\ ExpireCandidate(c, wk[w].clk)
    /\ job[c].owner = claim[c].owner /\ job[c].exp = claim[c].exp
    /\ cont' = [cont EXCEPT ![c].status = "superseded"]
    /\ effect' = [effect EXCEPT ![c] = "failed"]
    /\ resv' = [resv EXCEPT ![c] = "expired"]
    /\ job' = [job EXCEPT ![c] = ClosedJob]
    /\ UNCHANGED <<now, control, claim, attempt, episode, wk>>

\* The recovery pass is over; a Stale receipt leaves its candidate for later.
EndRecover(w) ==
    /\ wk[w].pc = "recover"
    /\ host.live
    /\ ReceiptContention \/ \A c \in Conts : ~ExpireCandidate(c, wk[w].clk)
    /\ wk' = [wk EXCEPT ![w].pc = "evaluate"]
    /\ UNCHANGED <<now, control, ledger>>

\* The directives plan_objective_recovery can give: an unknown outcome waits
\* for external reconciliation; a failure is deferred and evaluated again, is
\* left to a retry or an owner choice, or ends the delegation's work.
RecoveryDirective(c) ==
    IF effect[c] = "outcome_unknown" THEN {"done"} ELSE {"backoff", "done", "terminal"}

\* apply_provider_recovery_atomically
EvaluateRecovery(w, c) ==
    LET d == DelegationOf[c] IN
    /\ wk[w].pc = "evaluate"
    /\ host.live
    /\ RecoveryDue(c) /\ RecoveryEvaluable(c)
    /\ \E directive \in RecoveryDirective(c) :
        /\ directive = "backoff" => deleg[d].rev < MaxRevision
        /\ episode' = [episode EXCEPT ![c] = IF directive = "backoff" THEN "backoff" ELSE "done"]
        /\ deleg' = [deleg EXCEPT ![d].rev = @ + 1, ![d].open = directive # "terminal"]
    /\ UNCHANGED <<now, glob, host, cont, claim, job, effect, attempt, resv, wk>>

\* Every due effect was evaluated, or lost its receipt race, or its backoff
\* has not elapsed.
EndEvaluate(w) ==
    /\ wk[w].pc = "evaluate"
    /\ ReceiptContention \/ \A c \in Conts : RecoveryDue(c) => episode[c] = "backoff"
    /\ wk' = [wk EXCEPT ![w].pc = "materialize"]
    /\ UNCHANGED <<now, control, ledger>>

\* An error in the recovery scan or the evaluation ends the tick: the loop
\* sleeps and starts over.  No runtime host, a candidate whose job was leased
\* again, or a due effect that cannot be evaluated is such an error.
AbortTick(w) ==
    /\ \/ /\ wk[w].pc = "recover"
          /\ \/ ~host.live
             \/ \E c \in Conts :
                  /\ ExpireCandidate(c, wk[w].clk)
                  /\ <<job[c].owner, job[c].exp>> # <<claim[c].owner, claim[c].exp>>
       \/ /\ wk[w].pc = "evaluate"
          /\ \E c \in Conts : RecoveryDue(c) /\ ~(RecoveryEvaluable(c) /\ host.live)
    /\ wk' = [wk EXCEPT ![w] = [DownWorker EXCEPT !.pc = "idle"]]
    /\ UNCHANGED <<now, control, ledger>>

\* materialize_runnable_continuation_jobs: one job per unbound runnable
\* continuation.
Materialize(w) ==
    /\ wk[w].pc = "materialize"
    /\ job' = [c \in Conts |->
                 IF cont[c].status = "runnable" /\ job[c].state = "none"
                 THEN UnleasedJob
                 ELSE job[c]]
    /\ wk' = [wk EXCEPT ![w].pc = "acquire"]
    /\ UNCHANGED <<now, control, cont, claim, effect, attempt, resv, episode>>

\* acquire_due_jobs: one UPDATE per due job, with the tick's now_ms.
AcquireDueJob(w, c) ==
    /\ wk[w].pc = "acquire"
    /\ JobDue(c, wk[w].clk)
    /\ wk[w].clk + LeaseMs < MaxTime
    /\ job' = [job EXCEPT ![c].owner = w, ![c].exp = wk[w].clk + LeaseMs]
    /\ wk' = [wk EXCEPT ![w].todo = @ \cup {c}, ![w].exp = wk[w].clk + LeaseMs]
    /\ UNCHANGED <<now, control, cont, claim, effect, attempt, resv, episode>>

EndAcquire(w) ==
    /\ wk[w].pc = "acquire"
    /\ \A c \in Conts : JobDue(c, wk[w].clk) => wk[w].clk + LeaseMs >= MaxTime
    /\ wk' = [wk EXCEPT ![w].pc = "run", ![w].clk = now]
    /\ UNCHANGED <<now, control, ledger>>

-----------------------------------------------------------------------------
(* execute_execass_continuation_once, for each job of the leased batch. *)

\* Mutant: the job lease alone admits the claim.
ClaimChecksPassAnyStatus(w, c) ==
    /\ JobLeaseMatches(c, w, wk[w].exp, wk[w].clk)
    /\ host.live

\* The checks of claim_continuation_atomically before the drift test.
ClaimChecksPass(w, c) ==
    /\ JobLeaseMatches(c, w, wk[w].exp, wk[w].clk)
    /\ cont[c].status = "runnable"
    /\ host.live

Claimable(w, c) == ClaimChecksPass(w, c) /\ ~Drift(c) /\ ResourcesAvailable(c)

ClaimSupersedes(w, c) == ClaimChecksPass(w, c) /\ Drift(c) /\ ReceiptRevisionMatches(c)

Claim(w, c) ==
    /\ wk[w].pc = "run" /\ c \in wk[w].todo
    /\ Claimable(w, c)
    /\ cont' = [cont EXCEPT ![c].status = "executing"]
    /\ claim' = [claim EXCEPT ![c] = [owner |-> w, exp |-> wk[w].exp, gen |-> host.gen]]
    /\ effect' = [effect EXCEPT ![c] = IF @ = "planned" THEN "claimed" ELSE @]
    /\ resv' = [resv EXCEPT ![c] = IF effect[c] = "planned" THEN "reserved" ELSE @]
    /\ wk' = [wk EXCEPT ![w].pc = "claimed", ![w].cur = c, ![w].clk = now,
                        ![w].todo = @ \ {c}]
    /\ UNCHANGED <<now, control, job, attempt, episode>>

\* supersede_with_receipt: the planned effect is left as it is.
ClaimSupersede(w, c) ==
    /\ wk[w].pc = "run" /\ c \in wk[w].todo
    /\ ClaimSupersedes(w, c)
    /\ cont' = [cont EXCEPT ![c].status = "superseded"]
    /\ job' = [job EXCEPT ![c] = ClosedJob]
    /\ wk' = [wk EXCEPT ![w].todo = @ \ {c}, ![w].clk = now]
    /\ UNCHANGED <<now, control, claim, effect, attempt, resv, episode>>

\* Lost, Stale or an error: nothing commits and the job keeps its lease.
ClaimLost(w, c) ==
    /\ wk[w].pc = "run" /\ c \in wk[w].todo
    /\ \/ ~Claimable(w, c) /\ ~ClaimSupersedes(w, c)
       \/ wk[w].exp <= now
       \/ ReceiptContention
    /\ wk' = [wk EXCEPT ![w].todo = @ \ {c}, ![w].clk = now]
    /\ UNCHANGED <<now, control, ledger>>

FinishRun(w) ==
    /\ wk[w].pc = "run" /\ wk[w].todo = {}
    /\ wk' = [wk EXCEPT ![w] = [DownWorker EXCEPT !.pc = "idle"]]
    /\ UNCHANGED <<now, control, ledger>>

\* production_recorder_dispatch_material finds a recorder and the exact
\* operands of the effect; otherwise the claim is settled as waiting.
Installed(w) == w \in RecorderWorkers /\ wk[w].cur \in EffectConts

\* The worker drops the identity and goes on with its batch.
Drop(w) == wk' = [wk EXCEPT ![w].pc = "run", ![w].cur = None, ![w].clk = now]

\* prepare_provider_attempt: creates the one attempt of the effect.
PrepareAttempt(w) ==
    /\ wk[w].pc = "claimed" /\ Installed(w)
    /\ IdentityLive(w)
    /\ attempt' = [attempt EXCEPT ![wk[w].cur] = "prepared"]
    /\ wk' = [wk EXCEPT ![w].pc = "prepared", ![w].clk = now]
    /\ UNCHANGED <<now, control, cont, claim, job, effect, resv, episode>>

\* begin_provider_attempt_invocation: the only boundary that authorizes the
\* provider call.  Began makes the worker send ExecuteOnce to the recorder.
CanBegin(w) == IdentityLive(w) /\ ~Drift(wk[w].cur) /\ effect[wk[w].cur] \in {"claimed", "failed"}

BeginInvocation(w) ==
    /\ wk[w].pc = "prepared"
    /\ CanBegin(w)
    /\ attempt' = [attempt EXCEPT ![wk[w].cur] = "invoking"]
    /\ effect' = [effect EXCEPT ![wk[w].cur] = "invoking"]
    /\ wk' = [wk EXCEPT ![w].pc = "sent", ![w].clk = now]
    /\ UNCHANGED <<now, control, cont, claim, job, resv, episode>>

CanSettle(w) == IdentityLive(w) /\ ReceiptRevisionMatches(wk[w].cur)

\* settle_continuation_atomically for an adapter that is not available:
\* `waiting`, or `superseded` when the global stop moved since the claim.
\* The claimed effect is failed and its reservation released.
Settle(w) ==
    LET c == wk[w].cur IN
    /\ wk[w].pc = "claimed" /\ ~Installed(w)
    /\ CanSettle(w)
    /\ cont' = [cont EXCEPT ![c].status = IF Drift(c) THEN "superseded" ELSE "waiting"]
    /\ effect' = [effect EXCEPT ![c] = IF @ = "claimed" THEN "failed" ELSE @]
    /\ resv' = [resv EXCEPT ![c] = IF @ = "reserved" THEN "released" ELSE @]
    /\ job' = [job EXCEPT ![c] = ClosedJob]
    /\ Drop(w)
    /\ UNCHANGED <<now, control, claim, attempt, episode>>

\* Stale, Lost or an error before the boundary: nothing commits.
LoseDispatch(w) ==
    /\ \/ /\ wk[w].pc = "claimed"
          /\ IF Installed(w) THEN ~IdentityLive(w) ELSE ~CanSettle(w) \/ ReceiptContention
       \/ wk[w].pc = "prepared" /\ ~CanBegin(w)
       \/ wk[w].pc \in {"claimed", "prepared"} /\ wk[w].exp <= now
    /\ Drop(w)
    /\ UNCHANGED <<now, control, ledger>>

\* reconcile_recorder_evidence_atomically, signed execution evidence.  A
\* current runtime host is enough: neither the lease nor drift matters here.
\* `absent` closes only the attempt.
ImportReply(w, kind) ==
    LET c == wk[w].cur IN
    /\ wk[w].pc = "sent"
    /\ host.live
    /\ cont[c].status = "executing" /\ attempt[c] = "invoking" /\ resv[c] = "reserved"
    /\ LET outcome == CASE kind = "present" -> "succeeded"
                        [] kind = "absent" -> "failed"
                        [] kind = "unknown" -> "outcome_unknown"
       IN /\ attempt' = [attempt EXCEPT ![c] = outcome]
          /\ effect' = [effect EXCEPT ![c] = outcome]
    /\ IF kind = "absent"
       THEN UNCHANGED <<cont, job, resv>>
       ELSE /\ cont' = [cont EXCEPT ![c].status =
                          IF kind = "present" THEN "terminal" ELSE "uncertain"]
            /\ resv' = [resv EXCEPT ![c] =
                          IF kind = "present" THEN "settled" ELSE "reconciliation_required"]
            /\ job' = [job EXCEPT ![c] = ClosedJob]
    /\ Drop(w)
    /\ UNCHANGED <<now, control, claim, episode>>

\* The transport failed, the reply is not terminal, or its import lost a race:
\* the attempt stays `invoking`.
LoseReply(w) ==
    /\ wk[w].pc = "sent"
    /\ Drop(w)
    /\ UNCHANGED <<now, control, ledger>>

\* reconcile_recorder_evidence_atomically, signed reconciliation evidence.
ImportReconciliation(c, kind) ==
    /\ kind \in {"present", "absent"}
    /\ host.live
    /\ cont[c].status = "uncertain" /\ attempt[c] = "outcome_unknown"
    /\ resv[c] = "reconciliation_required"
    /\ LET present == kind = "present"
           outcome == IF present THEN "reconciled_present" ELSE "reconciled_absent"
       IN /\ attempt' = [attempt EXCEPT ![c] = outcome]
          /\ effect' = [effect EXCEPT ![c] = outcome]
          /\ cont' = [cont EXCEPT ![c].status = IF present THEN "terminal" ELSE "superseded"]
          /\ resv' = [resv EXCEPT ![c] = IF present THEN "settled" ELSE "released"]
    /\ job' = [job EXCEPT ![c] = ClosedJob]
    /\ UNCHANGED <<now, control, claim, episode, wk>>

-----------------------------------------------------------------------------
(* Owner commands, each one transaction. *)

\* Mutant: a superseded continuation is admitted again.
AdmitAgain(c) ==
    LET d == DelegationOf[c] IN
    /\ cont[c].status \in {"none", "superseded"}
    /\ host.live
    /\ deleg[d].open
    /\ \A e \in Conts : /\ DelegationOf[e] = d
                        /\ cont[e].rev = deleg[d].rev
                        => cont[e].status \notin {"runnable", "executing"}
    /\ cont' = [cont EXCEPT ![c] = [status |-> "runnable", rev |-> deleg[d].rev,
                                    epoch |-> deleg[d].epoch, glob |-> glob.epoch]]
    /\ effect' = [effect EXCEPT ![c] = IF c \in EffectConts THEN "planned" ELSE "none"]
    /\ UNCHANGED <<now, control, claim, job, attempt, resv, episode, wk>>

\* resolve_decision_atomically: the owner's decision inserts a runnable
\* continuation bound to the delegation's revision and both stop epochs, with
\* its planned effect.  A unique index allows one runnable or executing
\* continuation per delegation revision.  Run control is not consulted.
Admit(c) ==
    LET d == DelegationOf[c] IN
    /\ cont[c].status = "none"
    /\ host.live
    /\ deleg[d].open
    /\ \A e \in Conts : /\ DelegationOf[e] = d
                        /\ cont[e].rev = deleg[d].rev
                        => cont[e].status \notin {"runnable", "executing"}
    /\ cont' = [cont EXCEPT ![c] = [status |-> "runnable", rev |-> deleg[d].rev,
                                    epoch |-> deleg[d].epoch, glob |-> glob.epoch]]
    /\ effect' = [effect EXCEPT ![c] = IF c \in EffectConts THEN "planned" ELSE "none"]
    /\ UNCHANGED <<now, control, claim, job, attempt, resv, episode, wk>>

RequestStop(d) ==
    /\ deleg[d].run = "running" /\ deleg[d].open
    /\ deleg[d].rev < MaxRevision
    /\ deleg' = [deleg EXCEPT ![d].run = "stop_requested", ![d].rev = @ + 1, ![d].epoch = @ + 1]
    /\ UNCHANGED <<now, glob, host, ledger, wk>>

\* Mutant: the drain does not count executing continuations.
CompleteDrainUnchecked(d) ==
    /\ deleg[d].run = "stop_requested"
    /\ host.live
    /\ deleg' = [deleg EXCEPT ![d].run = "stopped", ![d].rev = @ + 1]
    /\ UNCHANGED <<now, glob, host, ledger, wk>>

\* complete_delegation_stop_drain_atomically, from the drain loop.
CompleteDrain(d) ==
    /\ deleg[d].run = "stop_requested"
    /\ host.live
    /\ \A c \in Conts : DelegationOf[c] = d => cont[c].status # "executing"
    /\ deleg' = [deleg EXCEPT ![d].run = "stopped", ![d].rev = @ + 1]
    /\ UNCHANGED <<now, glob, host, ledger, wk>>

ResumeDelegation(d) ==
    /\ deleg[d].run = "stopped"
    /\ deleg[d].rev < MaxRevision
    /\ deleg' = [deleg EXCEPT ![d].run = "running", ![d].rev = @ + 1, ![d].epoch = @ + 1]
    /\ UNCHANGED <<now, glob, host, ledger, wk>>

\* amend_lifecycle_in_transaction: every open continuation is superseded; jobs,
\* effects and reservations are not touched.  A trigger demands claim history
\* when a continuation leaves `executing`, so an executing one blocks it.
Amend(d) ==
    /\ deleg[d].open
    /\ deleg[d].rev < MaxRevision
    /\ \A c \in Conts : DelegationOf[c] = d => cont[c].status # "executing"
    /\ cont' = [c \in Conts |->
                  IF DelegationOf[c] = d /\ cont[c].status \in {"runnable", "waiting", "uncertain"}
                  THEN [cont[c] EXCEPT !.status = "superseded"] ELSE cont[c]]
    /\ deleg' = [deleg EXCEPT ![d].rev = @ + 1]
    /\ UNCHANGED <<now, glob, host, claim, job, effect, attempt, resv, episode, wk>>

EngageGlobalStop ==
    /\ ~glob.engaged
    /\ glob.epoch < MaxGlobalEpoch
    /\ glob' = [engaged |-> TRUE, epoch |-> glob.epoch + 1]
    /\ UNCHANGED <<now, deleg, host, ledger, wk>>

ResumeGlobalStop ==
    /\ glob.engaged
    /\ glob' = [glob EXCEPT !.engaged = FALSE]
    /\ UNCHANGED <<now, deleg, host, ledger, wk>>

-----------------------------------------------------------------------------
ExecutionEvidence == {"present", "absent", "unknown"}

SchedulerStep(w) ==
    \/ BeginTick(w) \/ EndRecover(w) \/ EndEvaluate(w) \/ AbortTick(w)
    \/ Materialize(w) \/ EndAcquire(w) \/ FinishRun(w)
    \/ PrepareAttempt(w) \/ BeginInvocation(w) \/ Settle(w) \/ LoseDispatch(w)
    \/ \E c \in Conts :
         \/ ResolveExpire(w, c) \/ EvaluateRecovery(w, c) \/ AcquireDueJob(w, c)
         \/ Claim(w, c) \/ ClaimSupersede(w, c) \/ ClaimLost(w, c)

RecorderReply(w) == LoseReply(w) \/ \E kind \in ExecutionEvidence : ImportReply(w, kind)

ProcessStep == ReleaseHost \/ \E w \in Workers : StartGateway(w) \/ Crash(w)

OwnerStep ==
    \/ EngageGlobalStop \/ ResumeGlobalStop
    \/ \E c \in Conts : Admit(c)
    \/ \E d \in Delegations :
         RequestStop(d) \/ CompleteDrain(d) \/ ResumeDelegation(d) \/ Amend(d)

Next ==
    \/ Tick
    \/ ProcessStep
    \/ OwnerStep
    \/ \E w \in Workers : SchedulerStep(w) \/ RecorderReply(w)
    \/ \E c \in Conts, kind \in ExecutionEvidence : ImportReconciliation(c, kind)

Spec == Init /\ [][Next]_vars

-----------------------------------------------------------------------------
(* Safety. *)

\* `stopped` is never exposed while a continuation of the delegation executes
\* (request_delegation_stop_atomically and the drain), whatever was admitted,
\* claimed or dropped in between.
StoppedIsQuiet ==
    \A c \in Conts : deleg[DelegationOf[c]].run = "stopped" => cont[c].status # "executing"

\* The reservations that hold quota never exceed the delegation's limit, with
\* claims, expiries, settlements and imports of several continuations and
\* workers interleaved (prepare_resource_bundle).
QuotaNeverExceeded ==
    \A d \in Delegations : QuotaUsed(d) <= QuotaLimit

\* Once the prepared -> invoking boundary was crossed, the reservation is given
\* back only on signed evidence that the effect is absent: neither expiry nor
\* settlement frees what a provider may have consumed.
InvokedKeepsReservation ==
    \A c \in Conts :
        attempt[c] \in {"invoking", "succeeded", "failed", "outcome_unknown", "reconciled_present"}
            => resv[c] \in HoldingReservation

\* The rows of one effect agree: what is claimed or invoking belongs to an
\* executing continuation with a live reservation; an unknown outcome holds its
\* reservation for reconciliation; a success is settled and closed.
EffectRowsAgree ==
    \A c \in Conts :
        /\ effect[c] \in {"claimed", "invoking"} =>
             cont[c].status = "executing" /\ resv[c] = "reserved"
        /\ effect[c] = "claimed" => attempt[c] \in {"none", "prepared"}
        /\ effect[c] = "invoking" <=> attempt[c] = "invoking"
        /\ effect[c] = "outcome_unknown" =>
             /\ cont[c].status \in {"uncertain", "superseded"}
             /\ resv[c] = "reconciliation_required"
        /\ effect[c] \in {"succeeded", "reconciled_present"} =>
             cont[c].status = "terminal" /\ resv[c] = "settled"

\* A continuation that is not open any more has no job a worker could lease:
\* only an amendment leaves the job of the continuation it superseded enabled,
\* and that continuation was never claimed.
ClosedWorkHasNoJob ==
    \A c \in Conts :
        /\ cont[c].status \in {"waiting", "uncertain", "terminal"} => job[c].state = "closed"
        /\ cont[c].status = "superseded" /\ claim[c] # NoClaim => job[c].state = "closed"

\* At most one worker acts under the claim of a continuation, and it is the
\* worker the immutable claim names, across lease expiry, crashes and
\* overlapping gateways.
OneHolderPerClaim ==
    \A w \in Workers : HoldsIdentity(w) =>
        /\ claim[wk[w].cur].owner = w
        /\ \A v \in Workers \ {w} : HoldsIdentity(v) => wk[v].cur # wk[w].cur

\* A worker that waits for the recorder's reply waits for an attempt that is
\* invoking: nothing else settles, expires or supersedes it meanwhile.
SentIsInvoking ==
    \A w \in Workers : wk[w].pc = "sent" =>
        /\ attempt[wk[w].cur] = "invoking"
        /\ cont[wk[w].cur].status = "executing"

\* A claim that was not dispatched keeps its job lease until it is settled or
\* expired, so that the exact-lease UPDATE of its expiry can succeed: the
\* recovery scan (expires_at <= now_ms) runs before acquire_due_jobs
\* (lease_expires_at < now_ms) with the same now_ms.
ClaimKeepsItsJobLease ==
    \A c \in Conts : effect[c] = "claimed" =>
        job[c].owner = claim[c].owner /\ job[c].exp = claim[c].exp

\* A stop is a fence: a continuation admitted before a delegation stop or a
\* global stop is neither claimed nor invoked after it, not even when the stop
\* has been resumed in the meantime.
StopIsAFence ==
    [][\A c \in Conts :
         (\/ cont[c].epoch < deleg[DelegationOf[c]].epoch
          \/ cont[c].glob < glob.epoch)
         => /\ cont'[c].status = "executing" => cont[c].status = "executing"
            /\ attempt'[c] = "invoking" => attempt[c] = "invoking"]_vars

\* A continuation is claimed at most once: its claim row never changes, and
\* closed continuations and finished attempts stay closed.
ClaimedOnce ==
    [][\A c \in Conts :
         /\ claim[c] # NoClaim => claim'[c] = claim[c]
         /\ cont[c].status \in {"terminal", "superseded"} => cont'[c] = cont[c]
         /\ attempt[c] = "invoking" => attempt'[c] # "prepared"
         /\ attempt[c] \in {"succeeded", "failed", "reconciled_present", "reconciled_absent"}
              => attempt'[c] = attempt[c]]_vars

-----------------------------------------------------------------------------
(* The inductive invariant behind the safety properties. *)

\* The whole shape of the rows of one continuation: which statuses of the
\* continuation, the attempt and the reservation go with each effect state.
RowsAgree(c) ==
    LET status == cont[c].status IN
    /\ status \in {"none", "runnable"} => claim[c] = NoClaim
    /\ effect[c] = "none" =>
         /\ attempt[c] = "none" /\ resv[c] = "none"
         /\ status \notin {"uncertain", "terminal"}
         /\ status = "none" \/ c \notin EffectConts
    /\ effect[c] = "planned" =>
         /\ attempt[c] = "none" /\ resv[c] = "none"
         /\ status \in {"runnable", "superseded"}
    /\ effect[c] = "claimed" =>
         /\ attempt[c] \in {"none", "prepared"} /\ resv[c] = "reserved"
         /\ status = "executing"
    /\ effect[c] = "invoking" =>
         attempt[c] = "invoking" /\ resv[c] = "reserved" /\ status = "executing"
    /\ effect[c] = "failed" =>
         \/ /\ attempt[c] \in {"none", "prepared"} /\ resv[c] \in {"released", "expired"}
            /\ status \in {"waiting", "superseded"}
         \/ attempt[c] = "failed" /\ resv[c] = "reserved" /\ status = "executing"
    /\ effect[c] = "outcome_unknown" =>
         /\ attempt[c] = "outcome_unknown" /\ resv[c] = "reconciliation_required"
         /\ status \in {"uncertain", "superseded"}
    /\ effect[c] \in {"succeeded", "reconciled_present"} =>
         attempt[c] = effect[c] /\ resv[c] = "settled" /\ status = "terminal"
    /\ effect[c] = "reconciled_absent" =>
         /\ attempt[c] = "reconciled_absent" /\ resv[c] = "released"
         /\ status = "superseded"

\* What a worker that holds an identity knows of the rows: nobody else creates
\* or finishes the attempt it is working on.
IdentityAgrees(w) ==
    HoldsIdentity(w) =>
        /\ wk[w].cur \in Conts
        /\ claim[wk[w].cur].owner = w
        /\ wk[w].pc = "claimed" => attempt[wk[w].cur] = "none"
        /\ wk[w].pc = "prepared" => attempt[wk[w].cur] = "prepared"
        /\ wk[w].pc = "sent" => attempt[wk[w].cur] = "invoking"

\* The rows of every continuation have one of the shapes the transactions
\* leave, and every worker's identity fits them, however the steps interleave.
RowInvariant ==
    /\ \A c \in Conts : RowsAgree(c)
    /\ \A w \in Workers : IdentityAgrees(w)

-----------------------------------------------------------------------------
(* Liveness.  The scheduler loop and the drain loop run as long as their     *)
(* process does, a process that released its host exits, a replacement      *)
(* gateway is started after that or after a crash, and time passes.  Owners  *)
(* need not act and the recorder need not answer.                            *)

Fairness ==
    /\ WF_vars(Tick)
    /\ WF_vars(\E w \in Workers : StartGateway(w))
    /\ WF_vars(~host.live /\ \E w \in Workers : Crash(w))
    /\ \A w \in Workers : WF_vars(SchedulerStep(w)) /\ WF_vars(LoseReply(w))
    /\ \A d \in Delegations : WF_vars(CompleteDrain(d))

FairSpec == Spec /\ Fairness

\* A claim whose worker crashed, stalled or lost its authority before the
\* boundary is settled or expired: its reservation does not leak.
UndispatchedClaimIsResolved ==
    \A c \in Conts : effect[c] = "claimed" ~> effect[c] # "claimed"

\* What the planner's PreInvocationFailure class ("The provider boundary was
\* never crossed.") is for: an effect that failed before its invocation gets a
\* recovery evaluation.
PreInvocationFailureIsEvaluated ==
    \A c \in Conts : effect[c] = "failed" /\ attempt[c] \in {"none", "prepared"}
                        ~> episode[c] # "none"

=============================================================================
