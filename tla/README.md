# CarsinOS: a TLA+ verification project

CarsinOS is a local agent runtime with one owner. This project models the parts of it whose
correctness depends on the order of steps: the ExecAss ledger that turns an owner's decision into
one external effect, at most once; the out-of-process recorder that performs the effect; the
receipt journal and its external anchor; confirmations, routines and jobs; and the runs of
conversation sessions. TLC checks the modules on small instances; the safety of the ledger is
also proved with TLAPS for every value of the constants.

Paths below are relative to the repository. `storage` is `crates/carsinos-storage/src/execass`,
`gateway` is `crates/carsinos-gateway/src`, `recorder` is `crates/carsinos-effect-recorder/src`,
`store` is `crates/carsinos-storage/src/lib.rs`.

## 1. Inventory

| Component | State | Operations | Interacts with | Hard behaviour |
| --- | --- | --- | --- | --- |
| Continuation claims (`storage/claim.rs`) | continuations, claim history, reservations | claim, settle, supersede, expire | scheduler, jobs, recorder import | leases and fences that lapse between two transactions |
| Provider attempts (`storage/effect.rs`) | attempts, logical effects | prepare, begin invocation | claims, recorder | the prepared -> invoking boundary |
| Continuation jobs (`storage/jobs.rs`) | jobs and their leases | materialize, lease | scheduler | one clock reading in several transactions |
| Objective recovery (`storage/recovery.rs`) | recovery episodes | list due, evaluate | scheduler, lifecycle | failures before and after the boundary |
| Recorder import (`storage/recorder.rs`) | evidence, attempts, effects | import evidence | recorder | late, lost or unknown outcomes |
| Run control (`storage/delegation_control.rs`, `global_stop.rs`) | run control, stop epochs | stop, drain, resume, global stop | owner, drain loop | stops between any two steps |
| Lifecycle (`storage/lifecycle.rs`) | phase, revision | amend, snapshot, correct | owner | supersedes open work in one statement |
| Decisions (`storage/decision.rs`) | decisions | resolve, admit a continuation | owner | bound to revision and epochs |
| Runtime host (`storage/runtime_host.rs`) | host generation and lease | activate, take over, release | gateway processes | crash and replacement |
| Scheduler (`gateway/main.rs`, `execass_confirmation_runtime.rs`) | in-memory batch and identity | tick, dispatch, import | everything above | an error ends a tick; crash anywhere |
| Effect recorder (`recorder/`) | journal on disk and in memory, target files | ExecuteOnce, Reconcile, QueryOnly | gateway, database (read-only), files | concurrent tasks, torn writes, crashes |
| Receipts (`storage/receipt.rs`, `receipt_integrity.rs`) | receipt chain, anchor rows, anchor documents, key | append, finalize, recover, quarantine | every ledger transaction | crash between commit and anchor; a second process that recovers |
| Confirmation (`storage/confirmation.rs`) | challenges, grants | present, sign, consume, invalidate | decisions, lifecycle, owner ingress | expiry and drift between signature and consumption |
| Routines (`storage/routines.rs`, `routine_admission.rs`) | cursor, occurrences, triggers | materialize, plan, settle, admit | scheduler | catch-up, time zones, amendment in between |
| Generic jobs (`store`, `gateway/main.rs`) | jobs, leases, circuit breakers | lease, run, retry, run now, update, remove | scheduler, routes | runs beside the lease, lost updates, crash |
| Session runs (`gateway/main.rs`) | messages, runs, approvals, lanes in memory | start, resume, execute, approve, deliver | channels, jobs, workers | lanes held across nested runs; interrupted rows |
| Completion (`storage/completion.rs`, `verifier.rs`) | assessments, corrections | assess, correct | lifecycle, receipts | late contrary evidence |
| Delivery (`storage/delivery.rs`, `channel_reply.rs`) | notifications, cursors | schedule, remind, acknowledge | channels | stale reasons |
| API, Mission Control, providers, channels, CLI | - | input, output and presentation | - | - |

What makes the system correct: an effect begins at most once, only for an attempt the ledger
counts as invoked, and its recorded outcome is the recorder's; a stop is a fence for everything
admitted before it; reservations never exceed the quota; an undispatched claim is resolved in the
end; every event has one receipt and a restart never mistakes an interrupted append for tampering;
a grant is what the owner answered; a scheduled instant is judged and run once; a due job runs; one
run of a session executes at a time and no way out of a run leaves its lane held.
`PROJECT.json` lists every component with its status and the hazards at their lines.

## 2. Modules

| Module | Models | Instance and runs |
| --- | --- | --- |
| `ContinuationClaim` | ledger, scheduler, run control, host lease, recorder import | `MCContinuationClaim`: `claim_*` |
| `EffectRecorder` | recorder service, journal, exact-overwrite adapter | `MCEffectRecorder`: `recorder_*` |
| `ExecuteOnce` | what the recorder promises its clients (abstract specification) | a property of `recorder_crash` |
| `EffectDispatch` | ledger, gateway task and recorder composed | `MCEffectDispatch`: `dispatch_safe` |
| `ReceiptAnchor` | receipt journal, external anchor, recovery at start | `MCReceiptAnchor`: `anchor_crash` |
| `Confirmation` | dangerous-action confirmation | `MCConfirmation`: `confirm_answer` |
| `Routines` | saved routines | `MCRoutines`: `routines` |
| `JobScheduler` | generic jobs | `MCJobScheduler`: `jobs` |
| `SessionRuns` | runs of conversation sessions | `MCSessionRuns`: `runs` |

The theorems about a module and their TLAPS proofs are in `<Module>Proofs`, which extends it; see section 5.

`EffectDispatch` takes one claimed effect of `ContinuationClaim` past its boundary and composes it
with `ExecuteOnce` (`INSTANCE`); `EffectRecorder` is shown to implement `ExecuteOnce`, so what holds of
the composition holds with the journal, the mutex and the crashes of the real recorder below it.

Operators whose comment begins with "Mutant:" are not part of a model: each is a plausible bug of
the definition that follows it, and shows that the property it is paired with in `PROJECT.json` can
fail.

### ContinuationClaim

One action is one committed transaction, or one step of a worker's memory. `deleg`, `glob` and
`host` are the delegation, global-control and host-lease rows; `cont`, `claim`, `job`, `effect`,
`attempt`, `resv` and `episode` are the rows of one continuation in their tables; `wk` is what a
scheduler task holds in memory (phase of the tick, the tick's `now_ms` or the clock of its last
step, the leased batch, the identity it works under).

| Action | Code |
| --- | --- |
| `Admit` | `resolve_decision_atomically` |
| `BeginTick`, `EndRecover`, `EndEvaluate`, `AbortTick`, `EndAcquire`, `FinishRun` | `scheduler_loop` |
| `ResolveExpire` | `resolve_technical_resources_atomically`, ExpireUndispatched |
| `EvaluateRecovery` | `apply_provider_recovery_atomically` |
| `Materialize`, `AcquireDueJob` | `materialize_runnable_continuation_jobs`, `acquire_due_jobs` |
| `Claim`, `ClaimSupersede`, `ClaimLost` | `claim_continuation_atomically` and its outcomes |
| `PrepareAttempt`, `BeginInvocation` | `prepare_provider_attempt`, `begin_provider_attempt_invocation` |
| `Settle`, `LoseDispatch` | `settle_continuation_atomically`; errors before the boundary |
| `ImportReply`, `LoseReply`, `ImportReconciliation` | `reconcile_recorder_evidence_atomically` |
| `RequestStop`, `CompleteDrain`, `ResumeDelegation` | `delegation_control.rs` |
| `EngageGlobalStop`, `ResumeGlobalStop`, `Amend` | `global_stop.rs`, `amend_lifecycle_in_transaction` |
| `StartGateway`, `ReleaseHost`, `Crash` | `runtime_host.rs`, end of a process |

Time: a tick reads `now_ms` once; a later call reads the clock again. A worker's `clk` is the time of
its last step, so a check "lease is live" may pass in the model whenever some instant between that
step and now would let it pass, and may fail whenever the lease has run out by now.

Abstractions: identifiers, digests, receipts and outbox rows are left out; a receipt that lost its
race (`Stale`) is the constant `ReceiptContention`. A continuation has one job, one effect and one
attempt (the gateway never asks for a retry authorization). The effects of a delegation share one
quota snapshot and need one unit each.

### EffectRecorder and ExecuteOnce

`disk` is the journal file as a sequence of frames, `mem` the records the process has indexed,
`mutex` the handler that holds the journal across steps, `hd` the connection tasks, `file` what
`inspect_current` tells of each target file, `authority` what the database proves. `writes` and
`told` are history variables. ExecuteOnce is `ReceiveExecute`, `Admit*`, `AppendAccepted`,
`AppendStarted`, `InvokeInspect` or `BeginWrite` and `EndWrite`, `RecordTerminal`; Reconcile is
`ReceiveReconcile`, `ReconcileReply` or `ReconcileInspect` and `SignReconciliation`. `Crash` may
leave a torn or a whole frame of the append it interrupts; `FailAppend` does the same without
ending the process. `Open` is the scan at start-up. A torn frame ends the journal when fewer
bytes follow than it announces: that is nothing, or one record shorter than the torn one (two
whole records are always longer).

`ExecuteOnce` has one durable status per attempt that only moves forward, an effect that begins once
and only after its start is durable, and answers that are the durable status. The refinement mapping
reads the status from the whole frames on disk, `begun` from `writes` and `answered` from `told`. It
holds when a failed append ends the process (`MaxFailures = 0`); see the observations for the other
case.

### EffectDispatch

`run` and `gstop` are the stops, `live` whether a claim's leases hold, `cont`, `att` and `resv` the
rows of each claim, `disp` the gateway task, `wire` what is in flight, and the recorder's variables
are those of `ExecuteOnce`.

| Action | Code |
| --- | --- |
| `PrepareAttempt`, `BeginInvocation` | `prepare_provider_attempt`, `dispatch_installed_recorder_material` |
| `AdmitExecution`, `RejectExecution` | `verify` (the recorder reads the ledger), `handle_inner` |
| `Execute`, `FinishExecution` | adapter, evidence and reply |
| `ImportReply`, `EndDispatch` | `apply_atomic_convergence`, `execute_execass_continuation_once` |
| `ResolveExpire` | `recover_scheduler_technical_resources` |
| `RequestStop`, `CompleteDrain`, `GlobalStop`, `Amend` | as in `ContinuationClaim` |
| `Lapse`, `RecorderCrash` | the clock, end and restart of the recorder |

### ReceiptAnchor

`journal` is the receipt chain, `rows` the anchor rows, `prepared`, `finalized` and `current` the
documents outside the database, `marker` the quarantine file, `lock` the append lock, `writer` the
open transaction, `ac` what each task or starting process is doing.

| Action | Code |
| --- | --- |
| `Request`, `Enter`, `Begin` | `append_receipt`, `AppendCoordinatorGuard::acquire` |
| `Prepare`, `Record`, `Confirm`, `Commit` | `prepare_anchor*`, `mutate_with_atomic_receipt*` |
| `Finalize`, `Publish`, `Seal`, `Clean`, `FailFinalize` | `finalize_anchor` and its error path |
| `ReadStatus`, `Judge`, `Resolve`, `Discard`, `Restore`, `RemoveOrphans`, `Quarantine` | `status`, `recover_integrity` |
| `Start`, `Overlap`, `Own` | `finish_open_receipt_runtime` |
| `FailWrite`, `CrashGateway`, `CrashStarter`, `LoseKey` | failed writes, deaths, key store |

`Own` follows the activation: a provisioned key is returned without a look at the anchor, any other key
needs a finalized one, and the activation refuses a journal that is not available. The receipt that a
takeover appends within the activation counts as the append of a later task. `FailWrite` tells the two
append protocols apart: `append_receipt` hands an error of `prepare_anchor` up without a recovery and may
leave a prepared document behind, everywhere else a failed append recovers.

Both chains of a receipt are one head (the delegation's chain is a subsequence of the global one), and
there is one key: the gateway never asks for a rotation.

### Confirmation

`plan` and `rev` are the plan and revision of each delegation, `challenges` and `grants` the rows,
`ingress` the rows of the owner's remote binding, oldest first, `signed` the attestations that are signed and not yet applied.

| Action | Code |
| --- | --- |
| `Present` | `ensure_confirmation` (exact, combined and saved-routine forms) |
| `Sign` | `resolve` of the gateway, for an owner some gateway was configured with |
| `Accept`, `Reject` | `confirm_dangerous_action_attested_atomically`, `resolve_exact_race_replay` |
| `Refuse`, `Revoke` | `resolve_decision_atomically`, `invalidate_confirmation_grant_by_owner` |
| `Amend` | `apply_verified_follow_up_amendment` with the reconciliation of the grants |
| `Advance` | stop and resume, which move the revision |
| `ReconcileIngress`, `Lapse` | `reconcile_remote_confirmation_ingress`, the clock |

`OwnerCurrent` compares what `require_active_owner_ingress_binding` compares: the newest remote row is
active and names the credential and the ingress of the answer. Rows are not compared, so an owner that
was retired and enrolled again is current for an answer it gave before.

In this build only tests call the `ensure_*` functions; their effect is modelled from the code.

### Routines

`routine` is the routine with the schedule in force, `cursor` the last evaluated instant, `driver` the
driver job, `occ` the occurrences with their trigger jobs, `wk` the scheduler loops. `judged` and
`runs` are history variables.

| Action | Code |
| --- | --- |
| `AcquireDriver`, `Materialize`, `Abandon` | `scheduler_loop`, `execute_execass_routine_driver_once` and `materialize_due_routine_occurrences` |
| `AcquireTrigger`, `LapseTrigger` | `scheduler_loop`, the clock |
| `Plan`, `Settle`, `Admit` | `plan_routine_occurrence_admission`, `settle_routine_trigger`, `admit_claimed_routine_occurrence` |
| `Amend`, `SetEnabled`, `Control` | `amend_routine`, `set_routine_enabled`, stops and policy |
| `Tick`, `SetClockBack` | the wall clock |

The set `ops` of an occurrence holds the operations on its trigger: a settlement without an admission, or
the admission, which `trigger_matches` and the unique index let happen only once.

`DueCandidates`, `Resolve` and `Select` are the algorithms of `due_candidates`,
`resolve_routine_local_time` and `select_catch_up_occurrences`; the time zone database is a zone with
one change of offset. `CatchUpIsExact` compares their result with a definition that walks over all
instants.

### JobScheduler

`job` and `breaker` are the rows, `batch` the leased jobs that did not start yet, `ex` the run of the
loop and of the run-now route, `op` the request that changes a job. Times are offsets from the
present, so a behaviour may go on for ever in finitely many states.

| Action | Code |
| --- | --- |
| `TurnReady` | whether the phases of `scheduler_loop` before the jobs succeed in the present turn |
| `AcquireDueJobs`, `StartScheduled`, `StartManual` | `acquire_due_jobs`, `scheduler_loop`, `run_job_now` |
| `CheckBreaker`, `CloseBreaker`, `Attempt`, `Finish`, `ResetBreaker`, `DisableOnce`, `RecordFailure` | `execute_job_once` and what it calls |
| `FailRun`, `SkipDisable` | storage errors, and how the loop answers them |
| `BeginUpdate`, `LoadUpdate`, `WriteUpdate`, `RemoveJob` | `update_job` of the route and of the store, `remove_job` |
| `CancelManual`, `Crash`, `Tick` | a caller that goes away, end of the gateway, the clock |

The payload of a job is an attempt that ends well, badly or by its timeout; the rows of `job_runs` are
written and never read by a run, and are left out.

### SessionRuns

A task is one request or job the gateway serves; it holds a stack of frames, because a run that assigns
work executes the worker's run inside its own tool call. `lane` is the FIFO queue at each session's
mutex; `user`, `replies`, `run` and `approval` are the tables.

| Action | Code |
| --- | --- |
| `CreateMessage`, `CreateRun`, `IngestMessage`, `ResumeRun` | the routes, channels, jobs and board cards that start a run, or end after storing the message |
| `CreateRow`, `EnterLane`, `LaneBusy` | `create_run`, `execute_run_with_lane_control` and its two policies |
| `Start`, `ReadInput`, `DispatchTool`, `BlockTool`, `EndTool`, `AssignWorker`, `SkipAssignment` | `execute_run`, `execute_assistant_tool`, `execute_assistant_tool_invocations_for_run` |
| `ModelAnswers`, `ModelAssigns`, `Error`, `Finish` | the provider's answer, its failure, the reply |
| `MarkFailed`, `MarkFailedFails`, `Release`, `ReturnOk`, `ReturnFailed` | `execute_run_with_status_handling`, the return into the caller's run |
| `Deliver`, `ResolveApproval` | delivery to the channel, `resolve_approval` |
| `Drop`, `Crash` | a client that disconnects or a job that times out, end of the gateway |

The attempts and budgets of providers are an error or an answer; messages an operator writes in the
assistant's name and approvals filed by hand are left out; a tool that was dispatched keeps running
when its request is dropped. `AutoApprove` is `CARSINOS_AUTO_APPROVE_TOOLS`, off by default and in the run;
the theorems hold for both values. Messages are in the order in which they were stored, while
`list_messages` sorts by `created_at` in milliseconds: two messages of one millisecond, or a clock set
back, may come out in another order, and what the properties say of newest messages and replies is then
about that order.

## 3. Runs

| Run | Question | Result (distinct states) |
| --- | --- | --- |
| `claim_quota` | two effects, one quota unit, stop, resume, amend, restart | passes (2.9 million) |
| `claim_overlap` | two gateways at once, lost receipt races, stops and a global stop; the inductive invariant | passes (3.6 million) |
| `claim_expiry` | an undispatched claim is resolved, and keeps its job's lease until then | passes (206 thousand) |
| `claim_wedge` | is a failure before the invocation evaluated? | violated, see 4 |
| `recorder_crash` | journal and evidence under crashes and repeats; refinement of `ExecuteOnce` | passes (76 thousand, symmetric) |
| `recorder_answer` | failed appends and edits: at most one overwrite, none where the execution reported Absent, every request answered | passes (43 thousand) |
| `anchor_crash` | appends, crashes, failed writes, a lost key, a second gateway that recovers | passes (162 thousand) |
| `dispatch_safe` | ledger, gateway and recorder against stops, lapses, crashes and an amendment | passes (122 thousand) |
| `confirm_answer` | two answers in flight against expiry, amendment, refusal, revocation, an owner retired, replaced or enrolled again | passes (1.2 million, symmetric) |
| `routines` | two scheduler loops over a gap or a repeated hour, with more due than is caught up | passes (1.4 million, symmetric) |
| `jobs` | the loop and run-now against updates, removal, failing turns, faults and restarts | passes (857 thousand) |
| `runs` | two tasks and two sessions with approvals, nesting, resume and a fault | passes (907 thousand, symmetric) |

Bounds, all guards of actions:

- `claim_*`: two continuations of one delegation are the least that compete for a quota; one suffices
  where the question is about one claim, because rows of different continuations meet only in the
  quota, the unique index of `Admit` and a worker's batch. `LeaseMs` 1 or 2 with `MaxTime` 4 to 7 lets a
  lease run out, a scan see the exact deadline and the instant after it, and another lease begin.
  `MaxRevision = 4` of `claim_quota` allows stop, drain and resume, `MaxGlobalEpoch = 1` of
  `claim_overlap` a global stop and its resumption; `MaxGeneration` a replacement gateway.
- `recorder_*`: two handlers and two attempts are the least for a race on the mutex and for one
  attempt's torn frame to meet another's records; three requests allow execute, repeat and reconcile;
  two crashes allow a crash after a recovery.
- `anchor_crash`: two tasks compete for the lock; two crashes let the recovery be interrupted; one start
  beside a running gateway is the overlap that no lock excludes.
- `dispatch_safe`: two claims of one delegation share its stops; everything else is finite by itself.
- `confirm_answer`: two challenges and two answers in flight give a stale answer and the double use of
  a combined question. `MaxRaces = 3` allows three rows of the ingress (an owner is enrolled, retired or
  replaced, and enrolled again) or one other change between signature and consumption.
- `routines`: days of two units and a clock up to 5 are three local days: an evaluation that comes late
  has three instants due against a replay of two, or two against one, and `latest_only` has a choice. Two
  changes allow amend and amend back, or pause and resume.
- `jobs`: one job, which the loop and run-now execute at the same time; jobs meet only in the order of
  a batch. Threshold 2 with one retry, and two events (a request and a fault, or two requests).
- `runs`: two sessions are a conversation and its worker, and a worker that assigns work to its own
  session meets the rejection; two messages make the newest differ from the one a run was started for,
  and a message that asks for the worker twice meets the duplicate check.

Deadlock checking is off where the system may rest: a recorder or an anchor without further requests,
dispatches and confirmations that are over, a routine at the bound of its clock, sessions without
messages. It is on in `claim_*` and `jobs`, whose loops never end.

Fairness. `ContinuationClaim`: weak fairness of the clock, of each worker's scheduler steps and of
the drain loop (both are endless loops that sleep and continue after errors), of giving up on a
reply (the client has a deadline), of the exit of a process that released its host and of starting a
gateway when none runs (the supervisor restarts it). Owners and the recorder need not act.
`EffectRecorder`: weak fairness of each connection task; nothing is assumed of clients, crashes or
the restart. `ReceiptAnchor`: weak fairness of the steps of each task and starting process, and of a
start when no gateway runs. `JobScheduler`: weak fairness of the clock and of the scheduler loop (a
payload ends by its timeout); run-now and the routes need not go on. The loop is fair, its jobs are not: a
turn ends before it leases a job when a recovery or the materialization fails, and `claim_wedge` shows
that this may be so on every turn. `DueJobRuns` is therefore stated for behaviours in which the turns
are ready from some time on (`<>[]ready`), and nothing is assumed about `TurnReady`. The other modules state safety
only: a person answers a confirmation or an approval, and the gateway of this build does not call the
operations that would settle a routine's trigger.

## 4. Finding and observations

`claim_wedge`: an effect that failed before its invocation is due for recovery forever. The
evaluation bails for want of a finished attempt (`storage/recovery.rs:284`, `:293`) and
`scheduler_loop` skips the rest of every tick, so no job is acquired any more. The planner has a
class for exactly this failure (`carsinos-core/src/execass_recovery.rs:23`).

Observations. What follows was seen while modelling; no run claims it, and the properties are stated
so that they hold in spite of it.

Ledger and recorder:
- If the expiry of a claim returns `Stale`, the same tick leases the job again and the exact-lease
  UPDATE of later expiries (`storage/claim.rs:2614`) fails; `ClaimKeepsItsJobLease` is therefore
  checked and proved without receipt contention.
- A stop between the claim and the settlement of a continuation without an effect leaves it
  `executing`, and the stop never drains.
- A reconciliation during an invocation signs Absent, then the file is overwritten. The gateway sends
  no Reconcile; the service accepts it at any time.
- After a failed append the torn frame stays in the file, the next append buries it and the journal
  cannot be opened again.
- A recorder that died after InvocationStarted leaves the attempt `invoking`; an amendment supersedes
  a continuation whose outcome is unknown, which then cannot be reconciled.
- The recorder's verifier looks at the global stop and not at the delegation's run control, so an
  effect may be admitted while its delegation is stopping; `NoEffectAfterStop` says what remains true.

Receipts and confirmation:
- A gateway that starts beside a running one recovers the anchor without the append lock and may
  quarantine an append in progress; `NoFalseQuarantine` is about undisturbed recoveries.
- Any amendment invalidates the grants of saved routines.
- An answer that a remote owner gave before being retired is accepted once the same owner is enrolled
  again, although the message of the refusal speaks of the "current configured generation": credential
  and ingress are compared, the generation is not. The gateway's test of rotation and revocation relies
  on it.
- An action presented again after its grant was revoked can never be confirmed: the unique index
  counts invalidated grants (`storage/confirmation.rs:893`; the test at `storage/tests.rs:2627` presents
  the revoked action again and does not go on to confirm it).

Routines:
- The gateway leases trigger jobs and never plans, settles or admits them; they are leased again every
  30 s, and enough of them would fill the scheduler's batches of eight.
- A routine with catch-up `skip` never gets an occurrence; a trigger that is settled after it was
  planned leaves an occurrence nobody can admit; so does a new policy revision.
- An amendment keeps the cursor, so the new schedule is applied to time before the amendment; a pause
  shorter than an evaluation interval skips nothing.

Jobs:
- `update_job`, the end of a run and `disable_once_scheduled_job_if_needed` overwrite each other's
  fields; renaming or pausing a waiting cron job moves it past the occurrence it waits for.
- The breaker's count may lose a failure of overlapping runs. Rows of `job_runs` stay `running` after
  a crash. More than eight jobs that stay due could keep others waiting.

Session runs:
- `resume_run` judges a row it read before it had the lane: a run that succeeded meanwhile is executed
  again, and a queued run may be resumed before its own task enters the lane and then runs twice.
- Queued channel runs read the newest user message: an earlier one is never run and the newest twice.
- A channel message whose run cannot be given a model is stored and answered with an error; the next run
  of the session reads it only if it is still the newest.
- The reply is read after the lane was released and may be another run's (`SentIsOwnOrLater` bounds
  it). An approval is not consumed by its use.
- Refused board and worker runs stay `queued`; dropped, timed-out and interrupted runs stay `running`
  and cannot be resumed; a cancelled tool goes on beside the next run.

Completion and recovery (read, not modelled): verification, assessment and late correction are called
by tests only; a recovery may end a delegation without looking at the remaining paths; the assessment
it writes lacks the snapshot that a late correction requires.

## 5. Proofs

Every safety property the runs check, except `CatchUpIsExact`, is also a theorem about the
specification, for all values of the constants under the module's named assumption. Each proof has
the same plan: an inductive invariant, a lemma that `Init` implies it, one lemma or step per action, and
frame lemmas for what an action leaves alone.

`ContinuationClaimProofs` (any sets, quota, lease and bounds; the set of continuations finite):

- `TypeCorrect`: `TypeOK` is inductive by itself.
- `RowsCorrect`: `RowInvariant` is inductive relative to `TypeOK`. The safety invariants alone are
  not inductive: that an import finds a reserved reservation, or that a prepared attempt belongs to
  an executing continuation, depends on the whole combination of row states, and on what a worker in
  mid-dispatch knows. `RowsAgree` states the legal combinations per effect state, `IdentityAgrees`
  ties each worker's phase to the attempt it works on.
- `EffectRowsCorrect`, `ReservationCorrect`, `HolderCorrect`, `SentCorrect` follow from `RowInvariant`.
- `FenceCorrect` and `ClaimedOnceCorrect` are action properties; `LegalStep` lists what a step may do
  to the rows of one continuation.
- `StopCorrect`, `QuotaCorrect` and `ClosedWorkCorrect` are inductive over `RowInvariant`, with lemmas
  on who stops a delegation, who reserves and who closes jobs. `QuotaCorrect` is an argument on
  cardinalities: only `Claim` adds a holder, and only below the limit.
- `LeaseCorrect` assumes `Overlap = FALSE` and `ReceiptContention = FALSE`, as run `claim_expiry` does:
  without either a job is leased again before the expiry of its claim commits. `LeaseInvariant` adds that
  one gateway runs and that after the recovery pass of a tick no claim is left that is due under the
  tick's clock, which is the reading `acquire_due_jobs` uses.

`EffectRowsAgree`, `InvokedKeepsReservation`, `SentIsInvoking` and `ClosedWorkHasNoJob` are proved and
have no run of their own: the first three follow from `RowInvariant`, which `claim_overlap` checks.

`EffectDispatchProofs` (any set of attempts): `DispatchInvariant` says what is true of ledger, message
in flight and recorder before and after the invocation boundary. Without the message in flight
(`WireAgrees`) nothing would say that the reply the ledger imports is the recorder's own status.
`BegunCorrect`, `LedgerCorrect` and the action property `StopFenceCorrect` follow; the last needs that a
stop does not drain while a continuation executes (`StoppedIsDrained`).

`EffectRecorderProofs` (any handlers and attempts, any number of crashes and edits):

- `InvokedOnceCorrect` and `AbsentCorrect` hold with any number of failed appends. `OnceInvariant` says
  that what may have been invoked has a record no opening of the file cuts off (`Survives`: a torn frame
  and the one behind it are cut), and that one handler executes an attempt.
- `ReopensCorrect` and `DurableCorrect` hold until the first append fails (`used.failures = 0`): a
  failed append leaves a torn frame that later appends bury, see section 4. `AnswersInvariant` says that
  the file is in order with at most its last frame torn, that it is the index while the process runs,
  and that every task and client relies on the status it answers.
- `RefinementCorrect` assumes `MaxFailures = 0`, as run `recorder_crash` does, and shows that every step
  is a step of `ExecuteOnce` or a stutter.

`RoutinesProofs` (any workers, schedules, day lengths and leases): `JudgedCorrect` and `OneRunCorrect`
from `RoutineInvariant`. They do not depend on which instants are due. `OneRunCorrect` says that the
admission is the only operation on the trigger of an instant that was run, so that one settled before
was not.

`ConfirmationProofs` (any delegations, actions and variants): `AnswerCorrect`, `OwnerCorrect`,
`FitsPlanCorrect`, `AdmittedOnceCorrect` and `DriftCorrect`. `ConfirmInvariant` adds that a challenge of
the plan in force asks what the plan says, that only alternatives of a challenge are signed, and that
what was admitted has a grant; without the first a grant could be given for an action the plan changed.
`OwnerCorrect` refers to the row of the ingress that was newest when the grant was given.

`JobSchedulerProofs` (any jobs, periods, thresholds and retries; `PatchesAssumption` says that a patch
is one of the changes `update_job` accepts): `OnceCorrect` counts, besides the completions that are
allowed, who may still complete the job (`MayComplete`: the batch, the loop's run, the row);
`EarnedCorrect` counts the failed runs that have not reached the breaker yet (`Owed`), because the count a
run has read may be older than the one it overwrites.

`ReceiptAnchorProofs` (any events, tasks and starting processes): `AnchorInvariant` relates rows,
receipts and documents, and what each actor relies on between its steps under the writer lock;
`PublishedCorrect`, `OneReceiptCorrect` and `FollowCorrect` follow with failures, overlapping starts and
crashes. `QuarantineCorrect` needs `QuietInvariant`: as long as nothing but crashes went wrong, the
documents lag behind the rows by as much as an interrupted append explains, at every point at which it
may be interrupted.

`SessionRunsProofs` (any sessions, tools and messages, any depth of worker assignments, finitely many
tasks; messages are sequences of tools): a frame is named by its depth in its task's stack, which calls
above it do not change.

- `RunInvariant`: every frame has the row it needs (`Owes`), below the top of a stack there are only
  frames that execute an assignment and above its bottom only workers, every running row has its
  executor or was orphaned by a fault, every unread message that asked for a run has one on its way.
  `RunningCorrect`, `SentCorrect` and `UnheardCorrect` follow.
- `LaneInvariant`: a frame that executes, or that has taken its lane without waiting, is at the head of
  its session's queue; a frame that waits has one place; every place is a frame's. `NoLaneIsLeftCorrect`
  is the last of these, `OneExecutionCorrect` follows because a queue has one head, and `NoHoldAndWaitCorrect` because only a channel's run waits and
  it is the only frame of its task.

Only model-checked:

- `UndispatchedClaimIsResolved`, `RequestIsAnswered`, `DueJobRuns`, `InterruptedAppendIsResolved`:
  liveness under fairness is out of the prover's reach.
- `CatchUpIsExact`: it is about what `SelectSeq` and the calendar arithmetic of `Resolve` compute, which
  takes induction over the days of a window; it is checked for the zones of the instance.

The proofs of `Routines` and `JobScheduler` carry the part of `TypeOK` they need (`RoutineShape`,
`SchedulerTypes`), without the bounds of clock and counters.

## 6. Not modelled, and the plan

In order:

1. `Completion`: verification results, assessments and late corrections.
2. `ObjectiveRecovery`: `plan_objective_recovery` as an operator with its bounds, checked against a
   reference definition; retries and owner choices.
3. `RuntimeHost`: host states, desired mode, takeover and incidents. `Delivery`: notifications.

Left out for good: the HTTP and WebSocket API, Mission Control and the desktop interface, providers,
channels and tools as I/O, packaging and vendored code, and cryptography (signatures and digests are
assumed to identify what they cover). They are most of the repository's lines: the route handlers,
request and response types, and tests of `gateway/main.rs` hold no state that steps could race for
beyond the tables modelled here.
