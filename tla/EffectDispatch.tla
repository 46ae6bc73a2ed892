----------------------------- MODULE EffectDispatch -----------------------------
(***************************************************************************)
(* From a claim to the recorded outcome of its effect, across the three    *)
(* parties that take part: the ledger in the database, the gateway task    *)
(* that dispatches the claim, and the effect recorder.  The ledger is what *)
(* ContinuationClaim says of one claimed effect; the recorder is its       *)
(* abstract specification ExecuteOnce, which EffectRecorder implements.    *)
(* The recorder reads the ledger (verify) and never writes it; the gateway *)
(* learns of the recorder only through one reply.                          *)
(*                                                                         *)
(* Every claim belongs to one delegation.  The gateway sends no QueryOnly  *)
(* and no Reconcile: a claim is dispatched once, when it is new.           *)
(***************************************************************************)
EXTENDS Naturals

CONSTANTS
    Attempts        \* claimed effects, each with its single attempt

VARIABLES
    run,        \* execass_delegations.run_control
    gstop,      \* the global stop since the claims: clear, engaged or resumed
    live,       \* are the leases and deadlines of each claim live?
    cont,       \* execass_continuations.status
    att,        \* execass_provider_attempts.status (and the effect's state)
    resv,       \* the claim's resource reservations
    disp,       \* the gateway task that dispatches each claim
    wire,       \* what is in flight between that task and the recorder
    dead,       \* has the recorder's handler died?
    status, begun, answered     \* the recorder (ExecuteOnce)

control == <<run, gstop, live>>
rows == <<cont, att, resv>>
recorder == <<status, begun, answered>>
vars == <<control, rows, disp, wire, dead, recorder>>

Recorder == INSTANCE ExecuteOnce WITH Reconciles <- FALSE

Evidence == {"Present", "Absent", "Unknown"}
ContStatus == {"executing", "uncertain", "terminal", "superseded"}
AttStatus == {"none", "prepared", "invoking", "succeeded", "failed", "outcome_unknown"}

\* Every row, task and message has one of the values of its table or type.
TypeOK ==
    /\ run \in {"running", "stop_requested", "stopped"}
    /\ gstop \in {"clear", "engaged", "resumed"}
    /\ live \in [Attempts -> BOOLEAN]
    /\ cont \in [Attempts -> ContStatus]
    /\ att \in [Attempts -> AttStatus]
    /\ resv \in [Attempts -> {"reserved", "settled", "expired", "reconciliation_required"}]
    /\ disp \in [Attempts -> {"claimed", "prepared", "sent", "over"}]
    /\ wire \in [Attempts -> {"none", "request", "accepted", "Rejected"} \cup Evidence]
    /\ dead \in [Attempts -> BOOLEAN]
    /\ begun \in [Attempts -> {0, 1}]

Init ==
    /\ run = "running" /\ gstop = "clear"
    /\ live = [a \in Attempts |-> TRUE]
    /\ cont = [a \in Attempts |-> "executing"]
    /\ att = [a \in Attempts |-> "none"]
    /\ resv = [a \in Attempts |-> "reserved"]
    /\ disp = [a \in Attempts |-> "claimed"]
    /\ wire = [a \in Attempts |-> "none"]
    /\ dead = [a \in Attempts |-> FALSE]
    /\ Recorder!Init

-----------------------------------------------------------------------------
(* The gateway. *)

\* prepare_provider_attempt, for the identity of a live claim.
PrepareAttempt(a) ==
    /\ disp[a] = "claimed" /\ live[a] /\ cont[a] = "executing"
    /\ att' = [att EXCEPT ![a] = "prepared"]
    /\ disp' = [disp EXCEPT ![a] = "prepared"]
    /\ UNCHANGED <<control, cont, resv, wire, dead, recorder>>

\* begin_provider_attempt_invocation, then the request (Began => ExecuteOnce).
BeginInvocation(a) ==
    /\ disp[a] = "prepared" /\ live[a] /\ cont[a] = "executing"
    /\ run = "running" /\ gstop = "clear"
    /\ att' = [att EXCEPT ![a] = "invoking"]
    /\ disp' = [disp EXCEPT ![a] = "sent"]
    /\ wire' = [wire EXCEPT ![a] = "request"]
    /\ UNCHANGED <<control, cont, resv, dead, recorder>>

\* The task ends before or after the boundary: an error, a lapsed lease, the
\* client's deadline, or the end of the gateway.  A request already sent stays
\* on its way.
EndDispatch(a) ==
    /\ disp[a] # "over"
    /\ disp' = [disp EXCEPT ![a] = "over"]
    /\ UNCHANGED <<control, rows, wire, dead, recorder>>

\* Mutant: a claim whose attempt may have been invoked is expired as well.
ResolveExpireInvoked(a) ==
    /\ ~live[a] /\ cont[a] = "executing" /\ att[a] \in {"none", "prepared", "invoking"}
    /\ cont' = [cont EXCEPT ![a] = "superseded"]
    /\ resv' = [resv EXCEPT ![a] = "expired"]
    /\ UNCHANGED <<control, att, disp, wire, dead, recorder>>

\* recover_scheduler_technical_resources: a claim that was never dispatched is
\* expired, one that may have been invoked is deferred.
ResolveExpire(a) ==
    /\ ~live[a] /\ cont[a] = "executing" /\ att[a] \in {"none", "prepared"}
    /\ cont' = [cont EXCEPT ![a] = "superseded"]
    /\ resv' = [resv EXCEPT ![a] = "expired"]
    /\ UNCHANGED <<control, att, disp, wire, dead, recorder>>

\* Mutant: an ambiguous outcome is booked as a failure.
OutcomeOfAmbiguous(kind) ==
    CASE kind = "Present" -> "succeeded"
      [] kind \in {"Absent", "Unknown"} -> "failed"

OutcomeOf(kind) ==
    CASE kind = "Present" -> "succeeded"
      [] kind = "Absent"  -> "failed"
      [] kind = "Unknown" -> "outcome_unknown"

\* import_scheduler_recorder_reply and reconcile_recorder_evidence_atomically,
\* execution evidence.  `Absent` closes the attempt only.
ImportReply(a) ==
    LET kind == wire[a] IN
    /\ disp[a] = "sent" /\ kind \in Evidence
    /\ att[a] = "invoking" /\ cont[a] = "executing" /\ resv[a] = "reserved"
    /\ att' = [att EXCEPT ![a] = OutcomeOf(kind)]
    /\ cont' = [cont EXCEPT ![a] = IF kind = "Present" THEN "terminal"
                                   ELSE IF kind = "Unknown" THEN "uncertain" ELSE @]
    /\ resv' = [resv EXCEPT ![a] = IF kind = "Present" THEN "settled"
                                   ELSE IF kind = "Unknown" THEN "reconciliation_required"
                                   ELSE @]
    /\ disp' = [disp EXCEPT ![a] = "over"]
    /\ wire' = [wire EXCEPT ![a] = "none"]
    /\ UNCHANGED <<control, dead, recorder>>

-----------------------------------------------------------------------------
(* The recorder. *)

\* verify: the database proves the attempt.  The delegation's run control is not
\* among the facts.
Proven(a) == att[a] = "invoking" /\ cont[a] = "executing" /\ live[a] /\ gstop = "clear"

AdmitExecution(a) ==
    /\ wire[a] = "request" /\ Proven(a) /\ Recorder!Accept(a)
    /\ wire' = [wire EXCEPT ![a] = "accepted"]
    /\ UNCHANGED <<control, rows, disp, dead>>

RejectExecution(a) ==
    /\ wire[a] = "request" /\ ~Proven(a)
    /\ wire' = [wire EXCEPT ![a] = "Rejected"]
    /\ UNCHANGED <<control, rows, disp, dead, recorder>>

\* The handler journals the start and writes.
Execute(a) ==
    /\ ~dead[a]
    /\ Recorder!Start(a) \/ Recorder!Begin(a)
    /\ UNCHANGED <<control, rows, disp, wire, dead>>

\* The outcome is journaled and sent.
FinishExecution(a) ==
    /\ ~dead[a] /\ wire[a] = "accepted" /\ Recorder!Resolve(a)
    /\ wire' = [wire EXCEPT ![a] = status'[a]]
    /\ UNCHANGED <<control, rows, disp, dead>>

\* The recorder process dies under the handler and is started again.
RecorderCrash ==
    /\ dead' = [a \in Attempts |-> dead[a] \/ status[a] # "none"]
    /\ dead' # dead
    /\ UNCHANGED <<control, rows, disp, wire, recorder>>

-----------------------------------------------------------------------------
(* Owner and time. *)

\* The claim's leases run out, or its host is replaced.
Lapse(a) ==
    /\ live[a]
    /\ live' = [live EXCEPT ![a] = FALSE]
    /\ UNCHANGED <<run, gstop, rows, disp, wire, dead, recorder>>

RequestStop ==
    /\ run = "running"
    /\ run' = "stop_requested"
    /\ UNCHANGED <<gstop, live, rows, disp, wire, dead, recorder>>

\* Mutant: a stop drains when no task of this gateway is dispatching.
CompleteDrainIdle ==
    /\ run = "stop_requested" /\ \A a \in Attempts : disp[a] = "over"
    /\ run' = "stopped"
    /\ UNCHANGED <<gstop, live, rows, disp, wire, dead, recorder>>

\* complete_delegation_stop_drain_atomically
CompleteDrain ==
    /\ run = "stop_requested" /\ \A a \in Attempts : cont[a] # "executing"
    /\ run' = "stopped"
    /\ UNCHANGED <<gstop, live, rows, disp, wire, dead, recorder>>

\* The global stop is engaged, and later resumed in a new epoch.
GlobalStop ==
    /\ \/ gstop = "clear" /\ gstop' = "engaged"
       \/ gstop = "engaged" /\ gstop' = "resumed"
    /\ UNCHANGED <<run, live, rows, disp, wire, dead, recorder>>

\* amend_lifecycle_in_transaction; a trigger protects executing continuations.
Amend ==
    /\ \A a \in Attempts : cont[a] # "executing"
    /\ cont' = [a \in Attempts |-> IF cont[a] = "uncertain" THEN "superseded" ELSE cont[a]]
    /\ cont' # cont
    /\ UNCHANGED <<control, att, resv, disp, wire, dead, recorder>>

-----------------------------------------------------------------------------
GatewayStep(a) == PrepareAttempt(a) \/ BeginInvocation(a) \/ EndDispatch(a) \/ ImportReply(a)
RecorderStep(a) ==
    AdmitExecution(a) \/ RejectExecution(a) \/ Execute(a) \/ FinishExecution(a)

Next ==
    \/ \E a \in Attempts : GatewayStep(a) \/ RecorderStep(a) \/ ResolveExpire(a) \/ Lapse(a)
    \/ RecorderCrash \/ RequestStop \/ CompleteDrain \/ GlobalStop \/ Amend

Spec == Init /\ [][Next]_vars

-----------------------------------------------------------------------------
(* Properties. *)

\* The recorder acts only on an invocation the ledger has committed to, and the
\* resources of what it began stay with the claim ("An adapter may be called
\* only for `Began`"), whatever stops, lapses or dies meanwhile.
BegunIsInvoked ==
    \A a \in Attempts : status[a] # "none" =>
        /\ att[a] \notin {"none", "prepared"}
        /\ resv[a] # "expired"

\* No effect begins after the delegation is reported stopped, or under a
\* continuation that is not executing any more, although the stop, the ledger
\* and the recorder are three processes apart and the verifier does not look at
\* the run control.
NoEffectAfterStop ==
    [][\A a \in Attempts :
         begun'[a] # begun[a] => run # "stopped" /\ cont[a] = "executing"]_vars

\* The ledger tells the truth about what the recorder did: a success was
\* journaled Present; a failure was journaled Absent and nothing was written
\* before or will be after it.
LedgerAgreesWithRecorder ==
    \A a \in Attempts :
        /\ att[a] = "succeeded" => status[a] = "Present"
        /\ att[a] = "failed" => status[a] = "Absent" /\ begun[a] = 0

=============================================================================
