---------------------------- MODULE SessionRuns ----------------------------
(***************************************************************************)
(* Runs of a conversation session in the gateway: the lane that lets one   *)
(* run of a session execute at a time, the ways a run is started (the run  *)
(* route, a channel message or a scheduled job, a board card, a worker     *)
(* assignment made by another run, a resume), the execution itself with    *)
(* its gated tools and approvals, and the delivery of the answer.          *)
(*                                                                         *)
(* A task is one request or job the gateway serves.  It holds a stack of   *)
(* frames: a run that assigns work to a worker executes the worker's run   *)
(* inside its own tool call, with its own lane still held.                 *)
(*                                                                         *)
(* The storage survives a crash, the tasks and the lanes do not, and no    *)
(* code looks at the interrupted rows again when the gateway starts.       *)
(*                                                                         *)
(* Messages are in the order in which they were stored.  list_messages     *)
(* sorts by created_at in milliseconds, which is the same order unless two *)
(* messages of a session share a millisecond or the clock was set back.    *)
(***************************************************************************)
EXTENDS Naturals, FiniteSets, Sequences, SequencesExt

CONSTANTS
  Sessions,     \* the conversations
  Tasks,        \* requests and jobs the gateway serves at a time
  Inputs,       \* what a user message asks for: sequences of tools
  Gated,        \* the tools that require an approval
  AutoApprove,  \* CARSINOS_AUTO_APPROVE_TOOLS: no tool waits for one
  Worker,       \* the assignment tools: the session each one's worker has
  MaxRuns,      \* bound on the run rows
  MaxMessages,  \* bound on the user messages of all sessions
  MaxResumes,   \* bound on the resume requests
  MaxFaults     \* bound on crashes, dropped requests and failed writes

Tools == (UNION {Range(i) : i \in Inputs}) \cup DOMAIN Worker

ASSUME BoundsAssumption ==
  /\ {MaxRuns, MaxMessages, MaxResumes, MaxFaults} \subseteq Nat
  /\ IsFiniteSet(Tasks) /\ AutoApprove \in BOOLEAN
  /\ Inputs \subseteq Seq(Tools)
  /\ Gated \cap DOMAIN Worker = {}
  /\ \A w \in DOMAIN Worker : Worker[w] \in Sessions

VARIABLES
  user,      \* messages of role user of each session: what each one asks
  replies,   \* messages of role assistant of each session: whose run said it
  run,       \* rows of the runs table
  approval,  \* status of the approval of each run's request of a gated tool
  lane,      \* per session the frames at its mutex: the holder, then the queue
  task,      \* the stack of frames of each task, the innermost first
  sent,      \* answers delivered to a channel or a target: run and reply
  resumes, faults,   \* what the bounds have used up
  unheard,   \* history: sessions with a channel message that asked for a run
             \* and that nobody has read
  orphan     \* history: runs whose executor was lost to a fault

ghosts == <<resumes, faults, unheard, orphan>>
vars   == <<user, replies, run, approval, lane, task, sent, ghosts>>

RunIds  == 1..MaxRuns
Kinds   == {"api", "channel", "card", "worker", "resume"}
Status  == {"queued", "running", "succeeded", "failed"}

\* Where a frame stands.  Executing: it stands inside
\* execute_run_with_status_handling and holds the lane of its session.
Executing == {"input", "tool", "exec", "finish", "failing", "release"}
PCs       == Executing \cup {"create", "lane", "waiting", "deliver"}

\* The points of an execution after mark_run_started wrote the row and
\* before its end is written.
Started == Executing \ {"release"}

Frame == [kind : Kinds, pc : PCs, ses : Sessions, run : 0..MaxRuns,
          todo : Seq(Tools), keys : SUBSET DOMAIN Worker]

NewFrame(kind, pc, s, r) ==
  [kind |-> kind, pc |-> pc, ses |-> s, run |-> r, todo |-> <<>>, keys |-> {}]

Init ==
  /\ user = [s \in Sessions |-> <<>>]
  /\ replies = [s \in Sessions |-> <<>>]
  /\ run = <<>>
  /\ approval = [r \in RunIds |-> [g \in Gated |-> "none"]]
  /\ lane = [s \in Sessions |-> <<>>]
  /\ task = [t \in Tasks |-> <<>>]
  /\ sent = {}
  /\ resumes = 0 /\ faults = 0
  /\ unheard = {}
  /\ orphan = {}

-----------------------------------------------------------------------------
(* Frames and lanes *)

Idle(t)   == task[t] = <<>>
Top(t)    == task[t][1]
At(t, pc) == ~Idle(t) /\ Top(t).pc = pc

\* A task's place at a lane: a task that waits for a lane while it holds one
\* is there twice, as two calls of the mutex.
Ticket(t) == <<t, Len(task[t])>>

Set(t, f)  == task' = [task EXCEPT ![t][1] = f]
Goto(t, p) == Set(t, [Top(t) EXCEPT !.pc = p])
Return(t)  == task' = [task EXCEPT ![t] = Tail(@)]

\* The tool call that started the worker's run comes back with an error, or
\* with the run whatever its status is.
ReturnFailed(t) ==
  task' = [task EXCEPT ![t] = IF Len(@) = 1 THEN <<>>
                              ELSE <<[@[2] EXCEPT !.pc = "failing"]>> \o Tail(Tail(@))]
ReturnOk(t) ==
  LET boss == [task[t][2] EXCEPT !.pc = "tool", !.todo = Tail(@)]
  IN task' = [task EXCEPT ![t] = IF Len(@) = 1 THEN <<>> ELSE <<boss>> \o Tail(Tail(@))]

\* tokio's mutex is fair: it is handed to the first waiter, so try_lock only
\* succeeds when nobody holds it and nobody waits.
Free(s)  == lane[s] = <<>>
Take(t, s, depth) == lane' = [lane EXCEPT ![s] = Append(@, <<t, depth>>)]
Unlock(t) == lane' = [lane EXCEPT ![Top(t).ses] = Tail(@)]

\* What is left of a queue when task t gives up its places, in the old order.
Without(q, t) ==
  LET keep    == {i \in DOMAIN q : q[i][1] # t}
      Rank(i) == Cardinality({j \in keep : j <= i})
  IN [k \in 1..Cardinality(keep) |-> q[CHOOSE i \in keep : Rank(i) = k]]

\* Rows the running requests are about to write count against the bound.
RunBudget ==
  Len(run) + Cardinality({t \in Tasks : At(t, "create")}) < MaxRuns

Messages == FoldFunction(LAMBDA q, n : Len(q) + n, 0, user)

Post(s, ask) ==
  /\ Messages < MaxMessages
  /\ user' = [user EXCEPT ![s] = Append(@, ask)]

-----------------------------------------------------------------------------
(* How a run is asked for *)

\* POST /sessions/{id}/messages: a message without a run.
CreateMessage(s, ask) ==
  /\ Post(s, ask)
  /\ UNCHANGED <<replies, run, approval, lane, task, sent, ghosts>>

\* POST /sessions/{id}/runs: the lane is tried before the row exists.
CreateRun(t, s) ==
  /\ Idle(t) /\ RunBudget
  /\ Free(s)
  /\ Take(t, s, 1)
  /\ task' = [task EXCEPT ![t] = <<NewFrame("api", "create", s, 0)>>]
  /\ UNCHANGED <<user, replies, run, approval, sent, ghosts>>

\* A channel message, agent mail, a scheduled job or an automation ("channel"),
\* and the run of a board card: the message first, then the row, then the lane.
\* The request may end once the message is stored: no run was asked for, or no
\* model could be resolved or the one resolved is refused.
IngestMessage(t, kind, s, ask) ==
  /\ Idle(t)
  /\ Post(s, ask)
  /\ \/ /\ RunBudget
        /\ task' = [task EXCEPT ![t] = <<NewFrame(kind, "create", s, 0)>>]
        /\ unheard' = IF kind = "channel" THEN unheard \cup {s} ELSE unheard
     \/ UNCHANGED <<task, unheard>>
  /\ UNCHANGED <<replies, run, approval, lane, sent, resumes, faults, orphan>>

\* The row, 'queued'.
CreateRow(t) ==
  /\ At(t, "create")
  /\ run' = Append(run, [ses |-> Top(t).ses, status |-> "queued"])
  /\ Set(t, [Top(t) EXCEPT !.run = Len(run) + 1,
                           !.pc = IF Top(t).kind = "api" THEN "waiting" ELSE "lane"])
  /\ UNCHANGED <<user, replies, approval, lane, sent, ghosts>>

\* POST /runs/{id}/resume looks at the row before it asks for the lane.
ResumeRun(t, r) ==
  /\ Idle(t)
  /\ resumes < MaxResumes
  /\ run[r].status \notin {"running", "succeeded"}
  /\ resumes' = resumes + 1
  /\ task' = [task EXCEPT ![t] = <<NewFrame("resume", "lane", run[r].ses, r)>>]
  /\ UNCHANGED <<user, replies, run, approval, lane, sent, faults, unheard, orphan>>

-----------------------------------------------------------------------------
(* execute_run_with_lane_control *)

\* Mutants: a worker assignment waits for the worker's lane; nobody waits.
WorkerWaits(kind) == kind \in {"channel", "worker"}
NobodyWaits(kind) == kind = "nobody"

\* RunLaneConflictPolicy of each caller.
Waits(kind) == kind = "channel"

EnterLane(t) ==
  /\ At(t, "lane")
  /\ Free(Top(t).ses) \/ Waits(Top(t).kind)
  /\ Take(t, Top(t).ses, Len(task[t]))
  /\ Goto(t, "waiting")
  /\ UNCHANGED <<user, replies, run, approval, sent, ghosts>>

\* RejectIfBusy: the row of a card or worker run stays queued, and the worker
\* assignment is an error that ends the assigning run.
LaneBusy(t) ==
  /\ At(t, "lane")
  /\ ~Free(Top(t).ses) /\ ~Waits(Top(t).kind)
  /\ ReturnFailed(t)
  /\ UNCHANGED <<user, replies, run, approval, lane, sent, ghosts>>

-----------------------------------------------------------------------------
(* execute_run *)

SetStatus(r, status) == run' = [run EXCEPT ![r].status = status]

\* Mutant: the guard is dropped as soon as the lane was taken.
StartUnguarded(t) ==
  /\ At(t, "waiting")
  /\ SetStatus(Top(t).run, "running")
  /\ Goto(t, "input")
  /\ UNCHANGED <<user, replies, approval, lane, sent, ghosts>>

\* The lane is this frame's: mark_run_started writes whatever the row says.
Start(t) ==
  /\ At(t, "waiting")
  /\ Head(lane[Top(t).ses]) = Ticket(t)
  /\ SetStatus(Top(t).run, "running")
  /\ Goto(t, "input")
  /\ UNCHANGED <<user, replies, approval, lane, sent, ghosts>>

\* The newest user message of the session, the one the run was started for
\* or a later one, says which tools are called.  Earlier ones that no run has
\* read yet are passed over.
ReadInput(t) ==
  LET s == Top(t).ses
      n == Len(user[s])
  IN /\ At(t, "input")
     /\ Set(t, [Top(t) EXCEPT !.pc = "tool",
                              !.todo = IF n = 0 THEN <<>> ELSE user[s][n]])
     /\ unheard' = unheard \ {s}
     /\ UNCHANGED <<user, replies, run, approval, lane, sent, resumes, faults, orphan>>

\* find_latest_approval_for_request: of this run and this request.  The run
\* itself asks for one only when there is none.
LatestApproval(r, tool) == approval[r][tool]

Blocked(r, tool) ==
  tool \in Gated /\ ~AutoApprove /\ LatestApproval(r, tool) # "approved"

\* The tool is dispatched when it needs no approval or has one.
DispatchTool(t) ==
  /\ At(t, "tool") /\ Top(t).todo # <<>>
  /\ Head(Top(t).todo) \notin DOMAIN Worker
  /\ ~Blocked(Top(t).run, Head(Top(t).todo))
  /\ Goto(t, "exec")
  /\ UNCHANGED <<user, replies, run, approval, lane, sent, ghosts>>

\* Otherwise the run ends with an error: an approval is requested if there is
\* none, and the run has to be resumed once it is decided.
BlockTool(t) ==
  LET tool == Head(Top(t).todo)
      r    == Top(t).run
  IN /\ At(t, "tool") /\ Top(t).todo # <<>>
     /\ Blocked(r, tool)
     /\ approval' = IF LatestApproval(r, tool) = "none"
                    THEN [approval EXCEPT ![r][tool] = "requested"]
                    ELSE approval
     /\ Goto(t, "failing")
     /\ UNCHANGED <<user, replies, run, lane, sent, ghosts>>

\* worker.assign: the task becomes a user message of the worker's session and
\* its run is executed here.  The same assignment is made once per execution.
AssignWorker(t, ask) ==
  LET tool == Head(Top(t).todo)
      boss == [Top(t) EXCEPT !.pc = "exec", !.keys = @ \cup {tool}]
  IN /\ At(t, "tool") /\ Top(t).todo # <<>>
     /\ tool \in DOMAIN Worker \ Top(t).keys
     /\ RunBudget
     /\ Post(Worker[tool], ask)
     /\ task' = [task EXCEPT ![t] =
                   <<NewFrame("worker", "create", Worker[tool], 0), boss>> \o Tail(@)]
     /\ UNCHANGED <<replies, run, approval, lane, sent, ghosts>>

\* A repeated assignment is passed over.
SkipAssignment(t) ==
  /\ At(t, "tool") /\ Top(t).todo # <<>>
  /\ Head(Top(t).todo) \in Top(t).keys
  /\ Set(t, [Top(t) EXCEPT !.todo = Tail(@)])
  /\ UNCHANGED <<user, replies, run, approval, lane, sent, ghosts>>

EndTool(t) ==
  /\ At(t, "exec")
  /\ Set(t, [Top(t) EXCEPT !.pc = "tool", !.todo = Tail(@)])
  /\ UNCHANGED <<user, replies, run, approval, lane, sent, ghosts>>

\* No tool is left and the provider is asked: its answer is final and saved
\* as a message, or it assigns work that this execution did not assign yet.
ModelAnswers(t) ==
  /\ At(t, "tool") /\ Top(t).todo = <<>>
  /\ replies' = [replies EXCEPT ![Top(t).ses] = Append(@, Top(t).run)]
  /\ Goto(t, "finish")
  /\ UNCHANGED <<user, run, approval, lane, sent, ghosts>>

ModelAssigns(t, w) ==
  /\ At(t, "tool") /\ Top(t).todo = <<>>
  /\ w \notin Top(t).keys
  /\ Set(t, [Top(t) EXCEPT !.todo = <<w>>])
  /\ UNCHANGED <<user, replies, run, approval, lane, sent, ghosts>>

\* A tool has failed, the provider fails, a budget is used up, or a write
\* that follows the saved answer fails.
Error(t) ==
  /\ At(t, "tool") \/ At(t, "finish")
  /\ Goto(t, "failing")
  /\ UNCHANGED <<user, replies, run, approval, lane, sent, ghosts>>

Finish(t) ==
  /\ At(t, "finish")
  /\ SetStatus(Top(t).run, "succeeded")
  /\ Goto(t, "release")
  /\ UNCHANGED <<user, replies, approval, lane, sent, ghosts>>

-----------------------------------------------------------------------------
(* execute_run_with_status_handling, and what the caller does next *)

\* Mutant: the failure of a worker's run is only returned, not written.
MarkFailedOwn(t) ==
  /\ At(t, "failing")
  /\ IF Top(t).kind = "worker" THEN UNCHANGED run ELSE SetStatus(Top(t).run, "failed")
  /\ Goto(t, "release")
  /\ UNCHANGED <<user, replies, approval, lane, sent, ghosts>>

MarkFailed(t) ==
  /\ At(t, "failing")
  /\ SetStatus(Top(t).run, "failed")
  /\ Goto(t, "release")
  /\ UNCHANGED <<user, replies, approval, lane, sent, ghosts>>

\* Mutant: the error goes up past the release of the lane.
MarkFailedFailsHeld(t) ==
  /\ At(t, "failing")
  /\ faults < MaxFaults
  /\ faults' = faults + 1
  /\ orphan' = orphan \cup {Top(t).run}
  /\ ReturnFailed(t)
  /\ UNCHANGED <<user, replies, run, approval, lane, sent, resumes, unheard>>

\* mark_run_failed fails: the error goes up, the row stays running.
MarkFailedFails(t) ==
  /\ At(t, "failing")
  /\ faults < MaxFaults
  /\ faults' = faults + 1
  /\ orphan' = orphan \cup {Top(t).run}
  /\ Unlock(t)
  /\ ReturnFailed(t)
  /\ UNCHANGED <<user, replies, run, approval, sent, resumes, unheard>>

\* The guard is dropped with the outcome already written.  A channel delivers
\* the answer of a run that succeeded; a worker's run is a result for the
\* assigning run, failed or not.
Release(t) ==
  /\ At(t, "release")
  /\ Unlock(t)
  /\ IF Top(t).kind = "channel" /\ run[Top(t).run].status = "succeeded"
     THEN Goto(t, "deliver") ELSE ReturnOk(t)
  /\ UNCHANGED <<user, replies, run, approval, sent, ghosts>>

\* Mutant: the oldest reply of the session.
DeliverFirst(t) ==
  /\ At(t, "deliver")
  /\ sent' = sent \cup {[run |-> Top(t).run, reply |-> Head(replies[Top(t).ses])]}
  /\ Return(t)
  /\ UNCHANGED <<user, replies, run, approval, lane, ghosts>>

\* latest_assistant_reply_text: the newest reply of the session, read when
\* the lane is free again, so that it may be the next run's.
Deliver(t) ==
  /\ At(t, "deliver")
  /\ sent' = sent \cup {[run |-> Top(t).run, reply |-> Last(replies[Top(t).ses])]}
  /\ Return(t)
  /\ UNCHANGED <<user, replies, run, approval, lane, ghosts>>

-----------------------------------------------------------------------------
(* Approvals *)

\* Only a requested approval is decided; nothing takes the decision back.
ResolveApproval(r, tool, decision) ==
  /\ approval[r][tool] = "requested"
  /\ approval' = [approval EXCEPT ![r][tool] = decision]
  /\ UNCHANGED <<user, replies, run, lane, task, sent, ghosts>>

-----------------------------------------------------------------------------
(* Faults *)

\* The runs that lose their executor when the tasks T are dropped.
Lost(T) ==
  UNION {{task[t][i].run : i \in {j \in DOMAIN task[t] : task[t][j].pc \in Started}} : t \in T}

\* A client goes away or a job runs out of time: the future is dropped at an
\* await, with every frame's guard.  A tool that was dispatched goes on.
Drop(t) ==
  /\ ~Idle(t) /\ Top(t).pc \in Executing \cup {"waiting"}
  /\ faults < MaxFaults
  /\ faults' = faults + 1
  /\ orphan' = orphan \cup Lost({t})
  /\ task' = [task EXCEPT ![t] = <<>>]
  /\ lane' = [s \in Sessions |-> Without(lane[s], t)]
  /\ UNCHANGED <<user, replies, run, approval, sent, resumes, unheard>>

Crash ==
  /\ faults < MaxFaults
  /\ faults' = faults + 1
  /\ orphan' = orphan \cup Lost(Tasks)
  /\ task' = [t \in Tasks |-> <<>>]
  /\ lane' = [s \in Sessions |-> <<>>]
  /\ UNCHANGED <<user, replies, run, approval, sent, resumes, unheard>>

-----------------------------------------------------------------------------
Step(t) ==
  \/ CreateRow(t) \/ EnterLane(t) \/ LaneBusy(t)
  \/ Start(t) \/ ReadInput(t) \/ DispatchTool(t) \/ BlockTool(t) \/ EndTool(t)
  \/ (\E ask \in Inputs : AssignWorker(t, ask)) \/ SkipAssignment(t)
  \/ ModelAnswers(t) \/ (\E w \in DOMAIN Worker : ModelAssigns(t, w))
  \/ Error(t) \/ Finish(t) \/ MarkFailed(t) \/ Release(t) \/ Deliver(t)

Begin(t) ==
  \/ \E s \in Sessions : CreateRun(t, s)
  \/ \E s \in Sessions, ask \in Inputs, kind \in {"channel", "card"} :
       IngestMessage(t, kind, s, ask)
  \/ \E r \in DOMAIN run : ResumeRun(t, r)

Next ==
  \/ \E t \in Tasks : Begin(t) \/ Step(t) \/ MarkFailedFails(t) \/ Drop(t)
  \/ \E s \in Sessions, ask \in Inputs : CreateMessage(s, ask)
  \/ \E r \in DOMAIN run, g \in Gated, d \in {"approved", "denied"} :
       ResolveApproval(r, g, d)
  \/ Crash

Spec == Init /\ [][Next]_vars

-----------------------------------------------------------------------------
(* Properties *)

\* Every variable has its shape: the rows, the stacks of frames, the lanes as
\* queues of frames and the approvals.
TypeOK ==
  /\ user \in [Sessions -> Seq(Inputs)]
  /\ replies \in [Sessions -> Seq(RunIds)]
  /\ run \in Seq([ses : Sessions, status : Status]) /\ Len(run) <= MaxRuns
  /\ approval \in [RunIds -> [Gated -> {"none", "requested", "approved", "denied"}]]
  /\ lane \in [Sessions -> Seq(Tasks \X Nat)]
  /\ task \in [Tasks -> Seq(Frame)]
  /\ sent \subseteq [run : RunIds, reply : RunIds]
  /\ resumes \in 0..MaxResumes /\ faults \in 0..MaxFaults
  /\ unheard \subseteq Sessions
  /\ orphan \subseteq RunIds

Frames == UNION {{<<t, i>> : i \in DOMAIN task[t]} : t \in Tasks}
FrameAt(f) == task[f[1]][f[2]]
Executes(f) == FrameAt(f).pc \in Executing

\* No two runs of a session execute at the same time, and no run twice: what
\* the lanes of SessionRunLaneManager are for, whichever of the five ways a
\* run was started, resumed or nested.
OneExecutionPerSession ==
  \A f, g \in Frames :
    Executes(f) /\ Executes(g) /\ FrameAt(f).ses = FrameAt(g).ses => f = g

\* A row that says running has an executor, unless a fault took it away: no
\* error of a tool, the provider, a budget or a nested run leaves one behind.
RunningIsExecuted ==
  \A r \in DOMAIN run :
    run[r].status = "running" =>
      \/ r \in orphan
      \/ \E f \in Frames : FrameAt(f).run = r /\ FrameAt(f).pc \in Started

\* Every place at a lane is the one place of a frame that is alive and stands
\* at that lane.  A lane whose holder is gone would refuse or keep waiting all
\* later runs of its session; the ways out are a finished, failed or refused
\* run, at any depth, an error in writing the outcome, and a dropped request.
NoLaneIsLeft ==
  \A s \in Sessions : \A k \in DOMAIN lane[s] :
    /\ \E f \in Frames :
         /\ lane[s][k] = <<f[1], Len(task[f[1]]) + 1 - f[2]>>
         /\ FrameAt(f).ses = s
         /\ FrameAt(f).pc \in Executing \cup {"waiting", "create"}
    /\ \A j \in DOMAIN lane[s] : lane[s][j] = lane[s][k] => j = k

\* What a channel is sent for a run is that run's reply or a later one of
\* the session, although it is read after the lane was given away.
SentIsOwnOrLater ==
  \A x \in sent :
    LET said == replies[run[x.run].ses]
    IN \E i \in DOMAIN said : \E j \in i..Len(said) :
         said[i] = x.run /\ said[j] = x.reply

\* Who waits for a lane holds none: runs that assign work to each other, or
\* to their own session, can never wait for each other.
NoHoldAndWait ==
  \A t \in Tasks :
    At(t, "waiting") /\ Head(lane[Top(t).ses]) # Ticket(t) =>
      \A s \in Sessions : lane[s] # <<>> => Head(lane[s])[1] # t

\* A message that came through a channel or a job and asked for a run is read
\* by an execution: by its own run, or by the run before it in the lane, which
\* then answers the newer message.  It has a run on its way for as long as it
\* is unread, unless a fault has intervened.
UnheardHasARun ==
  faults = 0 =>
    \A s \in unheard :
      \E f \in Frames :
        /\ FrameAt(f).ses = s
        /\ \/ FrameAt(f).pc = "input"
           \/ FrameAt(f).kind = "channel" /\ FrameAt(f).pc \in {"create", "lane", "waiting"}
=============================================================================
