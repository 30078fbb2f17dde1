----------------------------- MODULE CicdEngine -----------------------------
(***************************************************************************)
(* The control plane of the CI/CD engine (internal/cicd/engine.go): runs   *)
(* are triggered, queued, given one of MaxParallel slots, executed stage   *)
(* by stage (with approval gates), cancelled, timed out, finalised and     *)
(* pruned, and survive a restart of the server as far as runs.json does.   *)
(*                                                                         *)
(* Every action is one critical section of Engine.mu, one channel          *)
(* operation, or one external event; the program counter at[r] says where  *)
(* the goroutine that owns run r stands between two of them.  Runs are     *)
(* numbered in the order Trigger appends them to e.runs, so q > r reads    *)
(* "q is the newer run".  Steps inside a stage are abstracted to the       *)
(* stage's result.                                                         *)
(***************************************************************************)
EXTENDS Naturals, Sequences, FiniteSets

CONSTANTS
  Pipelines,    \* pipeline ids
  Callers,      \* concurrent callers of Trigger: HTTP handlers, webhooks, the cron loop
  Approvers,    \* concurrent callers of Approve
  Gates,        \* Gates[p][i]: stage i of pipeline p has Approval set
  Timed,        \* pipelines with TimeoutMin > 0
  MaxParallel,  \* cap(e.sem)
  QueueSize,    \* cap(e.queue)
  MaxRuns,      \* Pipeline.MaxRuns, the history kept per pipeline
  DefaultMaxRuns, \* the history kept for a pipeline that is gone
  StageBound,   \* bound: stages of a pipeline
  RunBound,     \* bound: runs appended in one behaviour
  CrashBound    \* bound: restarts of the server in one behaviour

ASSUME PipelinesAssumption == "none" \notin Pipelines
ASSUME CallersAssumption == IsFiniteSet(Callers)
ASSUME MaxParallelAssumption == MaxParallel \in Nat \ {0}
ASSUME QueueSizeAssumption == QueueSize \in Nat
ASSUME MaxRunsAssumption == MaxRuns \in Nat \ {0} /\ DefaultMaxRuns \in Nat \ {0}
ASSUME BoundAssumption == /\ StageBound \in Nat \ {0}
                          /\ RunBound \in Nat
                          /\ CrashBound \in Nat
ASSUME GatesAssumption ==
  \A p \in Pipelines : Gates[p] \in Seq(BOOLEAN) /\ Len(Gates[p]) \in 0..StageBound

RunIds == 1..RunBound
StageIds == 1..StageBound

Active == {"queued", "running"}
Terminal == {"success", "failed", "canceled"}
RunStatus == {"none"} \cup Active \cup Terminal
StageStatus == {"pending", "waiting", "running", "skipped"} \cup Terminal

(***************************************************************************)
(* Where the goroutine that owns a run stands.  It holds a token of e.sem  *)
(* exactly at the points of HoldsSlot, and it is past the status check of  *)
(* execute at the points of Executing.  At the points of Unsaved it has    *)
(* set the status of a stage under the lock and has yet to persist it.     *)
(***************************************************************************)
Waiting == {"register", "await", "unregister", "retake"}
Unsaved == {"gated", "denied", "started", "ended"}
Executing == Waiting \cup Unsaved
               \cup {"log", "gate", "yield", "deny", "start", "steps", "skip", "finish"}
HoldsSlot == (Executing \ Waiting) \cup {"begin", "prune", "leave"}
Place == HoldsSlot \cup Waiting
           \cup {"none", "offer", "queued", "slot", "refused", "refusedPrune", "over"}

VARIABLES
  pipes,     \* e.pipes: the ids of the pipelines that exist
  live,      \* e.runs: the runs of the history in memory
  owner,     \* Run.PipelineID
  status,    \* Run.Status
  canceling, \* Run.Canceling
  stages,    \* Run.Stages[i].Status
  ctx,       \* the context of the run's execution
  at,        \* program counter of the run's goroutine
  cur,       \* index i of the stage loop
  verdict,   \* approved, the result of waitApproval
  outcome,   \* runStatus, the local of execute
  queue,     \* e.queue
  slots,     \* len(e.sem)
  worker,    \* the worker goroutine: up or down
  approvals, \* e.approvals: runs with a registered approval channel
  chan,      \* content of the approval channel of a run's stage
  checked,   \* Trigger calls past the check of the RLock section: their pipeline
  sign,      \* Approve calls past the lookup: their channel and answer
  answers,   \* history: the answers Approve has accepted (returned nil for)
  nextRun,   \* number of runs appended so far
  saved,     \* runs.json
  crashes    \* restarts so far

memory == <<pipes, live, owner, status, canceling, stages>>
goroutines == <<ctx, at, cur, verdict, outcome>>
channels == <<queue, slots, worker, approvals, chan>>
callers == <<checked, sign, answers, nextRun>>
vars == <<memory, goroutines, channels, callers, saved, crashes>>

-----------------------------------------------------------------------------
(* Initial state *)

Answer == {"yes", "no"}
Signature == [run : RunIds, stage : StageIds, answer : Answer]
NoSignature == [run |-> 0, stage |-> 0, answer |-> "no"]

Init ==
  /\ pipes = Pipelines
  /\ live = {}
  /\ owner = [r \in RunIds |-> "none"]
  /\ status = [r \in RunIds |-> "none"]
  /\ canceling = [r \in RunIds |-> FALSE]
  /\ stages = [r \in RunIds |-> [i \in StageIds |-> "pending"]]
  /\ ctx = [r \in RunIds |-> "none"]
  /\ at = [r \in RunIds |-> "none"]
  /\ cur = [r \in RunIds |-> 1]
  /\ verdict = [r \in RunIds |-> FALSE]
  /\ outcome = [r \in RunIds |-> "success"]
  /\ queue = <<>>
  /\ slots = 0
  /\ worker = "up"
  /\ approvals = {}
  /\ chan = [r \in RunIds |-> [i \in StageIds |-> "none"]]
  /\ checked = [c \in Callers |-> "none"]
  /\ sign = [a \in Approvers |-> NoSignature]
  /\ answers = [r \in RunIds |-> [i \in StageIds |-> {}]]
  /\ nextRun = 0
  /\ saved = [live |-> {}, status |-> status, canceling |-> canceling, stages |-> stages]
  /\ crashes = 0

(* runs.json is rewritten from the memory of the same critical section. *)
Persist ==
  saved' = [live |-> live', status |-> status',
            canceling |-> canceling', stages |-> stages']

Goto(r, place) == at' = [at EXCEPT ![r] = place]

-----------------------------------------------------------------------------
(* Trigger: check under the read lock, append under the write lock, then   *)
(* persist and offer the run to the queue.                                 *)

\* Mutant: only a run that executes blocks the next one.
RunningBlocks(p) == \E r \in live : owner[r] = p /\ status[r] = "running"

HasActiveRun(p) == \E r \in live : owner[r] = p /\ status[r] \in Active

(* The RLock section: the pipeline exists and none of its runs is active;  *)
(* the definition is snapshotted and the lock given up.                    *)
TriggerCheck(c, p) ==
  /\ checked[c] = "none"
  /\ nextRun < RunBound
  /\ p \in pipes
  /\ ~HasActiveRun(p)
  /\ checked' = [checked EXCEPT ![c] = p]
  /\ UNCHANGED <<memory, goroutines, channels, sign, answers, nextRun, saved, crashes>>

(* resolveRuntime refuses: a code source without a workspace. *)
TriggerUnresolved(c) ==
  /\ checked[c] # "none"
  /\ checked' = [checked EXCEPT ![c] = "none"]
  /\ UNCHANGED <<memory, goroutines, channels, sign, answers, nextRun, saved, crashes>>

(* newRun and the append; the caller now works for the new run. *)
TriggerAppend(c) ==
  /\ checked[c] # "none"
  /\ nextRun < RunBound
  /\ nextRun' = nextRun + 1
  /\ live' = live \cup {nextRun'}
  /\ owner' = [owner EXCEPT ![nextRun'] = checked[c]]
  /\ status' = [status EXCEPT ![nextRun'] = "queued"]
  /\ Goto(nextRun', "offer")
  /\ checked' = [checked EXCEPT ![c] = "none"]
  /\ UNCHANGED <<pipes, canceling, stages, ctx, cur, verdict, outcome,
                 channels, sign, answers, saved, crashes>>

(* persistRuns and the non-blocking send, which touch nothing in common.   *)
TriggerOffer(r) ==
  /\ at[r] = "offer"
  /\ IF Len(queue) < QueueSize
     THEN queue' = Append(queue, r) /\ Goto(r, "queued")
     ELSE queue' = queue /\ Goto(r, "refused")
  /\ UNCHANGED <<memory, ctx, cur, verdict, outcome,
                 slots, worker, approvals, chan, callers, crashes>>
  /\ Persist

-----------------------------------------------------------------------------
(* Finalising and pruning. *)

Finalize(r, result) ==
  /\ status' = [status EXCEPT ![r] = result]
  /\ canceling' = [canceling EXCEPT ![r] = FALSE]
  /\ UNCHANGED <<pipes, live, owner, stages>>
  /\ Persist

(* finalize(run, failed, "queue full"), called by Trigger itself. *)
FinalizeRefused(r) ==
  /\ at[r] = "refused"
  /\ Finalize(r, "failed")
  /\ Goto(r, "refusedPrune")
  /\ UNCHANGED <<ctx, cur, verdict, outcome, channels, callers, crashes>>

(* The call of finalize at the end of execute. *)
FinalizeRun(r) ==
  /\ at[r] = "finish"
  /\ Finalize(r, outcome[r])
  /\ Goto(r, "prune")
  /\ UNCHANGED <<ctx, cur, verdict, outcome, channels, callers, crashes>>

HistoryLimit(p) == IF p \in pipes THEN MaxRuns ELSE DefaultMaxRuns

\* Mutant: the newest runs go first.
NewestExcess(p) ==
  LET mine == {r \in live : owner[r] = p}
  IN  {r \in mine : Cardinality({q \in mine : q < r}) >= HistoryLimit(p)}

(* The runs beyond the HistoryLimit(p) newest of pipeline p. *)
Excess(p) ==
  LET mine == {r \in live : owner[r] = p}
  IN  {r \in mine : Cardinality({q \in mine : q > r}) >= HistoryLimit(p)}

(* pruneRuns; notify then posts the result, outside the engine's state. *)
PruneRuns(r) ==
  /\ at[r] \in {"prune", "refusedPrune"}
  /\ live' = live \ Excess(owner[r])
  /\ Goto(r, IF at[r] = "prune" THEN "leave" ELSE "over")
  /\ UNCHANGED <<pipes, owner, status, canceling, stages, ctx, cur, verdict, outcome,
                 channels, callers, crashes>>
  /\ Persist

-----------------------------------------------------------------------------
(* worker and runWithSlot. *)

(* worker: one goroutine per request, blocked on its slot. *)
Dequeue ==
  /\ worker = "up"
  /\ queue # <<>>
  /\ queue' = Tail(queue)
  /\ Goto(Head(queue), "slot")
  /\ UNCHANGED <<memory, ctx, cur, verdict, outcome,
                 slots, worker, approvals, chan, callers, saved, crashes>>

(* Stop closes e.stop and the worker leaves its loop: requests still queued *)
(* stay there (the process is about to exit).                              *)
StopWorker ==
  /\ worker = "up"
  /\ worker' = "down"
  /\ UNCHANGED <<memory, goroutines, queue, slots, approvals, chan, callers, saved, crashes>>

\* Mutant: the capacity of e.sem is one too large.
SlotFreeOffByOne == slots <= MaxParallel

SlotFree == slots < MaxParallel

(* e.sem <- struct{}{} before execute. *)
TakeSlot(r) ==
  /\ at[r] = "slot"
  /\ SlotFree
  /\ slots' = slots + 1
  /\ Goto(r, "begin")
  /\ UNCHANGED <<memory, ctx, cur, verdict, outcome,
                 queue, worker, approvals, chan, callers, saved, crashes>>

(* The deferred <-e.sem after execute, whose locals are gone. *)
LeaveSlot(r) ==
  /\ at[r] = "leave"
  /\ slots' = slots - 1
  /\ Goto(r, "over")
  /\ ctx' = [ctx EXCEPT ![r] = "none"]
  /\ cur' = [cur EXCEPT ![r] = 1]
  /\ verdict' = [verdict EXCEPT ![r] = FALSE]
  /\ outcome' = [outcome EXCEPT ![r] = "success"]
  /\ UNCHANGED <<memory, queue, worker, approvals, chan, callers, saved, crashes>>

-----------------------------------------------------------------------------
(* execute: the critical section that starts a run, and its stage loop. *)

StageCount(r) == Len(Gates[owner[r]])

\* Mutant: the stage loop ends one stage early.
ArriveShort(r, i) ==
  IF i >= StageCount(r) /\ i > 1 THEN "finish"
  ELSE IF Gates[owner[r]][i] THEN "gate" ELSE "start"

(* The top of the stage loop for stage i: its gate, its start, or the end. *)
Arrive(r, i) ==
  IF i > StageCount(r) THEN "finish"
  ELSE IF Gates[owner[r]][i] THEN "gate" ELSE "start"

\* Mutant: execute does not look whether the run was cancelled meanwhile.
AlwaysQueued(r) == TRUE

StillQueued(r) == status[r] = "queued"

Begin(r) ==
  /\ at[r] = "begin"
  /\ StillQueued(r)
  /\ status' = [status EXCEPT ![r] = "running"]
  /\ ctx' = [ctx EXCEPT ![r] = "live"]
  /\ Goto(r, "log")
  /\ UNCHANGED <<pipes, live, owner, canceling, stages, cur, verdict, outcome,
                 channels, callers, saved, crashes>>

(* The run was cancelled while it waited: execute returns at once. *)
BeginCanceled(r) ==
  /\ at[r] = "begin"
  /\ ~StillQueued(r)
  /\ Goto(r, "leave")
  /\ UNCHANGED <<memory, ctx, cur, verdict, outcome, channels, callers, saved, crashes>>

(* The log file is opened; if that fails the run fails before any stage. *)
OpenLog(r) ==
  /\ at[r] = "log"
  /\ \/ Goto(r, Arrive(r, 1)) /\ UNCHANGED outcome
     \/ Goto(r, "finish") /\ outcome' = [outcome EXCEPT ![r] = "failed"]
  /\ UNCHANGED <<memory, ctx, cur, verdict, channels, callers, saved, crashes>>

SetStage(r, s) == [stages EXCEPT ![r][cur[r]] = s]

\* Mutant: only the later stages are touched.
SkipRestOnly(r, s) ==
  [stages EXCEPT ![r] = [i \in StageIds |->
     IF i > cur[r] /\ i <= StageCount(r) THEN "skipped" ELSE @[i]]]

(* Stage cur[r] gets status s and the later ones are skipped. *)
SetStageSkipRest(r, s) ==
  [stages EXCEPT ![r] = [i \in StageIds |->
     IF i = cur[r] THEN s
     ELSE IF i > cur[r] /\ i <= StageCount(r) THEN "skipped" ELSE @[i]]]

(* What a section of the loop that changes the stages of r leaves alone.   *)
StagesOnly == UNCHANGED <<pipes, live, owner, status, canceling, ctx, cur, verdict, outcome,
                          channels, callers, saved, crashes>>

(* persistRuns after such a section, in a critical section of its own.     *)
SaveStages(r, from, to) ==
  /\ at[r] = from
  /\ Goto(r, to)
  /\ UNCHANGED <<memory, ctx, cur, verdict, outcome, channels, callers, crashes>>
  /\ Persist

(* A gated stage is marked waiting before the slot is given up. *)
GateStage(r) ==
  /\ at[r] = "gate"
  /\ stages' = SetStage(r, "waiting")
  /\ Goto(r, "gated")
  /\ StagesOnly

SaveWaiting(r) == SaveStages(r, "gated", "yield")

\* Mutant: the slot is kept during the wait.
YieldNothing(r) ==
  /\ at[r] = "yield"
  /\ Goto(r, "register")
  /\ UNCHANGED <<memory, ctx, cur, verdict, outcome, channels, callers, saved, crashes>>

(* <-e.sem: the wait takes no slot. *)
YieldSlot(r) ==
  /\ at[r] = "yield"
  /\ slots' = slots - 1
  /\ Goto(r, "register")
  /\ UNCHANGED <<memory, ctx, cur, verdict, outcome,
                 queue, worker, approvals, chan, callers, saved, crashes>>

\* Mutant: a run has one channel, which its later gates find as it was left.
RegisterAgain(r) ==
  LET left == {chan[r][i] : i \in 1..(cur[r] - 1)} \cap Answer
  IN  /\ at[r] = "register"
      /\ approvals' = approvals \cup {r}
      /\ chan' = [chan EXCEPT ![r][cur[r]] =
                    IF left = {} THEN "empty" ELSE CHOOSE answer \in left : TRUE]
      /\ Goto(r, "await")
      /\ UNCHANGED <<memory, ctx, cur, verdict, outcome,
                     queue, slots, worker, callers, saved, crashes>>

(* waitApproval: make the channel and register it. *)
RegisterApproval(r) ==
  /\ at[r] = "register"
  /\ approvals' = approvals \cup {r}
  /\ chan' = [chan EXCEPT ![r][cur[r]] = "empty"]
  /\ Goto(r, "await")
  /\ UNCHANGED <<memory, ctx, cur, verdict, outcome,
                 queue, slots, worker, callers, saved, crashes>>

\* Mutants: the deadline, or the cancel, goes unnoticed.
CancelOnly(r) == ctx[r] = "canceled"
DeadlineOnly(r) == ctx[r] = "expired"

CtxDone(r) == ctx[r] \in {"canceled", "expired"}

Approved(answer) == answer = "yes"

(* waitApproval's select, case ok := <-ch. *)
ReceiveAnswer(r) ==
  /\ at[r] = "await"
  /\ chan[r][cur[r]] \in Answer
  /\ verdict' = [verdict EXCEPT ![r] = Approved(chan[r][cur[r]])]
  /\ chan' = [chan EXCEPT ![r][cur[r]] = "empty"]
  /\ Goto(r, "unregister")
  /\ UNCHANGED <<memory, ctx, cur, outcome, queue, slots, worker, approvals,
                 callers, saved, crashes>>

(* waitApproval's select, case <-ctx.Done(). *)
StopWaiting(r) ==
  /\ at[r] = "await"
  /\ CtxDone(r)
  /\ verdict' = [verdict EXCEPT ![r] = FALSE]
  /\ Goto(r, "unregister")
  /\ UNCHANGED <<memory, ctx, cur, outcome, channels, callers, saved, crashes>>

(* waitApproval's deferred delete. *)
Unregister(r) ==
  /\ at[r] = "unregister"
  /\ approvals' = approvals \ {r}
  /\ Goto(r, "retake")
  /\ UNCHANGED <<memory, ctx, cur, verdict, outcome,
                 queue, slots, worker, chan, callers, saved, crashes>>

(* e.sem <- struct{}{} after the wait; the verdict decides what follows. *)
RetakeSlot(r) ==
  /\ at[r] = "retake"
  /\ SlotFree
  /\ slots' = slots + 1
  /\ Goto(r, IF verdict[r] THEN "start" ELSE "deny")
  /\ UNCHANGED <<memory, ctx, cur, verdict, outcome,
                 queue, worker, approvals, chan, callers, saved, crashes>>

(* Rejected or cancelled: the stage is cancelled, the rest skipped. *)
DenyStage(r) ==
  /\ at[r] = "deny"
  /\ stages' = SetStageSkipRest(r, "canceled")
  /\ Goto(r, "denied")
  /\ StagesOnly

SaveDenied(r) ==
  /\ at[r] = "denied"
  /\ outcome' = [outcome EXCEPT ![r] = "canceled"]
  /\ Goto(r, "finish")
  /\ UNCHANGED <<memory, ctx, cur, verdict, channels, callers, crashes>>
  /\ Persist

StartStage(r) ==
  /\ at[r] = "start"
  /\ stages' = SetStage(r, "running")
  /\ Goto(r, "started")
  /\ StagesOnly

SaveStarted(r) == SaveStages(r, "started", "steps")

(* The step loop has ended: stepStatus is success or failed, but a context *)
(* that is done by now makes the stage cancelled.                          *)
StageResults(r) == IF CtxDone(r) THEN {"canceled"} ELSE {"success", "failed"}

StageEnds(r) ==
  /\ at[r] = "steps"
  /\ \E result \in StageResults(r) : stages' = SetStage(r, result)
  /\ Goto(r, "ended")
  /\ StagesOnly

\* Mutant: the loop goes on after a stage that failed.
StageGoesOn(r) ==
  /\ at[r] = "ended"
  /\ cur' = [cur EXCEPT ![r] = IF @ < StageCount(r) THEN @ + 1 ELSE @]
  /\ Goto(r, Arrive(r, cur[r] + 1))
  /\ UNCHANGED <<memory, ctx, verdict, outcome, channels, callers, crashes>>
  /\ Persist

\* Mutant: the result of a stage is persisted only with a later change.
StageSucceedsInMemory(r) ==
  /\ at[r] = "ended"
  /\ stages[r][cur[r]] = "success"
  /\ cur' = [cur EXCEPT ![r] = IF @ < StageCount(r) THEN @ + 1 ELSE @]
  /\ Goto(r, Arrive(r, cur[r] + 1))
  /\ UNCHANGED <<memory, ctx, verdict, outcome, channels, callers, saved, crashes>>

(* The result is persisted; after a success the loop goes on.              *)
StageSucceeds(r) ==
  /\ at[r] = "ended"
  /\ stages[r][cur[r]] = "success"
  /\ cur' = [cur EXCEPT ![r] = IF @ < StageCount(r) THEN @ + 1 ELSE @]
  /\ Goto(r, Arrive(r, cur[r] + 1))
  /\ UNCHANGED <<memory, ctx, verdict, outcome, channels, callers, crashes>>
  /\ Persist

(* Any other result is persisted and becomes the run's.                    *)
StageEndsRun(r) ==
  /\ at[r] = "ended"
  /\ stages[r][cur[r]] # "success"
  /\ outcome' = [outcome EXCEPT ![r] = stages[r][cur[r]]]
  /\ Goto(r, "skip")
  /\ UNCHANGED <<memory, ctx, cur, verdict, channels, callers, crashes>>
  /\ Persist

(* The later stages are marked skipped, one critical section each.         *)
ToSkip(r) == {i \in StageIds : cur[r] < i /\ i <= StageCount(r) /\ stages[r][i] # "skipped"}

SkipStage(r) ==
  /\ at[r] = "skip"
  /\ \E i \in ToSkip(r) :
       /\ \A j \in ToSkip(r) : i <= j
       /\ stages' = [stages EXCEPT ![r][i] = "skipped"]
  /\ UNCHANGED at
  /\ StagesOnly

SkippedAll(r) ==
  /\ at[r] = "skip"
  /\ ToSkip(r) = {}
  /\ Goto(r, "finish")
  /\ UNCHANGED <<memory, ctx, cur, verdict, outcome, channels, callers, saved, crashes>>

-----------------------------------------------------------------------------
(* Cancel, the pipeline's deadline, Approve, DeletePipeline. *)

\* Mutant: the cancel of a queued run is not persisted.
CancelQueuedInMemory(r) ==
  /\ r \in live
  /\ status[r] = "queued"
  /\ status' = [status EXCEPT ![r] = "canceled"]
  /\ UNCHANGED <<pipes, live, owner, canceling, stages, goroutines, channels, callers,
                 saved, crashes>>

(* Cancel of a queued run: it is over, though its request stays queued. *)
CancelQueued(r) ==
  /\ r \in live
  /\ status[r] = "queued"
  /\ status' = [status EXCEPT ![r] = "canceled"]
  /\ UNCHANGED <<pipes, live, owner, canceling, stages, goroutines, channels, callers, crashes>>
  /\ Persist

(* Cancel of a running run: the context is cancelled, the run goes on to   *)
(* its next look at it.  cancelFn holds a run exactly while it is running. *)
CancelRunning(r) ==
  /\ r \in live
  /\ status[r] = "running"
  /\ canceling' = [canceling EXCEPT ![r] = TRUE]
  /\ ctx' = [ctx EXCEPT ![r] = IF @ = "live" THEN "canceled" ELSE @]
  /\ UNCHANGED <<pipes, live, owner, status, stages, at, cur, verdict, outcome,
                 channels, callers, saved, crashes>>

(* context.WithTimeout of the whole run. *)
Timeout(r) ==
  /\ status[r] = "running"
  /\ ctx[r] = "live"
  /\ owner[r] \in Timed
  /\ ctx' = [ctx EXCEPT ![r] = "expired"]
  /\ UNCHANGED <<memory, at, cur, verdict, outcome, channels, callers, saved, crashes>>

(* Approve: the channel is looked up under the lock ... *)
ApproveLookup(a, r, answer) ==
  /\ sign[a] = NoSignature
  /\ r \in approvals
  /\ sign' = [sign EXCEPT ![a] = [run |-> r, stage |-> cur[r], answer |-> answer]]
  /\ UNCHANGED <<memory, goroutines, channels, checked, answers, nextRun, saved, crashes>>

(* ... and the answer sent after it: accepted if the buffer has room.      *)
ApproveSend(a) ==
  LET s == sign[a]
      accepted == chan[s.run][s.stage] = "empty"
  IN  /\ s # NoSignature
      /\ chan' = [chan EXCEPT ![s.run][s.stage] = IF accepted THEN s.answer ELSE @]
      /\ answers' = [answers EXCEPT ![s.run][s.stage] =
                       IF accepted THEN @ \cup {s.answer} ELSE @]
      /\ sign' = [sign EXCEPT ![a] = NoSignature]
      /\ UNCHANGED <<memory, goroutines, queue, slots, worker, approvals,
                     checked, nextRun, saved, crashes>>

\* Mutant: only pipelines.json is written, not runs.json.
DeleteHalfPersisted(p) ==
  /\ p \in pipes
  /\ ~HasActiveRun(p)
  /\ pipes' = pipes \ {p}
  /\ live' = {r \in live : owner[r] # p}
  /\ UNCHANGED <<owner, status, canceling, stages, goroutines, channels, callers,
                 saved, crashes>>

(* DeletePipeline: refused while a run of the pipeline is active. *)
DeletePipeline(p) ==
  /\ p \in pipes
  /\ ~HasActiveRun(p)
  /\ pipes' = pipes \ {p}
  /\ live' = {r \in live : owner[r] # p}
  /\ UNCHANGED <<owner, status, canceling, stages, goroutines, channels, callers, crashes>>
  /\ Persist

-----------------------------------------------------------------------------
(* The server stops at any point and starts again. *)

\* Mutants: queued runs are not recovered; cancelled ones are failed too.
RecoverRunning(s) == IF s = "running" THEN "failed" ELSE s
RecoverAll(s) == IF s = "success" THEN s ELSE "failed"

(* recoverOrphans: a run that was active on disk is failed. *)
Recovered(s) == IF s \in Active THEN "failed" ELSE s

(* NewEngine: every goroutine and channel is gone, the history is the one  *)
(* of runs.json after recoverOrphans.  A run that is active and was never  *)
(* written is forgotten.                                                   *)
Restart ==
  /\ crashes < CrashBound
  /\ crashes' = crashes + 1
  /\ live' = saved.live
  /\ status' = [r \in RunIds |->
       IF r \in saved.live THEN Recovered(saved.status[r])
       ELSE IF status[r] \in Active THEN "none" ELSE status[r]]
  /\ canceling' = saved.canceling
  /\ stages' = saved.stages
  /\ ctx' = [r \in RunIds |-> "none"]
  /\ cur' = [r \in RunIds |-> 1]
  /\ verdict' = [r \in RunIds |-> FALSE]
  /\ outcome' = [r \in RunIds |-> "success"]
  /\ at' = [r \in RunIds |-> IF at[r] = "none" THEN "none" ELSE "over"]
  /\ queue' = <<>>
  /\ slots' = 0
  /\ worker' = "up"
  /\ approvals' = {}
  /\ chan' = [r \in RunIds |-> [i \in StageIds |-> "none"]]
  /\ checked' = [c \in Callers |-> "none"]
  /\ sign' = [a \in Approvers |-> NoSignature]
  /\ UNCHANGED <<pipes, owner, answers, nextRun>>
  /\ Persist

-----------------------------------------------------------------------------
(* Specification *)

RunStep(r) ==
  \/ TriggerOffer(r) \/ FinalizeRefused(r) \/ FinalizeRun(r) \/ PruneRuns(r)
  \/ TakeSlot(r) \/ LeaveSlot(r) \/ Begin(r) \/ BeginCanceled(r) \/ OpenLog(r)
  \/ GateStage(r) \/ YieldSlot(r) \/ RegisterApproval(r) \/ ReceiveAnswer(r)
  \/ StopWaiting(r) \/ Unregister(r) \/ RetakeSlot(r) \/ DenyStage(r)
  \/ StartStage(r) \/ StageEnds(r) \/ StageSucceeds(r) \/ StageEndsRun(r)
  \/ SaveWaiting(r) \/ SaveDenied(r) \/ SaveStarted(r) \/ SkipStage(r) \/ SkippedAll(r)

Next ==
  \/ \E c \in Callers : \/ \E p \in Pipelines : TriggerCheck(c, p)
                        \/ TriggerUnresolved(c)
                        \/ TriggerAppend(c)
  \/ \E r \in RunIds : RunStep(r) \/ CancelQueued(r) \/ CancelRunning(r) \/ Timeout(r)
  \/ \E a \in Approvers : \/ \E r \in RunIds, answer \in Answer : ApproveLookup(a, r, answer)
                          \/ ApproveSend(a)
  \/ \E p \in Pipelines : DeletePipeline(p)
  \/ Dequeue \/ StopWorker
  \/ Restart

Spec == Init /\ [][Next]_vars

(***************************************************************************)
(* The scheduling the code justifies.  Every goroutine that can move does, *)
(* except that a step's command may run for ever: only a done context is   *)
(* known to end it (CommandContext kills it here, a remote one is no       *)
(* longer waited for).  Senders blocked on e.sem are served in the order   *)
(* they came (Go channels are fair to blocked senders), hence SF.  The     *)
(* timer of WithTimeout fires.                                             *)
(***************************************************************************)
OwnStep(r) ==
  \/ TriggerOffer(r) \/ FinalizeRefused(r) \/ FinalizeRun(r) \/ PruneRuns(r)
  \/ LeaveSlot(r) \/ Begin(r) \/ BeginCanceled(r) \/ OpenLog(r)
  \/ GateStage(r) \/ YieldSlot(r) \/ RegisterApproval(r) \/ ReceiveAnswer(r)
  \/ StopWaiting(r) \/ Unregister(r) \/ DenyStage(r) \/ StartStage(r)
  \/ SaveWaiting(r) \/ SaveDenied(r) \/ SaveStarted(r)
  \/ CtxDone(r) /\ StageEnds(r)
  \/ StageSucceeds(r) \/ StageEndsRun(r) \/ SkipStage(r) \/ SkippedAll(r)

Fairness ==
  /\ WF_vars(Dequeue)
  /\ \A r \in RunIds : /\ WF_vars(OwnStep(r))
                       /\ WF_vars(Timeout(r))
                       /\ SF_vars(TakeSlot(r))
                       /\ SF_vars(RetakeSlot(r))

FairSpec == Spec /\ Fairness

-----------------------------------------------------------------------------
(* Properties *)

\* Type correctness of the engine's state.
TypeOK ==
  /\ pipes \subseteq Pipelines
  /\ live \subseteq RunIds
  /\ owner \in [RunIds -> Pipelines \cup {"none"}]
  /\ status \in [RunIds -> RunStatus]
  /\ canceling \in [RunIds -> BOOLEAN]
  /\ stages \in [RunIds -> [StageIds -> StageStatus]]
  /\ ctx \in [RunIds -> {"none", "live", "canceled", "expired"}]
  /\ at \in [RunIds -> Place]
  /\ cur \in [RunIds -> StageIds]
  /\ verdict \in [RunIds -> BOOLEAN]
  /\ outcome \in [RunIds -> Terminal]
  /\ queue \in Seq(RunIds)
  /\ slots \in Nat
  /\ worker \in {"up", "down"}
  /\ approvals \subseteq RunIds
  /\ chan \in [RunIds -> [StageIds -> {"none", "empty"} \cup Answer]]
  /\ checked \in [Callers -> Pipelines \cup {"none"}]
  /\ sign \in [Approvers -> Signature \cup {NoSignature}]
  /\ answers \in [RunIds -> [StageIds -> SUBSET Answer]]
  /\ nextRun \in 0..RunBound
  /\ saved \in [live : SUBSET RunIds, status : [RunIds -> RunStatus],
                canceling : [RunIds -> BOOLEAN],
                stages : [RunIds -> [StageIds -> StageStatus]]]
  /\ crashes \in 0..CrashBound

SlotHolders == {r \in RunIds : at[r] \in HoldsSlot}

\* len(e.sem) is the number of goroutines that hold a slot, whatever
\* interleaving of waits for approval gave slots up and took them again
\* (runWithSlot: "the net change is zero"), and never exceeds its capacity.
SlotsCounted == slots = Cardinality(SlotHolders) /\ slots <= MaxParallel

\* At most MaxParallel runs execute steps at any time (OPCORE_CICD_MAXRUNS),
\* approval gates included.
ConcurrencyBounded == Cardinality({r \in RunIds : at[r] = "steps"}) <= MaxParallel

\* No goroutine works on the stages of a run that Cancel, a finalize or the
\* restart has already ended: the check at the start of execute and the
\* single finalize at its end leave no window between them.
ExecutingIsRunning == \A r \in RunIds : at[r] \in Executing => status[r] = "running"

Offered(r) == at[r] \notin {"offer", "refused"}

\* A run that reached the queue and has ended stays as it ended: no late
\* finalize overwrites a cancel, no restart fails a finished run.
TerminalIsFinal ==
  [][\A r \in RunIds : Offered(r) /\ status[r] \in Terminal => status'[r] = status[r]]_vars

\* A stage with an approval gate executes only after Approve accepted a yes
\* for exactly that stage, however the answer, a cancel and the deadline race: no
\* answer to an earlier gate of the run, whose entry of e.approvals is used again,
\* lets a later one through.
GateRespected ==
  \A r \in RunIds : \A i \in StageIds :
    /\ owner[r] # "none"
    /\ i <= StageCount(r)
    /\ Gates[owner[r]][i]
    /\ stages[r][i] \in {"running", "success", "failed"}
    => "yes" \in answers[r][i]

\* What the history shows as ended is on disk as ended, and a run whose
\* Trigger got past the append is on disk at all: a crash at any point loses
\* no result (recoverOrphans has the truth to start from).
HistoryOnDisk ==
  \A r \in live : at[r] # "offer" =>
    /\ r \in saved.live
    /\ status[r] \in Terminal => saved.status[r] = status[r]

\* A queued or running run of the history always has a goroutine, or a place
\* in the queue, that will take it further: otherwise its pipeline could
\* never be triggered or deleted again.
NoZombieRun ==
  \A r \in live : status[r] \in Active => at[r] \notin {"none", "leave", "over"}

\* A run reported as success ran every one of its stages to success.
SuccessMeansAllStages ==
  \A r \in RunIds : status[r] = "success" =>
    \A i \in StageIds : i <= StageCount(r) => stages[r][i] = "success"

\* A pipeline has at most one queued or running run (Trigger's refusal "the
\* pipeline already has a running or queued run"; the requirements' serial
\* execution per pipeline).
OneActiveRun ==
  \A r, q \in live :
    owner[r] = owner[q] /\ status[r] \in Active /\ status[q] \in Active => r = q

\* However many callers pass the check of Trigger before one of them appends: a
\* pipeline never has more active runs than there are concurrent callers, those
\* still on their way to the append counted as runs.
Past(p) == {c \in Callers : checked[c] = p}
ActiveRuns(p) == {r \in live : owner[r] = p /\ status[r] \in Active}
ActivesBounded ==
  \A p \in Pipelines :
    Cardinality(ActiveRuns(p)) + Cardinality(Past(p)) <= Cardinality(Callers)

\* A run that executes is in the history, where Cancel and the detail page
\* find it: neither pruning nor deleting a pipeline removes it.
ActiveInHistory == \A r \in RunIds : at[r] \in Executing => r \in live

\* The stages of a run leave "pending" in their order, each one only after those
\* before it succeeded: neither an answer, a cancel or a deadline at a gate nor
\* a restart lets a run go on past a stage that failed or never ran.
StagesInOrder ==
  \A r \in RunIds : \A i, j \in StageIds :
    j < i /\ stages[r][i] \notin {"pending", "skipped"} => stages[r][j] = "success"

\* The result of a stage never changes, not by a restart either, which takes the
\* stages from disk; only the result the loop has just set under the lock and not
\* persisted yet is lost if the server stops before it does.
StageResultsFinal ==
  [][\A r \in RunIds : \A i \in StageIds :
       stages[r][i] \in Terminal =>
         \/ stages'[r][i] = stages[r][i]
         \/ at[r] \in {"denied", "ended"} /\ i = cur[r] /\ crashes' # crashes]_vars

\* A run that is over leaves no stage waiting for approval or running.
SettledStages ==
  \A r \in live : status[r] \in Terminal =>
    \A i \in StageIds : stages[r][i] \notin {"waiting", "running"}

\* An answer "no" that Approve accepted keeps its stage from executing (the
\* comment of Approve: false rejects, the stage is cancelled).
RejectionHonoured ==
  \A r \in RunIds : \A i \in StageIds :
    "no" \in answers[r][i] => stages[r][i] \notin {"running", "success", "failed"}

\* A wait for approval ends with an answer or an accepted Cancel, never with
\* the passing of time (the requirements: no time limit, it may last overnight).
ApprovalWaitUnlimited ==
  [][\A r \in RunIds :
       at[r] = "await" /\ at'[r] # "await" => chan[r][cur[r]] \in Answer \/ canceling[r]]_vars

\* A run without a deadline whose commands have not ended: it keeps its slot for
\* ever if they never do and nobody cancels it.
Hangs(q) == at[q] = "steps" /\ ctx[q] = "live" /\ owner[q] \notin Timed

\* Such runs do not hold all the slots for good.  Without this a run that has to
\* take a slot waits for ever behind them, even to be recorded as cancelled.
SlotsComeFree == []<>(Cardinality({q \in RunIds : Hangs(q)}) < MaxParallel)

\* An accepted Cancel of a running run ends it, also while it waits for an
\* approval or for its slot, unless commands that never end hold all the slots.
CancelTakesEffect ==
  SlotsComeFree => \A r \in RunIds : canceling[r] ~> status[r] \in Terminal

\* A run of a pipeline with a deadline that was put in the queue ends, though
\* nobody ever answers its approvals, unless the engine is being stopped or
\* commands that never end hold all the slots.
TimedRunEnds ==
  SlotsComeFree =>
    \A r \in RunIds :
      at[r] = "queued" /\ owner[r] \in Timed ~> status[r] \in Terminal \/ worker = "down"

-----------------------------------------------------------------------------
(* The inductive invariant behind the safety properties. *)

\* A run that was appended belongs to a pipeline; one that was not is unused
\* and not in the history.
RunsNumbered ==
  \A r \in RunIds : /\ at[r] # "none" => owner[r] \in Pipelines
                    /\ r \in live => at[r] # "none"
                    /\ r > nextRun => at[r] = "none" /\ status[r] = "none"

\* The queue holds each run at most once, and only runs that wait in it.
QueuePlaces ==
  /\ \A i \in 1..Len(queue) : at[queue[i]] = "queued"
  /\ \A i, j \in 1..Len(queue) : queue[i] = queue[j] => i = j

\* A stage whose end is not persisted yet shows how it ended.
EndedHasResult == \A r \in RunIds : at[r] = "ended" => stages[r][cur[r]] \in Terminal

\* Whatever is removed from the history is removed from runs.json too.
SavedIsLive == saved.live \subseteq live

\* The conjunction that every step of the engine preserves.
EngineInvariant ==
  /\ TypeOK
  /\ RunsNumbered
  /\ QueuePlaces
  /\ SlotsCounted
  /\ ExecutingIsRunning
  /\ EndedHasResult
  /\ SavedIsLive
  /\ HistoryOnDisk

-----------------------------------------------------------------------------
(* The engine implements RunLifecycle: a run exists for its client once it *)
(* has been offered to the queue.                                          *)

lifecycle == [r \in RunIds |->
                IF Offered(r) /\ status[r] # "none" THEN status[r] ELSE "absent"]

Lifecycle == INSTANCE RunLifecycle WITH Runs <- RunIds, state <- lifecycle

\* Trigger, the worker, execute, Cancel, finalize and the recovery of a
\* restart together move each run only along the life cycle of RunLifecycle.
ImplementsLifecycle == Lifecycle!Spec

=============================================================================
