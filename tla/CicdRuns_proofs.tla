--------------------------- MODULE CicdRuns_proofs --------------------------
(***************************************************************************)
(* More about CicdEngine for every value of its constants: the life of a   *)
(* run, its gates and its stages.  On top of EngineInvariant come          *)
(* invariants on where a run of each status stands, what its stages and    *)
(* answers are on the way, and how far runs.json is behind.                *)
(***************************************************************************)
EXTENDS CicdEngine_proofs

(* Where a queued and a running run stand; a run that is being submitted is
   queued, or cancelled meanwhile. *)
Entering == {"offer", "refused"}
StatusPlaces ==
  \A r \in RunIds :
    /\ status[r] = "running" => at[r] \in Executing
    /\ status[r] = "queued" => at[r] \in Entering \cup {"queued", "slot", "begin"}
    /\ at[r] \in Entering => status[r] \in {"queued", "canceled"}

(* Only the append of a run and its start are not written to runs.json at once;
   past its Trigger's persist a run is active on disk while it is in memory. *)
SavedStatus ==
  \A r \in RunIds :
    /\ saved.status[r] # status[r]
         => status[r] \in Active /\ saved.status[r] \in {"none", "queued"}
    /\ status[r] \in Active /\ at[r] # "offer" => saved.status[r] \in Active

(* A number that was not used yet has an untouched run. *)
UnusedIsFresh ==
  \A r \in RunIds : at[r] = "none" =>
    \A i \in StageIds : stages[r][i] = "pending" /\ saved.stages[r][i] = "pending"

(* Before its stage loop a run is at its first stage. *)
BeforeLoop == Entering \cup {"none", "queued", "slot", "begin", "log"}
FirstStage == \A r \in RunIds : at[r] \in BeforeLoop => cur[r] = 1

-----------------------------------------------------------------------------
(* Gates. *)

Gated(r, i) == owner[r] # "none" /\ i <= StageCount(r) /\ Gates[owner[r]][i]
Signed(r, i) == "yes" \in answers[r][i]
Executed == {"running", "success", "failed"}

(* A yes in a channel or in verdict was accepted by Approve for that stage, and a
   gated stage that is let through has one. *)
YesWasAccepted ==
  \A r \in RunIds :
    /\ \A i \in StageIds : chan[r][i] = "yes" => Signed(r, i)
    /\ at[r] \in {"unregister", "retake"} /\ verdict[r] => Signed(r, cur[r])
    /\ at[r] \in {"start", "started", "steps"} /\ Gated(r, cur[r]) => Signed(r, cur[r])

(* What executed was signed, in memory and on disk. *)
ExecutedWasSigned ==
  \A r \in RunIds : \A i \in StageIds : Gated(r, i) /\ ~Signed(r, i) =>
    stages[r][i] \notin Executed /\ saved.stages[r][i] \notin Executed

-----------------------------------------------------------------------------
(* Results. *)

InLoop == Executing \ {"log", "denied", "skip", "finish"}
AllSucceeded(s, r) == \A i \in StageIds : i <= StageCount(r) => s[r][i] = "success"

(* The stages behind the loop have succeeded; so have all at a successful end, and
   the rest is skipped only after another one. *)
LoopAt(r) ==
  /\ at[r] \in InLoop => \A i \in StageIds : i < cur[r] => stages[r][i] = "success"
  /\ at[r] = "skip" => outcome[r] # "success"
  /\ at[r] = "finish" /\ outcome[r] = "success" => AllSucceeded(stages, r)
  /\ status[r] = "success" => AllSucceeded(stages, r) /\ AllSucceeded(saved.stages, r)
LoopSucceeds == \A r \in RunIds : LoopAt(r)

-----------------------------------------------------------------------------
(* Several callers of Trigger. *)

(* The runs of the same pipeline that are newer in the history. *)
Newer(r) == {q \in live : owner[q] = owner[r] /\ q > r}

(* Every newer run was appended by another caller that had passed the check when
   this one was not there yet: the callers past the check counted as well, fewer
   runs follow an active run than there are callers. *)
NewerBounded ==
  \A r \in live : status[r] \in Active =>
    Cardinality(Newer(r)) + Cardinality(Past(owner[r])) < Cardinality(Callers)

(* The history that pruning keeps is no shorter than the number of callers. *)
EnoughHistory == Cardinality(Callers) <= MaxRuns /\ Cardinality(Callers) <= DefaultMaxRuns

(* Then no active run leaves the history. *)
ActivesLive == \A r \in RunIds : status[r] \in Active => r \in live

(* What every step but the two of Trigger and a restart is for them. *)
Calm ==
  /\ UNCHANGED <<owner, checked>>
  /\ live' \subseteq live
  /\ \/ live' = live
     \/ \E q \in RunIds : PruneRuns(q)
     \/ \E p \in Pipelines : DeletePipeline(p)
  /\ \A r \in RunIds : status'[r] \in Active => status[r] \in Active
ByTrigger(c) ==
  \/ \E p \in Pipelines : TriggerCheck(c, p)
  \/ TriggerUnresolved(c)
  \/ TriggerAppend(c)


-----------------------------------------------------------------------------
(* Each is kept by every step. *)


\* Where a run goes on from the opening of its log, and what that leaves alone.
LEMMA OpenLogEffect ==
  ASSUME NEW q \in RunIds, OpenLog(q)
  PROVE  /\ at[q] = "log"
         /\ \E place \in {"finish", "gate", "start"} : at' = [at EXCEPT ![q] = place]
         /\ UNCHANGED <<memory, ctx, cur, verdict, channels, callers, saved, crashes>>
BY ArrivePlace DEF OpenLog, Goto

\* The same after a stage that succeeds.
LEMMA StageSucceedsEffect ==
  ASSUME NEW q \in RunIds, StageSucceeds(q)
  PROVE  /\ at[q] = "ended" /\ stages[q][cur[q]] = "success"
         /\ \E place \in {"finish", "gate", "start"} : at' = [at EXCEPT ![q] = place]
         /\ cur' = [cur EXCEPT ![q] = IF @ < StageCount(q) THEN @ + 1 ELSE @]
         /\ saved' = [live |-> live, status |-> status, canceling |-> canceling,
                      stages |-> stages]
         /\ UNCHANGED <<memory, ctx, verdict, outcome, channels, callers, crashes>>
BY ArrivePlace DEF StageSucceeds, Goto, memory, Persist

\* The append of a run: the new one is queued, every other is as it was.
LEMMA AppendEffect ==
  ASSUME TypeOK, RunsNumbered, NEW c \in Callers, TriggerAppend(c)
  PROVE  \E n \in RunIds :
           /\ at[n] = "none" /\ at'[n] = "offer" /\ status[n] = "none" /\ status'[n] = "queued"
           /\ \A r \in RunIds : r # n =>
                at'[r] = at[r] /\ status'[r] = status[r] /\ owner'[r] = owner[r]
           /\ UNCHANGED <<stages, cur, verdict, chan, answers, saved>>
<1>1. nextRun' \in RunIds /\ at[nextRun'] = "none" /\ status[nextRun'] = "none"
  BY AppendedRunIsNew
<1>2. /\ at'[nextRun'] = "offer" /\ status'[nextRun'] = "queued"
      /\ \A r \in RunIds : r # nextRun' => at'[r] = at[r]
      /\ \A r \in RunIds : r # nextRun' => status'[r] = status[r] /\ owner'[r] = owner[r]
  BY <1>1 DEF TriggerAppend, Goto, TypeOK
<1>3. UNCHANGED <<stages, cur, verdict, chan, answers, saved>>
  BY DEF TriggerAppend, channels
<1> QED
  BY <1>1, <1>2, <1>3

\* Where the runs of each status stand.
LEMMA PlacesStep ==
  ASSUME TypeOK, RunsNumbered, QueuePlaces, ExecutingIsRunning, StatusPlaces,
         [Next]_vars
  PROVE  StatusPlaces'
<1> USE DEF vars, memory, goroutines, channels, callers, Goto, Persist, StagesOnly,
            SaveStages, TypeOK, StatusPlaces, Active, Terminal, Entering, Executing,
            Waiting, Unsaved
<1>1. ASSUME NEW c \in Callers, NEW p \in Pipelines, TriggerCheck(c, p)
      PROVE  StatusPlaces'
  BY <1>1 DEF TriggerCheck
<1>2. ASSUME NEW c \in Callers, TriggerUnresolved(c) PROVE StatusPlaces'
  BY <1>2 DEF TriggerUnresolved
<1>3. ASSUME NEW c \in Callers, TriggerAppend(c) PROVE StatusPlaces'
  BY <1>3, AppendedRunIsNew DEF TriggerAppend
<1>4. ASSUME NEW q \in RunIds, TriggerOffer(q) PROVE StatusPlaces'
  BY <1>4 DEF TriggerOffer
<1>5. ASSUME NEW q \in RunIds, FinalizeRefused(q) PROVE StatusPlaces'
  BY <1>5 DEF FinalizeRefused, Finalize
<1>6. ASSUME NEW q \in RunIds, FinalizeRun(q) PROVE StatusPlaces'
  <2>1. status'[q] \in Terminal /\ at'[q] = "prune"
    BY <1>6 DEF FinalizeRun, Finalize
  <2>2. \A r \in RunIds : r # q => status'[r] = status[r] /\ at'[r] = at[r]
    BY <1>6 DEF FinalizeRun, Finalize
  <2> QED
    BY <2>1, <2>2
<1>7. ASSUME NEW q \in RunIds, PruneRuns(q) PROVE StatusPlaces'
  BY <1>7 DEF PruneRuns
<1>8. ASSUME NEW q \in RunIds, TakeSlot(q) PROVE StatusPlaces'
  BY <1>8 DEF TakeSlot
<1>9. ASSUME NEW q \in RunIds, LeaveSlot(q) PROVE StatusPlaces'
  BY <1>9 DEF LeaveSlot
<1>10. ASSUME NEW q \in RunIds, Begin(q) PROVE StatusPlaces'
  BY <1>10 DEF Begin, StillQueued
<1>11. ASSUME NEW q \in RunIds, BeginCanceled(q) PROVE StatusPlaces'
  BY <1>11 DEF BeginCanceled, StillQueued
<1>12. ASSUME NEW q \in RunIds, OpenLog(q) PROVE StatusPlaces'
  <2>1. PICK place \in {"finish", "gate", "start"} : at' = [at EXCEPT ![q] = place]
    BY <1>12, OpenLogEffect
  <2>2. at[q] = "log" /\ UNCHANGED <<memory, ctx, cur, verdict, channels, callers, saved, crashes>>
    BY <1>12 DEF OpenLog
  <2> QED
    BY <2>1, <2>2
<1>13. ASSUME NEW q \in RunIds, GateStage(q) PROVE StatusPlaces'
  BY <1>13 DEF GateStage, SetStage
<1>14. ASSUME NEW q \in RunIds, YieldSlot(q) PROVE StatusPlaces'
  BY <1>14 DEF YieldSlot
<1>15. ASSUME NEW q \in RunIds, RegisterApproval(q) PROVE StatusPlaces'
  BY <1>15 DEF RegisterApproval
<1>16. ASSUME NEW q \in RunIds, ReceiveAnswer(q) PROVE StatusPlaces'
  BY <1>16 DEF ReceiveAnswer
<1>17. ASSUME NEW q \in RunIds, StopWaiting(q) PROVE StatusPlaces'
  BY <1>17 DEF StopWaiting
<1>18. ASSUME NEW q \in RunIds, Unregister(q) PROVE StatusPlaces'
  BY <1>18 DEF Unregister
<1>19. ASSUME NEW q \in RunIds, RetakeSlot(q) PROVE StatusPlaces'
  BY <1>19 DEF RetakeSlot
<1>20. ASSUME NEW q \in RunIds, DenyStage(q) PROVE StatusPlaces'
  BY <1>20 DEF DenyStage, SetStageSkipRest
<1>21. ASSUME NEW q \in RunIds, StartStage(q) PROVE StatusPlaces'
  BY <1>21 DEF StartStage, SetStage
<1>22. ASSUME NEW q \in RunIds, StageEnds(q) PROVE StatusPlaces'
  BY <1>22 DEF StageEnds, SetStage, StageResults
<1>23. ASSUME NEW q \in RunIds, StageSucceeds(q) PROVE StatusPlaces'
  <2>1. PICK place \in {"finish", "gate", "start"} : at' = [at EXCEPT ![q] = place]
    BY <1>23, StageSucceedsEffect
  <2>2. /\ at[q] = "ended" /\ UNCHANGED <<live, owner, status, stages, verdict, outcome>>
         /\ UNCHANGED <<queue, chan, callers>>
         /\ \A r \in RunIds : r # q => cur'[r] = cur[r]
         /\ saved'.live = live /\ saved'.status = status /\ saved'.stages = stages
    BY <1>23 DEF StageSucceeds
  <2> QED
    BY <2>1, <2>2
<1>24. ASSUME NEW q \in RunIds, StageEndsRun(q) PROVE StatusPlaces'
  BY <1>24 DEF StageEndsRun
<1>25. ASSUME NEW q \in RunIds, SaveWaiting(q) PROVE StatusPlaces'
  BY <1>25 DEF SaveWaiting
<1>26. ASSUME NEW q \in RunIds, SaveDenied(q) PROVE StatusPlaces'
  BY <1>26 DEF SaveDenied
<1>27. ASSUME NEW q \in RunIds, SaveStarted(q) PROVE StatusPlaces'
  BY <1>27 DEF SaveStarted
<1>28. ASSUME NEW q \in RunIds, SkipStage(q) PROVE StatusPlaces'
  BY <1>28 DEF SkipStage, ToSkip
<1>29. ASSUME NEW q \in RunIds, SkippedAll(q) PROVE StatusPlaces'
  BY <1>29 DEF SkippedAll
<1>30. ASSUME NEW q \in RunIds, CancelQueued(q) PROVE StatusPlaces'
  BY <1>30 DEF CancelQueued
<1>31. ASSUME NEW q \in RunIds, CancelRunning(q) PROVE StatusPlaces'
  BY <1>31 DEF CancelRunning
<1>32. ASSUME NEW q \in RunIds, Timeout(q) PROVE StatusPlaces'
  BY <1>32 DEF Timeout
<1>33. ASSUME NEW a \in Approvers, NEW q \in RunIds, NEW answer \in Answer, ApproveLookup(a, q, answer)
      PROVE  StatusPlaces'
  BY <1>33 DEF ApproveLookup
<1>34. ASSUME NEW a \in Approvers, ApproveSend(a) PROVE StatusPlaces'
  BY <1>34 DEF ApproveSend
<1>35. ASSUME NEW p \in Pipelines, DeletePipeline(p) PROVE StatusPlaces'
  BY <1>35 DEF DeletePipeline
<1>36. ASSUME Dequeue PROVE StatusPlaces'
  BY <1>36, DequeuedRunWaits DEF Dequeue
<1>37. ASSUME StopWorker PROVE StatusPlaces'
  BY <1>37 DEF StopWorker
<1>38. ASSUME Restart PROVE StatusPlaces'
  BY <1>38 DEF Restart, Recovered
<1>39. ASSUME UNCHANGED vars PROVE StatusPlaces'
  BY <1>39
<1> QED
  BY <1>1, <1>2, <1>3, <1>4, <1>5, <1>6, <1>7, <1>8, <1>9, <1>10, <1>11, <1>12,
     <1>13, <1>14, <1>15, <1>16, <1>17, <1>18, <1>19, <1>20, <1>21, <1>22, <1>23,
     <1>24, <1>25, <1>26, <1>27, <1>28, <1>29, <1>30, <1>31, <1>32, <1>33, <1>34,
     <1>35, <1>36, <1>37, <1>38, <1>39 DEF Next, RunStep

\* How far the status on disk is behind.
LEMMA SavedStatusStep ==
  ASSUME TypeOK, RunsNumbered, QueuePlaces, ExecutingIsRunning, StatusPlaces,
         SavedStatus, [Next]_vars
  PROVE  SavedStatus'
<1> USE DEF vars, memory, goroutines, channels, callers, Goto, Persist, StagesOnly,
            SaveStages, TypeOK, SavedStatus, Active, Terminal, Entering, Executing,
            Waiting, Unsaved
<1>1. ASSUME NEW c \in Callers, NEW p \in Pipelines, TriggerCheck(c, p)
      PROVE  SavedStatus'
  BY <1>1 DEF TriggerCheck
<1>2. ASSUME NEW c \in Callers, TriggerUnresolved(c) PROVE SavedStatus'
  BY <1>2 DEF TriggerUnresolved
<1>3. ASSUME NEW c \in Callers, TriggerAppend(c) PROVE SavedStatus'
  <2>1. PICK n \in RunIds :
           /\ at[n] = "none" /\ at'[n] = "offer" /\ status[n] = "none" /\ status'[n] = "queued"
           /\ \A r \in RunIds : r # n =>
                at'[r] = at[r] /\ status'[r] = status[r] /\ owner'[r] = owner[r]
           /\ UNCHANGED <<stages, cur, verdict, chan, answers, saved>>
    BY <1>3, AppendEffect
  <2>2. saved.status[n] = "none" /\ saved'.status = saved.status
    BY <2>1
  <2>3. \A r \in RunIds : r # n =>
          /\ saved'.status[r] # status'[r]
               => status'[r] \in Active /\ saved'.status[r] \in {"none", "queued"}
          /\ status'[r] \in Active /\ at'[r] # "offer" => saved'.status[r] \in Active
    BY <2>1, <2>2
  <2> QED
    BY <2>1, <2>2, <2>3
<1>4. ASSUME NEW q \in RunIds, TriggerOffer(q) PROVE SavedStatus'
  BY <1>4 DEF TriggerOffer
<1>5. ASSUME NEW q \in RunIds, FinalizeRefused(q) PROVE SavedStatus'
  BY <1>5 DEF FinalizeRefused, Finalize
<1>6. ASSUME NEW q \in RunIds, FinalizeRun(q) PROVE SavedStatus'
  BY <1>6 DEF FinalizeRun, Finalize, ExecutingIsRunning
<1>7. ASSUME NEW q \in RunIds, PruneRuns(q) PROVE SavedStatus'
  BY <1>7 DEF PruneRuns
<1>8. ASSUME NEW q \in RunIds, TakeSlot(q) PROVE SavedStatus'
  BY <1>8 DEF TakeSlot
<1>9. ASSUME NEW q \in RunIds, LeaveSlot(q) PROVE SavedStatus'
  BY <1>9 DEF LeaveSlot, StatusPlaces
<1>10. ASSUME NEW q \in RunIds, Begin(q) PROVE SavedStatus'
  BY <1>10 DEF Begin, StillQueued, StatusPlaces
<1>11. ASSUME NEW q \in RunIds, BeginCanceled(q) PROVE SavedStatus'
  BY <1>11 DEF BeginCanceled, StillQueued
<1>12. ASSUME NEW q \in RunIds, OpenLog(q) PROVE SavedStatus'
  <2>1. PICK place \in {"finish", "gate", "start"} : at' = [at EXCEPT ![q] = place]
    BY <1>12, OpenLogEffect
  <2>2. at[q] = "log" /\ UNCHANGED <<memory, ctx, cur, verdict, channels, callers, saved, crashes>>
    BY <1>12 DEF OpenLog
  <2> QED
    BY <2>1, <2>2
<1>13. ASSUME NEW q \in RunIds, GateStage(q) PROVE SavedStatus'
  BY <1>13 DEF GateStage, SetStage
<1>14. ASSUME NEW q \in RunIds, YieldSlot(q) PROVE SavedStatus'
  BY <1>14 DEF YieldSlot
<1>15. ASSUME NEW q \in RunIds, RegisterApproval(q) PROVE SavedStatus'
  BY <1>15 DEF RegisterApproval
<1>16. ASSUME NEW q \in RunIds, ReceiveAnswer(q) PROVE SavedStatus'
  BY <1>16 DEF ReceiveAnswer
<1>17. ASSUME NEW q \in RunIds, StopWaiting(q) PROVE SavedStatus'
  BY <1>17 DEF StopWaiting
<1>18. ASSUME NEW q \in RunIds, Unregister(q) PROVE SavedStatus'
  BY <1>18 DEF Unregister
<1>19. ASSUME NEW q \in RunIds, RetakeSlot(q) PROVE SavedStatus'
  BY <1>19 DEF RetakeSlot
<1>20. ASSUME NEW q \in RunIds, DenyStage(q) PROVE SavedStatus'
  BY <1>20 DEF DenyStage, SetStageSkipRest
<1>21. ASSUME NEW q \in RunIds, StartStage(q) PROVE SavedStatus'
  BY <1>21 DEF StartStage, SetStage
<1>22. ASSUME NEW q \in RunIds, StageEnds(q) PROVE SavedStatus'
  BY <1>22 DEF StageEnds, SetStage, StageResults
<1>23. ASSUME NEW q \in RunIds, StageSucceeds(q) PROVE SavedStatus'
  <2>1. saved'.status = status /\ UNCHANGED status
    BY <1>23 DEF StageSucceeds
  <2> QED
    BY <2>1
<1>24. ASSUME NEW q \in RunIds, StageEndsRun(q) PROVE SavedStatus'
  BY <1>24 DEF StageEndsRun
<1>25. ASSUME NEW q \in RunIds, SaveWaiting(q) PROVE SavedStatus'
  BY <1>25 DEF SaveWaiting
<1>26. ASSUME NEW q \in RunIds, SaveDenied(q) PROVE SavedStatus'
  BY <1>26 DEF SaveDenied
<1>27. ASSUME NEW q \in RunIds, SaveStarted(q) PROVE SavedStatus'
  BY <1>27 DEF SaveStarted
<1>28. ASSUME NEW q \in RunIds, SkipStage(q) PROVE SavedStatus'
  BY <1>28 DEF SkipStage, ToSkip
<1>29. ASSUME NEW q \in RunIds, SkippedAll(q) PROVE SavedStatus'
  BY <1>29 DEF SkippedAll
<1>30. ASSUME NEW q \in RunIds, CancelQueued(q) PROVE SavedStatus'
  BY <1>30 DEF CancelQueued
<1>31. ASSUME NEW q \in RunIds, CancelRunning(q) PROVE SavedStatus'
  BY <1>31 DEF CancelRunning
<1>32. ASSUME NEW q \in RunIds, Timeout(q) PROVE SavedStatus'
  BY <1>32 DEF Timeout
<1>33. ASSUME NEW a \in Approvers, NEW q \in RunIds, NEW answer \in Answer, ApproveLookup(a, q, answer)
      PROVE  SavedStatus'
  BY <1>33 DEF ApproveLookup
<1>34. ASSUME NEW a \in Approvers, ApproveSend(a) PROVE SavedStatus'
  BY <1>34 DEF ApproveSend
<1>35. ASSUME NEW p \in Pipelines, DeletePipeline(p) PROVE SavedStatus'
  BY <1>35 DEF DeletePipeline
<1>36. ASSUME Dequeue PROVE SavedStatus'
  BY <1>36, DequeuedRunWaits DEF Dequeue
<1>37. ASSUME StopWorker PROVE SavedStatus'
  BY <1>37 DEF StopWorker
<1>38. ASSUME Restart PROVE SavedStatus'
  BY <1>38 DEF Restart, Recovered
<1>39. ASSUME UNCHANGED vars PROVE SavedStatus'
  BY <1>39
<1> QED
  BY <1>1, <1>2, <1>3, <1>4, <1>5, <1>6, <1>7, <1>8, <1>9, <1>10, <1>11, <1>12,
     <1>13, <1>14, <1>15, <1>16, <1>17, <1>18, <1>19, <1>20, <1>21, <1>22, <1>23,
     <1>24, <1>25, <1>26, <1>27, <1>28, <1>29, <1>30, <1>31, <1>32, <1>33, <1>34,
     <1>35, <1>36, <1>37, <1>38, <1>39 DEF Next, RunStep

\* Nobody touches a run before it is appended.
LEMMA FreshStep ==
  ASSUME TypeOK, RunsNumbered, QueuePlaces, UnusedIsFresh, [Next]_vars
  PROVE  UnusedIsFresh'
<1> USE DEF vars, memory, goroutines, channels, callers, Goto, Persist, StagesOnly,
            SaveStages, TypeOK, UnusedIsFresh
<1>1. ASSUME NEW c \in Callers, NEW p \in Pipelines, TriggerCheck(c, p)
      PROVE  UnusedIsFresh'
  BY <1>1 DEF TriggerCheck
<1>2. ASSUME NEW c \in Callers, TriggerUnresolved(c) PROVE UnusedIsFresh'
  BY <1>2 DEF TriggerUnresolved
<1>3. ASSUME NEW c \in Callers, TriggerAppend(c) PROVE UnusedIsFresh'
  BY <1>3, AppendedRunIsNew DEF TriggerAppend
<1>4. ASSUME NEW q \in RunIds, TriggerOffer(q) PROVE UnusedIsFresh'
  <2>1. \A r \in RunIds : at'[r] = "none" => at[r] = "none"
    BY <1>4 DEF TriggerOffer
  <2>2. stages' = stages /\ saved'.stages = stages
    BY <1>4 DEF TriggerOffer
  <2> QED
    BY <2>1, <2>2
<1>5. ASSUME NEW q \in RunIds, FinalizeRefused(q) PROVE UnusedIsFresh'
  BY <1>5 DEF FinalizeRefused, Finalize
<1>6. ASSUME NEW q \in RunIds, FinalizeRun(q) PROVE UnusedIsFresh'
  BY <1>6 DEF FinalizeRun, Finalize
<1>7. ASSUME NEW q \in RunIds, PruneRuns(q) PROVE UnusedIsFresh'
  BY <1>7 DEF PruneRuns
<1>8. ASSUME NEW q \in RunIds, TakeSlot(q) PROVE UnusedIsFresh'
  BY <1>8 DEF TakeSlot
<1>9. ASSUME NEW q \in RunIds, LeaveSlot(q) PROVE UnusedIsFresh'
  BY <1>9 DEF LeaveSlot
<1>10. ASSUME NEW q \in RunIds, Begin(q) PROVE UnusedIsFresh'
  BY <1>10 DEF Begin, StillQueued
<1>11. ASSUME NEW q \in RunIds, BeginCanceled(q) PROVE UnusedIsFresh'
  BY <1>11 DEF BeginCanceled, StillQueued
<1>12. ASSUME NEW q \in RunIds, OpenLog(q) PROVE UnusedIsFresh'
  <2>1. PICK place \in {"finish", "gate", "start"} : at' = [at EXCEPT ![q] = place]
    BY <1>12, OpenLogEffect
  <2>2. at[q] = "log" /\ UNCHANGED <<memory, ctx, cur, verdict, channels, callers, saved, crashes>>
    BY <1>12 DEF OpenLog
  <2> QED
    BY <2>1, <2>2
<1>13. ASSUME NEW q \in RunIds, GateStage(q) PROVE UnusedIsFresh'
  BY <1>13 DEF GateStage, SetStage
<1>14. ASSUME NEW q \in RunIds, YieldSlot(q) PROVE UnusedIsFresh'
  BY <1>14 DEF YieldSlot
<1>15. ASSUME NEW q \in RunIds, RegisterApproval(q) PROVE UnusedIsFresh'
  BY <1>15 DEF RegisterApproval
<1>16. ASSUME NEW q \in RunIds, ReceiveAnswer(q) PROVE UnusedIsFresh'
  BY <1>16 DEF ReceiveAnswer
<1>17. ASSUME NEW q \in RunIds, StopWaiting(q) PROVE UnusedIsFresh'
  BY <1>17 DEF StopWaiting
<1>18. ASSUME NEW q \in RunIds, Unregister(q) PROVE UnusedIsFresh'
  BY <1>18 DEF Unregister
<1>19. ASSUME NEW q \in RunIds, RetakeSlot(q) PROVE UnusedIsFresh'
  BY <1>19 DEF RetakeSlot
<1>20. ASSUME NEW q \in RunIds, DenyStage(q) PROVE UnusedIsFresh'
  BY <1>20 DEF DenyStage, SetStageSkipRest
<1>21. ASSUME NEW q \in RunIds, StartStage(q) PROVE UnusedIsFresh'
  BY <1>21 DEF StartStage, SetStage
<1>22. ASSUME NEW q \in RunIds, StageEnds(q) PROVE UnusedIsFresh'
  BY <1>22 DEF StageEnds, SetStage, StageResults
<1>23. ASSUME NEW q \in RunIds, StageSucceeds(q) PROVE UnusedIsFresh'
  <2>1. PICK place \in {"finish", "gate", "start"} : at' = [at EXCEPT ![q] = place]
    BY <1>23, StageSucceedsEffect
  <2>2. /\ at[q] = "ended" /\ UNCHANGED <<live, owner, status, stages, verdict, outcome>>
         /\ UNCHANGED <<queue, chan, callers>>
         /\ \A r \in RunIds : r # q => cur'[r] = cur[r]
         /\ saved'.live = live /\ saved'.status = status /\ saved'.stages = stages
    BY <1>23 DEF StageSucceeds
  <2> QED
    BY <2>1, <2>2
<1>24. ASSUME NEW q \in RunIds, StageEndsRun(q) PROVE UnusedIsFresh'
  BY <1>24 DEF StageEndsRun
<1>25. ASSUME NEW q \in RunIds, SaveWaiting(q) PROVE UnusedIsFresh'
  BY <1>25 DEF SaveWaiting
<1>26. ASSUME NEW q \in RunIds, SaveDenied(q) PROVE UnusedIsFresh'
  BY <1>26 DEF SaveDenied
<1>27. ASSUME NEW q \in RunIds, SaveStarted(q) PROVE UnusedIsFresh'
  BY <1>27 DEF SaveStarted
<1>28. ASSUME NEW q \in RunIds, SkipStage(q) PROVE UnusedIsFresh'
  BY <1>28 DEF SkipStage, ToSkip
<1>29. ASSUME NEW q \in RunIds, SkippedAll(q) PROVE UnusedIsFresh'
  BY <1>29 DEF SkippedAll
<1>30. ASSUME NEW q \in RunIds, CancelQueued(q) PROVE UnusedIsFresh'
  BY <1>30 DEF CancelQueued
<1>31. ASSUME NEW q \in RunIds, CancelRunning(q) PROVE UnusedIsFresh'
  BY <1>31 DEF CancelRunning
<1>32. ASSUME NEW q \in RunIds, Timeout(q) PROVE UnusedIsFresh'
  BY <1>32 DEF Timeout
<1>33. ASSUME NEW a \in Approvers, NEW q \in RunIds, NEW answer \in Answer, ApproveLookup(a, q, answer)
      PROVE  UnusedIsFresh'
  BY <1>33 DEF ApproveLookup
<1>34. ASSUME NEW a \in Approvers, ApproveSend(a) PROVE UnusedIsFresh'
  BY <1>34 DEF ApproveSend
<1>35. ASSUME NEW p \in Pipelines, DeletePipeline(p) PROVE UnusedIsFresh'
  BY <1>35 DEF DeletePipeline
<1>36. ASSUME Dequeue PROVE UnusedIsFresh'
  BY <1>36, DequeuedRunWaits DEF Dequeue
<1>37. ASSUME StopWorker PROVE UnusedIsFresh'
  BY <1>37 DEF StopWorker
<1>38. ASSUME Restart PROVE UnusedIsFresh'
  BY <1>38 DEF Restart, Recovered
<1>39. ASSUME UNCHANGED vars PROVE UnusedIsFresh'
  BY <1>39
<1> QED
  BY <1>1, <1>2, <1>3, <1>4, <1>5, <1>6, <1>7, <1>8, <1>9, <1>10, <1>11, <1>12,
     <1>13, <1>14, <1>15, <1>16, <1>17, <1>18, <1>19, <1>20, <1>21, <1>22, <1>23,
     <1>24, <1>25, <1>26, <1>27, <1>28, <1>29, <1>30, <1>31, <1>32, <1>33, <1>34,
     <1>35, <1>36, <1>37, <1>38, <1>39 DEF Next, RunStep

\* The stage loop starts at the first stage.
LEMMA FirstStageStep ==
  ASSUME TypeOK, RunsNumbered, QueuePlaces, FirstStage, [Next]_vars
  PROVE  FirstStage'
<1> USE DEF vars, memory, goroutines, channels, callers, Goto, Persist, StagesOnly,
            SaveStages, TypeOK, FirstStage, BeforeLoop, Entering
<1>1. ASSUME NEW c \in Callers, NEW p \in Pipelines, TriggerCheck(c, p)
      PROVE  FirstStage'
  BY <1>1 DEF TriggerCheck
<1>2. ASSUME NEW c \in Callers, TriggerUnresolved(c) PROVE FirstStage'
  BY <1>2 DEF TriggerUnresolved
<1>3. ASSUME NEW c \in Callers, TriggerAppend(c) PROVE FirstStage'
  BY <1>3, AppendedRunIsNew DEF TriggerAppend
<1>4. ASSUME NEW q \in RunIds, TriggerOffer(q) PROVE FirstStage'
  BY <1>4 DEF TriggerOffer
<1>5. ASSUME NEW q \in RunIds, FinalizeRefused(q) PROVE FirstStage'
  BY <1>5 DEF FinalizeRefused, Finalize
<1>6. ASSUME NEW q \in RunIds, FinalizeRun(q) PROVE FirstStage'
  BY <1>6 DEF FinalizeRun, Finalize
<1>7. ASSUME NEW q \in RunIds, PruneRuns(q) PROVE FirstStage'
  BY <1>7 DEF PruneRuns
<1>8. ASSUME NEW q \in RunIds, TakeSlot(q) PROVE FirstStage'
  BY <1>8 DEF TakeSlot
<1>9. ASSUME NEW q \in RunIds, LeaveSlot(q) PROVE FirstStage'
  BY <1>9 DEF LeaveSlot
<1>10. ASSUME NEW q \in RunIds, Begin(q) PROVE FirstStage'
  BY <1>10 DEF Begin, StillQueued
<1>11. ASSUME NEW q \in RunIds, BeginCanceled(q) PROVE FirstStage'
  BY <1>11 DEF BeginCanceled, StillQueued
<1>12. ASSUME NEW q \in RunIds, OpenLog(q) PROVE FirstStage'
  <2>1. PICK place \in {"finish", "gate", "start"} : at' = [at EXCEPT ![q] = place]
    BY <1>12, OpenLogEffect
  <2>2. at[q] = "log" /\ UNCHANGED <<memory, ctx, cur, verdict, channels, callers, saved, crashes>>
    BY <1>12 DEF OpenLog
  <2> QED
    BY <2>1, <2>2
<1>13. ASSUME NEW q \in RunIds, GateStage(q) PROVE FirstStage'
  BY <1>13 DEF GateStage, SetStage
<1>14. ASSUME NEW q \in RunIds, YieldSlot(q) PROVE FirstStage'
  BY <1>14 DEF YieldSlot
<1>15. ASSUME NEW q \in RunIds, RegisterApproval(q) PROVE FirstStage'
  BY <1>15 DEF RegisterApproval
<1>16. ASSUME NEW q \in RunIds, ReceiveAnswer(q) PROVE FirstStage'
  BY <1>16 DEF ReceiveAnswer
<1>17. ASSUME NEW q \in RunIds, StopWaiting(q) PROVE FirstStage'
  BY <1>17 DEF StopWaiting
<1>18. ASSUME NEW q \in RunIds, Unregister(q) PROVE FirstStage'
  BY <1>18 DEF Unregister
<1>19. ASSUME NEW q \in RunIds, RetakeSlot(q) PROVE FirstStage'
  BY <1>19 DEF RetakeSlot
<1>20. ASSUME NEW q \in RunIds, DenyStage(q) PROVE FirstStage'
  BY <1>20 DEF DenyStage, SetStageSkipRest
<1>21. ASSUME NEW q \in RunIds, StartStage(q) PROVE FirstStage'
  BY <1>21 DEF StartStage, SetStage
<1>22. ASSUME NEW q \in RunIds, StageEnds(q) PROVE FirstStage'
  BY <1>22 DEF StageEnds, SetStage, StageResults
<1>23. ASSUME NEW q \in RunIds, StageSucceeds(q) PROVE FirstStage'
  <2>1. PICK place \in {"finish", "gate", "start"} : at' = [at EXCEPT ![q] = place]
    BY <1>23, StageSucceedsEffect
  <2>2. /\ at[q] = "ended" /\ UNCHANGED <<live, owner, status, stages, verdict, outcome>>
         /\ UNCHANGED <<queue, chan, callers>>
         /\ \A r \in RunIds : r # q => cur'[r] = cur[r]
         /\ saved'.live = live /\ saved'.status = status /\ saved'.stages = stages
    BY <1>23 DEF StageSucceeds
  <2> QED
    BY <2>1, <2>2
<1>24. ASSUME NEW q \in RunIds, StageEndsRun(q) PROVE FirstStage'
  BY <1>24 DEF StageEndsRun
<1>25. ASSUME NEW q \in RunIds, SaveWaiting(q) PROVE FirstStage'
  BY <1>25 DEF SaveWaiting
<1>26. ASSUME NEW q \in RunIds, SaveDenied(q) PROVE FirstStage'
  BY <1>26 DEF SaveDenied
<1>27. ASSUME NEW q \in RunIds, SaveStarted(q) PROVE FirstStage'
  BY <1>27 DEF SaveStarted
<1>28. ASSUME NEW q \in RunIds, SkipStage(q) PROVE FirstStage'
  BY <1>28 DEF SkipStage, ToSkip
<1>29. ASSUME NEW q \in RunIds, SkippedAll(q) PROVE FirstStage'
  BY <1>29 DEF SkippedAll
<1>30. ASSUME NEW q \in RunIds, CancelQueued(q) PROVE FirstStage'
  BY <1>30 DEF CancelQueued
<1>31. ASSUME NEW q \in RunIds, CancelRunning(q) PROVE FirstStage'
  BY <1>31 DEF CancelRunning
<1>32. ASSUME NEW q \in RunIds, Timeout(q) PROVE FirstStage'
  BY <1>32 DEF Timeout
<1>33. ASSUME NEW a \in Approvers, NEW q \in RunIds, NEW answer \in Answer, ApproveLookup(a, q, answer)
      PROVE  FirstStage'
  BY <1>33 DEF ApproveLookup
<1>34. ASSUME NEW a \in Approvers, ApproveSend(a) PROVE FirstStage'
  BY <1>34 DEF ApproveSend
<1>35. ASSUME NEW p \in Pipelines, DeletePipeline(p) PROVE FirstStage'
  BY <1>35 DEF DeletePipeline
<1>36. ASSUME Dequeue PROVE FirstStage'
  BY <1>36, DequeuedRunWaits DEF Dequeue
<1>37. ASSUME StopWorker PROVE FirstStage'
  BY <1>37 DEF StopWorker
<1>38. ASSUME Restart PROVE FirstStage'
  BY <1>38 DEF Restart, Recovered
<1>39. ASSUME UNCHANGED vars PROVE FirstStage'
  BY <1>39
<1> QED
  BY <1>1, <1>2, <1>3, <1>4, <1>5, <1>6, <1>7, <1>8, <1>9, <1>10, <1>11, <1>12,
     <1>13, <1>14, <1>15, <1>16, <1>17, <1>18, <1>19, <1>20, <1>21, <1>22, <1>23,
     <1>24, <1>25, <1>26, <1>27, <1>28, <1>29, <1>30, <1>31, <1>32, <1>33, <1>34,
     <1>35, <1>36, <1>37, <1>38, <1>39 DEF Next, RunStep

\* What is gated depends on the owner of the run.
LEMMA GatedKept ==
  ASSUME NEW r, owner'[r] = owner[r]
  PROVE  \A i : Gated(r, i)' <=> Gated(r, i)
BY Zenon DEF Gated, StageCount

\* A run that was appended has a number of stages.
LEMMA StageCountNat ==
  ASSUME TypeOK, RunsNumbered, NEW r \in RunIds, at[r] # "none"
  PROVE  StageCount(r) \in Nat /\ StageCount(r) \in 0..StageBound
BY GatesAssumption DEF RunsNumbered, StageCount

\* Where the stage loop starts a stage at once, the stage exists and has no gate;
\* where it ends, there is no further one.
LEMMA ArriveFacts ==
  ASSUME NEW r \in RunIds, NEW i \in Nat, StageCount(r) \in Nat
  PROVE  /\ Arrive(r, i) = "start" => i <= StageCount(r) /\ ~Gated(r, i)
         /\ Arrive(r, i) = "finish" => i > StageCount(r)
         /\ Arrive(r, i) = "gate" => i <= StageCount(r)
<1>1. i > StageCount(r) \/ i <= StageCount(r)
  OBVIOUS
<1>2. CASE i > StageCount(r)
  BY <1>2 DEF Arrive
<1>3. CASE i <= StageCount(r)
  <2>1. ~(i > StageCount(r))
    BY <1>3
  <2>2. Arrive(r, i) = "start" => ~Gates[owner[r]][i]
    BY <2>1 DEF Arrive
  <2>3. Arrive(r, i) # "finish"
    BY <2>1 DEF Arrive
  <2>4. Arrive(r, i) = "start" => ~Gated(r, i)
    BY <2>2, Zenon DEF Gated
  <2> QED
    BY <1>3, <2>3, <2>4
<1> QED
  BY <1>1, <1>2, <1>3

\* A yes comes from an accepted answer.
LEMMA YesStep ==
  ASSUME TypeOK, RunsNumbered, QueuePlaces, FirstStage, YesWasAccepted, [Next]_vars
  PROVE  YesWasAccepted'
<1> USE DEF vars, memory, goroutines, channels, callers, Goto, Persist, StagesOnly,
            SaveStages, TypeOK, YesWasAccepted, Signed
<1>1. ASSUME NEW c \in Callers, NEW p \in Pipelines, TriggerCheck(c, p)
      PROVE  YesWasAccepted'
  BY <1>1, GatedKept DEF TriggerCheck
<1>2. ASSUME NEW c \in Callers, TriggerUnresolved(c) PROVE YesWasAccepted'
  BY <1>2, GatedKept DEF TriggerUnresolved
<1>3. ASSUME NEW c \in Callers, TriggerAppend(c) PROVE YesWasAccepted'
  BY <1>3, AppendedRunIsNew, GatedKept DEF TriggerAppend
<1>4. ASSUME NEW q \in RunIds, TriggerOffer(q) PROVE YesWasAccepted'
  BY <1>4, GatedKept DEF TriggerOffer
<1>5. ASSUME NEW q \in RunIds, FinalizeRefused(q) PROVE YesWasAccepted'
  BY <1>5, GatedKept DEF FinalizeRefused, Finalize
<1>6. ASSUME NEW q \in RunIds, FinalizeRun(q) PROVE YesWasAccepted'
  BY <1>6, GatedKept DEF FinalizeRun, Finalize
<1>7. ASSUME NEW q \in RunIds, PruneRuns(q) PROVE YesWasAccepted'
  BY <1>7, GatedKept DEF PruneRuns
<1>8. ASSUME NEW q \in RunIds, TakeSlot(q) PROVE YesWasAccepted'
  BY <1>8, GatedKept DEF TakeSlot
<1>9. ASSUME NEW q \in RunIds, LeaveSlot(q) PROVE YesWasAccepted'
  BY <1>9, GatedKept DEF LeaveSlot
<1>10. ASSUME NEW q \in RunIds, Begin(q) PROVE YesWasAccepted'
  BY <1>10, GatedKept DEF Begin, StillQueued
<1>11. ASSUME NEW q \in RunIds, BeginCanceled(q) PROVE YesWasAccepted'
  BY <1>11, GatedKept DEF BeginCanceled, StillQueued
<1>12. ASSUME NEW q \in RunIds, OpenLog(q) PROVE YesWasAccepted'
  <2>1. at'[q] = "start" => ~Gated(q, cur[q])
    BY <1>12, StageCountNat, ArriveFacts DEF OpenLog, FirstStage, BeforeLoop
  <2>2. at'[q] \in {"start", "gate", "finish"} /\ \A r \in RunIds : r # q => at'[r] = at[r]
    BY <1>12, ArrivePlace DEF OpenLog
  <2>3. UNCHANGED <<owner, chan, verdict, answers, cur>>
    BY <1>12 DEF OpenLog
  <2> QED
    BY <2>1, <2>2, <2>3, GatedKept
<1>13. ASSUME NEW q \in RunIds, GateStage(q) PROVE YesWasAccepted'
  BY <1>13, GatedKept DEF GateStage, SetStage
<1>14. ASSUME NEW q \in RunIds, YieldSlot(q) PROVE YesWasAccepted'
  BY <1>14, GatedKept DEF YieldSlot
<1>15. ASSUME NEW q \in RunIds, RegisterApproval(q) PROVE YesWasAccepted'
  BY <1>15, GatedKept DEF RegisterApproval
<1>16. ASSUME NEW q \in RunIds, ReceiveAnswer(q) PROVE YesWasAccepted'
  BY <1>16, GatedKept DEF ReceiveAnswer, Approved
<1>17. ASSUME NEW q \in RunIds, StopWaiting(q) PROVE YesWasAccepted'
  BY <1>17, GatedKept DEF StopWaiting
<1>18. ASSUME NEW q \in RunIds, Unregister(q) PROVE YesWasAccepted'
  BY <1>18, GatedKept DEF Unregister
<1>19. ASSUME NEW q \in RunIds, RetakeSlot(q) PROVE YesWasAccepted'
  BY <1>19, GatedKept DEF RetakeSlot
<1>20. ASSUME NEW q \in RunIds, DenyStage(q) PROVE YesWasAccepted'
  BY <1>20, GatedKept DEF DenyStage, SetStageSkipRest
<1>21. ASSUME NEW q \in RunIds, StartStage(q) PROVE YesWasAccepted'
  BY <1>21, GatedKept DEF StartStage, SetStage
<1>22. ASSUME NEW q \in RunIds, StageEnds(q) PROVE YesWasAccepted'
  BY <1>22, GatedKept DEF StageEnds, SetStage, StageResults
<1>23. ASSUME NEW q \in RunIds, StageSucceeds(q) PROVE YesWasAccepted'
  <2>1. cur[q] \in Nat /\ StageCount(q) \in Nat
    BY <1>23, StageCountNat DEF StageSucceeds, StageIds
  <2>2. at'[q] = Arrive(q, cur[q] + 1)
    BY <1>23 DEF StageSucceeds
  <2>3. at'[q] = "start" => cur'[q] = cur[q] + 1 /\ ~Gated(q, cur'[q])
    <3>1. at'[q] = "start" => cur[q] + 1 <= StageCount(q) /\ ~Gated(q, cur[q] + 1)
      BY <2>1, <2>2, ArriveFacts
    <3>2. cur[q] + 1 <= StageCount(q) => cur'[q] = cur[q] + 1
      BY <1>23, <2>1 DEF StageSucceeds
    <3> QED
      BY <3>1, <3>2
  <2>4. at'[q] \in {"start", "gate", "finish"}
    BY <2>2, ArrivePlace
  <2>5. \A r \in RunIds : r # q => at'[r] = at[r] /\ cur'[r] = cur[r]
    BY <1>23 DEF StageSucceeds
  <2>6. UNCHANGED <<owner, chan, verdict, answers>>
    BY <1>23 DEF StageSucceeds
  <2>7. \A r \in RunIds : \A i : Gated(r, i)' <=> Gated(r, i)
    BY <2>6, GatedKept
  <2>8. ASSUME NEW r \in RunIds
        PROVE  (at[r] \in {"start", "started", "steps"} /\ Gated(r, cur[r]) => Signed(r, cur[r]))'
    <3>1. CASE r = q
      BY <2>3, <2>4, <2>7, <3>1
    <3>2. CASE r # q
      BY <2>5, <2>6, <2>7, <3>2
    <3> QED
      BY <3>1, <3>2
  <2>9. \A r \in RunIds : at'[r] \in {"unregister", "retake"} => at[r] = at'[r] /\ cur'[r] = cur[r]
    BY <2>4, <2>5
  <2> QED
    BY <2>6, <2>8, <2>9
<1>24. ASSUME NEW q \in RunIds, StageEndsRun(q) PROVE YesWasAccepted'
  BY <1>24, GatedKept DEF StageEndsRun
<1>25. ASSUME NEW q \in RunIds, SaveWaiting(q) PROVE YesWasAccepted'
  BY <1>25, GatedKept DEF SaveWaiting
<1>26. ASSUME NEW q \in RunIds, SaveDenied(q) PROVE YesWasAccepted'
  BY <1>26, GatedKept DEF SaveDenied
<1>27. ASSUME NEW q \in RunIds, SaveStarted(q) PROVE YesWasAccepted'
  BY <1>27, GatedKept DEF SaveStarted
<1>28. ASSUME NEW q \in RunIds, SkipStage(q) PROVE YesWasAccepted'
  BY <1>28, GatedKept DEF SkipStage, ToSkip
<1>29. ASSUME NEW q \in RunIds, SkippedAll(q) PROVE YesWasAccepted'
  BY <1>29, GatedKept DEF SkippedAll
<1>30. ASSUME NEW q \in RunIds, CancelQueued(q) PROVE YesWasAccepted'
  BY <1>30, GatedKept DEF CancelQueued
<1>31. ASSUME NEW q \in RunIds, CancelRunning(q) PROVE YesWasAccepted'
  BY <1>31, GatedKept DEF CancelRunning
<1>32. ASSUME NEW q \in RunIds, Timeout(q) PROVE YesWasAccepted'
  BY <1>32, GatedKept DEF Timeout
<1>33. ASSUME NEW a \in Approvers, NEW q \in RunIds, NEW answer \in Answer, ApproveLookup(a, q, answer)
      PROVE  YesWasAccepted'
  BY <1>33, GatedKept DEF ApproveLookup
<1>34. ASSUME NEW a \in Approvers, ApproveSend(a) PROVE YesWasAccepted'
  <2>1. UNCHANGED <<owner, at, cur, verdict>>
    BY <1>34 DEF ApproveSend
  <2>2. \A r \in RunIds : \A i \in StageIds : answers[r][i] \subseteq answers'[r][i]
    BY <1>34, SMTT(30) DEF ApproveSend
  <2>3. \A r \in RunIds : \A i \in StageIds :
          chan'[r][i] = "yes" => chan[r][i] = "yes" \/ "yes" \in answers'[r][i]
    BY <1>34 DEF ApproveSend
  <2>4. \A r \in RunIds : \A i : Gated(r, i)' <=> Gated(r, i)
    BY <2>1, GatedKept
  <2> QED
    BY <2>1, <2>2, <2>3, <2>4
<1>35. ASSUME NEW p \in Pipelines, DeletePipeline(p) PROVE YesWasAccepted'
  BY <1>35, GatedKept DEF DeletePipeline
<1>36. ASSUME Dequeue PROVE YesWasAccepted'
  BY <1>36, DequeuedRunWaits, GatedKept DEF Dequeue
<1>37. ASSUME StopWorker PROVE YesWasAccepted'
  BY <1>37, GatedKept DEF StopWorker
<1>38. ASSUME Restart PROVE YesWasAccepted'
  BY <1>38, GatedKept DEF Restart, Recovered
<1>39. ASSUME UNCHANGED vars PROVE YesWasAccepted'
  BY <1>39, GatedKept
<1> QED
  BY <1>1, <1>2, <1>3, <1>4, <1>5, <1>6, <1>7, <1>8, <1>9, <1>10, <1>11, <1>12,
     <1>13, <1>14, <1>15, <1>16, <1>17, <1>18, <1>19, <1>20, <1>21, <1>22, <1>23,
     <1>24, <1>25, <1>26, <1>27, <1>28, <1>29, <1>30, <1>31, <1>32, <1>33, <1>34,
     <1>35, <1>36, <1>37, <1>38, <1>39 DEF Next, RunStep

\* Nothing executes unsigned.
LEMMA ExecutedStep ==
  ASSUME TypeOK, RunsNumbered, QueuePlaces, UnusedIsFresh, YesWasAccepted,
         ExecutedWasSigned, [Next]_vars
  PROVE  ExecutedWasSigned'
<1> USE DEF vars, memory, goroutines, channels, callers, Goto, Persist, StagesOnly,
            SaveStages, TypeOK, ExecutedWasSigned, Signed, Executed
<1>1. ASSUME NEW c \in Callers, NEW p \in Pipelines, TriggerCheck(c, p)
      PROVE  ExecutedWasSigned'
  BY <1>1, GatedKept DEF TriggerCheck
<1>2. ASSUME NEW c \in Callers, TriggerUnresolved(c) PROVE ExecutedWasSigned'
  BY <1>2, GatedKept DEF TriggerUnresolved
<1>3. ASSUME NEW c \in Callers, TriggerAppend(c) PROVE ExecutedWasSigned'
  <2>1. PICK n \in RunIds :
           /\ at[n] = "none" /\ at'[n] = "offer" /\ status[n] = "none" /\ status'[n] = "queued"
           /\ \A r \in RunIds : r # n =>
                at'[r] = at[r] /\ status'[r] = status[r] /\ owner'[r] = owner[r]
           /\ UNCHANGED <<stages, cur, verdict, chan, answers, saved>>
    BY <1>3, AppendEffect
  <2>2. ASSUME NEW r \in RunIds, NEW i \in StageIds, Gated(r, i)', ~Signed(r, i)', r # n
        PROVE  stages'[r][i] \notin Executed /\ saved'.stages[r][i] \notin Executed
    <3>1. Gated(r, i) /\ ~Signed(r, i)
      BY <2>1, <2>2, GatedKept
    <3> QED
      BY <2>1, <3>1
  <2>3. \A i \in StageIds : stages'[n][i] \notin Executed /\ saved'.stages[n][i] \notin Executed
    BY <2>1 DEF UnusedIsFresh
  <2> QED
    BY <2>2, <2>3
<1>4. ASSUME NEW q \in RunIds, TriggerOffer(q) PROVE ExecutedWasSigned'
  BY <1>4, GatedKept DEF TriggerOffer
<1>5. ASSUME NEW q \in RunIds, FinalizeRefused(q) PROVE ExecutedWasSigned'
  BY <1>5, GatedKept DEF FinalizeRefused, Finalize
<1>6. ASSUME NEW q \in RunIds, FinalizeRun(q) PROVE ExecutedWasSigned'
  BY <1>6, GatedKept DEF FinalizeRun, Finalize
<1>7. ASSUME NEW q \in RunIds, PruneRuns(q) PROVE ExecutedWasSigned'
  BY <1>7, GatedKept DEF PruneRuns
<1>8. ASSUME NEW q \in RunIds, TakeSlot(q) PROVE ExecutedWasSigned'
  BY <1>8, GatedKept DEF TakeSlot
<1>9. ASSUME NEW q \in RunIds, LeaveSlot(q) PROVE ExecutedWasSigned'
  BY <1>9, GatedKept DEF LeaveSlot
<1>10. ASSUME NEW q \in RunIds, Begin(q) PROVE ExecutedWasSigned'
  BY <1>10, GatedKept DEF Begin, StillQueued
<1>11. ASSUME NEW q \in RunIds, BeginCanceled(q) PROVE ExecutedWasSigned'
  BY <1>11, GatedKept DEF BeginCanceled, StillQueued
<1>12. ASSUME NEW q \in RunIds, OpenLog(q) PROVE ExecutedWasSigned'
  BY <1>12, GatedKept DEF OpenLog, Arrive
<1>13. ASSUME NEW q \in RunIds, GateStage(q) PROVE ExecutedWasSigned'
  BY <1>13, GatedKept DEF GateStage, SetStage
<1>14. ASSUME NEW q \in RunIds, YieldSlot(q) PROVE ExecutedWasSigned'
  BY <1>14, GatedKept DEF YieldSlot
<1>15. ASSUME NEW q \in RunIds, RegisterApproval(q) PROVE ExecutedWasSigned'
  BY <1>15, GatedKept DEF RegisterApproval
<1>16. ASSUME NEW q \in RunIds, ReceiveAnswer(q) PROVE ExecutedWasSigned'
  BY <1>16, GatedKept DEF ReceiveAnswer
<1>17. ASSUME NEW q \in RunIds, StopWaiting(q) PROVE ExecutedWasSigned'
  BY <1>17, GatedKept DEF StopWaiting
<1>18. ASSUME NEW q \in RunIds, Unregister(q) PROVE ExecutedWasSigned'
  BY <1>18, GatedKept DEF Unregister
<1>19. ASSUME NEW q \in RunIds, RetakeSlot(q) PROVE ExecutedWasSigned'
  BY <1>19, GatedKept DEF RetakeSlot
<1>20. ASSUME NEW q \in RunIds, DenyStage(q) PROVE ExecutedWasSigned'
  BY <1>20, GatedKept DEF DenyStage, SetStageSkipRest
<1>21. ASSUME NEW q \in RunIds, StartStage(q) PROVE ExecutedWasSigned'
  BY <1>21, GatedKept DEF StartStage, SetStage, YesWasAccepted
<1>22. ASSUME NEW q \in RunIds, StageEnds(q) PROVE ExecutedWasSigned'
  BY <1>22, GatedKept DEF StageEnds, SetStage, StageResults, YesWasAccepted
<1>23. ASSUME NEW q \in RunIds, StageSucceeds(q) PROVE ExecutedWasSigned'
  BY <1>23, GatedKept DEF StageSucceeds
<1>24. ASSUME NEW q \in RunIds, StageEndsRun(q) PROVE ExecutedWasSigned'
  BY <1>24, GatedKept DEF StageEndsRun
<1>25. ASSUME NEW q \in RunIds, SaveWaiting(q) PROVE ExecutedWasSigned'
  BY <1>25, GatedKept DEF SaveWaiting
<1>26. ASSUME NEW q \in RunIds, SaveDenied(q) PROVE ExecutedWasSigned'
  BY <1>26, GatedKept DEF SaveDenied
<1>27. ASSUME NEW q \in RunIds, SaveStarted(q) PROVE ExecutedWasSigned'
  BY <1>27, GatedKept DEF SaveStarted
<1>28. ASSUME NEW q \in RunIds, SkipStage(q) PROVE ExecutedWasSigned'
  BY <1>28, GatedKept DEF SkipStage, ToSkip
<1>29. ASSUME NEW q \in RunIds, SkippedAll(q) PROVE ExecutedWasSigned'
  BY <1>29, GatedKept DEF SkippedAll
<1>30. ASSUME NEW q \in RunIds, CancelQueued(q) PROVE ExecutedWasSigned'
  BY <1>30, GatedKept DEF CancelQueued
<1>31. ASSUME NEW q \in RunIds, CancelRunning(q) PROVE ExecutedWasSigned'
  BY <1>31, GatedKept DEF CancelRunning
<1>32. ASSUME NEW q \in RunIds, Timeout(q) PROVE ExecutedWasSigned'
  BY <1>32, GatedKept DEF Timeout
<1>33. ASSUME NEW a \in Approvers, NEW q \in RunIds, NEW answer \in Answer, ApproveLookup(a, q, answer)
      PROVE  ExecutedWasSigned'
  BY <1>33, GatedKept DEF ApproveLookup
<1>34. ASSUME NEW a \in Approvers, ApproveSend(a) PROVE ExecutedWasSigned'
  BY <1>34, GatedKept DEF ApproveSend
<1>35. ASSUME NEW p \in Pipelines, DeletePipeline(p) PROVE ExecutedWasSigned'
  BY <1>35, GatedKept DEF DeletePipeline
<1>36. ASSUME Dequeue PROVE ExecutedWasSigned'
  BY <1>36, DequeuedRunWaits, GatedKept DEF Dequeue
<1>37. ASSUME StopWorker PROVE ExecutedWasSigned'
  BY <1>37, GatedKept DEF StopWorker
<1>38. ASSUME Restart PROVE ExecutedWasSigned'
  BY <1>38, GatedKept DEF Restart, Recovered
<1>39. ASSUME UNCHANGED vars PROVE ExecutedWasSigned'
  BY <1>39, GatedKept
<1> QED
  BY <1>1, <1>2, <1>3, <1>4, <1>5, <1>6, <1>7, <1>8, <1>9, <1>10, <1>11, <1>12,
     <1>13, <1>14, <1>15, <1>16, <1>17, <1>18, <1>19, <1>20, <1>21, <1>22, <1>23,
     <1>24, <1>25, <1>26, <1>27, <1>28, <1>29, <1>30, <1>31, <1>32, <1>33, <1>34,
     <1>35, <1>36, <1>37, <1>38, <1>39 DEF Next, RunStep

\* The number of stages depends on the owner of the run.
LEMMA CountKept ==
  ASSUME NEW r, owner'[r] = owner[r]
  PROVE  StageCount(r)' = StageCount(r)
BY DEF StageCount

\* The loop of a run is its own affair.
LEMMA LoopElsewhere ==
  ASSUME NEW r \in RunIds, LoopAt(r), owner'[r] = owner[r],
         at'[r] = at[r], cur'[r] = cur[r], outcome'[r] = outcome[r], status'[r] = status[r],
         stages'[r] = stages[r], saved'.stages[r] \in {saved.stages[r], stages[r]}
  PROVE  LoopAt(r)'
BY CountKept DEF LoopAt, AllSucceeded

\* The stages behind the loop, and those of a success, have succeeded.
LEMMA LoopStep ==
  ASSUME TypeOK, RunsNumbered, QueuePlaces, ExecutingIsRunning, StatusPlaces,
         SavedStatus, FirstStage, LoopSucceeds, [Next]_vars
  PROVE  LoopSucceeds'
<1> USE DEF vars, memory, goroutines, channels, callers, Goto, Persist, StagesOnly,
            SaveStages, TypeOK, LoopSucceeds, InLoop, Executing, Waiting, Unsaved
<1>1. ASSUME NEW c \in Callers, NEW p \in Pipelines, TriggerCheck(c, p)
      PROVE  LoopSucceeds'
  BY <1>1, CountKept DEF TriggerCheck, LoopAt, AllSucceeded
<1>2. ASSUME NEW c \in Callers, TriggerUnresolved(c) PROVE LoopSucceeds'
  BY <1>2, CountKept DEF TriggerUnresolved, LoopAt, AllSucceeded
<1>3. ASSUME NEW c \in Callers, TriggerAppend(c) PROVE LoopSucceeds'
  BY <1>3, AppendedRunIsNew, CountKept DEF TriggerAppend, LoopAt, AllSucceeded
<1>4. ASSUME NEW q \in RunIds, TriggerOffer(q) PROVE LoopSucceeds'
  BY <1>4, CountKept DEF TriggerOffer, LoopAt, AllSucceeded
<1>5. ASSUME NEW q \in RunIds, FinalizeRefused(q) PROVE LoopSucceeds'
  BY <1>5, CountKept DEF FinalizeRefused, Finalize, LoopAt, AllSucceeded
<1>6. ASSUME NEW q \in RunIds, FinalizeRun(q) PROVE LoopSucceeds'
  BY <1>6, CountKept
     DEF FinalizeRun, Finalize, ExecutingIsRunning, LoopAt, AllSucceeded
<1>7. ASSUME NEW q \in RunIds, PruneRuns(q) PROVE LoopSucceeds'
  BY <1>7, CountKept DEF PruneRuns, LoopAt, AllSucceeded
<1>8. ASSUME NEW q \in RunIds, TakeSlot(q) PROVE LoopSucceeds'
  BY <1>8, CountKept DEF TakeSlot, LoopAt, AllSucceeded
<1>9. ASSUME NEW q \in RunIds, LeaveSlot(q) PROVE LoopSucceeds'
  BY <1>9, CountKept DEF LeaveSlot, LoopAt, AllSucceeded
<1>10. ASSUME NEW q \in RunIds, Begin(q) PROVE LoopSucceeds'
  BY <1>10, CountKept DEF Begin, StillQueued, LoopAt, AllSucceeded
<1>11. ASSUME NEW q \in RunIds, BeginCanceled(q) PROVE LoopSucceeds'
  BY <1>11, CountKept DEF BeginCanceled, StillQueued, LoopAt, AllSucceeded
<1>12. ASSUME NEW q \in RunIds, OpenLog(q) PROVE LoopSucceeds'
  <2>1. at[q] = "log" /\ UNCHANGED <<status, owner, stages, cur, saved>>
    BY <1>12 DEF OpenLog
  <2>2. \A r \in RunIds : r # q => at'[r] = at[r] /\ outcome'[r] = outcome[r]
    BY <1>12 DEF OpenLog
  <2>3. at'[q] = Arrive(q, 1) \/ (at'[q] = "finish" /\ outcome'[q] = "failed")
    BY <1>12 DEF OpenLog
  <2>4. StageCount(q) \in Nat /\ cur[q] = 1
    BY <2>1, StageCountNat DEF FirstStage, BeforeLoop
  <2>5. at'[q] = "finish" /\ outcome'[q] = "success" => AllSucceeded(stages, q)
    BY <2>3, <2>4, ArriveFacts DEF StageIds, AllSucceeded
  <2>6. \A i \in StageIds : ~(i < cur[q])
    BY <2>4 DEF StageIds
  <2>7. at'[q] # "skip"
    BY <2>3, ArrivePlace
  <2>11. ASSUME NEW r \in RunIds, r # q PROVE LoopAt(r)'
    BY <2>1, <2>2, <2>11, LoopElsewhere
  <2>12. StageCount(q)' = StageCount(q)
    BY <2>1, CountKept
  <2>13. LoopAt(q)'
    BY <2>1, <2>5, <2>6, <2>7, <2>12 DEF LoopAt, AllSucceeded
  <2> QED
    BY <2>11, <2>13
<1>13. ASSUME NEW q \in RunIds, GateStage(q) PROVE LoopSucceeds'
  <2>1. status[q] = "running" /\ UNCHANGED <<status, owner>>
    BY <1>13 DEF GateStage, ExecutingIsRunning
  <2>2. \A r \in RunIds : r # q =>
          /\ at'[r] = at[r] /\ cur'[r] = cur[r] /\ outcome'[r] = outcome[r]
          /\ stages'[r] = stages[r] /\ saved'.stages[r] = saved.stages[r]
    BY <1>13 DEF GateStage, SetStage
  <2>3. /\ at[q] \in InLoop /\ at'[q] = "gated" /\ cur'[q] = cur[q]
        /\ \A i \in StageIds : i # cur[q] => stages'[q][i] = stages[q][i]
    BY <1>13 DEF GateStage, SetStage
  <2>4. \A i \in StageIds : i < cur[q] => i # cur[q]
    BY DEF StageIds
  <2>11. ASSUME NEW r \in RunIds, r # q PROVE LoopAt(r)'
    BY <2>1, <2>2, <2>11, LoopElsewhere
  <2>13. LoopAt(q)'
    <3>1. \A i \in StageIds : i < cur'[q] => stages'[q][i] = "success"
      BY <2>3, <2>4 DEF LoopAt
    <3>2. at'[q] \notin {"skip", "finish"} /\ status'[q] # "success"
      BY <2>1, <2>3
    <3> QED
      BY <3>1, <3>2 DEF LoopAt
  <2> QED
    BY <2>11, <2>13
<1>14. ASSUME NEW q \in RunIds, YieldSlot(q) PROVE LoopSucceeds'
  BY <1>14, CountKept DEF YieldSlot, LoopAt, AllSucceeded
<1>15. ASSUME NEW q \in RunIds, RegisterApproval(q) PROVE LoopSucceeds'
  BY <1>15, CountKept DEF RegisterApproval, LoopAt, AllSucceeded
<1>16. ASSUME NEW q \in RunIds, ReceiveAnswer(q) PROVE LoopSucceeds'
  BY <1>16, CountKept DEF ReceiveAnswer, LoopAt, AllSucceeded
<1>17. ASSUME NEW q \in RunIds, StopWaiting(q) PROVE LoopSucceeds'
  BY <1>17, CountKept DEF StopWaiting, LoopAt, AllSucceeded
<1>18. ASSUME NEW q \in RunIds, Unregister(q) PROVE LoopSucceeds'
  BY <1>18, CountKept DEF Unregister, LoopAt, AllSucceeded
<1>19. ASSUME NEW q \in RunIds, RetakeSlot(q) PROVE LoopSucceeds'
  BY <1>19, CountKept DEF RetakeSlot, LoopAt, AllSucceeded
<1>20. ASSUME NEW q \in RunIds, DenyStage(q) PROVE LoopSucceeds'
  <2>1. status[q] = "running" /\ UNCHANGED <<status, owner>>
    BY <1>20 DEF DenyStage, ExecutingIsRunning
  <2>2. \A r \in RunIds : r # q =>
          /\ at'[r] = at[r] /\ cur'[r] = cur[r] /\ outcome'[r] = outcome[r]
          /\ stages'[r] = stages[r] /\ saved'.stages[r] = saved.stages[r]
    BY <1>20 DEF DenyStage, SetStageSkipRest
  <2>3. at'[q] = "denied"
    BY <1>20 DEF DenyStage
  <2>11. ASSUME NEW r \in RunIds, r # q PROVE LoopAt(r)'
    BY <2>1, <2>2, <2>11, LoopElsewhere
  <2>13. LoopAt(q)'
    BY <2>1, <2>3 DEF LoopAt
  <2> QED
    BY <2>11, <2>13
<1>21. ASSUME NEW q \in RunIds, StartStage(q) PROVE LoopSucceeds'
  <2>1. status[q] = "running" /\ UNCHANGED <<status, owner>>
    BY <1>21 DEF StartStage, ExecutingIsRunning
  <2>2. \A r \in RunIds : r # q =>
          /\ at'[r] = at[r] /\ cur'[r] = cur[r] /\ outcome'[r] = outcome[r]
          /\ stages'[r] = stages[r] /\ saved'.stages[r] = saved.stages[r]
    BY <1>21 DEF StartStage, SetStage
  <2>3. /\ at[q] \in InLoop /\ at'[q] = "started" /\ cur'[q] = cur[q]
        /\ \A i \in StageIds : i # cur[q] => stages'[q][i] = stages[q][i]
    BY <1>21 DEF StartStage, SetStage
  <2>4. \A i \in StageIds : i < cur[q] => i # cur[q]
    BY DEF StageIds
  <2>11. ASSUME NEW r \in RunIds, r # q PROVE LoopAt(r)'
    BY <2>1, <2>2, <2>11, LoopElsewhere
  <2>13. LoopAt(q)'
    <3>1. \A i \in StageIds : i < cur'[q] => stages'[q][i] = "success"
      BY <2>3, <2>4 DEF LoopAt
    <3>2. at'[q] \notin {"skip", "finish"} /\ status'[q] # "success"
      BY <2>1, <2>3
    <3> QED
      BY <3>1, <3>2 DEF LoopAt
  <2> QED
    BY <2>11, <2>13
<1>22. ASSUME NEW q \in RunIds, StageEnds(q) PROVE LoopSucceeds'
  <2>1. status[q] = "running" /\ UNCHANGED <<status, owner>>
    BY <1>22 DEF StageEnds, ExecutingIsRunning
  <2>2. \A r \in RunIds : r # q =>
          /\ at'[r] = at[r] /\ cur'[r] = cur[r] /\ outcome'[r] = outcome[r]
          /\ stages'[r] = stages[r] /\ saved'.stages[r] = saved.stages[r]
    BY <1>22 DEF StageEnds, SetStage
  <2>3. /\ at[q] \in InLoop /\ at'[q] = "ended" /\ cur'[q] = cur[q]
        /\ \A i \in StageIds : i # cur[q] => stages'[q][i] = stages[q][i]
    BY <1>22 DEF StageEnds, SetStage
  <2>4. \A i \in StageIds : i < cur[q] => i # cur[q]
    BY DEF StageIds
  <2>11. ASSUME NEW r \in RunIds, r # q PROVE LoopAt(r)'
    BY <2>1, <2>2, <2>11, LoopElsewhere
  <2>13. LoopAt(q)'
    <3>1. \A i \in StageIds : i < cur'[q] => stages'[q][i] = "success"
      BY <2>3, <2>4 DEF LoopAt
    <3>2. at'[q] \notin {"skip", "finish"} /\ status'[q] # "success"
      BY <2>1, <2>3
    <3> QED
      BY <3>1, <3>2 DEF LoopAt
  <2> QED
    BY <2>11, <2>13
<1>23. ASSUME NEW q \in RunIds, StageSucceeds(q) PROVE LoopSucceeds'
  <2>1. status[q] = "running" /\ UNCHANGED <<status, owner>>
    BY <1>23 DEF StageSucceeds, ExecutingIsRunning
  <2>2. \A r \in RunIds : r # q =>
          /\ at'[r] = at[r] /\ cur'[r] = cur[r] /\ outcome'[r] = outcome[r]
          /\ stages'[r] = stages[r] /\ saved'.stages[r] = stages[r]
    BY <1>23 DEF StageSucceeds
  <2>3. /\ at[q] \in InLoop /\ cur[q] \in StageIds
        /\ stages'[q] = stages[q] /\ stages[q][cur[q]] = "success"
        /\ at'[q] = Arrive(q, cur[q] + 1)
        /\ cur'[q] = IF cur[q] < StageCount(q) THEN cur[q] + 1 ELSE cur[q]
    BY <1>23 DEF StageSucceeds
  <2>4. StageCount(q) \in Nat /\ cur[q] \in Nat /\ StageIds \subseteq Nat
    BY <1>23, StageCountNat DEF StageSucceeds, StageIds
  <2>5. \A i \in StageIds : i < cur[q] \/ i = cur[q] => stages'[q][i] = "success"
    BY <2>3 DEF LoopAt
  <2>6. at'[q] = "finish" => cur[q] + 1 > StageCount(q)
    BY <2>3, <2>4, ArriveFacts
  <2>7. at'[q] = "finish" => \A i \in StageIds : i <= StageCount(q) => stages'[q][i] = "success"
    BY <2>4, <2>5, <2>6
  <2>8. at'[q] \in InLoop => \A i \in StageIds : i < cur'[q] => stages'[q][i] = "success"
    BY <2>3, <2>4, <2>5
  <2>9. at'[q] \in {"finish", "gate", "start"}
    BY <2>3, ArrivePlace
  <2>11. ASSUME NEW r \in RunIds, r # q PROVE LoopAt(r)'
    BY <2>1, <2>2, <2>11, LoopElsewhere
  <2>12. StageCount(q)' = StageCount(q)
    BY <2>1, CountKept
  <2>13. LoopAt(q)'
    BY <2>1, <2>7, <2>8, <2>9, <2>12 DEF LoopAt, AllSucceeded
  <2> QED
    BY <2>11, <2>13
<1>24. ASSUME NEW q \in RunIds, StageEndsRun(q) PROVE LoopSucceeds'
  <2>1. status[q] = "running" /\ UNCHANGED <<status, owner>>
    BY <1>24 DEF StageEndsRun, ExecutingIsRunning
  <2>2. \A r \in RunIds : r # q =>
          /\ at'[r] = at[r] /\ cur'[r] = cur[r] /\ outcome'[r] = outcome[r]
          /\ stages'[r] = stages[r] /\ saved'.stages[r] = stages[r]
    BY <1>24 DEF StageEndsRun
  <2>3. at'[q] = "skip" /\ outcome'[q] # "success"
    BY <1>24 DEF StageEndsRun, LoopAt
  <2>11. ASSUME NEW r \in RunIds, r # q PROVE LoopAt(r)'
    BY <2>1, <2>2, <2>11, LoopElsewhere
  <2>13. LoopAt(q)'
    BY <2>1, <2>3 DEF LoopAt
  <2> QED
    BY <2>11, <2>13
<1>25. ASSUME NEW q \in RunIds, SaveWaiting(q) PROVE LoopSucceeds'
  BY <1>25, CountKept DEF SaveWaiting, LoopAt, AllSucceeded
<1>26. ASSUME NEW q \in RunIds, SaveDenied(q) PROVE LoopSucceeds'
  <2>1. status[q] = "running" /\ UNCHANGED <<status, owner>>
    BY <1>26 DEF SaveDenied, ExecutingIsRunning
  <2>2. \A r \in RunIds : r # q =>
          /\ at'[r] = at[r] /\ cur'[r] = cur[r] /\ outcome'[r] = outcome[r]
          /\ stages'[r] = stages[r] /\ saved'.stages[r] = stages[r]
    BY <1>26 DEF SaveDenied
  <2>3. at'[q] = "finish" /\ outcome'[q] # "success"
    BY <1>26 DEF SaveDenied
  <2>11. ASSUME NEW r \in RunIds, r # q PROVE LoopAt(r)'
    BY <2>1, <2>2, <2>11, LoopElsewhere
  <2>13. LoopAt(q)'
    BY <2>1, <2>3 DEF LoopAt
  <2> QED
    BY <2>11, <2>13
<1>27. ASSUME NEW q \in RunIds, SaveStarted(q) PROVE LoopSucceeds'
  BY <1>27, CountKept DEF SaveStarted, LoopAt, AllSucceeded
<1>28. ASSUME NEW q \in RunIds, SkipStage(q) PROVE LoopSucceeds'
  <2>1. status[q] = "running" /\ UNCHANGED <<status, owner>>
    BY <1>28 DEF SkipStage, ExecutingIsRunning
  <2>2. \A r \in RunIds : r # q =>
          /\ at'[r] = at[r] /\ cur'[r] = cur[r] /\ outcome'[r] = outcome[r]
          /\ stages'[r] = stages[r] /\ saved'.stages[r] = saved.stages[r]
    BY <1>28 DEF SkipStage
  <2>3. at'[q] = "skip" /\ outcome'[q] # "success"
    BY <1>28 DEF SkipStage, LoopAt
  <2>11. ASSUME NEW r \in RunIds, r # q PROVE LoopAt(r)'
    BY <2>1, <2>2, <2>11, LoopElsewhere
  <2>13. LoopAt(q)'
    BY <2>1, <2>3 DEF LoopAt
  <2> QED
    BY <2>11, <2>13
<1>29. ASSUME NEW q \in RunIds, SkippedAll(q) PROVE LoopSucceeds'
  <2>1. status[q] = "running" /\ UNCHANGED <<status, owner>>
    BY <1>29 DEF SkippedAll, ExecutingIsRunning
  <2>2. \A r \in RunIds : r # q =>
          /\ at'[r] = at[r] /\ cur'[r] = cur[r] /\ outcome'[r] = outcome[r]
          /\ stages'[r] = stages[r] /\ saved'.stages[r] = saved.stages[r]
    BY <1>29 DEF SkippedAll
  <2>3. at'[q] = "finish" /\ outcome'[q] # "success"
    BY <1>29 DEF SkippedAll, LoopAt
  <2>11. ASSUME NEW r \in RunIds, r # q PROVE LoopAt(r)'
    BY <2>1, <2>2, <2>11, LoopElsewhere
  <2>13. LoopAt(q)'
    BY <2>1, <2>3 DEF LoopAt
  <2> QED
    BY <2>11, <2>13
<1>30. ASSUME NEW q \in RunIds, CancelQueued(q) PROVE LoopSucceeds'
  BY <1>30, CountKept DEF CancelQueued, LoopAt, AllSucceeded
<1>31. ASSUME NEW q \in RunIds, CancelRunning(q) PROVE LoopSucceeds'
  BY <1>31, CountKept DEF CancelRunning, LoopAt, AllSucceeded
<1>32. ASSUME NEW q \in RunIds, Timeout(q) PROVE LoopSucceeds'
  BY <1>32, CountKept DEF Timeout, LoopAt, AllSucceeded
<1>33. ASSUME NEW a \in Approvers, NEW q \in RunIds, NEW answer \in Answer, ApproveLookup(a, q, answer)
      PROVE  LoopSucceeds'
  BY <1>33, CountKept DEF ApproveLookup, LoopAt, AllSucceeded
<1>34. ASSUME NEW a \in Approvers, ApproveSend(a) PROVE LoopSucceeds'
  BY <1>34, CountKept DEF ApproveSend, LoopAt, AllSucceeded
<1>35. ASSUME NEW p \in Pipelines, DeletePipeline(p) PROVE LoopSucceeds'
  BY <1>35, CountKept DEF DeletePipeline, LoopAt, AllSucceeded
<1>36. ASSUME Dequeue PROVE LoopSucceeds'
  BY <1>36, DequeuedRunWaits, CountKept DEF Dequeue, LoopAt, AllSucceeded
<1>37. ASSUME StopWorker PROVE LoopSucceeds'
  BY <1>37, CountKept DEF StopWorker, LoopAt, AllSucceeded
<1>38. ASSUME Restart PROVE LoopSucceeds'
  <2>1. UNCHANGED owner /\ stages' = saved.stages /\ saved'.stages = saved.stages
    BY <1>38 DEF Restart
  <2>2. \A r \in RunIds : at'[r] \in {"none", "over"}
    BY <1>38 DEF Restart
  <2>3. \A r \in RunIds : status'[r] = "success" => status[r] = "success"
    BY <1>38 DEF Restart, Recovered, SavedStatus, Active
  <2>4. \A r \in RunIds : StageCount(r)' = StageCount(r)
    BY <2>1, CountKept
  <2>5. ASSUME NEW r \in RunIds, status'[r] = "success"
        PROVE  AllSucceeded(saved.stages, r)'
    BY <2>1, <2>3, <2>4, <2>5 DEF LoopAt, AllSucceeded
  <2>6. ASSUME NEW r \in RunIds PROVE LoopAt(r)'
    <3>1. status'[r] = "success" => AllSucceeded(stages, r)' /\ AllSucceeded(saved.stages, r)'
      BY <2>1, <2>5 DEF AllSucceeded
    <3> QED
      BY <2>2, <3>1 DEF LoopAt
  <2> QED
    BY <2>6
<1>39. ASSUME UNCHANGED vars PROVE LoopSucceeds'
  BY <1>39, CountKept DEF LoopAt, AllSucceeded
<1> QED
  BY <1>1, <1>2, <1>3, <1>4, <1>5, <1>6, <1>7, <1>8, <1>9, <1>10, <1>11, <1>12,
     <1>13, <1>14, <1>15, <1>16, <1>17, <1>18, <1>19, <1>20, <1>21, <1>22, <1>23,
     <1>24, <1>25, <1>26, <1>27, <1>28, <1>29, <1>30, <1>31, <1>32, <1>33, <1>34,
     <1>35, <1>36, <1>37, <1>38, <1>39 DEF Next, RunStep

-----------------------------------------------------------------------------
(* Counting runs and callers. *)

\* The sets that are counted are finite.
LEMMA CountedFinite ==
  ASSUME TypeOK
  PROVE  /\ IsFiniteSet(live) /\ IsFiniteSet(Callers)
         /\ \A r : IsFiniteSet(Newer(r)) /\ Cardinality(Newer(r)) \in Nat
         /\ \A p : IsFiniteSet(Past(p)) /\ Cardinality(Past(p)) \in Nat
         /\ \A p : IsFiniteSet(ActiveRuns(p)) /\ Cardinality(ActiveRuns(p)) \in Nat
<1>1. IsFiniteSet(1..RunBound)
  BY BoundAssumption, FS_Interval
<1>2. IsFiniteSet(live) /\ IsFiniteSet(Callers)
  <2>1. live \subseteq 1..RunBound
    BY DEF TypeOK, RunIds
  <2> QED
    BY <1>1, <2>1, FS_Subset, CallersAssumption
<1>3. \A r : Newer(r) \subseteq live
  BY DEF Newer
<1>4. \A p : ActiveRuns(p) \subseteq live
  BY DEF ActiveRuns
<1>5. \A p : Past(p) \subseteq Callers
  BY DEF Past
<1> QED
  BY <1>2, <1>3, <1>4, <1>5, FS_Subset, FS_CardinalityType

\* A set that does not grow does not count more.
LEMMA CountsLess ==
  ASSUME NEW S, NEW T, IsFiniteSet(T), S \subseteq T
  PROVE  Cardinality(S) \in Nat /\ Cardinality(T) \in Nat /\ Cardinality(S) <= Cardinality(T)
BY FS_Subset, FS_CardinalityType

\* Only callers are past the check.
LEMMA PastAreCallers ==
  ASSUME NEW p
  PROVE  /\ Cardinality(Past(p)) \in Nat /\ Cardinality(Callers) \in Nat
         /\ Cardinality(Past(p)) <= Cardinality(Callers)
<1>1. Past(p) \subseteq Callers
  BY DEF Past
<1> QED
  BY <1>1, CallersAssumption, CountsLess

\* The check lets one caller more past for its pipeline and for no other.
LEMMA CheckEffect ==
  ASSUME TypeOK, RunsNumbered, NEW c \in Callers, NEW p \in Pipelines, TriggerCheck(c, p)
  PROVE  /\ ActiveRuns(p) = {}
         /\ \A o : o # p => Past(o)' \subseteq Past(o)
         /\ UNCHANGED <<live, owner, status>>
<1>1. ActiveRuns(p) = {}
  BY DEF TriggerCheck, HasActiveRun, ActiveRuns
<1>2. \A o : o # p => Past(o)' \subseteq Past(o)
  BY DEF TriggerCheck, Past, TypeOK
<1> QED
  BY <1>1, <1>2 DEF TriggerCheck, memory

\* The append turns a caller past the check into the newest run of its pipeline.
LEMMA AppendCounts ==
  ASSUME TypeOK, RunsNumbered, NEW c \in Callers, TriggerAppend(c)
  PROVE  /\ nextRun' \in RunIds /\ nextRun' \notin live /\ live' = live \cup {nextRun'}
         /\ checked[c] \in Pipelines /\ owner'[nextRun'] = checked[c]
         /\ status'[nextRun'] = "queued"
         /\ \A r \in live : r < nextRun' /\ owner'[r] = owner[r] /\ status'[r] = status[r]
         /\ \A p \in Pipelines :
              IF p = checked[c] THEN Past(p)' = Past(p) \ {c} /\ c \in Past(p)
                                ELSE Past(p)' = Past(p)
<1>1. /\ nextRun' = nextRun + 1 /\ nextRun' \in RunIds
      /\ at[nextRun'] = "none" /\ checked[c] \in Pipelines
  BY AppendedRunIsNew
<1>2. nextRun' \notin live
  BY <1>1 DEF RunsNumbered
<1>3. \A r \in live : r <= nextRun /\ r \in Nat /\ nextRun \in Nat
  BY DEF RunsNumbered, TypeOK, RunIds
<1>4. \A r \in live : r < nextRun'
  BY <1>1, <1>3
<1>5. /\ live' = live \cup {nextRun'} /\ owner'[nextRun'] = checked[c]
      /\ status'[nextRun'] = "queued"
      /\ \A r \in live : owner'[r] = owner[r] /\ status'[r] = status[r]
  BY <1>1, <1>2 DEF TriggerAppend, TypeOK
<1>6. checked' = [checked EXCEPT ![c] = "none"] /\ checked \in [Callers -> Pipelines \cup {"none"}]
  BY DEF TriggerAppend, TypeOK
<1>7. ASSUME NEW p \in Pipelines, p = checked[c]
      PROVE  Past(p)' = Past(p) \ {c} /\ c \in Past(p)
  BY <1>6, <1>7, PipelinesAssumption DEF Past
<1>8. \A p \in Pipelines : p # checked[c] => Past(p)' = Past(p)
  BY <1>6, PipelinesAssumption DEF Past
<1> QED
  BY <1>1, <1>2, <1>4, <1>5, <1>7, <1>8

\* All other steps activate no run and add none; two of them remove some.
LEMMA MostStepsCalm ==
  ASSUME TypeOK, [Next]_vars
  PROVE  Calm \/ (\E d \in Callers : ByTrigger(d)) \/ Restart
<1> USE DEF vars, memory, goroutines, channels, callers, Goto, Persist, StagesOnly,
            SaveStages, TypeOK
<1>1. ASSUME NEW c \in Callers, NEW p \in Pipelines, TriggerCheck(c, p)
      PROVE  Calm \/ (\E d \in Callers : ByTrigger(d)) \/ Restart
  BY <1>1 DEF ByTrigger
<1>2. ASSUME NEW c \in Callers, TriggerUnresolved(c)
      PROVE  Calm \/ (\E d \in Callers : ByTrigger(d)) \/ Restart
  BY <1>2 DEF ByTrigger
<1>3. ASSUME NEW c \in Callers, TriggerAppend(c)
      PROVE  Calm \/ (\E d \in Callers : ByTrigger(d)) \/ Restart
  BY <1>3 DEF ByTrigger
<1>4. ASSUME NEW q \in RunIds, TriggerOffer(q)
      PROVE  Calm \/ (\E d \in Callers : ByTrigger(d)) \/ Restart
  BY <1>4 DEF TriggerOffer, Calm, Active
<1>5. ASSUME NEW q \in RunIds, FinalizeRefused(q)
      PROVE  Calm \/ (\E d \in Callers : ByTrigger(d)) \/ Restart
  BY <1>5 DEF FinalizeRefused, Finalize, Calm, Active
<1>6. ASSUME NEW q \in RunIds, FinalizeRun(q)
      PROVE  Calm \/ (\E d \in Callers : ByTrigger(d)) \/ Restart
  BY <1>6 DEF FinalizeRun, Finalize, Terminal, Calm, Active
<1>7. ASSUME NEW q \in RunIds, PruneRuns(q)
      PROVE  Calm \/ (\E d \in Callers : ByTrigger(d)) \/ Restart
  <2>1. UNCHANGED <<owner, checked, status>> /\ live' \subseteq live
    BY <1>7 DEF PruneRuns
  <2> QED
    BY <1>7, <2>1 DEF Calm
<1>8. ASSUME NEW q \in RunIds, TakeSlot(q)
      PROVE  Calm \/ (\E d \in Callers : ByTrigger(d)) \/ Restart
  BY <1>8 DEF TakeSlot, Calm, Active
<1>9. ASSUME NEW q \in RunIds, LeaveSlot(q)
      PROVE  Calm \/ (\E d \in Callers : ByTrigger(d)) \/ Restart
  BY <1>9 DEF LeaveSlot, Calm, Active
<1>10. ASSUME NEW q \in RunIds, Begin(q)
      PROVE  Calm \/ (\E d \in Callers : ByTrigger(d)) \/ Restart
  BY <1>10 DEF Begin, StillQueued, Calm, Active
<1>11. ASSUME NEW q \in RunIds, BeginCanceled(q)
      PROVE  Calm \/ (\E d \in Callers : ByTrigger(d)) \/ Restart
  BY <1>11 DEF BeginCanceled, StillQueued, Calm, Active
<1>12. ASSUME NEW q \in RunIds, OpenLog(q)
      PROVE  Calm \/ (\E d \in Callers : ByTrigger(d)) \/ Restart
  BY <1>12 DEF OpenLog, Arrive, Calm, Active
<1>13. ASSUME NEW q \in RunIds, GateStage(q)
      PROVE  Calm \/ (\E d \in Callers : ByTrigger(d)) \/ Restart
  BY <1>13 DEF GateStage, SetStage, Calm, Active
<1>14. ASSUME NEW q \in RunIds, YieldSlot(q)
      PROVE  Calm \/ (\E d \in Callers : ByTrigger(d)) \/ Restart
  BY <1>14 DEF YieldSlot, Calm, Active
<1>15. ASSUME NEW q \in RunIds, RegisterApproval(q)
      PROVE  Calm \/ (\E d \in Callers : ByTrigger(d)) \/ Restart
  BY <1>15 DEF RegisterApproval, Calm, Active
<1>16. ASSUME NEW q \in RunIds, ReceiveAnswer(q)
      PROVE  Calm \/ (\E d \in Callers : ByTrigger(d)) \/ Restart
  BY <1>16 DEF ReceiveAnswer, Calm, Active
<1>17. ASSUME NEW q \in RunIds, StopWaiting(q)
      PROVE  Calm \/ (\E d \in Callers : ByTrigger(d)) \/ Restart
  BY <1>17 DEF StopWaiting, Calm, Active
<1>18. ASSUME NEW q \in RunIds, Unregister(q)
      PROVE  Calm \/ (\E d \in Callers : ByTrigger(d)) \/ Restart
  BY <1>18 DEF Unregister, Calm, Active
<1>19. ASSUME NEW q \in RunIds, RetakeSlot(q)
      PROVE  Calm \/ (\E d \in Callers : ByTrigger(d)) \/ Restart
  BY <1>19 DEF RetakeSlot, Calm, Active
<1>20. ASSUME NEW q \in RunIds, DenyStage(q)
      PROVE  Calm \/ (\E d \in Callers : ByTrigger(d)) \/ Restart
  BY <1>20 DEF DenyStage, SetStageSkipRest, Calm, Active
<1>21. ASSUME NEW q \in RunIds, StartStage(q)
      PROVE  Calm \/ (\E d \in Callers : ByTrigger(d)) \/ Restart
  BY <1>21 DEF StartStage, SetStage, Calm, Active
<1>22. ASSUME NEW q \in RunIds, StageEnds(q)
      PROVE  Calm \/ (\E d \in Callers : ByTrigger(d)) \/ Restart
  BY <1>22 DEF StageEnds, SetStage, StageResults, Calm, Active
<1>23. ASSUME NEW q \in RunIds, StageSucceeds(q)
      PROVE  Calm \/ (\E d \in Callers : ByTrigger(d)) \/ Restart
  BY <1>23 DEF StageSucceeds, Calm, Active
<1>24. ASSUME NEW q \in RunIds, StageEndsRun(q)
      PROVE  Calm \/ (\E d \in Callers : ByTrigger(d)) \/ Restart
  BY <1>24 DEF StageEndsRun, Calm, Active
<1>25. ASSUME NEW q \in RunIds, SaveWaiting(q)
      PROVE  Calm \/ (\E d \in Callers : ByTrigger(d)) \/ Restart
  BY <1>25 DEF SaveWaiting, Calm, Active
<1>26. ASSUME NEW q \in RunIds, SaveDenied(q)
      PROVE  Calm \/ (\E d \in Callers : ByTrigger(d)) \/ Restart
  BY <1>26 DEF SaveDenied, Calm, Active
<1>27. ASSUME NEW q \in RunIds, SaveStarted(q)
      PROVE  Calm \/ (\E d \in Callers : ByTrigger(d)) \/ Restart
  BY <1>27 DEF SaveStarted, Calm, Active
<1>28. ASSUME NEW q \in RunIds, SkipStage(q)
      PROVE  Calm \/ (\E d \in Callers : ByTrigger(d)) \/ Restart
  BY <1>28 DEF SkipStage, ToSkip, Calm, Active
<1>29. ASSUME NEW q \in RunIds, SkippedAll(q)
      PROVE  Calm \/ (\E d \in Callers : ByTrigger(d)) \/ Restart
  BY <1>29 DEF SkippedAll, Calm, Active
<1>30. ASSUME NEW q \in RunIds, CancelQueued(q)
      PROVE  Calm \/ (\E d \in Callers : ByTrigger(d)) \/ Restart
  BY <1>30 DEF CancelQueued, Calm, Active
<1>31. ASSUME NEW q \in RunIds, CancelRunning(q)
      PROVE  Calm \/ (\E d \in Callers : ByTrigger(d)) \/ Restart
  BY <1>31 DEF CancelRunning, Calm, Active
<1>32. ASSUME NEW q \in RunIds, Timeout(q)
      PROVE  Calm \/ (\E d \in Callers : ByTrigger(d)) \/ Restart
  BY <1>32 DEF Timeout, Calm, Active
<1>33. ASSUME NEW a \in Approvers, NEW q \in RunIds, NEW answer \in Answer, ApproveLookup(a, q, answer)
      PROVE  Calm \/ (\E d \in Callers : ByTrigger(d)) \/ Restart
  BY <1>33 DEF ApproveLookup, Calm, Active
<1>34. ASSUME NEW a \in Approvers, ApproveSend(a)
      PROVE  Calm \/ (\E d \in Callers : ByTrigger(d)) \/ Restart
  BY <1>34 DEF ApproveSend, Calm, Active
<1>35. ASSUME NEW p \in Pipelines, DeletePipeline(p)
      PROVE  Calm \/ (\E d \in Callers : ByTrigger(d)) \/ Restart
  <2>1. UNCHANGED <<owner, checked, status>> /\ live' \subseteq live
    BY <1>35 DEF DeletePipeline
  <2> QED
    BY <1>35, <2>1 DEF Calm
<1>36. ASSUME Dequeue PROVE Calm \/ (\E d \in Callers : ByTrigger(d)) \/ Restart
  BY <1>36 DEF Dequeue, Calm, Active
<1>37. ASSUME StopWorker PROVE Calm \/ (\E d \in Callers : ByTrigger(d)) \/ Restart
  BY <1>37 DEF StopWorker, Calm, Active
<1>38. ASSUME Restart PROVE Calm \/ (\E d \in Callers : ByTrigger(d)) \/ Restart
  BY <1>38
<1>39. ASSUME UNCHANGED vars PROVE Calm \/ (\E d \in Callers : ByTrigger(d)) \/ Restart
  BY <1>39 DEF Calm, Active
<1> QED
  BY <1>1, <1>2, <1>3, <1>4, <1>5, <1>6, <1>7, <1>8, <1>9, <1>10, <1>11, <1>12,
     <1>13, <1>14, <1>15, <1>16, <1>17, <1>18, <1>19, <1>20, <1>21, <1>22, <1>23,
     <1>24, <1>25, <1>26, <1>27, <1>28, <1>29, <1>30, <1>31, <1>32, <1>33, <1>34,
     <1>35, <1>36, <1>37, <1>38, <1>39 DEF Next, RunStep

\* Fewer newer runs of an active run than callers.
LEMMA NewerStep ==
  ASSUME TypeOK, RunsNumbered, SavedIsLive, NewerBounded, [Next]_vars
  PROVE  NewerBounded'
<1> USE DEF NewerBounded
<1>1. live \subseteq RunIds /\ RunIds \subseteq Nat
  BY DEF TypeOK, RunIds
<1>2. Cardinality(Callers) \in Nat
  BY CallersAssumption, FS_CardinalityType
<1>3. ASSUME NEW r \in live, r \in live', status[r] \in Active, owner'[r] = owner[r],
             live' \subseteq live, \A q \in live' : owner'[q] = owner[q],
             Past(owner[r])' \subseteq Past(owner[r])
      PROVE  (Cardinality(Newer(r)) + Cardinality(Past(owner[r])) < Cardinality(Callers))'
  <2>1. Newer(r)' \subseteq Newer(r)
    BY <1>3 DEF Newer
  <2>2. /\ Cardinality(Newer(r)') \in Nat /\ Cardinality(Newer(r)) \in Nat
        /\ Cardinality(Newer(r)') <= Cardinality(Newer(r))
    BY <2>1, CountedFinite, CountsLess
  <2>3. /\ Cardinality(Past(owner[r])') \in Nat /\ Cardinality(Past(owner[r])) \in Nat
        /\ Cardinality(Past(owner[r])') <= Cardinality(Past(owner[r]))
    BY <1>3, CountedFinite, CountsLess
  <2>4. Cardinality(Newer(r)) + Cardinality(Past(owner[r])) < Cardinality(Callers)
    BY <1>3
  <2>5. Cardinality(Newer(r)') + Cardinality(Past(owner[r])') < Cardinality(Callers)
    BY <1>2, <2>2, <2>3, <2>4
  <2> QED
    BY <1>3, <2>5
<1>4. CASE Calm
  <2>1. \A p : Past(p)' = Past(p)
    BY <1>4 DEF Calm, Past
  <2> QED
    BY <1>1, <1>3, <1>4, <2>1 DEF Calm
<1>5. ASSUME NEW c \in Callers, NEW p \in Pipelines, TriggerCheck(c, p)
      PROVE  NewerBounded'
  <2>1. /\ ActiveRuns(p) = {} /\ UNCHANGED <<live, owner, status>>
        /\ \A o : o # p => Past(o)' \subseteq Past(o)
    BY <1>5, CheckEffect
  <2>2. \A r \in live : status[r] \in Active => owner[r] # p
    BY <2>1 DEF ActiveRuns
  <2> QED
    BY <1>3, <2>1, <2>2
<1>6. ASSUME NEW c \in Callers, TriggerUnresolved(c)
      PROVE  NewerBounded'
  <2>1. UNCHANGED <<live, owner, status>> /\ checked' = [checked EXCEPT ![c] = "none"]
    BY <1>6 DEF TriggerUnresolved, memory
  <2>2. \A p \in Pipelines : Past(p)' \subseteq Past(p)
    BY <2>1, PipelinesAssumption DEF Past, TypeOK
  <2>3. \A r \in live : owner[r] \in Pipelines
    BY <1>1 DEF RunsNumbered
  <2> QED
    BY <1>3, <2>1, <2>2, <2>3
<1>7. ASSUME NEW c \in Callers, TriggerAppend(c)
      PROVE  NewerBounded'
  <2>1. PICK n \in RunIds, p \in Pipelines :
        /\ n \notin live /\ live' = live \cup {n}
        /\ p \in Pipelines /\ owner'[n] = p /\ status'[n] = "queued"
        /\ \A r \in live : r < n /\ owner'[r] = owner[r] /\ status'[r] = status[r]
        /\ \A o \in Pipelines : IF o = p THEN Past(o)' = Past(o) \ {c} /\ c \in Past(o)
                                         ELSE Past(o)' = Past(o)
    BY <1>7, AppendCounts
  <2>2. /\ Cardinality(Past(p)) \in Nat /\ Cardinality(Past(p)) <= Cardinality(Callers)
        /\ Cardinality(Past(p)') = Cardinality(Past(p)) - 1 /\ Cardinality(Past(p)') \in Nat
    BY <2>1, CountedFinite, PastAreCallers, FS_RemoveElement, FS_CardinalityType
  <2>3. (Cardinality(Newer(n)) + Cardinality(Past(owner[n])) < Cardinality(Callers))'
    <3>1. Newer(n)' = {}
      <4>1. n \in Nat /\ ~(n > n) /\ \A q \in live : ~(q > n)
        BY <1>1, <2>1
      <4>2. \A q \in live' : ~(q > n)
        BY <2>1, <4>1
      <4> QED
        BY <4>2 DEF Newer
    <3>2. Cardinality(Newer(n)') = 0
      BY <3>1, FS_EmptySet
    <3>3. Cardinality(Past(owner[n]))' = Cardinality(Past(p)) - 1
      BY <2>1, <2>2
    <3> QED
      BY <1>2, <2>2, <3>2, <3>3
  <2>4. ASSUME NEW r \in live, status[r] \in Active
        PROVE  (Cardinality(Newer(r)) + Cardinality(Past(owner[r])) < Cardinality(Callers))'
    <3>1. /\ Cardinality(Newer(r)) + Cardinality(Past(owner[r])) < Cardinality(Callers)
          /\ owner'[r] = owner[r] /\ owner[r] \in Pipelines
      BY <1>1, <2>1, <2>4 DEF RunsNumbered
    <3>2. CASE owner[r] = p
      <4>1. Newer(r)' = Newer(r) \cup {n} /\ n \notin Newer(r)
        BY <1>1, <2>1, <2>4, <3>2 DEF Newer
      <4>2. Cardinality(Newer(r)') = Cardinality(Newer(r)) + 1 /\ Cardinality(Newer(r)) \in Nat
        BY <4>1, CountedFinite, FS_AddElement
      <4>3. Cardinality(Past(owner[r]))' = Cardinality(Past(p)) - 1
        BY <2>2, <3>1, <3>2
      <4> QED
        BY <1>2, <2>2, <3>1, <3>2, <4>2, <4>3
    <3>3. CASE owner[r] # p
      <4>1. Newer(r)' = Newer(r)
        BY <1>1, <2>1, <2>4, <3>3 DEF Newer
      <4> QED
        BY <2>1, <3>1, <3>3, <4>1
    <3> QED
      BY <3>2, <3>3
  <2> QED
    BY <2>1, <2>3, <2>4
<1>8. CASE Restart
  <2>1. \A r \in live' : status'[r] \notin Active
    BY <1>1, <1>8 DEF Restart, Recovered, Active, SavedIsLive
  <2> QED
    BY <2>1
<1> QED
  BY <1>4, <1>5, <1>6, <1>7, <1>8, MostStepsCalm DEF ByTrigger

\* As many active runs as callers, at most.
LEMMA ActivesStep ==
  ASSUME TypeOK, RunsNumbered, SavedIsLive, ActivesBounded, [Next]_vars
  PROVE  ActivesBounded'
<1> USE DEF ActivesBounded
<1>1. live \subseteq RunIds
  BY DEF TypeOK
<1>2. Cardinality(Callers) \in Nat
  BY CallersAssumption, FS_CardinalityType
<1>3. ASSUME NEW p \in Pipelines, ActiveRuns(p)' \subseteq ActiveRuns(p),
             Past(p)' \subseteq Past(p)
      PROVE  Cardinality(ActiveRuns(p)') + Cardinality(Past(p)') <= Cardinality(Callers)
  <2>1. /\ Cardinality(ActiveRuns(p)') \in Nat /\ Cardinality(ActiveRuns(p)) \in Nat
        /\ Cardinality(ActiveRuns(p)') <= Cardinality(ActiveRuns(p))
        /\ Cardinality(Past(p)') \in Nat /\ Cardinality(Past(p)) \in Nat
        /\ Cardinality(Past(p)') <= Cardinality(Past(p))
    BY <1>3, CountedFinite, CountsLess
  <2>2. Cardinality(ActiveRuns(p)) + Cardinality(Past(p)) <= Cardinality(Callers)
    OBVIOUS
  <2> QED
    BY <1>2, <2>1, <2>2
<1>4. CASE Calm
  <2>1. \A p : Past(p)' = Past(p) /\ ActiveRuns(p)' \subseteq ActiveRuns(p)
    BY <1>1, <1>4 DEF Calm, Past, ActiveRuns
  <2> QED
    BY <1>3, <2>1
<1>5. ASSUME NEW c \in Callers, NEW p \in Pipelines, TriggerCheck(c, p)
      PROVE  ActivesBounded'
  <2>1. /\ ActiveRuns(p) = {} /\ \A o : o # p => Past(o)' \subseteq Past(o)
        /\ \A o : ActiveRuns(o)' = ActiveRuns(o)
    BY <1>5, CheckEffect DEF ActiveRuns
  <2>2. Cardinality(ActiveRuns(p)') = 0
    BY <2>1, FS_EmptySet
  <2>3. Past(p)' \subseteq Callers
    BY DEF Past
  <2>4. Cardinality(Past(p)') \in Nat /\ Cardinality(Past(p)') <= Cardinality(Callers)
    BY <2>3, CallersAssumption, CountsLess
  <2>5. Cardinality(ActiveRuns(p)') + Cardinality(Past(p)') <= Cardinality(Callers)
    BY <1>2, <2>2, <2>4
  <2>6. ASSUME NEW o \in Pipelines
        PROVE  Cardinality(ActiveRuns(o)') + Cardinality(Past(o)') <= Cardinality(Callers)
    BY <1>3, <2>1, <2>5
  <2> QED
    BY <2>6
<1>6. ASSUME NEW c \in Callers, TriggerUnresolved(c)
      PROVE  ActivesBounded'
  <2>1. UNCHANGED <<live, owner, status>> /\ checked' = [checked EXCEPT ![c] = "none"]
    BY <1>6 DEF TriggerUnresolved, memory
  <2>2. \A p \in Pipelines : Past(p)' \subseteq Past(p)
    BY <2>1, PipelinesAssumption DEF Past, TypeOK
  <2>3. \A p : ActiveRuns(p)' = ActiveRuns(p)
    BY <2>1 DEF ActiveRuns
  <2> QED
    BY <1>3, <2>2, <2>3
<1>7. ASSUME NEW c \in Callers, TriggerAppend(c), NEW o \in Pipelines
      PROVE  Cardinality(ActiveRuns(o)') + Cardinality(Past(o)') <= Cardinality(Callers)
  <2>1. PICK n \in RunIds, p \in Pipelines :
        /\ n \notin live /\ live' = live \cup {n}
        /\ p \in Pipelines /\ owner'[n] = p /\ status'[n] = "queued"
        /\ \A r \in live : owner'[r] = owner[r] /\ status'[r] = status[r]
        /\ IF o = p THEN Past(o)' = Past(o) \ {c} /\ c \in Past(o)
                    ELSE Past(o)' = Past(o)
    BY <1>7, AppendCounts
  <2>2. CASE o # p
    <3>1. ActiveRuns(o)' = ActiveRuns(o)
      BY <2>1, <2>2 DEF ActiveRuns
    <3> QED
      BY <1>3, <2>1, <2>2, <3>1
  <2>3. CASE o = p
    <3>1. ActiveRuns(o)' = ActiveRuns(o) \cup {n} /\ n \notin ActiveRuns(o)
      BY <2>1, <2>3 DEF ActiveRuns, Active
    <3>2. /\ Cardinality(ActiveRuns(o)') = Cardinality(ActiveRuns(o)) + 1
          /\ Cardinality(ActiveRuns(o)) \in Nat
      BY <3>1, CountedFinite, FS_AddElement
    <3>3. Cardinality(Past(o)') = Cardinality(Past(o)) - 1 /\ Cardinality(Past(o)) \in Nat
      BY <2>1, <2>3, CountedFinite, FS_RemoveElement
    <3>4. Cardinality(ActiveRuns(o)) + Cardinality(Past(o)) <= Cardinality(Callers)
      OBVIOUS
    <3> QED
      BY <1>2, <3>2, <3>3, <3>4
  <2> QED
    BY <2>2, <2>3
<1>8. CASE Restart
  <2>1. \A r \in live' : status'[r] \notin Active
    BY <1>1, <1>8 DEF Restart, Recovered, Active, SavedIsLive
  <2>2. \A p : ActiveRuns(p)' = {}
    BY <2>1 DEF ActiveRuns
  <2>3. \A p \in Pipelines : Past(p)' = {}
    BY <1>8, PipelinesAssumption DEF Restart, Past
  <2> QED
    BY <1>3, <2>2, <2>3
<1> QED
  BY <1>4, <1>5, <1>6, <1>7, <1>8, MostStepsCalm DEF ByTrigger

\* What pruning removes has as many newer runs as the history is long.
LEMMA PruningSparesActives ==
  ASSUME TypeOK, NewerBounded, EnoughHistory, NEW p,
         NEW r \in live, status[r] \in Active
  PROVE  r \notin Excess(p)
<1>1. SUFFICES ASSUME r \in Excess(p) PROVE FALSE
  OBVIOUS
<1> DEFINE newer == {n \in {m \in live : owner[m] = p} : n > r}
<1>2. owner[r] = p /\ Cardinality(newer) >= HistoryLimit(p)
  BY <1>1 DEF Excess
<1>3. newer = Newer(r)
  BY <1>2 DEF Newer
<1>4. Cardinality(Newer(r)) + Cardinality(Past(owner[r])) < Cardinality(Callers)
  BY DEF NewerBounded
<1>5. Cardinality(Callers) \in Nat /\ HistoryLimit(p) \in Nat /\ HistoryLimit(p) >= Cardinality(Callers)
  BY MaxRunsAssumption, CallersAssumption, FS_CardinalityType DEF EnoughHistory, HistoryLimit
<1>6. Cardinality(Newer(r)) \in Nat /\ Cardinality(Past(owner[r])) \in Nat
  BY CountedFinite
<1> HIDE DEF newer
<1> QED
  BY <1>2, <1>3, <1>4, <1>5, <1>6

\* No active run leaves the history.
LEMMA ActivesLiveStep ==
  ASSUME TypeOK, RunsNumbered, NewerBounded, EnoughHistory, ActivesLive, [Next]_vars
  PROVE  ActivesLive'
<1> USE DEF ActivesLive
<1>1. CASE Calm
  <2>1. \A r \in RunIds : status'[r] \in Active => status[r] \in Active
    BY <1>1 DEF Calm
  <2>2. CASE live' = live
    BY <2>1, <2>2
  <2>3. ASSUME NEW q \in RunIds, PruneRuns(q) PROVE ActivesLive'
    <3>1. UNCHANGED status /\ live' = live \ Excess(owner[q])
      BY <2>3 DEF PruneRuns
    <3> QED
      BY <3>1, PruningSparesActives
  <2>4. ASSUME NEW p \in Pipelines, DeletePipeline(p) PROVE ActivesLive'
    BY <2>4 DEF DeletePipeline, HasActiveRun
  <2> QED
    BY <1>1, <2>2, <2>3, <2>4 DEF Calm
<1>2. ASSUME NEW c \in Callers, NEW p \in Pipelines, TriggerCheck(c, p) PROVE ActivesLive'
  BY <1>2, CheckEffect
<1>3. ASSUME NEW c \in Callers, TriggerUnresolved(c) PROVE ActivesLive'
  BY <1>3 DEF TriggerUnresolved, memory
<1>4. ASSUME NEW c \in Callers, TriggerAppend(c) PROVE ActivesLive'
  <2>1. /\ nextRun' \in RunIds /\ live' = live \cup {nextRun'}
        /\ status' = [status EXCEPT ![nextRun'] = "queued"]
    BY <1>4, AppendedRunIsNew DEF TriggerAppend
  <2> QED
    BY <2>1 DEF TypeOK
<1>5. CASE Restart
  <2>1. \A r \in RunIds : status'[r] \notin Active
    BY <1>5 DEF Restart, Recovered, Active
  <2> QED
    BY <2>1
<1> QED
  BY <1>1, <1>2, <1>3, <1>4, <1>5, MostStepsCalm DEF ByTrigger

-----------------------------------------------------------------------------
(* What follows. *)

RunsInvariant ==
  /\ StatusPlaces /\ SavedStatus /\ UnusedIsFresh /\ FirstStage
  /\ YesWasAccepted /\ ExecutedWasSigned /\ LoopSucceeds
  /\ NewerBounded /\ ActivesBounded

\* A new engine has no runs.
LEMMA InitRuns == Init => RunsInvariant
<1> SUFFICES ASSUME Init PROVE RunsInvariant
  OBVIOUS
<1> USE DEF Init
<1>1. StatusPlaces /\ SavedStatus /\ UnusedIsFresh /\ FirstStage
  BY DEF StatusPlaces, SavedStatus, UnusedIsFresh, FirstStage, Entering, Active
<1>2. YesWasAccepted
  BY DEF YesWasAccepted
<1>3. ExecutedWasSigned
  BY DEF ExecutedWasSigned, Executed
<1>4. LoopSucceeds
  BY DEF LoopSucceeds, LoopAt, InLoop, Executing, Waiting, Unsaved
<1>5. NewerBounded /\ ActivesBounded
  <2>1. \A r : r \notin live
    OBVIOUS
  <2>2. \A p : ActiveRuns(p) = {}
    BY <2>1 DEF ActiveRuns
  <2>3. \A p : Cardinality(ActiveRuns(p)) = 0
    BY <2>2, FS_EmptySet
  <2>4. \A p : /\ Cardinality(Past(p)) \in Nat /\ Cardinality(Callers) \in Nat
               /\ Cardinality(Past(p)) <= Cardinality(Callers)
    BY PastAreCallers
  <2> QED
    BY <2>1, <2>3, <2>4 DEF NewerBounded, ActivesBounded
<1> QED
  BY <1>1, <1>2, <1>3, <1>4, <1>5 DEF RunsInvariant

\* Every step keeps the invariant of the runs beside the engine's own.
LEMMA RunsStep == EngineInvariant /\ RunsInvariant /\ [Next]_vars => RunsInvariant'
BY PlacesStep, SavedStatusStep, FreshStep, FirstStageStep, YesStep, ExecutedStep, LoopStep,
   NewerStep, ActivesStep DEF EngineInvariant, RunsInvariant

\* The invariant of the runs holds in every state the engine reaches.
THEOREM RunsInvariantHolds == Spec => []RunsInvariant
BY InitRuns, RunsStep, InvariantHolds, PTL DEF Spec

\* A queued or running run always has a goroutine or a place in the queue that
\* will take it further, also after a restart.
THEOREM NoZombies == Spec => []NoZombieRun
<1>1. ASSUME EngineInvariant, RunsInvariant PROVE NoZombieRun
  <2>1. live \subseteq RunIds /\ StatusPlaces
    BY <1>1 DEF EngineInvariant, TypeOK, RunsInvariant
  <2> QED
    BY <2>1 DEF StatusPlaces, NoZombieRun, Active, Executing, Waiting, Unsaved, Entering
<1> QED
  BY <1>1, InvariantHolds, RunsInvariantHolds, PTL

\* No stage with a gate executes without a yes that Approve accepted for exactly
\* that stage, however answers, cancels, deadlines and restarts race.
THEOREM GatesCorrect == Spec => []GateRespected
<1>1. RunsInvariant => GateRespected
  BY Zenon DEF RunsInvariant, ExecutedWasSigned, GateRespected, Gated, Signed, Executed
<1> QED
  BY <1>1, RunsInvariantHolds, PTL

\* A run reported as success ran every one of its stages to success.
THEOREM SuccessCorrect == Spec => []SuccessMeansAllStages
<1>1. RunsInvariant => SuccessMeansAllStages
  BY DEF RunsInvariant, LoopSucceeds, LoopAt, AllSucceeded, SuccessMeansAllStages
<1> QED
  BY <1>1, RunsInvariantHolds, PTL

\* However the callers of Trigger race, a pipeline never has more active runs than
\* there are callers.
THEOREM ActivesCorrect == Spec => []ActivesBounded
<1>1. RunsInvariant => ActivesBounded
  BY DEF RunsInvariant
<1> QED
  BY <1>1, RunsInvariantHolds, PTL

\* With one caller of Trigger at a time, no pipeline has two active runs.
THEOREM OneActive ==
  ASSUME Cardinality(Callers) <= 1
  PROVE  Spec => []OneActiveRun
<1>1. ASSUME EngineInvariant, RunsInvariant PROVE OneActiveRun
  <2>1. TypeOK /\ NewerBounded /\ live \subseteq Nat
    BY <1>1 DEF EngineInvariant, RunsInvariant, TypeOK, RunIds
  <2>2. ASSUME NEW r \in live, NEW q \in live, owner[r] = owner[q],
               status[r] \in Active, q > r
        PROVE  FALSE
    <3>1. q \in Newer(r)
      BY <2>2 DEF Newer
    <3>2. Cardinality(Newer(r)) # 0 /\ Cardinality(Newer(r)) \in Nat
      BY <2>1, <3>1, CountedFinite, FS_EmptySet
    <3>3. Cardinality(Newer(r)) + Cardinality(Past(owner[r])) < Cardinality(Callers)
      BY <2>1, <2>2 DEF NewerBounded
    <3>4. Cardinality(Past(owner[r])) \in Nat /\ Cardinality(Callers) \in Nat
      BY PastAreCallers
    <3> QED
      BY <3>2, <3>3, <3>4
  <2>3. \A r, q \in live : r = q \/ q > r \/ r > q
    BY <2>1
  <2> QED
    BY <2>2, <2>3 DEF OneActiveRun
<1> QED
  BY <1>1, InvariantHolds, RunsInvariantHolds, PTL

\* If no history is shorter than the number of callers of Trigger, no active run
\* leaves the history.
LEMMA ActivesLiveHolds ==
  ASSUME EnoughHistory
  PROVE  Spec => []ActivesLive
<1>1. Init => ActivesLive
  BY DEF Init, ActivesLive, Active
<1>2. EngineInvariant /\ RunsInvariant /\ ActivesLive /\ [Next]_vars => ActivesLive'
  BY ActivesLiveStep, EnoughHistory DEF EngineInvariant, RunsInvariant
<1> QED
  BY <1>1, <1>2, InvariantHolds, RunsInvariantHolds, PTL DEF Spec

\* Then neither pruning nor deleting removes a run that executes.
THEOREM ActiveStaysInHistory ==
  ASSUME EnoughHistory
  PROVE  Spec => []ActiveInHistory
<1>1. EngineInvariant /\ ActivesLive => ActiveInHistory
  BY DEF EngineInvariant, ExecutingIsRunning, ActivesLive, Active, ActiveInHistory
<1> QED
  BY <1>1, ActivesLiveHolds, InvariantHolds, PTL

-----------------------------------------------------------------------------
(* The engine implements RunLifecycle. *)

\* A step that moves no run for its client, and one that moves one run.
LEMMA NothingMoves ==
  ASSUME \A r \in RunIds : lifecycle'[r] = lifecycle[r]
  PROVE  lifecycle' = lifecycle
BY DEF lifecycle

LEMMA OneRunMoves ==
  ASSUME NEW q \in RunIds, NEW s, lifecycle'[q] = s,
         \A r \in RunIds : r # q => lifecycle'[r] = lifecycle[r]
  PROVE  lifecycle' = [lifecycle EXCEPT ![q] = s]
BY DEF lifecycle

\* What a client sees of a run depends on its status and on its place only.
LEMMA SameForClient ==
  ASSUME NEW r \in RunIds, status'[r] = status[r], Offered(r)' <=> Offered(r)
  PROVE  lifecycle'[r] = lifecycle[r]
BY DEF lifecycle

\* Every step moves at most one run, as RunLifecycle allows; a restart is an
\* interrupt.
LEMMA LifecycleStep ==
  ASSUME EngineInvariant, RunsInvariant, ActivesLive, [Next]_vars
  PROVE  [Lifecycle!Next]_lifecycle
<1> USE DEF vars, memory, goroutines, channels, callers, Goto, Persist, StagesOnly,
            SaveStages, EngineInvariant, RunsInvariant, TypeOK
<1>1. ASSUME NEW c \in Callers, NEW p \in Pipelines, TriggerCheck(c, p)
      PROVE  [Lifecycle!Next]_lifecycle
  <2>1. \A r \in RunIds : status'[r] = status[r] /\ (Offered(r)' <=> Offered(r))
    BY <1>1 DEF Offered, TriggerCheck
  <2> QED
    BY <2>1, SameForClient, NothingMoves
<1>2. ASSUME NEW c \in Callers, TriggerUnresolved(c) PROVE [Lifecycle!Next]_lifecycle
  <2>1. \A r \in RunIds : status'[r] = status[r] /\ (Offered(r)' <=> Offered(r))
    BY <1>2 DEF Offered, TriggerUnresolved
  <2> QED
    BY <2>1, SameForClient, NothingMoves
<1>3. ASSUME NEW c \in Callers, TriggerAppend(c) PROVE [Lifecycle!Next]_lifecycle
  <2>1. \A r \in RunIds : r # nextRun' => status'[r] = status[r] /\ at'[r] = at[r]
    BY <1>3, AppendedRunIsNew DEF TriggerAppend
  <2>2. status[nextRun'] = "none" /\ at'[nextRun'] = "offer"
    BY <1>3, AppendedRunIsNew DEF TriggerAppend
  <2>3. \A r \in RunIds : lifecycle'[r] = lifecycle[r]
    BY <2>1, <2>2 DEF lifecycle, Offered
  <2> QED
    BY <2>3, NothingMoves
<1>4. ASSUME NEW q \in RunIds, TriggerOffer(q) PROVE [Lifecycle!Next]_lifecycle
  <2>1. \A r \in RunIds : r # q => lifecycle'[r] = lifecycle[r]
    BY <1>4 DEF lifecycle, Offered, TriggerOffer
  <2>2. lifecycle[q] = "absent" /\ status[q] \in {"queued", "canceled"}
    BY <1>4 DEF lifecycle, Offered, TriggerOffer, StatusPlaces, Entering
  <2>3. lifecycle'[q] \in {"absent", status[q]}
    BY <1>4 DEF lifecycle, TriggerOffer
  <2>4. CASE lifecycle'[q] = "absent"
    BY <2>1, <2>2, <2>4, NothingMoves
  <2>5. CASE lifecycle'[q] = "queued"
    <3>1. lifecycle' = [lifecycle EXCEPT ![q] = "queued"]
      BY <2>1, <2>5, OneRunMoves
    <3> QED
      BY <2>2, <3>1 DEF Lifecycle!Next, Lifecycle!Accept, Lifecycle!Become
  <2>6. CASE lifecycle'[q] = "canceled"
    <3>1. lifecycle' = [lifecycle EXCEPT ![q] = "canceled"]
      BY <2>1, <2>6, OneRunMoves
    <3> QED
      BY <2>2, <3>1 DEF Lifecycle!Next, Lifecycle!Refuse, Lifecycle!Become
  <2> QED
    BY <2>2, <2>3, <2>4, <2>5, <2>6
<1>5. ASSUME NEW q \in RunIds, FinalizeRefused(q) PROVE [Lifecycle!Next]_lifecycle
  <2>1. \A r \in RunIds : r # q => lifecycle'[r] = lifecycle[r]
    BY <1>5 DEF lifecycle, Offered, FinalizeRefused, Finalize
  <2>2. lifecycle[q] = "absent" /\ lifecycle'[q] = "failed"
    BY <1>5 DEF lifecycle, Offered, FinalizeRefused, Finalize
  <2>3. lifecycle' = [lifecycle EXCEPT ![q] = "failed"]
    BY <2>1, <2>2, OneRunMoves
  <2> QED
    BY <2>2, <2>3 DEF Lifecycle!Next, Lifecycle!Refuse, Lifecycle!Become
<1>6. ASSUME NEW q \in RunIds, FinalizeRun(q) PROVE [Lifecycle!Next]_lifecycle
  <2>1. \A r \in RunIds : r # q => lifecycle'[r] = lifecycle[r]
    BY <1>6 DEF lifecycle, Offered, FinalizeRun, Finalize
  <2>2. lifecycle[q] = "running" /\ lifecycle'[q] = outcome[q] /\ outcome[q] \in Terminal
    <3>1. at[q] = "finish" /\ status[q] = "running"
      BY <1>6 DEF FinalizeRun, ExecutingIsRunning, Executing
    <3>2. at'[q] = "prune" /\ status'[q] = outcome[q] /\ outcome[q] \in Terminal
      BY <1>6 DEF FinalizeRun, Finalize
    <3> QED
      BY <3>1, <3>2 DEF lifecycle, Offered, Terminal
  <2>3. lifecycle' = [lifecycle EXCEPT ![q] = outcome[q]]
    BY <2>1, <2>2, OneRunMoves
  <2> QED
    BY <2>2, <2>3
    DEF Lifecycle!Next, Lifecycle!End, Lifecycle!Become, Lifecycle!Ended, Terminal
<1>7. ASSUME NEW q \in RunIds, PruneRuns(q) PROVE [Lifecycle!Next]_lifecycle
  <2>1. \A r \in RunIds : status'[r] = status[r] /\ (Offered(r)' <=> Offered(r))
    BY <1>7 DEF Offered, PruneRuns
  <2> QED
    BY <2>1, SameForClient, NothingMoves
<1>8. ASSUME NEW q \in RunIds, TakeSlot(q) PROVE [Lifecycle!Next]_lifecycle
  <2>1. \A r \in RunIds : status'[r] = status[r] /\ (Offered(r)' <=> Offered(r))
    BY <1>8 DEF Offered, TakeSlot
  <2> QED
    BY <2>1, SameForClient, NothingMoves
<1>9. ASSUME NEW q \in RunIds, LeaveSlot(q) PROVE [Lifecycle!Next]_lifecycle
  <2>1. \A r \in RunIds : status'[r] = status[r] /\ (Offered(r)' <=> Offered(r))
    BY <1>9 DEF Offered, LeaveSlot
  <2> QED
    BY <2>1, SameForClient, NothingMoves
<1>10. ASSUME NEW q \in RunIds, Begin(q) PROVE [Lifecycle!Next]_lifecycle
  <2>1. \A r \in RunIds : r # q => lifecycle'[r] = lifecycle[r]
    BY <1>10 DEF lifecycle, Offered, Begin
  <2>2. lifecycle[q] = "queued" /\ lifecycle'[q] = "running"
    BY <1>10 DEF lifecycle, Offered, Begin, StillQueued
  <2>3. lifecycle' = [lifecycle EXCEPT ![q] = "running"]
    BY <2>1, <2>2, OneRunMoves
  <2> QED
    BY <2>2, <2>3 DEF Lifecycle!Next, Lifecycle!Start, Lifecycle!Become
<1>11. ASSUME NEW q \in RunIds, BeginCanceled(q) PROVE [Lifecycle!Next]_lifecycle
  <2>1. \A r \in RunIds : status'[r] = status[r] /\ (Offered(r)' <=> Offered(r))
    BY <1>11 DEF Offered, BeginCanceled, StillQueued
  <2> QED
    BY <2>1, SameForClient, NothingMoves
<1>12. ASSUME NEW q \in RunIds, OpenLog(q) PROVE [Lifecycle!Next]_lifecycle
  <2>1. PICK place \in {"finish", "gate", "start"} : at' = [at EXCEPT ![q] = place]
    BY <1>12, OpenLogEffect
  <2>2. at[q] = "log" /\ UNCHANGED status
    BY <1>12 DEF OpenLog
  <2>3. \A r \in RunIds : status'[r] = status[r] /\ (Offered(r)' <=> Offered(r))
    BY <2>1, <2>2 DEF Offered
  <2> QED
    BY <2>3, SameForClient, NothingMoves
<1>13. ASSUME NEW q \in RunIds, GateStage(q) PROVE [Lifecycle!Next]_lifecycle
  <2>1. \A r \in RunIds : status'[r] = status[r] /\ (Offered(r)' <=> Offered(r))
    BY <1>13 DEF Offered, GateStage, SetStage
  <2> QED
    BY <2>1, SameForClient, NothingMoves
<1>14. ASSUME NEW q \in RunIds, YieldSlot(q) PROVE [Lifecycle!Next]_lifecycle
  <2>1. \A r \in RunIds : status'[r] = status[r] /\ (Offered(r)' <=> Offered(r))
    BY <1>14 DEF Offered, YieldSlot
  <2> QED
    BY <2>1, SameForClient, NothingMoves
<1>15. ASSUME NEW q \in RunIds, RegisterApproval(q) PROVE [Lifecycle!Next]_lifecycle
  <2>1. \A r \in RunIds : status'[r] = status[r] /\ (Offered(r)' <=> Offered(r))
    BY <1>15 DEF Offered, RegisterApproval
  <2> QED
    BY <2>1, SameForClient, NothingMoves
<1>16. ASSUME NEW q \in RunIds, ReceiveAnswer(q) PROVE [Lifecycle!Next]_lifecycle
  <2>1. \A r \in RunIds : status'[r] = status[r] /\ (Offered(r)' <=> Offered(r))
    BY <1>16 DEF Offered, ReceiveAnswer
  <2> QED
    BY <2>1, SameForClient, NothingMoves
<1>17. ASSUME NEW q \in RunIds, StopWaiting(q) PROVE [Lifecycle!Next]_lifecycle
  <2>1. \A r \in RunIds : status'[r] = status[r] /\ (Offered(r)' <=> Offered(r))
    BY <1>17 DEF Offered, StopWaiting
  <2> QED
    BY <2>1, SameForClient, NothingMoves
<1>18. ASSUME NEW q \in RunIds, Unregister(q) PROVE [Lifecycle!Next]_lifecycle
  <2>1. \A r \in RunIds : status'[r] = status[r] /\ (Offered(r)' <=> Offered(r))
    BY <1>18 DEF Offered, Unregister
  <2> QED
    BY <2>1, SameForClient, NothingMoves
<1>19. ASSUME NEW q \in RunIds, RetakeSlot(q) PROVE [Lifecycle!Next]_lifecycle
  <2>1. \A r \in RunIds : status'[r] = status[r] /\ (Offered(r)' <=> Offered(r))
    BY <1>19 DEF Offered, RetakeSlot
  <2> QED
    BY <2>1, SameForClient, NothingMoves
<1>20. ASSUME NEW q \in RunIds, DenyStage(q) PROVE [Lifecycle!Next]_lifecycle
  <2>1. \A r \in RunIds : status'[r] = status[r] /\ (Offered(r)' <=> Offered(r))
    BY <1>20 DEF Offered, DenyStage, SetStageSkipRest
  <2> QED
    BY <2>1, SameForClient, NothingMoves
<1>21. ASSUME NEW q \in RunIds, StartStage(q) PROVE [Lifecycle!Next]_lifecycle
  <2>1. \A r \in RunIds : status'[r] = status[r] /\ (Offered(r)' <=> Offered(r))
    BY <1>21 DEF Offered, StartStage, SetStage
  <2> QED
    BY <2>1, SameForClient, NothingMoves
<1>22. ASSUME NEW q \in RunIds, StageEnds(q) PROVE [Lifecycle!Next]_lifecycle
  <2>1. \A r \in RunIds : status'[r] = status[r] /\ (Offered(r)' <=> Offered(r))
    BY <1>22 DEF Offered, StageEnds, SetStage, StageResults
  <2> QED
    BY <2>1, SameForClient, NothingMoves
<1>23. ASSUME NEW q \in RunIds, StageSucceeds(q) PROVE [Lifecycle!Next]_lifecycle
  <2>1. \A r \in RunIds : status'[r] = status[r] /\ (Offered(r)' <=> Offered(r))
    BY <1>23, ArrivePlace DEF Offered, StageSucceeds
  <2> QED
    BY <2>1, SameForClient, NothingMoves
<1>24. ASSUME NEW q \in RunIds, StageEndsRun(q) PROVE [Lifecycle!Next]_lifecycle
  <2>1. \A r \in RunIds : status'[r] = status[r] /\ (Offered(r)' <=> Offered(r))
    BY <1>24 DEF Offered, StageEndsRun
  <2> QED
    BY <2>1, SameForClient, NothingMoves
<1>25. ASSUME NEW q \in RunIds, SaveWaiting(q) PROVE [Lifecycle!Next]_lifecycle
  <2>1. \A r \in RunIds : status'[r] = status[r] /\ (Offered(r)' <=> Offered(r))
    BY <1>25 DEF Offered, SaveWaiting
  <2> QED
    BY <2>1, SameForClient, NothingMoves
<1>26. ASSUME NEW q \in RunIds, SaveDenied(q) PROVE [Lifecycle!Next]_lifecycle
  <2>1. \A r \in RunIds : status'[r] = status[r] /\ (Offered(r)' <=> Offered(r))
    BY <1>26 DEF Offered, SaveDenied
  <2> QED
    BY <2>1, SameForClient, NothingMoves
<1>27. ASSUME NEW q \in RunIds, SaveStarted(q) PROVE [Lifecycle!Next]_lifecycle
  <2>1. \A r \in RunIds : status'[r] = status[r] /\ (Offered(r)' <=> Offered(r))
    BY <1>27 DEF Offered, SaveStarted
  <2> QED
    BY <2>1, SameForClient, NothingMoves
<1>28. ASSUME NEW q \in RunIds, SkipStage(q) PROVE [Lifecycle!Next]_lifecycle
  <2>1. \A r \in RunIds : status'[r] = status[r] /\ (Offered(r)' <=> Offered(r))
    BY <1>28 DEF Offered, SkipStage, ToSkip
  <2> QED
    BY <2>1, SameForClient, NothingMoves
<1>29. ASSUME NEW q \in RunIds, SkippedAll(q) PROVE [Lifecycle!Next]_lifecycle
  <2>1. \A r \in RunIds : status'[r] = status[r] /\ (Offered(r)' <=> Offered(r))
    BY <1>29 DEF Offered, SkippedAll
  <2> QED
    BY <2>1, SameForClient, NothingMoves
<1>30. ASSUME NEW q \in RunIds, CancelQueued(q) PROVE [Lifecycle!Next]_lifecycle
  <2>1. \A r \in RunIds : r # q => lifecycle'[r] = lifecycle[r]
    BY <1>30 DEF lifecycle, Offered, CancelQueued
  <2>2. CASE ~Offered(q)
    <3>1. lifecycle'[q] = lifecycle[q]
      BY <1>30, <2>2 DEF lifecycle, Offered, CancelQueued
    <3> QED
      BY <2>1, <3>1, NothingMoves
  <2>3. CASE Offered(q)
    <3>1. lifecycle[q] = "queued" /\ lifecycle'[q] = "canceled"
      BY <1>30, <2>3 DEF lifecycle, Offered, CancelQueued
    <3>2. lifecycle' = [lifecycle EXCEPT ![q] = "canceled"]
      BY <2>1, <3>1, OneRunMoves
    <3> QED
      BY <3>1, <3>2 DEF Lifecycle!Next, Lifecycle!CancelInQueue, Lifecycle!Become
  <2> QED
    BY <2>2, <2>3
<1>31. ASSUME NEW q \in RunIds, CancelRunning(q) PROVE [Lifecycle!Next]_lifecycle
  <2>1. \A r \in RunIds : status'[r] = status[r] /\ (Offered(r)' <=> Offered(r))
    BY <1>31 DEF Offered, CancelRunning
  <2> QED
    BY <2>1, SameForClient, NothingMoves
<1>32. ASSUME NEW q \in RunIds, Timeout(q) PROVE [Lifecycle!Next]_lifecycle
  <2>1. \A r \in RunIds : status'[r] = status[r] /\ (Offered(r)' <=> Offered(r))
    BY <1>32 DEF Offered, Timeout
  <2> QED
    BY <2>1, SameForClient, NothingMoves
<1>33. ASSUME NEW a \in Approvers, NEW q \in RunIds, NEW answer \in Answer, ApproveLookup(a, q, answer)
      PROVE  [Lifecycle!Next]_lifecycle
  <2>1. \A r \in RunIds : status'[r] = status[r] /\ (Offered(r)' <=> Offered(r))
    BY <1>33 DEF Offered, ApproveLookup
  <2> QED
    BY <2>1, SameForClient, NothingMoves
<1>34. ASSUME NEW a \in Approvers, ApproveSend(a) PROVE [Lifecycle!Next]_lifecycle
  <2>1. \A r \in RunIds : status'[r] = status[r] /\ (Offered(r)' <=> Offered(r))
    BY <1>34 DEF Offered, ApproveSend
  <2> QED
    BY <2>1, SameForClient, NothingMoves
<1>35. ASSUME NEW p \in Pipelines, DeletePipeline(p) PROVE [Lifecycle!Next]_lifecycle
  <2>1. \A r \in RunIds : status'[r] = status[r] /\ (Offered(r)' <=> Offered(r))
    BY <1>35 DEF Offered, DeletePipeline
  <2> QED
    BY <2>1, SameForClient, NothingMoves
<1>36. ASSUME Dequeue PROVE [Lifecycle!Next]_lifecycle
  <2>1. \A r \in RunIds : status'[r] = status[r] /\ (Offered(r)' <=> Offered(r))
    BY <1>36, DequeuedRunWaits DEF Offered, Dequeue
  <2> QED
    BY <2>1, SameForClient, NothingMoves
<1>37. ASSUME StopWorker PROVE [Lifecycle!Next]_lifecycle
  <2>1. \A r \in RunIds : status'[r] = status[r] /\ (Offered(r)' <=> Offered(r))
    BY <1>37 DEF Offered, StopWorker
  <2> QED
    BY <2>1, SameForClient, NothingMoves
<1>38. ASSUME Restart PROVE [Lifecycle!Next]_lifecycle
  <2>1. \A r \in RunIds : lifecycle'[r] = IF status'[r] # "none" THEN status'[r] ELSE "absent"
    BY <1>38 DEF Restart, lifecycle, Offered
  <2>2. ASSUME NEW r \in RunIds, lifecycle[r] = "absent"
        PROVE  lifecycle'[r] \in {"absent", "failed", "canceled"}
    <3>1. status[r] \in {"none", "queued", "canceled"}
      BY <2>2 DEF lifecycle, Offered, StatusPlaces, Entering, RunStatus, Active, Terminal
    <3>2. saved.status[r] \in {"none", "queued", "canceled"}
      BY <3>1 DEF SavedStatus
    <3>3. status'[r] \in {"none", "failed", "canceled"}
      BY <1>38, <3>1, <3>2 DEF Restart, Recovered, Active
    <3> QED
      BY <2>1, <3>3
  <2>3. ASSUME NEW r \in RunIds, lifecycle[r] \in Lifecycle!Unfinished
        PROVE  lifecycle'[r] = "failed"
    <3>1. status[r] \in Active /\ at[r] \notin Entering
      BY <2>3 DEF lifecycle, Offered, Lifecycle!Unfinished, Active, Entering
    <3>2. r \in saved.live
      BY <3>1 DEF ActivesLive, HistoryOnDisk, Entering
    <3>3. saved.status[r] \in Active
      BY <3>1 DEF SavedStatus, Entering
    <3>4. status'[r] = "failed"
      BY <1>38, <3>2, <3>3 DEF Restart, Recovered
    <3> QED
      BY <2>1, <3>4
  <2>4. ASSUME NEW r \in RunIds,
               lifecycle[r] # "absent", lifecycle[r] \notin Lifecycle!Unfinished
        PROVE  lifecycle'[r] = lifecycle[r]
    <3>1. Offered(r) /\ status[r] \in Terminal /\ lifecycle[r] = status[r]
      BY <2>4
      DEF lifecycle, Lifecycle!Unfinished, RunStatus, Active, Terminal
    <3>2. status'[r] = status[r]
      BY <3>1, EndedStep
    <3> QED
      BY <2>1, <3>1, <3>2 DEF Terminal
  <2> DEFINE Gone == {r \in RunIds : lifecycle[r] = "absent"}
             fate == [r \in Gone |-> lifecycle'[r]]
  <2>5. fate \in [Gone -> {"absent", "failed", "canceled"}]
    BY <2>2
  <2>6. lifecycle' = [r \in RunIds |-> IF lifecycle[r] = "absent" THEN fate[r]
                        ELSE IF lifecycle[r] \in Lifecycle!Unfinished THEN "failed"
                        ELSE lifecycle[r]]
    <3>1. \A r \in RunIds : lifecycle'[r] = IF lifecycle[r] = "absent" THEN fate[r]
                        ELSE IF lifecycle[r] \in Lifecycle!Unfinished THEN "failed"
                        ELSE lifecycle[r]
      BY <2>3, <2>4
    <3>2. lifecycle' = [r \in RunIds |-> lifecycle'[r]]
      BY DEF lifecycle
    <3> QED
      BY <3>1, <3>2
  <2> HIDE DEF fate
  <2>7. Lifecycle!Interrupt
    BY <2>5, <2>6 DEF Lifecycle!Interrupt
  <2> QED
    BY <2>7 DEF Lifecycle!Next
<1>39. ASSUME UNCHANGED vars PROVE [Lifecycle!Next]_lifecycle
  <2>1. \A r \in RunIds : status'[r] = status[r] /\ (Offered(r)' <=> Offered(r))
    BY <1>39 DEF Offered
  <2> QED
    BY <2>1, SameForClient, NothingMoves
<1> QED
  BY <1>1, <1>2, <1>3, <1>4, <1>5, <1>6, <1>7, <1>8, <1>9, <1>10, <1>11, <1>12,
     <1>13, <1>14, <1>15, <1>16, <1>17, <1>18, <1>19, <1>20, <1>21, <1>22, <1>23,
     <1>24, <1>25, <1>26, <1>27, <1>28, <1>29, <1>30, <1>31, <1>32, <1>33, <1>34,
     <1>35, <1>36, <1>37, <1>38, <1>39 DEF Next, RunStep

\* If no history is shorter than the number of callers of Trigger, the engine
\* implements RunLifecycle, restarts included.
THEOREM EngineImplementsLifecycle ==
  ASSUME EnoughHistory
  PROVE  Spec => ImplementsLifecycle
<1>1. Init => Lifecycle!Init
  BY DEF Init, Lifecycle!Init, lifecycle, Offered
<1>2. EngineInvariant /\ RunsInvariant /\ ActivesLive /\ [Next]_vars
        => [Lifecycle!Next]_lifecycle
  BY LifecycleStep
<1> QED
  BY <1>1, <1>2, InvariantHolds, RunsInvariantHolds, ActivesLiveHolds, PTL
  DEF Spec, ImplementsLifecycle, Lifecycle!Spec


=============================================================================
