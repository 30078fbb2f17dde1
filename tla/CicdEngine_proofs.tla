-------------------------- MODULE CicdEngine_proofs --------------------------
(***************************************************************************)
(* Proofs about CicdEngine for every number of pipelines, callers, runs,   *)
(* slots and restarts: its inductive invariant EngineInvariant, the safety *)
(* properties that follow from it, and that an ended run stays as it is.   *)
(***************************************************************************)
EXTENDS CicdEngine, FiniteSetTheorems, SequenceTheorems, TLAPS

-----------------------------------------------------------------------------
(* Facts about the operators the actions are built from. *)

\* The stage loop continues at one of three places.
LEMMA ArrivePlace ==
  ASSUME NEW r, NEW i
  PROVE  Arrive(r, i) \in {"finish", "gate", "start"}
BY DEF Arrive

\* The runs that hold a slot form a finite set.
LEMMA HoldersFinite == IsFiniteSet(SlotHolders)
<1>1. IsFiniteSet(RunIds)
  BY BoundAssumption, FS_Interval DEF RunIds
<1> QED
  BY <1>1, FS_Subset DEF SlotHolders

\* A run that holds a slot accounts for a token of e.sem.
LEMMA HolderCounted ==
  ASSUME SlotsCounted, NEW r \in RunIds, at[r] \in HoldsSlot
  PROVE  slots \in Nat \ {0}
<1>1. r \in SlotHolders
  BY DEF SlotHolders
<1>2. Cardinality(SlotHolders) \in Nat /\ Cardinality(SlotHolders) # 0
  BY <1>1, HoldersFinite, FS_CardinalityType, FS_EmptySet
<1> QED
  BY <1>2 DEF SlotsCounted

\* A goroutine that moves without touching e.sem leaves the holders as they are.
LEMMA SameHolders ==
  ASSUME TypeOK, SlotsCounted, NEW r \in RunIds, NEW place,
         Goto(r, place), place \in HoldsSlot <=> at[r] \in HoldsSlot, slots' = slots
  PROVE  SlotsCounted'
<1>1. SlotHolders' = SlotHolders
  BY DEF TypeOK, Goto, SlotHolders
<1> QED
  BY <1>1 DEF SlotsCounted

\* A send on e.sem by a goroutine that holds no slot.
LEMMA SlotGained ==
  ASSUME TypeOK, SlotsCounted, NEW r \in RunIds, NEW place \in HoldsSlot,
         Goto(r, place), at[r] \notin HoldsSlot, SlotFree, slots' = slots + 1
  PROVE  SlotsCounted'
<1>1. SlotHolders' = SlotHolders \cup {r} /\ r \notin SlotHolders
  BY DEF TypeOK, Goto, SlotHolders
<1>2. Cardinality(SlotHolders') = Cardinality(SlotHolders) + 1
  BY <1>1, HoldersFinite, FS_AddElement
<1>3. slots + 1 <= MaxParallel
  BY MaxParallelAssumption DEF TypeOK, SlotFree
<1> QED
  BY <1>2, <1>3 DEF SlotsCounted

\* A receive from e.sem by a goroutine that holds a slot.
LEMMA SlotLost ==
  ASSUME TypeOK, SlotsCounted, NEW r \in RunIds, NEW place,
         Goto(r, place), at[r] \in HoldsSlot, place \notin HoldsSlot, slots' = slots - 1
  PROVE  SlotsCounted'
<1>1. SlotHolders' = SlotHolders \ {r} /\ r \in SlotHolders
  BY DEF TypeOK, Goto, SlotHolders
<1>2. Cardinality(SlotHolders') = Cardinality(SlotHolders) - 1
  BY <1>1, HoldersFinite, FS_RemoveElement
<1>3. slots - 1 <= MaxParallel
  BY MaxParallelAssumption DEF TypeOK, SlotsCounted
<1> QED
  BY <1>2, <1>3 DEF SlotsCounted

\* Trigger appends a run that nothing refers to yet.
LEMMA AppendedRunIsNew ==
  ASSUME TypeOK, RunsNumbered, NEW c \in Callers, TriggerAppend(c)
  PROVE  /\ nextRun' = nextRun + 1 /\ nextRun' \in RunIds /\ nextRun' \in 0..RunBound
         /\ at[nextRun'] = "none" /\ status[nextRun'] = "none"
         /\ checked[c] \in Pipelines
<1>1. nextRun' = nextRun + 1 /\ nextRun' \in RunIds /\ nextRun' \in 0..RunBound
  BY BoundAssumption DEF TypeOK, TriggerAppend, RunIds
<1>2. nextRun' > nextRun
  BY <1>1 DEF TypeOK
<1> QED
  BY <1>1, <1>2 DEF RunsNumbered, TypeOK, TriggerAppend

\* The worker takes a run that waits in the queue.
LEMMA DequeuedRunWaits ==
  ASSUME TypeOK, QueuePlaces, Dequeue
  PROVE  Head(queue) \in RunIds /\ at[Head(queue)] = "queued"
<1>1. queue \in Seq(RunIds) /\ queue # <<>>
  BY DEF TypeOK, Dequeue
<1>2. Head(queue) \in RunIds /\ Head(queue) = queue[1] /\ 1 \in 1..Len(queue)
  BY <1>1, HeadTailProperties
<1> QED
  BY <1>2 DEF QueuePlaces

-----------------------------------------------------------------------------
(* One lemma per conjunct of EngineInvariant, one step per action. *)

\* Every step keeps the types.
LEMMA TypeStep ==
  TypeOK /\ RunsNumbered /\ QueuePlaces /\ SlotsCounted /\ EndedHasResult /\ [Next]_vars => TypeOK'
<1> SUFFICES ASSUME TypeOK, RunsNumbered, QueuePlaces, SlotsCounted, EndedHasResult, [Next]_vars
             PROVE  TypeOK'
  OBVIOUS
<1> USE DEF StagesOnly, SaveStages, TypeOK, vars, memory, goroutines, channels, callers, Goto, Persist
<1>1. ASSUME NEW c \in Callers, NEW p \in Pipelines, TriggerCheck(c, p) PROVE  TypeOK'
  BY <1>1 DEF TriggerCheck
<1>2. ASSUME NEW c \in Callers, TriggerUnresolved(c) PROVE  TypeOK'
  BY <1>2 DEF TriggerUnresolved
<1>3. ASSUME NEW c \in Callers, TriggerAppend(c) PROVE  TypeOK'
  BY <1>3, AppendedRunIsNew DEF TriggerAppend, RunStatus, Active, Place
<1>4. ASSUME NEW r \in RunIds, TriggerOffer(r) PROVE  TypeOK'
  <2>1. Append(queue, r) \in Seq(RunIds)
    BY AppendProperties
  <2>2. queue' \in Seq(RunIds)
    BY <1>4, <2>1 DEF TriggerOffer
  <2>3. at' \in [RunIds -> Place]
    BY <1>4 DEF TriggerOffer, Place
  <2> QED
    BY <1>4, <2>2, <2>3 DEF TriggerOffer
<1>5. ASSUME NEW r \in RunIds, FinalizeRefused(r) PROVE  TypeOK'
  BY <1>5 DEF FinalizeRefused, Finalize, RunStatus, Terminal, Place
<1>6. ASSUME NEW r \in RunIds, FinalizeRun(r) PROVE  TypeOK'
  BY <1>6 DEF FinalizeRun, Finalize, RunStatus, Place, HoldsSlot
<1>7. ASSUME NEW r \in RunIds, PruneRuns(r) PROVE  TypeOK'
  BY <1>7 DEF PruneRuns, Place, HoldsSlot
<1>8. ASSUME NEW r \in RunIds, TakeSlot(r) PROVE  TypeOK'
  BY <1>8 DEF TakeSlot, Place, HoldsSlot
<1>9. ASSUME NEW r \in RunIds, LeaveSlot(r) PROVE  TypeOK'
  <2>1. slots' \in Nat
    BY <1>9, HolderCounted DEF LeaveSlot, HoldsSlot
  <2>2. 1 \in StageIds
    BY BoundAssumption DEF StageIds
  <2> QED
    BY <1>9, <2>1, <2>2 DEF LeaveSlot, Place, Terminal
<1>10. ASSUME NEW r \in RunIds, Begin(r) PROVE  TypeOK'
  BY <1>10 DEF Begin, RunStatus, Active, Place, HoldsSlot, Executing, Unsaved
<1>11. ASSUME NEW r \in RunIds, BeginCanceled(r) PROVE  TypeOK'
  BY <1>11 DEF BeginCanceled, Place, HoldsSlot
<1>12. ASSUME NEW r \in RunIds, OpenLog(r) PROVE  TypeOK'
  <2>1. \A place \in Place : Goto(r, place) => at' \in [RunIds -> Place]
    OBVIOUS
  <2>2. Arrive(r, 1) \in Place /\ "finish" \in Place
    BY ArrivePlace DEF Place, HoldsSlot, Executing, Unsaved
  <2>3. at' \in [RunIds -> Place]
    BY <1>12, <2>1, <2>2 DEF OpenLog
  <2> QED
    BY <1>12, <2>3 DEF OpenLog, Terminal
<1>13. ASSUME NEW r \in RunIds, GateStage(r) PROVE  TypeOK'
  BY <1>13 DEF GateStage, SetStage, StageStatus, Place, HoldsSlot, Executing, Unsaved
<1>14. ASSUME NEW r \in RunIds, YieldSlot(r) PROVE  TypeOK'
  <2>1. at[r] \in HoldsSlot
    BY <1>14 DEF YieldSlot, HoldsSlot, Executing, Unsaved, Waiting
  <2>2. slots' \in Nat
    BY <1>14, <2>1, HolderCounted DEF YieldSlot
  <2> QED
    BY <1>14, <2>2 DEF YieldSlot, Place, Waiting
<1>15. ASSUME NEW r \in RunIds, RegisterApproval(r) PROVE  TypeOK'
  BY <1>15 DEF RegisterApproval, Place, Waiting
<1>16. ASSUME NEW r \in RunIds, ReceiveAnswer(r) PROVE  TypeOK'
  BY <1>16 DEF ReceiveAnswer, Approved, Answer, Place, Waiting
<1>17. ASSUME NEW r \in RunIds, StopWaiting(r) PROVE  TypeOK'
  BY <1>17 DEF StopWaiting, Place, Waiting
<1>18. ASSUME NEW r \in RunIds, Unregister(r) PROVE  TypeOK'
  BY <1>18 DEF Unregister, Place, Waiting
<1>19. ASSUME NEW r \in RunIds, RetakeSlot(r) PROVE  TypeOK'
  BY <1>19 DEF RetakeSlot, Place, HoldsSlot, Executing, Unsaved
<1>20. ASSUME NEW r \in RunIds, DenyStage(r) PROVE  TypeOK'
  BY <1>20 DEF DenyStage, SetStageSkipRest, StageStatus, Terminal, Place,
         HoldsSlot, Executing, Unsaved
<1>21. ASSUME NEW r \in RunIds, StartStage(r) PROVE  TypeOK'
  BY <1>21 DEF StartStage, SetStage, StageStatus, Place, HoldsSlot, Executing, Unsaved
<1>22. ASSUME NEW r \in RunIds, StageSucceeds(r) PROVE  TypeOK'
  <2>1. StageCount(r) \in Nat /\ StageCount(r) <= StageBound
    BY <1>22, GatesAssumption, BoundAssumption DEF StageSucceeds, RunsNumbered, StageCount
  <2>2. cur' \in [RunIds -> StageIds]
    BY <1>22, <2>1, BoundAssumption DEF StageSucceeds, StageIds
  <2>3. at' \in [RunIds -> Place]
    BY <1>22, ArrivePlace DEF StageSucceeds, Place, HoldsSlot, Executing, Unsaved
  <2> QED
    BY <1>22, <2>2, <2>3 DEF StageSucceeds, SetStage, StageStatus, Terminal
<1>23. ASSUME NEW r \in RunIds, StageEndsRun(r) PROVE  TypeOK'
  BY <1>23 DEF StageEndsRun, EndedHasResult, Place, HoldsSlot, Executing, Unsaved
<1>24. ASSUME NEW r \in RunIds, StageEnds(r) PROVE  TypeOK'
  <2>1. PICK result \in StageResults(r) : stages' = SetStage(r, result)
    BY <1>24 DEF StageEnds
  <2>2. result \in StageStatus
    BY DEF StageResults, Terminal, StageStatus
  <2> QED
    BY <1>24, <2>1, <2>2 DEF StageEnds, SetStage, Place, HoldsSlot, Executing, Unsaved
<1>25. ASSUME NEW r \in RunIds, SaveWaiting(r) PROVE  TypeOK'
  BY <1>25 DEF SaveWaiting, Place, HoldsSlot, Executing, Unsaved, Waiting
<1>26. ASSUME NEW r \in RunIds, SaveDenied(r) PROVE  TypeOK'
  BY <1>26 DEF SaveDenied, Place, HoldsSlot, Executing, Unsaved, Waiting, Terminal
<1>27. ASSUME NEW r \in RunIds, SaveStarted(r) PROVE  TypeOK'
  BY <1>27 DEF SaveStarted, Place, HoldsSlot, Executing, Unsaved, Waiting
<1>28. ASSUME NEW r \in RunIds, SkipStage(r) PROVE  TypeOK'
  BY <1>28 DEF SkipStage, ToSkip, StageStatus
<1>29. ASSUME NEW r \in RunIds, SkippedAll(r) PROVE  TypeOK'
  BY <1>29 DEF SkippedAll, Place, HoldsSlot, Executing, Unsaved, Waiting
<1>30. ASSUME NEW r \in RunIds, CancelQueued(r) PROVE  TypeOK'
  BY <1>30 DEF CancelQueued, RunStatus, Terminal
<1>31. ASSUME NEW r \in RunIds, CancelRunning(r) PROVE  TypeOK'
  BY <1>31 DEF CancelRunning
<1>32. ASSUME NEW r \in RunIds, Timeout(r) PROVE  TypeOK'
  BY <1>32 DEF Timeout
<1>33. ASSUME NEW a \in Approvers, NEW r \in RunIds, NEW answer \in Answer,
              ApproveLookup(a, r, answer) PROVE  TypeOK'
  BY <1>33 DEF ApproveLookup, Signature
<1>34. ASSUME NEW a \in Approvers, ApproveSend(a) PROVE  TypeOK'
  <2>1. sign[a] \in Signature
    BY <1>34 DEF ApproveSend
  <2>2. /\ chan' \in [RunIds -> [StageIds -> {"none", "empty"} \cup Answer]]
        /\ answers' \in [RunIds -> [StageIds -> SUBSET Answer]]
    BY <1>34, <2>1 DEF ApproveSend, Signature
  <2> QED
    BY <1>34, <2>2 DEF ApproveSend
<1>35. ASSUME NEW p \in Pipelines, DeletePipeline(p) PROVE  TypeOK'
  BY <1>35 DEF DeletePipeline
<1>36. ASSUME Dequeue PROVE  TypeOK'
  BY <1>36, DequeuedRunWaits, HeadTailProperties DEF Dequeue, Place
<1>37. ASSUME StopWorker PROVE  TypeOK'
  BY <1>37 DEF StopWorker
<1>38. ASSUME Restart PROVE  TypeOK'
  <2>1. /\ status' \in [RunIds -> RunStatus]
        /\ at' \in [RunIds -> Place]
    BY <1>38 DEF Restart, Recovered, RunStatus, Terminal, Place
  <2>2. /\ live' \subseteq RunIds
        /\ canceling' \in [RunIds -> BOOLEAN]
        /\ stages' \in [RunIds -> [StageIds -> StageStatus]]
    BY <1>38 DEF Restart
  <2>3. saved' \in [live : SUBSET RunIds, status : [RunIds -> RunStatus],
                    canceling : [RunIds -> BOOLEAN],
                    stages : [RunIds -> [StageIds -> StageStatus]]]
    BY <1>38, <2>1, <2>2 DEF Restart
  <2>4. cur' \in [RunIds -> StageIds]
    BY <1>38, BoundAssumption DEF Restart, StageIds
  <2>5. /\ ctx' \in [RunIds -> {"none", "live", "canceled", "expired"}]
        /\ verdict' \in [RunIds -> BOOLEAN]
        /\ outcome' \in [RunIds -> Terminal]
        /\ chan' \in [RunIds -> [StageIds -> {"none", "empty"} \cup Answer]]
        /\ checked' \in [Callers -> Pipelines \cup {"none"}]
        /\ sign' \in [Approvers -> Signature \cup {NoSignature}]
    BY <1>38 DEF Restart, Terminal
  <2>6. crashes' \in 0..CrashBound
    BY <1>38, BoundAssumption DEF Restart
  <2> QED
    BY <1>38, <2>1, <2>2, <2>3, <2>4, <2>5, <2>6 DEF Restart
<1>39. ASSUME UNCHANGED vars PROVE  TypeOK'
  BY <1>39
<1> QED
  BY <1>1, <1>2, <1>3, <1>4, <1>5, <1>6, <1>7, <1>8, <1>9, <1>10, <1>11,
     <1>12, <1>13, <1>14, <1>15, <1>16, <1>17, <1>18, <1>19, <1>20, <1>21,
     <1>22, <1>23, <1>24, <1>25, <1>26, <1>27, <1>28, <1>29, <1>30, <1>31,
     <1>32, <1>33, <1>34, <1>35, <1>36, <1>37, <1>38, <1>39 DEF Next, RunStep

\* Every step keeps the numbering of the runs.
LEMMA NumberedStep ==
  TypeOK /\ RunsNumbered /\ QueuePlaces /\ SavedIsLive /\ [Next]_vars => RunsNumbered'
<1> SUFFICES ASSUME TypeOK, RunsNumbered, QueuePlaces, SavedIsLive, [Next]_vars
             PROVE  RunsNumbered'
  OBVIOUS
<1> USE DEF StagesOnly, SaveStages, TypeOK, RunsNumbered, vars, memory, goroutines, channels,
          callers, Goto, Persist
<1>1. ASSUME NEW c \in Callers, NEW p \in Pipelines, TriggerCheck(c, p) PROVE  RunsNumbered'
  BY <1>1 DEF TriggerCheck
<1>2. ASSUME NEW c \in Callers, TriggerUnresolved(c) PROVE  RunsNumbered'
  BY <1>2 DEF TriggerUnresolved
<1>3. ASSUME NEW c \in Callers, TriggerAppend(c) PROVE  RunsNumbered'
  <2>1. /\ nextRun' = nextRun + 1 /\ nextRun' \in RunIds
        /\ checked[c] \in Pipelines
    BY <1>3, AppendedRunIsNew
  <2>2. /\ at' = [at EXCEPT ![nextRun'] = "offer"]
        /\ owner' = [owner EXCEPT ![nextRun'] = checked[c]]
        /\ status' = [status EXCEPT ![nextRun'] = "queued"]
        /\ live' = live \cup {nextRun'}
    BY <1>3 DEF TriggerAppend
  <2>3. \A q \in RunIds : q > nextRun' => q > nextRun /\ q # nextRun'
    BY <2>1 DEF RunIds
  <2> QED
    BY <2>1, <2>2, <2>3
<1>4. ASSUME NEW r \in RunIds, TriggerOffer(r) PROVE  RunsNumbered'
  BY <1>4 DEF TriggerOffer
<1>5. ASSUME NEW r \in RunIds, FinalizeRefused(r) PROVE  RunsNumbered'
  BY <1>5 DEF FinalizeRefused, Finalize
<1>6. ASSUME NEW r \in RunIds, FinalizeRun(r) PROVE  RunsNumbered'
  BY <1>6 DEF FinalizeRun, Finalize
<1>7. ASSUME NEW r \in RunIds, PruneRuns(r) PROVE  RunsNumbered'
  BY <1>7 DEF PruneRuns
<1>8. ASSUME NEW r \in RunIds, TakeSlot(r) PROVE  RunsNumbered'
  BY <1>8 DEF TakeSlot
<1>9. ASSUME NEW r \in RunIds, LeaveSlot(r) PROVE  RunsNumbered'
  BY <1>9 DEF LeaveSlot
<1>10. ASSUME NEW r \in RunIds, Begin(r) PROVE  RunsNumbered'
  BY <1>10 DEF Begin, StillQueued
<1>11. ASSUME NEW r \in RunIds, BeginCanceled(r) PROVE  RunsNumbered'
  BY <1>11 DEF BeginCanceled
<1>12. ASSUME NEW r \in RunIds, OpenLog(r) PROVE  RunsNumbered'
  <2>1. PICK place \in {"finish", "gate", "start"} : Goto(r, place)
    BY <1>12, ArrivePlace DEF OpenLog
  <2> QED
    BY <1>12, <2>1 DEF OpenLog
<1>13. ASSUME NEW r \in RunIds, GateStage(r) PROVE  RunsNumbered'
  BY <1>13 DEF GateStage
<1>14. ASSUME NEW r \in RunIds, YieldSlot(r) PROVE  RunsNumbered'
  BY <1>14 DEF YieldSlot
<1>15. ASSUME NEW r \in RunIds, RegisterApproval(r) PROVE  RunsNumbered'
  BY <1>15 DEF RegisterApproval
<1>16. ASSUME NEW r \in RunIds, ReceiveAnswer(r) PROVE  RunsNumbered'
  BY <1>16 DEF ReceiveAnswer
<1>17. ASSUME NEW r \in RunIds, StopWaiting(r) PROVE  RunsNumbered'
  BY <1>17 DEF StopWaiting
<1>18. ASSUME NEW r \in RunIds, Unregister(r) PROVE  RunsNumbered'
  BY <1>18 DEF Unregister
<1>19. ASSUME NEW r \in RunIds, RetakeSlot(r) PROVE  RunsNumbered'
  BY <1>19 DEF RetakeSlot
<1>20. ASSUME NEW r \in RunIds, DenyStage(r) PROVE  RunsNumbered'
  BY <1>20 DEF DenyStage
<1>21. ASSUME NEW r \in RunIds, StartStage(r) PROVE  RunsNumbered'
  BY <1>21 DEF StartStage
<1>22. ASSUME NEW r \in RunIds, StageSucceeds(r) PROVE  RunsNumbered'
  BY <1>22, ArrivePlace DEF StageSucceeds
<1>23. ASSUME NEW r \in RunIds, StageEndsRun(r) PROVE  RunsNumbered'
  BY <1>23 DEF StageEndsRun
<1>24. ASSUME NEW r \in RunIds, StageEnds(r) PROVE  RunsNumbered'
  BY <1>24 DEF StageEnds
<1>25. ASSUME NEW r \in RunIds, SaveWaiting(r) PROVE  RunsNumbered'
  BY <1>25 DEF SaveWaiting
<1>26. ASSUME NEW r \in RunIds, SaveDenied(r) PROVE  RunsNumbered'
  BY <1>26 DEF SaveDenied
<1>27. ASSUME NEW r \in RunIds, SaveStarted(r) PROVE  RunsNumbered'
  BY <1>27 DEF SaveStarted
<1>28. ASSUME NEW r \in RunIds, SkipStage(r) PROVE  RunsNumbered'
  BY <1>28 DEF SkipStage
<1>29. ASSUME NEW r \in RunIds, SkippedAll(r) PROVE  RunsNumbered'
  BY <1>29 DEF SkippedAll
<1>30. ASSUME NEW r \in RunIds, CancelQueued(r) PROVE  RunsNumbered'
  BY <1>30 DEF CancelQueued
<1>31. ASSUME NEW r \in RunIds, CancelRunning(r) PROVE  RunsNumbered'
  BY <1>31 DEF CancelRunning
<1>32. ASSUME NEW r \in RunIds, Timeout(r) PROVE  RunsNumbered'
  BY <1>32 DEF Timeout
<1>33. ASSUME NEW a \in Approvers, NEW r \in RunIds, NEW answer \in Answer,
              ApproveLookup(a, r, answer) PROVE  RunsNumbered'
  BY <1>33 DEF ApproveLookup
<1>34. ASSUME NEW a \in Approvers, ApproveSend(a) PROVE  RunsNumbered'
  BY <1>34 DEF ApproveSend
<1>35. ASSUME NEW p \in Pipelines, DeletePipeline(p) PROVE  RunsNumbered'
  BY <1>35 DEF DeletePipeline
<1>36. ASSUME Dequeue PROVE  RunsNumbered'
  BY <1>36, DequeuedRunWaits DEF Dequeue
<1>37. ASSUME StopWorker PROVE  RunsNumbered'
  BY <1>37 DEF StopWorker
<1>38. ASSUME Restart PROVE  RunsNumbered'
  <2>1. \A q \in RunIds : q > nextRun => at'[q] = "none" /\ status'[q] = "none"
    <3> SUFFICES ASSUME NEW q \in RunIds, q > nextRun
                 PROVE  at'[q] = "none" /\ status'[q] = "none"
      OBVIOUS
    <3>1. at[q] = "none" /\ status[q] = "none"
      OBVIOUS
    <3>2. q \notin saved.live
      BY <3>1 DEF SavedIsLive
    <3> QED
      BY <1>38, <3>1, <3>2 DEF Restart, Active
  <2>2. \A q \in RunIds : at'[q] # "none" => owner'[q] \in Pipelines
    BY <1>38 DEF Restart
  <2>3. \A q \in RunIds : q \in live' => at'[q] # "none"
    BY <1>38 DEF Restart, SavedIsLive
  <2> QED
    BY <1>38, <2>1, <2>2, <2>3 DEF Restart
<1>39. ASSUME UNCHANGED vars PROVE  RunsNumbered'
  BY <1>39
<1> QED
  BY <1>1, <1>2, <1>3, <1>4, <1>5, <1>6, <1>7, <1>8, <1>9, <1>10, <1>11,
     <1>12, <1>13, <1>14, <1>15, <1>16, <1>17, <1>18, <1>19, <1>20, <1>21,
     <1>22, <1>23, <1>24, <1>25, <1>26, <1>27, <1>28, <1>29, <1>30, <1>31,
     <1>32, <1>33, <1>34, <1>35, <1>36, <1>37, <1>38, <1>39 DEF Next, RunStep

\* Every step keeps the queue free of duplicates and of runs that left it.
LEMMA QueueStep ==
  TypeOK /\ RunsNumbered /\ QueuePlaces /\ [Next]_vars => QueuePlaces'
<1> SUFFICES ASSUME TypeOK, RunsNumbered, QueuePlaces, [Next]_vars
             PROVE  QueuePlaces'
  OBVIOUS
<1> USE DEF StagesOnly, SaveStages, vars, memory, goroutines, channels, callers, Goto, Persist
<1>1. ASSUME NEW c \in Callers, NEW p \in Pipelines, TriggerCheck(c, p) PROVE  QueuePlaces'
  BY <1>1 DEF TriggerCheck, QueuePlaces
<1>2. ASSUME NEW c \in Callers, TriggerUnresolved(c) PROVE  QueuePlaces'
  BY <1>2 DEF TriggerUnresolved, QueuePlaces
<1>3. ASSUME NEW c \in Callers, TriggerAppend(c) PROVE  QueuePlaces'
  <2>1. nextRun' \in RunIds /\ at[nextRun'] = "none"
    BY <1>3, AppendedRunIsNew
  <2>2. queue' = queue /\ at' = [at EXCEPT ![nextRun'] = "offer"]
    BY <1>3 DEF TriggerAppend
  <2> QED
    BY <2>1, <2>2 DEF QueuePlaces, TypeOK
<1>4. ASSUME NEW r \in RunIds, TriggerOffer(r) PROVE  QueuePlaces'
  <2>1. CASE Len(queue) < QueueSize
    <3>1. queue' = Append(queue, r) /\ at' = [at EXCEPT ![r] = "queued"] /\ at[r] = "offer"
      BY <1>4, <2>1 DEF TriggerOffer
    <3>2. /\ Len(queue') = Len(queue) + 1 /\ Len(queue) \in Nat
          /\ \A i \in 1..Len(queue) : queue'[i] = queue[i] /\ queue[i] \in RunIds
          /\ queue'[Len(queue) + 1] = r
      BY <3>1, AppendProperties DEF TypeOK
    <3>3. \A i \in 1..Len(queue) : at[queue[i]] = "queued" /\ queue[i] # r
      BY <3>1 DEF QueuePlaces
    <3>4. \A i \in 1..Len(queue') : i \in 1..Len(queue) \/ i = Len(queue) + 1
      BY <3>2
    <3>5. \A i \in 1..Len(queue') : at'[queue'[i]] = "queued"
      BY <3>1, <3>2, <3>3, <3>4 DEF TypeOK
    <3>6. \A i, j \in 1..Len(queue') : queue'[i] = queue'[j] => i = j
      BY <3>2, <3>3, <3>4 DEF QueuePlaces
    <3> QED
      BY <3>5, <3>6 DEF QueuePlaces
  <2>2. CASE ~(Len(queue) < QueueSize)
    BY <1>4, <2>2 DEF TriggerOffer, QueuePlaces, TypeOK
  <2> QED
    BY <2>1, <2>2
<1>5. ASSUME NEW r \in RunIds, FinalizeRefused(r) PROVE  QueuePlaces'
  BY <1>5 DEF FinalizeRefused, QueuePlaces, TypeOK
<1>6. ASSUME NEW r \in RunIds, FinalizeRun(r) PROVE  QueuePlaces'
  BY <1>6 DEF FinalizeRun, QueuePlaces, TypeOK
<1>7. ASSUME NEW r \in RunIds, PruneRuns(r) PROVE  QueuePlaces'
  BY <1>7 DEF PruneRuns, QueuePlaces, TypeOK
<1>8. ASSUME NEW r \in RunIds, TakeSlot(r) PROVE  QueuePlaces'
  BY <1>8 DEF TakeSlot, QueuePlaces, TypeOK
<1>9. ASSUME NEW r \in RunIds, LeaveSlot(r) PROVE  QueuePlaces'
  BY <1>9 DEF LeaveSlot, QueuePlaces, TypeOK
<1>10. ASSUME NEW r \in RunIds, Begin(r) PROVE  QueuePlaces'
  BY <1>10 DEF Begin, QueuePlaces, TypeOK
<1>11. ASSUME NEW r \in RunIds, BeginCanceled(r) PROVE  QueuePlaces'
  BY <1>11 DEF BeginCanceled, QueuePlaces, TypeOK
<1>12. ASSUME NEW r \in RunIds, OpenLog(r) PROVE  QueuePlaces'
  BY <1>12 DEF OpenLog, QueuePlaces, TypeOK
<1>13. ASSUME NEW r \in RunIds, GateStage(r) PROVE  QueuePlaces'
  BY <1>13 DEF GateStage, QueuePlaces, TypeOK
<1>14. ASSUME NEW r \in RunIds, YieldSlot(r) PROVE  QueuePlaces'
  BY <1>14 DEF YieldSlot, QueuePlaces, TypeOK
<1>15. ASSUME NEW r \in RunIds, RegisterApproval(r) PROVE  QueuePlaces'
  BY <1>15 DEF RegisterApproval, QueuePlaces, TypeOK
<1>16. ASSUME NEW r \in RunIds, ReceiveAnswer(r) PROVE  QueuePlaces'
  BY <1>16 DEF ReceiveAnswer, QueuePlaces, TypeOK
<1>17. ASSUME NEW r \in RunIds, StopWaiting(r) PROVE  QueuePlaces'
  BY <1>17 DEF StopWaiting, QueuePlaces, TypeOK
<1>18. ASSUME NEW r \in RunIds, Unregister(r) PROVE  QueuePlaces'
  BY <1>18 DEF Unregister, QueuePlaces, TypeOK
<1>19. ASSUME NEW r \in RunIds, RetakeSlot(r) PROVE  QueuePlaces'
  BY <1>19 DEF RetakeSlot, QueuePlaces, TypeOK
<1>20. ASSUME NEW r \in RunIds, DenyStage(r) PROVE  QueuePlaces'
  BY <1>20 DEF DenyStage, QueuePlaces, TypeOK
<1>21. ASSUME NEW r \in RunIds, StartStage(r) PROVE  QueuePlaces'
  BY <1>21 DEF StartStage, QueuePlaces, TypeOK
<1>22. ASSUME NEW r \in RunIds, StageSucceeds(r) PROVE  QueuePlaces'
  BY <1>22 DEF StageSucceeds, QueuePlaces, TypeOK
<1>23. ASSUME NEW r \in RunIds, StageEndsRun(r) PROVE  QueuePlaces'
  BY <1>23 DEF StageEndsRun, QueuePlaces, TypeOK
<1>24. ASSUME NEW r \in RunIds, StageEnds(r) PROVE  QueuePlaces'
  BY <1>24 DEF StageEnds, QueuePlaces, TypeOK
<1>25. ASSUME NEW r \in RunIds, SaveWaiting(r) PROVE  QueuePlaces'
  BY <1>25 DEF SaveWaiting, QueuePlaces, TypeOK
<1>26. ASSUME NEW r \in RunIds, SaveDenied(r) PROVE  QueuePlaces'
  BY <1>26 DEF SaveDenied, QueuePlaces, TypeOK
<1>27. ASSUME NEW r \in RunIds, SaveStarted(r) PROVE  QueuePlaces'
  BY <1>27 DEF SaveStarted, QueuePlaces, TypeOK
<1>28. ASSUME NEW r \in RunIds, SkipStage(r) PROVE  QueuePlaces'
  BY <1>28 DEF SkipStage, QueuePlaces, TypeOK
<1>29. ASSUME NEW r \in RunIds, SkippedAll(r) PROVE  QueuePlaces'
  BY <1>29 DEF SkippedAll, QueuePlaces, TypeOK
<1>30. ASSUME NEW r \in RunIds, CancelQueued(r) PROVE  QueuePlaces'
  BY <1>30 DEF CancelQueued, QueuePlaces
<1>31. ASSUME NEW r \in RunIds, CancelRunning(r) PROVE  QueuePlaces'
  BY <1>31 DEF CancelRunning, QueuePlaces
<1>32. ASSUME NEW r \in RunIds, Timeout(r) PROVE  QueuePlaces'
  BY <1>32 DEF Timeout, QueuePlaces
<1>33. ASSUME NEW a \in Approvers, NEW r \in RunIds, NEW answer \in Answer,
              ApproveLookup(a, r, answer) PROVE  QueuePlaces'
  BY <1>33 DEF ApproveLookup, QueuePlaces
<1>34. ASSUME NEW a \in Approvers, ApproveSend(a) PROVE  QueuePlaces'
  BY <1>34 DEF ApproveSend, QueuePlaces
<1>35. ASSUME NEW p \in Pipelines, DeletePipeline(p) PROVE  QueuePlaces'
  BY <1>35 DEF DeletePipeline, QueuePlaces
<1>36. ASSUME Dequeue PROVE  QueuePlaces'
  <2>1. /\ queue' = Tail(queue) /\ queue # <<>> /\ queue \in Seq(RunIds)
        /\ at' = [at EXCEPT ![Head(queue)] = "slot"]
    BY <1>36 DEF Dequeue, TypeOK
  <2>2. /\ Len(queue') = Len(queue) - 1 /\ Len(queue) \in Nat /\ Head(queue) = queue[1]
        /\ \A i \in 1..Len(queue') : queue'[i] = queue[i + 1]
    BY <2>1, HeadTailProperties
  <2>3. \A i \in 1..Len(queue') : i \in 1..Len(queue) /\ i + 1 \in 1..Len(queue) /\ 1 \in 1..Len(queue)
    BY <2>2
  <2>4. ASSUME NEW i \in 1..Len(queue')
        PROVE  queue'[i] # Head(queue) /\ at[queue'[i]] = "queued"
    <3>1. queue'[i] = queue[i + 1] /\ i + 1 \in 1..Len(queue) /\ 1 \in 1..Len(queue)
      BY <2>2, <2>3
    <3>2. i + 1 # 1
      OBVIOUS
    <3>3. queue[i + 1] # queue[1]
      BY <3>1, <3>2 DEF QueuePlaces
    <3> QED
      BY <3>1, <3>3, <2>2 DEF QueuePlaces
  <2>5. \A i \in 1..Len(queue') : at'[queue'[i]] = "queued"
    BY <2>1, <2>4 DEF TypeOK
  <2>6. \A i, j \in 1..Len(queue') : queue'[i] = queue'[j] => i = j
    BY <2>2, <2>3 DEF QueuePlaces
  <2> QED
    BY <2>5, <2>6 DEF QueuePlaces
<1>37. ASSUME StopWorker PROVE  QueuePlaces'
  BY <1>37 DEF StopWorker, QueuePlaces
<1>38. ASSUME Restart PROVE  QueuePlaces'
  <2>1. queue' = <<>> /\ Len(<<>>) = 0
    BY <1>38 DEF Restart
  <2> QED
    BY <2>1 DEF QueuePlaces
<1>39. ASSUME UNCHANGED vars PROVE  QueuePlaces'
  BY <1>39 DEF QueuePlaces
<1> QED
  BY <1>1, <1>2, <1>3, <1>4, <1>5, <1>6, <1>7, <1>8, <1>9, <1>10, <1>11,
     <1>12, <1>13, <1>14, <1>15, <1>16, <1>17, <1>18, <1>19, <1>20, <1>21,
     <1>22, <1>23, <1>24, <1>25, <1>26, <1>27, <1>28, <1>29, <1>30, <1>31,
     <1>32, <1>33, <1>34, <1>35, <1>36, <1>37, <1>38, <1>39 DEF Next, RunStep

\* Every step keeps the tokens of e.sem equal to the goroutines that hold one.
LEMMA SlotsStep ==
  TypeOK /\ RunsNumbered /\ QueuePlaces /\ SlotsCounted /\ [Next]_vars => SlotsCounted'
<1> SUFFICES ASSUME TypeOK, RunsNumbered, QueuePlaces, SlotsCounted, [Next]_vars
             PROVE  SlotsCounted'
  OBVIOUS
<1> USE DEF StagesOnly, SaveStages, vars, memory, goroutines, channels, callers, Persist
<1>1. ASSUME NEW c \in Callers, NEW p \in Pipelines, TriggerCheck(c, p) PROVE  SlotsCounted'
  BY <1>1 DEF TriggerCheck, SlotsCounted, SlotHolders
<1>2. ASSUME NEW c \in Callers, TriggerUnresolved(c) PROVE  SlotsCounted'
  BY <1>2 DEF TriggerUnresolved, SlotsCounted, SlotHolders
<1>3. ASSUME NEW c \in Callers, TriggerAppend(c) PROVE  SlotsCounted'
  <2>1. /\ nextRun' \in RunIds /\ Goto(nextRun', "offer") /\ slots' = slots
        /\ at[nextRun'] = "none"
    BY <1>3, AppendedRunIsNew DEF TriggerAppend
  <2> QED
    BY <2>1, SameHolders DEF HoldsSlot, Executing, Unsaved, Waiting
<1>4. ASSUME NEW r \in RunIds, TriggerOffer(r) PROVE  SlotsCounted'
  <2>1. PICK place \in {"queued", "refused"} : Goto(r, place)
    BY <1>4 DEF TriggerOffer
  <2> QED
    BY <1>4, <2>1, SameHolders DEF TriggerOffer, HoldsSlot, Executing, Unsaved, Waiting
<1>5. ASSUME NEW r \in RunIds, FinalizeRefused(r) PROVE  SlotsCounted'
  BY <1>5, SameHolders DEF FinalizeRefused, HoldsSlot, Executing, Unsaved, Waiting
<1>6. ASSUME NEW r \in RunIds, FinalizeRun(r) PROVE  SlotsCounted'
  BY <1>6, SameHolders DEF FinalizeRun, HoldsSlot, Executing, Unsaved, Waiting
<1>7. ASSUME NEW r \in RunIds, PruneRuns(r) PROVE  SlotsCounted'
  <2>1. CASE at[r] = "prune"
    <3>1. Goto(r, "leave")
      BY <1>7, <2>1 DEF PruneRuns, Goto
    <3> QED
      BY <1>7, <2>1, <3>1, SameHolders DEF PruneRuns, HoldsSlot, Executing, Unsaved, Waiting
  <2>2. CASE at[r] = "refusedPrune"
    <3>1. Goto(r, "over")
      BY <1>7, <2>2 DEF PruneRuns, Goto
    <3> QED
      BY <1>7, <2>2, <3>1, SameHolders DEF PruneRuns, HoldsSlot, Executing, Unsaved, Waiting
  <2> QED
    BY <1>7, <2>1, <2>2 DEF PruneRuns
<1>8. ASSUME NEW r \in RunIds, TakeSlot(r) PROVE  SlotsCounted'
  BY <1>8, SlotGained DEF TakeSlot, HoldsSlot, Executing, Unsaved, Waiting
<1>9. ASSUME NEW r \in RunIds, LeaveSlot(r) PROVE  SlotsCounted'
  BY <1>9, SlotLost DEF LeaveSlot, HoldsSlot, Executing, Unsaved, Waiting
<1>10. ASSUME NEW r \in RunIds, Begin(r) PROVE  SlotsCounted'
  BY <1>10, SameHolders DEF Begin, HoldsSlot, Executing, Unsaved, Waiting
<1>11. ASSUME NEW r \in RunIds, BeginCanceled(r) PROVE  SlotsCounted'
  BY <1>11, SameHolders DEF BeginCanceled, HoldsSlot, Executing, Unsaved, Waiting
<1>12. ASSUME NEW r \in RunIds, OpenLog(r) PROVE  SlotsCounted'
  <2>1. PICK place \in {"finish", "gate", "start"} : Goto(r, place)
    BY <1>12, ArrivePlace DEF OpenLog
  <2> QED
    BY <1>12, <2>1, SameHolders DEF OpenLog, HoldsSlot, Executing, Unsaved, Waiting
<1>13. ASSUME NEW r \in RunIds, GateStage(r) PROVE  SlotsCounted'
  BY <1>13, SameHolders DEF GateStage, HoldsSlot, Executing, Unsaved, Waiting
<1>14. ASSUME NEW r \in RunIds, YieldSlot(r) PROVE  SlotsCounted'
  BY <1>14, SlotLost DEF YieldSlot, HoldsSlot, Executing, Unsaved, Waiting
<1>15. ASSUME NEW r \in RunIds, RegisterApproval(r) PROVE  SlotsCounted'
  BY <1>15, SameHolders DEF RegisterApproval, HoldsSlot, Executing, Unsaved, Waiting
<1>16. ASSUME NEW r \in RunIds, ReceiveAnswer(r) PROVE  SlotsCounted'
  BY <1>16, SameHolders DEF ReceiveAnswer, HoldsSlot, Executing, Unsaved, Waiting
<1>17. ASSUME NEW r \in RunIds, StopWaiting(r) PROVE  SlotsCounted'
  BY <1>17, SameHolders DEF StopWaiting, HoldsSlot, Executing, Unsaved, Waiting
<1>18. ASSUME NEW r \in RunIds, Unregister(r) PROVE  SlotsCounted'
  BY <1>18, SameHolders DEF Unregister, HoldsSlot, Executing, Unsaved, Waiting
<1>19. ASSUME NEW r \in RunIds, RetakeSlot(r) PROVE  SlotsCounted'
  <2>1. PICK place \in {"start", "deny"} : Goto(r, place)
    BY <1>19 DEF RetakeSlot
  <2> QED
    BY <1>19, <2>1, SlotGained DEF RetakeSlot, HoldsSlot, Executing, Unsaved, Waiting
<1>20. ASSUME NEW r \in RunIds, DenyStage(r) PROVE  SlotsCounted'
  BY <1>20, SameHolders DEF DenyStage, HoldsSlot, Executing, Unsaved, Waiting
<1>21. ASSUME NEW r \in RunIds, StartStage(r) PROVE  SlotsCounted'
  BY <1>21, SameHolders DEF StartStage, HoldsSlot, Executing, Unsaved, Waiting
<1>22. ASSUME NEW r \in RunIds, StageSucceeds(r) PROVE  SlotsCounted'
  <2>1. PICK place \in {"finish", "gate", "start"} : Goto(r, place)
    BY <1>22, ArrivePlace DEF StageSucceeds
  <2> QED
    BY <1>22, <2>1, SameHolders DEF StageSucceeds, HoldsSlot, Executing, Unsaved, Waiting
<1>23. ASSUME NEW r \in RunIds, StageEndsRun(r) PROVE  SlotsCounted'
  BY <1>23, SameHolders DEF StageEndsRun, HoldsSlot, Executing, Unsaved, Waiting
<1>24. ASSUME NEW r \in RunIds, StageEnds(r) PROVE  SlotsCounted'
  BY <1>24, SameHolders DEF StageEnds, HoldsSlot, Executing, Unsaved, Waiting
<1>25. ASSUME NEW r \in RunIds, SaveWaiting(r) PROVE  SlotsCounted'
  BY <1>25, SameHolders DEF SaveWaiting, HoldsSlot, Executing, Unsaved, Waiting
<1>26. ASSUME NEW r \in RunIds, SaveDenied(r) PROVE  SlotsCounted'
  BY <1>26, SameHolders DEF SaveDenied, HoldsSlot, Executing, Unsaved, Waiting
<1>27. ASSUME NEW r \in RunIds, SaveStarted(r) PROVE  SlotsCounted'
  BY <1>27, SameHolders DEF SaveStarted, HoldsSlot, Executing, Unsaved, Waiting
<1>28. ASSUME NEW r \in RunIds, SkipStage(r) PROVE  SlotsCounted'
  BY <1>28 DEF SkipStage, SlotsCounted, SlotHolders
<1>29. ASSUME NEW r \in RunIds, SkippedAll(r) PROVE  SlotsCounted'
  BY <1>29, SameHolders DEF SkippedAll, HoldsSlot, Executing, Unsaved, Waiting
<1>30. ASSUME NEW r \in RunIds, CancelQueued(r) PROVE  SlotsCounted'
  BY <1>30 DEF CancelQueued, SlotsCounted, SlotHolders
<1>31. ASSUME NEW r \in RunIds, CancelRunning(r) PROVE  SlotsCounted'
  BY <1>31 DEF CancelRunning, SlotsCounted, SlotHolders
<1>32. ASSUME NEW r \in RunIds, Timeout(r) PROVE  SlotsCounted'
  BY <1>32 DEF Timeout, SlotsCounted, SlotHolders
<1>33. ASSUME NEW a \in Approvers, NEW r \in RunIds, NEW answer \in Answer,
              ApproveLookup(a, r, answer) PROVE  SlotsCounted'
  BY <1>33 DEF ApproveLookup, SlotsCounted, SlotHolders
<1>34. ASSUME NEW a \in Approvers, ApproveSend(a) PROVE  SlotsCounted'
  BY <1>34 DEF ApproveSend, SlotsCounted, SlotHolders
<1>35. ASSUME NEW p \in Pipelines, DeletePipeline(p) PROVE  SlotsCounted'
  BY <1>35 DEF DeletePipeline, SlotsCounted, SlotHolders
<1>36. ASSUME Dequeue PROVE  SlotsCounted'
  <2>1. Head(queue) \in RunIds /\ at[Head(queue)] = "queued"
    BY <1>36, DequeuedRunWaits
  <2> QED
    BY <1>36, <2>1, SameHolders DEF Dequeue, HoldsSlot, Executing, Unsaved, Waiting
<1>37. ASSUME StopWorker PROVE  SlotsCounted'
  BY <1>37 DEF StopWorker, SlotsCounted, SlotHolders
<1>38. ASSUME Restart PROVE  SlotsCounted'
  <2>1. SlotHolders' = {}
    BY <1>38 DEF Restart, SlotHolders, HoldsSlot, Executing, Unsaved, Waiting
  <2>2. slots' = 0 /\ 0 <= MaxParallel
    BY <1>38, MaxParallelAssumption DEF Restart
  <2> QED
    BY <2>1, <2>2, FS_EmptySet DEF SlotsCounted
<1>39. ASSUME UNCHANGED vars PROVE  SlotsCounted'
  BY <1>39 DEF SlotsCounted, SlotHolders
<1> QED
  BY <1>1, <1>2, <1>3, <1>4, <1>5, <1>6, <1>7, <1>8, <1>9, <1>10, <1>11,
     <1>12, <1>13, <1>14, <1>15, <1>16, <1>17, <1>18, <1>19, <1>20, <1>21,
     <1>22, <1>23, <1>24, <1>25, <1>26, <1>27, <1>28, <1>29, <1>30, <1>31,
     <1>32, <1>33, <1>34, <1>35, <1>36, <1>37, <1>38, <1>39 DEF Next, RunStep

\* Every step keeps the runs being executed running: they leave execution as they
\* are finalised, and Cancel ends only queued ones.
LEMMA ExecutingStep ==
  TypeOK /\ RunsNumbered /\ QueuePlaces /\ ExecutingIsRunning /\ [Next]_vars => ExecutingIsRunning'
<1> SUFFICES ASSUME TypeOK, RunsNumbered, QueuePlaces, ExecutingIsRunning, [Next]_vars
             PROVE  ExecutingIsRunning'
  OBVIOUS
<1> USE DEF StagesOnly, SaveStages, TypeOK, ExecutingIsRunning, Executing, Unsaved, Waiting, vars, memory,
          goroutines, channels, callers, Goto, Persist
<1>1. ASSUME NEW c \in Callers, NEW p \in Pipelines, TriggerCheck(c, p) PROVE  ExecutingIsRunning'
  BY <1>1 DEF TriggerCheck
<1>2. ASSUME NEW c \in Callers, TriggerUnresolved(c) PROVE  ExecutingIsRunning'
  BY <1>2 DEF TriggerUnresolved
<1>3. ASSUME NEW c \in Callers, TriggerAppend(c) PROVE  ExecutingIsRunning'
  BY <1>3, AppendedRunIsNew DEF TriggerAppend
<1>4. ASSUME NEW r \in RunIds, TriggerOffer(r) PROVE  ExecutingIsRunning'
  BY <1>4 DEF TriggerOffer
<1>5. ASSUME NEW r \in RunIds, FinalizeRefused(r) PROVE  ExecutingIsRunning'
  BY <1>5 DEF FinalizeRefused, Finalize
<1>6. ASSUME NEW r \in RunIds, FinalizeRun(r) PROVE  ExecutingIsRunning'
  BY <1>6 DEF FinalizeRun, Finalize
<1>7. ASSUME NEW r \in RunIds, PruneRuns(r) PROVE  ExecutingIsRunning'
  BY <1>7 DEF PruneRuns
<1>8. ASSUME NEW r \in RunIds, TakeSlot(r) PROVE  ExecutingIsRunning'
  BY <1>8 DEF TakeSlot
<1>9. ASSUME NEW r \in RunIds, LeaveSlot(r) PROVE  ExecutingIsRunning'
  BY <1>9 DEF LeaveSlot
<1>10. ASSUME NEW r \in RunIds, Begin(r) PROVE  ExecutingIsRunning'
  BY <1>10 DEF Begin
<1>11. ASSUME NEW r \in RunIds, BeginCanceled(r) PROVE  ExecutingIsRunning'
  BY <1>11 DEF BeginCanceled
<1>12. ASSUME NEW r \in RunIds, OpenLog(r) PROVE  ExecutingIsRunning'
  <2>1. PICK place \in {"finish", "gate", "start"} : Goto(r, place)
    BY <1>12, ArrivePlace DEF OpenLog
  <2> QED
    BY <1>12, <2>1 DEF OpenLog
<1>13. ASSUME NEW r \in RunIds, GateStage(r) PROVE  ExecutingIsRunning'
  BY <1>13 DEF GateStage
<1>14. ASSUME NEW r \in RunIds, YieldSlot(r) PROVE  ExecutingIsRunning'
  BY <1>14 DEF YieldSlot
<1>15. ASSUME NEW r \in RunIds, RegisterApproval(r) PROVE  ExecutingIsRunning'
  BY <1>15 DEF RegisterApproval
<1>16. ASSUME NEW r \in RunIds, ReceiveAnswer(r) PROVE  ExecutingIsRunning'
  BY <1>16 DEF ReceiveAnswer
<1>17. ASSUME NEW r \in RunIds, StopWaiting(r) PROVE  ExecutingIsRunning'
  BY <1>17 DEF StopWaiting
<1>18. ASSUME NEW r \in RunIds, Unregister(r) PROVE  ExecutingIsRunning'
  BY <1>18 DEF Unregister
<1>19. ASSUME NEW r \in RunIds, RetakeSlot(r) PROVE  ExecutingIsRunning'
  BY <1>19 DEF RetakeSlot
<1>20. ASSUME NEW r \in RunIds, DenyStage(r) PROVE  ExecutingIsRunning'
  BY <1>20 DEF DenyStage
<1>21. ASSUME NEW r \in RunIds, StartStage(r) PROVE  ExecutingIsRunning'
  BY <1>21 DEF StartStage
<1>22. ASSUME NEW r \in RunIds, StageSucceeds(r) PROVE  ExecutingIsRunning'
  BY <1>22, ArrivePlace DEF StageSucceeds
<1>23. ASSUME NEW r \in RunIds, StageEndsRun(r) PROVE  ExecutingIsRunning'
  BY <1>23 DEF StageEndsRun
<1>24. ASSUME NEW r \in RunIds, StageEnds(r) PROVE  ExecutingIsRunning'
  BY <1>24 DEF StageEnds
<1>25. ASSUME NEW r \in RunIds, SaveWaiting(r) PROVE  ExecutingIsRunning'
  BY <1>25 DEF SaveWaiting
<1>26. ASSUME NEW r \in RunIds, SaveDenied(r) PROVE  ExecutingIsRunning'
  BY <1>26 DEF SaveDenied
<1>27. ASSUME NEW r \in RunIds, SaveStarted(r) PROVE  ExecutingIsRunning'
  BY <1>27 DEF SaveStarted
<1>28. ASSUME NEW r \in RunIds, SkipStage(r) PROVE  ExecutingIsRunning'
  BY <1>28 DEF SkipStage
<1>29. ASSUME NEW r \in RunIds, SkippedAll(r) PROVE  ExecutingIsRunning'
  BY <1>29 DEF SkippedAll
<1>30. ASSUME NEW r \in RunIds, CancelQueued(r) PROVE  ExecutingIsRunning'
  BY <1>30 DEF CancelQueued
<1>31. ASSUME NEW r \in RunIds, CancelRunning(r) PROVE  ExecutingIsRunning'
  BY <1>31 DEF CancelRunning
<1>32. ASSUME NEW r \in RunIds, Timeout(r) PROVE  ExecutingIsRunning'
  BY <1>32 DEF Timeout
<1>33. ASSUME NEW a \in Approvers, NEW r \in RunIds, NEW answer \in Answer,
              ApproveLookup(a, r, answer) PROVE  ExecutingIsRunning'
  BY <1>33 DEF ApproveLookup
<1>34. ASSUME NEW a \in Approvers, ApproveSend(a) PROVE  ExecutingIsRunning'
  BY <1>34 DEF ApproveSend
<1>35. ASSUME NEW p \in Pipelines, DeletePipeline(p) PROVE  ExecutingIsRunning'
  BY <1>35 DEF DeletePipeline
<1>36. ASSUME Dequeue PROVE  ExecutingIsRunning'
  BY <1>36, DequeuedRunWaits DEF Dequeue
<1>37. ASSUME StopWorker PROVE  ExecutingIsRunning'
  BY <1>37 DEF StopWorker
<1>38. ASSUME Restart PROVE  ExecutingIsRunning'
  BY <1>38 DEF Restart
<1>39. ASSUME UNCHANGED vars PROVE  ExecutingIsRunning'
  BY <1>39
<1> QED
  BY <1>1, <1>2, <1>3, <1>4, <1>5, <1>6, <1>7, <1>8, <1>9, <1>10, <1>11,
     <1>12, <1>13, <1>14, <1>15, <1>16, <1>17, <1>18, <1>19, <1>20, <1>21,
     <1>22, <1>23, <1>24, <1>25, <1>26, <1>27, <1>28, <1>29, <1>30, <1>31,
     <1>32, <1>33, <1>34, <1>35, <1>36, <1>37, <1>38, <1>39 DEF Next, RunStep

\* Every step that removes a run from the history persists the history.
LEMMA SavedStep == TypeOK /\ SavedIsLive /\ [Next]_vars => SavedIsLive'
<1> SUFFICES ASSUME TypeOK, SavedIsLive, [Next]_vars
             PROVE  SavedIsLive'
  OBVIOUS
<1> USE DEF StagesOnly, SaveStages, TypeOK, SavedIsLive, vars, memory, goroutines, channels, callers,
          Goto, Persist
<1>1. ASSUME NEW c \in Callers, NEW p \in Pipelines, TriggerCheck(c, p) PROVE  SavedIsLive'
  BY <1>1 DEF TriggerCheck
<1>2. ASSUME NEW c \in Callers, TriggerUnresolved(c) PROVE  SavedIsLive'
  BY <1>2 DEF TriggerUnresolved
<1>3. ASSUME NEW c \in Callers, TriggerAppend(c) PROVE  SavedIsLive'
  BY <1>3 DEF TriggerAppend
<1>4. ASSUME NEW r \in RunIds, TriggerOffer(r) PROVE  SavedIsLive'
  BY <1>4 DEF TriggerOffer
<1>5. ASSUME NEW r \in RunIds, FinalizeRefused(r) PROVE  SavedIsLive'
  BY <1>5 DEF FinalizeRefused, Finalize
<1>6. ASSUME NEW r \in RunIds, FinalizeRun(r) PROVE  SavedIsLive'
  BY <1>6 DEF FinalizeRun, Finalize
<1>7. ASSUME NEW r \in RunIds, PruneRuns(r) PROVE  SavedIsLive'
  BY <1>7 DEF PruneRuns
<1>8. ASSUME NEW r \in RunIds, TakeSlot(r) PROVE  SavedIsLive'
  BY <1>8 DEF TakeSlot
<1>9. ASSUME NEW r \in RunIds, LeaveSlot(r) PROVE  SavedIsLive'
  BY <1>9 DEF LeaveSlot
<1>10. ASSUME NEW r \in RunIds, Begin(r) PROVE  SavedIsLive'
  BY <1>10 DEF Begin
<1>11. ASSUME NEW r \in RunIds, BeginCanceled(r) PROVE  SavedIsLive'
  BY <1>11 DEF BeginCanceled
<1>12. ASSUME NEW r \in RunIds, OpenLog(r) PROVE  SavedIsLive'
  BY <1>12 DEF OpenLog
<1>13. ASSUME NEW r \in RunIds, GateStage(r) PROVE  SavedIsLive'
  BY <1>13 DEF GateStage
<1>14. ASSUME NEW r \in RunIds, YieldSlot(r) PROVE  SavedIsLive'
  BY <1>14 DEF YieldSlot
<1>15. ASSUME NEW r \in RunIds, RegisterApproval(r) PROVE  SavedIsLive'
  BY <1>15 DEF RegisterApproval
<1>16. ASSUME NEW r \in RunIds, ReceiveAnswer(r) PROVE  SavedIsLive'
  BY <1>16 DEF ReceiveAnswer
<1>17. ASSUME NEW r \in RunIds, StopWaiting(r) PROVE  SavedIsLive'
  BY <1>17 DEF StopWaiting
<1>18. ASSUME NEW r \in RunIds, Unregister(r) PROVE  SavedIsLive'
  BY <1>18 DEF Unregister
<1>19. ASSUME NEW r \in RunIds, RetakeSlot(r) PROVE  SavedIsLive'
  BY <1>19 DEF RetakeSlot
<1>20. ASSUME NEW r \in RunIds, DenyStage(r) PROVE  SavedIsLive'
  BY <1>20 DEF DenyStage
<1>21. ASSUME NEW r \in RunIds, StartStage(r) PROVE  SavedIsLive'
  BY <1>21 DEF StartStage
<1>22. ASSUME NEW r \in RunIds, StageSucceeds(r) PROVE  SavedIsLive'
  BY <1>22 DEF StageSucceeds
<1>23. ASSUME NEW r \in RunIds, StageEndsRun(r) PROVE  SavedIsLive'
  BY <1>23 DEF StageEndsRun
<1>24. ASSUME NEW r \in RunIds, StageEnds(r) PROVE  SavedIsLive'
  BY <1>24 DEF StageEnds
<1>25. ASSUME NEW r \in RunIds, SaveWaiting(r) PROVE  SavedIsLive'
  BY <1>25 DEF SaveWaiting
<1>26. ASSUME NEW r \in RunIds, SaveDenied(r) PROVE  SavedIsLive'
  BY <1>26 DEF SaveDenied
<1>27. ASSUME NEW r \in RunIds, SaveStarted(r) PROVE  SavedIsLive'
  BY <1>27 DEF SaveStarted
<1>28. ASSUME NEW r \in RunIds, SkipStage(r) PROVE  SavedIsLive'
  BY <1>28 DEF SkipStage
<1>29. ASSUME NEW r \in RunIds, SkippedAll(r) PROVE  SavedIsLive'
  BY <1>29 DEF SkippedAll
<1>30. ASSUME NEW r \in RunIds, CancelQueued(r) PROVE  SavedIsLive'
  BY <1>30 DEF CancelQueued
<1>31. ASSUME NEW r \in RunIds, CancelRunning(r) PROVE  SavedIsLive'
  BY <1>31 DEF CancelRunning
<1>32. ASSUME NEW r \in RunIds, Timeout(r) PROVE  SavedIsLive'
  BY <1>32 DEF Timeout
<1>33. ASSUME NEW a \in Approvers, NEW r \in RunIds, NEW answer \in Answer,
              ApproveLookup(a, r, answer) PROVE  SavedIsLive'
  BY <1>33 DEF ApproveLookup
<1>34. ASSUME NEW a \in Approvers, ApproveSend(a) PROVE  SavedIsLive'
  BY <1>34 DEF ApproveSend
<1>35. ASSUME NEW p \in Pipelines, DeletePipeline(p) PROVE  SavedIsLive'
  BY <1>35 DEF DeletePipeline
<1>36. ASSUME Dequeue PROVE  SavedIsLive'
  BY <1>36 DEF Dequeue
<1>37. ASSUME StopWorker PROVE  SavedIsLive'
  BY <1>37 DEF StopWorker
<1>38. ASSUME Restart PROVE  SavedIsLive'
  BY <1>38 DEF Restart
<1>39. ASSUME UNCHANGED vars PROVE  SavedIsLive'
  BY <1>39
<1> QED
  BY <1>1, <1>2, <1>3, <1>4, <1>5, <1>6, <1>7, <1>8, <1>9, <1>10, <1>11,
     <1>12, <1>13, <1>14, <1>15, <1>16, <1>17, <1>18, <1>19, <1>20, <1>21,
     <1>22, <1>23, <1>24, <1>25, <1>26, <1>27, <1>28, <1>29, <1>30, <1>31,
     <1>32, <1>33, <1>34, <1>35, <1>36, <1>37, <1>38, <1>39 DEF Next, RunStep

\* Every step keeps the result of a stage that has ended in the loop's hands: no other
\* goroutine writes to the stages of a run.
LEMMA ResultStep ==
  TypeOK /\ RunsNumbered /\ QueuePlaces /\ EndedHasResult /\ [Next]_vars => EndedHasResult'
<1> SUFFICES ASSUME TypeOK, RunsNumbered, QueuePlaces, EndedHasResult, [Next]_vars,
                    NEW q \in RunIds, at'[q] = "ended"
             PROVE  stages'[q][cur'[q]] \in Terminal
  BY DEF EndedHasResult
<1> USE DEF TypeOK, EndedHasResult, StagesOnly, SaveStages, vars, memory, goroutines,
          channels, callers, Goto
<1> DEFINE Same == at[q] = "ended" /\ stages'[q][cur'[q]] = stages[q][cur[q]]
<1>1. ASSUME NEW r \in RunIds, StageEnds(r) PROVE  stages'[q][cur'[q]] \in Terminal
  <2>1. PICK result \in StageResults(r) : stages' = SetStage(r, result)
    BY <1>1 DEF StageEnds
  <2>2. result \in Terminal
    BY DEF StageResults, Terminal
  <2> QED
    BY <1>1, <2>1, <2>2 DEF StageEnds, SetStage
<1>2. ASSUME NEW r \in RunIds,
             GateStage(r) \/ DenyStage(r) \/ StartStage(r) \/ SkipStage(r)
      PROVE  Same
  BY <1>2 DEF GateStage, DenyStage, StartStage, SkipStage, SetStage, SetStageSkipRest
<1>3. ASSUME NEW r \in RunIds,
             SaveWaiting(r) \/ SaveDenied(r) \/ SaveStarted(r) \/ SkippedAll(r)
      PROVE  Same
  BY <1>3 DEF SaveWaiting, SaveDenied, SaveStarted, SkippedAll
<1>4. ASSUME NEW r \in RunIds, StageSucceeds(r) \/ OpenLog(r) PROVE  Same
  <2>1. PICK place \in {"finish", "gate", "start"} : Goto(r, place)
    BY <1>4, ArrivePlace DEF StageSucceeds, OpenLog
  <2>2. CASE StageSucceeds(r)
    BY <2>1, <2>2 DEF StageSucceeds
  <2>3. CASE OpenLog(r)
    BY <2>1, <2>3 DEF OpenLog
  <2> QED
    BY <1>4, <2>2, <2>3
<1>5. ASSUME NEW r \in RunIds,
             \/ TriggerOffer(r) \/ FinalizeRefused(r) \/ FinalizeRun(r) \/ PruneRuns(r)
             \/ TakeSlot(r) \/ LeaveSlot(r) \/ Begin(r) \/ BeginCanceled(r)
      PROVE  Same
  BY <1>5 DEF TriggerOffer, FinalizeRefused, FinalizeRun, Finalize, PruneRuns,
              TakeSlot, LeaveSlot, Begin, BeginCanceled
<1>6. ASSUME NEW r \in RunIds,
             \/ YieldSlot(r) \/ RegisterApproval(r) \/ ReceiveAnswer(r) \/ StopWaiting(r)
             \/ Unregister(r) \/ RetakeSlot(r) \/ StageEndsRun(r)
      PROVE  Same
  BY <1>6 DEF YieldSlot, RegisterApproval, ReceiveAnswer, StopWaiting, Unregister,
              RetakeSlot, StageEndsRun
<1>7. ASSUME NEW r \in RunIds, CancelQueued(r) \/ CancelRunning(r) \/ Timeout(r) PROVE  Same
  BY <1>7 DEF CancelQueued, CancelRunning, Timeout
<1>8. ASSUME NEW c \in Callers, TriggerAppend(c) PROVE  Same
  BY <1>8, AppendedRunIsNew DEF TriggerAppend
<1>9. ASSUME NEW c \in Callers,
             (\E p \in Pipelines : TriggerCheck(c, p)) \/ TriggerUnresolved(c)
      PROVE  Same
  BY <1>9 DEF TriggerCheck, TriggerUnresolved
<1>10. ASSUME NEW a \in Approvers,
             (\E r \in RunIds, answer \in Answer : ApproveLookup(a, r, answer)) \/ ApproveSend(a)
      PROVE  Same
  BY <1>10 DEF ApproveLookup, ApproveSend
<1>11. ASSUME Dequeue PROVE  Same
  BY <1>11, DequeuedRunWaits DEF Dequeue
<1>12. ASSUME (\E p \in Pipelines : DeletePipeline(p)) \/ StopWorker \/ UNCHANGED vars
      PROVE  Same
  BY <1>12 DEF DeletePipeline, StopWorker
<1>13. ASSUME Restart PROVE  FALSE
  BY <1>13 DEF Restart
<1> HIDE DEF Same
<1>14. Same => stages'[q][cur'[q]] \in Terminal
  BY DEF Same
<1> QED
  BY <1>1, <1>2, <1>3, <1>4, <1>5, <1>6, <1>7, <1>8, <1>9, <1>10, <1>11, <1>12, <1>13,
     <1>14 DEF Next, RunStep

\* Every step keeps what runs.json needs to know of an ended run.
LEMMA HistoryStep ==
  TypeOK /\ RunsNumbered /\ QueuePlaces /\ HistoryOnDisk /\ [Next]_vars => HistoryOnDisk'
<1> SUFFICES ASSUME TypeOK, RunsNumbered, QueuePlaces, HistoryOnDisk, [Next]_vars
             PROVE  HistoryOnDisk'
  OBVIOUS
<1> USE DEF StagesOnly, SaveStages, TypeOK, HistoryOnDisk, Terminal, vars, memory, goroutines,
          channels, callers, Goto, Persist
<1>1. ASSUME NEW c \in Callers, NEW p \in Pipelines, TriggerCheck(c, p) PROVE  HistoryOnDisk'
  BY <1>1 DEF TriggerCheck
<1>2. ASSUME NEW c \in Callers, TriggerUnresolved(c) PROVE  HistoryOnDisk'
  BY <1>2 DEF TriggerUnresolved
<1>3. ASSUME NEW c \in Callers, TriggerAppend(c) PROVE  HistoryOnDisk'
  <2>1. nextRun' \in RunIds /\ at[nextRun'] = "none"
    BY <1>3, AppendedRunIsNew
  <2>2. /\ live' = live \cup {nextRun'} /\ saved' = saved
        /\ at' = [at EXCEPT ![nextRun'] = "offer"]
        /\ status' = [status EXCEPT ![nextRun'] = "queued"]
    BY <1>3 DEF TriggerAppend
  <2> QED
    BY <2>1, <2>2
<1>4. ASSUME NEW r \in RunIds, TriggerOffer(r) PROVE  HistoryOnDisk'
  BY <1>4 DEF TriggerOffer
<1>5. ASSUME NEW r \in RunIds, FinalizeRefused(r) PROVE  HistoryOnDisk'
  BY <1>5 DEF FinalizeRefused, Finalize
<1>6. ASSUME NEW r \in RunIds, FinalizeRun(r) PROVE  HistoryOnDisk'
  BY <1>6 DEF FinalizeRun, Finalize
<1>7. ASSUME NEW r \in RunIds, PruneRuns(r) PROVE  HistoryOnDisk'
  BY <1>7 DEF PruneRuns
<1>8. ASSUME NEW r \in RunIds, TakeSlot(r) PROVE  HistoryOnDisk'
  BY <1>8 DEF TakeSlot
<1>9. ASSUME NEW r \in RunIds, LeaveSlot(r) PROVE  HistoryOnDisk'
  BY <1>9 DEF LeaveSlot
<1>10. ASSUME NEW r \in RunIds, Begin(r) PROVE  HistoryOnDisk'
  BY <1>10 DEF Begin, StillQueued
<1>11. ASSUME NEW r \in RunIds, BeginCanceled(r) PROVE  HistoryOnDisk'
  BY <1>11 DEF BeginCanceled
<1>12. ASSUME NEW r \in RunIds, OpenLog(r) PROVE  HistoryOnDisk'
  BY <1>12 DEF OpenLog
<1>13. ASSUME NEW r \in RunIds, GateStage(r) PROVE  HistoryOnDisk'
  BY <1>13 DEF GateStage
<1>14. ASSUME NEW r \in RunIds, YieldSlot(r) PROVE  HistoryOnDisk'
  BY <1>14 DEF YieldSlot
<1>15. ASSUME NEW r \in RunIds, RegisterApproval(r) PROVE  HistoryOnDisk'
  BY <1>15 DEF RegisterApproval
<1>16. ASSUME NEW r \in RunIds, ReceiveAnswer(r) PROVE  HistoryOnDisk'
  BY <1>16 DEF ReceiveAnswer
<1>17. ASSUME NEW r \in RunIds, StopWaiting(r) PROVE  HistoryOnDisk'
  BY <1>17 DEF StopWaiting
<1>18. ASSUME NEW r \in RunIds, Unregister(r) PROVE  HistoryOnDisk'
  BY <1>18 DEF Unregister
<1>19. ASSUME NEW r \in RunIds, RetakeSlot(r) PROVE  HistoryOnDisk'
  BY <1>19 DEF RetakeSlot
<1>20. ASSUME NEW r \in RunIds, DenyStage(r) PROVE  HistoryOnDisk'
  BY <1>20 DEF DenyStage
<1>21. ASSUME NEW r \in RunIds, StartStage(r) PROVE  HistoryOnDisk'
  BY <1>21 DEF StartStage
<1>22. ASSUME NEW r \in RunIds, StageSucceeds(r) PROVE  HistoryOnDisk'
  BY <1>22 DEF StageSucceeds
<1>23. ASSUME NEW r \in RunIds, StageEndsRun(r) PROVE  HistoryOnDisk'
  BY <1>23 DEF StageEndsRun
<1>24. ASSUME NEW r \in RunIds, StageEnds(r) PROVE  HistoryOnDisk'
  BY <1>24 DEF StageEnds
<1>25. ASSUME NEW r \in RunIds, SaveWaiting(r) PROVE  HistoryOnDisk'
  BY <1>25 DEF SaveWaiting
<1>26. ASSUME NEW r \in RunIds, SaveDenied(r) PROVE  HistoryOnDisk'
  BY <1>26 DEF SaveDenied
<1>27. ASSUME NEW r \in RunIds, SaveStarted(r) PROVE  HistoryOnDisk'
  BY <1>27 DEF SaveStarted
<1>28. ASSUME NEW r \in RunIds, SkipStage(r) PROVE  HistoryOnDisk'
  BY <1>28 DEF SkipStage
<1>29. ASSUME NEW r \in RunIds, SkippedAll(r) PROVE  HistoryOnDisk'
  BY <1>29 DEF SkippedAll
<1>30. ASSUME NEW r \in RunIds, CancelQueued(r) PROVE  HistoryOnDisk'
  BY <1>30 DEF CancelQueued
<1>31. ASSUME NEW r \in RunIds, CancelRunning(r) PROVE  HistoryOnDisk'
  BY <1>31 DEF CancelRunning
<1>32. ASSUME NEW r \in RunIds, Timeout(r) PROVE  HistoryOnDisk'
  BY <1>32 DEF Timeout
<1>33. ASSUME NEW a \in Approvers, NEW r \in RunIds, NEW answer \in Answer,
              ApproveLookup(a, r, answer) PROVE  HistoryOnDisk'
  BY <1>33 DEF ApproveLookup
<1>34. ASSUME NEW a \in Approvers, ApproveSend(a) PROVE  HistoryOnDisk'
  BY <1>34 DEF ApproveSend
<1>35. ASSUME NEW p \in Pipelines, DeletePipeline(p) PROVE  HistoryOnDisk'
  BY <1>35 DEF DeletePipeline
<1>36. ASSUME Dequeue PROVE  HistoryOnDisk'
  BY <1>36, DequeuedRunWaits DEF Dequeue
<1>37. ASSUME StopWorker PROVE  HistoryOnDisk'
  BY <1>37 DEF StopWorker
<1>38. ASSUME Restart PROVE  HistoryOnDisk'
  BY <1>38 DEF Restart
<1>39. ASSUME UNCHANGED vars PROVE  HistoryOnDisk'
  BY <1>39
<1> QED
  BY <1>1, <1>2, <1>3, <1>4, <1>5, <1>6, <1>7, <1>8, <1>9, <1>10, <1>11,
     <1>12, <1>13, <1>14, <1>15, <1>16, <1>17, <1>18, <1>19, <1>20, <1>21,
     <1>22, <1>23, <1>24, <1>25, <1>26, <1>27, <1>28, <1>29, <1>30, <1>31,
     <1>32, <1>33, <1>34, <1>35, <1>36, <1>37, <1>38, <1>39 DEF Next, RunStep


-----------------------------------------------------------------------------
(* The inductive invariant and what follows from it. *)

\* NewEngine starts in the invariant.
LEMMA InitInvariant == Init => EngineInvariant
<1> SUFFICES ASSUME Init PROVE EngineInvariant
  OBVIOUS
<1> USE DEF Init
<1>1. TypeOK
  BY BoundAssumption DEF TypeOK, RunStatus, StageStatus, Place, Terminal, StageIds
<1>2. SlotHolders = {}
  BY DEF SlotHolders, HoldsSlot, Executing, Unsaved, Waiting
<1>3. SlotsCounted
  BY <1>2, FS_EmptySet, MaxParallelAssumption DEF SlotsCounted
<1>4. QueuePlaces
  BY DEF QueuePlaces
<1>5. RunsNumbered /\ ExecutingIsRunning /\ EndedHasResult /\ SavedIsLive /\ HistoryOnDisk
  BY DEF RunsNumbered, ExecutingIsRunning, Executing, Unsaved, Waiting,
         EndedHasResult, SavedIsLive, HistoryOnDisk
<1> QED
  BY <1>1, <1>3, <1>4, <1>5 DEF EngineInvariant

\* Every step of the engine, a restart included, preserves it.
LEMMA StepInvariant == EngineInvariant /\ [Next]_vars => EngineInvariant'
BY TypeStep, NumberedStep, QueueStep, SlotsStep, ExecutingStep, ResultStep, SavedStep,
   HistoryStep
   DEF EngineInvariant

\* The inductive invariant holds in every state the engine reaches.
THEOREM InvariantHolds == Spec => []EngineInvariant
BY InitInvariant, StepInvariant, PTL DEF Spec

\* Type correctness of the engine's state.
THEOREM TypeCorrect == Spec => []TypeOK
<1>1. EngineInvariant => TypeOK
  BY DEF EngineInvariant
<1> QED
  BY <1>1, InvariantHolds, PTL

\* The tokens of e.sem are the goroutines that hold a slot, at most
\* MaxParallel of them, whatever runs yield and retake around approvals.
THEOREM SlotsCorrect == Spec => []SlotsCounted
<1>1. EngineInvariant => SlotsCounted
  BY DEF EngineInvariant
<1> QED
  BY <1>1, InvariantHolds, PTL

\* At most MaxParallel runs execute steps at any time.
THEOREM ConcurrencyCorrect == Spec => []ConcurrencyBounded
<1>1. ASSUME EngineInvariant PROVE ConcurrencyBounded
  <2> DEFINE Steppers == {r \in RunIds : at[r] = "steps"}
  <2>1. Steppers \subseteq SlotHolders
    BY DEF SlotHolders, HoldsSlot, Executing, Unsaved, Waiting
  <2>2. Cardinality(Steppers) <= Cardinality(SlotHolders)
    BY <2>1, HoldersFinite, FS_Subset
  <2>3. Steppers \in SUBSET SlotHolders /\ IsFiniteSet(Steppers)
    BY <2>1, HoldersFinite, FS_Subset
  <2>4. Cardinality(Steppers) \in Nat /\ Cardinality(SlotHolders) \in Nat
    BY <2>3, HoldersFinite, FS_CardinalityType
  <2>5. Cardinality(SlotHolders) <= MaxParallel /\ MaxParallel \in Nat
    BY <1>1, MaxParallelAssumption DEF EngineInvariant, SlotsCounted
  <2> HIDE DEF Steppers
  <2>6. Cardinality(Steppers) <= MaxParallel
    BY <2>2, <2>4, <2>5
  <2> QED
    BY <2>6 DEF ConcurrencyBounded, Steppers
<1> QED
  BY <1>1, InvariantHolds, PTL

\* No goroutine works on the stages of a run that has ended.
THEOREM ExecutingCorrect == Spec => []ExecutingIsRunning
<1>1. EngineInvariant => ExecutingIsRunning
  BY DEF EngineInvariant
<1> QED
  BY <1>1, InvariantHolds, PTL

\* What the history shows as ended is on disk as ended: a crash at any point
\* loses no result.
THEOREM HistorySurvives == Spec => []HistoryOnDisk
<1>1. EngineInvariant => HistoryOnDisk
  BY DEF EngineInvariant
<1> QED
  BY <1>1, InvariantHolds, PTL

\* No step changes the status of a run that was offered to the queue and has
\* ended.
LEMMA EndedStep ==
  ASSUME EngineInvariant, [Next]_vars, NEW r \in RunIds,
         Offered(r), status[r] \in Terminal
  PROVE  status'[r] = status[r]
<1> USE DEF EngineInvariant, TypeOK, Terminal, Offered, StagesOnly, SaveStages, vars, memory, goroutines,
            channels, callers, Goto
<1>1. ASSUME NEW c \in Callers, TriggerAppend(c) PROVE status'[r] = status[r]
  BY <1>1, AppendedRunIsNew DEF TriggerAppend
<1>2. ASSUME NEW q \in RunIds, FinalizeRefused(q) PROVE status'[r] = status[r]
  BY <1>2 DEF FinalizeRefused, Finalize
<1>3. ASSUME NEW q \in RunIds, FinalizeRun(q) PROVE status'[r] = status[r]
  <2>1. status[q] = "running"
    BY <1>3 DEF FinalizeRun, ExecutingIsRunning, Executing, Unsaved
  <2> QED
    BY <1>3, <2>1 DEF FinalizeRun, Finalize
<1>4. ASSUME NEW q \in RunIds, Begin(q) PROVE status'[r] = status[r]
  BY <1>4 DEF Begin, StillQueued
<1>5. ASSUME NEW q \in RunIds, CancelQueued(q) PROVE status'[r] = status[r]
  BY <1>5 DEF CancelQueued
<1>6. ASSUME Restart PROVE status'[r] = status[r]
  <2>1. CASE r \in saved.live
    <3>1. saved.status[r] = status[r]
      BY <2>1 DEF SavedIsLive, HistoryOnDisk
    <3> QED
      BY <1>6, <2>1, <3>1 DEF Restart, Recovered, Active
  <2>2. CASE r \notin saved.live
    BY <1>6, <2>2 DEF Restart, Active
  <2> QED
    BY <2>1, <2>2
<1>7. ASSUME UNCHANGED status PROVE status'[r] = status[r]
  BY <1>7
<1>8. ASSUME NEW c \in Callers,
             (\E p \in Pipelines : TriggerCheck(c, p)) \/ TriggerUnresolved(c)
      PROVE  UNCHANGED status
  BY <1>8 DEF TriggerCheck, TriggerUnresolved
<1>9. ASSUME NEW q \in RunIds,
             \/ TriggerOffer(q) \/ PruneRuns(q) \/ TakeSlot(q) \/ LeaveSlot(q)
             \/ BeginCanceled(q) \/ OpenLog(q) \/ GateStage(q) \/ YieldSlot(q)
      PROVE  UNCHANGED status
  BY <1>9 DEF TriggerOffer, PruneRuns, TakeSlot, LeaveSlot, BeginCanceled, OpenLog,
              GateStage, YieldSlot
<1>10. ASSUME NEW q \in RunIds,
             \/ RegisterApproval(q) \/ ReceiveAnswer(q) \/ StopWaiting(q)
             \/ Unregister(q) \/ RetakeSlot(q) \/ DenyStage(q) \/ StartStage(q)
             \/ StageEnds(q) \/ StageSucceeds(q) \/ StageEndsRun(q) \/ SaveWaiting(q)
             \/ SaveDenied(q) \/ SaveStarted(q) \/ SkipStage(q) \/ SkippedAll(q)
             \/ CancelRunning(q) \/ Timeout(q)
      PROVE  UNCHANGED status
  BY <1>10 DEF RegisterApproval, ReceiveAnswer, StopWaiting, Unregister, RetakeSlot,
              DenyStage, StartStage, StageEnds, StageSucceeds, StageEndsRun, SaveWaiting,
              SaveDenied, SaveStarted, SkipStage, SkippedAll, CancelRunning, Timeout
<1>11. ASSUME NEW a \in Approvers,
             (\E q \in RunIds, answer \in Answer : ApproveLookup(a, q, answer)) \/ ApproveSend(a)
      PROVE  UNCHANGED status
  BY <1>11 DEF ApproveLookup, ApproveSend
<1>12. ASSUME (\E p \in Pipelines : DeletePipeline(p)) \/ Dequeue \/ StopWorker \/ UNCHANGED vars
      PROVE  UNCHANGED status
  BY <1>12 DEF DeletePipeline, Dequeue, StopWorker
<1> QED
  BY <1>1, <1>2, <1>3, <1>4, <1>5, <1>6, <1>7, <1>8, <1>9, <1>10, <1>11, <1>12
     DEF Next, RunStep

\* A run that reached the queue and has ended stays as it ended: no late
\* finalize, cancel or restart changes its result.
THEOREM EndedIsFinal == Spec => TerminalIsFinal
<1>1. EngineInvariant /\ [Next]_vars
        => [\A r \in RunIds : Offered(r) /\ status[r] \in Terminal
                                => status'[r] = status[r]]_vars
  BY EndedStep
<1> QED
  BY <1>1, InvariantHolds, PTL DEF Spec, TerminalIsFinal

=============================================================================
