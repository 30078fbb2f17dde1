-------------------------- MODULE CicdStages_proofs -------------------------
(***************************************************************************)
(* The stages of a run of CicdEngine for every value of its constants: the *)
(* order they are executed in, that their results stay, what a restart     *)
(* leaves of them, which of them are asked for, and why a wait for an      *)
(* approval ends.                                                          *)
(***************************************************************************)
EXTENDS CicdRuns_proofs

(* A stage the loop has not come to is pending; the one it is at is as far as
   the loop is with it. *)
ProgressAt(r) ==
  /\ at[r] \in BeforeLoop \cup InLoop =>
       \A i \in StageIds : i > cur[r] => stages[r][i] = "pending"
  /\ at[r] \in {"denied", "skip"} =>
       \A i \in StageIds : i > cur[r] => stages[r][i] \in {"pending", "skipped"}
  /\ at[r] \in BeforeLoop \cup {"gate"} => stages[r][cur[r]] = "pending"
  /\ at[r] \in Waiting \cup {"gated", "yield", "deny"} => stages[r][cur[r]] = "waiting"
  /\ at[r] = "start" => stages[r][cur[r]] \in {"pending", "waiting"}
  /\ at[r] \in {"started", "steps"} => stages[r][cur[r]] = "running"
  /\ at[r] = "ended" => stages[r][cur[r]] \in Terminal
  /\ at[r] = "denied" => stages[r][cur[r]] = "canceled"
StageProgress == \A r \in RunIds : ProgressAt(r)

(* Between the section that sets the status of the stage the loop is at and the
   persist that follows, runs.json shows the status before. *)
StillOnDisk(r, s) ==
  \/ at[r] = "gated" /\ s = "pending"
  \/ at[r] = "started" /\ s \in {"pending", "waiting"}
  \/ at[r] = "ended" /\ s = "running"
  \/ at[r] = "denied" /\ s = "waiting"

(* Otherwise runs.json is behind only with later stages that are skipped. *)
SavedAt(r, i) ==
  saved.stages[r][i] # stages[r][i] =>
    \/ stages[r][i] = "skipped" /\ saved.stages[r][i] = "pending"
    \/ i = cur[r] /\ StillOnDisk(r, saved.stages[r][i])
SavedStages == \A r \in RunIds : \A i \in StageIds : SavedAt(r, i)

(* A stage at work is the one the loop is at, or its run was interrupted by a
   restart and is failed or forgotten. *)
AtWork == Waiting \cup {"gated", "yield", "deny", "start", "started", "steps"}
Unsettled ==
  \A r \in RunIds : \A i \in StageIds : stages[r][i] \in {"waiting", "running"} =>
    \/ at[r] \in AtWork /\ i = cur[r]
    \/ crashes > 0 /\ at[r] = "over" /\ status[r] \in {"failed", "none"}

(* The loop asks for gated stages only, and so do those who answer. *)
AtGate == Waiting \cup {"gate", "gated", "yield", "deny"}
Asked(r, i) == Gated(r, i) /\ at[r] # "none"
AskedIsGated ==
  /\ \A r \in RunIds : at[r] \in AtGate => Gated(r, cur[r])
  /\ \A r \in RunIds : r \in approvals => at[r] \in {"await", "unregister"}
  /\ \A a \in Approvers : sign[a] # NoSignature => Asked(sign[a].run, sign[a].stage)
  /\ \A r \in RunIds : \A i \in StageIds : answers[r][i] # {} => Asked(r, i)

(* A context expires only for a pipeline with a deadline, and is cancelled under
   an execution only by an accepted Cancel. *)
CtxReason ==
  \A r \in RunIds :
    /\ ctx[r] = "expired" => owner[r] \in Timed /\ at[r] # "none"
    /\ ctx[r] = "canceled" /\ at[r] \in Executing => canceling[r]

-----------------------------------------------------------------------------
(* Each is kept by every step. *)

\* The progress of a run is its own affair.
LEMMA ProgressElsewhere ==
  ASSUME NEW r \in RunIds, ProgressAt(r),
         at'[r] = at[r], cur'[r] = cur[r], stages'[r] = stages[r]
  PROVE  ProgressAt(r)'
BY DEF ProgressAt

\* A step of the loop that gives the stage it is at a status.
LEMMA SetStageEffect ==
  ASSUME TypeOK, NEW q \in RunIds, NEW s, stages' = SetStage(q, s)
  PROVE  /\ cur[q] \in StageIds /\ stages'[q][cur[q]] = s
         /\ \A i \in StageIds : i # cur[q] => stages'[q][i] = stages[q][i]
         /\ \A r \in RunIds : r # q => stages'[r] = stages[r]
BY DEF TypeOK, SetStage

\* What is not behind stays so where nothing of it changes.
LEMMA SavedElsewhere ==
  ASSUME NEW r, NEW i, SavedAt(r, i), at'[r] = at[r], cur'[r] = cur[r],
         stages'[r][i] = stages[r][i], saved'.stages[r][i] = saved.stages[r][i]
  PROVE  SavedAt(r, i)'
BY DEF SavedAt, StillOnDisk

\* Outside the windows between a section and its persist, what is not skipped is
\* on disk as it is.
LEMMA OnDisk ==
  ASSUME SavedStages, NEW r \in RunIds, at[r] \notin Unsaved,
         NEW i \in StageIds, stages[r][i] # "skipped"
  PROVE  saved.stages[r][i] = stages[r][i]
BY DEF SavedStages, SavedAt, StillOnDisk, Unsaved

\* A result that is not on disk is the one the loop has just set.
LEMMA ResultOnDisk ==
  ASSUME SavedStages, StageProgress, NEW r \in RunIds, NEW i \in StageIds,
         stages[r][i] \in Terminal
  PROVE  saved.stages[r][i] = stages[r][i] \/ (at[r] \in {"denied", "ended"} /\ i = cur[r])
BY DEF SavedStages, SavedAt, StillOnDisk, StageProgress, ProgressAt, Terminal

\* Where the loop asks for a stage, the stage has a gate.
LEMMA ArriveAtGate ==
  ASSUME TypeOK, RunsNumbered, NEW r \in RunIds, at[r] # "none", NEW i \in Nat,
         Arrive(r, i) = "gate"
  PROVE  Gated(r, i) /\ i <= StageCount(r)
<1>1. StageCount(r) \in Nat /\ owner[r] \in Pipelines
  BY StageCountNat DEF RunsNumbered
<1>2. i <= StageCount(r)
  BY <1>1, ArriveFacts
<1>3. ~(i > StageCount(r))
  BY <1>1, <1>2
<1>4. Gates[owner[r]][i]
  BY <1>3, Zenon DEF Arrive
<1>5. owner[r] # "none"
  BY <1>1, PipelinesAssumption
<1> QED
  BY <1>2, <1>4, <1>5, Zenon DEF Gated

\* What is asked for stays asked for where no run moves to an ungated stage.
LEMMA AskedKept ==
  ASSUME TypeOK, AskedIsGated, UNCHANGED <<owner, approvals, sign, answers>>,
         \A r \in RunIds : at[r] # "none" => at'[r] # "none",
         \A r \in RunIds : r \in approvals => at'[r] \in {"await", "unregister"},
         \A r \in RunIds : at'[r] \in AtGate => Gated(r, cur[r])'
  PROVE  AskedIsGated'
<1>1. \A r \in RunIds : \A i : Asked(r, i) => Asked(r, i)'
  BY GatedKept DEF Asked
<1>2. \A a \in Approvers : sign[a] # NoSignature => sign[a].run \in RunIds
  BY DEF TypeOK, NoSignature, Signature
<1>3. \A a \in Approvers : sign[a] # NoSignature => Asked(sign[a].run, sign[a].stage)'
  BY <1>1, <1>2 DEF AskedIsGated
<1>4. \A r \in RunIds : \A i \in StageIds : answers[r][i] # {} => Asked(r, i)'
  BY <1>1 DEF AskedIsGated
<1> QED
  BY <1>3, <1>4 DEF AskedIsGated

\* Where the loop is, so are its stages.
LEMMA ProgressStep ==
  ASSUME TypeOK, RunsNumbered, QueuePlaces, UnusedIsFresh, FirstStage,
         StageProgress, [Next]_vars
  PROVE  StageProgress'
<1> USE DEF vars, memory, goroutines, channels, callers, Goto, Persist, StagesOnly,
            SaveStages, TypeOK, StageProgress, BeforeLoop, Entering, InLoop,
            Executing, Waiting, Unsaved
<1>1. ASSUME NEW c \in Callers, NEW p \in Pipelines, TriggerCheck(c, p)
      PROVE  StageProgress'
  BY <1>1 DEF TriggerCheck, ProgressAt
<1>2. ASSUME NEW c \in Callers, TriggerUnresolved(c) PROVE StageProgress'
  BY <1>2 DEF TriggerUnresolved, ProgressAt
<1>3. ASSUME NEW c \in Callers, TriggerAppend(c) PROVE StageProgress'
  <2>1. PICK n \in RunIds :
           /\ at[n] = "none" /\ at'[n] = "offer" /\ status[n] = "none" /\ status'[n] = "queued"
           /\ \A r \in RunIds : r # n =>
                at'[r] = at[r] /\ status'[r] = status[r] /\ owner'[r] = owner[r]
           /\ UNCHANGED <<stages, cur, verdict, chan, answers, saved>>
    BY <1>3, AppendEffect
  <2>2. ASSUME NEW r \in RunIds, r # n PROVE ProgressAt(r)'
    BY <2>1, <2>2, ProgressElsewhere
  <2>3. \A i \in StageIds : stages'[n][i] = "pending"
    BY <2>1 DEF UnusedIsFresh
  <2>4. cur'[n] \in StageIds
    BY <2>1
  <2>5. ProgressAt(n)'
    BY <2>1, <2>3, <2>4 DEF ProgressAt
  <2> QED
    BY <2>2, <2>5
<1>4. ASSUME NEW q \in RunIds, TriggerOffer(q) PROVE StageProgress'
  <2>1. at[q] = "offer" /\ UNCHANGED <<stages, cur>>
    BY <1>4 DEF TriggerOffer
  <2>2. at'[q] \in {"queued", "refused"} /\ \A r \in RunIds : r # q => at'[r] = at[r]
    BY <1>4 DEF TriggerOffer
  <2>3. ASSUME NEW r \in RunIds, r # q PROVE ProgressAt(r)'
    BY <2>1, <2>2, <2>3, ProgressElsewhere
  <2>4. ProgressAt(q)'
    BY <2>1, <2>2 DEF ProgressAt
  <2> QED
    BY <2>3, <2>4
<1>5. ASSUME NEW q \in RunIds, FinalizeRefused(q) PROVE StageProgress'
  BY <1>5 DEF FinalizeRefused, Finalize, ProgressAt
<1>6. ASSUME NEW q \in RunIds, FinalizeRun(q) PROVE StageProgress'
  BY <1>6 DEF FinalizeRun, Finalize, ProgressAt
<1>7. ASSUME NEW q \in RunIds, PruneRuns(q) PROVE StageProgress'
  BY <1>7 DEF PruneRuns, ProgressAt
<1>8. ASSUME NEW q \in RunIds, TakeSlot(q) PROVE StageProgress'
  BY <1>8 DEF TakeSlot, ProgressAt
<1>9. ASSUME NEW q \in RunIds, LeaveSlot(q) PROVE StageProgress'
  BY <1>9 DEF LeaveSlot, ProgressAt
<1>10. ASSUME NEW q \in RunIds, Begin(q) PROVE StageProgress'
  BY <1>10 DEF Begin, StillQueued, ProgressAt
<1>11. ASSUME NEW q \in RunIds, BeginCanceled(q) PROVE StageProgress'
  BY <1>11 DEF BeginCanceled, StillQueued, ProgressAt
<1>12. ASSUME NEW q \in RunIds, OpenLog(q) PROVE StageProgress'
  <2>1. at[q] = "log" /\ UNCHANGED <<stages, cur>>
    BY <1>12 DEF OpenLog
  <2>2. PICK place \in {"finish", "gate", "start"} : at' = [at EXCEPT ![q] = place]
    BY <1>12, OpenLogEffect
  <2>3. ASSUME NEW r \in RunIds, r # q PROVE ProgressAt(r)'
    BY <2>1, <2>2, <2>3, ProgressElsewhere
  <2>4. ProgressAt(q)'
    BY <2>1, <2>2 DEF ProgressAt
  <2> QED
    BY <2>3, <2>4
<1>13. ASSUME NEW q \in RunIds, GateStage(q) PROVE StageProgress'
  <2>1. stages' = SetStage(q, "waiting") /\ UNCHANGED cur
    BY <1>13 DEF GateStage
  <2>2. /\ cur[q] \in StageIds /\ stages'[q][cur[q]] = "waiting"
        /\ \A i \in StageIds : i # cur[q] => stages'[q][i] = stages[q][i]
        /\ \A r \in RunIds : r # q => stages'[r] = stages[r]
    BY <2>1, SetStageEffect
  <2>3. at[q] = "gate" /\ at'[q] = "gated" /\ \A r \in RunIds : r # q => at'[r] = at[r]
    BY <1>13 DEF GateStage
  <2>4. ASSUME NEW r \in RunIds, r # q PROVE ProgressAt(r)'
    BY <2>1, <2>2, <2>3, <2>4, ProgressElsewhere
  <2>5. \A i \in StageIds : i > cur[q] => stages[q][i] = "pending"
    BY <2>3 DEF ProgressAt
  <2>6. \A i \in StageIds : i > cur[q] => i # cur[q]
    BY <2>2 DEF StageIds
  <2>7. cur'[q] = cur[q] /\ \A i \in StageIds : i > cur[q] => stages'[q][i] = "pending"
    <3>1. cur'[q] = cur[q]
      BY <2>1
    <3>2. ASSUME NEW i \in StageIds, i > cur[q] PROVE stages'[q][i] = "pending"
      <4>1. stages[q][i] = "pending" /\ i # cur[q]
        BY <2>5, <2>6, <3>2
      <4> QED
        BY <2>2, <4>1
    <3> QED
      BY <3>1, <3>2
  <2>8. ProgressAt(q)'
    BY <2>2, <2>3, <2>7 DEF ProgressAt
  <2> QED
    BY <2>4, <2>8
<1>14. ASSUME NEW q \in RunIds, YieldSlot(q) PROVE StageProgress'
  BY <1>14 DEF YieldSlot, ProgressAt
<1>15. ASSUME NEW q \in RunIds, RegisterApproval(q) PROVE StageProgress'
  BY <1>15 DEF RegisterApproval, ProgressAt
<1>16. ASSUME NEW q \in RunIds, ReceiveAnswer(q) PROVE StageProgress'
  BY <1>16 DEF ReceiveAnswer, ProgressAt
<1>17. ASSUME NEW q \in RunIds, StopWaiting(q) PROVE StageProgress'
  BY <1>17 DEF StopWaiting, ProgressAt
<1>18. ASSUME NEW q \in RunIds, Unregister(q) PROVE StageProgress'
  BY <1>18 DEF Unregister, ProgressAt
<1>19. ASSUME NEW q \in RunIds, RetakeSlot(q) PROVE StageProgress'
  BY <1>19 DEF RetakeSlot, ProgressAt
<1>20. ASSUME NEW q \in RunIds, DenyStage(q) PROVE StageProgress'
  <2>1. stages' = SetStageSkipRest(q, "canceled") /\ UNCHANGED cur /\ cur[q] \in StageIds
    BY <1>20 DEF DenyStage
  <2>2. at[q] = "deny" /\ at'[q] = "denied" /\ \A r \in RunIds : r # q => at'[r] = at[r]
    BY <1>20 DEF DenyStage
  <2>3. /\ \A r \in RunIds : r # q => stages'[r] = stages[r]
        /\ stages'[q][cur[q]] = "canceled"
        /\ \A i \in StageIds : i # cur[q] => stages'[q][i] \in {stages[q][i], "skipped"}
    BY <2>1 DEF SetStageSkipRest
  <2>4. ASSUME NEW r \in RunIds, r # q PROVE ProgressAt(r)'
    BY <2>1, <2>2, <2>3, <2>4, ProgressElsewhere
  <2>5. ASSUME NEW i \in StageIds, i > cur[q] PROVE stages'[q][i] \in {"pending", "skipped"}
    <3>1. i # cur[q] /\ stages[q][i] = "pending"
      BY <2>1, <2>2, <2>5 DEF ProgressAt, StageIds
    <3> QED
      BY <2>3, <3>1
  <2>6. ProgressAt(q)'
    BY <2>1, <2>2, <2>3, <2>5 DEF ProgressAt
  <2> QED
    BY <2>4, <2>6
<1>21. ASSUME NEW q \in RunIds, StartStage(q) PROVE StageProgress'
  <2>1. stages' = SetStage(q, "running") /\ UNCHANGED cur
    BY <1>21 DEF StartStage
  <2>2. /\ cur[q] \in StageIds /\ stages'[q][cur[q]] = "running"
        /\ \A i \in StageIds : i # cur[q] => stages'[q][i] = stages[q][i]
        /\ \A r \in RunIds : r # q => stages'[r] = stages[r]
    BY <2>1, SetStageEffect
  <2>3. at[q] = "start" /\ at'[q] = "started" /\ \A r \in RunIds : r # q => at'[r] = at[r]
    BY <1>21 DEF StartStage
  <2>4. ASSUME NEW r \in RunIds, r # q PROVE ProgressAt(r)'
    BY <2>1, <2>2, <2>3, <2>4, ProgressElsewhere
  <2>5. \A i \in StageIds : i > cur[q] => stages[q][i] = "pending"
    BY <2>3 DEF ProgressAt
  <2>6. \A i \in StageIds : i > cur[q] => i # cur[q]
    BY <2>2 DEF StageIds
  <2>7. cur'[q] = cur[q] /\ \A i \in StageIds : i > cur[q] => stages'[q][i] = "pending"
    <3>1. cur'[q] = cur[q]
      BY <2>1
    <3>2. ASSUME NEW i \in StageIds, i > cur[q] PROVE stages'[q][i] = "pending"
      <4>1. stages[q][i] = "pending" /\ i # cur[q]
        BY <2>5, <2>6, <3>2
      <4> QED
        BY <2>2, <4>1
    <3> QED
      BY <3>1, <3>2
  <2>8. ProgressAt(q)'
    BY <2>2, <2>3, <2>7 DEF ProgressAt
  <2> QED
    BY <2>4, <2>8
<1>22. ASSUME NEW q \in RunIds, StageEnds(q) PROVE StageProgress'
  <2>1. PICK result \in Terminal : stages' = SetStage(q, result) /\ UNCHANGED cur
    BY <1>22 DEF StageEnds, StageResults, Terminal
  <2>2. /\ cur[q] \in StageIds /\ stages'[q][cur[q]] = result
        /\ \A i \in StageIds : i # cur[q] => stages'[q][i] = stages[q][i]
        /\ \A r \in RunIds : r # q => stages'[r] = stages[r]
    BY <2>1, SetStageEffect
  <2>3. at[q] = "steps" /\ at'[q] = "ended" /\ \A r \in RunIds : r # q => at'[r] = at[r]
    BY <1>22 DEF StageEnds
  <2>4. ASSUME NEW r \in RunIds, r # q PROVE ProgressAt(r)'
    BY <2>1, <2>2, <2>3, <2>4, ProgressElsewhere
  <2>5. \A i \in StageIds : i > cur[q] => stages[q][i] = "pending"
    BY <2>3 DEF ProgressAt
  <2>6. \A i \in StageIds : i > cur[q] => i # cur[q]
    BY <2>2 DEF StageIds
  <2>7. cur'[q] = cur[q] /\ \A i \in StageIds : i > cur[q] => stages'[q][i] = "pending"
    <3>1. cur'[q] = cur[q]
      BY <2>1
    <3>2. ASSUME NEW i \in StageIds, i > cur[q] PROVE stages'[q][i] = "pending"
      <4>1. stages[q][i] = "pending" /\ i # cur[q]
        BY <2>5, <2>6, <3>2
      <4> QED
        BY <2>2, <4>1
    <3> QED
      BY <3>1, <3>2
  <2>8. ProgressAt(q)'
    BY <2>2, <2>3, <2>7 DEF ProgressAt
  <2> QED
    BY <2>4, <2>8
<1>23. ASSUME NEW q \in RunIds, StageSucceeds(q) PROVE StageProgress'
  <2>1. /\ at[q] = "ended" /\ UNCHANGED stages
        /\ at'[q] = Arrive(q, cur[q] + 1)
        /\ cur'[q] = IF cur[q] < StageCount(q) THEN cur[q] + 1 ELSE cur[q]
        /\ \A r \in RunIds : r # q => at'[r] = at[r] /\ cur'[r] = cur[r]
    BY <1>23 DEF StageSucceeds
  <2>2. cur[q] \in StageIds
    OBVIOUS
  <2>3. ASSUME NEW r \in RunIds, r # q PROVE ProgressAt(r)'
    BY <2>1, <2>2, <2>3, ProgressElsewhere
  <2>4. StageCount(q) \in Nat /\ cur[q] \in Nat /\ StageIds \subseteq Nat
    BY <2>1, <2>2, StageCountNat DEF StageIds
  <2>5. at'[q] \in {"gate", "start"} => cur'[q] = cur[q] + 1
    BY <2>1, <2>4, ArriveFacts
  <2>6. \A i \in StageIds : i > cur[q] => stages'[q][i] = "pending"
    BY <2>1, <2>2, <2>4 DEF ProgressAt
  <2>7. at'[q] \in {"gate", "start"} => stages'[q][cur'[q]] = "pending"
    <3>1. StageCount(q) \in 0..StageBound
      BY <2>1, StageCountNat
    <3>2. at'[q] \in {"gate", "start"} => cur[q] + 1 <= StageCount(q)
      BY <2>1, <2>4, ArriveFacts
    <3>3. at'[q] \in {"gate", "start"} => cur'[q] \in StageIds /\ cur'[q] > cur[q]
      BY <2>4, <2>5, <3>1, <3>2, BoundAssumption DEF StageIds
    <3> QED
      BY <2>6, <3>3
  <2>8. at'[q] \in {"gate", "start"} => \A i \in StageIds : i > cur'[q] => stages'[q][i] = "pending"
    BY <2>4, <2>5, <2>6
  <2>9. at'[q] \in {"finish", "gate", "start"}
    BY <2>1, ArrivePlace
  <2>10. ProgressAt(q)'
    BY <2>7, <2>8, <2>9 DEF ProgressAt
  <2> QED
    BY <2>3, <2>10
<1>24. ASSUME NEW q \in RunIds, StageEndsRun(q) PROVE StageProgress'
  BY <1>24 DEF StageEndsRun, ProgressAt
<1>25. ASSUME NEW q \in RunIds, SaveWaiting(q) PROVE StageProgress'
  BY <1>25 DEF SaveWaiting, ProgressAt
<1>26. ASSUME NEW q \in RunIds, SaveDenied(q) PROVE StageProgress'
  BY <1>26 DEF SaveDenied, ProgressAt
<1>27. ASSUME NEW q \in RunIds, SaveStarted(q) PROVE StageProgress'
  BY <1>27 DEF SaveStarted, ProgressAt
<1>28. ASSUME NEW q \in RunIds, SkipStage(q) PROVE StageProgress'
  <2>1. PICK n \in ToSkip(q) : stages' = [stages EXCEPT ![q][n] = "skipped"]
    BY <1>28 DEF SkipStage
  <2>2. at[q] = "skip" /\ UNCHANGED <<at, cur>>
    BY <1>28 DEF SkipStage
  <2>3. /\ \A r \in RunIds : r # q => stages'[r] = stages[r]
        /\ \A i \in StageIds : stages'[q][i] \in {stages[q][i], "skipped"}
    BY <2>1 DEF ToSkip
  <2>4. ASSUME NEW r \in RunIds, r # q PROVE ProgressAt(r)'
    BY <2>2, <2>3, <2>4, ProgressElsewhere
  <2>5. ProgressAt(q)'
    BY <2>2, <2>3 DEF ProgressAt
  <2> QED
    BY <2>4, <2>5
<1>29. ASSUME NEW q \in RunIds, SkippedAll(q) PROVE StageProgress'
  BY <1>29 DEF SkippedAll, ProgressAt
<1>30. ASSUME NEW q \in RunIds, CancelQueued(q) PROVE StageProgress'
  BY <1>30 DEF CancelQueued, ProgressAt
<1>31. ASSUME NEW q \in RunIds, CancelRunning(q) PROVE StageProgress'
  BY <1>31 DEF CancelRunning, ProgressAt
<1>32. ASSUME NEW q \in RunIds, Timeout(q) PROVE StageProgress'
  BY <1>32 DEF Timeout, ProgressAt
<1>33. ASSUME NEW a \in Approvers, NEW q \in RunIds, NEW answer \in Answer, ApproveLookup(a, q, answer)
      PROVE  StageProgress'
  BY <1>33 DEF ApproveLookup, ProgressAt
<1>34. ASSUME NEW a \in Approvers, ApproveSend(a) PROVE StageProgress'
  BY <1>34 DEF ApproveSend, ProgressAt
<1>35. ASSUME NEW p \in Pipelines, DeletePipeline(p) PROVE StageProgress'
  BY <1>35 DEF DeletePipeline, ProgressAt
<1>36. ASSUME Dequeue PROVE StageProgress'
  BY <1>36, DequeuedRunWaits DEF Dequeue, ProgressAt
<1>37. ASSUME StopWorker PROVE StageProgress'
  BY <1>37 DEF StopWorker, ProgressAt
<1>38. ASSUME Restart PROVE StageProgress'
  <2>1. stages' = saved.stages /\ \A r \in RunIds : at'[r] = IF at[r] = "none" THEN "none" ELSE "over"
    BY <1>38 DEF Restart
  <2>2. ASSUME NEW r \in RunIds PROVE ProgressAt(r)'
    <3>1. CASE at[r] = "none"
      <4>1. \A i \in StageIds : stages'[r][i] = "pending"
        BY <2>1, <3>1 DEF UnusedIsFresh
      <4>2. at'[r] = "none" /\ cur'[r] = 1 /\ 1 \in StageIds
        BY <1>38, <3>1, BoundAssumption DEF Restart, StageIds
      <4> QED
        BY <4>1, <4>2 DEF ProgressAt
    <3>2. CASE at[r] # "none"
      BY <2>1, <3>2 DEF ProgressAt
    <3> QED
      BY <3>1, <3>2
  <2> QED
    BY <2>2
<1>39. ASSUME UNCHANGED vars PROVE StageProgress'
  BY <1>39 DEF ProgressAt
<1> QED
  BY <1>1, <1>2, <1>3, <1>4, <1>5, <1>6, <1>7, <1>8, <1>9, <1>10, <1>11, <1>12,
     <1>13, <1>14, <1>15, <1>16, <1>17, <1>18, <1>19, <1>20, <1>21, <1>22, <1>23,
     <1>24, <1>25, <1>26, <1>27, <1>28, <1>29, <1>30, <1>31, <1>32, <1>33, <1>34,
     <1>35, <1>36, <1>37, <1>38, <1>39 DEF Next, RunStep

\* The stages on disk.
LEMMA SavedStagesStep ==
  ASSUME TypeOK, RunsNumbered, QueuePlaces, StageProgress, SavedStages, [Next]_vars
  PROVE  SavedStages'
<1> USE DEF vars, memory, goroutines, channels, callers, Goto, Persist, StagesOnly,
            SaveStages, TypeOK, SavedStages
<1>1. ASSUME NEW c \in Callers, NEW p \in Pipelines, TriggerCheck(c, p)
      PROVE  SavedStages'
  BY <1>1 DEF TriggerCheck, SavedAt, StillOnDisk
<1>2. ASSUME NEW c \in Callers, TriggerUnresolved(c) PROVE SavedStages'
  BY <1>2 DEF TriggerUnresolved, SavedAt, StillOnDisk
<1>3. ASSUME NEW c \in Callers, TriggerAppend(c) PROVE SavedStages'
  <2>1. PICK n \in RunIds :
           /\ at[n] = "none" /\ at'[n] = "offer" /\ status[n] = "none" /\ status'[n] = "queued"
           /\ \A r \in RunIds : r # n =>
                at'[r] = at[r] /\ status'[r] = status[r] /\ owner'[r] = owner[r]
           /\ UNCHANGED <<stages, cur, verdict, chan, answers, saved>>
    BY <1>3, AppendEffect
  <2>2. ASSUME NEW r \in RunIds, r # n, NEW i \in StageIds PROVE SavedAt(r, i)'
    BY <2>1, <2>2, SavedElsewhere
  <2>3. ASSUME NEW i \in StageIds PROVE SavedAt(n, i)'
    <3>1. SavedAt(n, i) /\ at[n] = "none"
      BY <2>1
    <3>2. saved.stages[n][i] # stages[n][i]
            => stages[n][i] = "skipped" /\ saved.stages[n][i] = "pending"
      BY <3>1 DEF SavedAt, StillOnDisk
    <3>3. UNCHANGED <<stages, saved>>
      BY <2>1
    <3> QED
      BY <3>2, <3>3 DEF SavedAt
  <2> QED
    BY <2>2, <2>3
<1>4. ASSUME NEW q \in RunIds, TriggerOffer(q) PROVE SavedStages'
  BY <1>4 DEF TriggerOffer, SavedAt, StillOnDisk
<1>5. ASSUME NEW q \in RunIds, FinalizeRefused(q) PROVE SavedStages'
  BY <1>5 DEF FinalizeRefused, Finalize, SavedAt, StillOnDisk
<1>6. ASSUME NEW q \in RunIds, FinalizeRun(q) PROVE SavedStages'
  BY <1>6 DEF FinalizeRun, Finalize, SavedAt, StillOnDisk
<1>7. ASSUME NEW q \in RunIds, PruneRuns(q) PROVE SavedStages'
  BY <1>7 DEF PruneRuns, SavedAt, StillOnDisk
<1>8. ASSUME NEW q \in RunIds, TakeSlot(q) PROVE SavedStages'
  BY <1>8 DEF TakeSlot, SavedAt, StillOnDisk
<1>9. ASSUME NEW q \in RunIds, LeaveSlot(q) PROVE SavedStages'
  BY <1>9 DEF LeaveSlot, SavedAt, StillOnDisk
<1>10. ASSUME NEW q \in RunIds, Begin(q) PROVE SavedStages'
  BY <1>10 DEF Begin, StillQueued, SavedAt, StillOnDisk
<1>11. ASSUME NEW q \in RunIds, BeginCanceled(q) PROVE SavedStages'
  BY <1>11 DEF BeginCanceled, StillQueued, SavedAt, StillOnDisk
<1>12. ASSUME NEW q \in RunIds, OpenLog(q) PROVE SavedStages'
  BY <1>12 DEF OpenLog, Arrive, SavedAt, StillOnDisk
<1>13. ASSUME NEW q \in RunIds, GateStage(q) PROVE SavedStages'
  <2>1. PICK s : stages' = SetStage(q, s)
    BY <1>13 DEF GateStage
  <2>2. /\ at[q] = "gate" /\ at'[q] = "gated" /\ UNCHANGED <<saved, cur>>
        /\ \A r \in RunIds : r # q => at'[r] = at[r]
    BY <1>13 DEF GateStage
  <2>3. /\ cur[q] \in StageIds
        /\ \A i \in StageIds : i # cur[q] => stages'[q][i] = stages[q][i]
        /\ \A r \in RunIds : r # q => stages'[r] = stages[r]
    BY <2>1, SetStageEffect
  <2>4. stages[q][cur[q]] \in {"pending"}
    BY <2>2 DEF StageProgress, ProgressAt
  <2>5. saved.stages[q][cur[q]] \in {"pending"}
    BY <2>2, <2>3, <2>4, OnDisk DEF Unsaved
  <2>6. ASSUME NEW r \in RunIds, r # q, NEW i \in StageIds PROVE SavedAt(r, i)'
    BY <2>2, <2>3, <2>6, SavedElsewhere
  <2>7. SavedAt(q, cur[q])'
    BY <2>2, <2>5 DEF SavedAt, StillOnDisk
  <2>8. ASSUME NEW i \in StageIds, i # cur[q] PROVE SavedAt(q, i)'
    BY <2>2, <2>3, <2>8 DEF SavedAt, StillOnDisk
  <2>9. ASSUME NEW i \in StageIds PROVE SavedAt(q, i)'
    BY <2>2, <2>7, <2>8
  <2> HIDE DEF vars, memory, goroutines, channels, callers, TypeOK
  <2>10. \A r \in RunIds : \A i \in StageIds : SavedAt(r, i)'
    BY <2>6, <2>9
  <2> QED
    BY <2>10 DEF SavedStages
<1>14. ASSUME NEW q \in RunIds, YieldSlot(q) PROVE SavedStages'
  BY <1>14 DEF YieldSlot, SavedAt, StillOnDisk
<1>15. ASSUME NEW q \in RunIds, RegisterApproval(q) PROVE SavedStages'
  BY <1>15 DEF RegisterApproval, SavedAt, StillOnDisk
<1>16. ASSUME NEW q \in RunIds, ReceiveAnswer(q) PROVE SavedStages'
  BY <1>16 DEF ReceiveAnswer, SavedAt, StillOnDisk
<1>17. ASSUME NEW q \in RunIds, StopWaiting(q) PROVE SavedStages'
  BY <1>17 DEF StopWaiting, SavedAt, StillOnDisk
<1>18. ASSUME NEW q \in RunIds, Unregister(q) PROVE SavedStages'
  BY <1>18 DEF Unregister, SavedAt, StillOnDisk
<1>19. ASSUME NEW q \in RunIds, RetakeSlot(q) PROVE SavedStages'
  BY <1>19 DEF RetakeSlot, SavedAt, StillOnDisk
<1>20. ASSUME NEW q \in RunIds, DenyStage(q) PROVE SavedStages'
  <2>1. stages' = SetStageSkipRest(q, "canceled") /\ cur[q] \in StageIds
    BY <1>20 DEF DenyStage
  <2>2. /\ at[q] = "deny" /\ at'[q] = "denied" /\ UNCHANGED <<saved, cur>>
        /\ \A r \in RunIds : r # q => at'[r] = at[r]
    BY <1>20 DEF DenyStage
  <2>3. /\ \A r \in RunIds : r # q => stages'[r] = stages[r]
        /\ \A i \in StageIds : i # cur[q] =>
             stages'[q][i] = stages[q][i] \/ (i > cur[q] /\ stages'[q][i] = "skipped")
    BY <2>1 DEF SetStageSkipRest
  <2>4. /\ stages[q][cur[q]] = "waiting"
        /\ \A i \in StageIds : i > cur[q] => stages[q][i] = "pending"
    BY <2>2 DEF StageProgress, ProgressAt, InLoop, Executing, Waiting, Unsaved
  <2>5. /\ saved.stages[q][cur[q]] = "waiting"
        /\ \A i \in StageIds : i > cur[q] => saved.stages[q][i] = "pending"
    <3>1. ASSUME NEW i \in StageIds, stages[q][i] \in {"pending", "waiting"}
          PROVE  saved.stages[q][i] = stages[q][i]
      <4>1. at[q] \notin Unsaved /\ stages[q][i] # "skipped"
        BY <2>2, <3>1 DEF Unsaved
      <4> QED
        BY <4>1, OnDisk
    <3> QED
      BY <2>1, <2>4, <3>1
  <2>6. ASSUME NEW r \in RunIds, r # q, NEW i \in StageIds PROVE SavedAt(r, i)'
    BY <2>2, <2>3, <2>6, SavedElsewhere
  <2>7. SavedAt(q, cur[q])'
    BY <2>2, <2>5 DEF SavedAt, StillOnDisk
  <2>8. ASSUME NEW i \in StageIds, i # cur[q] PROVE SavedAt(q, i)'
    BY <2>2, <2>3, <2>5, <2>8 DEF SavedAt, StillOnDisk
  <2>9. ASSUME NEW i \in StageIds PROVE SavedAt(q, i)'
    BY <2>2, <2>7, <2>8
  <2> HIDE DEF vars, memory, goroutines, channels, callers, TypeOK
  <2>10. \A r \in RunIds : \A i \in StageIds : SavedAt(r, i)'
    BY <2>6, <2>9
  <2> QED
    BY <2>10 DEF SavedStages
<1>21. ASSUME NEW q \in RunIds, StartStage(q) PROVE SavedStages'
  <2>1. PICK s : stages' = SetStage(q, s)
    BY <1>21 DEF StartStage
  <2>2. /\ at[q] = "start" /\ at'[q] = "started" /\ UNCHANGED <<saved, cur>>
        /\ \A r \in RunIds : r # q => at'[r] = at[r]
    BY <1>21 DEF StartStage
  <2>3. /\ cur[q] \in StageIds
        /\ \A i \in StageIds : i # cur[q] => stages'[q][i] = stages[q][i]
        /\ \A r \in RunIds : r # q => stages'[r] = stages[r]
    BY <2>1, SetStageEffect
  <2>4. stages[q][cur[q]] \in {"pending", "waiting"}
    BY <2>2 DEF StageProgress, ProgressAt
  <2>5. saved.stages[q][cur[q]] \in {"pending", "waiting"}
    BY <2>2, <2>3, <2>4, OnDisk DEF Unsaved
  <2>6. ASSUME NEW r \in RunIds, r # q, NEW i \in StageIds PROVE SavedAt(r, i)'
    BY <2>2, <2>3, <2>6, SavedElsewhere
  <2>7. SavedAt(q, cur[q])'
    BY <2>2, <2>5 DEF SavedAt, StillOnDisk
  <2>8. ASSUME NEW i \in StageIds, i # cur[q] PROVE SavedAt(q, i)'
    BY <2>2, <2>3, <2>8 DEF SavedAt, StillOnDisk
  <2>9. ASSUME NEW i \in StageIds PROVE SavedAt(q, i)'
    BY <2>2, <2>7, <2>8
  <2> HIDE DEF vars, memory, goroutines, channels, callers, TypeOK
  <2>10. \A r \in RunIds : \A i \in StageIds : SavedAt(r, i)'
    BY <2>6, <2>9
  <2> QED
    BY <2>10 DEF SavedStages
<1>22. ASSUME NEW q \in RunIds, StageEnds(q) PROVE SavedStages'
  <2>1. PICK s : stages' = SetStage(q, s)
    BY <1>22 DEF StageEnds
  <2>2. /\ at[q] = "steps" /\ at'[q] = "ended" /\ UNCHANGED <<saved, cur>>
        /\ \A r \in RunIds : r # q => at'[r] = at[r]
    BY <1>22 DEF StageEnds
  <2>3. /\ cur[q] \in StageIds
        /\ \A i \in StageIds : i # cur[q] => stages'[q][i] = stages[q][i]
        /\ \A r \in RunIds : r # q => stages'[r] = stages[r]
    BY <2>1, SetStageEffect
  <2>4. stages[q][cur[q]] \in {"running"}
    BY <2>2 DEF StageProgress, ProgressAt
  <2>5. saved.stages[q][cur[q]] \in {"running"}
    BY <2>2, <2>3, <2>4, OnDisk DEF Unsaved
  <2>6. ASSUME NEW r \in RunIds, r # q, NEW i \in StageIds PROVE SavedAt(r, i)'
    BY <2>2, <2>3, <2>6, SavedElsewhere
  <2>7. SavedAt(q, cur[q])'
    BY <2>2, <2>5 DEF SavedAt, StillOnDisk
  <2>8. ASSUME NEW i \in StageIds, i # cur[q] PROVE SavedAt(q, i)'
    BY <2>2, <2>3, <2>8 DEF SavedAt, StillOnDisk
  <2>9. ASSUME NEW i \in StageIds PROVE SavedAt(q, i)'
    BY <2>2, <2>7, <2>8
  <2> HIDE DEF vars, memory, goroutines, channels, callers, TypeOK
  <2>10. \A r \in RunIds : \A i \in StageIds : SavedAt(r, i)'
    BY <2>6, <2>9
  <2> QED
    BY <2>10 DEF SavedStages
<1>23. ASSUME NEW q \in RunIds, StageSucceeds(q) PROVE SavedStages'
  BY <1>23 DEF StageSucceeds, SavedAt, StillOnDisk
<1>24. ASSUME NEW q \in RunIds, StageEndsRun(q) PROVE SavedStages'
  BY <1>24 DEF StageEndsRun, SavedAt, StillOnDisk
<1>25. ASSUME NEW q \in RunIds, SaveWaiting(q) PROVE SavedStages'
  BY <1>25 DEF SaveWaiting, SavedAt, StillOnDisk
<1>26. ASSUME NEW q \in RunIds, SaveDenied(q) PROVE SavedStages'
  BY <1>26 DEF SaveDenied, SavedAt, StillOnDisk
<1>27. ASSUME NEW q \in RunIds, SaveStarted(q) PROVE SavedStages'
  BY <1>27 DEF SaveStarted, SavedAt, StillOnDisk
<1>28. ASSUME NEW q \in RunIds, SkipStage(q) PROVE SavedStages'
  <2>1. PICK n \in ToSkip(q) : stages' = [stages EXCEPT ![q][n] = "skipped"]
    BY <1>28 DEF SkipStage
  <2>2. at[q] = "skip" /\ UNCHANGED <<at, cur, saved>>
    BY <1>28 DEF SkipStage
  <2>3. n \in StageIds /\ n > cur[q] /\ stages[q][n] # "skipped"
    BY <2>1 DEF ToSkip, StageIds
  <2>4. saved.stages[q][n] = "pending"
    <3>1. stages[q][n] = "pending"
      BY <2>2, <2>3 DEF StageProgress, ProgressAt
    <3>2. at[q] \notin Unsaved
      BY <2>2 DEF Unsaved
    <3> QED
      BY <2>3, <3>1, <3>2, OnDisk
  <2>5. /\ \A r \in RunIds : r # q => stages'[r] = stages[r]
        /\ stages'[q][n] = "skipped"
        /\ \A i \in StageIds : i # n => stages'[q][i] = stages[q][i]
    BY <2>1, <2>3
  <2>6. ASSUME NEW r \in RunIds, r # q, NEW i \in StageIds PROVE SavedAt(r, i)'
    BY <2>2, <2>5, <2>6, SavedElsewhere
  <2>7. SavedAt(q, n)'
    BY <2>2, <2>4, <2>5 DEF SavedAt
  <2>8. ASSUME NEW i \in StageIds, i # n PROVE SavedAt(q, i)'
    BY <2>2, <2>5, <2>8, SavedElsewhere
  <2>9. ASSUME NEW i \in StageIds PROVE SavedAt(q, i)'
    BY <2>7, <2>8
  <2> HIDE DEF vars, memory, goroutines, channels, callers, TypeOK
  <2>10. \A r \in RunIds : \A i \in StageIds : SavedAt(r, i)'
    BY <2>6, <2>9
  <2> QED
    BY <2>10 DEF SavedStages
<1>29. ASSUME NEW q \in RunIds, SkippedAll(q) PROVE SavedStages'
  BY <1>29 DEF SkippedAll, SavedAt, StillOnDisk
<1>30. ASSUME NEW q \in RunIds, CancelQueued(q) PROVE SavedStages'
  BY <1>30 DEF CancelQueued, SavedAt, StillOnDisk
<1>31. ASSUME NEW q \in RunIds, CancelRunning(q) PROVE SavedStages'
  BY <1>31 DEF CancelRunning, SavedAt, StillOnDisk
<1>32. ASSUME NEW q \in RunIds, Timeout(q) PROVE SavedStages'
  BY <1>32 DEF Timeout, SavedAt, StillOnDisk
<1>33. ASSUME NEW a \in Approvers, NEW q \in RunIds, NEW answer \in Answer, ApproveLookup(a, q, answer)
      PROVE  SavedStages'
  BY <1>33 DEF ApproveLookup, SavedAt, StillOnDisk
<1>34. ASSUME NEW a \in Approvers, ApproveSend(a) PROVE SavedStages'
  BY <1>34 DEF ApproveSend, SavedAt, StillOnDisk
<1>35. ASSUME NEW p \in Pipelines, DeletePipeline(p) PROVE SavedStages'
  BY <1>35 DEF DeletePipeline, SavedAt, StillOnDisk
<1>36. ASSUME Dequeue PROVE SavedStages'
  BY <1>36, DequeuedRunWaits DEF Dequeue, SavedAt, StillOnDisk
<1>37. ASSUME StopWorker PROVE SavedStages'
  BY <1>37 DEF StopWorker, SavedAt, StillOnDisk
<1>38. ASSUME Restart PROVE SavedStages'
  BY <1>38 DEF Restart, Recovered, SavedAt, StillOnDisk
<1>39. ASSUME UNCHANGED vars PROVE SavedStages'
  BY <1>39 DEF SavedAt, StillOnDisk
<1> QED
  BY <1>1, <1>2, <1>3, <1>4, <1>5, <1>6, <1>7, <1>8, <1>9, <1>10, <1>11, <1>12,
     <1>13, <1>14, <1>15, <1>16, <1>17, <1>18, <1>19, <1>20, <1>21, <1>22, <1>23,
     <1>24, <1>25, <1>26, <1>27, <1>28, <1>29, <1>30, <1>31, <1>32, <1>33, <1>34,
     <1>35, <1>36, <1>37, <1>38, <1>39 DEF Next, RunStep

\* What is at work is where the loop is, or was interrupted.
LEMMA UnsettledStep ==
  ASSUME TypeOK, RunsNumbered, QueuePlaces, ExecutingIsRunning, StatusPlaces,
         SavedStatus, StageProgress, SavedStages, Unsettled, [Next]_vars
  PROVE  Unsettled'
<1> USE DEF vars, memory, goroutines, channels, callers, Goto, Persist, StagesOnly,
            SaveStages, TypeOK, Unsettled, AtWork, Waiting
<1>1. ASSUME NEW c \in Callers, NEW p \in Pipelines, TriggerCheck(c, p) PROVE Unsettled'
  BY <1>1 DEF TriggerCheck
<1>2. ASSUME NEW c \in Callers, TriggerUnresolved(c) PROVE Unsettled'
  BY <1>2 DEF TriggerUnresolved
<1>3. ASSUME NEW c \in Callers, TriggerAppend(c) PROVE Unsettled'
  <2>1. PICK n \in RunIds :
           /\ at[n] = "none" /\ at'[n] = "offer" /\ status[n] = "none" /\ status'[n] = "queued"
           /\ \A r \in RunIds : r # n =>
                at'[r] = at[r] /\ status'[r] = status[r] /\ owner'[r] = owner[r]
           /\ UNCHANGED <<stages, cur, verdict, chan, answers, saved>>
    BY <1>3, AppendEffect
  <2>2. ASSUME NEW r \in RunIds, NEW i \in StageIds, stages'[r][i] \in {"waiting", "running"}
        PROVE  \/ at'[r] \in AtWork /\ i = cur'[r]
               \/ crashes' > 0 /\ at'[r] = "over" /\ status'[r] \in {"failed", "none"}
    <3>1. \/ at[r] \in AtWork /\ i = cur[r]
          \/ crashes > 0 /\ at[r] = "over" /\ status[r] \in {"failed", "none"}
      BY <2>1, <2>2
    <3>2. r # n
      BY <2>1, <3>1
    <3>3. crashes' = crashes
      BY <1>3 DEF TriggerAppend
    <3> QED
      BY <2>1, <3>1, <3>2, <3>3
  <2> QED
    BY <2>2
<1>4. ASSUME NEW q \in RunIds, TriggerOffer(q) PROVE Unsettled'
  <2>1. at[q] = "offer" /\ UNCHANGED <<stages, cur, status, crashes>>
        /\ \A r \in RunIds : r # q => at'[r] = at[r]
    BY <1>4 DEF TriggerOffer
  <2>2. ASSUME NEW r \in RunIds, NEW i \in StageIds, stages[r][i] \in {"waiting", "running"}
        PROVE  \/ at'[r] \in AtWork /\ i = cur'[r]
               \/ crashes' > 0 /\ at'[r] = "over" /\ status'[r] \in {"failed", "none"}
    <3>1. \/ at[r] \in AtWork /\ i = cur[r]
          \/ crashes > 0 /\ at[r] = "over" /\ status[r] \in {"failed", "none"}
      BY <2>2
    <3>2. r # q
      BY <2>1, <3>1
    <3> QED
      BY <2>1, <3>1, <3>2
  <2> QED
    BY <2>1, <2>2
<1>5. ASSUME NEW q \in RunIds, FinalizeRefused(q) PROVE Unsettled'
  BY <1>5 DEF FinalizeRefused, Finalize
<1>6. ASSUME NEW q \in RunIds, FinalizeRun(q) PROVE Unsettled'
  BY <1>6 DEF FinalizeRun, Finalize
<1>7. ASSUME NEW q \in RunIds, PruneRuns(q) PROVE Unsettled'
  BY <1>7 DEF PruneRuns
<1>8. ASSUME NEW q \in RunIds, TakeSlot(q) PROVE Unsettled'
  BY <1>8 DEF TakeSlot
<1>9. ASSUME NEW q \in RunIds, LeaveSlot(q) PROVE Unsettled'
  BY <1>9 DEF LeaveSlot
<1>10. ASSUME NEW q \in RunIds, Begin(q) PROVE Unsettled'
  BY <1>10 DEF Begin, StillQueued
<1>11. ASSUME NEW q \in RunIds, BeginCanceled(q) PROVE Unsettled'
  BY <1>11 DEF BeginCanceled, StillQueued
<1>12. ASSUME NEW q \in RunIds, OpenLog(q) PROVE Unsettled'
  <2>1. at[q] = "log" /\ UNCHANGED <<stages, cur, status, crashes>>
        /\ \A r \in RunIds : r # q => at'[r] = at[r]
    BY <1>12 DEF OpenLog
  <2>2. ASSUME NEW r \in RunIds, NEW i \in StageIds, stages[r][i] \in {"waiting", "running"}
        PROVE  \/ at'[r] \in AtWork /\ i = cur'[r]
               \/ crashes' > 0 /\ at'[r] = "over" /\ status'[r] \in {"failed", "none"}
    <3>1. \/ at[r] \in AtWork /\ i = cur[r]
          \/ crashes > 0 /\ at[r] = "over" /\ status[r] \in {"failed", "none"}
      BY <2>2
    <3>2. r # q
      BY <2>1, <3>1
    <3> QED
      BY <2>1, <3>1, <3>2
  <2> QED
    BY <2>1, <2>2
<1>13. ASSUME NEW q \in RunIds, GateStage(q) PROVE Unsettled'
  BY <1>13 DEF GateStage, SetStage
<1>14. ASSUME NEW q \in RunIds, YieldSlot(q) PROVE Unsettled'
  BY <1>14 DEF YieldSlot
<1>15. ASSUME NEW q \in RunIds, RegisterApproval(q) PROVE Unsettled'
  BY <1>15 DEF RegisterApproval
<1>16. ASSUME NEW q \in RunIds, ReceiveAnswer(q) PROVE Unsettled'
  BY <1>16 DEF ReceiveAnswer
<1>17. ASSUME NEW q \in RunIds, StopWaiting(q) PROVE Unsettled'
  BY <1>17 DEF StopWaiting
<1>18. ASSUME NEW q \in RunIds, Unregister(q) PROVE Unsettled'
  BY <1>18 DEF Unregister
<1>19. ASSUME NEW q \in RunIds, RetakeSlot(q) PROVE Unsettled'
  BY <1>19 DEF RetakeSlot
<1>20. ASSUME NEW q \in RunIds, DenyStage(q) PROVE Unsettled'
  BY <1>20 DEF DenyStage, SetStageSkipRest
<1>21. ASSUME NEW q \in RunIds, StartStage(q) PROVE Unsettled'
  BY <1>21 DEF StartStage, SetStage
<1>22. ASSUME NEW q \in RunIds, StageEnds(q) PROVE Unsettled'
  BY <1>22 DEF StageEnds, SetStage, StageResults
<1>23. ASSUME NEW q \in RunIds, StageSucceeds(q) PROVE Unsettled'
  BY <1>23 DEF StageSucceeds
<1>24. ASSUME NEW q \in RunIds, StageEndsRun(q) PROVE Unsettled'
  BY <1>24 DEF StageEndsRun
<1>25. ASSUME NEW q \in RunIds, SaveWaiting(q) PROVE Unsettled'
  BY <1>25 DEF SaveWaiting
<1>26. ASSUME NEW q \in RunIds, SaveDenied(q) PROVE Unsettled'
  BY <1>26 DEF SaveDenied
<1>27. ASSUME NEW q \in RunIds, SaveStarted(q) PROVE Unsettled'
  BY <1>27 DEF SaveStarted
<1>28. ASSUME NEW q \in RunIds, SkipStage(q) PROVE Unsettled'
  BY <1>28 DEF SkipStage, ToSkip
<1>29. ASSUME NEW q \in RunIds, SkippedAll(q) PROVE Unsettled'
  BY <1>29 DEF SkippedAll
<1>30. ASSUME NEW q \in RunIds, CancelQueued(q) PROVE Unsettled'
  BY <1>30 DEF CancelQueued, StatusPlaces
<1>31. ASSUME NEW q \in RunIds, CancelRunning(q) PROVE Unsettled'
  BY <1>31 DEF CancelRunning
<1>32. ASSUME NEW q \in RunIds, Timeout(q) PROVE Unsettled'
  BY <1>32 DEF Timeout
<1>33. ASSUME NEW a \in Approvers, NEW q \in RunIds, NEW answer \in Answer, ApproveLookup(a, q, answer)
      PROVE  Unsettled'
  BY <1>33 DEF ApproveLookup
<1>34. ASSUME NEW a \in Approvers, ApproveSend(a) PROVE Unsettled'
  BY <1>34 DEF ApproveSend
<1>35. ASSUME NEW p \in Pipelines, DeletePipeline(p) PROVE Unsettled'
  BY <1>35 DEF DeletePipeline
<1>36. ASSUME Dequeue PROVE Unsettled'
  BY <1>36, DequeuedRunWaits DEF Dequeue
<1>37. ASSUME StopWorker PROVE Unsettled'
  BY <1>37 DEF StopWorker
<1>38. ASSUME Restart PROVE Unsettled'
  <2>1. ASSUME NEW r \in RunIds, NEW i \in StageIds, stages'[r][i] \in {"waiting", "running"}
        PROVE  crashes' > 0 /\ at'[r] = "over" /\ status'[r] \in {"failed", "none"}
    <3>1. saved.stages[r][i] = stages[r][i] \/ at[r] \in Unsaved
      <4>1. SavedAt(r, i)
        BY DEF SavedStages
      <4>2. stages[r][i] # "skipped" \/ saved.stages[r][i] # "pending"
        BY <1>38, <2>1 DEF Restart
      <4> QED
        BY <4>1, <4>2 DEF SavedAt, StillOnDisk, Unsaved
    <3>2. at[r] # "none" /\ (status[r] = "running" \/ status[r] \in {"failed", "none"})
      <4>1. saved.stages[r][i] \in {"waiting", "running"}
        BY <1>38, <2>1 DEF Restart
      <4> QED
        BY <3>1, <4>1 DEF ExecutingIsRunning, Executing, Unsaved
    <3>3. at'[r] = "over" /\ crashes' > 0
      BY <1>38, <3>2 DEF Restart
    <3>4. CASE r \in saved.live
      <4>1. status'[r] = Recovered(saved.status[r])
        BY <1>38, <3>4 DEF Restart
      <4>2. saved.status[r] \in Active \cup {"failed", "none"}
        BY <3>2 DEF SavedStatus, Active
      <4> QED
        BY <3>3, <4>1, <4>2 DEF Recovered, Active
    <3>5. CASE r \notin saved.live
      BY <1>38, <3>2, <3>3, <3>5 DEF Restart, Active
    <3> QED
      BY <3>4, <3>5
  <2> QED
    BY <2>1
<1>39. ASSUME UNCHANGED vars PROVE Unsettled'
  BY <1>39
<1> QED
  BY <1>1, <1>2, <1>3, <1>4, <1>5, <1>6, <1>7, <1>8, <1>9, <1>10, <1>11, <1>12,
     <1>13, <1>14, <1>15, <1>16, <1>17, <1>18, <1>19, <1>20, <1>21, <1>22, <1>23,
     <1>24, <1>25, <1>26, <1>27, <1>28, <1>29, <1>30, <1>31, <1>32, <1>33, <1>34,
     <1>35, <1>36, <1>37, <1>38, <1>39 DEF Next, RunStep

\* One stage after the other.
LEMMA OrderStep ==
  ASSUME TypeOK, RunsNumbered, QueuePlaces, LoopSucceeds, StageProgress,
         SavedStages, StagesInOrder, [Next]_vars
  PROVE  StagesInOrder'
<1> USE DEF vars, memory, goroutines, channels, callers, Goto, Persist, StagesOnly,
            SaveStages, TypeOK, StagesInOrder
<1>1. ASSUME NEW c \in Callers, NEW p \in Pipelines, TriggerCheck(c, p)
      PROVE  StagesInOrder'
  BY <1>1 DEF TriggerCheck
<1>2. ASSUME NEW c \in Callers, TriggerUnresolved(c) PROVE StagesInOrder'
  BY <1>2 DEF TriggerUnresolved
<1>3. ASSUME NEW c \in Callers, TriggerAppend(c) PROVE StagesInOrder'
  BY <1>3, AppendedRunIsNew DEF TriggerAppend
<1>4. ASSUME NEW q \in RunIds, TriggerOffer(q) PROVE StagesInOrder'
  BY <1>4 DEF TriggerOffer
<1>5. ASSUME NEW q \in RunIds, FinalizeRefused(q) PROVE StagesInOrder'
  BY <1>5 DEF FinalizeRefused, Finalize
<1>6. ASSUME NEW q \in RunIds, FinalizeRun(q) PROVE StagesInOrder'
  BY <1>6 DEF FinalizeRun, Finalize
<1>7. ASSUME NEW q \in RunIds, PruneRuns(q) PROVE StagesInOrder'
  BY <1>7 DEF PruneRuns
<1>8. ASSUME NEW q \in RunIds, TakeSlot(q) PROVE StagesInOrder'
  BY <1>8 DEF TakeSlot
<1>9. ASSUME NEW q \in RunIds, LeaveSlot(q) PROVE StagesInOrder'
  BY <1>9 DEF LeaveSlot
<1>10. ASSUME NEW q \in RunIds, Begin(q) PROVE StagesInOrder'
  BY <1>10 DEF Begin, StillQueued
<1>11. ASSUME NEW q \in RunIds, BeginCanceled(q) PROVE StagesInOrder'
  BY <1>11 DEF BeginCanceled, StillQueued
<1>12. ASSUME NEW q \in RunIds, OpenLog(q) PROVE StagesInOrder'
  BY <1>12 DEF OpenLog, Arrive
<1>13. ASSUME NEW q \in RunIds, GateStage(q) PROVE StagesInOrder'
  <2>1. PICK s : stages' = SetStage(q, s)
    BY <1>13 DEF GateStage
  <2>2. at[q] = "gate"
    BY <1>13 DEF GateStage
  <2>3. /\ cur[q] \in StageIds
        /\ \A i \in StageIds : i # cur[q] => stages'[q][i] = stages[q][i]
        /\ \A r \in RunIds : r # q => stages'[r] = stages[r]
    BY <2>1, SetStageEffect
  <2>4. /\ \A i \in StageIds : i < cur[q] => stages[q][i] = "success"
        /\ \A i \in StageIds : i > cur[q] => stages[q][i] = "pending"
    BY <2>2 DEF LoopSucceeds, LoopAt, StageProgress, ProgressAt, InLoop, Executing, Waiting, Unsaved
  <2>5. ASSUME NEW i \in StageIds, NEW j \in StageIds, j < i,
               stages'[q][i] \notin {"pending", "skipped"}
        PROVE  stages'[q][j] = "success"
    <3>1. i \in Nat /\ j \in Nat /\ cur[q] \in Nat
      BY <2>3 DEF StageIds
    <3>2. ~(i > cur[q])
      <4>1. i > cur[q] => i # cur[q]
        BY <3>1
      <4> QED
        BY <2>3, <2>4, <2>5, <4>1
    <3>3. j < cur[q] /\ j # cur[q]
      BY <2>5, <3>1, <3>2
    <3> QED
      BY <2>3, <2>4, <3>3
  <2>6. ASSUME NEW r \in RunIds, r # q, NEW i \in StageIds, NEW j \in StageIds, j < i,
               stages'[r][i] \notin {"pending", "skipped"}
        PROVE  stages'[r][j] = "success"
    BY <2>3, <2>6
  <2> QED
    BY <2>5, <2>6
<1>14. ASSUME NEW q \in RunIds, YieldSlot(q) PROVE StagesInOrder'
  BY <1>14 DEF YieldSlot
<1>15. ASSUME NEW q \in RunIds, RegisterApproval(q) PROVE StagesInOrder'
  BY <1>15 DEF RegisterApproval
<1>16. ASSUME NEW q \in RunIds, ReceiveAnswer(q) PROVE StagesInOrder'
  BY <1>16 DEF ReceiveAnswer
<1>17. ASSUME NEW q \in RunIds, StopWaiting(q) PROVE StagesInOrder'
  BY <1>17 DEF StopWaiting
<1>18. ASSUME NEW q \in RunIds, Unregister(q) PROVE StagesInOrder'
  BY <1>18 DEF Unregister
<1>19. ASSUME NEW q \in RunIds, RetakeSlot(q) PROVE StagesInOrder'
  BY <1>19 DEF RetakeSlot
<1>20. ASSUME NEW q \in RunIds, DenyStage(q) PROVE StagesInOrder'
  BY <1>20
     DEF DenyStage, SetStageSkipRest, LoopSucceeds, LoopAt, StageProgress, ProgressAt,
         InLoop, Executing, Waiting, Unsaved, StageIds
<1>21. ASSUME NEW q \in RunIds, StartStage(q) PROVE StagesInOrder'
  <2>1. PICK s : stages' = SetStage(q, s)
    BY <1>21 DEF StartStage
  <2>2. at[q] = "start"
    BY <1>21 DEF StartStage
  <2>3. /\ cur[q] \in StageIds
        /\ \A i \in StageIds : i # cur[q] => stages'[q][i] = stages[q][i]
        /\ \A r \in RunIds : r # q => stages'[r] = stages[r]
    BY <2>1, SetStageEffect
  <2>4. /\ \A i \in StageIds : i < cur[q] => stages[q][i] = "success"
        /\ \A i \in StageIds : i > cur[q] => stages[q][i] = "pending"
    BY <2>2 DEF LoopSucceeds, LoopAt, StageProgress, ProgressAt, InLoop, Executing, Waiting, Unsaved
  <2>5. ASSUME NEW i \in StageIds, NEW j \in StageIds, j < i,
               stages'[q][i] \notin {"pending", "skipped"}
        PROVE  stages'[q][j] = "success"
    <3>1. i \in Nat /\ j \in Nat /\ cur[q] \in Nat
      BY <2>3 DEF StageIds
    <3>2. ~(i > cur[q])
      <4>1. i > cur[q] => i # cur[q]
        BY <3>1
      <4> QED
        BY <2>3, <2>4, <2>5, <4>1
    <3>3. j < cur[q] /\ j # cur[q]
      BY <2>5, <3>1, <3>2
    <3> QED
      BY <2>3, <2>4, <3>3
  <2>6. ASSUME NEW r \in RunIds, r # q, NEW i \in StageIds, NEW j \in StageIds, j < i,
               stages'[r][i] \notin {"pending", "skipped"}
        PROVE  stages'[r][j] = "success"
    BY <2>3, <2>6
  <2> QED
    BY <2>5, <2>6
<1>22. ASSUME NEW q \in RunIds, StageEnds(q) PROVE StagesInOrder'
  <2>1. PICK s : stages' = SetStage(q, s)
    BY <1>22 DEF StageEnds
  <2>2. at[q] = "steps"
    BY <1>22 DEF StageEnds
  <2>3. /\ cur[q] \in StageIds
        /\ \A i \in StageIds : i # cur[q] => stages'[q][i] = stages[q][i]
        /\ \A r \in RunIds : r # q => stages'[r] = stages[r]
    BY <2>1, SetStageEffect
  <2>4. /\ \A i \in StageIds : i < cur[q] => stages[q][i] = "success"
        /\ \A i \in StageIds : i > cur[q] => stages[q][i] = "pending"
    BY <2>2 DEF LoopSucceeds, LoopAt, StageProgress, ProgressAt, InLoop, Executing, Waiting, Unsaved
  <2>5. ASSUME NEW i \in StageIds, NEW j \in StageIds, j < i,
               stages'[q][i] \notin {"pending", "skipped"}
        PROVE  stages'[q][j] = "success"
    <3>1. i \in Nat /\ j \in Nat /\ cur[q] \in Nat
      BY <2>3 DEF StageIds
    <3>2. ~(i > cur[q])
      <4>1. i > cur[q] => i # cur[q]
        BY <3>1
      <4> QED
        BY <2>3, <2>4, <2>5, <4>1
    <3>3. j < cur[q] /\ j # cur[q]
      BY <2>5, <3>1, <3>2
    <3> QED
      BY <2>3, <2>4, <3>3
  <2>6. ASSUME NEW r \in RunIds, r # q, NEW i \in StageIds, NEW j \in StageIds, j < i,
               stages'[r][i] \notin {"pending", "skipped"}
        PROVE  stages'[r][j] = "success"
    BY <2>3, <2>6
  <2> QED
    BY <2>5, <2>6
<1>23. ASSUME NEW q \in RunIds, StageSucceeds(q) PROVE StagesInOrder'
  BY <1>23 DEF StageSucceeds
<1>24. ASSUME NEW q \in RunIds, StageEndsRun(q) PROVE StagesInOrder'
  BY <1>24 DEF StageEndsRun
<1>25. ASSUME NEW q \in RunIds, SaveWaiting(q) PROVE StagesInOrder'
  BY <1>25 DEF SaveWaiting
<1>26. ASSUME NEW q \in RunIds, SaveDenied(q) PROVE StagesInOrder'
  BY <1>26 DEF SaveDenied
<1>27. ASSUME NEW q \in RunIds, SaveStarted(q) PROVE StagesInOrder'
  BY <1>27 DEF SaveStarted
<1>28. ASSUME NEW q \in RunIds, SkipStage(q) PROVE StagesInOrder'
  <2>1. PICK n \in ToSkip(q) : stages' = [stages EXCEPT ![q][n] = "skipped"]
    BY <1>28 DEF SkipStage
  <2>2. at[q] = "skip" /\ n \in StageIds /\ n > cur[q]
    BY <1>28 DEF SkipStage, ToSkip, StageIds
  <2>3. /\ \A r \in RunIds : r # q => stages'[r] = stages[r]
        /\ stages'[q][n] = "skipped"
        /\ \A i \in StageIds : i # n => stages'[q][i] = stages[q][i]
    BY <2>1, <2>2
  <2>4. stages[q][n] \in {"pending", "skipped"}
    BY <2>2 DEF StageProgress, ProgressAt
  <2>5. ASSUME NEW i \in StageIds, NEW j \in StageIds, j < i,
               stages'[q][i] \notin {"pending", "skipped"}
        PROVE  stages'[q][j] = "success"
    <3>1. i # n /\ stages[q][j] = "success"
      BY <2>3, <2>5
    <3>2. j # n
      BY <2>4, <3>1
    <3> QED
      BY <2>3, <3>1, <3>2
  <2>6. ASSUME NEW r \in RunIds, r # q, NEW i \in StageIds, NEW j \in StageIds, j < i,
               stages'[r][i] \notin {"pending", "skipped"}
        PROVE  stages'[r][j] = "success"
    BY <2>3, <2>6
  <2> QED
    BY <2>5, <2>6
<1>29. ASSUME NEW q \in RunIds, SkippedAll(q) PROVE StagesInOrder'
  BY <1>29 DEF SkippedAll
<1>30. ASSUME NEW q \in RunIds, CancelQueued(q) PROVE StagesInOrder'
  BY <1>30 DEF CancelQueued
<1>31. ASSUME NEW q \in RunIds, CancelRunning(q) PROVE StagesInOrder'
  BY <1>31 DEF CancelRunning
<1>32. ASSUME NEW q \in RunIds, Timeout(q) PROVE StagesInOrder'
  BY <1>32 DEF Timeout
<1>33. ASSUME NEW a \in Approvers, NEW q \in RunIds, NEW answer \in Answer, ApproveLookup(a, q, answer)
      PROVE  StagesInOrder'
  BY <1>33 DEF ApproveLookup
<1>34. ASSUME NEW a \in Approvers, ApproveSend(a) PROVE StagesInOrder'
  BY <1>34 DEF ApproveSend
<1>35. ASSUME NEW p \in Pipelines, DeletePipeline(p) PROVE StagesInOrder'
  BY <1>35 DEF DeletePipeline
<1>36. ASSUME Dequeue PROVE StagesInOrder'
  BY <1>36, DequeuedRunWaits DEF Dequeue
<1>37. ASSUME StopWorker PROVE StagesInOrder'
  BY <1>37 DEF StopWorker
<1>38. ASSUME Restart PROVE StagesInOrder'
  <2>1. stages' = saved.stages
    BY <1>38 DEF Restart
  <2>2. ASSUME NEW r \in RunIds, NEW i \in StageIds, NEW j \in StageIds, j < i,
               saved.stages[r][i] \notin {"pending", "skipped"}
        PROVE  saved.stages[r][j] = "success"
    <3>1. stages[r][i] \notin {"pending", "skipped"}
      <4>1. SavedAt(r, i) /\ ProgressAt(r)
        BY DEF SavedStages, StageProgress
      <4>2. CASE saved.stages[r][i] = stages[r][i]
        BY <2>2, <4>2
      <4>3. CASE i = cur[r] /\ StillOnDisk(r, saved.stages[r][i])
        BY <4>1, <4>3 DEF StillOnDisk, ProgressAt, Terminal
      <4> QED
        BY <2>2, <4>1, <4>2, <4>3 DEF SavedAt
    <3>2. stages[r][j] = "success"
      BY <2>2, <3>1
    <3>3. CASE at[r] \in {"denied", "ended"} /\ j = cur[r]
      <4>1. i > cur[r]
        BY <2>2, <3>3 DEF StageIds
      <4>2. stages[r][i] \in {"pending", "skipped"}
        BY <3>3, <4>1 DEF StageProgress, ProgressAt, InLoop, Executing, Unsaved
      <4> QED
        BY <3>1, <4>2
    <3>4. CASE saved.stages[r][j] = stages[r][j]
      BY <3>2, <3>4
    <3> QED
      BY <3>2, <3>3, <3>4, ResultOnDisk DEF Terminal
  <2> QED
    BY <2>1, <2>2
<1>39. ASSUME UNCHANGED vars PROVE StagesInOrder'
  BY <1>39
<1> QED
  BY <1>1, <1>2, <1>3, <1>4, <1>5, <1>6, <1>7, <1>8, <1>9, <1>10, <1>11, <1>12,
     <1>13, <1>14, <1>15, <1>16, <1>17, <1>18, <1>19, <1>20, <1>21, <1>22, <1>23,
     <1>24, <1>25, <1>26, <1>27, <1>28, <1>29, <1>30, <1>31, <1>32, <1>33, <1>34,
     <1>35, <1>36, <1>37, <1>38, <1>39 DEF Next, RunStep

\* Only gated stages are asked for.
LEMMA AskedStep ==
  ASSUME TypeOK, RunsNumbered, QueuePlaces, FirstStage, AskedIsGated, [Next]_vars
  PROVE  AskedIsGated'
<1> USE DEF vars, memory, goroutines, channels, callers, Goto, Persist, StagesOnly,
            SaveStages, TypeOK, AskedIsGated, AtGate, Waiting, Asked
<1>1. ASSUME NEW c \in Callers, NEW p \in Pipelines, TriggerCheck(c, p)
      PROVE  AskedIsGated'
  BY <1>1, GatedKept DEF TriggerCheck
<1>2. ASSUME NEW c \in Callers, TriggerUnresolved(c) PROVE AskedIsGated'
  BY <1>2, GatedKept DEF TriggerUnresolved
<1>3. ASSUME NEW c \in Callers, TriggerAppend(c) PROVE AskedIsGated'
  <2>1. PICK n \in RunIds :
           /\ at[n] = "none" /\ at'[n] = "offer" /\ status[n] = "none" /\ status'[n] = "queued"
           /\ \A r \in RunIds : r # n =>
                at'[r] = at[r] /\ status'[r] = status[r] /\ owner'[r] = owner[r]
           /\ UNCHANGED <<stages, cur, verdict, chan, answers, saved>>
    BY <1>3, AppendEffect
  <2>2. ASSUME NEW r \in RunIds, NEW i, Asked(r, i) PROVE Asked(r, i)'
    <3>1. r # n
      BY <2>1, <2>2
    <3> QED
      BY <2>1, <2>2, <3>1, GatedKept
  <2>3. UNCHANGED <<sign, approvals>>
    BY <1>3 DEF TriggerAppend
  <2>4. \A a \in Approvers : sign[a] # NoSignature => sign[a].run \in RunIds
    BY DEF NoSignature, Signature
  <2>5. ASSUME NEW r \in RunIds, at'[r] \in AtGate PROVE Gated(r, cur[r])'
    <3>1. r # n
      BY <2>1, <2>5
    <3>2. Gated(r, cur[r])
      BY <2>1, <2>5, <3>1
    <3> QED
      BY <2>1, <3>1, <3>2, GatedKept
  <2>6. \A r \in RunIds : r \in approvals' => at'[r] \in {"await", "unregister"}
    BY <2>1, <2>3
  <2>8. (\A a \in Approvers : sign[a] # NoSignature => Asked(sign[a].run, sign[a].stage))'
    <3>1. \A r \in RunIds : \A i : Asked(r, i) => Asked(r, i)'
      BY <2>2
    <3>2. ASSUME NEW a \in Approvers, sign[a] # NoSignature
          PROVE  Asked(sign[a].run, sign[a].stage)'
      <4> DEFINE s == sign[a]
      <4>1. PICK r \in RunIds : r = s.run
        BY <2>4, <3>2
      <4>2. PICK i : i = s.stage
        OBVIOUS
      <4>3. Asked(r, i)
        BY <3>2, <4>1, <4>2
      <4>4. Asked(r, i)'
        BY <3>1, <4>3
      <4>5. sign'[a].run = r /\ sign'[a].stage = i
        BY <2>3, <4>1, <4>2
      <4> QED
        BY <4>4, <4>5
    <3> QED
      BY <2>3, <3>2  <2>9. \A r \in RunIds : \A i \in StageIds : answers'[r][i] # {} => Asked(r, i)'
    BY <2>1, <2>2
  <2> QED
    BY <2>5, <2>6, <2>8, <2>9
<1>4. ASSUME NEW q \in RunIds, TriggerOffer(q) PROVE AskedIsGated'
  <2>1. UNCHANGED <<owner, approvals, sign, answers, cur>> /\ at[q] = "offer"
    BY <1>4 DEF TriggerOffer
  <2>2. at'[q] \in {"queued", "refused"} /\ \A r \in RunIds : r # q => at'[r] = at[r]
    BY <1>4 DEF TriggerOffer
  <2>3. \A r \in RunIds : at'[r] \in AtGate => Gated(r, cur[r])'
    BY <2>1, <2>2, GatedKept
  <2>4. \A r \in RunIds : r \in approvals => at'[r] \in {"await", "unregister"}
    BY <2>1, <2>2
  <2>5. \A r \in RunIds : at[r] # "none" => at'[r] # "none"
    BY <2>2
  <2> QED
    BY <2>1, <2>3, <2>4, <2>5, AskedKept
<1>5. ASSUME NEW q \in RunIds, FinalizeRefused(q) PROVE AskedIsGated'
  BY <1>5, GatedKept DEF FinalizeRefused, Finalize
<1>6. ASSUME NEW q \in RunIds, FinalizeRun(q) PROVE AskedIsGated'
  BY <1>6, GatedKept DEF FinalizeRun, Finalize
<1>7. ASSUME NEW q \in RunIds, PruneRuns(q) PROVE AskedIsGated'
  BY <1>7, GatedKept DEF PruneRuns
<1>8. ASSUME NEW q \in RunIds, TakeSlot(q) PROVE AskedIsGated'
  BY <1>8, GatedKept DEF TakeSlot
<1>9. ASSUME NEW q \in RunIds, LeaveSlot(q) PROVE AskedIsGated'
  BY <1>9, GatedKept DEF LeaveSlot
<1>10. ASSUME NEW q \in RunIds, Begin(q) PROVE AskedIsGated'
  BY <1>10, GatedKept DEF Begin, StillQueued
<1>11. ASSUME NEW q \in RunIds, BeginCanceled(q) PROVE AskedIsGated'
  BY <1>11, GatedKept DEF BeginCanceled, StillQueued
<1>12. ASSUME NEW q \in RunIds, OpenLog(q) PROVE AskedIsGated'
  <2>1. UNCHANGED <<owner, approvals, sign, answers, cur>> /\ at[q] = "log"
    BY <1>12 DEF OpenLog
  <2>2. (at'[q] = Arrive(q, 1) \/ at'[q] = "finish") /\ \A r \in RunIds : r # q => at'[r] = at[r]
    BY <1>12 DEF OpenLog
  <2>3. at'[q] \in {"gate", "start", "finish"}
    BY <2>2, ArrivePlace
  <2>4. StageCount(q) \in Nat /\ cur[q] = 1
    BY <2>1, StageCountNat DEF FirstStage, BeforeLoop
  <2>5. at'[q] = "gate" => Gated(q, cur[q])
    <3>1. ASSUME at'[q] = "gate" PROVE Arrive(q, 1) = "gate" /\ at[q] # "none" /\ 1 \in Nat
      BY <2>1, <2>2, <3>1
    <3> QED
      BY <2>4, <3>1, ArriveAtGate
  <2>6. ASSUME NEW r \in RunIds, at'[r] \in AtGate PROVE Gated(r, cur[r])'
    BY <2>1, <2>2, <2>3, <2>5, <2>6, GatedKept
  <2>7. \A r \in RunIds : r \in approvals => at'[r] \in {"await", "unregister"}
    BY <2>1, <2>2
  <2>8. \A r \in RunIds : at[r] # "none" => at'[r] # "none"
    BY <2>2, <2>3
  <2> QED
    BY <2>1, <2>6, <2>7, <2>8, AskedKept
<1>13. ASSUME NEW q \in RunIds, GateStage(q) PROVE AskedIsGated'
  BY <1>13, GatedKept DEF GateStage, SetStage
<1>14. ASSUME NEW q \in RunIds, YieldSlot(q) PROVE AskedIsGated'
  BY <1>14, GatedKept DEF YieldSlot
<1>15. ASSUME NEW q \in RunIds, RegisterApproval(q) PROVE AskedIsGated'
  BY <1>15, GatedKept DEF RegisterApproval
<1>16. ASSUME NEW q \in RunIds, ReceiveAnswer(q) PROVE AskedIsGated'
  BY <1>16, GatedKept DEF ReceiveAnswer
<1>17. ASSUME NEW q \in RunIds, StopWaiting(q) PROVE AskedIsGated'
  BY <1>17, GatedKept DEF StopWaiting
<1>18. ASSUME NEW q \in RunIds, Unregister(q) PROVE AskedIsGated'
  BY <1>18, GatedKept DEF Unregister
<1>19. ASSUME NEW q \in RunIds, RetakeSlot(q) PROVE AskedIsGated'
  BY <1>19, GatedKept DEF RetakeSlot
<1>20. ASSUME NEW q \in RunIds, DenyStage(q) PROVE AskedIsGated'
  BY <1>20, GatedKept DEF DenyStage, SetStageSkipRest
<1>21. ASSUME NEW q \in RunIds, StartStage(q) PROVE AskedIsGated'
  BY <1>21, GatedKept DEF StartStage, SetStage
<1>22. ASSUME NEW q \in RunIds, StageEnds(q) PROVE AskedIsGated'
  BY <1>22, GatedKept DEF StageEnds, SetStage, StageResults
<1>23. ASSUME NEW q \in RunIds, StageSucceeds(q) PROVE AskedIsGated'
  <2>1. UNCHANGED <<owner, approvals, sign, answers>> /\ at[q] = "ended"
    BY <1>23 DEF StageSucceeds
  <2>2. /\ at'[q] = Arrive(q, cur[q] + 1)
        /\ cur'[q] = IF cur[q] < StageCount(q) THEN cur[q] + 1 ELSE cur[q]
        /\ \A r \in RunIds : r # q => at'[r] = at[r] /\ cur'[r] = cur[r]
    BY <1>23 DEF StageSucceeds
  <2>3. at'[q] \in {"gate", "start", "finish"}
    BY <2>2, ArrivePlace
  <2>4. StageCount(q) \in Nat /\ cur[q] \in Nat
    BY <2>1, StageCountNat DEF StageIds
  <2>5. ASSUME at'[q] = "gate" PROVE cur'[q] = cur[q] + 1 /\ Gated(q, cur[q] + 1)
    <3>1. cur[q] + 1 \in Nat /\ Arrive(q, cur[q] + 1) = "gate" /\ at[q] # "none"
      BY <2>1, <2>2, <2>4, <2>5
    <3>2. Gated(q, cur[q] + 1) /\ cur[q] + 1 <= StageCount(q)
      BY <3>1, ArriveAtGate
    <3> QED
      BY <2>2, <2>4, <3>2
  <2>6. ASSUME NEW r \in RunIds, at'[r] \in AtGate PROVE Gated(r, cur[r])'
    <3>1. CASE r = q
      BY <2>1, <2>3, <2>5, <2>6, <3>1, GatedKept
    <3>2. CASE r # q
      BY <2>1, <2>2, <2>6, <3>2, GatedKept
    <3> QED
      BY <3>1, <3>2
  <2>7. \A r \in RunIds : at[r] # "none" => at'[r] # "none"
    BY <2>2, <2>3
  <2>8. \A r \in RunIds : r \in approvals => at'[r] \in {"await", "unregister"}
    BY <2>1, <2>2
  <2> QED
    BY <2>1, <2>6, <2>7, <2>8, AskedKept
<1>24. ASSUME NEW q \in RunIds, StageEndsRun(q) PROVE AskedIsGated'
  BY <1>24, GatedKept DEF StageEndsRun
<1>25. ASSUME NEW q \in RunIds, SaveWaiting(q) PROVE AskedIsGated'
  BY <1>25, GatedKept DEF SaveWaiting
<1>26. ASSUME NEW q \in RunIds, SaveDenied(q) PROVE AskedIsGated'
  BY <1>26, GatedKept DEF SaveDenied
<1>27. ASSUME NEW q \in RunIds, SaveStarted(q) PROVE AskedIsGated'
  BY <1>27, GatedKept DEF SaveStarted
<1>28. ASSUME NEW q \in RunIds, SkipStage(q) PROVE AskedIsGated'
  BY <1>28, GatedKept DEF SkipStage, ToSkip
<1>29. ASSUME NEW q \in RunIds, SkippedAll(q) PROVE AskedIsGated'
  BY <1>29, GatedKept DEF SkippedAll
<1>30. ASSUME NEW q \in RunIds, CancelQueued(q) PROVE AskedIsGated'
  BY <1>30, GatedKept DEF CancelQueued
<1>31. ASSUME NEW q \in RunIds, CancelRunning(q) PROVE AskedIsGated'
  BY <1>31, GatedKept DEF CancelRunning
<1>32. ASSUME NEW q \in RunIds, Timeout(q) PROVE AskedIsGated'
  BY <1>32, GatedKept DEF Timeout
<1>33. ASSUME NEW a \in Approvers, NEW q \in RunIds, NEW answer \in Answer, ApproveLookup(a, q, answer)
      PROVE  AskedIsGated'
  BY <1>33, GatedKept DEF ApproveLookup
<1>34. ASSUME NEW a \in Approvers, ApproveSend(a) PROVE AskedIsGated'
  <2>1. UNCHANGED <<owner, at, cur, approvals>>
    BY <1>34 DEF ApproveSend
  <2>2. sign[a] # NoSignature /\ sign' = [sign EXCEPT ![a] = NoSignature]
    BY <1>34 DEF ApproveSend
  <2>3. \A r \in RunIds : \A i \in StageIds : answers'[r][i] # {} =>
          answers[r][i] # {} \/ (r = sign[a].run /\ i = sign[a].stage)
    BY <1>34 DEF ApproveSend
  <2>4. \A r, i : Asked(r, i) => Asked(r, i)'
    BY <2>1, GatedKept
  <2>5. \A b \in Approvers : sign'[b] # NoSignature => sign'[b] = sign[b]
    BY <2>2
  <2>6. \A b \in Approvers : sign'[b] # NoSignature => Asked(sign'[b].run, sign'[b].stage)
    BY <2>5
  <2>7. \A b \in Approvers : sign'[b] # NoSignature => Asked(sign[b].run, sign[b].stage)'
    BY <2>4, <2>5, <2>6
  <2>8. ASSUME NEW r \in RunIds, NEW i \in StageIds, answers'[r][i] # {} PROVE Asked(r, i)
    <3>1. CASE answers[r][i] # {}
      BY <3>1
    <3>2. CASE answers[r][i] = {}
      <4>1. Asked(sign[a].run, sign[a].stage)
        BY <2>2
      <4>2. r = sign[a].run /\ i = sign[a].stage
        BY <2>3, <2>8, <3>2
      <4> QED
        BY <4>1, <4>2
    <3> QED
      BY <3>1, <3>2
  <2>9. \A r \in RunIds : at'[r] \in AtGate => Gated(r, cur[r])'
    BY <2>1, GatedKept
  <2> QED
    BY <2>1, <2>4, <2>7, <2>8, <2>9
<1>35. ASSUME NEW p \in Pipelines, DeletePipeline(p) PROVE AskedIsGated'
  BY <1>35, GatedKept DEF DeletePipeline
<1>36. ASSUME Dequeue PROVE AskedIsGated'
  BY <1>36, DequeuedRunWaits, GatedKept DEF Dequeue
<1>37. ASSUME StopWorker PROVE AskedIsGated'
  BY <1>37, GatedKept DEF StopWorker
<1>38. ASSUME Restart PROVE AskedIsGated'
  BY <1>38, GatedKept DEF Restart, Recovered
<1>39. ASSUME UNCHANGED vars PROVE AskedIsGated'
  BY <1>39, GatedKept
<1> QED
  BY <1>1, <1>2, <1>3, <1>4, <1>5, <1>6, <1>7, <1>8, <1>9, <1>10, <1>11, <1>12,
     <1>13, <1>14, <1>15, <1>16, <1>17, <1>18, <1>19, <1>20, <1>21, <1>22, <1>23,
     <1>24, <1>25, <1>26, <1>27, <1>28, <1>29, <1>30, <1>31, <1>32, <1>33, <1>34,
     <1>35, <1>36, <1>37, <1>38, <1>39 DEF Next, RunStep

\* Why a context is done.
LEMMA ReasonStep ==
  ASSUME TypeOK, RunsNumbered, QueuePlaces, ExecutingIsRunning, StatusPlaces,
         CtxReason, [Next]_vars
  PROVE  CtxReason'
<1> USE DEF vars, memory, goroutines, channels, callers, Goto, Persist, StagesOnly,
            SaveStages, TypeOK, CtxReason, Executing, Waiting, Unsaved
<1>1. ASSUME NEW c \in Callers, NEW p \in Pipelines, TriggerCheck(c, p) PROVE CtxReason'
  BY <1>1 DEF TriggerCheck
<1>2. ASSUME NEW c \in Callers, TriggerUnresolved(c) PROVE CtxReason'
  BY <1>2 DEF TriggerUnresolved
<1>3. ASSUME NEW c \in Callers, TriggerAppend(c) PROVE CtxReason'
  BY <1>3, AppendedRunIsNew DEF TriggerAppend
<1>4. ASSUME NEW q \in RunIds, TriggerOffer(q) PROVE CtxReason'
  BY <1>4 DEF TriggerOffer
<1>5. ASSUME NEW q \in RunIds, FinalizeRefused(q) PROVE CtxReason'
  BY <1>5 DEF FinalizeRefused, Finalize
<1>6. ASSUME NEW q \in RunIds, FinalizeRun(q) PROVE CtxReason'
  BY <1>6 DEF FinalizeRun, Finalize
<1>7. ASSUME NEW q \in RunIds, PruneRuns(q) PROVE CtxReason'
  BY <1>7 DEF PruneRuns
<1>8. ASSUME NEW q \in RunIds, TakeSlot(q) PROVE CtxReason'
  BY <1>8 DEF TakeSlot
<1>9. ASSUME NEW q \in RunIds, LeaveSlot(q) PROVE CtxReason'
  BY <1>9 DEF LeaveSlot
<1>10. ASSUME NEW q \in RunIds, Begin(q) PROVE CtxReason'
  BY <1>10 DEF Begin, StillQueued
<1>11. ASSUME NEW q \in RunIds, BeginCanceled(q) PROVE CtxReason'
  BY <1>11 DEF BeginCanceled, StillQueued
<1>12. ASSUME NEW q \in RunIds, OpenLog(q) PROVE CtxReason'
  BY <1>12 DEF OpenLog, Arrive
<1>13. ASSUME NEW q \in RunIds, GateStage(q) PROVE CtxReason'
  BY <1>13 DEF GateStage, SetStage
<1>14. ASSUME NEW q \in RunIds, YieldSlot(q) PROVE CtxReason'
  BY <1>14 DEF YieldSlot
<1>15. ASSUME NEW q \in RunIds, RegisterApproval(q) PROVE CtxReason'
  BY <1>15 DEF RegisterApproval
<1>16. ASSUME NEW q \in RunIds, ReceiveAnswer(q) PROVE CtxReason'
  BY <1>16 DEF ReceiveAnswer
<1>17. ASSUME NEW q \in RunIds, StopWaiting(q) PROVE CtxReason'
  BY <1>17 DEF StopWaiting
<1>18. ASSUME NEW q \in RunIds, Unregister(q) PROVE CtxReason'
  BY <1>18 DEF Unregister
<1>19. ASSUME NEW q \in RunIds, RetakeSlot(q) PROVE CtxReason'
  BY <1>19 DEF RetakeSlot
<1>20. ASSUME NEW q \in RunIds, DenyStage(q) PROVE CtxReason'
  BY <1>20 DEF DenyStage, SetStageSkipRest
<1>21. ASSUME NEW q \in RunIds, StartStage(q) PROVE CtxReason'
  BY <1>21 DEF StartStage, SetStage
<1>22. ASSUME NEW q \in RunIds, StageEnds(q) PROVE CtxReason'
  BY <1>22 DEF StageEnds, SetStage, StageResults
<1>23. ASSUME NEW q \in RunIds, StageSucceeds(q) PROVE CtxReason'
  <2>1. UNCHANGED <<owner, ctx, canceling>> /\ at[q] = "ended"
    BY <1>23 DEF StageSucceeds
  <2>2. PICK place \in {"finish", "gate", "start"} : at' = [at EXCEPT ![q] = place]
    BY <1>23, StageSucceedsEffect
  <2> QED
    BY <2>1, <2>2
<1>24. ASSUME NEW q \in RunIds, StageEndsRun(q) PROVE CtxReason'
  BY <1>24 DEF StageEndsRun
<1>25. ASSUME NEW q \in RunIds, SaveWaiting(q) PROVE CtxReason'
  BY <1>25 DEF SaveWaiting
<1>26. ASSUME NEW q \in RunIds, SaveDenied(q) PROVE CtxReason'
  BY <1>26 DEF SaveDenied
<1>27. ASSUME NEW q \in RunIds, SaveStarted(q) PROVE CtxReason'
  BY <1>27 DEF SaveStarted
<1>28. ASSUME NEW q \in RunIds, SkipStage(q) PROVE CtxReason'
  BY <1>28 DEF SkipStage, ToSkip
<1>29. ASSUME NEW q \in RunIds, SkippedAll(q) PROVE CtxReason'
  BY <1>29 DEF SkippedAll
<1>30. ASSUME NEW q \in RunIds, CancelQueued(q) PROVE CtxReason'
  BY <1>30 DEF CancelQueued
<1>31. ASSUME NEW q \in RunIds, CancelRunning(q) PROVE CtxReason'
  BY <1>31 DEF CancelRunning, StatusPlaces
<1>32. ASSUME NEW q \in RunIds, Timeout(q) PROVE CtxReason'
  BY <1>32 DEF Timeout, StatusPlaces
<1>33. ASSUME NEW a \in Approvers, NEW q \in RunIds, NEW answer \in Answer, ApproveLookup(a, q, answer)
      PROVE  CtxReason'
  BY <1>33 DEF ApproveLookup
<1>34. ASSUME NEW a \in Approvers, ApproveSend(a) PROVE CtxReason'
  BY <1>34 DEF ApproveSend
<1>35. ASSUME NEW p \in Pipelines, DeletePipeline(p) PROVE CtxReason'
  BY <1>35 DEF DeletePipeline
<1>36. ASSUME Dequeue PROVE CtxReason'
  BY <1>36, DequeuedRunWaits DEF Dequeue
<1>37. ASSUME StopWorker PROVE CtxReason'
  BY <1>37 DEF StopWorker
<1>38. ASSUME Restart PROVE CtxReason'
  BY <1>38 DEF Restart, Recovered
<1>39. ASSUME UNCHANGED vars PROVE CtxReason'
  BY <1>39
<1> QED
  BY <1>1, <1>2, <1>3, <1>4, <1>5, <1>6, <1>7, <1>8, <1>9, <1>10, <1>11, <1>12,
     <1>13, <1>14, <1>15, <1>16, <1>17, <1>18, <1>19, <1>20, <1>21, <1>22, <1>23,
     <1>24, <1>25, <1>26, <1>27, <1>28, <1>29, <1>30, <1>31, <1>32, <1>33, <1>34,
     <1>35, <1>36, <1>37, <1>38, <1>39 DEF Next, RunStep

-----------------------------------------------------------------------------
(* What one step may do. *)

ResultsStay ==
  \A r \in RunIds : \A i \in StageIds :
    stages[r][i] \in Terminal =>
      \/ stages'[r][i] = stages[r][i]
      \/ at[r] \in {"denied", "ended"} /\ i = cur[r] /\ crashes' # crashes

\* No step changes the result of a stage, but a restart that comes before its
\* persist.
LEMMA ResultsStep ==
  ASSUME TypeOK, RunsNumbered, QueuePlaces, StageProgress, SavedStages, [Next]_vars
  PROVE  ResultsStay
<1> USE DEF vars, memory, goroutines, channels, callers, Goto, Persist, StagesOnly,
            SaveStages, TypeOK, ResultsStay, Terminal
<1>1. ASSUME NEW c \in Callers, NEW p \in Pipelines, TriggerCheck(c, p)
      PROVE  ResultsStay
  BY <1>1 DEF TriggerCheck
<1>2. ASSUME NEW c \in Callers, TriggerUnresolved(c) PROVE ResultsStay
  BY <1>2 DEF TriggerUnresolved
<1>3. ASSUME NEW c \in Callers, TriggerAppend(c) PROVE ResultsStay
  BY <1>3 DEF TriggerAppend
<1>4. ASSUME NEW q \in RunIds, TriggerOffer(q) PROVE ResultsStay
  BY <1>4 DEF TriggerOffer
<1>5. ASSUME NEW q \in RunIds, FinalizeRefused(q) PROVE ResultsStay
  BY <1>5 DEF FinalizeRefused, Finalize
<1>6. ASSUME NEW q \in RunIds, FinalizeRun(q) PROVE ResultsStay
  BY <1>6 DEF FinalizeRun, Finalize
<1>7. ASSUME NEW q \in RunIds, PruneRuns(q) PROVE ResultsStay
  BY <1>7 DEF PruneRuns
<1>8. ASSUME NEW q \in RunIds, TakeSlot(q) PROVE ResultsStay
  BY <1>8 DEF TakeSlot
<1>9. ASSUME NEW q \in RunIds, LeaveSlot(q) PROVE ResultsStay
  BY <1>9 DEF LeaveSlot
<1>10. ASSUME NEW q \in RunIds, Begin(q) PROVE ResultsStay
  BY <1>10 DEF Begin, StillQueued
<1>11. ASSUME NEW q \in RunIds, BeginCanceled(q) PROVE ResultsStay
  BY <1>11 DEF BeginCanceled, StillQueued
<1>12. ASSUME NEW q \in RunIds, OpenLog(q) PROVE ResultsStay
  BY <1>12 DEF OpenLog, Arrive
<1>13. ASSUME NEW q \in RunIds, GateStage(q) PROVE ResultsStay
  <2>1. PICK s : stages' = SetStage(q, s)
    BY <1>13 DEF GateStage
  <2>2. at[q] = "gate"
    BY <1>13 DEF GateStage
  <2>3. /\ \A r \in RunIds : r # q => stages'[r] = stages[r]
        /\ \A i \in StageIds : i # cur[q] => stages'[q][i] = stages[q][i]
    BY <2>1, SetStageEffect
  <2>4. stages[q][cur[q]] \notin Terminal
    BY <2>2 DEF StageProgress, ProgressAt, InLoop, Executing, Waiting, Unsaved
  <2> QED
    BY <2>3, <2>4
<1>14. ASSUME NEW q \in RunIds, YieldSlot(q) PROVE ResultsStay
  BY <1>14 DEF YieldSlot
<1>15. ASSUME NEW q \in RunIds, RegisterApproval(q) PROVE ResultsStay
  BY <1>15 DEF RegisterApproval
<1>16. ASSUME NEW q \in RunIds, ReceiveAnswer(q) PROVE ResultsStay
  BY <1>16 DEF ReceiveAnswer
<1>17. ASSUME NEW q \in RunIds, StopWaiting(q) PROVE ResultsStay
  BY <1>17 DEF StopWaiting
<1>18. ASSUME NEW q \in RunIds, Unregister(q) PROVE ResultsStay
  BY <1>18 DEF Unregister
<1>19. ASSUME NEW q \in RunIds, RetakeSlot(q) PROVE ResultsStay
  BY <1>19 DEF RetakeSlot
<1>20. ASSUME NEW q \in RunIds, DenyStage(q) PROVE ResultsStay
  <2>1. PICK result : stages' = SetStageSkipRest(q, result)
    BY <1>20 DEF DenyStage
  <2>2. at[q] = "deny" /\ cur[q] \in StageIds
    BY <1>20 DEF DenyStage
  <2>3. /\ stages[q][cur[q]] \notin Terminal
        /\ \A i \in StageIds : i > cur[q] => stages[q][i] \notin Terminal
    BY <2>2 DEF StageProgress, ProgressAt, InLoop, Executing, Waiting, Unsaved
  <2>4. /\ \A r \in RunIds : r # q => stages'[r] = stages[r]
        /\ \A i \in StageIds : i # cur[q] /\ ~(i > cur[q]) => stages'[q][i] = stages[q][i]
    BY <2>1 DEF SetStageSkipRest
  <2>5. \A i \in StageIds : stages[q][i] \in Terminal => stages'[q][i] = stages[q][i]
    BY <2>3, <2>4
  <2> QED
    BY <2>4, <2>5
<1>21. ASSUME NEW q \in RunIds, StartStage(q) PROVE ResultsStay
  <2>1. PICK s : stages' = SetStage(q, s)
    BY <1>21 DEF StartStage
  <2>2. at[q] = "start"
    BY <1>21 DEF StartStage
  <2>3. /\ \A r \in RunIds : r # q => stages'[r] = stages[r]
        /\ \A i \in StageIds : i # cur[q] => stages'[q][i] = stages[q][i]
    BY <2>1, SetStageEffect
  <2>4. stages[q][cur[q]] \notin Terminal
    BY <2>2 DEF StageProgress, ProgressAt, InLoop, Executing, Waiting, Unsaved
  <2> QED
    BY <2>3, <2>4
<1>22. ASSUME NEW q \in RunIds, StageEnds(q) PROVE ResultsStay
  <2>1. PICK s : stages' = SetStage(q, s)
    BY <1>22 DEF StageEnds
  <2>2. at[q] = "steps"
    BY <1>22 DEF StageEnds
  <2>3. /\ \A r \in RunIds : r # q => stages'[r] = stages[r]
        /\ \A i \in StageIds : i # cur[q] => stages'[q][i] = stages[q][i]
    BY <2>1, SetStageEffect
  <2>4. stages[q][cur[q]] \notin Terminal
    BY <2>2 DEF StageProgress, ProgressAt, InLoop, Executing, Waiting, Unsaved
  <2> QED
    BY <2>3, <2>4
<1>23. ASSUME NEW q \in RunIds, StageSucceeds(q) PROVE ResultsStay
  BY <1>23 DEF StageSucceeds
<1>24. ASSUME NEW q \in RunIds, StageEndsRun(q) PROVE ResultsStay
  BY <1>24 DEF StageEndsRun
<1>25. ASSUME NEW q \in RunIds, SaveWaiting(q) PROVE ResultsStay
  BY <1>25 DEF SaveWaiting
<1>26. ASSUME NEW q \in RunIds, SaveDenied(q) PROVE ResultsStay
  BY <1>26 DEF SaveDenied
<1>27. ASSUME NEW q \in RunIds, SaveStarted(q) PROVE ResultsStay
  BY <1>27 DEF SaveStarted
<1>28. ASSUME NEW q \in RunIds, SkipStage(q) PROVE ResultsStay
  <2>1. PICK n \in ToSkip(q) : stages' = [stages EXCEPT ![q][n] = "skipped"]
    BY <1>28 DEF SkipStage
  <2>2. at[q] = "skip" /\ n \in StageIds /\ n > cur[q]
    BY <1>28 DEF SkipStage, ToSkip, StageIds
  <2>3. stages[q][n] \notin Terminal
    BY <2>2 DEF StageProgress, ProgressAt
  <2> QED
    BY <2>1, <2>3
<1>29. ASSUME NEW q \in RunIds, SkippedAll(q) PROVE ResultsStay
  BY <1>29 DEF SkippedAll
<1>30. ASSUME NEW q \in RunIds, CancelQueued(q) PROVE ResultsStay
  BY <1>30 DEF CancelQueued
<1>31. ASSUME NEW q \in RunIds, CancelRunning(q) PROVE ResultsStay
  BY <1>31 DEF CancelRunning
<1>32. ASSUME NEW q \in RunIds, Timeout(q) PROVE ResultsStay
  BY <1>32 DEF Timeout
<1>33. ASSUME NEW a \in Approvers, NEW q \in RunIds, NEW answer \in Answer, ApproveLookup(a, q, answer)
      PROVE  ResultsStay
  BY <1>33 DEF ApproveLookup
<1>34. ASSUME NEW a \in Approvers, ApproveSend(a) PROVE ResultsStay
  BY <1>34 DEF ApproveSend
<1>35. ASSUME NEW p \in Pipelines, DeletePipeline(p) PROVE ResultsStay
  BY <1>35 DEF DeletePipeline
<1>36. ASSUME Dequeue PROVE ResultsStay
  BY <1>36 DEF Dequeue
<1>37. ASSUME StopWorker PROVE ResultsStay
  BY <1>37 DEF StopWorker
<1>38. ASSUME Restart PROVE ResultsStay
  <2>1. stages' = saved.stages /\ crashes' # crashes
    BY <1>38 DEF Restart
  <2> QED
    BY <2>1, ResultOnDisk
<1>39. ASSUME UNCHANGED vars PROVE ResultsStay
  BY <1>39
<1> QED
  BY <1>1, <1>2, <1>3, <1>4, <1>5, <1>6, <1>7, <1>8, <1>9, <1>10, <1>11, <1>12,
     <1>13, <1>14, <1>15, <1>16, <1>17, <1>18, <1>19, <1>20, <1>21, <1>22, <1>23,
     <1>24, <1>25, <1>26, <1>27, <1>28, <1>29, <1>30, <1>31, <1>32, <1>33, <1>34,
     <1>35, <1>36, <1>37, <1>38, <1>39 DEF Next, RunStep

(* A wait for an approval that ends without a restart has an answer, an accepted
   Cancel, or the deadline of its pipeline. *)
WaitEndsForAReason ==
  \A r \in RunIds :
    at[r] = "await" /\ at'[r] # "await" /\ crashes' = crashes
      => chan[r][cur[r]] \in Answer \/ canceling[r] \/ owner[r] \in Timed

\* Who ends a wait.
LEMMA WaitStep ==
  ASSUME TypeOK, RunsNumbered, QueuePlaces, CtxReason, [Next]_vars
  PROVE  WaitEndsForAReason
<1> USE DEF vars, memory, goroutines, channels, callers, Goto, Persist, StagesOnly,
            SaveStages, TypeOK, WaitEndsForAReason
<1>1. ASSUME NEW c \in Callers, NEW p \in Pipelines, TriggerCheck(c, p)
      PROVE  WaitEndsForAReason
  BY <1>1 DEF TriggerCheck
<1>2. ASSUME NEW c \in Callers, TriggerUnresolved(c) PROVE WaitEndsForAReason
  BY <1>2 DEF TriggerUnresolved
<1>3. ASSUME NEW c \in Callers, TriggerAppend(c) PROVE WaitEndsForAReason
  BY <1>3, AppendedRunIsNew DEF TriggerAppend
<1>4. ASSUME NEW q \in RunIds, TriggerOffer(q) PROVE WaitEndsForAReason
  BY <1>4 DEF TriggerOffer
<1>5. ASSUME NEW q \in RunIds, FinalizeRefused(q) PROVE WaitEndsForAReason
  BY <1>5 DEF FinalizeRefused, Finalize
<1>6. ASSUME NEW q \in RunIds, FinalizeRun(q) PROVE WaitEndsForAReason
  BY <1>6 DEF FinalizeRun, Finalize
<1>7. ASSUME NEW q \in RunIds, PruneRuns(q) PROVE WaitEndsForAReason
  BY <1>7 DEF PruneRuns
<1>8. ASSUME NEW q \in RunIds, TakeSlot(q) PROVE WaitEndsForAReason
  BY <1>8 DEF TakeSlot
<1>9. ASSUME NEW q \in RunIds, LeaveSlot(q) PROVE WaitEndsForAReason
  BY <1>9 DEF LeaveSlot
<1>10. ASSUME NEW q \in RunIds, Begin(q) PROVE WaitEndsForAReason
  BY <1>10 DEF Begin, StillQueued
<1>11. ASSUME NEW q \in RunIds, BeginCanceled(q) PROVE WaitEndsForAReason
  BY <1>11 DEF BeginCanceled, StillQueued
<1>12. ASSUME NEW q \in RunIds, OpenLog(q) PROVE WaitEndsForAReason
  <2>1. at[q] = "log" /\ \A r \in RunIds : r # q => at'[r] = at[r]
    BY <1>12 DEF OpenLog
  <2> QED
    BY <2>1
<1>13. ASSUME NEW q \in RunIds, GateStage(q) PROVE WaitEndsForAReason
  BY <1>13 DEF GateStage, SetStage
<1>14. ASSUME NEW q \in RunIds, YieldSlot(q) PROVE WaitEndsForAReason
  BY <1>14 DEF YieldSlot
<1>15. ASSUME NEW q \in RunIds, RegisterApproval(q) PROVE WaitEndsForAReason
  BY <1>15 DEF RegisterApproval
<1>16. ASSUME NEW q \in RunIds, ReceiveAnswer(q) PROVE WaitEndsForAReason
  BY <1>16 DEF ReceiveAnswer
<1>17. ASSUME NEW q \in RunIds, StopWaiting(q) PROVE WaitEndsForAReason
  BY <1>17 DEF StopWaiting, CtxReason, CtxDone, Executing, Waiting
<1>18. ASSUME NEW q \in RunIds, Unregister(q) PROVE WaitEndsForAReason
  BY <1>18 DEF Unregister
<1>19. ASSUME NEW q \in RunIds, RetakeSlot(q) PROVE WaitEndsForAReason
  BY <1>19 DEF RetakeSlot
<1>20. ASSUME NEW q \in RunIds, DenyStage(q) PROVE WaitEndsForAReason
  BY <1>20 DEF DenyStage, SetStageSkipRest
<1>21. ASSUME NEW q \in RunIds, StartStage(q) PROVE WaitEndsForAReason
  BY <1>21 DEF StartStage, SetStage
<1>22. ASSUME NEW q \in RunIds, StageEnds(q) PROVE WaitEndsForAReason
  BY <1>22 DEF StageEnds, SetStage, StageResults
<1>23. ASSUME NEW q \in RunIds, StageSucceeds(q) PROVE WaitEndsForAReason
  <2>1. at[q] = "ended" /\ \A r \in RunIds : r # q => at'[r] = at[r]
    BY <1>23 DEF StageSucceeds
  <2> QED
    BY <2>1
<1>24. ASSUME NEW q \in RunIds, StageEndsRun(q) PROVE WaitEndsForAReason
  BY <1>24 DEF StageEndsRun
<1>25. ASSUME NEW q \in RunIds, SaveWaiting(q) PROVE WaitEndsForAReason
  BY <1>25 DEF SaveWaiting
<1>26. ASSUME NEW q \in RunIds, SaveDenied(q) PROVE WaitEndsForAReason
  BY <1>26 DEF SaveDenied
<1>27. ASSUME NEW q \in RunIds, SaveStarted(q) PROVE WaitEndsForAReason
  BY <1>27 DEF SaveStarted
<1>28. ASSUME NEW q \in RunIds, SkipStage(q) PROVE WaitEndsForAReason
  BY <1>28 DEF SkipStage, ToSkip
<1>29. ASSUME NEW q \in RunIds, SkippedAll(q) PROVE WaitEndsForAReason
  BY <1>29 DEF SkippedAll
<1>30. ASSUME NEW q \in RunIds, CancelQueued(q) PROVE WaitEndsForAReason
  BY <1>30 DEF CancelQueued
<1>31. ASSUME NEW q \in RunIds, CancelRunning(q) PROVE WaitEndsForAReason
  BY <1>31 DEF CancelRunning
<1>32. ASSUME NEW q \in RunIds, Timeout(q) PROVE WaitEndsForAReason
  BY <1>32 DEF Timeout
<1>33. ASSUME NEW a \in Approvers, NEW q \in RunIds, NEW answer \in Answer, ApproveLookup(a, q, answer)
      PROVE  WaitEndsForAReason
  BY <1>33 DEF ApproveLookup
<1>34. ASSUME NEW a \in Approvers, ApproveSend(a) PROVE WaitEndsForAReason
  BY <1>34 DEF ApproveSend
<1>35. ASSUME NEW p \in Pipelines, DeletePipeline(p) PROVE WaitEndsForAReason
  BY <1>35 DEF DeletePipeline
<1>36. ASSUME Dequeue PROVE WaitEndsForAReason
  BY <1>36, DequeuedRunWaits DEF Dequeue
<1>37. ASSUME StopWorker PROVE WaitEndsForAReason
  BY <1>37 DEF StopWorker
<1>38. ASSUME Restart PROVE WaitEndsForAReason
  BY <1>38 DEF Restart, Recovered
<1>39. ASSUME UNCHANGED vars PROVE WaitEndsForAReason
  BY <1>39
<1> QED
  BY <1>1, <1>2, <1>3, <1>4, <1>5, <1>6, <1>7, <1>8, <1>9, <1>10, <1>11, <1>12,
     <1>13, <1>14, <1>15, <1>16, <1>17, <1>18, <1>19, <1>20, <1>21, <1>22, <1>23,
     <1>24, <1>25, <1>26, <1>27, <1>28, <1>29, <1>30, <1>31, <1>32, <1>33, <1>34,
     <1>35, <1>36, <1>37, <1>38, <1>39 DEF Next, RunStep

-----------------------------------------------------------------------------
(* What follows. *)

StagesInvariant ==
  /\ StageProgress /\ SavedStages /\ Unsettled /\ StagesInOrder
  /\ AskedIsGated /\ CtxReason

\* A new engine has no stages at work and nobody who answers.
LEMMA InitStages == Init => StagesInvariant
<1> SUFFICES ASSUME Init PROVE StagesInvariant
  OBVIOUS
<1> USE DEF Init
<1>1. StageProgress
  BY BoundAssumption DEF StageProgress, ProgressAt, StageIds, InLoop, Executing, Waiting, Unsaved
<1>2. SavedStages /\ Unsettled /\ StagesInOrder
  BY DEF SavedStages, SavedAt, Unsettled, StagesInOrder
<1>3. AskedIsGated /\ CtxReason
  BY DEF AskedIsGated, CtxReason, AtGate, Waiting
<1> QED
  BY <1>1, <1>2, <1>3 DEF StagesInvariant

\* Every step keeps the invariant of the stages beside the other two.
LEMMA StagesStep ==
  EngineInvariant /\ RunsInvariant /\ StagesInvariant /\ [Next]_vars => StagesInvariant'
BY ProgressStep, SavedStagesStep, UnsettledStep, OrderStep, AskedStep, ReasonStep
   DEF EngineInvariant, RunsInvariant, StagesInvariant

\* The invariant of the stages holds in every state the engine reaches.
THEOREM StagesInvariantHolds == Spec => []StagesInvariant
BY InitStages, StagesStep, InvariantHolds, RunsInvariantHolds, PTL DEF Spec

\* Stages are executed in their order, each only after those before it succeeded.
THEOREM OrderCorrect == Spec => []StagesInOrder
<1>1. StagesInvariant => StagesInOrder
  BY DEF StagesInvariant
<1> QED
  BY <1>1, StagesInvariantHolds, PTL

\* The result of a stage never changes, whatever follows in the run and though a
\* restart takes the stages from disk: lost is only the result the loop has just
\* set, if the server stops before the persist that follows.
THEOREM ResultsAreFinal == Spec => StageResultsFinal
<1>1. EngineInvariant /\ StagesInvariant /\ [Next]_vars
        => [\A r \in RunIds : \A i \in StageIds :
              stages[r][i] \in Terminal =>
                \/ stages'[r][i] = stages[r][i]
                \/ at[r] \in {"denied", "ended"} /\ i = cur[r] /\ crashes' # crashes]_vars
  BY ResultsStep DEF EngineInvariant, StagesInvariant, ResultsStay
<1> QED
  BY <1>1, InvariantHolds, StagesInvariantHolds, PTL DEF Spec, StageResultsFinal

(* A run that has ended and still shows a stage at work. *)
LeftUnsettled(r) ==
  status[r] \in Terminal /\ \E i \in StageIds : stages[r][i] \in {"waiting", "running"}

\* Only a restart leaves such a run, and it shows it as failed: nobody works on it.
THEOREM UnsettledWasInterrupted ==
  Spec => [](\A r \in RunIds :
               LeftUnsettled(r) => crashes > 0 /\ status[r] = "failed" /\ at[r] = "over")
<1>1. ASSUME EngineInvariant, StagesInvariant, NEW r \in RunIds, LeftUnsettled(r)
      PROVE  crashes > 0 /\ status[r] = "failed" /\ at[r] = "over"
  <2>1. ExecutingIsRunning /\ Unsettled
    BY <1>1 DEF EngineInvariant, StagesInvariant
  <2>2. at[r] \notin AtWork
    BY <1>1, <2>1 DEF ExecutingIsRunning, LeftUnsettled, AtWork, Executing, Unsaved, Terminal
  <2> QED
    BY <1>1, <2>1, <2>2 DEF Unsettled, LeftUnsettled, Terminal
<1>2. EngineInvariant /\ StagesInvariant
        => \A r \in RunIds :
             LeftUnsettled(r) => crashes > 0 /\ status[r] = "failed" /\ at[r] = "over"
  BY <1>1
<1> QED
  BY <1>2, InvariantHolds, StagesInvariantHolds, PTL

\* As long as the server does not restart, a run that is over leaves no stage
\* waiting or running.
THEOREM SettledCorrect ==
  ASSUME CrashBound = 0
  PROVE  Spec => []SettledStages
<1>1. ASSUME EngineInvariant,
             \A r \in RunIds : LeftUnsettled(r) => crashes > 0 /\ status[r] = "failed" /\ at[r] = "over"
      PROVE  SettledStages
  <2>1. crashes = 0 /\ live \subseteq RunIds
    BY <1>1 DEF EngineInvariant, TypeOK
  <2> QED
    BY <1>1, <2>1 DEF SettledStages, LeftUnsettled
<1> QED
  BY <1>1, InvariantHolds, UnsettledWasInterrupted, PTL

\* A wait for an approval ends with an answer, an accepted Cancel, the deadline of
\* a pipeline that has one, or a restart.
THEOREM WaitsEndForAReason == Spec => [][WaitEndsForAReason]_vars
<1>1. EngineInvariant /\ StagesInvariant /\ [Next]_vars => [WaitEndsForAReason]_vars
  BY WaitStep DEF EngineInvariant, StagesInvariant
<1> QED
  BY <1>1, InvariantHolds, StagesInvariantHolds, PTL DEF Spec

\* So where no pipeline has a deadline, the wait is as long as the requirements
\* promise; the run that refutes the promise has deadlines.
THEOREM WaitsUnlimited ==
  ASSUME Timed = {}, CrashBound = 0
  PROVE  Spec => ApprovalWaitUnlimited
<1>1. ASSUME EngineInvariant, EngineInvariant', [WaitEndsForAReason]_vars, NEW r \in RunIds,
             at[r] = "await", at'[r] # "await"
      PROVE  chan[r][cur[r]] \in Answer \/ canceling[r]
  <2>1. crashes = 0 /\ crashes' = 0
    BY <1>1 DEF EngineInvariant, TypeOK
  <2>2. WaitEndsForAReason
    BY <1>1 DEF vars, goroutines
  <2> QED
    BY <1>1, <2>1, <2>2 DEF WaitEndsForAReason
<1>2. EngineInvariant /\ EngineInvariant' /\ [WaitEndsForAReason]_vars
        => [\A r \in RunIds :
              at[r] = "await" /\ at'[r] # "await"
                => chan[r][cur[r]] \in Answer \/ canceling[r]]_vars
  BY <1>1
<1> QED
  BY <1>2, InvariantHolds, WaitsEndForAReason, PTL DEF ApprovalWaitUnlimited

\* A stage that Approve accepted a rejection for executes only if Approve accepted
\* a yes for it as well: a rejection alone is always honoured.
THEOREM RejectedOnlyBesideYes ==
  Spec => [](\A r \in RunIds : \A i \in StageIds :
               "no" \in answers[r][i] /\ stages[r][i] \in Executed => Signed(r, i))
<1>1. ASSUME RunsInvariant, StagesInvariant, NEW r \in RunIds, NEW i \in StageIds,
             "no" \in answers[r][i], stages[r][i] \in Executed
      PROVE  Signed(r, i)
  <2>1. Gated(r, i)
    BY <1>1 DEF StagesInvariant, AskedIsGated, Asked
  <2> QED
    BY <1>1, <2>1 DEF RunsInvariant, ExecutedWasSigned
<1>2. RunsInvariant /\ StagesInvariant
        => \A r \in RunIds : \A i \in StageIds :
             "no" \in answers[r][i] /\ stages[r][i] \in Executed => Signed(r, i)
  BY <1>1
<1> QED
  BY <1>2, RunsInvariantHolds, StagesInvariantHolds, PTL


=============================================================================
