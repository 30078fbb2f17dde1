----------------------------- MODULE DbSync_proofs --------------------------
(***************************************************************************)
(* Proofs about DbSync, for every number of jobs, requests, connections,   *)
(* tables, rows and sizes of a batch.                                      *)
(*                                                                         *)
(* Jobs and requests together are users of the pool, so that DbSync        *)
(* implements DbPool and keeps its invariant.  The jobs' own invariant     *)
(* follows the rows of the table at hand: those read are those written,    *)
(* left out by an INSERT, or still in the batch.                           *)
(***************************************************************************)
EXTENDS DbSync, DbPool_proofs

-----------------------------------------------------------------------------
(* The pool's part. *)

\* A step of a request or a job is a step of the pool, or leaves it alone.
LEMMA PoolStep ==
  ASSUME [Next]_vars
  PROVE  [PoolNext]_poolVars
<1>1. ASSUME NEW u \in Requests, RequestStep(u) PROVE [PoolNext]_poolVars
  <2>1. u \in Users
    BY UsersAssumption
  <2>2. OpenNew(u) => \E d \in New : Open(u, d)
    BY DEF OpenNew
  <2> QED
    BY <1>1, <2>1, <2>2 DEF RequestStep, PoolNext, Acquire, Edit
<1>2. ASSUME NEW j \in Jobs, Start(j) PROVE [PoolNext]_poolVars
  BY <1>2 DEF Start
<1>3. ASSUME NEW j \in Jobs, Cancel(j) PROVE [PoolNext]_poolVars
  BY <1>3 DEF Cancel
<1>4. ASSUME NEW j \in Jobs, Expire(j) PROVE [PoolNext]_poolVars
  BY <1>4 DEF Expire
<1>5. ASSUME NEW j \in Jobs, Enter(j) PROVE [PoolNext]_poolVars
  BY <1>5 DEF Enter
<1>6. ASSUME NEW j \in Jobs, JobAcquire(j) PROVE [PoolNext]_poolVars
  <2>1. j \in Users
    BY UsersAssumption
  <2>2. OpenNew(j) => \E d \in New : Open(j, d)
    BY DEF OpenNew
  <2>3. Wanted(j) \in Conns
    BY ConnAssumption DEF Wanted
  <2> QED
    BY <1>6, <2>1, <2>2, <2>3 DEF JobAcquire, PoolNext, Acquire
<1>7. ASSUME NEW j \in Jobs, JobAcquireFails(j) PROVE [PoolNext]_poolVars
  BY <1>7, UsersAssumption DEF JobAcquireFails, PoolNext, Acquire
<1>8. ASSUME NEW j \in Jobs, JobTake(j) PROVE [PoolNext]_poolVars
  BY <1>8, UsersAssumption DEF JobTake, PoolNext
<1>9. ASSUME NEW j \in Jobs, Plan(j) PROVE [PoolNext]_poolVars
  BY <1>9 DEF Plan
<1>10. ASSUME NEW j \in Jobs, PlanFails(j) PROVE [PoolNext]_poolVars
  BY <1>10 DEF PlanFails
<1>11. ASSUME NEW j \in Jobs, NextTable(j) PROVE [PoolNext]_poolVars
  BY <1>11 DEF NextTable
<1>12. ASSUME NEW j \in Jobs, Abandon(j) PROVE [PoolNext]_poolVars
  BY <1>12 DEF Abandon
<1>13. ASSUME NEW j \in Jobs, JobFinishes(j) PROVE [PoolNext]_poolVars
  BY <1>13 DEF JobFinishes
<1>14. ASSUME NEW j \in Jobs, Prepare(j) PROVE [PoolNext]_poolVars
  BY <1>14 DEF Prepare
<1>15. ASSUME NEW j \in Jobs, BeginCopy(j) PROVE [PoolNext]_poolVars
  BY <1>15 DEF BeginCopy
<1>16. ASSUME NEW j \in Jobs, ReadRow(j) PROVE [PoolNext]_poolVars
  BY <1>16 DEF ReadRow
<1>17. ASSUME NEW j \in Jobs, EndOfRows(j) PROVE [PoolNext]_poolVars
  BY <1>17 DEF EndOfRows
<1>18. ASSUME NEW j \in Jobs, Flush(j) PROVE [PoolNext]_poolVars
  BY <1>18 DEF Flush
<1>19. ASSUME NEW j \in Jobs, TableDone(j) PROVE [PoolNext]_poolVars
  BY <1>19 DEF TableDone
<1>20. ASSUME NEW j \in Jobs, StatementFails(j) PROVE [PoolNext]_poolVars
  BY <1>20 DEF StatementFails
<1>22. ASSUME NEW j \in Jobs, Inserted(j) PROVE [PoolNext]_poolVars
  BY <1>22 DEF Inserted
<1>23. ASSUME NEW j \in Jobs, InsertFails(j) PROVE [PoolNext]_poolVars
  BY <1>23 DEF InsertFails
<1>24. ASSUME NEW j \in Jobs, TableVerified(j) PROVE [PoolNext]_poolVars
  BY <1>24 DEF TableVerified
<1>25. ASSUME NEW j \in Jobs, TableDiffers(j) PROVE [PoolNext]_poolVars
  BY <1>25 DEF TableDiffers
<1>21. ASSUME UNCHANGED vars PROVE [PoolNext]_poolVars
  BY <1>21 DEF vars
<1> QED
  BY <1>1, <1>2, <1>3, <1>4, <1>5, <1>6, <1>7, <1>8, <1>9, <1>10, <1>11, <1>12,
     <1>13, <1>14, <1>15, <1>16, <1>17, <1>18, <1>19, <1>20, <1>21, <1>22, <1>23,
     <1>24, <1>25 DEF Next, JobStep, RunStep

(* The jobs and the requests use the pool as DbPool allows. *)
THEOREM ImplementsPool == Spec => PoolSpec
<1>1. Init => PoolInit
  BY DEF Init
<1>2. [Next]_vars => [PoolNext]_poolVars
  BY PoolStep
<1> QED
  BY <1>1, <1>2, PTL DEF Spec, PoolSpec

(* What is proved of the pool holds beside synchronisation jobs. *)
THEOREM PoolInvariantBesideJobs == Spec => []PoolInvariant
BY ImplementsPool, PoolInvariantHolds, PTL

-----------------------------------------------------------------------------
(* The jobs' invariant. *)

Copying == {"copy", "flush", "insert", "lastFlush", "lastInsert"}

(* A job that ended as done or failed has left Run; a canceled one has a context
   that is done. *)
StatusMatches ==
  \A j \in Jobs :
    /\ status[j] \in {"done", "failed"} => stage[j] = "returned"
    /\ status[j] = "canceled" => done[j] \in {"canceled", "expired"}
    /\ stage[j] = "none" => status[j] = "none"
    /\ stage[j] \in {"none", "started"} <=> done[j] = "unset"

(* The rows of the table at hand. *)
RowsAt(j) ==
  /\ stage[j] \in Copying =>
       /\ cur[j] \in TableIds /\ Copies(j)
       /\ read[j] = written[j][cur[j]] + cut[j][cur[j]] + batch[j]
       /\ read[j] <= Due(rows[j][cur[j]])
       /\ stage[j] = "copy" => batch[j] < BatchRows
       /\ stage[j] \in {"lastFlush", "lastInsert"} => read[j] = Due(rows[j][cur[j]])
  /\ stage[j] \notin Copying => read[j] = 0 /\ batch[j] = 0
  /\ stage[j] \in {"prepare", "statements"} => cur[j] \in TableIds
  /\ stage[j] \in {"none", "started", "plan"} \cup Acquiring => cur[j] = 0
RowsCounted == \A j \in Jobs : RowsAt(j)

(* The tables the job has not come to have no rows of it ... *)
AheadAt(j) ==
  stage[j] # "returned" => \A t \in TableIds :
    (t > cur[j] \/ (t = cur[j] /\ stage[j] \in {"prepare", "statements"}))
      => written[j][t] = 0 /\ cut[j][t] = 0
NotYetCopied == \A j \in Jobs : AheadAt(j)

(* ... and those behind it are skipped or complete. *)
BehindAt(j) ==
  stage[j] # "returned" => \A t \in TableIds :
    (t < cur[j] \/ (t = cur[j] /\ stage[j] = "next")) => Complete(j, t)
CopiedSoFar == \A j \in Jobs : BehindAt(j)

DoneAt(j) == status[j] = "done" => \A t \in TableIds : Complete(j, t)

JobInvariant ==
  /\ JobTypeOK /\ StatusMatches /\ RowsCounted /\ NotYetCopied /\ CopiedSoFar
  /\ ProgressIsTrue /\ DoneIsComplete

\* Due is a number of rows, no more than there are.
LEMMA DueFacts ==
  ASSUME NEW n \in Nat
  PROVE  Due(n) \in 0..n /\ (MaxRows > 0 => Due(n) <= MaxRows)
BY SizesAssumption DEF Due

\* What changing the entry of one table does.
LEMMA SetTableFacts ==
  ASSUME JobTypeOK, NEW j \in Jobs, NEW t \in TableIds,
         NEW s \in {"creating", "copying", "done", "failed"}, SetTable(j, t, s)
  PROVE  /\ tables' \in [Jobs -> [TableIds -> {"none", "pending", "skipped", "creating",
                                              "copying", "done", "failed"}]]
         /\ \A i \in Jobs, r \in TableIds :
              tables'[i][r] = IF i = j /\ r = t THEN s ELSE tables[i][r]
BY DEF JobTypeOK, SetTable

(* A step of another job leaves job i alone. *)
JobSame(i) ==
  /\ status'[i] = status[i] /\ mode'[i] = mode[i] /\ stage'[i] = stage[i]
  /\ tables'[i] = tables[i] /\ shown'[i] = shown[i] /\ checked'[i] = checked[i] /\ cur'[i] = cur[i]
  /\ read'[i] = read[i] /\ batch'[i] = batch[i]
  /\ rows'[i] = rows[i] /\ written'[i] = written[i] /\ cut'[i] = cut[i]

\* DoneIsComplete, job by job.
LEMMA DoneIsAt == /\ DoneIsComplete <=> \A j \in Jobs : DoneAt(j)
                  /\ DoneIsComplete' <=> \A j \in Jobs : DoneAt(j)'
BY DEF DoneIsComplete, DoneAt, Complete, Copies

\* What was so of a job that a step leaves alone is so after it.
LEMMA SameKeeps ==
  ASSUME NEW i \in Jobs, JobSame(i)
  PROVE  /\ RowsAt(i) => RowsAt(i)'
         /\ AheadAt(i) => AheadAt(i)'
         /\ BehindAt(i) => BehindAt(i)'
         /\ DoneAt(i) => DoneAt(i)'
<1> USE DEF JobSame, Copies
<1>1. RowsAt(i) => RowsAt(i)'
  BY DEF RowsAt
<1>2. AheadAt(i) => AheadAt(i)'
  BY DEF AheadAt
<1>3. \A t \in TableIds : Complete(i, t) => Complete(i, t)'
  BY DEF Complete
<1>4. BehindAt(i) => BehindAt(i)'
  BY <1>3 DEF BehindAt
<1>5. DoneAt(i) => DoneAt(i)'
  BY <1>3 DEF DoneAt
<1> QED
  BY <1>1, <1>2, <1>4, <1>5

(* Steps outside the loop, and the end of a stream, touch no table. *)
IdleEffect(j) ==
  /\ \A i \in Jobs : i # j => JobSame(i)
  /\ UNCHANGED <<mode, tables, shown, checked, cur, read, batch, counts>>
  /\ status'[j] = "done" => status[j] = "done"
  /\ stage'[j] # "returned" => stage[j] # "returned"
  /\ stage'[j] \in {"prepare", "statements", "next"} => stage'[j] = stage[j]

LEMMA IdleFacts ==
  ASSUME JobTypeOK, NEW j \in Jobs,
         \/ Start(j) \/ Cancel(j) \/ Expire(j) \/ Enter(j)
         \/ JobAcquire(j) \/ JobTake(j) \/ EndOfRows(j) \/ Flush(j)
  PROVE  IdleEffect(j)
<1> USE DEF IdleEffect, JobTypeOK, jobVars, progress, counts, JobSame
<1>1. CASE Start(j)
  BY <1>1 DEF Start
<1>2. CASE Cancel(j)
  BY <1>2 DEF Cancel
<1>3. CASE Expire(j)
  BY <1>3 DEF Expire
<1>4. CASE Enter(j)
  BY <1>4 DEF Enter
<1>5. CASE JobAcquire(j)
  BY <1>5 DEF JobAcquire
<1>6. CASE JobTake(j)
  BY <1>6 DEF JobTake, NextStage, Acquiring
<1>7. CASE EndOfRows(j)
  BY <1>7 DEF EndOfRows
<1>8. CASE Flush(j)
  BY <1>8 DEF Flush
<1> QED
  BY <1>1, <1>2, <1>3, <1>4, <1>5, <1>6, <1>7, <1>8

(* Run returns without having finished. *)
LeaveEffect(j) ==
  /\ \A i \in Jobs : i # j => JobSame(i)
  /\ stage[j] # "returned" /\ stage'[j] = "returned"
  /\ status'[j] \in {"failed", status[j]}
  /\ read'[j] = 0 /\ batch'[j] = 0

LEMMA LeaveFacts ==
  ASSUME JobTypeOK, NEW j \in Jobs,
         \/ Abandon(j) \/ JobAcquireFails(j) \/ PlanFails(j)
         \/ StatementFails(j) \/ InsertFails(j) \/ TableDiffers(j)
  PROVE  LeaveEffect(j)
<1> USE DEF LeaveEffect, JobTypeOK, Leave, Settle, JobSame, counts
<1>1. CASE Abandon(j)
  BY <1>1 DEF Abandon
<1>2. CASE JobAcquireFails(j)
  BY <1>2 DEF JobAcquireFails, Acquiring
<1>3. CASE PlanFails(j)
  BY <1>3 DEF PlanFails
<1>4. CASE StatementFails(j)
  BY <1>4 DEF StatementFails, SetTable
<1>5. CASE InsertFails(j)
  BY <1>5 DEF InsertFails, SetTable
<1>6. CASE TableDiffers(j)
  BY <1>6 DEF TableDiffers, Verify, SetTable
<1> QED
  BY <1>1, <1>2, <1>3, <1>4, <1>5, <1>6

(* The loop begins. *)
PlanEffect(j) ==
  /\ \A i \in Jobs : i # j => JobSame(i)
  /\ UNCHANGED <<status, mode, shown, checked, cur, read, batch, counts>>
  /\ stage[j] = "plan" /\ stage'[j] = "next"

LEMMA PlanFacts ==
  ASSUME JobTypeOK, NEW j \in Jobs, Plan(j)
  PROVE  PlanEffect(j)
BY DEF JobTypeOK, Plan, JobSame, counts, PlanEffect

(* The head of the loop. *)
NextEffect(j) ==
  /\ \A i \in Jobs : i # j => JobSame(i)
  /\ UNCHANGED <<status, mode, tables, shown, checked, read, batch, counts>>
  /\ stage[j] = "next" /\ cur[j] + 1 \in TableIds /\ cur'[j] = cur[j] + 1
  /\ stage'[j] = IF tables[j][cur[j] + 1] = "skipped" THEN "next" ELSE "prepare"

LEMMA NextTableFacts ==
  ASSUME JobTypeOK, NEW j \in Jobs, NextTable(j)
  PROVE  NextEffect(j)
BY DEF JobTypeOK, NextTable, JobSame, counts, NextEffect

(* The rows of a table are there to be read. *)
BeginEffect(j) ==
  /\ \A i \in Jobs : i # j => JobSame(i)
  /\ UNCHANGED <<status, mode, shown, checked, cur, read, batch, written, cut>>
  /\ stage[j] = "statements" /\ stage'[j] = "copy" /\ Copies(j)
  /\ cur[j] \in TableIds /\ rows'[j][cur[j]] \in 0..SourceRows
  /\ \A t \in TableIds : t # cur[j] =>
       tables'[j][t] = tables[j][t] /\ rows'[j][t] = rows[j][t]

LEMMA BeginCopyFacts ==
  ASSUME JobTypeOK, RowsCounted, NEW j \in Jobs, BeginCopy(j)
  PROVE  BeginEffect(j)
<1>1. cur[j] \in TableIds
  BY DEF BeginCopy, RowsCounted, RowsAt
<1> QED
  BY <1>1 DEF JobTypeOK, BeginCopy, SetTable, JobSame, BeginEffect

(* A table is complete. *)
TableEffect(j) ==
  /\ \A i \in Jobs : i # j => JobSame(i)
  /\ UNCHANGED <<status, mode, shown, cur, batch, counts>>
  /\ stage[j] \in {"lastFlush", "statements"} /\ stage'[j] = "next"
  /\ read'[j] = 0 /\ batch[j] = 0
  /\ cur[j] \in TableIds /\ Complete(j, cur[j])'
  /\ \A t \in TableIds : t # cur[j] =>
       tables'[j][t] = tables[j][t] /\ checked'[j][t] = checked[j][t]

LEMMA TableDoneFacts ==
  ASSUME JobTypeOK, RowsCounted, NEW j \in Jobs, TableDone(j)
  PROVE  TableEffect(j)
<1> DEFINE t == cur[j]
<1>1. /\ t \in TableIds /\ stage[j] \in {"lastFlush", "statements"} /\ batch[j] = 0
      /\ stage[j] = "statements" => ~Copies(j)
      /\ stage[j] = "lastFlush" =>
           /\ read[j] = Due(rows[j][t])
           /\ read[j] = written[j][t] + cut[j][t] + batch[j]
           /\ written[j][t] \in Nat /\ cut[j][t] \in Nat
  BY DEF TableDone, RowsCounted, RowsAt, Copying, Copies, JobTypeOK
<1>2. Copies(j) => written[j][t] + cut[j][t] = Due(rows[j][t])
  BY <1>1
<1>3. tables' = [tables EXCEPT ![j][t] = "done"]
  BY DEF TableDone, SetTable
<1>4. /\ tables'[j][t] = "done" /\ \A i \in Jobs : i # j => tables'[i] = tables[i]
      /\ \A r \in TableIds : r # t => tables'[j][r] = tables[j][r]
  BY <1>1, <1>3 DEF JobTypeOK
<1>5. /\ \A i \in Jobs : i # j => stage'[i] = stage[i] /\ read'[i] = read[i]
      /\ stage'[j] = "next" /\ read'[j] = 0
      /\ UNCHANGED <<status, mode, shown, checked, cur, batch, counts>>
  BY DEF TableDone, JobTypeOK
<1>6. Complete(j, t)'
  BY <1>2, <1>4, <1>5 DEF Complete, Copies, counts
<1> QED
  BY <1>1, <1>4, <1>5, <1>6 DEF JobSame, counts, TableEffect

LEMMA TableVerifiedFacts ==
  ASSUME JobTypeOK, RowsCounted, NEW j \in Jobs, TableVerified(j)
  PROVE  TableEffect(j)
<1> DEFINE t == cur[j]
<1>1. /\ stage[j] = "statements" /\ mode[j] = "verify" /\ stage'[j] = "next"
      /\ \A i \in Jobs : i # j => stage'[i] = stage[i]
      /\ UNCHANGED <<status, mode, tables, shown, cur, read, batch, counts>>
  BY DEF TableVerified, Verify, JobTypeOK
<1>2. t \in TableIds /\ read[j] = 0 /\ batch[j] = 0
  BY <1>1 DEF RowsCounted, RowsAt, Copying
<1>3. PICK n \in 0..SourceRows :
        checked' = [checked EXCEPT ![j][t] = [status |-> "done", rows |-> n]]
  BY DEF TableVerified, Verify
<1>4. /\ checked'[j][t].status = "done"
      /\ \A i \in Jobs : i # j => checked'[i] = checked[i]
      /\ \A r \in TableIds : r # t => checked'[j][r] = checked[j][r]
  BY <1>2, <1>3 DEF JobTypeOK
<1>5. Complete(j, t)'
  BY <1>1, <1>4 DEF Complete
<1> QED
  BY <1>1, <1>2, <1>4, <1>5 DEF JobSame, counts, TableEffect

(* A row joins the batch. *)
ReadEffect(j) ==
  /\ \A i \in Jobs : i # j => JobSame(i)
  /\ UNCHANGED <<status, mode, tables, shown, checked, cur, counts>>
  /\ stage[j] = "copy" /\ stage'[j] \in {"copy", "flush"}

LEMMA ReadRowFacts ==
  ASSUME JobTypeOK, NEW j \in Jobs, ReadRow(j)
  PROVE  ReadEffect(j)
BY DEF JobTypeOK, ReadRow, JobSame, counts, ReadEffect

(* A table is begun. *)
PrepareEffect(j) ==
  /\ \A i \in Jobs : i # j => JobSame(i)
  /\ UNCHANGED <<status, mode, shown, checked, cur, counts>>
  /\ stage[j] = "prepare" /\ stage'[j] = "statements"
  /\ \A t \in TableIds : t # cur[j] => tables'[j][t] = tables[j][t]

LEMMA PrepareFacts ==
  ASSUME JobTypeOK, NEW j \in Jobs, Prepare(j)
  PROVE  PrepareEffect(j)
BY DEF JobTypeOK, Prepare, SetTable, JobSame, counts, PrepareEffect

(* An INSERT moves the rows of the batch to those written or left out. *)
InsertedEffect(j) ==
  /\ cur[j] \in TableIds
  /\ \A f \in {shown', written', cut'} : f \in [Jobs -> [TableIds -> 0..SourceRows]]
  /\ \A i \in Jobs, t \in TableIds : i # j \/ t # cur[j] =>
       /\ written'[i][t] = written[i][t] /\ cut'[i][t] = cut[i][t]
       /\ shown'[i][t] = shown[i][t]
  /\ written'[j][cur[j]] + cut'[j][cur[j]] = read[j]
  /\ shown'[j][cur[j]] = read[j]
  /\ UNCHANGED <<status, mode, tables, checked, cur, read, rows>>
  /\ batch'[j] = 0 /\ stage[j] \in {"insert", "lastInsert"}
  /\ stage'[j] = IF stage[j] = "insert" THEN "copy" ELSE "lastFlush"
  /\ \A i \in Jobs : i # j => JobSame(i)

LEMMA InsertedFacts ==
  ASSUME JobTypeOK, RowsCounted, NEW j \in Jobs, Inserted(j)
  PROVE  InsertedEffect(j)
<1> DEFINE t == cur[j]
<1>1. /\ t \in TableIds /\ read[j] = written[j][t] + cut[j][t] + batch[j]
      /\ read[j] \in 0..SourceRows /\ batch[j] \in Nat
      /\ written[j][t] \in Nat /\ cut[j][t] \in Nat
  BY DEF Inserted, RowsCounted, RowsAt, Copying, JobTypeOK
<1>2. PICK n \in 1..batch[j] :
        /\ written' = [written EXCEPT ![j][t] = @ + n]
        /\ cut' = [cut EXCEPT ![j][t] = @ + batch[j] - n]
  BY DEF Inserted
<1>3. shown' = [shown EXCEPT ![j][t] = read[j]]
  BY DEF Inserted
<1>4. /\ written[j][t] + n \in 0..SourceRows
      /\ cut[j][t] + batch[j] - n \in 0..SourceRows
      /\ (written[j][t] + n) + (cut[j][t] + batch[j] - n) = read[j]
  BY <1>1, SizesAssumption
<1> HIDE DEF t
<1>5. /\ shown \in [Jobs -> [TableIds -> 0..SourceRows]]
      /\ written \in [Jobs -> [TableIds -> 0..SourceRows]]
      /\ cut \in [Jobs -> [TableIds -> 0..SourceRows]]
  BY DEF JobTypeOK
<1>6. /\ written'[j][t] = written[j][t] + n
      /\ \A i \in Jobs, r \in TableIds : i # j \/ r # t => written'[i][r] = written[i][r]
      /\ written' \in [Jobs -> [TableIds -> 0..SourceRows]]
  BY <1>1, <1>2, <1>4, <1>5
<1>7. /\ cut'[j][t] = cut[j][t] + batch[j] - n
      /\ \A i \in Jobs, r \in TableIds : i # j \/ r # t => cut'[i][r] = cut[i][r]
      /\ cut' \in [Jobs -> [TableIds -> 0..SourceRows]]
  BY <1>1, <1>2, <1>4, <1>5
<1>8. /\ shown'[j][t] = read[j]
      /\ \A i \in Jobs, r \in TableIds : i # j \/ r # t => shown'[i][r] = shown[i][r]
      /\ shown' \in [Jobs -> [TableIds -> 0..SourceRows]]
  BY <1>1, <1>3, <1>5
<1>9. /\ UNCHANGED <<status, mode, tables, checked, cur, read, rows>>
      /\ batch'[j] = 0 /\ stage[j] \in {"insert", "lastInsert"}
      /\ stage'[j] = IF stage[j] = "insert" THEN "copy" ELSE "lastFlush"
      /\ \A i \in Jobs : i # j => stage'[i] = stage[i] /\ batch'[i] = batch[i]
  BY DEF Inserted, JobTypeOK
<1>10. ASSUME NEW i \in Jobs, i # j PROVE JobSame(i)
  <2>1. UNCHANGED <<written[i], cut[i], shown[i]>>
    BY <1>2, <1>3, <1>5, <1>10
  <2> QED
    BY <2>1, <1>9, <1>10 DEF JobSame
<1> QED
  BY <1>1, <1>4, <1>6, <1>7, <1>8, <1>9, <1>10 DEF t, InsertedEffect

\* The type of the state.
LEMMA JobTypeStep ==
  ASSUME PoolTypeOK, JobTypeOK, RowsCounted, [Next]_vars
  PROVE  JobTypeOK'
<1> USE DEF vars, jobVars, progress, counts, JobTypeOK, Stages
<1>1. ASSUME NEW u \in Requests, RequestStep(u) PROVE JobTypeOK'
  BY <1>1, SizesAssumption DEF RequestStep
<1>2. ASSUME NEW j \in Jobs, Start(j) PROVE JobTypeOK'
  BY <1>2, SizesAssumption DEF Start, Acquiring
<1>3. ASSUME NEW j \in Jobs, Cancel(j) PROVE JobTypeOK'
  BY <1>3, SizesAssumption DEF Cancel
<1>4. ASSUME NEW j \in Jobs, Expire(j) PROVE JobTypeOK'
  BY <1>4, SizesAssumption DEF Expire
<1>5. ASSUME NEW j \in Jobs, Enter(j) PROVE JobTypeOK'
  <2>1. stage' \in [Jobs -> Stages]
    BY <1>5 DEF Enter, Acquiring
  <2>2. done' \in [Jobs -> {"unset", "no", "canceled", "expired"}]
    BY <1>5 DEF Enter
  <2> QED
    BY <1>5, <2>1, <2>2 DEF Enter
<1>6. ASSUME NEW j \in Jobs, JobAcquire(j) PROVE JobTypeOK'
  BY <1>6, SizesAssumption DEF JobAcquire
<1>7. ASSUME NEW j \in Jobs, JobAcquireFails(j) PROVE JobTypeOK'
  BY <1>7, SizesAssumption DEF JobAcquireFails, Settle, Leave
<1>8. ASSUME NEW j \in Jobs, JobTake(j) PROVE JobTypeOK'
  <2>1. have[j] \in Dbs \cup {None}
    BY UsersAssumption DEF PoolTypeOK
  <2>2. stage' \in [Jobs -> Stages]
    BY <1>8 DEF JobTake, NextStage, Acquiring
  <2>3. src' \in [Jobs -> Dbs \cup {None}]
    BY <1>8, <2>1 DEF JobTake
  <2>4. dst' \in [Jobs -> Dbs \cup {None}]
    BY <1>8, <2>1 DEF JobTake
  <2> QED
    BY <1>8, <2>2, <2>3, <2>4 DEF JobTake
<1>9. ASSUME NEW j \in Jobs, Plan(j) PROVE JobTypeOK'
  <2>1. stage' \in [Jobs -> Stages]
    BY <1>9 DEF Plan
  <2>2. tables' \in [Jobs -> [TableIds -> {"none", "pending", "skipped", "creating",
                                        "copying", "done", "failed"}]]
    BY <1>9 DEF Plan
  <2> QED
    BY <1>9, <2>1, <2>2 DEF Plan
<1>10. ASSUME NEW j \in Jobs, PlanFails(j) PROVE JobTypeOK'
  BY <1>10, SizesAssumption DEF PlanFails, Settle, Leave
<1>11. ASSUME NEW j \in Jobs, NextTable(j) PROVE JobTypeOK'
  <2>1. /\ cur[j] + 1 \in 0..Tables
        /\ cur' = [cur EXCEPT ![j] = cur[j] + 1]
    BY <1>11 DEF NextTable, TableIds
  <2>2. cur' \in [Jobs -> 0..Tables]
    BY <1>11, <2>1 DEF NextTable
  <2>3. stage' \in [Jobs -> Stages]
    BY <1>11 DEF NextTable
  <2> QED
    BY <1>11, <2>2, <2>3 DEF NextTable
<1>12. ASSUME NEW j \in Jobs, Abandon(j) PROVE JobTypeOK'
  BY <1>12, SizesAssumption DEF Abandon, Leave
<1>13. ASSUME NEW j \in Jobs, JobFinishes(j) PROVE JobTypeOK'
  BY <1>13, SizesAssumption DEF JobFinishes, Settle, Leave
<1>14. ASSUME NEW j \in Jobs, Prepare(j) PROVE JobTypeOK'
  <2>1. cur[j] \in TableIds
    BY <1>14 DEF Prepare, RowsCounted, RowsAt
  <2>2. tables' \in [Jobs -> [TableIds -> {"none", "pending", "skipped", "creating",
                                        "copying", "done", "failed"}]]
    BY <1>14, <2>1, SetTableFacts DEF Prepare
  <2>3. stage' \in [Jobs -> Stages]
    BY <1>14 DEF Prepare
  <2> QED
    BY <1>14, <2>2, <2>3 DEF Prepare
<1>15. ASSUME NEW j \in Jobs, BeginCopy(j) PROVE JobTypeOK'
  <2>1. cur[j] \in TableIds
    BY <1>15 DEF BeginCopy, RowsCounted, RowsAt
  <2>2. tables' \in [Jobs -> [TableIds -> {"none", "pending", "skipped", "creating",
                                        "copying", "done", "failed"}]]
    BY <1>15, <2>1, SetTableFacts DEF BeginCopy
  <2>3. rows' \in [Jobs -> [TableIds -> 0..SourceRows]]
    BY <1>15, <2>1 DEF BeginCopy
  <2>4. stage' \in [Jobs -> Stages]
    BY <1>15 DEF BeginCopy
  <2> QED
    BY <1>15, <2>2, <2>3, <2>4 DEF BeginCopy
<1>16. ASSUME NEW j \in Jobs, ReadRow(j) PROVE JobTypeOK'
  <2>1. /\ cur[j] \in TableIds /\ batch[j] < BatchRows
        /\ read[j] < rows[j][cur[j]] /\ rows[j][cur[j]] <= SourceRows
    BY <1>16 DEF ReadRow, RowsCounted, RowsAt, Copying
  <2>2. read' \in [Jobs -> 0..SourceRows]
    BY <1>16, <2>1, SizesAssumption DEF ReadRow
  <2>3. batch' \in [Jobs -> 0..BatchRows]
    BY <1>16, <2>1, SizesAssumption DEF ReadRow
  <2>4. stage' \in [Jobs -> Stages]
    BY <1>16 DEF ReadRow
  <2> QED
    BY <1>16, <2>2, <2>3, <2>4 DEF ReadRow
<1>17. ASSUME NEW j \in Jobs, EndOfRows(j) PROVE JobTypeOK'
  BY <1>17, SizesAssumption DEF EndOfRows
<1>18. ASSUME NEW j \in Jobs, Flush(j) PROVE JobTypeOK'
  BY <1>18, SizesAssumption DEF Flush
<1>19. ASSUME NEW j \in Jobs, TableDone(j) PROVE JobTypeOK'
  <2>1. cur[j] \in TableIds
    BY <1>19 DEF TableDone, RowsCounted, RowsAt, Copying
  <2>2. tables' \in [Jobs -> [TableIds -> {"none", "pending", "skipped", "creating",
                                        "copying", "done", "failed"}]]
    BY <1>19, <2>1, SetTableFacts DEF TableDone
  <2>3. read' \in [Jobs -> 0..SourceRows]
    BY <1>19, SizesAssumption DEF TableDone
  <2>4. stage' \in [Jobs -> Stages]
    BY <1>19 DEF TableDone
  <2> QED
    BY <1>19, <2>2, <2>3, <2>4 DEF TableDone
<1>20. ASSUME NEW j \in Jobs, StatementFails(j) PROVE JobTypeOK'
  <2>1. cur[j] \in TableIds
    BY <1>20 DEF StatementFails, RowsCounted, RowsAt, Copying
  <2>2. tables' \in [Jobs -> [TableIds -> {"none", "pending", "skipped", "creating",
                                        "copying", "done", "failed"}]]
    BY <1>20, <2>1, SetTableFacts DEF StatementFails
  <2>3. status' \in [Jobs -> {"none", "running", "done", "failed", "canceled"}]
    BY <1>20 DEF StatementFails, Settle
  <2>4. stage' \in [Jobs -> Stages]
    BY <1>20 DEF StatementFails, Settle, Leave
  <2>5. src' \in [Jobs -> Dbs \cup {None}]
    BY <1>20 DEF StatementFails, Settle, Leave
  <2>6. dst' \in [Jobs -> Dbs \cup {None}]
    BY <1>20 DEF StatementFails, Settle, Leave
  <2>7. cur' \in [Jobs -> 0..Tables]
    BY <1>20, SizesAssumption DEF StatementFails, Settle, Leave
  <2>8. read' \in [Jobs -> 0..SourceRows]
    BY <1>20, SizesAssumption DEF StatementFails, Settle, Leave
  <2>9. batch' \in [Jobs -> 0..BatchRows]
    BY <1>20, SizesAssumption DEF StatementFails, Settle, Leave
  <2> QED
    BY <1>20, <2>2, <2>3, <2>4, <2>5, <2>6, <2>7, <2>8, <2>9 DEF StatementFails, Settle, Leave
<1>22. ASSUME NEW j \in Jobs, Inserted(j) PROVE JobTypeOK'
  <2>1. \A f \in {shown', written', cut'} : f \in [Jobs -> [TableIds -> 0..SourceRows]]
    BY <1>22, InsertedFacts DEF InsertedEffect
  <2>2. stage' \in [Jobs -> Stages]
    BY <1>22 DEF Inserted
  <2>3. batch' \in [Jobs -> 0..BatchRows]
    BY <1>22, SizesAssumption DEF Inserted
  <2> QED
    BY <1>22, <2>1, <2>2, <2>3 DEF Inserted
<1>23. ASSUME NEW j \in Jobs, InsertFails(j) PROVE JobTypeOK'
  <2>1. cur[j] \in TableIds
    BY <1>23 DEF InsertFails, RowsCounted, RowsAt, Copying
  <2>2. tables' \in [Jobs -> [TableIds -> {"none", "pending", "skipped", "creating",
                                        "copying", "done", "failed"}]]
    BY <1>23, <2>1, SetTableFacts DEF InsertFails
  <2>3. status' \in [Jobs -> {"none", "running", "done", "failed", "canceled"}]
    BY <1>23 DEF InsertFails, Settle
  <2>4. stage' \in [Jobs -> Stages]
    BY <1>23 DEF InsertFails, Settle, Leave
  <2>5. src' \in [Jobs -> Dbs \cup {None}]
    BY <1>23 DEF InsertFails, Settle, Leave
  <2>6. dst' \in [Jobs -> Dbs \cup {None}]
    BY <1>23 DEF InsertFails, Settle, Leave
  <2>7. cur' \in [Jobs -> 0..Tables]
    BY <1>23, SizesAssumption DEF InsertFails, Settle, Leave
  <2>8. read' \in [Jobs -> 0..SourceRows]
    BY <1>23, SizesAssumption DEF InsertFails, Settle, Leave
  <2>9. batch' \in [Jobs -> 0..BatchRows]
    BY <1>23, SizesAssumption DEF InsertFails, Settle, Leave
  <2>10. PICK n \in 0..batch[j] : written' = [written EXCEPT ![j][cur[j]] = @ + n]
    BY <1>23 DEF InsertFails
  <2>11. written[j][cur[j]] + n \in 0..SourceRows
    <3>1. stage[j] \in Copying
      BY <1>23 DEF InsertFails, Copying
    <3>2. /\ read[j] = written[j][cur[j]] + cut[j][cur[j]] + batch[j]
          /\ read[j] \in 0..SourceRows /\ batch[j] \in Nat
          /\ written[j][cur[j]] \in Nat /\ cut[j][cur[j]] \in Nat
      BY <3>1, <2>1 DEF RowsCounted, RowsAt
    <3> QED
      BY <2>10, <3>2, SizesAssumption
  <2>12. written' \in [Jobs -> [TableIds -> 0..SourceRows]]
    BY <2>1, <2>10, <2>11
  <2> QED
    BY <1>23, <2>12, <2>2, <2>3, <2>4, <2>5, <2>6, <2>7, <2>8, <2>9 DEF InsertFails, Settle, Leave
<1>24. ASSUME NEW j \in Jobs, TableVerified(j) PROVE JobTypeOK'
  <2>1. cur[j] \in TableIds
    BY <1>24 DEF TableVerified, Verify, RowsCounted, RowsAt
  <2>2. PICK n \in 0..SourceRows :
          checked' = [checked EXCEPT ![j][cur[j]] = [status |-> "done", rows |-> n]]
    BY <1>24 DEF TableVerified, Verify
  <2>3. checked' \in [Jobs -> [TableIds -> [status : {"none", "done", "failed"},
                                           rows : 0..SourceRows]]]
    BY <2>1, <2>2
  <2>4. stage' \in [Jobs -> Stages]
    BY <1>24 DEF TableVerified
  <2> QED
    BY <1>24, <2>3, <2>4 DEF TableVerified
<1>25. ASSUME NEW j \in Jobs, TableDiffers(j) PROVE JobTypeOK'
  <2>1. cur[j] \in TableIds
    BY <1>25 DEF TableDiffers, Verify, RowsCounted, RowsAt, Copying
  <2>2. tables' \in [Jobs -> [TableIds -> {"none", "pending", "skipped", "creating",
                                        "copying", "done", "failed"}]]
    BY <1>25, <2>1, SetTableFacts DEF TableDiffers
  <2>3. status' \in [Jobs -> {"none", "running", "done", "failed", "canceled"}]
    BY <1>25 DEF TableDiffers, Settle
  <2>4. stage' \in [Jobs -> Stages]
    BY <1>25 DEF TableDiffers, Settle, Leave
  <2>5. src' \in [Jobs -> Dbs \cup {None}]
    BY <1>25 DEF TableDiffers, Settle, Leave
  <2>6. dst' \in [Jobs -> Dbs \cup {None}]
    BY <1>25 DEF TableDiffers, Settle, Leave
  <2>7. cur' \in [Jobs -> 0..Tables]
    BY <1>25, SizesAssumption DEF TableDiffers, Settle, Leave
  <2>8. read' \in [Jobs -> 0..SourceRows]
    BY <1>25, SizesAssumption DEF TableDiffers, Settle, Leave
  <2>9. batch' \in [Jobs -> 0..BatchRows]
    BY <1>25, SizesAssumption DEF TableDiffers, Settle, Leave
  <2>10. PICK n \in 0..SourceRows :
           checked' = [checked EXCEPT ![j][cur[j]] = [status |-> "failed", rows |-> n]]
    BY <1>25 DEF TableDiffers, Verify
  <2>11. checked' \in [Jobs -> [TableIds -> [status : {"none", "done", "failed"},
                                           rows : 0..SourceRows]]]
    BY <2>1, <2>10
  <2> QED
    BY <1>25, <2>11, <2>2, <2>3, <2>4, <2>5, <2>6, <2>7, <2>8, <2>9 DEF TableDiffers, Settle, Leave
<1>21. ASSUME UNCHANGED vars PROVE JobTypeOK'
  BY <1>21, SizesAssumption
<1> QED
  BY <1>1, <1>2, <1>3, <1>4, <1>5, <1>6, <1>7, <1>8, <1>9, <1>10, <1>11, <1>12,
     <1>13, <1>14, <1>15, <1>16, <1>17, <1>18, <1>19, <1>20, <1>21, <1>22, <1>23,
     <1>24, <1>25 DEF Next, JobStep, RunStep

\* The status agrees with the context and the way of the job.
LEMMA StatusStep ==
  ASSUME JobTypeOK, StatusMatches, [Next]_vars
  PROVE  StatusMatches'
<1> USE DEF vars, jobVars, progress, counts, JobTypeOK, StatusMatches
<1>1. ASSUME NEW u \in Requests, RequestStep(u) PROVE StatusMatches'
  BY <1>1 DEF RequestStep
<1>2. ASSUME NEW j \in Jobs, Start(j) PROVE StatusMatches'
  BY <1>2 DEF Start
<1>3. ASSUME NEW j \in Jobs, Cancel(j) PROVE StatusMatches'
  BY <1>3 DEF Cancel
<1>4. ASSUME NEW j \in Jobs, Expire(j) PROVE StatusMatches'
  BY <1>4 DEF Expire, InRun
<1>5. ASSUME NEW j \in Jobs, Enter(j) PROVE StatusMatches'
  BY <1>5 DEF Enter
<1>6. ASSUME NEW j \in Jobs, JobAcquire(j) PROVE StatusMatches'
  BY <1>6 DEF JobAcquire, Acquiring
<1>7. ASSUME NEW j \in Jobs, JobAcquireFails(j) PROVE StatusMatches'
  BY <1>7 DEF JobAcquireFails, Settle, Leave, Acquiring
<1>8. ASSUME NEW j \in Jobs, JobTake(j) PROVE StatusMatches'
  BY <1>8 DEF JobTake, NextStage, Acquiring
<1>9. ASSUME NEW j \in Jobs, Plan(j) PROVE StatusMatches'
  BY <1>9 DEF Plan
<1>10. ASSUME NEW j \in Jobs, PlanFails(j) PROVE StatusMatches'
  BY <1>10 DEF PlanFails, Settle, Leave
<1>11. ASSUME NEW j \in Jobs, NextTable(j) PROVE StatusMatches'
  BY <1>11 DEF NextTable
<1>12. ASSUME NEW j \in Jobs, Abandon(j) PROVE StatusMatches'
  BY <1>12 DEF Abandon, Leave
<1>13. ASSUME NEW j \in Jobs, JobFinishes(j) PROVE StatusMatches'
  BY <1>13 DEF JobFinishes, Settle, Leave
<1>14. ASSUME NEW j \in Jobs, Prepare(j) PROVE StatusMatches'
  BY <1>14 DEF Prepare, SetTable
<1>15. ASSUME NEW j \in Jobs, BeginCopy(j) PROVE StatusMatches'
  BY <1>15 DEF BeginCopy, SetTable
<1>16. ASSUME NEW j \in Jobs, ReadRow(j) PROVE StatusMatches'
  BY <1>16 DEF ReadRow
<1>17. ASSUME NEW j \in Jobs, EndOfRows(j) PROVE StatusMatches'
  BY <1>17 DEF EndOfRows
<1>18. ASSUME NEW j \in Jobs, Flush(j) PROVE StatusMatches'
  BY <1>18 DEF Flush
<1>19. ASSUME NEW j \in Jobs, TableDone(j) PROVE StatusMatches'
  BY <1>19 DEF TableDone, SetTable
<1>20. ASSUME NEW j \in Jobs, StatementFails(j) PROVE StatusMatches'
  BY <1>20 DEF StatementFails, Settle, Leave, SetTable
<1>22. ASSUME NEW j \in Jobs, Inserted(j) PROVE StatusMatches'
  BY <1>22 DEF Inserted
<1>23. ASSUME NEW j \in Jobs, InsertFails(j) PROVE StatusMatches'
  BY <1>23 DEF InsertFails, Settle, Leave, SetTable
<1>24. ASSUME NEW j \in Jobs, TableVerified(j) PROVE StatusMatches'
  BY <1>24 DEF TableVerified, Verify
<1>25. ASSUME NEW j \in Jobs, TableDiffers(j) PROVE StatusMatches'
  BY <1>25 DEF TableDiffers, Verify, Settle, Leave, SetTable
<1>21. ASSUME UNCHANGED vars PROVE StatusMatches'
  BY <1>21
<1> QED
  BY <1>1, <1>2, <1>3, <1>4, <1>5, <1>6, <1>7, <1>8, <1>9, <1>10, <1>11, <1>12,
     <1>13, <1>14, <1>15, <1>16, <1>17, <1>18, <1>19, <1>20, <1>21, <1>22, <1>23,
     <1>24, <1>25 DEF Next, JobStep, RunStep

\* The rows read are written, left out or in the batch.
LEMMA RowsStep ==
  ASSUME JobTypeOK, RowsCounted, NotYetCopied, [Next]_vars
  PROVE  RowsCounted'
<1> USE DEF vars, jobVars, progress, counts, JobTypeOK, RowsCounted, RowsAt,
            Acquiring, Copying, Copies, TableIds
<1>1. ASSUME NEW u \in Requests, RequestStep(u) PROVE RowsCounted'
  BY <1>1, SizesAssumption DEF RequestStep
<1>2. ASSUME NEW j \in Jobs, Start(j) PROVE RowsCounted'
  BY <1>2, SizesAssumption DEF Start
<1>3. ASSUME NEW j \in Jobs, Cancel(j) PROVE RowsCounted'
  BY <1>3, SizesAssumption DEF Cancel
<1>4. ASSUME NEW j \in Jobs, Expire(j) PROVE RowsCounted'
  BY <1>4, SizesAssumption DEF Expire
<1>5. ASSUME NEW j \in Jobs, Enter(j) PROVE RowsCounted'
  BY <1>5, SizesAssumption DEF Enter
<1>6. ASSUME NEW j \in Jobs, JobAcquire(j) PROVE RowsCounted'
  BY <1>6, SizesAssumption DEF JobAcquire
<1>7. ASSUME NEW j \in Jobs, JobAcquireFails(j) PROVE RowsCounted'
  BY <1>7, SizesAssumption DEF JobAcquireFails, Settle, Leave
<1>8. ASSUME NEW j \in Jobs, JobTake(j) PROVE RowsCounted'
  BY <1>8, SizesAssumption DEF JobTake, NextStage
<1>9. ASSUME NEW j \in Jobs, Plan(j) PROVE RowsCounted'
  BY <1>9, SizesAssumption DEF Plan
<1>10. ASSUME NEW j \in Jobs, PlanFails(j) PROVE RowsCounted'
  BY <1>10, SizesAssumption DEF PlanFails, Settle, Leave
<1>11. ASSUME NEW j \in Jobs, NextTable(j) PROVE RowsCounted'
  <2> HIDE DEF JobTypeOK, RowsCounted, RowsAt
  <2> USE DEF NextEffect
  <2>1. NextEffect(j)
    BY <1>11, NextTableFacts
  <2>2. RowsAt(j)
    BY DEF RowsCounted
  <2>3. RowsAt(j)'
    BY <2>1, <2>2 DEF RowsAt, Copying, Copies, Acquiring
  <2> QED
    BY <2>1, <2>3, SameKeeps DEF RowsCounted
<1>12. ASSUME NEW j \in Jobs, Abandon(j) PROVE RowsCounted'
  BY <1>12, SizesAssumption DEF Abandon, Leave
<1>13. ASSUME NEW j \in Jobs, JobFinishes(j) PROVE RowsCounted'
  BY <1>13, SizesAssumption DEF JobFinishes, Settle, Leave
<1>14. ASSUME NEW j \in Jobs, Prepare(j) PROVE RowsCounted'
  BY <1>14, SizesAssumption DEF Prepare, SetTable
<1>15. ASSUME NEW j \in Jobs, BeginCopy(j) PROVE RowsCounted'
  <2> HIDE DEF JobTypeOK, RowsCounted, RowsAt
  <2> USE DEF BeginEffect
  <2>1. BeginEffect(j)
    BY <1>15, BeginCopyFacts
  <2>2. RowsAt(j) /\ written[j][cur[j]] = 0 /\ cut[j][cur[j]] = 0
    BY <2>1 DEF RowsCounted, NotYetCopied, AheadAt
  <2>3. 0 < BatchRows /\ Due(rows'[j][cur[j]]) >= 0
    BY <2>1, SizesAssumption DEF Due
  <2>4. RowsAt(j)'
    BY <2>1, <2>2, <2>3 DEF RowsAt, Copying, Copies, Acquiring
  <2> QED
    BY <2>1, <2>4, SameKeeps DEF RowsCounted
<1>16. ASSUME NEW j \in Jobs, ReadRow(j) PROVE RowsCounted'
  <2> HIDE DEF JobTypeOK, RowsCounted, RowsAt, TableIds
  <2> USE DEF ReadEffect
  <2>1. ReadEffect(j)
    BY <1>16, ReadRowFacts
  <2>2. RowsAt(j) /\ cur[j] \in TableIds
    BY <2>1 DEF RowsCounted, RowsAt, Copying
  <2>3. /\ written[j][cur[j]] \in Nat /\ cut[j][cur[j]] \in Nat
        /\ rows[j][cur[j]] \in Nat /\ read[j] \in Nat /\ batch[j] \in Nat
    BY <2>2 DEF JobTypeOK
  <2>4. /\ read'[j] = read[j] + 1 /\ batch'[j] = batch[j] + 1
        /\ read[j] < rows[j][cur[j]] /\ ~Full(j)
        /\ stage'[j] = IF batch[j] + 1 >= BatchRows THEN "flush" ELSE "copy"
    BY <1>16 DEF ReadRow, JobTypeOK
  <2>5. read[j] + 1 <= Due(rows[j][cur[j]])
    BY <2>3, <2>4, SizesAssumption DEF Full, Due
  <2>6. RowsAt(j)'
    BY <2>1, <2>2, <2>3, <2>4, <2>5, SizesAssumption DEF RowsAt, Copying, Copies, Acquiring, counts
  <2> QED
    BY <2>1, <2>6, SameKeeps DEF RowsCounted
<1>17. ASSUME NEW j \in Jobs, EndOfRows(j) PROVE RowsCounted'
  BY <1>17, SizesAssumption DEF EndOfRows, Full, Due
<1>18. ASSUME NEW j \in Jobs, Flush(j) PROVE RowsCounted'
  BY <1>18, SizesAssumption DEF Flush
<1>19. ASSUME NEW j \in Jobs, TableDone(j) PROVE RowsCounted'
  BY <1>19, SizesAssumption DEF TableDone, SetTable
<1>20. ASSUME NEW j \in Jobs, StatementFails(j) PROVE RowsCounted'
  BY <1>20, SizesAssumption DEF StatementFails, Settle, Leave, SetTable
<1>22. ASSUME NEW j \in Jobs, Inserted(j) PROVE RowsCounted'
  <2> HIDE DEF JobTypeOK, RowsCounted, RowsAt
  <2> USE DEF InsertedEffect
  <2>1. InsertedEffect(j)
    BY <1>22, InsertedFacts
  <2>2. RowsAt(j)
    BY DEF RowsCounted
  <2>3. 0 < BatchRows /\ read[j] \in Nat
    BY SizesAssumption DEF JobTypeOK
  <2>4. RowsAt(j)'
    BY <2>1, <2>2, <2>3 DEF RowsAt, Copying, Copies, Acquiring
  <2> QED
    BY <2>1, <2>4, SameKeeps DEF RowsCounted
<1>23. ASSUME NEW j \in Jobs, InsertFails(j) PROVE RowsCounted'
  BY <1>23, SizesAssumption DEF InsertFails, Settle, Leave, SetTable
<1>24. ASSUME NEW j \in Jobs, TableVerified(j) PROVE RowsCounted'
  BY <1>24, SizesAssumption DEF TableVerified, Verify
<1>25. ASSUME NEW j \in Jobs, TableDiffers(j) PROVE RowsCounted'
  BY <1>25, SizesAssumption DEF TableDiffers, Verify, Settle, Leave, SetTable
<1>21. ASSUME UNCHANGED vars PROVE RowsCounted'
  BY <1>21, SizesAssumption
<1> QED
  BY <1>1, <1>2, <1>3, <1>4, <1>5, <1>6, <1>7, <1>8, <1>9, <1>10, <1>11, <1>12,
     <1>13, <1>14, <1>15, <1>16, <1>17, <1>18, <1>19, <1>20, <1>21, <1>22, <1>23,
     <1>24, <1>25 DEF Next, JobStep, RunStep

\* The tables ahead are untouched.
LEMMA AheadStep ==
  ASSUME JobTypeOK, RowsCounted, NotYetCopied, [Next]_vars
  PROVE  NotYetCopied'
<1> USE DEF vars, jobVars, progress, counts, JobTypeOK, NotYetCopied, AheadAt,
            TableIds
<1>1. ASSUME NEW u \in Requests, RequestStep(u) PROVE NotYetCopied'
  BY <1>1, SizesAssumption DEF RequestStep
<1>2. ASSUME NEW j \in Jobs,
             \/ Start(j) \/ Cancel(j) \/ Expire(j) \/ Enter(j)
             \/ JobAcquire(j) \/ JobTake(j) \/ EndOfRows(j) \/ Flush(j)
      PROVE  NotYetCopied'
  <2> HIDE DEF JobTypeOK, RowsCounted, NotYetCopied, AheadAt
  <2> USE DEF IdleEffect
  <2>1. IdleEffect(j)
    BY <1>2, IdleFacts
  <2>2. AheadAt(j)
    BY DEF NotYetCopied
  <2>3. AheadAt(j)'
    BY <2>1, <2>2 DEF AheadAt, counts
  <2> QED
    BY <2>1, <2>3, SameKeeps DEF NotYetCopied
<1>3. ASSUME NEW j \in Jobs,
             \/ JobAcquireFails(j) \/ PlanFails(j) \/ Abandon(j)
             \/ StatementFails(j) \/ InsertFails(j) \/ TableDiffers(j)
      PROVE  NotYetCopied'
  <2> HIDE DEF JobTypeOK, RowsCounted, NotYetCopied, AheadAt
  <2> USE DEF LeaveEffect
  <2>1. LeaveEffect(j)
    BY <1>3, LeaveFacts
  <2>2. AheadAt(j)'
    BY <2>1 DEF AheadAt
  <2> QED
    BY <2>1, <2>2, SameKeeps DEF NotYetCopied
<1>4. ASSUME NEW j \in Jobs, Plan(j) PROVE NotYetCopied'
  <2> HIDE DEF JobTypeOK, RowsCounted, NotYetCopied, AheadAt, TableIds
  <2>1. PlanEffect(j)
    BY <1>4, PlanFacts
  <2>2. AheadAt(j)
    BY DEF NotYetCopied
  <2>3. AheadAt(j)'
    BY <2>1, <2>2 DEF PlanEffect, AheadAt, counts
  <2> QED
    BY <2>1, <2>3, SameKeeps DEF PlanEffect, NotYetCopied
<1>5. ASSUME NEW j \in Jobs, NextTable(j) PROVE NotYetCopied'
  <2> HIDE DEF JobTypeOK, RowsCounted, NotYetCopied, AheadAt, TableIds
  <2> USE DEF NextEffect
  <2>1. NextEffect(j)
    BY <1>5, NextTableFacts
  <2>2. AheadAt(j)
    BY DEF NotYetCopied
  <2>3. cur[j] \in Nat /\ \A t \in TableIds : t \in Nat
    BY SizesAssumption DEF JobTypeOK, TableIds
  <2>4. AheadAt(j)'
    BY <2>1, <2>2, <2>3 DEF AheadAt, counts
  <2> QED
    BY <2>1, <2>4, SameKeeps DEF NotYetCopied
<1>6. ASSUME NEW j \in Jobs, JobFinishes(j) PROVE NotYetCopied'
  <2> HIDE DEF JobTypeOK, RowsCounted, NotYetCopied, AheadAt, TableIds
  <2>1. stage'[j] = "returned" /\ \A i \in Jobs : i # j => JobSame(i)
    BY <1>6 DEF JobFinishes, Settle, Leave, JobTypeOK, JobSame, counts
  <2>2. AheadAt(j)'
    BY <2>1 DEF AheadAt
  <2> QED
    BY <2>1, <2>2, SameKeeps DEF NotYetCopied
<1>7. ASSUME NEW j \in Jobs, Prepare(j) PROVE NotYetCopied'
  <2> HIDE DEF JobTypeOK, RowsCounted, NotYetCopied, AheadAt, TableIds
  <2>1. PrepareEffect(j)
    BY <1>7, PrepareFacts
  <2>2. AheadAt(j)
    BY DEF NotYetCopied
  <2>3. AheadAt(j)'
    BY <2>1, <2>2 DEF PrepareEffect, AheadAt, counts
  <2> QED
    BY <2>1, <2>3, SameKeeps DEF PrepareEffect, NotYetCopied
<1>8. ASSUME NEW j \in Jobs, BeginCopy(j) PROVE NotYetCopied'
  <2> HIDE DEF JobTypeOK, RowsCounted, NotYetCopied, AheadAt
  <2> USE DEF BeginEffect
  <2>1. BeginEffect(j)
    BY <1>8, BeginCopyFacts
  <2>2. AheadAt(j)
    BY DEF NotYetCopied
  <2>3. AheadAt(j)'
    BY <2>1, <2>2 DEF AheadAt
  <2> QED
    BY <2>1, <2>3, SameKeeps DEF NotYetCopied
<1>9. ASSUME NEW j \in Jobs, ReadRow(j) PROVE NotYetCopied'
  <2> HIDE DEF JobTypeOK, RowsCounted, NotYetCopied, AheadAt, TableIds
  <2>1. ReadEffect(j)
    BY <1>9, ReadRowFacts
  <2>2. AheadAt(j)
    BY DEF NotYetCopied
  <2>3. AheadAt(j)'
    BY <2>1, <2>2 DEF ReadEffect, AheadAt, counts
  <2> QED
    BY <2>1, <2>3, SameKeeps DEF ReadEffect, NotYetCopied
<1>10. ASSUME NEW j \in Jobs, Inserted(j) PROVE NotYetCopied'
  <2> HIDE DEF JobTypeOK, RowsCounted, NotYetCopied, AheadAt, TableIds
  <2> USE DEF InsertedEffect
  <2>1. InsertedEffect(j)
    BY <1>10, InsertedFacts
  <2>2. AheadAt(j)
    BY DEF NotYetCopied
  <2>3. cur[j] \in Nat /\ \A t \in TableIds : t \in Nat
    BY SizesAssumption DEF JobTypeOK, TableIds
  <2>4. AheadAt(j)'
    BY <2>1, <2>2, <2>3 DEF AheadAt
  <2> QED
    BY <2>1, <2>4, SameKeeps DEF NotYetCopied
<1>11. ASSUME NEW j \in Jobs, TableDone(j) \/ TableVerified(j) PROVE NotYetCopied'
  <2> HIDE DEF JobTypeOK, RowsCounted, NotYetCopied, AheadAt, TableIds
  <2> USE DEF TableEffect
  <2>1. TableEffect(j)
    BY <1>11, TableDoneFacts, TableVerifiedFacts
  <2>2. AheadAt(j)
    BY DEF NotYetCopied
  <2>3. AheadAt(j)'
    BY <2>1, <2>2 DEF AheadAt, counts
  <2> QED
    BY <2>1, <2>3, SameKeeps DEF NotYetCopied
<1>12. ASSUME UNCHANGED vars PROVE NotYetCopied'
  BY <1>12, SizesAssumption
<1> QED
  BY <1>1, <1>2, <1>3, <1>4, <1>5, <1>6, <1>7, <1>8, <1>9, <1>10, <1>11, <1>12 DEF Next, JobStep, RunStep

\* The tables behind are complete.
LEMMA BehindStep ==
  ASSUME JobTypeOK, RowsCounted, CopiedSoFar, [Next]_vars
  PROVE  CopiedSoFar'
<1> USE DEF vars, jobVars, progress, counts, JobTypeOK, CopiedSoFar, BehindAt,
            Complete, Copies, TableIds
<1>1. ASSUME NEW u \in Requests, RequestStep(u) PROVE CopiedSoFar'
  BY <1>1, SizesAssumption DEF RequestStep
<1>2. ASSUME NEW j \in Jobs,
             \/ Start(j) \/ Cancel(j) \/ Expire(j) \/ Enter(j)
             \/ JobAcquire(j) \/ JobTake(j) \/ EndOfRows(j) \/ Flush(j)
      PROVE  CopiedSoFar'
  <2> HIDE DEF JobTypeOK, RowsCounted, CopiedSoFar, BehindAt, Complete, Copies, TableIds
  <2> USE DEF IdleEffect
  <2>1. IdleEffect(j)
    BY <1>2, IdleFacts
  <2>2. BehindAt(j)
    BY DEF CopiedSoFar
  <2>3. BehindAt(j)'
    BY <2>1, <2>2 DEF BehindAt, Complete, Copies, counts
  <2> QED
    BY <2>1, <2>3, SameKeeps DEF CopiedSoFar
<1>3. ASSUME NEW j \in Jobs,
             \/ JobAcquireFails(j) \/ PlanFails(j) \/ Abandon(j)
             \/ StatementFails(j) \/ InsertFails(j) \/ TableDiffers(j)
      PROVE  CopiedSoFar'
  <2> HIDE DEF JobTypeOK, RowsCounted, CopiedSoFar, BehindAt, Complete, Copies, TableIds
  <2> USE DEF LeaveEffect
  <2>1. LeaveEffect(j)
    BY <1>3, LeaveFacts
  <2>2. BehindAt(j)'
    BY <2>1 DEF BehindAt
  <2> QED
    BY <2>1, <2>2, SameKeeps DEF CopiedSoFar
<1>4. ASSUME NEW j \in Jobs, Plan(j) PROVE CopiedSoFar'
  <2> HIDE DEF JobTypeOK, RowsCounted, CopiedSoFar, BehindAt, Complete, TableIds
  <2> USE DEF PlanEffect
  <2>1. PlanEffect(j)
    BY <1>4, PlanFacts
  <2>2. cur'[j] = 0
    BY <2>1 DEF RowsCounted, RowsAt
  <2>3. BehindAt(j)'
    BY <2>1, <2>2 DEF BehindAt, TableIds
  <2> QED
    BY <2>1, <2>3, SameKeeps DEF CopiedSoFar
<1>5. ASSUME NEW j \in Jobs, NextTable(j) PROVE CopiedSoFar'
  <2> HIDE DEF JobTypeOK, RowsCounted, CopiedSoFar, BehindAt, Complete, Copies, TableIds
  <2> USE DEF NextEffect
  <2>1. NextEffect(j)
    BY <1>5, NextTableFacts
  <2>2. BehindAt(j)
    BY DEF CopiedSoFar
  <2>3. cur[j] \in Nat /\ \A t \in TableIds : t \in Nat
    BY SizesAssumption DEF JobTypeOK, TableIds
  <2>4. ASSUME NEW t \in TableIds, t < cur'[j] \/ (t = cur'[j] /\ stage'[j] = "next")
        PROVE  Complete(j, t)'
    <3>1. stage[j] # "returned"
      BY <2>1
    <3>2. CASE t = cur[j] + 1
      BY <2>1, <2>3, <2>4, <3>2 DEF Complete, counts
    <3>3. CASE t # cur[j] + 1
      <4>1. t < cur[j] \/ t = cur[j]
        BY <2>1, <2>3, <2>4, <3>3
      <4> QED
        BY <2>1, <2>2, <3>1, <4>1 DEF BehindAt, Complete, Copies, counts
    <3> QED
      BY <3>2, <3>3
  <2>5. BehindAt(j)'
    BY <2>4 DEF BehindAt
  <2> QED
    BY <2>1, <2>5, SameKeeps DEF CopiedSoFar
<1>6. ASSUME NEW j \in Jobs, JobFinishes(j) PROVE CopiedSoFar'
  <2> HIDE DEF JobTypeOK, RowsCounted, CopiedSoFar, BehindAt, Complete, Copies, TableIds
  <2>1. stage'[j] = "returned" /\ \A i \in Jobs : i # j => JobSame(i)
    BY <1>6 DEF JobFinishes, Settle, Leave, JobTypeOK, JobSame, counts
  <2>2. BehindAt(j)'
    BY <2>1 DEF BehindAt
  <2> QED
    BY <2>1, <2>2, SameKeeps DEF CopiedSoFar
<1>7. ASSUME NEW j \in Jobs, Prepare(j) PROVE CopiedSoFar'
  <2> HIDE DEF JobTypeOK, RowsCounted, CopiedSoFar, BehindAt, Complete, Copies, TableIds
  <2> USE DEF PrepareEffect
  <2>1. PrepareEffect(j)
    BY <1>7, PrepareFacts
  <2>2. BehindAt(j)
    BY DEF CopiedSoFar
  <2>3. cur[j] \in Nat /\ \A t \in TableIds : t \in Nat
    BY SizesAssumption DEF JobTypeOK, TableIds
  <2>4. \A t \in TableIds : t # cur[j] /\ Complete(j, t) => Complete(j, t)'
    BY <2>1 DEF Complete, Copies, counts
  <2>5. BehindAt(j)'
    BY <2>1, <2>2, <2>3, <2>4 DEF BehindAt
  <2> QED
    BY <2>1, <2>5, SameKeeps DEF CopiedSoFar
<1>8. ASSUME NEW j \in Jobs, BeginCopy(j) PROVE CopiedSoFar'
  <2> HIDE DEF JobTypeOK, RowsCounted, CopiedSoFar, BehindAt, Complete, Copies, TableIds
  <2> USE DEF BeginEffect
  <2>1. BeginEffect(j)
    BY <1>8, BeginCopyFacts
  <2>2. BehindAt(j)
    BY DEF CopiedSoFar
  <2>3. cur[j] \in Nat /\ \A t \in TableIds : t \in Nat
    BY SizesAssumption DEF JobTypeOK, TableIds
  <2>4. \A t \in TableIds : t # cur[j] /\ Complete(j, t) => Complete(j, t)'
    BY <2>1 DEF Complete, Copies, counts
  <2>5. BehindAt(j)'
    BY <2>1, <2>2, <2>3, <2>4 DEF BehindAt, Copies
  <2> QED
    BY <2>1, <2>5, SameKeeps DEF CopiedSoFar
<1>9. ASSUME NEW j \in Jobs, ReadRow(j) PROVE CopiedSoFar'
  <2> HIDE DEF JobTypeOK, RowsCounted, CopiedSoFar, BehindAt, Complete, Copies, TableIds
  <2> USE DEF ReadEffect
  <2>1. ReadEffect(j)
    BY <1>9, ReadRowFacts
  <2>2. BehindAt(j)
    BY DEF CopiedSoFar
  <2>3. BehindAt(j)'
    BY <2>1, <2>2 DEF BehindAt, Complete, Copies, counts
  <2> QED
    BY <2>1, <2>3, SameKeeps DEF CopiedSoFar
<1>10. ASSUME NEW j \in Jobs, Inserted(j) PROVE CopiedSoFar'
  <2> HIDE DEF JobTypeOK, RowsCounted, CopiedSoFar, BehindAt, Complete, Copies, TableIds
  <2> USE DEF InsertedEffect
  <2>1. InsertedEffect(j)
    BY <1>10, InsertedFacts
  <2>2. BehindAt(j)
    BY DEF CopiedSoFar
  <2>3. cur[j] \in Nat /\ \A t \in TableIds : t \in Nat
    BY SizesAssumption DEF JobTypeOK, TableIds
  <2>4. \A t \in TableIds : t # cur[j] /\ Complete(j, t) => Complete(j, t)'
    BY <2>1 DEF Complete, Copies, counts
  <2>5. BehindAt(j)'
    BY <2>1, <2>2, <2>3, <2>4 DEF BehindAt, Copies
  <2> QED
    BY <2>1, <2>5, SameKeeps DEF CopiedSoFar
<1>11. ASSUME NEW j \in Jobs, TableDone(j) \/ TableVerified(j) PROVE CopiedSoFar'
  <2> HIDE DEF JobTypeOK, RowsCounted, CopiedSoFar, BehindAt, Complete, Copies, TableIds
  <2> USE DEF TableEffect
  <2>1. TableEffect(j)
    BY <1>11, TableDoneFacts, TableVerifiedFacts
  <2>2. BehindAt(j)
    BY DEF CopiedSoFar
  <2>3. cur[j] \in Nat /\ \A t \in TableIds : t \in Nat
    BY SizesAssumption DEF JobTypeOK, TableIds
  <2>4. \A t \in TableIds : t # cur[j] /\ Complete(j, t) => Complete(j, t)'
    BY <2>1 DEF Complete, Copies, counts
  <2>5. BehindAt(j)'
    BY <2>1, <2>2, <2>3, <2>4 DEF BehindAt, Copies
  <2> QED
    BY <2>1, <2>5, SameKeeps DEF CopiedSoFar
<1>12. ASSUME UNCHANGED vars PROVE CopiedSoFar'
  BY <1>12, SizesAssumption
<1> QED
  BY <1>1, <1>2, <1>3, <1>4, <1>5, <1>6, <1>7, <1>8, <1>9, <1>10, <1>11, <1>12 DEF Next, JobStep, RunStep

(* Until a job fails, the rows shown are exactly those written or left out. *)
ShownAt(j) == \A t \in TableIds : shown[j][t] = written[j][t] + cut[j][t]
ProgressAt(j) ==
  \A t \in TableIds :
    LET dealt == written[j][t] + cut[j][t] IN
    /\ shown[j][t] <= dealt /\ dealt <= shown[j][t] + BatchRows
    /\ shown[j][t] # dealt => tables[j][t] = "failed" /\ status[j] = "failed"

\* A step of a job is taken before it has failed.
LEMMA StepsBeforeFailed ==
  ASSUME JobTypeOK, StatusMatches, NEW j \in Jobs, JobStep(j)
  PROVE  status[j] # "failed"
<1>1. ASSUME status[j] = "failed" PROVE stage[j] = "returned"
  BY <1>1 DEF StatusMatches
<1> QED
  BY <1>1 DEF JobStep, RunStep, Start, Cancel, Expire, InRun, Enter, JobAcquire,
     JobAcquireFails, JobTake, Acquiring, Plan, PlanFails, NextTable, Abandon, JobFinishes,
     Prepare, BeginCopy, ReadRow, EndOfRows, Flush, Inserted, InsertFails, TableDone,
     TableVerified, Verify, TableDiffers, StatementFails

\* What a step leaves alone of the other jobs.
LEMMA OthersSame ==
  ASSUME JobTypeOK, RowsCounted, NEW j \in Jobs, JobStep(j)
  PROVE  \A i \in Jobs : i # j => JobSame(i)
<1>1. JobFinishes(j) => \A i \in Jobs : i # j => JobSame(i)
  BY DEF JobFinishes, Settle, Leave, JobTypeOK, JobSame
<1> QED
  BY <1>1, IdleFacts, LeaveFacts, PlanFacts, NextTableFacts, BeginCopyFacts, TableDoneFacts,
     TableVerifiedFacts, ReadRowFacts, PrepareFacts, InsertedFacts
  DEF JobStep, RunStep, IdleEffect, LeaveEffect, PlanEffect, NextEffect, BeginEffect,
      TableEffect, ReadEffect, PrepareEffect, InsertedEffect

\* Only the return of an INSERT touches the counts that the progress compares.
LEMMA CountsKept ==
  ASSUME NEW j \in Jobs, JobStep(j), ~Inserted(j), ~InsertFails(j)
  PROVE  UNCHANGED <<shown, written, cut>>
BY DEF JobStep, RunStep, Start, Cancel, Expire, Enter, JobAcquire, JobAcquireFails, JobTake,
   Plan, PlanFails, NextTable, Abandon, JobFinishes, Prepare, BeginCopy, ReadRow, EndOfRows,
   Flush, TableDone, TableVerified, TableDiffers, StatementFails, Settle, Leave, jobVars,
   progress, counts

\* An INSERT that fails may leave rows of its batch that are not shown.
LEMMA InsertFailsProgress ==
  ASSUME JobTypeOK, RowsCounted, NEW j \in Jobs, InsertFails(j), ShownAt(j)
  PROVE  ProgressAt(j)'
<1> DEFINE t == cur[j]
<1>1. t \in TableIds /\ batch[j] \in 0..BatchRows
  BY DEF InsertFails, RowsCounted, RowsAt, Copying, JobTypeOK
<1>2. PICK n \in 0..batch[j] : written' = [written EXCEPT ![j][t] = @ + n]
  BY DEF InsertFails
<1>3. /\ tables' = [tables EXCEPT ![j][t] = "failed"]
      /\ status' = [status EXCEPT ![j] = "failed"]
      /\ UNCHANGED <<shown, cut>>
  BY DEF InsertFails, SetTable, Settle, Leave
<1>4. /\ written'[j][t] = written[j][t] + n
      /\ \A r \in TableIds : r # t => written'[j][r] = written[j][r]
      /\ tables'[j][t] = "failed" /\ status'[j] = "failed"
  BY <1>1, <1>2, <1>3 DEF JobTypeOK
<1>5. ASSUME NEW r \in TableIds
      PROVE  /\ shown[j][r] \in Nat /\ written[j][r] \in Nat /\ cut[j][r] \in Nat
             /\ shown[j][r] = written[j][r] + cut[j][r]
  BY DEF JobTypeOK, ShownAt
<1> HIDE DEF t
<1>6. ASSUME NEW r \in TableIds
      PROVE  /\ shown'[j][r] <= written'[j][r] + cut'[j][r]
             /\ written'[j][r] + cut'[j][r] <= shown'[j][r] + BatchRows
             /\ shown'[j][r] # written'[j][r] + cut'[j][r] =>
                  tables'[j][r] = "failed" /\ status'[j] = "failed"
  <2>1. CASE r = t
    BY <1>1, <1>3, <1>4, <1>5, <2>1, SizesAssumption
  <2>2. CASE r # t
    BY <1>3, <1>4, <1>5, <2>2, SizesAssumption
  <2> QED
    BY <2>1, <2>2
<1> QED
  BY <1>6 DEF ProgressAt

\* The rows shown are written or left out, up to the INSERT that has failed.
LEMMA ProgressStep ==
  ASSUME JobTypeOK, JobTypeOK', StatusMatches, RowsCounted, ProgressIsTrue, [Next]_vars
  PROVE  ProgressIsTrue'
<1>1. ProgressIsTrue' <=> \A j \in Jobs : ProgressAt(j)'
  BY DEF ProgressIsTrue, ProgressAt
<1>2. \A i \in Jobs : ProgressAt(i)
  BY DEF ProgressIsTrue, ProgressAt
<1>3. ASSUME NEW i \in Jobs, JobSame(i) PROVE ProgressAt(i)'
  BY <1>2, <1>3 DEF ProgressAt, JobSame
<1>4. ASSUME NEW j \in Jobs, JobStep(j) PROVE ProgressIsTrue'
  <2>1. ShownAt(j)
    BY <1>2, <1>4, StepsBeforeFailed DEF ProgressAt, ShownAt
  <2>2. ASSUME ShownAt(j)' PROVE ProgressAt(j)'
    <3>1. ASSUME NEW t \in TableIds PROVE shown'[j][t] = written'[j][t] + cut'[j][t]
      BY <2>2 DEF ShownAt
    <3>2. ASSUME NEW t \in TableIds PROVE shown'[j][t] \in Nat
      BY DEF JobTypeOK
    <3> QED
      BY <3>1, <3>2, SizesAssumption DEF ProgressAt
  <2>3. ProgressAt(j)'
    <3>1. CASE Inserted(j)
      <4>1. InsertedEffect(j)
        BY <3>1, InsertedFacts
      <4>2. ASSUME NEW t \in TableIds PROVE shown'[j][t] = written'[j][t] + cut'[j][t]
        BY <2>1, <4>1 DEF InsertedEffect, ShownAt
      <4> QED
        BY <2>2, <4>2 DEF ShownAt
    <3>2. CASE InsertFails(j)
      BY <2>1, <3>2, InsertFailsProgress
    <3>3. CASE ~Inserted(j) /\ ~InsertFails(j)
      BY <1>4, <2>1, <2>2, <3>3, CountsKept DEF ShownAt
    <3> QED
      BY <3>1, <3>2, <3>3
  <2> QED
    BY <1>1, <1>3, <1>4, <2>3, OthersSame
<1>5. ASSUME UNCHANGED jobVars PROVE ProgressIsTrue'
  BY <1>1, <1>3, <1>5 DEF jobVars, progress, counts, JobSame
<1> QED
  BY <1>4, <1>5 DEF Next, RequestStep, vars

\* A job that ends as done is complete, and stays as it is.
LEMMA DoneStep ==
  ASSUME JobTypeOK, StatusMatches, RowsCounted, CopiedSoFar, DoneIsComplete, [Next]_vars
  PROVE  DoneIsComplete'
<1> USE DEF vars, jobVars, progress, counts, JobTypeOK, StatusMatches,
            DoneIsComplete, Complete, Copies, TableIds
<1>1. ASSUME NEW u \in Requests, RequestStep(u) PROVE DoneIsComplete'
  BY <1>1, SizesAssumption DEF RequestStep
<1>2. ASSUME NEW j \in Jobs,
             \/ Start(j) \/ Cancel(j) \/ Expire(j) \/ Enter(j)
             \/ JobAcquire(j) \/ JobTake(j) \/ EndOfRows(j) \/ Flush(j)
      PROVE  DoneIsComplete'
  <2> HIDE DEF JobTypeOK, StatusMatches, RowsCounted, CopiedSoFar, DoneIsComplete, Complete, Copies, TableIds
  <2> USE DEF IdleEffect
  <2>1. IdleEffect(j)
    BY <1>2, IdleFacts
  <2>2. DoneAt(j)
    BY DoneIsAt
  <2>3. DoneAt(j)'
    BY <2>1, <2>2 DEF DoneAt, Complete, Copies, counts
  <2> QED
    BY <2>1, <2>3, SameKeeps, DoneIsAt
<1>3. ASSUME NEW j \in Jobs,
             \/ JobAcquireFails(j) \/ PlanFails(j) \/ Abandon(j)
             \/ StatementFails(j) \/ InsertFails(j) \/ TableDiffers(j)
      PROVE  DoneIsComplete'
  <2> HIDE DEF JobTypeOK, StatusMatches, RowsCounted, CopiedSoFar, DoneIsComplete, Complete, Copies, TableIds
  <2> USE DEF LeaveEffect
  <2>1. LeaveEffect(j)
    BY <1>3, LeaveFacts
  <2>2. DoneAt(j)'
    BY <2>1 DEF StatusMatches, DoneAt
  <2> QED
    BY <2>1, <2>2, SameKeeps, DoneIsAt
<1>4. ASSUME NEW j \in Jobs, Plan(j) PROVE DoneIsComplete'
  <2> HIDE DEF JobTypeOK, StatusMatches, RowsCounted, CopiedSoFar, DoneIsComplete, Complete, Copies, TableIds
  <2> USE DEF PlanEffect
  <2>1. PlanEffect(j)
    BY <1>4, PlanFacts
  <2>2. DoneAt(j)'
    BY <2>1 DEF StatusMatches, DoneAt
  <2> QED
    BY <2>1, <2>2, SameKeeps, DoneIsAt
<1>5. ASSUME NEW j \in Jobs, NextTable(j) PROVE DoneIsComplete'
  <2> HIDE DEF JobTypeOK, StatusMatches, RowsCounted, CopiedSoFar, DoneIsComplete, Complete, Copies, TableIds
  <2> USE DEF NextEffect
  <2>1. NextEffect(j)
    BY <1>5, NextTableFacts
  <2>2. DoneAt(j)'
    BY <2>1 DEF StatusMatches, DoneAt
  <2> QED
    BY <2>1, <2>2, SameKeeps, DoneIsAt
<1>6. ASSUME NEW j \in Jobs, JobFinishes(j) PROVE DoneIsComplete'
  <2> HIDE DEF JobTypeOK, StatusMatches, RowsCounted, CopiedSoFar, DoneIsComplete, Complete, Copies, TableIds
  <2>1. /\ \A i \in Jobs : i # j => JobSame(i)
        /\ UNCHANGED <<mode, tables, checked, counts>> /\ stage[j] = "next" /\ cur[j] = Tables
    BY <1>6 DEF JobFinishes, Settle, Leave, JobTypeOK, JobSame, counts
  <2>2. BehindAt(j) /\ \A t \in TableIds : t < Tables \/ t = Tables
    BY SizesAssumption DEF CopiedSoFar, TableIds
  <2>3. DoneAt(j)'
    BY <2>1, <2>2 DEF BehindAt, DoneAt, Complete, Copies, counts
  <2> QED
    BY <2>1, <2>3, SameKeeps, DoneIsAt
<1>7. ASSUME NEW j \in Jobs, Prepare(j) PROVE DoneIsComplete'
  <2> HIDE DEF JobTypeOK, StatusMatches, RowsCounted, CopiedSoFar, DoneIsComplete, Complete, Copies, TableIds
  <2> USE DEF PrepareEffect
  <2>1. PrepareEffect(j)
    BY <1>7, PrepareFacts
  <2>2. DoneAt(j)'
    BY <2>1 DEF StatusMatches, DoneAt
  <2> QED
    BY <2>1, <2>2, SameKeeps, DoneIsAt
<1>8. ASSUME NEW j \in Jobs, BeginCopy(j) PROVE DoneIsComplete'
  <2> HIDE DEF JobTypeOK, StatusMatches, RowsCounted, CopiedSoFar, DoneIsComplete, Complete, Copies, TableIds
  <2> USE DEF BeginEffect
  <2>1. BeginEffect(j)
    BY <1>8, BeginCopyFacts
  <2>2. DoneAt(j)'
    BY <2>1 DEF StatusMatches, DoneAt
  <2> QED
    BY <2>1, <2>2, SameKeeps, DoneIsAt
<1>9. ASSUME NEW j \in Jobs, ReadRow(j) PROVE DoneIsComplete'
  <2> HIDE DEF JobTypeOK, StatusMatches, RowsCounted, CopiedSoFar, DoneIsComplete, Complete, Copies, TableIds
  <2> USE DEF ReadEffect
  <2>1. ReadEffect(j)
    BY <1>9, ReadRowFacts
  <2>2. DoneAt(j)'
    BY <2>1 DEF StatusMatches, DoneAt
  <2> QED
    BY <2>1, <2>2, SameKeeps, DoneIsAt
<1>10. ASSUME NEW j \in Jobs, Inserted(j) PROVE DoneIsComplete'
  <2> HIDE DEF JobTypeOK, StatusMatches, RowsCounted, CopiedSoFar, DoneIsComplete, Complete, Copies, TableIds
  <2> USE DEF InsertedEffect
  <2>1. InsertedEffect(j)
    BY <1>10, InsertedFacts
  <2>2. DoneAt(j)'
    BY <2>1 DEF StatusMatches, DoneAt
  <2> QED
    BY <2>1, <2>2, SameKeeps, DoneIsAt
<1>11. ASSUME NEW j \in Jobs, TableDone(j) \/ TableVerified(j) PROVE DoneIsComplete'
  <2> HIDE DEF JobTypeOK, StatusMatches, RowsCounted, CopiedSoFar, DoneIsComplete, Complete, Copies, TableIds
  <2> USE DEF TableEffect
  <2>1. TableEffect(j)
    BY <1>11, TableDoneFacts, TableVerifiedFacts
  <2>2. DoneAt(j)'
    BY <2>1 DEF StatusMatches, DoneAt
  <2> QED
    BY <2>1, <2>2, SameKeeps, DoneIsAt
<1>12. ASSUME UNCHANGED vars PROVE DoneIsComplete'
  BY <1>12, SizesAssumption
<1> QED
  BY <1>1, <1>2, <1>3, <1>4, <1>5, <1>6, <1>7, <1>8, <1>9, <1>10, <1>11, <1>12 DEF Next, JobStep, RunStep

-----------------------------------------------------------------------------
(* JobInvariant holds in every reachable state. *)
THEOREM JobInvariantHolds == Spec => []JobInvariant
<1>1. Init => JobInvariant
  <2>1. JobInit => JobTypeOK
    BY SizesAssumption DEF JobInit, JobTypeOK, NoEntry, Stages, Acquiring, TableIds
  <2>2. JobInit => StatusMatches /\ RowsCounted /\ NotYetCopied
    BY SizesAssumption DEF JobInit, StatusMatches, RowsCounted, RowsAt, Copying, NotYetCopied, AheadAt
  <2>3. JobInit => CopiedSoFar /\ ProgressIsTrue /\ DoneIsComplete
    BY SizesAssumption DEF JobInit, CopiedSoFar, BehindAt, ProgressIsTrue, DoneIsComplete, TableIds
  <2> QED
    BY <2>1, <2>2, <2>3 DEF Init, JobInvariant
<1>2. PoolInvariant /\ JobInvariant /\ [Next]_vars => JobInvariant'
  BY JobTypeStep, StatusStep, RowsStep, AheadStep, BehindStep, ProgressStep, DoneStep
  DEF JobInvariant, PoolInvariant
<1> QED
  BY <1>1, <1>2, PoolInvariantBesideJobs, PTL DEF Spec

(* The jobs' state always has its type. *)
THEOREM JobTypeCorrect == Spec => []JobTypeOK
BY JobInvariantHolds, PTL DEF JobInvariant

(* RowsCopied never counts a row that no INSERT has dealt with. *)
THEOREM ProgressCorrect == Spec => []ProgressIsTrue
BY JobInvariantHolds, PTL DEF JobInvariant

(* A job shown as done has copied every table of its plan to the end. *)
THEOREM DoneCorrect == Spec => []DoneIsComplete
BY JobInvariantHolds, PTL DEF JobInvariant

-----------------------------------------------------------------------------
(* What a step does to jobs that have ended or been canceled. *)
WritesOnlyRunning ==
  \A j \in Jobs : status[j] \notin {"none", "running"} =>
    \/ UNCHANGED <<written[j], cut[j]>> /\ stage'[j] \notin {"insert", "lastInsert"}
    \/ stage[j] \in {"insert", "lastInsert"}

EndsStay ==
  \A j \in Jobs : status[j] \in {"done", "failed"} => status'[j] = status[j]

\* Only an INSERT under way writes, and to begin one needs a context that is not done.
LEMMA QuietStep ==
  ASSUME JobTypeOK, StatusMatches, [Next]_vars
  PROVE  WritesOnlyRunning
<1> USE DEF vars, jobVars, progress, counts, JobTypeOK, StatusMatches,
            WritesOnlyRunning
<1>1. ASSUME NEW u \in Requests, RequestStep(u) PROVE WritesOnlyRunning
  BY <1>1 DEF RequestStep
<1>2. ASSUME NEW j \in Jobs, Start(j) PROVE WritesOnlyRunning
  BY <1>2 DEF Start
<1>3. ASSUME NEW j \in Jobs, Cancel(j) PROVE WritesOnlyRunning
  BY <1>3 DEF Cancel
<1>4. ASSUME NEW j \in Jobs, Expire(j) PROVE WritesOnlyRunning
  BY <1>4 DEF Expire
<1>5. ASSUME NEW j \in Jobs, Enter(j) PROVE WritesOnlyRunning
  BY <1>5 DEF Enter
<1>6. ASSUME NEW j \in Jobs, JobAcquire(j) PROVE WritesOnlyRunning
  BY <1>6 DEF JobAcquire
<1>7. ASSUME NEW j \in Jobs, JobAcquireFails(j) PROVE WritesOnlyRunning
  BY <1>7 DEF JobAcquireFails, Settle, Leave
<1>8. ASSUME NEW j \in Jobs, JobTake(j) PROVE WritesOnlyRunning
  BY <1>8 DEF JobTake, NextStage
<1>9. ASSUME NEW j \in Jobs, Plan(j) PROVE WritesOnlyRunning
  BY <1>9 DEF Plan
<1>10. ASSUME NEW j \in Jobs, PlanFails(j) PROVE WritesOnlyRunning
  BY <1>10 DEF PlanFails, Settle, Leave
<1>11. ASSUME NEW j \in Jobs, NextTable(j) PROVE WritesOnlyRunning
  BY <1>11 DEF NextTable
<1>12. ASSUME NEW j \in Jobs, Abandon(j) PROVE WritesOnlyRunning
  BY <1>12 DEF Abandon, Leave
<1>13. ASSUME NEW j \in Jobs, JobFinishes(j) PROVE WritesOnlyRunning
  BY <1>13 DEF JobFinishes, Settle, Leave
<1>14. ASSUME NEW j \in Jobs, Prepare(j) PROVE WritesOnlyRunning
  BY <1>14 DEF Prepare, SetTable
<1>15. ASSUME NEW j \in Jobs, BeginCopy(j) PROVE WritesOnlyRunning
  BY <1>15 DEF BeginCopy, SetTable
<1>16. ASSUME NEW j \in Jobs, ReadRow(j) PROVE WritesOnlyRunning
  BY <1>16 DEF ReadRow
<1>17. ASSUME NEW j \in Jobs, EndOfRows(j) PROVE WritesOnlyRunning
  BY <1>17 DEF EndOfRows
<1>18. ASSUME NEW j \in Jobs, Flush(j) PROVE WritesOnlyRunning
  BY <1>18 DEF Flush, Works
<1>19. ASSUME NEW j \in Jobs, TableDone(j) PROVE WritesOnlyRunning
  BY <1>19 DEF TableDone, SetTable
<1>20. ASSUME NEW j \in Jobs, StatementFails(j) PROVE WritesOnlyRunning
  BY <1>20 DEF StatementFails, Settle, Leave, SetTable
<1>22. ASSUME NEW j \in Jobs, Inserted(j) PROVE WritesOnlyRunning
  BY <1>22 DEF Inserted
<1>23. ASSUME NEW j \in Jobs, InsertFails(j) PROVE WritesOnlyRunning
  BY <1>23 DEF InsertFails, Settle, Leave, SetTable
<1>24. ASSUME NEW j \in Jobs, TableVerified(j) PROVE WritesOnlyRunning
  BY <1>24 DEF TableVerified, Verify
<1>25. ASSUME NEW j \in Jobs, TableDiffers(j) PROVE WritesOnlyRunning
  BY <1>25 DEF TableDiffers, Verify, Settle, Leave, SetTable
<1>21. ASSUME UNCHANGED vars PROVE WritesOnlyRunning
  BY <1>21
<1> QED
  BY <1>1, <1>2, <1>3, <1>4, <1>5, <1>6, <1>7, <1>8, <1>9, <1>10, <1>11, <1>12,
     <1>13, <1>14, <1>15, <1>16, <1>17, <1>18, <1>19, <1>20, <1>21, <1>22, <1>23,
     <1>24, <1>25 DEF Next, JobStep, RunStep

\* Run settles a job once, and Cancel leaves an ended one alone.
LEMMA FinalStep ==
  ASSUME JobTypeOK, StatusMatches, [Next]_vars
  PROVE  EndsStay
<1> USE DEF vars, jobVars, progress, counts, JobTypeOK, StatusMatches, EndsStay
<1>1. ASSUME NEW u \in Requests, RequestStep(u) PROVE EndsStay
  BY <1>1 DEF RequestStep
<1>2. ASSUME NEW j \in Jobs, Start(j) PROVE EndsStay
  BY <1>2 DEF Start
<1>3. ASSUME NEW j \in Jobs, Cancel(j) PROVE EndsStay
  BY <1>3 DEF Cancel
<1>4. ASSUME NEW j \in Jobs, Expire(j) PROVE EndsStay
  BY <1>4 DEF Expire
<1>5. ASSUME NEW j \in Jobs, Enter(j) PROVE EndsStay
  BY <1>5 DEF Enter
<1>6. ASSUME NEW j \in Jobs, JobAcquire(j) PROVE EndsStay
  BY <1>6 DEF JobAcquire
<1>7. ASSUME NEW j \in Jobs, JobAcquireFails(j) PROVE EndsStay
  BY <1>7 DEF JobAcquireFails, Settle, Leave, Acquiring
<1>8. ASSUME NEW j \in Jobs, JobTake(j) PROVE EndsStay
  BY <1>8 DEF JobTake, NextStage
<1>9. ASSUME NEW j \in Jobs, Plan(j) PROVE EndsStay
  BY <1>9 DEF Plan
<1>10. ASSUME NEW j \in Jobs, PlanFails(j) PROVE EndsStay
  BY <1>10 DEF PlanFails, Settle, Leave
<1>11. ASSUME NEW j \in Jobs, NextTable(j) PROVE EndsStay
  BY <1>11 DEF NextTable
<1>12. ASSUME NEW j \in Jobs, Abandon(j) PROVE EndsStay
  BY <1>12 DEF Abandon, Leave
<1>13. ASSUME NEW j \in Jobs, JobFinishes(j) PROVE EndsStay
  BY <1>13 DEF JobFinishes, Settle, Leave
<1>14. ASSUME NEW j \in Jobs, Prepare(j) PROVE EndsStay
  BY <1>14 DEF Prepare, SetTable
<1>15. ASSUME NEW j \in Jobs, BeginCopy(j) PROVE EndsStay
  BY <1>15 DEF BeginCopy, SetTable
<1>16. ASSUME NEW j \in Jobs, ReadRow(j) PROVE EndsStay
  BY <1>16 DEF ReadRow
<1>17. ASSUME NEW j \in Jobs, EndOfRows(j) PROVE EndsStay
  BY <1>17 DEF EndOfRows
<1>18. ASSUME NEW j \in Jobs, Flush(j) PROVE EndsStay
  BY <1>18 DEF Flush
<1>19. ASSUME NEW j \in Jobs, TableDone(j) PROVE EndsStay
  BY <1>19 DEF TableDone, SetTable
<1>20. ASSUME NEW j \in Jobs, StatementFails(j) PROVE EndsStay
  BY <1>20 DEF StatementFails, Settle, Leave, SetTable
<1>22. ASSUME NEW j \in Jobs, Inserted(j) PROVE EndsStay
  BY <1>22 DEF Inserted
<1>23. ASSUME NEW j \in Jobs, InsertFails(j) PROVE EndsStay
  BY <1>23 DEF InsertFails, Settle, Leave, SetTable
<1>24. ASSUME NEW j \in Jobs, TableVerified(j) PROVE EndsStay
  BY <1>24 DEF TableVerified, Verify
<1>25. ASSUME NEW j \in Jobs, TableDiffers(j) PROVE EndsStay
  BY <1>25 DEF TableDiffers, Verify, Settle, Leave, SetTable
<1>21. ASSUME UNCHANGED vars PROVE EndsStay
  BY <1>21
<1> QED
  BY <1>1, <1>2, <1>3, <1>4, <1>5, <1>6, <1>7, <1>8, <1>9, <1>10, <1>11, <1>12,
     <1>13, <1>14, <1>15, <1>16, <1>17, <1>18, <1>19, <1>20, <1>21, <1>22, <1>23,
     <1>24, <1>25 DEF Next, JobStep, RunStep

(* A job that shows as canceled, failed or done begins no INSERT and writes no row
   but those of the one under way. *)
THEOREM SettledIsQuiet == Spec => SettledWritesNothing
<1>1. JobInvariant /\ [Next]_vars
        => [\A j \in Jobs : status[j] \notin {"none", "running"} =>
              \/ UNCHANGED <<written[j], cut[j]>> /\ stage'[j] \notin {"insert", "lastInsert"}
              \/ stage[j] \in {"insert", "lastInsert"}]_vars
  BY QuietStep DEF JobInvariant, WritesOnlyRunning
<1> QED
  BY <1>1, JobInvariantHolds, PTL DEF Spec, SettledWritesNothing

(* No late Cancel changes the status of an ended job. *)
THEOREM EndsAreFinal == Spec => EndIsFinal
<1>1. JobInvariant /\ [Next]_vars
        => [\A j \in Jobs : status[j] \in {"done", "failed"} => status'[j] = status[j]]_vars
  BY FinalStep DEF JobInvariant, EndsStay
<1> QED
  BY <1>1, JobInvariantHolds, PTL DEF Spec, EndIsFinal
=============================================================================
