------------------------------- MODULE DbSync -------------------------------
(***************************************************************************)
(* Synchronisation jobs (internal/dbmanager/sync: jobs.go, executor.go,    *)
(* pool.go) beside the other requests of the database manager.  A job is a *)
(* goroutine that takes its two databases from the pool of DbPool and      *)
(* copies tables from one to the other; it counts on them without holding  *)
(* them, so that an eviction or an edit closes them under it.              *)
(*                                                                         *)
(* Rows are counted.  An INSERT goes out and comes back in two steps, so   *)
(* that a Cancel, the deadline or a lost connection may meet it on its     *)
(* way; any other statement is one step, which may fail, and fails when    *)
(* its database is closed or the job's context is done.                    *)
(***************************************************************************)
EXTENDS DbPool

CONSTANTS
  Requests,   \* goroutines of other requests
  Jobs,       \* job goroutines
  Source, Target,  \* SyncRequest.SourceID, TargetID
  Tables,     \* number of tables of the plan
  Modes,      \* the modes jobs are started with
  SourceRows, \* bound: rows of a source table
  MaxRows,    \* SyncOptions.MaxRows; 0: no limit
  BatchRows   \* SyncOptions.BatchRows

ASSUME UsersAssumption == Users = Requests \cup Jobs /\ Requests \cap Jobs = {}
ASSUME ConnAssumption == Source \in Conns /\ Target \in Conns \ {Source}
ASSUME ModesAssumption == Modes \subseteq {"schema", "full", "truncate", "incr", "verify"}
ASSUME SizesAssumption ==
  Tables \in Nat /\ SourceRows \in Nat /\ MaxRows \in Nat /\ BatchRows \in Nat \ {0}

TableIds == 1..Tables

VARIABLES
  status,    \* Job.Status; "none" before Start
  mode,      \* Job.Request.Mode
  stage,     \* program counter of Run
  done,      \* the job's context: "no", "canceled", "expired"; "unset" before Run
  src, dst,  \* srcDB and dstDB of Run
  tables,    \* Job.Tables: the status of the entry of each table
  shown,     \* Job.Tables: RowsCopied
  checked,   \* Job.Tables: the entry that verify appends for each table
  cur,       \* the table Run is at
  read,      \* batchWriter.count
  batch,     \* len(batchWriter.rows)
  rows,      \* auxiliary: rows the SELECT on a source table returns
  written,   \* auxiliary: rows the job has inserted into a target table
  cut        \* auxiliary: rows left out of an INSERT that was too long

counts == <<rows, written, cut>>
progress == <<tables, shown, checked, cur, read, batch, counts>>
jobVars == <<status, mode, stage, done, src, dst, progress>>
vars == <<poolVars, jobVars>>

NoEntry == [status |-> "none", rows |-> 0]

JobInit ==
  /\ status = [j \in Jobs |-> "none"]
  /\ mode \in [Jobs -> Modes]
  /\ stage = [j \in Jobs |-> "none"]
  /\ done = [j \in Jobs |-> "unset"]
  /\ src = [j \in Jobs |-> None]
  /\ dst = [j \in Jobs |-> None]
  /\ tables = [j \in Jobs |-> [t \in TableIds |-> "none"]]
  /\ shown = [j \in Jobs |-> [t \in TableIds |-> 0]]
  /\ checked = [j \in Jobs |-> [t \in TableIds |-> NoEntry]]
  /\ cur = [j \in Jobs |-> 0]
  /\ read = [j \in Jobs |-> 0]
  /\ batch = [j \in Jobs |-> 0]
  /\ rows = [j \in Jobs |-> [t \in TableIds |-> 0]]
  /\ written = [j \in Jobs |-> [t \in TableIds |-> 0]]
  /\ cut = [j \in Jobs |-> [t \in TableIds |-> 0]]

Init == PoolInit /\ JobInit

Copies(j) == mode[j] \in {"full", "truncate", "incr"}

(* Run has its context and has not returned. *)
InRun(j) == stage[j] \notin {"none", "started", "returned"}

(* A statement on database d of connection c goes through. *)
Works(j, d, c) == of[d] = c /\ done[j] = "no"

SetTable(j, t, s) == tables' = [tables EXCEPT ![j][t] = s]

-----------------------------------------------------------------------------
(* The job's life: Start, Run's own context, Cancel, fail and finish. *)

(* Start registers the job as running and starts its goroutine. *)
Start(j) ==
  /\ stage[j] = "none"
  /\ status' = [status EXCEPT ![j] = "running"]
  /\ stage' = [stage EXCEPT ![j] = "started"]
  /\ UNCHANGED <<poolVars, mode, done, src, dst, progress>>

(* Run's first line: only from here on can the job be cancelled. *)
Enter(j) ==
  /\ stage[j] = "started"
  /\ stage' = [stage EXCEPT ![j] = "source"]
  /\ done' = [done EXCEPT ![j] = "no"]
  /\ UNCHANGED <<poolVars, status, mode, src, dst, progress>>

(* Mutant of Cancel: of an ended job. *)
CancelEnded(j) ==
  /\ done[j] # "unset"
  /\ done' = [done EXCEPT ![j] = IF @ = "no" THEN "canceled" ELSE @]
  /\ status' = [status EXCEPT ![j] = "canceled"]
  /\ UNCHANGED <<poolVars, mode, stage, src, dst, progress>>

(* JobRegistry.Cancel. *)
Cancel(j) ==
  /\ status[j] = "running" /\ done[j] # "unset"
  /\ done' = [done EXCEPT ![j] = IF @ = "no" THEN "canceled" ELSE @]
  /\ status' = [status EXCEPT ![j] = "canceled"]
  /\ UNCHANGED <<poolVars, mode, stage, src, dst, progress>>

(* The six hours of defaultStreamTimeout are over. *)
Expire(j) ==
  /\ InRun(j) /\ done[j] = "no"
  /\ done' = [done EXCEPT ![j] = "expired"]
  /\ UNCHANGED <<poolVars, status, mode, stage, src, dst, progress>>

(* Run returns, and with it go its variables. *)
Leave(j) ==
  /\ stage' = [stage EXCEPT ![j] = "returned"]
  /\ src' = [src EXCEPT ![j] = None]
  /\ dst' = [dst EXCEPT ![j] = None]
  /\ cur' = [cur EXCEPT ![j] = 0]
  /\ read' = [read EXCEPT ![j] = 0]
  /\ batch' = [batch EXCEPT ![j] = 0]
  /\ UNCHANGED <<mode, done, shown, rows, cut>>

(* fail, or finish, whatever the status was. *)
Settle(j, s) ==
  /\ status' = [status EXCEPT ![j] = s]
  /\ Leave(j)

-----------------------------------------------------------------------------
(* Acquiring the databases: source and target for Run, and again for
   BuildPlan. *)

Acquiring == {"source", "target", "planSource", "planTarget"}
Wanted(j) == IF stage[j] \in {"source", "planSource"} THEN Source ELSE Target
NextStage(j) ==
  CASE stage[j] = "source"     -> "target"
    [] stage[j] = "target"     -> "planSource"
    [] stage[j] = "planSource" -> "planTarget"
    [] OTHER                   -> "plan"

(* A new database: none that a job counts on, open or not. *)
Held == {src[j] : j \in Jobs} \cup {dst[j] : j \in Jobs}
OpenNew(u) ==
  /\ New \ Held # {}
  /\ Open(u, CHOOSE d \in New \ Held : TRUE)

JobAcquire(j) ==
  /\ stage[j] \in Acquiring
  /\ Hit(j, Wanted(j)) \/ Miss(j, Wanted(j)) \/ OpenNew(j) \/ InsertLoses(j) \/ Insert(j)
  /\ UNCHANGED jobVars

JobAcquireFails(j) ==
  /\ stage[j] \in Acquiring
  /\ OpenFails(j)
  /\ Settle(j, "failed") /\ UNCHANGED <<tables, checked, written>>

(* Run keeps the two it acquired itself. *)
JobTake(j) ==
  /\ stage[j] \in Acquiring
  /\ src' = IF stage[j] = "source" THEN [src EXCEPT ![j] = have[j]] ELSE src
  /\ dst' = IF stage[j] = "target" THEN [dst EXCEPT ![j] = have[j]] ELSE dst
  /\ stage' = [stage EXCEPT ![j] = NextStage(j)]
  /\ Finish(j)
  /\ UNCHANGED <<status, mode, done, progress>>

(* The rest of BuildPlan, which lists the source's tables and may skip some,
   and the job's first table entries. *)
Plan(j) ==
  /\ stage[j] = "plan"
  /\ \E skipped \in SUBSET TableIds :
       tables' = [tables EXCEPT ![j] =
                    [t \in TableIds |-> IF t \in skipped THEN "skipped" ELSE "pending"]]
  /\ stage' = [stage EXCEPT ![j] = "next"]
  /\ UNCHANGED <<poolVars, status, mode, done, src, dst, shown, checked, cur, read, batch, counts>>

(* Unsupported engines, or the source's tables cannot be listed. *)
PlanFails(j) ==
  /\ stage[j] = "plan"
  /\ Settle(j, "failed") /\ UNCHANGED <<poolVars, tables, checked, written>>

-----------------------------------------------------------------------------
(* The loop over the tables. *)

(* Its head: skip a table, or begin it. *)
NextTable(j) ==
  LET t == cur[j] + 1 IN
  /\ stage[j] = "next" /\ t \in TableIds
  /\ tables[j][t] = "skipped" \/ done[j] = "no"
  /\ cur' = [cur EXCEPT ![j] = t]
  /\ stage' = [stage EXCEPT ![j] = IF tables[j][t] = "skipped" THEN "next" ELSE "prepare"]
  /\ UNCHANGED <<poolVars, status, mode, done, src, dst, tables, shown, checked, read, batch,
                 counts>>

(* The context is done: Run returns and leaves the status as it is. *)
Abandon(j) ==
  /\ stage[j] = "next" /\ cur[j] + 1 \in TableIds
  /\ tables[j][cur[j] + 1] # "skipped" /\ done[j] # "no"
  /\ Leave(j)
  /\ UNCHANGED <<poolVars, status, tables, checked, written>>

JobFinishes(j) ==
  /\ stage[j] = "next" /\ cur[j] = Tables
  /\ Settle(j, "done") /\ UNCHANGED <<poolVars, tables, checked, written>>

(* A full copy shows the table as being created. *)
Prepare(j) ==
  /\ stage[j] = "prepare"
  /\ IF mode[j] \in {"full", "truncate"} THEN SetTable(j, cur[j], "creating")
                                         ELSE UNCHANGED tables
  /\ stage' = [stage EXCEPT ![j] = "statements"]
  /\ UNCHANGED <<poolVars, status, mode, done, src, dst, shown, checked, cur, read, batch, counts>>

(* The statements before the copy: CREATE, TRUNCATE, or the watermark.  Then
   the copy's SELECT. *)
BeginCopy(j) ==
  /\ stage[j] = "statements" /\ Copies(j)
  /\ Works(j, dst[j], Target) /\ Works(j, src[j], Source)
  /\ SetTable(j, cur[j], "copying")
  /\ \E n \in 0..SourceRows : rows' = [rows EXCEPT ![j][cur[j]] = n]
  /\ stage' = [stage EXCEPT ![j] = "copy"]
  /\ UNCHANGED <<poolVars, status, mode, done, src, dst, shown, checked, cur, read, batch, written, cut>>

(* onRow stops the stream at MaxRows. *)
Full(j) == MaxRows > 0 /\ read[j] >= MaxRows

(* onRow: the row joins the batch.  The rows of a SELECT that has begun may go on
   arriving when its database is closed or the context done. *)
ReadRow(j) ==
  /\ stage[j] = "copy" /\ read[j] < rows[j][cur[j]]
  /\ ~Full(j)
  /\ read' = [read EXCEPT ![j] = @ + 1]
  /\ batch' = [batch EXCEPT ![j] = @ + 1]
  /\ stage' = [stage EXCEPT ![j] = IF batch[j] + 1 >= BatchRows THEN "flush" ELSE "copy"]
  /\ UNCHANGED <<poolVars, status, mode, done, src, dst, tables, shown, checked, cur, counts>>

(* Mutant of EndOfRows: without the flush of the last batch. *)
EndOfRowsUnflushed(j) ==
  /\ stage[j] = "copy"
  /\ read[j] = rows[j][cur[j]] \/ Full(j)
  /\ batch' = [batch EXCEPT ![j] = 0]
  /\ stage' = [stage EXCEPT ![j] = "lastFlush"]
  /\ UNCHANGED <<poolVars, status, mode, done, src, dst, tables, shown, checked, cur, read, counts>>

(* The end of the stream: what is left in the batch is flushed. *)
EndOfRows(j) ==
  /\ stage[j] = "copy"
  /\ read[j] = rows[j][cur[j]] \/ Full(j)
  /\ stage' = [stage EXCEPT ![j] = "lastFlush"]
  /\ UNCHANGED <<poolVars, status, mode, done, src, dst, progress>>

(* Mutant of Flush: whatever has become of the context. *)
FlushUnchecked(j) ==
  /\ stage[j] \in {"flush", "lastFlush"} /\ batch[j] > 0
  /\ stage' = [stage EXCEPT ![j] = IF @ = "flush" THEN "insert" ELSE "lastInsert"]
  /\ UNCHANGED <<poolVars, status, mode, done, src, dst, progress>>

(* flush: the INSERT with the batch goes out, if there is a batch. *)
Flush(j) ==
  /\ stage[j] \in {"flush", "lastFlush"} /\ batch[j] > 0
  /\ Works(j, dst[j], Target)
  /\ stage' = [stage EXCEPT ![j] = IF @ = "flush" THEN "insert" ELSE "lastInsert"]
  /\ UNCHANGED <<poolVars, status, mode, done, src, dst, progress>>

(* Mutant of Inserted: the batch is not emptied. *)
InsertedKeepsBatch(j) ==
  LET t == cur[j] IN
  /\ stage[j] \in {"insert", "lastInsert"}
  /\ \E n \in 1..batch[j] :
       /\ written' = [written EXCEPT ![j][t] = @ + n]
       /\ cut' = [cut EXCEPT ![j][t] = @ + batch[j] - n]
  /\ shown' = [shown EXCEPT ![j][t] = read[j]]
  /\ stage' = [stage EXCEPT ![j] = IF @ = "insert" THEN "copy" ELSE "lastFlush"]
  /\ UNCHANGED <<poolVars, status, mode, done, src, dst, tables, checked, cur, read, batch, rows>>

(* The INSERT has written the first n rows of the batch, those up to the first
   past maxBatchSQLBytes (buildInsertSQL); then the progress is shown. *)
Inserted(j) ==
  LET t == cur[j] IN
  /\ stage[j] \in {"insert", "lastInsert"}
  /\ \E n \in 1..batch[j] :
       /\ written' = [written EXCEPT ![j][t] = @ + n]
       /\ cut' = [cut EXCEPT ![j][t] = @ + batch[j] - n]
  /\ shown' = [shown EXCEPT ![j][t] = read[j]]
  /\ batch' = [batch EXCEPT ![j] = 0]
  /\ stage' = [stage EXCEPT ![j] = IF @ = "insert" THEN "copy" ELSE "lastFlush"]
  /\ UNCHANGED <<poolVars, status, mode, done, src, dst, tables, checked, cur, read, rows>>

(* Mutant of InsertFails: Run goes on with the next batch. *)
InsertFailsGoesOn(j) ==
  /\ stage[j] \in {"insert", "lastInsert"}
  /\ \E n \in 0..batch[j] : written' = [written EXCEPT ![j][cur[j]] = @ + n]
  /\ batch' = [batch EXCEPT ![j] = 0]
  /\ stage' = [stage EXCEPT ![j] = IF @ = "insert" THEN "copy" ELSE "lastFlush"]
  /\ UNCHANGED <<poolVars, status, mode, done, src, dst, tables, shown, checked, cur,
                 read, rows, cut>>

(* The INSERT returns an error: the target refused it, or the context was done or
   the connection lost when some or all of its rows were already written. *)
InsertFails(j) ==
  /\ stage[j] \in {"insert", "lastInsert"}
  /\ \E n \in 0..batch[j] : written' = [written EXCEPT ![j][cur[j]] = @ + n]
  /\ SetTable(j, cur[j], "failed")
  /\ Settle(j, "failed")
  /\ UNCHANGED <<poolVars, checked>>

(* The table is copied, or only its structure. *)
TableDone(j) ==
  /\ \/ stage[j] = "lastFlush" /\ batch[j] = 0
     \/ stage[j] = "statements" /\ mode[j] = "schema" /\ Works(j, dst[j], Target)
  /\ SetTable(j, cur[j], "done")
  /\ read' = [read EXCEPT ![j] = 0]
  /\ stage' = [stage EXCEPT ![j] = "next"]
  /\ UNCHANGED <<poolVars, status, mode, done, src, dst, shown, checked, cur, batch, counts>>

(* execVerify counts the rows of both tables and appends an entry of its own that
   shows the target's count; the entry of the plan stays pending ... *)
Verify(j, srcN, dstN) ==
  /\ stage[j] = "statements" /\ mode[j] = "verify"
  /\ Works(j, src[j], Source) /\ Works(j, dst[j], Target)
  /\ checked' = [checked EXCEPT ![j][cur[j]] =
                   [status |-> IF srcN = dstN THEN "done" ELSE "failed", rows |-> dstN]]

TableVerified(j) ==
  /\ \E n \in 0..SourceRows : Verify(j, n, n)
  /\ stage' = [stage EXCEPT ![j] = "next"]
  /\ UNCHANGED <<poolVars, status, mode, done, src, dst, tables, shown, cur, read, batch, counts>>

(* ... or becomes failed, as the job does. *)
TableDiffers(j) ==
  /\ \E srcN, dstN \in 0..SourceRows : srcN # dstN /\ Verify(j, srcN, dstN)
  /\ SetTable(j, cur[j], "failed")
  /\ Settle(j, "failed")
  /\ UNCHANGED <<poolVars, written>>

(* Mutant of StatementFails: without fail. *)
StatementFailsSilently(j) ==
  /\ stage[j] \in {"statements", "copy", "flush", "lastFlush"}
  /\ SetTable(j, cur[j], "failed")
  /\ Leave(j)
  /\ UNCHANGED <<poolVars, status, checked, written>>

(* Another statement fails, or an INSERT before it goes out. *)
StatementFails(j) ==
  /\ stage[j] \in {"statements", "copy", "flush", "lastFlush"}
  /\ SetTable(j, cur[j], "failed")
  /\ Settle(j, "failed")
  /\ UNCHANGED <<poolVars, checked, written>>

-----------------------------------------------------------------------------
RunStep(j) ==
  \/ Enter(j) \/ JobAcquire(j) \/ JobAcquireFails(j) \/ JobTake(j)
  \/ Plan(j) \/ PlanFails(j) \/ NextTable(j) \/ Abandon(j) \/ JobFinishes(j)
  \/ Prepare(j) \/ BeginCopy(j) \/ ReadRow(j) \/ EndOfRows(j)
  \/ Flush(j) \/ Inserted(j) \/ InsertFails(j)
  \/ TableDone(j) \/ TableVerified(j) \/ TableDiffers(j) \/ StatementFails(j)

JobStep(j) == Start(j) \/ Cancel(j) \/ Expire(j) \/ RunStep(j)

RequestStep(u) ==
  /\ \/ \E c \in Conns : Hit(u, c) \/ Miss(u, c)
     \/ OpenNew(u) \/ OpenFails(u) \/ InsertLoses(u) \/ Insert(u)
     \/ Finish(u) \/ Edit(u)
  /\ UNCHANGED jobVars

Next == (\E u \in Requests : RequestStep(u)) \/ (\E j \in Jobs : JobStep(j))

Spec == Init /\ [][Next]_vars

(* A job's goroutine goes on: its statements end, at the latest with the
   context. *)
LiveSpec == Spec /\ \A j \in Jobs : WF_vars(RunStep(j))

-----------------------------------------------------------------------------
(* Types. *)
Stages == Acquiring \cup {"none", "started", "plan", "next", "prepare", "statements", "copy",
                          "flush", "insert", "lastFlush", "lastInsert", "returned"}
JobTypeOK ==
  /\ status \in [Jobs -> {"none", "running", "done", "failed", "canceled"}]
  /\ mode \in [Jobs -> Modes]
  /\ done \in [Jobs -> {"unset", "no", "canceled", "expired"}]
  /\ stage \in [Jobs -> Stages]
  /\ src \in [Jobs -> Dbs \cup {None}] /\ dst \in [Jobs -> Dbs \cup {None}]
  /\ tables \in [Jobs -> [TableIds -> {"none", "pending", "skipped", "creating",
                                       "copying", "done", "failed"}]]
  /\ checked \in [Jobs -> [TableIds -> [status : {"none", "done", "failed"},
                                        rows : 0..SourceRows]]]
  /\ cur \in [Jobs -> 0..Tables]
  /\ read \in [Jobs -> 0..SourceRows] /\ batch \in [Jobs -> 0..BatchRows]
  /\ \A f \in {shown, rows, written, cut} : f \in [Jobs -> [TableIds -> 0..SourceRows]]

(* The RowsCopied of a table counts the rows that INSERTs have written, and those
   that an INSERT has silently left out; never rows still in the batch.  What an
   INSERT wrote that returned an error is not counted: at most one batch, the last
   of a table shown as failed in a job shown as failed. *)
ProgressIsTrue ==
  \A j \in Jobs : \A t \in TableIds :
    LET dealt == written[j][t] + cut[j][t] IN
    /\ shown[j][t] <= dealt /\ dealt <= shown[j][t] + BatchRows
    /\ shown[j][t] # dealt => tables[j][t] = "failed" /\ status[j] = "failed"

(* A job that ends as done has copied every row of every table its plan did not
   skip, up to MaxRows, except the rows an INSERT has left out; or it has created
   every such table, or found it to have as many rows as the source's. *)
Due(n) == IF MaxRows > 0 /\ n > MaxRows THEN MaxRows ELSE n
Complete(j, t) ==
  \/ tables[j][t] = "skipped"
  \/ mode[j] = "verify" /\ checked[j][t].status = "done"
  \/ /\ tables[j][t] = "done"
     /\ Copies(j) => written[j][t] + cut[j][t] = Due(rows[j][t])
DoneIsComplete ==
  \A j \in Jobs : status[j] = "done" => \A t \in TableIds : Complete(j, t)

(* Once a job shows as canceled, failed or done it begins no INSERT, since Cancel
   reaches the context of every statement and Run does nothing after fail and
   finish; it writes no row except those of the INSERT that was under way. *)
SettledWritesNothing ==
  [][\A j \in Jobs : status[j] \notin {"none", "running"} =>
       \/ UNCHANGED <<written[j], cut[j]>> /\ stage'[j] \notin {"insert", "lastInsert"}
       \/ stage[j] \in {"insert", "lastInsert"}]_vars

(* A job that ended as done or failed stays so: a late Cancel changes nothing. *)
EndIsFinal ==
  [][\A j \in Jobs : status[j] \in {"done", "failed"} => status'[j] = status[j]]_vars

(* A running job ends, except that one whose six hours are over may show as
   running for ever (Run returns without fail). *)
JobSettles ==
  \A j \in Jobs : status[j] = "running" ~> (status[j] # "running" \/ done[j] = "expired")
=============================================================================
