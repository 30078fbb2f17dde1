---------------------------- MODULE PipelineDefs ----------------------------
(***************************************************************************)
(* The pipeline definitions of the CI/CD engine (internal/cicd/engine.go): *)
(* the handlers that list, read, save, import and delete them, and the     *)
(* first half of Trigger, which copies one for a run.                      *)
(*                                                                         *)
(* Of a definition the model keeps the secret variables of its Env.  A     *)
(* copy of a Pipeline struct shares the array behind Env with the          *)
(* original, so an array is an object of its own here.  Names, stages and  *)
(* cron expressions are left out, as are the calls their checks refuse.    *)
(***************************************************************************)
CONSTANTS
  Ids,     \* pipeline ids
  Arrays,  \* Env arrays; one nobody refers to stands for a new one
  Values,  \* what a user may enter as the secrets of a pipeline
  Mask,    \* "******", not among Values
  Calls,   \* goroutines of Trigger, each with the run it starts
  None

VARIABLES
  pipes,    \* Engine.pipes: the Env array of a pipeline; None: there is none
  content,  \* what an array holds
  disk,     \* pipelines.json
  entered,  \* auxiliary: the secrets a user gave a pipeline last
  at,       \* program counter of a Trigger and its run
  of,       \* its pipeline
  snap,     \* the Env array of its snapshot
  env       \* runtimeCtx.env: the secrets its run works with

calls == <<at, of, snap, env>>
vars == <<pipes, content, disk, entered, calls>>

Init ==
  /\ pipes = [id \in Ids |-> None]
  /\ content = [a \in Arrays |-> None]
  /\ disk = [id \in Ids |-> None]
  /\ entered = [id \in Ids |-> None]
  /\ at = [c \in Calls |-> "idle"]
  /\ of = [c \in Calls |-> None]
  /\ snap = [c \in Calls |-> None]
  /\ env = [c \in Calls |-> None]

Defined == {id \in Ids : pipes[id] # None}
Unused == {a \in Arrays : (\A id \in Ids : pipes[id] # a) /\ (\A c \in Calls : snap[c] # a)}

(* persistPipesLocked writes every definition, as it is in memory. *)
Persist ==
  disk' = [id \in Ids |-> IF pipes'[id] = None THEN None ELSE content'[pipes'[id]]]

-----------------------------------------------------------------------------
(* The definition of id becomes the decoded body of a request, array and all. *)
Replace(id, v) ==
  /\ \E a \in Unused :
       /\ pipes' = [pipes EXCEPT ![id] = a]
       /\ content' = [content EXCEPT ![a] = v]
  /\ entered' = [entered EXCEPT ![id] = v]
  /\ Persist
  /\ UNCHANGED calls

(* SavePipeline, of a new pipeline or of one that is defined; the form sends the
   mask back when that is what it was shown. *)
SavePipeline(id, v) == Replace(id, v)

(* ImportPipeline: new ids only; the text may come from an export, which holds
   the mask. *)
ImportPipeline(id, v) == id \notin Defined /\ Replace(id, v)

(* DeletePipeline refuses while a run of the pipeline is queued or running. *)
DeletePipeline(id) ==
  /\ id \in Defined
  /\ \A c \in Calls : ~(at[c] = "active" /\ of[c] = id)
  /\ pipes' = [pipes EXCEPT ![id] = None]
  /\ entered' = [entered EXCEPT ![id] = None]
  /\ UNCHANGED <<content, calls>>
  /\ Persist

(* ListPipelines: maskPipeline on a copy of every definition writes the mask into
   the array that the copy shares with it.  Nothing is persisted. *)
ListPipelines ==
  /\ content' = [a \in Arrays |-> IF \E id \in Ids : pipes[id] = a THEN Mask ELSE content[a]]
  /\ UNCHANGED <<pipes, disk, entered, calls>>

-----------------------------------------------------------------------------
(* Trigger: under the read lock it looks for an unfinished run and copies the
   definition ... *)
Trigger(c, id) ==
  /\ at[c] = "idle" /\ id \in Defined
  /\ \A d \in Calls : ~(at[d] = "active" /\ of[d] = id)
  /\ at' = [at EXCEPT ![c] = "resolve"]
  /\ of' = [of EXCEPT ![c] = id]
  /\ snap' = [snap EXCEPT ![c] = pipes[id]]
  /\ UNCHANGED <<pipes, content, disk, entered, env>>

(* ... and resolves it without a lock: resolveRuntime copies the variables. *)
ResolveRuntime(c) ==
  /\ at[c] = "resolve"
  /\ at' = [at EXCEPT ![c] = "append"]
  /\ env' = [env EXCEPT ![c] = content[snap[c]]]
  /\ UNCHANGED <<pipes, content, disk, entered, of, snap>>

(* The run joins the history. *)
AppendRun(c) ==
  /\ at[c] = "append"
  /\ at' = [at EXCEPT ![c] = "active"]
  /\ UNCHANGED <<pipes, content, disk, entered, of, snap, env>>

RunEnds(c) ==
  /\ at[c] = "active"
  /\ at' = [at EXCEPT ![c] = "idle"]
  /\ of' = [of EXCEPT ![c] = None]
  /\ snap' = [snap EXCEPT ![c] = None]
  /\ env' = [env EXCEPT ![c] = None]
  /\ UNCHANGED <<pipes, content, disk, entered>>

(* The program restarts: NewEngine reads pipelines.json, and recoverOrphans ends
   every run. *)
Restart ==
  /\ \E f \in [Ids -> Arrays] :
       /\ \A i, j \in Ids : i # j => f[i] # f[j]
       /\ pipes' = [id \in Ids |-> IF disk[id] = None THEN None ELSE f[id]]
       /\ content' = [a \in Arrays |->
            IF \E id \in Ids : f[id] = a THEN disk[CHOOSE id \in Ids : f[id] = a] ELSE None]
  /\ at' = [c \in Calls |-> "idle"]
  /\ of' = [c \in Calls |-> None]
  /\ snap' = [c \in Calls |-> None]
  /\ env' = [c \in Calls |-> None]
  /\ UNCHANGED <<disk, entered>>

Next ==
  \/ \E id \in Ids, v \in Values \cup {Mask} : SavePipeline(id, v) \/ ImportPipeline(id, v)
  \/ \E id \in Ids : DeletePipeline(id)
  \/ ListPipelines \/ Restart
  \/ \E c \in Calls : ResolveRuntime(c) \/ AppendRun(c) \/ RunEnds(c)
  \/ \E c \in Calls, id \in Ids : Trigger(c, id)

Spec == Init /\ [][Next]_vars

-----------------------------------------------------------------------------
(* What GetPipeline returns for editing, and what Trigger hands to a run, are the
   secrets as the user entered them: "GetPipeline 返回单条流水线(编辑用, 不脱敏)",
   unmasked, and the masked one of the list is a copy (maskPipeline). *)
GetIsUnmasked == \A id \in Defined : content[pipes[id]] = entered[id]
=============================================================================
