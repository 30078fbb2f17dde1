------------------------- MODULE PipelineDefs_proofs ------------------------
(***************************************************************************)
(* What PipelineDefs keeps of the secrets of a pipeline for every number   *)
(* of pipelines, arrays and triggers, although a copy of a definition      *)
(* shares its array: no definition, file or run ever gets the secrets of   *)
(* another pipeline or an older version, and but for the mask that a list  *)
(* leaves behind, they are what was entered last.                          *)
(***************************************************************************)
EXTENDS PipelineDefs, TLAPS

(* "No array" and "no secrets" are neither an array nor secrets. *)
NoneApart == None \notin Arrays /\ None \notin Values \cup {Mask}

Secrets == Values \cup {Mask}

DefsTypeOK ==
  /\ pipes \in [Ids -> Arrays \cup {None}]
  /\ content \in [Arrays -> Secrets \cup {None}]
  /\ disk \in [Ids -> Secrets \cup {None}]
  /\ entered \in [Ids -> Secrets \cup {None}]
  /\ at \in [Calls -> {"idle", "resolve", "append", "active"}]
  /\ of \in [Calls -> Ids \cup {None}]
  /\ snap \in [Calls -> Arrays \cup {None}]
  /\ env \in [Calls -> Secrets \cup {None}]

(* No two definitions share an array. *)
OwnArray == \A i, j \in Defined : pipes[i] = pipes[j] => i = j

(* A definition holds what was entered for it last or the mask, and so does its
   place in pipelines.json, which holds nothing else. *)
EnteredOrMask(id, v) == v \in Secrets /\ v \in {entered[id], Mask}
HeldAt(id) ==
  IF id \in Defined THEN EnteredOrMask(id, content[pipes[id]]) /\ EnteredOrMask(id, disk[id])
                    ELSE disk[id] = None /\ entered[id] = None
DefinitionsHeld == \A id \in Ids : HeldAt(id)

(* A trigger between its two sections has an array, and it holds secrets. *)
SnapshotHeld ==
  \A c \in Calls : at[c] = "resolve" => snap[c] \in Arrays /\ content[snap[c]] \in Secrets

DefsInvariant == DefsTypeOK /\ OwnArray /\ DefinitionsHeld /\ SnapshotHeld

-----------------------------------------------------------------------------
(* The actions that give definitions an array. *)

\* A save or an import gives one pipeline an array of its own, with what was
\* entered, on disk as well; the others, their arrays and the snapshots stay.
LEMMA ReplaceEffect ==
  ASSUME NoneApart, DefsTypeOK, NEW id \in Ids, NEW v \in Secrets, Replace(id, v)
  PROVE  \E a \in Unused :
           /\ a \in Arrays /\ pipes' = [pipes EXCEPT ![id] = a]
           /\ content' = [content EXCEPT ![a] = v]
           /\ entered' = [entered EXCEPT ![id] = v]
           /\ disk'[id] = v
           /\ \A i \in Ids : i # id =>
                disk'[i] = IF pipes[i] = None THEN None ELSE content[pipes[i]]
           /\ Defined' = Defined \cup {id}
           /\ UNCHANGED calls
<1>1. PICK a \in Unused : /\ pipes' = [pipes EXCEPT ![id] = a]
                          /\ content' = [content EXCEPT ![a] = v]
  BY DEF Replace
<1>2. a \in Arrays /\ a # None /\ \A i \in Ids : pipes[i] # a
  BY <1>1 DEF Unused, NoneApart
<1>3. pipes'[id] = a /\ content'[a] = v /\ \A i \in Ids : i # id => pipes'[i] = pipes[i]
  BY <1>1, <1>2 DEF DefsTypeOK
<1>4. \A i \in Ids : disk'[i] = IF pipes'[i] = None THEN None ELSE content'[pipes'[i]]
  BY DEF Replace, Persist
<1>5. disk'[id] = v
  BY <1>2, <1>3, <1>4
<1>6. \A i \in Ids : i # id => disk'[i] = IF pipes[i] = None THEN None ELSE content[pipes[i]]
  <2>1. ASSUME NEW i \in Ids, i # id, pipes[i] # None PROVE content'[pipes[i]] = content[pipes[i]]
    BY <1>1, <1>2, <2>1 DEF DefsTypeOK
  <2> QED
    BY <1>3, <1>4, <2>1
<1>7. Defined' = Defined \cup {id}
  BY <1>2, <1>3 DEF Defined
<1> QED
  BY <1>1, <1>2, <1>5, <1>6, <1>7 DEF Replace

\* A restart gives every pipeline on disk an array with what the disk holds.
LEMMA RestartEffect ==
  ASSUME NoneApart, DefsTypeOK, Restart
  PROVE  /\ content' \in [Arrays -> Secrets \cup {None}]
         /\ pipes' \in [Ids -> Arrays \cup {None}]
         /\ Defined' = {id \in Ids : disk[id] # None}
         /\ \A id \in Defined' : content'[pipes'[id]] = disk[id]
         /\ \A i, j \in Defined' : pipes'[i] = pipes'[j] => i = j
         /\ UNCHANGED <<disk, entered>>
<1>1. PICK f \in [Ids -> Arrays] :
        /\ \A i, j \in Ids : i # j => f[i] # f[j]
        /\ pipes' = [id \in Ids |-> IF disk[id] = None THEN None ELSE f[id]]
        /\ content' = [a \in Arrays |->
             IF \E id \in Ids : f[id] = a THEN disk[CHOOSE id \in Ids : f[id] = a] ELSE None]
  BY DEF Restart
<1>2. \A id \in Ids : (CHOOSE i \in Ids : f[i] = f[id]) = id
  BY <1>1
<1>3. \A id \in Ids : f[id] \in Arrays /\ content'[f[id]] = disk[id]
  BY <1>1, <1>2
<1>4. \A a \in Arrays : content'[a] \in Secrets \cup {None}
  <2> SUFFICES ASSUME NEW a \in Arrays PROVE content'[a] \in Secrets \cup {None}
    OBVIOUS
  <2>1. CASE \E id \in Ids : f[id] = a
    BY <1>3, <2>1 DEF DefsTypeOK
  <2>2. CASE ~ \E id \in Ids : f[id] = a
    BY <1>1, <2>2
  <2> QED
    BY <2>1, <2>2
<1>5. /\ content' \in [Arrays -> Secrets \cup {None}]
      /\ pipes' \in [Ids -> Arrays \cup {None}]
  BY <1>1, <1>4
<1>6. Defined' = {id \in Ids : disk[id] # None}
  BY <1>1, <1>3 DEF Defined, NoneApart
<1>7. \A id \in Defined' : id \in Ids /\ pipes'[id] = f[id]
  BY <1>1, <1>6
<1>8. \A id \in Defined' : content'[pipes'[id]] = disk[id]
  BY <1>3, <1>7
<1>9. \A i, j \in Defined' : pipes'[i] = pipes'[j] => i = j
  BY <1>1, <1>7
<1>10. UNCHANGED <<disk, entered>>
  BY DEF Restart
<1> QED
  BY <1>5, <1>6, <1>8, <1>9, <1>10

-----------------------------------------------------------------------------
(* The invariant. *)

\* At first nothing is defined.
LEMMA InitDefs == Init => DefsInvariant
<1> SUFFICES ASSUME Init PROVE DefsInvariant
  OBVIOUS
<1> USE DEF Init
<1>1. DefsTypeOK
  BY DEF DefsTypeOK
<1>2. Defined = {}
  BY DEF Defined
<1> QED
  BY <1>1, <1>2 DEF DefsInvariant, OwnArray, DefinitionsHeld, HeldAt, SnapshotHeld

\* A save or an import keeps the invariant.
LEMMA ReplaceStep ==
  ASSUME NoneApart, DefsInvariant, NEW id \in Ids, NEW v \in Secrets, Replace(id, v)
  PROVE  DefsInvariant'
<1> USE DEF DefsInvariant
<1>1. PICK a \in Unused :
        /\ a \in Arrays /\ pipes' = [pipes EXCEPT ![id] = a]
        /\ content' = [content EXCEPT ![a] = v]
        /\ entered' = [entered EXCEPT ![id] = v]
        /\ disk'[id] = v
        /\ \A i \in Ids : i # id =>
             disk'[i] = IF pipes[i] = None THEN None ELSE content[pipes[i]]
        /\ Defined' = Defined \cup {id}
        /\ UNCHANGED calls
  BY ReplaceEffect
<1>2. (\A i \in Ids : pipes[i] # a) /\ (\A c \in Calls : snap[c] # a)
  BY <1>1 DEF Unused
<1>3. Defined \subseteq Ids /\ \A i \in Defined : pipes[i] \in Arrays /\ pipes[i] # None
  BY DEF Defined, DefsTypeOK
<1>4. DefsTypeOK'
  <2>1. disk' = [i \in Ids |-> disk'[i]]
    BY DEF Replace, Persist
  <2>2. \A i \in Ids : disk'[i] \in Secrets \cup {None}
    BY <1>1 DEF DefsTypeOK
  <2>3. disk' \in [Ids -> Secrets \cup {None}]
    BY <2>1, <2>2
  <2> QED
    BY <1>1, <2>3 DEF DefsTypeOK, calls
<1>5. OwnArray'
  BY <1>1, <1>2, <1>3 DEF OwnArray, DefsTypeOK
<1>6. ASSUME NEW i \in Ids PROVE HeldAt(i)'
  <2>1. CASE i = id
    <3>1. pipes'[i] = a /\ content'[a] = v /\ entered'[i] = v /\ disk'[i] = v /\ i \in Defined'
      BY <1>1, <2>1 DEF DefsTypeOK
    <3> QED
      BY <3>1 DEF HeldAt, EnteredOrMask
  <2>2. CASE i # id /\ i \in Defined
    <3>1. /\ pipes'[i] = pipes[i] /\ content'[pipes[i]] = content[pipes[i]]
          /\ entered'[i] = entered[i] /\ disk'[i] = content[pipes[i]] /\ i \in Defined'
      BY <1>1, <1>2, <1>3, <2>2 DEF DefsTypeOK
    <3>2. EnteredOrMask(i, content[pipes[i]])
      BY <2>2 DEF DefinitionsHeld, HeldAt
    <3> QED
      BY <3>1, <3>2 DEF HeldAt, EnteredOrMask
  <2>3. CASE i # id /\ i \notin Defined
    <3>1. pipes[i] = None /\ i \notin Defined' /\ entered'[i] = entered[i] /\ disk'[i] = None
      BY <1>1, <2>3 DEF Defined, DefsTypeOK
    <3> QED
      BY <2>3, <3>1 DEF DefinitionsHeld, HeldAt
  <2> QED
    BY <2>1, <2>2, <2>3
<1>7. SnapshotHeld'
  BY <1>1, <1>2 DEF SnapshotHeld, calls, DefsTypeOK
<1> QED
  BY <1>4, <1>5, <1>6, <1>7 DEF DefinitionsHeld

\* So does a deletion ...
LEMMA DeleteStep ==
  ASSUME NoneApart, DefsInvariant, NEW id \in Ids, DeletePipeline(id)
  PROVE  DefsInvariant'
<1> USE DEF DefsInvariant
<1>1. /\ pipes' = [pipes EXCEPT ![id] = None] /\ entered' = [entered EXCEPT ![id] = None]
      /\ UNCHANGED <<content, at, of, snap, env>>
  BY DEF DeletePipeline, calls
<1>2. \A i \in Ids : disk'[i] = IF pipes'[i] = None THEN None ELSE content[pipes'[i]]
  BY <1>1 DEF DeletePipeline, Persist
<1>3. pipes'[id] = None /\ \A i \in Ids : i # id => pipes'[i] = pipes[i]
  BY <1>1 DEF DefsTypeOK
<1>4. Defined' = Defined \ {id}
  BY <1>3 DEF Defined
<1>5. DefsTypeOK'
  <2>1. disk' = [i \in Ids |-> disk'[i]]
    BY DEF DeletePipeline, Persist
  <2>2. \A i \in Ids : disk'[i] \in Secrets \cup {None}
    BY <1>2, <1>3 DEF DefsTypeOK
  <2>3. disk' \in [Ids -> Secrets \cup {None}]
    BY <2>1, <2>2
  <2> QED
    BY <1>1, <2>3 DEF DefsTypeOK
<1>6. OwnArray'
  BY <1>3, <1>4 DEF OwnArray, Defined
<1>7. ASSUME NEW i \in Ids PROVE HeldAt(i)'
  <2>1. CASE i = id
    <3>1. disk'[i] = None /\ entered'[i] = None /\ i \notin Defined'
      BY <1>1, <1>2, <1>3, <1>4, <2>1 DEF DefsTypeOK
    <3> QED
      BY <3>1 DEF HeldAt
  <2>2. CASE i # id
    <3>1. /\ pipes'[i] = pipes[i] /\ entered'[i] = entered[i] /\ content' = content
          /\ i \in Defined' <=> i \in Defined
          /\ disk'[i] = IF pipes[i] = None THEN None ELSE content[pipes[i]]
      BY <1>1, <1>2, <1>3, <1>4, <2>2 DEF DefsTypeOK
    <3>2. HeldAt(i)
      BY DEF DefinitionsHeld
    <3> QED
      BY <3>1, <3>2 DEF HeldAt, EnteredOrMask, Defined
  <2> QED
    BY <2>1, <2>2
<1>8. SnapshotHeld'
  BY <1>1 DEF SnapshotHeld
<1> QED
  BY <1>5, <1>6, <1>7, <1>8 DEF DefinitionsHeld

\* ... the listing, which masks what it meets ...
LEMMA ListStep ==
  ASSUME NoneApart, DefsInvariant, ListPipelines
  PROVE  DefsInvariant'
<1> USE DEF DefsInvariant
<1>1. /\ UNCHANGED <<pipes, disk, entered, at, of, snap, env>> /\ Defined' = Defined
      /\ content' = [a \in Arrays |-> IF \E id \in Ids : pipes[id] = a THEN Mask ELSE content[a]]
  BY DEF ListPipelines, calls, Defined
<1>2. \A a \in Arrays : content'[a] \in {content[a], Mask}
  BY <1>1
<1>3. DefsTypeOK'
  BY <1>1 DEF DefsTypeOK, Secrets
<1>4. OwnArray'
  BY <1>1 DEF OwnArray
<1>5. ASSUME NEW i \in Ids PROVE HeldAt(i)'
  <2>1. HeldAt(i) /\ i \in Defined => pipes[i] \in Arrays
    BY DEF DefinitionsHeld, Defined, DefsTypeOK
  <2>2. i \in Defined => content'[pipes[i]] \in {content[pipes[i]], Mask}
    BY <1>2, <2>1 DEF DefinitionsHeld
  <2>3. HeldAt(i)
    BY DEF DefinitionsHeld
  <2> QED
    BY <1>1, <2>2, <2>3 DEF HeldAt, EnteredOrMask, Secrets
<1>6. SnapshotHeld'
  BY <1>1, <1>2 DEF SnapshotHeld, Secrets
<1> QED
  BY <1>3, <1>4, <1>5, <1>6 DEF DefinitionsHeld

\* ... a restart ...
LEMMA RestartStep ==
  ASSUME NoneApart, DefsInvariant, Restart
  PROVE  DefsInvariant'
<1> USE DEF DefsInvariant
<1>1. /\ content' \in [Arrays -> Secrets \cup {None}]
      /\ pipes' \in [Ids -> Arrays \cup {None}]
      /\ Defined' = {id \in Ids : disk[id] # None}
      /\ \A id \in Defined' : content'[pipes'[id]] = disk[id]
      /\ \A i, j \in Defined' : pipes'[i] = pipes'[j] => i = j
      /\ UNCHANGED <<disk, entered>>
  BY RestartEffect
<1>2. DefsTypeOK'
  BY <1>1 DEF DefsTypeOK, Restart
<1>3. ASSUME NEW i \in Ids PROVE HeldAt(i)'
  <2>1. disk[i] # None => i \in Defined
    BY DEF DefinitionsHeld, HeldAt
  <2>2. i \in Defined' <=> i \in Defined
    BY <1>1, <2>1 DEF DefinitionsHeld, HeldAt, EnteredOrMask, NoneApart, Secrets
  <2>3. HeldAt(i)
    BY DEF DefinitionsHeld
  <2> QED
    BY <1>1, <2>2, <2>3 DEF HeldAt, EnteredOrMask
<1>4. SnapshotHeld'
  BY DEF SnapshotHeld, Restart
<1> QED
  BY <1>1, <1>2, <1>3, <1>4 DEF OwnArray, DefinitionsHeld

\* ... and the steps of a trigger and its run, which change no definition.
LEMMA CallStep ==
  ASSUME DefsInvariant, NEW c \in Calls,
         (\E id \in Ids : Trigger(c, id)) \/ ResolveRuntime(c) \/ AppendRun(c) \/ RunEnds(c)
  PROVE  DefsInvariant'
<1> USE DEF DefsInvariant
<1>1. UNCHANGED <<pipes, content, disk, entered>>
  BY DEF Trigger, ResolveRuntime, AppendRun, RunEnds
<1>2. OwnArray' /\ DefinitionsHeld'
  BY <1>1 DEF OwnArray, DefinitionsHeld, HeldAt, EnteredOrMask, Defined
<1>3. ASSUME NEW id \in Ids, Trigger(c, id) PROVE DefsTypeOK' /\ SnapshotHeld'
  <2>1. id \in Defined /\ pipes[id] \in Arrays /\ content[pipes[id]] \in Secrets
    BY <1>3 DEF Trigger, Defined, DefsTypeOK, DefinitionsHeld, HeldAt, EnteredOrMask
  <2> QED
    BY <1>1, <1>3, <2>1 DEF Trigger, DefsTypeOK, SnapshotHeld
<1>4. ASSUME ResolveRuntime(c) PROVE DefsTypeOK' /\ SnapshotHeld'
  <2>1. content[snap[c]] \in Secrets
    BY <1>4 DEF ResolveRuntime, SnapshotHeld
  <2> QED
    BY <1>1, <1>4, <2>1 DEF ResolveRuntime, DefsTypeOK, SnapshotHeld
<1>5. ASSUME AppendRun(c) PROVE DefsTypeOK' /\ SnapshotHeld'
  BY <1>1, <1>5 DEF AppendRun, DefsTypeOK, SnapshotHeld
<1>6. ASSUME RunEnds(c) PROVE DefsTypeOK' /\ SnapshotHeld'
  BY <1>1, <1>6 DEF RunEnds, DefsTypeOK, SnapshotHeld
<1> QED
  BY <1>2, <1>3, <1>4, <1>5, <1>6

\* Every step keeps the invariant.
LEMMA DefsStep ==
  ASSUME NoneApart, DefsInvariant, [Next]_vars
  PROVE  DefsInvariant'
<1>1. ASSUME NEW id \in Ids, NEW v \in Secrets, SavePipeline(id, v) \/ ImportPipeline(id, v)
      PROVE  DefsInvariant'
  BY <1>1, ReplaceStep DEF SavePipeline, ImportPipeline
<1>2. CASE UNCHANGED vars
  BY <1>2 DEF vars, calls, DefsInvariant, DefsTypeOK, OwnArray, DefinitionsHeld, HeldAt,
              EnteredOrMask, Defined, SnapshotHeld
<1> QED
  BY <1>1, <1>2, DeleteStep, ListStep, RestartStep, CallStep DEF Next, Secrets

\* The definitions' invariant holds in every state the engine reaches.
THEOREM DefsInvariantHolds ==
  ASSUME NoneApart
  PROVE  Spec => []DefsInvariant
<1>1. DefsInvariant /\ [Next]_vars => DefsInvariant'
  BY DefsStep, NoneApart
<1> QED
  BY <1>1, InitDefs, PTL DEF Spec

-----------------------------------------------------------------------------
(* What follows. *)

\* What GetPipeline returns and what pipelines.json holds of a pipeline is what was
\* entered for it last, or the mask: never older, never another pipeline's.
EditsReach ==
  \A id \in Defined : content[pipes[id]] \in {entered[id], Mask} /\ disk[id] \in {entered[id], Mask}

THEOREM EditsReachMemoryAndDisk ==
  ASSUME NoneApart
  PROVE  Spec => []EditsReach
<1>1. DefsInvariant => EditsReach
  BY DEF DefsInvariant, DefinitionsHeld, HeldAt, EnteredOrMask, EditsReach, Defined
<1> QED
  BY <1>1, DefsInvariantHolds, PTL

(* What a trigger copies stays as it was when the trigger read it, but for a list:
   saves, imports, deletes and other triggers leave the array alone, though it is
   read without the lock. *)
SnapshotStays ==
  \A c \in Calls :
    /\ at[c] = "idle" /\ at'[c] = "resolve"
         => content'[snap'[c]] \in {entered[of'[c]], Mask}
    /\ at[c] = "resolve" /\ at'[c] = "resolve"
         => snap'[c] = snap[c] /\ content'[snap[c]] \in {content[snap[c]], Mask}
    /\ at[c] = "resolve" /\ at'[c] = "append" => env'[c] = content[snap[c]]

\* A run works with the secrets its pipeline had when it was triggered, or the mask.
THEOREM RunsGetTheirSecrets ==
  ASSUME NoneApart
  PROVE  Spec => [][SnapshotStays]_vars
<1>1. ASSUME DefsInvariant, Next PROVE SnapshotStays
  <2> USE DEF SnapshotStays
  <2>1. ASSUME NEW id \in Ids, NEW v \in Secrets, SavePipeline(id, v) \/ ImportPipeline(id, v)
        PROVE  SnapshotStays
    <3>1. Replace(id, v)
      BY <2>1 DEF SavePipeline, ImportPipeline
    <3>2. PICK a \in Unused : content' = [content EXCEPT ![a] = v] /\ UNCHANGED calls
      BY <1>1, <3>1, NoneApart, ReplaceEffect DEF DefsInvariant
    <3>3. \A c \in Calls : at[c] = "resolve" => content'[snap[c]] = content[snap[c]]
      BY <1>1, <3>2 DEF Unused, DefsInvariant, DefsTypeOK, SnapshotHeld
    <3> QED
      BY <3>2, <3>3 DEF calls
  <2>2. ASSUME NEW id \in Ids, DeletePipeline(id) PROVE SnapshotStays
    BY <2>2 DEF DeletePipeline, calls
  <2>3. CASE ListPipelines
    BY <1>1, <2>3 DEF ListPipelines, calls, DefsInvariant, SnapshotHeld
  <2>4. CASE Restart
    BY <2>4 DEF Restart
  <2>5. ASSUME NEW c \in Calls, ResolveRuntime(c) PROVE SnapshotStays
    <3>1. /\ at[c] = "resolve" /\ at'[c] = "append" /\ env'[c] = content[snap[c]]
          /\ \A d \in Calls : d # c => at'[d] = at[d] /\ env'[d] = env[d]
          /\ snap' = snap /\ content' = content
      BY <1>1, <2>5 DEF ResolveRuntime, DefsInvariant, DefsTypeOK
    <3> QED
      BY <3>1
  <2>7. ASSUME NEW c \in Calls, AppendRun(c) \/ RunEnds(c) PROVE SnapshotStays
    <3>1. /\ at[c] # "resolve" /\ at'[c] \notin {"resolve", "append"} /\ content' = content
          /\ \A d \in Calls : d # c => at'[d] = at[d] /\ snap'[d] = snap[d]
      BY <1>1, <2>7 DEF AppendRun, RunEnds, DefsInvariant, DefsTypeOK
    <3> QED
      BY <3>1
  <2>6. ASSUME NEW c \in Calls, NEW id \in Ids, Trigger(c, id) PROVE SnapshotStays
    <3>1. /\ at' = [at EXCEPT ![c] = "resolve"] /\ of' = [of EXCEPT ![c] = id]
          /\ snap' = [snap EXCEPT ![c] = pipes[id]] /\ content' = content
          /\ at[c] = "idle" /\ id \in Defined
      BY <2>6 DEF Trigger
    <3>2. content[pipes[id]] \in {entered[id], Mask}
      BY <1>1, <3>1 DEF DefsInvariant, DefinitionsHeld, HeldAt, EnteredOrMask
    <3> QED
      BY <1>1, <3>1, <3>2 DEF DefsInvariant, DefsTypeOK
  <2> QED
    BY <1>1, <2>1, <2>2, <2>3, <2>4, <2>5, <2>6, <2>7 DEF Next, Secrets
<1>2. DefsInvariant /\ [Next]_vars => [SnapshotStays]_vars
  BY <1>1
<1> QED
  BY <1>2, DefsInvariantHolds, PTL DEF Spec

(* Without a list, memory and disk are exact. *)
Exact ==
  \A id \in Defined : content[pipes[id]] = entered[id] /\ disk[id] = entered[id]

\* ListPipelines alone destroys secrets: as long as nobody lists the pipelines,
\* whatever is saved, imported, deleted, triggered and restarted, GetPipeline
\* returns what was entered.
THEOREM OnlyListsMask ==
  ASSUME NoneApart
  PROVE  Init /\ [][Next /\ ~ListPipelines]_vars => []GetIsUnmasked
<1>1. Init => Exact
  BY DEF Init, Exact, Defined
<1>2. ASSUME DefsInvariant, Exact, Next, ~ListPipelines PROVE Exact'
  <2> USE DEF DefsInvariant
  <2>1. ASSUME NEW id \in Ids, NEW v \in Secrets, SavePipeline(id, v) \/ ImportPipeline(id, v)
        PROVE  Exact'
    <3>1. Replace(id, v)
      BY <2>1 DEF SavePipeline, ImportPipeline
    <3>2. PICK a \in Unused :
            /\ a \in Arrays /\ pipes' = [pipes EXCEPT ![id] = a]
            /\ content' = [content EXCEPT ![a] = v]
            /\ entered' = [entered EXCEPT ![id] = v]
            /\ disk'[id] = v
            /\ \A i \in Ids : i # id =>
                 disk'[i] = IF pipes[i] = None THEN None ELSE content[pipes[i]]
            /\ Defined' = Defined \cup {id}
      BY <1>2, <3>1, NoneApart, ReplaceEffect
    <3>3. ASSUME NEW i \in Defined' PROVE (content[pipes[i]] = entered[i] /\ disk[i] = entered[i])'
      <4>1. CASE i = id
        BY <1>2, <3>2, <4>1 DEF DefsTypeOK
      <4>2. CASE i # id
        <5>1. i \in Defined /\ i \in Ids /\ pipes[i] # None /\ pipes[i] \in Arrays /\ pipes[i] # a
          BY <1>2, <3>2, <3>3, <4>2 DEF Defined, DefsTypeOK, Unused
        <5> QED
          BY <1>2, <3>2, <4>2, <5>1 DEF Exact, DefsTypeOK
      <4> QED
        BY <4>1, <4>2
    <3> QED
      BY <3>3 DEF Exact
  <2>2. ASSUME NEW id \in Ids, DeletePipeline(id) PROVE Exact'
    <3>1. /\ pipes' = [pipes EXCEPT ![id] = None] /\ entered' = [entered EXCEPT ![id] = None]
          /\ content' = content
      BY <2>2 DEF DeletePipeline
    <3>2. \A i \in Ids : disk'[i] = IF pipes'[i] = None THEN None ELSE content'[pipes'[i]]
      BY <2>2 DEF DeletePipeline, Persist
    <3>3. ASSUME NEW i \in Defined' PROVE (content[pipes[i]] = entered[i] /\ disk[i] = entered[i])'
      <4>1. i \in Ids /\ pipes'[i] # None /\ i # id
        BY <1>2, <3>1, <3>3 DEF Defined, DefsTypeOK
      <4>2. pipes'[i] = pipes[i] /\ entered'[i] = entered[i] /\ i \in Defined
        BY <1>2, <3>1, <4>1 DEF Defined, DefsTypeOK
      <4> QED
        BY <1>2, <3>1, <3>2, <4>1, <4>2 DEF Exact
    <3> QED
      BY <3>3 DEF Exact
  <2>3. CASE Restart
    <3>1. /\ Defined' = {id \in Ids : disk[id] # None}
          /\ \A id \in Defined' : content'[pipes'[id]] = disk[id]
          /\ UNCHANGED <<disk, entered>>
      BY <1>2, <2>3, NoneApart, RestartEffect
    <3>2. \A id \in Defined' : id \in Defined
      BY <1>2, <3>1 DEF DefinitionsHeld, HeldAt
    <3> QED
      BY <1>2, <3>1, <3>2 DEF Exact
  <2>4. ASSUME NEW c \in Calls,
               (\E id \in Ids : Trigger(c, id)) \/ ResolveRuntime(c) \/ AppendRun(c) \/ RunEnds(c)
        PROVE  Exact'
    <3>1. UNCHANGED <<pipes, content, disk, entered>>
      BY <2>4 DEF Trigger, ResolveRuntime, AppendRun, RunEnds
    <3> QED
      BY <1>2, <3>1 DEF Exact, Defined
  <2> QED
    BY <1>2, <2>1, <2>2, <2>3, <2>4 DEF Next, Secrets
<1>3. ASSUME Exact, UNCHANGED vars PROVE Exact'
  BY <1>3 DEF Exact, Defined, vars
<1>4. DefsInvariant /\ Exact /\ [Next /\ ~ListPipelines]_vars => DefsInvariant' /\ Exact'
  BY <1>2, <1>3, DefsStep, NoneApart
<1>5. Exact => GetIsUnmasked
  BY DEF Exact, GetIsUnmasked
<1> QED
  BY <1>1, <1>4, <1>5, InitDefs, PTL

=============================================================================
