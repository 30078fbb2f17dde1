------------------------------- MODULE DbPool -------------------------------
(***************************************************************************)
(* The pool of opened databases (internal/dbmanager/pool.go) over the      *)
(* stored connections (store.go), with the handlers that edit and delete   *)
(* connections (handlers.go): one Database per connection id, at most      *)
(* PoolSize of them, the least recently used closed first.                 *)
(*                                                                         *)
(* An action is one critical section of DatabasePool.mu or of Store.mu.    *)
(* Between its two sections Acquire reads the connection and opens a       *)
(* database without a lock.  What a connection holds is a version number.  *)
(* DatabasePool.Close, which nothing calls, is left out.                   *)
(***************************************************************************)
EXTENDS Naturals, Sequences, FiniteSets

CONSTANTS
  Conns,     \* connection ids
  Users,     \* goroutines that use or edit connections
  PoolSize,  \* DatabasePool.poolSize
  Dbs,       \* databases; a closed one that nobody holds stands for a new one
  EditBound, \* bound: versions of one connection
  None

ASSUME PoolSizeAssumption == PoolSize \in Nat \ {0}
ASSUME NoneAssumption == None \notin Conns \cup Dbs
ASSUME EditBoundAssumption == EditBound \in Nat \ {0}

Deleted == 0

VARIABLES
  config,  \* Store.cache: the version of a connection, or Deleted
  pool,    \* DatabasePool.conns: the database of a connection
  order,   \* DatabasePool.order: connection ids, least recently used first
  of,      \* the connection a database is open for; None: it is closed
  ver,     \* the version it was opened with
  at,      \* program counter
  target,  \* the connection id of the call
  have,    \* the database in the caller's hands
  missed   \* auxiliary: connections an edit of which could not reach the pool

dbs == <<of, ver>>
locals == <<at, target, have>>
poolVars == <<config, pool, order, dbs, locals, missed>>

PoolInit ==
  /\ config = [c \in Conns |-> 1]
  /\ pool = [c \in Conns |-> None]
  /\ order = <<>>
  /\ of = [d \in Dbs |-> None]
  /\ ver = [d \in Dbs |-> Deleted]
  /\ at = [u \in Users |-> "idle"]
  /\ target = [u \in Users |-> None]
  /\ have = [u \in Users |-> None]
  /\ missed = {}

(* append(s[:i], s[i+1:]...) at the first i with s[i] = c, if there is one. *)
Drop(s, c) ==
  LET Is(i) == s[i] = c /\ \A j \in 1..(i - 1) : s[j] # c IN
  IF \E i \in 1..Len(s) : Is(i)
    THEN LET i == CHOOSE i \in 1..Len(s) : Is(i)
         IN  [k \in 1..(Len(s) - 1) |-> IF k < i THEN s[k] ELSE s[k + 1]]
    ELSE s

(* The call of u, for connection c, goes on at a place with database d. *)
Goto(u, place, c, d) ==
  /\ at' = [at EXCEPT ![u] = place]
  /\ target' = [target EXCEPT ![u] = c]
  /\ have' = [have EXCEPT ![u] = d]

Return(u) == Goto(u, "idle", None, None)

(* db.Close. *)
CloseDbs(ds) ==
  /\ of' = [d \in Dbs |-> IF d \in ds THEN None ELSE of[d]]
  /\ ver' = [d \in Dbs |-> IF d \in ds THEN Deleted ELSE ver[d]]

-----------------------------------------------------------------------------
(* Acquire. *)

(* The pool has the connection: it becomes the most recently used. *)
Hit(u, c) ==
  /\ at[u] = "idle"
  /\ pool[c] # None
  /\ order' = IF \E i \in 1..Len(order) : order[i] = c
                THEN Append(Drop(order, c), c) ELSE order
  /\ Goto(u, "using", c, pool[c])
  /\ UNCHANGED <<config, pool, dbs, missed>>

Miss(u, c) ==
  /\ at[u] = "idle"
  /\ pool[c] = None
  /\ Goto(u, "open", c, None)
  /\ UNCHANGED <<config, pool, order, dbs, missed>>

New == {d \in Dbs : of[d] = None /\ \A u \in Users : have[u] # d}

(* store.Get and openGonaviDatabase, which gives database d. *)
Open(u, d) ==
  LET c == target[u] IN
  /\ at[u] = "open"
  /\ config[c] # Deleted
  /\ of' = [of EXCEPT ![d] = c]
  /\ ver' = [ver EXCEPT ![d] = config[c]]
  /\ Goto(u, "insert", c, d)
  /\ UNCHANGED <<config, pool, order, missed>>

(* The connection is gone, or it cannot be opened. *)
OpenFails(u) ==
  /\ at[u] = "open"
  /\ Return(u)
  /\ UNCHANGED <<config, pool, order, dbs, missed>>

(* Mutant of InsertLoses: the caller's own database stays open. *)
InsertLosesOpen(u) ==
  /\ at[u] = "insert"
  /\ pool[target[u]] # None
  /\ Goto(u, "using", target[u], pool[target[u]])
  /\ UNCHANGED <<config, pool, order, dbs, missed>>

(* Mutant of InsertLoses: the wrong one of the two databases is closed. *)
InsertLosesWrong(u) ==
  LET c == target[u] IN
  /\ at[u] = "insert"
  /\ pool[c] # None
  /\ CloseDbs({pool[c]})
  /\ Goto(u, "using", c, have[u])
  /\ UNCHANGED <<config, pool, order, missed>>

(* Another Acquire was faster: its database is used, this one closed, and the
   order left as it is. *)
InsertLoses(u) ==
  LET c == target[u] IN
  /\ at[u] = "insert"
  /\ pool[c] # None
  /\ CloseDbs({have[u]})
  /\ Goto(u, "using", c, pool[c])
  /\ UNCHANGED <<config, pool, order, missed>>

(* Number of connections to evict before one is added. *)
Excess == IF Len(order) >= PoolSize THEN Len(order) - PoolSize + 1 ELSE 0
Victims == {order[i] : i \in 1..Excess}

(* Mutant of Insert: without the second look at the pool. *)
InsertUnchecked(u) ==
  LET c == target[u] IN
  /\ at[u] = "insert"
  /\ CloseDbs({pool[v] : v \in Victims})
  /\ pool' = [v \in Conns |-> IF v = c THEN have[u]
                              ELSE IF v \in Victims THEN None ELSE pool[v]]
  /\ order' = Append([k \in 1..(Len(order) - Excess) |-> order[k + Excess]], c)
  /\ Goto(u, "using", c, have[u])
  /\ UNCHANGED <<config, missed>>

(* Evict the least recently used, closing them whether in use or not, and add
   the new one. *)
Insert(u) ==
  LET c == target[u] IN
  /\ at[u] = "insert"
  /\ pool[c] = None
  /\ CloseDbs({pool[v] : v \in Victims})
  /\ pool' = [v \in Conns |-> IF v = c THEN have[u]
                              ELSE IF v \in Victims THEN None ELSE pool[v]]
  /\ order' = Append([k \in 1..(Len(order) - Excess) |-> order[k + Excess]], c)
  /\ Goto(u, "using", c, have[u])
  /\ UNCHANGED <<config, missed>>

(* The caller is done with the database; nothing is handed back. *)
Finish(u) ==
  /\ at[u] = "using"
  /\ Return(u)
  /\ UNCHANGED <<config, pool, order, dbs, missed>>

-----------------------------------------------------------------------------
(* handleConnections. *)

(* Mutant of Release: the closed database stays in the map. *)
ReleaseKeepsEntry(c) ==
  /\ CloseDbs({pool[c]})
  /\ order' = Drop(order, c)
  /\ UNCHANGED pool

(* Release. *)
ReleaseFromPool(c) ==
  /\ CloseDbs({pool[c]})
  /\ pool' = [pool EXCEPT ![c] = None]
  /\ order' = Drop(order, c)

(* Some Acquire holds a database of c that it has not put into the pool. *)
BeingOpened(c) == \E u \in Users : at[u] = "insert" /\ target[u] = c

(* PUT: Store.Update changes the cache and then writes it ... *)
Update(u, c) ==
  /\ at[u] = "idle"
  /\ config[c] \in 1..(EditBound - 1)
  /\ config' = [config EXCEPT ![c] = @ + 1]
  /\ Goto(u, "release", c, None)
  /\ missed' = IF BeingOpened(c) THEN missed \cup {c} ELSE missed
  /\ UNCHANGED <<pool, order, dbs>>

(* ... which may fail: the handler returns without releasing the database; *)
UpdateFails(u) ==
  /\ at[u] = "release"
  /\ Return(u)
  /\ missed' = missed \cup {target[u]}
  /\ UNCHANGED <<config, pool, order, dbs>>

(* Mutant of Release: the handler does not release the edited connection. *)
ReleaseForgotten(u) ==
  /\ at[u] = "release"
  /\ Return(u)
  /\ UNCHANGED <<config, pool, order, dbs, missed>>

(* otherwise it releases the database. *)
Release(u) ==
  /\ at[u] = "release"
  /\ ReleaseFromPool(target[u])
  /\ Return(u)
  /\ UNCHANGED <<config, missed>>

(* DELETE: the handler releases the database first ... *)
ReleaseFirst(u, c) ==
  /\ at[u] = "idle"
  /\ ReleaseFromPool(c)
  /\ Goto(u, "delete", c, None)
  /\ UNCHANGED <<config, missed>>

(* ... and deletes the connection then. *)
Delete(u) ==
  LET c == target[u] IN
  /\ at[u] = "delete"
  /\ config' = [config EXCEPT ![c] = Deleted]
  /\ Return(u)
  /\ missed' = IF pool[c] # None \/ BeingOpened(c) THEN missed \cup {c} ELSE missed
  /\ UNCHANGED <<pool, order, dbs>>

-----------------------------------------------------------------------------
Acquire(u) ==
  \/ \E c \in Conns : Hit(u, c) \/ Miss(u, c)
  \/ \E d \in New : Open(u, d)
  \/ OpenFails(u) \/ InsertLoses(u) \/ Insert(u)

Edit(u) ==
  \/ \E c \in Conns : Update(u, c) \/ ReleaseFirst(u, c)
  \/ UpdateFails(u) \/ Release(u) \/ Delete(u)

PoolNext == \E u \in Users : Acquire(u) \/ Finish(u) \/ Edit(u)

PoolSpec == PoolInit /\ [][PoolNext]_poolVars

-----------------------------------------------------------------------------
(* Types. *)
PoolTypeOK ==
  /\ config \in [Conns -> 0..EditBound]
  /\ pool \in [Conns -> Dbs \cup {None}]
  /\ order \in Seq(Conns)
  /\ of \in [Dbs -> Conns \cup {None}]
  /\ ver \in [Dbs -> 0..EditBound]
  /\ at \in [Users -> {"idle", "open", "insert", "using", "release", "delete"}]
  /\ target \in [Users -> Conns \cup {None}]
  /\ have \in [Users -> Dbs \cup {None}]
  /\ missed \subseteq Conns

(* order lists the pooled connections, each once, and there are never more than
   PoolSize: touchOrder, the double check of Acquire, eviction and Release keep
   the map and the list together. *)
OrderListsPool ==
  /\ Len(order) <= PoolSize
  /\ \A i, j \in 1..Len(order) : order[i] = order[j] => i = j
  /\ \A c \in Conns : pool[c] # None <=> \E i \in 1..Len(order) : order[i] = c

(* What Acquire takes from the pool is open, and was opened for the connection
   asked for. *)
PooledIsOpen ==
  \A c \in Conns : pool[c] # None => of[pool[c]] = c

(* Every open database is in the pool or about to be put there by the Acquire
   that opened it: the loser of a race, the evicted and the released are closed. *)
NoLeak ==
  \A d \in Dbs : of[d] # None
    => \/ pool[of[d]] = d
       \/ \E u \in Users : at[u] = "insert" /\ have[u] = d

OpenDbs == {d \in Dbs : of[d] # None}
Inserting == {u \in Users : at[u] = "insert"}

(* PoolSize bounds the databases that are open, not only those of the map: at any
   time there are at most PoolSize of them and one for each Acquire between its
   open and its insert, however races, evictions and edits fall. *)
OpenBounded ==
  IsFiniteSet(OpenDbs) /\ Cardinality(OpenDbs) <= PoolSize + Cardinality(Inserting)

(* The pool takes in a connection while it is full, and c is the least recently
   used of it. *)
Evicted(c) ==
  /\ Len(order) = PoolSize /\ order[1] = c
  /\ \E v \in Conns : pool[v] = None /\ pool'[v] # None

(* A handler that edits c, or is about to delete it, calls Release. *)
Released(c) ==
  \/ \E u \in Users : at[u] = "release" /\ target[u] = c /\ at'[u] = "idle"
  \/ \E u \in Users : at[u] = "idle" /\ at'[u] = "delete" /\ target'[u] = c

(* A database a caller is using is closed under it only as the least recently used
   one of a full pool (Acquire counts no users), or because its connection is
   edited or deleted: never by the Acquire that loses a race for it, nor by the
   eviction, edit or delete of another connection. *)
ClosedInUseHasReason ==
  [][\A d \in Dbs :
       (\E u \in Users : at[u] = "using" /\ have[u] = d) /\ of[d] # None /\ of'[d] = None
         => Evicted(of[d]) \/ Released(of[d])]_poolVars

(* The handler that edited c has not come to its Release yet. *)
BeingEdited(c) == \E u \in Users : at[u] = "release" /\ target[u] = c

(* The pool serves a connection as it was before an edit, or after it was
   deleted, only if that edit was one of three: its database was being opened at
   the time, the store could not save it, or it was a delete with the database
   back in the pool since the handler's Release.  All other edits take effect. *)
StaleWasMissed ==
  \A c \in Conns :
    pool[c] # None /\ ver[pool[c]] # config[c] => BeingEdited(c) \/ c \in missed
=============================================================================
