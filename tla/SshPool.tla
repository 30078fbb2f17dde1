------------------------------ MODULE SshPool ------------------------------
(***************************************************************************)
(* The pool of SSH connections (internal/remote/exec.go): callers take the *)
(* pooled connection of a host or dial one, count themselves in while a    *)
(* session runs, and mark a connection dead (Remove, keepalive, the retry  *)
(* of ExecLine and ExecScript) so that its last user closes it.            *)
(*                                                                         *)
(* An action is one critical section of Pool.mu or one atomic operation on *)
(* use or dead; the section in which acquireEntry reads dead and then      *)
(* increments use is two actions, because markDead and release change both *)
(* without the mutex.  Pool.Close, deferred by main to the end of the      *)
(* process, is left out.                                                   *)
(***************************************************************************)
EXTENDS Naturals, FiniteSets

CONSTANTS
  Hosts,     \* host ids, the keys of Pool.conns
  Callers,   \* concurrent requests that run commands or remove hosts
  Keeper,    \* the goroutine of NewPool that calls KeepaliveAll
  ConnBound  \* bound: connections dialled in one behaviour

ASSUME CallersAssumption == IsFiniteSet(Callers)
ASSUME KeeperAssumption == Keeper \notin Callers
ASSUME ConnBoundAssumption == ConnBound \in Nat

Procs == Callers \cup {Keeper}
Entries == 1..ConnBound
None == 0

VARIABLES
  conns,   \* Pool.conns: the pooled entry of a host
  host,    \* poolEntry.host
  use,     \* poolEntry.use
  dead,    \* poolEntry.dead
  closed,  \* whether poolEntry.client is closed
  made,    \* number of entries made so far
  at,      \* program counter
  target,  \* the host argument of the call
  entry,   \* the local entry variable of the call
  retry,   \* "no": Exec; "first", "second": the attempts of ExecLine, ExecScript
  todo     \* the entries KeepaliveAll has still to look at

pool == <<conns, host, use, dead, closed, made>>
locals == <<at, target, entry, retry, todo>>
vars == <<pool, locals>>

Marking == {"mark", "unpool", "reap"}
Place == {"idle", "lookup", "count", "evict", "dial", "install", "share", "inUse",
          "release", "returned", "find", "sweep"} \cup Marking

Init ==
  /\ conns = [h \in Hosts |-> None]
  /\ host = [e \in Entries |-> "none"]
  /\ use = [e \in Entries |-> 0]
  /\ dead = [e \in Entries |-> FALSE]
  /\ closed = [e \in Entries |-> FALSE]
  /\ made = 0
  /\ at = [c \in Procs |-> "idle"]
  /\ target = [c \in Procs |-> "none"]
  /\ entry = [c \in Procs |-> None]
  /\ retry = [c \in Procs |-> "no"]
  /\ todo = {}

Goto(c, place) == at' = [at EXCEPT ![c] = place]

(* Pool.mu is held from one action to the next only at these places. *)
Unlocked == \A c \in Procs : at[c] \notin {"count", "share"}

(* client.Close, which may be called twice. *)
CloseClient(e) == closed' = [closed EXCEPT ![e] = TRUE]

-----------------------------------------------------------------------------
(* The calls. *)

(* Exec and ExecWithInput (one attempt), ExecLine and ExecScript (two). *)
CallExec(c, h, attempts) ==
  /\ at[c] = "idle"
  /\ target' = [target EXCEPT ![c] = h]
  /\ retry' = [retry EXCEPT ![c] = attempts]
  /\ Goto(c, "lookup")
  /\ UNCHANGED <<pool, entry, todo>>

(* Remove, when a host is edited or deleted. *)
CallRemove(c, h) ==
  /\ at[c] = "idle"
  /\ target' = [target EXCEPT ![c] = h]
  /\ Goto(c, "find")
  /\ UNCHANGED <<pool, entry, retry, todo>>

(* KeepaliveAll: the entries are listed under the mutex. *)
CallKeepalive ==
  /\ at[Keeper] = "idle"
  /\ Unlocked
  /\ todo' = {conns[h] : h \in Hosts} \ {None}
  /\ Goto(Keeper, "sweep")
  /\ UNCHANGED <<pool, target, entry, retry>>

Return(c) ==
  /\ Goto(c, "idle")
  /\ target' = [target EXCEPT ![c] = "none"]
  /\ entry' = [entry EXCEPT ![c] = None]
  /\ retry' = [retry EXCEPT ![c] = "no"]

-----------------------------------------------------------------------------
(* acquireEntry. *)

(* Lock and find no entry: dial without the mutex. *)
LookupMiss(c) ==
  /\ at[c] = "lookup"
  /\ Unlocked
  /\ conns[target[c]] = None
  /\ Goto(c, "dial")
  /\ UNCHANGED <<pool, target, entry, retry, todo>>

(* Lock, find an entry and read dead: with 0 the mutex is kept, ... *)
LookupLive(c) ==
  LET e == conns[target[c]]
  IN  /\ at[c] = "lookup"
      /\ Unlocked
      /\ e # None
      /\ ~dead[e]
      /\ entry' = [entry EXCEPT ![c] = e]
      /\ Goto(c, "count")
      /\ UNCHANGED <<pool, target, retry, todo>>

(* ... with 1 the entry leaves the pool. *)
LookupDead(c) ==
  LET e == conns[target[c]]
  IN  /\ at[c] = "lookup"
      /\ Unlocked
      /\ e # None
      /\ dead[e]
      /\ conns' = [conns EXCEPT ![target[c]] = None]
      /\ entry' = [entry EXCEPT ![c] = e]
      /\ Goto(c, "evict")
      /\ UNCHANGED <<host, use, dead, closed, made, target, retry, todo>>

\* Mutant: the caller uses the entry without counting itself in.
UseUncounted(c) ==
  /\ at[c] \in {"count", "share"}
  /\ Goto(c, "inUse")
  /\ UNCHANGED <<pool, target, entry, retry, todo>>

(* use is incremented and the mutex released. *)
CountIn(c) ==
  /\ at[c] \in {"count", "share"}
  /\ use' = [use EXCEPT ![entry[c]] = @ + 1]
  /\ Goto(c, "inUse")
  /\ UNCHANGED <<conns, host, dead, closed, made, target, entry, retry, todo>>

\* Mutants: the close is left to nobody, or not deferred at all.
CloseNever(e) == UNCHANGED closed
CloseAlways(e) == CloseClient(e)

(* An entry that nobody uses and nobody can find any more is closed. *)
CloseIfIdle(e) == IF use[e] = 0 THEN CloseClient(e) ELSE UNCHANGED closed

(* closeIfIdle of the evicted entry; then the loop starts again. *)
Evict(c) ==
  /\ at[c] = "evict"
  /\ CloseIfIdle(entry[c])
  /\ Goto(c, "lookup")
  /\ entry' = [entry EXCEPT ![c] = None]
  /\ UNCHANGED <<conns, host, use, dead, made, target, retry, todo>>

(* Callers with a connection of their own that is not pooled yet. *)
Dialled == {c \in Procs : at[c] = "install"}

(* dialHost succeeds, within the bound on connections ... *)
Dial(c) ==
  /\ at[c] = "dial"
  /\ made + Cardinality(Dialled) < ConnBound
  /\ Goto(c, "install")
  /\ UNCHANGED <<pool, target, entry, retry, todo>>

(* ... or fails. *)
DialFails(c) ==
  /\ at[c] = "dial"
  /\ Goto(c, "returned")
  /\ UNCHANGED <<pool, target, entry, retry, todo>>

\* Mutant: no double check after the dial.
NoSecondLook(c) == FALSE

(* The double check: someone else's connection is pooled and not dead, the *)
(* own one is closed after the mutex is released.                          *)
PooledMeanwhile(c) == conns[target[c]] # None /\ ~dead[conns[target[c]]]

InstallShared(c) ==
  /\ at[c] = "install"
  /\ Unlocked
  /\ PooledMeanwhile(c)
  /\ entry' = [entry EXCEPT ![c] = conns[target[c]]]
  /\ Goto(c, "share")
  /\ UNCHANGED <<pool, target, retry, todo>>

\* Mutant: the new entry starts with use 0.
InstallUnused(c) ==
  /\ at[c] = "install"
  /\ Unlocked
  /\ ~PooledMeanwhile(c)
  /\ made' = made + 1
  /\ conns' = [conns EXCEPT ![target[c]] = made']
  /\ host' = [host EXCEPT ![made'] = target[c]]
  /\ entry' = [entry EXCEPT ![c] = made']
  /\ Goto(c, "inUse")
  /\ UNCHANGED <<use, dead, closed, target, retry, todo>>

(* The own connection is pooled, over a dead one if need be, already in use. *)
Install(c) ==
  /\ at[c] = "install"
  /\ Unlocked
  /\ ~PooledMeanwhile(c)
  /\ made' = made + 1
  /\ conns' = [conns EXCEPT ![target[c]] = made']
  /\ host' = [host EXCEPT ![made'] = target[c]]
  /\ use' = [use EXCEPT ![made'] = 1]
  /\ entry' = [entry EXCEPT ![c] = made']
  /\ Goto(c, "inUse")
  /\ UNCHANGED <<dead, closed, target, retry, todo>>

-----------------------------------------------------------------------------
(* release, and the second attempt. *)

(* The session has ended; use is decremented. *)
CountOut(c) ==
  /\ at[c] = "inUse"
  /\ use' = [use EXCEPT ![entry[c]] = @ - 1]
  /\ Goto(c, IF use[entry[c]] = 1 THEN "release" ELSE "returned")
  /\ UNCHANGED <<conns, host, dead, closed, made, target, entry, retry, todo>>

\* Mutant: the last user closes the connection whether it is dead or not.
LastUserCloses(c) ==
  /\ at[c] = "release"
  /\ CloseClient(entry[c])
  /\ Goto(c, "returned")
  /\ UNCHANGED <<conns, host, use, dead, made, target, entry, retry, todo>>

(* The last user reads dead, and closes the connection. *)
LastUserLeaves(c) ==
  /\ at[c] = "release"
  /\ IF dead[entry[c]] THEN CloseClient(entry[c]) ELSE UNCHANGED closed
  /\ Goto(c, "returned")
  /\ UNCHANGED <<conns, host, use, dead, made, target, entry, retry, todo>>

(* The call is over, with a result or an error. *)
Finish(c) ==
  /\ at[c] = "returned"
  /\ Return(c)
  /\ UNCHANGED <<pool, todo>>

(* The first attempt failed in transport: dropConn, then once more. *)
TryAgain(c) ==
  /\ at[c] = "returned"
  /\ retry[c] = "first"
  /\ retry' = [retry EXCEPT ![c] = "second"]
  /\ entry' = [entry EXCEPT ![c] = None]
  /\ Goto(c, "find")
  /\ UNCHANGED <<pool, target, todo>>

-----------------------------------------------------------------------------
(* Remove and dropConn look an entry up and mark it dead; so does          *)
(* KeepaliveAll with an entry that does not answer.                        *)

(* What the call does once the entry is marked. *)
AfterMark(c) ==
  IF c = Keeper THEN Goto(c, "sweep") /\ UNCHANGED <<target, retry>>
                     /\ entry' = [entry EXCEPT ![c] = None]
  ELSE IF retry[c] = "second" THEN Goto(c, "lookup") /\ UNCHANGED <<target, retry>>
                                   /\ entry' = [entry EXCEPT ![c] = None]
  ELSE Return(c)

Find(c) ==
  LET e == conns[target[c]]
  IN  /\ at[c] = "find"
      /\ Unlocked
      /\ IF e = None THEN AfterMark(c)
         ELSE /\ entry' = [entry EXCEPT ![c] = e]
              /\ Goto(c, "mark")
              /\ UNCHANGED <<target, retry>>
      /\ UNCHANGED <<pool, todo>>

(* An entry that is dead already or answers is left alone. *)
KeepaliveAnswered(e) ==
  /\ at[Keeper] = "sweep"
  /\ todo' = todo \ {e}
  /\ UNCHANGED <<pool, at, target, entry, retry>>

KeepaliveFails(e) ==
  /\ at[Keeper] = "sweep"
  /\ ~dead[e]
  /\ todo' = todo \ {e}
  /\ entry' = [entry EXCEPT ![Keeper] = e]
  /\ Goto(Keeper, "mark")
  /\ UNCHANGED <<pool, target, retry>>

KeepaliveDone ==
  /\ at[Keeper] = "sweep"
  /\ todo = {}
  /\ Return(Keeper)
  /\ UNCHANGED <<pool, todo>>

(* markDead: the compare-and-swap lets one caller go on. *)
Mark(c) ==
  /\ at[c] = "mark"
  /\ IF dead[entry[c]]
     THEN AfterMark(c) /\ UNCHANGED dead
     ELSE /\ dead' = [dead EXCEPT ![entry[c]] = TRUE]
          /\ Goto(c, "unpool")
          /\ UNCHANGED <<target, entry, retry>>
  /\ UNCHANGED <<conns, host, use, closed, made, todo>>

\* Mutant: whatever is pooled for the host leaves the pool.
UnpoolAny(c) ==
  /\ at[c] = "unpool"
  /\ Unlocked
  /\ conns' = [conns EXCEPT ![host[entry[c]]] = None]
  /\ Goto(c, "reap")
  /\ UNCHANGED <<host, use, dead, closed, made, target, entry, retry, todo>>

(* The entry leaves the pool unless another one has taken its place. *)
Unpool(c) ==
  LET h == host[entry[c]]
  IN  /\ at[c] = "unpool"
      /\ Unlocked
      /\ conns' = [conns EXCEPT ![h] = IF @ = entry[c] THEN None ELSE @]
      /\ Goto(c, "reap")
      /\ UNCHANGED <<host, use, dead, closed, made, target, entry, retry, todo>>

Reap(c) ==
  /\ at[c] = "reap"
  /\ CloseIfIdle(entry[c])
  /\ AfterMark(c)
  /\ UNCHANGED <<conns, host, use, dead, made, todo>>

-----------------------------------------------------------------------------
Step(c) ==
  \/ LookupMiss(c) \/ LookupLive(c) \/ LookupDead(c) \/ CountIn(c) \/ Evict(c)
  \/ Dial(c) \/ DialFails(c) \/ InstallShared(c) \/ Install(c)
  \/ CountOut(c) \/ LastUserLeaves(c) \/ Finish(c) \/ TryAgain(c)
  \/ Find(c) \/ Mark(c) \/ Unpool(c) \/ Reap(c)

Next ==
  \/ \E c \in Callers, h \in Hosts :
       CallRemove(c, h) \/ \E attempts \in {"no", "first"} : CallExec(c, h, attempts)
  \/ \E c \in Procs : Step(c)
  \/ CallKeepalive \/ KeepaliveDone
  \/ \E e \in todo : KeepaliveAnswered(e) \/ KeepaliveFails(e)

Spec == Init /\ [][Next]_vars

-----------------------------------------------------------------------------
(* Properties *)

\* Type correctness of the pool's state.
TypeOK ==
  /\ conns \in [Hosts -> Entries \cup {None}]
  /\ host \in [Entries -> Hosts \cup {"none"}]
  /\ use \in [Entries -> Nat]
  /\ dead \in [Entries -> BOOLEAN]
  /\ closed \in [Entries -> BOOLEAN]
  /\ made \in 0..ConnBound
  /\ at \in [Procs -> Place]
  /\ target \in [Procs -> Hosts \cup {"none"}]
  /\ entry \in [Procs -> Entries \cup {None}]
  /\ retry \in [Procs -> {"no", "first", "second"}]
  /\ todo \subseteq Entries

UsersOf(e) == {c \in Procs : at[c] = "inUse" /\ entry[c] = e}

\* use counts exactly the sessions in flight on a connection, though it is
\* changed without the mutex and its entry may be replaced meanwhile.
UseCounted == \A e \in Entries : use[e] = Cardinality(UsersOf(e))

\* Only a connection that was marked dead is closed: a caller that finds a
\* pooled connection without the mark never gets a closed one.
ClosedIsDead == \A e \in Entries : closed[e] => dead[e]

\* A connection that is not dead is the pooled one of its host, so a host has
\* at most one: concurrent misses keep the first dialled connection and
\* nothing replaces it (acquireEntry's double check).
LiveIsPooled == \A e \in 1..made : ~dead[e] => conns[host[e]] = e

\* A dead connection is closed, or someone is still on the way to close it:
\* the hand-over of the close from the marker to the last user loses none.
NoLeak ==
  \A e \in 1..made : dead[e] /\ ~closed[e] =>
    \E c \in Procs : /\ entry[c] = e
                     /\ at[c] \in {"count", "share", "inUse", "release", "evict",
                                   "unpool", "reap"}

\* Nobody but a last user who is just releasing closes a connection that has a
\* session in flight: markDead and closeIfIdle look at use after the entry has
\* left the pool, when it can only fall.
MarkersSpareSessions ==
  [][\A e \in Entries : ~closed[e] /\ closed'[e] /\ UsersOf(e) # {} =>
       \E c \in Procs : at[c] = "release" /\ entry[c] = e]_vars

\* No connection is closed while a session is in flight on it (the comment of
\* Pool: the close is deferred until the last user has left; the change log:
\* a reconnect of one request no longer closes what others are using).
InUseIsOpen == \A e \in Entries : UsersOf(e) # {} => ~closed[e]

-----------------------------------------------------------------------------
(* The inductive invariant behind the safety properties. *)

\* The entries and hosts a call refers to exist, the pool holds an entry under
\* its own host, and an entry that was not made yet is untouched.
References ==
  /\ \A c \in Procs :
       /\ at[c] \in {"count", "share", "inUse", "release", "evict"} \cup Marking
            => entry[c] \in 1..made
       /\ c # Keeper /\ at[c] # "idle" => target[c] \in Hosts
  /\ at[Keeper] \in {"idle", "sweep"} \cup Marking
  /\ todo \subseteq 1..made
  /\ \A h \in Hosts : conns[h] # None => conns[h] \in 1..made /\ host[conns[h]] = h
  /\ \A e \in 1..made : host[e] \in Hosts
  /\ \A e \in Entries : e > made => ~dead[e]

\* Every dial that succeeded has an entry left within the bound.
DialsBounded == made + Cardinality(Dialled) <= ConnBound

\* Only dead entries are on their way out of the pool.
DeadOnTheWay ==
  \A c \in Procs : at[c] \in {"evict", "unpool", "reap"} => dead[entry[c]]

\* The conjunction that every step of the pool preserves.
PoolInvariant ==
  /\ TypeOK
  /\ References
  /\ DialsBounded
  /\ UseCounted
  /\ DeadOnTheWay
  /\ ClosedIsDead
  /\ LiveIsPooled
  /\ NoLeak

=============================================================================
