--------------------------- MODULE SshPool_proofs ---------------------------
(***************************************************************************)
(* Proofs about SshPool for every number of hosts, callers and             *)
(* connections: its inductive invariant PoolInvariant, the properties that *)
(* follow from it, and that only a leaving user closes a connection in use.*)
(***************************************************************************)
EXTENDS SshPool, FiniteSetTheorems, FunctionTheorems, TLAPS

-----------------------------------------------------------------------------
(* Facts about the sets that the invariant counts. *)

\* The goroutines that use the pool form a finite set.
LEMMA ProcsFinite == IsFiniteSet(Procs)
BY CallersAssumption, FS_AddElement DEF Procs

\* So do those with a session in flight on an entry.
LEMMA UsersFinite ==
  ASSUME NEW e
  PROVE  IsFiniteSet(UsersOf(e))
BY ProcsFinite, FS_Subset DEF UsersOf

\* And those that have dialled.
LEMMA DialledFinite == IsFiniteSet(Dialled)
BY ProcsFinite, FS_Subset DEF Dialled

\* An entry whose count is zero has no session in flight.
LEMMA NobodyLeft ==
  ASSUME UseCounted, NEW e \in Entries, use[e] = 0
  PROVE  UsersOf(e) = {}
BY UsersFinite, FS_EmptySet DEF UseCounted

\* Any other entry has one.
LEMMA SomeUser ==
  ASSUME UseCounted, NEW e \in Entries, use[e] # 0
  PROVE  \E c \in Procs : at[c] = "inUse" /\ entry[c] = e
<1>1. UsersOf(e) # {}
  BY FS_EmptySet DEF UseCounted
<1> QED
  BY <1>1 DEF UsersOf

\* A user of an entry is counted, ...
LEMMA UserCounted ==
  ASSUME UseCounted, NEW e \in Entries, NEW c \in UsersOf(e)
  PROVE  use[e] \in Nat /\ use[e] >= 1
<1>1. use[e] = Cardinality(UsersOf(e)) /\ UsersOf(e) # {}
  BY DEF UseCounted
<1>2. Cardinality(UsersOf(e)) \in Nat /\ Cardinality(UsersOf(e)) # 0
  BY <1>1, UsersFinite, FS_CardinalityType, FS_EmptySet
<1> QED
  BY <1>1, <1>2

\* ... and unless the count is one there is another.
LEMMA AnotherUser ==
  ASSUME UseCounted, NEW e \in Entries, NEW c \in UsersOf(e), use[e] # 1
  PROVE  \E d \in UsersOf(e) : d # c
<1>1. SUFFICES ASSUME UsersOf(e) = {c} PROVE FALSE
  OBVIOUS
<1>2. Cardinality({c}) = 1
  BY FS_Singleton
<1> QED
  BY <1>1, <1>2 DEF UseCounted

\* A goroutine that has dialled is within the bound on connections.
LEMMA DialledCounted ==
  ASSUME TypeOK, DialsBounded, NEW c \in Dialled
  PROVE  made + 1 \in Entries
<1>1. Cardinality(Dialled) \in Nat /\ Cardinality(Dialled) # 0
  BY DialledFinite, FS_CardinalityType, FS_EmptySet
<1> QED
  BY <1>1, ConnBoundAssumption DEF TypeOK, DialsBounded, Entries

\* The entries made so far are within the bound.
LEMMA MadeKnown ==
  ASSUME TypeOK
  PROVE  made \in Nat /\ 1..made \subseteq Entries
BY ConnBoundAssumption DEF TypeOK, Entries

\* A caller that looks its host up has one, and finds an entry of it.
LEMMA TargetKnown ==
  ASSUME TypeOK, References, NEW c \in Procs,
         at[c] \in {"lookup", "dial", "install", "find"}
  PROVE  /\ c \in Callers /\ target[c] \in Hosts
         /\ conns[target[c]] # None
              => /\ conns[target[c]] \in 1..made /\ conns[target[c]] \in Entries
                 /\ host[conns[target[c]]] = target[c]
<1>1. c # Keeper /\ at[c] # "idle"
  BY DEF References, Marking
<1>2. c \in Callers /\ target[c] \in Hosts
  BY <1>1 DEF References, Procs
<1> QED
  BY <1>2, ConnBoundAssumption DEF References, TypeOK, Entries

\* A caller that works on an entry works on one that was made.
LEMMA EntryKnown ==
  ASSUME TypeOK, References, NEW c \in Procs,
         at[c] \in {"count", "share", "inUse", "release", "evict"} \cup Marking
  PROVE  entry[c] \in 1..made /\ entry[c] \in Entries
<1>1. entry[c] \in 1..made
  BY DEF References
<1> QED
  BY <1>1, ConnBoundAssumption DEF TypeOK, Entries

(* The marker c goes on at place without its entry. *)
GoesOn(c, place) ==
  /\ Goto(c, place)
  /\ entry' = [entry EXCEPT ![c] = None]
  /\ place = "sweep" <=> c = Keeper
  /\ target' = target \/ (place = "idle" /\ target' = [target EXCEPT ![c] = "none"])
  /\ retry' = retry \/ retry' = [retry EXCEPT ![c] = "no"]

\* Once an entry is marked, the keepalive goroutine goes on with its list, a
\* retry looks the host up again and any other call returns.
LEMMA MarkedPlace ==
  ASSUME NEW c \in Procs, AfterMark(c)
  PROVE  \E place \in {"sweep", "lookup", "idle"} : GoesOn(c, place)
BY DEF AfterMark, Return, GoesOn

\* The keepalive goroutine never has a session.
LEMMA KeeperPlace ==
  ASSUME References
  PROVE  Keeper \in Procs /\ at[Keeper] # "inUse"
BY DEF References, Marking, Procs

\* A goroutine that has no session before or after a step counts nowhere.
LEMMA SameUsers ==
  ASSUME UseCounted, NEW c \in Procs, at[c] # "inUse", at'[c] # "inUse", use' = use,
         \A d \in Procs \ {c} : at'[d] = at[d] /\ entry'[d] = entry[d]
  PROVE  UseCounted'
<1>1. \A e \in Entries : UsersOf(e)' = UsersOf(e)
  BY DEF UsersOf
<1> QED
  BY <1>1 DEF UseCounted

-----------------------------------------------------------------------------
(* The conjuncts of the invariant, one by one. *)

\* Every step preserves the types.
LEMMA TypeStep ==
  ASSUME TypeOK, References, DialsBounded, UseCounted, [Next]_vars
  PROVE  TypeOK'
<1> USE DEF TypeOK, Place, Marking, Goto, pool, locals, vars
<1>1. ASSUME NEW c \in Callers, NEW h \in Hosts, CallRemove(c, h) PROVE TypeOK'
  BY <1>1 DEF CallRemove
<1>2. ASSUME NEW c \in Callers, NEW h \in Hosts, NEW attempts \in {"no", "first"},
             CallExec(c, h, attempts)
      PROVE  TypeOK'
  BY <1>2 DEF CallExec
<1>3. ASSUME NEW c \in Procs, LookupMiss(c) PROVE TypeOK'
  BY <1>3 DEF LookupMiss
<1>4. ASSUME NEW c \in Procs, LookupLive(c) PROVE TypeOK'
  BY <1>4, TargetKnown DEF LookupLive
<1>5. ASSUME NEW c \in Procs, LookupDead(c) PROVE TypeOK'
  BY <1>5, TargetKnown DEF LookupDead
<1>6. ASSUME NEW c \in Procs, CountIn(c) PROVE TypeOK'
  BY <1>6, EntryKnown DEF CountIn
<1>7. ASSUME NEW c \in Procs, Evict(c) PROVE TypeOK'
  BY <1>7 DEF Evict, CloseIfIdle, CloseClient
<1>8. ASSUME NEW c \in Procs, Dial(c) PROVE TypeOK'
  BY <1>8 DEF Dial
<1>9. ASSUME NEW c \in Procs, DialFails(c) PROVE TypeOK'
  BY <1>9 DEF DialFails
<1>10. ASSUME NEW c \in Procs, InstallShared(c) PROVE TypeOK'
  BY <1>10, TargetKnown DEF InstallShared, PooledMeanwhile
<1>11. ASSUME NEW c \in Procs, Install(c) PROVE TypeOK'
  <2>1. made + 1 \in Entries
    BY <1>11, DialledCounted DEF Install, Dialled
  <2>2. target[c] \in Hosts
    BY <1>11, TargetKnown DEF Install
  <2> QED
    BY <1>11, <2>1, <2>2 DEF Install, Entries
<1>12. ASSUME NEW c \in Procs, CountOut(c) PROVE TypeOK'
  <2>1. entry[c] \in Entries
    BY <1>12, EntryKnown DEF CountOut
  <2>2. c \in UsersOf(entry[c])
    BY <1>12 DEF CountOut, UsersOf
  <2>3. use[entry[c]] - 1 \in Nat
    BY <2>1, <2>2, UserCounted
  <2> QED
    BY <1>12, <2>1, <2>3 DEF CountOut
<1>13. ASSUME NEW c \in Procs, LastUserLeaves(c) PROVE TypeOK'
  BY <1>13 DEF LastUserLeaves, CloseClient
<1>14. ASSUME NEW c \in Procs, Finish(c) PROVE TypeOK'
  BY <1>14 DEF Finish, Return
<1>15. ASSUME NEW c \in Procs, TryAgain(c) PROVE TypeOK'
  BY <1>15 DEF TryAgain
<1>16. ASSUME NEW c \in Procs, Find(c) PROVE TypeOK'
  BY <1>16, TargetKnown DEF Find, AfterMark, Return
<1>17. ASSUME NEW c \in Procs, Mark(c) PROVE TypeOK'
  <2>1. CASE dead[entry[c]]
    <3>1. PICK place \in {"sweep", "lookup", "idle"} : GoesOn(c, place)
      BY <1>17, <2>1, MarkedPlace DEF Mark
    <3>2. UNCHANGED <<conns, host, use, dead, closed, made, todo>>
      BY <1>17, <2>1 DEF Mark
    <3> QED
      BY <3>1, <3>2 DEF GoesOn
  <2>2. CASE ~dead[entry[c]]
    BY <1>17, <2>2 DEF Mark
  <2> QED
    BY <2>1, <2>2
<1>18. ASSUME NEW c \in Procs, Unpool(c) PROVE TypeOK'
  BY <1>18 DEF Unpool
<1>19. ASSUME NEW c \in Procs, Reap(c) PROVE TypeOK'
  <2>1. PICK place \in {"sweep", "lookup", "idle"} : GoesOn(c, place)
    BY <1>19, MarkedPlace DEF Reap
  <2>2. closed' \in [Entries -> BOOLEAN] /\ UNCHANGED <<conns, host, use, dead, made, todo>>
    BY <1>19 DEF Reap, CloseIfIdle, CloseClient
  <2> QED
    BY <2>1, <2>2 DEF GoesOn
<1>20. ASSUME CallKeepalive PROVE TypeOK'
  <2>1. todo' \subseteq Entries
    BY <1>20 DEF CallKeepalive
  <2> QED
    BY <1>20, <2>1 DEF CallKeepalive
<1>21. ASSUME KeepaliveDone PROVE TypeOK'
  BY <1>21 DEF KeepaliveDone, Return
<1>22. ASSUME NEW e \in todo, KeepaliveAnswered(e) PROVE TypeOK'
  BY <1>22 DEF KeepaliveAnswered
<1>23. ASSUME NEW e \in todo, KeepaliveFails(e) PROVE TypeOK'
  BY <1>23 DEF KeepaliveFails
<1>24. ASSUME UNCHANGED vars PROVE TypeOK'
  BY <1>24
<1> QED
  BY <1>1, <1>2, <1>3, <1>4, <1>5, <1>6, <1>7, <1>8, <1>9, <1>10, <1>11, <1>12, <1>13,
     <1>14, <1>15, <1>16, <1>17, <1>18, <1>19, <1>20, <1>21, <1>22, <1>23, <1>24 DEF Next, Step

\* Every step leaves behind references to entries that were made.
LEMMA ReferencesStep ==
  ASSUME TypeOK, References, DialsBounded, [Next]_vars
  PROVE  References'
<1> USE DEF TypeOK, References, Place, Marking, Goto, pool, locals, vars
<1>1. ASSUME NEW c \in Callers, NEW h \in Hosts, CallRemove(c, h) PROVE References'
  BY <1>1, KeeperAssumption DEF CallRemove
<1>2. ASSUME NEW c \in Callers, NEW h \in Hosts, NEW attempts \in {"no", "first"},
             CallExec(c, h, attempts)
      PROVE  References'
  BY <1>2, KeeperAssumption DEF CallExec
<1>3. ASSUME NEW c \in Procs, LookupMiss(c) PROVE References'
  BY <1>3, TargetKnown DEF LookupMiss
<1>4. ASSUME NEW c \in Procs, LookupLive(c) PROVE References'
  BY <1>4, TargetKnown DEF LookupLive
<1>5. ASSUME NEW c \in Procs, LookupDead(c) PROVE References'
  BY <1>5, TargetKnown DEF LookupDead
<1>6. ASSUME NEW c \in Procs, CountIn(c) PROVE References'
  BY <1>6, EntryKnown DEF CountIn
<1>7. ASSUME NEW c \in Procs, Evict(c) PROVE References'
  BY <1>7, TargetKnown DEF Evict, CloseIfIdle, CloseClient
<1>8. ASSUME NEW c \in Procs, Dial(c) PROVE References'
  BY <1>8, TargetKnown DEF Dial
<1>9. ASSUME NEW c \in Procs, DialFails(c) PROVE References'
  BY <1>9, TargetKnown DEF DialFails
<1>10. ASSUME NEW c \in Procs, InstallShared(c) PROVE References'
  BY <1>10, TargetKnown DEF InstallShared, PooledMeanwhile
<1>11. ASSUME NEW c \in Procs, Install(c) PROVE References'
  <2>1. made + 1 \in Entries /\ made \in Nat
    BY <1>11, DialledCounted DEF Install, Dialled
  <2>2. c \in Callers /\ target[c] \in Hosts
    BY <1>11, TargetKnown DEF Install
  <2>3. 1..made' = (1..made) \cup {made'}
    BY <1>11, <2>1 DEF Install
  <2> QED
    BY <1>11, <2>1, <2>2, <2>3 DEF Install
<1>12. ASSUME NEW c \in Procs, CountOut(c) PROVE References'
  BY <1>12, EntryKnown DEF CountOut
<1>13. ASSUME NEW c \in Procs, LastUserLeaves(c) PROVE References'
  BY <1>13, EntryKnown DEF LastUserLeaves, CloseClient
<1>14. ASSUME NEW c \in Procs, Finish(c) PROVE References'
  BY <1>14 DEF Finish, Return
<1>15. ASSUME NEW c \in Procs, TryAgain(c) PROVE References'
  BY <1>15 DEF TryAgain
<1>16. ASSUME NEW c \in Procs, Find(c) PROVE References'
  <2>1. CASE conns[target[c]] = None
    <3>1. PICK place \in {"sweep", "lookup", "idle"} : GoesOn(c, place)
      BY <1>16, <2>1, MarkedPlace DEF Find
    <3> QED
      BY <1>16, <3>1, TargetKnown DEF Find, GoesOn
  <2>2. CASE conns[target[c]] # None
    <3>1. c \in Callers /\ c # Keeper
      BY <1>16, TargetKnown, KeeperAssumption DEF Find
    <3>2. /\ at[c] = "find" /\ at' = [at EXCEPT ![c] = "mark"]
          /\ entry' = [entry EXCEPT ![c] = conns[target[c]]]
          /\ UNCHANGED <<pool, target, todo>>
      BY <1>16, <2>2 DEF Find
    <3>3. conns[target[c]] \in 1..made
      BY <1>16, <2>2, TargetKnown DEF Find
    <3> QED
      BY <3>1, <3>2, <3>3
  <2> QED
    BY <2>1, <2>2
<1>17. ASSUME NEW c \in Procs, Mark(c) PROVE References'
  <2>1. CASE dead[entry[c]]
    <3>1. PICK place \in {"sweep", "lookup", "idle"} : GoesOn(c, place)
      BY <1>17, <2>1, MarkedPlace DEF Mark
    <3> QED
      BY <1>17, <2>1, <3>1 DEF Mark, GoesOn
  <2>2. CASE ~dead[entry[c]]
    <3>1. entry[c] \in 1..made /\ entry[c] \in Entries
      BY <1>17, EntryKnown DEF Mark
    <3>2. /\ at[c] = "mark" /\ at' = [at EXCEPT ![c] = "unpool"]
          /\ dead' = [dead EXCEPT ![entry[c]] = TRUE]
          /\ UNCHANGED <<conns, host, made, todo, target, entry>>
      BY <1>17, <2>2 DEF Mark
    <3> QED
      BY <3>1, <3>2
  <2> QED
    BY <2>1, <2>2
<1>18. ASSUME NEW c \in Procs, Unpool(c) PROVE References'
  BY <1>18, EntryKnown DEF Unpool
<1>19. ASSUME NEW c \in Procs, Reap(c) PROVE References'
  <2>1. PICK place \in {"sweep", "lookup", "idle"} : GoesOn(c, place)
    BY <1>19, MarkedPlace DEF Reap
  <2> QED
    BY <1>19, <2>1 DEF Reap, GoesOn
<1>20. ASSUME CallKeepalive PROVE References'
  BY <1>20 DEF CallKeepalive
<1>21. ASSUME KeepaliveDone PROVE References'
  BY <1>21 DEF KeepaliveDone, Return
<1>22. ASSUME NEW e \in todo, KeepaliveAnswered(e) PROVE References'
  BY <1>22 DEF KeepaliveAnswered
<1>23. ASSUME NEW e \in todo, KeepaliveFails(e) PROVE References'
  BY <1>23 DEF KeepaliveFails
<1>24. ASSUME UNCHANGED vars PROVE References'
  BY <1>24
<1> QED
  BY <1>1, <1>2, <1>3, <1>4, <1>5, <1>6, <1>7, <1>8, <1>9, <1>10, <1>11, <1>12, <1>13,
     <1>14, <1>15, <1>16, <1>17, <1>18, <1>19, <1>20, <1>21, <1>22, <1>23, <1>24 DEF Next, Step

\* Every step keeps an entry for each connection that was dialled.
LEMMA DialsStep ==
  ASSUME TypeOK, References, DialsBounded, [Next]_vars
  PROVE  DialsBounded'
<1> USE DEF TypeOK, DialsBounded, Goto, pool, locals, vars
<1>1. ASSUME NEW c \in Callers, NEW h \in Hosts, CallRemove(c, h) PROVE DialsBounded'
  <2>1. Dialled' = Dialled /\ made' = made
    BY <1>1 DEF Dialled, CallRemove
  <2> QED
    BY <2>1
<1>2. ASSUME NEW c \in Callers, NEW h \in Hosts, NEW attempts \in {"no", "first"},
             CallExec(c, h, attempts)
      PROVE  DialsBounded'
  <2>1. Dialled' = Dialled /\ made' = made
    BY <1>2 DEF Dialled, CallExec
  <2> QED
    BY <2>1
<1>3. ASSUME NEW c \in Procs, LookupMiss(c) PROVE DialsBounded'
  <2>1. Dialled' = Dialled /\ made' = made
    BY <1>3 DEF Dialled, LookupMiss
  <2> QED
    BY <2>1
<1>4. ASSUME NEW c \in Procs, LookupLive(c) PROVE DialsBounded'
  <2>1. Dialled' = Dialled /\ made' = made
    BY <1>4 DEF Dialled, LookupLive
  <2> QED
    BY <2>1
<1>5. ASSUME NEW c \in Procs, LookupDead(c) PROVE DialsBounded'
  <2>1. Dialled' = Dialled /\ made' = made
    BY <1>5 DEF Dialled, LookupDead
  <2> QED
    BY <2>1
<1>6. ASSUME NEW c \in Procs, CountIn(c) PROVE DialsBounded'
  <2>1. Dialled' = Dialled /\ made' = made
    BY <1>6 DEF Dialled, CountIn
  <2> QED
    BY <2>1
<1>7. ASSUME NEW c \in Procs, Evict(c) PROVE DialsBounded'
  <2>1. Dialled' = Dialled /\ made' = made
    BY <1>7 DEF Dialled, Evict, CloseIfIdle, CloseClient
  <2> QED
    BY <2>1
<1>8. ASSUME NEW c \in Procs, Dial(c) PROVE DialsBounded'
  <2>1. Dialled' = Dialled \cup {c} /\ c \notin Dialled /\ made' = made
    BY <1>8 DEF Dialled, Dial
  <2>2. Cardinality(Dialled') = Cardinality(Dialled) + 1
    BY <2>1, DialledFinite, FS_AddElement
  <2>3. Cardinality(Dialled) \in Nat
    BY DialledFinite, FS_CardinalityType
  <2> QED
    BY <1>8, <2>1, <2>2, <2>3, ConnBoundAssumption DEF Dial
<1>9. ASSUME NEW c \in Procs, DialFails(c) PROVE DialsBounded'
  <2>1. Dialled' = Dialled /\ made' = made
    BY <1>9 DEF Dialled, DialFails
  <2> QED
    BY <2>1
<1>10. ASSUME NEW c \in Procs, InstallShared(c) PROVE DialsBounded'
  <2>1. Dialled' = Dialled \ {c} /\ c \in Dialled /\ made' = made
    BY <1>10 DEF Dialled, InstallShared
  <2>2. Cardinality(Dialled') = Cardinality(Dialled) - 1
    BY <2>1, DialledFinite, FS_RemoveElement
  <2>3. Cardinality(Dialled) \in Nat
    BY DialledFinite, FS_CardinalityType
  <2> QED
    BY <2>1, <2>2, <2>3, ConnBoundAssumption
<1>11. ASSUME NEW c \in Procs, Install(c) PROVE DialsBounded'
  <2>1. Dialled' = Dialled \ {c} /\ c \in Dialled /\ made' = made + 1
    BY <1>11 DEF Dialled, Install
  <2>2. Cardinality(Dialled') = Cardinality(Dialled) - 1
    BY <2>1, DialledFinite, FS_RemoveElement
  <2>3. Cardinality(Dialled) \in Nat
    BY DialledFinite, FS_CardinalityType
  <2> QED
    BY <2>1, <2>2, <2>3, ConnBoundAssumption
<1>12. ASSUME NEW c \in Procs, CountOut(c) PROVE DialsBounded'
  <2>1. Dialled' = Dialled /\ made' = made
    BY <1>12 DEF Dialled, CountOut
  <2> QED
    BY <2>1
<1>13. ASSUME NEW c \in Procs, LastUserLeaves(c) PROVE DialsBounded'
  <2>1. Dialled' = Dialled /\ made' = made
    BY <1>13 DEF Dialled, LastUserLeaves, CloseClient
  <2> QED
    BY <2>1
<1>14. ASSUME NEW c \in Procs, Finish(c) PROVE DialsBounded'
  <2>1. Dialled' = Dialled /\ made' = made
    BY <1>14 DEF Dialled, Finish, Return
  <2> QED
    BY <2>1
<1>15. ASSUME NEW c \in Procs, TryAgain(c) PROVE DialsBounded'
  <2>1. Dialled' = Dialled /\ made' = made
    BY <1>15 DEF Dialled, TryAgain
  <2> QED
    BY <2>1
<1>16. ASSUME NEW c \in Procs, Find(c) PROVE DialsBounded'
  <2>1. Dialled' = Dialled /\ made' = made
    BY <1>16 DEF Dialled, Find, AfterMark, Return
  <2> QED
    BY <2>1
<1>17. ASSUME NEW c \in Procs, Mark(c) PROVE DialsBounded'
  <2>1. Dialled' = Dialled /\ made' = made
    BY <1>17 DEF Dialled, Mark, AfterMark, Return
  <2> QED
    BY <2>1
<1>18. ASSUME NEW c \in Procs, Unpool(c) PROVE DialsBounded'
  <2>1. Dialled' = Dialled /\ made' = made
    BY <1>18 DEF Dialled, Unpool
  <2> QED
    BY <2>1
<1>19. ASSUME NEW c \in Procs, Reap(c) PROVE DialsBounded'
  <2>1. Dialled' = Dialled /\ made' = made
    BY <1>19 DEF Dialled, Reap, CloseIfIdle, CloseClient, AfterMark, Return
  <2> QED
    BY <2>1
<1>20. ASSUME CallKeepalive PROVE DialsBounded'
  <2>1. Dialled' = Dialled /\ made' = made
    BY <1>20 DEF Dialled, CallKeepalive
  <2> QED
    BY <2>1
<1>21. ASSUME KeepaliveDone PROVE DialsBounded'
  <2>1. Dialled' = Dialled /\ made' = made
    BY <1>21 DEF Dialled, KeepaliveDone, Return
  <2> QED
    BY <2>1
<1>22. ASSUME NEW e \in todo, KeepaliveAnswered(e) PROVE DialsBounded'
  <2>1. Dialled' = Dialled /\ made' = made
    BY <1>22 DEF Dialled, KeepaliveAnswered
  <2> QED
    BY <2>1
<1>23. ASSUME NEW e \in todo, KeepaliveFails(e) PROVE DialsBounded'
  <2>1. Dialled' = Dialled /\ made' = made
    BY <1>23 DEF Dialled, KeepaliveFails
  <2> QED
    BY <2>1
<1>24. ASSUME UNCHANGED vars PROVE DialsBounded'
  <2>1. Dialled' = Dialled /\ made' = made
    BY <1>24 DEF Dialled
  <2> QED
    BY <2>1
<1> QED
  BY <1>1, <1>2, <1>3, <1>4, <1>5, <1>6, <1>7, <1>8, <1>9, <1>10, <1>11, <1>12, <1>13,
     <1>14, <1>15, <1>16, <1>17, <1>18, <1>19, <1>20, <1>21, <1>22, <1>23, <1>24 DEF Next, Step

\* Every step counts the sessions it begins and ends.
LEMMA UseStep ==
  ASSUME TypeOK, References, DialsBounded, UseCounted, [Next]_vars
  PROVE  UseCounted'
<1> USE DEF TypeOK, Goto, pool, locals, vars
<1>1. ASSUME NEW c \in Callers, NEW h \in Hosts, CallRemove(c, h) PROVE UseCounted'
  BY <1>1, SameUsers DEF CallRemove, Procs
<1>2. ASSUME NEW c \in Callers, NEW h \in Hosts, NEW attempts \in {"no", "first"},
             CallExec(c, h, attempts)
      PROVE  UseCounted'
  BY <1>2, SameUsers DEF CallExec, Procs
<1>3. ASSUME NEW c \in Procs, LookupMiss(c) PROVE UseCounted'
  BY <1>3, SameUsers DEF LookupMiss
<1>4. ASSUME NEW c \in Procs, LookupLive(c) PROVE UseCounted'
  BY <1>4, SameUsers DEF LookupLive
<1>5. ASSUME NEW c \in Procs, LookupDead(c) PROVE UseCounted'
  BY <1>5, SameUsers DEF LookupDead
<1>6. ASSUME NEW c \in Procs, CountIn(c) PROVE UseCounted'
  <2>1. PICK e \in Entries : e = entry[c]
    BY <1>6, EntryKnown DEF CountIn
  <2>2. UsersOf(e)' = UsersOf(e) \cup {c} /\ c \notin UsersOf(e)
    BY <1>6, <2>1 DEF CountIn, UsersOf
  <2>3. \A d \in Entries \ {e} : UsersOf(d)' = UsersOf(d)
    BY <1>6, <2>1 DEF CountIn, UsersOf
  <2>4. Cardinality(UsersOf(e)') = Cardinality(UsersOf(e)) + 1
    BY <2>2, UsersFinite, FS_AddElement
  <2>5. use' = [use EXCEPT ![e] = @ + 1]
    BY <1>6, <2>1 DEF CountIn
  <2> QED
    BY <2>1, <2>3, <2>4, <2>5 DEF UseCounted
<1>7. ASSUME NEW c \in Procs, Evict(c) PROVE UseCounted'
  BY <1>7, SameUsers DEF Evict, CloseIfIdle, CloseClient
<1>8. ASSUME NEW c \in Procs, Dial(c) PROVE UseCounted'
  BY <1>8, SameUsers DEF Dial
<1>9. ASSUME NEW c \in Procs, DialFails(c) PROVE UseCounted'
  BY <1>9, SameUsers DEF DialFails
<1>10. ASSUME NEW c \in Procs, InstallShared(c) PROVE UseCounted'
  BY <1>10, SameUsers DEF InstallShared, PooledMeanwhile
<1>11. ASSUME NEW c \in Procs, Install(c) PROVE UseCounted'
  <2>1. PICK e \in Entries : e = made + 1 /\ e \notin 1..made
    BY <1>11, DialledCounted, MadeKnown DEF Install, Dialled
  <2>2. \A d \in Procs : at[d] = "inUse" => entry[d] # e
    BY <2>1, EntryKnown
  <2>3. UsersOf(e)' = {c}
    BY <1>11, <2>1, <2>2 DEF Install, UsersOf
  <2>4. \A d \in Entries \ {e} : UsersOf(d)' = UsersOf(d)
    BY <1>11, <2>1 DEF Install, UsersOf
  <2>5. Cardinality({c}) = 1
    BY FS_Singleton
  <2>6. use' = [use EXCEPT ![e] = 1]
    BY <1>11, <2>1 DEF Install
  <2> QED
    BY <2>1, <2>3, <2>4, <2>5, <2>6 DEF UseCounted
<1>12. ASSUME NEW c \in Procs, CountOut(c) PROVE UseCounted'
  <2>1. PICK e \in Entries : e = entry[c]
    BY <1>12, EntryKnown DEF CountOut
  <2>2. UsersOf(e)' = UsersOf(e) \ {c} /\ c \in UsersOf(e)
    BY <1>12, <2>1 DEF CountOut, UsersOf
  <2>3. \A d \in Entries \ {e} : UsersOf(d)' = UsersOf(d)
    BY <1>12, <2>1 DEF CountOut, UsersOf
  <2>4. Cardinality(UsersOf(e)') = Cardinality(UsersOf(e)) - 1
    BY <2>2, UsersFinite, FS_RemoveElement
  <2>5. use' = [use EXCEPT ![e] = @ - 1]
    BY <1>12, <2>1 DEF CountOut
  <2> QED
    BY <2>1, <2>3, <2>4, <2>5 DEF UseCounted
<1>13. ASSUME NEW c \in Procs, LastUserLeaves(c) PROVE UseCounted'
  BY <1>13, SameUsers DEF LastUserLeaves, CloseClient
<1>14. ASSUME NEW c \in Procs, Finish(c) PROVE UseCounted'
  BY <1>14, SameUsers DEF Finish, Return
<1>15. ASSUME NEW c \in Procs, TryAgain(c) PROVE UseCounted'
  BY <1>15, SameUsers DEF TryAgain
<1>16. ASSUME NEW c \in Procs, Find(c) PROVE UseCounted'
  <2>1. /\ at[c] # "inUse" /\ at'[c] # "inUse" /\ use' = use
        /\ \A d \in Procs \ {c} : at'[d] = at[d] /\ entry'[d] = entry[d]
    BY <1>16 DEF Find, AfterMark, Return
  <2> QED
    BY <2>1, SameUsers
<1>17. ASSUME NEW c \in Procs, Mark(c) PROVE UseCounted'
  <2>1. /\ at[c] # "inUse" /\ at'[c] # "inUse" /\ use' = use
        /\ \A d \in Procs \ {c} : at'[d] = at[d] /\ entry'[d] = entry[d]
    BY <1>17 DEF Mark, AfterMark, Return
  <2> QED
    BY <2>1, SameUsers
<1>18. ASSUME NEW c \in Procs, Unpool(c) PROVE UseCounted'
  BY <1>18, SameUsers DEF Unpool
<1>19. ASSUME NEW c \in Procs, Reap(c) PROVE UseCounted'
  BY <1>19, SameUsers DEF Reap, CloseIfIdle, CloseClient, AfterMark, Return
<1>20. ASSUME CallKeepalive PROVE UseCounted'
  <2>1. /\ at[Keeper] # "inUse" /\ at'[Keeper] # "inUse" /\ use' = use
        /\ \A d \in Procs \ {Keeper} : at'[d] = at[d] /\ entry'[d] = entry[d]
    BY <1>20, KeeperPlace DEF CallKeepalive
  <2> QED
    BY <2>1, SameUsers DEF Procs
<1>21. ASSUME KeepaliveDone PROVE UseCounted'
  <2>1. /\ at[Keeper] # "inUse" /\ at'[Keeper] # "inUse" /\ use' = use
        /\ \A d \in Procs \ {Keeper} : at'[d] = at[d] /\ entry'[d] = entry[d]
    BY <1>21, KeeperPlace DEF KeepaliveDone, Return
  <2> QED
    BY <2>1, SameUsers DEF Procs
<1>22. ASSUME NEW e \in todo, KeepaliveAnswered(e) PROVE UseCounted'
  <2>1. /\ at[Keeper] # "inUse" /\ at'[Keeper] # "inUse" /\ use' = use
        /\ \A d \in Procs \ {Keeper} : at'[d] = at[d] /\ entry'[d] = entry[d]
    BY <1>22, KeeperPlace DEF KeepaliveAnswered
  <2> QED
    BY <2>1, SameUsers DEF Procs
<1>23. ASSUME NEW e \in todo, KeepaliveFails(e) PROVE UseCounted'
  <2>1. /\ at[Keeper] # "inUse" /\ at'[Keeper] # "inUse" /\ use' = use
        /\ \A d \in Procs \ {Keeper} : at'[d] = at[d] /\ entry'[d] = entry[d]
    BY <1>23, KeeperPlace DEF KeepaliveFails
  <2> QED
    BY <2>1, SameUsers DEF Procs
<1>24. ASSUME UNCHANGED vars PROVE UseCounted'
  <2>1. \A e \in Entries : UsersOf(e)' = UsersOf(e)
    BY <1>24 DEF UsersOf
  <2> QED
    BY <1>24, <2>1 DEF UseCounted
<1> QED
  BY <1>1, <1>2, <1>3, <1>4, <1>5, <1>6, <1>7, <1>8, <1>9, <1>10, <1>11, <1>12, <1>13,
     <1>14, <1>15, <1>16, <1>17, <1>18, <1>19, <1>20, <1>21, <1>22, <1>23, <1>24 DEF Next, Step

\* Every step marks an entry dead before it takes it out of the pool.
LEMMA DeadStep ==
  ASSUME TypeOK, References, DeadOnTheWay, [Next]_vars
  PROVE  DeadOnTheWay'
<1> USE DEF TypeOK, DeadOnTheWay, Goto, pool, locals, vars
<1>1. ASSUME NEW c \in Callers, NEW h \in Hosts, CallRemove(c, h) PROVE DeadOnTheWay'
  BY <1>1 DEF CallRemove
<1>2. ASSUME NEW c \in Callers, NEW h \in Hosts, NEW attempts \in {"no", "first"},
             CallExec(c, h, attempts)
      PROVE  DeadOnTheWay'
  BY <1>2 DEF CallExec
<1>3. ASSUME NEW c \in Procs, LookupMiss(c) PROVE DeadOnTheWay'
  BY <1>3 DEF LookupMiss
<1>4. ASSUME NEW c \in Procs, LookupLive(c) PROVE DeadOnTheWay'
  BY <1>4 DEF LookupLive
<1>5. ASSUME NEW c \in Procs, LookupDead(c) PROVE DeadOnTheWay'
  BY <1>5 DEF LookupDead
<1>6. ASSUME NEW c \in Procs, CountIn(c) PROVE DeadOnTheWay'
  BY <1>6 DEF CountIn
<1>7. ASSUME NEW c \in Procs, Evict(c) PROVE DeadOnTheWay'
  BY <1>7 DEF Evict, CloseIfIdle, CloseClient
<1>8. ASSUME NEW c \in Procs, Dial(c) PROVE DeadOnTheWay'
  BY <1>8 DEF Dial
<1>9. ASSUME NEW c \in Procs, DialFails(c) PROVE DeadOnTheWay'
  BY <1>9 DEF DialFails
<1>10. ASSUME NEW c \in Procs, InstallShared(c) PROVE DeadOnTheWay'
  BY <1>10 DEF InstallShared, PooledMeanwhile
<1>11. ASSUME NEW c \in Procs, Install(c) PROVE DeadOnTheWay'
  BY <1>11 DEF Install, PooledMeanwhile
<1>12. ASSUME NEW c \in Procs, CountOut(c) PROVE DeadOnTheWay'
  BY <1>12 DEF CountOut
<1>13. ASSUME NEW c \in Procs, LastUserLeaves(c) PROVE DeadOnTheWay'
  BY <1>13 DEF LastUserLeaves, CloseClient
<1>14. ASSUME NEW c \in Procs, Finish(c) PROVE DeadOnTheWay'
  BY <1>14 DEF Finish, Return
<1>15. ASSUME NEW c \in Procs, TryAgain(c) PROVE DeadOnTheWay'
  BY <1>15 DEF TryAgain
<1>16. ASSUME NEW c \in Procs, Find(c) PROVE DeadOnTheWay'
  BY <1>16 DEF Find, AfterMark, Return
<1>17. ASSUME NEW c \in Procs, Mark(c) PROVE DeadOnTheWay'
  BY <1>17, EntryKnown DEF Mark, AfterMark, Return, Marking
<1>18. ASSUME NEW c \in Procs, Unpool(c) PROVE DeadOnTheWay'
  BY <1>18 DEF Unpool
<1>19. ASSUME NEW c \in Procs, Reap(c) PROVE DeadOnTheWay'
  BY <1>19 DEF Reap, CloseIfIdle, CloseClient, AfterMark, Return
<1>20. ASSUME CallKeepalive PROVE DeadOnTheWay'
  BY <1>20 DEF CallKeepalive
<1>21. ASSUME KeepaliveDone PROVE DeadOnTheWay'
  BY <1>21 DEF KeepaliveDone, Return
<1>22. ASSUME NEW e \in todo, KeepaliveAnswered(e) PROVE DeadOnTheWay'
  BY <1>22 DEF KeepaliveAnswered
<1>23. ASSUME NEW e \in todo, KeepaliveFails(e) PROVE DeadOnTheWay'
  BY <1>23 DEF KeepaliveFails
<1>24. ASSUME UNCHANGED vars PROVE DeadOnTheWay'
  BY <1>24
<1> QED
  BY <1>1, <1>2, <1>3, <1>4, <1>5, <1>6, <1>7, <1>8, <1>9, <1>10, <1>11, <1>12, <1>13,
     <1>14, <1>15, <1>16, <1>17, <1>18, <1>19, <1>20, <1>21, <1>22, <1>23, <1>24 DEF Next, Step

\* Every step closes only an entry that is dead.
LEMMA ClosedStep ==
  ASSUME TypeOK, DeadOnTheWay, ClosedIsDead, [Next]_vars
  PROVE  ClosedIsDead'
<1> USE DEF TypeOK, DeadOnTheWay, ClosedIsDead, Goto, pool, locals, vars
<1>1. ASSUME NEW c \in Callers, NEW h \in Hosts, CallRemove(c, h) PROVE ClosedIsDead'
  BY <1>1 DEF CallRemove
<1>2. ASSUME NEW c \in Callers, NEW h \in Hosts, NEW attempts \in {"no", "first"},
             CallExec(c, h, attempts)
      PROVE  ClosedIsDead'
  BY <1>2 DEF CallExec
<1>3. ASSUME NEW c \in Procs, LookupMiss(c) PROVE ClosedIsDead'
  BY <1>3 DEF LookupMiss
<1>4. ASSUME NEW c \in Procs, LookupLive(c) PROVE ClosedIsDead'
  BY <1>4 DEF LookupLive
<1>5. ASSUME NEW c \in Procs, LookupDead(c) PROVE ClosedIsDead'
  BY <1>5 DEF LookupDead
<1>6. ASSUME NEW c \in Procs, CountIn(c) PROVE ClosedIsDead'
  BY <1>6 DEF CountIn
<1>7. ASSUME NEW c \in Procs, Evict(c) PROVE ClosedIsDead'
  BY <1>7 DEF Evict, CloseIfIdle, CloseClient
<1>8. ASSUME NEW c \in Procs, Dial(c) PROVE ClosedIsDead'
  BY <1>8 DEF Dial
<1>9. ASSUME NEW c \in Procs, DialFails(c) PROVE ClosedIsDead'
  BY <1>9 DEF DialFails
<1>10. ASSUME NEW c \in Procs, InstallShared(c) PROVE ClosedIsDead'
  BY <1>10 DEF InstallShared, PooledMeanwhile
<1>11. ASSUME NEW c \in Procs, Install(c) PROVE ClosedIsDead'
  BY <1>11 DEF Install, PooledMeanwhile
<1>12. ASSUME NEW c \in Procs, CountOut(c) PROVE ClosedIsDead'
  BY <1>12 DEF CountOut
<1>13. ASSUME NEW c \in Procs, LastUserLeaves(c) PROVE ClosedIsDead'
  BY <1>13 DEF LastUserLeaves, CloseClient
<1>14. ASSUME NEW c \in Procs, Finish(c) PROVE ClosedIsDead'
  BY <1>14 DEF Finish, Return
<1>15. ASSUME NEW c \in Procs, TryAgain(c) PROVE ClosedIsDead'
  BY <1>15 DEF TryAgain
<1>16. ASSUME NEW c \in Procs, Find(c) PROVE ClosedIsDead'
  BY <1>16 DEF Find, AfterMark, Return
<1>17. ASSUME NEW c \in Procs, Mark(c) PROVE ClosedIsDead'
  BY <1>17 DEF Mark, AfterMark, Return
<1>18. ASSUME NEW c \in Procs, Unpool(c) PROVE ClosedIsDead'
  BY <1>18 DEF Unpool
<1>19. ASSUME NEW c \in Procs, Reap(c) PROVE ClosedIsDead'
  BY <1>19 DEF Reap, CloseIfIdle, CloseClient, AfterMark, Return
<1>20. ASSUME CallKeepalive PROVE ClosedIsDead'
  BY <1>20 DEF CallKeepalive
<1>21. ASSUME KeepaliveDone PROVE ClosedIsDead'
  BY <1>21 DEF KeepaliveDone, Return
<1>22. ASSUME NEW e \in todo, KeepaliveAnswered(e) PROVE ClosedIsDead'
  BY <1>22 DEF KeepaliveAnswered
<1>23. ASSUME NEW e \in todo, KeepaliveFails(e) PROVE ClosedIsDead'
  BY <1>23 DEF KeepaliveFails
<1>24. ASSUME UNCHANGED vars PROVE ClosedIsDead'
  BY <1>24
<1> QED
  BY <1>1, <1>2, <1>3, <1>4, <1>5, <1>6, <1>7, <1>8, <1>9, <1>10, <1>11, <1>12, <1>13,
     <1>14, <1>15, <1>16, <1>17, <1>18, <1>19, <1>20, <1>21, <1>22, <1>23, <1>24 DEF Next, Step

\* Every step leaves the live connections in the pool.
LEMMA LiveStep ==
  ASSUME TypeOK, References, DialsBounded, DeadOnTheWay, LiveIsPooled, [Next]_vars
  PROVE  LiveIsPooled'
<1> USE DEF TypeOK, DeadOnTheWay, LiveIsPooled, Goto, pool, locals, vars
<1>1. ASSUME NEW c \in Callers, NEW h \in Hosts, CallRemove(c, h) PROVE LiveIsPooled'
  BY <1>1 DEF CallRemove
<1>2. ASSUME NEW c \in Callers, NEW h \in Hosts, NEW attempts \in {"no", "first"},
             CallExec(c, h, attempts)
      PROVE  LiveIsPooled'
  BY <1>2 DEF CallExec
<1>3. ASSUME NEW c \in Procs, LookupMiss(c) PROVE LiveIsPooled'
  BY <1>3 DEF LookupMiss
<1>4. ASSUME NEW c \in Procs, LookupLive(c) PROVE LiveIsPooled'
  BY <1>4 DEF LookupLive
<1>5. ASSUME NEW c \in Procs, LookupDead(c) PROVE LiveIsPooled'
  BY <1>5, TargetKnown DEF LookupDead
<1>6. ASSUME NEW c \in Procs, CountIn(c) PROVE LiveIsPooled'
  BY <1>6 DEF CountIn
<1>7. ASSUME NEW c \in Procs, Evict(c) PROVE LiveIsPooled'
  BY <1>7 DEF Evict, CloseIfIdle, CloseClient
<1>8. ASSUME NEW c \in Procs, Dial(c) PROVE LiveIsPooled'
  BY <1>8 DEF Dial
<1>9. ASSUME NEW c \in Procs, DialFails(c) PROVE LiveIsPooled'
  BY <1>9 DEF DialFails
<1>10. ASSUME NEW c \in Procs, InstallShared(c) PROVE LiveIsPooled'
  BY <1>10 DEF InstallShared, PooledMeanwhile
<1>11. ASSUME NEW c \in Procs, Install(c) PROVE LiveIsPooled'
  <2>1. made + 1 \in Entries /\ c \in Callers /\ target[c] \in Hosts
    BY <1>11, DialledCounted, TargetKnown DEF Install, Dialled
  <2>2. made \in Nat /\ made' = made + 1 /\ 1..made \subseteq Entries
    BY <1>11, MadeKnown DEF Install
  <2>3. 1..made' = (1..made) \cup {made'} /\ made' \notin 1..made
    BY <2>2
  <2>4. \A e \in 1..made : ~dead[e] => host[e] # target[c]
    <3> SUFFICES ASSUME NEW e \in 1..made, ~dead[e], host[e] = target[c] PROVE FALSE
      OBVIOUS
    <3>1. conns[target[c]] = e /\ e # None
      BY <2>2 DEF None
    <3> QED
      BY <1>11, <3>1 DEF Install, PooledMeanwhile
  <2> QED
    BY <1>11, <2>1, <2>2, <2>3, <2>4 DEF Install
<1>12. ASSUME NEW c \in Procs, CountOut(c) PROVE LiveIsPooled'
  BY <1>12 DEF CountOut
<1>13. ASSUME NEW c \in Procs, LastUserLeaves(c) PROVE LiveIsPooled'
  BY <1>13 DEF LastUserLeaves, CloseClient
<1>14. ASSUME NEW c \in Procs, Finish(c) PROVE LiveIsPooled'
  BY <1>14 DEF Finish, Return
<1>15. ASSUME NEW c \in Procs, TryAgain(c) PROVE LiveIsPooled'
  BY <1>15 DEF TryAgain
<1>16. ASSUME NEW c \in Procs, Find(c) PROVE LiveIsPooled'
  BY <1>16 DEF Find, AfterMark, Return
<1>17. ASSUME NEW c \in Procs, Mark(c) PROVE LiveIsPooled'
  <2>1. CASE dead[entry[c]]
    BY <1>17, <2>1 DEF Mark, AfterMark, Return
  <2>2. CASE ~dead[entry[c]]
    BY <1>17, <2>2, EntryKnown, MadeKnown DEF Mark, Marking
  <2> QED
    BY <2>1, <2>2
<1>18. ASSUME NEW c \in Procs, Unpool(c) PROVE LiveIsPooled'
  BY <1>18, EntryKnown DEF Unpool, Marking
<1>19. ASSUME NEW c \in Procs, Reap(c) PROVE LiveIsPooled'
  BY <1>19 DEF Reap, CloseIfIdle, CloseClient, AfterMark, Return
<1>20. ASSUME CallKeepalive PROVE LiveIsPooled'
  BY <1>20 DEF CallKeepalive
<1>21. ASSUME KeepaliveDone PROVE LiveIsPooled'
  BY <1>21 DEF KeepaliveDone, Return
<1>22. ASSUME NEW e \in todo, KeepaliveAnswered(e) PROVE LiveIsPooled'
  BY <1>22 DEF KeepaliveAnswered
<1>23. ASSUME NEW e \in todo, KeepaliveFails(e) PROVE LiveIsPooled'
  BY <1>23 DEF KeepaliveFails
<1>24. ASSUME UNCHANGED vars PROVE LiveIsPooled'
  BY <1>24
<1> QED
  BY <1>1, <1>2, <1>3, <1>4, <1>5, <1>6, <1>7, <1>8, <1>9, <1>10, <1>11, <1>12, <1>13,
     <1>14, <1>15, <1>16, <1>17, <1>18, <1>19, <1>20, <1>21, <1>22, <1>23, <1>24 DEF Next, Step

\* Every step leaves someone to close a dead connection.
LEMMA LeakStep ==
  ASSUME TypeOK, References, UseCounted, NoLeak, [Next]_vars
  PROVE  NoLeak'
<1> USE DEF TypeOK, NoLeak, Goto, pool, locals, vars
<1>1. ASSUME NEW c \in Callers, NEW h \in Hosts, CallRemove(c, h) PROVE NoLeak'
  BY <1>1 DEF CallRemove
<1>2. ASSUME NEW c \in Callers, NEW h \in Hosts, NEW attempts \in {"no", "first"},
             CallExec(c, h, attempts)
      PROVE  NoLeak'
  BY <1>2 DEF CallExec
<1>3. ASSUME NEW c \in Procs, LookupMiss(c) PROVE NoLeak'
  BY <1>3 DEF LookupMiss
<1>4. ASSUME NEW c \in Procs, LookupLive(c) PROVE NoLeak'
  BY <1>4 DEF LookupLive
<1>5. ASSUME NEW c \in Procs, LookupDead(c) PROVE NoLeak'
  BY <1>5 DEF LookupDead
<1>6. ASSUME NEW c \in Procs, CountIn(c) PROVE NoLeak'
  BY <1>6 DEF CountIn
<1>7. ASSUME NEW c \in Procs, Evict(c) PROVE NoLeak'
  <2>1. CASE use[entry[c]] = 0
    BY <1>7, <2>1, MadeKnown DEF Evict, CloseIfIdle, CloseClient
  <2>2. CASE use[entry[c]] # 0
    <3>1. PICK d \in Procs : at[d] = "inUse" /\ entry[d] = entry[c]
      BY <1>7, <2>2, EntryKnown, SomeUser DEF Evict, Marking
    <3> QED
      BY <1>7, <2>2, <3>1 DEF Evict, CloseIfIdle
  <2> QED
    BY <2>1, <2>2
<1>8. ASSUME NEW c \in Procs, Dial(c) PROVE NoLeak'
  BY <1>8 DEF Dial
<1>9. ASSUME NEW c \in Procs, DialFails(c) PROVE NoLeak'
  BY <1>9 DEF DialFails
<1>10. ASSUME NEW c \in Procs, InstallShared(c) PROVE NoLeak'
  BY <1>10 DEF InstallShared, PooledMeanwhile
<1>11. ASSUME NEW c \in Procs, Install(c) PROVE NoLeak'
  BY <1>11 DEF Install, PooledMeanwhile
<1>12. ASSUME NEW c \in Procs, CountOut(c) PROVE NoLeak'
  <2>1. CASE use[entry[c]] = 1
    BY <1>12, <2>1 DEF CountOut
  <2>2. CASE use[entry[c]] # 1
    <3>1. c \in UsersOf(entry[c]) /\ entry[c] \in Entries
      BY <1>12, EntryKnown DEF CountOut, UsersOf
    <3>2. PICK d \in Procs : d # c /\ at[d] = "inUse" /\ entry[d] = entry[c]
      BY <2>2, <3>1, AnotherUser DEF UsersOf
    <3> QED
      BY <1>12, <2>2, <3>2 DEF CountOut
  <2> QED
    BY <2>1, <2>2
<1>13. ASSUME NEW c \in Procs, LastUserLeaves(c) PROVE NoLeak'
  <2>1. CASE dead[entry[c]]
    BY <1>13, <2>1, MadeKnown DEF LastUserLeaves, CloseClient
  <2>2. CASE ~dead[entry[c]]
    BY <1>13, <2>2 DEF LastUserLeaves
  <2> QED
    BY <2>1, <2>2
<1>14. ASSUME NEW c \in Procs, Finish(c) PROVE NoLeak'
  BY <1>14 DEF Finish, Return
<1>15. ASSUME NEW c \in Procs, TryAgain(c) PROVE NoLeak'
  BY <1>15 DEF TryAgain
<1>16. ASSUME NEW c \in Procs, Find(c) PROVE NoLeak'
  BY <1>16 DEF Find, AfterMark, Return
<1>17. ASSUME NEW c \in Procs, Mark(c) PROVE NoLeak'
  <2>1. CASE dead[entry[c]]
    BY <1>17, <2>1 DEF Mark, AfterMark, Return
  <2>2. CASE ~dead[entry[c]]
    BY <1>17, <2>2, EntryKnown, MadeKnown DEF Mark, Marking
  <2> QED
    BY <2>1, <2>2
<1>18. ASSUME NEW c \in Procs, Unpool(c) PROVE NoLeak'
  BY <1>18 DEF Unpool
<1>19. ASSUME NEW c \in Procs, Reap(c) PROVE NoLeak'
  <2>1. CASE use[entry[c]] = 0
    BY <1>19, <2>1, MadeKnown DEF Reap, CloseIfIdle, CloseClient, AfterMark, Return
  <2>2. CASE use[entry[c]] # 0
    <3>1. PICK d \in Procs : at[d] = "inUse" /\ entry[d] = entry[c]
      BY <1>19, <2>2, EntryKnown, SomeUser DEF Reap, Marking
    <3> QED
      BY <1>19, <2>2, <3>1 DEF Reap, CloseIfIdle, AfterMark, Return
  <2> QED
    BY <2>1, <2>2
<1>20. ASSUME CallKeepalive PROVE NoLeak'
  BY <1>20 DEF CallKeepalive
<1>21. ASSUME KeepaliveDone PROVE NoLeak'
  BY <1>21 DEF KeepaliveDone, Return
<1>22. ASSUME NEW e \in todo, KeepaliveAnswered(e) PROVE NoLeak'
  BY <1>22 DEF KeepaliveAnswered
<1>23. ASSUME NEW e \in todo, KeepaliveFails(e) PROVE NoLeak'
  BY <1>23 DEF KeepaliveFails
<1>24. ASSUME UNCHANGED vars PROVE NoLeak'
  BY <1>24
<1> QED
  BY <1>1, <1>2, <1>3, <1>4, <1>5, <1>6, <1>7, <1>8, <1>9, <1>10, <1>11, <1>12, <1>13,
     <1>14, <1>15, <1>16, <1>17, <1>18, <1>19, <1>20, <1>21, <1>22, <1>23, <1>24 DEF Next, Step

-----------------------------------------------------------------------------
(* The theorems. *)

\* The empty pool satisfies the invariant.
LEMMA InitInvariant == Init => PoolInvariant
<1> SUFFICES ASSUME Init PROVE PoolInvariant
  OBVIOUS
<1> USE ConnBoundAssumption DEF Init
<1>1. TypeOK
  BY DEF TypeOK, Place, Marking, Entries, None
<1>2. References
  BY DEF References, Marking, Procs
<1>3. DialsBounded
  <2>1. Dialled = {}
    BY DEF Dialled
  <2> QED
    BY <2>1, FS_EmptySet DEF DialsBounded
<1>4. UseCounted
  <2>1. \A e \in Entries : UsersOf(e) = {}
    BY DEF UsersOf
  <2> QED
    BY <2>1, FS_EmptySet DEF UseCounted
<1>5. DeadOnTheWay /\ ClosedIsDead /\ LiveIsPooled /\ NoLeak
  BY DEF DeadOnTheWay, ClosedIsDead, LiveIsPooled, NoLeak
<1> QED
  BY <1>1, <1>2, <1>3, <1>4, <1>5 DEF PoolInvariant

\* Every step of the pool preserves the invariant.
LEMMA StepInvariant == PoolInvariant /\ [Next]_vars => PoolInvariant'
BY TypeStep, ReferencesStep, DialsStep, UseStep, DeadStep, ClosedStep, LiveStep, LeakStep
   DEF PoolInvariant

\* The invariant holds throughout, whatever requests, removals and keepalives
\* run concurrently.
THEOREM PoolInvariantHolds == Spec => []PoolInvariant
BY InitInvariant, StepInvariant, PTL DEF Spec

\* The pool's state always has its type: nothing is released more often than it
\* was acquired, and no entry is pooled that was not dialled.
THEOREM TypeCorrect == Spec => []TypeOK
<1>1. PoolInvariant => TypeOK
  BY DEF PoolInvariant
<1> QED
  BY <1>1, PoolInvariantHolds, PTL

\* The count of an entry is the number of its sessions: what acquireEntry,
\* Install and release add and subtract always balances.
THEOREM UseCorrect == Spec => []UseCounted
<1>1. PoolInvariant => UseCounted
  BY DEF PoolInvariant
<1> QED
  BY <1>1, PoolInvariantHolds, PTL

\* A connection is closed only after it was marked dead.
THEOREM ClosedOnlyDead == Spec => []ClosedIsDead
<1>1. PoolInvariant => ClosedIsDead
  BY DEF PoolInvariant
<1> QED
  BY <1>1, PoolInvariantHolds, PTL

\* A live connection is the pooled one of its host, so there is one per host.
THEOREM OneLivePerHost == Spec => []LiveIsPooled
<1>1. PoolInvariant => LiveIsPooled
  BY DEF PoolInvariant
<1> QED
  BY <1>1, PoolInvariantHolds, PTL

\* Someone always goes on to close a dead connection that is open.
THEOREM NothingLeaks == Spec => []NoLeak
<1>1. PoolInvariant => NoLeak
  BY DEF PoolInvariant
<1> QED
  BY <1>1, PoolInvariantHolds, PTL

\* A step that closes a connection in use is that of a leaving last user.
LEMMA SparingStep ==
  ASSUME PoolInvariant, [Next]_vars,
         NEW e \in Entries, ~closed[e], closed'[e], UsersOf(e) # {}
  PROVE  \E c \in Procs : at[c] = "release" /\ entry[c] = e
<1> USE DEF PoolInvariant, TypeOK, vars, pool, locals
<1>1. ASSUME NEW c \in Procs, LastUserLeaves(c)
      PROVE  at[c] = "release" /\ entry[c] = e
  BY <1>1 DEF LastUserLeaves, CloseClient
<1>2. use[e] # 0
  BY NobodyLeft
<1>3. ASSUME NEW c \in Procs, CloseIfIdle(entry[c]) PROVE FALSE
  BY <1>2, <1>3 DEF CloseIfIdle, CloseClient
<1>4. ASSUME NEW c \in Procs, Evict(c) \/ Reap(c) PROVE FALSE
  BY <1>3, <1>4 DEF Evict, Reap
<1>5. closed' # closed
  OBVIOUS
<1>6. ASSUME NEW c \in Procs,
             \/ LookupMiss(c) \/ LookupLive(c) \/ LookupDead(c) \/ CountIn(c)
             \/ Dial(c) \/ DialFails(c) \/ InstallShared(c) \/ Install(c)
      PROVE  FALSE
  BY <1>5, <1>6 DEF LookupMiss, LookupLive, LookupDead, CountIn, Dial, DialFails,
                    InstallShared, Install
<1>7. ASSUME NEW c \in Procs,
             \/ CountOut(c) \/ Finish(c) \/ TryAgain(c)
             \/ Find(c) \/ Mark(c) \/ Unpool(c)
      PROVE  FALSE
  BY <1>5, <1>7 DEF CountOut, Finish, TryAgain, Find, Mark, Unpool
<1>8. ASSUME NEW c \in Callers, NEW h \in Hosts,
             CallRemove(c, h) \/ \E attempts \in {"no", "first"} : CallExec(c, h, attempts)
      PROVE  FALSE
  BY <1>5, <1>8 DEF CallRemove, CallExec
<1>9. ASSUME \/ CallKeepalive \/ KeepaliveDone \/ UNCHANGED vars
             \/ \E d \in todo : KeepaliveAnswered(d) \/ KeepaliveFails(d)
      PROVE  FALSE
  BY <1>5, <1>9 DEF CallKeepalive, KeepaliveDone, KeepaliveAnswered, KeepaliveFails
<1> QED
  BY <1>1, <1>4, <1>6, <1>7, <1>8, <1>9 DEF Next, Step

\* Whoever marks a connection dead or evicts it never closes it under a
\* session: only the last user can, in the gap between its two steps.
THEOREM MarkersSpare == Spec => MarkersSpareSessions
<1>1. PoolInvariant /\ [Next]_vars
        => [\A e \in Entries : ~closed[e] /\ closed'[e] /\ UsersOf(e) # {} =>
              \E c \in Procs : at[c] = "release" /\ entry[c] = e]_vars
  BY SparingStep
<1> QED
  BY <1>1, PoolInvariantHolds, PTL DEF Spec, MarkersSpareSessions

-----------------------------------------------------------------------------
(* How many connections are open. *)
OpenEntries == {e \in 1..made : ~closed[e]}

\* Those that are not dead are at most one per host.
LEMMA LiveCounted ==
  ASSUME PoolInvariant, IsFiniteSet(Hosts)
  PROVE  LET Live == {e \in OpenEntries : ~dead[e]}
         IN  IsFiniteSet(Live) /\ Cardinality(Live) <= Cardinality(Hosts)
<1> DEFINE Live == {e \in OpenEntries : ~dead[e]}
           hostOf == [e \in Live |-> host[e]]
<1>1. ASSUME NEW e \in Live PROVE host[e] \in Hosts /\ conns[host[e]] = e
  BY <1>1 DEF PoolInvariant, References, LiveIsPooled, OpenEntries
<1>2. hostOf \in Injection(Live, Hosts)
  <2> HIDE DEF Live
  <2>1. hostOf \in [Live -> Hosts]
    BY <1>1
  <2>2. ASSUME NEW e \in Live, NEW f \in Live, hostOf[e] = hostOf[f] PROVE e = f
    BY <1>1, <2>2
  <2> HIDE DEF hostOf
  <2> QED
    BY <2>1, <2>2, Fun_IsInj
<1> HIDE DEF Live, hostOf
<1>3. IsFiniteSet(Live) /\ Cardinality(Live) <= Cardinality(Hosts)
  BY <1>2, FS_Injection
<1> QED
  BY <1>3 DEF Live

\* Those that are dead are in the hands of a call each.
Holding ==
  {c \in Procs : at[c] \in {"count", "share", "inUse", "release", "evict", "unpool", "reap"}}

LEMMA DyingCounted ==
  ASSUME PoolInvariant
  PROVE  LET Dying == {e \in OpenEntries : dead[e]}
         IN  IsFiniteSet(Dying) /\ Cardinality(Dying) <= Cardinality(Holding)
<1> DEFINE Dying == {e \in OpenEntries : dead[e]}
           holder == [e \in Dying |-> CHOOSE c \in Holding : entry[c] = e]
<1>1. ASSUME NEW e \in Dying PROVE holder[e] \in Holding /\ entry[holder[e]] = e
  <2>1. \E c \in Holding : entry[c] = e
    BY <1>1 DEF PoolInvariant, NoLeak, OpenEntries, Holding
  <2> QED
    BY <2>1
<1>2. IsFiniteSet(Holding)
  BY ProcsFinite, FS_Subset DEF Holding
<1>3. holder \in Injection(Dying, Holding)
  <2> HIDE DEF Dying
  <2>1. holder \in [Dying -> Holding]
    BY <1>1
  <2>2. ASSUME NEW e \in Dying, NEW f \in Dying, holder[e] = holder[f] PROVE e = f
    BY <1>1, <2>2
  <2> HIDE DEF holder
  <2> QED
    BY <2>1, <2>2, Fun_IsInj
<1> HIDE DEF Dying, holder
<1>4. IsFiniteSet(Dying) /\ Cardinality(Dying) <= Cardinality(Holding)
  BY <1>2, <1>3, FS_Injection
<1> QED
  BY <1>4 DEF Dying

\* The open connections, pooled or just dialled, are never more than the hosts and
\* the goroutines together, however many were dialled, lost and replaced: a call
\* that races another for the pool, or a dead connection whose close is deferred,
\* costs one connection while that call lasts.
OpenBounded ==
  /\ IsFiniteSet(OpenEntries)
  /\ Cardinality(OpenEntries) + Cardinality(Dialled) <= Cardinality(Hosts) + Cardinality(Procs)

THEOREM OpenStaysBounded ==
  ASSUME IsFiniteSet(Hosts)
  PROVE  Spec => []OpenBounded
<1>1. ASSUME PoolInvariant PROVE OpenBounded
  <2> DEFINE Live == {e \in OpenEntries : ~dead[e]}
             Dying == {e \in OpenEntries : dead[e]}
  <2>1. IsFiniteSet(Live) /\ Cardinality(Live) <= Cardinality(Hosts)
    BY <1>1, LiveCounted
  <2>2. IsFiniteSet(Dying) /\ Cardinality(Dying) <= Cardinality(Holding)
    BY <1>1, DyingCounted
  <2>3. OpenEntries = Live \cup Dying /\ Live \cap Dying = {}
    OBVIOUS
  <2>4. /\ IsFiniteSet(OpenEntries)
        /\ Cardinality(OpenEntries) = Cardinality(Live) + Cardinality(Dying) - Cardinality({})
    <3> HIDE DEF Live, Dying
    <3> QED
      BY <2>1, <2>2, <2>3, FS_Union
  <2>5. IsFiniteSet(Holding) /\ Holding \subseteq Procs
    BY ProcsFinite, FS_Subset DEF Holding
  <2>6. Holding \cap Dialled = {} /\ Holding \cup Dialled \subseteq Procs
    BY DEF Holding, Dialled
  <2>7. Cardinality(Holding) + Cardinality(Dialled) - Cardinality({}) <= Cardinality(Procs)
    <3>1. Cardinality(Holding \cup Dialled)
            = Cardinality(Holding) + Cardinality(Dialled) - Cardinality({})
      BY <2>5, <2>6, DialledFinite, FS_Union
    <3>2. Cardinality(Holding \cup Dialled) <= Cardinality(Procs)
      BY <2>6, ProcsFinite, FS_Subset
    <3> QED
      BY <3>1, <3>2
  <2>8. /\ Cardinality(Live) \in Nat /\ Cardinality(Dying) \in Nat
        /\ Cardinality(Holding) \in Nat /\ Cardinality(Dialled) \in Nat
        /\ Cardinality(Hosts) \in Nat /\ Cardinality(Procs) \in Nat /\ Cardinality({}) = 0
    BY <2>1, <2>2, <2>5, ProcsFinite, DialledFinite, FS_CardinalityType, FS_EmptySet
  <2> HIDE DEF Live, Dying
  <2> QED
    BY <2>1, <2>2, <2>4, <2>7, <2>8 DEF OpenBounded
<1> QED
  BY <1>1, PoolInvariantHolds, PTL

=============================================================================
