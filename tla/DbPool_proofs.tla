----------------------------- MODULE DbPool_proofs --------------------------
(***************************************************************************)
(* Proofs about DbPool, for every number of connections, users, databases  *)
(* and edits, and every size of the pool.                                  *)
(*                                                                         *)
(* First what the list operations of the pool do to a list without         *)
(* repetitions, then the invariant: between opening a database and putting *)
(* it into the pool an Acquire alone has it, open, and it is as stored     *)
(* unless an edit came in between.                                         *)
(***************************************************************************)
EXTENDS DbPool, FiniteSetTheorems, FunctionTheorems, TLAPS

Once(s) == \A i, j \in 1..Len(s) : s[i] = s[j] => i = j
In(v, s) == \E i \in 1..Len(s) : s[i] = v

\* A list without repetitions, followed by one thing more.
LEMMA AppendFacts ==
  ASSUME NEW s \in Seq(Conns), Once(s), NEW c \in Conns, ~In(c, s)
  PROVE  /\ Append(s, c) \in Seq(Conns)
         /\ Len(Append(s, c)) = Len(s) + 1
         /\ Once(Append(s, c))
         /\ \A v : In(v, Append(s, c)) <=> v = c \/ In(v, s)
<1> DEFINE t == Append(s, c)
<1>1. /\ t \in Seq(Conns) /\ Len(t) = Len(s) + 1
      /\ \A i \in 1..Len(s) : t[i] = s[i]
      /\ t[Len(s) + 1] = c
  OBVIOUS
<1> HIDE DEF t
<1>2. Once(t)
  BY <1>1 DEF Once, In
<1>3. ASSUME NEW v PROVE In(v, t) <=> v = c \/ In(v, s)
  <2>1. In(v, t) => v = c \/ In(v, s)
    BY <1>1 DEF In
  <2>2. v = c => In(v, t)
    <3>1. Len(s) + 1 \in 1..Len(t)
      BY <1>1
    <3> QED
      BY <1>1, <3>1 DEF In
  <2>3. In(v, s) => In(v, t)
    BY <1>1 DEF In
  <2> QED
    BY <2>1, <2>2, <2>3
<1> QED
  BY <1>1, <1>2, <1>3 DEF t

\* A list without its first n members.
LEMMA SuffixFacts ==
  ASSUME NEW s \in Seq(Conns), Once(s), NEW n \in 0..Len(s)
  PROVE  LET t == [k \in 1..(Len(s) - n) |-> s[k + n]] IN
         /\ t \in Seq(Conns)
         /\ Len(t) = Len(s) - n
         /\ Once(t)
         /\ \A v : In(v, t) <=> \E i \in (n + 1)..Len(s) : s[i] = v
<1> DEFINE m == Len(s) - n
           t == [k \in 1..m |-> s[k + n]]
<1>1. m \in Nat /\ \A k \in 1..m : k + n \in 1..Len(s) /\ s[k + n] \in Conns
  OBVIOUS
<1>2. t \in Seq(Conns) /\ Len(t) = m /\ \A k \in 1..m : t[k] = s[k + n]
  BY <1>1
<1> HIDE DEF t
<1>3. Once(t)
  BY <1>1, <1>2 DEF Once
<1>4. ASSUME NEW v PROVE In(v, t) <=> \E i \in (n + 1)..Len(s) : s[i] = v
  <2>1. ASSUME NEW i \in (n + 1)..Len(s) PROVE i - n \in 1..m /\ t[i - n] = s[i]
    BY <1>2
  <2>2. ASSUME NEW k \in 1..m PROVE k + n \in (n + 1)..Len(s) /\ t[k] = s[k + n]
    BY <1>2
  <2> QED
    BY <1>2, <2>1, <2>2 DEF In
<1> QED
  BY <1>2, <1>3, <1>4 DEF t

\* Drop takes out c and keeps the rest in its order.
LEMMA DropFacts ==
  ASSUME NEW s \in Seq(Conns), Once(s), NEW c \in Conns
  PROVE  /\ Drop(s, c) \in Seq(Conns)
         /\ Once(Drop(s, c))
         /\ Len(Drop(s, c)) = IF In(c, s) THEN Len(s) - 1 ELSE Len(s)
         /\ \A v : In(v, Drop(s, c)) <=> v # c /\ In(v, s)
<1> DEFINE Is(i) == s[i] = c /\ \A j \in 1..(i - 1) : s[j] # c
<1>1. CASE ~In(c, s)
  <2>1. Drop(s, c) = s
    BY <1>1 DEF Drop, In
  <2> QED
    BY <1>1, <2>1 DEF In
<1>2. CASE In(c, s)
  <2>1. PICK p \in 1..Len(s) : s[p] = c
    BY <1>2 DEF In
  <2>2. \A i \in 1..Len(s) : Is(i) <=> i = p
    BY <2>1 DEF Once
  <2> DEFINE n == Len(s) - 1
             t == [k \in 1..n |-> IF k < p THEN s[k] ELSE s[k + 1]]
  <2>3. Drop(s, c) = t
    <3>1. p = CHOOSE i \in 1..Len(s) : Is(i)
      BY <2>2
    <3>2. \E i \in 1..Len(s) : Is(i)
      BY <2>2
    <3> QED
      BY <3>1, <3>2 DEF Drop
  <2>4. n \in Nat /\ \A k \in 1..n : s[k] \in Conns /\ s[k + 1] \in Conns
    BY <2>1
  <2>5. /\ t \in Seq(Conns) /\ Len(t) = n
        /\ \A k \in 1..n : t[k] = IF k < p THEN s[k] ELSE s[k + 1]
    BY <2>4
  <2> HIDE DEF t
  <2>6. Once(t)
    BY <2>1, <2>4, <2>5 DEF Once
  <2>7. ASSUME NEW v PROVE In(v, t) <=> v # c /\ In(v, s)
    <3>1. ASSUME NEW k \in 1..n
          PROVE  t[k] # c /\ In(t[k], s)
      <4>1. CASE k < p
        <5>1. t[k] = s[k] /\ k \in 1..Len(s) /\ k # p
          BY <4>1, <2>5, <2>1
        <5> QED
          BY <5>1, <2>1 DEF Once, In
      <4>2. CASE ~(k < p)
        <5>1. t[k] = s[k + 1] /\ k + 1 \in 1..Len(s) /\ k + 1 # p
          BY <4>2, <2>5, <2>1
        <5> QED
          BY <5>1, <2>1 DEF Once, In
      <4> QED
        BY <4>1, <4>2
    <3>2. ASSUME NEW i \in 1..Len(s), i # p
          PROVE  In(s[i], t)
      <4>1. CASE i < p
        <5>1. i \in 1..n /\ t[i] = s[i]
          BY <4>1, <2>5, <2>1
        <5> QED
          BY <5>1, <2>5 DEF In
      <4>2. CASE i > p
        <5>1. i - 1 \in 1..n /\ t[i - 1] = s[i]
          BY <4>2, <2>5, <2>1
        <5> QED
          BY <5>1, <2>5 DEF In
      <4> QED
        BY <3>2, <4>1, <4>2
    <3>3. In(v, t) => v # c /\ In(v, s)
      BY <3>1, <2>5 DEF In
    <3>4. v # c /\ In(v, s) => In(v, t)
      BY <3>2, <2>1 DEF In
    <3> QED
      BY <3>3, <3>4
  <2> QED
    BY <1>2, <2>3, <2>5, <2>6, <2>7
<1> QED
  BY <1>1, <1>2

-----------------------------------------------------------------------------
(* A call under way is about a connection. *)
TargetKnown == \A u \in Users : at[u] # "idle" => target[u] \in Conns

(* What an Acquire has opened and not put into the pool is open, for the
   connection it wants, and in nobody else's hands. *)
OwnUntilInserted ==
  \A u \in Users : at[u] = "insert" =>
    /\ have[u] \in Dbs /\ of[have[u]] = target[u]
    /\ pool[target[u]] # have[u]
    /\ \A w \in Users : w # u => have[w] # have[u]

(* It is as stored, or an edit has missed it. *)
OpenedAsStored ==
  \A u \in Users : at[u] = "insert" =>
    ver[have[u]] = config[target[u]] \/ target[u] \in missed

PoolInvariant ==
  /\ PoolTypeOK /\ TargetKnown /\ OrderListsPool
  /\ OwnUntilInserted /\ PooledIsOpen /\ NoLeak
  /\ OpenedAsStored /\ StaleWasMissed

\* The list after an insertion: the victims are gone, c has come.
LEMMA InsertOrder ==
  ASSUME PoolTypeOK, OrderListsPool, NEW c \in Conns, pool[c] = None
  PROVE  LET t == Append([k \in 1..(Len(order) - Excess) |-> order[k + Excess]], c) IN
         /\ t \in Seq(Conns) /\ Len(t) <= PoolSize /\ Once(t)
         /\ \A v : In(v, t) <=> v = c \/ (In(v, order) /\ v \notin Victims)
         /\ c \notin Victims
<1> DEFINE s == [k \in 1..(Len(order) - Excess) |-> order[k + Excess]]
<1>1. /\ order \in Seq(Conns) /\ Once(order) /\ Len(order) \in Nat /\ Len(order) <= PoolSize
      /\ PoolSize \in Nat /\ PoolSize > 0 /\ ~In(c, order)
  BY PoolSizeAssumption DEF PoolTypeOK, OrderListsPool, Once, In
<1>2. Excess \in 0..Len(order) /\ Len(order) - Excess < PoolSize
  BY <1>1 DEF Excess
<1>3. /\ s \in Seq(Conns) /\ Len(s) = Len(order) - Excess /\ Once(s)
      /\ \A v : In(v, s) <=> \E i \in (Excess + 1)..Len(order) : order[i] = v
  BY <1>1, <1>2, SuffixFacts
<1> HIDE DEF s
<1>4. \A v : In(v, s) <=> In(v, order) /\ v \notin Victims
  <2>1. ASSUME NEW i \in (Excess + 1)..Len(order)
        PROVE  i \in 1..Len(order) /\ order[i] \notin Victims
    <3>1. i \in 1..Len(order)
      BY <1>1, <1>2
    <3>2. ASSUME NEW k \in 1..Excess PROVE order[i] # order[k]
      BY <1>1, <1>2, <3>1 DEF Once
    <3> QED
      BY <3>1, <3>2 DEF Victims
  <2>2. ASSUME NEW i \in 1..Len(order), order[i] \notin Victims
        PROVE  i \in (Excess + 1)..Len(order)
    BY <1>1, <1>2, <2>2 DEF Victims
  <2> QED
    BY <1>3, <2>1, <2>2 DEF In
<1>5. c \notin Victims
  BY <1>1, <1>2 DEF Victims, In
<1>6. ~In(c, s)
  BY <1>1, <1>4
<1>7. /\ Append(s, c) \in Seq(Conns) /\ Len(Append(s, c)) = Len(s) + 1 /\ Once(Append(s, c))
      /\ \A v : In(v, Append(s, c)) <=> v = c \/ In(v, s)
  BY <1>3, <1>6, AppendFacts
<1>8. Len(Append(s, c)) <= PoolSize
  BY <1>1, <1>2, <1>3, <1>7
<1> QED
  BY <1>4, <1>5, <1>7, <1>8 DEF s

\* Victims are connections.
LEMMA VictimsKnown ==
  ASSUME PoolTypeOK, OrderListsPool
  PROVE  Victims \subseteq Conns
<1>1. Len(order) \in Nat /\ PoolSize \in Nat \ {0}
  BY PoolSizeAssumption DEF PoolTypeOK
<1>2. Excess \in 0..Len(order)
  BY <1>1 DEF Excess, OrderListsPool
<1> QED
  BY <1>1, <1>2 DEF Victims, PoolTypeOK

\* OrderListsPool in the words of the lemmas.
LEMMA OrderInWords ==
  OrderListsPool <=> /\ Len(order) <= PoolSize /\ Once(order)
                     /\ \A c \in Conns : pool[c] # None <=> In(c, order)
BY DEF OrderListsPool, Once, In

LEMMA OrderInWordsNext ==
  OrderListsPool' <=> /\ Len(order') <= PoolSize /\ Once(order')
                      /\ \A c \in Conns : pool'[c] # None <=> In(c, order')
BY DEF OrderListsPool, Once, In

-----------------------------------------------------------------------------
(* The invariant is kept, conjunct by conjunct. *)

\* The type of the state.
LEMMA TypeStep ==
  ASSUME PoolTypeOK, TargetKnown, OrderListsPool, OwnUntilInserted, [PoolNext]_poolVars
  PROVE  PoolTypeOK'
<1> USE DEF poolVars, dbs, locals
<1>1. ASSUME NEW u \in Users, NEW c \in Conns, Hit(u, c) PROVE PoolTypeOK'
  <2>1. order \in Seq(Conns) /\ Once(order) /\ In(c, order)
    BY <1>1, OrderInWords DEF PoolTypeOK, Hit
  <2>2. /\ Drop(order, c) \in Seq(Conns) /\ Once(Drop(order, c)) /\ ~In(c, Drop(order, c))
        /\ Len(Drop(order, c)) = Len(order) - 1
        /\ \A v : In(v, Drop(order, c)) <=> v # c /\ In(v, order)
    BY <2>1, DropFacts
  <2>3. /\ Append(Drop(order, c), c) \in Seq(Conns) /\ Once(Append(Drop(order, c), c))
        /\ Len(Append(Drop(order, c), c)) = Len(Drop(order, c)) + 1
        /\ \A v : In(v, Append(Drop(order, c), c)) <=> v = c \/ In(v, Drop(order, c))
    BY <2>2, AppendFacts
  <2>4. order' = Append(Drop(order, c), c)
    BY <1>1, <2>1 DEF Hit, In
  <2> QED
    BY <1>1, <2>2, <2>3, <2>4 DEF PoolTypeOK, Hit, Goto
<1>2. ASSUME NEW u \in Users, NEW c \in Conns, Miss(u, c) PROVE PoolTypeOK'
  BY <1>2, EditBoundAssumption DEF Miss, Goto, PoolTypeOK, TargetKnown
<1>3. ASSUME NEW u \in Users, NEW c \in Conns, Update(u, c) PROVE PoolTypeOK'
  BY <1>3, EditBoundAssumption DEF Update, Goto, PoolTypeOK, TargetKnown
<1>4. ASSUME NEW u \in Users, NEW c \in Conns, ReleaseFirst(u, c) PROVE PoolTypeOK'
  <2>1. order' \in Seq(Conns)
    BY <1>4, DropFacts, OrderInWords DEF ReleaseFirst, ReleaseFromPool, PoolTypeOK
  <2> QED
    BY <1>4, <2>1, EditBoundAssumption
    DEF PoolTypeOK, TargetKnown, ReleaseFirst, Goto, ReleaseFromPool, CloseDbs, Deleted
<1>5. ASSUME NEW u \in Users, NEW d \in New, Open(u, d) PROVE PoolTypeOK'
  BY <1>5, EditBoundAssumption DEF Open, Goto, New, Deleted, PoolTypeOK, TargetKnown
<1>6. ASSUME NEW u \in Users, OpenFails(u) PROVE PoolTypeOK'
  BY <1>6, EditBoundAssumption DEF OpenFails, Return, Goto, PoolTypeOK, TargetKnown
<1>7. ASSUME NEW u \in Users, InsertLoses(u) PROVE PoolTypeOK'
  BY <1>7, EditBoundAssumption
     DEF InsertLoses, Goto, CloseDbs, Deleted, PoolTypeOK, TargetKnown
<1>8. ASSUME NEW u \in Users, Insert(u) PROVE PoolTypeOK'
  <2>1. order' \in Seq(Conns)
    BY <1>8, InsertOrder DEF Insert, TargetKnown
  <2>2. have[u] \in Dbs
    BY <1>8 DEF Insert, OwnUntilInserted
  <2> QED
    BY <1>8, <2>1, <2>2, EditBoundAssumption
    DEF PoolTypeOK, TargetKnown, Insert, Goto, CloseDbs, Deleted
<1>9. ASSUME NEW u \in Users, Finish(u) PROVE PoolTypeOK'
  BY <1>9, EditBoundAssumption DEF Finish, Return, Goto, PoolTypeOK, TargetKnown
<1>10. ASSUME NEW u \in Users, UpdateFails(u) PROVE PoolTypeOK'
  BY <1>10, EditBoundAssumption
     DEF UpdateFails, Return, Goto, PoolTypeOK, TargetKnown
<1>11. ASSUME NEW u \in Users, Release(u) PROVE PoolTypeOK'
  <2>1. order' \in Seq(Conns)
    BY <1>11, DropFacts, OrderInWords DEF Release, ReleaseFromPool, TargetKnown, PoolTypeOK
  <2> QED
    BY <1>11, <2>1, EditBoundAssumption
    DEF PoolTypeOK, TargetKnown, Release, Return, Goto, ReleaseFromPool, CloseDbs, Deleted
<1>12. ASSUME NEW u \in Users, Delete(u) PROVE PoolTypeOK'
  BY <1>12, EditBoundAssumption
     DEF Delete, Return, Goto, Deleted, PoolTypeOK, TargetKnown
<1>13. ASSUME UNCHANGED poolVars PROVE PoolTypeOK'
  BY <1>13, EditBoundAssumption DEF PoolTypeOK, TargetKnown
<1> QED
  BY <1>1, <1>2, <1>3, <1>4, <1>5, <1>6, <1>7, <1>8, <1>9, <1>10, <1>11, <1>12,
     <1>13 DEF PoolNext, Acquire, Edit

\* A call under way is about a connection.
LEMMA TargetStep ==
  ASSUME PoolTypeOK, TargetKnown, [PoolNext]_poolVars
  PROVE  TargetKnown'
<1> USE DEF poolVars, dbs, locals, PoolTypeOK, TargetKnown
<1>1. ASSUME NEW u \in Users, NEW c \in Conns, Hit(u, c) PROVE TargetKnown'
  BY <1>1 DEF Hit, Goto
<1>2. ASSUME NEW u \in Users, NEW c \in Conns, Miss(u, c) PROVE TargetKnown'
  BY <1>2 DEF Miss, Goto
<1>3. ASSUME NEW u \in Users, NEW c \in Conns, Update(u, c) PROVE TargetKnown'
  BY <1>3 DEF Update, Goto
<1>4. ASSUME NEW u \in Users, NEW c \in Conns, ReleaseFirst(u, c) PROVE TargetKnown'
  BY <1>4 DEF ReleaseFirst, Goto, ReleaseFromPool, CloseDbs
<1>5. ASSUME NEW u \in Users, NEW d \in New, Open(u, d) PROVE TargetKnown'
  BY <1>5 DEF Open, Goto, New
<1>6. ASSUME NEW u \in Users, OpenFails(u) PROVE TargetKnown'
  BY <1>6 DEF OpenFails, Return, Goto
<1>7. ASSUME NEW u \in Users, InsertLoses(u) PROVE TargetKnown'
  BY <1>7 DEF InsertLoses, Goto, CloseDbs
<1>8. ASSUME NEW u \in Users, Insert(u) PROVE TargetKnown'
  BY <1>8 DEF Insert, Goto, CloseDbs
<1>9. ASSUME NEW u \in Users, Finish(u) PROVE TargetKnown'
  BY <1>9 DEF Finish, Return, Goto
<1>10. ASSUME NEW u \in Users, UpdateFails(u) PROVE TargetKnown'
  BY <1>10 DEF UpdateFails, Return, Goto
<1>11. ASSUME NEW u \in Users, Release(u) PROVE TargetKnown'
  BY <1>11 DEF Release, Return, Goto, ReleaseFromPool, CloseDbs
<1>12. ASSUME NEW u \in Users, Delete(u) PROVE TargetKnown'
  BY <1>12 DEF Delete, Return, Goto
<1>13. ASSUME UNCHANGED poolVars PROVE TargetKnown'
  BY <1>13
<1> QED
  BY <1>1, <1>2, <1>3, <1>4, <1>5, <1>6, <1>7, <1>8, <1>9, <1>10, <1>11, <1>12,
     <1>13 DEF PoolNext, Acquire, Edit

\* order lists the pool: a hit moves one to the end, an insertion evicts and
\* adds, a release takes out.
LEMMA OrderStep ==
  ASSUME PoolTypeOK, TargetKnown, OrderListsPool, OwnUntilInserted, [PoolNext]_poolVars
  PROVE  OrderListsPool'
<1> USE DEF poolVars, dbs, locals
<1>1. ASSUME NEW u \in Users, NEW c \in Conns, Hit(u, c) PROVE OrderListsPool'
  <2>1. order \in Seq(Conns) /\ Once(order) /\ In(c, order)
    BY <1>1, OrderInWords DEF PoolTypeOK, Hit
  <2>2. /\ Drop(order, c) \in Seq(Conns) /\ Once(Drop(order, c)) /\ ~In(c, Drop(order, c))
        /\ Len(Drop(order, c)) = Len(order) - 1
        /\ \A v : In(v, Drop(order, c)) <=> v # c /\ In(v, order)
    BY <2>1, DropFacts
  <2>3. /\ Append(Drop(order, c), c) \in Seq(Conns) /\ Once(Append(Drop(order, c), c))
        /\ Len(Append(Drop(order, c), c)) = Len(Drop(order, c)) + 1
        /\ \A v : In(v, Append(Drop(order, c), c)) <=> v = c \/ In(v, Drop(order, c))
    BY <2>2, AppendFacts
  <2>4. order' = Append(Drop(order, c), c)
    BY <1>1, <2>1 DEF Hit, In
  <2>5. \A v \in Conns : pool'[v] # None <=> In(v, order')
    BY <1>1, <2>1, <2>2, <2>3, <2>4, OrderInWords DEF Hit
  <2>6. Len(order') <= PoolSize
    BY <2>1, <2>2, <2>3, <2>4, OrderInWords, PoolSizeAssumption
  <2> QED
    BY <2>3, <2>4, <2>5, <2>6, OrderInWordsNext
<1>2. ASSUME NEW u \in Users, NEW c \in Conns, Miss(u, c) PROVE OrderListsPool'
  BY <1>2 DEF Miss, Goto, OrderListsPool
<1>3. ASSUME NEW u \in Users, NEW c \in Conns, Update(u, c) PROVE OrderListsPool'
  BY <1>3 DEF Update, Goto, OrderListsPool
<1>4. ASSUME NEW u \in Users, NEW c \in Conns, ReleaseFirst(u, c) PROVE OrderListsPool'
  <2>1. order \in Seq(Conns) /\ Once(order) /\ c \in Conns
    BY <1>4, OrderInWords DEF ReleaseFirst, TargetKnown, PoolTypeOK
  <2>2. /\ Once(Drop(order, c)) /\ Len(Drop(order, c)) <= Len(order)
        /\ \A v : In(v, Drop(order, c)) <=> v # c /\ In(v, order)
    <3>1. Len(Drop(order, c)) = IF In(c, order) THEN Len(order) - 1 ELSE Len(order)
      BY <2>1, DropFacts
    <3>2. Len(Drop(order, c)) <= Len(order)
      BY <2>1, <3>1
    <3> QED
      BY <2>1, <3>2, DropFacts
  <2>3. order' = Drop(order, c) /\ pool' = [pool EXCEPT ![c] = None]
    BY <1>4 DEF ReleaseFirst, ReleaseFromPool
  <2>4. \A v \in Conns : pool'[v] # None <=> In(v, order')
    BY <2>1, <2>2, <2>3, OrderInWords DEF PoolTypeOK
  <2>5. Len(order') <= PoolSize
    BY <2>1, <2>2, <2>3, OrderInWords, PoolSizeAssumption
  <2> QED
    BY <2>2, <2>3, <2>4, <2>5, OrderInWordsNext
<1>5. ASSUME NEW u \in Users, NEW d \in New, Open(u, d) PROVE OrderListsPool'
  BY <1>5 DEF Open, Goto, New, OrderListsPool
<1>6. ASSUME NEW u \in Users, OpenFails(u) PROVE OrderListsPool'
  BY <1>6 DEF OpenFails, Return, Goto, OrderListsPool
<1>7. ASSUME NEW u \in Users, InsertLoses(u) PROVE OrderListsPool'
  BY <1>7 DEF InsertLoses, Goto, CloseDbs, OrderListsPool
<1>8. ASSUME NEW u \in Users, Insert(u) PROVE OrderListsPool'
  <2> DEFINE c == target[u]
  <2>1. c \in Conns /\ pool[c] = None /\ have[u] # None
    BY <1>8, NoneAssumption DEF Insert, TargetKnown, OwnUntilInserted
  <2>2. /\ Len(order') <= PoolSize /\ Once(order') /\ c \notin Victims
        /\ \A v : In(v, order') <=> v = c \/ (In(v, order) /\ v \notin Victims)
    BY <1>8, <2>1, InsertOrder DEF Insert
  <2>3. pool' = [v \in Conns |-> IF v = c THEN have[u] ELSE IF v \in Victims THEN None ELSE pool[v]]
    BY <1>8 DEF Insert
  <2>4. \A v \in Conns : pool'[v] # None <=> In(v, order')
    BY <2>1, <2>2, <2>3, OrderInWords
  <2> QED
    BY <2>2, <2>4, OrderInWordsNext
<1>9. ASSUME NEW u \in Users, Finish(u) PROVE OrderListsPool'
  BY <1>9 DEF Finish, Return, Goto, OrderListsPool
<1>10. ASSUME NEW u \in Users, UpdateFails(u) PROVE OrderListsPool'
  BY <1>10 DEF UpdateFails, Return, Goto, OrderListsPool
<1>11. ASSUME NEW u \in Users, Release(u) PROVE OrderListsPool'
  <2>1. order \in Seq(Conns) /\ Once(order) /\ target[u] \in Conns
    BY <1>11, OrderInWords DEF Release, TargetKnown, PoolTypeOK
  <2>2. /\ Once(Drop(order, target[u])) /\ Len(Drop(order, target[u])) <= Len(order)
        /\ \A v : In(v, Drop(order, target[u])) <=> v # target[u] /\ In(v, order)
    <3>1. Len(Drop(order, target[u])) = IF In(target[u], order) THEN Len(order) - 1 ELSE Len(order)
      BY <2>1, DropFacts
    <3>2. Len(Drop(order, target[u])) <= Len(order)
      BY <2>1, <3>1
    <3> QED
      BY <2>1, <3>2, DropFacts
  <2>3. order' = Drop(order, target[u]) /\ pool' = [pool EXCEPT ![target[u]] = None]
    BY <1>11 DEF Release, ReleaseFromPool
  <2>4. \A v \in Conns : pool'[v] # None <=> In(v, order')
    BY <2>1, <2>2, <2>3, OrderInWords DEF PoolTypeOK
  <2>5. Len(order') <= PoolSize
    BY <2>1, <2>2, <2>3, OrderInWords, PoolSizeAssumption
  <2> QED
    BY <2>2, <2>3, <2>4, <2>5, OrderInWordsNext
<1>12. ASSUME NEW u \in Users, Delete(u) PROVE OrderListsPool'
  BY <1>12 DEF Delete, Return, Goto, OrderListsPool
<1>13. ASSUME UNCHANGED poolVars PROVE OrderListsPool'
  BY <1>13 DEF OrderListsPool
<1> QED
  BY <1>1, <1>2, <1>3, <1>4, <1>5, <1>6, <1>7, <1>8, <1>9, <1>10, <1>11, <1>12,
     <1>13 DEF PoolNext, Acquire, Edit

\* An Acquire's own database is not in the pool.
LEMMA OwnIsNotPooled ==
  ASSUME PoolTypeOK, TargetKnown, OwnUntilInserted, PooledIsOpen
  PROVE  \A u \in Users, c \in Conns : at[u] = "insert" => pool[c] # have[u]
BY NoneAssumption DEF PoolTypeOK, TargetKnown, OwnUntilInserted, PooledIsOpen

\* What an Acquire has opened stays its own: what others close is in the pool
\* or in their own hands.
LEMMA OwnStep ==
  ASSUME PoolTypeOK, TargetKnown, OwnUntilInserted, PooledIsOpen, OrderListsPool, [PoolNext]_poolVars
  PROVE  OwnUntilInserted'
<1> USE DEF poolVars, dbs, locals, OwnUntilInserted, PooledIsOpen, PoolTypeOK,
            TargetKnown
<1>1. ASSUME NEW u \in Users, NEW c \in Conns, Hit(u, c) PROVE OwnUntilInserted'
  BY <1>1, NoneAssumption DEF Hit, Goto
<1>2. ASSUME NEW u \in Users, NEW c \in Conns, Miss(u, c) PROVE OwnUntilInserted'
  BY <1>2, NoneAssumption DEF Miss, Goto
<1>3. ASSUME NEW u \in Users, NEW c \in Conns, Update(u, c) PROVE OwnUntilInserted'
  BY <1>3, NoneAssumption DEF Update, Goto
<1>4. ASSUME NEW u \in Users, NEW c \in Conns, ReleaseFirst(u, c)
      PROVE  OwnUntilInserted'
  BY <1>4, OwnIsNotPooled, NoneAssumption
     DEF ReleaseFirst, Goto, ReleaseFromPool, CloseDbs
<1>5. ASSUME NEW u \in Users, NEW d \in New, Open(u, d) PROVE OwnUntilInserted'
  <2>1. \A c \in Conns : pool[c] # d
    BY <1>5, NoneAssumption DEF New
  <2> QED
    BY <1>5, <2>1, NoneAssumption DEF Open, Goto, New
<1>6. ASSUME NEW u \in Users, OpenFails(u) PROVE OwnUntilInserted'
  BY <1>6, NoneAssumption DEF OpenFails, Return, Goto
<1>7. ASSUME NEW u \in Users, InsertLoses(u) PROVE OwnUntilInserted'
  BY <1>7, OwnIsNotPooled, NoneAssumption DEF InsertLoses, Goto, CloseDbs
<1>8. ASSUME NEW u \in Users, Insert(u) PROVE OwnUntilInserted'
  <2>1. target[u] \notin Victims
    BY <1>8, InsertOrder DEF Insert, TargetKnown
  <2>2. Victims \subseteq Conns
    BY <1>8, VictimsKnown
  <2> QED
    BY <1>8, <2>1, <2>2, NoneAssumption, OwnIsNotPooled
    DEF Insert, Goto, CloseDbs
<1>9. ASSUME NEW u \in Users, Finish(u) PROVE OwnUntilInserted'
  BY <1>9, NoneAssumption DEF Finish, Return, Goto
<1>10. ASSUME NEW u \in Users, UpdateFails(u) PROVE OwnUntilInserted'
  BY <1>10, NoneAssumption DEF UpdateFails, Return, Goto
<1>11. ASSUME NEW u \in Users, Release(u) PROVE OwnUntilInserted'
  BY <1>11, OwnIsNotPooled, NoneAssumption
     DEF Release, Return, Goto, ReleaseFromPool, CloseDbs
<1>12. ASSUME NEW u \in Users, Delete(u) PROVE OwnUntilInserted'
  BY <1>12, NoneAssumption DEF Delete, Return, Goto
<1>13. ASSUME UNCHANGED poolVars PROVE OwnUntilInserted'
  BY <1>13, NoneAssumption
<1> QED
  BY <1>1, <1>2, <1>3, <1>4, <1>5, <1>6, <1>7, <1>8, <1>9, <1>10, <1>11, <1>12,
     <1>13 DEF PoolNext, Acquire, Edit

\* The pool hands out open databases of the right connection.
LEMMA OpenStep ==
  ASSUME PoolTypeOK, TargetKnown, OwnUntilInserted, PooledIsOpen, OrderListsPool, [PoolNext]_poolVars
  PROVE  PooledIsOpen'
<1> USE DEF poolVars, dbs, locals, OwnUntilInserted, PooledIsOpen, PoolTypeOK,
            TargetKnown
<1>1. ASSUME NEW u \in Users, NEW c \in Conns, Hit(u, c) PROVE PooledIsOpen'
  BY <1>1, NoneAssumption DEF Hit, Goto
<1>2. ASSUME NEW u \in Users, NEW c \in Conns, Miss(u, c) PROVE PooledIsOpen'
  BY <1>2, NoneAssumption DEF Miss, Goto
<1>3. ASSUME NEW u \in Users, NEW c \in Conns, Update(u, c) PROVE PooledIsOpen'
  BY <1>3, NoneAssumption DEF Update, Goto
<1>4. ASSUME NEW u \in Users, NEW c \in Conns, ReleaseFirst(u, c) PROVE PooledIsOpen'
  BY <1>4, OwnIsNotPooled, NoneAssumption
     DEF ReleaseFirst, Goto, ReleaseFromPool, CloseDbs
<1>5. ASSUME NEW u \in Users, NEW d \in New, Open(u, d) PROVE PooledIsOpen'
  BY <1>5, NoneAssumption DEF Open, Goto, New
<1>6. ASSUME NEW u \in Users, OpenFails(u) PROVE PooledIsOpen'
  BY <1>6, NoneAssumption DEF OpenFails, Return, Goto
<1>7. ASSUME NEW u \in Users, InsertLoses(u) PROVE PooledIsOpen'
  BY <1>7, OwnIsNotPooled, NoneAssumption DEF InsertLoses, Goto, CloseDbs
<1>8. ASSUME NEW u \in Users, Insert(u) PROVE PooledIsOpen'
  <2>1. target[u] \notin Victims
    BY <1>8, InsertOrder DEF Insert, TargetKnown
  <2>2. Victims \subseteq Conns
    BY <1>8, VictimsKnown
  <2> QED
    BY <1>8, <2>1, <2>2, NoneAssumption, OwnIsNotPooled
    DEF Insert, Goto, CloseDbs
<1>9. ASSUME NEW u \in Users, Finish(u) PROVE PooledIsOpen'
  BY <1>9, NoneAssumption DEF Finish, Return, Goto
<1>10. ASSUME NEW u \in Users, UpdateFails(u) PROVE PooledIsOpen'
  BY <1>10, NoneAssumption DEF UpdateFails, Return, Goto
<1>11. ASSUME NEW u \in Users, Release(u) PROVE PooledIsOpen'
  BY <1>11, OwnIsNotPooled, NoneAssumption
     DEF Release, Return, Goto, ReleaseFromPool, CloseDbs
<1>12. ASSUME NEW u \in Users, Delete(u) PROVE PooledIsOpen'
  BY <1>12, NoneAssumption DEF Delete, Return, Goto
<1>13. ASSUME UNCHANGED poolVars PROVE PooledIsOpen'
  BY <1>13, NoneAssumption
<1> QED
  BY <1>1, <1>2, <1>3, <1>4, <1>5, <1>6, <1>7, <1>8, <1>9, <1>10, <1>11, <1>12,
     <1>13 DEF PoolNext, Acquire, Edit

\* Every open database is in the pool or on its way there.
LEMMA LeakStep ==
  ASSUME PoolTypeOK, TargetKnown, OwnUntilInserted, PooledIsOpen, OrderListsPool, NoLeak, [PoolNext]_poolVars
  PROVE  NoLeak'
<1> USE DEF poolVars, dbs, locals, OwnUntilInserted, PooledIsOpen, PoolTypeOK,
            TargetKnown, NoLeak
<1>1. ASSUME NEW u \in Users, NEW c \in Conns, Hit(u, c) PROVE NoLeak'
  BY <1>1, NoneAssumption DEF Hit, Goto
<1>2. ASSUME NEW u \in Users, NEW c \in Conns, Miss(u, c) PROVE NoLeak'
  BY <1>2, NoneAssumption DEF Miss, Goto
<1>3. ASSUME NEW u \in Users, NEW c \in Conns, Update(u, c) PROVE NoLeak'
  BY <1>3, NoneAssumption DEF Update, Goto
<1>4. ASSUME NEW u \in Users, NEW c \in Conns, ReleaseFirst(u, c) PROVE NoLeak'
  BY <1>4, OwnIsNotPooled, NoneAssumption
     DEF ReleaseFirst, Goto, ReleaseFromPool, CloseDbs
<1>5. ASSUME NEW u \in Users, NEW d \in New, Open(u, d) PROVE NoLeak'
  BY <1>5, NoneAssumption DEF Open, Goto, New
<1>6. ASSUME NEW u \in Users, OpenFails(u) PROVE NoLeak'
  BY <1>6, NoneAssumption DEF OpenFails, Return, Goto
<1>7. ASSUME NEW u \in Users, InsertLoses(u) PROVE NoLeak'
  BY <1>7, OwnIsNotPooled, NoneAssumption DEF InsertLoses, Goto, CloseDbs
<1>8. ASSUME NEW u \in Users, Insert(u) PROVE NoLeak'
  <2>1. target[u] \notin Victims
    BY <1>8, InsertOrder DEF Insert, TargetKnown
  <2>2. Victims \subseteq Conns
    BY <1>8, VictimsKnown
  <2> QED
    BY <1>8, <2>1, <2>2, NoneAssumption, OwnIsNotPooled
    DEF Insert, Goto, CloseDbs
<1>9. ASSUME NEW u \in Users, Finish(u) PROVE NoLeak'
  BY <1>9, NoneAssumption DEF Finish, Return, Goto
<1>10. ASSUME NEW u \in Users, UpdateFails(u) PROVE NoLeak'
  BY <1>10, NoneAssumption DEF UpdateFails, Return, Goto
<1>11. ASSUME NEW u \in Users, Release(u) PROVE NoLeak'
  BY <1>11, OwnIsNotPooled, NoneAssumption
     DEF Release, Return, Goto, ReleaseFromPool, CloseDbs
<1>12. ASSUME NEW u \in Users, Delete(u) PROVE NoLeak'
  BY <1>12, NoneAssumption DEF Delete, Return, Goto
<1>13. ASSUME UNCHANGED poolVars PROVE NoLeak'
  BY <1>13, NoneAssumption
<1> QED
  BY <1>1, <1>2, <1>3, <1>4, <1>5, <1>6, <1>7, <1>8, <1>9, <1>10, <1>11, <1>12,
     <1>13 DEF PoolNext, Acquire, Edit

\* What an Acquire has opened is as stored, or missed by an edit.
LEMMA StoredStep ==
  ASSUME PoolTypeOK, TargetKnown, OwnUntilInserted, PooledIsOpen, OrderListsPool, OpenedAsStored, [PoolNext]_poolVars
  PROVE  OpenedAsStored'
<1> USE DEF poolVars, dbs, locals, OwnUntilInserted, PooledIsOpen, PoolTypeOK,
            TargetKnown, OpenedAsStored
<1>1. ASSUME NEW u \in Users, NEW c \in Conns, Hit(u, c) PROVE OpenedAsStored'
  BY <1>1, NoneAssumption DEF Hit, Goto
<1>2. ASSUME NEW u \in Users, NEW c \in Conns, Miss(u, c) PROVE OpenedAsStored'
  BY <1>2, NoneAssumption DEF Miss, Goto
<1>3. ASSUME NEW u \in Users, NEW c \in Conns, Update(u, c) PROVE OpenedAsStored'
  BY <1>3, NoneAssumption DEF Update, Goto, BeingOpened
<1>4. ASSUME NEW u \in Users, NEW c \in Conns, ReleaseFirst(u, c) PROVE OpenedAsStored'
  BY <1>4, OwnIsNotPooled, NoneAssumption
     DEF ReleaseFirst, Goto, ReleaseFromPool, CloseDbs
<1>5. ASSUME NEW u \in Users, NEW d \in New, Open(u, d) PROVE OpenedAsStored'
  BY <1>5, NoneAssumption DEF Open, Goto, New
<1>6. ASSUME NEW u \in Users, OpenFails(u) PROVE OpenedAsStored'
  BY <1>6, NoneAssumption DEF OpenFails, Return, Goto
<1>7. ASSUME NEW u \in Users, InsertLoses(u) PROVE OpenedAsStored'
  BY <1>7, OwnIsNotPooled, NoneAssumption DEF InsertLoses, Goto, CloseDbs
<1>8. ASSUME NEW u \in Users, Insert(u) PROVE OpenedAsStored'
  <2>1. target[u] \notin Victims
    BY <1>8, InsertOrder DEF Insert, TargetKnown
  <2>2. Victims \subseteq Conns
    BY <1>8, VictimsKnown
  <2> QED
    BY <1>8, <2>1, <2>2, NoneAssumption, OwnIsNotPooled
    DEF Insert, Goto, CloseDbs
<1>9. ASSUME NEW u \in Users, Finish(u) PROVE OpenedAsStored'
  BY <1>9, NoneAssumption DEF Finish, Return, Goto
<1>10. ASSUME NEW u \in Users, UpdateFails(u) PROVE OpenedAsStored'
  BY <1>10, NoneAssumption DEF UpdateFails, Return, Goto
<1>11. ASSUME NEW u \in Users, Release(u) PROVE OpenedAsStored'
  BY <1>11, OwnIsNotPooled, NoneAssumption
     DEF Release, Return, Goto, ReleaseFromPool, CloseDbs
<1>12. ASSUME NEW u \in Users, Delete(u) PROVE OpenedAsStored'
  BY <1>12, NoneAssumption DEF Delete, Return, Goto, BeingOpened
<1>13. ASSUME UNCHANGED poolVars PROVE OpenedAsStored'
  BY <1>13, NoneAssumption
<1> QED
  BY <1>1, <1>2, <1>3, <1>4, <1>5, <1>6, <1>7, <1>8, <1>9, <1>10, <1>11, <1>12,
     <1>13 DEF PoolNext, Acquire, Edit

\* A stale database in the pool is about to be released, or was missed.
LEMMA StaleStep ==
  ASSUME PoolTypeOK, TargetKnown, OwnUntilInserted, PooledIsOpen, OrderListsPool, OpenedAsStored, StaleWasMissed, [PoolNext]_poolVars
  PROVE  StaleWasMissed'
<1> USE DEF poolVars, dbs, locals, OwnUntilInserted, PooledIsOpen, PoolTypeOK,
            TargetKnown, OpenedAsStored, StaleWasMissed, BeingEdited
<1>1. ASSUME NEW u \in Users, NEW c \in Conns, Hit(u, c) PROVE StaleWasMissed'
  BY <1>1, NoneAssumption DEF Hit, Goto
<1>2. ASSUME NEW u \in Users, NEW c \in Conns, Miss(u, c) PROVE StaleWasMissed'
  BY <1>2, NoneAssumption DEF Miss, Goto
<1>3. ASSUME NEW u \in Users, NEW c \in Conns, Update(u, c) PROVE StaleWasMissed'
  BY <1>3, NoneAssumption DEF Update, Goto, BeingOpened
<1>4. ASSUME NEW u \in Users, NEW c \in Conns, ReleaseFirst(u, c) PROVE StaleWasMissed'
  BY <1>4, OwnIsNotPooled, NoneAssumption
     DEF ReleaseFirst, Goto, ReleaseFromPool, CloseDbs
<1>5. ASSUME NEW u \in Users, NEW d \in New, Open(u, d) PROVE StaleWasMissed'
  BY <1>5, NoneAssumption DEF Open, Goto, New
<1>6. ASSUME NEW u \in Users, OpenFails(u) PROVE StaleWasMissed'
  BY <1>6, NoneAssumption DEF OpenFails, Return, Goto
<1>7. ASSUME NEW u \in Users, InsertLoses(u) PROVE StaleWasMissed'
  BY <1>7, OwnIsNotPooled, NoneAssumption DEF InsertLoses, Goto, CloseDbs
<1>8. ASSUME NEW u \in Users, Insert(u) PROVE StaleWasMissed'
  <2>1. target[u] \notin Victims
    BY <1>8, InsertOrder DEF Insert, TargetKnown
  <2>2. Victims \subseteq Conns
    BY <1>8, VictimsKnown
  <2> QED
    BY <1>8, <2>1, <2>2, NoneAssumption, OwnIsNotPooled
    DEF Insert, Goto, CloseDbs
<1>9. ASSUME NEW u \in Users, Finish(u) PROVE StaleWasMissed'
  BY <1>9, NoneAssumption DEF Finish, Return, Goto
<1>10. ASSUME NEW u \in Users, UpdateFails(u) PROVE StaleWasMissed'
  BY <1>10, NoneAssumption DEF UpdateFails, Return, Goto
<1>11. ASSUME NEW u \in Users, Release(u) PROVE StaleWasMissed'
  BY <1>11, OwnIsNotPooled, NoneAssumption
     DEF Release, Return, Goto, ReleaseFromPool, CloseDbs
<1>12. ASSUME NEW u \in Users, Delete(u) PROVE StaleWasMissed'
  BY <1>12, NoneAssumption DEF Delete, Return, Goto, BeingOpened
<1>13. ASSUME UNCHANGED poolVars PROVE StaleWasMissed'
  BY <1>13, NoneAssumption
<1> QED
  BY <1>1, <1>2, <1>3, <1>4, <1>5, <1>6, <1>7, <1>8, <1>9, <1>10, <1>11, <1>12,
     <1>13 DEF PoolNext, Acquire, Edit

-----------------------------------------------------------------------------
(* PoolInvariant holds in every reachable state: whatever Acquires, evictions,
   edits and deletes come together, the map, the list, the open databases and
   the stored connections agree as it says. *)
THEOREM PoolInvariantHolds == PoolSpec => []PoolInvariant
<1>1. PoolInit => PoolInvariant
  <2>1. PoolInit => PoolTypeOK
    BY EditBoundAssumption DEF PoolInit, PoolTypeOK, Deleted
  <2>2. PoolInit => OrderListsPool
    BY PoolSizeAssumption DEF PoolInit, OrderListsPool
  <2>3. PoolInit => /\ TargetKnown /\ OwnUntilInserted /\ PooledIsOpen
                    /\ NoLeak /\ OpenedAsStored /\ StaleWasMissed
    BY NoneAssumption
    DEF PoolInit, TargetKnown, OwnUntilInserted, PooledIsOpen, NoLeak, OpenedAsStored, StaleWasMissed
  <2> QED
    BY <2>1, <2>2, <2>3 DEF PoolInvariant
<1>2. PoolInvariant /\ [PoolNext]_poolVars => PoolInvariant'
  BY TypeStep, TargetStep, OrderStep, OwnStep, OpenStep, LeakStep, StoredStep, StaleStep
  DEF PoolInvariant
<1> QED
  BY <1>1, <1>2, PTL DEF PoolSpec

(* The pool's state always has its type. *)
THEOREM PoolTypeCorrect == PoolSpec => []PoolTypeOK
BY PoolInvariantHolds, PTL DEF PoolInvariant

(* The map and the list of the pool name the same connections, each once, and at
   most PoolSize of them. *)
THEOREM OrderAndPoolAgree == PoolSpec => []OrderListsPool
BY PoolInvariantHolds, PTL DEF PoolInvariant

(* Acquire never finds a closed database in the pool, nor another connection's. *)
THEOREM PooledAreOpen == PoolSpec => []PooledIsOpen
BY PoolInvariantHolds, PTL DEF PoolInvariant

(* No open database is forgotten. *)
THEOREM NothingLeaks == PoolSpec => []NoLeak
BY PoolInvariantHolds, PTL DEF PoolInvariant

(* Every edit reaches the pool except in the cases StaleWasMissed names. *)
THEOREM EditsReachThePool == PoolSpec => []StaleWasMissed
BY PoolInvariantHolds, PTL DEF PoolInvariant

-----------------------------------------------------------------------------
(* How many databases are open. *)
\* The open databases of the pool are as many as its list is long at most.
LEMMA PooledCounted ==
  ASSUME PoolInvariant
  PROVE  LET Pooled == {d \in OpenDbs : pool[of[d]] = d}
         IN  IsFiniteSet(Pooled) /\ Cardinality(Pooled) <= Len(order)
<1> DEFINE Pooled == {d \in OpenDbs : pool[of[d]] = d}
           entries == [i \in 1..Len(order) |-> pool[order[i]]]
<1>1. Len(order) \in Nat /\ \A i \in 1..Len(order) : order[i] \in Conns
  BY DEF PoolInvariant, PoolTypeOK
<1>2. ASSUME NEW i \in 1..Len(order) PROVE entries[i] \in Pooled
  <2>1. order[i] \in Conns /\ pool[order[i]] # None
    BY <1>1, <1>2 DEF PoolInvariant, OrderListsPool
  <2>2. pool[order[i]] \in Dbs /\ of[pool[order[i]]] = order[i]
    BY <2>1 DEF PoolInvariant, PoolTypeOK, PooledIsOpen
  <2> QED
    BY <2>1, <2>2, NoneAssumption DEF OpenDbs
<1>3. ASSUME NEW d \in Pooled PROVE \E i \in 1..Len(order) : entries[i] = d
  <2>1. of[d] \in Conns /\ pool[of[d]] = d /\ d # None
    BY <1>3, NoneAssumption DEF OpenDbs, PoolInvariant, PoolTypeOK
  <2>2. PICK i \in 1..Len(order) : order[i] = of[d]
    BY <2>1 DEF PoolInvariant, OrderListsPool
  <2> QED
    BY <2>1, <2>2
<1>4. entries \in Surjection(1..Len(order), Pooled)
  <2> HIDE DEF Pooled
  <2> QED
    BY <1>2, <1>3 DEF Surjection
<1>5. IsFiniteSet(1..Len(order)) /\ Cardinality(1..Len(order)) = Len(order)
  BY <1>1, FS_Interval
<1> HIDE DEF Pooled, entries
<1>6. IsFiniteSet(Pooled) /\ Cardinality(Pooled) <= Len(order)
  BY <1>4, <1>5, FS_Surjection
<1> QED
  BY <1>6 DEF Pooled

\* Every other open database is the one that an Acquire is about to insert.
LEMMA OthersCounted ==
  ASSUME PoolInvariant, IsFiniteSet(Users)
  PROVE  LET Others == {d \in OpenDbs : pool[of[d]] # d}
         IN  IsFiniteSet(Others) /\ Cardinality(Others) <= Cardinality(Inserting)
<1> DEFINE Others == {d \in OpenDbs : pool[of[d]] # d}
           by == [d \in Others |-> CHOOSE u \in Inserting : have[u] = d]
<1>1. ASSUME NEW d \in Others PROVE by[d] \in Inserting /\ have[by[d]] = d
  <2>1. \E u \in Inserting : have[u] = d
    BY <1>1 DEF PoolInvariant, NoLeak, OpenDbs, Inserting
  <2> QED
    BY <2>1
<1>2. IsFiniteSet(Inserting)
  BY FS_Subset DEF Inserting
<1>3. by \in Injection(Others, Inserting)
  <2> HIDE DEF Others
  <2>1. by \in [Others -> Inserting]
    BY <1>1
  <2>2. ASSUME NEW d \in Others, NEW e \in Others, by[d] = by[e] PROVE d = e
    BY <1>1, <2>2
  <2> HIDE DEF by
  <2> QED
    BY <2>1, <2>2, Fun_IsInj
<1> HIDE DEF Others, by
<1>4. IsFiniteSet(Others) /\ Cardinality(Others) <= Cardinality(Inserting)
  BY <1>2, <1>3, FS_Injection
<1> QED
  BY <1>4 DEF Others

(* No more databases are open than PoolSize and the Acquires about to insert one. *)
THEOREM OpenStaysBounded ==
  ASSUME IsFiniteSet(Users)
  PROVE  PoolSpec => []OpenBounded
<1>1. ASSUME PoolInvariant PROVE OpenBounded
  <2> DEFINE Pooled == {d \in OpenDbs : pool[of[d]] = d}
             Others == {d \in OpenDbs : pool[of[d]] # d}
  <2>1. IsFiniteSet(Pooled) /\ Cardinality(Pooled) <= Len(order)
    BY <1>1, PooledCounted
  <2>2. IsFiniteSet(Others) /\ Cardinality(Others) <= Cardinality(Inserting)
    BY <1>1, OthersCounted
  <2>3. OpenDbs = Pooled \cup Others /\ Pooled \cap Others = {}
    OBVIOUS
  <2> HIDE DEF Pooled, Others
  <2>4. /\ IsFiniteSet(OpenDbs)
        /\ Cardinality(OpenDbs) = Cardinality(Pooled) + Cardinality(Others) - Cardinality({})
    BY <2>1, <2>2, <2>3, FS_Union
  <2>5. Cardinality(Pooled) \in Nat /\ Cardinality(Others) \in Nat /\ Cardinality({}) = 0
    BY <2>1, <2>2, FS_CardinalityType, FS_EmptySet
  <2>6. Cardinality(Inserting) \in Nat
    BY FS_CardinalityType, FS_Subset DEF Inserting
  <2>7. Len(order) \in Nat /\ Len(order) <= PoolSize
    BY <1>1 DEF PoolInvariant, PoolTypeOK, OrderListsPool
  <2> QED
    BY <2>1, <2>2, <2>4, <2>5, <2>6, <2>7, PoolSizeAssumption DEF OpenBounded
<1> QED
  BY <1>1, PoolInvariantHolds, PTL

-----------------------------------------------------------------------------
(* What closes a database in use. *)
InUse(d) == \E u \in Users : at[u] = "using" /\ have[u] = d
ClosesWithReason ==
  \A d \in Dbs : InUse(d) /\ of[d] # None /\ of'[d] = None => Evicted(of[d]) \/ Released(of[d])

\* What CloseDbs closes is among its arguments.
LEMMA ClosedIsMeant ==
  ASSUME NEW ds, CloseDbs(ds), NEW d \in Dbs, of[d] # None, of'[d] = None
  PROVE  d \in ds
BY DEF CloseDbs

\* Release closes the database of its connection and no other.
LEMMA ReleaseClosesOwn ==
  ASSUME PoolInvariant, NEW c \in Conns, ReleaseFromPool(c),
         NEW d \in Dbs, of[d] # None, of'[d] = None
  PROVE  of[d] = c
<1>1. d = pool[c]
  BY ClosedIsMeant DEF ReleaseFromPool
<1> QED
  BY <1>1, NoneAssumption DEF PoolInvariant, PooledIsOpen

\* An insert evicts the least recently used of a full pool at most.
LEMMA InsertEvictsOne ==
  ASSUME PoolInvariant, NEW u \in Users, Insert(u),
         NEW d \in Dbs, of[d] # None, of'[d] = None
  PROVE  Evicted(of[d])
<1>1. PICK i \in 1..Excess : d = pool[order[i]]
  BY ClosedIsMeant DEF Insert, Victims
<1>2. Len(order) \in Nat /\ Len(order) <= PoolSize /\ PoolSize \in Nat \ {0}
  BY PoolSizeAssumption DEF PoolInvariant, PoolTypeOK, OrderListsPool
<1>3. Len(order) = PoolSize /\ i = 1
  BY <1>1, <1>2 DEF Excess
<1>4. order[1] \in Conns
  BY <1>2, <1>3 DEF PoolInvariant, PoolTypeOK
<1>5. of[d] = order[1]
  BY <1>1, <1>3, <1>4, NoneAssumption DEF PoolInvariant, PooledIsOpen
<1>6. target[u] \in Conns /\ pool[target[u]] = None /\ have[u] # None
  BY NoneAssumption DEF Insert, PoolInvariant, TargetKnown, OwnUntilInserted
<1>7. pool'[target[u]] # None
  BY <1>6 DEF Insert
<1> QED
  BY <1>3, <1>5, <1>6, <1>7 DEF Evicted

\* The loser of a race closes the database that only it has.
LEMMA LoserClosesOwn ==
  ASSUME PoolInvariant, NEW u \in Users, InsertLoses(u),
         NEW d \in Dbs, of[d] # None, of'[d] = None
  PROVE  ~InUse(d)
<1>1. d = have[u] /\ at[u] = "insert"
  BY ClosedIsMeant DEF InsertLoses
<1> QED
  BY <1>1 DEF PoolInvariant, OwnUntilInserted, InUse

\* Every step closes with a reason.
LEMMA ClosedStep ==
  ASSUME PoolInvariant, [PoolNext]_poolVars
  PROVE  ClosesWithReason
<1> USE DEF ClosesWithReason
<1>1. CASE UNCHANGED of
  BY <1>1
<1>2. ASSUME NEW u \in Users, NEW d \in New, Open(u, d) PROVE ClosesWithReason
  <2>1. target[u] \in Conns /\ target[u] # None
    BY <1>2, NoneAssumption DEF Open, PoolInvariant, TargetKnown
  <2> QED
    BY <1>2, <2>1 DEF Open, PoolInvariant, PoolTypeOK
<1>3. ASSUME NEW u \in Users, InsertLoses(u) PROVE ClosesWithReason
  BY <1>3, LoserClosesOwn
<1>4. ASSUME NEW u \in Users, Insert(u) PROVE ClosesWithReason
  BY <1>4, InsertEvictsOne
<1>5. ASSUME NEW u \in Users, Release(u) PROVE ClosesWithReason
  <2>1. target[u] \in Conns /\ ReleaseFromPool(target[u]) /\ at[u] = "release" /\ at'[u] = "idle"
    BY <1>5 DEF Release, Return, Goto, PoolInvariant, PoolTypeOK, TargetKnown
  <2> QED
    BY <2>1, ReleaseClosesOwn DEF Released
<1>6. ASSUME NEW u \in Users, NEW c \in Conns, ReleaseFirst(u, c) PROVE ClosesWithReason
  <2>1. ReleaseFromPool(c) /\ at[u] = "idle" /\ at'[u] = "delete" /\ target'[u] = c
    BY <1>6 DEF ReleaseFirst, Goto, PoolInvariant, PoolTypeOK
  <2> QED
    BY <2>1, ReleaseClosesOwn DEF Released
<1>7. ASSUME NEW u \in Users,
             \/ \E c \in Conns : Hit(u, c) \/ Miss(u, c) \/ Update(u, c)
             \/ OpenFails(u) \/ Finish(u) \/ UpdateFails(u) \/ Delete(u)
      PROVE  UNCHANGED of
  BY <1>7 DEF Hit, Miss, Update, OpenFails, Finish, UpdateFails, Delete, dbs
<1> QED
  BY <1>1, <1>2, <1>3, <1>4, <1>5, <1>6, <1>7 DEF PoolNext, Acquire, Edit, poolVars, dbs

(* A database in use is closed only by the eviction of the least recently used of a
   full pool or for an edit or a delete of its connection. *)
THEOREM ClosedInUseOnlyForAReason == PoolSpec => ClosedInUseHasReason
<1>1. PoolInvariant /\ [PoolNext]_poolVars
        => [\A d \in Dbs :
              (\E u \in Users : at[u] = "using" /\ have[u] = d) /\ of[d] # None /\ of'[d] = None
                => Evicted(of[d]) \/ Released(of[d])]_poolVars
  BY ClosedStep DEF ClosesWithReason, InUse
<1> QED
  BY <1>1, PoolInvariantHolds, PTL DEF PoolSpec, ClosedInUseHasReason
=============================================================================
