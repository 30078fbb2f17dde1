---------------------------- MODULE AgentHub_proofs -------------------------
(***************************************************************************)
(* Proofs about AgentHub, for every number of hosts, agents, sockets and   *)
(* pushes.                                                                 *)
(*                                                                         *)
(* The invariant adds to the three that TLC checks what a running process, *)
(* a taken socket and a push under way know of their host: that it is one. *)
(***************************************************************************)
EXTENDS AgentHub, TLAPS

(* An agent process runs on a host, a socket in use is from a host, and a push
   under way goes to a host. *)
HostsKnown ==
  /\ \A a \in Agents : Running(a) => proc[a].host \in Hosts
  /\ \A k \in Sockets : sock[k] # "free" => peer[k] \in Hosts
  /\ \A p \in Procs : at[p] # "idle" => target[p] \in Hosts
  /\ \A k \in Sockets : owner[k] # None => sock[k] = "open"

HubInvariant == TypeOK /\ HostsKnown /\ EntryHasReader /\ CacheHasReader

-----------------------------------------------------------------------------
(* The invariant is kept, conjunct by conjunct. *)

\* The type of the state.
LEMMA TypeStep ==
  ASSUME TypeOK, HostsKnown, [Next]_vars
  PROVE  TypeOK'
<1> USE DEF TypeOK, vars, hub, net, pushes
<1>1. ASSUME NEW k \in Sockets, Register(k) PROVE TypeOK'
  BY <1>1, NoneAssumption DEF Register, HostsKnown
<1>2. ASSUME NEW k \in Sockets, Snapshot(k) PROVE TypeOK'
  BY <1>2 DEF Snapshot, HostsKnown
<1>3. ASSUME NEW k \in Sockets, Disconnect(k) PROVE TypeOK'
  BY <1>3 DEF Disconnect, HostsKnown
<1>4. ASSUME NEW k \in Sockets, LinkBreaks(k) PROVE TypeOK'
  BY <1>4 DEF LinkBreaks, Close
<1>5. ASSUME NEW a \in Agents, Dial(a) PROVE TypeOK'
  BY <1>5 DEF Dial, Running, HostsKnown
<1>6. ASSUME NEW a \in Agents, AgentDies(a) PROVE TypeOK'
  BY <1>6 DEF AgentDies, Close, Running, Off
<1>7. ASSUME NEW p \in Procs, Kill(p) PROVE TypeOK'
  BY <1>7 DEF Kill, Close, Running, Off
<1>8. ASSUME NEW p \in Procs, KillFails(p) PROVE TypeOK'
  BY <1>8 DEF KillFails
<1>9. ASSUME NEW p \in Procs, PushFails(p) PROVE TypeOK'
  BY <1>9 DEF PushFails, PushReturns
<1>10. ASSUME NEW p \in Procs, StartsNothing(p) PROVE TypeOK'
  BY <1>10 DEF StartsNothing, PushReturns
<1>11. ASSUME NEW p \in Procs, NEW a \in Agents, StartUnit(p, a) PROVE TypeOK'
  BY <1>11 DEF StartUnit, PushReturns, Close, Running, HostsKnown
<1>12. ASSUME NEW p \in Procs, NEW a \in Agents, StartNohup(p, a) PROVE TypeOK'
  BY <1>12 DEF StartNohup, PushReturns, Running, HostsKnown
<1>13. ASSUME NEW h \in Hosts, Age(h) PROVE TypeOK'
  BY <1>13 DEF Age
<1>14. ASSUME NEW h \in Hosts, Wake(h) PROVE TypeOK'
  BY <1>14, WakerAssumption DEF Wake, Push, Procs, Online
<1>15. ASSUME NEW h \in Hosts, SshAlert(h) PROVE TypeOK'
  BY <1>15 DEF SshAlert
<1>16. ASSUME NEW h \in Hosts, RemoveHosts(h) PROVE TypeOK'
  BY <1>16 DEF RemoveHosts
<1>17. ASSUME NEW h \in Hosts, RemoveHost(h) PROVE TypeOK'
  BY <1>17 DEF RemoveHost, Close, Registered
<1>18. ASSUME NEW p \in Pushers, NEW h \in Hosts, Request(p, h) PROVE TypeOK'
  BY <1>18 DEF Request, Push, Procs
<1>19. ASSUME NEW p \in Pushers, NEW h \in Hosts, AddHost(p, h) PROVE TypeOK'
  <2>1. /\ at' \in [Procs -> {"idle", "kill", "start"}]
        /\ target' \in [Procs -> Hosts \cup {None}] /\ tells' \in [Procs -> BOOLEAN]
    <3>1. CASE UNCHANGED <<at, target, tells>>
      BY <3>1
    <3>2. CASE Push(p, h, FALSE)
      BY <3>2 DEF Push, Procs
    <3> QED
      BY <1>19, <3>1, <3>2 DEF AddHost
  <2> QED
    BY <1>19, <2>1 DEF AddHost
<1>20. ASSUME Clean PROVE TypeOK'
  BY <1>20 DEF Clean, Close, Registered, Without
<1>21. ASSUME WakeScan PROVE TypeOK'
  BY <1>21 DEF WakeScan
<1>22. ASSUME RemoveAll PROVE TypeOK'
  BY <1>22 DEF RemoveAll
<1>23. ASSUME UNCHANGED vars PROVE TypeOK'
  BY <1>23
<1> QED
  BY <1>1, <1>2, <1>3, <1>4, <1>5, <1>6, <1>7, <1>8, <1>9, <1>10, <1>11, <1>12,
     <1>13, <1>14, <1>15, <1>16, <1>17, <1>18, <1>19, <1>20, <1>21, <1>22, <1>23 DEF Next, SocketStep, PushStep, Starts, HostStep

\* What processes, sockets and pushes know of their host.
LEMMA HostsStep ==
  ASSUME TypeOK, HostsKnown, EntryHasReader, [Next]_vars
  PROVE  HostsKnown'
<1> USE DEF HostsKnown, TypeOK, Running, vars, hub, net, pushes
<1>1. ASSUME NEW k \in Sockets, Register(k) PROVE HostsKnown'
  BY <1>1, NoneAssumption DEF Register, EntryHasReader, ReaderOf
<1>2. ASSUME NEW k \in Sockets, Snapshot(k) PROVE HostsKnown'
  BY <1>2, NoneAssumption DEF Snapshot
<1>3. ASSUME NEW k \in Sockets, Disconnect(k) PROVE HostsKnown'
  BY <1>3, NoneAssumption DEF Disconnect
<1>4. ASSUME NEW k \in Sockets, LinkBreaks(k) PROVE HostsKnown'
  BY <1>4, NoneAssumption DEF LinkBreaks, Close
<1>5. ASSUME NEW a \in Agents, Dial(a) PROVE HostsKnown'
  BY <1>5, NoneAssumption DEF Dial
<1>6. ASSUME NEW a \in Agents, AgentDies(a) PROVE HostsKnown'
  BY <1>6, NoneAssumption DEF AgentDies, Close, Off
<1>7. ASSUME NEW p \in Procs, Kill(p) PROVE HostsKnown'
  BY <1>7, NoneAssumption DEF Kill, Close, Off
<1>8. ASSUME NEW p \in Procs, KillFails(p) PROVE HostsKnown'
  BY <1>8, NoneAssumption DEF KillFails
<1>9. ASSUME NEW p \in Procs, PushFails(p) PROVE HostsKnown'
  BY <1>9, NoneAssumption DEF PushFails, PushReturns
<1>10. ASSUME NEW p \in Procs, StartsNothing(p) PROVE HostsKnown'
  BY <1>10, NoneAssumption DEF StartsNothing, PushReturns
<1>11. ASSUME NEW p \in Procs, NEW a \in Agents, StartUnit(p, a) PROVE HostsKnown'
  BY <1>11, NoneAssumption DEF StartUnit, PushReturns, Close, Off
<1>12. ASSUME NEW p \in Procs, NEW a \in Agents, StartNohup(p, a) PROVE HostsKnown'
  BY <1>12, NoneAssumption DEF StartNohup, PushReturns
<1>13. ASSUME NEW h \in Hosts, Age(h) PROVE HostsKnown'
  BY <1>13, NoneAssumption DEF Age
<1>14. ASSUME NEW h \in Hosts, Wake(h) PROVE HostsKnown'
  BY <1>14, NoneAssumption DEF Wake, Push, Procs
<1>15. ASSUME NEW h \in Hosts, SshAlert(h) PROVE HostsKnown'
  BY <1>15, NoneAssumption DEF SshAlert
<1>16. ASSUME NEW h \in Hosts, RemoveHosts(h) PROVE HostsKnown'
  BY <1>16, NoneAssumption DEF RemoveHosts
<1>17. ASSUME NEW h \in Hosts, RemoveHost(h) PROVE HostsKnown'
  BY <1>17, NoneAssumption
     DEF RemoveHost, Close, Registered, EntryHasReader, ReaderOf
<1>18. ASSUME NEW p \in Pushers, NEW h \in Hosts, Request(p, h) PROVE HostsKnown'
  BY <1>18, NoneAssumption DEF Request, Push, Procs
<1>19. ASSUME NEW p \in Pushers, NEW h \in Hosts, AddHost(p, h) PROVE HostsKnown'
  BY <1>19, NoneAssumption DEF AddHost, Push, Procs
<1>20. ASSUME Clean PROVE HostsKnown'
  BY <1>20, NoneAssumption
     DEF Clean, Close, Registered, Without, EntryHasReader, ReaderOf
<1>21. ASSUME WakeScan PROVE HostsKnown'
  BY <1>21, NoneAssumption DEF WakeScan
<1>22. ASSUME RemoveAll PROVE HostsKnown'
  BY <1>22, NoneAssumption DEF RemoveAll
<1>23. ASSUME UNCHANGED vars PROVE HostsKnown'
  BY <1>23, NoneAssumption
<1> QED
  BY <1>1, <1>2, <1>3, <1>4, <1>5, <1>6, <1>7, <1>8, <1>9, <1>10, <1>11, <1>12,
     <1>13, <1>14, <1>15, <1>16, <1>17, <1>18, <1>19, <1>20, <1>21, <1>22, <1>23 DEF Next, SocketStep, PushStep, Starts, HostStep

\* An entry of conns is that of a reader.  A socket that is dialled has no
\* entry; a reader that ends takes the only entry it can have with it.
LEMMA EntryStep ==
  ASSUME TypeOK, HostsKnown, EntryHasReader, [Next]_vars
  PROVE  EntryHasReader'
<1> USE DEF EntryHasReader, ReaderOf, TypeOK, vars, hub, net, pushes
<1>1. ASSUME NEW k \in Sockets, Register(k) PROVE EntryHasReader'
  BY <1>1, NoneAssumption DEF Register, HostsKnown
<1>2. ASSUME NEW k \in Sockets, Snapshot(k) PROVE EntryHasReader'
  BY <1>2, NoneAssumption DEF Snapshot
<1>3. ASSUME NEW k \in Sockets, Disconnect(k) PROVE EntryHasReader'
  BY <1>3, NoneAssumption DEF Disconnect, HostsKnown
<1>4. ASSUME NEW k \in Sockets, LinkBreaks(k) PROVE EntryHasReader'
  BY <1>4, NoneAssumption DEF LinkBreaks, Close
<1>5. ASSUME NEW a \in Agents, Dial(a) PROVE EntryHasReader'
  BY <1>5, NoneAssumption DEF Dial, Running
<1>6. ASSUME NEW a \in Agents, AgentDies(a) PROVE EntryHasReader'
  BY <1>6, NoneAssumption DEF AgentDies, Close, Running
<1>7. ASSUME NEW p \in Procs, Kill(p) PROVE EntryHasReader'
  BY <1>7, NoneAssumption DEF Kill, Close, Running
<1>8. ASSUME NEW p \in Procs, KillFails(p) PROVE EntryHasReader'
  BY <1>8, NoneAssumption DEF KillFails
<1>9. ASSUME NEW p \in Procs, PushFails(p) PROVE EntryHasReader'
  BY <1>9, NoneAssumption DEF PushFails, PushReturns
<1>10. ASSUME NEW p \in Procs, StartsNothing(p) PROVE EntryHasReader'
  BY <1>10, NoneAssumption DEF StartsNothing, PushReturns
<1>11. ASSUME NEW p \in Procs, NEW a \in Agents, StartUnit(p, a) PROVE EntryHasReader'
  BY <1>11, NoneAssumption DEF StartUnit, PushReturns, Close, Running
<1>12. ASSUME NEW p \in Procs, NEW a \in Agents, StartNohup(p, a) PROVE EntryHasReader'
  BY <1>12, NoneAssumption DEF StartNohup, PushReturns, Running
<1>13. ASSUME NEW h \in Hosts, Age(h) PROVE EntryHasReader'
  BY <1>13, NoneAssumption DEF Age
<1>14. ASSUME NEW h \in Hosts, Wake(h) PROVE EntryHasReader'
  BY <1>14, NoneAssumption DEF Wake, Push
<1>15. ASSUME NEW h \in Hosts, SshAlert(h) PROVE EntryHasReader'
  BY <1>15, NoneAssumption DEF SshAlert
<1>16. ASSUME NEW h \in Hosts, RemoveHosts(h) PROVE EntryHasReader'
  BY <1>16, NoneAssumption DEF RemoveHosts
<1>17. ASSUME NEW h \in Hosts, RemoveHost(h) PROVE EntryHasReader'
  BY <1>17, NoneAssumption DEF RemoveHost, Close, Registered
<1>18. ASSUME NEW p \in Pushers, NEW h \in Hosts, Request(p, h) PROVE EntryHasReader'
  BY <1>18, NoneAssumption DEF Request, Push
<1>19. ASSUME NEW p \in Pushers, NEW h \in Hosts, AddHost(p, h) PROVE EntryHasReader'
  BY <1>19, NoneAssumption DEF AddHost, Push
<1>20. ASSUME Clean PROVE EntryHasReader'
  BY <1>20, NoneAssumption DEF Clean, Close, Registered, Without
<1>21. ASSUME WakeScan PROVE EntryHasReader'
  BY <1>21, NoneAssumption DEF WakeScan
<1>22. ASSUME RemoveAll PROVE EntryHasReader'
  BY <1>22, NoneAssumption DEF RemoveAll
<1>23. ASSUME UNCHANGED vars PROVE EntryHasReader'
  BY <1>23, NoneAssumption
<1> QED
  BY <1>1, <1>2, <1>3, <1>4, <1>5, <1>6, <1>7, <1>8, <1>9, <1>10, <1>11, <1>12,
     <1>13, <1>14, <1>15, <1>16, <1>17, <1>18, <1>19, <1>20, <1>21, <1>22, <1>23 DEF Next, SocketStep, PushStep, Starts, HostStep

\* A cached snapshot has a reader.  Only the end of a reader takes one away,
\* and it clears the snapshot.
LEMMA CacheStep ==
  ASSUME TypeOK, HostsKnown, CacheHasReader, [Next]_vars
  PROVE  CacheHasReader'
<1> USE DEF CacheHasReader, ReaderOf, TypeOK, vars, hub, net, pushes
<1>1. ASSUME NEW k \in Sockets, Register(k) PROVE CacheHasReader'
  BY <1>1, NoneAssumption DEF Register, HostsKnown
<1>2. ASSUME NEW k \in Sockets, Snapshot(k) PROVE CacheHasReader'
  BY <1>2, NoneAssumption DEF Snapshot, HostsKnown
<1>3. ASSUME NEW k \in Sockets, Disconnect(k) PROVE CacheHasReader'
  BY <1>3, NoneAssumption DEF Disconnect, HostsKnown
<1>4. ASSUME NEW k \in Sockets, LinkBreaks(k) PROVE CacheHasReader'
  BY <1>4, NoneAssumption DEF LinkBreaks, Close
<1>5. ASSUME NEW a \in Agents, Dial(a) PROVE CacheHasReader'
  BY <1>5, NoneAssumption DEF Dial, Running
<1>6. ASSUME NEW a \in Agents, AgentDies(a) PROVE CacheHasReader'
  BY <1>6, NoneAssumption DEF AgentDies, Close, Running
<1>7. ASSUME NEW p \in Procs, Kill(p) PROVE CacheHasReader'
  BY <1>7, NoneAssumption DEF Kill, Close, Running
<1>8. ASSUME NEW p \in Procs, KillFails(p) PROVE CacheHasReader'
  BY <1>8, NoneAssumption DEF KillFails
<1>9. ASSUME NEW p \in Procs, PushFails(p) PROVE CacheHasReader'
  BY <1>9, NoneAssumption DEF PushFails, PushReturns
<1>10. ASSUME NEW p \in Procs, StartsNothing(p) PROVE CacheHasReader'
  BY <1>10, NoneAssumption DEF StartsNothing, PushReturns
<1>11. ASSUME NEW p \in Procs, NEW a \in Agents, StartUnit(p, a) PROVE CacheHasReader'
  BY <1>11, NoneAssumption DEF StartUnit, PushReturns, Close, Running
<1>12. ASSUME NEW p \in Procs, NEW a \in Agents, StartNohup(p, a) PROVE CacheHasReader'
  BY <1>12, NoneAssumption DEF StartNohup, PushReturns, Running
<1>13. ASSUME NEW h \in Hosts, Age(h) PROVE CacheHasReader'
  BY <1>13, NoneAssumption DEF Age
<1>14. ASSUME NEW h \in Hosts, Wake(h) PROVE CacheHasReader'
  BY <1>14, NoneAssumption DEF Wake, Push
<1>15. ASSUME NEW h \in Hosts, SshAlert(h) PROVE CacheHasReader'
  BY <1>15, NoneAssumption DEF SshAlert
<1>16. ASSUME NEW h \in Hosts, RemoveHosts(h) PROVE CacheHasReader'
  BY <1>16, NoneAssumption DEF RemoveHosts
<1>17. ASSUME NEW h \in Hosts, RemoveHost(h) PROVE CacheHasReader'
  BY <1>17, NoneAssumption DEF RemoveHost, Close, Registered
<1>18. ASSUME NEW p \in Pushers, NEW h \in Hosts, Request(p, h) PROVE CacheHasReader'
  BY <1>18, NoneAssumption DEF Request, Push
<1>19. ASSUME NEW p \in Pushers, NEW h \in Hosts, AddHost(p, h) PROVE CacheHasReader'
  BY <1>19, NoneAssumption DEF AddHost, Push
<1>20. ASSUME Clean PROVE CacheHasReader'
  BY <1>20, NoneAssumption DEF Clean, Close, Registered, Without
<1>21. ASSUME WakeScan PROVE CacheHasReader'
  BY <1>21, NoneAssumption DEF WakeScan
<1>22. ASSUME RemoveAll PROVE CacheHasReader'
  BY <1>22, NoneAssumption DEF RemoveAll
<1>23. ASSUME UNCHANGED vars PROVE CacheHasReader'
  BY <1>23, NoneAssumption
<1> QED
  BY <1>1, <1>2, <1>3, <1>4, <1>5, <1>6, <1>7, <1>8, <1>9, <1>10, <1>11, <1>12,
     <1>13, <1>14, <1>15, <1>16, <1>17, <1>18, <1>19, <1>20, <1>21, <1>22, <1>23 DEF Next, SocketStep, PushStep, Starts, HostStep

-----------------------------------------------------------------------------
(* A reader of h other than k's that has just ended. *)
RivalEnds(h, k) ==
  \E j \in Sockets : j # k /\ ReaderOf(j, h) /\ sock[j] = "broken" /\ sock'[j] = "free"

OnlyRivalsDrop ==
  \A h \in Hosts, k \in Sockets :
    conns[h] = k /\ conns'[h] # k /\ sock'[k] = "open" => RivalEnds(h, k)

\* Register, Clean and RemoveHost close what they take out of conns; what is
\* left is the end of an older reader.
LEMMA DropStep ==
  ASSUME TypeOK, HostsKnown, EntryHasReader, [Next]_vars
  PROVE  OnlyRivalsDrop
<1> USE DEF OnlyRivalsDrop, TypeOK, vars, hub, net, pushes
<1>1. ASSUME NEW k \in Sockets, Register(k) PROVE OnlyRivalsDrop
  BY <1>1, NoneAssumption DEF Register
<1>2. ASSUME NEW k \in Sockets, Snapshot(k) PROVE OnlyRivalsDrop
  BY <1>2, NoneAssumption DEF Snapshot
<1>3. ASSUME NEW k \in Sockets, Disconnect(k) PROVE OnlyRivalsDrop
  BY <1>3, NoneAssumption DEF Disconnect, RivalEnds, ReaderOf
<1>4. ASSUME NEW k \in Sockets, LinkBreaks(k) PROVE OnlyRivalsDrop
  BY <1>4, NoneAssumption DEF LinkBreaks, Close
<1>5. ASSUME NEW a \in Agents, Dial(a) PROVE OnlyRivalsDrop
  BY <1>5, NoneAssumption DEF Dial, Running
<1>6. ASSUME NEW a \in Agents, AgentDies(a) PROVE OnlyRivalsDrop
  BY <1>6, NoneAssumption DEF AgentDies, Close, Running
<1>7. ASSUME NEW p \in Procs, Kill(p) PROVE OnlyRivalsDrop
  BY <1>7, NoneAssumption DEF Kill, Close, Running
<1>8. ASSUME NEW p \in Procs, KillFails(p) PROVE OnlyRivalsDrop
  BY <1>8, NoneAssumption DEF KillFails
<1>9. ASSUME NEW p \in Procs, PushFails(p) PROVE OnlyRivalsDrop
  BY <1>9, NoneAssumption DEF PushFails, PushReturns
<1>10. ASSUME NEW p \in Procs, StartsNothing(p) PROVE OnlyRivalsDrop
  BY <1>10, NoneAssumption DEF StartsNothing, PushReturns
<1>11. ASSUME NEW p \in Procs, NEW a \in Agents, StartUnit(p, a) PROVE OnlyRivalsDrop
  BY <1>11, NoneAssumption DEF StartUnit, PushReturns, Close, Running
<1>12. ASSUME NEW p \in Procs, NEW a \in Agents, StartNohup(p, a) PROVE OnlyRivalsDrop
  BY <1>12, NoneAssumption DEF StartNohup, PushReturns, Running
<1>13. ASSUME NEW h \in Hosts, Age(h) PROVE OnlyRivalsDrop
  BY <1>13, NoneAssumption DEF Age
<1>14. ASSUME NEW h \in Hosts, Wake(h) PROVE OnlyRivalsDrop
  BY <1>14, NoneAssumption DEF Wake, Push
<1>15. ASSUME NEW h \in Hosts, SshAlert(h) PROVE OnlyRivalsDrop
  BY <1>15, NoneAssumption DEF SshAlert
<1>16. ASSUME NEW h \in Hosts, RemoveHosts(h) PROVE OnlyRivalsDrop
  BY <1>16, NoneAssumption DEF RemoveHosts
<1>17. ASSUME NEW h \in Hosts, RemoveHost(h) PROVE OnlyRivalsDrop
  BY <1>17, NoneAssumption DEF RemoveHost, Close, Registered
<1>18. ASSUME NEW p \in Pushers, NEW h \in Hosts, Request(p, h) PROVE OnlyRivalsDrop
  BY <1>18, NoneAssumption DEF Request, Push
<1>19. ASSUME NEW p \in Pushers, NEW h \in Hosts, AddHost(p, h) PROVE OnlyRivalsDrop
  BY <1>19, NoneAssumption DEF AddHost, Push
<1>20. ASSUME Clean PROVE OnlyRivalsDrop
  BY <1>20, NoneAssumption DEF Clean, Close, Registered, Without
<1>21. ASSUME WakeScan PROVE OnlyRivalsDrop
  BY <1>21, NoneAssumption DEF WakeScan
<1>22. ASSUME RemoveAll PROVE OnlyRivalsDrop
  BY <1>22, NoneAssumption DEF RemoveAll
<1>23. ASSUME UNCHANGED vars PROVE OnlyRivalsDrop
  BY <1>23, NoneAssumption
<1> QED
  BY <1>1, <1>2, <1>3, <1>4, <1>5, <1>6, <1>7, <1>8, <1>9, <1>10, <1>11, <1>12,
     <1>13, <1>14, <1>15, <1>16, <1>17, <1>18, <1>19, <1>20, <1>21, <1>22, <1>23 DEF Next, SocketStep, PushStep, Starts, HostStep

-----------------------------------------------------------------------------
(* HubInvariant holds in every reachable state: whatever reconnects, pushes,
   removals and cleaning rounds come together, an entry of the hub and a cached
   snapshot always have a reader that will take them out. *)
THEOREM HubInvariantHolds == Spec => []HubInvariant
<1>1. Init => HubInvariant
  BY NoneAssumption
  DEF Init, HubInvariant, TypeOK, HostsKnown, EntryHasReader, CacheHasReader, Running, Off
<1>2. HubInvariant /\ [Next]_vars => HubInvariant'
  BY TypeStep, HostsStep, EntryStep, CacheStep DEF HubInvariant
<1> QED
  BY <1>1, <1>2, PTL DEF Spec

(* The hub's state always has its type. *)
THEOREM HubTypeCorrect == Spec => []TypeOK
BY HubInvariantHolds, PTL DEF HubInvariant

(* No entry of conns outlives the reader that made it. *)
THEOREM EntriesHaveReaders == Spec => []EntryHasReader
BY HubInvariantHolds, PTL DEF HubInvariant

(* No snapshot stays in the cache once the last reader of its host has ended. *)
THEOREM SnapshotsHaveReaders == Spec => []CacheHasReader
BY HubInvariantHolds, PTL DEF HubInvariant

(* ServeWS's deferred delete is the only step that drops an open connection. *)
THEOREM OnlyRivalsDropOpen == Spec => DroppedOpenHasRival
<1>1. HubInvariant /\ [Next]_vars
        => [\A h \in Hosts, k \in Sockets :
              conns[h] = k /\ conns'[h] # k /\ sock'[k] = "open"
                => \E j \in Sockets : j # k /\ ReaderOf(j, h) /\ sock[j] = "broken"
                                      /\ sock'[j] = "free"]_vars
  BY DropStep DEF HubInvariant, OnlyRivalsDrop, RivalEnds
<1> QED
  BY <1>1, HubInvariantHolds, PTL DEF Spec, DroppedOpenHasRival
=============================================================================
