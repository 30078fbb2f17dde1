------------------------------ MODULE AgentHub ------------------------------
(***************************************************************************)
(* The agent hub (internal/agent/hub.go), the pushes that put an agent on  *)
(* a host (internal/agent/deploy.go, tryDeployAgent), the agent's client   *)
(* (cmd/agent/wsclient.go) and the host handlers that drive them           *)
(* (internal/handlers/ansible.go).                                         *)
(*                                                                         *)
(* A socket stands for one WebSocket: ServeWS runs one goroutine for it,   *)
(* its reader, until ReadMessage fails.  A hub action is one critical      *)
(* section of AgentHub.mu.  The agent runs on another machine: its         *)
(* processes, and the SSH commands of a push, are actions of their own.    *)
(*                                                                         *)
(* What a snapshot holds is left out, and so is its agent version: any     *)
(* request may ask for a push (TryUpdateAgent), which is more than the     *)
(* version watch does.                                                     *)
(***************************************************************************)
EXTENDS Naturals

CONSTANTS
  Hosts,    \* host ids
  Sockets,  \* server ends of WebSockets; one whose reader ended is used again
  Agents,   \* process ids of agents on the hosts
  Waker,    \* the goroutine of StartWakeLoop
  Pushers,  \* goroutines of tryDeployAgent and DeployAgent
  None

ASSUME NoneAssumption == None \notin Hosts \cup Sockets \cup Agents
ASSUME WakerAssumption == Waker \notin Pushers

Procs == Pushers \cup {Waker}

VARIABLES
  inventory,  \* Manager.hosts
  leaving,    \* hosts a remove handler has still to take out of the hub
  conns,      \* AgentHub.conns: the socket registered for a host
  silent,     \* since agentConn.lastSeen: 0, under 30 s; 1, over 30 s; 2, over 60 s
  cache,      \* whether AgentHub.cache has a snapshot of a host
  alerts,     \* whether AgentHub.alerts has a message for a host
  sock,       \* "free"; "open"; "broken": closed at one end, its reader not told yet
  reg,        \* whether the reader has read a register message (hostID # "")
  peer,       \* the host id the agent registers with
  owner,      \* the agent process at the other end of an open socket
  proc,       \* agent processes: where each runs, and as a systemd unit or not
  at,         \* program counter of a push
  target,     \* the host of a push
  tells,      \* whether the push sets or clears the alert (tryDeployAgent)
  todo        \* the hosts the wake loop has still to look at

hub == <<conns, silent, cache, alerts>>
net == <<sock, reg, peer, owner>>
pushes == <<at, target, tells, todo>>
vars == <<inventory, leaving, hub, net, proc, pushes>>

Off == [host |-> None, unit |-> FALSE]
Running(a) == proc[a] # Off

Init ==
  /\ inventory \in SUBSET Hosts
  /\ leaving = {}
  /\ conns = [h \in Hosts |-> None]
  /\ silent = [k \in Sockets |-> 0]
  /\ cache = [h \in Hosts |-> FALSE]
  /\ alerts = [h \in Hosts |-> FALSE]
  /\ sock = [k \in Sockets |-> "free"]
  /\ reg = [k \in Sockets |-> FALSE]
  /\ peer = [k \in Sockets |-> None]
  /\ owner = [k \in Sockets |-> None]
  /\ proc = [a \in Agents |-> Off]
  /\ at = [p \in Procs |-> "idle"]
  /\ target = [p \in Procs |-> None]
  /\ tells = [p \in Procs |-> FALSE]
  /\ todo = {}

(* IsOnline and OnlineIDs: registered, and heard of in the last 30 seconds. *)
Online(h) == conns[h] # None /\ silent[conns[h]] = 0

(* conn.Close: the reader of each socket in ks gets an error, its agent too. *)
Close(ks) ==
  /\ sock' = [k \in Sockets |-> IF k \in ks THEN "broken" ELSE sock[k]]
  /\ owner' = [k \in Sockets |-> IF k \in ks THEN None ELSE owner[k]]
  /\ UNCHANGED <<reg, peer>>

(* The sockets registered for the hosts in hs. *)
Registered(hs) == {conns[h] : h \in hs} \ {None}

Without(f, hs, absent) == [h \in Hosts |-> IF h \in hs THEN absent ELSE f[h]]

-----------------------------------------------------------------------------
(* The agent's side of a socket. *)

(* run: a process without a link dials and sends its register message, which
   Register reads. *)
Dial(a) ==
  /\ Running(a)
  /\ \A k \in Sockets : owner[k] # a
  /\ \E k \in Sockets :
       /\ sock[k] = "free"
       /\ sock' = [sock EXCEPT ![k] = "open"]
       /\ peer' = [peer EXCEPT ![k] = proc[a].host]
       /\ owner' = [owner EXCEPT ![k] = a]
  /\ UNCHANGED <<inventory, leaving, hub, reg, proc, pushes>>

(* The link is lost, or a unit's process dies and systemd restarts it. *)
LinkBreaks(k) ==
  /\ sock[k] = "open"
  /\ Close({k})
  /\ UNCHANGED <<inventory, leaving, hub, proc, pushes>>

(* A process started with nohup dies for good. *)
AgentDies(a) ==
  /\ Running(a) /\ ~proc[a].unit
  /\ proc' = [proc EXCEPT ![a] = Off]
  /\ Close({k \in Sockets : owner[k] = a})
  /\ UNCHANGED <<inventory, leaving, hub, pushes>>

-----------------------------------------------------------------------------
(* ServeWS, the reader of socket k.  Frames that arrived before the socket
   broke are still read. *)

(* "register" takes the host over from the socket registered before. *)
Register(k) ==
  LET h == peer[k] IN
  /\ sock[k] # "free" /\ ~reg[k]
  /\ conns' = [conns EXCEPT ![h] = k]
  /\ silent' = [silent EXCEPT ![k] = 0]
  /\ cache' = IF conns[h] # None THEN [cache EXCEPT ![h] = FALSE] ELSE cache
  /\ alerts' = [alerts EXCEPT ![h] = FALSE]
  /\ reg' = [reg EXCEPT ![k] = TRUE]
  /\ sock' = [j \in Sockets |-> IF j = conns[h] THEN "broken" ELSE sock[j]]
  /\ owner' = [j \in Sockets |-> IF j = conns[h] THEN None ELSE owner[j]]
  /\ UNCHANGED <<inventory, leaving, peer, proc, pushes>>

(* "snapshot" refreshes whichever connection the host has, and caches even
   when it has none. *)
Snapshot(k) ==
  LET h == peer[k] IN
  /\ sock[k] # "free" /\ reg[k]
  /\ silent' = [j \in Sockets |-> IF j = conns[h] THEN 0 ELSE silent[j]]
  /\ cache' = [cache EXCEPT ![h] = TRUE]
  /\ UNCHANGED <<inventory, leaving, conns, alerts, net, proc, pushes>>

(* Mutants of Disconnect: the entry, the snapshot is forgotten; or each is
   deleted only while the host's entry is the reader's own. *)
DisconnectKeepsEntry(k) ==
  /\ sock[k] = "broken"
  /\ cache' = IF reg[k] THEN [cache EXCEPT ![peer[k]] = FALSE] ELSE cache
  /\ sock' = [sock EXCEPT ![k] = "free"]
  /\ reg' = [reg EXCEPT ![k] = FALSE]
  /\ peer' = [peer EXCEPT ![k] = None]
  /\ UNCHANGED <<inventory, leaving, conns, silent, alerts, owner, proc, pushes>>

DisconnectKeepsCache(k) ==
  /\ sock[k] = "broken"
  /\ conns' = IF reg[k] THEN [conns EXCEPT ![peer[k]] = None] ELSE conns
  /\ sock' = [sock EXCEPT ![k] = "free"]
  /\ reg' = [reg EXCEPT ![k] = FALSE]
  /\ peer' = [peer EXCEPT ![k] = None]
  /\ UNCHANGED <<inventory, leaving, silent, cache, alerts, owner, proc, pushes>>

DisconnectOwn(k) ==
  LET h == peer[k]
      own == reg[k] /\ conns[h] = k IN
  /\ sock[k] = "broken"
  /\ conns' = IF own THEN [conns EXCEPT ![h] = None] ELSE conns
  /\ cache' = IF own THEN [cache EXCEPT ![h] = FALSE] ELSE cache
  /\ sock' = [sock EXCEPT ![k] = "free"]
  /\ reg' = [reg EXCEPT ![k] = FALSE]
  /\ peer' = [peer EXCEPT ![k] = None]
  /\ UNCHANGED <<inventory, leaving, silent, alerts, owner, proc, pushes>>

(* The deferred function of ServeWS: it deletes the host's entry and snapshot,
   whichever socket they belong to now. *)
Disconnect(k) ==
  LET h == peer[k] IN
  /\ sock[k] = "broken"
  /\ conns' = IF reg[k] THEN [conns EXCEPT ![h] = None] ELSE conns
  /\ cache' = IF reg[k] THEN [cache EXCEPT ![h] = FALSE] ELSE cache
  /\ sock' = [sock EXCEPT ![k] = "free"]
  /\ reg' = [reg EXCEPT ![k] = FALSE]
  /\ peer' = [peer EXCEPT ![k] = None]
  /\ UNCHANGED <<inventory, leaving, silent, alerts, owner, proc, pushes>>

(* Time passes without a snapshot: the 30 and the 60 seconds of lastSeen. *)
Age(h) ==
  /\ conns[h] # None
  /\ silent[conns[h]] < 2
  /\ silent' = [silent EXCEPT ![conns[h]] = @ + 1]
  /\ UNCHANGED <<inventory, leaving, conns, cache, alerts, net, proc, pushes>>

(* One round of cleanLoop. *)
Clean ==
  LET old == {h \in Hosts : conns[h] # None /\ silent[conns[h]] = 2} IN
  /\ old # {}
  /\ Close(Registered(old))
  /\ conns' = Without(conns, old, None)
  /\ cache' = Without(cache, old, FALSE)
  /\ alerts' = Without(alerts, old, FALSE)
  /\ UNCHANGED <<inventory, leaving, silent, proc, pushes>>

-----------------------------------------------------------------------------
(* Pushes: TryWakeAgent and doDeploy.  The two commands of TryWakeAgent that
   kill the old agent are one step. *)

(* A goroutine takes up the push to host h. *)
Push(p, h, alerting) ==
  /\ at[p] = "idle"
  /\ at' = [at EXCEPT ![p] = "kill"]
  /\ target' = [target EXCEPT ![p] = h]
  /\ tells' = [tells EXCEPT ![p] = alerting]

(* The kill reaches every agent process of the host ... *)
Kill(p) ==
  LET killed == {a \in Agents : Running(a) /\ proc[a].host = target[p]} IN
  /\ at[p] = "kill"
  /\ at' = [at EXCEPT ![p] = "start"]
  /\ proc' = [a \in Agents |-> IF a \in killed THEN Off ELSE proc[a]]
  /\ Close({k \in Sockets : owner[k] \in killed})
  /\ UNCHANGED <<inventory, leaving, hub, target, tells, todo>>

(* ... or its SSH session fails, and the push goes on. *)
KillFails(p) ==
  /\ at[p] = "kill"
  /\ at' = [at EXCEPT ![p] = "start"]
  /\ UNCHANGED <<inventory, leaving, hub, net, proc, target, tells, todo>>

(* The push returns; tryDeployAgent records how it ended. *)
PushReturns(p, failed) ==
  /\ at' = [at EXCEPT ![p] = "idle"]
  /\ alerts' = IF tells[p] THEN [alerts EXCEPT ![target[p]] = failed] ELSE alerts
  /\ target' = [target EXCEPT ![p] = None]
  /\ tells' = [tells EXCEPT ![p] = FALSE]
  /\ UNCHANGED <<inventory, leaving, conns, silent, cache, todo>>

(* No binary to push, or it could not be written. *)
PushFails(p) ==
  /\ at[p] = "start"
  /\ PushReturns(p, TRUE)
  /\ UNCHANGED <<net, proc>>

(* systemctl restart: the unit's process is replaced. *)
StartUnit(p, a) ==
  LET h == target[p]
      replaced == {b \in Agents : proc[b] = [host |-> h, unit |-> TRUE]} IN
  /\ at[p] = "start"
  /\ a \in replaced \/ (replaced = {} /\ ~Running(a))
  /\ proc' = [proc EXCEPT ![a] = [host |-> h, unit |-> TRUE]]
  /\ Close({k \in Sockets : owner[k] \in replaced})
  /\ PushReturns(p, FALSE)

(* The fallback: one more process, besides those that still run. *)
StartNohup(p, a) ==
  /\ at[p] = "start"
  /\ ~Running(a)
  /\ proc' = [proc EXCEPT ![a] = [host |-> target[p], unit |-> FALSE]]
  /\ PushReturns(p, FALSE)
  /\ UNCHANGED net

(* The error of the fallback's start command is dropped: a success without an
   agent. *)
StartsNothing(p) ==
  /\ at[p] = "start"
  /\ PushReturns(p, FALSE)
  /\ UNCHANGED <<net, proc>>

Starts(p) == \E a \in Agents : StartUnit(p, a) \/ StartNohup(p, a)

(* StartWakeLoop: a copy of the host list, then host by host. *)
WakeScan ==
  /\ at[Waker] = "idle" /\ todo = {}
  /\ inventory # {}
  /\ todo' = inventory
  /\ UNCHANGED <<inventory, leaving, hub, net, proc, at, target, tells>>

(* Mutant of Wake: a host with a snapshot (GetSnapshot) is taken for online. *)
WakeUnlessCached(h) ==
  /\ at[Waker] = "idle" /\ h \in todo
  /\ todo' = todo \ {h}
  /\ IF cache[h] THEN UNCHANGED <<at, target, tells>>
                 ELSE Push(Waker, h, FALSE)
  /\ UNCHANGED <<inventory, leaving, hub, net, proc>>

Wake(h) ==
  /\ at[Waker] = "idle" /\ h \in todo
  /\ todo' = todo \ {h}
  /\ IF Online(h) THEN UNCHANGED <<at, target, tells>>
                  ELSE Push(Waker, h, FALSE)
  /\ UNCHANGED <<inventory, leaving, hub, net, proc>>

-----------------------------------------------------------------------------
(* The handlers. *)

(* TryUpdateAgent, EnsureAgent and watchAgentVersions end in tryDeployAgent. *)
Request(p, h) ==
  /\ IF h \in inventory
       THEN Push(p, h, TRUE) /\ UNCHANGED alerts
       ELSE alerts' = [alerts EXCEPT ![h] = TRUE] /\ UNCHANGED <<at, target, tells>>
  /\ UNCHANGED <<inventory, leaving, conns, silent, cache, net, proc, todo>>

(* A handler whose own SSH session failed. *)
SshAlert(h) ==
  /\ alerts' = [alerts EXCEPT ![h] = TRUE]
  /\ UNCHANGED <<inventory, leaving, conns, silent, cache, net, proc, pushes>>

(* AnsibleHostsAdd, of a host that comes with its id: nothing is pushed when
   hosts.json could not be saved. *)
AddHost(p, h) ==
  /\ h \notin inventory
  /\ inventory' = inventory \cup {h}
  /\ Push(p, h, FALSE) \/ UNCHANGED <<at, target, tells>>
  /\ UNCHANGED <<leaving, hub, net, proc, todo>>

(* AnsibleHostsRemove: the inventory first, which may fail to be saved, ... *)
RemoveHosts(h) ==
  /\ h \in inventory
  /\ inventory' = inventory \ {h}
  /\ leaving' \in {leaving, leaving \cup {h}}
  /\ UNCHANGED <<hub, net, proc, pushes>>

(* ... or, for "all", a copy of the host list and no change to the inventory; *)
RemoveAll ==
  /\ leaving' = leaving \cup inventory
  /\ UNCHANGED <<inventory, hub, net, proc, pushes>>

(* Mutant of RemoveHost: the connection is not closed. *)
RemoveHostOpen(h) ==
  /\ h \in leaving
  /\ leaving' = leaving \ {h}
  /\ conns' = [conns EXCEPT ![h] = None]
  /\ cache' = [cache EXCEPT ![h] = FALSE]
  /\ alerts' = [alerts EXCEPT ![h] = FALSE]
  /\ UNCHANGED <<inventory, silent, net, proc, pushes>>

(* then AgentHub.RemoveHost, host by host. *)
RemoveHost(h) ==
  /\ h \in leaving
  /\ leaving' = leaving \ {h}
  /\ Close(Registered({h}))
  /\ conns' = [conns EXCEPT ![h] = None]
  /\ cache' = [cache EXCEPT ![h] = FALSE]
  /\ alerts' = [alerts EXCEPT ![h] = FALSE]
  /\ UNCHANGED <<inventory, silent, proc, pushes>>

-----------------------------------------------------------------------------
SocketStep(k) == Register(k) \/ Snapshot(k) \/ Disconnect(k) \/ LinkBreaks(k)
PushStep(p) == Kill(p) \/ KillFails(p) \/ PushFails(p) \/ StartsNothing(p) \/ Starts(p)
HostStep(h) ==
  \/ Age(h) \/ Wake(h) \/ SshAlert(h) \/ RemoveHosts(h) \/ RemoveHost(h)
  \/ \E p \in Pushers : Request(p, h) \/ AddHost(p, h)

Next ==
  \/ \E k \in Sockets : SocketStep(k)
  \/ \E a \in Agents : Dial(a) \/ AgentDies(a)
  \/ \E p \in Procs : PushStep(p)
  \/ \E h \in Hosts : HostStep(h)
  \/ Clean \/ WakeScan \/ RemoveAll

Spec == Init /\ [][Next]_vars

(* What the code and its surroundings keep doing.  The readers end: the kernel's
   keepalive fails a link that is gone.  The wake loop and cleanLoop go on, and a
   push that returns is the code's own step.  The network lets a push, a dial
   and a register message through again and again, if not every time. *)
Fairness ==
  /\ \A k \in Sockets : WF_vars(Disconnect(k)) /\ SF_vars(Register(k))
  /\ \A a \in Agents : SF_vars(Dial(a))
  /\ WF_vars(WakeScan) /\ WF_vars(\E h \in Hosts : Wake(h))
  /\ WF_vars(PushStep(Waker)) /\ SF_vars(Kill(Waker)) /\ SF_vars(Starts(Waker))
  /\ WF_vars(Clean) /\ \A h \in Hosts : WF_vars(Age(h))

LiveSpec == Spec /\ Fairness

-----------------------------------------------------------------------------
(* Types. *)
TypeOK ==
  /\ inventory \subseteq Hosts /\ leaving \subseteq Hosts /\ todo \subseteq Hosts
  /\ conns \in [Hosts -> Sockets \cup {None}]
  /\ silent \in [Sockets -> 0..2]
  /\ cache \in [Hosts -> BOOLEAN] /\ alerts \in [Hosts -> BOOLEAN]
  /\ sock \in [Sockets -> {"free", "open", "broken"}]
  /\ reg \in [Sockets -> BOOLEAN]
  /\ peer \in [Sockets -> Hosts \cup {None}]
  /\ owner \in [Sockets -> Agents \cup {None}]
  /\ proc \in [Agents -> [host : Hosts \cup {None}, unit : BOOLEAN]]
  /\ at \in [Procs -> {"idle", "kill", "start"}]
  /\ target \in [Procs -> Hosts \cup {None}]
  /\ tells \in [Procs -> BOOLEAN]

(* The reader of k speaks for host h. *)
ReaderOf(k, h) == sock[k] # "free" /\ reg[k] /\ peer[k] = h

(* An entry of conns is that of a reader that still runs and registered for this
   very host: no entry is left behind by the goroutine that made it, so each is
   taken out at the latest when its link fails. *)
EntryHasReader == \A h \in Hosts : conns[h] # None => ReaderOf(conns[h], h)

(* A snapshot is cached only while some reader of the host runs: the one that
   wrote it may be gone, but once the last is, overview and the other handlers
   of the host (GetSnapshot) no longer show old data as live. *)
CacheHasReader ==
  \A h \in Hosts : cache[h] => \E k \in Sockets : ReaderOf(k, h)

(* An open socket loses its place in conns in one way only: the reader of an
   older, broken socket of the same host ends after it (ServeWS's deferred
   delete).  RemoveHost, cleanLoop and a newer register message close what they
   take out. *)
DroppedOpenHasRival ==
  [][\A h \in Hosts, k \in Sockets :
       conns[h] = k /\ conns'[h] # k /\ sock'[k] = "open"
         => \E j \in Sockets : j # k /\ ReaderOf(j, h) /\ sock[j] = "broken"
                               /\ sock'[j] = "free"]_vars

(* A host of the inventory whose agent is not online (stopped, silent, or open
   and dropped as above) comes online again, or leaves the inventory: the wake
   loop replaces its agent, while requests push agents of their own, links break
   and agents die. *)
OfflineIsWoken ==
  \A h \in Hosts :
    (h \in inventory /\ ~Online(h)) ~> (Online(h) \/ h \notin inventory)

(* A host on which no agent runs any more goes dark: its entry and its cached
   snapshot disappear and do not come back. *)
DeadGoesDark ==
  \A h \in Hosts :
    <>[](\A a \in Agents : proc[a].host # h)
      => <>[](conns[h] = None /\ ~cache[h])
=============================================================================
