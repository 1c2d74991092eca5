# redis_cluster: a verification project

`redis_cluster` keeps the online sessions of an instant-messaging service in
several clusters of Redis servers. Gates report what happens to clients; logic
servers turn the reports into Lua scripts that run in Redis; a client library
sends them to the right server; controllers watch the servers, choose a master
for each cluster and publish the choice in ZooKeeper.

This directory holds TLA+ specifications translated from the source, the TLC
configurations that check them and theorems that TLAPS proves about them.
`PROJECT.json` says for every definition which lines it models.

## 1. Inventory

| Component | State | Operations | Interacts with |
|---|---|---|---|
| **RedisEvent** (`src/RedisEvent.*`) | `ctxs_` connections; `cfg_` a ring of 1000000 slots (`cflag_t`: counter `f_`, pointer `d_`); `req_` deadlines; `mutex_` | `cmd` (blocking), `cmd_async` (callback), `connect`, callbacks of hiredis, `timeout_callback` | Redis through hiredis and libev; callers in any thread |
| **libev adapter** (`src/libev.*`) | watchers of one connection | attach, cleanup | RedisEvent, hiredis |
| **RedisCtrl** (`src/RedisCtrl.*`) | none between passes; nodes `config`, `check`, `error`, `legal_nodes`, `lock` in ZooKeeper | `check`: one pass | ZooKeeper, Redis through RedisEvent |
| **Controller driver** (`online/test_ctrl.cpp`, `online/ZookeeperInit.h`) | one ZooKeeper handle | `for (;;) { check(); sleep(10); }` | RedisCtrl |
| **RedisHash** (`src/RedisHash.*`) | `addrs_`, `addrs_v_`: published clusters, sorted by addresses | watcher and child callback, `redis_addr_master`, `redis_addr_slave_first`, `redis_all` | `legal_nodes` |
| **Session store** (`script/*.lua`) | `U.<uid>` index of a user's connections, `L.<uid>.<lc>` one session with a TTL, `DLY_CK` sessions to remove | `syn`, `upidx`, `fin`, `fin_delay`, `timeout_rm`, `get_*` | run in Redis, one at a time |
| **OnlineCtrl** (`online/OnlineCtrl.*`) | scripts and the servers they must be loaded into (`script_t`) | one method per script, blocking and asynchronous | RedisHash, RedisEvent |
| **LogicCore** (`logic_driver/*`) | the thread of `check_timeout` | `from_sublayer` with one handler per message; sweep every second | gates, OnlineCtrl, the hooks |
| Util, city hash, protocol file, tests, Makefiles | none of the system's | | |

What is hard, and what must hold:

* **RedisEvent.** Caller threads, the loop thread and hiredis callbacks meet in
  a slot. A reply may come before, between or after the timeout of a call and
  the reset of its slot; the argument object is on the caller's stack. A
  connection may go away with commands in flight. NOSCRIPT makes `cmd` call
  itself. *Must hold:* a callback never uses an argument that is not that of
  its own call; the counter is the number of servers that still owe an answer;
  a call without timeout has every result; a result handed out does not change;
  every `cmd` returns and every callback runs, once.
* **RedisCtrl.** Two controllers, a lock that belongs to a session, a sequence
  of ZooKeeper writes that can stop anywhere, servers that come, go and answer
  late, an operator who edits the configuration meanwhile. *Must hold:* one
  controller works at a time; clients never see two masters for a cluster nor a
  server in two clusters; a master keeps its place unless it is out of order or
  no longer configured; SLAVEOF follows what is published; after the last
  event, configuration, records, published lists and replication agree.
* **RedisHash.** The map changes under its readers; the order of clusters
  depends on addresses. *Must hold:* all clients that read one set of nodes
  choose the same server; no change is missed for good; users stay where they
  are while the masters do.
* **Session store and LogicCore.** Late messages of old gates, removal racing
  return, answers lost. *Must hold:* every session is listed in its user's
  index; only abandoned sessions are swept; a session's end is told at most once.
* **script_t.** Marking and loading race. *Must hold:* a server that keeps
  saying NOSCRIPT is loaded eventually.

The hazards, each at its line and with the properties that watch over it, are
listed in `PROJECT.json`.

## 2. Modules and plan

| Component | Detailed | Abstract | Proofs | Composed in |
|---|---|---|---|---|
| RedisEvent, libev adapter | `RedisEvent` | `Gather` | `RedisEvent_proofs`, `RedisEventCalls_proofs` | |
| RedisCtrl, its driver | `RedisCtrl` | `Leader` | `RedisCtrlTypes_proofs`, `RedisCtrl_proofs` | `RedisService` |
| RedisHash | `RedisHash` | `LegalView` | `RedisHash_proofs` | `RedisService` (`RedisService_proofs`) |
| Session store, OnlineCtrl, LogicCore | `SessionStore` | | `SessionStore_proofs` | |
| `script_t` of OnlineCtrl | `ScriptLoad` | | `ScriptLoad_proofs` | |

`LegalNodes` says what lies between controllers and clients, the nodes of
`<root>/legal_nodes` and what one write may make of them; `Leader` and
`LegalView` both extend it, so that what the one promises is what the other
relies on. Modules named `MC...` give the instances that TLC checks.

Still to do:

1. The session store with users whose home moves, which joins `SessionStore` to
   `RedisHash`: what is left of a session on the server the user has left.
2. The safety half of the liveness properties, as far as it can be stated without
   `ENABLED`: for `Converges`, that a pass which nothing disturbs ends with the records,
   lists and replication that the next pass leaves alone.

## 3. RedisEvent

### Correspondence

| Code | Model |
|---|---|
| `userdata_t::ctxs_` and connection status | `ctx` |
| hiredis's queue of callbacks of a connection | `replies[a]` |
| `userdata_t::idx_`, `cfg_` | `idx`, `cfg` |
| `AsynReqCheck::req_` | `req` |
| `cmd_arg_t`, `cmd_async_arg_t` objects, live or dead | `carg` (numbered by call) |
| threads inside `cmd` | `th` |
| `mutex_` held while a lost connection is freed | `freeing` |
| `cmd` up to the wait; deadline; reset of the slot; retry; return | `Cmd`, `CmdTimeout`, `CmdReset`, `CmdRetry`, `CmdReturn` |
| `cmd_async` | `CmdAsync` |
| `connect_cb`, `redis_cmd_cb` and `redis_cmd_async_cb` | `ConnectOk`, `ConnectFail`, `Reply` (`SyncCb`, `AsyncCb`) |
| `disconnect_cb`, the empty replies, `redisLibevCleanup` | `Disconnect`, `NullReply`, `Cleanup` |
| `timeout_callback`, one expired entry | `Expire` |

One step is one section under `mutex_`: a caller holds it from `get_cf` to its
last send, the loop thread whenever it is not blocked in the kernel. A timeout
and the reset of the slot are two steps, as the lock is taken anew between
them. A command is only its destination and whether it is EVALSHA; a reply is
only its class (good, NOSCRIPT, empty).

Two environment conditions turned out to be needed and are explicit: `Quiet`,
the ring does not come round to a slot still in use or still owed a reply, and
no spurious wakeup of the condition variable. `CalmSpec` assumes both;
`BusySpec` drops the first and `WakeSpec` the second, and both break `CanUseD`,
under `BusySpec` each of its two halves, `RepliesCanUseD` and `DeadlinesCanUseD`
(section 10).

### Checks

| Run | Instance | Shows |
|---|---|---|
| `event_safety` | 2 threads, 2 servers, 2 slots, 3 calls | `Ownership`, `CanUseD`, `Accounted`, `CompleteUnlessTimeout`, `AsyncTracked`, `ResultFrozen` in about a million states |
| `event_live` | 2 threads, 2 servers, 4 slots, 2 calls, fairness | `Accounting`, the refinement `Gathered`, `AsyncCalledBack`, `CmdReturns` |
| `event_wake` | 1 thread, 1 server, spurious wakeups | `CanUseD` fails |
| `event_busy` | `cmd_async` only, 1 server, 2 slots, 4 calls, without `Quiet` | `RepliesCanUseD` fails |

Two slots and three calls make the ring come round, two servers make partial
answers, two threads make one call's timeout race the other's sends, and a
retry gives a fourth argument object. In `event_live` the ring has a slot for
each call and each retry, so that `Quiet` never keeps one waiting.

`Gather` is what the callers of RedisEvent rely on: no slots, connections,
counters or deadlines, but a call that asks some servers, collects at most one
answer of each while it is open, is closed once and is then handed over. Under
`Gathered` the arguments `carg` are the calls, and those a slot points to are open.

*Fairness:* the loop thread goes on running what is ready (deadlines pass,
the kernel reports lost connections, a context being freed runs its callbacks)
and callers waiting for the lock get it. Servers owe nothing: `Reply` is not
fair, so the liveness properties hold with servers that never answer.

### Proofs (`RedisEvent_proofs`, `RedisEventCalls_proofs`)

For every number of slots, calls, threads and servers, of `CalmSpec`:

* `TypeCorrect`: `[]TypeOK`.
* `OwnershipCorrect`: `[]Ownership`. `Ownership` is the inductive
  strengthening of `CanUseD`, in five named parts. `CanUseD` says that a
  callback which passes its tests finds the right object; that is not
  inductive, because it says nothing of slots with `f_ = 0` or of a call a
  thread may still retry. `OwnReplies` and `OwnDeadlines` say that a slot points to
  the call a queued callback or deadline belongs to or to nothing; `OwnSlots` that what
  a slot points to exists, is pointed to once, and, for `cmd`, is on the stack
  of a thread still in its wait; `OwnStacks` that no two threads share an
  argument, also after a retry; `Fresh` that numbers not yet issued are unused.
* `CanUseDCorrect`: `[]CanUseD`, from the invariant.
* `AccountingCorrect`: `[]Accounting`, inductive next to the former. Its parts:
  no connection owes a call two replies (`OneReply`), what is owed to the call a
  slot points to goes through that slot (`OneSlot`) and comes from a server that
  was asked and not yet heard of (`Unheard`), `f_` is the number of those
  (`Counted`), waits and deadlines belong to one call (`OwnWaits`, `OneDeadline`),
  and what is on a stack exists (`LiveStacks`).
* `AccountedCorrect`, `CompleteUnlessTimeoutCorrect`, `AsyncTrackedCorrect`,
  `ResultFrozenCorrect`: what the runs check, from these invariants. The first
  is the only one that counts; it needs the library's theorems on cardinalities, as
  a reply takes one element from the set whose size `f_` is.
* `GatheredCorrect`: `CalmSpec => Gathered`. Initial states map to initial states,
  and each action to `Ask`, `Answer`, `Close`, `Return` or a stutter.

One lemma per action shows that it keeps the invariants. In
`RedisEventCalls_proofs` the steps are first sorted into those that ask, those that
take a reply and those that do neither, as `Accounting` looks at nothing else.

## 4. RedisCtrl

### Correspondence

| Code | Model |
|---|---|
| `<root>/lock/lock`, an ephemeral node | `lock`, its owner's session |
| `<root>/config`, `error`, `check`, `legal_nodes` | `config`, `error`, `check`, `legal` |
| Redis servers: alive, master | `up`, `slaveof` |
| a controller inside `check()` | `st[c]`: phase `pc`, what it has read (`cfgs`, `live`), the writes still to do (`ops`), the commands still to send (`cmds`) |
| `get_lock` | `GetLock` |
| `get_config`, `logic_check_add`, `logic_error_rm`, `logic_check_rm` | `Read`, `Sync` |
| `create_node`, `delete_node` | `Write`, one at a time, in the order of the code |
| `check_redis` | `CheckRedis` |
| `check_error`, `check_check` | `CheckError`, `CheckCheck` |
| `sort_redis`, `gen_legal_redis`, `legal_cmp` | `GenLegal`, `LegalOf`, `LegalCmp` |
| `do_slaveof_cmd` | `DoSlaveof` |
| `free_lock` | `FreeLock` |

One step is one ZooKeeper write or one round of Redis commands. Between any two
of them the process may crash (`Restart`), lose its session (`SessionExpires`,
`DeadSession`), be told that a write failed whether it was done or not
(`CallLost`, `LockLost`), or the operator or a server may act (`Configure`,
`Redis`). Each phase reads what it needs in one step, which only the holder of
the lock can disturb, and `config`, which the operator changes one node at a
time, as any order of his changes would show it. Names are numbers, in the
order of the names.

### Checks

| Run | Instance | Shows |
|---|---|---|
| `ctrl_safety` | 2 controllers, 2 clusters, 3 servers, any 3 events | `OneController`, `AtMostOneLegal`, `NoSharedRedis`, `Classified`, `MasterSticky`, `SlaveofFollowsLegal`, the refinement `Led` |
| `ctrl_live` | the same, 3 changes of configuration or servers, up to 2 tries | `Converges` |
| `ctrl_stuck` | 1 cluster, 2 servers, any 4 of crashes, expired sessions, failed calls, servers going and coming | `ConvergesUnlessStuck` |

Three events suffice for the longest chains the properties need (a server goes,
the controller crashes half way, the server comes back); four in `ctrl_stuck`,
so that each of the three ways to get stuck is followed by another event.
Deadlock is not checked where all sessions may be gone: `check` then fails at
its first call for ever, which changes nothing.

`Leader` is all the clients know of the controllers: a lock, and lists that only
its living owner changes, one node at a time, to nodes that take neither the cluster
nor a server of another. `Led` says that any number of controllers are one `Leader`.

`ConvergesUnlessStuck` states what a permanent failure can be. The system
converges, or for ever (1) no controller has a session, as the handle is opened once
(`ZookeeperInit.h:24`), or (2) the lock belongs to a living session whose
process does not know it: the creation succeeded and its answer was lost
(`RedisCtrl.cpp:396`), or its deletion failed (`:384`), or (3) a server
that does not answer is on record in `error` and in `check`, after a crash or failure between
the two writes of `check_check` (`:891`), so that its creation in `error` fails
on every pass. Each of the three was confirmed to be needed: without it TLC
finds the lasso.

*Fairness* (`FairSpec`): every controller goes on (`test_ctrl.cpp`'s loop; its
blocking calls return), and ZooKeeper removes nodes of dead sessions. Outside
events are not fair and are bounded.

### Proofs (`RedisCtrlTypes_proofs`, `RedisCtrl_proofs`)

For any number of controllers, clusters and servers, and any kinds and number of
outside events, from `RedisCtrlAssumption` (finitely many clusters and servers, which
are numbers; a configuration to start from; at least one try). Every invariant, action
property and refinement of `ctrl_safety` is a theorem. The inductive invariant is
`LegalInv`, made of named parts of which each rests on those before it:

* `LockInv` gives `OneControllerCorrect`. It adds the shape of `st` and that a controller
  between passes has nothing left to do. The argument: a controller enters a pass only by
  creating the node; while its session lives only it deletes the node.
* `TypeInv` gives `TypeCorrect`. `TypeOK` is not inductive: that `tries` stays in
  its range needs that a round of `check_redis` has a try left.
* `RecordInv` gives `ClassifiedCorrect` and `MasterStickyCorrect`. What is on record for a
  server changes with every write, and a pass may inherit anything a crashed one left. So
  the invariant counts the nodes a server will have when the writes still to come
  are done (`Due`): a write moves one from those to come to those there, which changes
  nothing (`DueWritten`), and only a phase that decides on new writes does. `Recorded` says
  what is due in each phase: a node per configured cluster; for a configured server at least one
  node and at most one of each kind after `logic_check_add`; none in `error` and one or two in
  `check` after `check_error` for one that answers; exactly one, in the right place, after
  `check_check`; and nothing for what is not configured. `Few` bounds what any crash can
  leave: one node in `error`, as names are unique there, and two in `check`. `Lined` says in
  which order a phase creates and deletes. `ClassifiedCorrect` is `Recorded` with nothing left
  to write; for `MasterStickyCorrect` (`OldestGoes`, `LastGoes`), the first node of a cluster
  goes only as its last, and then the server is on record in `error` already or not configured.
* `Apart` and `Prepared` give `AtMostOneLegalCorrect`, `NoSharedRedisCorrect` and
  `SlaveofFollowsLegalCorrect`. Which of the next writes are still safe depends on those
  before them, so `Prepared` speaks of the writes a working controller has left in its
  last phase (`Ready`): the nodes that come share neither cluster nor server with each
  other (`Clash`), and one that is there and clashes with one to come goes before
  it (`Orderly`). `TargetApart` shows this of what `gen_legal_redis` decides, from
  `RecordInv`: a server is on record below its own cluster only, as `get_config` refuses a
  configuration with a server in two. `ReadyLegalCmp` shows it of the order of
  `legal_cmp`, `ReadyTail` that a write keeps it; by `OneController` nobody else writes
  meanwhile. `Covered`, that every command follows a list that is there or comes
  and does not go, is `SlaveofFollowsLegal` when nothing is left to write.
* `LedCorrect`: `Spec => Led`. Steps map to `Take`, `Leave`, `Publish` or a stutter; that a
  write is a `Publish` is `Ready` again.

What a phase decides to write comes out of walks over maps and sets in the order of their
keys (`ForEach`, a recursive function of the keys that are left).
`RedisCtrlTypes_proofs` shows what such a walk writes, how often and in which
order, by induction over finite sets of numbers: the library's `WFMin`, for the strict
subsets of a finite set, takes a set of sets where an induction theorem would take an
operator (`MinInduction`).

In the model the phase of a pass, and not the operation, says whether a write goes to
`legal_nodes`, as in the code, where `legal_cmp` alone writes there.

## 5. RedisHash

### Correspondence

| Code | Model |
|---|---|
| children of `<root>/legal_nodes`, as they were one after the other | `log` |
| ZooKeeper: how far a client's server is, its session | `srv`, `alive` |
| `zoo_awget_children` under way, its answer | `rd`, `got` |
| the watch `redis_node_wc` left there | `watch` |
| `addrs_`; `addrs_v_` is `addrs_` sorted | `addrs` |
| `start` | `Init` |
| `redis_node_wc` | `Watcher` |
| `redis_node_cb` with an error; with an answer, and `update_ends` | `NodeCbFailed`; `NodeCb` |
| `path_split` of all nodes into the new map | `Readable`, `Ends` |
| `sort_cluster_fun`; place in `addrs_v_` | `Less`; `Place` |
| `redis_addr_master`, `redis_addr_slave_first`, `redis_all` | `Master`, `SlaveFirst`, `Masters` |
| a write of a controller; ZooKeeper | `Change`; `Catch`, `Answer`, `Fail`, `Expire` |

A server of ZooKeeper may be behind; a read that succeeds is answered with what it
has and leaves the watch in the same step, and answers and events are handled in
their order by one thread. When the session has expired
`zoo_awget_children` returns an error at once that nobody looks at, so the
client's map stays as it is for ever; this is what the code does, and
`Listening` and `Informed` speak of clients whose session lives. The names of
clusters and servers are numbers, in their order; `Malformed` are the servers whose
name is not `ip:port`. `seen`, the entry of `log` the map was made from, is
not in the code.

### Checks

| Run | Instance | Shows |
|---|---|---|
| `hash` | 1 client, 2 clusters, any lists of 2 servers and of a third with an unreadable name, 3 changes, a failed read or an expired session, fairness | `EveryPlaceOnce`, `Listening`, `Agree`, the refinement `View`, `Informed` |

Clients share nothing but the log, so one shows what any number do; that two
clients agree is stated as `Agree`: whatever map the nodes read by a client can be
made into sends users where his map does. Three changes publish two clusters and
withdraw one, or change the list of one; hash values 0 and 1 meet every remainder
of one and two clusters. The third server is there to be unreadable: clients take
over lists of the other two only, so that a map of two clusters has one server in each.
Longer lists, where a slave changes and two masters stay, come with the controllers
of section 6, whose run checks `UsersStay`.

What the properties do not say is what the code does not do. `UsersStay` holds as
long as the masters stay: the order of clusters is that of their masters'
addresses, so a new master may move users of *other* clusters, and while a list
is withdrawn, between the two writes of `legal_cmp`, every user is hashed over
fewer clusters. One unreadable name stops the updates of all clients until it is
gone.

*Fairness* (`FairSpec`): ZooKeeper answers and its servers follow, and the
client's thread runs.

### Proofs (`RedisHash_proofs`)

For any number of clients, clusters, servers, users, changes and faults, any hash
function, from `RedisHashAssumption` (finitely many clusters and servers, servers
are numbered):

* `TypeCorrect`: `[]TypeOK`.
* `ListeningCorrect`: `[]Listening`, from `InOrder`. A client that is not deaf
  now might be so after the next step if the answer it has not handled yet
  were older than its map, or if an answer had left no watch; `InOrder` says that the
  map, the answer and the server come in this order and what a set watch
  tells about them.
* `ViewCorrect`: `Spec => View`, from `InOrder` (never back to an older map) and
  `FromLog` (the map is that of the entry `seen`).
* `AgreeCorrect`: nodes with one list per cluster can be read in one way only, so that
  the order in which ZooKeeper lists them does not matter.
* `EveryPlaceOnceCorrect`: lists without a common server are strictly ordered by
  their first elements, so places differ and are fewer than the clusters.
* `UsersStayCorrect`: the order, hence the place, depends on the masters only.

`FromLog` needs that no cluster or server is in two lists of one entry. This is an
assumption of `Change` on the controllers; section 6 proves that they keep to it.

## 6. RedisService

`RedisService` runs `RedisCtrl` and `RedisHash` together. They share the nodes of
`legal_nodes`, each write of which is an entry of `log`, and the Redis servers,
whose state `up` and `slaveof` says whether what clients believe is true.

| Run | Instance | Shows |
|---|---|---|
| `service` | 1 controller, 1 client, 2 clusters, 3 servers; two of: a change of the configuration, a server going or coming, a crash; one failed read or expired session of the client; fairness of both sides | the refinement `View`, `UsersStay`, `Served` |

`Served` is the purpose of the whole: once nothing more happens from outside, and
each cluster has a server that answers, a living client knows the servers that
answer and no other, its writes go to a server that is a master and its reads to one that
replicates that very master. It takes the order in which `sort_redis` elects, the
SLAVEOF commands, the published names, the watch, the map and the hash to agree.
It excepts configurations RedisCtrl does not serve and a server on record in two
places (section 4). `View` and `UsersStay` are those of RedisHash, for what controllers
really publish. A second controller or client adds nothing that the runs of their own
modules do not show. `MaxChanges` bounds `Change` of RedisHash, which RedisService does
not use; here the log grows with every write.

### Proofs (`RedisService_proofs`)

For any number of controllers and clients, from the assumptions of both sides
(`RedisServiceAssumption`). The invariant `Joined` is that of the controllers
(`LegalInv`), that of the clients (types, `InOrder`, `FromLog`), and that the log ends with
what is published. `CtrlGrows` is the joint between them: by `LedStep` a controller's write
is in `May` of what is published, that is of the end of the log, so it is a change
of the directory as RedisHash has it (`Grow`), with which the clients' invariant is known to
go on (`GrowInv`); a client's step does not touch what the controllers' invariant speaks of.

* `ServiceViewCorrect`: `Spec => View`, the whole implements `LegalView`. In this
  theorem the exclusion by the lock, the order of `legal_cmp`'s writes and `get_config`'s check
  meet what `redis_node_cb` relies on.
* `ServiceUsersStayCorrect`: `Spec => UsersStay`.

The lemmas of both sides are used through instances of their proof modules (`CtlP`,
`CliP`), whose definitions are those of `Ctl` and `Cli`, expanded.

## 7. ScriptLoad

### Correspondence

| Code | Model |
|---|---|
| `script_t::need_load_`, `addrs_` | `need`, `addrs` |
| a thread inside `lookup_sha1`; what it has swapped out | `pc`, `took` |
| scripts loaded in the servers | `has` |
| asynchronous requests and their servers | `calls`, `to` |
| `lookup_sha1`: the test, the swap under the lock, SCRIPT LOAD, clearing the flag | `Check`, `Swap`, `Load`, `Clear` |
| `single_uid_commend_async`, `single_uid_commend` | `Async`, `Sync` |
| `cmd_cb_syn` and its like, `check_scritp_load`, `script_t::add` | `Callback`, `NeedLoad`, `Add` |
| Redis: EVALSHA; a restart | `Serve`; `Forget` |

The flag is a plain `bool` read and cleared without the lock that guards `addrs_`:
a callback may mark a server between the swap and the clearing, and the mark
is then not seen until a later request is refused. This is a window, not a
dead end, which is what is checked.

| Run | Instance | Shows |
|---|---|---|
| `script_load` | 2 threads, 2 asynchronous requests, 2 servers, 2 faults (restarts, lost answers) | `Healed` |

`Healed`: only finitely many requests are refused. Two threads can overtake each
other in `lookup_sha1`, two servers can be marked apart, and two requests can be
refused around one load. *Fairness:* servers answer or requests time out, the
loop thread calls back, and `lookup_sha1` goes on; no thread need ever make another
request.

`ScriptLoad_proofs` proves `TypeOK` for any number of threads, requests and servers: besides
the types, that a thread which goes on to SCRIPT LOAD has taken a server to send it to,
however others overtake it. `Healed` is a liveness property and stays with TLC.

## 8. SessionStore

### Correspondence

| Code | Model |
|---|---|
| hash `U.<uid>`, its expiry | `idx`, `uttl` |
| hash `L.<uid>.<lc>`: expiry, field `GATE` | `ttl`, `gate` |
| sorted set `DLY_CK` | `dly`: time until a member's score |
| `syn.lua`, `upidx.lua` | `Touch`; handlers `Syn`, `Upidx` |
| `fin_delay.lua` | `FinDelay`; handler `FinDelayed` |
| `fin.lua`; rest of `PHandleFin::process` | `Fin`; `OfflineNotify` |
| `timeout_rm.lua` on one master | `SweepAt`, `LateSweep` with `Due`, `Ended`, `Remove` |
| `check_timeout`: send, collect and tell, sleep | `TimeoutRm`, `NotifyMulti`, `sweep[l]` |
| expiry of keys, the clock | `Tick` |

`at`, `born` and `told` are not in the code: the gate that last reported the
client alive and has not reported its link broken since, how often a session
was entered in the index, how often its end was told.

A script is one step, as Redis runs one at a time. Messages come from any gate,
in any order and any number, so late messages of a gate the client has left are
among them. A call may time out before its script runs (`heard` of `Fin`,
`late`); a script that is lost is no step. A sweep uses the time at which it was
sent, so it may leave sessions that have become due since: it removes any
subset `K` of `Due`. Time counts in half seconds, because Redis expires keys to
the millisecond and answers `TTL` to the nearest second, on which a comparison in
`syn.lua:72` rests. Clocks of logic servers that differ change the length of a
delay, which is arbitrary. A user's master (`Home`) does not change; when it
does is a question for `RedisHash` (section 5). The handlers are wired to the blocking calls
of OnlineCtrl, for whose results they are written; the test program wires them to
the asynchronous ones, which have none.

### Checks

| Run | Instance | Shows |
|---|---|---|
| `store_index` | 1 user, 2 connections, 2 gates, 1 logic server, times to live of 1 s and 2 s, delays up to 1 s, fair time | `Indexed`, `SweptOnlyAway`, `StaleGoes` |
| `store_told` | 2 users on 2 masters, 2 logic servers | `ToldOnce` |

Two connections with different times to live let one session expire while the
other keeps the index, and let a short one touch an index that must live long;
two gates make one late; a delay may be shorter or as long as a time to live. Two
masters and two logic servers give partial answers, late sweeps and sweeps
that overlap each other and FIN. `MaxEntries = 2`, so that a session can end, start
again and meet what is left of its first end. `Indexed` and `SweptOnlyAway` do
not depend on logic servers beyond the scripts they send, so one suffices there.

*Fairness* (`FairSpec`): time passes. Gates and logic servers owe nothing.

### Proofs (`SessionStore_proofs`)

For any users, connections, gates, logic servers, masters, times to live, delays
and number of entries, from `SessionStoreAssumption` (times to live are positive,
finitely many logic servers):

* `TypeCorrect`: `[]TypeOK`.
* `IndexedCorrect`: `[]Indexed`, inductive next to the types. Its heart is
  `SecondsOrder`: where `TTL` cannot tell two times apart they differ by half a
  second at most, which is why `Indexed` allows that much and no less would hold.
* `SweptOnlyAwayCorrect`: `[]SweptOnlyAway`. It is not inductive, as it does not
  mention the field `GATE` that `fin_delay.lua` compares; `GateTells` adds that
  the field is the gate the client is with, or empty.
* `ToldOnceCorrect`: `[]ToldOnce`, by balancing for every action the number of those
  about to tell, the entries and the ends told against the entries made
  (`Balance`), with the library's theorems on cardinalities.

## 9. What is only checked, and what is not

Liveness (`AsyncCalledBack`, `CmdReturns`, `Converges`, `ConvergesUnlessStuck`,
`Informed`, `Served`, `Healed`, `StaleGoes`) is checked and not proved: liveness under
fairness is out of the prover's reach. Every other property that a passing run checks is a
theorem as well.

SessionStore does not ask for what the code does not promise: a late answer of a sweep or
of `fin` loses the notification, a session that expires is told of only when a
sweep still finds its entry, FIN is obeyed whatever gate sends it, and a heartbeat
after FIN enters the session again. A user's home does not change there: what
becomes of sessions on a server their user has left is not modelled yet.

Not modelled at all: the `get_*` methods of OnlineCtrl, which only read, and its
statistics (`CallTimeStat`), the ranking `RANK_W` and the client data in the session
store, older entries to LogicCore (`from_sublayer_old`, `from_sublayer_synok`),
repeat timers of RedisEvent, statistics, logging, the
root nodes RedisCtrl creates at its start, parsing of names, conversions of
replies, city hash (vendored), the protocol's generated code, test programs.

## 10. Disagreements between code and comments

* `event_wake`. `timed_wait` (`RedisEvent.cpp:594`) is called once, without a
  predicate. After a spurious wakeup `cmd` returns, its argument object dies
  and the slot still points to it; the next reply uses it, although the comment
  at `RedisEvent.cpp:236` says "check ok, can use cf->d() pointer".
* `event_busy`. `get_cf` hands out the slots in turn, in use or not; when the
  slot is in use the code logs "userdata have data!" (`RedisEvent.cpp:361` and 521)
  and overwrites `f_` and `d_`. In the run three calls of `cmd_async` are under way
  and the third has the slot of the first: the first has lost its slot, and the reply
  to it will be counted against the third, although the comment at
  `RedisEvent.cpp:182` says "check ok, can use cf->d() pointer". The ring of the
  code has a million slots, so this needs a million calls while one is under way.

A slot need not be in use for a deadline to meet another call when the ring comes
round. `cmd_async` enters a call in
`req_` before it knows whether anything will be sent (`RedisEvent.cpp:365`). When
nothing is, the callback runs at once and the entry stays until its time, so that
it ends whatever call has the slot by then: no slot in use is handed out, nothing is logged.
`Quiet` excludes this too; without it `DeadlinesCanUseD` fails.
