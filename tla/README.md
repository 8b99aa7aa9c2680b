# Verification of DSoftBus

TLA+ models of the distributed soft bus (the C and C++ code under `src/`), the
TLC configurations that check them on small instances, and TLAPS proofs about
the network builder for every value of its constants. `PROJECT.json` lists for
each definition the source lines it models, and for each property the run that
checks it and a mutant of the code that breaks it.

## 1. The system

DSoftBus lets devices find each other, form a logical network (LNN) and open
sessions. A server process holds the state; client processes reach it by IPC.

| Part | State it keeps | Operations | Interacts with |
|---|---|---|---|
| Message handler (`core/common/message_handler`) | per looper: list of messages by time, `stop`, `running`, the message in hand; `g_isThreadStarted`, `g_isNeedDestroy`, `g_loopConfig` | post (at once or delayed), remove, loop, create, destroy | every handler of LNN, authentication, BR and BLE runs on a looper |
| Lock free queue (`core/common/queue`) | head and tail of producers and consumers, slots | single and multi enqueue and dequeue, count | BLE send queue |
| Net builder (`lnn_net_builder.c`) | list and count of connection state machines, their flags | 14 messages, callbacks of authentication, discovery and clients | connection FSM, ledger, authentication, master election |
| Connection FSM (`lnn_connection_fsm.c`, `lnn_state_machine.c`) | state, `isDead`, flags, node info, peer network id, two timeouts | five states, their messages, start/stop/deinit | net builder, ledger, authentication, sync info |
| Distributed ledger (`lnn_distributed_net_ledger.c`) | per device: status, network id, discovery types, auth channels; connection codes of BR | add online, set offline, remove, look up | net builder, transmission |
| Time synchronisation manager | requests per node and package, current rate | start, stop, complete, remove all | product's implementation, clients |
| Sync of ledger items | channel to message map | send, channel events, receive | authentication channel, ledger |
| Master election | master's id and weight per connection | node state change, elect | net builder (unreached at present) |
| Authentication | client and server lists of sessions, session keys, timers | verify, key exchange, device info, close | connection manager, HiChain |
| Connection manager, TCP, BR, BLE | connections, reference counts, listeners, descriptor sets, thread pool | connect, disconnect, post, receive | authentication, transmission |
| Discovery | publish and subscribe lists per package, capability lists | publish, start, stop, device found, death of a client | CoAP, BLE, LNN |
| Transmission | sessions, proxy/TCP/UDP/auth channels, pending packets | open, handshake, send, acknowledge, close, time out | connection, authentication, LNN |
| TCP direct sequence check (`softbus_sequence_verification.c`) | `minSeq`, `maxSeq`, bitmap | check one received number | client's TCP direct channel |
| Client (`sdk/`) | outstanding callbacks, sessions, channels | the public API and the callbacks from the server | server, by IPC |
| DFile, device discovery (`components/nstackx`) | protocols of their own over UDP | transfer, discover | file sessions, CoAP discovery |

What makes it hard, and what should hold:

* **Loopers.** Threads read a message's time before they take the lock; a looper
  is destroyed by a thread that may run before the looper's own thread has
  started. The order of what one thread posts should be kept, no wakeup be lost
  and no context be used after it is freed.
* **LNN.** Requests, authentication callbacks, timeouts and disconnections meet
  in one queue, in any order. A connection FSM dies, is unlisted, stopped and
  freed by three messages, with others behind and between them. No freed FSM may
  be used, each request should be answered exactly once, and ledger and
  connections should agree on who is online, also when a device restarts under a
  new network id.
* **Time synchronisation.** Starts, stops and late results of several packages
  share one request per node; the implementation may refuse.
* **Queues.** Slots are claimed, filled and published by different threads;
  counters wrap at 2^32.
* **Sequence numbers.** They wrap at 2^31 and arrive out of order.
* **Transmission, connection, authentication, discovery (not modelled yet).** An
  acknowledgement races its timeout; a record is freed while a callback uses it;
  reference counts are kept on two devices by deltas; descriptor sets change
  while a thread selects on them.

The `hazards` of `PROJECT.json` name the ones that matter most at their lines,
with the properties that cover them or the module planned for them.

## 2. The modules

### LnnState, DistributedLedger, ConnectionFsm, NetBuilder

All handlers of the net builder, of every connection FSM and of the time
synchronisation run on the one default looper, so a handler is one atomic step.
Other threads (IPC, authentication, discovery) only post.

* `LnnState`: variables, record types, `Init`. `queue` is what is due in the
  looper, `timers` the delayed messages; a delayed message may be dispatched
  between any two handlers. `fsm[i]` is a `LnnConnectionFsm`, `alloc` tells
  whether its memory is live; `fsmList` and `connCount` are `g_netBuilder`'s.
  `joinWait` and `leaveWait` are the callers that were told 0 and wait for their
  result. `out` is the set of calls the last handler made out of the module
  (join result, online and offline reports, disconnect calls).
* `DistributedLedger`: `LnnAddOnlineNode`, `LnnSetNodeOffline`, `LnnRemoveNode`,
  the connection codes of BR and the lookups. NodeInfo is reduced to what the
  code compares.
* `ConnectionFsm`: one action per state and message (`OnJoinLNNInAuth`,
  `OnSyncDeviceInfoDone`, `OnLeaveInvalidConn`, ...), the two timeouts, and the
  start, stop and deinit messages of `lnn_state_machine.c`. `CompleteJoin...` and
  `CompleteLeaveLNN` stand for the whole of the functions of that name: ledger,
  reports, closing of the authentication, removal of the timeouts and the clean
  request.
* `NetBuilder`: one action per message of `NetBuilderMessageHandler`, one per
  callback that posts, and the authentication manager and the peer as the
  environment: an authentication proceeds key, device info, passed, may fail or
  break at any point, and after `AuthHandleLeaveLNN` is silent. A peer may take a
  new network id (`PeerBoot`). `alive` becomes FALSE where the code dereferences
  a null pointer (`OnLeaveInvalidConn` on a dead FSM), which ends the behaviour.
* `MCNetBuilder`: which device is behind which address.

Left out: the master election's two messages (see below), the initialisation of
the module, the JSON of the exchanged device info, and allocation failures other
than that of a new FSM.

### Looper

`message_handler.c`, with the code between lock and unlock of a context as one
step and every wait as a place that only a broadcast or the clock leaves. The
thread `Main` creates the default looper and calls `LooperDeinit` at any moment
after; another module may create a second looper, as the BLE connection does.
`MaxSetBack` lets the wall clock, from which message times are made, be set back.

### TimeSync

`lnn_time_sync_manager.c`: the calls from any thread, which post, and the four
handlers. The implementation is the product's (the repository has a stub that
refuses every start), modelled from its use: a start is accepted or refused, a
running one reports results.

### FifoQueue, LockFreeQueue

`softbus_queue.h` step by step: each read or write of a shared counter and each
access to a slot is an action, the compare-and-swap and the wait for one's turn
included. A crew of several producers or consumers uses the thread safe
operations, a thread alone on its side the single one. `FifoQueue` is the
abstract queue; `ImplementsFifo` is the refinement, under a mapping in which the
queue is what stands between the producers' tail and the consumers' head, and a
consumer that has claimed a slot already owns what is in it.

### BleSendQueue

The lock and condition variable of `softbus_ble_connection.c` around the queue,
which is abstract here. `BleDequeueBlock` (341-347) unlocks only on the path that
waited: if a message is already queued when it looks, it returns with the lock
held, its next call blocks on itself and every poster blocks on it. The model
follows the code, so `SentUnlessLockLeft` promises delivery only until then, and
the run has deadlock checking off.

### SeqVerification

`IsPassSeqCheck` and its helpers as operators on numbers of `SeqBits` bits, and a
sender whose packets arrive in any order within `Lifetime`, or twice.

## 3. The runs

| Run | States | Shows |
|---|---|---|
| `seq_window` | 11 thousand | across the wrap, the window stays within `MAX_SEQ_BIAS`, a fresh number inside it passes and one behind it is refused |
| `seq_repeat` (violated) | | a repeated number passes when `minSeq` reaches it |
| `looper_order` | 1.4 million | list sorted and counted; posts of one thread in order; the context not used after free |
| `looper_live` | 125 thousand | every message leaves the list, every deinit ends with the looper freed |
| `time_sync` | 280 thousand | implementation and records agree, packages do not disturb each other, recorded requests are answered |
| `lock_free_queue` | 475 thousand | FIFO refinement, no two threads in a slot, count exact, full only when full, turns held |
| `ble_send` | 2 thousand | no wakeup lost; messages sent unless the lock was left held |
| `nb_races` | 832 thousand | types, exact count, timeouts armed, lifecycle of the FSMs, no use after free, each dead FSM being cleaned, each join request in one place |
| `nb_restart` | 777 thousand | ledger and connections agree and offline follows online, for a device that restarts and drops connections |
| `nb_live` | 77 thousand | every join is answered and every dead FSM freed with silent or failing peers; nothing still used is disconnected |
| `nb_join_two_media` (violated) | | a join over the second medium is never answered |
| `nb_leave_lost` (violated) | | a leave that reaches a joining connection is never answered |

**Bounds.** `nb_races` has one WLAN address, two FSMs and two authentications, and
lets other threads post while the queue holds up to two messages: an FSM is
created, dies and is freed while its successor for the same address is already
there, and two external events meet in every order with the messages the
handlers post themselves, which are not bounded. `nb_restart` has two addresses
of one device, three FSMs and two network ids, what it takes for an old and a new
network to be connected at once. `nb_live` has two devices over BR. The looper
needs three messages (two of one thread and one between) and one setting back of
the clock. The queue has four slots, the least at which two producers can be in
slots at once, and starts two below the wrap of its counters, so that four
enqueues cross both the wrap and the end of the ring and fill it. Sequence
numbers have 4 bits, the bitmap 5 and a packet lives 4 sends, so the window
straddles both sign flips and a repeat outlives the bits that remember it.
Runs with CHECK_DEADLOCK FALSE stop because a bound on calls is reached or the
server has been shut down; the queue and the sequence check never stop.

**Fairness.** The net builder's handlers and delayed messages are weakly fair:
the looper dispatches what is due (`MessageLeavesList`). The peer and the
authentication are not fair except in `nb_join_two_media`, where they cooperate
and the request is still not answered. The looper assumes threads that can run
do, handlers return and time passes; time synchronisation, that a running
implementation keeps reporting; the BLE queue, that its threads run. The queue's
waiting loops are covered by the invariant `TurnsHeld`: a thread that waits for
its turn waits for one that is inside its slot, and with running threads the
first of them always can go.

### Findings

* `IsPassAllRangeCheck` accepts `recvSeq == minSeq` without looking at the bitmap
  (`seq_repeat`).
* A device online over WLAN and joined over BR (or the other way round) counts as
  changed, there is nobody to leave, and the join is never answered
  (`nb_join_two_media`).
* `LeaveLNN` before the connection is online is dropped (`nb_leave_lost`).

The models also show, with no run of their own: `BleDequeueBlock`'s lock (above);
a default looper freed before its thread starts when a second looper has set the
shared `g_isThreadStarted`; a start of the time synchronisation refused after
the caller was told 0, with no callback; a new connection left in
`STATE_CLEAN_INVALID_CONN` when the last invalid one disconnects by itself
between `OnLeaveInvalidConn` and `ProcessLeaveInvalidConn`; and a device that
lost its trust staying in the ledger, since `LNN_CONN_INFO_FLAG_LEAVE_PASSIVE` is
set nowhere.

## 4. The proofs

`NetBuilderProofs` proves, for any sets of addresses and devices, any limit on
connections and any bound on the rest (assumptions `BoundsAssumption` and
`AddrAssumption` of `LnnState`: bounds are natural numbers, an address is either
WLAN or BR, and there is a device behind each):

* `TypeCorrect`: `Spec => []TypeOK`
* `CountCorrect`: `Spec => []ConnCountExact`
* `LifecycleCorrect`: `Spec => []FsmLifecycle`
* `NoUseAfterFree`: `Spec => []FreedFsmUnreferenced`

That no freed FSM is referenced is not inductive: whether a message may be
appended depends on the DEINIT already queued, whether a timer may be pending on
the FSM being alive, and whether an FSM may be stopped on its being dead. So
`FsmLifecycle` says what each queued message relies on (`QueueSound`: its FSM is
live; STOP and DEINIT concern a dead, unlisted FSM, and nothing follows the
DEINIT), which timers may be pending (`TimersSound`), which FSMs may be listed
(`FsmsSound`) and that authentications know their address (`AuthsSound`).
`IInv == TypeOK /\ FsmLifecycle` is inductive, and `CountInv` (exact count, and
listed ids at most the last handed out) is inductive beside it.

* `LnnProofs`: messages, appending to and taking from a sound queue, changing one
  FSM, the completion of joins and leaves.
* `ConnectionFsmProofs`: each state's messages, the timeouts, start/stop/deinit.
* `HandlerProofs`: each message of the net builder.
* `NetBuilderProofs`: the other threads, the initial state and the theorems.

Both conjuncts of `IInv` are also invariants of `nb_races`. Only model-checked:
every liveness property, the request and ledger properties of the net builder,
the refinement of the queue, and all of the other modules.

## 5. Not modelled, and the plan

Not worth modelling: containers, JSON, logging, permission tables, the local
ledger's getters, IPC marshalling, the platform adapter. The master election is
reached by nothing in the repository at present (nothing calls
`LnnNotifyNodeStateChanged` or sends the elect message), so it comes late.

In order of what is hardest to test, each with an abstract specification where
there is a promise to state:

1. `PendingPkt`: send, acknowledgement, timeout. Early, late and lost
   acknowledgements; that a sender told success was acknowledged, and the reverse.
2. `ProxyChannel`: channel list, handshake, timer and reference count of the
   connection, composed with a lossy and duplicating link. No channel is opened
   twice, a freed channel is not used, ids are unique.
3. `DiscManager`: publish and subscribe lists, capability lists and counts
   against a medium that may fail and clients that die. Lists hold live infos
   only, counts are exact, a medium runs iff somebody asked.
4. `BrConnection`: the reference counts of two ends, with crossing notifications;
   the two ends agree when nothing is on its way.
5. `BaseListener` with the TCP connection, `ThreadPool`: descriptor sets against
   the select thread, jobs against workers; no lost descriptor, no deadlock.
6. `AuthManager`: the two lists, the key exchange and its timeout; then composed
   with `NetBuilder` in place of its environment.
7. `SyncItemInfo`, `TcpDirect` with `ClientSession`, UDP negotiation, the bus
   centre's client lists, `MasterElection`, the lane table.

Proofs to add: `DeadFsmBeingCleaned` and `JoinRequestHeldOnce` from the same
inductive invariant; sortedness and `ContextNotUsedAfterFree` of the looper;
`NoSlotRace` and `TurnsHeld` of the queue, and from them that `LockFreeQueue`
implements `FifoQueue`; the records of the time synchronisation. Liveness and the
arithmetic of `SeqVerification` stay with TLC: the prover has neither fairness
nor induction over data.

## 6. Running

In this directory: `tlc -config nb_races.cfg MCNetBuilder` (see `PROJECT.json` for
each run's module and configuration) and `tlapm NetBuilderProofs.tla` (and the
three proof modules before it, each some minutes from nothing).
