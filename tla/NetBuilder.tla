------------------------------ MODULE NetBuilder ------------------------------
(***************************************************************************)
(* lnn_net_builder.c: the handlers of the net builder's messages, and the  *)
(* other threads that post them.  The master election, whose messages      *)
(* nothing in the repository posts, is left out.                           *)
(***************************************************************************)
EXTENDS ConnectionFsm

\* ListAdd inserts at the head and ids grow, so a search of fsmList meets the
\* larger id first: First(S) holds the connection fsm a search for S returns.
First(S) == {f \in S : \A g \in S : g <= f}
ByAddr(a) == {f \in fsmList : fsm[f].addr = a}
ByAuthId(a) == {f \in fsmList : fsm[f].authId = a}
ByNetworkId(n) == {f \in fsmList : fsm[f].peerNetworkId = n}

FindConnectionFsmByUdid(u) ==
  LET joining == {f \in fsmList : /\ fsm[f].nodeInfo # NULL
                                  /\ fsm[f].nodeInfo.udid = u}
  IN IF joining # {} THEN First(joining)
     ELSE IF ledger[u].status = "absent" THEN {}
     ELSE First(ByNetworkId(ledger[u].networkId))

AliveIn(S) == {f \in S : ~fsm[f].isDead}

\* The messages posted by a walk over fsmList that picks the members of S.
Walks(S) == {s \in [1 .. Cardinality(S) -> S] :
               \A i, j \in 1 .. Cardinality(S) : i < j => s[i] > s[j]}
Posts(s, what) == [i \in DOMAIN s |-> FsmMsg(s[i], what)]

\* A handler that only posts, and makes calls out of the module.
OnlyPost(msgs, calls) ==
  /\ queue' = Rest \o msgs /\ out' = calls
  /\ UNCHANGED <<timers, fsm, listVars, ledgerVars, auth, peerVars, waitVars,
                 offlineSync, alive>>

\* A handler that posts to each member of S and sets flags in it.
PostAndFlag(S, what, flags, calls) ==
  /\ \E s \in Walks(S) : queue' = Rest \o Posts(s, what)
  /\ fsm' = [f \in FsmId |-> IF f \in S
                             THEN [fsm[f] EXCEPT !.flag = @ \cup flags]
                             ELSE fsm[f]]
  /\ out' = calls
  /\ UNCHANGED <<timers, listVars, ledgerVars, auth, peerVars, offlineSync,
                 alive>>

-----------------------------------------------------------------------------
(* New connection fsms. *)

\* Past MaxFsm no memory is left: LnnCreateConnectionFsm returns NULL.
CanStartNewConnectionFsm == connCount < MaxConnCount /\ nextFsm < MaxFsm

\* StartNewConnectionFsm, then the first data message to the new fsm.
StartNewConnectionFsm(a, authId, flags, what) ==
  LET f == nextFsm + 1
  IN /\ CanStartNewConnectionFsm
     /\ nextFsm' = f
     /\ fsm' = [fsm EXCEPT ![f] = [NoFsm EXCEPT !.alloc = "live", !.addr = a,
                                          !.authId = authId, !.flag = flags]]
     /\ fsmList' = fsmList \cup {f}
     /\ connCount' = connCount + 1
     /\ queue' = Rest \o <<FsmMsg(f, "START"), FsmMsg(f, what)>>
     /\ out' = {}
     /\ UNCHANGED <<timers, ledgerVars, auth, peerVars, waitVars, offlineSync,
                    alive>>

\* TrySendJoinLNNRequest.  Only a JoinLNN caller is told of a failure.
TrySendJoinLNNRequest(a, flag) ==
  \/ /\ AliveIn(First(ByAddr(a))) # {}
     /\ PostAndFlag(First(ByAddr(a)), "JOIN_LNN", {flag}, {})
     /\ UNCHANGED waitVars
  \/ /\ AliveIn(First(ByAddr(a))) = {}
     /\ StartNewConnectionFsm(a, 0, {flag}, "JOIN_LNN")
  \/ /\ AliveIn(First(ByAddr(a))) = {} /\ ~CanStartNewConnectionFsm
     /\ LET waits == flag = "JOIN_REQUEST"
        IN /\ joinWait' = IF waits THEN joinWait \ {a} ELSE joinWait
           /\ out' = IF waits THEN {<<"JoinResult", a>>} ELSE {}
     /\ queue' = Rest
     /\ UNCHANGED <<timers, fsm, listVars, ledgerVars, auth, peerVars,
                    leaveWait, offlineSync, alive>>

ProcessJoinLNNRequest ==
  /\ Dispatch(NB, "JOIN_LNN_REQUEST")
  /\ TrySendJoinLNNRequest(Head(queue).addr, "JOIN_REQUEST")

ProcessDevDiscoveryRequest ==
  /\ Dispatch(NB, "DISCOVERY_DEVICE")
  /\ TrySendJoinLNNRequest(Head(queue).addr, "JOIN_AUTO")

\* The server side of an authentication has no connection fsm yet.
ProcessAuthKeyGenerated ==
  /\ Dispatch(NB, "AUTH_KEY_GENERATED")
  /\ LET a == Head(queue).authId
         found == AliveIn(First(ByAuthId(a)))
     IN \/ \E f \in found : OnlyPost(<<FsmMsg(f, "AUTH_KEY_GENERATED")>>, {})
        \/ /\ found = {}
           /\ StartNewConnectionFsm(auth[a].addr, a, {"JOIN_PASSIVE"},
                                    "AUTH_KEY_GENERATED")
        \/ found = {} /\ ~CanStartNewConnectionFsm /\ OnlyPost(<<>>, {})

-----------------------------------------------------------------------------
(* Removing a dead connection fsm. *)

\* Mutants: the fsm is freed before it is stopped; it is stopped and not freed.
MutantFreeFirst(f) == <<FsmMsg(f, "DEINIT"), FsmMsg(f, "STOP")>>
MutantOnlyStop(f) == <<FsmMsg(f, "STOP")>>

\* LnnStopConnectionFsm posts these two; nothing may follow them to the fsm.
StopMessages(f) == <<FsmMsg(f, "STOP"), FsmMsg(f, "DEINIT")>>

\* tryInitiateNewNetworkOnline: who is told that the invalid ones are gone.
InitiateTargets(f, rest) ==
  IF \/ "INITIATE_ONLINE" \notin fsm[f].flag
     \/ \E g \in rest : /\ fsm[g].peerNetworkId = fsm[f].peerNetworkId
                        /\ "INITIATE_ONLINE" \in fsm[g].flag
  THEN {}
  ELSE {g \in rest :
          /\ fsm[g].peerNetworkId = fsm[f].cleanInfo.networkId
          /\ ~fsm[g].isDead
          /\ \/ fsm[f].cleanInfo.addrType = "MAX"
             \/ fsm[f].cleanInfo.addrType = TypeOfAddr(fsm[g].addr)}

\* The calls tryDisconnectAllConnection may make.  For BR the code compares the
\* address of each remaining connection with itself.  For IP it compares only
\* as many characters as the cleaned address has, so that a longer address may
\* pass for it.  LnnConvertAddrToOption fails for no BR or WLAN address.
DisconnectCalls(f, rest) ==
  LET a == fsm[f].addr
      call == {<<"ConnDisconnectDeviceAllConn", a>>}
      Of(S) == \E g \in rest : fsm[g].addr \in S
  IN IF Of({a}) \/ (a \in BrAddr /\ Of(BrAddr)) THEN {{}}
     ELSE IF a \in WlanAddr /\ Of(WlanAddr) THEN {{}, call}
     ELSE {call}

\* Mutant: the connection that was removed counts as one of its type.
MutantCountsItself(f, rest) ==
  LET t == TypeOfAddr(fsm[f].addr)
  IN IF \E g \in rest \cup {f} : TypeOfAddr(fsm[g].addr) = t
     THEN {} ELSE {<<"LnnNotifyAllTypeOffline", t>>}

\* tryNotifyAllTypeOffline.
TypeOfflineCalls(f, rest) ==
  LET t == TypeOfAddr(fsm[f].addr)
  IN IF \E g \in rest : TypeOfAddr(fsm[g].addr) = t
     THEN {} ELSE {<<"LnnNotifyAllTypeOffline", t>>}

\* Mutant: a repeated clean request lowers the count again.
MutantCleanTwice ==
  /\ Dispatch(NB, "CLEAN_CONN_FSM")
  /\ LET f == Head(queue).connFsmId
     IN /\ fsmList' = fsmList \ {f}
        /\ connCount' = connCount - 1
        /\ queue' = IF f \in fsmList THEN Rest \o StopMessages(f) ELSE Rest
        /\ out' = {}
        /\ UNCHANGED <<timers, fsm, nextFsm, ledgerVars, auth, peerVars,
                       waitVars, offlineSync, alive>>

\* Mutant: the count is not lowered.
MutantKeepCount ==
  /\ Dispatch(NB, "CLEAN_CONN_FSM")
  /\ LET f == Head(queue).connFsmId
     IN /\ fsmList' = fsmList \ {f}
        /\ queue' = IF f \in fsmList THEN Rest \o StopMessages(f) ELSE Rest
        /\ out' = {}
        /\ UNCHANGED <<timers, fsm, connCount, nextFsm, ledgerVars, auth,
                       peerVars, waitVars, offlineSync, alive>>

ProcessCleanConnectionFsm ==
  /\ Dispatch(NB, "CLEAN_CONN_FSM")
  /\ LET f == Head(queue).connFsmId
         rest == fsmList \ {f}
     IN IF f \notin fsmList THEN OnlyPost(<<>>, {})
        ELSE /\ fsmList' = rest
             /\ connCount' = connCount - 1
             /\ \E s \in Walks(InitiateTargets(f, rest)) :
                  queue' = Rest \o StopMessages(f) \o Posts(s, "INITIATE_ONLINE")
             /\ \E calls \in DisconnectCalls(f, rest) :
                  out' = calls \cup TypeOfflineCalls(f, rest)
             /\ UNCHANGED <<timers, fsm, nextFsm, ledgerVars, auth, peerVars,
                            waitVars, offlineSync, alive>>

-----------------------------------------------------------------------------
(* Messages passed on to the connection fsms they concern. *)

\* One message to the connection fsm of an authentication, unless it is dead.
ToFsmOfAuth(M(_)) ==
  LET found == AliveIn(First(ByAuthId(Head(queue).authId)))
  IN \/ found = {} /\ OnlyPost(<<>>, {})
     \/ \E f \in found : OnlyPost(<<M(f)>>, {})

ProcessAuthDone ==
  /\ Dispatch(NB, "AUTH_DONE")
  /\ ToFsmOfAuth(LAMBDA f : [h |-> f, what |-> "AUTH_DONE",
                             isSuccess |-> Head(queue).isSuccess])

ProcessSyncDeviceInfoDone ==
  /\ Dispatch(NB, "SYNC_DEVICE_INFO_DONE")
  /\ ToFsmOfAuth(LAMBDA f : [h |-> f, what |-> "SYNC_DEVICE_INFO_DONE",
                             networkId |-> Head(queue).networkId])

ProcessAuthDisconnect ==
  /\ Dispatch(NB, "DISCONNECT")
  /\ ToFsmOfAuth(LAMBDA f : FsmMsg(f, "DISCONNECT"))

ProcessDeviceNotTrusted ==
  /\ Dispatch(NB, "NOT_TRUSTED")
  /\ LET found == AliveIn(FindConnectionFsmByUdid(Head(queue).udid))
     IN \/ found = {} /\ OnlyPost(<<>>, {})
        \/ \E f \in found : OnlyPost(<<FsmMsg(f, "NOT_TRUSTED")>>, {})

ProcessLeaveLNNRequest ==
  /\ Dispatch(NB, "LEAVE_LNN_REQUEST")
  /\ LET n == Head(queue).networkId
         S == AliveIn(ByNetworkId(n))
     IN /\ PostAndFlag(S, "LEAVE_LNN", {"LEAVE_REQUEST"},
                       IF S = {} THEN {<<"LeaveResult", n>>} ELSE {})
        /\ leaveWait' = IF S = {} THEN leaveWait \ {n} ELSE leaveWait
        /\ UNCHANGED joinWait

ProcessSyncOfflineFinish ==
  /\ Dispatch(NB, "SYNC_OFFLINE_FINISH")
  /\ \E s \in Walks(AliveIn(ByNetworkId(Head(queue).networkId))) :
       OnlyPost(Posts(s, "SYNC_OFFLINE_DONE"), {})

IsInvalidConnectionFsm(f, oldNet, type) ==
  /\ fsm[f].peerNetworkId = oldNet
  /\ ~fsm[f].isDead
  /\ type = "MAX" \/ type = TypeOfAddr(fsm[f].addr)
  /\ "ONLINE" \in fsm[f].flag
  /\ "INITIATE_ONLINE" \notin fsm[f].flag


ProcessLeaveInvalidConn ==
  /\ Dispatch(NB, "LEAVE_INVALID_CONN")
  /\ LET p == Head(queue)
         S == {f \in fsmList : IsInvalidConnectionFsm(f, p.oldNetworkId, p.addrType)}
     IN /\ \E s \in Walks(S) : queue' = Rest \o Posts(s, "LEAVE_LNN")
        /\ fsm' = [f \in FsmId |->
             IF f \in S
             THEN [fsm[f] EXCEPT
                     !.flag = @ \cup {"INITIATE_ONLINE", "LEAVE_AUTO"},
                     !.cleanInfo = [networkId |-> p.newNetworkId,
                                   addrType |-> p.addrType]]
             ELSE fsm[f]]
        /\ out' = {}
        /\ UNCHANGED <<timers, listVars, ledgerVars, auth, peerVars, waitVars,
                       offlineSync, alive>>

ProcessLeaveByAddrType ==
  /\ Dispatch(NB, "LEAVE_BY_ADDR_TYPE")
  /\ LET t == Head(queue).addrType
         same == {f \in fsmList : TypeOfAddr(fsm[f].addr) = t}
     IN /\ PostAndFlag(AliveIn(same), "LEAVE_LNN", {"LEAVE_AUTO"},
                       IF same = {} THEN {<<"LnnNotifyAllTypeOffline", t>>}
                       ELSE {})
        /\ UNCHANGED waitVars

NetBuilderStep ==
  \/ ProcessJoinLNNRequest \/ ProcessDevDiscoveryRequest
  \/ ProcessCleanConnectionFsm
  \/ ProcessAuthKeyGenerated \/ ProcessAuthDone \/ ProcessSyncDeviceInfoDone
  \/ ProcessAuthDisconnect \/ ProcessDeviceNotTrusted
  \/ ProcessLeaveLNNRequest \/ ProcessSyncOfflineFinish
  \/ ProcessLeaveInvalidConn \/ ProcessLeaveByAddrType

-----------------------------------------------------------------------------
(* The threads that post to the net builder.                               *)

MayHappen(event) == alive /\ event \in Events /\ Len(queue) < MaxQueue

PostToNetBuilder(msg) ==
  /\ queue' = Append(queue, msg) /\ out' = {}
  /\ UNCHANGED <<timers, fsm, listVars, ledgerVars, alive>>

\* The IPC layer refuses a second request for an address still waiting.
LnnServerJoin(a) ==
  /\ MayHappen("join") /\ a \notin joinWait
  /\ joinWait' = joinWait \cup {a}
  /\ PostToNetBuilder([h |-> NB, what |-> "JOIN_LNN_REQUEST", addr |-> a])
  /\ UNCHANGED <<auth, peerVars, leaveWait, offlineSync>>

LnnServerLeave(n) ==
  /\ MayHappen("leave") /\ n \notin leaveWait
  /\ leaveWait' = leaveWait \cup {n}
  /\ PostToNetBuilder([h |-> NB, what |-> "LEAVE_LNN_REQUEST", networkId |-> n])
  /\ UNCHANGED <<auth, peerVars, joinWait, offlineSync>>

LnnNotifyDiscoveryDevice(a) ==
  /\ MayHappen("discover")
  /\ PostToNetBuilder([h |-> NB, what |-> "DISCOVERY_DEVICE", addr |-> a])
  /\ UNCHANGED <<auth, peerVars, waitVars, offlineSync>>

LnnRequestLeaveByAddrType(t) ==
  /\ MayHappen("leaveType")
  /\ PostToNetBuilder([h |-> NB, what |-> "LEAVE_BY_ADDR_TYPE", addrType |-> t])
  /\ UNCHANGED <<auth, peerVars, waitVars, offlineSync>>

LnnNotifySyncOfflineFinish(n) ==
  /\ alive /\ n \in offlineSync
  /\ offlineSync' = offlineSync \ {n}
  /\ PostToNetBuilder([h |-> NB, what |-> "SYNC_OFFLINE_FINISH", networkId |-> n])
  /\ UNCHANGED <<auth, peerVars, waitVars>>

(***************************************************************************)
(* The auth manager, as the net builder sees it.  A client authentication  *)
(* goes from connecting to keyed, synced (the local node info is sent),    *)
(* info (the peer's node info is delivered) and passed; a server one       *)
(* starts keyed.  It may fail or be disconnected on the way, and makes no  *)
(* more callbacks once it is closed.                                       *)
(***************************************************************************)
AuthCallback(a, from, to, msg) ==
  /\ alive /\ Len(queue) < MaxQueue
  /\ auth[a].phase \in from
  /\ auth' = [auth EXCEPT ![a].phase = to]
  /\ PostToNetBuilder(msg)
  /\ UNCHANGED <<peerVars, waitVars, offlineSync>>

OnAuthKeyGenerated(a) ==
  AuthCallback(a, {"connecting"}, "keyed",
               [h |-> NB, what |-> "AUTH_KEY_GENERATED", authId |-> a])

\* A peer connects to us: the key is generated for an authId we never asked for.
OnServerAuthKeyGenerated(addr) ==
  /\ MayHappen("passive") /\ nextAuth < MaxAuth
  /\ nextAuth' = nextAuth + 1
  /\ auth' = [auth EXCEPT ![nextAuth + 1] = [phase |-> "keyed", addr |-> addr]]
  /\ PostToNetBuilder([h |-> NB, what |-> "AUTH_KEY_GENERATED",
                       authId |-> nextAuth + 1])
  /\ UNCHANGED <<peerNet, nextNet, waitVars, offlineSync>>

OnRecvPeerDeviceInfo(a) ==
  /\ auth[a].phase = "synced" /\ peerNet[PeerOf[auth[a].addr]] > 0
  /\ AuthCallback(a, {"synced"}, "info",
                  [h |-> NB, what |-> "SYNC_DEVICE_INFO_DONE", authId |-> a,
                   networkId |-> peerNet[PeerOf[auth[a].addr]]])

OnAuthPassed(a) ==
  AuthCallback(a, {"info"}, "passed",
    [h |-> NB, what |-> "AUTH_DONE", authId |-> a, isSuccess |-> TRUE])

OnAuthFailed(a) ==
  /\ "fail" \in Events
  /\ AuthCallback(a, {"connecting", "keyed", "synced", "info", "broken"}, "failed",
                  [h |-> NB, what |-> "AUTH_DONE", authId |-> a,
                   isSuccess |-> FALSE])

OnDisconnect(a) ==
  /\ "disconnect" \in Events
  /\ AuthCallback(a, {"connecting", "keyed", "synced", "info", "passed",
                      "failed", "broken"}, "closed",
                  [h |-> NB, what |-> "DISCONNECT", authId |-> a])

OnDeviceNotTrusted(u) ==
  /\ MayHappen("untrusted")
  /\ PostToNetBuilder([h |-> NB, what |-> "NOT_TRUSTED", udid |-> u])
  /\ UNCHANGED <<auth, peerVars, waitVars, offlineSync>>

\* A peer boots and takes a new network id; what it was authenticating breaks.
PeerBoot(u) ==
  /\ alive /\ nextNet < MaxNet
  /\ nextNet' = nextNet + 1
  /\ peerNet' = [peerNet EXCEPT ![u] = nextNet + 1]
  /\ auth' = [a \in AuthId |->
       IF /\ auth[a].phase \in {"connecting", "keyed", "synced", "info"}
          /\ PeerOf[auth[a].addr] = u
       THEN [auth[a] EXCEPT !.phase = "broken"] ELSE auth[a]]
  /\ out' = {}
  /\ UNCHANGED <<queue, timers, fsm, listVars, ledgerVars, nextAuth, waitVars,
                 offlineSync, alive>>

AuthStep(a) ==
  \/ OnAuthKeyGenerated(a) \/ OnRecvPeerDeviceInfo(a) \/ OnAuthPassed(a)

Environment ==
  \/ \E a \in Addr : \/ LnnServerJoin(a) \/ LnnNotifyDiscoveryDevice(a)
                      \/ OnServerAuthKeyGenerated(a)
  \/ \E n \in NetworkId : LnnServerLeave(n) \/ LnnNotifySyncOfflineFinish(n)
  \/ \E t \in AddrTypes : LnnRequestLeaveByAddrType(t)
  \/ \E a \in AuthId : AuthStep(a) \/ OnAuthFailed(a) \/ OnDisconnect(a)
  \/ \E u \in Udid : OnDeviceNotTrusted(u) \/ PeerBoot(u)

TimerStep(f) == JoinLNNTimeout(f) \/ LeaveLNNTimeout(f)

LooperStep == NetBuilderStep \/ \E f \in FsmId : FsmStep(f)

Next ==
  \/ NetBuilderStep
  \/ \E f \in FsmId : FsmStep(f) \/ TimerStep(f)
  \/ Environment

Spec == Init /\ [][Next]_vars

\* The looper thread keeps dispatching; a delayed message comes due in the end.
FairSpec ==
  /\ Spec
  /\ WF_vars(LooperStep)
  /\ \A f \in FsmId : WF_vars(TimerStep(f))

\* The peer and the auth manager cooperate too.
CooperativeSpec == FairSpec /\ \A a \in AuthId : WF_vars(AuthStep(a))

-----------------------------------------------------------------------------
(* Properties. *)

TypeOK ==
  /\ queue \in Seq(Message)
  /\ timers \subseteq FsmId \X FsmTimeouts
  /\ fsm \in [FsmId -> ConnFsm]
  /\ fsmList \subseteq FsmId
  /\ connCount \in Nat
  /\ nextFsm \in 0 .. MaxFsm
  /\ ledger \in [Udid -> LedgerNode]
  /\ cnnCode \in [Udid -> 0 .. MaxAuth]
  /\ auth \in [AuthId -> [phase : {"none", "connecting", "keyed", "synced",
                                   "info", "passed", "failed", "broken",
                                   "closed"}, addr : Addr \cup {NULL}]]
  /\ nextAuth \in 0 .. MaxAuth
  /\ peerNet \in [Udid -> 0 .. MaxNet] /\ nextNet \in 0 .. MaxNet
  /\ joinWait \subseteq Addr /\ leaveWait \subseteq NetworkId
  /\ offlineSync \subseteq 0 .. MaxNet
  /\ alive \in BOOLEAN

Queued(f, what) == \E i \in DOMAIN queue : queue[i] = FsmMsg(f, what)

\* No connection fsm is used after LnnDestroyConnectionFsm freed it: as long as
\* the list, a queued message or a delayed message names it, it is allocated,
\* and nothing is queued for it behind its own FSM_CTRL_MSG_DEINIT.
FreedFsmUnreferenced ==
  /\ \A f \in fsmList : fsm[f].alloc = "live"
  /\ \A t \in timers : fsm[t[1]].alloc = "live" /\ ~Queued(t[1], "DEINIT")
  /\ \A i \in DOMAIN queue :
       queue[i].h # NB => /\ fsm[queue[i].h].alloc = "live"
                          /\ \A j \in DOMAIN queue :
                               /\ queue[j].h = queue[i].h
                               /\ queue[j].what = "DEINIT"
                               => i <= j

\* What a message in the queue relies on: its connection fsm is allocated, one
\* that is being stopped is dead and unlisted, one that is to be cleaned is dead
\* or gone, and the address of a generated key is known.
MessageSound(m, fs, li, au) ==
  /\ m.h # NB => fs[m.h].alloc = "live"
  /\ m.h # NB /\ m.what \in {"STOP", "DEINIT"} =>
       fs[m.h].isDead /\ m.h \notin li
  /\ m.h = NB /\ m.what = "CLEAN_CONN_FSM" =>
       fs[m.connFsmId].isDead \/ fs[m.connFsmId].alloc = "freed"
  /\ m.h = NB /\ m.what = "AUTH_KEY_GENERATED" => au[m.authId].addr \in Addr

QueueSound(q, fs, li, au) ==
  /\ \A i \in 1 .. Len(q) : MessageSound(q[i], fs, li, au)
  /\ \A i, j \in 1 .. Len(q) :
       q[j].h = q[i].h /\ q[j].what = "DEINIT" => i <= j

\* A delayed message belongs to a connection fsm that is alive, in a state that
\* the timeout is meant for.
TimedStates(what) ==
  IF what = "LEAVE_LNN_TIMEOUT" THEN {"LEAVING"}
  ELSE {"AUTH", "SYNC_DEVICE_INFO", "CLEAN_INVALID_CONN"}

TimerSound(r, what) ==
  r.alloc = "live" /\ ~r.isDead /\ r.curState \in TimedStates(what)

TimersSound(tm, fs) == \A t \in tm : TimerSound(fs[t[1]], t[2])

FsmsSound(fs, li, next) ==
  /\ \A f \in li : fs[f].alloc = "live"
  /\ \A f \in FsmId : f > next => fs[f].alloc = "none" /\ ~fs[f].isDead
  /\ \A f \in FsmId : fs[f].alloc = "live" => fs[f].addr \in Addr

AuthsSound(au, fs) ==
  /\ \A a \in AuthId : au[a].phase # "none" => au[a].addr \in Addr
  /\ \A f \in FsmId : fs[f].authId # 0 => au[fs[f].authId].addr \in Addr

\* The life of a connection fsm: it is allocated when it is listed, stays so while
\* a message or a timeout is on its way to it, is unlisted only when it is dead,
\* and its DEINIT is the last message it gets.  This is the inductive invariant
\* behind FreedFsmUnreferenced.
FsmLifecycle ==
  /\ QueueSound(queue, fsm, fsmList, auth)
  /\ TimersSound(timers, fsm)
  /\ FsmsSound(fsm, fsmList, nextFsm)
  /\ AuthsSound(auth, fsm)

\* connCount, which StartNewConnectionFsm and StopConnectionFsm keep by hand, is
\* the number of listed connections and never passes maxConnCount.
ConnCountExact ==
  connCount = Cardinality(fsmList) /\ connCount <= MaxConnCount

\* A dead connection fsm is always on its way out: while listed, a clean request
\* for it is queued, and once unlisted its DEINIT is queued until it is freed.
DeadFsmBeingCleaned ==
  \A f \in FsmId :
    /\ f \in fsmList /\ fsm[f].isDead =>
         \E i \in DOMAIN queue : queue[i] = CleanMsg(f)
    /\ f \notin fsmList /\ fsm[f].alloc = "live" => Queued(f, "DEINIT")

\* A JoinLNN request that waits for its result is held in exactly one place, as a
\* queued request or as the JOIN_REQUEST flag of one connection fsm that will
\* still answer it, and nobody else holds one: no request is lost on the way
\* through the queue and the fsm's states, and none is answered twice.
JoinRequestHeldOnce ==
  \A a \in Addr :
    LET queued == {i \in DOMAIN queue :
                     queue[i].what = "JOIN_LNN_REQUEST" /\ queue[i].addr = a}
        flagged == {f \in FsmId : /\ "JOIN_REQUEST" \in fsm[f].flag
                                  /\ fsm[f].addr = a}
    IN /\ Cardinality(queued) + Cardinality(flagged)
            = IF a \in joinWait THEN 1 ELSE 0
       /\ \A f \in flagged : ~fsm[f].isDead \/ Queued(f, "JOIN_LNN")


\* A connection fsm that waits for its authentication, or for the peer's node
\* info, has its join timeout pending.  Passive connections are left out: one
\* that a join request reaches before its key message gets no timeout.
JoinTimeoutArmed ==
  \A f \in fsmList :
    /\ ~fsm[f].isDead /\ "JOIN_PASSIVE" \notin fsm[f].flag
    /\ \/ InState(f, "AUTH") /\ fsm[f].authId > 0
       \/ InState(f, "SYNC_DEVICE_INFO")
    => <<f, "JOIN_LNN_TIMEOUT">> \in timers

\* The ledger and the connections agree: a device is online in the ledger exactly
\* while some connection fsm carries its network id with the ONLINE flag.
LedgerMatchesConnections ==
  \A u \in Udid :
    IsNodeOnline(u) <=>
      \E f \in fsmList : /\ "ONLINE" \in fsm[f].flag
                         /\ fsm[f].peerNetworkId = ledger[u].networkId

\* onNodeOffline is called only for a device reported online before.
OfflineAfterOnline ==
  [][\A u \in Udid : <<"REPORT_OFFLINE", u>> \in out' => IsNodeOnline(u)]_vars

\* Once every listed connection of a type is dead or told to leave, as
\* LnnRequestLeaveByAddrType has it when an interface goes down, the end of the
\* last one is reported with LnnNotifyAllTypeOffline, which the IP network waits
\* for before it opens its links again, unless a new connection of the type
\* starts in the meantime.
TypeOfflineNotified ==
  \A t \in {TypeOfAddr(a) : a \in Addr} :
    LET Of == {f \in fsmList : TypeOfAddr(fsm[f].addr) = t}
        Goes(f) == fsm[f].isDead \/ "LEAVE_AUTO" \in fsm[f].flag
    IN Of # {} /\ (\A f \in Of : Goes(f)) ~>
         \/ <<"LnnNotifyAllTypeOffline", t>> \in out
         \/ \E f \in Of : ~Goes(f)
         \/ ~alive

\* Every accepted JoinLNN request gets its result in the end, whatever the peer
\* and the auth manager do.
JoinAnswered == \A a \in Addr : a \in joinWait ~> a \notin joinWait

\* Every accepted LeaveLNN request gets its result in the end.
LeaveAnswered == \A n \in NetworkId : n \in leaveWait ~> n \notin leaveWait

\* A dead connection fsm is freed in the end.
DeadFsmFreed ==
  \A f \in FsmId : fsm[f].isDead ~> (fsm[f].alloc = "freed" \/ ~alive)
=============================================================================
