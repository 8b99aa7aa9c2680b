----------------------------- MODULE ConnectionFsm -----------------------------
(***************************************************************************)
(* lnn_connection_fsm.c on top of lnn_state_machine.c: what a connection   *)
(* state machine does with each message the looper dispatches to it.  The  *)
(* second parameter of a completion is the rest of the queue.              *)
(***************************************************************************)
EXTENDS DistributedLedger

\* AuthHandleLeaveLNN: the auth manager drops the authentication.
AuthHandleLeaveLNN(a) ==
  IF a = 0 THEN auth ELSE [auth EXCEPT ![a].phase = "closed"]

NotifyJoinResult(f) ==
  joinWait' = IF "JOIN_REQUEST" \in fsm[f].flag
              THEN joinWait \ {fsm[f].addr} ELSE joinWait

JoinResultCalls(f) ==
  IF "JOIN_REQUEST" \in fsm[f].flag
  THEN {<<"JoinResult", fsm[f].addr>>} ELSE {}

\* Mutant: the failed join asks nobody to clean its connection fsm up.
MutantNoCleanRequest(f, q) ==
  /\ timers' = timers \ {<<f, "JOIN_LNN_TIMEOUT">>}
  /\ NotifyJoinResult(f)
  /\ auth' = AuthHandleLeaveLNN(fsm[f].authId)
  /\ fsm' = [fsm EXCEPT ![f] =
               [fsm[f] EXCEPT !.flag = @ \ (JOIN_ACTIVE \cup {"JOIN_PASSIVE"}),
                              !.nodeInfo = NULL, !.isDead = TRUE]]
  /\ queue' = q
  /\ out' = JoinResultCalls(f)
  /\ UNCHANGED <<listVars, ledgerVars, peerVars, leaveWait, offlineSync, alive>>

\* Mutant: the failed join leaves its timeout running.
MutantKeepsTimer(f, q) ==
  /\ NotifyJoinResult(f)
  /\ auth' = AuthHandleLeaveLNN(fsm[f].authId)
  /\ fsm' = [fsm EXCEPT ![f] =
               [fsm[f] EXCEPT !.flag = @ \ (JOIN_ACTIVE \cup {"JOIN_PASSIVE"}),
                              !.nodeInfo = NULL, !.isDead = TRUE]]
  /\ queue' = Append(q, CleanMsg(f))
  /\ out' = JoinResultCalls(f)
  /\ UNCHANGED <<timers, listVars, ledgerVars, peerVars, leaveWait, offlineSync,
                 alive>>

\* Mutant: it frees what it learnt and lives on.
MutantFailsAlive(f, q) ==
  /\ timers' = timers \ {<<f, "JOIN_LNN_TIMEOUT">>}
  /\ NotifyJoinResult(f)
  /\ auth' = AuthHandleLeaveLNN(fsm[f].authId)
  /\ fsm' = [fsm EXCEPT ![f] =
               [fsm[f] EXCEPT !.flag = @ \ (JOIN_ACTIVE \cup {"JOIN_PASSIVE"}),
                              !.nodeInfo = NULL]]
  /\ queue' = Append(q, CleanMsg(f))
  /\ out' = JoinResultCalls(f)
  /\ UNCHANGED <<listVars, ledgerVars, peerVars, leaveWait, offlineSync, alive>>

\* CompleteJoinLNN with a failure: tell the caller, drop the auth, die.
CompleteJoinFail(f, q) ==
  /\ timers' = timers \ {<<f, "JOIN_LNN_TIMEOUT">>}
  /\ NotifyJoinResult(f)
  /\ auth' = AuthHandleLeaveLNN(fsm[f].authId)
  /\ fsm' = [fsm EXCEPT ![f] =
               [fsm[f] EXCEPT !.flag = @ \ (JOIN_ACTIVE \cup {"JOIN_PASSIVE"}),
                              !.nodeInfo = NULL, !.isDead = TRUE]]
  /\ queue' = Append(q, CleanMsg(f))
  /\ out' = JoinResultCalls(f)
  /\ UNCHANGED <<listVars, ledgerVars, peerVars, leaveWait, offlineSync, alive>>

\* CompleteJoinLNN with success, as OnlineStateEnter calls it.
CompleteJoinOk(f, q) ==
  LET info == fsm[f].nodeInfo
      report == ReportOfOnline(info)
  IN /\ timers' = timers \ {<<f, "JOIN_LNN_TIMEOUT">>}
     /\ ledger' = LnnAddOnlineNode(info)
     /\ cnnCode' = AddCnnCode(info)
     /\ NotifyJoinResult(f)
     /\ fsm' = [fsm EXCEPT ![f] =
                  [fsm[f] EXCEPT !.flag = (@ \ (JOIN_ACTIVE \cup {"JOIN_PASSIVE"}))
                                          \cup {"ONLINE"},
                                 !.nodeInfo = NULL, !.curState = "ONLINE"]]
     /\ queue' = q
     /\ out' = JoinResultCalls(f)
               \cup (IF report = "REPORT_NONE" THEN {} ELSE {<<report, info.udid>>})
     /\ UNCHANGED <<listVars, auth, peerVars, leaveWait, offlineSync, alive>>

\* A handler reads through a null nodeInfo: the process dies.
NullNodeInfo(q) ==
  /\ alive' = FALSE /\ queue' = q /\ out' = {}
  /\ UNCHANGED <<timers, fsm, listVars, ledgerVars, auth, peerVars, waitVars,
                 offlineSync>>

\* LnnFsmTransactState to STATE_ONLINE with OnlineStateEnter.
EnterOnline(f, q) ==
  IF fsm[f].isDead
  THEN /\ fsm' = [fsm EXCEPT ![f].curState = "ONLINE"]
       /\ queue' = q /\ out' = {}
       /\ UNCHANGED <<timers, listVars, ledgerVars, auth, peerVars, waitVars,
                      offlineSync, alive>>
  ELSE IF fsm[f].nodeInfo = NULL THEN NullNodeInfo(q)
  ELSE CompleteJoinOk(f, q)

\* UpdateLeaveToLedger: the device the leaving connection belongs to.
LeavingNodes(f) == NodesByNetworkId(fsm[f].peerNetworkId)

UpdateLeaveToLedger(f) ==
  IF LeavingNodes(f) = {} THEN UNCHANGED ledgerVars
  ELSE \E u \in LeavingNodes(f) :
         LET off == LnnSetNodeOffline(u, fsm[f].authId)
         IN /\ ledger' = IF /\ ReportsOffline(u, fsm[f].authId)
                            /\ "LEAVE_PASSIVE" \in fsm[f].flag
                         THEN LnnRemoveNode(off, u) ELSE off
            /\ cnnCode' = RemoveCnnCode(u)

OfflineCalls(f) ==
  {<<"REPORT_OFFLINE", u>> : u \in {v \in LeavingNodes(f) :
                                      ReportsOffline(v, fsm[f].authId)}}

\* Mutant: the connection fsm that has left is not marked dead.
MutantLeaveNotDead(f, q) ==
  /\ timers' = timers \ {<<f, "LEAVE_LNN_TIMEOUT">>}
  /\ UpdateLeaveToLedger(f)
  /\ leaveWait' = IF "LEAVE_REQUEST" \in fsm[f].flag
                  THEN leaveWait \ {fsm[f].peerNetworkId} ELSE leaveWait
  /\ auth' = AuthHandleLeaveLNN(fsm[f].authId)
  /\ fsm' = [fsm EXCEPT ![f].flag = @ \ {"ONLINE"}, ![f].curState = "LEAVING"]
  /\ queue' = Append(q, CleanMsg(f))
  /\ out' = OfflineCalls(f)
  /\ UNCHANGED <<listVars, peerVars, joinWait, offlineSync, alive>>

CompleteLeaveLNN(f, q) ==
  /\ timers' = timers \ {<<f, "LEAVE_LNN_TIMEOUT">>}
  /\ UpdateLeaveToLedger(f)
  /\ leaveWait' = IF "LEAVE_REQUEST" \in fsm[f].flag
                  THEN leaveWait \ {fsm[f].peerNetworkId} ELSE leaveWait
  /\ auth' = AuthHandleLeaveLNN(fsm[f].authId)
  /\ fsm' = [fsm EXCEPT ![f] =
               [fsm[f] EXCEPT !.flag = @ \ (LEAVE_ACTIVE \cup {"LEAVE_PASSIVE", "ONLINE"}),
                              !.isDead = TRUE, !.curState = "LEAVING"]]
  /\ queue' = Append(q, CleanMsg(f))
  /\ out' = OfflineCalls(f)
            \cup (IF "LEAVE_REQUEST" \in fsm[f].flag
                  THEN {<<"LeaveResult", fsm[f].peerNetworkId>>} ELSE {})
  /\ UNCHANGED <<listVars, peerVars, joinWait, offlineSync, alive>>

\* The handler returns without a change of state.
Ignore(q) ==
  /\ queue' = q /\ out' = {}
  /\ UNCHANGED <<timers, fsm, listVars, ledgerVars, auth, peerVars, waitVars,
                 offlineSync, alive>>

\* NotifyJoinResult as a whole handler: the caller is told, nothing else.
OnlyNotifyJoinResult(f, q) ==
  /\ NotifyJoinResult(f)
  /\ fsm' = [fsm EXCEPT ![f].flag = @ \ JOIN_ACTIVE]
  /\ queue' = q /\ out' = JoinResultCalls(f)
  /\ UNCHANGED <<timers, listVars, ledgerVars, auth, peerVars, leaveWait,
                 offlineSync, alive>>

OnJoinFail(f, q) ==
  IF fsm[f].isDead THEN Ignore(q) ELSE CompleteJoinFail(f, q)

TryCancelJoinProcedure(f, q) ==
  IF "LEAVE_AUTO" \in fsm[f].flag
  THEN CompleteJoinFail(f, q)
  ELSE OnlyNotifyJoinResult(f, q)

-----------------------------------------------------------------------------
(* The state machine's control messages, and STATE_AUTH. *)

InState(f, s) == fsm[f].curState = s

ProcessStartMessage(f) ==
  /\ Dispatch(f, "START")
  /\ IF InState(f, "NULL")
     THEN /\ fsm' = [fsm EXCEPT ![f].curState = "AUTH"]
          /\ queue' = Rest /\ out' = {}
          /\ UNCHANGED <<timers, listVars, ledgerVars, auth, peerVars,
                         waitVars, offlineSync, alive>>
     ELSE Ignore(Rest)

ProcessStopMessage(f) ==
  /\ Dispatch(f, "STOP")
  /\ fsm' = [fsm EXCEPT ![f].curState = "NULL"]
  /\ queue' = Rest /\ out' = {}
  /\ UNCHANGED <<timers, listVars, ledgerVars, auth, peerVars, waitVars,
                 offlineSync, alive>>

\* ProcessDeinitMessage: the stop callback frees the connection fsm.
ProcessDeinitMessage(f) ==
  /\ Dispatch(f, "DEINIT")
  /\ fsm' = [fsm EXCEPT ![f] = [NoFsm EXCEPT !.alloc = "freed"]]
  /\ queue' = Rest /\ out' = {}
  /\ UNCHANGED <<timers, listVars, ledgerVars, auth, peerVars, waitVars,
                 offlineSync, alive>>

\* Mutant: the join starts without its timeout.
MutantNoJoinTimeout(f) ==
  /\ nextAuth < MaxAuth
  /\ nextAuth' = nextAuth + 1
  /\ auth' = [auth EXCEPT ![nextAuth + 1] =
                [phase |-> "connecting", addr |-> fsm[f].addr]]
  /\ fsm' = [fsm EXCEPT ![f].authId = nextAuth + 1]
  /\ queue' = Rest /\ out' = {}
  /\ UNCHANGED <<timers, listVars, ledgerVars, peerNet, nextNet, waitVars,
                 offlineSync, alive>>

\* AuthVerifyDevice returned an authId: the join waits for it, with a timeout.
BeginVerify(f) ==
  /\ nextAuth < MaxAuth
  /\ nextAuth' = nextAuth + 1
  /\ auth' = [auth EXCEPT ![nextAuth + 1] =
                [phase |-> "connecting", addr |-> fsm[f].addr]]
  /\ fsm' = [fsm EXCEPT ![f].authId = nextAuth + 1]
  /\ timers' = timers \cup {<<f, "JOIN_LNN_TIMEOUT">>}
  /\ queue' = Rest /\ out' = {}
  /\ UNCHANGED <<listVars, ledgerVars, peerNet, nextNet, waitVars, offlineSync,
                 alive>>

OnJoinLNNInAuth(f) ==
  /\ Dispatch(f, "JOIN_LNN") /\ InState(f, "AUTH")
  /\ \/ fsm[f].isDead /\ OnlyNotifyJoinResult(f, Rest)
     \/ ~fsm[f].isDead /\ fsm[f].authId > 0 /\ Ignore(Rest)
     \/ ~fsm[f].isDead /\ fsm[f].authId = 0 /\ BeginVerify(f)
     \/ ~fsm[f].isDead /\ fsm[f].authId = 0 /\ CompleteJoinFail(f, Rest)

\* A passive join arms the join timeout here; an active one did on JOIN_LNN.
OnAuthKeyGeneratedInAuth(f) ==
  /\ Dispatch(f, "AUTH_KEY_GENERATED") /\ InState(f, "AUTH")
  /\ IF fsm[f].isDead THEN Ignore(Rest)
     ELSE /\ fsm' = [fsm EXCEPT ![f].curState = "SYNC_DEVICE_INFO"]
          /\ queue' = Append(Rest, FsmMsg(f, "SYNC_DEVICE_INFO"))
          /\ timers' = IF fsm[f].flag \cap JOIN_ACTIVE # {} THEN timers
                       ELSE timers \cup {<<f, "JOIN_LNN_TIMEOUT">>}
          /\ out' = {}
          /\ UNCHANGED <<listVars, ledgerVars, auth, peerVars, waitVars,
                         offlineSync, alive>>

OnAuthDoneInAuth(f) ==
  /\ Dispatch(f, "AUTH_DONE") /\ InState(f, "AUTH")
  /\ IF fsm[f].isDead \/ Head(queue).isSuccess
     THEN Ignore(Rest) ELSE CompleteJoinFail(f, Rest)

-----------------------------------------------------------------------------
(* STATE_SYNC_DEVICE_INFO. *)

\* AuthPostData sends the local node info unless the auth is gone or fails.
OnSyncDeviceInfo(f) ==
  /\ Dispatch(f, "SYNC_DEVICE_INFO") /\ InState(f, "SYNC_DEVICE_INFO")
  /\ \/ fsm[f].isDead /\ Ignore(Rest)
     \/ ~fsm[f].isDead /\ CompleteJoinFail(f, Rest)
     \/ /\ ~fsm[f].isDead
        /\ fsm[f].authId > 0 /\ auth[fsm[f].authId].phase # "closed"
        /\ auth' = [auth EXCEPT ![fsm[f].authId].phase =
                      IF @ = "keyed" THEN "synced" ELSE @]
        /\ queue' = Rest /\ out' = {}
        /\ UNCHANGED <<timers, fsm, listVars, ledgerVars, peerVars, waitVars,
                       offlineSync, alive>>

ParsePeerNodeInfo(f, net) ==
  LET a == fsm[f].addr
  IN [udid |-> PeerOf[a], networkId |-> net,
      ip |-> IF a \in WlanAddr THEN a ELSE NULL, hasPorts |-> a \in WlanAddr,
      discoveryType |-> {TypeOfAddr(a)}, authChannelId |-> fsm[f].authId]

OnSyncDeviceInfoDone(f) ==
  /\ Dispatch(f, "SYNC_DEVICE_INFO_DONE") /\ InState(f, "SYNC_DEVICE_INFO")
  /\ \/ fsm[f].isDead /\ Ignore(Rest)
     \/ ~fsm[f].isDead /\ CompleteJoinFail(f, Rest)
     \/ /\ ~fsm[f].isDead
        /\ fsm' = [fsm EXCEPT ![f] =
             [fsm[f] EXCEPT !.nodeInfo = ParsePeerNodeInfo(f, Head(queue).networkId),
                            !.peerNetworkId = Head(queue).networkId]]
        /\ queue' = Rest /\ out' = {}
        /\ UNCHANGED <<timers, listVars, ledgerVars, auth, peerVars, waitVars,
                       offlineSync, alive>>

OnAuthDoneInSyncInfo(f) ==
  /\ Dispatch(f, "AUTH_DONE") /\ InState(f, "SYNC_DEVICE_INFO")
  /\ IF fsm[f].isDead THEN Ignore(Rest)
     ELSE IF ~Head(queue).isSuccess THEN CompleteJoinFail(f, Rest)
     ELSE /\ fsm' = [fsm EXCEPT ![f].curState = "CLEAN_INVALID_CONN"]
          /\ queue' = Append(Rest, FsmMsg(f, "LEAVE_INVALID_CONN"))
          /\ out' = {}
          /\ UNCHANGED <<timers, listVars, ledgerVars, auth, peerVars, waitVars,
                         offlineSync, alive>>

-----------------------------------------------------------------------------
(* What several states do alike. *)

OnLeaveLNNBeforeOnline(f) ==
  /\ Dispatch(f, "LEAVE_LNN")
  /\ fsm[f].curState \in {"AUTH", "SYNC_DEVICE_INFO", "CLEAN_INVALID_CONN"}
  /\ TryCancelJoinProcedure(f, Rest)

OnDisconnectBeforeOnline(f) ==
  /\ Dispatch(f, "DISCONNECT")
  /\ fsm[f].curState \in {"AUTH", "SYNC_DEVICE_INFO", "CLEAN_INVALID_CONN"}
  /\ OnJoinFail(f, Rest)

\* STATE_AUTH has no case for FSM_MSG_TYPE_NOT_TRUSTED.
OnNotTrustedBeforeOnline(f) ==
  /\ Dispatch(f, "NOT_TRUSTED")
  /\ fsm[f].curState \in {"SYNC_DEVICE_INFO", "CLEAN_INVALID_CONN"}
  /\ OnJoinFail(f, Rest)

-----------------------------------------------------------------------------
(* STATE_CLEAN_INVALID_CONN. *)

\* IsNodeInfoChanged: the address types whose connections are invalid; none
\* when nothing changed.
InvalidTypes(f, old) ==
  IF old.networkId # fsm[f].nodeInfo.networkId THEN {"MAX"}
  ELSE IF \/ old.ip # fsm[f].nodeInfo.ip
          \/ old.hasPorts # fsm[f].nodeInfo.hasPorts
  THEN {TypeOfAddr(fsm[f].addr)}
  ELSE {}

\* The handler reads nodeInfo before it looks at the dead flag.
OnLeaveInvalidConn(f) ==
  /\ Dispatch(f, "LEAVE_INVALID_CONN") /\ InState(f, "CLEAN_INVALID_CONN")
  /\ IF fsm[f].nodeInfo = NULL
     THEN NullNodeInfo(Rest)
     ELSE IF fsm[f].isDead THEN Ignore(Rest)
     ELSE LET info == fsm[f].nodeInfo
              old == ledger[info.udid]
              invalid == IF old.status = "online" THEN InvalidTypes(f, old)
                         ELSE {}
          IN \/ invalid = {} /\ EnterOnline(f, Rest)
             \/ \E t \in invalid :
                  Ignore(Append(Rest,
                    [h |-> NB, what |-> "LEAVE_INVALID_CONN",
                     oldNetworkId |-> old.networkId, addrType |-> t,
                     newNetworkId |-> info.networkId]))

OnInitiateOnline(f) ==
  /\ Dispatch(f, "INITIATE_ONLINE") /\ InState(f, "CLEAN_INVALID_CONN")
  /\ EnterOnline(f, Rest)

-----------------------------------------------------------------------------
(* STATE_ONLINE and STATE_LEAVING. *)

\* Mutant: STATE_LEAVING has no case for a join request.
MutantNoJoinInLeaving(f) ==
  /\ Dispatch(f, "JOIN_LNN") /\ fsm[f].curState \in {"ONLINE", "LEAVING"}
  /\ IF InState(f, "ONLINE") THEN OnlyNotifyJoinResult(f, Rest)
     ELSE Ignore(Rest)

OnJoinLNNWhenJoined(f) ==
  /\ Dispatch(f, "JOIN_LNN") /\ fsm[f].curState \in {"ONLINE", "LEAVING"}
  /\ OnlyNotifyJoinResult(f, Rest)

\* LeavingStateEnter: tell the peer we go offline, and wait for that; if it
\* cannot be sent the leave is complete at once.  Either result of
\* LnnSyncLedgerItemInfo is possible.
LeaveLNNInOnline(f) ==
  /\ queue # <<>>
  /\ Head(queue).what \in {"LEAVE_LNN", "NOT_TRUSTED", "DISCONNECT"}
  /\ Dispatch(f, Head(queue).what) /\ InState(f, "ONLINE")
  /\ \/ fsm[f].isDead /\ Ignore(Rest)
     \/ ~fsm[f].isDead /\ CompleteLeaveLNN(f, Rest)
     \/ /\ ~fsm[f].isDead
        /\ fsm' = [fsm EXCEPT ![f].curState = "LEAVING"]
        /\ timers' = timers \cup {<<f, "LEAVE_LNN_TIMEOUT">>}
        /\ offlineSync' = offlineSync \cup {fsm[f].peerNetworkId}
        /\ queue' = Rest /\ out' = {}
        /\ UNCHANGED <<listVars, ledgerVars, auth, peerVars, waitVars, alive>>

OnSyncOfflineDone(f) ==
  /\ Dispatch(f, "SYNC_OFFLINE_DONE") /\ InState(f, "LEAVING")
  /\ IF fsm[f].isDead THEN Ignore(Rest) ELSE CompleteLeaveLNN(f, Rest)

-----------------------------------------------------------------------------
(* Messages a state has no case for, and delayed messages. *)

Handled(s) ==
  CASE s = "AUTH" -> {"JOIN_LNN", "AUTH_KEY_GENERATED", "AUTH_DONE",
                      "DISCONNECT", "LEAVE_LNN"}
    [] s = "SYNC_DEVICE_INFO" -> {"SYNC_DEVICE_INFO", "SYNC_DEVICE_INFO_DONE",
                      "AUTH_DONE", "LEAVE_LNN", "NOT_TRUSTED", "DISCONNECT"}
    [] s = "CLEAN_INVALID_CONN" -> {"LEAVE_LNN", "NOT_TRUSTED", "DISCONNECT",
                      "LEAVE_INVALID_CONN", "INITIATE_ONLINE"}
    [] s = "ONLINE" -> {"JOIN_LNN", "LEAVE_LNN", "NOT_TRUSTED", "DISCONNECT"}
    [] s = "LEAVING" -> {"JOIN_LNN", "SYNC_OFFLINE_DONE"}
    [] OTHER -> {}

FreeUnhandledMessage(f) ==
  /\ queue # <<>> /\ Dispatch(f, Head(queue).what)
  /\ Head(queue).what \notin FsmCtrl \cup Handled(fsm[f].curState)
  /\ Ignore(Rest)

DropTimer(f, what) ==
  /\ timers' = timers \ {<<f, what>>} /\ out' = {}
  /\ UNCHANGED <<queue, fsm, listVars, ledgerVars, auth, peerVars, waitVars,
                 offlineSync, alive>>


JoinLNNTimeout(f) ==
  /\ alive /\ <<f, "JOIN_LNN_TIMEOUT">> \in timers
  /\ IF /\ fsm[f].curState \in {"AUTH", "SYNC_DEVICE_INFO"}
        /\ ~fsm[f].isDead
     THEN CompleteJoinFail(f, queue)
     ELSE DropTimer(f, "JOIN_LNN_TIMEOUT")

LeaveLNNTimeout(f) ==
  /\ alive /\ <<f, "LEAVE_LNN_TIMEOUT">> \in timers
  /\ IF InState(f, "LEAVING") /\ ~fsm[f].isDead
     THEN CompleteLeaveLNN(f, queue)
     ELSE DropTimer(f, "LEAVE_LNN_TIMEOUT")

FsmStep(f) ==
  \/ ProcessStartMessage(f) \/ ProcessStopMessage(f) \/ ProcessDeinitMessage(f)
  \/ OnJoinLNNInAuth(f) \/ OnAuthKeyGeneratedInAuth(f) \/ OnAuthDoneInAuth(f)
  \/ OnSyncDeviceInfo(f) \/ OnSyncDeviceInfoDone(f) \/ OnAuthDoneInSyncInfo(f)
  \/ OnLeaveLNNBeforeOnline(f) \/ OnDisconnectBeforeOnline(f)
  \/ OnNotTrustedBeforeOnline(f)
  \/ OnLeaveInvalidConn(f) \/ OnInitiateOnline(f)
  \/ OnJoinLNNWhenJoined(f) \/ LeaveLNNInOnline(f) \/ OnSyncOfflineDone(f)
  \/ FreeUnhandledMessage(f)
=============================================================================
