------------------------------ MODULE LnnState ------------------------------
(***************************************************************************)
(* The state shared by the LNN net builder and its connection state        *)
(* machines (core/bus_center/lnn/net_builder).  Every handler of both runs *)
(* on the one default looper thread, so a handler is one atomic step; the  *)
(* auth manager, the IPC threads and the discovery threads only post to    *)
(* the looper's queue.                                                     *)
(*                                                                         *)
(* A message posted without delay goes to the tail of the queue.  A        *)
(* message posted with PostMessageDelay is kept in timers until the looper *)
(* dispatches it, which may be at any later point between two handlers:    *)
(* the looper keeps its list ordered by due time, and the due time of a    *)
(* delayed message is not otherwise observable.                            *)
(***************************************************************************)
EXTENDS Naturals, Sequences, FiniteSets

CONSTANTS
  WlanAddr,      \* the WLAN addresses a peer may be reached at
  BrAddr,        \* the BR (Bluetooth) addresses a peer may be reached at
  Udid,          \* the peer devices
  PeerOf,        \* the device behind each address
  NULL,          \* the null pointer
  MaxFsm,        \* bound: connection state machines ever created
  MaxAuth,       \* bound: authentications ever started
  MaxNet,        \* bound: network ids ever taken by the peers
  MaxConnCount,  \* NetBuilder.maxConnCount
  MaxQueue,      \* bound: queue length up to which other threads post
  Events         \* which external events this instance lets happen

Addr == WlanAddr \cup BrAddr
FsmId == 1 .. MaxFsm
AuthId == 1 .. MaxAuth
NetworkId == 1 .. MaxNet
AddrTypes == {"WLAN", "BR"}

ASSUME BoundsAssumption ==
  /\ MaxFsm \in Nat /\ MaxAuth \in Nat /\ MaxNet \in Nat
  /\ MaxConnCount \in Nat /\ MaxQueue \in Nat
ASSUME AddrAssumption ==
  /\ WlanAddr \cap BrAddr = {}
  /\ PeerOf \in [Addr -> Udid]

VARIABLES
  queue,      \* the looper's messages that are due, oldest first
  timers,     \* delayed messages not yet dispatched: <<fsm, message type>>
  fsm,        \* the connection state machines by id
  fsmList,    \* g_netBuilder.fsmList
  connCount,  \* g_netBuilder.connCount
  nextFsm,    \* the last id GetNextConnectionFsmId handed out
  ledger,     \* the distributed ledger by udid
  cnnCode,    \* the ledger's connection code of each device reached by BR
  auth,       \* the authentications of the auth manager, by authId
  nextAuth,   \* the last authId handed out
  peerNet,    \* the network id each peer uses at present
  nextNet,    \* the last network id taken by a peer
  joinWait,   \* addresses whose JoinLNN caller still waits for the result
  leaveWait,  \* network ids whose LeaveLNN caller still waits for the result
  offlineSync,\* network ids to which an offline message is on its way
  alive,      \* FALSE once the process has died of a null pointer
  out         \* the calls out of the module made by the last handler

listVars == <<fsmList, connCount, nextFsm>>
ledgerVars == <<ledger, cnnCode>>
peerVars == <<nextAuth, peerNet, nextNet>>
waitVars == <<joinWait, leaveWait>>
vars == <<queue, timers, fsm, listVars, ledgerVars, auth, peerVars, waitVars,
          offlineSync, alive, out>>

TypeOfAddr(a) == IF a \in WlanAddr THEN "WLAN" ELSE "BR"

(***************************************************************************)
(* NodeInfo as far as the net builder tells two of them apart: ip is the   *)
(* address for WLAN and empty (NULL) for BR, where UnPackBt leaves the ip  *)
(* and the ports of a zeroed NodeInfo alone.  A device's ports change only *)
(* when it restarts, and with them its network id.                         *)
(***************************************************************************)
NodeInfo == [udid : Udid, networkId : NetworkId, ip : WlanAddr \cup {NULL},
             hasPorts : BOOLEAN, discoveryType : SUBSET AddrTypes,
             authChannelId : 0 .. MaxAuth]

CleanInfo == [networkId : NetworkId, addrType : AddrTypes \cup {"MAX"}]

Flags == {"JOIN_REQUEST", "JOIN_AUTO", "JOIN_PASSIVE", "LEAVE_REQUEST",
          "LEAVE_AUTO", "LEAVE_PASSIVE", "INITIATE_ONLINE", "ONLINE"}
JOIN_ACTIVE == {"JOIN_REQUEST", "JOIN_AUTO"}
LEAVE_ACTIVE == {"LEAVE_REQUEST", "LEAVE_AUTO"}

States == {"NULL", "AUTH", "SYNC_DEVICE_INFO", "CLEAN_INVALID_CONN", "ONLINE",
           "LEAVING"}

(***************************************************************************)
(* LnnConnectionFsm.  curState is "NULL" exactly when FSM_FLAG_RUNNING is  *)
(* clear: ProcessStartMessage and ProcessStopMessage change both at once.  *)
(* Network id 0 is the empty string and authId 0 stands for "none".        *)
(***************************************************************************)
ConnFsm == [alloc : {"none", "live", "freed"}, curState : States,
            isDead : BOOLEAN, addr : Addr \cup {NULL}, authId : 0 .. MaxAuth,
            flag : SUBSET Flags, nodeInfo : NodeInfo \cup {NULL},
            peerNetworkId : 0 .. MaxNet, cleanInfo : CleanInfo \cup {NULL}]

NoFsm == [alloc |-> "none", curState |-> "NULL", isDead |-> FALSE,
          addr |-> NULL, authId |-> 0, flag |-> {}, nodeInfo |-> NULL,
          peerNetworkId |-> 0, cleanInfo |-> NULL]

LedgerNode == [status : {"absent", "online", "offline"},
               networkId : 0 .. MaxNet, ip : WlanAddr \cup {NULL},
               hasPorts : BOOLEAN, discoveryType : SUBSET AddrTypes,
               authChannelId : 0 .. MaxAuth]

AbsentNode == [status |-> "absent", networkId |-> 0, ip |-> NULL,
               hasPorts |-> FALSE, discoveryType |-> {}, authChannelId |-> 0]

(***************************************************************************)
(* Messages.  h is the handler: 0 for the net builder, else the fsm.       *)
(***************************************************************************)
NB == 0
FsmCtrl == {"START", "STOP", "DEINIT"}
FsmData == {"JOIN_LNN", "AUTH_KEY_GENERATED", "SYNC_DEVICE_INFO", "NOT_TRUSTED",
            "DISCONNECT", "LEAVE_LNN", "LEAVE_INVALID_CONN", "INITIATE_ONLINE",
            "SYNC_OFFLINE_DONE"}
FsmTimeouts == {"JOIN_LNN_TIMEOUT", "LEAVE_LNN_TIMEOUT"}

FsmMsg(f, what) == [h |-> f, what |-> what]
CleanMsg(f) == [h |-> NB, what |-> "CLEAN_CONN_FSM", connFsmId |-> f]

Message ==
  [h : FsmId, what : FsmCtrl \cup FsmData]
  \cup [h : FsmId, what : {"AUTH_DONE"}, isSuccess : BOOLEAN]
  \cup [h : FsmId, what : {"SYNC_DEVICE_INFO_DONE"}, networkId : NetworkId]
  \cup [h : {NB}, what : {"JOIN_LNN_REQUEST", "DISCOVERY_DEVICE"}, addr : Addr]
  \cup [h : {NB}, what : {"CLEAN_CONN_FSM"}, connFsmId : FsmId]
  \cup [h : {NB}, what : {"AUTH_KEY_GENERATED", "DISCONNECT"}, authId : AuthId]
  \cup [h : {NB}, what : {"AUTH_DONE"}, authId : AuthId, isSuccess : BOOLEAN]
  \cup [h : {NB}, what : {"SYNC_DEVICE_INFO_DONE"}, authId : AuthId,
        networkId : NetworkId]
  \cup [h : {NB}, what : {"NOT_TRUSTED"}, udid : Udid]
  \cup [h : {NB}, what : {"LEAVE_LNN_REQUEST", "SYNC_OFFLINE_FINISH"},
        networkId : NetworkId]
  \cup [h : {NB}, what : {"LEAVE_INVALID_CONN"}, oldNetworkId : 0 .. MaxNet,
        addrType : AddrTypes \cup {"MAX"}, newNetworkId : NetworkId]
  \cup [h : {NB}, what : {"LEAVE_BY_ADDR_TYPE"}, addrType : AddrTypes]

\* The looper takes the oldest due message; the handler runs to completion.
Dispatch(h, what) ==
  alive /\ queue # <<>> /\ Head(queue).h = h /\ Head(queue).what = what

Rest == Tail(queue)

Init ==
  /\ queue = <<>> /\ timers = {}
  /\ fsm = [f \in FsmId |-> NoFsm]
  /\ fsmList = {} /\ connCount = 0 /\ nextFsm = 0
  /\ ledger = [u \in Udid |-> AbsentNode]
  /\ cnnCode = [u \in Udid |-> 0]
  /\ auth = [a \in AuthId |-> [phase |-> "none", addr |-> NULL]]
  /\ nextAuth = 0
  /\ peerNet = [u \in Udid |-> 0] /\ nextNet = 0
  /\ joinWait = {} /\ leaveWait = {} /\ offlineSync = {}
  /\ alive = TRUE /\ out = {}
=============================================================================
