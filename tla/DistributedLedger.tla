--------------------------- MODULE DistributedLedger ---------------------------
(***************************************************************************)
(* The operations of lnn_distributed_net_ledger.c the net builder uses, as *)
(* operators on the ledger's value.  Each runs under the ledger's lock,    *)
(* and the connection codes are only touched by the looper thread.         *)
(***************************************************************************)
EXTENDS LnnState

IsNodeOnline(u) == ledger[u].status = "online"

\* LnnGetNodeInfoById(networkId, CATEGORY_NETWORK_ID): the nodes found by it.
NodesByNetworkId(n) ==
  {u \in Udid : ledger[u].status # "absent" /\ ledger[u].networkId = n}

\* NewWifiDiscovered and NewBrBleDiscovered keep the types found before, and
\* the latter the ip, but not the ports.
MergesTypes(old, info) ==
  \/ "BR" \in old.discoveryType /\ "WLAN" \in info.discoveryType
  \/ "WLAN" \in old.discoveryType /\ "BR" \in info.discoveryType

LnnAddOnlineNode(info) ==
  LET old == ledger[info.udid]
      merges == old.status = "online" /\ MergesTypes(old, info)
      types == IF merges THEN info.discoveryType \cup old.discoveryType
               ELSE info.discoveryType
      ip == IF merges /\ info.ip = NULL THEN old.ip ELSE info.ip
  IN [ledger EXCEPT ![info.udid] =
        [status |-> "online", networkId |-> info.networkId, ip |-> ip,
         hasPorts |-> info.hasPorts, discoveryType |-> types,
         authChannelId |-> info.authChannelId]]

AddCnnCode(info) ==
  IF "BR" \in info.discoveryType
  THEN [cnnCode EXCEPT ![info.udid] = info.authChannelId]
  ELSE cnnCode

\* The ReportCategory LnnAddOnlineNode returns.
ReportOfOnline(info) ==
  LET old == ledger[info.udid]
  IN IF old.status # "online" THEN "REPORT_ONLINE"
     ELSE IF old.networkId # info.networkId THEN "REPORT_CHANGE"
     ELSE "REPORT_NONE"

\* LnnSetNodeOffline(udid, authId): whether it returns REPORT_OFFLINE.
ReportsOffline(u, authId) ==
  /\ ledger[u].status # "absent"
  /\ "WLAN" \in ledger[u].discoveryType => ledger[u].authChannelId = authId

\* Mutant: the node keeps its online status.
MutantStaysOnline(u, authId) == ledger

LnnSetNodeOffline(u, authId) ==
  IF ReportsOffline(u, authId)
  THEN [ledger EXCEPT ![u].status = "offline"]
  ELSE ledger

\* RemoveCnnCode, which LnnSetNodeOffline calls before it compares channels.
RemoveCnnCode(u) ==
  IF "BR" \in ledger[u].discoveryType
  THEN [cnnCode EXCEPT ![u] = 0]
  ELSE cnnCode

LnnRemoveNode(led, u) == [led EXCEPT ![u] = AbsentNode]
=============================================================================
