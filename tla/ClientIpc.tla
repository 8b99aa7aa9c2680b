------------------------------ MODULE ClientIpc ------------------------------
(* The process boundary: the parcels of the calls, and the registration of
   the applications. Each section has variables of its own; their
   specifications are checked side by side. *)
EXTENDS Naturals, Sequences, FiniteSets

-----------------------------------------------------------------------------
(***************************************************************************)
(* The marshalling of every call between an application and the service:   *)
(* the proxies that write the arguments into a parcel, the stubs that read *)
(* them back and call the service (or, for notifications, the              *)
(* application), and the way of the result back.  There are two            *)
(* independent implementations: the "standard" system (MessageParcel,      *)
(* C++) and the "small" one (IpcIo, C).                                    *)
(*                                                                         *)
(* A parcel is a sequence of items; an item has the type it was written    *)
(* with, the set of arguments it carries (several for a struct) and the    *)
(* value x of the one argument a reader branches on.  The layouts are      *)
(* tables, one for the calls of a part of a source file: XProxy(m, a) is   *)
(* what the standard proxy of method m writes for arguments a; XInner(m,d) *)
(* is what the standard stub reads from parcel d; XPush(m, a) and          *)
(* XPop(m, d) are the same for the small system.                           *)
(***************************************************************************)

VARIABLES
    icall   \* the call in progress, or Idle

ipcVars == <<icall>>

Item(t, ps, x) == [t |-> t, ps |-> ps, x |-> x]
S(p) == Item("string", {p}, 0)
I(p) == Item("int32", {p}, 0)
U(p) == Item("uint32", {p}, 0)
B(p) == Item("bool", {p}, 0)
R(p) == Item("raw", {p}, 0)
\* An item whose value a reader tests.
Val(i, x) == [i EXCEPT !.x = x]
\* A struct pushed as one flat object.
Flat(ps, x) == Item("raw", ps, x)

\* The value of the k-th item, as the reader finds it (0 past the end).
At(d, k) == IF k <= Len(d) THEN d[k].x ELSE 0
Opt(b, s) == IF b THEN s ELSE <<>>

-----------------------------------------------------------------------------
(* The arguments a layout depends on: a.data, the application gives         *)
(* capability data (dataLen # 0); a.addr, the type of address a session is  *)
(* opened with; a.ctype and a.server, the kind of channel and its side;     *)
(* a.ret, the result of joining.                                            *)
SubscribeFields == {"subscribeId", "mode", "medium", "freq", "dataLen"}
PublishFields == {"publishId", "mode", "medium", "freq", "dataLen"}
IpTypes == {"wlan", "eth"}
AddrFields(t) == IF t \in IpTypes THEN {"type", "ip", "port"} ELSE {"type", "mac"}
\* The port, an uint16_t, travels as an int16 and is cast back.
MutantWlanOnly(d) ==
    <<S("sessionName"), I("type")>>
        \o (IF At(d, 2) = "wlan" THEN <<S("ip"), Item("int16", {"port"}, 0)>> ELSE <<S("mac")>>)
OpenAuthSessionInner(d) ==
    <<S("sessionName"), I("type")>>
        \o (IF At(d, 2) \in IpTypes THEN <<S("ip"), Item("int16", {"port"}, 0)>> ELSE <<S("mac")>>)

-----------------------------------------------------------------------------
(* The standard proxies: application to service. *)
DiscServerProxy(m, a) ==
    CASE m = "StartDiscovery" ->
            <<S("pkgName"), I("subscribeId"), I("mode"), I("medium"), I("freq"), B("isSameAccount"),
            B("isWakeRemote"), S("capability"), Val(U("dataLen"), a.data)>> \o Opt(a.data # 0, <<S("capabilityData")>>)
      [] m = "StopDiscovery" -> <<S("pkgName"), I("subscribeId")>>
      [] m = "PublishService" ->
            <<S("pkgName"), I("publishId"), I("mode"), I("medium"), I("freq"), S("capability"), Val(U("dataLen"), a.data)>>
            \o Opt(a.data # 0, <<S("capabilityData")>>)
      [] m = "UnPublishService" -> <<S("pkgName"), I("publishId")>>

SoftbusRegisterServiceProxy(a) == <<Item("object", {"identity"}, 0), S("pkgName")>>

SessionServerProxy(m, a) ==
    CASE m = "CreateSessionServer" -> <<S("pkgName"), S("sessionName")>>
      [] m = "RemoveSessionServer" -> <<S("pkgName"), S("sessionName")>>
      [] m = "OpenSession" ->
            <<S("sessionName"), S("peerSessionName"), S("peerDeviceId"), S("groupId"), R("attr")>>

ChannelServerProxy(m, a) ==
    CASE m = "OpenAuthSession" ->
            <<S("sessionName"), Val(I("type"), a.addr)>>
            \o (IF a.addr \in IpTypes THEN <<S("ip"), Item("int16", {"port"}, 0)>> ELSE <<S("mac")>>)
      [] m = "NotifyAuthSuccess" -> <<I("channelId")>>
      [] m = "CloseChannel" -> <<I("channelId"), I("channelType")>>
      [] m = "SendMessage" -> <<I("channelId"), I("channelType"), U("len"), R("data"), I("msgType")>>

LnnServerProxy(m, a) ==
    CASE m = "JoinLNN" -> <<S("pkgName"), U("addrTypeLen"), R("addr")>>
      [] m = "LeaveLNN" -> <<S("pkgName"), S("networkId")>>
      [] m = "GetAllOnlineNodeInfo" -> <<S("pkgName"), U("infoTypeLen")>>

InfoServerProxy(m, a) ==
    CASE m = "GetLocalDeviceInfo" -> <<S("pkgName"), U("infoTypeLen")>>
      [] m = "GetNodeKeyInfo" -> <<S("pkgName"), S("networkId"), I("key"), I("len")>>
      [] m = "StartTimeSync" -> <<S("pkgName"), S("targetNetworkId"), I("accuracy"), I("period")>>

StopTimeSyncProxy(a) == <<S("pkgName"), S("targetNetworkId")>>

-----------------------------------------------------------------------------
(* The standard proxies: service to application. *)
DiscClientProxy(m, a) ==
    CASE m = "OnDeviceFound" -> <<R("deviceInfo")>>
      [] m = "OnDiscoverFailed" -> <<I("subscribeId"), I("failReason")>>
      [] m = "OnDiscoverySuccess" -> <<I("subscribeId")>>
      [] m = "OnPublishSuccess" -> <<I("publishId")>>
      [] m = "OnPublishFail" -> <<I("publishId"), I("reason")>>

ChannelClientProxy(m, a) ==
    CASE m = "OnChannelOpened" ->
            <<S("sessionName"), I("channelId"), Val(I("channelType"), a.ctype), Item("fd", {"fd"}, 0),
            Val(B("isServer"), a.server), B("isEnabled"), I("peerUid"), I("peerPid"), S("groupId"), U("keyLen"),
            R("sessionKey"), S("peerSessionName"), S("peerDeviceId")>>
            \o Opt(a.ctype = "udp", <<I("businessType"), S("myIp")>>
            \o Opt(a.server = 0, <<I("peerPort"), S("peerIp")>>))
      [] m = "OnChannelOpenFailed" -> <<I("channelId"), I("channelType")>>
      [] m = "OnChannelClosed" -> <<I("channelId"), I("channelType")>>

OnChannelMsgReceivedProxy(a) == <<I("channelId"), I("channelType"), U("len"), R("data"), I("type")>>

LnnClientProxy(m, a) ==
    CASE m = "OnJoinLNNResult" ->
            <<U("addrTypeLen"), R("addr"), Val(I("retCode"), a.ret)>> \o Opt(a.ret = 0, <<S("networkId")>>)
      [] m = "OnLeaveLNNResult" -> <<S("networkId"), I("retCode")>>
      [] m = "OnNodeOnlineStateChanged" -> <<B("isOnline"), U("infoTypeLen"), R("info")>>
      [] m = "OnNodeBasicInfoChanged" -> <<I("type"), U("infoTypeLen"), R("info")>>

OnTimeSyncResultProxy(a) == <<U("infoTypeLen"), R("info"), I("retCode")>>

-----------------------------------------------------------------------------
(* The standard service stub. *)
DiscServerInner(m, d) ==
    CASE m = "StartDiscovery" ->
            <<S("pkgName"), I("subscribeId"), I("mode"), I("medium"), I("freq"), B("isSameAccount"),
            B("isWakeRemote"), S("capability"), U("dataLen")>> \o Opt(At(d, 9) # 0, <<S("capabilityData")>>)
      [] m = "StopDiscovery" -> <<S("pkgName"), I("subscribeId")>>
      [] m = "PublishService" ->
            <<S("pkgName"), I("publishId"), I("mode"), I("medium"), I("freq"), S("capability"), U("dataLen")>>
            \o Opt(At(d, 7) # 0, <<S("capabilityData")>>)
      [] m = "UnPublishService" -> <<S("pkgName"), I("publishId")>>
      [] m = "SoftbusRegisterService" -> <<Item("object", {"identity"}, 0), S("pkgName")>>

SessionServerInner(m, d) ==
    CASE m = "CreateSessionServer" -> <<S("pkgName"), S("sessionName")>>
      [] m = "RemoveSessionServer" -> <<S("pkgName"), S("sessionName")>>
      [] m = "OpenSession" ->
            <<S("sessionName"), S("peerSessionName"), S("peerDeviceId"), S("groupId"), R("attr")>>
      [] m = "OpenAuthSession" -> OpenAuthSessionInner(d)
      [] m = "NotifyAuthSuccess" -> <<I("channelId")>>
      [] m = "CloseChannel" -> <<I("channelId"), I("channelType")>>

LnnServerInner(m, d) ==
    CASE m = "SendMessage" -> <<I("channelId"), I("channelType"), U("len"), R("data"), I("msgType")>>
      [] m = "JoinLNN" -> <<S("pkgName"), U("addrTypeLen"), R("addr")>>
      [] m = "LeaveLNN" -> <<S("pkgName"), S("networkId")>>
      [] m = "GetAllOnlineNodeInfo" -> <<S("pkgName"), U("infoTypeLen")>>
      [] m = "GetLocalDeviceInfo" -> <<S("pkgName"), U("infoTypeLen")>>

SyncServerInner(m, d) ==
    CASE m = "GetNodeKeyInfo" -> <<S("pkgName"), S("networkId"), I("key"), I("len")>>
      [] m = "StartTimeSync" -> <<S("pkgName"), S("targetNetworkId"), I("accuracy"), I("period")>>
      [] m = "StopTimeSync" -> <<S("pkgName"), S("targetNetworkId")>>

-----------------------------------------------------------------------------
(* The standard application stub. *)
DiscClientInner(m, d) ==
    CASE m = "OnDeviceFound" -> <<R("deviceInfo")>>
      [] m = "OnDiscoverFailed" -> <<I("subscribeId"), I("failReason")>>
      [] m = "OnDiscoverySuccess" -> <<I("subscribeId")>>
      [] m = "OnPublishSuccess" -> <<I("publishId")>>
      [] m = "OnPublishFail" -> <<I("publishId"), I("reason")>>

ChannelClientInner(m, d) ==
    CASE m = "OnChannelOpened" ->
            <<S("sessionName"), I("channelId"), I("channelType"), Item("fd", {"fd"}, 0),
            B("isServer"), B("isEnabled"), I("peerUid"), I("peerPid"), S("groupId"), U("keyLen"),
            R("sessionKey"), S("peerSessionName"), S("peerDeviceId")>>
            \o Opt(At(d, 3) = "udp", <<I("businessType"), S("myIp")>>
            \o Opt(At(d, 5) = 0, <<I("peerPort"), S("peerIp")>>))
      [] m = "OnChannelOpenFailed" -> <<I("channelId"), I("channelType")>>
      [] m = "OnChannelClosed" -> <<I("channelId"), I("channelType")>>

LnnClientInner(m, d) ==
    CASE m = "OnChannelMsgReceived" -> <<I("channelId"), I("channelType"), U("len"), R("data"), I("type")>>
      [] m = "OnJoinLNNResult" ->
            <<U("addrTypeLen"), R("addr"), I("retCode")>> \o Opt(At(d, 3) = 0, <<S("networkId")>>)
      [] m = "OnLeaveLNNResult" -> <<S("networkId"), I("retCode")>>
      [] m = "OnNodeOnlineStateChanged" -> <<B("isOnline"), U("infoTypeLen"), R("info")>>
      [] m = "OnNodeBasicInfoChanged" -> <<I("type"), U("infoTypeLen"), R("info")>>

OnTimeSyncResultInner(d) == <<U("infoTypeLen"), R("info"), I("retCode")>>

-----------------------------------------------------------------------------
(* The small proxies: application to service. *)
DiscServerPush(m, a) ==
    CASE m = "StartDiscovery" ->
            <<S("pkgName"), Flat(SubscribeFields \cup {"isSameAccount", "isWakeRemote"}, a.data), S("capability")>>
            \o Opt(a.data # 0, <<S("capabilityData")>>)
      [] m = "StopDiscovery" -> <<S("pkgName"), I("subscribeId")>>
      [] m = "PublishService" ->
            <<S("pkgName"), Flat(PublishFields, a.data), S("capability")>> \o Opt(a.data # 0, <<S("capabilityData")>>)
      [] m = "UnPublishService" -> <<S("pkgName"), I("publishId")>>

SoftbusRegisterServicePush(a) == <<S("pkgName"), Item("object", {"identity"}, 0)>>

SessionServerPush(m, a) ==
    CASE m = "CreateSessionServer" -> <<S("pkgName"), S("sessionName")>>
      [] m = "RemoveSessionServer" -> <<S("pkgName"), S("sessionName")>>
      [] m = "OpenSession" ->
            <<S("sessionName"), S("peerSessionName"), S("peerDeviceId"), S("groupId"), R("attr")>>
      [] m = "OpenAuthSession" -> <<S("sessionName"), Flat(AddrFields(a.addr), a.addr)>>
      [] m = "NotifyAuthSuccess" -> <<I("channelId")>>

ChannelServerPush(m, a) ==
    CASE m = "CloseChannel" -> <<I("channelId"), I("channelType")>>
      [] m = "SendMessage" -> <<I("channelId"), I("channelType"), I("msgType"), Flat({"data", "len"}, 0)>>

InfoServerPush(m, a) ==
    CASE m = "GetAllOnlineNodeInfo" -> <<S("pkgName"), U("infoTypeLen")>>
      [] m = "GetLocalDeviceInfo" -> <<S("pkgName"), U("infoTypeLen")>>
      [] m = "GetNodeKeyInfo" -> <<S("pkgName"), S("networkId"), I("key"), I("len")>>
      [] m = "JoinLNN" -> <<S("pkgName"), U("addrTypeLen"), R("addr")>>

SyncServerPush(m, a) ==
    CASE m = "LeaveLNN" -> <<S("pkgName"), S("networkId")>>
      [] m = "StartTimeSync" -> <<S("pkgName"), S("targetNetworkId"), I("accuracy"), I("period")>>
      [] m = "StopTimeSync" -> <<S("pkgName"), S("targetNetworkId")>>

-----------------------------------------------------------------------------
(* The small proxies: service to application. *)
DiscClientPush(m, a) ==
    CASE m = "OnDeviceFound" -> <<R("deviceInfo")>>
      [] m = "OnDiscoverFailed" -> <<I("subscribeId"), I("failReason")>>
      [] m = "OnDiscoverySuccess" -> <<I("subscribeId")>>
      [] m = "OnPublishSuccess" -> <<I("publishId")>>
      [] m = "OnPublishFail" -> <<I("publishId"), I("reason")>>

ChannelClientPush(m, a) ==
    CASE m = "OnChannelOpened" ->
            <<S("sessionName"), I("channelId"), Val(I("channelType"), a.ctype), Val(B("isServer"), a.server),
            B("isEnabled"), I("peerUid"), I("peerPid"), S("groupId"), U("keyLen"), R("sessionKey"),
            S("peerSessionName"), S("peerDeviceId")>>
            \o Opt(a.ctype = "tcp", <<Item("fd", {"fd"}, 0)>>)
            \o Opt(a.ctype = "udp", <<I("businessType"), S("myIp")>>
            \o Opt(a.server = 0, <<I("peerPort"), S("peerIp")>>))
      [] m = "OnChannelOpenFailed" -> <<I("channelId"), I("channelType")>>
      [] m = "OnChannelClosed" -> <<I("channelId"), I("channelType")>>
      [] m = "OnChannelMsgReceived" ->
            <<I("channelId"), I("channelType"), I("type"), Flat({"data", "len"}, 0)>>

LnnClientPush(m, a) ==
    CASE m = "OnJoinLNNResult" ->
            <<Flat({"addr", "addrTypeLen"}, 0), Val(I("retCode"), a.ret)>> \o Opt(a.ret = 0, <<S("networkId")>>)
      [] m = "OnLeaveLNNResult" -> <<S("networkId"), I("retCode")>>
      [] m = "OnNodeOnlineStateChanged" -> <<B("isOnline"), Flat({"info", "infoTypeLen"}, 0)>>
      [] m = "OnNodeBasicInfoChanged" -> <<I("type"), Flat({"info", "infoTypeLen"}, 0)>>

OnTimeSyncResultPush(a) == <<Flat({"info", "infoTypeLen"}, 0), I("retCode")>>

-----------------------------------------------------------------------------
(* The small service stubs. *)
DiscServerPop(m, d) ==
    CASE m = "StartDiscovery" ->
            <<S("pkgName"), Flat(SubscribeFields \cup {"isSameAccount", "isWakeRemote"}, 0), S("capability")>>
            \o Opt(At(d, 2) # 0, <<S("capabilityData")>>)
      [] m = "StopDiscovery" -> <<S("pkgName"), I("subscribeId")>>
      [] m = "PublishService" ->
            <<S("pkgName"), Flat(PublishFields, 0), S("capability")>> \o Opt(At(d, 2) # 0, <<S("capabilityData")>>)
      [] m = "UnPublishService" -> <<S("pkgName"), I("publishId")>>

SoftbusRegisterServicePop(d) == <<S("pkgName"), Item("object", {"identity"}, 0)>>

SessionServerPop(m, d) ==
    CASE m = "CreateSessionServer" -> <<S("pkgName"), S("sessionName")>>
      [] m = "RemoveSessionServer" -> <<S("pkgName"), S("sessionName")>>
      [] m = "OpenSession" ->
            <<S("sessionName"), S("peerSessionName"), S("peerDeviceId"), S("groupId"), R("attr")>>
      [] m = "OpenAuthSession" -> <<S("sessionName"), Flat(AddrFields(At(d, 2)), 0)>>
      [] m = "NotifyAuthSuccess" -> <<I("channelId")>>

ChannelServerPop(m, d) ==
    CASE m = "CloseChannel" -> <<I("channelId"), I("channelType")>>
      [] m = "SendMessage" -> <<I("channelId"), I("channelType"), I("msgType"), Flat({"data", "len"}, 0)>>

LnnServerPop(m, d) ==
    CASE m = "JoinLNN" -> <<S("pkgName"), U("addrTypeLen"), R("addr")>>
      [] m = "LeaveLNN" -> <<S("pkgName"), S("networkId")>>
      [] m = "GetAllOnlineNodeInfo" -> <<S("pkgName"), U("infoTypeLen")>>
      [] m = "GetLocalDeviceInfo" -> <<S("pkgName"), U("infoTypeLen")>>

SyncServerPop(m, d) ==
    CASE m = "GetNodeKeyInfo" -> <<S("pkgName"), S("networkId"), I("key"), I("len")>>
      [] m = "StartTimeSync" -> <<S("pkgName"), S("targetNetworkId"), I("accuracy"), I("period")>>
      [] m = "StopTimeSync" -> <<S("pkgName"), S("targetNetworkId")>>

-----------------------------------------------------------------------------
(* The small application stubs. *)
DiscClientPop(m, d) ==
    CASE m = "OnDeviceFound" -> <<R("deviceInfo")>>
      [] m = "OnDiscoverFailed" -> <<I("subscribeId"), I("failReason")>>
      [] m = "OnDiscoverySuccess" -> <<I("subscribeId")>>
      [] m = "OnPublishSuccess" -> <<I("publishId")>>
      [] m = "OnPublishFail" -> <<I("publishId"), I("reason")>>

ChannelClientPop(m, d) ==
    CASE m = "OnChannelOpened" ->
            <<S("sessionName"), I("channelId"), I("channelType"), B("isServer"),
            B("isEnabled"), I("peerUid"), I("peerPid"), S("groupId"), U("keyLen"), R("sessionKey"),
            S("peerSessionName"), S("peerDeviceId")>>
            \o Opt(At(d, 3) = "tcp", <<Item("fd", {"fd"}, 0)>>)
            \o Opt(At(d, 3) = "udp", <<I("businessType"), S("myIp")>>
            \o Opt(At(d, 4) = 0, <<I("peerPort"), S("peerIp")>>))
      [] m = "OnChannelOpenFailed" -> <<I("channelId"), I("channelType")>>
      [] m = "OnChannelClosed" -> <<I("channelId"), I("channelType")>>
      [] m = "OnChannelMsgReceived" ->
            <<I("channelId"), I("channelType"), I("type"), Flat({"data", "len"}, 0)>>

LnnClientPop(m, d) ==
    CASE m = "OnJoinLNNResult" ->
            <<Flat({"addr", "addrTypeLen"}, 0), I("retCode")>> \o Opt(At(d, 2) = 0, <<S("networkId")>>)
      [] m = "OnLeaveLNNResult" -> <<S("networkId"), I("retCode")>>
      [] m = "OnNodeOnlineStateChanged" -> <<B("isOnline"), Flat({"info", "infoTypeLen"}, 0)>>
      [] m = "OnNodeBasicInfoChanged" -> <<I("type"), Flat({"info", "infoTypeLen"}, 0)>>
      [] m = "OnTimeSyncResult" -> <<Flat({"info", "infoTypeLen"}, 0), I("retCode")>>

-----------------------------------------------------------------------------
(* The tables: the proxy that writes a call, and the stub that reads it. *)
StandardWrites(m, a) ==
    CASE m \in {"StartDiscovery", "StopDiscovery", "PublishService", "UnPublishService"}
            -> DiscServerProxy(m, a)
      [] m = "SoftbusRegisterService" -> SoftbusRegisterServiceProxy(a)
      [] m \in {"CreateSessionServer", "RemoveSessionServer", "OpenSession"} -> SessionServerProxy(m, a)
      [] m \in {"OpenAuthSession", "NotifyAuthSuccess", "CloseChannel", "SendMessage"}
            -> ChannelServerProxy(m, a)
      [] m \in {"JoinLNN", "LeaveLNN", "GetAllOnlineNodeInfo"} -> LnnServerProxy(m, a)
      [] m \in {"GetLocalDeviceInfo", "GetNodeKeyInfo", "StartTimeSync"} -> InfoServerProxy(m, a)
      [] m = "StopTimeSync" -> StopTimeSyncProxy(a)
      [] m \in {"OnDeviceFound", "OnDiscoverFailed", "OnDiscoverySuccess", "OnPublishSuccess", "OnPublishFail"}
            -> DiscClientProxy(m, a)
      [] m \in {"OnChannelOpened", "OnChannelOpenFailed", "OnChannelClosed"} -> ChannelClientProxy(m, a)
      [] m = "OnChannelMsgReceived" -> OnChannelMsgReceivedProxy(a)
      [] m \in {"OnJoinLNNResult", "OnLeaveLNNResult", "OnNodeOnlineStateChanged", "OnNodeBasicInfoChanged"}
            -> LnnClientProxy(m, a)
      [] m = "OnTimeSyncResult" -> OnTimeSyncResultProxy(a)

SmallWrites(m, a) ==
    CASE m \in {"StartDiscovery", "StopDiscovery", "PublishService", "UnPublishService"}
            -> DiscServerPush(m, a)
      [] m = "SoftbusRegisterService" -> SoftbusRegisterServicePush(a)
      [] m \in {"CreateSessionServer", "RemoveSessionServer", "OpenSession", "OpenAuthSession", "NotifyAuthSuccess"}
            -> SessionServerPush(m, a)
      [] m \in {"CloseChannel", "SendMessage"} -> ChannelServerPush(m, a)
      [] m \in {"GetAllOnlineNodeInfo", "GetLocalDeviceInfo", "GetNodeKeyInfo", "JoinLNN"}
            -> InfoServerPush(m, a)
      [] m \in {"LeaveLNN", "StartTimeSync", "StopTimeSync"} -> SyncServerPush(m, a)
      [] m \in {"OnDeviceFound", "OnDiscoverFailed", "OnDiscoverySuccess", "OnPublishSuccess", "OnPublishFail"}
            -> DiscClientPush(m, a)
      [] m \in {"OnChannelOpened", "OnChannelOpenFailed", "OnChannelClosed", "OnChannelMsgReceived"}
            -> ChannelClientPush(m, a)
      [] m \in {"OnJoinLNNResult", "OnLeaveLNNResult", "OnNodeOnlineStateChanged", "OnNodeBasicInfoChanged"}
            -> LnnClientPush(m, a)
      [] m = "OnTimeSyncResult" -> OnTimeSyncResultPush(a)

ServerFuncMap(m, d) ==
    CASE m \in {"StartDiscovery", "StopDiscovery", "PublishService", "UnPublishService", "SoftbusRegisterService"}
            -> DiscServerInner(m, d)
      [] m \in {"CreateSessionServer", "RemoveSessionServer", "OpenSession", "OpenAuthSession", "NotifyAuthSuccess", "CloseChannel"}
            -> SessionServerInner(m, d)
      [] m \in {"SendMessage", "JoinLNN", "LeaveLNN", "GetAllOnlineNodeInfo", "GetLocalDeviceInfo"}
            -> LnnServerInner(m, d)
      [] m \in {"GetNodeKeyInfo", "StartTimeSync", "StopTimeSync"} -> SyncServerInner(m, d)

ClientFuncMap(m, d) ==
    CASE m \in {"OnDeviceFound", "OnDiscoverFailed", "OnDiscoverySuccess", "OnPublishSuccess", "OnPublishFail"}
            -> DiscClientInner(m, d)
      [] m \in {"OnChannelOpened", "OnChannelOpenFailed", "OnChannelClosed"} -> ChannelClientInner(m, d)
      [] m \in {"OnChannelMsgReceived", "OnJoinLNNResult", "OnLeaveLNNResult", "OnNodeOnlineStateChanged", "OnNodeBasicInfoChanged"}
            -> LnnClientInner(m, d)
      [] m = "OnTimeSyncResult" -> OnTimeSyncResultInner(d)

ServerInvokeCmdTbl(m, d) ==
    CASE m \in {"StartDiscovery", "StopDiscovery", "PublishService", "UnPublishService"}
            -> DiscServerPop(m, d)
      [] m = "SoftbusRegisterService" -> SoftbusRegisterServicePop(d)
      [] m \in {"CreateSessionServer", "RemoveSessionServer", "OpenSession", "OpenAuthSession", "NotifyAuthSuccess"}
            -> SessionServerPop(m, d)
      [] m \in {"CloseChannel", "SendMessage"} -> ChannelServerPop(m, d)
      [] m \in {"JoinLNN", "LeaveLNN", "GetAllOnlineNodeInfo", "GetLocalDeviceInfo"}
            -> LnnServerPop(m, d)
      [] m \in {"GetNodeKeyInfo", "StartTimeSync", "StopTimeSync"} -> SyncServerPop(m, d)

ClientCmdTbl(m, d) ==
    CASE m \in {"OnDeviceFound", "OnDiscoverFailed", "OnDiscoverySuccess", "OnPublishSuccess", "OnPublishFail"}
            -> DiscClientPop(m, d)
      [] m \in {"OnChannelOpened", "OnChannelOpenFailed", "OnChannelClosed", "OnChannelMsgReceived"}
            -> ChannelClientPop(m, d)
      [] m \in {"OnJoinLNNResult", "OnLeaveLNNResult", "OnNodeOnlineStateChanged", "OnNodeBasicInfoChanged", "OnTimeSyncResult"}
            -> LnnClientPop(m, d)

-----------------------------------------------------------------------------
(* The call machine.  `m` is the method whose code the proxy sends, `a`    *)
(* the application's arguments; the stub matches its reads with the items  *)
(* of the parcel one by one.                                               *)
Idle == [stage |-> "idle"]

Sys == {"standard", "small"}
Queries == {"GetAllOnlineNodeInfo", "GetLocalDeviceInfo", "GetNodeKeyInfo"}
Requests ==
    {"StartDiscovery", "StopDiscovery", "PublishService", "UnPublishService", "SoftbusRegisterService",
     "CreateSessionServer", "RemoveSessionServer", "OpenSession", "OpenAuthSession", "NotifyAuthSuccess",
     "CloseChannel", "SendMessage", "JoinLNN", "LeaveLNN", "GetAllOnlineNodeInfo", "GetLocalDeviceInfo",
     "GetNodeKeyInfo", "StartTimeSync", "StopTimeSync"}
Notifications ==
    {"OnDeviceFound", "OnDiscoverFailed", "OnDiscoverySuccess", "OnPublishSuccess", "OnPublishFail",
     "OnChannelOpened", "OnChannelOpenFailed", "OnChannelClosed", "OnChannelMsgReceived", "OnJoinLNNResult",
     "OnLeaveLNNResult", "OnNodeOnlineStateChanged", "OnNodeBasicInfoChanged", "OnTimeSyncResult"}

\* Calls of the small system that do not wait for a reply: discovery, join, leave and time
\* synchronisation, and the notifications but for a UDP channel opened by the peer, whose
\* answer is the application's port.
OneWay(sys, m, a) ==
    /\ sys = "small"
    /\ \/ m \in {"StartDiscovery", "StopDiscovery", "PublishService", "UnPublishService",
                "JoinLNN", "LeaveLNN", "StartTimeSync", "StopTimeSync"}
       \/ m \in Notifications /\ ~(m = "OnChannelOpened" /\ a.ctype = "udp" /\ a.server = 1)

Plain == [data |-> 0, addr |-> "wlan", ret |-> 0, ctype |-> "proxy", server |-> 0]

Send(sys, m, a, data) ==
    /\ icall = Idle
    /\ icall' = [stage |-> "sent", sys |-> sys, m |-> m, a |-> a, data |-> data,
                 read |-> <<>>, done |-> "none", reply |-> <<>>, ret |-> "none"]

\* Each method is called with the plain arguments, and with every variant its layout depends on.
Call(ms, as) ==
    \E m \in ms, a \in as :
        Send("standard", m, a, StandardWrites(m, a)) \/ Send("small", m, a, SmallWrites(m, a))

WithData == {[Plain EXCEPT !.data = n] : n \in 0..1}
WithAddr == {[Plain EXCEPT !.addr = t] : t \in {"wlan", "eth", "br", "ble"}}
WithChannel == {[Plain EXCEPT !.ctype = t, !.server = b] : t \in {"tcp", "proxy", "udp"}, b \in 0..1}
WithRet == {[Plain EXCEPT !.ret = n] : n \in 0..1}

AppCalls ==
    \/ Call({"StartDiscovery", "PublishService"}, WithData)
    \/ Call({"OpenAuthSession"}, WithAddr)
    \/ Call(Requests, {Plain})

ServiceNotifies ==
    \/ Call({"OnChannelOpened"}, WithChannel)
    \/ Call({"OnJoinLNNResult"}, WithRet)
    \/ Call(Notifications, {Plain})

\* What the stub reads; an item of another type than the one asked for is not returned.
ReadItems(c) ==
    LET want == CASE c.sys = "standard" /\ c.m \notin Notifications -> ServerFuncMap(c.m, c.data)
                  [] c.sys = "small" /\ c.m \notin Notifications -> ServerInvokeCmdTbl(c.m, c.data)
                  [] c.sys = "standard" /\ c.m \in Notifications -> ClientFuncMap(c.m, c.data)
                  [] OTHER -> ClientCmdTbl(c.m, c.data)
    IN [k \in 1..Len(want) |->
           IF k <= Len(c.data) /\ c.data[k].t = want[k].t
             THEN [as |-> want[k].ps, from |-> c.data[k].ps] ELSE [as |-> want[k].ps, from |-> {}]]

\* The reply of a stub whose service function returned r: OpenSession answers with a struct that
\* holds the result, a query with what was asked for, and with nothing when it failed.
OpenSessionReply(r) == <<[Flat({"channelId", "channelType", "ret"}, 0) EXCEPT !.x = r]>>
QueryReply(m, r) ==
    Opt(r = "ok", IF m = "GetAllOnlineNodeInfo" THEN <<I("infoNum"), R("info")>> ELSE <<R("info")>>)
ReplyOf(m, r) ==
    IF m = "OpenSession" THEN OpenSessionReply(r)
    ELSE IF m \in Queries THEN QueryReply(m, r)
    ELSE <<Val(I("ret"), r)>>

\* The stub reads, the service (or the application) does it with result r, the stub replies.
Handle(r) ==
    /\ icall.stage = "sent"
    /\ icall' = [icall EXCEPT !.stage = "handled", !.read = ReadItems(icall), !.done = r,
                             !.reply = IF OneWay(icall.sys, icall.m, icall.a) THEN <<>> ELSE ReplyOf(icall.m, r)]

\* SendRequest fails on the standard system when the stub returned an error, that is without a
\* reply; the small proxies look at what they popped: a missing struct is an error, a missing
\* number of nodes is 0 nodes.
GetAllOnlineRet(reply) == "ok"
MutantNoNullCheck(reply) == "ok"
StructRet(reply) == IF reply = <<>> THEN "err" ELSE "ok"
QueryRet(c) ==
    IF c.sys = "small" /\ c.m = "GetAllOnlineNodeInfo" THEN GetAllOnlineRet(c.reply) ELSE StructRet(c.reply)
RetOf(c) ==
    IF OneWay(c.sys, c.m, c.a) THEN "ok" ELSE IF c.m \in Queries THEN QueryRet(c) ELSE c.reply[1].x

Return ==
    /\ icall.stage = "handled"
    /\ icall' = [icall EXCEPT !.stage = "returned", !.ret = RetOf(icall)]

Forget ==
    /\ icall.stage = "returned"
    /\ icall' = Idle

IpcInit == icall = Idle

IpcNext == AppCalls \/ ServiceNotifies \/ (\E r \in {"ok", "err"} : Handle(r)) \/ Return \/ Forget

IpcSpec == IpcInit /\ [][IpcNext]_ipcVars

-----------------------------------------------------------------------------
\* Each item read is the item written at that place, with the same type and the same arguments,
\* and nothing written is left unread: the service is called with the arguments the application
\* gave, whatever optional part the call has and on both systems.
ArgsArrive ==
    icall.stage \in {"handled", "returned"} =>
        /\ Len(icall.read) = Len(icall.data)
        /\ \A k \in 1..Len(icall.read) : icall.read[k].as = icall.read[k].from

\* A call that waits for its reply returns success exactly when the callee succeeded.  The small
\* system's GetAllOnlineNodeInfo is the exception: it pops 0 nodes from the empty reply of a stub
\* that failed (bus_center_server_proxy.c:52) and returns success.
ResultReturned ==
    icall.stage = "returned" /\ ~OneWay(icall.sys, icall.m, icall.a) =>
        \/ icall.ret = icall.done
        \/ icall.sys = "small" /\ icall.m = "GetAllOnlineNodeInfo" /\ icall.done = "err"

-----------------------------------------------------------------------------
(***************************************************************************)
(* How an application and the service find each other, and find each other  *)
(* again when one of them dies and is started anew.                         *)
(*                                                                          *)
(* One package name is followed.  Its process may die and be started again, *)
(* and so may the service: both have incarnation numbers.  The service      *)
(* keeps a table from package names to the callback object of the process   *)
(* (a map on the standard system, a list that takes duplicates on the small *)
(* one), and hears of a death some time after it happened.  The application *)
(* keeps a proxy of the service and a death recipient on it.                *)
(*                                                                          *)
(* The code loses an application in three situations, which are kept as     *)
(* causes: a process that registers before the death of its predecessor was *)
(* handled ("early"); a service that dies between being found and being     *)
(* watched ("unwatched", standard) or between registering and being watched *)
(* ("unwatched", small).                                                    *)
(***************************************************************************)

CONSTANTS RegSystems, MaxApp, MaxService  \* the systems, and the bounds on incarnations

VARIABLES rsys, svcUp, svcInc,  \* the service
          table,   \* the incarnations registered under the package name, the newest first
          recips,  \* the incarnations the service has a death recipient for
          dying,   \* deaths the service has not handled yet
          appInc, app,      \* the process: incarnation, and where it stands
          proxyTo, watches, \* the incarnations of the service its proxy and its recipient are for
          told,    \* the application's recipient has fired and is not handled yet
          causes   \* why an application may be lost

rgVars == <<rsys, svcUp, svcInc, table, recips, dying, appInc, app, proxyTo, watches, told, causes>>
appVars == <<appInc, app, proxyTo, watches, told>>
svcVars == <<svcUp, svcInc, table, recips, dying>>

\* Where the process stands: [pc, init]; init: in InitSoftBus, else in the task that handles the
\* death of the service.
RegistryInit ==
    /\ rsys \in RegSystems
    /\ svcUp = TRUE /\ svcInc = 1
    /\ table = <<>> /\ recips = {} /\ dying = {}
    /\ appInc = 1 /\ app = [pc |-> "find", init |-> TRUE]
    /\ proxyTo = 0 /\ watches = 0 /\ told = FALSE
    /\ causes = {}

Reaches(inc) == svcUp /\ svcInc = inc
Go(pc) == app' = [app EXCEPT !.pc = pc]

----------------------------------------------------------------------------
\* The service.

\* A registration under a name that exists is answered OK and changes nothing.
SoftbusRegisterService ==
    IF table # <<>> THEN UNCHANGED <<table, recips>>
    ELSE table' = <<appInc>> /\ recips' = recips \cup {appInc}
\* The list takes the new one at its head, whatever is there.
SERVER_RegisterService == table' = <<appInc>> \o table /\ recips' = recips \cup {appInc}

ServerRegister == IF rsys = "standard" THEN SoftbusRegisterService ELSE SERVER_RegisterService

\* A death is handled: the map forgets the object that died, the list its first entry of that
\* name.  What the modules keep under the package name is dropped as well (not followed here).
MutantKeepsEntry(i) == UNCHANGED table
SoftbusRemoveService(i) == table' = SelectSeq(table, LAMBDA x : x # i)
SERVER_UnregisterService == table' = IF table = <<>> THEN table ELSE Tail(table)

ClientDeath(i) ==
    /\ svcUp /\ i \in dying
    /\ dying' = dying \ {i}
    /\ recips' = recips \ {i}
    /\ UNCHANGED <<rsys, svcUp, svcInc, appInc, app, proxyTo, watches, told, causes>>

OnRemoteDied(i) ==
    /\ rsys = "standard" /\ ClientDeath(i)
    /\ SoftbusRemoveService(i)
ClientDeathCb(i) ==
    /\ rsys = "small" /\ ClientDeath(i)
    /\ SERVER_UnregisterService

----------------------------------------------------------------------------
\* The application.  "standard": find the service, watch it, register; "small": register (the proxy
\* was obtained before), then watch.

GetSystemAbility ==
    /\ app.pc = "find" /\ svcUp
    /\ proxyTo' = svcInc
    /\ Go(IF rsys = "standard" THEN "watch" ELSE "register")
    /\ UNCHANGED <<rsys, svcVars, appInc, watches, told, causes>>

\* ServerProxyInit: a recipient cannot be added to an object that is dead; the proxy is kept all the
\* same.  During initialization that is an error the application sees, later the loop goes on with it.
AddDeathRecipient ==
    /\ rsys = "standard" /\ app.pc = "watch"
    /\ IF Reaches(proxyTo)
       THEN watches' = proxyTo /\ Go("register") /\ UNCHANGED causes
       ELSE /\ watches' = 0 /\ causes' = causes \cup {"unwatched"}
            /\ Go(IF app.init THEN "failed" ELSE "register")
    /\ UNCHANGED <<rsys, svcVars, appInc, proxyTo, told>>

\* Registering while the death of an older incarnation is not handled yet.
Early == dying # {}

\* InnerRegisterService.  The small system tries again until it works.
InnerRegisterService ==
    /\ app.pc = "register"
    /\ IF Reaches(proxyTo)
       THEN /\ ServerRegister
            /\ causes' = IF Early THEN causes \cup {"early"} ELSE causes
       ELSE UNCHANGED <<table, recips, causes>>
    /\ IF rsys = "standard"
       THEN /\ Go(IF app.init /\ ~Reaches(proxyTo) THEN "failed" ELSE "ready")
            /\ UNCHANGED proxyTo
       ELSE /\ Reaches(proxyTo) \/ svcUp
            /\ Go(IF Reaches(proxyTo) THEN "watch" ELSE "register")
            /\ proxyTo' = svcInc
    /\ UNCHANGED <<rsys, svcUp, svcInc, dying, appInc, watches, told>>

\* RegisterServerDeathCb: watches the service that is there now.
RegisterServerDeathCb ==
    /\ rsys = "small" /\ app.pc = "watch"
    /\ watches' = IF svcUp THEN svcInc ELSE 0
    /\ causes' = IF Reaches(proxyTo) THEN causes ELSE causes \cup {"unwatched"}
    /\ Go(IF app.init /\ ~svcUp THEN "failed" ELSE "ready")
    /\ UNCHANGED <<rsys, svcVars, appInc, proxyTo, told>>

\* The death of the service is handled: forget the proxy, and begin again.
MutantKeepsProxy == "register"
AfterServerDeath == "find"
ClientDeathProcTask ==
    /\ rsys = "standard" /\ told /\ app.pc = "ready"
    /\ told' = FALSE /\ watches' = 0 /\ proxyTo' = IF AfterServerDeath = "find" THEN 0 ELSE proxyTo
    /\ app' = [pc |-> AfterServerDeath, init |-> FALSE]
    /\ UNCHANGED <<rsys, svcVars, appInc, causes>>
DeathProcTask ==
    /\ rsys = "small" /\ told /\ app.pc = "ready"
    /\ told' = FALSE /\ watches' = 0
    /\ app' = [pc |-> "register", init |-> FALSE]
    /\ UNCHANGED <<rsys, svcVars, appInc, proxyTo, causes>>

----------------------------------------------------------------------------
\* Deaths and restarts.

AppDies ==
    /\ app.pc # "dead" /\ appInc < MaxApp
    /\ app' = [pc |-> "dead", init |-> TRUE]
    /\ dying' = IF appInc \in recips THEN dying \cup {appInc} ELSE dying
    /\ proxyTo' = 0 /\ watches' = 0 /\ told' = FALSE
    /\ UNCHANGED <<rsys, svcUp, svcInc, table, recips, appInc, causes>>
AppStarts ==
    /\ app.pc = "dead"
    /\ appInc' = appInc + 1
    /\ app' = [pc |-> "find", init |-> TRUE]
    /\ causes' = {}
    /\ UNCHANGED <<rsys, svcVars, proxyTo, watches, told>>

ServiceDies ==
    /\ svcUp /\ svcInc < MaxService
    /\ svcUp' = FALSE
    /\ table' = <<>> /\ recips' = {} /\ dying' = {}
    /\ told' = (told \/ watches = svcInc)
    /\ causes' = causes \ {"early"}
    /\ UNCHANGED <<rsys, svcInc, appInc, app, proxyTo, watches>>
ServiceStarts ==
    /\ ~svcUp
    /\ svcUp' = TRUE /\ svcInc' = svcInc + 1
    /\ UNCHANGED <<rsys, table, recips, dying, appVars, causes>>

----------------------------------------------------------------------------
Recovery == GetSystemAbility \/ AddDeathRecipient \/ InnerRegisterService \/ RegisterServerDeathCb
            \/ ClientDeathProcTask \/ DeathProcTask \/ AppStarts \/ ServiceStarts
RegistryNext ==
        \/ \E i \in 1..MaxApp : OnRemoteDied(i) \/ ClientDeathCb(i)
        \/ GetSystemAbility \/ AddDeathRecipient \/ InnerRegisterService \/ RegisterServerDeathCb
        \/ ClientDeathProcTask \/ DeathProcTask
        \/ AppDies \/ AppStarts \/ ServiceDies \/ ServiceStarts

RegistrySpec == RegistryInit /\ [][RegistryNext]_rgVars
\* The tasks run; what died is started again by the system.
RegistryFairness == WF_rgVars(Recovery)
RegistryLiveSpec == RegistrySpec /\ RegistryFairness

----------------------------------------------------------------------------
RegistryTypeOK ==
    /\ rsys \in {"standard", "small"}
    /\ svcInc \in 1..MaxService /\ appInc \in 1..MaxApp
    /\ \A i \in DOMAIN table : table[i] \in 1..MaxApp
    /\ dying \subseteq recips /\ recips \subseteq 1..MaxApp
    /\ app.pc \in {"find", "watch", "register", "ready", "failed", "dead"}
    /\ proxyTo \in 0..MaxService /\ watches \in 0..MaxService

\* What the service would call under the package name is the process that runs: once that process is
\* ready, and its registration reached the service that runs, it is the one found first.  It fails only
\* for a process that registered before the death of its predecessor was handled.
FoundIsRunning ==
    (app.pc = "ready" /\ Reaches(proxyTo) /\ ~told /\ "early" \notin causes) =>
        /\ table # <<>> /\ table[1] = appInc
        /\ dying = {}

Served == \/ app.pc \in {"failed", "dead"} \/ causes # {}
          \/ svcUp /\ table # <<>> /\ table[1] = appInc

\* When the service was started again, an application that runs comes to be registered with it, unless
\* the service died once more before it was watched.
ComesBack == []<>Served

=============================================================================
