---------------------------- MODULE CoapServers ----------------------------
(***************************************************************************)
(* The CoAP servers of DFinder and the interfaces they are bound to        *)
(* (nstackx_device.c, coap_app.c, nstackx_smartgenius.c).  One server      *)
(* serves Ethernet or WLAN, whichever holds the local address; it is       *)
(* taken down 5 s after the address went.  P2P and USB have a server each, *)
(* made when their address comes, with up to four retries on a timer.      *)
(* Everything runs on the library's main loop: an action is one handler.   *)
(***************************************************************************)
EXTENDS Naturals, FiniteSets

CONSTANTS
    IfAddr,      \* addresses of an interface (positive numbers); no two
                 \* interfaces share one
    Extra,       \* a subset of {"p2p", "usb"}
    MaxRetry,    \* NSTACKX_P2PUSB_SERVERINIT_MAX_RETRY_TIMES
    MaxChanges,  \* bound: address changes and calls
    MaxRefused   \* bound: servers that cannot be made

VARIABLES
    kern,      \* the addresses the interfaces have (0: none)
    ifs,       \* g_interfaceList: the library's view of eth and wlan
    netType,   \* g_networkType
    ctx,       \* g_ctx: the address the server was made for (0: none)
    offTimer,  \* g_offlineDeferredTimer is armed
    ext,       \* per extra interface: server, remembered address, retries, timer
    gone,      \* ghost: why the server may be missing
    turns, refused

srvVars == <<kern, ifs, netType, ctx, offTimer, ext, gone, turns, refused>>

Base == {"eth", "wlan"}
NoIp == <<"", 0>>
NoServer == [ctx |-> 0, ip |-> 0, retry |-> 0, timer |-> FALSE, late |-> FALSE]

(* DeviceModuleInit, P2pUsbTimerInit, CoapServerInit(NULL) of a library    *)
(* that knows no interface yet. *)
ServersInit ==
    /\ kern \in [Base \cup Extra -> {0, 1}]
    /\ ifs = [i \in Base |-> 0] /\ netType = "" /\ ctx = NoIp /\ offTimer = FALSE
    /\ ext = [x \in Extra |-> NoServer]
    /\ gone = {} /\ turns = MaxChanges /\ refused = MaxRefused

-----------------------------------------------------------------------------
(* GetLocalInterface, GetLocalIp: Ethernet first. *)
GetLocalIp(l) ==
    IF l["eth"] # 0 THEN <<"eth", l["eth"]>>
    ELSE IF l["wlan"] # 0 THEN <<"wlan", l["wlan"]>> ELSE NoIp

IsWifiApConnected(l) == GetLocalIp(l) # NoIp

MutantOtherName(i) == netType = i

(* UpdateLocalNetworkInterface: an interface that is not the last one the  *)
(* server was made for goes without a trace. *)
AnotherNetwork(i) == netType # i /\ netType # ""

MutantTimerRuns == offTimer

(* An address again: the deferred clean-up is called off. *)
OfflineCalledOff == FALSE

(* CoapServerInit(ip) of the base server. *)
CoapServerInit(i, a) ==
    \/ ctx' = <<i, a>> /\ gone' = {} /\ UNCHANGED refused
    \/ /\ refused > 0 /\ refused' = refused - 1
       /\ ctx' = NoIp /\ gone' = {"refused"}

UpdateLocalNetworkInterface(i, a) ==
    LET l == [ifs EXCEPT ![i] = a] IN
    /\ ifs' = l
    /\ IF GetLocalIp(l) = GetLocalIp(ifs)
       THEN UNCHANGED <<netType, ctx, offTimer, gone, refused>>
       ELSE IF a = 0
       THEN /\ offTimer' = (offTimer \/ ~AnotherNetwork(i))
            /\ gone' = gone \cup IF IsWifiApConnected(l) THEN {"switched"} ELSE {}
            /\ UNCHANGED <<netType, ctx, refused>>
       ELSE offTimer' = OfflineCalledOff /\ netType' = i /\ CoapServerInit(i, a)

(* LocalDeviceOffline also clears the device databases (module DFinder). *)
LocalDeviceOffline ==
    /\ offTimer /\ offTimer' = FALSE /\ ctx' = NoIp
    /\ UNCHANGED <<kern, ifs, netType, ext, gone, turns, refused>>

-----------------------------------------------------------------------------
(* The servers of P2P and USB; s is the record of one of them. *)
MutantOnlyCount(x, s) == IF s.retry = 0 THEN s ELSE [s EXCEPT !.retry = 0]

(* StopP2pServerInitRetryTimer; StopUsbServerInitRetryTimer also forgets   *)
(* the address.                                                            *)
StopServerInitRetryTimer(x, s) ==
    IF s.retry = 0 THEN s
    ELSE [s EXCEPT !.retry = 0, !.timer = FALSE, !.ip = IF x = "usb" THEN 0 ELSE @]

(* CoapP2pServerInit, CoapUsbServerInit: a server that is there is kept,   *)
(* whatever the address.  The records a call may leave, with its result.   *)
ServerInit(s, a) ==
    IF s.ctx # 0 THEN {[ok |-> TRUE, s |-> s]}
    ELSE {[ok |-> TRUE, s |-> [s EXCEPT !.ctx = a, !.ip = a, !.late = FALSE]]}
           \cup (IF refused > 0 THEN {[ok |-> FALSE, s |-> s]} ELSE {})

(* TryToInitP2pCoapServer, TryToInitUsbCoapServer: the first retry is      *)
(* armed when the server cannot be made.                                   *)
TryToInitCoapServer(x, a) ==
    {IF r.ok THEN r
     ELSE [r EXCEPT !.s = [@ EXCEPT !.ip = a, !.timer = TRUE, !.retry = @ + 1]] :
        r \in ServerInit(StopServerInitRetryTimer(x, ext[x]), a)}

RefusedAfter(r) == refused' = IF r.ok THEN refused ELSE refused - 1

MutantNeverGivesUp(s) == FALSE

(* The retries are used up. *)
GivesUp(s) == s.retry >= MaxRetry

MutantForgetsIp(x, s) == [s EXCEPT !.retry = 0, !.ip = 0, !.late = (x = "usb")]

(* The server is there after a retry; USB forgets the address it is on. *)
AfterRetry(x, s) == [s EXCEPT !.retry = 0, !.ip = IF x = "usb" THEN 0 ELSE @, !.late = (x = "usb")]

(* CoapP2pServerInitDelayHandler, CoapUsbServerInitDelayHandler. *)
CoapServerInitDelayHandler(x) ==
    /\ ext[x].timer
    /\ LET s == [ext[x] EXCEPT !.timer = FALSE] IN
       \E r \in ServerInit(s, s.ip) :
        /\ RefusedAfter(r)
        /\ ext' = [ext EXCEPT ![x] =
                     IF r.ok THEN AfterRetry(x, r.s)
                     ELSE IF GivesUp(r.s) THEN [r.s EXCEPT !.retry = 0, !.ip = 0]
                     ELSE [r.s EXCEPT !.timer = TRUE, !.retry = @ + 1]]
    /\ UNCHANGED <<kern, ifs, netType, ctx, offTimer, gone, turns>>

MutantKeepsTrying(x) == [ext[x] EXCEPT !.ctx = 0]

(* RTM_DELADDR: the server goes, and the retries with it. *)
AddressGone(x) == [StopServerInitRetryTimer(x, [ext[x] EXCEPT !.ctx = 0]) EXCEPT !.ip = 0]

UpdateLocalNetworkInterfaceMode(x, a) ==
    IF a = 0
    THEN ext' = [ext EXCEPT ![x] = AddressGone(x)] /\ UNCHANGED refused
    ELSE \E r \in TryToInitCoapServer(x, a) : ext' = [ext EXCEPT ![x] = r.s] /\ RefusedAfter(r)

-----------------------------------------------------------------------------
Turn == turns > 0 /\ turns' = turns - 1

(* SmartGeniusCallback, IfAddrMsgHandle: the kernel tells of an address. *)
IfAddrMsgHandle ==
    /\ Turn
    /\ \E i \in Base \cup Extra, a \in IfAddr \cup {0} :
        /\ a # kern[i] /\ kern' = [kern EXCEPT ![i] = a]
        /\ IF i \in Base
           THEN UpdateLocalNetworkInterface(i, a) /\ UNCHANGED ext
           ELSE /\ UpdateLocalNetworkInterfaceMode(i, a)
                /\ UNCHANGED <<ifs, netType, ctx, offTimer, gone>>

(* ConfigureLocalDeviceInfo: NSTACKX_RegisterDevice names an interface and *)
(* its address.                                                            *)
ConfigureLocalDeviceInfo ==
    /\ Turn
    /\ \E i \in Base : kern[i] # 0 /\ UpdateLocalNetworkInterface(i, kern[i])
    /\ UNCHANGED <<kern, ext>>

(* GetLocalNetworkInterface, posted by NSTACKX_InitRestart: the kernel's    *)
(* list is read; WLAN counts only without Ethernet.  (One extra interface  *)
(* is tried in a step.)                                                    *)
GetLocalNetworkInterface ==
    /\ Turn /\ UNCHANGED kern
    /\ \/ LET i == IF kern["eth"] # 0 THEN "eth" ELSE "wlan"
          IN kern[i] # 0 /\ UpdateLocalNetworkInterface(i, kern[i]) /\ UNCHANGED ext
       \/ \E x \in Extra :
            /\ kern[x] # 0 /\ UpdateLocalNetworkInterfaceMode(x, kern[x])
            /\ UNCHANGED <<ifs, netType, ctx, offTimer, gone>>

(* CoAPEpollErrorHandle and DeRegisterCoAPEpollTask: the server of an      *)
(* extra interface whose socket fails is taken down, and not made again;   *)
(* the error of the base server is only reported.                          *)
DeRegisterCoAPEpollTask ==
    /\ Turn
    /\ \E x \in Extra : (ext[x]).ctx # 0 /\ ext' = [ext EXCEPT ![x].ctx = 0]
    /\ UNCHANGED <<kern, ifs, netType, ctx, offTimer, gone, refused>>

ServersNext ==
    \/ IfAddrMsgHandle \/ ConfigureLocalDeviceInfo \/ GetLocalNetworkInterface
    \/ LocalDeviceOffline \/ DeRegisterCoAPEpollTask
    \/ \E x \in Extra : CoapServerInitDelayHandler(x)

ServersSpec == ServersInit /\ [][ServersNext]_srvVars

-----------------------------------------------------------------------------
(* Type invariant: no retry beyond the list of intervals. *)
ServersTypeOK ==
    /\ kern \in [Base \cup Extra -> IfAddr \cup {0}] /\ ifs \in [Base -> IfAddr \cup {0}]
    /\ \A x \in Extra : (ext[x]).retry \in 0..MaxRetry
    /\ ctx \in (Base \X IfAddr) \cup {NoIp} /\ netType \in Base \cup {""}

(* The base server is bound to the local address, unless its clean-up is   *)
(* due, it could not be made (there is no retry), or Ethernet was lost     *)
(* while WLAN had an address: then the clean-up takes the server down and  *)
(* nothing makes one for WLAN.                                             *)
ServerFollowsAddress ==
    IsWifiApConnected(ifs) /\ ~offTimer /\ gone = {} => ctx = GetLocalIp(ifs)

(* Without an address the server is down once the deferred clean-up has    *)
(* run: no interleaving of the two interfaces leaves it up for good.       *)
OfflineMeansDown == ~IsWifiApConnected(ifs) /\ ~offTimer => ctx = NoIp

(* A server of P2P or USB is there only while the interface has an         *)
(* address: a retry that comes after RTM_DELADDR makes none.               *)
ServerHasAddress == \A x \in Extra : (ext[x]).ctx # 0 => kern[x] # 0

(* The library knows the address its P2P or USB server is bound to (it     *)
(* sends from it), but for a USB server that a retry made.                 *)
AddressKnown ==
    \A x \in Extra : (ext[x]).ctx # 0 /\ ~(ext[x]).late => (ext[x]).ip = (ext[x]).ctx

(* The retry timer is armed exactly while retries are counted. *)
RetriesTimed == \A x \in Extra : (ext[x]).timer <=> (ext[x]).retry > 0
=============================================================================
