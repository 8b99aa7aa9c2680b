----------------------------- MODULE IpNetwork -----------------------------
(***************************************************************************)
(* The IP network of a node: which address it announces, the three ports   *)
(* it listens on there and the discovery it runs (lnn_ip_network_impl.c,   *)
(* lnn_discovery_manager.c, lnn_coap_discovery_impl.c), driven by the      *)
(* event monitor (lnn_event_monitor.c, lnn_netlink_monitor.c,              *)
(* lnn_wifiservice_monitor.cpp).  A change of address closes the link and  *)
(* asks the net builder to leave the old network; the link is opened again *)
(* when the net builder says that no connection of that kind is left.      *)
(*                                                                         *)
(* The netlink thread and the thread of the Wi-Fi service run the handlers *)
(* under the monitor's lock; the handlers, the start-up and the net        *)
(* builder's looper share the lock of g_lnnIpNetworkInfo.  A handler takes *)
(* two steps, as the kernel may change between its question and its        *)
(* answer.                                                                 *)
(***************************************************************************)
EXTENDS Naturals, Sequences, FiniteSets

CONSTANTS
    MaxIp,         \* addresses 1..MaxIp an interface may get
    MaxChanges,    \* bound: changes of an interface's address
    MaxJoins,      \* bound: connections made
    MaxIpFails     \* bound: calls that fail

VARIABLES
    kern,       \* the address of each interface (0: none)
    nlThread,   \* the netlink thread: "none", "starting", "on", "ended"
    nlHandler,  \* g_eventHandler of the netlink monitor is set
    nlq,        \* netlink messages waiting
    wifiSub,    \* subscription to the Wi-Fi service: "no", "asked", "yes", "never"
    wifiq,      \* Wi-Fi states waiting
    regs,       \* eventList: the events with a handler
    boot,       \* how far BusCenterServerInit has come
    hand,       \* the handler a monitor thread runs
    ipLock,     \* who holds g_lnnIpNetworkInfo.lock
    ledger,     \* the local ledger's interface and address
    port,       \* the address each server listens on (0: closed)
    linkClosed, \* isIpLinkClosed
    publish, subscribe,  \* discovery published and subscribed by LNN
    callLnn,    \* g_isCallLnn
    leaves,     \* MSG_TYPE_LEAVE_BY_ADDR_TYPE messages of the net builder
    fsms,       \* per address type: connections up and connections ending
    ghost,      \* why an expectation may fail (see below)
    ipUsed      \* budgets

ipVars == <<kern, nlThread, nlHandler, nlq, wifiSub, wifiq, regs, boot, hand, ipLock, ledger, port,
            linkClosed, publish, subscribe, callLnn, leaves, fsms, ghost, ipUsed>>

Ifs == {"eth", "wlan"}
Ports == {"auth", "session", "proxy"}
Loopback == [if |-> "lo", ip |-> 0]
Idle == [on |-> FALSE, disc |-> FALSE, new |-> Loopback]
Monitors == {"netlink", "wifi"}

(* ghost.unseen: the kernel changed and no message will tell of it;        *)
(* ghost.forced: loopback was taken because Wi-Fi disconnected;            *)
(* ghost.halfOpen: OpenIpLink failed; ghost.unasked: the leave request was *)
(* refused; ghost.left: the type asked to leave last; ghost.crash: the     *)
(* netlink thread called its handler before it was set.                    *)
Init ==
    /\ kern \in [Ifs -> 0 .. 1]
    /\ nlThread = "none" /\ nlHandler = FALSE /\ nlq = 0
    /\ wifiSub = "no" /\ wifiq = <<>> /\ regs = {} /\ boot = "monitor"
    /\ hand = [m \in Monitors |-> Idle] /\ ipLock = "free"
    /\ ledger = Loopback /\ port = [p \in Ports |-> 0] /\ linkClosed = TRUE
    /\ publish = FALSE /\ subscribe = FALSE /\ callLnn = FALSE
    /\ leaves = <<>> /\ fsms = [t \in Ifs |-> [up |-> 0, ending |-> 0]]
    /\ ghost = [unseen |-> FALSE, forced |-> FALSE, halfOpen |-> FALSE, unasked |-> FALSE,
                left |-> "max", crash |-> FALSE]
    /\ ipUsed = [changes |-> 0, joins |-> 0, fails |-> 0]

Running == ~ghost.crash
MayFail == ipUsed.fails < MaxIpFails
Failing == [ipUsed EXCEPT !.fails = @ + 1]

----------------------------------------------------------------------------
(* The environment. *)

WifiStates(a) == IF a = 0 THEN {"disconnected", "disabled"} ELSE {"connected"}

(* An interface gets or loses its address; the kernel tells the netlink    *)
(* socket, and the Wi-Fi service tells its subscribers of WLAN. *)
AddressChanges(i, a) ==
    /\ Running /\ ipUsed.changes < MaxChanges /\ a # kern[i]
    /\ kern' = [kern EXCEPT ![i] = a]
    /\ nlq' = IF nlThread = "on" THEN nlq + 1 ELSE nlq
    /\ IF i = "wlan" /\ wifiSub = "yes"
       THEN \E s \in WifiStates(a) : wifiq' = Append(wifiq, s)
       ELSE UNCHANGED wifiq
    /\ ghost' = [ghost EXCEPT !.unseen = @ \/ nlThread # "on"]
    /\ ipUsed' = [ipUsed EXCEPT !.changes = @ + 1]
    /\ UNCHANGED <<nlThread, nlHandler, wifiSub, regs, boot, hand, ipLock, ledger, port, linkClosed,
                   publish, subscribe, callLnn, leaves, fsms>>

----------------------------------------------------------------------------
(* The monitors. *)

(* LnnInitNetlinkMonitorImpl: the thread runs before its handler is set. *)
LnnInitNetlinkMonitorImpl ==
    /\ Running
    /\ \/ boot = "monitor" /\ nlThread' = "starting" /\ boot' = "handler" /\ UNCHANGED nlHandler
       \/ boot = "handler" /\ nlHandler' = TRUE /\ boot' = "wifi" /\ UNCHANGED nlThread
    /\ UNCHANGED <<kern, nlq, wifiSub, wifiq, regs, hand, ipLock, ledger, port, linkClosed, publish,
                   subscribe, callLnn, leaves, fsms, ghost, ipUsed>>

(* LnnInitWifiServiceMonitorImpl *)
LnnInitWifiServiceMonitorImpl ==
    /\ Running /\ boot = "wifi"
    /\ wifiSub' = "asked" /\ boot' = "register"
    /\ UNCHANGED <<kern, nlThread, nlHandler, nlq, wifiq, regs, hand, ipLock, ledger, port, linkClosed,
                   publish, subscribe, callLnn, leaves, fsms, ghost, ipUsed>>

(* LnnSubscribeWifiService, tried again each second up to RETRY_MAX times. *)
LnnSubscribeWifiService ==
    /\ Running /\ wifiSub = "asked"
    /\ \/ wifiSub' = "yes" /\ UNCHANGED ipUsed
       \/ MayFail /\ wifiSub' = "never" /\ ipUsed' = Failing
    /\ UNCHANGED <<kern, nlThread, nlHandler, nlq, wifiq, regs, boot, hand, ipLock, ledger, port,
                   linkClosed, publish, subscribe, callLnn, leaves, fsms, ghost>>

(* NetlinkMonitorThread: CreateNetlinkSocket, and the end of the thread    *)
(* when recv fails. *)
NetlinkThread ==
    /\ Running
    /\ \/ nlThread = "starting" /\ nlThread' = "on" /\ UNCHANGED <<nlq, ghost, ipUsed>>
       \/ /\ nlThread \in {"starting", "on"} /\ ~hand["netlink"].on /\ MayFail
          /\ nlThread' = "ended" /\ nlq' = 0 /\ ipUsed' = Failing
          /\ ghost' = [ghost EXCEPT !.unseen = @ \/ nlq > 0]
    /\ UNCHANGED <<kern, nlHandler, wifiSub, wifiq, regs, boot, hand, ipLock, ledger, port, linkClosed,
                   publish, subscribe, callLnn, leaves, fsms>>

(* GetUpdateLocalIp: Ethernet before WLAN, loopback when neither has an    *)
(* address or Wi-Fi says it disconnected. *)
GetUpdateLocalIp(k, disc) ==
    LET up == IF disc THEN {} ELSE {i \in Ifs : k[i] # 0} IN
    IF "eth" \in up THEN [if |-> "eth", ip |-> k["eth"]]
    ELSE IF "wlan" \in up THEN [if |-> "wlan", ip |-> k["wlan"]] ELSE Loopback

(* What a question to the kernel settles. *)
Asked(g, disc) == [g EXCEPT !.unseen = @ /\ disc, !.forced = disc]

(* EventMonitorHandler takes its lock and calls the handler, which takes   *)
(* the other lock and asks for the address (GetLocalIpInfo and             *)
(* GetUpdateLocalIp of UpdateLocalIp). *)
EventMonitorHandler(m, event, disc) ==
    /\ \A n \in Monitors : ~hand[n].on
    /\ IF event \in regs
       THEN /\ ipLock = "free" /\ ipLock' = m
            /\ hand' = [hand EXCEPT ![m] = [on |-> TRUE, disc |-> disc, new |-> GetUpdateLocalIp(kern, disc)]]
            /\ ghost' = Asked(ghost, disc)
       ELSE /\ ghost' = [ghost EXCEPT !.unseen = @ \/ m = "netlink"]
            /\ UNCHANGED <<ipLock, hand>>

(* ProcessAddrEvent, ProcessLinkEvent *)
ProcessAddrEvent ==
    /\ Running /\ nlThread = "on" /\ nlq > 0
    /\ nlq' = nlq - 1
    /\ IF nlHandler THEN EventMonitorHandler("netlink", "ip", FALSE)
                    ELSE ghost' = [ghost EXCEPT !.crash = TRUE] /\ UNCHANGED <<ipLock, hand>>
    /\ UNCHANGED <<kern, nlThread, nlHandler, wifiSub, wifiq, regs, boot, ledger, port, linkClosed,
                   publish, subscribe, callLnn, leaves, fsms, ipUsed>>

(* OnReceiveEvent of the Wi-Fi monitor, WifiStateChangeEventHandler *)
OnReceiveEvent ==
    /\ Running /\ wifiq # <<>>
    /\ wifiq' = Tail(wifiq)
    /\ EventMonitorHandler("wifi", "wifi", wifiq[1] = "disconnected")
    /\ UNCHANGED <<kern, nlThread, nlHandler, nlq, wifiSub, regs, boot, ledger, port, linkClosed,
                   publish, subscribe, callLnn, leaves, fsms, ipUsed>>

----------------------------------------------------------------------------
(* Ports and discovery. *)

(* CloseIpLink: CloseAuthPort, CloseSessionPort, CloseProxyPort *)
CloseIpLink == [p \in Ports |-> 0]

(* OpenProxyPort: its failure is only logged. *)
OpenProxyPort(ps, ip, ok) == IF ok THEN [ps EXCEPT !["proxy"] = ip] ELSE ps

MutantAuthStays(ps, ip, bad) ==
    IF bad = "auth" THEN ps
    ELSE IF bad = "session" THEN [ps EXCEPT !["auth"] = ip]
    ELSE OpenProxyPort([ps EXCEPT !["auth"] = ip, !["session"] = ip], ip, bad # "proxy")

(* OpenIpLink: without the session port the authentication port is closed  *)
(* again; bad names the server that cannot be started. *)
OpenIpLink(ps, ip, bad) ==
    IF bad \in {"auth", "session"} THEN ps
    ELSE OpenProxyPort([ps EXCEPT !["auth"] = ip, !["session"] = ip], ip, bad # "proxy")

(* LnnStartDiscovery: RestartPublish, then LnnStartCoapDiscovery.  bad     *)
(* names what fails. *)
LnnStartDiscovery(bad) ==
    /\ publish' = (publish \/ bad # "publish")
    /\ subscribe' = (subscribe \/ bad \notin {"publish", "subscribe"})

(* LnnStopDiscovery *)
LnnStopDiscovery == publish' = FALSE /\ subscribe' = FALSE

(* The common end of LnnInitIpNetwork and LnnCallIpDiscovery for an        *)
(* interface that is not loopback. *)
OpenAndDiscover(g) ==
    \E bad \in {"", "auth", "session", "proxy", "publish", "subscribe"} :
        /\ bad # "" => MayFail
        /\ port' = OpenIpLink(port, ledger'.ip, bad)
        /\ LnnStartDiscovery(bad)
        /\ callLnn' = TRUE /\ linkClosed' = FALSE
        /\ ipUsed' = IF bad = "" THEN ipUsed ELSE Failing
        /\ ghost' = [g EXCEPT !.halfOpen = bad # ""]

NothingOpened == UNCHANGED <<port, linkClosed, publish, subscribe, callLnn, ipUsed>>

----------------------------------------------------------------------------
(* Start-up: BusCenterServerInit after the monitors. *)

(* LnnRegisterEventHandler, for the two handlers. *)
LnnRegisterEventHandler ==
    /\ Running /\ boot = "register" /\ \A n \in Monitors : ~hand[n].on
    /\ \/ regs = {} /\ regs' = {"ip"} /\ UNCHANGED boot
       \/ regs = {"ip"} /\ regs' = {"ip", "wifi"} /\ boot' = "ask"
    /\ UNCHANGED <<kern, nlThread, nlHandler, nlq, wifiSub, wifiq, hand, ipLock, ledger, port,
                   linkClosed, publish, subscribe, callLnn, leaves, fsms, ghost, ipUsed>>

(* LnnInitIpNetwork: the address is asked for under the lock, ... *)
LnnInitIpNetwork ==
    /\ Running /\ boot = "ask" /\ ipLock = "free"
    /\ ipLock' = "init" /\ boot' = "open"
    /\ hand' = [hand EXCEPT !["netlink"].new = GetUpdateLocalIp(kern, FALSE)]
    /\ ghost' = Asked(ghost, FALSE)
    /\ UNCHANGED <<kern, nlThread, nlHandler, nlq, wifiSub, wifiq, regs, ledger, port, linkClosed,
                   publish, subscribe, callLnn, leaves, fsms, ipUsed>>

(* ... recorded, and the link opened on it. *)
LnnInitIpNetworkOpens ==
    /\ Running /\ boot = "open"
    /\ ledger' = hand["netlink"].new /\ ipLock' = "free" /\ boot' = "builder"
    /\ hand' = [hand EXCEPT !["netlink"].new = Loopback]
    /\ IF ledger'.if # "lo" THEN OpenAndDiscover(ghost) ELSE NothingOpened /\ UNCHANGED ghost
    /\ UNCHANGED <<kern, nlThread, nlHandler, nlq, wifiSub, wifiq, regs, leaves, fsms>>

(* LnnInitNetBuilder comes last: until then a request to leave is refused. *)
LnnInitNetBuilder ==
    /\ Running /\ boot = "builder" /\ boot' = "done"
    /\ UNCHANGED <<kern, nlThread, nlHandler, nlq, wifiSub, wifiq, regs, hand, ipLock, ledger, port,
                   linkClosed, publish, subscribe, callLnn, leaves, fsms, ghost, ipUsed>>

----------------------------------------------------------------------------
(* A change of address. *)

MutantSameName(old, new) == old.if = new.if

(* ip info not changed *)
SameIpInfo(old, new) == old = new

(* The previous link is closed unless it was loopback. *)
HadLink(old) == old.if # "lo"

(* LeaveOldIpNetwork with LnnRequestLeaveByAddrType *)
TypeOf(if) == IF if = "lo" THEN "max" ELSE if
LeaveOldIpNetwork(if) ==
    /\ leaves' = IF boot = "done" THEN Append(leaves, TypeOf(if)) ELSE leaves
    /\ ghost' = [ghost EXCEPT !.unasked = boot # "done", !.left = TypeOf(if), !.halfOpen = FALSE]

(* UpdateLocalIp after its questions, LeaveOldIpNetwork and the flag: the  *)
(* rest of IpAddrChangeEventHandler and WifiStateChangeEventHandler. *)
UpdateLocalIp(m) ==
    /\ Running /\ hand[m].on
    /\ hand' = [hand EXCEPT ![m] = Idle] /\ ipLock' = "free"
    /\ IF SameIpInfo(ledger, hand[m].new)
       THEN UNCHANGED <<ledger, port, linkClosed, publish, subscribe, leaves, ghost>>
       ELSE /\ IF HadLink(ledger) THEN port' = CloseIpLink /\ LnnStopDiscovery
                                  ELSE UNCHANGED <<port, publish, subscribe>>
            /\ ledger' = hand[m].new
            /\ LeaveOldIpNetwork(ledger.if)
            /\ linkClosed' = TRUE
    /\ UNCHANGED <<kern, nlThread, nlHandler, nlq, wifiSub, wifiq, regs, boot, callLnn, fsms, ipUsed>>

----------------------------------------------------------------------------
(* The net builder's looper. *)

(* LnnNotifyAllTypeOffline and LnnCallIpDiscovery *)
LnnCallIpDiscovery ==
    /\ ipLock = "free" /\ UNCHANGED ledger
    /\ IF linkClosed /\ ledger.if # "lo" THEN OpenAndDiscover(ghost)
                                         ELSE NothingOpened /\ UNCHANGED ghost

NoCall == NothingOpened /\ UNCHANGED <<ledger, ghost>>

MutantNobodyTold(some) == FALSE

(* "if there are any same addr type, let last one send notify" *)
TellsAtOnce(some) == ~some

(* ProcessLeaveByAddrType *)
ProcessLeaveByAddrType ==
    /\ Running /\ leaves # <<>> /\ leaves' = Tail(leaves)
    /\ LET t == leaves[1]
           some == t \in Ifs /\ fsms[t].up + fsms[t].ending > 0 IN
       /\ fsms' = IF some THEN [fsms EXCEPT ![t] = [up |-> 0, ending |-> @.up + @.ending]] ELSE fsms
       /\ IF TellsAtOnce(some) THEN LnnCallIpDiscovery ELSE NoCall
    /\ UNCHANGED <<kern, nlThread, nlHandler, nlq, wifiSub, wifiq, regs, boot, hand, ipLock>>

(* CleanConnectionFsm with tryNotifyAllTypeOffline *)
CleanConnectionFsm(t) ==
    /\ Running /\ fsms[t].ending > 0
    /\ fsms' = [fsms EXCEPT ![t].ending = @ - 1]
    /\ IF fsms'[t].up + fsms'[t].ending = 0 THEN LnnCallIpDiscovery ELSE NoCall
    /\ UNCHANGED <<kern, nlThread, nlHandler, nlq, wifiSub, wifiq, regs, boot, hand, ipLock, leaves>>

(* A connection is made over the network, or ends by itself. *)
ConnectionJoins(t) ==
    /\ Running /\ boot = "done" /\ ipUsed.joins < MaxJoins /\ kern[t] # 0
    /\ fsms' = [fsms EXCEPT ![t].up = @ + 1]
    /\ ipUsed' = [ipUsed EXCEPT !.joins = @ + 1]
    /\ UNCHANGED <<kern, nlThread, nlHandler, nlq, wifiSub, wifiq, regs, boot, hand, ipLock, ledger,
                   port, linkClosed, publish, subscribe, callLnn, leaves, ghost>>

ConnectionEnds(t) ==
    /\ Running /\ fsms[t].up > 0
    /\ fsms' = [fsms EXCEPT ![t] = [up |-> @.up - 1, ending |-> @.ending + 1]]
    /\ UNCHANGED <<kern, nlThread, nlHandler, nlq, wifiSub, wifiq, regs, boot, hand, ipLock, ledger,
                   port, linkClosed, publish, subscribe, callLnn, leaves, ghost, ipUsed>>

(* DiscIpcStartDiscovery of an application: LNN no longer hears of devices *)
(* found, until the next LnnCallIpDiscovery. *)
AppStartsDiscovery ==
    /\ Running /\ callLnn /\ boot = "done" /\ callLnn' = FALSE
    /\ UNCHANGED <<kern, nlThread, nlHandler, nlq, wifiSub, wifiq, regs, boot, hand, ipLock, ledger,
                   port, linkClosed, publish, subscribe, leaves, fsms, ghost, ipUsed>>

Boots ==
    \/ LnnInitNetlinkMonitorImpl \/ LnnInitWifiServiceMonitorImpl \/ LnnRegisterEventHandler
    \/ LnnInitIpNetwork \/ LnnInitIpNetworkOpens \/ LnnInitNetBuilder

Next ==
    \/ \E i \in Ifs, a \in 0 .. MaxIp : AddressChanges(i, a)
    \/ LnnInitNetlinkMonitorImpl \/ LnnInitWifiServiceMonitorImpl \/ LnnRegisterEventHandler
    \/ LnnInitIpNetwork \/ LnnInitIpNetworkOpens \/ LnnInitNetBuilder
    \/ LnnSubscribeWifiService \/ NetlinkThread
    \/ ProcessAddrEvent \/ OnReceiveEvent
    \/ \E m \in Monitors : UpdateLocalIp(m)
    \/ ProcessLeaveByAddrType
    \/ \E t \in Ifs : CleanConnectionFsm(t) \/ ConnectionJoins(t) \/ ConnectionEnds(t)
    \/ AppStartsDiscovery

Spec == Init /\ [][Next]_ipVars

(* The threads run: start-up goes on, the netlink and the Wi-Fi thread     *)
(* take what is waiting, a handler finishes, the looper handles its        *)
(* messages and ends the connections that are ending. *)
Fairness ==
    /\ WF_ipVars(Boots)
    /\ WF_ipVars(ProcessAddrEvent) /\ SF_ipVars(OnReceiveEvent)
    /\ \A m \in Monitors : WF_ipVars(UpdateLocalIp(m))
    /\ SF_ipVars(ProcessLeaveByAddrType)
    /\ \A t \in Ifs : SF_ipVars(CleanConnectionFsm(t))
LiveSpec == Spec /\ Fairness

----------------------------------------------------------------------------
(* Properties *)

IpTypeOK ==
    /\ kern \in [Ifs -> 0 .. MaxIp] /\ nlThread \in {"none", "starting", "on", "ended"}
    /\ nlHandler \in BOOLEAN /\ nlq \in 0 .. MaxChanges
    /\ wifiSub \in {"no", "asked", "yes", "never"} /\ Len(wifiq) <= MaxChanges
    /\ regs \subseteq {"ip", "wifi"} /\ ipLock \in Monitors \cup {"free", "init"}
    /\ ledger \in [if : Ifs \cup {"lo"}, ip : 0 .. MaxIp] /\ port \in [Ports -> 0 .. MaxIp]
    /\ linkClosed \in BOOLEAN /\ publish \in BOOLEAN /\ subscribe \in BOOLEAN /\ callLnn \in BOOLEAN
    /\ Len(leaves) <= 2 * MaxChanges /\ fsms \in [Ifs -> [up : 0 .. MaxJoins, ending : 0 .. MaxJoins]]

Quiet == /\ boot \in {"builder", "done"} /\ \A m \in Monitors : ~hand[m].on
         /\ Running

(* When every netlink message has been handled, the address in the local   *)
(* ledger (SetLocalIpInfo) is the one the node should announce: the        *)
(* Ethernet address if there is one, else that of WLAN, else loopback.     *)
(* Exceptions: a change no message told of (the netlink socket was not     *)
(* made yet, or its thread had ended), and loopback taken on the word of   *)
(* the Wi-Fi service although Ethernet has an address. *)
RecordedIsCurrent ==
    Quiet /\ nlq = 0 /\ ~ghost.unseen /\ ~ghost.forced =>
        IF kern["eth"] # 0 THEN ledger = [if |-> "eth", ip |-> kern["eth"]]
        ELSE IF kern["wlan"] # 0 THEN ledger = [if |-> "wlan", ip |-> kern["wlan"]]
        ELSE ledger = Loopback

(* Servers listen only on the address in the ledger, never on an address   *)
(* given up, and the authentication server only together with the session  *)
(* server; a link marked closed (isIpLinkClosed) listens nowhere and       *)
(* discovers nothing, one marked open does both unless starting failed. *)
LinkMatches ==
    Quiet =>
        /\ \A p \in Ports : port[p] \in {0, ledger.ip}
        /\ (port["auth"] = 0) = (port["session"] = 0)
        /\ port["proxy"] # 0 => port["auth"] # 0
        /\ linkClosed => (\A p \in Ports : port[p] = 0) /\ ~publish /\ ~subscribe
        /\ ~linkClosed /\ ~ghost.halfOpen =>
            ledger.if # "lo" /\ (\A p \in Ports : port[p] = ledger.ip) /\ publish /\ subscribe

Closed == boot = "done" /\ linkClosed /\ ledger.if # "lo" /\ ~ghost.unasked
Reopened == \/ ~linkClosed \/ ledger.if = "lo" \/ ghost.unasked \/ ghost.crash
            \/ ghost.left \in Ifs /\ fsms[ghost.left].up > 0

(* A link closed by a change of address is opened again: the request to    *)
(* leave the old network ends its connections, and the last of them has    *)
(* LnnCallIpDiscovery called.  Unless the node has only loopback, the      *)
(* change came before the net builder was there to be asked, or a          *)
(* connection of the old kind is up again. *)
LinkReopened == Closed ~> Reopened

=============================================================================
