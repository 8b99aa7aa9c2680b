------------------------------ MODULE DFinder ------------------------------
(***************************************************************************)
(* Device discovery over CoAP: the DFinder library (nstackx_ctrl) that     *)
(* the discovery manager calls.  The interface functions post events to    *)
(* the library's main loop; the loop runs every handler to its end, so     *)
(* each action below but the interface calls is one whole handler: an      *)
(* event, a timer, an address notification or a received packet.           *)
(*                                                                         *)
(* A discovery is a series of broadcasts, the rounds of a timer.  The      *)
(* first one of a StartDeviceFind moves the device database aside into a   *)
(* backup and empties it; the answers fill it again and every change is    *)
(* reported.  The network is one WLAN interface; module CoapServers has    *)
(* the others.  A packet over the rate limit is dropped and stands for a   *)
(* packet lost.                                                            *)
(***************************************************************************)
EXTENDS Naturals, Sequences, FiniteSets

CONSTANTS
    Dev,            \* other devices
    DevType, Caps,  \* what a device says of itself
    FilterCaps,     \* the capabilities a filter asks for
    DbSize,         \* NSTACKX_MAX_DEVICE_NUM
    MaxDiscover,    \* g_coapMaxDiscoverCount
    MaxSubs,        \* COAP_MAX_NUM_SUBSCRIBE_MODULE_COUNT
    MaxCalls,       \* bound: calls of the interface
    MaxQueue,       \* bound: events waiting
    MaxNet,         \* bound: address notifications
    MaxPackets,     \* bound: packets received
    MaxLoss         \* bound: broadcasts that fail


VARIABLES
    evq,       \* events posted and not handled
    net,       \* address, CoAP server, offline timer, postpone timer
    disc,      \* the discovery globals of coap_discover.c
    db,        \* g_deviceList
    backup,    \* devices in g_deviceListBackup
    filter,    \* g_filterCapabilityBitmap (the empty set: none)
    asked,     \* ghost: StartDeviceFind's rounds are running
    answered,  \* ghost: devices heard since that request
    found,     \* ghost: devices reported found since that request
    known,     \* ghost: devices known when that request was handled
    missed,    \* ghost: a message to one of those found no record
    budget

dfVars == <<evq, net, disc, db, backup, filter, asked, answered, found, known, missed, budget>>

None == [type |-> 0, cap |-> "none"]
Info == [type : DevType, cap : Caps]
Modes == {"discover", "proactive", "upline"}
Listed == {e \in Dev : db[e] # None}
Empty == [e \in Dev |-> None]

Event == {<<k>> : k \in {"find", "an", "stop", "restart", "sub", "unsub"}}
            \cup ({"filter"} \X {{}, FilterCaps}) \cup ({"send"} \X Dev)

(* CoapDiscoverInit, DeviceModuleInit, SmartGeniusInit: timers unarmed,     *)
(* nothing known, no address.                                              *)
Init ==
    /\ evq = << >> /\ net = [ip |-> FALSE, ctx |-> FALSE, off |-> FALSE, late |-> FALSE]
    /\ disc = [count |-> 0, target |-> 0, timer |-> FALSE, user |-> FALSE,
               force |-> FALSE, mode |-> "discover", subs |-> 0]
    /\ db = Empty /\ backup = {} /\ filter = {}
    /\ asked = FALSE /\ answered = {} /\ found = {} /\ known = {} /\ missed = FALSE
    /\ budget = [calls |-> MaxCalls, net |-> MaxNet, packets |-> MaxPackets, loss |-> MaxLoss]

-----------------------------------------------------------------------------
(* The interface: every call posts an event to the loop's pipe.  The mode  *)
(* of StartDeviceFindAn is set at once, on the caller's thread.            *)
PostEvent(e) ==
    /\ budget.calls > 0 /\ Len(evq) < MaxQueue
    /\ budget' = [budget EXCEPT !.calls = @ - 1]
    /\ evq' = Append(evq, e)
    /\ UNCHANGED <<net, db, backup, filter, asked, answered, found, known, missed>>

NSTACKX_StartDeviceFind == PostEvent(<<"find">>) /\ UNCHANGED disc
NSTACKX_StartDeviceFindAn ==
    \E m \in {"proactive", "upline"} : PostEvent(<<"an">>) /\ disc' = [disc EXCEPT !.mode = m]
NSTACKX_StopDeviceFind == PostEvent(<<"stop">>) /\ UNCHANGED disc
NSTACKX_StartDeviceFindRestart == PostEvent(<<"restart">>) /\ UNCHANGED disc
NSTACKX_SubscribeModule == PostEvent(<<"sub">>) /\ UNCHANGED disc
NSTACKX_UnsubscribeModule == PostEvent(<<"unsub">>) /\ UNCHANGED disc
NSTACKX_SetFilterCapability == \E f \in {{}, FilterCaps} : PostEvent(<<"filter", f>>) /\ UNCHANGED disc
NSTACKX_SendMsg == \E e \in Dev : PostEvent(<<"send", e>>) /\ UNCHANGED disc

-----------------------------------------------------------------------------
(* Devices and what the user is told of them.                              *)
IsWifiApConnected == net.ip

CoapDiscoverRequestOngoing(d) == (d.count > 0 /\ d.user) \/ d.subs > 0

MatchDeviceFilter(i) == filter = {} \/ i.cap \in filter

(* GetDeviceList, what the callbacks are given of database b. *)
GetDeviceList(b) == {e \in Dev : b[e] # None /\ MatchDeviceFilter(b[e])}

(* DeviceListChangeHandle: found is told only while somebody asks. *)
DeviceListChangeHandle(b, d) ==
    found' = found \cup IF CoapDiscoverRequestOngoing(d) THEN GetDeviceList(b) ELSE {}

(* CoapPostServiceDiscover with CoapSendRequest: needs the server; the     *)
(* broadcast may fail.                                                     *)
PostOk(ok) == (ok /\ net.ctx) \/ (~ok /\ (~net.ctx \/ budget.loss > 0))
LossAfter(ok) == [budget EXCEPT !.loss = IF ~ok /\ net.ctx THEN @ - 1 ELSE @]

MutantKeepsCount(d) == [d EXCEPT !.timer = FALSE]

(* L_ERR_SERVICE_DISCOVER: give up without starting the timer. *)
Abort(d) == [d EXCEPT !.count = 0, !.timer = FALSE]

MutantSameRound(d) == [d EXCEPT !.count = IF @ = 0 THEN 1 ELSE @, !.timer = TRUE]

(* A round sent: one more, and the timer for the next. *)
Round(d) == [d EXCEPT !.count = @ + 1, !.timer = TRUE]

(* CoapServiceDiscoverStop *)
CoapServiceDiscoverStop ==
    /\ disc' = [disc EXCEPT !.count = 0, !.force = FALSE, !.mode = "discover",
                            !.user = FALSE, !.timer = FALSE]
    /\ backup' = {} /\ asked' = FALSE

MutantOneMore == disc.count > disc.target

(* The rounds asked for have been sent. *)
AllRounds == disc.count >= disc.target

(* ... and the timer of the last one has not fired yet. *)
Finished == disc.target > 0 /\ AllRounds

MutantNotForced(d, user) == [d EXCEPT !.user = user \/ @]

(* A request of the user: the next answer is reported whatever it says. *)
Requested(d, user) == [d EXCEPT !.user = user \/ @, !.force = user \/ @]

MutantNoBackup(b) == {}

(* BackupDeviceDB: the backup becomes a copy. *)
BackupDeviceDB(b) == {e \in Dev : b[e] # None}

(* CoapServiceDiscoverInner: nothing without a network and a server; while *)
(* rounds run only the request is noted; else the first round: the records *)
(* go to the backup and the rounds start, unless the broadcast fails.      *)
CoapServiceDiscoverInner(user) ==
    IF ~IsWifiApConnected \/ ~net.ctx
    THEN UNCHANGED <<disc, db, backup, asked, answered, found, known, budget>>
    ELSE IF disc.count # 0 /\ ~Finished
         THEN /\ disc' = Requested(disc, user)
              /\ asked' = (asked \/ user)
              /\ answered' = IF user THEN {} ELSE answered
              /\ found' = IF user THEN {} ELSE found
              /\ UNCHANGED <<db, backup, known, budget>>
         ELSE \E ok \in BOOLEAN :
                LET fresh == [Abort(Requested(disc, user)) EXCEPT !.mode = "discover",
                                                               !.target = MaxDiscover]
                IN /\ PostOk(ok) /\ budget' = LossAfter(ok)
                   /\ disc' = IF ok THEN Round(fresh) ELSE fresh
                   /\ backup' = BackupDeviceDB(db) /\ db' = Empty
                   /\ asked' = (ok /\ user) /\ answered' = {} /\ found' = {}
                   /\ known' = Listed

(* CoapServiceDiscoverInnerAn: rounds that run start again; the database   *)
(* stays.                                                                  *)
CoapServiceDiscoverInnerAn ==
    IF ~IsWifiApConnected \/ ~net.ctx
    THEN UNCHANGED <<disc, asked, known, budget>>
    ELSE \E ok \in BOOLEAN :
            LET fresh == [Abort(disc) EXCEPT
                            !.user = TRUE,
                            !.target = IF disc.count = 0 THEN MaxDiscover ELSE @]
            IN /\ PostOk(ok) /\ budget' = LossAfter(ok)
               /\ disc' = IF ok THEN Round(fresh) ELSE fresh
               /\ asked' = (asked /\ ok)
               /\ known' = IF disc.count = 0 THEN {} ELSE known

-----------------------------------------------------------------------------
(* Handlers of posted events. *)
SendMsgInner(e) == missed' = (missed \/ (disc.count > 0 /\ e \in known /\ e \notin Listed \cup backup))

(* DeviceDiscoverInner also tells the user "nothing" without a network. *)
DeviceDiscoverInner ==
    CoapServiceDiscoverInner(TRUE) /\ UNCHANGED <<net, filter, missed>>

DeviceDiscoverInnerRestart ==
    CoapServiceDiscoverInner(FALSE) /\ UNCHANGED <<net, filter, missed>>

DeviceDiscoverInnerAn ==
    CoapServiceDiscoverInnerAn /\ UNCHANGED <<net, db, backup, filter, answered, found, missed>>

DeviceDiscoverStopInner ==
    /\ CoapServiceDiscoverStop
    /\ UNCHANGED <<net, db, filter, answered, found, known, missed, budget>>

SubscribeModuleInner ==
    /\ disc' = [disc EXCEPT !.subs = IF @ < MaxSubs THEN @ + 1 ELSE @]
    /\ UNCHANGED <<net, db, backup, filter, asked, answered, found, known, missed, budget>>

UnsubscribeModuleInner ==
    /\ disc' = [disc EXCEPT !.subs = IF @ > 0 THEN @ - 1 ELSE @]
    /\ UNCHANGED <<net, db, backup, filter, asked, answered, found, known, missed, budget>>

(* A device recorded under another filter is not reported when it answers  *)
(* again: the user has to ask anew, as the discovery manager does.         *)
SetFilterCapabilityInner(f) ==
    /\ filter' = f /\ asked' = FALSE /\ answered' = {}
    /\ UNCHANGED <<net, disc, db, backup, found, known, missed, budget>>

HandleEvent ==
    /\ evq # << >> /\ evq' = Tail(evq)
    /\ LET e == Head(evq) IN
        \/ e = <<"find">> /\ DeviceDiscoverInner
        \/ e = <<"restart">> /\ DeviceDiscoverInnerRestart
        \/ e = <<"an">> /\ DeviceDiscoverInnerAn
        \/ e = <<"stop">> /\ DeviceDiscoverStopInner
        \/ e = <<"sub">> /\ SubscribeModuleInner
        \/ e = <<"unsub">> /\ UnsubscribeModuleInner
        \/ \E f \in {{}, FilterCaps} : e = <<"filter", f>> /\ SetFilterCapabilityInner(f)
        \/ \E x \in Dev : /\ e = <<"send", x>> /\ SendMsgInner(x)
                          /\ UNCHANGED <<net, disc, db, backup, filter, asked, answered,
                                         found, known, budget>>

-----------------------------------------------------------------------------
(* Timers. *)

(* CoapServiceDiscoverTimerHandle: the next round, or the end. *)
CoapServiceDiscoverTimerHandle ==
    /\ disc.timer
    /\ IF AllRounds \/ ~IsWifiApConnected
       THEN CoapServiceDiscoverStop /\ UNCHANGED budget
       ELSE \E ok \in BOOLEAN :
              /\ PostOk(ok) /\ budget' = LossAfter(ok)
              /\ disc' = IF ok THEN Round(disc) ELSE Abort(disc)
              /\ asked' = (asked /\ ok) /\ UNCHANGED backup
    /\ UNCHANGED <<evq, net, db, filter, answered, found, known, missed>>

(* LocalDeviceOffline, 5 s after the address went. *)
LocalDeviceOffline ==
    /\ net.off
    /\ net' = [net EXCEPT !.off = FALSE, !.ctx = FALSE]
    /\ backup' = {} /\ db' = Empty /\ known' = {} /\ answered' = {}
    /\ UNCHANGED <<evq, disc, filter, asked, found, missed, budget>>

(* PostponeTimerHandle, 500 ms after an address came. *)
PostponeTimerHandle ==
    /\ net.late /\ net' = [net EXCEPT !.late = FALSE]
    /\ CoapServiceDiscoverInner(FALSE) /\ UNCHANGED <<evq, filter, missed>>

-----------------------------------------------------------------------------
(* IfAddrMsgHandle with UpdateLocalNetworkInterface: the address comes,    *)
(* the server is made anew; it goes, the rest follows 5 s later.           *)
IfAddrMsgHandle ==
    /\ budget.net > 0 /\ budget' = [budget EXCEPT !.net = @ - 1]
    /\ net' = IF net.ip THEN [net EXCEPT !.ip = FALSE, !.off = TRUE]
              ELSE [ip |-> TRUE, ctx |-> TRUE, off |-> FALSE, late |-> TRUE]
    /\ UNCHANGED <<evq, disc, db, backup, filter, asked, answered, found, known, missed>>

(* UpdateDeviceDb: whether record e changes with what is heard. *)
Updated(e, i) == db[e] = None \/ db[e] # i

(* UpdateDeviceDb fails: no room, or another type of device. *)
Refused(e, i) ==
    \/ db[e] = None /\ Cardinality(Listed) >= DbSize
    \/ db[e] # None /\ (db[e]).type # i.type

UpdateDeviceDb(e, i) ==
    LET b == [db EXCEPT ![e] = i] IN
    /\ db' = b
    /\ IF Updated(e, i) \/ disc.force THEN DeviceListChangeHandle(b, disc) ELSE UNCHANGED found

(* HndPostServiceDiscover: an answer or a broadcast of device e.  A device *)
(* that goes up or down is reported at once; otherwise it is recorded.     *)
HndPostServiceDiscover ==
    /\ net.ctx /\ net.ip /\ budget.packets > 0
    /\ budget' = [budget EXCEPT !.packets = @ - 1]
    /\ \E e \in Dev, i \in Info, m \in Modes :
        IF m = "upline"
        THEN found' = found \cup {e} /\ UNCHANGED <<disc, db, answered>>
        ELSE IF disc.mode = "upline" \/ Refused(e, i)
        THEN UNCHANGED <<disc, db, answered, found>>
        ELSE /\ UpdateDeviceDb(e, i)
             /\ disc' = [disc EXCEPT !.force = FALSE]
             /\ answered' = IF asked THEN answered \cup {e} ELSE answered
    /\ UNCHANGED <<evq, net, backup, filter, asked, known, missed>>

Call ==
    \/ NSTACKX_StartDeviceFind \/ NSTACKX_StartDeviceFindAn \/ NSTACKX_StopDeviceFind
    \/ NSTACKX_StartDeviceFindRestart \/ NSTACKX_SubscribeModule \/ NSTACKX_UnsubscribeModule
    \/ NSTACKX_SetFilterCapability \/ NSTACKX_SendMsg

Next ==
    \/ Call \/ HandleEvent \/ CoapServiceDiscoverTimerHandle
    \/ LocalDeviceOffline \/ PostponeTimerHandle
    \/ IfAddrMsgHandle \/ HndPostServiceDiscover

Spec == Init /\ [][Next]_dfVars

(* The main loop waits in epoll and handles what is due. *)
Fairness ==
    WF_dfVars(HandleEvent) /\ WF_dfVars(CoapServiceDiscoverTimerHandle) /\ WF_dfVars(LocalDeviceOffline)

LiveSpec == Spec /\ Fairness

-----------------------------------------------------------------------------
(* Type invariant: the rounds never pass the number asked for. *)
DFinderTypeOK ==
    /\ \A k \in DOMAIN evq : evq[k] \in Event
    /\ disc.count \in 0..MaxDiscover /\ disc.subs \in 0..MaxSubs
    /\ \A e \in Dev : db[e] = None \/ db[e] \in Info
    /\ backup \subseteq Dev /\ Cardinality(Listed) <= DbSize

(* While StartDeviceFind's rounds run under the filter it was asked with,   *)
(* every device that answered since the request and passes the filter has been reported found, also when    *)
(* the request came in the middle of other rounds and the device said      *)
(* nothing new (g_forceUpdate).                                            *)
AnswerReported ==
    asked /\ CoapDiscoverRequestOngoing(disc)
        => \A e \in answered : MatchDeviceFilter(db[e]) => e \in found

(* A message to a device that was known when the rounds began finds its    *)
(* record, in the database or in the backup, as long as the rounds run.    *)
KnownReachable == ~missed /\ (disc.count > 0 => known \subseteq Listed \cup backup)

(* The discovery timer is armed exactly while rounds are counted: a failed *)
(* broadcast neither leaves a discovery that never ends nor a round that   *)
(* nobody counts.                                                          *)
RoundsTimed == disc.timer <=> disc.count > 0

RoundsRun == disc.count > 0

(* Rounds come to their end, on whatever path, and leave the way free for  *)
(* the next request.                                                       *)
RoundsEnd == RoundsRun ~> ~RoundsRun
=============================================================================
