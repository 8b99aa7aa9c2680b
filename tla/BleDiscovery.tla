---------------------------- MODULE BleDiscovery ----------------------------
(* Discovery over BLE: the managers of publications and subscriptions, and
   the advertisements. Each section has variables of its own; their
   specifications are checked side by side. *)
EXTENDS Integers, Sequences, FiniteSets, SequencesExt

-----------------------------------------------------------------------------
(* Discovery over Bluetooth low energy (disc_ble.c) and the adapter under it *)
(* (softbus_adapter_ble_gatt.c): callers register capabilities under         *)
(* g_bleInfoLock and post a message; the looper makes the two advertisers    *)
(* and the scanner follow what is registered; the stack's thread brings the  *)
(* packets of peers, which a device that publishes passively answers for a   *)
(* while.  The Bluetooth stack is external: it may refuse a call, and forgets *)
(* everything when it is turned off.                                         *)

CONSTANTS Cap, BleCaller, MaxCalls, MaxEvents, MaxRefusals, BleNil

VARIABLES info,     \* g_bleInfoManager[mode].capCount
          infoLock, \* who holds g_bleInfoLock
          regs,     \* how often a capability is registered, as the callers know
          call,     \* the callers in ProcessBleDiscFunc
          bt,       \* Bluetooth is on
          advert,   \* g_bleAdvertiser and what is on the air
          scan,     \* [flag: g_isScanning, air: the stack scans]
          looper,   \* messages of the handler, in order
          hand,     \* what the looper still has to do of the message it took
          timers,   \* delayed PROCESS_TIME_OUT messages: the records they point to
          recv,     \* g_recvMessageInfo: the list
          numNeed,  \* numNeedBrMac, numNeedResp
          cb,       \* the stack's thread in BleScanResultCallback
          used,     \* [calls, events, refusals] of the bounds
          odd       \* what has gone wrong: see the properties

bdVars == <<info, infoLock, regs, call, bt, advert, scan, looper, hand, timers, recv, numNeed, cb, used, odd>>

Mode == {"pubActive", "pubPassive", "subActive", "subPassive"}
Idle == [pc |-> "idle"]
Resting == [pc |-> "idle", key |-> BleNil, id |-> 0]
NoAdvert == [flag |-> FALSE, on |-> FALSE, caps |-> {}, late |-> 0]

BleDiscInit ==
    /\ info = [m \in Mode |-> [c \in Cap |-> 0]] /\ regs = info
    /\ infoLock = BleNil /\ call = [c \in BleCaller |-> Idle] /\ bt = TRUE
    /\ advert = [a \in {"con", "non"} |-> NoAdvert]
    /\ scan = [flag |-> FALSE, air |-> FALSE]
    /\ looper = <<>> /\ hand = Resting /\ timers = {} /\ recv = <<>> /\ numNeed = 0
    /\ cb = Resting
    /\ used = [calls |-> 0, events |-> 0, refusals |-> 0]
    /\ odd = {}

Caps(m) == {c \in Cap : info[m][c] > 0}
MutantNotPassive == Caps("subActive") \cup Caps("subPassive") # {}
CheckScanner == Caps("subActive") \cup Caps("subPassive") \cup Caps("pubPassive") # {}
Ids == {recv[i].id : i \in DOMAIN recv}

-----------------------------------------------------------------------------
(* Callers.  The count is read and written under the lock. *)

What(m, start) ==
    IF start THEN [pubActive |-> "PUBLISH_ACTIVE", pubPassive |-> "PUBLISH_PASSIVE",
                   subActive |-> "START_ACTIVE", subPassive |-> "START_PASSIVE"][m]
    ELSE IF m \in {"pubActive", "pubPassive"} THEN "UNPUBLISH" ELSE "STOP_DISCOVERY"

ProcessBleDiscFunc(c, m, k, start) ==
    /\ call[c] = Idle /\ bt /\ used.calls < MaxCalls
    /\ start \/ regs[m][k] > 0
    /\ infoLock = BleNil /\ infoLock' = c
    /\ call' = [call EXCEPT ![c] = [pc |-> "write", mode |-> m, cap |-> k, start |-> start, count |-> info[m][k]]]
    /\ regs' = [regs EXCEPT ![m][k] = @ + (IF start THEN 1 ELSE -1)]
    /\ used' = [used EXCEPT !.calls = @ + 1]
    /\ UNCHANGED <<info, bt, advert, scan, looper, hand, timers, recv, numNeed, cb, odd>>

BleStartActivePublish(c, k) == ProcessBleDiscFunc(c, "pubActive", k, TRUE)
BleStartPassivePublish(c, k) == ProcessBleDiscFunc(c, "pubPassive", k, TRUE)
BleStopActivePublish(c, k) == ProcessBleDiscFunc(c, "pubActive", k, FALSE)
BleStopPassivePublish(c, k) == ProcessBleDiscFunc(c, "pubPassive", k, FALSE)
BleStartActiveDiscovery(c, k) == ProcessBleDiscFunc(c, "subActive", k, TRUE)
BleStartPassiveDiscovery(c, k) == ProcessBleDiscFunc(c, "subPassive", k, TRUE)
BleStopActiveDiscovery(c, k) == ProcessBleDiscFunc(c, "subActive", k, FALSE)
BleStopPassiveDiscovery(c, k) == ProcessBleDiscFunc(c, "subPassive", k, FALSE)

RegisterCapability(count) == count + 1
MutantDropsAll(count) == 0
UnregisterCapability(count) == IF count = 0 THEN 0 ELSE count - 1

ProcessBleInfoManager(c) ==
    /\ call[c].pc = "write"
    /\ LET r == call[c]
       IN info' = [info EXCEPT ![r.mode][r.cap] =
              IF r.start THEN RegisterCapability(r.count) ELSE UnregisterCapability(r.count)]
    /\ infoLock' = BleNil
    /\ call' = [call EXCEPT ![c].pc = "post"]
    /\ UNCHANGED <<regs, bt, advert, scan, looper, hand, timers, recv, numNeed, cb, used, odd>>

CallPosts(c) ==
    /\ call[c].pc = "post"
    /\ looper' = Append(looper, What(call[c].mode, call[c].start))
    /\ call' = [call EXCEPT ![c] = Idle]
    /\ UNCHANGED <<info, infoLock, regs, bt, advert, scan, hand, timers, recv, numNeed, cb, used, odd>>

-----------------------------------------------------------------------------
(* The advertisers.  r is an advertiser, caps what its GetDeviceInfo finds   *)
(* ({}: it fails), w tells whether the stack does what it is asked.          *)

SoftBusStopAdv(r, w) == IF w.stop THEN [r EXCEPT !.flag = FALSE, !.on = FALSE, !.caps = {}, !.late = 2] ELSE r
SoftBusStartAdv(r, caps, w) ==
    IF w.start THEN [flag |-> TRUE, on |-> TRUE, caps |-> caps, late |-> 0] ELSE r
SoftBusUpdateAdv(r, caps, w) == SoftBusStartAdv(SoftBusStopAdv(r, w), caps, w)
StopAdvertiser(r, w) == IF r.flag THEN SoftBusStopAdv(r, w) ELSE r
MutantStays(r, caps, w) == IF caps = {} THEN r ELSE SoftBusUpdateAdv(r, caps, w)
UpdateAdvertiser(r, caps, w) == IF caps = {} THEN StopAdvertiser(r, w) ELSE SoftBusUpdateAdv(r, caps, w)
StartAdvertiser(r, caps, w) ==
    IF r.flag THEN UpdateAdvertiser(r, caps, w)
    ELSE IF caps = {} THEN StopAdvertiser(r, w) ELSE SoftBusStartAdv(r, caps, w)

(* Of several requests of peers only the last in the list counts. *)
MatchRecvMessage == IF recv = <<>> THEN {} ELSE {Last(recv).cap} \cap Caps("pubPassive")
GetConDeviceInfo == Caps("subActive")
GetNonDeviceInfo == Caps("pubActive") \cup MatchRecvMessage

Works == IF ~bt THEN {[stop |-> FALSE, start |-> FALSE]}
         ELSE {w \in [stop : BOOLEAN, start : BOOLEAN] : (w.stop /\ w.start) \/ used.refusals < MaxRefusals}
Refusal(w) ==
    IF bt /\ ~(w.stop /\ w.start) THEN used' = [used EXCEPT !.refusals = @ + 1] /\ odd' = odd \cup {"refused"}
    ELSE UNCHANGED <<used, odd>>

(* Stopping the answering advertiser also clears the list of requests. *)
ClearRecvMessage(was) ==
    IF was.flag /\ GetNonDeviceInfo = {}
    THEN recv' = <<>>
    ELSE UNCHANGED recv

Advertise(a, Op(_, _, _)) ==
    \E w \in Works :
        /\ advert' = [advert EXCEPT ![a] = Op(@, IF a = "con" THEN GetConDeviceInfo ELSE GetNonDeviceInfo, w)]
        /\ Refusal(w)
        /\ IF a = "non" THEN ClearRecvMessage(advert[a]) ELSE UNCHANGED recv

Take(m) == looper # <<>> /\ hand.pc = "idle" /\ Head(looper) = m /\ looper' = Tail(looper)
AlsoScan == hand' = [hand EXCEPT !.pc = "scan"]
HandlerKeeps == UNCHANGED <<info, infoLock, regs, call, bt, scan, timers, numNeed, cb>>

StartActivePublish ==
    Take("PUBLISH_ACTIVE") /\ Advertise("non", StartAdvertiser) /\ UNCHANGED hand /\ HandlerKeeps

StartPassivePublish ==
    /\ Take("PUBLISH_PASSIVE")
    /\ IF advert["non"].flag THEN Advertise("non", UpdateAdvertiser) ELSE UNCHANGED <<advert, recv, used, odd>>
    /\ AlsoScan /\ HandlerKeeps

HandleUnpublish ==
    /\ Take("UNPUBLISH")
    /\ IF advert["non"].flag THEN Advertise("non", UpdateAdvertiser) ELSE UNCHANGED <<advert, recv, used, odd>>
    /\ AlsoScan /\ HandlerKeeps

StartActiveDiscovery ==
    /\ Take("START_ACTIVE") /\ Advertise("con", StartAdvertiser)
    /\ hand' = [hand EXCEPT !.pc = IF GetConDeviceInfo = {} \/ (bt /\ used'.refusals = used.refusals) THEN "scan" ELSE "idle"]
    /\ HandlerKeeps

StartPassiveDiscovery ==
    Take("START_PASSIVE") /\ AlsoScan /\ HandlerKeeps /\ UNCHANGED <<advert, recv, used, odd>>

HandleStopDiscovery ==
    /\ Take("STOP_DISCOVERY")
    /\ IF advert["con"].flag THEN Advertise("con", UpdateAdvertiser) ELSE Advertise("con", StartAdvertiser)
    /\ AlsoScan /\ HandlerKeeps

HandleReply ==
    Take("REPLY") /\ Advertise("non", StartAdvertiser) /\ UNCHANGED hand /\ HandlerKeeps

Restarted ==
    LET w == [stop |-> bt, start |-> bt]
    IN [a \in {"con", "non"} |->
            StartAdvertiser(advert[a], IF a = "con" THEN GetConDeviceInfo ELSE GetNonDeviceInfo, w)]
Recovery ==
    /\ Take("RECOVERY")
    /\ advert' = Restarted /\ ClearRecvMessage(advert["non"])
    /\ AlsoScan /\ HandlerKeeps /\ UNCHANGED <<used, odd>>

(* The handler looks for RECOVERY where TURN_OFF is meant, and does nothing. *)
BleDiscTurnOff ==
    Take("TURN_OFF") /\ HandlerKeeps /\ UNCHANGED <<hand, advert, recv, used, odd>>

-----------------------------------------------------------------------------
(* The scanner. *)

StopScaner(s, works) ==
    IF s.flag /\ works THEN [flag |-> FALSE, air |-> FALSE] ELSE s
RunScan(s, works) == IF works /\ ~s.flag THEN [flag |-> TRUE, air |-> TRUE] ELSE s

StartScaner ==
    /\ hand.pc = "scan" /\ infoLock = BleNil
    /\ hand' = Resting
    /\ \E w \in Works :
        /\ Refusal(w)
        /\ scan' = IF ~CheckScanner THEN StopScaner(scan, w.stop)
                   ELSE RunScan(StopScaner(scan, w.stop), w.start)
    /\ UNCHANGED <<info, infoLock, regs, call, bt, advert, looper, timers, recv, numNeed, cb>>

-----------------------------------------------------------------------------
(* The stack: switched off and on, late callbacks, packets. *)

Flip(on, m) ==
    /\ bt = ~on /\ bt' = on /\ used.events < MaxEvents
    /\ used' = [used EXCEPT !.events = @ + 1]
    /\ looper' = Append(looper, m)
BleOnStateChanged ==
    /\ \/ /\ Flip(FALSE, "TURN_OFF")
          /\ scan' = [scan EXCEPT !.air = FALSE]
          /\ advert' = [a \in DOMAIN advert |-> [advert[a] EXCEPT !.on = FALSE, !.caps = {}]]
       \/ Flip(TRUE, "RECOVERY") /\ UNCHANGED <<scan, advert>>
    /\ UNCHANGED <<info, infoLock, regs, call, hand, timers, recv, numNeed, cb, odd>>

(* The stack confirms a start and a stop some time later, in order, and only *)
(* for the number its last start returned: late confirmations matter after a *)
(* stop (late: how many are outstanding), until the next start.              *)
AdvCallbackKeeps == UNCHANGED <<info, infoLock, regs, call, bt, scan, looper, hand, timers, recv, numNeed, cb, used, odd>>
BleAdvEnableCallback(a) ==
    /\ advert[a].late = 2
    /\ advert' = [advert EXCEPT ![a].late = 1, ![a].flag = TRUE] /\ AdvCallbackKeeps
BleAdvDisableCallback(a) ==
    /\ advert[a].late = 1
    /\ advert' = [advert EXCEPT ![a].late = 0, ![a].flag = FALSE] /\ AdvCallbackKeeps

CbKeeps == UNCHANGED <<regs, call, bt, advert, hand>>

(* A packet of a peer: key identifies its content, BleNil is one that asks   *)
(* for nothing; ScanFilter looks at what is registered.                      *)
ScanFilter(key) ==
    /\ scan.air /\ scan.flag /\ cb.pc = "idle" /\ used.events < MaxEvents
    /\ infoLock = BleNil
    /\ used' = [used EXCEPT !.events = @ + 1]
    /\ cb' = [pc |-> IF CheckScanner THEN "unlock" ELSE "stop", key |-> key, id |-> 0]
    /\ CbKeeps /\ UNCHANGED <<info, infoLock, scan, looper, timers, recv, numNeed, odd>>

FilterStopsScan ==
    /\ cb.pc = "stop" /\ cb' = Resting /\ ~(CheckScanner /\ bt /\ scan.flag)
    /\ \E w \in Works : Refusal(w) /\ scan' = StopScaner(scan, w.stop)
    /\ CbKeeps /\ UNCHANGED <<info, infoLock, looper, timers, recv, numNeed>>

(* Something was registered since the filter looked. *)
FilterStopsWanted ==
    /\ cb.pc = "stop" /\ cb' = Resting /\ CheckScanner /\ bt /\ scan.flag
    /\ scan' = StopScaner(scan, TRUE) /\ odd' = odd \cup {"overtaken"}
    /\ CbKeeps /\ UNCHANGED <<info, infoLock, looper, timers, recv, numNeed, used>>

(* ScanFilter ends with an unlock of a lock it does not hold. *)
FilterUnlocks ==
    /\ cb.pc = "unlock"
    /\ infoLock' = BleNil
    /\ odd' = IF infoLock = BleNil THEN odd ELSE odd \cup {"unlocked"}
    /\ cb' = IF cb.key = BleNil THEN Resting ELSE [cb EXCEPT !.pc = "add"]
    /\ CbKeeps /\ UNCHANGED <<info, scan, looper, timers, recv, numNeed, used>>

GetRecvMessage(key) == {i \in DOMAIN recv : recv[i].key = key}
CapOf(key) == key[1]

AddRecvMessage ==
    IF GetRecvMessage(cb.key) # {}
    THEN /\ cb' = [cb EXCEPT !.pc = "retime", !.id = (recv[CHOOSE i \in GetRecvMessage(cb.key) : TRUE]).id]
         /\ UNCHANGED <<recv, numNeed>>
    ELSE /\ cb' = [cb EXCEPT !.pc = "timer", !.id = used.events]
         /\ recv' = Append(recv, [id |-> used.events, key |-> cb.key, cap |-> CapOf(cb.key)])
         /\ numNeed' = numNeed + 1

ProcessDisConPacket ==
    /\ cb.pc = "add" /\ infoLock = BleNil
    /\ IF CapOf(cb.key) \in Caps("pubPassive") THEN AddRecvMessage
       ELSE cb' = Resting /\ UNCHANGED <<recv, numNeed>>
    /\ CbKeeps /\ UNCHANGED <<info, infoLock, scan, looper, timers, used, odd>>

Freed(id) == id \notin Ids
MutantNoTimer(id) == timers
RemoveTimeout(id) == timers \ {id}
TimersWith(id) == timers \cup {id}

RestartTimeout ==
    /\ cb.pc = "retime"
    /\ IF Freed(cb.id) THEN odd' = odd \cup {"freed"} /\ UNCHANGED <<timers, cb>>
       ELSE timers' = RemoveTimeout(cb.id) /\ cb' = [cb EXCEPT !.pc = "timer"] /\ UNCHANGED odd
    /\ CbKeeps /\ UNCHANGED <<info, infoLock, scan, looper, recv, numNeed, used>>

StartTimeout ==
    /\ cb.pc = "timer"
    /\ IF Freed(cb.id) THEN odd' = odd \cup {"freed"} /\ UNCHANGED <<timers, cb>>
       ELSE timers' = TimersWith(cb.id) /\ cb' = [cb EXCEPT !.pc = "reply"] /\ UNCHANGED odd
    /\ CbKeeps /\ UNCHANGED <<info, infoLock, scan, looper, recv, numNeed, used>>

ReplyPassiveNonBroadcast ==
    /\ cb.pc = "reply" /\ cb' = Resting /\ looper' = Append(looper, "REPLY")
    /\ CbKeeps /\ UNCHANGED <<info, infoLock, scan, timers, recv, numNeed, used, odd>>

(* A timer: taken off the queue, then RemoveRecvMessage follows its pointer. *)
TimerTaken(id) ==
    /\ id \in timers /\ hand.pc = "idle"
    /\ timers' = timers \ {id}
    /\ hand' = [pc |-> "timeout", key |-> BleNil, id |-> id]
    /\ UNCHANGED <<info, infoLock, regs, call, bt, advert, scan, looper, recv, numNeed, cb, used, odd>>

MutantKeepsTimer(id) == timers
TimersAfterRemove(id) == timers \ {id}
RemoveRecvMessage(id) ==
    /\ timers' = TimersAfterRemove(id)
    /\ recv' = SelectSeq(recv, LAMBDA r : r.id # id)
    /\ numNeed' = numNeed - 1
ProcessTimeout ==
    /\ hand.pc = "timeout"
    /\ IF Freed(hand.id)
       THEN odd' = odd \cup {"freed"} /\ UNCHANGED <<hand, timers, recv, numNeed>>
       ELSE RemoveRecvMessage(hand.id) /\ hand' = [hand EXCEPT !.pc = "update"] /\ UNCHANGED odd
    /\ UNCHANGED <<info, infoLock, regs, call, bt, advert, scan, looper, cb, used>>

UpdateAfterTimeout ==
    /\ hand.pc = "update" /\ hand' = Resting
    /\ Advertise("non", UpdateAdvertiser)
    /\ UNCHANGED <<looper>> /\ HandlerKeeps

Handler ==
    \/ StartActivePublish \/ StartPassivePublish \/ HandleUnpublish \/ StartActiveDiscovery
    \/ StartPassiveDiscovery \/ HandleStopDiscovery \/ HandleReply \/ Recovery \/ BleDiscTurnOff
    \/ StartScaner \/ ProcessTimeout \/ UpdateAfterTimeout \/ (\E id \in timers : TimerTaken(id))

Stack ==
    \/ BleOnStateChanged \/ FilterStopsScan \/ FilterStopsWanted \/ FilterUnlocks \/ ProcessDisConPacket
    \/ RestartTimeout \/ StartTimeout \/ ReplyPassiveNonBroadcast
    \/ \E a \in {"con", "non"} : BleAdvEnableCallback(a) \/ BleAdvDisableCallback(a)
    \/ \E key \in (Cap \X {1, 2}) \cup {BleNil} : ScanFilter(key)

Callers ==
    \E c \in BleCaller :
        \/ \E k \in Cap :
            \/ BleStartActivePublish(c, k) \/ BleStartPassivePublish(c, k)
            \/ BleStopActivePublish(c, k) \/ BleStopPassivePublish(c, k)
            \/ BleStartActiveDiscovery(c, k) \/ BleStartPassiveDiscovery(c, k)
            \/ BleStopActiveDiscovery(c, k) \/ BleStopPassiveDiscovery(c, k)
        \/ ProcessBleInfoManager(c) \/ CallPosts(c)

(* After a use of freed memory nothing more is said. *)
BleDiscNext == "freed" \notin odd /\ (Handler \/ Stack \/ Callers)
BleDiscSpec == BleDiscInit /\ [][BleDiscNext]_bdVars

-----------------------------------------------------------------------------
(* Type invariant of the tables of disc_ble.c. *)
BleDiscTypeOK ==
    /\ \A m \in Mode, k \in Cap : info[m][k] \in 0..MaxCalls /\ regs[m][k] \in 0..MaxCalls
    /\ infoLock \in BleCaller \cup {BleNil} /\ numNeed \in 0..MaxEvents
    /\ odd \subseteq {"refused", "overtaken", "unlocked", "freed"}
    /\ \A a \in {"con", "non"} : advert[a].on => advert[a].caps # {}

InWrite(m, k, start) ==
    Cardinality({c \in BleCaller : call[c].pc = "write" /\ call[c].mode = m /\ call[c].cap = k /\ call[c].start = start})

(* RegisterCapability, UnregisterCapability: a capability counts as often as *)
(* it is registered, unless ScanFilter has released the lock under a caller. *)
CountsMatch ==
    "unlocked" \notin odd =>
        \A m \in Mode, k \in Cap : regs[m][k] = info[m][k] + InWrite(m, k, TRUE) - InWrite(m, k, FALSE)

Settled ==
    /\ bt /\ looper = <<>> /\ hand.pc = "idle" /\ cb.pc = "idle"
    /\ \A c \in BleCaller : call[c] = Idle
    /\ odd = {}

(* When all messages are handled, the scanner runs exactly if somebody       *)
(* subscribes or publishes passively, Bluetooth turned off and on included.  *)
ScannerFollows ==
    Settled => (scan.air <=> Caps("subActive") \cup Caps("subPassive") \cup Caps("pubPassive") # {})

(* When all messages are handled, the connectable advertisement tells just   *)
(* what is searched actively, and the other one all that is published        *)
(* actively and nothing that is not published.                               *)
AdvertsFollow ==
    Settled =>
        /\ advert["con"].caps = Caps("subActive")
        /\ Caps("pubActive") \subseteq advert["non"].caps
        /\ advert["non"].caps \subseteq Caps("pubActive") \cup Caps("pubPassive")

(* AddRecvMessage: a request of a peer is kept only while a timer, or the    *)
(* thread that will start it, is there to remove it.                         *)
RequestsTimed ==
    \A i \in DOMAIN recv :
        \/ recv[i].id \in timers
        \/ hand.pc = "timeout" /\ hand.id = recv[i].id
        \/ cb.pc \in {"retime", "timer"} /\ cb.id = recv[i].id

(* RemoveRecvMessage: a timer that is pending points to a request that is in *)
(* the list, unless ClearRecvMessage freed requests and left their timers:   *)
(* numNeedBrMac still counts these.                                          *)
TimersPoint == numNeed = Len(recv) => timers \subseteq Ids

-----------------------------------------------------------------------------
(* What a device puts on the air for the capabilities it publishes or looks  *)
(* for, and what the device that scans reads from it (disc_ble.c,            *)
(* disc_ble_utils.c): the conversion of capability bitmaps, the type-length- *)
(* value fields, the split into advertisement and scan response, parsing.    *)
(* A byte is a tuple that says what it is a byte of.                         *)

CONSTANTS Bit,          \* the bits an application's capability bitmap may have
          MaxBitNum,    \* CAPABILITY_MAX_BITNUM
          AdvDataMaxLen, RespDataMaxLen,
          HashLen, MacLen, AdvHeadLen

VARIABLES publish,   \* what is registered on the device that advertises
          subscribe, \* and on the device that scans
          advId, needBrMac, wakeRemote,
          air,       \* the advertisement and the scan response
          found      \* the DeviceInfo the scanning device reports

baVars == <<publish, subscribe, advId, needBrMac, wakeRemote, air, found>>

BoardcastMaxLen == AdvDataMaxLen + RespDataMaxLen
Bytes(what, n) == [i \in 1..n |-> <<what, i>>]

ConvertCapBitMap(caps) ==
    IF caps = {7} THEN {4} ELSE IF caps = {3} THEN {1} ELSE IF caps = {5} THEN {2} ELSE caps
Registered(caps) == {b \in caps : b < MaxBitNum}

(* The discovery manager passes one capability at a time. *)
AdvertInit ==
    /\ publish \in {{b} : b \in Bit} /\ subscribe \in {{b} : b \in Bit}
    /\ advId \in {"con", "non"} /\ needBrMac \in BOOLEAN /\ wakeRemote \in BOOLEAN
    /\ air = <<>> /\ found = <<>>

Tl(type, len) == <<"tl", type, len>>
MutantCountsTl(d, type, value) ==
    IF Len(d) >= BoardcastMaxLen THEN d ELSE d \o <<Tl(type, (Len(value) + 1) % 16)>> \o value
AssembleTLV(d, type, value) ==
    IF Len(d) >= BoardcastMaxLen THEN d
    ELSE LET room == BoardcastMaxLen - (Len(d) + 1)
             len == Len(value) % 16
         IN d \o <<Tl(type, len)>> \o SubSeq(value, 1, IF len > room THEN room ELSE len)

Extension == {"cust"} \cup (IF advId = "con" THEN {"con"} ELSE {})
                      \cup (IF advId = "con" /\ wakeRemote THEN {"wake"} ELSE {})
GetBroadcastData(caps) ==
    LET head == <<<<"version", 4>>, <<"business", 5>>, <<"ext", Extension>>, <<"user", 1>>, <<"user", 2>>,
                  <<"cap", caps>>, <<"capExt", {}>>>>
        hash == AssembleTLV(head, "hash", Bytes("hash", HashLen))
        type == AssembleTLV(hash, "type", Bytes("type", 1))
    IN IF advId = "non" /\ needBrMac THEN AssembleTLV(type, "mac", Bytes("mac", MacLen)) ELSE type

(* StartAdvertiser: what does not fit in the advertisement goes in the scan  *)
(* response.                                                                 *)
BuildBleConfigAdvData(d) ==
    LET n == IF Len(d) > AdvDataMaxLen THEN AdvDataMaxLen ELSE Len(d)
    IN [adv |-> Bytes("advHead", AdvHeadLen) \o SubSeq(d, 1, n), rsp |-> SubSeq(d, n + 1, Len(d))]

SendAdvert ==
    /\ air = <<>>
    /\ air' = <<BuildBleConfigAdvData(GetBroadcastData(Registered(ConvertCapBitMap(publish))))>>
    /\ UNCHANGED <<publish, subscribe, advId, needBrMac, wakeRemote, found>>

(* Positions count from 0 in the code.  A field that goes on after the       *)
(* advertisement is read there: those bytes are not the field's.             *)
At(data, i) == IF i < Len(data) THEN data[i + 1] ELSE <<"beyond", i>>
ParseRecvAdvData(data, type, index) ==
    CASE Len(data) <= index -> [len |-> 0, value |-> <<>>]
      [] Len(data) > index /\ (At(data, index)[1] # "tl" \/ At(data, index)[2] # type) -> [len |-> 0, value |-> <<>>]
      [] OTHER ->
            LET n == At(data, index)[3]
            IN [len |-> IF n = 0 THEN 0 ELSE n + 1, value |-> [i \in 1..n |-> At(data, index + i)]]

GetDeviceInfoFromDisAdvData(data) ==
    LET first == AdvHeadLen + 7
        hash == ParseRecvAdvData(data, "hash", first)
        type == ParseRecvAdvData(data, "type", first + hash.len)
        mac == ParseRecvAdvData(data, "mac", first + hash.len + type.len)
    IN [caps |-> At(data, AdvHeadLen + 5)[2], devId |-> hash.value, devType |-> type.value, mac |-> mac.value]

MutantSubscribesRaw(caps) == caps
WantedCaps(caps) == Registered(ConvertCapBitMap(caps))

(* BleScanResultCallback on the other device: a connectable packet is        *)
(* matched with what is published, any other with what is searched.          *)
ProcessDistributePacket ==
    /\ air # <<>> /\ found = <<>>
    /\ LET device == GetDeviceInfoFromDisAdvData(air[1].adv)
       IN found' = <<[device EXCEPT !.caps = @ \cap WantedCaps(subscribe)]>>
    /\ UNCHANGED <<publish, subscribe, advId, needBrMac, wakeRemote, air>>

AdvertNext == SendAdvert \/ ProcessDistributePacket
AdvertSpec == AdvertInit /\ [][AdvertNext]_baVars

-----------------------------------------------------------------------------
(* A device that publishes a capability and one that looks for the same meet *)
(* (the bitmap that is reported is not empty), though both sides renumber    *)
(* some capabilities and keep only 8 of them.                                *)
SameCapabilityMeets ==
    found # <<>> /\ publish = subscribe /\ (\E b \in publish : b < MaxBitNum) => found[1].caps # {}

(* The identity and the type of the device are read as they were written,    *)
(* and the address of the device as far as it fits in the advertisement: its *)
(* last bytes are in the scan response, and what is read instead is not it.  *)
FieldsDecoded ==
    found # <<>> =>
        /\ found[1].devId = Bytes("hash", HashLen) /\ found[1].devType = Bytes("type", 1)
        /\ found[1].mac # <<>> <=> advId = "non" /\ needBrMac
        /\ \A i \in DOMAIN found[1].mac :
              found[1].mac[i] = <<"mac", i>> \/ i > MacLen - Len(air[1].rsp)

=============================================================================
