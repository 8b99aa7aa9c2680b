--------------------------- MODULE DFinderSupport ---------------------------
(* What the discovery library is built on: its life, the window of message
   numbers, the records of interfaces and the service frame. Each section has
   variables of its own; their specifications are checked side by side. *)
EXTENDS Integers, Sequences, FiniteSets

-----------------------------------------------------------------------------
(***************************************************************************)
(* The life of the DFinder library (nstackx_common.c): NSTACKX_Init, which *)
(* starts the main loop before the modules are there, NSTACKX_Deinit, the  *)
(* loop itself, and NSTACKX_GetDeviceList, which posts an event and waits  *)
(* for the loop's answer on a semaphore.  One thread owns the life; others *)
(* call.  A resource is a name in "held".                                  *)
(***************************************************************************)

CONSTANTS
    LfCaller,   \* threads that ask for the device list
    MaxLives,   \* bound: calls of NSTACKX_Init
    MaxAsked    \* bound: calls of NSTACKX_GetDeviceList

VARIABLES
    initState,  \* g_nstackInitState
    terminate,  \* g_terminateFlag
    held,       \* resources acquired and not given back
    loop,       \* the main loop's thread: "none", "run" or "left"
    owner,      \* where the owning thread is
    chain,      \* events in the pipe: the callers waiting for them
    lfc,        \* per caller: where it is ("lost": its event was dropped)
    early,      \* ghost: callers whose check was of an earlier life
    lives, calls

lfVars == <<initState, terminate, held, loop, owner, chain, lfc, early, lives, calls>>

Device == {"db", "dbBackup", "offTimer"}
P2pUsb == {"p2pTimer", "usbTimer"}
Discover == {"recountTimer", "discoverTimer", "msgIds"}
SmartGenius == {"netlink", "postponeTimer"}
Modules == {"event"} \cup Device \cup P2pUsb \cup Discover \cup SmartGenius

LifeInit ==
    /\ initState = "start" /\ terminate = FALSE /\ held = {} /\ loop = "none"
    /\ owner = "out" /\ chain = << >> /\ lfc = [c \in LfCaller |-> "idle"]
    /\ early = {} /\ lives = 0 /\ calls = 0

-----------------------------------------------------------------------------
(* NSTACKX_Init up to InternalInit: the epoll descriptor and the thread.   *)
Starts ==
    /\ owner = "out" /\ initState = "start" /\ lives < MaxLives
    /\ lives' = lives + 1
    /\ \/ initState' = "start" /\ UNCHANGED <<terminate, held, loop, owner>>   \* no epoll
       \/ /\ initState' = "ongoing" /\ terminate' = FALSE /\ held' = {"epoll"}
          /\ loop' = "none" /\ owner' = "deinit"                               \* no thread
       \/ /\ initState' = "ongoing" /\ terminate' = FALSE /\ held' = {"epoll"}
          /\ loop' = "run" /\ owner' = "event"
    /\ UNCHANGED <<chain, lfc, early, calls>>

(* InternalInit's modules in order; what each holds when it is done, and   *)
(* what its own unwinding leaves when it fails.                            *)
ModuleAt(o) ==
    CASE o = "event" -> [all |-> {"event"}, left |-> {{}}, then |-> "device"]
      [] o = "device" -> [all |-> Device, left |-> {{}}, then |-> "p2pusb"]
      [] o = "p2pusb" -> [all |-> P2pUsb, left |-> {{}, {"p2pTimer"}}, then |-> "discover"]
      [] o = "discover" -> [all |-> Discover, left |-> {{}}, then |-> "smart"]
      [] o = "smart" -> [all |-> SmartGenius, left |-> {{}}, then |-> "done"]

EventModuleInit == owner = "event"
DeviceModuleInit == owner = "device"
P2pUsbTimerInit == owner = "p2pusb"
CoapDiscoverInit == owner = "discover"
SmartGeniusInit == owner = "smart"

InternalInit ==
    /\ EventModuleInit \/ DeviceModuleInit \/ P2pUsbTimerInit \/ CoapDiscoverInit \/ SmartGeniusInit
    /\ LET m == ModuleAt(owner) IN
        \/ held' = held \cup m.all /\ owner' = m.then
        \/ \E l \in m.left : held' = held \cup l /\ owner' = "deinit"
    /\ UNCHANGED <<initState, terminate, loop, chain, lfc, early, lives, calls>>

(* The callbacks are copied, only then calls are let in. *)
InitDone ==
    /\ owner = "done" /\ initState' = "done" /\ owner' = "out"
    /\ UNCHANGED <<terminate, held, loop, chain, lfc, early, lives, calls>>

-----------------------------------------------------------------------------
(* NSTACKX_Deinit, called by the owner or by a failed NSTACKX_Init. *)
DeinitCalled ==
    /\ owner = "out" /\ initState = "done" /\ owner' = "deinit"
    /\ UNCHANGED <<initState, terminate, held, loop, chain, lfc, early, lives, calls>>

MutantNotTold == FALSE

(* g_terminateFlag, when there is a thread to tell. *)
Told == loop # "none"

Terminate ==
    /\ owner = "deinit" /\ terminate' = Told /\ owner' = "join"
    /\ UNCHANGED <<initState, held, loop, chain, lfc, early, lives, calls>>

(* PthreadJoin *)
Joined == loop # "run"

MutantRecountStays(h) == h \ {"discoverTimer", "msgIds"}

(* CoapDiscoverDeinit *)
CoapDiscoverDeinit(h) == h \ Discover

(* SmartGeniusClean *)
SmartGeniusClean(h) == h \ SmartGenius

(* DestroyP2pUsbServerInitRetryTimer *)
DestroyP2pUsbServerInitRetryTimer(h) == h \ P2pUsb

(* DeviceModuleClean *)
DeviceModuleClean(h) == h \ Device

(* EventNodeChainClean and CloseEpollDesc: events in the pipe are lost. *)
NSTACKX_Deinit ==
    /\ owner = "join" /\ Joined
    /\ held' = DeviceModuleClean(DestroyP2pUsbServerInitRetryTimer(
                 CoapDiscoverDeinit(SmartGeniusClean(held)))) \ {"event", "epoll"}
    /\ chain' = << >> /\ loop' = IF loop = "left" THEN "none" ELSE loop
    /\ lfc' = [c \in LfCaller |-> IF lfc[c] = "waits" THEN "lost" ELSE lfc[c]]
    /\ initState' = "start" /\ owner' = "out"
    /\ early' = {c \in LfCaller : lfc[c] = "checked"}
    /\ UNCHANGED <<terminate, lives, calls>>

-----------------------------------------------------------------------------
MutantOngoing == initState # "start"

(* Calls are let in when the initialisation is complete. *)
LetIn == initState = "done"

(* NSTACKX_GetDeviceList: the check, then the event, then the wait. *)
Check(c) ==
    /\ lfc[c] = "idle" /\ calls < MaxAsked /\ calls' = calls + 1
    /\ lfc' = [lfc EXCEPT ![c] = IF LetIn THEN "checked" ELSE "refused"]
    /\ UNCHANGED <<initState, terminate, held, loop, owner, chain, early, lives>>

(* PostEvent fails when the chain has no node for the descriptor. *)
Post(c) ==
    /\ lfc[c] = "checked"
    /\ IF "event" \in held
       THEN chain' = Append(chain, c) /\ lfc' = [lfc EXCEPT ![c] = "waits"]
       ELSE lfc' = [lfc EXCEPT ![c] = "refused"] /\ UNCHANGED chain
    /\ UNCHANGED <<initState, terminate, held, loop, owner, early, lives, calls>>

Return(c) ==
    /\ lfc[c] \in {"refused", "answered"} /\ lfc' = [lfc EXCEPT ![c] = "idle"]
    /\ early' = early \ {c}
    /\ UNCHANGED <<initState, terminate, held, loop, owner, chain, lives, calls>>

-----------------------------------------------------------------------------
MutantNoPost(c) == lfc

(* GetDeviceListInner: the list, then SemPost. *)
GetDeviceListInner(c) == [lfc EXCEPT ![c] = "answered"]

(* NstackMainLoop, one round with an event in the pipe. *)
LoopHandles ==
    /\ loop = "run" /\ ~terminate /\ chain # << >>
    /\ lfc' = GetDeviceListInner(Head(chain)) /\ chain' = Tail(chain)
    /\ UNCHANGED <<initState, terminate, held, loop, owner, early, lives, calls>>

(* The loop leaves when it is told to, or when epoll fails. *)
LoopLeaves ==
    /\ loop = "run" /\ loop' = "left"
    /\ UNCHANGED <<initState, terminate, held, owner, chain, lfc, early, lives, calls>>

LoopEnds == terminate /\ LoopLeaves
EpollFails == ~terminate /\ owner = "out" /\ LoopLeaves

LifeNext ==
    \/ Starts \/ InternalInit \/ InitDone \/ DeinitCalled \/ Terminate \/ NSTACKX_Deinit
    \/ LoopHandles \/ LoopEnds \/ EpollFails
    \/ \E c \in LfCaller : Check(c) \/ Post(c) \/ Return(c)

LifeSpec == LifeInit /\ [][LifeNext]_lfVars

(* The loop is woken by the pipe and, at the latest, by its epoll timeout. *)
LifeFairness == WF_lfVars(LoopHandles) /\ WF_lfVars(LoopEnds) /\ WF_lfVars(NSTACKX_Deinit)

LifeLiveSpec == LifeSpec /\ LifeFairness

-----------------------------------------------------------------------------
(* An NSTACKX_Init that fails, at whichever module, and an NSTACKX_Deinit  *)
(* give everything back: no timer, database, descriptor or thread is left. *)
NothingHeld == initState = "start" => held = {} /\ loop # "run"

(* The loop handles an event only while every module is there, but for the *)
(* call that was let in by one life and posts into the next.               *)
ModulesThere ==
    loop = "run" /\ chain # << >> /\ Head(chain) \notin early => Modules \subseteq held

WaitsForList(c) == lfc[c] = "waits"
LoopGone == loop # "run"
Joining == owner = "join"

(* A caller waiting for the device list is answered unless the loop ends:  *)
(* then the event is dropped and the caller waits for ever.                *)
ListAnswered == \A c \in LfCaller : WaitsForList(c) ~> (~WaitsForList(c) \/ LoopGone)

(* NSTACKX_Deinit comes back. *)
DeinitReturns == Joining ~> ~Joining

-----------------------------------------------------------------------------
(***************************************************************************)
(* DFinder's memory of CoAP message ids (coap_discover.c): a ring of the   *)
(* last ids, each with the time it was last seen, by which a service       *)
(* message that CoAP repeats is handed up once.  Times are kept as ages.   *)
(***************************************************************************)

CONSTANTS
    MsgId,      \* message ids
    Reserve,    \* COAP_MAX_MSGID_RESERVE_NUM: slots, and the index of "empty"
    Survival    \* COAP_MSGID_SURVIVAL_SECONDS


VARIABLES
    slot,      \* msgIdRecord: id and age (capped at Survival) of each slot
    startIdx, endIdx,
    seen,      \* ghost: per id, the age of its last arrival
    later,     \* ghost: per id, records added since its own (capped)
    repeated,  \* ghost: a duplicate has renewed a record
    twice,     \* ghost: a message was handed up although it was remembered
    dropped    \* ghost: a message was dropped that had not been seen lately

mwVars == <<slot, startIdx, endIdx, seen, later, repeated, twice, dropped>>

Slots == 0..(Reserve - 1)
IsEmpty(s) == s >= Reserve
Count(s, e) == IF IsEmpty(s) THEN 0 ELSE ((e + Reserve - s) % Reserve) + 1
Nth(s, k) == (s + k) % Reserve

(* CoapDiscoverInit: the list is zeroed and empty. *)
WindowInit ==
    /\ slot = [i \in Slots |-> [id |-> CHOOSE m \in MsgId : TRUE, age |-> Survival]]
    /\ startIdx = Reserve /\ endIdx = Reserve
    /\ seen = [m \in MsgId |-> Survival] /\ later = [m \in MsgId |-> Reserve]
    /\ repeated = FALSE /\ twice = FALSE /\ dropped = FALSE

-----------------------------------------------------------------------------
MutantOneLess(i) == slot[i].age >= Survival - 1
MutantNeverOver(i) == FALSE

(* A record is over its time. *)
OverTime(i) == slot[i].age >= Survival

(* DeleteOverTimeMsgIdRecord: the oldest records go, up to the first one   *)
(* that is in time; the start after it.                                    *)
DeleteOverTimeMsgIdRecord ==
    LET n == Count(startIdx, endIdx)
        keep == {k \in 0..n : k = n \/ ~OverTime(Nth(startIdx, k))}
        first == CHOOSE k \in keep : \A j \in keep : k <= j
    IN IF IsEmpty(startIdx) \/ first = n THEN Reserve ELSE Nth(startIdx, first)

MutantKeepsStart(s, e) == [at |-> IF IsEmpty(e) THEN 0 ELSE Nth(e, 1), start |-> s]

(* AddMsgIdRecord: the slot after the last; a full ring gives up its       *)
(* oldest record.                                                          *)
NextSlot(s, e) ==
    IF IsEmpty(e) THEN [at |-> 0, start |-> 0]
    ELSE [at |-> Nth(e, 1), start |-> IF Nth(e, 1) = s THEN Nth(s, 1) ELSE s]

(* RefreshMsgIdList's search, from start to end: the slots holding m. *)
Holding(m, s, e) == {i \in {Nth(s, k) : k \in 0..(Count(s, e) - 1)} : slot[i].id = m}

(* HndPostServiceMsg with RefreshMsgIdList: a known id is renewed and the  *)
(* message dropped; another is remembered and handed up.                   *)
HndPostServiceMsg(m) ==
    LET s == DeleteOverTimeMsgIdRecord
        e == IF IsEmpty(s) THEN Reserve ELSE endIdx
        hits == IF IsEmpty(s) THEN {} ELSE Holding(m, s, e)
        next == NextSlot(s, e)
    IN /\ seen' = [seen EXCEPT ![m] = 0]
       /\ IF hits # {}
          THEN /\ slot' = [i \in Slots |-> IF i \in hits THEN [slot[i] EXCEPT !.age = 0] ELSE slot[i]]
               /\ startIdx' = s /\ endIdx' = e /\ repeated' = TRUE
               /\ dropped' = (dropped \/ (seen[m] >= Survival /\ ~repeated))
               /\ UNCHANGED <<later, twice>>
          ELSE /\ slot' = [slot EXCEPT ![next.at] = [id |-> m, age |-> 0]]
               /\ startIdx' = next.start /\ endIdx' = next.at
               /\ later' = [x \in MsgId |-> IF x = m THEN 0
                                            ELSE IF later[x] < Reserve THEN later[x] + 1 ELSE Reserve]
               /\ twice' = (twice \/ (seen[m] < Survival /\ later[m] < Reserve))
               /\ UNCHANGED <<repeated, dropped>>

(* A second goes by. *)
Tick ==
    /\ slot' = [i \in Slots |-> [slot[i] EXCEPT !.age = IF @ < Survival THEN @ + 1 ELSE @]]
    /\ seen' = [m \in MsgId |-> IF seen[m] < Survival THEN seen[m] + 1 ELSE seen[m]]
    /\ UNCHANGED <<startIdx, endIdx, later, repeated, twice, dropped>>

WindowNext == Tick \/ \E m \in MsgId : HndPostServiceMsg(m)

WindowSpec == WindowInit /\ [][WindowNext]_mwVars

-----------------------------------------------------------------------------
(* A message repeated within the survival time is handed up once, as long  *)
(* as no ring's worth of other ids came between: neither the wrap of the   *)
(* ring nor the clean-up of old records loses the record of a live id.     *)
HandedOnce == ~twice

(* A message is dropped only when its id was seen within the survival      *)
(* time, until a duplicate renews a record in place: behind it an old      *)
(* record outlives its time.                                               *)
DropHasCause == ~dropped

(* The two indices are empty together, and a live record is held once. *)
RingWellFormed ==
    /\ IsEmpty(startIdx) <=> IsEmpty(endIdx)
    /\ ~IsEmpty(startIdx) =>
         \A j, k \in 0..(Count(startIdx, endIdx) - 1) :
            slot[Nth(startIdx, j)].id = slot[Nth(startIdx, k)].id => j = k

-----------------------------------------------------------------------------
(***************************************************************************)
(* The record table behind DFinder's device databases                      *)
(* (nstackx_database.c): a block of maxCount records, a map of used bits   *)
(* in rows of RowSize, and a count.  The map has a row more than the       *)
(* records need, so the count alone keeps an allocation inside the block.  *)
(***************************************************************************)

CONSTANTS
    RowSize,      \* NSTACKX_USEDMAP_ROW_SIZE
    MaxRecords    \* table sizes tried

VARIABLES maxCount, usedMap, useCount
rtVars == <<maxCount, usedMap, useCount>>

(* DatabaseInit *)
MapSize == maxCount \div RowSize + 1
Bits == 0..(MapSize * RowSize - 1)

RecordInit == maxCount \in 1..MaxRecords /\ usedMap = {} /\ useCount = 0

(* IsRecordOccupied *)
IsRecordOccupied(i) == i \in usedMap

Lowest(S) == CHOOSE i \in S : \A j \in S : i <= j

MutantOneMore == useCount > maxCount

(* DatabaseAllocRecord refuses when the count is at its limit. *)
Full == useCount >= maxCount

(* DatabaseAllocRecord: the first clear bit, row by row. *)
DatabaseAllocRecord ==
    /\ ~Full
    /\ usedMap' = usedMap \cup {Lowest({b \in Bits : ~IsRecordOccupied(b)})}
    /\ useCount' = useCount + 1 /\ UNCHANGED maxCount

(* DatabaseFreeRecord: out of the block, or not in use, nothing happens. *)
DatabaseFreeRecord(i) ==
    /\ useCount > 0 /\ i < maxCount /\ IsRecordOccupied(i)
    /\ usedMap' = usedMap \ {i} /\ useCount' = useCount - 1 /\ UNCHANGED maxCount

(* DatabaseGetNextRecord: the next used record from index i on; -1: none. *)
DatabaseGetNextRecord(i) ==
    LET behind == {j \in usedMap : i <= j /\ j < maxCount}
    IN IF behind = {} THEN -1 ELSE Lowest(behind)

(* ClearDevices: frees what the walk over the table meets. *)
ClearDevices ==
    LET met == {DatabaseGetNextRecord(i) : i \in 0..(maxCount - 1)} \ {-1}
    IN /\ usedMap' = usedMap \ met /\ useCount' = useCount - Cardinality(met)
       /\ UNCHANGED maxCount

RecordNext ==
    \/ DatabaseAllocRecord \/ ClearDevices
    \/ \E i \in 0..MaxRecords : DatabaseFreeRecord(i)

RecordSpec == RecordInit /\ [][RecordNext]_rtVars

(* Every used record lies in the block, and the count is that of the used  *)
(* bits, whatever is freed in which order.                                 *)
RecordsInBlock ==
    usedMap \subseteq 0..(maxCount - 1) /\ useCount = Cardinality(usedMap)

-----------------------------------------------------------------------------
(***************************************************************************)
(* The frame of a DFinder service message (coap_discover.c): its length,   *)
(* then three units, module name, device id and message, each a type, a    *)
(* length and a value; and NSTACKX_SendMsg's limits on the three.  A frame *)
(* is the units by their place in it; a value is its length.               *)
(***************************************************************************)

CONSTANTS
    NameLens, IdLens, DataLens,  \* lengths tried
    NameMax,                     \* NSTACKX_MAX_MODULE_NAME_LEN
    IdMax,                       \* NSTACKX_MAX_DEVICE_ID_LEN
    DataMax,                     \* NSTACKX_MAX_SENDMSG_DATA_LEN
    RxMax                        \* COAP_RXBUFFER_SIZE

VARIABLES msg, phase, frame, got
sfVars == <<msg, phase, frame, got>>

LenField == 2     \* sizeof(frameLen)
UnitHead == 3     \* sizeof(CoapMsgUnit)
NoFrame == [len |-> 0, units |-> {}]
Nothing == [name |-> 0, id |-> 0, data |-> 0]

FrameInit ==
    /\ msg \in [name : NameLens, id : IdLens, data : DataLens]
    /\ phase = "call" /\ frame = NoFrame /\ got = Nothing

(* NSTACKX_SendMsgParamCheck and the copies of NSTACKX_SendMsg, which need *)
(* room for the terminating zero; the own device id was checked the same   *)
(* way when the device was registered.                                     *)
Accepted(m) ==
    m.name <= NameMax /\ m.name < NameMax /\ m.id < IdMax /\ m.data \in 1..DataMax

(* strlen + 1: names travel with their terminating zero. *)
WithZero(n) == n + 1

MutantWithoutLen(m) == 3 * UnitHead + WithZero(m.name) + WithZero(m.id) + m.data

(* bufferLen *)
BufferLen(m) == LenField + 3 * UnitHead + WithZero(m.name) + WithZero(m.id) + m.data

(* CreateServiceMsgFrame *)
CreateServiceMsgFrame(m) ==
    LET at1 == LenField
        at2 == at1 + UnitHead + WithZero(m.name)
        at3 == at2 + UnitHead + WithZero(m.id)
    IN [len |-> BufferLen(m) % 65536,
        units |-> {[at |-> at1, type |-> "name", len |-> WithZero(m.name), zero |-> TRUE],
                   [at |-> at2, type |-> "id", len |-> WithZero(m.id), zero |-> TRUE],
                   [at |-> at3, type |-> "msg", len |-> m.data, zero |-> FALSE]}]

(* CoapSendServiceMsgWithDefiniteTargetIp *)
Send ==
    /\ phase = "call"
    /\ IF Accepted(msg) THEN frame' = CreateServiceMsgFrame(msg) /\ phase' = "sent"
       ELSE phase' = "refused" /\ UNCHANGED frame
    /\ UNCHANGED <<msg, got>>

(* GetUnitInfo: the length of the unit of that type at that place, 0 when  *)
(* there is none, it does not fit the buffer, or runs over the frame.      *)
GetUnitInfo(f, at, type, outLen) ==
    LET fits == {u \in f.units : /\ u.at = at /\ u.type = type
                                 /\ UnitHead <= f.len - at
                                 /\ u.len \in 1..outLen /\ u.len + UnitHead <= f.len - at
                                 /\ type \in {"name", "id"} => u.zero}
    IN IF fits = {} THEN 0 ELSE (CHOOSE u \in fits : TRUE).len

(* ParseServiceMsgFrame: nothing left behind the unit is an error. *)
Bad(n, rest) == n = 0 \/ n + UnitHead >= rest

ParseServiceMsgFrame(f) ==
    LET n == GetUnitInfo(f, LenField, "name", NameMax)
        at2 == LenField + n + UnitHead
        i == GetUnitInfo(f, at2, "id", IdMax)
        at3 == at2 + i + UnitHead
        d == GetUnitInfo(f, at3, "msg", f.len - at3)
    IN IF \/ f.len < LenField + UnitHead
          \/ Bad(n, f.len - LenField)
          \/ Bad(i, f.len - at2)
          \/ d = 0
       THEN Nothing
       ELSE [name |-> n - 1, id |-> i - 1, data |-> d]

(* ReadServiceMsg *)
ReadServiceMsg ==
    /\ phase = "sent"
    /\ got' = IF frame.len > RxMax THEN Nothing ELSE ParseServiceMsgFrame(frame)
    /\ phase' = "received" /\ UNCHANGED <<msg, frame>>

FrameNext == Send \/ ReadServiceMsg

FrameSpec == FrameInit /\ [][FrameNext]_sfVars

(* What NSTACKX_SendMsg accepts arrives with every length as it was: the   *)
(* limits of the sender, the frame's arithmetic and the bounds checked by  *)
(* the receiver agree up to their last value.                              *)
FrameReadBack == phase = "received" => got = msg

=============================================================================
