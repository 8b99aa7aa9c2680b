---------------------------- MODULE AppCallbacks ----------------------------
(***************************************************************************)
(* The callbacks an application registers with the bus center client for    *)
(* longer than one answer (client_bus_center_manager.c): node state         *)
(* callbacks, bounded in number, and time synchronization callbacks per     *)
(* network id.                                                              *)
(*                                                                          *)
(* An event copies the list under g_busCenterClient.lock and calls the      *)
(* copies unlocked, so registering and unregistering from a callback is     *)
(* possible and a callback may be called after it was unregistered.         *)
(* Stopping a time synchronization holds the lock and asks the service once *)
(* per listed callback, again and again while the service does not answer.  *)
(***************************************************************************)
EXTENDS Naturals, Sequences, FiniteSets, SequencesExt

CONSTANTS CbThread, NodeCb, SyncCb, MaxNodeCb, MaxEvents, MaxOutages, CbNil

VARIABLES nodeList, nodeCnt, \* nodeStateCbList and nodeStateCbListCnt
          syncList,          \* timeSyncCbList of one network id
          cbLock,            \* g_busCenterClient.lock
          cbThr,             \* application threads
          todos,             \* the thread that delivers events: copies it has still to call
          events, outages,   \* counters
          svcThere,          \* the service answers
          synced             \* what the service keeps running for this application

acbVars == <<nodeList, nodeCnt, syncList, cbLock, cbThr, todos, events, outages, svcThere, synced>>

CallbackInit ==
    /\ nodeList = <<>> /\ nodeCnt = 0 /\ syncList = <<>>
    /\ cbLock = CbNil
    /\ cbThr = [t \in CbThread |-> "idle"]
    /\ todos = <<>>
    /\ events = 0 /\ outages = 0 /\ svcThere = TRUE /\ synced = FALSE

\* Node state callbacks.  Calls that take and release the lock in one stretch are one step.
RoomForOne == nodeCnt < MaxNodeCb
RegNodeDeviceStateCbInner(t, cb) ==
    /\ cbThr[t] = "idle" /\ cbLock = CbNil
    /\ RoomForOne
    /\ nodeList' = <<cb>> \o nodeList
    /\ nodeCnt' = nodeCnt + 1
    /\ UNCHANGED <<syncList, cbLock, cbThr, todos, events, outages, svcThere, synced>>

\* The loop takes the first entry that equals the callback and counts it down there; a callback that
\* is not listed changes nothing.
FirstOf(cb) == {i \in DOMAIN nodeList : nodeList[i] = cb /\ \A j \in 1 .. i - 1 : nodeList[j] # cb}
MutantCountsAfterLoop(t, cb) ==
    /\ cbThr[t] = "idle" /\ cbLock = CbNil
    /\ nodeCnt' = nodeCnt - 1
    /\ \/ FirstOf(cb) = {} /\ UNCHANGED nodeList
       \/ \E i \in FirstOf(cb) : nodeList' = RemoveAt(nodeList, i)
    /\ UNCHANGED <<syncList, cbLock, cbThr, todos, events, outages, svcThere, synced>>
UnregNodeDeviceStateCbInner(t, cb) ==
    /\ cbThr[t] = "idle" /\ cbLock = CbNil
    /\ \/ FirstOf(cb) = {} /\ UNCHANGED <<nodeList, nodeCnt>>
       \/ \E i \in FirstOf(cb) : nodeList' = RemoveAt(nodeList, i) /\ nodeCnt' = nodeCnt - 1
    /\ UNCHANGED <<syncList, cbLock, cbThr, todos, events, outages, svcThere, synced>>

\* The client is shut down: the node state callbacks go, the time synchronization callbacks stay.
BusCenterClientDeinit(t) ==
    /\ cbThr[t] = "idle" /\ cbLock = CbNil
    /\ nodeList' = <<>> /\ nodeCnt' = 0
    /\ UNCHANGED <<syncList, cbLock, cbThr, todos, events, outages, svcThere, synced>>

\* An event: copy the list, then call one after the other.
Copied(list) == Reverse(list)
Event(list) ==
    /\ todos = <<>> /\ cbLock = CbNil /\ events < MaxEvents
    /\ events' = events + 1
    /\ todos' = Copied(list)
    /\ UNCHANGED <<nodeList, nodeCnt, syncList, cbLock, cbThr, outages, svcThere, synced>>
LnnOnNodeOnlineStateChanged == nodeList # <<>> /\ Event(nodeList)
LnnOnNodeBasicInfoChanged == nodeList # <<>> /\ Event(nodeList)
LnnOnTimeSyncResult == synced /\ Event(syncList)
CallOne ==
    /\ todos # <<>>
    /\ todos' = Tail(todos)
    /\ UNCHANGED <<nodeList, nodeCnt, syncList, cbLock, cbThr, events, outages, svcThere, synced>>

\* Time synchronization: the lock is kept while the service is asked.
StartTimeSyncInner(t, cb) ==
    /\ cbThr[t] = "idle" /\ cbLock = CbNil
    /\ cb \notin Range(syncList)
    /\ IF svcThere THEN syncList' = <<cb>> \o syncList /\ synced' = TRUE
                   ELSE UNCHANGED <<syncList, synced>>
    /\ UNCHANGED <<nodeList, nodeCnt, cbLock, cbThr, todos, events, outages, svcThere>>

StopTimeSyncInner(t) ==
    /\ cbThr[t] = "idle" /\ cbLock = CbNil
    /\ cbLock' = t
    /\ cbThr' = [cbThr EXCEPT ![t] = "stopping"]
    /\ UNCHANGED <<nodeList, nodeCnt, syncList, todos, events, outages, svcThere, synced>>
\* One round of its loop.
MutantKeepsItem(ok) == DOMAIN syncList
ItemsLeft(ok) == IF ok THEN DOMAIN syncList \ {1} ELSE DOMAIN syncList
StopRound(t) ==
    /\ cbThr[t] = "stopping"
    /\ IF syncList = <<>>
       THEN /\ cbThr' = [cbThr EXCEPT ![t] = "idle"] /\ cbLock' = CbNil
            /\ UNCHANGED <<syncList, synced>>
       ELSE /\ syncList' = SubSeq(syncList, Len(syncList) - Cardinality(ItemsLeft(svcThere)) + 1, Len(syncList))
            /\ synced' = (synced /\ ~svcThere)
            /\ UNCHANGED <<cbThr, cbLock>>
    /\ UNCHANGED <<nodeList, nodeCnt, todos, events, outages, svcThere>>

ServiceGone ==
    /\ svcThere /\ outages < MaxOutages
    /\ svcThere' = FALSE /\ synced' = FALSE /\ outages' = outages + 1
    /\ UNCHANGED <<nodeList, nodeCnt, syncList, cbLock, cbThr, todos, events>>
ServiceBack ==
    /\ ~svcThere
    /\ svcThere' = TRUE
    /\ UNCHANGED <<nodeList, nodeCnt, syncList, cbLock, cbThr, todos, events, outages, synced>>

CallbackNext ==
    \/ \E t \in CbThread, cb \in NodeCb : RegNodeDeviceStateCbInner(t, cb) \/ UnregNodeDeviceStateCbInner(t, cb)
    \/ LnnOnNodeOnlineStateChanged \/ LnnOnNodeBasicInfoChanged \/ LnnOnTimeSyncResult \/ CallOne
    \/ \E t \in CbThread, cb \in SyncCb : StartTimeSyncInner(t, cb)
    \/ \E t \in CbThread : StopTimeSyncInner(t) \/ StopRound(t) \/ BusCenterClientDeinit(t)
    \/ ServiceGone \/ ServiceBack

CallbackSpec == CallbackInit /\ [][CallbackNext]_acbVars
CallbackFairness == WF_acbVars(ServiceBack) /\ \A t \in CbThread : WF_acbVars(StopRound(t))
CallbackLiveSpec == CallbackSpec /\ CallbackFairness

CallbackTypeOK ==
    /\ Range(nodeList) \subseteq NodeCb /\ Range(syncList) \subseteq SyncCb
    /\ cbLock \in CbThread \cup {CbNil} /\ svcThere \in BOOLEAN /\ synced \in BOOLEAN

\* The counter that bounds the node state callbacks, kept apart from their list, is its length: an
\* application that registers, unregisters and shuts down for ever, duplicates and unknown callbacks
\* included, neither runs out of places nor gets more than the limit.
CountIsLength == nodeCnt = Len(nodeList) /\ nodeCnt <= MaxNodeCb

\* Stopping a time synchronization returns, and gives the lock back, provided the service comes back.
Stopping(t) == cbThr[t] = "stopping"
StopReturns == \A t \in CbThread : Stopping(t) ~> ~Stopping(t)
=============================================================================
