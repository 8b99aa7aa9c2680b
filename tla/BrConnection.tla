---------------------------- MODULE BrConnection ----------------------------
(* The BR connections: connections and their requests, the queue of the
   sending thread, and the receiving of packets. Each section has variables
   of its own; their specifications are checked side by side. *)
EXTENDS Integers, Sequences, FiniteSets, SequencesExt

-----------------------------------------------------------------------------
(***************************************************************************)
(* The connection table of classic Bluetooth (br_connection.c): requests   *)
(* to connect that share a link, the reference count of a link, which both *)
(* ends are meant to keep, and the events of the driver (external).        *)
(*                                                                         *)
(* Requests run in threads of their own, driver events in one thread; the  *)
(* driver reports the loss of a listed link only.  A message about         *)
(* references carries a change; the parser refuses negative numbers        *)
(* (GetJsonObjectNumberItem), so only an increase arrives.                 *)
(*                                                                         *)
(* g_connectionLock has the default type, and the thread that reports a    *)
(* lost link takes it twice: where a lock nests (LiteOS) it goes on, else  *)
(* it waits for itself and keeps the lock for ever.                        *)
(***************************************************************************)

CONSTANTS BrReq,     \* requests to connect
          BrMac,     \* addresses of peers
          MaxLinks,  \* bound: links made
          MaxDelta   \* bound: increases the peer reports for a link

VARIABLES links,     \* links by connection id, as far as made
          req,       \* the state of each request
          driver     \* the driver's thread: an event being worked on

bcVars == <<links, req, driver>>

NoEvent == [pc |-> "idle", conn |-> 0, left |-> 0, tell |-> {}, seen |-> {}]

BrInit ==
    /\ links = [c \in {} |-> 0]
    /\ req = [r \in BrReq |-> [pc |-> "idle", mac |-> CHOOSE m \in BrMac : TRUE, conn |-> 0,
                               answers |-> 0, refused |-> FALSE]]
    /\ driver = NoEvent

\* A link that is gone was freed; one that is lost is in no list and not freed.
Listed == {c \in DOMAIN links : links[c].state \notin {"gone", "lost"}}
NewLink(mac, state, side, reqs) ==
    [c \in DOMAIN links \cup {Cardinality(DOMAIN links) + 1} |->
        IF c \in DOMAIN links THEN links[c]
        ELSE [mac |-> mac, state |-> state, side |-> side, ref |-> 1, reqs |-> reqs,
              uses |-> IF side = "server" THEN 1 ELSE 0]]
Room == Cardinality(DOMAIN links) < MaxLinks
LockFree == driver.pc # "blocked"

-----------------------------------------------------------------------------
(* ConnectDevice. *)

MutantGoesOn(fits) == "checked"

\* A request that does not fit returns an error.
AfterCheck(fits) == IF fits THEN "checked" ELSE "done"

\* HasDiffMacDeviceExit, without the lock: a link to another device, or one the
\* peer made, refuses the request.
CheckOthers(r, mac) ==
    LET fits == \A c \in Listed : links[c].mac = mac /\ links[c].side = "client"
    IN  /\ req[r].pc = "idle"
        /\ req' = [req EXCEPT ![r].mac = mac, ![r].pc = AfterCheck(fits),
                              ![r].answers = IF fits THEN 0 ELSE 1]
        /\ UNCHANGED <<links, driver>>

\* ConnectDeviceFristTime: the link is listed before the driver connects; when
\* that fails, the request is refused and stays in the link's list.
FirstTime(r) ==
    \/ /\ req' = [req EXCEPT ![r].pc = "done", ![r].answers = @ + 1]   \* no socket
       /\ UNCHANGED links
    \/ /\ Room /\ links' = NewLink(req[r].mac, "connecting", "client", {r})
       /\ \E fails \in BOOLEAN :
             req' = [req EXCEPT ![r].pc = IF fails THEN "done" ELSE "waiting", ![r].refused = fails,
                                ![r].answers = IF fails THEN @ + 1 ELSE @]

\* Under the lock: use a link that is there, join one being made, or make one.
ConnectLocked(r) ==
    LET same == {c \in Listed : links[c].mac = req[r].mac}
        up == {c \in same : links[c].state = "connected"}
    IN  /\ req[r].pc = "checked" /\ LockFree /\ UNCHANGED driver
        /\ IF up # {}
           THEN \E c \in up : /\ req' = [req EXCEPT ![r].pc = "pack", ![r].conn = c, ![r].answers = @ + 1]
                              /\ links' = [links EXCEPT ![c].uses = @ + 1]
           ELSE IF same # {}
           THEN \E c \in same : /\ links' = [links EXCEPT ![c].reqs = @ \cup {r}]
                                /\ req' = [req EXCEPT ![r].pc = "waiting"]
           ELSE FirstTime(r)

\* PackRequest: the count changes, if the link is still there; the peer is told.
Counted(c, d) == IF c \in Listed THEN [links EXCEPT ![c].ref = @ + d] ELSE links

\* ConnectDeviceExit after it told the caller.
PackConnect(r) ==
    /\ req[r].pc = "pack" /\ LockFree /\ links' = Counted(req[r].conn, 1)
    /\ req' = [req EXCEPT ![r].pc = "using"] /\ UNCHANGED driver

\* DisconnectDevice by a user of the link.
DisconnectDevice(r) ==
    LET c == req[r].conn
    IN  /\ req[r].pc = "using" /\ LockFree /\ req' = [req EXCEPT ![r].pc = "done"] /\ UNCHANGED driver
        /\ links' = IF c \in Listed THEN [Counted(c, -1) EXCEPT ![c].uses = @ - 1] ELSE links

-----------------------------------------------------------------------------
(* The driver. *)

MutantOneMore(n) == n

\* DeviceConnectPackRequest counts every request but the first.
PacksFor(n) == n - 1

\* ClientOnBrConnect: the link is up, its requests are taken.
ClientOnBrConnect(c) ==
    /\ driver.pc = "idle" /\ c \in Listed /\ links[c].state = "connecting"
    /\ links' = [links EXCEPT ![c].state = "connected", ![c].reqs = {}, ![c].uses = @ + Cardinality(links[c].reqs)]
    /\ driver' = [NoEvent EXCEPT !.pc = "pack", !.conn = c, !.left = PacksFor(Cardinality(links[c].reqs)),
                                  !.tell = links[c].reqs]
    /\ UNCHANGED req

\* One PackRequest for each.
PackOne ==
    /\ driver.pc = "pack" /\ driver.left > 0
    /\ links' = Counted(driver.conn, 1) /\ driver' = [driver EXCEPT !.left = @ - 1] /\ UNCHANGED req

\* The requests are told.
TellConnected ==
    /\ driver.pc = "pack" /\ driver.left <= 0
    /\ req' = [r \in BrReq |-> IF r \notin driver.tell THEN req[r]
                               ELSE [req[r] EXCEPT !.answers = @ + 1, !.conn = driver.conn,
                                                   !.pc = IF @ = "waiting" THEN "using" ELSE @]]
    /\ driver' = NoEvent /\ UNCHANGED links

MutantDropsRequests(c) == {}

\* The requests a lost link has to answer.
RequestsOf(c) == links[c].reqs

\* ClientOnBrDisconnect, also for a link the peer made: the requests are taken,
\* and ReleaseConnectionRef frees the link, or waits for the lock its caller holds.
OnBrDisconnect(c) ==
    /\ driver.pc = "idle" /\ c \in Listed /\ UNCHANGED req
    /\ \E nests \in BOOLEAN :
          /\ links' = [links EXCEPT ![c].state = IF nests THEN "gone" ELSE "closed", ![c].reqs = {}]
          /\ driver' = [NoEvent EXCEPT !.pc = IF nests THEN "fail" ELSE "blocked", !.conn = c,
                                        !.tell = RequestsOf(c)]

\* NotifyDisconnect, after the lock was given back.
NotifyDisconnect ==
    /\ driver.pc = "fail" /\ driver' = NoEvent /\ UNCHANGED links
    /\ req' = [r \in BrReq |-> IF r \notin driver.tell THEN req[r]
                               ELSE [req[r] EXCEPT !.answers = @ + 1, !.pc = "done"]]

\* ServerOnBrConnect: the link is made, and put in the list, without the lock.
ServerOnBrConnect ==
    /\ driver.pc = "idle" /\ Room
    /\ driver' = [NoEvent EXCEPT !.pc = "listing", !.seen = Listed] /\ UNCHANGED <<links, req>>

\* Its address is read through info, which is NULL: the process ends (the
\* behaviour stops here), no address comes of it, or any.  A link another thread
\* put in the list meanwhile may be overwritten.
ServerLists ==
    /\ driver.pc = "listing" /\ driver' = NoEvent /\ UNCHANGED req
    /\ \/ UNCHANGED links
       \/ \E mac \in BrMac, lost \in {{}, Listed \ driver.seen} :
             /\ Room
             /\ links' = [c \in 1 .. Cardinality(DOMAIN links) + 1 |->
                            IF c \in lost THEN [links[c] EXCEPT !.state = "lost"]
                            ELSE NewLink(mac, "connected", "server", {})[c]]

\* OnPackResponse for an increase the peer reports; a link is closed only when
\* both counts are down, which no message that arrives says.
OnPackResponse(c) ==
    /\ c \in Listed /\ links[c].state = "connected" /\ LockFree
    /\ links[c].uses < Cardinality(BrReq) + MaxDelta
    /\ links' = [links EXCEPT ![c].ref = @ + 1, ![c].uses = @ + 1] /\ UNCHANGED <<req, driver>>

BrNext ==
    \/ \E r \in BrReq : \/ \E mac \in BrMac : CheckOthers(r, mac)
                        \/ ConnectLocked(r) \/ PackConnect(r) \/ DisconnectDevice(r)
    \/ \E c \in DOMAIN links : ClientOnBrConnect(c) \/ OnBrDisconnect(c) \/ OnPackResponse(c)
    \/ PackOne \/ TellConnected \/ NotifyDisconnect
    \/ ServerOnBrConnect \/ ServerLists

BrSpec == BrInit /\ [][BrNext]_bcVars

-----------------------------------------------------------------------------
(* Properties. *)

\* The type of every variable.
BrTypeOK ==
    /\ \A c \in DOMAIN links : links[c].state \in {"connecting", "connected", "closed", "gone", "lost"} /\ links[c].reqs \subseteq BrReq
    /\ \A r \in BrReq : req[r].pc \in {"idle", "checked", "pack", "waiting", "using", "done"}

\* The count of a link that is up is what its users on both sides hold: one for
\* each request that was answered with it, minus those given back, and what the
\* peer reported, once the calls that count have run.
RefsMatchUses ==
    \A c \in Listed :
        links[c].state = "connected" =>
            links[c].ref + Cardinality({r \in BrReq : req[r].pc = "pack" /\ req[r].conn = c})
                + (IF driver.pc = "pack" /\ driver.conn = c THEN driver.left ELSE 0) = links[c].uses

\* Whoever waits for a link is in the list of exactly one, or about to be told,
\* whichever of its making and its loss comes first.  A link that another thread's
\* ListAdd overwrote keeps those who wait for it.
WaitersHeld ==
    \A r \in BrReq : req[r].pc = "waiting" =>
        Cardinality({c \in DOMAIN links : r \in links[c].reqs}) + (IF r \in driver.tell THEN 1 ELSE 0) = 1

\* A request gets one answer, except one that the driver refused at once: it
\* stays in the list of the link and is answered again.
OneAnswer == \A r \in BrReq : req[r].answers <= 1 \/ req[r].refused

-----------------------------------------------------------------------------
(***************************************************************************)
(* Sending over classic Bluetooth (br_connection.c): items of all          *)
(* connections in one list, ordered by priority within a process id, a     *)
(* list of process ids with their item counts, served in turn, and one     *)
(* sending thread, which waits while the link is congested.                *)
(*                                                                         *)
(* g_connectionLock is modelled by its holder; the lock of a connection    *)
(* and of the queue are held within one step.  What a default mutex does   *)
(* when its holder takes it again, or when it is given back by another     *)
(* thread, and what a freed connection holds, is left open: every outcome  *)
(* is allowed.                                                             *)
(***************************************************************************)

CONSTANTS BrConn,     \* connections
          Pid,        \* process ids
          BrPrio,     \* priorities, as numbers
          MaxItems,   \* bound: items posted
          MaxCongest, \* bound: times a link is congested
          BrQueueMax, \* g_brSendQueueMaxLen
          BrPieces    \* writes an item needs (dataLen / g_brSendPeerLen)

VARIABLES alive,     \* g_conection_list, the newest first
          sendList,  \* g_dataQueue.sendList
          pidList,   \* g_dataQueue.pidList: [pid, count]
          sendPid,   \* sendPid (not declared in the file: taken to keep its value)
          sender,    \* the sending thread
          glock,     \* holder of g_connectionLock
          congested, \* conGestState of each connection
          event,     \* the driver's thread: the event it works on
          posted,    \* items posted
          jams,      \* congestions so far
          purged     \* a queue of a process id went while others had items in it

bqVars == <<alive, sendList, pidList, sendPid, sender, glock, congested, event, posted, jams, purged>>

NoItem == [id |-> 0]
AtRest == [pc |-> "idle", item |-> NoItem, left |-> 0, node |-> NoItem]
NoBrEvent == [pc |-> "idle", conn |-> CHOOSE c \in BrConn : TRUE]
Closed(c) == event.conn = c /\ event.pc \in {"clear", "release", "blocked"}
Freed(c) == c \notin Range(alive)

BrQueueInit ==
    /\ alive = SetToSeq(BrConn) /\ sendList = <<>> /\ pidList = <<>> /\ sendPid = 0
    /\ sender = AtRest /\ glock = "free" /\ congested = [c \in BrConn |-> FALSE] /\ event = NoBrEvent
    /\ posted = 0 /\ jams = 0 /\ purged = FALSE

-----------------------------------------------------------------------------
(* PostBytes. *)

MutantBeforeEqual(item, new) == item.pid = new.pid /\ item.prio <= new.prio

\* The new item goes before this one.
GoesBefore(item, new) == item.pid = new.pid /\ item.prio < new.prio

\* CreateNewSendItem: before the first item of the process that is less urgent.
Inserted(new) ==
    LET at == {i \in DOMAIN sendList : GoesBefore(sendList[i], new)}
    IN  IF at = {} THEN Append(sendList, new)
        ELSE LET i == CHOOSE i \in at : \A j \in at : i <= j IN InsertAt(sendList, i, new)

MutantNewNode(pid) == Append(pidList, [pid |-> pid, count |-> 1])

\* The process's node, made when it has none.
PidCounted(pid) ==
    LET at == {i \in DOMAIN pidList : pidList[i].pid = pid}
    IN  IF at = {} THEN Append(pidList, [pid |-> pid, count |-> 1])
        ELSE [pidList EXCEPT ![CHOOSE i \in at : TRUE].count = @ + 1]

PostBytes(c, pid, prio) ==
    /\ glock = "free" /\ posted < MaxItems
    /\ Len(sendList) <= BrQueueMax /\ c \in Range(alive)
    /\ posted' = posted + 1
    /\ sendList' = Inserted([id |-> posted + 1, conn |-> c, pid |-> pid, prio |-> prio])
    /\ pidList' = PidCounted(pid)
    /\ UNCHANGED <<alive, sendPid, sender, glock, congested, event, jams, purged>>

-----------------------------------------------------------------------------
(* SendHandlerLoop. *)

\* The next process, in turn; its node goes to the end while it has items.
TakePid ==
    IF pidList = <<>> THEN UNCHANGED <<pidList, sendPid>>
    ELSE LET p == Head(pidList)
         IN  /\ sendPid' = p.pid
             /\ pidList' = IF p.count = 1 THEN Tail(pidList)
                           ELSE Append(Tail(pidList), [p EXCEPT !.count = @ - 1])

\* Its first item leaves the list; without one the last item is sent, and stays.
TakeItem ==
    /\ sender.pc = "idle" /\ sendList # <<>> /\ TakePid
    /\ LET of == {i \in DOMAIN sendList : sendList[i].pid = sendPid'}
           i == IF of = {} THEN Len(sendList) ELSE CHOOSE i \in of : \A j \in of : i <= j
       IN  /\ sender' = [AtRest EXCEPT !.pc = "lookup", !.item = sendList[i], !.left = BrPieces]
           /\ sendList' = IF of = {} THEN sendList ELSE RemoveAt(sendList, i)
    /\ UNCHANGED <<alive, glock, congested, event, posted, jams, purged>>

\* The node whose state, lock and condition SendData goes by: its loop over the
\* list does not stop at the connection of the item.
NodeOf == Last(alive)

\* SendData looks for the connection and keeps g_connectionLock.
FindConn ==
    /\ sender.pc = "lookup" /\ glock = "free"
    /\ IF sender.item.conn \in Range(alive)
       THEN sender' = [sender EXCEPT !.pc = "send", !.node = NodeOf] /\ glock' = "sender"
       ELSE sender' = AtRest /\ UNCHANGED glock
    /\ UNCHANGED <<alive, sendList, pidList, sendPid, congested, event, posted, jams, purged>>

\* One piece is written; after the last one g_connectionLock is given back,
\* unless a wait did so (freeLock).
Write ==
    /\ sender' = IF sender.left = 1 THEN AtRest ELSE [sender EXCEPT !.pc = "send", !.left = @ - 1]
    /\ glock' = IF sender.left = 1 /\ glock = "sender" THEN "free" ELSE glock

\* g_connectionLock is given back before a wait, also when an earlier wait did:
\* then it may be another thread's.
Unlocked == IF glock = "sender" THEN {"free"} ELSE {glock, "free"}

\* The sender locks, or waits on, what was freed, and does not come back.
Astray == sender' = [sender EXCEPT !.pc = "astray"] /\ UNCHANGED glock

\* Under the lock of the node: wait while it is congested and connected, or write.
SendPiece ==
    /\ sender.pc = "send"
    /\ \/ (~congested[sender.node] \/ Closed(sender.node) \/ Freed(sender.node)) /\ Write
       \/ /\ congested[sender.node] /\ ~Closed(sender.node) /\ ~Freed(sender.node)
          /\ sender' = [sender EXCEPT !.pc = "wait"] /\ glock' \in Unlocked
       \/ Freed(sender.node) /\ Astray
    /\ UNCHANGED <<alive, sendList, pidList, sendPid, congested, event, posted, jams, purged>>

\* Woken: the piece is written without looking again, once the lock of the node
\* is taken.
SendWoken ==
    /\ sender.pc = "woken" /\ (Write \/ (Freed(sender.node) /\ Astray))
    /\ UNCHANGED <<alive, sendList, pidList, sendPid, congested, event, posted, jams, purged>>

SenderStep == TakeItem \/ FindConn \/ SendPiece \/ SendWoken

-----------------------------------------------------------------------------
(* Events of the driver, in one thread. *)

EventLocks(c) == event.pc = "idle" /\ glock = "free" /\ c \in Range(alive)
EventEnds == event' = NoBrEvent /\ glock' = "free"

\* pthread_cond_broadcast.
Broadcast(c) ==
    IF sender.pc = "wait" /\ sender.node = c THEN [sender EXCEPT !.pc = "woken"] ELSE sender

\* RfcomCongestEvent.
CongestOn(c) ==
    /\ EventLocks(c) /\ ~congested[c] /\ jams < MaxCongest
    /\ congested' = [congested EXCEPT ![c] = TRUE] /\ jams' = jams + 1
    /\ UNCHANGED <<alive, sendList, pidList, sendPid, sender, glock, event, posted, purged>>

\* The flag is set, then the sender is woken.
EventSets(c) == congested' = [congested EXCEPT ![c] = FALSE] /\ UNCHANGED sender
EventCasts(c) == sender' = Broadcast(c) /\ UNCHANGED congested

CongestOff(c) ==
    /\ EventLocks(c) /\ congested[c] /\ EventSets(c)
    /\ glock' = "event" /\ event' = [pc |-> "cast", conn |-> c]
    /\ UNCHANGED <<alive, sendList, pidList, sendPid, posted, jams, purged>>

CongestCast ==
    /\ event.pc = "cast" /\ EventCasts(event.conn) /\ EventEnds
    /\ UNCHANGED <<alive, sendList, pidList, sendPid, posted, jams, purged>>

MutantLeavesWaiting(c) == sender

\* FreeCongestEvent.
FreeCongest(c) == Broadcast(c)

\* ClearSendItemByConnId: the items of the connection, and the nodes of their
\* processes, also when these have items for other connections.
ClearSendItem(c) ==
    LET gone == {sendList[i].pid : i \in {j \in DOMAIN sendList : sendList[j].conn = c}}
    IN  /\ sendList' = SelectSeq(sendList, LAMBDA x : x.conn # c)
        /\ pidList' = SelectSeq(pidList, LAMBDA x : x.pid \notin gone)
        /\ purged' = (purged \/ \E i \in DOMAIN sendList : sendList[i].conn # c /\ sendList[i].pid \in gone)

\* ClientOnBrDisconnect: under g_connectionLock the node is closed and the sender
\* woken ...
Disconnected(c) ==
    /\ EventLocks(c) /\ glock' = "event" /\ event' = [pc |-> "clear", conn |-> c]
    /\ congested' = [congested EXCEPT ![c] = FALSE] /\ sender' = FreeCongest(c)
    /\ UNCHANGED <<alive, sendList, pidList, sendPid, posted, jams, purged>>

\* ... its items are cleared ...
DisconnectClears ==
    /\ event.pc = "clear" /\ ClearSendItem(event.conn) /\ event' = [event EXCEPT !.pc = "release"]
    /\ UNCHANGED <<alive, sendPid, sender, glock, congested, posted, jams>>

\* ... and ReleaseConnectionRef takes the lock again and frees the node, or waits
\* for a lock its own thread holds.
ReleaseConnectionRef ==
    /\ \/ /\ event.pc = "release" \/ (event.pc = "blocked" /\ glock = "free")
          /\ alive' = SelectSeq(alive, LAMBDA c : c # event.conn) /\ EventEnds
       \/ /\ event.pc = "release" /\ event' = [event EXCEPT !.pc = "blocked"]
          /\ UNCHANGED <<alive, glock>>
    /\ UNCHANGED <<sendList, pidList, sendPid, sender, congested, posted, jams, purged>>

EventStep == CongestCast \/ DisconnectClears \/ ReleaseConnectionRef

BrQueueNext ==
    \/ \E c \in BrConn : \/ \E pid \in Pid, prio \in BrPrio : PostBytes(c, pid, prio)
                         \/ CongestOn(c) \/ CongestOff(c) \/ Disconnected(c)
    \/ SenderStep \/ EventStep

\* The threads run, and the driver reports the end of a congestion.
BrQueueFairness ==
    /\ WF_bqVars(SenderStep) /\ WF_bqVars(EventStep)
    /\ \A c \in BrConn : SF_bqVars(CongestOff(c))

BrQueueSpec == BrQueueInit /\ [][BrQueueNext]_bqVars
BrQueueLiveSpec == BrQueueSpec /\ BrQueueFairness

-----------------------------------------------------------------------------
(* Properties. *)

\* The type of every variable.
BrQueueTypeOK ==
    /\ Len(sendList) <= BrQueueMax + 1 /\ sender.left \in 0 .. BrPieces
    /\ \A i \in DOMAIN pidList : pidList[i].count \in 1 .. MaxItems
    /\ glock \in {"free", "sender", "event"} /\ event.conn \in BrConn /\ Range(alive) \subseteq BrConn

\* A process has one node, which counts its items in the list: otherwise the
\* sending thread takes an item of a process that has none and sends, and
\* frees, the last one in the list instead.  Disconnecting a connection whose
\* processes also use another one breaks it.
PidsCount ==
    purged \/ \A pid \in Pid :
        LET nodes == SelectSeq(pidList, LAMBDA x : x.pid = pid)
            n == Cardinality({i \in DOMAIN sendList : sendList[i].pid = pid})
        IN  IF n = 0 THEN nodes = <<>> ELSE Len(nodes) = 1 /\ nodes[1].count = n

\* Items of one process are sent the urgent ones first and, among equals, in the
\* order they were posted.
UrgentFirst ==
    \A i, j \in DOMAIN sendList :
        i < j /\ sendList[i].pid = sendList[j].pid =>
            \/ sendList[i].prio > sendList[j].prio
            \/ sendList[i].prio = sendList[j].prio /\ sendList[i].id < sendList[j].id

Resting == sender.pc = "idle"
ReturnedOrStopped == Resting \/ sender.pc = "astray" \/ event.pc = "blocked"

\* The sending thread does not stay with an item: the end of a congestion, or
\* the loss of the link, wakes it, whatever the order of event and wait, also
\* when it waits for another link than the item's.  Two things stop it: the
\* driver's thread that waits in ReleaseConnectionRef for g_connectionLock, which
\* it holds, and a node freed between the sender's waking and its going on.
SenderReturns == ~Resting ~> ReturnedOrStopped

-----------------------------------------------------------------------------
(***************************************************************************)
(* Receiving over classic Bluetooth (br_connection.c): the stream of a     *)
(* link comes in pieces of any length, packets are cut out of it and       *)
(* queued for the receiving thread, authentication in front.               *)
(*                                                                         *)
(* The stream is a sequence of units <<packet, place>>; a header is the    *)
(* HeadUnits first ones.  recvBuf keeps what was copied to it.             *)
(* Pieces that would not fit in recvBuf, whose copy fails while recvPos    *)
(* still grows, are left out.                                              *)
(***************************************************************************)

CONSTANTS BrPkts,     \* number of packets sent
          HeadUnits,  \* sizeof(ConnPktHead)
          BodyUnits,  \* possible lengths of a body
          MaxPiece,   \* longest piece the driver delivers
          BufUnits    \* g_brBuffSize

VARIABLES pkts,       \* [body, auth] of each packet
          taken,      \* units of the stream delivered by the driver
          recvBuf,    \* recvBuf, all of it
          recvPos,    \* recvPos
          recvQueue,  \* g_recvQueue.recvList
          upward,     \* packets given to the upper layer
          spliced     \* a piece held the end of one packet and more, uncopied

brVars == <<pkts, taken, recvBuf, recvPos, recvQueue, upward, spliced>>

Size(p) == HeadUnits + pkts[p].body
Stream == FlattenSeq([p \in 1 .. BrPkts |-> [i \in 1 .. Size(p) |-> <<p, i>>]])
NoUnit == <<0, 0>>

BrRecvInit ==
    /\ pkts \in [1 .. BrPkts -> [body : BodyUnits, auth : BOOLEAN]]
    /\ taken = 0 /\ recvBuf = [i \in 1 .. BufUnits |-> NoUnit] /\ recvPos = 0
    /\ recvQueue = <<>> /\ upward = <<>> /\ spliced = FALSE

-----------------------------------------------------------------------------
(* memcpy_s into recvBuf after recvPos; it copies nothing that does not fit. *)
CopyIn(piece) ==
    IF recvPos + Len(piece) > BufUnits THEN recvBuf
    ELSE [i \in 1 .. BufUnits |-> IF i \in recvPos + 1 .. recvPos + Len(piece) THEN piece[i - recvPos] ELSE recvBuf[i]]

MutantAllFront(p) == <<p>> \o recvQueue

\* InitRecvItemAndInsert.
Queued(p) == IF pkts[p].auth THEN <<p>> \o recvQueue ELSE Append(recvQueue, p)

MutantForgetsRest(n, sent) == 0

\* recvPos when a packet of sent units was cut from n.
RestAfter(n, sent) == n - sent

\* memmove_s of the rest to the front of recvBuf, whether it was there or not.
Moved(b, sent) == [i \in 1 .. BufUnits |-> IF i + sent <= BufUnits THEN b[i + sent] ELSE b[i]]

\* ClientOnDataReceived.
DataReceived(n) ==
    LET piece == SubSeq(Stream, taken + 1, taken + n)
        isCopy == recvPos # 0
        copy == CopyIn(piece)
        len == recvPos + n
        first == IF isCopy THEN copy[1] ELSE piece[1]
        keep == recvBuf' = copy /\ recvPos' = len /\ UNCHANGED <<recvQueue, spliced>>
    IN  /\ taken + n <= Len(Stream) /\ recvPos + n <= BufUnits
        /\ taken' = taken + n /\ UNCHANGED <<pkts, upward>>
        /\ IF len < HeadUnits THEN keep
           ELSE IF first[2] # 1                       \* the magic number
           THEN recvPos' = 0 /\ recvBuf' = (IF isCopy THEN copy ELSE recvBuf) /\ UNCHANGED <<recvQueue, spliced>>
           ELSE IF Size(first[1]) > len THEN keep
           ELSE /\ recvQueue' = Queued(first[1])
                /\ recvPos' = RestAfter(len, Size(first[1]))
                /\ recvBuf' = LET b == IF isCopy THEN copy ELSE recvBuf
                              IN  IF Size(first[1]) = len THEN b ELSE Moved(b, Size(first[1]))
                /\ spliced' = (spliced \/ (~isCopy /\ Size(first[1]) < len))

\* RecvHandlerLoop.
RecvHandler ==
    /\ recvQueue # <<>> /\ recvQueue' = Tail(recvQueue) /\ upward' = Append(upward, Head(recvQueue))
    /\ UNCHANGED <<pkts, taken, recvBuf, recvPos, spliced>>

BrRecvNext == RecvHandler \/ \E n \in 1 .. MaxPiece : DataReceived(n)

BrRecvSpec == BrRecvInit /\ [][BrRecvNext]_brVars

-----------------------------------------------------------------------------
(* Properties. *)

\* The type of every variable.
RecvTypeOK ==
    recvPos \in 0 .. BufUnits /\ Len(recvQueue) <= BrPkts /\ Len(upward) <= BrPkts

\* The packets of all kinds cut from the stream, in the order they were sent,
\* are those whose units have come, up to what is in the buffer: none is lost,
\* none comes twice, however the driver cuts the stream, unless a piece that was
\* not copied held the end of a packet and the beginning of the next: its rest
\* is read from where it is not.
CutInOrder ==
    spliced \/ LET cut == Range(upward) \cup Range(recvQueue)
                   used == Len(FlattenSeq([p \in 1 .. BrPkts |-> IF p \in cut THEN [i \in 1 .. Size(p) |-> p] ELSE <<>>]))
               IN  /\ cut = 1 .. Len(upward) + Len(recvQueue)
                   /\ used + recvPos = taken
                   /\ SubSeq(recvBuf, 1, recvPos) = SubSeq(Stream, used + 1, used + recvPos)

\* Packets that are not for authentication reach the upper layer in the order
\* they were sent.
DataInOrder ==
    spliced \/ LET data == SelectSeq(upward \o recvQueue, LAMBDA p : ~pkts[p].auth)
               IN  \A i, j \in DOMAIN data : i < j => data[i] < data[j]

=============================================================================
