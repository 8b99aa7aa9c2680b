---------------------------- MODULE ProxyChannel ----------------------------
(* Proxy channels: the channels and the connections they share, and the
   slices of the packets sent on them. Each section has variables of its own;
   their specifications are checked side by side. *)
EXTENDS Integers, Sequences, FiniteSets, SequencesExt

-----------------------------------------------------------------------------
(***************************************************************************)
(* Proxy channels of the service (core/transmission/trans_channel/proxy/   *)
(* src): the channels, the connections they share with a reference count,  *)
(* the messages they post to the default looper, and the one-second timer. *)
(*                                                                         *)
(* One device with one peer address.  Channel ids and connections are used *)
(* once: a request that succeeds gives the connection its number, an       *)
(* incoming connection takes the next.  A channel that waits for the       *)
(* connection has connId 0 in the code, and so has the connection's item;  *)
(* that is kept.  An item made for an incoming connection holds the wrong  *)
(* bytes for its address and never matches one.  The timer may fire for a  *)
(* channel at any time.  Callbacks under the list's lock, and the posts    *)
(* that follow a removal, belong to the step.  A status KEEPLIVEING is     *)
(* never set by the code.                                                  *)
(***************************************************************************)

CONSTANTS MaxChan,     \* bound: channels ever
          MaxLink,     \* bound: connections ever
          Opener,      \* threads that open channels
          NULL

VARIABLES pchan,      \* g_proxyChannelList, with used up channels
          pitem,      \* g_proxyConnectionList
          plink,      \* the physical connections
          ploop,      \* messages in the looper
          popen,      \* calls of TransProxyOpenConnChannel
          paccept,    \* a handshake being accepted, before the reference
          ptold,      \* the callback each channel got last
          cancelled,  \* a reference of connId 0 was dropped
          overtaken   \* connections whose last reference went during a call

pxVars == <<pchan, pitem, plink, ploop, popen, paccept, ptold, cancelled, overtaken>>

PChan == 1 .. MaxChan
Link == 1 .. MaxLink
None == 0
Unused == [st |-> "unused", r |-> None, k |-> None]
Gone == [st |-> "gone", r |-> None, k |-> None]
IdleOpen == [pc |-> "idle", c |-> None, r |-> None, k |-> None]

ProxyInit ==
    /\ pchan = [c \in PChan |-> Unused]
    /\ pitem = [l \in Link |-> NULL] /\ plink = [l \in Link |-> "idle"]
    /\ ploop = <<>> /\ popen = [u \in Opener |-> IdleOpen] /\ paccept = None
    /\ ptold = [c \in PChan |-> "nothing"]
    /\ cancelled = FALSE /\ overtaken = {}

Item(l) == pitem[l] # NULL
NewChan == {c \in PChan : pchan[c].st = "unused" /\ (\A u \in Opener : popen[u].c # c)
                          /\ \A d \in PChan : pchan[d].st = "unused" /\ (\A u \in Opener : popen[u].c # d) => c <= d}
NewLink == {l \in Link : plink[l] = "idle" /\ (\A u \in Opener : popen[u].r # l)
                         /\ \A m \in Link : plink[m] = "idle" /\ (\A u \in Opener : popen[u].r # m) => l <= m}
InList(c) == pchan[c].st \in {"connecting", "shaking", "completed"}

\* TransGetConn: the item of the peer's address.
TransGetConn == {l \in Link : Item(l) /\ pitem[l].addr}

Post(msgs) == ploop' = ploop \o msgs
Msg(what, id) == [what |-> what, id |-> id]
MsgPerChan(what, cs) == LET ids == SetToSortSeq(cs, <) IN [i \in DOMAIN ids |-> Msg(what, ids[i])]

-----------------------------------------------------------------------------
(* References. *)

\* TransAddConnRefByConnId, n times.
AddRef(l, n) == IF Item(l) THEN [pitem EXCEPT ![l].ref = @ + n] ELSE pitem

\* The items TransDecConnRefByConnId(k) finds; connId 0 is an item that is
\* still connecting.
WithConnId(k) == IF k = None THEN {l \in Link : Item(l) /\ pitem[l].st = "connecting"}
                 ELSE {l \in {k} : Item(l) /\ pitem[l].st = "connected"}

MutantOneLeft(l) == pitem[l].ref - 1 <= 1

\* The reference that goes is the last.
LastRef(l) == pitem[l].ref - 1 <= 0

\* A call is under way that has this connection and has not counted itself.
InCall(l) == paccept = l \/ \E u \in Opener : popen[u].pc \in {"attach", "ref"} /\ popen[u].k = l

\* TransProxyCloseConnChannel: TransDecConnRefByConnId, and the disconnect when
\* it was the last reference or there was no item.  A connecting item has no
\* references yet and goes at once.  Whether a disconnect event follows
\* depends on the medium.
CloseConnChannel(k, event) ==
    LET hit == WithConnId(k)
        last == \A l \in hit : LastRef(l)
    IN  /\ pitem' = [l \in Link |-> IF l \notin hit THEN pitem[l]
                                    ELSE IF last THEN NULL ELSE [pitem[l] EXCEPT !.ref = @ - 1]]
        /\ cancelled' = (cancelled \/ (k = None /\ hit # {}))
        /\ overtaken' = IF last /\ k # None /\ InCall(k) THEN overtaken \cup {k} ELSE overtaken
        /\ plink' = IF last /\ k # None /\ plink[k] = "up"
                    THEN [plink EXCEPT ![k] = IF event THEN "closing" ELSE "down"] ELSE plink

-----------------------------------------------------------------------------
(* Opening a channel: TransProxyOpenConnChannel. *)

\* New ids, and TransGetConn.
OpenConnChannel(u, c, l) ==
    /\ popen[u].pc = "idle" /\ c \in NewChan /\ l \in NewLink
    /\ popen' = [popen EXCEPT ![u] =
          IF TransGetConn = {} THEN [pc |-> "create", c |-> c, r |-> l, k |-> None]
          ELSE LET m == CHOOSE m \in TransGetConn : TRUE
               IN  [pc |-> "attach", c |-> c, r |-> IF pitem[m].st = "connecting" THEN m ELSE None,
                    k |-> IF pitem[m].st = "connecting" THEN None ELSE m]]
    /\ UNCHANGED <<pchan, pitem, plink, ploop, paccept, ptold, cancelled, overtaken>>

\* TransProxyConnExistProc with the copy of the item: the channel waits for the
\* same request, or goes on to the handshake.
ConnExistProc(u) ==
    LET x == popen[u]
    IN  /\ x.pc = "attach"
        /\ pchan' = [pchan EXCEPT ![x.c] = [st |-> IF x.k = None THEN "connecting" ELSE "shaking", r |-> x.r, k |-> x.k]]
        /\ popen' = [popen EXCEPT ![u] = IF x.k = None THEN IdleOpen ELSE [x EXCEPT !.pc = "ref"]]
        /\ UNCHANGED <<pitem, plink, ploop, paccept, ptold, cancelled, overtaken>>

ConnExistRef(u) ==
    /\ popen[u].pc = "ref"
    /\ pitem' = AddRef(popen[u].k, 1)
    /\ Post(<<Msg("HANDSHAKE", popen[u].c)>>)
    /\ popen' = [popen EXCEPT ![u] = IdleOpen]
    /\ UNCHANGED <<pchan, plink, paccept, ptold, cancelled, overtaken>>

\* No item: TransProxyCreateChanInfo.
CreateChan(u) ==
    LET x == popen[u]
    IN  /\ x.pc = "create"
        /\ pchan' = [pchan EXCEPT ![x.c] = [st |-> "connecting", r |-> x.r, k |-> None]]
        /\ popen' = [popen EXCEPT ![u].pc = "item"]
        /\ UNCHANGED <<pitem, plink, ploop, paccept, ptold, cancelled, overtaken>>

\* TransProxyChanProcessByReqId: the channels that wait for request r.
Waiting(r) == {c \in PChan : pchan[c].st = "connecting" /\ pchan[c].r = r}

ProcessByReqId(r, k) ==
    /\ pchan' = [c \in PChan |-> IF c \in Waiting(r) THEN [st |-> "shaking", r |-> None, k |-> k] ELSE pchan[c]]
    /\ Post(MsgPerChan("HANDSHAKE", Waiting(r)))

\* TransAddConnItem: a new item, then ConnConnectDevice; or an item came in
\* between, and when it is connected the channel goes on with it.  When it is
\* still connecting the channel's own request is never made.
AddConnItem(u) ==
    LET x == popen[u]
    IN  /\ x.pc = "item"
        /\ IF TransGetConn = {}
           THEN /\ pitem' = [pitem EXCEPT ![x.r] = [st |-> "connecting", ref |-> 0, addr |-> TRUE]]
                /\ popen' = [popen EXCEPT ![u].pc = "connect"]
                /\ UNCHANGED <<pchan, ploop>>
           ELSE /\ popen' = [popen EXCEPT ![u] = IdleOpen]
                /\ LET m == CHOOSE m \in TransGetConn : TRUE
                   IN  IF pitem[m].st = "connected"
                       THEN ProcessByReqId(x.r, m) /\ pitem' = AddRef(m, Cardinality(Waiting(x.r)))
                       ELSE UNCHANGED <<pchan, ploop, pitem>>
        /\ UNCHANGED <<plink, paccept, ptold, cancelled, overtaken>>

\* ConnConnectDevice starts, or fails at once: the item and the channel go,
\* and the caller gets the error.
ConnectDevice(u, ok) ==
    LET x == popen[u]
    IN  /\ x.pc = "connect"
        /\ popen' = [popen EXCEPT ![u] = IdleOpen]
        /\ plink' = [plink EXCEPT ![x.r] = IF ok THEN "connecting" ELSE "down"]
        /\ IF ok THEN UNCHANGED <<pitem, pchan, ptold>>
           ELSE /\ pitem' = [pitem EXCEPT ![x.r] = NULL]
                /\ pchan' = [pchan EXCEPT ![x.c] = Gone]
                /\ ptold' = [ptold EXCEPT ![x.c] = "failed"]
        /\ UNCHANGED <<ploop, paccept, cancelled, overtaken>>

-----------------------------------------------------------------------------
(* Events of connections. *)

\* TransOnConnectSuccessed.
OnConnectSuccessed(l) ==
    /\ plink[l] = "connecting" /\ plink' = [plink EXCEPT ![l] = "up"]
    /\ pitem' = IF Item(l) THEN [pitem EXCEPT ![l].st = "connected", ![l].ref = @ + Cardinality(Waiting(l))]
                ELSE pitem
    /\ ProcessByReqId(l, l)
    /\ UNCHANGED <<popen, paccept, ptold, cancelled, overtaken>>

MutantNoFailMsg(cs) == <<>>

\* What TransProxyDelChanByReqId posts for the channels it removes.
FailMsgs(cs) == MsgPerChan("OPENFAIL", cs)

\* TransOnConnectFailed.
OnConnectFailed(l) ==
    /\ plink[l] = "connecting" /\ plink' = [plink EXCEPT ![l] = "down"]
    /\ pitem' = [pitem EXCEPT ![l] = NULL]
    /\ pchan' = [c \in PChan |-> IF c \in Waiting(l) THEN Gone ELSE pchan[c]]
    /\ Post(FailMsgs(Waiting(l)))
    /\ UNCHANGED <<popen, paccept, ptold, cancelled, overtaken>>

On(l) == {c \in PChan : pchan[c].k = l /\ InList(c)}

\* TransProxyOnDisConnect: TransProxyDelByConnId and TransDelConnByConnId.
OnDisConnect(l) ==
    /\ plink[l] \in {"up", "closing"} /\ plink' = [plink EXCEPT ![l] = "down"]
    /\ ptold' = [c \in PChan |-> IF c \notin On(l) THEN ptold[c]
                                 ELSE IF pchan[c].st = "shaking" THEN "failed" ELSE "closed"]
    /\ pchan' = [c \in PChan |-> IF c \in On(l) THEN Gone ELSE pchan[c]]
    /\ pitem' = [pitem EXCEPT ![l] = NULL]
    /\ UNCHANGED <<ploop, popen, paccept, cancelled, overtaken>>

\* The peer connects.
Incoming(l) ==
    /\ l \in NewLink /\ plink' = [plink EXCEPT ![l] = "up"]
    /\ UNCHANGED <<pchan, pitem, ploop, popen, paccept, ptold, cancelled, overtaken>>

\* TransProxyProcessHandshakeMsg up to the acknowledgement, which fails when the
\* connection is down.
HandshakeMsg(c, l) ==
    /\ paccept = None /\ plink[l] = "up" /\ c \in NewChan
    /\ pchan' = [pchan EXCEPT ![c] = [st |-> "completed", r |-> None, k |-> l]]
    /\ ptold' = [ptold EXCEPT ![c] = "opened"]
    /\ paccept' = l
    /\ UNCHANGED <<pitem, plink, ploop, popen, cancelled, overtaken>>

\* TransCreateConnByConnId.
CreateConnByConnId ==
    /\ paccept # None /\ paccept' = None
    /\ pitem' = IF plink[paccept] = "down" THEN pitem
                ELSE IF Item(paccept) THEN AddRef(paccept, 1)
                ELSE [pitem EXCEPT ![paccept] = [st |-> "connected", ref |-> 1, addr |-> FALSE]]
    /\ UNCHANGED <<pchan, plink, ploop, popen, ptold, cancelled, overtaken>>

\* TransProxyProcessHandshakeAckMsg; the peer has seen the handshake.
HandshakeAckMsg(c) ==
    /\ pchan[c].st = "shaking" /\ plink[pchan[c].k] = "up" /\ Msg("HANDSHAKE", c) \notin {ploop[i] : i \in DOMAIN ploop}
    /\ \A u \in Opener : popen[u].c # c
    /\ pchan' = [pchan EXCEPT ![c].st = "completed"]
    /\ ptold' = [ptold EXCEPT ![c] = "opened"]
    /\ UNCHANGED <<pitem, plink, ploop, popen, paccept, cancelled, overtaken>>

MutantKeepsRef(k, event) == UNCHANGED <<pitem, cancelled, overtaken, plink>>

\* What TransProxyProcessResetMsg does with the connection.
ResetConn(k, event) == CloseConnChannel(k, event)

\* TransProxyProcessResetMsg.
ResetMsg(c, event) ==
    /\ pchan[c].st \in {"shaking", "completed"} /\ plink[pchan[c].k] = "up" /\ paccept = None
    /\ pchan' = [pchan EXCEPT ![c] = Gone]
    /\ ptold' = [ptold EXCEPT ![c] = IF pchan[c].st = "shaking" THEN "failed" ELSE "closed"]
    /\ ResetConn(pchan[c].k, event)
    /\ UNCHANGED <<ploop, popen, paccept>>

-----------------------------------------------------------------------------
(* Users and the timer. *)

\* TransProxyCloseProxyChannel.
CloseProxyChannel(c) ==
    /\ InList(c)
    /\ pchan' = [pchan EXCEPT ![c] = Gone] /\ ptold' = [ptold EXCEPT ![c] = "closed"]
    /\ Post(<<Msg("DISCONNECT", pchan[c].k)>>)
    /\ UNCHANGED <<pitem, plink, popen, paccept, cancelled, overtaken>>

\* TransProxyDeathCallback, for the next channel of the package.
DeathCallback(c, event) ==
    /\ InList(c)
    /\ pchan' = [pchan EXCEPT ![c] = Gone] /\ ptold' = [ptold EXCEPT ![c] = "closed"]
    /\ CloseConnChannel(pchan[c].k, event)
    /\ UNCHANGED <<ploop, popen, paccept>>

MutantSaysNothing(c) == <<Msg("DISCONNECT", pchan[c].k)>>

\* TransProxyTimerItemProc: what is posted for a channel that timed out.
TimerItemProc(c) ==
    <<Msg(IF pchan[c].st = "completed" THEN "CLOSED" ELSE "OPENFAIL", c), Msg("DISCONNECT", pchan[c].k)>>

\* TransProxyTimerProc: no connection or acknowledgement in time, or no traffic.
TimerProc(c) ==
    /\ InList(c)
    /\ pchan' = [pchan EXCEPT ![c] = Gone]
    /\ Post(TimerItemProc(c))
    /\ UNCHANGED <<pitem, plink, popen, paccept, ptold, cancelled, overtaken>>

-----------------------------------------------------------------------------
(* TransProxyLoopMsgHandler. *)

Head1 == Head(ploop)
Drop == ploop' = Tail(ploop)

\* TransProxyOpenProxyChannelSuccess.  The channel that is missing has connId 0
\* in the zeroed copy.
LoopHandshake(event) ==
    /\ ploop # <<>> /\ Head1.what = "HANDSHAKE" /\ Drop
    /\ LET c == Head1.id
       IN  IF ~InList(c) THEN CloseConnChannel(None, event) /\ UNCHANGED <<pchan, ptold>>
           ELSE IF plink[pchan[c].k] = "up" THEN UNCHANGED <<pchan, ptold, pitem, plink, cancelled, overtaken>>
           ELSE /\ CloseConnChannel(pchan[c].k, event)
                /\ ptold' = [ptold EXCEPT ![c] = "failed"] /\ pchan' = [pchan EXCEPT ![c] = Gone]
    /\ UNCHANGED <<popen, paccept>>

LoopDisconnect(event) ==
    /\ ploop # <<>> /\ Head1.what = "DISCONNECT" /\ Drop
    /\ CloseConnChannel(Head1.id, event)
    /\ UNCHANGED <<pchan, popen, paccept, ptold>>

LoopTell ==
    /\ ploop # <<>> /\ Head1.what \in {"OPENFAIL", "CLOSED"} /\ Drop
    /\ ptold' = [ptold EXCEPT ![Head1.id] = IF Head1.what = "OPENFAIL" THEN "failed" ELSE "closed"]
    /\ UNCHANGED <<pchan, pitem, plink, popen, paccept, cancelled, overtaken>>

ProxyNext ==
    \/ \E u \in Opener : \/ \E c \in PChan, l \in Link : OpenConnChannel(u, c, l)
                         \/ ConnExistProc(u) \/ ConnExistRef(u) \/ CreateChan(u) \/ AddConnItem(u)
                         \/ \E ok \in BOOLEAN : ConnectDevice(u, ok)
    \/ \E l \in Link : \/ OnConnectSuccessed(l) \/ OnConnectFailed(l) \/ OnDisConnect(l) \/ Incoming(l)
                       \/ \E c \in PChan : HandshakeMsg(c, l)
    \/ CreateConnByConnId \/ LoopTell
    \/ \E c \in PChan : HandshakeAckMsg(c) \/ CloseProxyChannel(c) \/ TimerProc(c)
    \/ \E event \in BOOLEAN : \/ LoopHandshake(event) \/ LoopDisconnect(event)
                              \/ \E c \in PChan : ResetMsg(c, event) \/ DeathCallback(c, event)

ProxySpec == ProxyInit /\ [][ProxyNext]_pxVars

\* The looper and the callers run on, and the timer reaches every channel that
\* waits for a connection or an acknowledgement.
LoopStep == LoopTell \/ \E event \in BOOLEAN : LoopHandshake(event) \/ LoopDisconnect(event)
OpenStep(u) == \/ ConnExistProc(u) \/ ConnExistRef(u) \/ CreateChan(u) \/ AddConnItem(u)
               \/ \E ok \in BOOLEAN : ConnectDevice(u, ok)
WaitTimeout(c) == pchan[c].st \in {"connecting", "shaking"} /\ TimerProc(c)
ProxyFairness ==
    /\ WF_pxVars(LoopStep)
    /\ \A u \in Opener : WF_pxVars(OpenStep(u))
    /\ \A c \in PChan : WF_pxVars(WaitTimeout(c))

-----------------------------------------------------------------------------
(* Properties. *)

Pending(what, id) == {i \in DOMAIN ploop : ploop[i] = Msg(what, id)}

\* The type of every variable.
ProxyTypeOK ==
    /\ \A c \in PChan : pchan[c].r \in Link \cup {None} /\ pchan[c].k \in Link \cup {None}
    /\ \A l \in Link : Item(l) => pitem[l].ref \in 0 .. MaxChan
    /\ plink \in [Link -> {"idle", "connecting", "up", "closing", "down"}]

\* The reference count of a connection is the number of channels on it and of
\* disconnect messages for it, less the calls that have not counted themselves
\* yet.  Two things break it: a channel that is closed or times out while it
\* waits drops a reference of connId 0, which is the connection being made
\* for all that wait; and the last reference can go during such a call.
RefCounts ==
    \A l \in Link : (Item(l) /\ pitem[l].st = "connected" /\ ~cancelled /\ l \notin overtaken) =>
        pitem[l].ref + (IF paccept = l THEN 1 ELSE 0) + Cardinality({u \in Opener : popen[u].pc = "ref" /\ popen[u].k = l})
            = Cardinality(On(l)) + Cardinality(Pending("DISCONNECT", l))

OnlyUnused ==
    \A l \in Link : (plink[l] = "up" /\ plink'[l] \in {"closing", "down"} /\ pitem' # pitem
                         /\ ~cancelled' /\ l \notin overtaken') => On(l)' = {}

\* Apart from those two cases the service never disconnects a connection that
\* a channel is on.
DisconnectsUnused == [][OnlyUnused]_pxVars

\* A channel is never dropped without an answer: it is in the list, or its user
\* was told, closed it itself, or a message that tells them is in the looper.
NoSilentLoss ==
    \A c \in PChan : pchan[c].st = "gone" =>
        ptold[c] # "nothing" \/ Pending("OPENFAIL", c) # {} \/ Pending("CLOSED", c) # {}

OpenWaits(c) == pchan[c].st \in {"connecting", "shaking"}
OpenTold(c) == ptold[c] # "nothing"

\* Whoever opens a channel gets an answer, whatever becomes of the connection.
OpenAnswered == \A c \in PChan : OpenWaits(c) ~> OpenTold(c)

-----------------------------------------------------------------------------
(***************************************************************************)
(* Data on a proxy channel (softbus_proxychannel_session.c): a packet is   *)
(* encrypted with its sequence number, cut into slices, and put together   *)
(* by the peer, which has one assembly buffer per channel and priority.  A *)
(* message is acknowledged and its sender waits for that.                  *)
(*                                                                         *)
(* One channel, one direction.  The connection delivers slices in order;   *)
(* decryption succeeds exactly when the buffer holds the slices of one     *)
(* packet.  Lengths are in units of which a slice has MaxSend.             *)
(***************************************************************************)

CONSTANTS SliceSender, \* threads that send
          MaxPackets,  \* bound: packets sent on the channel
          Lens,        \* lengths of packed packets, each above PktHead
          MaxSend,     \* MAX_SEND_LENGTH
          PktHead      \* sizeof(PacketHead)

VARIABLES chanSeq,    \* seq of the channel
          sending,    \* what each thread does
          wire,       \* slices on their way
          assembly,   \* processor[] of the peer's ChannelSliceProcessor
          received,   \* packets given to the peer's session
          acks,       \* acknowledgements on their way, by their payload
          pendingAck, \* the pending packet list of the sender
          sent,       \* packets whose slices all went out
          mixed       \* two threads sent at once, or an assembly was dropped

psVars == <<chanSeq, sending, wire, assembly, received, acks, pendingAck, sent, mixed>>

Prio == {"MESSAGE", "BYTES"}
NoPkt == [seq |-> -1, len |-> 0, flag |-> "BYTES"]
Idle == [pc |-> "idle", pkt |-> NoPkt, i |-> 0, ret |-> "none"]
NoData == [num |-> 0, expected |-> 0, parts |-> <<>>]

SliceInit ==
    /\ chanSeq = 0 /\ sending = [s \in SliceSender |-> Idle] /\ wire = <<>>
    /\ assembly = [p \in Prio |-> NoData] /\ received = {} /\ acks = {}
    /\ pendingAck = {} /\ sent = {} /\ mixed = FALSE

-----------------------------------------------------------------------------
(* Sending. *)

MutantRoundsUp(len) == len \div MaxSend + 1

\* The number of slices.
SliceNum(len) == (len + MaxSend - 1) \div MaxSend

\* The length of slice i, counted from 0.
SliceLen(len, i) ==
    IF SliceNum(len) > 1 /\ i # SliceNum(len) - 1 THEN MaxSend ELSE len - i * MaxSend

\* TransProxyPackBytes: the sequence number and the encrypted packet.
PackBytes(s, len, flag) ==
    /\ sending[s].pc = "idle" /\ chanSeq < MaxPackets
    /\ chanSeq' = chanSeq + 1
    /\ sending' = [sending EXCEPT ![s] = [pc |-> "slices", i |-> 0, ret |-> "none",
                                          pkt |-> [seq |-> chanSeq, len |-> len, flag |-> flag]]]
    /\ mixed' = (mixed \/ \E t \in SliceSender : sending[t].pc = "slices")
    /\ UNCHANGED <<wire, assembly, received, acks, pendingAck, sent>>

\* TransProxyTransAppNormalMsg: the next slice.
SendSlice(s) ==
    LET x == sending[s]
        last == x.i = SliceNum(x.pkt.len) - 1
    IN  /\ x.pc = "slices"
        /\ wire' = Append(wire, [pkt |-> x.pkt, num |-> SliceNum(x.pkt.len), i |-> x.i,
                                 len |-> SliceLen(x.pkt.len, x.i)])
        /\ sending' = [sending EXCEPT ![s].i = @ + 1,
                          ![s].pc = IF ~last THEN "slices" ELSE IF x.pkt.flag = "MESSAGE" THEN "pend" ELSE "idle"]
        /\ sent' = IF last THEN sent \cup {x.pkt} ELSE sent
        /\ UNCHANGED <<chanSeq, assembly, received, acks, pendingAck, mixed>>

\* ProcPendingPacket: the record is made after the slices went out.
AddPending(s) ==
    /\ sending[s].pc = "pend"
    /\ pendingAck' = pendingAck \cup {[s |-> s, seq |-> sending[s].pkt.seq, done |-> FALSE]}
    /\ sending' = [sending EXCEPT ![s].pc = "wait"]
    /\ UNCHANGED <<chanSeq, wire, assembly, received, acks, sent, mixed>>

\* The wait ends: the record is finished, or the time is up.
EndWait(s) ==
    /\ sending[s].pc = "wait"
    /\ \E r \in pendingAck : r.s = s
          /\ sending' = [sending EXCEPT ![s].pc = "idle", ![s].ret = IF r.done THEN "ok" ELSE "timeout"]
          /\ pendingAck' = pendingAck \ {r}
    /\ UNCHANGED <<chanSeq, wire, assembly, received, acks, sent, mixed>>

-----------------------------------------------------------------------------
(* Receiving. *)

\* TransProxyNoSubPacketProc and TransProxyProcessSessionData: the buffer is
\* one packet.
Whole(parts) == /\ \A j, k \in DOMAIN parts : parts[j].pkt = parts[k].pkt
                /\ Len(parts) = parts[1].num /\ \A j \in DOMAIN parts : parts[j].i = j - 1

\* TransProxyNotifySession: the packet goes up, a message is acknowledged with
\* its number in the byte order of the host.
Notify(pkt) ==
    /\ received' = received \cup {pkt}
    /\ acks' = IF pkt.flag = "MESSAGE" THEN acks \cup {pkt.seq} ELSE acks

\* TransProxySliceProcessChkPkgIsValid.
SliceIsValid(sl) ==
    LET p == assembly[sl.pkt.flag] IN sl.num = p.num /\ sl.i = p.expected

\* TransOnNormalMsgReceived drops a slice that is no longer than a packet head,
\* also when it is the last one of a packet.
LongEnough(sl) == sl.len > PktHead

\* TransProxySubPacketProc for one slice: the first clears what was there, an
\* unexpected one clears the buffer, the last completes the packet.
SubPacketProc(sl) ==
    LET p == assembly[sl.pkt.flag]
        more == [num |-> p.num, expected |-> p.expected + 1, parts |-> Append(p.parts, sl)]
        store(x) == assembly' = [assembly EXCEPT ![sl.pkt.flag] = x]
    IN  IF sl.i = 0
        THEN store([num |-> sl.num, expected |-> 1, parts |-> <<sl>>]) /\ UNCHANGED <<received, acks>>
        ELSE IF ~SliceIsValid(sl) THEN store(NoData) /\ UNCHANGED <<received, acks>>
        ELSE IF sl.num # sl.i + 1 THEN store(more) /\ UNCHANGED <<received, acks>>
        ELSE /\ store(NoData)
             /\ IF Whole(more.parts) THEN Notify(sl.pkt) ELSE UNCHANGED <<received, acks>>

\* TransOnNormalMsgReceived.
MsgReceived ==
    /\ wire # <<>> /\ wire' = Tail(wire)
    /\ LET sl == Head(wire)
       IN  IF ~LongEnough(sl) THEN UNCHANGED <<assembly, received, acks>>
           ELSE IF sl.num = 1 THEN Notify(sl.pkt) /\ UNCHANGED assembly
           ELSE SubPacketProc(sl)
    /\ UNCHANGED <<chanSeq, sending, pendingAck, sent, mixed>>

\* TransProxySliceTimerProc, and TransProxyDelSliceProcessorByChannelId.
DropAssembly(p) ==
    /\ assembly[p] # NoData /\ assembly' = [assembly EXCEPT ![p] = NoData]
    /\ mixed' = TRUE
    /\ UNCHANGED <<chanSeq, sending, wire, received, acks, pendingAck, sent>>

\* ntohl() of a number below 256 on a little-endian host.
Ntohl(seq) == seq * 2^24

\* The record of that number is finished.
SetPendingPacket(seq) == {IF r.seq = seq THEN [r EXCEPT !.done = TRUE] ELSE r : r \in pendingAck}

\* TransProxyProcSendMsgAck: the payload, which is in the byte order of the
\* host, is converted as if it came from the network.  Of the numbers the model
\* uses only 0 is its own conversion: the acknowledgement of any other message
\* finds no record, and its sender waits until the time is up.
ProcSendMsgAck(seq) ==
    /\ seq \in acks /\ acks' = acks \ {seq}
    /\ pendingAck' = SetPendingPacket(Ntohl(seq))
    /\ UNCHANGED <<chanSeq, sending, wire, assembly, received, sent, mixed>>

SliceNext ==
    \/ \E s \in SliceSender : \/ \E len \in Lens, flag \in Prio : PackBytes(s, len, flag)
                              \/ SendSlice(s) \/ AddPending(s) \/ EndWait(s)
    \/ MsgReceived
    \/ \E p \in Prio : DropAssembly(p)
    \/ \E seq \in acks : ProcSendMsgAck(seq)

SliceSpec == SliceInit /\ [][SliceNext]_psVars

-----------------------------------------------------------------------------
(* Properties. *)

\* The type of every variable.
SliceTypeOK ==
    /\ chanSeq \in 0 .. MaxPackets /\ mixed \in BOOLEAN
    /\ \A p \in Prio : Len(assembly[p].parts) = assembly[p].expected
    /\ received \subseteq sent \cup {sending[s].pkt : s \in SliceSender}

\* Packets sent one at a time are all received once their slices have arrived,
\* whatever their length, except those whose last slice is no longer than a
\* packet head: the receiver takes it for a broken packet
\* (softbus_proxychannel_session.c:726).  Slices of two packets of the same
\* priority that alternate destroy each other.
AllReceived ==
    (~mixed /\ wire = <<>>) =>
        {p \in sent : p.len <= MaxSend \/ ((p.len - 1) % MaxSend) + 1 > PktHead} \subseteq received

=============================================================================
