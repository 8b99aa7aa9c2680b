------------------------------ MODULE TcpDirect ------------------------------
(* TCP direct channels: the sending and receiving client, and the channels of
   the service. Each section has variables of its own; their specifications
   are checked side by side. *)
EXTENDS Integers, Sequences, FiniteSets, SequencesExt

-----------------------------------------------------------------------------
(***************************************************************************)
(* The TCP direct channels of a client process:                            *)
(* sdk/transmission/trans_channel/tcp_direct (manager, message, listener)  *)
(* over core/transmission/pending_packet, with the socket calls they make. *)
(* Application threads send; one select thread receives, reassembles the   *)
(* stream, acknowledges and delivers; the service opens channels and the   *)
(* application closes sessions.  Each lock region is one step.             *)
(*                                                                         *)
(* A connection is named after the channel it was made for, which is also  *)
(* the session key of its packets.  Lengths are counted in units: a packet *)
(* is one unit of head and len units of data.  Descriptors are reused,     *)
(* lowest first, as the kernel does.                                       *)
(***************************************************************************)

CONSTANTS
    Channel,      \* channel ids, naturals, each used for one connection
    Fd,           \* descriptors: naturals
    Thread,       \* sending threads of the application
    NULL,
    MinBuf,       \* MIN_BUF_LEN, in units
    MaxBuf,       \* g_dataBufferMaxLen, in units
    BytesLen,     \* data units of the peer's packets of bytes
    MessageLen,   \* data units of the peer's messages
    MaxPackets    \* bound: packets sent, by both sides on all channels

VARIABLES
    chan,     \* g_tcpDirectChannelInfoList: fd and sequence of each channel
    buf,      \* g_tcpDataList: fd, size and contents of each buffer
    sock,     \* the connection each descriptor denotes, or NULL
    trig,     \* descriptors in the read set of the select thread
    conn,     \* both directions of each connection, and its state
    pending,  \* g_pendingList, newest first
    thr,      \* the sending threads
    sel,      \* the select thread
    sess,     \* channels with a session (client_trans_session_manager.c)
    open,     \* progress of opening and closing each channel
    packets   \* packets sent so far

tcpVars == <<chan, buf, sock, trig, conn, pending, thr, sel, sess, open, packets>>

\* acked: the peer acknowledged the packet.
Idle == [pc |-> "idle", ch |-> NULL, fd |-> NULL, seq |-> 0, flag |-> NULL,
         acked |-> FALSE, ret |-> NULL]

Poll == [pc |-> "poll", fd |-> NULL, ch |-> NULL, pkt |-> NULL]

\* sent and got count the packets of the peer; stolen: bytes of the stream
\* went to the buffer of another channel.
Connection(state) ==
    [in |-> <<>>, out |-> <<>>, sent |-> 0, got |-> 0, stolen |-> FALSE, state |-> state]

TcpDirectInit ==
    /\ chan = [c \in Channel |-> NULL] /\ buf = [c \in Channel |-> NULL]
    /\ sock = [f \in Fd |-> NULL] /\ trig = {}
    /\ conn = [c \in Channel |-> Connection("none")]
    /\ pending = <<>>
    /\ thr = [t \in Thread |-> Idle] /\ sel = Poll
    /\ sess = {} /\ open = [c \in Channel |-> "no"]
    /\ packets = 0

-----------------------------------------------------------------------------
(* Sockets, as the code uses them. *)

FreeFd == {f \in Fd : sock[f] = NULL /\ \A g \in Fd : g < f => sock[g] # NULL}

\* The units of a packet: number 0 is its head.
Units(p) == [i \in 1 .. p.len + 1 |-> [pkt |-> p, off |-> i - 1]]

\* TcpShutDown: the descriptor is free, nothing more is read or answered.
TcpShutDown(f) ==
    /\ sock' = [sock EXCEPT ![f] = NULL]
    /\ conn' = IF sock[f] = NULL THEN conn ELSE [conn EXCEPT ![sock[f]] = Connection("closed")]

\* What SendTcpData does to the connections when it is given p and f, and
\* whether it succeeds: the descriptor may have been closed or reused.
SendTcpData(f, p, ok) ==
    IF f # NULL /\ sock[f] # NULL /\ conn[sock[f]].state = "open"
    THEN ok /\ conn' = [conn EXCEPT ![sock[f]].out = Append(@, p)]
    ELSE ~ok /\ UNCHANGED conn

-----------------------------------------------------------------------------
(* Opening and closing. *)

\* The node of TransAddDataBufNode.
NewDataBuf(f) == [fd |-> f, size |-> MinBuf, data |-> <<>>]

\* ClientTransTdcOnChannelOpened, under the lock of the channel list: buffer,
\* trigger, list entry.  The service numbers the channels as it opens them.
OnChannelOpened(c, f) ==
    /\ open[c] = "no" /\ f \in FreeFd
    /\ \A d \in Channel : d < c => open[d] # "no"
    /\ sock' = [sock EXCEPT ![f] = c]
    /\ conn' = [conn EXCEPT ![c].state = "open"]
    /\ \/ /\ chan' = [chan EXCEPT ![c] = [fd |-> f, seq |-> 0]]
          /\ buf' = [buf EXCEPT ![c] = NewDataBuf(f)]
          /\ trig' = trig \cup {f}
          /\ open' = [open EXCEPT ![c] = "listed"]
       \* AddTrigger or SetTcpKeepAlive fails: no entry, the trigger may stay.
       \/ /\ trig' \in {trig, trig \cup {f}}
          /\ open' = [open EXCEPT ![c] = "failed"]
          /\ UNCHANGED <<chan, buf>>
    /\ UNCHANGED <<pending, thr, sel, sess, packets>>

\* TransOnSessionOpened, after that lock: the session exists from here on,
\* unless the application refuses it.
OnSessionOpened(c) ==
    /\ open[c] = "listed"
    /\ sess' \in {sess, sess \cup {c}}
    /\ open' = [open EXCEPT ![c] = "opened"]
    /\ UNCHANGED <<chan, buf, sock, trig, conn, pending, thr, sel, packets>>

\* TransTdcReleaseFd.
ReleaseFd(f) == trig' = trig \ {f} /\ TcpShutDown(f)

\* The locked part of TransTdcCloseChannel.
RemoveChannel(c) ==
    IF chan[c] = NULL THEN UNCHANGED <<chan, trig, sock, conn>>
    ELSE /\ ReleaseFd(chan[c].fd)
         /\ chan' = [chan EXCEPT ![c] = NULL]

\* pthread_cond_signal of a record: lost unless its thread already waits.
Signal(r) ==
    IF thr[r.thread].pc = "waiting" THEN [thr EXCEPT ![r.thread].pc = "woken"] ELSE thr

\* DelPendingPacket: the newest record of the channel is signalled, without
\* finded.
DelPendingPacket(c) ==
    LET rs == SelectSeq(pending, LAMBDA r : r.ch = c)
    IN  thr' = IF rs = <<>> THEN thr ELSE Signal(Head(rs))

MutantCloseDropsBuffer(c) ==
    /\ open[c] = "opened" /\ c \in sess
    /\ RemoveChannel(c)
    /\ buf' = [buf EXCEPT ![c] = NULL]
    /\ open' = [open EXCEPT ![c] = IF chan[c] # NULL THEN "pending" ELSE "delete"]
    /\ UNCHANGED <<pending, thr, sel, sess, packets>>

\* CloseSession of the application: TransTdcCloseChannel in two steps, then
\* ClientDeleteSession.  The receive buffer stays.
CloseSession(c) ==
    /\ open[c] = "opened" /\ c \in sess
    /\ RemoveChannel(c)
    /\ open' = [open EXCEPT ![c] = IF chan[c] # NULL THEN "pending" ELSE "delete"]
    /\ UNCHANGED <<buf, pending, thr, sel, sess, packets>>

CloseWakesSender(c) ==
    /\ open[c] = "pending"
    /\ DelPendingPacket(c)
    /\ open' = [open EXCEPT ![c] = "delete"]
    /\ UNCHANGED <<chan, buf, sock, trig, conn, pending, sel, sess, packets>>

ClientDeleteSession(c) ==
    /\ open[c] = "delete"
    /\ sess' = sess \ {c}
    /\ open' = [open EXCEPT ![c] = "closed"]
    /\ UNCHANGED <<chan, buf, sock, trig, conn, pending, thr, sel, packets>>

-----------------------------------------------------------------------------
(* Sending threads: TransTdcSendBytes and TransTdcSendMessage. *)

\* TransTdcGetInfoByIdWithIncSeq: the copy keeps the number before the step.
GetInfoByIdWithIncSeq(t, c, flag) ==
    /\ thr[t].pc = "idle"
    /\ IF chan[c] = NULL
       THEN /\ open[c] # "no"
            /\ thr' = [thr EXCEPT ![t] = Idle]
            /\ UNCHANGED <<chan, packets>>
       ELSE /\ packets < MaxPackets /\ packets' = packets + 1
            /\ thr' = [thr EXCEPT ![t] = [pc |-> "post", ch |-> c, fd |-> chan[c].fd,
                          seq |-> chan[c].seq, flag |-> flag, acked |-> FALSE, ret |-> NULL]]
            /\ chan' = [chan EXCEPT ![c].seq = @ + 1]
    /\ UNCHANGED <<buf, sock, trig, conn, pending, sel, sess, open>>

\* TransTdcPackData: the head, and the data encrypted with the session key.
PackData(key, flag, seq) == [key |-> key, flag |-> flag, seq |-> seq, len |-> 1]

\* TransTdcProcessPostData, outside every lock.
ProcessPostData(t) ==
    LET s == thr[t]
    IN  /\ s.pc = "post"
        /\ \E ok \in BOOLEAN :
              /\ SendTcpData(s.fd, PackData(s.ch, s.flag, s.seq), ok)
              /\ thr' = [thr EXCEPT ![t] =
                           IF ok /\ s.flag = "MESSAGE" THEN [s EXCEPT !.pc = "add"]
                           ELSE Idle]
        /\ UNCHANGED <<chan, buf, sock, trig, pending, sel, sess, open, packets>>

\* ProcPendingPacket up to the unlock of the list.
AddPending(t) ==
    LET s == thr[t]
    IN  /\ s.pc = "add"
        /\ IF \E i \in 1 .. Len(pending) : pending[i].seq = s.seq /\ pending[i].ch = s.ch
           THEN /\ thr' = [thr EXCEPT ![t] = Idle]
                /\ UNCHANGED pending
           ELSE /\ pending' = <<[ch |-> s.ch, seq |-> s.seq, thread |-> t, finded |-> FALSE]>>
                                \o pending
                /\ thr' = [thr EXCEPT ![t].pc = "added"]
        /\ UNCHANGED <<chan, buf, sock, trig, conn, sel, sess, open, packets>>

RecordOf(t) == CHOOSE i \in 1 .. Len(pending) : pending[i].thread = t

\* pthread_cond_timedwait: starts to wait; the predicate is not tested first.
StartWait(t) ==
    /\ thr[t].pc = "added"
    /\ thr' = [thr EXCEPT ![t].pc = "waiting"]
    /\ UNCHANGED <<chan, buf, sock, trig, conn, pending, sel, sess, open, packets>>

MutantWaitsForever(t) ==
    /\ thr[t].pc = "woken"
    /\ thr' = [thr EXCEPT ![t].pc = "remove",
                          ![t].ret = IF pending[RecordOf(t)].finded THEN "OK" ELSE "TIMOUT"]
    /\ UNCHANGED <<chan, buf, sock, trig, conn, pending, sel, sess, open, packets>>

MutantSignalMeansOk(t) ==
    /\ thr[t].pc \in {"waiting", "woken"}
    /\ thr' = [thr EXCEPT ![t].pc = "remove",
                          ![t].ret = IF thr[t].pc = "woken" THEN "OK" ELSE "TIMOUT"]
    /\ UNCHANGED <<chan, buf, sock, trig, conn, pending, sel, sess, open, packets>>

\* Signalled, timed out after TIME_OUT seconds, or woken spuriously.
WakeAndDecide(t) ==
    /\ thr[t].pc \in {"waiting", "woken"}
    /\ thr' = [thr EXCEPT ![t].pc = "remove",
                          ![t].ret = IF pending[RecordOf(t)].finded THEN "OK" ELSE "TIMOUT"]
    /\ UNCHANGED <<chan, buf, sock, trig, conn, pending, sel, sess, open, packets>>

MutantForgetsRecord(t) ==
    /\ thr[t].pc = "remove"
    /\ pending' = IF thr[t].ret = "OK" THEN RemoveAt(pending, RecordOf(t)) ELSE pending
    /\ thr' = [thr EXCEPT ![t] = Idle]
    /\ UNCHANGED <<chan, buf, sock, trig, conn, sel, sess, open, packets>>

\* The record is taken out of the list and freed.
RemovePending(t) ==
    /\ thr[t].pc = "remove"
    /\ pending' = RemoveAt(pending, RecordOf(t))
    /\ thr' = [thr EXCEPT ![t] = Idle]
    /\ UNCHANGED <<chan, buf, sock, trig, conn, sel, sess, open, packets>>

-----------------------------------------------------------------------------
(* The select thread: OnDataEvent of client_trans_tcp_direct_listener.c. *)

Readable(f) ==
    sock[f] # NULL /\ (conn[sock[f]].in # <<>> \/ conn[sock[f]].state = "peer_closed")

\* select() reports f; OnDataEvent(f) starts after the locks are released.
Event(f) ==
    /\ sel.pc = "poll" /\ f \in trig /\ Readable(f)
    /\ sel' = [Poll EXCEPT !.pc = "event", !.fd = f]
    /\ UNCHANGED <<chan, buf, sock, trig, conn, pending, thr, sess, open, packets>>

\* TransTdcGetInfoByFd; an unknown descriptor is left alone.
GetInfoByFd ==
    LET hits == {c \in Channel : chan[c] # NULL /\ chan[c].fd = sel.fd}
    IN  /\ sel.pc = "event"
        /\ \/ \E c \in hits : sel' = [sel EXCEPT !.pc = "recv", !.ch = c]
           \/ hits = {} /\ sel' = Poll
        /\ UNCHANGED <<chan, buf, sock, trig, conn, pending, thr, sess, open, packets>>

\* No buffer, no free space, a closed descriptor or the end of the stream.
RecvFails(b) ==
    IF b = NULL THEN TRUE
    ELSE IF Len(b.data) = b.size \/ sock[b.fd] = NULL THEN TRUE
    ELSE conn[sock[b.fd]].in = <<>> /\ conn[sock[b.fd]].state = "peer_closed"

PkgLen(b) == b.data[1].pkt.len + 1

MutantKeepsSize(b) == b

MutantDoubles(b) == [b EXCEPT !.size = 2 * PkgLen(b)]

\* TransResizeDataBuffer: exactly the packet that is being received.
TransResizeDataBuffer(b) == [b EXCEPT !.size = PkgLen(b)]

\* One round of TransTdcProcAllData on buffer b: wait for the head, an invalid
\* head or length, resize and return, wait for the rest, or process.  Only the
\* select thread sees the buffer, so a round is part of the step before it.
ProcAllData(b) ==
    LET is(pc) == [pc |-> pc, buf |-> b]
    IN  IF b.data = <<>> THEN is("poll")
        ELSE IF b.data[1].off # 0 \/ PkgLen(b) > MaxBuf THEN is("drop")
        ELSE IF PkgLen(b) > b.size THEN [pc |-> "poll", buf |-> TransResizeDataBuffer(b)]
        ELSE is(IF Len(b.data) < PkgLen(b) THEN "poll" ELSE "process")

\* The select thread goes on with channel sel.ch, whose buffer is now b.
Continue(b) ==
    LET r == ProcAllData(b)
    IN  /\ buf' = [buf EXCEPT ![sel.ch] = r.buf]
        /\ sel' = IF r.pc = "poll" THEN Poll ELSE [sel EXCEPT !.pc = r.pc, !.pkt = NULL]

\* TransTdcRecvData, under the lock of the buffers: one recv into the free
\* space, on the descriptor of the buffer.  With nothing to read it blocks.
RecvData ==
    LET b == buf[sel.ch]
        x == sock[b.fd]
    IN  /\ sel.pc = "recv"
        /\ IF RecvFails(b)
           THEN /\ sel' = [sel EXCEPT !.pc = "drop"]
                /\ UNCHANGED <<buf, conn>>
           ELSE \E k \in 1 .. b.size - Len(b.data) :
                   /\ k <= Len(conn[x].in)
                   /\ Continue([b EXCEPT !.data = @ \o SubSeq(conn[x].in, 1, k)])
                   /\ conn' = [conn EXCEPT ![x].in = SubSeq(@, k + 1, Len(@)),
                                           ![x].stolen = @ \/ x # sel.ch]
        /\ UNCHANGED <<chan, sock, trig, pending, thr, sess, open, packets>>

\* TransTdcDecrypt with the session key of the channel.
TransTdcDecrypt(p, c) == p.key = c

\* TransTdcProcessData looks the channel up again, for its key and descriptor.
LookUpKey ==
    /\ sel.pc = "process"
    /\ sel' = IF chan[sel.ch] = NULL THEN [sel EXCEPT !.pc = "drop"]
              ELSE [sel EXCEPT !.pc = "decrypt", !.fd = chan[sel.ch].fd]
    /\ UNCHANGED <<chan, buf, sock, trig, conn, pending, thr, sess, open, packets>>

MutantKeepsPacket ==
    LET p == buf[sel.ch].data[1].pkt
    IN  /\ sel.pc = "decrypt"
        /\ sel' = IF TransTdcDecrypt(p, sel.ch)
                  THEN [sel EXCEPT !.pc = IF p.flag = "MESSAGE" THEN "ack" ELSE "deliver", !.pkt = p]
                  ELSE [sel EXCEPT !.pc = "drop"]
        /\ UNCHANGED <<chan, buf, sock, trig, conn, pending, thr, sess, open, packets>>

\* It then decrypts the packet and takes it out of the buffer.
ProcessData ==
    LET b == buf[sel.ch]
        p == b.data[1].pkt
    IN  /\ sel.pc = "decrypt" /\ b # NULL
        /\ IF TransTdcDecrypt(p, sel.ch)
           THEN /\ buf' = [buf EXCEPT ![sel.ch].data = SubSeq(@, PkgLen(b) + 1, Len(@))]
                /\ sel' = [sel EXCEPT !.pc = IF p.flag = "MESSAGE" THEN "ack" ELSE "deliver",
                                      !.pkt = p]
           ELSE /\ sel' = [sel EXCEPT !.pc = "drop"]
                /\ UNCHANGED buf
        /\ UNCHANGED <<chan, sock, trig, conn, pending, thr, sess, open, packets>>

\* TransTdcSendAck, to the descriptor copied with the channel; its result is
\* not looked at.
SendAck ==
    /\ sel.pc = "ack"
    /\ \E ok \in BOOLEAN :
          SendTcpData(sel.fd, PackData(sel.ch, "ACK", sel.pkt.seq), ok)
    /\ sel' = [sel EXCEPT !.pc = "deliver"]
    /\ UNCHANGED <<chan, buf, sock, trig, pending, thr, sess, open, packets>>

\* SetPendingPacket: the first record of the channel and number.
SetPendingPacket(c, seq) ==
    LET hits == {i \in 1 .. Len(pending) : pending[i].seq = seq /\ pending[i].ch = c}
        i == CHOOSE j \in hits : \A k \in hits : j <= k
    IN  IF hits = {} THEN UNCHANGED <<pending, thr>>
        ELSE /\ pending' = [pending EXCEPT ![i].finded = TRUE]
             /\ thr' = Signal(pending[i])

\* TransTdcProcessDataByFlag: an acknowledgement finds its sender, data goes to
\* the session, whose absence is an error.
ProcessDataByFlag ==
    LET p == sel.pkt
        c == sel.ch
    IN  /\ sel.pc = "deliver"
        /\ \/ /\ p.flag = "ACK"
              /\ SetPendingPacket(c, p.seq)
              /\ Continue(buf[c]) /\ UNCHANGED conn
           \/ /\ p.flag # "ACK" /\ c \in sess
              /\ conn' = IF conn[c].state = "closed" THEN conn ELSE [conn EXCEPT ![c].got = @ + 1]
              /\ Continue(buf[c]) /\ UNCHANGED <<pending, thr>>
           \/ /\ p.flag # "ACK" /\ c \notin sess
              /\ sel' = [sel EXCEPT !.pc = "drop", !.pkt = NULL]
              /\ UNCHANGED <<pending, thr, conn, buf>>
        /\ UNCHANGED <<chan, sock, trig, sess, open, packets>>

\* The error path of OnDataEvent: TransDelDataBufNode and the locked part of
\* TransTdcCloseChannel, then DelPendingPacket, then the session.
DropChannel ==
    /\ sel.pc = "drop"
    /\ buf' = [buf EXCEPT ![sel.ch] = NULL]
    /\ RemoveChannel(sel.ch)
    /\ sel' = [sel EXCEPT !.pc = IF chan[sel.ch] # NULL THEN "wake" ELSE "notify", !.pkt = NULL]
    /\ UNCHANGED <<pending, thr, sess, open, packets>>

DropWakesSender ==
    /\ sel.pc = "wake"
    /\ DelPendingPacket(sel.ch)
    /\ sel' = [sel EXCEPT !.pc = "notify"]
    /\ UNCHANGED <<chan, buf, sock, trig, conn, pending, sess, open, packets>>

\* ClientTransTdcOnSessionClosed.
OnSessionClosed ==
    /\ sel.pc = "notify"
    /\ sess' = sess \ {sel.ch}
    /\ sel' = Poll
    /\ UNCHANGED <<chan, buf, sock, trig, conn, pending, thr, open, packets>>

-----------------------------------------------------------------------------
(* The peer, which runs the same code on its side of the connection. *)

PeerSend(c, flag) ==
    /\ conn[c].state = "open" /\ packets < MaxPackets
    /\ packets' = packets + 1
    /\ conn' = [conn EXCEPT ![c].sent = @ + 1,
                  ![c].in = @ \o Units([key |-> c, flag |-> flag, seq |-> conn[c].sent + 1,
                                        len |-> IF flag = "BYTES" THEN BytesLen ELSE MessageLen])]
    /\ UNCHANGED <<chan, buf, sock, trig, pending, thr, sel, sess, open>>

\* It acknowledges a message, and closes when a packet has another key.
PeerReceive(c) ==
    LET p == Head(conn[c].out)
    IN  /\ conn[c].state = "open" /\ conn[c].out # <<>>
        /\ \/ /\ p.key = c /\ p.flag = "MESSAGE"
              /\ thr' = [t \in Thread |->
                           IF thr[t].ch = c /\ thr[t].seq = p.seq
                           THEN [thr[t] EXCEPT !.acked = TRUE] ELSE thr[t]]
              /\ conn' = [conn EXCEPT ![c].out = Tail(@),
                            ![c].in = @ \o Units(PackData(c, "ACK", p.seq))]
           \/ /\ p.key = c /\ p.flag # "MESSAGE"
              /\ conn' = [conn EXCEPT ![c].out = Tail(@)] /\ UNCHANGED thr
           \/ /\ p.key # c
              /\ conn' = [conn EXCEPT ![c].out = <<>>, ![c].state = "peer_closed"]
              /\ UNCHANGED thr
        /\ UNCHANGED <<chan, buf, sock, trig, pending, sel, sess, open, packets>>

PeerClose(c) ==
    /\ conn[c].state = "open"
    /\ conn' = [conn EXCEPT ![c].state = "peer_closed", ![c].out = <<>>]
    /\ UNCHANGED <<chan, buf, sock, trig, pending, thr, sel, sess, open, packets>>

-----------------------------------------------------------------------------
Sender(t) ==
    \/ ProcessPostData(t) \/ AddPending(t) \/ StartWait(t)
    \/ WakeAndDecide(t) \/ RemovePending(t)

SelectThread ==
    \/ \E f \in Fd : Event(f)
    \/ GetInfoByFd \/ RecvData \/ LookUpKey \/ ProcessData
    \/ SendAck \/ ProcessDataByFlag
    \/ DropChannel \/ DropWakesSender \/ OnSessionClosed

TcpDirectNext ==
    \/ \E c \in Channel :
          \/ \E f \in Fd : OnChannelOpened(c, f)
          \/ OnSessionOpened(c)
          \/ CloseSession(c) \/ CloseWakesSender(c) \/ ClientDeleteSession(c)
          \/ \E t \in Thread, flag \in {"BYTES", "MESSAGE"} : GetInfoByIdWithIncSeq(t, c, flag)
          \/ \E flag \in {"BYTES", "MESSAGE"} : PeerSend(c, flag)
          \/ PeerReceive(c) \/ PeerClose(c)
    \/ \E t \in Thread : Sender(t)
    \/ SelectThread

\* The scheduler runs a thread that can run, and a timed wait ends.
TcpDirectFairness == \A t \in Thread : WF_tcpVars(Sender(t))

TcpDirectSpec == TcpDirectInit /\ [][TcpDirectNext]_tcpVars /\ TcpDirectFairness

-----------------------------------------------------------------------------
(* Properties. *)

\* The type of every variable.
TcpDirectTypeOK ==
    /\ \A c \in Channel :
          /\ chan[c] = NULL \/ (chan[c].fd \in Fd /\ chan[c].seq \in 0 .. MaxPackets)
          /\ buf[c] = NULL \/ (buf[c].fd \in Fd /\ buf[c].size \in MinBuf .. MaxBuf
                                 /\ Len(buf[c].data) \in 0 .. buf[c].size)
          /\ conn[c].state \in {"none", "open", "peer_closed", "closed"}
          /\ {conn[c].sent, conn[c].got} \subseteq 0 .. MaxPackets
    /\ sock \in [Fd -> Channel \cup {NULL}] /\ trig \subseteq Fd
    /\ \A i \in 1 .. Len(pending) : pending[i].thread \in Thread
    /\ packets \in 0 .. MaxPackets
    /\ sess \subseteq Channel

\* SendMessage returns SOFTBUS_OK only for a message the peer acknowledged on
\* that channel, whatever closes, early acknowledgements and reused
\* descriptors happen meanwhile (trans_pending_pkt.c:57).
SuccessMeansAcknowledged ==
    \A t \in Thread : thr[t].ret = "OK" => thr[t].acked

\* g_pendingList holds one record for each thread inside ProcPendingPacket and
\* none for any other: no record outlives its call, and none is shared, so a
\* signal never reaches freed memory.
PendingRecordsOwned ==
    /\ \A t \in Thread :
          (thr[t].pc \in {"added", "waiting", "woken", "remove"})
            <=> \E i \in 1 .. Len(pending) : pending[i].thread = t
    /\ \A i, j \in 1 .. Len(pending) :
          pending[i].thread = pending[j].thread \/
            (pending[i].ch = pending[j].ch /\ pending[i].seq = pending[j].seq) => i = j

\* The select thread never finds a full buffer in TransTdcRecvData, where a
\* read of length 0 is an error that closes the session: after every round the
\* first packet fits and is still incomplete (message.c:445).
RoomToReceive ==
    sel.pc \in {"poll", "event", "recv"} =>
        \A c \in Channel : buf[c] # NULL => Len(buf[c].data) < buf[c].size

\* TransTdcProcessData never looks for a buffer that is gone: that path returns
\* with the lock of g_tcpDataList held (message.c:323).  It rests on only the
\* select thread deleting buffers, not on the closing of a channel.
BufferThereWhenProcessed == sel.pc = "decrypt" => buf[sel.ch] # NULL

\* Data is delivered in the order the peer sent it and with nothing left out,
\* on every channel none of whose bytes were read into the buffer of another
\* (message.c:445 reads from node->fd, which a close may have handed on).
InOrder ==
    sel.pc = "deliver" /\ sel.pkt.flag # "ACK" =>
        LET x == conn[sel.ch]
        IN  x.state \in {"open", "peer_closed"} /\ ~x.stolen => sel.pkt.seq = x.got + 1

InCall(t) == thr[t].pc # "idle"

\* A call of SendBytes or SendMessage returns: the wait for the acknowledgement
\* ends by the acknowledgement, the close of the channel or the timeout.
SendReturns == \A t \in Thread : InCall(t) ~> ~InCall(t)

-----------------------------------------------------------------------------
(***************************************************************************)
(* The handshake of a TCP direct channel in the service                    *)
(* (trans_tcp_direct_manager.c, _listener.c, _message.c): a connection is  *)
(* made or taken, its request and reply exchanged, and the connection      *)
(* handed to the application, which then has its own descriptor of it.     *)
(*                                                                         *)
(* The openers, the selecting thread (dsel), the timer and the death of an *)
(* application interleave: the selecting thread works on copies.  A        *)
(* connection is known by its socket, whose numbers are not used again.    *)
(* The handshake's 19 s are longer than the steps of an opener.            *)
(***************************************************************************)

CONSTANTS MaxTdc,     \* connections made or taken
          TdcOpener,  \* threads that open channels
          TdcNil      \* nothing to do

VARIABLES tdc,        \* tdc[f]: socket, triggers, SessionConn, data buffer, answers
          topen,      \* topen[u]: <<step, f>> of TransOpenTcpDirectChannel
          dsel,       \* <<step, f>> of the selecting thread
          raced       \* the timer ended what the selecting thread had just answered

tdVars == <<tdc, topen, dsel, raced>>

Socks == 1 .. MaxTdc
NoTdc == [side |-> "none", sock |-> "none", trig |-> {}, conn |-> "none", status |-> "none",
          buf |-> FALSE, server |-> TRUE, told |-> {}, dead |-> FALSE, late |-> FALSE]

TdcServerInit ==
    /\ tdc = [f \in Socks |-> NoTdc] /\ topen = [u \in TdcOpener |-> TdcNil]
    /\ dsel = TdcNil /\ raced = {}

New(f) == f = Cardinality({g \in Socks : tdc[g].side # "none"}) + 1 /\ f \in Socks

-----------------------------------------------------------------------------
(* Parts of the handlers. *)

\* TcpShutDown, CloseTcpDirectFd.
Shut(c) == [c EXCEPT !.sock = "closed"]

MutantStaysConn(c) == c

\* TransDelSessionConnById.
WithoutConn(c) == IF c.conn = "listed" THEN [c EXCEPT !.conn = "gone"] ELSE c

MutantKeepsBuf(c) == c

\* TransSrvDelDataBufNode.
WithoutBuf(c) == [c EXCEPT !.buf = FALSE]

\* TransTdcOnChannelOpenFailed: the client's application is told.
ToldFailed(c) == IF c.side = "client" THEN [c EXCEPT !.told = @ \cup {"failed"}] ELSE c

MutantTellsNobody(c) == c

\* NotifyChannelOpenFailed: nobody is told when the SessionConn is gone, or when
\* the application's session server is, by which its package is looked up.
NotifyChannelOpenFailed(c) == IF c.conn = "listed" /\ c.server THEN ToldFailed(c) ELSE c

-----------------------------------------------------------------------------
(* Opening. *)

OpenerStep(u, f, from, to) == topen[u] = <<from, f>> /\ topen' = [topen EXCEPT ![u] = to]

\* TransOpenTcpDirectChannel: OpenConnTcp, then TransSrvAddDataBufNode, whose
\* failure leaves the socket open.
OpenConn(u) ==
    \E f \in Socks, ok \in BOOLEAN :
        /\ New(f) /\ topen[u] = TdcNil
        /\ topen' = [topen EXCEPT ![u] = IF ok THEN <<"add", f>> ELSE TdcNil]
        /\ tdc' = [tdc EXCEPT ![f].side = "client", ![f].sock = "open", ![f].buf = ok,
                              ![f].told = IF ok THEN @ ELSE {"error"}]
        /\ UNCHANGED <<dsel, raced>>

\* TransTdcAddSessionConn.
OpenAdd(u) ==
    \E f \in Socks :
        /\ OpenerStep(u, f, "add", <<"trigger", f>>)
        /\ tdc' = [tdc EXCEPT ![f].conn = "listed", ![f].status = "handshaking"]
        /\ UNCHANGED <<dsel, raced>>

\* AddTrigger with the descriptor read from newConn.  When the death of the
\* application has freed newConn the descriptor may be any number.
OpenTrigger(u) ==
    \E f \in Socks :
        /\ OpenerStep(u, f, "trigger", TdcNil)
        /\ \/ tdc' = [tdc EXCEPT ![f].trig = {"w"}]
           \/ tdc[f].conn = "gone" /\ UNCHANGED tdc
        /\ UNCHANGED <<dsel, raced>>

\* AddTrigger fails at its limit: the SessionConn goes, then the data buffer.
\* The socket stays open; the caller gets the error.
OpenUndoConn(u) ==
    \E f \in Socks :
        /\ OpenerStep(u, f, "trigger", <<"undo", f>>)
        /\ tdc' = [tdc EXCEPT ![f] = WithoutConn(@)]
        /\ UNCHANGED <<dsel, raced>>

OpenUndoBuf(u) ==
    \E f \in Socks :
        /\ OpenerStep(u, f, "undo", TdcNil)
        /\ tdc' = [tdc EXCEPT ![f] = [WithoutBuf(@) EXCEPT !.told = @ \cup {"error"}]]
        /\ UNCHANGED <<dsel, raced>>

\* OnConnectEvent, CreateSessionConnNode, which close what they cannot record.
OnConnectEvent(f) ==
    /\ New(f) /\ dsel = TdcNil
    /\ \/ tdc' = [tdc EXCEPT ![f] = [NoTdc EXCEPT !.side = "server", !.sock = "open", !.trig = {"r"},
                                     !.conn = "listed", !.status = "connecting", !.buf = TRUE]]
       \/ tdc' = [tdc EXCEPT ![f] = [NoTdc EXCEPT !.side = "server", !.sock = "closed"]]
    /\ UNCHANGED <<topen, dsel, raced>>

-----------------------------------------------------------------------------
(* OnDataEvent in the selecting thread. *)

\* No SessionConn has the socket: it was selected before the timer or the
\* death of its application took it away.
EventOfNobody(f) ==
    /\ dsel = TdcNil /\ tdc[f].conn = "gone" /\ (tdc[f].late \/ tdc[f].dead)
    /\ tdc' = [tdc EXCEPT ![f] = [Shut(@) EXCEPT !.trig = {}]]
    /\ UNCHANGED <<topen, dsel, raced>>

\* SOFTBUS_SOCKET_OUT, StartVerifySession.  A failing AddTrigger is not noticed.
EventOut(f) ==
    /\ dsel = TdcNil /\ "w" \in tdc[f].trig /\ tdc[f].conn = "listed"
    /\ \E watched \in {{"r"}, {}} : tdc' = [tdc EXCEPT ![f].trig = watched]
    /\ dsel' \in {TdcNil, <<"shut", f>>}
    /\ UNCHANGED <<topen, raced>>

\* TransTdcSrvRecvData: a whole packet, of which no more is awaited.
EventIn(f) ==
    /\ dsel = TdcNil /\ "r" \in tdc[f].trig /\ tdc[f].conn = "listed"
    /\ tdc' = [tdc EXCEPT ![f].trig = {}] /\ dsel' = <<"notify", f>>
    /\ UNCHANGED <<topen, raced>>

\* TransTdcSrvRecvData: lost, or not a packet.
EventBad(f) ==
    /\ dsel = TdcNil /\ "r" \in tdc[f].trig /\ tdc[f].conn = "listed"
    /\ dsel' = <<"shut", f>> /\ UNCHANGED <<tdc, topen, raced>>

\* NotifyChannelOpened copies the SessionConn and finds the application.
NotifyLookUp(f) ==
    /\ dsel = <<"notify", f>> /\ tdc[f].conn = "listed" /\ tdc[f].server
    /\ dsel' = <<"open", f>> /\ UNCHANGED <<tdc, topen, raced>>

\* The request or reply is not valid, or one of the two is not there.
NotifyRefused(f) ==
    /\ dsel = <<"notify", f>> /\ dsel' = <<"shut", f>>
    /\ UNCHANGED <<tdc, topen, raced>>

\* TransTdcOnChannelOpened: the application has the connection, or could not be
\* reached.
NotifyOpened(f) ==
    /\ dsel = <<"open", f>>
    /\ \/ dsel' = <<"status", f>> /\ tdc' = [tdc EXCEPT ![f].told = @ \cup {"open"}]
       \/ dsel' = <<"unopened", f>> /\ UNCHANGED tdc
    /\ UNCHANGED <<topen, raced>>

\* SetSessionConnStatusById, whatever the application said, then the server's
\* reply, which may fail.
SetStatus(f) ==
    /\ dsel \in {<<"status", f>>, <<"unopened", f>>}
    /\ tdc' = [tdc EXCEPT ![f].status = IF tdc[f].conn = "listed" THEN "connected" ELSE @]
    /\ \/ dsel[1] = "status" /\ dsel' = <<"close", f>>
       \/ (dsel[1] = "unopened" \/ tdc[f].side = "server") /\ dsel' = <<"shut", f>>
    /\ UNCHANGED <<topen, raced>>

\* TransProcDataRes.
ResClose(f) ==
    /\ dsel = <<"close", f>> /\ dsel' = <<"del", f>>
    /\ tdc' = [tdc EXCEPT ![f] = Shut(@)] /\ UNCHANGED <<topen, raced>>

ResShut(f) ==
    /\ dsel = <<"shut", f>> /\ dsel' = <<"tell", f>>
    /\ tdc' = [tdc EXCEPT ![f] = [Shut(@) EXCEPT !.trig = {}]] /\ UNCHANGED <<topen, raced>>

ResTell(f) ==
    /\ dsel = <<"tell", f>> /\ dsel' = <<"del", f>>
    /\ tdc' = [tdc EXCEPT ![f] = NotifyChannelOpenFailed(@)]
    /\ UNCHANGED <<topen, raced>>

ResDel(f) ==
    /\ dsel = <<"del", f>> /\ dsel' = TdcNil
    /\ tdc' = [tdc EXCEPT ![f] = WithoutBuf(WithoutConn(@))] /\ UNCHANGED <<topen, raced>>

-----------------------------------------------------------------------------
(* The timer and the death of applications. *)

MutantAnyStatus(c) == TRUE

\* TransTdcTimerProc: still in its handshake after HANDSHAKE_TIMEOUT.
Expires(c) == c.status \in {"handshaking", "connecting"}

Opening(f) == \E u \in TdcOpener : topen[u] # TdcNil /\ topen[u][2] = f
Selected(f) == dsel # TdcNil /\ dsel[2] = f

\* OnSesssionTimeOutProc; the data buffer stays.  A thread that still opens the
\* channel is faster than the 19 seconds of the timer.
TimerProc(f) ==
    /\ tdc[f].conn = "listed" /\ Expires(tdc[f]) /\ ~Opening(f)
    /\ tdc' = [tdc EXCEPT ![f] = [WithoutConn(Shut(ToldFailed(@))) EXCEPT !.trig = {}, !.late = TRUE]]
    /\ raced' = IF Selected(f) /\ dsel[1] \in {"open", "status"} THEN raced \cup {f} ELSE raced
    /\ UNCHANGED <<topen, dsel>>

\* TransDelItemByPackageName, or the application removes its session server.
RemoveSessionServer(f) ==
    /\ tdc[f].side # "none" /\ tdc[f].server /\ tdc[f].conn # "gone"
    /\ tdc' = [tdc EXCEPT ![f].server = FALSE]
    /\ UNCHANGED <<topen, dsel, raced>>

\* TransTdcDeathCallback: the socket and the data buffer stay.  A SessionConn of
\* the server side has no package name.
DeathCallback(f) ==
    /\ tdc[f].conn = "listed" /\ tdc[f].side = "client" /\ ~tdc[f].server
    /\ tdc' = [tdc EXCEPT ![f] = [WithoutConn(@) EXCEPT !.trig = {}, !.dead = TRUE]]
    /\ UNCHANGED <<topen, dsel, raced>>

-----------------------------------------------------------------------------
TdcServerNext ==
    \/ \E u \in TdcOpener : OpenConn(u) \/ OpenAdd(u) \/ OpenTrigger(u) \/ OpenUndoConn(u) \/ OpenUndoBuf(u)
    \/ \E f \in Socks :
        \/ OnConnectEvent(f) \/ EventOfNobody(f) \/ EventOut(f) \/ EventIn(f) \/ EventBad(f)
        \/ NotifyLookUp(f) \/ NotifyRefused(f) \/ NotifyOpened(f) \/ SetStatus(f)
        \/ ResClose(f) \/ ResShut(f) \/ ResTell(f) \/ ResDel(f)
        \/ TimerProc(f) \/ RemoveSessionServer(f) \/ DeathCallback(f)

TdcServerSpec == TdcServerInit /\ [][TdcServerNext]_tdVars

-----------------------------------------------------------------------------
(* Properties. *)

At(f) == Opening(f) \/ Selected(f)

\* The type of every variable.
TdcTypeOK ==
    \A f \in Socks : /\ tdc[f].sock \in {"none", "open", "closed"} /\ tdc[f].trig \subseteq {"r", "w"}
                     /\ tdc[f].told \subseteq {"open", "failed", "error"}

\* An open has one outcome: the application is never given a connection and told
\* that the open failed, nor told both by the call and by the callback, unless
\* the timer struck while the selecting thread was giving it the connection and
\* had not noted that yet.
OneOutcome == \A f \in Socks : Cardinality(tdc[f].told) > 1 => f \in raced /\ "error" \notin tdc[f].told

\* A channel that is no longer known to the service was answered to the client's
\* application, by the call, by the connection or by the failure callback, as
\* long as the application keeps its session server.
GoneIsTold ==
    \A f \in Socks : (tdc[f].side = "client" /\ tdc[f].conn = "gone" /\ tdc[f].server /\ ~At(f)) =>
        tdc[f].told # {}

\* What a channel that ended leaves behind: a data buffer only when the timer or
\* the death of its application ended it, and an open socket only when the
\* latter did or the open was refused after the connection was made.
NothingLeft ==
    \A f \in Socks : (tdc[f].side # "none" /\ tdc[f].conn # "listed" /\ ~At(f)) =>
        /\ tdc[f].buf => tdc[f].late \/ tdc[f].dead
        /\ tdc[f].sock = "open" => tdc[f].dead \/ "error" \in tdc[f].told

\* A connection the selecting thread is done with is not listed any more: the
\* timer cannot end what the application already uses.
DoneIsUnlisted == \A f \in Socks : (tdc[f].sock = "closed" /\ ~At(f)) => tdc[f].conn # "listed"

=============================================================================
