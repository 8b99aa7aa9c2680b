-------------------------------- MODULE MCTransport --------------------------------
(* The transport side of the bus, and what it rests on, each component on a small instance:
   the TCP connections, the sessions of an application, TCP direct, proxy and UDP channels on
   both sides of the service boundary, the streams' protocol stack, the listeners and their
   threads, the loopers, the queue and the sequence numbers.  One behaviour is of one part;
   the parts share the slots, except two that keep their own variables. *)
EXTENDS Integers, TcpConnect, ClientSession

CONSTANTS NULL, dl, bl, main, t1, t2, u1, u2, c1, c2, p1, p2, n1, m1, m2, k1, k2, f1, f2, i1,
          i2, s1, s2, d1, d2   \* model values

VARIABLES
    part,   \* the component whose behaviour this is
    v1, v2, v3, v4, v5, v6, v7, v8, v9, v10, v11, v12, v13, v14   \* its variables

slots == <<v1, v2, v3, v4, v5, v6, v7, v8, v9, v10, v11, v12, v13, v14>>
mcVars == <<part, slots, tcVars, csVars>>

Seq == INSTANCE SeqVerification WITH
    info <- v1, sent <- v2, behind <- v3, accepted <- v4, outcome <- v5, SeqBits <- 4,
    MAX_SEQ_BIAS <- 3, BitmapBits <- 5, RepeatBits <- 3, Lifetime <- 4, MaxSent <- 20
Lfq == INSTANCE LockFreeQueue WITH
    crew <- v1, producer <- v2, consumer <- v3, nodes <- v4, pc <- v5, local <- v6, ret <- v7,
    calls <- v8, Producers <- {p1, p2}, Consumers <- {c1, c2},
    Crews <- {{p1, p2, c1}, {p1, c1, c2}}, unitNum <- 4, Wrap <- 8, Starts <- {6},
    MaxCalls <- 4

\* The instance of the queue is one its theorems are about.
ASSUME QueueConstantsHold == Lfq!QueueConstants

Tcp == INSTANCE TcpDirect WITH
    chan <- v1, buf <- v2, sock <- v3, trig <- v4, conn <- v5, pending <- v6, thr <- v7,
    sel <- v8, sess <- v9, open <- v10, packets <- v11, tdc <- v1, topen <- v2, dsel <- v3,
    raced <- v4, Channel <- {1, 2}, Fd <- {1}, Thread <- {t1}, MinBuf <- 2, MaxBuf <- 3,
    BytesLen <- 1, MessageLen <- 2, MaxPackets <- 1, MaxTdc <- 2, TdcOpener <- {u1, u2},
    TdcNil <- NULL
Tcp2 == INSTANCE TcpDirect WITH
    chan <- v1, buf <- v2, sock <- v3, trig <- v4, conn <- v5, pending <- v6, thr <- v7,
    sel <- v8, sess <- v9, open <- v10, packets <- v11, tdc <- v1, topen <- v2, dsel <- v3,
    raced <- v4, Channel <- {1}, Fd <- {1}, Thread <- {t1}, MinBuf <- 2, MaxBuf <- 3,
    BytesLen <- 1, MessageLen <- 2, MaxPackets <- 2, MaxTdc <- 1, TdcOpener <- {},
    TdcNil <- NULL
Proxy == INSTANCE ProxyChannel WITH
    pchan <- v1, pitem <- v2, plink <- v3, ploop <- v4, popen <- v5, paccept <- v6, ptold <- v7,
    cancelled <- v8, overtaken <- v9, chanSeq <- v1, sending <- v2, wire <- v3, assembly <- v4,
    received <- v5, acks <- v6, pendingAck <- v7, sent <- v8, mixed <- v9, MaxChan <- 2,
    MaxLink <- 2, Opener <- {u1, u2}, SliceSender <- {s1, s2}, MaxPackets <- 2,
    Lens <- {2, 3, 6}, MaxSend <- 2, PktHead <- 1
Udp == INSTANCE UdpChannel WITH
    uchan <- v1, ubits <- v2, uapp <- v3, unet <- v4, uthread <- v5, urecv <- v6, utold <- v7,
    ustat <- v8, ulist <- v1, uopen <- v2, dfile <- v3, uheard <- v4, flist <- v5, ubad <- v6,
    Dev <- {d1, d2}, UdpCloser <- {d1, d2}, UdpOpener <- {d1}, UdpThread <- {t1}, MaxIds <- 1,
    MaxNegs <- 1, MaxFaults <- 1, UdpNil <- NULL, UcId <- {i1, i2}, MaxSessions <- 1,
    UcName <- {s1}, UcNil <- NULL
Udp2 == INSTANCE UdpChannel WITH
    uchan <- v1, ubits <- v2, uapp <- v3, unet <- v4, uthread <- v5, urecv <- v6, utold <- v7,
    ustat <- v8, ulist <- v1, uopen <- v2, dfile <- v3, uheard <- v4, flist <- v5, ubad <- v6,
    Dev <- {d1, d2}, UdpCloser <- {d1}, UdpOpener <- {d1}, UdpThread <- {t1}, MaxIds <- 1,
    MaxNegs <- 2, MaxFaults <- 0, UdpNil <- NULL, UcId <- {}, MaxSessions <- 1, UcName <- {},
    UcNil <- NULL
Vtp == INSTANCE VtpStream WITH
    role <- v1, opener <- v2, held <- v3, open <- v4, lock <- v5, recving <- v6, receiver <- v7,
    dead <- v8, buffer <- v9, acc <- v10, note <- v11, cfg <- v12, closer <- v13, peer <- v14,
    heard <- 0, lost <- 0, late <- 0, waited <- 0, chan <- v1, left <- v2, sock <- v3, up <- v4,
    named <- v5, inits <- v6, socks <- v7, waiters <- v8, initFails <- v9, cut <- v10,
    kept <- v11, harmed <- v12, MaxFrames <- 0, MaxOpens <- 3, MaxInitFails <- 1
Conn == INSTANCE Connection WITH
    cmInited <- v1, listeners <- v2, cnt <- v3, manager <- v4, cmThr <- v5, conn <- v6,
    heard <- v7, since <- v8, buf <- v9, reqId <- v10, asking <- v11, ids <- v12,
    overlap <- v13, cmUsed <- v14, info <- v1, rset <- v2, wset <- v3, maxFd <- v4, own <- v5,
    ready <- v6, caller <- v7, selector <- v8, raced <- v9, left <- v10, ConnModule <- {m1, m2},
    Media <- {2}, CmThread <- {t1, t2}, CmCaller <- {k1}, IdSpace <- 4, ReqidMax <- 6,
    MaxConn <- 2, MaxInits <- 1, MaxIds <- 0, MaxSets <- 1, Modules <- 2, Listening <- {1},
    MaxFdNum <- 1, MaxReady <- 0, Caller <- {c1, c2}, MaxListenEvents <- 1
Conn2 == INSTANCE Connection WITH
    cmInited <- v1, listeners <- v2, cnt <- v3, manager <- v4, cmThr <- v5, conn <- v6,
    heard <- v7, since <- v8, buf <- v9, reqId <- v10, asking <- v11, ids <- v12,
    overlap <- v13, cmUsed <- v14, info <- v1, rset <- v2, wset <- v3, maxFd <- v4, own <- v5,
    ready <- v6, caller <- v7, selector <- v8, raced <- v9, left <- v10, ConnModule <- {},
    Media <- {}, CmThread <- {}, CmCaller <- {}, IdSpace <- 1, ReqidMax <- 1, MaxConn <- 1,
    MaxInits <- 1, MaxIds <- 0, MaxSets <- 0, Modules <- 1, Listening <- {1}, MaxFdNum <- 2,
    MaxReady <- 0, Caller <- {c1, c2}, MaxListenEvents <- 1
Ids == INSTANCE Connection WITH
    cmInited <- v1, listeners <- v2, cnt <- v3, manager <- v4, cmThr <- v5, conn <- v6,
    heard <- v7, since <- v8, buf <- v9, reqId <- v10, asking <- v11, ids <- v12,
    overlap <- v13, cmUsed <- v14, info <- v1, rset <- v2, wset <- v3, maxFd <- v4, own <- v5,
    ready <- v6, caller <- v7, selector <- v8, raced <- v9, left <- v10, ConnModule <- {m1},
    Media <- {1, 2}, CmThread <- {t1}, CmCaller <- {k1, k2}, IdSpace <- 4, ReqidMax <- 6,
    MaxConn <- 1, MaxInits <- 3, MaxIds <- 3, MaxSets <- 1, Modules <- 1, Listening <- {},
    MaxFdNum <- 1, MaxReady <- 0, Caller <- {c1}, MaxListenEvents <- 1
Loop == INSTANCE Looper WITH
    context <- v1, task <- v2, posting <- v3, destroyer <- v4, main <- v5, g_loopConfig <- v6,
    g_isThreadStarted <- v7, g_isNeedDestroy <- v8, posted <- v9, clock <- v10, setBacks <- v11,
    Loopers <- {dl, bl}, Default <- dl, Threads <- {t1}, PostedTo <- {dl}, Main <- main,
    Delays <- {0, 1}, What <- {1, 2}, MaxMsg <- 2, MaxClock <- 1, MaxSetBack <- 1

(* The slots a part does not need hold 0, and keep it. *)
Spare(k) ==
    /\ IF k < 1 THEN v1 = 0 ELSE TRUE
    /\ IF k < 2 THEN v2 = 0 ELSE TRUE
    /\ IF k < 3 THEN v3 = 0 ELSE TRUE
    /\ IF k < 4 THEN v4 = 0 ELSE TRUE
    /\ IF k < 5 THEN v5 = 0 ELSE TRUE
    /\ IF k < 6 THEN v6 = 0 ELSE TRUE
    /\ IF k < 7 THEN v7 = 0 ELSE TRUE
    /\ IF k < 8 THEN v8 = 0 ELSE TRUE
    /\ IF k < 9 THEN v9 = 0 ELSE TRUE
    /\ IF k < 10 THEN v10 = 0 ELSE TRUE
    /\ IF k < 11 THEN v11 = 0 ELSE TRUE
    /\ IF k < 12 THEN v12 = 0 ELSE TRUE
    /\ IF k < 13 THEN v13 = 0 ELSE TRUE
    /\ IF k < 14 THEN v14 = 0 ELSE TRUE
Kept(k) ==
    /\ UNCHANGED <<part, tcVars, csVars>>
    /\ IF k < 1 THEN UNCHANGED v1 ELSE TRUE
    /\ IF k < 2 THEN UNCHANGED v2 ELSE TRUE
    /\ IF k < 3 THEN UNCHANGED v3 ELSE TRUE
    /\ IF k < 4 THEN UNCHANGED v4 ELSE TRUE
    /\ IF k < 5 THEN UNCHANGED v5 ELSE TRUE
    /\ IF k < 6 THEN UNCHANGED v6 ELSE TRUE
    /\ IF k < 7 THEN UNCHANGED v7 ELSE TRUE
    /\ IF k < 8 THEN UNCHANGED v8 ELSE TRUE
    /\ IF k < 9 THEN UNCHANGED v9 ELSE TRUE
    /\ IF k < 10 THEN UNCHANGED v10 ELSE TRUE
    /\ IF k < 11 THEN UNCHANGED v11 ELSE TRUE
    /\ IF k < 12 THEN UNCHANGED v12 ELSE TRUE
    /\ IF k < 13 THEN UNCHANGED v13 ELSE TRUE
    /\ IF k < 14 THEN UNCHANGED v14 ELSE TRUE

Init ==
    /\ \/ part = "seq" /\ Seq!Init /\ Spare(5)
       \/ part = "queue" /\ Lfq!Init /\ Spare(8)
       \/ part = "direct" /\ Tcp!TcpDirectInit /\ Spare(11)
       \/ part = "direct2" /\ Tcp2!TcpDirectInit /\ Spare(11)
       \/ part = "tdc" /\ Tcp!TdcServerInit /\ Spare(4)
       \/ part = "proxy" /\ Proxy!ProxyInit /\ Spare(9)
       \/ part = "slices" /\ Proxy!SliceInit /\ Spare(9)
       \/ part = "udp" /\ Udp!UdpInit /\ Spare(8)
       \/ part = "udp2" /\ Udp2!UdpInit /\ Spare(8)
       \/ part = "udpclient" /\ Udp!UdpClientInit /\ Spare(6)
       \/ part = "stack" /\ Vtp!StackInit /\ Spare(12)
       \/ part = "manager" /\ Conn!ConnMgrInit
       \/ part = "ids" /\ Ids!ConnMgrInit
       \/ part = "listener" /\ Conn!ListenerInit /\ Spare(10)
       \/ part = "listener2" /\ Conn2!ListenerInit /\ Spare(10)
       \/ part = "looper" /\ Loop!Init /\ Spare(11)
       \/ part \in {"tcp", "session"} /\ Spare(0)
    /\ TcpConnInit
    /\ ClientSessionInit

Next ==
    \/ part = "seq" /\ Seq!Next /\ Kept(5)
    \/ part = "queue" /\ Lfq!Next /\ Kept(8)
    \/ part = "direct" /\ Tcp!TcpDirectNext /\ Kept(11)
    \/ part = "direct2" /\ Tcp2!TcpDirectNext /\ Kept(11)
    \/ part = "tdc" /\ Tcp!TdcServerNext /\ Kept(4)
    \/ part = "proxy" /\ Proxy!ProxyNext /\ Kept(9)
    \/ part = "slices" /\ Proxy!SliceNext /\ Kept(9)
    \/ part = "udp" /\ Udp!UdpNext /\ Kept(8)
    \/ part = "udp2" /\ Udp2!UdpNext /\ Kept(8)
    \/ part = "udpclient" /\ Udp!UdpClientNext /\ Kept(6)
    \/ part = "stack" /\ Vtp!StackNext /\ Kept(12)
    \/ part = "manager" /\ Conn!ConnMgrNext /\ Kept(14)
    \/ part = "ids" /\ Ids!ConnMgrNext /\ Kept(14)
    \/ part = "listener" /\ Conn!ListenerNext /\ Kept(10)
    \/ part = "listener2" /\ Conn2!ListenerNext /\ Kept(10)
    \/ part = "looper" /\ Loop!Next /\ Kept(11)
    \/ part = "tcp" /\ TcpConnNext /\ UNCHANGED <<part, slots, csVars>>
    \/ part = "session" /\ ClientSessionNext /\ UNCHANGED <<part, slots, tcVars>>
    \/ part \in {"direct", "direct2", "tdc", "proxy", "slices", "udp", "udp2", "udpclient",
                  "stack", "manager", "ids", "listener", "listener2", "looper", "tcp",
                  "session"} /\ UNCHANGED mcVars   \* these may stop

Spec == Init /\ [][Next]_mcVars

-----------------------------------------------------------------------------
(* The type invariant of every part. *)
TypeOK ==
    /\ part = "seq" => Seq!TypeOK
    /\ part = "queue" => Lfq!TypeOK
    /\ part = "direct" => Tcp!TcpDirectTypeOK
    /\ part = "direct2" => Tcp2!TcpDirectTypeOK
    /\ part = "tdc" => Tcp!TdcTypeOK
    /\ part = "proxy" => Proxy!ProxyTypeOK
    /\ part = "slices" => Proxy!SliceTypeOK
    /\ part = "udp" => Udp!UdpTypeOK
    /\ part = "udp2" => Udp2!UdpTypeOK
    /\ part = "udpclient" => Udp!UdpClientTypeOK
    /\ part = "manager" => Conn!ConnMgrTypeOK
    /\ part = "ids" => Ids!ConnMgrTypeOK
    /\ part = "listener" => Conn!ListenerTypeOK
    /\ part = "listener2" => Conn2!ListenerTypeOK
    /\ part = "looper" => Loop!TypeOK
    /\ ConnTypeOK
    /\ SessionTypeOK

\* The queue is a first-in first-out queue: an enqueue takes effect when the
\* tail is published, a dequeue when the head is claimed, QUEUE_EMPTY is
\* answered only if the queue was empty, and the node a dequeue returns is the
\* one that was oldest when it was claimed.
ImplementsFifo == 
    (part = "queue" => Lfq!FifoInit) /\ [][part = "queue" => Lfq!FifoStep]_mcVars

(* What is received is what was sent, and what is said of it is true: the sequence window of a TCP
   direct channel stays within its width, the slots of the lock free queue are written and read in
   turn, a message reported as sent was acknowledged, packets are cut from the stream and slices put
   together in order and whole, messages of a looper stay in the order of their times, and the bytes
   of ConnPostBytes have one owner.                                                                  *)
DataIntact ==
    /\ part = "seq" => Seq!WindowBounded
    /\ part = "queue" => Lfq!NoSlotRace /\ Lfq!CountExact /\ Lfq!TurnsHeld
    /\ part = "direct" => /\ Tcp!SuccessMeansAcknowledged /\ Tcp!RoomToReceive
                          /\ Tcp!BufferThereWhenProcessed /\ Tcp!InOrder
    /\ part = "direct2" => /\ Tcp2!SuccessMeansAcknowledged /\ Tcp2!RoomToReceive
                           /\ Tcp2!BufferThereWhenProcessed /\ Tcp2!InOrder
    /\ part = "slices" => Proxy!AllReceived
    /\ part = "ids" => Ids!BufferPlaced
    /\ part = "looper" => Loop!MsgListSorted /\ Loop!PostedInOrder

(* An application hears one outcome of each open, and the right one: opened or failed, never both
   (TransTdcTimerProc and TransUdp's timer against the late answer); a channel that goes is told to
   who uses it; both ends of a UDP channel mean each other; an application that was told of a channel
   has it; a listener that stays is called (ConnManagerConnected).                                   *)
OutcomesTrue ==
    /\ part = "tdc" => Tcp!OneOutcome /\ Tcp!GoneIsTold
    /\ part = "proxy" => Proxy!NoSilentLoss
    /\ part = "udp" => Udp!OneOutcome /\ Udp!EndsAgree
    /\ part = "udp2" => Udp2!OneOutcome /\ Udp2!EndsAgree
    /\ part = "udpclient" => Udp!ConnectedIsUsed /\ Udp!OpenedIsListed
    /\ part = "manager" => Conn!KeptIsTold

(* What several tables say of the same thing agrees between two steps of any threads: pending packets
   and their senders, channel and connection lists, reference counts and the channels that use a
   connection, ids and their holders, the descriptor sets and the lists of the select loop, listed
   TCP connections and their triggers, the sessions of an application and the channels of the service. *)
RecordsAgree ==
    /\ part = "direct" => Tcp!PendingRecordsOwned
    /\ part = "direct2" => Tcp2!PendingRecordsOwned
    /\ part = "tdc" => Tcp!DoneIsUnlisted
    /\ part = "proxy" => Proxy!RefCounts
    /\ part = "udp" => Udp!IdsHeld
    /\ part = "udp2" => Udp2!IdsHeld
    /\ part = "stack" => Vtp!SocketsCounted
    /\ part = "manager" => Conn!CopyFits
    /\ part = "ids" => Ids!IdsDistinct
    /\ part = "listener" => Conn!SetsMatchLists /\ Conn!MaxFdCovers
    /\ part = "listener2" => Conn2!SetsMatchLists /\ Conn2!MaxFdCovers
    /\ part = "tcp" => ListedAreWatched /\ KnownExist
    /\ part = "session" => /\ TablesConsistent /\ OneSessionPerPeer
                           /\ OneSessionPerChannel /\ SessionsMatchService

(* Nothing is kept for ever and nothing is used after it went: buffers and sockets of ended channels,
   ids of UDP channels, file sessions, the stream stack, sockets of TCP connections, and the context
   of a looper whose thread has not started.                                                         *)
NothingLeft ==
    /\ part = "tdc" => Tcp!NothingLeft
    /\ part = "udp" => Udp!NothingForgotten /\ Udp!CloseHitsOwn
    /\ part = "udp2" => Udp2!NothingForgotten /\ Udp2!CloseHitsOwn
    /\ part = "udpclient" => Udp!SessionsClosed
    /\ part = "stack" => Vtp!StackThere /\ Vtp!StackReleased /\ Vtp!NewChannelsKept
    /\ part = "looper" => Loop!ContextNotUsedAfterFree
    /\ part = "tcp" => SocketsOwned

(* What no step may do: IsPassSeqCheck refuse a fresh packet in the window or pass one behind it, an
   enqueue fail while a slot is free, a proxy channel disconnect a connection others use.            *)
StepsAllowed == [][
    /\ part = "seq" => Seq!PassesFresh /\ Seq!RefusesBehind
    /\ part = "queue" => Lfq!FullOnlyIfClaimed
    /\ part = "proxy" => Proxy!OnlyUnused]_mcVars
===================================================================================
