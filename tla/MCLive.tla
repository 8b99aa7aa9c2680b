---------------------------------- MODULE MCLive ----------------------------------
(* What must eventually happen, for each component under the fairness its threads give, on a
   small instance; with the safety properties of the components that no other module runs.
   One behaviour is of one part; the parts share the slots, except three that keep their
   own variables: LiveProofs is about two of them.                                        *)
EXTENDS Integers, TimeSync, AppCallbacks, ThreadPool

CONSTANT Parts   \* the parts of this run

CONSTANTS NULL, dl, bl, main, t1, t2, u1, u2, c1, c2, p1, p2, n1, n2, s1, s2, w1, w2, h1, h2,
          a1, d1, d2, e1, i1, i2, sender   \* model values

VARIABLES
    part,   \* the component whose behaviour this is
    v1, v2, v3, v4, v5, v6, v7, v8, v9, v10, v11, v12, v13, v14, v15, v16, v17, v18, v19, v20   \* its variables

slots == <<v1, v2, v3, v4, v5, v6, v7, v8, v9, v10, v11, v12, v13, v14, v15, v16, v17, v18, v19,
           v20>>
mcVars == <<part, slots, tsVars, acbVars, poolVars>>

Loop == INSTANCE Looper WITH
    context <- v1, task <- v2, posting <- v3, destroyer <- v4, main <- v5, g_loopConfig <- v6,
    g_isThreadStarted <- v7, g_isNeedDestroy <- v8, posted <- v9, clock <- v10, setBacks <- v11,
    Loopers <- {dl, bl}, Default <- dl, Threads <- {t1}, PostedTo <- {dl}, Main <- main,
    Delays <- {0, 1}, What <- {1}, MaxMsg <- 2, MaxClock <- 1, MaxSetBack <- 0
Conn == INSTANCE Connection WITH
    cmInited <- v1, listeners <- v2, cnt <- v3, manager <- v4, cmThr <- v5, conn <- v6,
    heard <- v7, since <- v8, buf <- v9, reqId <- v10, asking <- v11, ids <- v12,
    overlap <- v13, cmUsed <- v14, info <- v1, rset <- v2, wset <- v3, maxFd <- v4, own <- v5,
    ready <- v6, caller <- v7, selector <- v8, raced <- v9, left <- v10, ConnModule <- {},
    Media <- {}, CmThread <- {}, CmCaller <- {}, IdSpace <- 1, ReqidMax <- 1, MaxConn <- 1,
    MaxInits <- 1, MaxIds <- 0, MaxSets <- 0, Modules <- 1, Listening <- {1}, MaxFdNum <- 2,
    MaxReady <- 1, Caller <- {c1}, MaxListenEvents <- 1
Tcp == INSTANCE TcpDirect WITH
    chan <- v1, buf <- v2, sock <- v3, trig <- v4, conn <- v5, pending <- v6, thr <- v7,
    sel <- v8, sess <- v9, open <- v10, packets <- v11, tdc <- v1, topen <- v2, dsel <- v3,
    raced <- v4, Channel <- {1}, Fd <- {1}, Thread <- {t1}, MinBuf <- 2, MaxBuf <- 3,
    BytesLen <- 1, MessageLen <- 2, MaxPackets <- 1, MaxTdc <- 1, TdcOpener <- {},
    TdcNil <- NULL
Proxy == INSTANCE ProxyChannel WITH
    pchan <- v1, pitem <- v2, plink <- v3, ploop <- v4, popen <- v5, paccept <- v6, ptold <- v7,
    cancelled <- v8, overtaken <- v9, chanSeq <- v1, sending <- v2, wire <- v3, assembly <- v4,
    received <- v5, acks <- v6, pendingAck <- v7, sent <- v8, mixed <- v9, MaxChan <- 2,
    MaxLink <- 2, Opener <- {u1}, SliceSender <- {}, MaxPackets <- 1, Lens <- {}, MaxSend <- 1,
    PktHead <- 1
Br == INSTANCE BrConnection WITH
    links <- v1, req <- v2, driver <- v3, alive <- v1, sendList <- v2, pidList <- v3,
    sendPid <- v4, sender <- v5, glock <- v6, congested <- v7, event <- v8, posted <- v9,
    jams <- v10, purged <- v11, pkts <- v1, taken <- v2, recvBuf <- v3, recvPos <- v4,
    recvQueue <- v5, upward <- v6, spliced <- v7, BrReq <- {}, BrMac <- {}, MaxLinks <- 1,
    MaxDelta <- 0, BrConn <- {c1, c2}, Pid <- {1, 2}, BrPrio <- {1, 8}, MaxItems <- 2,
    MaxCongest <- 2, BrQueueMax <- 1, BrPieces <- 2, BrPkts <- 1, HeadUnits <- 1,
    BodyUnits <- {}, MaxPiece <- 1, BufUnits <- 1
Ble == INSTANCE BleConnection WITH
    svc <- v1, hal <- v2, gattMsg <- v3, ops <- v4, gatt <- v5, gcount <- v6, late <- v7,
    conns <- v1, list <- v2, nextId <- v3, infoSeq <- v4, poster <- v5, postQueue <- v6,
    sending <- v7, air <- v8, bwork <- v9, wrapped <- v10, confused <- v11, out <- v1,
    step <- v2, frags <- v3, cache <- v4, handed <- v5, queue <- v1, lock <- v2,
    signalled <- v3, pc <- v4, node <- v5, posts <- v6, MaxTurnOns <- 2, MaxListens <- 3,
    MaxGattFails <- 2, MaxConns <- 2, IdSpace <- 3, MaxWork <- 2, CacheNum <- 1, FragSeq <- {},
    FragLens <- {}, FragMax <- {}, MaxMsgs <- 1, MaxCuts <- 1, Posters <- {p1, p2},
    SendTask <- sender, Limit <- 4, MaxPosts <- 6
Auth == INSTANCE Authentication WITH
    am <- v1, keys <- v2, mail <- v3, medium <- v4, link <- v5, timer <- v6, hichain <- v7,
    rx <- v8, work <- v9, lnn <- v10, told <- v11, missed <- v12, orphan <- v13, broken <- v14,
    ac <- v1, opening <- v2, asel <- v3, unsaid <- v4, deaf <- v5, fatal <- v6, AuthId <- {a1},
    Others <- {}, MaxKeys <- 1, AuthNil <- NULL, MaxConn <- 1, AuthUser <- {}
Udp == INSTANCE UdpChannel WITH
    uchan <- v1, ubits <- v2, uapp <- v3, unet <- v4, uthread <- v5, urecv <- v6, utold <- v7,
    ustat <- v8, ulist <- v1, uopen <- v2, dfile <- v3, uheard <- v4, flist <- v5, ubad <- v6,
    Dev <- {d1, d2}, UdpCloser <- {d1}, UdpOpener <- {d1}, UdpThread <- {t1}, MaxIds <- 1,
    MaxNegs <- 1, MaxFaults <- 1, UdpNil <- NULL, UcId <- {}, MaxSessions <- 1, UcName <- {},
    UcNil <- NULL
Udp2 == INSTANCE UdpChannel WITH
    uchan <- v1, ubits <- v2, uapp <- v3, unet <- v4, uthread <- v5, urecv <- v6, utold <- v7,
    ustat <- v8, ulist <- v1, uopen <- v2, dfile <- v3, uheard <- v4, flist <- v5, ubad <- v6,
    Dev <- {d1, d2}, UdpCloser <- {d2}, UdpOpener <- {d1}, UdpThread <- {t1}, MaxIds <- 1,
    MaxNegs <- 1, MaxFaults <- 1, UdpNil <- NULL, UcId <- {}, MaxSessions <- 1, UcName <- {},
    UcNil <- NULL
Bus == INSTANCE BusCenterClient WITH
    bsys <- v1, items <- v2, clientLock <- v3, api <- v4, inbox <- v5, process <- v6,
    wire <- v7, reqs <- v8, reqLock <- v9, lnnWork <- v10, teller <- v11, rejected <- v12,
    touched <- v13, App <- {p1}, Asks <- {"join"}, Peer <- {1}, Callback <- {c1, c2},
    Systems <- {"small"}, MaxAsks <- 2, MaxDeaths <- 1, BusNil <- NULL
Ipc == INSTANCE ClientIpc WITH
    icall <- v1, rsys <- v1, svcUp <- v2, svcInc <- v3, table <- v4, recips <- v5, dying <- v6,
    appInc <- v7, app <- v8, proxyTo <- v9, watches <- v10, told <- v11, causes <- v12,
    RegSystems <- {"standard", "small"}, MaxApp <- 3, MaxService <- 3
Net == INSTANCE IpNetwork WITH
    kern <- v1, nlThread <- v2, nlHandler <- v3, nlq <- v4, wifiSub <- v5, wifiq <- v6,
    regs <- v7, boot <- v8, hand <- v9, ipLock <- v10, ledger <- v11, port <- v12,
    linkClosed <- v13, publish <- v14, subscribe <- v15, callLnn <- v16, leaves <- v17,
    fsms <- v18, ghost <- v19, ipUsed <- v20, MaxIp <- 1, MaxChanges <- 2, MaxJoins <- 0,
    MaxIpFails <- 0
Vtp == INSTANCE VtpStream WITH
    role <- v1, opener <- v2, held <- v3, open <- v4, lock <- v5, recving <- v6, receiver <- v7,
    dead <- v8, buffer <- v9, acc <- v10, note <- v11, cfg <- v12, closer <- v13, peer <- v14,
    heard <- v15, lost <- v16, late <- v17, waited <- v18, chan <- v1, left <- v2, sock <- v3,
    up <- v4, named <- v5, inits <- v6, socks <- v7, waiters <- v8, initFails <- v9, cut <- v10,
    kept <- v11, harmed <- v12, MaxFrames <- 2, MaxOpens <- 1, MaxInitFails <- 0
File == INSTANCE DFileTransfer WITH
    blocks <- v1, cl <- v2, ctl <- v3, toRead <- v4, listed <- v5, readFail <- v6,
    ackNode <- v7, c2s <- v8, s2c <- v9, sv <- v10, idDone <- v11, toWrite <- v12, wrote <- v13,
    begun <- v14, events <- v15, made <- v16, faults <- v17, dropped <- v18, forgot <- v19,
    NumFiles <- 1, MaxBlocks <- 2, MaxRetry <- 0, MaxRecvBlocks <- 1, AckRepeats <- 1,
    MaxDones <- 1, MaxFaults <- 1
Mgr == INSTANCE FileManager WITH
    mgr <- v1, fblocks <- v2, taskList <- v3, task <- v4, semTask <- v5, sendList <- v6,
    semNotFull <- v7, readOut <- v8, io <- v9, mloop <- v10, snd <- v11, ioFaults <- v12,
    Io <- {i1, i2}, NumTasks <- 1, NumFiles <- 1, MaxBlocks <- 1, SendCap <- 1, RecvCap <- 1,
    MaxTimeouts <- 0, MaxIoFaults <- 0
Sess == INSTANCE DFileSession WITH
    starter <- v1, node <- v2, closeFlag <- v3, chain <- v4, transfers <- v5, count <- v6,
    pending <- v7, fate <- v8, inbound <- v9, thread <- v10, caller <- v11, closer <- v12,
    fails <- v13, blame <- v14, used <- v15, local <- v1, cl <- v2, opener <- v3, sv <- v4,
    trans <- v5, c2s <- v6, s2c <- v7, cut <- v8, heard <- v9, forgot <- v10, unheard <- v11,
    resets <- v12, faults <- v13, size <- v1, outQueue <- v2, made <- v3, unsent <- v4,
    preNode <- v5, sender <- v6, ready <- v7, stream <- v8, started <- v9, recvBuf <- v10,
    recvGoal <- v11, frames <- v12, Caller <- {c1}, MaxLists <- 0, MaxProcessing <- 1,
    MaxTasks <- 0, MaxSettings <- 0, MaxFrames <- 2, MaxReadEvents <- 1, RecvMax <- 0,
    MaxFails <- 0, Mtu <- {1, 2}, MinMtu <- 1, MaxTrans <- 0, MaxTries <- 1, MaxResets <- 1,
    MaxFaults <- 1, MaxCtrl <- 2, MaxData <- 1, HeadLen <- 2, Payload <- {0, 1}, None <- NULL
Sess2 == INSTANCE DFileSession WITH
    starter <- v1, node <- v2, closeFlag <- v3, chain <- v4, transfers <- v5, count <- v6,
    pending <- v7, fate <- v8, inbound <- v9, thread <- v10, caller <- v11, closer <- v12,
    fails <- v13, blame <- v14, used <- v15, local <- v1, cl <- v2, opener <- v3, sv <- v4,
    trans <- v5, c2s <- v6, s2c <- v7, cut <- v8, heard <- v9, forgot <- v10, unheard <- v11,
    resets <- v12, faults <- v13, size <- v1, outQueue <- v2, made <- v3, unsent <- v4,
    preNode <- v5, sender <- v6, ready <- v7, stream <- v8, started <- v9, recvBuf <- v10,
    recvGoal <- v11, frames <- v12, Caller <- {c1}, MaxLists <- 0, MaxProcessing <- 1,
    MaxTasks <- 0, MaxSettings <- 0, MaxFrames <- 1, MaxReadEvents <- 1, RecvMax <- 0,
    MaxFails <- 1, Mtu <- {1, 2}, MinMtu <- 1, MaxTrans <- 0, MaxTries <- 1, MaxResets <- 1,
    MaxFaults <- 1, MaxCtrl <- 2, MaxData <- 1, HeadLen <- 2, Payload <- {0, 1}, None <- NULL
Find == INSTANCE DFinder WITH
    evq <- v1, net <- v2, disc <- v3, db <- v4, backup <- v5, filter <- v6, asked <- v7,
    answered <- v8, found <- v9, known <- v10, missed <- v11, budget <- v12, Dev <- {e1},
    DevType <- {1}, Caps <- {"x"}, FilterCaps <- {"x"}, DbSize <- 1, MaxDiscover <- 2,
    MaxSubs <- 1, MaxCalls <- 2, MaxQueue <- 2, MaxNet <- 1, MaxPackets <- 1, MaxLoss <- 1
Aid == INSTANCE DFinderSupport WITH
    initState <- v1, terminate <- v2, held <- v3, loop <- v4, owner <- v5, chain <- v6,
    lfc <- v7, early <- v8, lives <- v9, calls <- v10, slot <- v1, startIdx <- v2, endIdx <- v3,
    seen <- v4, later <- v5, repeated <- v6, twice <- v7, dropped <- v8, maxCount <- v1,
    usedMap <- v2, useCount <- v3, msg <- v1, phase <- v2, frame <- v3, got <- v4,
    LfCaller <- {c1, c2}, MaxLives <- 2, MaxAsked <- 3, MsgId <- {}, Reserve <- 1,
    Survival <- 1, RowSize <- 1, MaxRecords <- 1, NameLens <- {}, IdLens <- {}, DataLens <- {},
    NameMax <- 1, IdMax <- 1, DataMax <- 1, RxMax <- 1
Epoll == INSTANCE LiteEpoll WITH
    desc <- v1, open <- v2, es <- v3, mutex <- v4, node <- v5, pipe <- v6, runs <- v7, tm <- v8,
    kin <- v9, kerr <- v10, loop <- v11, missed <- v12, lost <- v13, stale <- v14, used <- v15,
    WordBits <- 4, Offset <- 4, RecvFd <- 6, EventFd <- 9, CoapFds <- {}, Timers <- {t1},
    PipeCap <- 1, MaxPosts <- 1, MaxArms <- 2, MaxErrors <- 0, MaxFails <- 0

(* The slots a part does not need hold 0, and keep it. *)
Spare(k) ==
    /\ IF k < 1 THEN v1 = 0 ELSE TRUE
    /\ IF k < 2 THEN v2 = 0 ELSE TRUE
    /\ IF k < 3 THEN v3 = 0 ELSE TRUE
    /\ IF k < 4 THEN v4 = 0 ELSE TRUE
    /\ IF k < 5 THEN v5 = 0 ELSE TRUE
    /\ IF k < 6 THEN v6 = 0 ELSE TRUE
    /\ IF k < 7 THEN v7 = 0 ELSE TRUE
    /\ IF k < 8 THEN v8 = 0 ELSE TRUE
    /\ IF k < 9 THEN v9 = 0 ELSE TRUE
    /\ IF k < 10 THEN v10 = 0 ELSE TRUE
    /\ IF k < 11 THEN v11 = 0 ELSE TRUE
    /\ IF k < 12 THEN v12 = 0 ELSE TRUE
    /\ IF k < 13 THEN v13 = 0 ELSE TRUE
    /\ IF k < 14 THEN v14 = 0 ELSE TRUE
    /\ IF k < 15 THEN v15 = 0 ELSE TRUE
    /\ IF k < 16 THEN v16 = 0 ELSE TRUE
    /\ IF k < 17 THEN v17 = 0 ELSE TRUE
    /\ IF k < 18 THEN v18 = 0 ELSE TRUE
    /\ IF k < 19 THEN v19 = 0 ELSE TRUE
    /\ IF k < 20 THEN v20 = 0 ELSE TRUE
Kept(k) ==
    /\ UNCHANGED <<part, tsVars, acbVars, poolVars>>
    /\ IF k < 1 THEN UNCHANGED v1 ELSE TRUE
    /\ IF k < 2 THEN UNCHANGED v2 ELSE TRUE
    /\ IF k < 3 THEN UNCHANGED v3 ELSE TRUE
    /\ IF k < 4 THEN UNCHANGED v4 ELSE TRUE
    /\ IF k < 5 THEN UNCHANGED v5 ELSE TRUE
    /\ IF k < 6 THEN UNCHANGED v6 ELSE TRUE
    /\ IF k < 7 THEN UNCHANGED v7 ELSE TRUE
    /\ IF k < 8 THEN UNCHANGED v8 ELSE TRUE
    /\ IF k < 9 THEN UNCHANGED v9 ELSE TRUE
    /\ IF k < 10 THEN UNCHANGED v10 ELSE TRUE
    /\ IF k < 11 THEN UNCHANGED v11 ELSE TRUE
    /\ IF k < 12 THEN UNCHANGED v12 ELSE TRUE
    /\ IF k < 13 THEN UNCHANGED v13 ELSE TRUE
    /\ IF k < 14 THEN UNCHANGED v14 ELSE TRUE
    /\ IF k < 15 THEN UNCHANGED v15 ELSE TRUE
    /\ IF k < 16 THEN UNCHANGED v16 ELSE TRUE
    /\ IF k < 17 THEN UNCHANGED v17 ELSE TRUE
    /\ IF k < 18 THEN UNCHANGED v18 ELSE TRUE
    /\ IF k < 19 THEN UNCHANGED v19 ELSE TRUE
    /\ IF k < 20 THEN UNCHANGED v20 ELSE TRUE

Init ==
    /\ part \in Parts
    /\ \/ part = "looper" /\ Loop!Init /\ Spare(11)
       \/ part = "listener" /\ Conn!ListenerInit /\ Spare(10)
       \/ part = "direct" /\ Tcp!TcpDirectInit /\ Spare(11)
       \/ part = "proxy" /\ Proxy!ProxyInit /\ Spare(9)
       \/ part = "brqueue" /\ Br!BrQueueInit /\ Spare(11)
       \/ part = "blequeue" /\ Ble!SendQueueInit /\ Spare(6)
       \/ part = "gatt" /\ Ble!GattInit /\ Spare(7)
       \/ part = "bleconn" /\ Ble!BleConnInit /\ Spare(11)
       \/ part = "auth" /\ Auth!AuthInit /\ Spare(14)
       \/ part = "udp" /\ Udp!UdpInit /\ Spare(8)
       \/ part = "udp2" /\ Udp2!UdpInit /\ Spare(8)
       \/ part = "join" /\ Bus!BusCenterInit /\ Spare(13)
       \/ part = "registry" /\ Ipc!RegistryInit /\ Spare(12)
       \/ part = "ip" /\ Net!Init
       \/ part = "socket" /\ Vtp!SocketInit /\ Spare(18)
       \/ part = "transfer" /\ File!TransferInit /\ Spare(19)
       \/ part = "manager" /\ Mgr!Init /\ Spare(12)
       \/ part = "session" /\ Sess!SessionInit /\ Spare(15)
       \/ part = "session2" /\ Sess2!SessionInit /\ Spare(15)
       \/ part = "setting" /\ Sess!SettingInit /\ Spare(13)
       \/ part = "stream" /\ Sess!StreamInit /\ Spare(12)
       \/ part = "find" /\ Find!Init /\ Spare(12)
       \/ part = "life" /\ Aid!LifeInit /\ Spare(10)
       \/ part = "epoll" /\ Epoll!Init /\ Spare(15)
       \/ part \in {"timesync", "callbacks", "pool"} /\ Spare(0)
    /\ TimeSyncInit
    /\ CallbackInit
    /\ PoolInit /\ (part # "pool" => usage = "library")

Next ==
    \/ part = "looper" /\ Loop!Next /\ Kept(11)
    \/ part = "listener" /\ Conn!ListenerNext /\ Kept(10)
    \/ part = "direct" /\ Tcp!TcpDirectNext /\ Kept(11)
    \/ part = "proxy" /\ Proxy!ProxyNext /\ Kept(9)
    \/ part = "brqueue" /\ Br!BrQueueNext /\ Kept(11)
    \/ part = "blequeue" /\ Ble!SendQueueNext /\ Kept(6)
    \/ part = "gatt" /\ Ble!GattNext /\ Kept(7)
    \/ part = "bleconn" /\ Ble!BleConnNext /\ Kept(11)
    \/ part = "auth" /\ Auth!AuthNext /\ Kept(14)
    \/ part = "udp" /\ Udp!UdpNext /\ Kept(8)
    \/ part = "udp2" /\ Udp2!UdpNext /\ Kept(8)
    \/ part = "join" /\ Bus!BusCenterNext /\ Kept(13)
    \/ part = "registry" /\ Ipc!RegistryNext /\ Kept(12)
    \/ part = "ip" /\ Net!Next /\ Kept(20)
    \/ part = "socket" /\ Vtp!SocketNext /\ Kept(18)
    \/ part = "transfer" /\ File!TransferNext /\ Kept(19)
    \/ part = "manager" /\ Mgr!Next /\ Kept(12)
    \/ part = "session" /\ Sess!SessionNext /\ Kept(15)
    \/ part = "session2" /\ Sess2!SessionNext /\ Kept(15)
    \/ part = "setting" /\ Sess!SettingNext /\ Kept(13)
    \/ part = "stream" /\ Sess!StreamNext /\ Kept(12)
    \/ part = "find" /\ Find!Next /\ Kept(12)
    \/ part = "life" /\ Aid!LifeNext /\ Kept(10)
    \/ part = "epoll" /\ Epoll!Next /\ Kept(15)
    \/ part = "timesync" /\ TimeSyncNext /\ UNCHANGED <<part, slots, acbVars, poolVars>>
    \/ part = "callbacks" /\ CallbackNext /\ UNCHANGED <<part, slots, tsVars, poolVars>>
    \/ part = "pool" /\ PoolNext /\ UNCHANGED <<part, slots, tsVars, acbVars>>
    \/ part \in {"looper", "listener", "direct", "proxy", "brqueue", "blequeue", "gatt",
                  "bleconn", "auth", "udp", "udp2", "join", "registry", "ip", "socket",
                  "transfer", "manager", "session", "session2", "setting", "stream", "find",
                  "life", "epoll", "timesync", "callbacks", "pool"} /\ UNCHANGED mcVars   \* these may stop

(* The fairness of the parts.  A behaviour is of one part, so a condition on the steps of
   several parts together says the same as one condition for each of them.             *)
Weak1 ==
    \/ part = "looper" /\ (Loop!LoopTask(dl) \/ Loop!PostMessageAtTime(dl) \/ Loop!Deinit(dl)) /\ Kept(11)
    \/ part = "listener" /\ Conn!Select /\ Kept(10)
    \/ part = "direct" /\ Tcp!Sender(t1) /\ Kept(11)
    \/ part = "proxy" /\ Proxy!LoopStep /\ Kept(9)
    \/ part = "brqueue" /\ Br!SenderStep /\ Kept(11)
    \/ part = "gatt" /\ Ble!BleConnMsgHandler /\ Kept(7)
    \/ part = "bleconn" /\ Ble!BleSendPosted /\ Kept(11)
    \/ part = "auth" /\ (Auth!Runs /\ Auth!VerifyArms(a1)) /\ Kept(14)
    \/ part = "udp" /\ Udp!RecvStep(d1) /\ Kept(8)
    \/ part = "udp2" /\ Udp2!RecvStep(d1) /\ Kept(8)
    \/ part = "join" /\ Bus!Steps /\ Kept(13)
    \/ part = "registry" /\ Ipc!Recovery /\ Kept(12)
    \/ part = "ip" /\ Net!Boots /\ Kept(20)
    \/ part = "socket" /\ (Vtp!FtAccept \/ Vtp!AcceptFails \/ Vtp!SetDefaultConfig \/ Vtp!Accepted \/ Vtp!RecvStreamLen \/ Vtp!RecvStream \/ Vtp!ReceiverEnds) /\ Kept(18)
    \/ part = "timesync" /\ TimeSyncMessageHandler /\ UNCHANGED <<part, slots, acbVars, poolVars>>
    \/ part = "callbacks" /\ ServiceBack /\ UNCHANGED <<part, slots, tsVars, poolVars>>
    \/ part = "transfer" /\ File!ClientRuns /\ Kept(19)
    \/ part = "manager" /\ Mgr!IoStep(i1) /\ Kept(12)
    \/ part = "session" /\ Sess!StartStep /\ Kept(15)
    \/ part = "session2" /\ Sess2!StartStep /\ Kept(15)
    \/ part = "setting" /\ Sess!OpenerStep /\ Kept(13)
    \/ part = "stream" /\ Sess!SendStep /\ Kept(12)
    \/ part = "find" /\ Find!HandleEvent /\ Kept(12)
    \/ part = "life" /\ Aid!LoopHandles /\ Kept(10)
    \/ part = "epoll" /\ Epoll!Loop /\ Kept(15)
Weak2 ==
    \/ part = "looper" /\ (Loop!LoopTask(bl) \/ Loop!PostMessageAtTime(bl) \/ Loop!Deinit(bl)) /\ Kept(11)
    \/ part = "listener" /\ Conn!ProcessData /\ Kept(10)
    \/ part = "proxy" /\ Proxy!OpenStep(u1) /\ Kept(9)
    \/ part = "brqueue" /\ Br!EventStep /\ Kept(11)
    \/ part = "gatt" /\ Ble!Callbacks /\ Kept(7)
    \/ part = "bleconn" /\ Ble!BlePostBytes /\ Kept(11)
    \/ part = "auth" /\ (Auth!Runs /\ Auth!AuthTimeout("client", a1)) /\ Kept(14)
    \/ part = "udp" /\ Udp!RecvStep(d2) /\ Kept(8)
    \/ part = "udp2" /\ Udp2!RecvStep(d2) /\ Kept(8)
    \/ part = "join" /\ Bus!ResultComes(<<"join", 1>>) /\ Kept(13)
    \/ part = "ip" /\ Net!ProcessAddrEvent /\ Kept(20)
    \/ part = "socket" /\ (Vtp!TakeStream \/ Vtp!NotifyStreamListener) /\ Kept(18)
    \/ part = "timesync" /\ ImplReports(n1) /\ UNCHANGED <<part, slots, acbVars, poolVars>>
    \/ part = "callbacks" /\ StopRound(t1) /\ UNCHANGED <<part, slots, tsVars, poolVars>>
    \/ part = "transfer" /\ File!ServerRuns /\ Kept(19)
    \/ part = "manager" /\ Mgr!IoStep(i2) /\ Kept(12)
    \/ part = "session" /\ Sess!MainStep /\ Kept(15)
    \/ part = "session2" /\ Sess2!MainStep /\ Kept(15)
    \/ part = "setting" /\ Sess!ClientSettingTimeoutHandle /\ Kept(13)
    \/ part = "stream" /\ Sess!RecvStep /\ Kept(12)
    \/ part = "find" /\ Find!CoapServiceDiscoverTimerHandle /\ Kept(12)
    \/ part = "life" /\ Aid!LoopEnds /\ Kept(10)
    \/ part = "epoll" /\ Epoll!TimerTimeoutHandle(t1) /\ Kept(15)
Weak3 ==
    \/ part = "looper" /\ Loop!PostMessageAtTime(t1) /\ Kept(11)
    \/ part = "listener" /\ Conn!CallerStep(c1) /\ Kept(10)
    \/ part = "proxy" /\ Proxy!WaitTimeout(1) /\ Kept(9)
    \/ part = "auth" /\ (Auth!Runs /\ Auth!PostCheck("client", a1)) /\ Kept(14)
    \/ part = "udp" /\ Udp!ThreadStep(d1, t1) /\ Kept(8)
    \/ part = "udp2" /\ Udp2!ThreadStep(d1, t1) /\ Kept(8)
    \/ part = "ip" /\ Net!UpdateLocalIp("netlink") /\ Kept(20)
    \/ part = "socket" /\ Vtp!SetVtpStackConfigDelayed /\ Kept(18)
    \/ part = "callbacks" /\ StopRound(t2) /\ UNCHANGED <<part, slots, tsVars, poolVars>>
    \/ part = "transfer" /\ File!ClientRead(FALSE) /\ Kept(19)
    \/ part = "manager" /\ Mgr!SenderStep /\ Kept(12)
    \/ part = "session" /\ Sess!SenderStep /\ Kept(15)
    \/ part = "session2" /\ Sess2!SenderStep /\ Kept(15)
    \/ part = "setting" /\ Sess!ClientFrame /\ Kept(13)
    \/ part = "find" /\ Find!LocalDeviceOffline /\ Kept(12)
    \/ part = "life" /\ Aid!NSTACKX_Deinit /\ Kept(10)
    \/ part = "epoll" /\ Epoll!EventModuleListed(TRUE) /\ Kept(15)
Weak4 ==
    \/ part = "looper" /\ Loop!Deinit(main) /\ Kept(11)
    \/ part = "proxy" /\ Proxy!WaitTimeout(2) /\ Kept(9)
    \/ part = "auth" /\ (Auth!Runs /\ Auth!PostCheck("server", a1)) /\ Kept(14)
    \/ part = "udp" /\ Udp!ThreadStep(d2, t1) /\ Kept(8)
    \/ part = "udp2" /\ Udp2!ThreadStep(d2, t1) /\ Kept(8)
    \/ part = "ip" /\ Net!UpdateLocalIp("wifi") /\ Kept(20)
    \/ part = "socket" /\ Vtp!DestroyStreamDataChannel /\ Kept(18)
    \/ part = "transfer" /\ File!ServerWrite(FALSE) /\ Kept(19)
    \/ part = "manager" /\ Mgr!CloseStep /\ Kept(12)
    \/ part = "session" /\ (Sess!PostReadEventToMainLoop \/ Sess!ReceiverLeaves) /\ Kept(15)
    \/ part = "session2" /\ (Sess2!PostReadEventToMainLoop \/ Sess2!ReceiverLeaves) /\ Kept(15)
    \/ part = "setting" /\ Sess!ServerFrame /\ Kept(13)
Weak5 ==
    \/ part = "looper" /\ Loop!ClockTick /\ Kept(11)
    \/ part = "udp" /\ (\E id \in Udp!AllIds : Udp!TimerProc(d1, id)) /\ Kept(8)
    \/ part = "udp2" /\ (\E id \in Udp2!AllIds : Udp2!TimerProc(d1, id)) /\ Kept(8)
    \/ part = "transfer" /\ File!ClientSend /\ Kept(19)
    \/ part = "manager" /\ Mgr!CallEnds /\ Kept(12)
    \/ part = "session" /\ Sess!ThreadEnds /\ Kept(15)
    \/ part = "session2" /\ Sess2!ThreadEnds /\ Kept(15)
Weak6 ==
    \/ part = "udp" /\ (\E id \in Udp!AllIds : Udp!TimerProc(d2, id)) /\ Kept(8)
    \/ part = "udp2" /\ (\E id \in Udp2!AllIds : Udp2!TimerProc(d2, id)) /\ Kept(8)
    \/ part = "transfer" /\ File!ServerBegin /\ Kept(19)
    \/ part = "session" /\ Sess!CloseStep /\ Kept(15)
    \/ part = "session2" /\ Sess2!CloseStep /\ Kept(15)
Weak7 ==
    \/ part = "transfer" /\ File!RepeatDoneAck /\ Kept(19)
Strong1 ==
    \/ part = "brqueue" /\ Br!CongestOff(c1) /\ Kept(11)
    \/ part = "blequeue" /\ Ble!SignalPosted(p1) /\ Kept(6)
    \/ part = "ip" /\ Net!OnReceiveEvent /\ Kept(20)
    \/ part = "pool" /\ WorkerStep(w1) /\ UNCHANGED <<part, slots, tsVars, acbVars>>
    \/ part = "transfer" /\ File!ServerTakes /\ Kept(19)
    \/ part = "stream" /\ Sess!Writes /\ Kept(12)
Strong2 ==
    \/ part = "brqueue" /\ Br!CongestOff(c2) /\ Kept(11)
    \/ part = "blequeue" /\ Ble!SignalPosted(p2) /\ Kept(6)
    \/ part = "ip" /\ Net!ProcessLeaveByAddrType /\ Kept(20)
    \/ part = "pool" /\ WorkerStep(w2) /\ UNCHANGED <<part, slots, tsVars, acbVars>>
    \/ part = "transfer" /\ File!ClientFrame /\ Kept(19)
Strong3 ==
    \/ part = "blequeue" /\ Ble!BleSendTask /\ Kept(6)
    \/ part = "ip" /\ Net!CleanConnectionFsm("eth") /\ Kept(20)
    \/ part = "pool" /\ UserStep(u1) /\ UNCHANGED <<part, slots, tsVars, acbVars>>
    \/ part = "transfer" /\ File!ServerHears /\ Kept(19)
Strong4 ==
    \/ part = "blequeue" /\ Ble!SignalledWakeUp /\ Kept(6)
    \/ part = "ip" /\ Net!CleanConnectionFsm("wlan") /\ Kept(20)
    \/ part = "pool" /\ UserStep(u2) /\ UNCHANGED <<part, slots, tsVars, acbVars>>
    \/ part = "transfer" /\ File!ClientReadFailed /\ Kept(19)

WeakFairness ==
    /\ WF_mcVars(Weak1) /\ WF_mcVars(Weak2) /\ WF_mcVars(Weak3)
    /\ WF_mcVars(Weak4) /\ WF_mcVars(Weak5) /\ WF_mcVars(Weak6)
    /\ WF_mcVars(Weak7)
StrongFairness ==
    /\ SF_mcVars(Strong1) /\ SF_mcVars(Strong2) /\ SF_mcVars(Strong3)
    /\ SF_mcVars(Strong4)

Spec == Init /\ [][Next]_mcVars /\ WeakFairness
StrongSpec == Spec /\ StrongFairness

-----------------------------------------------------------------------------
InCall ==
    \/ part = "pool" /\ Destroying(u1)
    \/ part = "callbacks" /\ Stopping(t1)
    \/ part = "direct" /\ Tcp!InCall(t1)
    \/ part = "brqueue" /\ ~Br!Resting
    \/ part = "looper" /\ Loop!DeinitCalled
    \/ part = "socket" /\ Vtp!Destroyed
    \/ part = "session" /\ Sess!Closing
    \/ part = "session2" /\ Sess2!Closing
    \/ part = "manager" /\ Mgr!Waking
    \/ part = "life" /\ Aid!Joining
Returned ==
    \/ part = "pool" /\ Destroyed(u1)
    \/ part = "callbacks" /\ ~Stopping(t1)
    \/ part = "direct" /\ ~Tcp!InCall(t1)
    \/ part = "brqueue" /\ Br!ReturnedOrStopped
    \/ part = "looper" /\ Loop!Freed
    \/ part = "socket" /\ Vtp!ThreadsOver
    \/ part = "session" /\ Sess!Closed
    \/ part = "session2" /\ Sess2!Closed
    \/ part = "manager" /\ Mgr!Gone
    \/ part = "life" /\ ~Aid!Joining

(* A call that waits for another thread comes back: ThreadPoolDestroy for the workers, StopTimeSync
   for a service that went away, TransTcpDirectSendMsg for an acknowledgement, the BR sender for the
   end of a congestion, LooperDeinit for its loops, the closing of a stream for the threads that use
   its socket, NSTACKX_DFileClose and FileManagerDestroy for theirs, NSTACKX_Deinit for the loop.    *)
CallsReturn == InCall ~> Returned

Asks ==
    \/ part = "proxy" /\ Proxy!OpenWaits(1)
    \/ part = "udp" /\ Udp!OpenPosted(d1, t1, 1)
    \/ part = "udp2" /\ Udp2!OpenPosted(d1, t1, 1)
    \/ part = "auth" /\ Auth!VerifyAsked(a1)
    \/ part = "bleconn" /\ Ble!Exchanged(1)
    \/ part = "join" /\ Bus!Awaited(p1, [t |-> <<"join", 1>>, cb |-> c1])
    \/ part = "timesync" /\ AwaitsResult(p1, n1)
    \/ part = "life" /\ Aid!WaitsForList(c1)
    \/ part = "setting" /\ ~Sess!Heard
    \/ part = "transfer" /\ ~File!SenderEnded
    \/ part = "manager" /\ Mgr!Stopped(1)
Answered ==
    \/ part = "proxy" /\ Proxy!OpenTold(1)
    \/ part = "udp" /\ Udp!OpenHeard(1)
    \/ part = "udp2" /\ Udp2!OpenHeard(1)
    \/ part = "auth" /\ Auth!VerifyOver(a1)
    \/ part = "bleconn" /\ Ble!InfoSent(1)
    \/ part = "join" /\ Bus!Settled(p1, [t |-> <<"join", 1>>, cb |-> c1])
    \/ part = "timesync" /\ ~AwaitsResult(p1, n1)
    \/ part = "life" /\ (~Aid!WaitsForList(c1) \/ Aid!LoopGone)
    \/ part = "setting" /\ Sess!Heard
    \/ part = "transfer" /\ File!SenderEnded
    \/ part = "manager" /\ Mgr!Cleared(1)
Due ==
    \/ part = "gatt" /\ Ble!BtWasOn
    \/ part = "registry" /\ ~Ipc!Served
    \/ part = "ip" /\ Net!Closed
    \/ part = "socket" /\ Vtp!ConfigWaits
    \/ part = "epoll" /\ Epoll!Expects(t1)
    \/ part = "session" /\ ~Sess!Opened
    \/ part = "session2" /\ ~Sess2!Opened
    \/ part = "transfer" /\ File!ToldSent
Come ==
    \/ part = "gatt" /\ Ble!ServiceUp
    \/ part = "registry" /\ Ipc!Served
    \/ part = "ip" /\ Net!Reopened
    \/ part = "socket" /\ Vtp!ConfigDone
    \/ part = "epoll" /\ Epoll!FiredOrNot(t1)
    \/ part = "session" /\ Sess!Opened
    \/ part = "session2" /\ Sess2!Opened
    \/ part = "transfer" /\ File!ReceiverLeft

(* Who asked is told, whatever timers and answers do: the opener of a proxy or UDP channel, the caller
   of AuthVerifyDevice, a BLE peer that sent its basic information, an application that joins a network,
   wants the time or the device list, the opener of a file session, the sender of a file list, who
   stops a file task. And what was set going comes about: the GATT service once Bluetooth is on, the
   registration of an application after the service came back, the IP link after its address changed,
   the configuration of an accepted stream, the call of an armed timer, the opening of a file session,
   and the end of a receiver whose sender was told that all is sent.                                 *)
RequestsAnswered == (Asks ~> Answered) /\ (Due ~> Come)

Pending(k) ==
    \/ part = "looper" /\ Loop!InList(dl, k)
    \/ part = "pool" /\ OnceListed(k)
    \/ part = "blequeue" /\ Ble!Queued(k)
    \/ part = "listener" /\ Conn!HasEvent(1, k)
    \/ part = "session" /\ k = 1 /\ Sess!FrameWaits
    \/ part = "session" /\ k = 2 /\ Sess!OutboundWaits
    \/ part = "session2" /\ k = 1 /\ Sess2!FrameWaits
    \/ part = "session2" /\ k = 2 /\ Sess2!OutboundWaits
    \/ part = "stream" /\ Sess!ToSend(<<<<"ctrl", 1>>, <<"data", 1>>>>[k])
    \/ part = "manager" /\ k = 1 /\ Mgr!AllPushed(1)
    \/ part = "find" /\ k = 1 /\ Find!RoundsRun
    \/ part = "epoll" /\ Epoll!HasInput(<<6, 9>>[k])
Handled(k) ==
    \/ part = "looper" /\ ~Loop!InList(dl, k)
    \/ part = "pool" /\ NotListed(k)
    \/ part = "blequeue" /\ Ble!SentOrLocked(k)
    \/ part = "listener" /\ Conn!EventDone(1, k)
    \/ part = "session" /\ k = 1 /\ (~Sess!FrameWaits \/ Sess!Ending)
    \/ part = "session" /\ k = 2 /\ Sess!SenderDone
    \/ part = "session2" /\ k = 1 /\ (~Sess2!FrameWaits \/ Sess2!Ending)
    \/ part = "session2" /\ k = 2 /\ Sess2!SenderDone
    \/ part = "stream" /\ Sess!Arrived(<<<<"ctrl", 1>>, <<"data", 1>>>>[k])
    \/ part = "manager" /\ k = 1 /\ Mgr!Ended(1)
    \/ part = "find" /\ k = 1 /\ ~Find!RoundsRun
    \/ part = "epoll" /\ (~Epoll!HasInput(<<6, 9>>[k]) \/ Epoll!LoopOver)

(* What was handed over is worked off: a posted message leaves the looper's list, a job the pool's
   queue and a packet the BLE queue (unless its lock was left held); an event of a watched descriptor
   is handled; the frames of a file session are sent and taken in, in whole; a pushed file is written
   out; discovery rounds come to an end.                                                             *)
WorkDone == \A k \in 1 .. 2 : Pending(k) ~> Handled(k)

(* What threads share stays right: processes and their queued BR items, the order of priorities, the
   wake-up of the BLE send thread, the GATT handles and the stack's state, the jobs of a pool and who
   frees them, the modules of the finder library between its starts and ends, the registered process,
   the descriptors and frames of a stream, also after it was closed; each in its types.              *)
RecordsAgree ==
    /\ part = "brqueue" => Br!BrQueueTypeOK /\ Br!PidsCount /\ Br!UrgentFirst
    /\ part = "blequeue" => Ble!SendQueueTypeOK /\ Ble!NoLostWakeup
    /\ part = "gatt" => Ble!GattTypeOK /\ Ble!CompleteWhenAdded /\ Ble!StateMatchesStack
    /\ part = "registry" => Ipc!RegistryTypeOK /\ Ipc!FoundIsRunning
    /\ part = "socket" => /\ Vtp!StreamTypeOK /\ Vtp!DescriptorsClosed
                          /\ Vtp!NothingAfterClosed /\ Vtp!FramesInOrder
    /\ part = "timesync" => TimeSyncTypeOK
    /\ part = "callbacks" => CallbackTypeOK
    /\ part = "pool" => PoolTypeOK /\ QueueIsList /\ NoFreedJobUsed
    /\ part = "life" => Aid!NothingHeld /\ Aid!ModulesThere
==================================================================================
