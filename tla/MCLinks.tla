---------------------------------- MODULE MCLinks ----------------------------------
(* Finding devices and connecting to them, each component on a small instance: the discovery
   manager, BLE discovery and its advertisements, the device discovery library with its
   servers, messages and records, BR and BLE connections, authentication and the channel over
   it, the IP network, and the descriptor loop of the small system.  One behaviour is of one
   part; the parts share the slots, except the servers, which keep their own variables.    *)
EXTENDS Integers, CoapServers

CONSTANTS NULL, t1, u1, u2, c1, c2, k1, k2, r1, r2, r3, m1, m2, e1, e2, a1, p1, sender   \* model values

VARIABLES
    part,   \* the component whose behaviour this is
    v1, v2, v3, v4, v5, v6, v7, v8, v9, v10, v11, v12, v13, v14, v15, v16, v17, v18, v19, v20   \* its variables

slots == <<v1, v2, v3, v4, v5, v6, v7, v8, v9, v10, v11, v12, v13, v14, v15, v16, v17, v18, v19,
           v20>>
mcVars == <<part, slots, srvVars>>

(* What is asked of the discovery manager: the network layer and an application look for the
   same capability, and the application publishes it too.                               *)
Asked(pkg, id, kind, mode, medium, cap) ==
    [pkg |-> pkg, id |-> id, kind |-> kind, mode |-> mode, medium |-> medium, cap |-> cap]
Requests == {Asked("lnn", 1, "sub", "active", "COAP", 1), Asked("lnn", 2, "pub", "passive", "COAP", 2),
             Asked("app", 1, "sub", "active", "AUTO", 1), Asked("app", 2, "sub", "passive", "BLE", 1),
             Asked("app", 1, "pub", "active", "COAP", 1)}

Disc == INSTANCE Discovery WITH
    node <- v1, capList <- v2, item <- v3, capCount <- v4, nstackx <- v5, dcall <- v6,
    broken <- v7, unsaid <- v8, DiscCaller <- {c1, c2}, Request <- Requests, Lnn <- "lnn",
    MaxInfo <- 2
Ble == INSTANCE BleDiscovery WITH
    info <- v1, infoLock <- v2, regs <- v3, call <- v4, bt <- v5, advert <- v6, scan <- v7,
    looper <- v8, hand <- v9, timers <- v10, recv <- v11, numNeed <- v12, cb <- v13,
    used <- v14, odd <- v15, publish <- v1, subscribe <- v2, advId <- v3, needBrMac <- v4,
    wakeRemote <- v5, air <- v6, found <- v7, Cap <- {k1}, BleCaller <- {c1}, MaxCalls <- 3,
    MaxEvents <- 1, MaxRefusals <- 0, BleNil <- NULL, Bit <- {0, 1, 3, 4, 5, 7, 8},
    MaxBitNum <- 8, AdvDataMaxLen <- 23, RespDataMaxLen <- 26, HashLen <- 8, MacLen <- 6,
    AdvHeadLen <- 7
Ble2 == INSTANCE BleDiscovery WITH
    info <- v1, infoLock <- v2, regs <- v3, call <- v4, bt <- v5, advert <- v6, scan <- v7,
    looper <- v8, hand <- v9, timers <- v10, recv <- v11, numNeed <- v12, cb <- v13,
    used <- v14, odd <- v15, publish <- v1, subscribe <- v2, advId <- v3, needBrMac <- v4,
    wakeRemote <- v5, air <- v6, found <- v7, Cap <- {k1}, BleCaller <- {c1, c2}, MaxCalls <- 2,
    MaxEvents <- 2, MaxRefusals <- 0, BleNil <- NULL, Bit <- {0, 1, 3, 4, 5, 7, 8},
    MaxBitNum <- 8, AdvDataMaxLen <- 23, RespDataMaxLen <- 26, HashLen <- 8, MacLen <- 6,
    AdvHeadLen <- 7
Find == INSTANCE DFinder WITH
    evq <- v1, net <- v2, disc <- v3, db <- v4, backup <- v5, filter <- v6, asked <- v7,
    answered <- v8, found <- v9, known <- v10, missed <- v11, budget <- v12, Dev <- {e1, e2},
    DevType <- {1}, Caps <- {"x", "y"}, FilterCaps <- {"x"}, DbSize <- 2, MaxDiscover <- 2,
    MaxSubs <- 1, MaxCalls <- 2, MaxQueue <- 1, MaxNet <- 1, MaxPackets <- 2, MaxLoss <- 1
Aid == INSTANCE DFinderSupport WITH
    initState <- v1, terminate <- v2, held <- v3, loop <- v4, owner <- v5, chain <- v6,
    lfc <- v7, early <- v8, lives <- v9, calls <- v10, slot <- v1, startIdx <- v2, endIdx <- v3,
    seen <- v4, later <- v5, repeated <- v6, twice <- v7, dropped <- v8, maxCount <- v1,
    usedMap <- v2, useCount <- v3, msg <- v1, phase <- v2, frame <- v3, got <- v4,
    LfCaller <- {c1}, MaxLives <- 1, MaxAsked <- 1, MsgId <- {1, 2, 3, 4}, Reserve <- 3,
    Survival <- 3, RowSize <- 2, MaxRecords <- 6, NameLens <- {0, 1, 2, 62, 63, 64, 65},
    IdLens <- {0, 1, 94, 95, 96}, DataLens <- {0, 1, 2, 511, 512, 513}, NameMax <- 64,
    IdMax <- 96, DataMax <- 512, RxMax <- 1472
Br == INSTANCE BrConnection WITH
    links <- v1, req <- v2, driver <- v3, alive <- v1, sendList <- v2, pidList <- v3,
    sendPid <- v4, sender <- v5, glock <- v6, congested <- v7, event <- v8, posted <- v9,
    jams <- v10, purged <- v11, pkts <- v1, taken <- v2, recvBuf <- v3, recvPos <- v4,
    recvQueue <- v5, upward <- v6, spliced <- v7, BrReq <- {r1, r2}, BrMac <- {m1, m2},
    MaxLinks <- 2, MaxDelta <- 0, BrConn <- {c1}, Pid <- {1}, BrPrio <- {1}, MaxItems <- 1,
    MaxCongest <- 1, BrQueueMax <- 1, BrPieces <- 1, BrPkts <- 3, HeadUnits <- 2,
    BodyUnits <- {1, 2}, MaxPiece <- 5, BufUnits <- 8
Gatt == INSTANCE BleConnection WITH
    svc <- v1, hal <- v2, gattMsg <- v3, ops <- v4, gatt <- v5, gcount <- v6, late <- v7,
    conns <- v1, list <- v2, nextId <- v3, infoSeq <- v4, poster <- v5, postQueue <- v6,
    sending <- v7, air <- v8, bwork <- v9, wrapped <- v10, confused <- v11, out <- v1,
    step <- v2, frags <- v3, cache <- v4, handed <- v5, queue <- v1, lock <- v2,
    signalled <- v3, pc <- v4, node <- v5, posts <- v6, MaxTurnOns <- 1, MaxListens <- 1,
    MaxGattFails <- 1, MaxConns <- 3, IdSpace <- 3, MaxWork <- 2, CacheNum <- 2,
    FragSeq <- {1, 2}, FragLens <- {2, 3}, FragMax <- {1, 2}, MaxMsgs <- 3, MaxCuts <- 1,
    Posters <- {p1}, SendTask <- sender, Limit <- 1, MaxPosts <- 1
Auth == INSTANCE Authentication WITH
    am <- v1, keys <- v2, mail <- v3, medium <- v4, link <- v5, timer <- v6, hichain <- v7,
    rx <- v8, work <- v9, lnn <- v10, told <- v11, missed <- v12, orphan <- v13, broken <- v14,
    ac <- v1, opening <- v2, asel <- v3, unsaid <- v4, deaf <- v5, fatal <- v6, AuthId <- {a1},
    Others <- {"server"}, MaxKeys <- 1, AuthNil <- NULL, MaxConn <- 3, AuthUser <- {u1, u2}
Net == INSTANCE IpNetwork WITH
    kern <- v1, nlThread <- v2, nlHandler <- v3, nlq <- v4, wifiSub <- v5, wifiq <- v6,
    regs <- v7, boot <- v8, hand <- v9, ipLock <- v10, ledger <- v11, port <- v12,
    linkClosed <- v13, publish <- v14, subscribe <- v15, callLnn <- v16, leaves <- v17,
    fsms <- v18, ghost <- v19, ipUsed <- v20, MaxIp <- 2, MaxChanges <- 2, MaxJoins <- 0,
    MaxIpFails <- 1
Epoll == INSTANCE LiteEpoll WITH
    desc <- v1, open <- v2, es <- v3, mutex <- v4, node <- v5, pipe <- v6, runs <- v7, tm <- v8,
    kin <- v9, kerr <- v10, loop <- v11, missed <- v12, lost <- v13, stale <- v14, used <- v15,
    WordBits <- 4, Offset <- 4, RecvFd <- 6, EventFd <- 9, CoapFds <- {7, 10}, Timers <- {t1},
    PipeCap <- 1, MaxPosts <- 1, MaxArms <- 1, MaxErrors <- 1, MaxFails <- 1

(* The slots a part does not need hold 0, and keep it. *)
Spare(k) ==
    /\ IF k < 1 THEN v1 = 0 ELSE TRUE
    /\ IF k < 2 THEN v2 = 0 ELSE TRUE
    /\ IF k < 3 THEN v3 = 0 ELSE TRUE
    /\ IF k < 4 THEN v4 = 0 ELSE TRUE
    /\ IF k < 5 THEN v5 = 0 ELSE TRUE
    /\ IF k < 6 THEN v6 = 0 ELSE TRUE
    /\ IF k < 7 THEN v7 = 0 ELSE TRUE
    /\ IF k < 8 THEN v8 = 0 ELSE TRUE
    /\ IF k < 9 THEN v9 = 0 ELSE TRUE
    /\ IF k < 10 THEN v10 = 0 ELSE TRUE
    /\ IF k < 11 THEN v11 = 0 ELSE TRUE
    /\ IF k < 12 THEN v12 = 0 ELSE TRUE
    /\ IF k < 13 THEN v13 = 0 ELSE TRUE
    /\ IF k < 14 THEN v14 = 0 ELSE TRUE
    /\ IF k < 15 THEN v15 = 0 ELSE TRUE
    /\ IF k < 16 THEN v16 = 0 ELSE TRUE
    /\ IF k < 17 THEN v17 = 0 ELSE TRUE
    /\ IF k < 18 THEN v18 = 0 ELSE TRUE
    /\ IF k < 19 THEN v19 = 0 ELSE TRUE
    /\ IF k < 20 THEN v20 = 0 ELSE TRUE
Kept(k) ==
    /\ UNCHANGED <<part, srvVars>>
    /\ IF k < 1 THEN UNCHANGED v1 ELSE TRUE
    /\ IF k < 2 THEN UNCHANGED v2 ELSE TRUE
    /\ IF k < 3 THEN UNCHANGED v3 ELSE TRUE
    /\ IF k < 4 THEN UNCHANGED v4 ELSE TRUE
    /\ IF k < 5 THEN UNCHANGED v5 ELSE TRUE
    /\ IF k < 6 THEN UNCHANGED v6 ELSE TRUE
    /\ IF k < 7 THEN UNCHANGED v7 ELSE TRUE
    /\ IF k < 8 THEN UNCHANGED v8 ELSE TRUE
    /\ IF k < 9 THEN UNCHANGED v9 ELSE TRUE
    /\ IF k < 10 THEN UNCHANGED v10 ELSE TRUE
    /\ IF k < 11 THEN UNCHANGED v11 ELSE TRUE
    /\ IF k < 12 THEN UNCHANGED v12 ELSE TRUE
    /\ IF k < 13 THEN UNCHANGED v13 ELSE TRUE
    /\ IF k < 14 THEN UNCHANGED v14 ELSE TRUE
    /\ IF k < 15 THEN UNCHANGED v15 ELSE TRUE
    /\ IF k < 16 THEN UNCHANGED v16 ELSE TRUE
    /\ IF k < 17 THEN UNCHANGED v17 ELSE TRUE
    /\ IF k < 18 THEN UNCHANGED v18 ELSE TRUE
    /\ IF k < 19 THEN UNCHANGED v19 ELSE TRUE
    /\ IF k < 20 THEN UNCHANGED v20 ELSE TRUE

Init ==
    /\ \/ part = "disc" /\ Disc!Init /\ Spare(8)
       \/ part = "ble" /\ Ble!BleDiscInit /\ Spare(15)
       \/ part = "ble2" /\ Ble2!BleDiscInit /\ Spare(15)
       \/ part = "advert" /\ Ble!AdvertInit /\ Spare(7)
       \/ part = "find" /\ Find!Init /\ Spare(12)
       \/ part = "window" /\ Aid!WindowInit /\ Spare(8)
       \/ part = "frame" /\ Aid!FrameInit /\ Spare(4)
       \/ part = "records" /\ Aid!RecordInit /\ Spare(3)
       \/ part = "br" /\ Br!BrInit /\ Spare(3)
       \/ part = "brrecv" /\ Br!BrRecvInit /\ Spare(7)
       \/ part = "conn" /\ Gatt!BleConnInit /\ Spare(11)
       \/ part = "frag" /\ Gatt!FragInit /\ Spare(5)
       \/ part = "auth" /\ Auth!AuthInit /\ Spare(14)
       \/ part = "authchan" /\ Auth!AuthChanInit /\ Spare(6)
       \/ part = "ip" /\ Net!Init
       \/ part = "epoll" /\ Epoll!Init /\ Spare(15)
       \/ part \in {"servers"} /\ Spare(0)
    /\ ServersInit /\ (part # "servers" => \A i \in DOMAIN kern : kern[i] = 0)

Next ==
    \/ part = "disc" /\ Disc!Next /\ Kept(8)
    \/ part = "ble" /\ Ble!BleDiscNext /\ Kept(15)
    \/ part = "ble2" /\ Ble2!BleDiscNext /\ Kept(15)
    \/ part = "advert" /\ Ble!AdvertNext /\ Kept(7)
    \/ part = "find" /\ Find!Next /\ Kept(12)
    \/ part = "window" /\ Aid!WindowNext /\ Kept(8)
    \/ part = "frame" /\ Aid!FrameNext /\ Kept(4)
    \/ part = "records" /\ Aid!RecordNext /\ Kept(3)
    \/ part = "br" /\ Br!BrNext /\ Kept(3)
    \/ part = "brrecv" /\ Br!BrRecvNext /\ Kept(7)
    \/ part = "conn" /\ Gatt!BleConnNext /\ Kept(11)
    \/ part = "frag" /\ Gatt!FragNext /\ Kept(5)
    \/ part = "auth" /\ Auth!AuthNext /\ Kept(14)
    \/ part = "authchan" /\ Auth!AuthChanNext /\ Kept(6)
    \/ part = "ip" /\ Net!Next /\ Kept(20)
    \/ part = "epoll" /\ Epoll!Next /\ Kept(15)
    \/ part = "servers" /\ ServersNext /\ UNCHANGED <<part, slots>>
    \/ part \in {"disc", "ble", "ble2", "advert", "find", "window", "frame", "records", "br",
                  "brrecv", "conn", "frag", "auth", "authchan", "ip", "epoll", "servers"} /\ UNCHANGED mcVars   \* these may stop

Spec == Init /\ [][Next]_mcVars

-----------------------------------------------------------------------------
(* The type invariant of every part. *)
TypeOK ==
    /\ part = "disc" => Disc!DiscTypeOK
    /\ part = "ble" => Ble!BleDiscTypeOK
    /\ part = "ble2" => Ble2!BleDiscTypeOK
    /\ part = "find" => Find!DFinderTypeOK
    /\ part = "br" => Br!BrTypeOK
    /\ part = "brrecv" => Br!RecvTypeOK
    /\ part = "conn" => Gatt!BleConnTypeOK
    /\ part = "frag" => Gatt!FragTypeOK
    /\ part = "auth" => Auth!AuthTypeOK
    /\ part = "authchan" => Auth!AuthChanTypeOK
    /\ part = "ip" => Net!IpTypeOK
    /\ part = "epoll" => Epoll!EpollTypeOK
    /\ ServersTypeOK

(* What is received is what was sent: the fields of an advertisement and of a service frame are read
   back, equal capabilities meet, a datagram is handed up once and dropped with a cause, packets are
   cut from the BR stream and BLE fragments put together whole, and bytes go to their own peer in
   pieces that fit its MTU.                                                                          *)
DataIntact ==
    /\ part = "advert" => Ble!FieldsDecoded /\ Ble!SameCapabilityMeets
    /\ part = "window" => Aid!HandedOnce /\ Aid!DropHasCause
    /\ part = "frame" => Aid!FrameReadBack
    /\ part = "records" => Aid!RecordsInBlock
    /\ part = "brrecv" => Br!CutInOrder /\ Br!DataInOrder
    /\ part = "conn" => Gatt!SentToOwn /\ Gatt!MtuFits /\ Gatt!InfoOnNetChara
    /\ part = "frag" => Gatt!HandedWhole /\ Gatt!SentIsHanded

(* Who waits is told, and told the truth: requests for a BR link are held and answered once, LNN gets
   a peer's information after its key and misses none, an authentication channel told as open is
   listed and hears of its loss, an answering device is reported.                                    *)
OutcomesTrue ==
    /\ part = "find" => Find!AnswerReported
    /\ part = "br" => Br!WaitersHeld /\ Br!OneAnswer
    /\ part = "auth" => Auth!KeyBeforeInfo /\ Auth!KeptInfoHandled
    /\ part = "authchan" => Auth!OpenIsListed /\ Auth!ListedHears

(* What several records say of the same thing agrees: the lists of the discovery manager and what the
   media were told, the counts of capabilities and the scanner and advertisers that run, references
   and uses of a BR link, ids, keys and verifications, the descriptor sets and the table of the event
   loop, the address of the node and its servers, link and announcement.                              *)
RecordsAgree ==
    /\ part = "disc" => /\ Disc!ListsAgree /\ Disc!LibraryKnows
                        /\ Disc!StartedInUse /\ Disc!SearchRuns
    /\ part = "ble" => Ble!CountsMatch /\ Ble!ScannerFollows /\ Ble!AdvertsFollow
    /\ part = "ble2" => Ble2!CountsMatch /\ Ble2!ScannerFollows /\ Ble2!AdvertsFollow
    /\ part = "find" => Find!KnownReachable
    /\ part = "window" => Aid!RingWellFormed
    /\ part = "br" => Br!RefsMatchUses
    /\ part = "conn" => Gatt!IdsUnique
    /\ part = "auth" => Auth!KeysOfListed
    /\ part = "ip" => Net!RecordedIsCurrent /\ Net!LinkMatches
    /\ part = "epoll" => Epoll!SetsMatchTable /\ Epoll!MaxFdCovers /\ Epoll!NoneMissed
    /\ part = "servers" => /\ ServerFollowsAddress /\ OfflineMeansDown
                           /\ ServerHasAddress /\ AddressKnown

(* Nothing is left behind and nothing is used after it went: nodes of the discovery manager, timers
   and the requests they point to, rounds and retries with their timers, fragment caches, records of
   authentication channels, and the descriptors of the event loop.                                   *)
NothingLeft ==
    /\ part = "disc" => Disc!NoUseAfterFree
    /\ part = "ble" => Ble!RequestsTimed /\ Ble!TimersPoint
    /\ part = "ble2" => Ble2!RequestsTimed /\ Ble2!TimersPoint
    /\ part = "find" => Find!RoundsTimed
    /\ part = "frag" => Gatt!CachesFreed
    /\ part = "authchan" => Auth!RecordsOwned
    /\ part = "epoll" => Epoll!DescClosed
    /\ part = "servers" => RetriesTimed

(* What no step may do: replace the callback LNN set in the discovery manager, or call the handler of
   a timer that was stopped.                                                                         *)
StepsAllowed == [][
    /\ part = "disc" => Disc!KeepsCallback
    /\ part = "epoll" => Epoll!StaysSilent]_mcVars
===================================================================================
