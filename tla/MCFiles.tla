---------------------------------- MODULE MCFiles ----------------------------------
(* Files and the boundary between an application and the service, each component on a small
   instance: the transfer of a file list between two devices, the file manager behind it, the
   session, the exchange of settings and the byte stream under it, the parcels of the calls
   to the service, and the requests to join and leave a network.  One behaviour is of one
   part; the parts share the slots, except the transfer and the join requests, which
   keep their own variables.                                                              *)
EXTENDS Integers, DFileTransfer, BusCenterClient

CONSTANTS NULL, c1, i1, i2, p1, p2   \* model values

VARIABLES
    part,   \* the component whose behaviour this is
    v1, v2, v3, v4, v5, v6, v7, v8, v9, v10, v11, v12, v13, v14, v15   \* its variables

slots == <<v1, v2, v3, v4, v5, v6, v7, v8, v9, v10, v11, v12, v13, v14, v15>>
mcVars == <<part, slots, dtVars, bcVars>>

Ipc == INSTANCE ClientIpc WITH
    icall <- v1, rsys <- v1, svcUp <- v2, svcInc <- v3, table <- v4, recips <- v5, dying <- v6,
    appInc <- v7, app <- v8, proxyTo <- v9, watches <- v10, told <- v11, causes <- v12,
    RegSystems <- {}, MaxApp <- 1, MaxService <- 1
Mgr == INSTANCE FileManager WITH
    mgr <- v1, fblocks <- v2, taskList <- v3, task <- v4, semTask <- v5, sendList <- v6,
    semNotFull <- v7, readOut <- v8, io <- v9, mloop <- v10, snd <- v11, ioFaults <- v12,
    Io <- {i1, i2}, NumTasks <- 1, NumFiles <- 2, MaxBlocks <- 2, SendCap <- 2, RecvCap <- 2,
    MaxTimeouts <- 0, MaxIoFaults <- 1
Sess == INSTANCE DFileSession WITH
    starter <- v1, node <- v2, closeFlag <- v3, chain <- v4, transfers <- v5, count <- v6,
    pending <- v7, fate <- v8, inbound <- v9, thread <- v10, caller <- v11, closer <- v12,
    fails <- v13, blame <- v14, used <- v15, local <- v1, cl <- v2, opener <- v3, sv <- v4,
    trans <- v5, c2s <- v6, s2c <- v7, cut <- v8, heard <- v9, forgot <- v10, unheard <- v11,
    resets <- v12, faults <- v13, size <- v1, outQueue <- v2, made <- v3, unsent <- v4,
    preNode <- v5, sender <- v6, ready <- v7, stream <- v8, started <- v9, recvBuf <- v10,
    recvGoal <- v11, frames <- v12, Caller <- {c1}, MaxLists <- 3, MaxProcessing <- 1,
    MaxTasks <- 3, MaxSettings <- 0, MaxFrames <- 0, MaxReadEvents <- 1, RecvMax <- 0,
    MaxFails <- 1, Mtu <- {1, 2, 3}, MinMtu <- 1, MaxTrans <- 1, MaxTries <- 2, MaxResets <- 1,
    MaxFaults <- 1, MaxCtrl <- 2, MaxData <- 1, HeadLen <- 2, Payload <- {0, 1}, None <- NULL
Sess2 == INSTANCE DFileSession WITH
    starter <- v1, node <- v2, closeFlag <- v3, chain <- v4, transfers <- v5, count <- v6,
    pending <- v7, fate <- v8, inbound <- v9, thread <- v10, caller <- v11, closer <- v12,
    fails <- v13, blame <- v14, used <- v15, local <- v1, cl <- v2, opener <- v3, sv <- v4,
    trans <- v5, c2s <- v6, s2c <- v7, cut <- v8, heard <- v9, forgot <- v10, unheard <- v11,
    resets <- v12, faults <- v13, size <- v1, outQueue <- v2, made <- v3, unsent <- v4,
    preNode <- v5, sender <- v6, ready <- v7, stream <- v8, started <- v9, recvBuf <- v10,
    recvGoal <- v11, frames <- v12, Caller <- {c1}, MaxLists <- 0, MaxProcessing <- 1,
    MaxTasks <- 0, MaxSettings <- 1, MaxFrames <- 1, MaxReadEvents <- 1, RecvMax <- 0,
    MaxFails <- 1, Mtu <- {1, 2, 3}, MinMtu <- 1, MaxTrans <- 1, MaxTries <- 2, MaxResets <- 1,
    MaxFaults <- 1, MaxCtrl <- 2, MaxData <- 1, HeadLen <- 2, Payload <- {0, 1}, None <- NULL

(* The slots a part does not need hold 0, and keep it. *)
Spare(k) ==
    /\ IF k < 1 THEN v1 = 0 ELSE TRUE
    /\ IF k < 2 THEN v2 = 0 ELSE TRUE
    /\ IF k < 3 THEN v3 = 0 ELSE TRUE
    /\ IF k < 4 THEN v4 = 0 ELSE TRUE
    /\ IF k < 5 THEN v5 = 0 ELSE TRUE
    /\ IF k < 6 THEN v6 = 0 ELSE TRUE
    /\ IF k < 7 THEN v7 = 0 ELSE TRUE
    /\ IF k < 8 THEN v8 = 0 ELSE TRUE
    /\ IF k < 9 THEN v9 = 0 ELSE TRUE
    /\ IF k < 10 THEN v10 = 0 ELSE TRUE
    /\ IF k < 11 THEN v11 = 0 ELSE TRUE
    /\ IF k < 12 THEN v12 = 0 ELSE TRUE
    /\ IF k < 13 THEN v13 = 0 ELSE TRUE
    /\ IF k < 14 THEN v14 = 0 ELSE TRUE
    /\ IF k < 15 THEN v15 = 0 ELSE TRUE
Kept(k) ==
    /\ UNCHANGED <<part, dtVars, bcVars>>
    /\ IF k < 1 THEN UNCHANGED v1 ELSE TRUE
    /\ IF k < 2 THEN UNCHANGED v2 ELSE TRUE
    /\ IF k < 3 THEN UNCHANGED v3 ELSE TRUE
    /\ IF k < 4 THEN UNCHANGED v4 ELSE TRUE
    /\ IF k < 5 THEN UNCHANGED v5 ELSE TRUE
    /\ IF k < 6 THEN UNCHANGED v6 ELSE TRUE
    /\ IF k < 7 THEN UNCHANGED v7 ELSE TRUE
    /\ IF k < 8 THEN UNCHANGED v8 ELSE TRUE
    /\ IF k < 9 THEN UNCHANGED v9 ELSE TRUE
    /\ IF k < 10 THEN UNCHANGED v10 ELSE TRUE
    /\ IF k < 11 THEN UNCHANGED v11 ELSE TRUE
    /\ IF k < 12 THEN UNCHANGED v12 ELSE TRUE
    /\ IF k < 13 THEN UNCHANGED v13 ELSE TRUE
    /\ IF k < 14 THEN UNCHANGED v14 ELSE TRUE
    /\ IF k < 15 THEN UNCHANGED v15 ELSE TRUE

Init ==
    /\ \/ part = "ipc" /\ Ipc!IpcInit /\ Spare(1)
       \/ part = "manager" /\ Mgr!Init /\ Spare(12)
       \/ part = "session" /\ Sess!SessionInit
       \/ part = "session2" /\ Sess2!SessionInit
       \/ part = "setting" /\ Sess!SettingInit /\ Spare(13)
       \/ part = "stream" /\ Sess!StreamInit /\ Spare(12)
       \/ part \in {"transfer", "join"} /\ Spare(0)
    /\ TransferInit /\ (part # "transfer" => \A f \in File : blocks[f] = 0)
    /\ BusCenterInit /\ (part # "join" => bsys = "small")

Next ==
    \/ part = "ipc" /\ Ipc!IpcNext /\ Kept(1)
    \/ part = "manager" /\ Mgr!Next /\ Kept(12)
    \/ part = "session" /\ Sess!SessionNext /\ Kept(15)
    \/ part = "session2" /\ Sess2!SessionNext /\ Kept(15)
    \/ part = "setting" /\ Sess!SettingNext /\ Kept(13)
    \/ part = "stream" /\ Sess!StreamNext /\ Kept(12)
    \/ part = "transfer" /\ TransferNext /\ UNCHANGED <<part, slots, bcVars>>
    \/ part = "join" /\ BusCenterNext /\ UNCHANGED <<part, slots, dtVars>>
    \/ part \in {"ipc", "manager", "session", "session2", "setting", "stream", "transfer",
                  "join"} /\ UNCHANGED mcVars   \* these may stop

Spec == Init /\ [][Next]_mcVars

-----------------------------------------------------------------------------
(* The type invariant of every part. *)
TypeOK ==
    /\ part = "manager" => Mgr!FileMgrTypeOK
    /\ part = "session" => Sess!SessionTypeOK
    /\ part = "session2" => Sess2!SessionTypeOK
    /\ part = "setting" => Sess!SettingTypeOK
    /\ part = "stream" => Sess!StreamTypeOK
    /\ TransferTypeOK
    /\ BusClientTypeOK

(* ServerSettingTimeoutHandle drops no peer whose first frame after the     *)
(* settings has come: that frame stops the timer.                           *)
PeerKept == [][part = "setting" => Sess!KeepsPeer]_mcVars

(* What arrives is what was given: arguments and results of every call between processes, blocks in
   order and to the last one, whole frames of a stream, files that are all written when the sender is
   told so, in frames of the agreed size.                                                            *)
DataIntact ==
    /\ part = "ipc" => Ipc!ArgsArrive /\ Ipc!ResultReturned
    /\ part = "manager" => Mgr!NothingLeftUnsent /\ Mgr!HandedInOrder
    /\ part = "setting" => Sess!MtuAgreed
    /\ part = "stream" => Sess!FramesWhole
    /\ part = "transfer" => SentMeansWritten

(* Each file and each transfer is reported once, a failure has a cause, a transfer given up is not
   started again, file lists that were accepted are reported, and the result of a join or leave is
   not lost between the service and the callback.                                                    *)
OutcomesTrue ==
    /\ part = "manager" => Mgr!FilesReportedOnce /\ Mgr!FailHasCause /\ Mgr!AllBytesMeansStopped
    /\ part = "session" => Sess!NothingForgotten
    /\ part = "session2" => Sess2!NothingForgotten
    /\ part = "transfer" => ToldOnce /\ NotRestarted
    /\ part = "join" => ResultNotLost

(* Threads agree on what they share: tasks that are held exist, semaphores count the places, pending
   lists wait behind a transfer, a session is freed after its threads, and a transfer finds its peer
   with the settings it needs.                                                                       *)
RecordsAgree ==
    /\ part = "manager" => Mgr!HeldTaskExists /\ Mgr!SlotsAccounted
    /\ part = "session" => Sess!PendingBehindTransfer /\ Sess!FreedAfterThreads
    /\ part = "session2" => Sess2!PendingBehindTransfer /\ Sess2!FreedAfterThreads
    /\ part = "setting" => Sess!TransfersMaySend /\ Sess!HeaderFindsPeer
===================================================================================
