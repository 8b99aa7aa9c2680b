--------------------------- MODULE DFileTransfer ---------------------------
(***************************************************************************)
(* One file transfer of the DFile protocol (nstackx_dfile_transfer.c): the *)
(* sender's and the receiver's state machines, each run by the main loop   *)
(* of its session, over the two directions of one TCP connection.          *)
(*                                                                         *)
(* The client queues control frames in the outbound queue and its I/O      *)
(* thread puts blocks into the block list; the sender thread empties the   *)
(* outbound queue before it sends a block.  On the server a block goes to  *)
(* the receive list of the I/O thread, whose results come back to the main *)
(* loop as events.  The connection itself does not fail here.              *)
(* The capability CapsTcp holds for every session this code makes, so the  *)
(* time-outs that the code ignores on TCP are ignored here.                *)
(***************************************************************************)
EXTENDS Integers, SequencesExt, FiniteSetsExt

CONSTANTS NumFiles,       \* files of the list
          MaxBlocks,      \* blocks of one file, at most
          MaxRetry,       \* maxCtrlFrameRetryCnt
          MaxRecvBlocks,  \* maxRecvBlockListSize
          AckRepeats,     \* MAX_SEND_TRANSFERDONE_ACK_FRAME_COUNT
          MaxDones,       \* bound: done frames under way
          MaxFaults       \* bound: failed writes, reads, renames, allocations, ids evicted

VARIABLES blocks,         \* the blocks of each file
          cl,             \* the sender's DFileTrans
          ctl,            \* the client's outbound queue
          toRead,         \* blocks the client's I/O thread has not read
          listed,         \* blocks in the send list
          readFail,       \* SEND_FAIL events posted
          ackNode,        \* repetitions left in transferDoneAckList
          c2s, s2c,       \* frames on the connection
          sv,             \* the receiver's DFileTrans
          idDone,         \* tranIdStateList has the transfer as done
          toWrite,        \* recvBlockList
          wrote,          \* blocks written of each file
          begun,          \* the I/O thread has made the empty files
          events,         \* results posted to the server's main loop
          made,           \* ghost: times the receiver's DFileTrans was made
          faults,
          dropped,        \* ghost: a block was dropped at a full list
          forgot          \* ghost: times the id of the ended transfer was not kept

dtVars == <<blocks, cl, ctl, toRead, listed, readFail, ackNode, c2s, s2c, sv,
            idDone, toWrite, wrote, begun, events, made, faults, dropped, forgot>>

clientVars == <<cl, ctl, toRead, listed, readFail, ackNode>>
serverVars == <<sv, idDone, toWrite, wrote, begun, events, made, dropped, forgot>>

File == 1..NumFiles
Block == {fb \in File \X (1..MaxBlocks) : fb[2] <= blocks[fb[1]]}
IsEnd(fb) == fb[2] = blocks[fb[1]]

\* All the blocks, in the order of the I/O thread of the client.
InFileOrder ==
    LET n == Cardinality(Block)
    IN  CHOOSE s \in [1..n -> Block] :
            \A i, j \in 1..n : i < j =>
                \/ s[i][1] < s[j][1]
                \/ s[i][1] = s[j][1] /\ s[i][2] < s[j][2]

NewSender == [st |-> "init", acked |-> {}, retry |-> 0, doneRecv |-> FALSE,
              okFiles |-> {}, told |-> <<>>, out |-> <<>>, node |-> FALSE,
              started |-> FALSE, run |-> FALSE]
NewReceiver == [st |-> "init", names |-> {}, allNames |-> FALSE, dup |-> FALSE,
                cnt |-> 0, last |-> {f \in File : blocks[f] = 0},
                allData |-> FALSE, ioFin |-> FALSE, succ |-> {}, retry |-> 0,
                acked |-> FALSE, sucTold |-> FALSE, task |-> FALSE,
                out |-> <<>>, run |-> "frame"]
NoReceiver == [st |-> "none", run |-> "no"]
FreedReceiver == [st |-> "freed", run |-> "no"]

SenderOver(c) == c.st \in {"done", "fail", "gone"}
ReceiverOver(r) == r.st \in {"end", "fail", "none", "stuck", "freed"}
-----------------------------------------------------------------------------
(* The sender's state machine                                               *)

\* EncodeFileHeaderFrameSp: the names that are not acknowledged, here one name
\* to a frame (the user data travels as one more name).
HeaderFrames(c) == LET todo == SetToSortSeq(File \ c.acked, <)
                   IN  [i \in DOMAIN todo |-> [type |-> "header", file |-> todo[i]]]

\* FileManagerIsLastBlockRead: every block has been put into the send list.
LastBlockRead == toRead = <<>>

AllNamesAcked(c) == c.acked = File

\* SetSendState: an error once the transfer-done frame is acknowledged is an
\* end like any other.
SetSendState(c, next) ==
    [c EXCEPT !.st = IF @ = "ack" /\ next = "fail" THEN "done" ELSE next]

\* SendFileHeader; bad: the outbound queue takes no frame.
SendFileHeader(c, bad) ==
    IF bad THEN SetSendState(c, "fail")
    ELSE [c EXCEPT !.out = @ \o HeaderFrames(c), !.st = "waitconf"]

\* bad: the file manager refuses the task.
StartFileManagerSenderTask(c, bad) ==
    IF bad THEN SetSendState(c, "fail") ELSE [c EXCEPT !.st = "data", !.started = TRUE]

WaitForFileHeaderConfirm(c, expired, bad) ==
    IF AllNamesAcked(c) THEN StartFileManagerSenderTask(c, bad)
    ELSE IF ~expired THEN c
    ELSE IF c.retry > MaxRetry THEN SetSendState(c, "fail")
    ELSE [c EXCEPT !.retry = @ + 1, !.st = "header"]

SendFileDataOngoing(c, expired) ==
    IF c.doneRecv THEN [c EXCEPT !.st = "ack"]
    ELSE IF ~expired /\ c.started /\ LastBlockRead THEN [c EXCEPT !.st = "waitdone"]
    ELSE c

\* The state the received frame asks for is overridden by the two tests that
\* follow it.
WaitForFileTransferDoneFrame(c, expired) ==
    IF expired \/ ~LastBlockRead THEN [c EXCEPT !.st = "data"]
    ELSE IF c.doneRecv THEN [c EXCEPT !.st = "ack"] ELSE c

DoneAck == [type |-> "doneack"]

MutantAcksNothing(c, bad) == SetSendState(c, IF bad THEN "fail" ELSE "done")
SendFileTransferDoneAckFrame(c, bad) ==
    [SetSendState(c, IF bad THEN "fail" ELSE "done")
        EXCEPT !.node = TRUE, !.out = IF bad THEN @ ELSE Append(@, DoneAck)]

\* One round of the loop of SenderFsm.
SenderFsm(c, expired, bad) ==
    CASE c.st = "init"     -> [c EXCEPT !.st = "header"]
      [] c.st = "header"   -> SendFileHeader(c, bad)
      [] c.st = "waitconf" -> WaitForFileHeaderConfirm(c, expired, bad)
      [] c.st = "data"     -> SendFileDataOngoing(c, expired)
      [] c.st = "waitdone" -> WaitForFileTransferDoneFrame(c, expired)
      [] c.st = "ack"      -> SendFileTransferDoneAckFrame(c, bad)
      [] OTHER             -> c

\* NotifyTransMsg for the sender: SENT with no sent file is a failure; both
\* end the transfer.
SenderOutcome(c, msg) == IF msg = "sent" /\ c.okFiles = {} THEN "failed" ELSE msg

NotifySender(c, msg) ==
    [c EXCEPT !.told = Append(@, SenderOutcome(c, msg)), !.st = "gone"]

\* DFileTransNotifyEndMsg
SenderEnd(c) == IF c.st = "fail" THEN NotifySender(c, "failed")
                ELSE IF c.st = "done" THEN NotifySender(c, "sent") ELSE c

\* What a round leaves behind: the frames go to the outbound queue, a stopped
\* task reads no more, the acknowledgement is to be repeated.  The loop goes on
\* until the state stays the same.
SenderRound(c) ==
    LET e == SenderEnd(c) IN
    /\ cl' = [e EXCEPT !.out = <<>>, !.node = FALSE,
                       !.run = c.st # cl.st /\ ~SenderOver(c)]
    /\ ctl' = ctl \o e.out
    /\ ackNode' = IF e.node THEN ackNode + AckRepeats ELSE ackNode
    /\ toRead' = IF e.st = "gone" THEN <<>> ELSE toRead

Failures(bs) == faults' = faults + Cardinality({i \in DOMAIN bs : bs[i]}) /\ faults' <= MaxFaults
Faulty(bad) == Failures(<<bad>>)

\* A round of the sender's machine: the first one of DFileTransProcess, if it
\* has something to do, or one more of a run that is under way.
ClientProcess(expired, bad) ==
    /\ ~SenderOver(cl) /\ (cl.run => ~expired)
    /\ cl.run \/ SenderFsm(cl, expired, bad) # cl
    /\ SenderRound(SenderFsm(cl, expired, bad))
    /\ Faulty(bad)
    /\ UNCHANGED <<blocks, listed, readFail, c2s, s2c, serverVars>>

\* DecodeFileHeaderConfirmFrame, DecodeFileTransferDoneFrame
ConfirmDecoded(c, m) == [c EXCEPT !.acked = @ \cup m.files]
DoneDecoded(c, m) == [c EXCEPT !.okFiles = @ \cup m.files]

HandleFileTableAckFrame(c, m) ==
    IF c.st \in {"header", "waitconf"} THEN ConfirmDecoded(c, m) ELSE c

DoneStates == {"waitdone", "ack", "data"}

HandleTransferDoneFrame(c, m) ==
    IF c.st \in DoneStates /\ ~c.doneRecv
    THEN [DoneDecoded(c, m) EXCEPT !.doneRecv = TRUE] ELSE c

\* HandleDFileFrame on the client: the frame, then the machine.
ClientFrame ==
    /\ s2c # <<>> /\ ~cl.run
    /\ s2c' = Tail(s2c)
    /\ LET m == Head(s2c)
           c == IF m.type = "confirm" THEN HandleFileTableAckFrame(cl, m)
                ELSE HandleTransferDoneFrame(cl, m)
       IN  cl' = IF SenderOver(cl) THEN cl ELSE [c EXCEPT !.run = TRUE]
    /\ UNCHANGED <<blocks, ctl, toRead, listed, readFail, ackNode, c2s, serverVars, faults>>

\* The I/O thread of the client reads the next block; a read that fails posts
\* SEND_FAIL and the thread goes on with the next file.
ClientRead(bad) ==
    /\ cl.started /\ toRead # <<>>
    /\ IF bad
       THEN /\ readFail' = readFail + 1 /\ UNCHANGED listed
            /\ toRead' = SelectSeq(toRead, LAMBDA fb : fb[1] # Head(toRead)[1])
       ELSE /\ toRead' = Tail(toRead) /\ listed' = Append(listed, Head(toRead))
            /\ UNCHANGED readFail
    /\ Faulty(bad)
    /\ UNCHANGED <<blocks, cl, ctl, ackNode, c2s, s2c, serverVars>>

\* FileManagerTransMsgHandler looks the transfer up in the session's chain.
MutantAlwaysFound == TRUE
Found == cl.st # "gone"

\* FileManagerSenderMsgHandler, if the transfer is still in the chain.
ClientReadFailed ==
    /\ readFail > 0 /\ ~cl.run
    /\ readFail' = readFail - 1
    /\ IF ~Found THEN UNCHANGED <<cl, toRead>>
       ELSE cl' = NotifySender(SetSendState(cl, "fail"), "failed") /\ toRead' = <<>>
    /\ UNCHANGED <<blocks, ctl, listed, ackNode, c2s, s2c, serverVars, faults>>

\* DFileSessionSendFrame of the sender thread: control frames before data.
ClientSend ==
    /\ IF ctl # <<>>
       THEN c2s' = Append(c2s, Head(ctl)) /\ ctl' = Tail(ctl) /\ UNCHANGED listed
       ELSE /\ listed # <<>>
            /\ c2s' = Append(c2s, [type |-> "data", block |-> Head(listed)])
            /\ listed' = Tail(listed) /\ UNCHANGED ctl
    /\ UNCHANGED <<blocks, cl, toRead, readFail, ackNode, s2c, serverVars, faults>>

\* DFileSendTransferDoneAck of the control thread.
RepeatDoneAck ==
    /\ ackNode > 0
    /\ ackNode' = ackNode - 1
    /\ ctl' = Append(ctl, DoneAck)
    /\ UNCHANGED <<blocks, cl, toRead, listed, readFail, c2s, s2c, serverVars, faults>>
-----------------------------------------------------------------------------
(* The receiver's state machine                                             *)

TotalFrames == Cardinality(Block)
Written(f) == wrote[f] = blocks[f]

\* FileListAllFileReceived
MutantAnyFile(succ) == succ # {}
AllReceived(succ) == succ = File

\* SetReceiveState: after the transfer-done frame an error is an end; entering
\* the data state from the confirm state starts the count again.
CountAtData(r) == IF r.st = "conf" THEN 0 ELSE r.cnt

SetReceiveState(r, next) ==
    LET n == IF r.st = "waitack" /\ next = "fail" THEN "end" ELSE next
    IN  [r EXCEPT !.st = n,
                  !.cnt = IF n = "data" THEN CountAtData(r) ELSE @,
                  !.task = @ /\ n \notin {"end", "fail"}]

ReceiveFileHeaderOngoing(r, expired) ==
    IF r.allNames \/ expired THEN SetReceiveState(r, "conf") ELSE r

\* EncodeFileHeaderConfirmFrame, EncodeFileTransferDoneFrame
ConfirmFrame(r) == [type |-> "confirm", files |-> r.names]
DoneFrame(r) == [type |-> "done", files |-> r.succ]

StartFileManagerReceiverTask(r) == [SetReceiveState(r, "data") EXCEPT !.task = TRUE]

\* bad: no frame is queued, or no task is started.
SendFileHeaderConfirm(r, bad) ==
    IF bad THEN SetReceiveState(r, "fail")
    ELSE LET s == [r EXCEPT !.out = Append(@, ConfirmFrame(r))]
         IN  IF r.allNames THEN StartFileManagerReceiverTask(s)
             ELSE IF r.retry > MaxRetry THEN SetReceiveState(s, "fail")
             ELSE [SetReceiveState(s, "hdr") EXCEPT !.retry = @ + 1]

\* RefreshFileRecvStatus
Refreshed(r) == [r EXCEPT !.succ = @ \cup {f \in File : Written(f) /\ begun}]

\* On TCP a receiver that has waited too long only reports what it has.
ReceiverIdleTimeout(r) == SetReceiveState(r, "dack")

ReceiveFileDataOngoing(r, expired) ==
    IF r.dup THEN [SetReceiveState(r, "conf") EXCEPT !.dup = FALSE]
    ELSE IF ~r.allData THEN (IF expired THEN ReceiverIdleTimeout(r) ELSE r)
    ELSE IF ~r.ioFin THEN r
    ELSE LET n == Refreshed(r)
         IN  IF AllReceived(n.succ) THEN SetReceiveState(n, "senddone")
             ELSE IF expired THEN SetReceiveState(n, "dack") ELSE n

SendFileDataAck(r) == SetReceiveState(r, "data")

\* SendFileTransferDoneFrame: the application hears of the files, then the peer.
SendFileTransferDoneFrame(r, bad) ==
    IF bad THEN [SetReceiveState(r, "fail") EXCEPT !.sucTold = TRUE]
    ELSE [SetReceiveState(r, "waitack") EXCEPT
             !.sucTold = TRUE,
             !.out = Append(@, DoneFrame(r))]

WaitForFileTransferDoneAck(r, expired) ==
    IF r.acked THEN SetReceiveState(r, "end")
    ELSE IF expired THEN SetReceiveState(r, "senddone") ELSE r

\* One round of the loop of ReceiverFsm.
ReceiverFsm(r, expired, bad) ==
    CASE r.st = "init"     -> SetReceiveState(r, "hdr")
      [] r.st = "hdr"      -> ReceiveFileHeaderOngoing(r, expired)
      [] r.st = "conf"     -> SendFileHeaderConfirm(r, bad)
      [] r.st = "data"     -> ReceiveFileDataOngoing(r, expired)
      [] r.st = "dack"     -> SendFileDataAck(r)
      [] r.st = "senddone" -> SendFileTransferDoneFrame(r, bad)
      [] r.st = "waitack"  -> WaitForFileTransferDoneAck(r, expired)
      [] OTHER             -> r

\* DFileTransNotifyEndMsg and CheckTransDone: a transfer that has ended is told,
\* its id remembered as done if there is memory for it, and it is destroyed.
MutantForgetsId(forgets) == FALSE
RemembersId(forgets) == ~forgets

ReceiverEnds(r) == r.st \in {"end", "fail"}

CheckTransDone(forgets) ==
    /\ idDone' = (idDone \/ RemembersId(forgets))
    /\ forgot' = IF forgets THEN forgot + 1 ELSE forgot

\* A run that a file event began does not look for the end of the transfer.
ReceiverRound(r, forgets) ==
    /\ sv' = IF ~ReceiverEnds(r)
             THEN [r EXCEPT !.out = <<>>, !.run = IF r.st = sv.st THEN "no"
                                                  ELSE IF @ = "no" THEN "frame" ELSE @]
             ELSE IF sv.run = "event" THEN [st |-> "stuck", run |-> "no"] ELSE NoReceiver
    /\ IF ReceiverEnds(r) /\ sv.run # "event" THEN CheckTransDone(forgets)
       ELSE ~forgets /\ UNCHANGED <<idDone, forgot>>
    /\ s2c' = s2c \o r.out
    /\ toWrite' = IF ReceiverEnds(r) THEN <<>> ELSE toWrite

\* SetTransIdState drops the oldest id when the list is full: the transfers that
\* ended after this one have filled it.
TransIdEvicted ==
    /\ idDone /\ idDone' = FALSE /\ forgot' = forgot + 1
    /\ Faulty(TRUE)
    /\ UNCHANGED <<blocks, clientVars, c2s, s2c, sv, toWrite, wrote, begun, events, made, dropped>>

DonesSent == Cardinality({i \in DOMAIN s2c : s2c[i].type = "done"})

ServerProcess(expired, bad, forgets) ==
    /\ ~ReceiverOver(sv) /\ (sv.run # "no" => ~expired)
    /\ sv.st = "waitack" /\ expired => DonesSent < MaxDones
    /\ sv.run # "no" \/ ReceiverFsm(sv, expired, bad) # sv
    /\ ReceiverRound(ReceiverFsm(sv, expired, bad), forgets)
    /\ Failures(<<bad, forgets>>)
    /\ UNCHANGED <<blocks, clientVars, c2s, wrote, begun, events, made, dropped>>

\* DecodeFileHeaderFrameSp, FileListAllFileNameReceived
HeaderDecoded(r, f) == [r EXCEPT !.names = @ \cup {f}]
AllNamesReceived(r) == r.names = File

HandleFileNameTableFrame(r, f) ==
    IF r.st \notin {"init", "hdr", "conf", "data"} THEN r
    ELSE LET n == HeaderDecoded(r, f)
         IN  [n EXCEPT !.allNames = @ \/ AllNamesReceived(n), !.dup = @ \/ r.allNames]

\* The room left in the receive lists decides whether a block is taken at all.
HasRoom == Len(toWrite) < MaxRecvBlocks
TakesData(r) == r.st \in {"data", "dack"}

\* UpdateTransParam and the end of HandleFileDataFrame
BlockTaken(r, fb) ==
    LET last == IF IsEnd(fb) THEN r.last \cup {fb[1]} ELSE r.last
    IN  [r EXCEPT !.cnt = @ + 1, !.last = last,
                  !.allData = @ \/ (r.cnt + 1 >= TotalFrames /\ NumFiles \in last)]

\* bad: FileManagerFileWrite refuses the block, the transfer fails.
HandleFileDataFrame(r, fb, bad) ==
    IF ~(TakesData(r) /\ HasRoom) THEN r
    ELSE IF bad THEN SetReceiveState(r, "fail") ELSE BlockTaken(r, fb)

\* DFileSessionHandleFrame: only a header frame of a transfer that is not
\* remembered as done makes a receiver; then HandleDFileFrame.
Starts(m) == sv = NoReceiver /\ m.type = "header" /\ ~idDone

Receives(m) == IF Starts(m) THEN NewReceiver ELSE sv

ServerFrame(bad, forgets) ==
    /\ c2s # <<>> /\ sv.run = "no"
    /\ c2s' = Tail(c2s)
    /\ LET m == Head(c2s)
           r0 == Receives(m)
           ok == m.type = "data" /\ ~ReceiverOver(sv) /\ TakesData(r0) /\ HasRoom
           r == CASE m.type = "header" -> HandleFileNameTableFrame(r0, m.file)
                  [] m.type = "data" -> HandleFileDataFrame(r0, m.block, bad)
                  [] OTHER -> [r0 EXCEPT !.acked = TRUE]
       IN  /\ bad => ok
           /\ made' = IF Starts(m) THEN made + 1 ELSE made
           /\ dropped' = (dropped \/ (m.type = "data" /\ ~ReceiverOver(sv) /\ ~ok))
           /\ wrote' = IF Starts(m) THEN [f \in File |-> 0] ELSE wrote
           /\ begun' = (begun /\ ~Starts(m))
           /\ IF bad
              THEN /\ ReceiverRound(r, forgets)
                   /\ events' \in {events, Append(events, <<"fail", m.block[1]>>)}
              ELSE /\ sv' = IF ReceiverOver(r0) THEN sv ELSE [r EXCEPT !.run = "frame"]
                   /\ toWrite' = IF ok THEN Append(toWrite, m.block) ELSE toWrite
                   /\ ~forgets /\ UNCHANGED <<s2c, idDone, forgot, events>>
    /\ Failures(<<bad, forgets>>)
    /\ UNCHANGED <<blocks, clientVars>>

\* RenameFileIfExisting fails for a name the application's hook gives: the
\* failure is told, which destroys the transfer, and HandleFileNameTableFrame and
\* the state machine go on with the memory that was freed.  What they do then is
\* undefined; here the receiver does nothing more.
RenameFails(forgets) ==
    /\ c2s # <<>> /\ sv.run = "no" /\ Head(c2s).type = "header"
    /\ c2s' = Tail(c2s)
    /\ LET m == Head(c2s)
           r0 == Receives(m)
       IN  /\ ~ReceiverOver(r0) /\ ~r0.allNames /\ HandleFileNameTableFrame(r0, m.file).allNames
           /\ made' = IF Starts(m) THEN made + 1 ELSE made
    /\ sv' = FreedReceiver /\ toWrite' = <<>>
    /\ CheckTransDone(forgets)
    /\ Failures(<<TRUE, forgets>>)
    /\ UNCHANGED <<blocks, clientVars, s2c, wrote, begun, events, dropped>>

\* RecvTaskProcess of the I/O thread: the empty files first, ...
ServerBegin ==
    /\ ~ReceiverOver(sv) /\ sv.task /\ ~begun
    /\ begun' = TRUE
    /\ events' = events \o [i \in 1..Cardinality({f \in File : blocks[f] = 0}) |->
                   <<"ok", CHOOSE f \in File : blocks[f] = 0 /\
                           Cardinality({g \in 1..f : blocks[g] = 0}) = i>>]
    /\ UNCHANGED <<blocks, clientVars, c2s, s2c, sv, idDone, toWrite, wrote, made,
                   faults, dropped, forgot>>

\* ... then the blocks: a file is reported when its last block is written, or
\* when a write fails.
ServerWrite(bad) ==
    /\ begun /\ toWrite # <<>>
    /\ toWrite' = Tail(toWrite)
    /\ LET f == Head(toWrite)[1] IN
       IF bad THEN events' = Append(events, <<"fail", f>>) /\ UNCHANGED wrote
       ELSE /\ wrote' = [wrote EXCEPT ![f] = @ + 1]
            /\ events' = IF wrote[f] + 1 = blocks[f]
                         THEN Append(events, <<"ok", f>>) ELSE events
    /\ Faulty(bad)
    /\ UNCHANGED <<blocks, clientVars, c2s, s2c, sv, idDone, begun, made, dropped, forgot>>

\* FileManagerReceiverMsgHandler: a failure ends the transfer; the success of
\* the last file runs the machine, but not the end of the transfer.
MutantOnlyIo(n) == [n EXCEPT !.ioFin = TRUE, !.sucTold = TRUE, !.run = "event"]
AllSucceeded(n) ==
    [n EXCEPT !.allData = TRUE, !.ioFin = TRUE, !.sucTold = TRUE, !.run = "event"]

FileSucceeds(r, f) ==
    LET n == [r EXCEPT !.succ = @ \cup {f}]
    IN  IF AllReceived(n.succ) THEN AllSucceeded(n) ELSE n

ServerEvent(forgets) ==
    /\ events # <<>> /\ sv.run = "no"
    /\ events' = Tail(events)
    /\ LET e == Head(events) IN
       IF e[1] = "fail" /\ sv \notin {NoReceiver, FreedReceiver}
       THEN ReceiverRound([NewReceiver EXCEPT !.st = "fail"], forgets)
       ELSE /\ sv' = IF ReceiverOver(sv) THEN sv ELSE FileSucceeds(sv, e[2])
            /\ ~forgets /\ UNCHANGED <<idDone, forgot, s2c, toWrite>>
    /\ Faulty(forgets)
    /\ UNCHANGED <<blocks, clientVars, c2s, wrote, begun, made, dropped>>
-----------------------------------------------------------------------------
TransferInit ==
        /\ blocks \in [File -> 0..MaxBlocks]
        /\ cl = NewSender /\ ctl = <<>> /\ toRead = InFileOrder /\ listed = <<>>
        /\ readFail = 0 /\ ackNode = 0
        /\ c2s = <<>> /\ s2c = <<>>
        /\ sv = NoReceiver /\ idDone = FALSE
        /\ toWrite = <<>> /\ wrote = [f \in File |-> 0] /\ begun = FALSE
        /\ events = <<>> /\ made = 0 /\ faults = 0 /\ dropped = FALSE /\ forgot = 0

TransferNext ==
        \/ \E expired, bad \in BOOLEAN : ClientProcess(expired, bad)
        \/ \E expired, bad, forgets \in BOOLEAN : ServerProcess(expired, bad, forgets)
        \/ \E bad \in BOOLEAN : ClientRead(bad) \/ ServerWrite(bad)
        \/ ClientFrame \/ ClientReadFailed \/ ClientSend \/ RepeatDoneAck
        \/ \E bad, forgets \in BOOLEAN : ServerFrame(bad, forgets)
        \/ \E forgets \in BOOLEAN : RenameFails(forgets) \/ ServerEvent(forgets)
        \/ ServerBegin \/ TransIdEvicted

ClientRuns == \E e \in BOOLEAN : ClientProcess(e, FALSE)
ServerRuns == \E e \in BOOLEAN : ServerProcess(e, FALSE, FALSE)
ServerTakes == ServerFrame(FALSE, FALSE)
ServerHears == ServerEvent(FALSE)

\* The main loops wake at their time-outs and look at their events between two
\* runs of the machines (so an event is not passed over for ever), the threads
\* run and TCP delivers.
TransferFairness ==
    /\ WF_dtVars(ClientRuns) /\ WF_dtVars(ServerRuns)
    /\ SF_dtVars(ServerTakes) /\ SF_dtVars(ClientFrame) /\ SF_dtVars(ServerHears)
    /\ SF_dtVars(ClientReadFailed)
    /\ WF_dtVars(ClientRead(FALSE)) /\ WF_dtVars(ServerWrite(FALSE))
    /\ WF_dtVars(ClientSend) /\ WF_dtVars(RepeatDoneAck) /\ WF_dtVars(ServerBegin)

TransferSpec == TransferInit /\ [][TransferNext]_dtVars
TransferLiveSpec == TransferSpec /\ TransferFairness
-----------------------------------------------------------------------------
TransferTypeOK ==
    /\ cl.st \in {"init", "header", "waitconf", "data", "waitdone", "ack", "gone"}
    /\ cl.acked \subseteq File /\ cl.okFiles \subseteq File
    /\ sv.st \in {"init", "hdr", "conf", "data", "dack", "senddone", "waitack",
                 "none", "stuck", "freed"}
    /\ sv.run \in {"no", "frame", "event"}
    /\ wrote \in [File -> 0..MaxBlocks]
    /\ \A i \in DOMAIN events : events[i] \in {"ok", "fail"} \X File

\* SENT is reported to the sending application only if every file of the list
\* is completely written at the receiver (the transfer-done frame is sent only
\* when each file has succeeded).
SentMeansWritten ==
    "sent" \in {cl.told[i] : i \in DOMAIN cl.told} =>
        cl.okFiles = File /\ \A f \in File : Written(f)

\* Each file that cannot be read posts a SEND_FAIL event of its own, and the
\* machine may fail meanwhile; an event is looked up by id when it is handled, so
\* the sending application is still told of the transfer once.
ToldOnce == Len(cl.told) <= 1

\* Header frames the sender repeats can be on the connection when the receiver
\* gives a transfer up: they make the transfer start again only as often as its
\* id could not be kept, for want of memory or because a hundred others ended after it.
NotRestarted == made <= 1 + forgot

ReceiverLeft == sv.st \in {"none", "stuck", "freed"}
ReceiverGaveUp == made > 0 /\ ReceiverLeft
SenderEnded == cl.told # <<>> \/ dropped \/ ReceiverGaveUp
ToldSent == cl.told = <<"sent">>

\* On TCP nothing but the peer's frames ends a transfer after the header stage:
\* the sender still always ends, unless the receiver has given up (it tells
\* nobody) or dropped a block because its list was full (it is never sent again).
TransferEnds == <>SenderEnded

\* The receiver leaves once the sender has sent its acknowledgement.
ReceiverLeaves == ToldSent ~> ReceiverLeft
=============================================================================
