---------------------------- MODULE FileManager ----------------------------
(* The file manager of a DFile session (nstackx_file_manager.c and           *)
(* nstackx_file_manager_client.c): a list of tasks, one per file list being  *)
(* sent or received, worked on by a few IO threads.  On the sending side an  *)
(* IO thread reads blocks into a bounded send list, which the session's      *)
(* sender thread drains; on the receiving side the session's main loop       *)
(* pushes blocks into a task's list and an IO thread writes them.  The main  *)
(* loop adds and stops tasks; closing the session stops the threads and      *)
(* clears what is left.  A block is <<task, file, sequence>>, a byte count   *)
(* is a number of blocks.                                                    *)
EXTENDS Integers, SequencesExt, FiniteSetsExt

CONSTANTS Io,            \* the IO threads
          NumTasks,      \* tasks the main loop adds
          NumFiles,      \* files of a task
          MaxBlocks,     \* blocks of a file
          SendCap,       \* maxSendBlockListSize
          RecvCap,       \* maxRecvBlockListSize
          MaxTimeouts,   \* NSTACKX_MAX_DATA_FWRITE_TIMEOUT_COUNT
          MaxIoFaults    \* reads, writes and allocations that fail

VARIABLES mgr,        \* isSender, runStatus, errCode and the byte counters
          fblocks,    \* blocks of each file
          taskList, task, semTask,          \* taskList and semTaskListNotEmpty
          sendList, semNotFull, readOut,    \* sendBlockFrameList, its semaphore,
                                            \* and the blocks FileRead handed over
          io,         \* the IO threads
          mloop,      \* the session's main loop
          snd,        \* the session's sender thread
          ioFaults    \* fault budget used

fmVars == <<mgr, fblocks, taskList, task, semTask, sendList, semNotFull, readOut,
            io, mloop, snd, ioFaults>>

Task == 1..NumTasks
File == 1..NumFiles
Blocks(f) == {<<f, b>> : b \in 1..fblocks[f]}
AllBlocks == UNION {Blocks(f) : f \in File}
NoFault == UNCHANGED ioFaults
Fault == ioFaults < MaxIoFaults /\ ioFaults' = ioFaults + 1

(* CreateRecvFileList (and CreateSendFileList); pushed, errLost, lastRead and  *)
(* freed record history: blocks pushed by FileManagerFileWrite, an errCode   *)
(* that was overwritten, an answer of FileManagerIsLastBlockRead, clears.    *)
NewTask == [status |-> "none", occ |-> FALSE, err |-> FALSE, semStop |-> 0,
            proc |-> 0, seq |-> [f \in File |-> 0], bad |-> {}, unInset |-> FALSE,
            list |-> <<>>, inner |-> <<>>, got |-> [f \in File |-> 0],
            empties |-> FALSE, allRecv |-> FALSE, timeouts |-> 0, done |-> 0,
            res |-> [f \in File |-> {}], told |-> 0, stopType |-> "finish",
            pushed |-> {}, errLost |-> FALSE, lastRead |-> FALSE, freed |-> 0]

CheckManager == mgr.run /\ ~mgr.err
CheckFilelist(t) == task[t].status = "run" /\ ~task[t].err
CheckFilelistNotStop(t) == task[t].status # "stop" /\ ~task[t].err

\* FileListGetBytesTransferred: counted per file from what was read or written.
FileListGetBytesTransferred(t) ==
    MapThenSumSet(LAMBDA f : IF mgr.sender THEN task[t].seq[f] ELSE task[t].got[f], File)

----------------------------------------------------------------------------
(* The main loop: adding a task (FileManagerSendFileTask and                 *)
(* FileManagerRecvFileTask; 100 tasks fit, the session runs at most three).  *)
AddTask(t, ok) ==
    /\ mloop.pc = "idle" /\ CheckManager
    /\ task[t].status = "none" /\ \A u \in 1..(t - 1) : task[u].status # "none"
    /\ task' = [task EXCEPT ![t].status = IF ok THEN "idle" ELSE "freed"]
    /\ taskList' = IF ok THEN Append(taskList, t) ELSE taskList
    /\ mgr' = IF ok THEN [mgr EXCEPT !.total = @ + Cardinality(AllBlocks)] ELSE mgr
    /\ semTask' = IF ok THEN semTask + 1 ELSE semTask
    /\ IF ok THEN NoFault ELSE Fault
    /\ UNCHANGED <<fblocks, sendList, semNotFull, readOut, io, mloop, snd>>

FileManagerSendFileTask(t) == mgr.sender /\ \E ok \in BOOLEAN : AddTask(t, ok)
FileManagerRecvFileTask(t) == ~mgr.sender /\ \E ok \in BOOLEAN : AddTask(t, ok)

MutantStopsTotal(t, type) == Cardinality(AllBlocks) + 1
StoppedBytes(t, type) ==
    IF type = "finish" THEN Cardinality(AllBlocks) ELSE FileListGetBytesTransferred(t)

\* FileManagerStopTask: what the transfer asks for when it ends.
FileManagerStopTask(t, type) ==
    /\ mloop.pc = "idle" /\ mgr.run
    /\ t \in Range(taskList) /\ task[t].status # "stop"
    /\ type = "finish" => IF mgr.sender THEN task[t].lastRead ELSE task[t].done >= NumFiles
    /\ mgr' = [mgr EXCEPT !.stopped = @ + StoppedBytes(t, type)]
    /\ task' = [task EXCEPT ![t].status = "stop", ![t].stopType = type,
                            ![t].semStop = @ + 1]
    /\ semTask' = semTask + 1
    /\ UNCHANGED <<fblocks, taskList, sendList, semNotFull, readOut, io, mloop, snd, ioFaults>>

(* FileManagerIsLastBlockRead: sendFileProcessed is read first, then         *)
(* hasUnInsetFrame; the IO thread may move in between.                       *)
AskLastBlock(t) ==
    /\ mloop.pc = "idle" /\ mgr.sender /\ mgr.run
    /\ t \in Range(taskList) /\ task[t].status # "stop" /\ ~task[t].lastRead
    /\ task[t].proc = NumFiles
    /\ mloop' = [pc |-> "asking", t |-> t, blk |-> <<>>]
    /\ UNCHANGED <<mgr, fblocks, taskList, task, semTask, sendList, semNotFull, readOut,
                   io, snd, ioFaults>>

FileManagerIsLastBlockRead ==
    /\ mloop.pc = "asking"
    /\ task' = [task EXCEPT ![mloop.t].lastRead = ~task[mloop.t].unInset]
    /\ mloop' = [pc |-> "idle", t |-> 0, blk |-> <<>>]
    /\ UNCHANGED <<mgr, fblocks, taskList, semTask, sendList, semNotFull, readOut,
                   io, snd, ioFaults>>

RecvListAllSize ==
    MapThenSumSet(LAMBDA t : IF task[t].status # "stop" THEN Len(task[t].list) ELSE 0,
                  Range(taskList))
CheckFileBlockListOverflow == RecvListAllSize < RecvCap

(* FileManagerFileWrite: the main loop has a data frame for a task it has    *)
(* not stopped; a task in error or full lists drop it.  The push itself      *)
(* comes later, and its result is stored over the task's errCode.            *)
FileWriteCheck(t, blk) ==
    /\ mloop.pc = "idle" /\ ~mgr.sender /\ CheckManager
    /\ t \in Range(taskList) /\ CheckFilelistNotStop(t)
    /\ blk \in AllBlocks \ task[t].pushed /\ ~task[t].allRecv
    /\ \A c \in AllBlocks \ task[t].pushed : c[1] > blk[1] \/ (c[1] = blk[1] /\ c[2] >= blk[2])
    /\ CheckFileBlockListOverflow
    /\ mloop' = [pc |-> "pushing", t |-> t, blk |-> blk]
    /\ UNCHANGED <<mgr, fblocks, taskList, task, semTask, sendList, semNotFull, readOut,
                   io, snd, ioFaults>>

MutantNoPost(t) == task[t].semStop
SemStopAfterPush(t) == task[t].semStop + 1

PushRecvBlockFrame(ok) ==
    LET t == mloop.t
    IN  /\ mloop.pc = "pushing"
        /\ task' = [task EXCEPT ![t].list = IF ok THEN Append(@, mloop.blk) ELSE @,
                                ![t].semStop = IF ok THEN SemStopAfterPush(t) ELSE @,
                                ![t].pushed = IF ok THEN @ \union {mloop.blk} ELSE @,
                                ![t].err = ~ok,
                                ![t].errLost = @ \/ (ok /\ task[t].err)]
        /\ mloop' = [pc |-> "idle", t |-> 0, blk |-> <<>>]
        /\ IF ok THEN NoFault ELSE Fault
        /\ UNCHANGED <<mgr, fblocks, taskList, semTask, sendList, semNotFull, readOut, io, snd>>

FileManagerFileWrite ==
    (\E t \in Task, blk \in AllBlocks : FileWriteCheck(t, blk)) \/ \E ok \in BOOLEAN : PushRecvBlockFrame(ok)

(* FileManagerSetAllDataReceived: the sender said that it sent everything;   *)
(* frames the full lists dropped will not come any more.                     *)
FileManagerSetAllDataReceived(t) ==
    /\ mloop.pc = "idle" /\ ~mgr.sender /\ CheckManager
    /\ t \in Range(taskList) /\ task[t].status # "stop"
    /\ ~task[t].allRecv /\ (task[t].pushed # AllBlocks => ~CheckFileBlockListOverflow)
    /\ task' = [task EXCEPT ![t].allRecv = TRUE, ![t].semStop = @ + 1]
    /\ UNCHANGED <<mgr, fblocks, taskList, semTask, sendList, semNotFull, readOut,
                   io, mloop, snd, ioFaults>>

RunningBytes ==
    MapThenSumSet(LAMBDA t : IF task[t].status # "stop"
                             THEN FileListGetBytesTransferred(t) ELSE 0, Range(taskList))

MutantAllAtOnce == RunningBytes + mgr.stopped

(* FileManagerGetBytesTransferred, what a query made now computes (the       *)
(* highest value so far is what it returns): "for sender, can't return all   *)
(* bytes before there is unstopped task."                                    *)
FileManagerGetBytesTransferred ==
    LET all == RunningBytes + mgr.stopped
    IN  IF all = mgr.total /\ mgr.sender /\ RunningBytes > 0
        THEN (IF all > 1 THEN all - 1 ELSE 0) ELSE all

----------------------------------------------------------------------------
(* Closing the session: the sender thread has been joined, then              *)
(* StopFileManagerThreads wakes everyone, joins the IO threads, and          *)
(* FileManagerDestroy clears what is left.                                   *)
StopRun ==
    /\ mloop.pc = "idle" /\ mgr.run
    /\ mgr' = [mgr EXCEPT !.run = FALSE]
    /\ mloop' = [mloop EXCEPT !.pc = "waking"]
    /\ snd' = [pc |-> "gone", seen |-> {}]
    /\ UNCHANGED <<fblocks, taskList, task, semTask, sendList, semNotFull, readOut, io, ioFaults>>

MutantWakesNobody == semNotFull
WokenSlots == semNotFull + Len(taskList)

WakeAllThread ==
    /\ mloop.pc = "waking"
    /\ task' = [t \in Task |-> IF t \in Range(taskList)
                               THEN [task[t] EXCEPT !.semStop = @ + 1] ELSE task[t]]
    /\ semNotFull' = WokenSlots
    /\ semTask' = semTask + Cardinality(Io)
    /\ mloop' = [mloop EXCEPT !.pc = "joining"]
    /\ UNCHANGED <<mgr, fblocks, taskList, sendList, readOut, io, snd, ioFaults>>

StopFileManagerThreads == StopRun \/ WakeAllThread

\* Files, semaphore and block lists of the task are released, and the task.
ClearSendFileList(tk) == [NewTask EXCEPT !.status = "freed", !.freed = tk.freed + 1]
ClearRecvFileList(tk) == [NewTask EXCEPT !.status = "freed", !.freed = tk.freed + 1]
ClearFileList(tk) == IF mgr.sender THEN ClearSendFileList(tk) ELSE ClearRecvFileList(tk)

FileManagerDestroy ==
    /\ mloop.pc = "joining" /\ \A i \in Io : io[i].pc = "exit"
    /\ task' = [t \in Task |-> IF t \in Range(taskList) THEN ClearFileList(task[t]) ELSE task[t]]
    /\ taskList' = <<>> /\ sendList' = <<>> /\ readOut' = [t \in Task |-> <<>>]
    /\ mloop' = [pc |-> "gone", t |-> 0, blk |-> <<>>]
    /\ semTask' = 0 /\ semNotFull' = 0
    /\ UNCHANGED <<mgr, fblocks, io, snd, ioFaults>>

----------------------------------------------------------------------------
(* The sender thread.  FileManagerHasPendingDataInner looks at the tasks     *)
(* under their lock, then at the send list; with nothing pending the thread  *)
(* sleeps until the session has something new for it.                        *)
TaskPending(t) ==
    CheckFilelistNotStop(t) /\ (task[t].proc < NumFiles \/ task[t].unInset)

PendingCheck ==
    /\ mgr.sender /\ mgr.run
    /\ \/ snd.pc = "idle"
       \/ snd.pc = "asleep" /\ Range(taskList) \ snd.seen # {}
    /\ snd' = [pc |-> IF \E t \in Range(taskList) : TaskPending(t) THEN "read" ELSE "half",
               seen |-> Range(taskList)]
    /\ UNCHANGED <<mgr, fblocks, taskList, task, semTask, sendList, semNotFull, readOut,
                   io, mloop, ioFaults>>

FileManagerHasPendingDataInner ==
    \/ PendingCheck
    \/ /\ snd.pc = "half"
       /\ snd' = [snd EXCEPT !.pc = IF sendList # <<>> THEN "read" ELSE "asleep"]
       /\ UNCHANGED <<mgr, fblocks, taskList, task, semTask, sendList, semNotFull, readOut,
                      io, mloop, ioFaults>>

\* GetDataFrameFromSendList takes a frame under the list's lock, ...
GetDataFrameFromSendList ==
    LET blk == Head(sendList)
    IN  /\ sendList # <<>>
        /\ readOut' = [readOut EXCEPT ![blk[1]] = Append(@, <<blk[2], blk[3]>>)]
        /\ sendList' = Tail(sendList)

FileManagerFileRead ==
    /\ snd.pc = "read"
    /\ \/ CheckManager /\ GetDataFrameFromSendList /\ snd' = [snd EXCEPT !.pc = "post"]
       \/ /\ ~CheckManager \/ sendList = <<>>
          /\ snd' = [snd EXCEPT !.pc = "idle"] /\ UNCHANGED <<sendList, readOut>>
    /\ UNCHANGED <<mgr, fblocks, taskList, task, semTask, semNotFull, io, mloop, ioFaults>>

\* ... and gives its place back when the lock is released.
MutantNoSlot == semNotFull
SlotsAfterRead == semNotFull + 1

PostNotFull ==
    /\ snd.pc = "post" /\ snd' = [snd EXCEPT !.pc = "idle"]
    /\ semNotFull' = SlotsAfterRead
    /\ UNCHANGED <<mgr, fblocks, taskList, task, semTask, sendList, readOut, io, mloop, ioFaults>>

----------------------------------------------------------------------------
(* An IO thread (FileManagerThread).                                         *)
Goto(i, pc) == io' = [io EXCEPT ![i].pc = pc]
Idle(i) == io' = [io EXCEPT ![i] = [pc |-> IF mgr.run THEN "wait" ELSE "exit",
                                    t |-> 0, frame |-> <<>>]]
SetTask(t, r) == task' = [task EXCEPT ![t] = r]

\* PrepareOneTaskByStatus: the first task of that status nobody works on.
MutantAnyTask(t) == TRUE
Unoccupied(t) == ~task[t].occ
Candidates(st) == {k \in DOMAIN taskList : task[taskList[k]].status = st /\ Unoccupied(taskList[k])}

(* Woken, the thread first looks for a stopped task, detaches it and clears  *)
(* it (ClearFileList; ClearIncompleteRecvFiles removes unfinished files).    *)
PrepareStopTask(i) ==
    LET ks == Candidates("stop")
        t == taskList[Min(ks)]
    IN  /\ io[i].pc = "wait" /\ semTask > 0
        /\ semTask' = semTask - 1
        /\ IF ~mgr.run THEN Goto(i, "exit") /\ UNCHANGED <<taskList, task, readOut>>
           ELSE IF ks = {} THEN Goto(i, "idle") /\ UNCHANGED <<taskList, task, readOut>>
           ELSE /\ taskList' = RemoveAt(taskList, Min(ks))
                /\ SetTask(t, ClearFileList(task[t]))
                /\ readOut' = [readOut EXCEPT ![t] = <<>>]
                /\ UNCHANGED io
        /\ UNCHANGED <<mgr, fblocks, sendList, semNotFull, mloop, snd, ioFaults>>

\* A task already in error stays occupied until the manager is destroyed.
PrepareIdleTask(i) ==
    LET ks == Candidates("idle")
        t == taskList[Min(ks)]
    IN  /\ io[i].pc = "idle"
        /\ IF ks = {} THEN Idle(i) /\ UNCHANGED task
           ELSE /\ task' = [task EXCEPT ![t].status = "run", ![t].occ = TRUE]
                /\ IF task[t].err THEN Idle(i)
                   ELSE io' = [io EXCEPT ![i].pc = "work", ![i].t = t]
        /\ UNCHANGED <<mgr, fblocks, taskList, semTask, sendList, semNotFull, readOut,
                       mloop, snd, ioFaults>>

\* semStop: a stop, new data, all data received, or the manager closing.
WaitSemStop(i) ==
    LET t == io[i].t
    IN  /\ io[i].pc = "semstop" /\ task[t].semStop > 0
        /\ SetTask(t, [task[t] EXCEPT !.semStop = @ - 1])
        /\ Goto(i, IF mgr.sender THEN "work" ELSE "swap")
        /\ UNCHANGED <<mgr, fblocks, taskList, semTask, sendList, semNotFull, readOut,
                       mloop, snd, ioFaults>>

MutantKeepsToken == semTask
TokensAfterTask == semTask + 1

AfterTaskProcess(i) ==
    \/ /\ io[i].pc = "end"
       /\ SetTask(io[i].t, [task[io[i].t] EXCEPT !.occ = FALSE])
       /\ io' = [io EXCEPT ![i].pc = "post", ![i].t = 0]
       /\ UNCHANGED <<mgr, fblocks, taskList, semTask, sendList, semNotFull, readOut,
                      mloop, snd, ioFaults>>
    \/ /\ io[i].pc = "post"
       /\ semTask' = TokensAfterTask
       /\ Idle(i)
       /\ UNCHANGED <<mgr, fblocks, taskList, task, sendList, semNotFull, readOut,
                      mloop, snd, ioFaults>>

----------------------------------------------------------------------------
(* SendTaskProcess.  GetFileInfo passes over files that are empty or in      *)
(* error; a block that cannot be read ends its file with SEND_FAIL.          *)
GetFileInfo(t) ==
    LET f == task[t].proc + 1
    IN  IF fblocks[f] = 0 \/ f \in task[t].bad THEN 0 ELSE f

ReadFails(i, t, f) ==
    /\ Fault
    /\ SetTask(t, [task[t] EXCEPT !.bad = @ \union {f}, !.proc = @ + 1])
    /\ UNCHANGED io

\* CreateSendBlockFrame: hasUnInsetFrame is set before the file is counted.
MutantNotMarked(tk, f) == [tk EXCEPT !.seq[f] = @ + 1]
FrameMade(tk, f) == [tk EXCEPT !.unInset = TRUE, !.seq[f] = @ + 1]
FileCounted(tk, f) == [tk EXCEPT !.proc = IF tk.seq[f] = fblocks[f] THEN @ + 1 ELSE @]

CreateSendBlockFrame(i, t) ==
    LET f == GetFileInfo(t)
    IN  \/ /\ f = 0 /\ NoFault /\ UNCHANGED io
           /\ SetTask(t, [task[t] EXCEPT !.proc = @ + 1])
        \/ f # 0 /\ ReadFails(i, t, f)
        \/ /\ f # 0 /\ NoFault
           /\ SetTask(t, FrameMade(task[t], f))
           /\ io' = [io EXCEPT ![i].pc = "made", ![i].frame = <<t, f, task[t].seq[f] + 1>>]

SendTaskProcess(i) ==
    LET t == io[i].t
    IN  /\ mgr.sender /\ io[i].pc = "work"
        /\ IF ~CheckFilelist(t) \/ ~CheckManager THEN Goto(i, "end") /\ NoFault /\ UNCHANGED task
           ELSE IF task[t].proc >= NumFiles THEN Goto(i, "semstop") /\ NoFault /\ UNCHANGED task
           ELSE CreateSendBlockFrame(i, t)
        /\ UNCHANGED <<mgr, fblocks, taskList, semTask, sendList, semNotFull, readOut, mloop, snd>>

UpdateFileLisSendStatus(i) ==
    LET t == io[i].t
    IN  /\ io[i].pc = "made"
        /\ SetTask(t, FileCounted(task[t], io[i].frame[2]))
        /\ Goto(i, "push")
        /\ UNCHANGED <<mgr, fblocks, taskList, semTask, sendList, semNotFull, readOut,
                       mloop, snd, ioFaults>>

MutantListsFirst(frame) == <<frame>> \o sendList
Listed(frame) == Append(sendList, frame)

(* PushSendBlockFrame: waits for a slot, then looks whether the manager is   *)
(* closing or in error; a frame that is not added is freed, its slot is      *)
(* given back.                                                               *)
CheckSendListFullAndWait(i) ==
    /\ io[i].pc = "push" /\ semNotFull > 0
    /\ semNotFull' = semNotFull - 1
    /\ Goto(i, "slot")
    /\ UNCHANGED <<mgr, fblocks, taskList, task, semTask, sendList, readOut, mloop, snd, ioFaults>>

PushSendBlockFrame(i) ==
    /\ io[i].pc = "slot"
    /\ \/ /\ CheckManager /\ NoFault /\ Goto(i, "added")
          /\ sendList' = Listed(io[i].frame) /\ UNCHANGED mgr
       \/ /\ CheckManager /\ Fault /\ Goto(i, "unadded")
          /\ mgr' = [mgr EXCEPT !.err = TRUE] /\ UNCHANGED sendList
       \/ ~CheckManager /\ NoFault /\ Goto(i, "unadded") /\ UNCHANGED <<mgr, sendList>>
    /\ UNCHANGED <<fblocks, taskList, task, semTask, semNotFull, readOut, mloop, snd>>

FrameAdded(i) ==
    /\ io[i].pc \in {"added", "unadded"}
    /\ semNotFull' = IF io[i].pc = "added" THEN semNotFull ELSE semNotFull + 1
    /\ SetTask(io[i].t, [task[io[i].t] EXCEPT !.unInset = FALSE])
    /\ io' = [io EXCEPT ![i].pc = "work", ![i].frame = <<>>]
    /\ UNCHANGED <<mgr, fblocks, taskList, semTask, sendList, readOut, mloop, snd, ioFaults>>

----------------------------------------------------------------------------
(* RecvTaskProcess.  res[f] is what the session was told about file f.       *)
Tell(tk, f, r) == [tk EXCEPT !.done = @ + 1, !.told = @ + 1, !.res[f] = @ \union {r}]

TellAll(tk, fs, bad) ==
    [tk EXCEPT !.done = @ + Cardinality(fs), !.told = @ + Cardinality(fs),
               !.bad = @ \union bad,
               !.res = [f \in File |-> IF f \notin fs THEN @[f]
                                       ELSE @[f] \union {IF f \in bad THEN "fail" ELSE "ok"}]]

GenerateAllEmptyFiles(t) ==
    LET empty == {f \in File : fblocks[f] = 0}
    IN  \/ NoFault /\ SetTask(t, [TellAll(task[t], empty, {}) EXCEPT !.empties = TRUE])
        \/ \E f \in empty : /\ Fault
                            /\ SetTask(t, [TellAll(task[t], empty, {f}) EXCEPT !.empties = TRUE])

\* FileListRefreshFileRecvStatus: what is still missing has failed.
Ongoing(tk) == {f \in File : f \notin tk.bad /\ tk.got[f] < fblocks[f]}
FileListRefreshFileRecvStatus(tk) ==
    IF tk.done >= NumFiles THEN tk
    ELSE [TellAll(tk, Ongoing(tk), Ongoing(tk)) EXCEPT !.done = NumFiles]

RecvTaskProcess(i) ==
    LET t == io[i].t
    IN  /\ ~mgr.sender /\ io[i].pc = "work"
        /\ IF ~CheckManager \/ ~CheckFilelist(t) \/ task[t].done >= NumFiles
           THEN /\ SetTask(t, FileListRefreshFileRecvStatus(task[t]))
                /\ Goto(i, "end") /\ NoFault
           ELSE IF ~task[t].empties THEN GenerateAllEmptyFiles(t) /\ UNCHANGED io
           ELSE Goto(i, "semstop") /\ NoFault /\ UNCHANGED task
        /\ UNCHANGED <<mgr, fblocks, taskList, semTask, sendList, semNotFull, readOut, mloop, snd>>

MutantCountsAlways(tk) == tk.timeouts + 1
TimeoutsAfterEmpty(tk) == IF tk.allRecv THEN tk.timeouts + 1 ELSE tk.timeouts

\* An empty swap counts once everything has come; a few of them end the task.
EmptySwap(i, t) ==
    LET n == TimeoutsAfterEmpty(task[t])
        tk == [task[t] EXCEPT !.timeouts = n]
    IN  IF n > MaxTimeouts THEN SetTask(t, FileListRefreshFileRecvStatus(tk)) /\ Goto(i, "end")
        ELSE SetTask(t, tk) /\ Goto(i, "work")

SwapRecvBlockListHead(i) ==
    LET t == io[i].t
    IN  /\ io[i].pc = "swap"
        /\ IF ~CheckManager \/ ~CheckFilelist(t)
           THEN SetTask(t, FileListRefreshFileRecvStatus(task[t])) /\ Goto(i, "end")
           ELSE IF task[t].list = <<>> THEN EmptySwap(i, t)
           ELSE /\ SetTask(t, [task[t] EXCEPT !.inner = task[t].list, !.list = <<>>,
                                              !.timeouts = 0])
                /\ Goto(i, "write")
        /\ UNCHANGED <<mgr, fblocks, taskList, semTask, sendList, semNotFull, readOut,
                       mloop, snd, ioFaults>>

(* WriteSingleBlockFrame: a block of a failed file is passed over; a write   *)
(* that fails ends its file; an allocation that fails is the task's error.   *)
IsFailedFile(tk, f) == f \in tk.bad

Written(tk, f) ==
    LET w == [tk EXCEPT !.got[f] = @ + 1]
    IN  IF w.got[f] = fblocks[f] THEN Tell(w, f, "ok") ELSE w

MutantNoErrCode(tk, f) == Tell(tk, f, "fail")
UpdateFileListRecvStatus(tk, f) == Tell([tk EXCEPT !.bad = @ \union {f}], f, "fail")

WriteSingleBlockFrame(i) ==
    LET t == io[i].t
        f == Head(task[t].inner)[1]
        tk == [task[t] EXCEPT !.inner = Tail(@)]
    IN  IF IsFailedFile(tk, f) THEN NoFault /\ SetTask(t, tk) /\ UNCHANGED io
        ELSE \/ NoFault /\ SetTask(t, Written(tk, f)) /\ UNCHANGED io
             \/ Fault /\ SetTask(t, UpdateFileListRecvStatus(tk, f)) /\ UNCHANGED io
             \/ Fault /\ SetTask(t, [tk EXCEPT !.err = TRUE]) /\ Goto(i, "failed")

WriteBlockFrame(i) ==
    LET t == io[i].t
    IN  /\ io[i].pc = "write"
        /\ IF task[t].inner = <<>> \/ ~CheckManager \/ ~CheckFilelist(t)
           THEN Goto(i, "work") /\ NoFault /\ UNCHANGED task
           ELSE WriteSingleBlockFrame(i)
        /\ UNCHANGED <<mgr, fblocks, taskList, semTask, sendList, semNotFull, readOut, mloop, snd>>

\* The error is read again after the call; the main loop may have stored EOK.
ErrCodeRead(i) ==
    /\ io[i].pc = "failed"
    /\ Goto(i, IF task[io[i].t].err THEN "work" ELSE "write")
    /\ UNCHANGED <<mgr, fblocks, taskList, task, semTask, sendList, semNotFull, readOut,
                   mloop, snd, ioFaults>>

----------------------------------------------------------------------------
Init ==
    /\ \E s \in BOOLEAN : mgr = [sender |-> s, run |-> TRUE, err |-> FALSE,
                                 total |-> 0, stopped |-> 0]
    /\ fblocks \in [File -> 0..MaxBlocks]
    /\ taskList = <<>> /\ task = [t \in Task |-> NewTask] /\ semTask = 0
    /\ sendList = <<>> /\ semNotFull = SendCap /\ readOut = [t \in Task |-> <<>>]
    /\ io = [i \in Io |-> [pc |-> "wait", t |-> 0, frame |-> <<>>]]
    /\ mloop = [pc |-> "idle", t |-> 0, blk |-> <<>>]
    /\ snd = [pc |-> "idle", seen |-> {}]
    /\ ioFaults = 0

IoStep(i) ==
    \/ PrepareStopTask(i) \/ PrepareIdleTask(i)
    \/ WaitSemStop(i) \/ AfterTaskProcess(i)
    \/ SendTaskProcess(i) \/ UpdateFileLisSendStatus(i)
    \/ CheckSendListFullAndWait(i) \/ PushSendBlockFrame(i) \/ FrameAdded(i)
    \/ RecvTaskProcess(i) \/ SwapRecvBlockListHead(i) \/ WriteBlockFrame(i) \/ ErrCodeRead(i)

SenderStep == FileManagerHasPendingDataInner \/ FileManagerFileRead \/ PostNotFull

CloseStep == WakeAllThread \/ FileManagerDestroy

Next ==
    \/ \E t \in Task : \/ FileManagerSendFileTask(t) \/ FileManagerRecvFileTask(t)
                       \/ \E type \in {"finish", "failed"} : FileManagerStopTask(t, type)
                       \/ AskLastBlock(t) \/ FileManagerSetAllDataReceived(t)
    \/ FileManagerIsLastBlockRead \/ FileManagerFileWrite
    \/ StopFileManagerThreads \/ FileManagerDestroy
    \/ SenderStep
    \/ \E i \in Io : IoStep(i)

Spec == Init /\ [][Next]_fmVars

CallEnds == FileManagerIsLastBlockRead \/ \E ok \in BOOLEAN : PushRecvBlockFrame(ok)

(* The threads keep running; the main loop finishes a call it has begun.     *)
Fairness ==
    /\ \A i \in Io : WF_fmVars(IoStep(i))
    /\ WF_fmVars(SenderStep)
    /\ WF_fmVars(CloseStep)
    /\ WF_fmVars(CallEnds)

LiveSpec == Spec /\ Fairness

----------------------------------------------------------------------------
\* The state has the shape the code gives it; semaphores are never negative.
FileMgrTypeOK ==
    /\ mgr.sender \in BOOLEAN /\ mgr.run \in BOOLEAN /\ mgr.err \in BOOLEAN
    /\ mgr.stopped \in Nat /\ FileManagerGetBytesTransferred \in 0..mgr.total
    /\ IsInjective(taskList) /\ Range(taskList) \subseteq Task
    /\ semTask \in Nat /\ semNotFull \in Nat /\ Len(sendList) <= SendCap
    /\ \A t \in Task : /\ task[t].semStop \in Nat
                       /\ task[t].proc \in 0..NumFiles /\ task[t].done \in 0..NumFiles
                       /\ RecvListAllSize <= RecvCap

(* A task an IO thread works on is not freed under it, nobody frees a task   *)
(* twice, and when the manager is gone every task is freed (isOccupied,      *)
(* PrepareOneTaskByStatus, ClearTask).                                       *)
HeldTaskExists ==
    /\ \A i \in Io : io[i].t # 0 => task[io[i].t].status # "freed"
    /\ \A i, j \in Io : i # j /\ io[i].t # 0 => io[i].t # io[j].t
    /\ \A t \in Task : task[t].freed <= 1 /\ (t \in Range(taskList) => task[t].status # "freed")
    /\ mloop.pc = "gone" => \A t \in Task : task[t].status \in {"none", "freed"}

(* While the manager runs, every place of the send list is free, used by a   *)
(* frame, or in the hands of a thread that took it or is about to give it    *)
(* back: the semaphore and the list agree, so the IO threads neither         *)
(* overfill the list nor wait on a list with room.                           *)
SlotsAccounted ==
    mgr.run => semNotFull + Len(sendList)
               + Cardinality({i \in Io : io[i].pc \in {"slot", "unadded"}})
               + (IF snd.pc = "post" THEN 1 ELSE 0) = SendCap

ReadOrListed(t) == Range(readOut[t]) \union {<<b[2], b[3]>> : b \in {c \in Range(sendList) : c[1] = t}}
SentBlocks(t) == UNION {Blocks(f) : f \in File \ task[t].bad}

(* When FileManagerIsLastBlockRead says so, every block of the task's        *)
(* readable files is in the send list or was read from it.  And when the     *)
(* sender thread goes to sleep because nothing is pending, every block of    *)
(* the unstopped tasks it looked at was handed over: no frame is left that   *)
(* nobody will send (unless an allocation failed, the manager's error).      *)
NothingLeftUnsent ==
    mgr.sender /\ ~mgr.err /\ mgr.run =>
        /\ \A t \in Task : task[t].lastRead => SentBlocks(t) \subseteq ReadOrListed(t)
        /\ snd.pc = "asleep" =>
               \A t \in snd.seen : task[t].status \in {"idle", "run"} =>
                   SentBlocks(t) \subseteq Range(readOut[t])

(* The blocks of a task are handed to the sender thread in file order, each  *)
(* once.                                                                     *)
HandedInOrder ==
    \A t \in Task : \A j, k \in DOMAIN readOut[t] :
        j < k => LET a == readOut[t][j]  b == readOut[t][k]
                 IN a[1] < b[1] \/ (a[1] = b[1] /\ a[2] < b[2])

(* The session hears of every received file exactly once: as many reports    *)
(* as files with a report, one kind for each, and all files when the task    *)
(* has come to its end (one ended before its first round says nothing of     *)
(* its empty files).                                                         *)
FilesReportedOnce ==
    ~mgr.sender => \A t \in Task :
        /\ \A f \in File : Cardinality(task[t].res[f]) <= 1
        /\ task[t].told = Cardinality({f \in File : task[t].res[f] # {}})
        /\ task[t].done = NumFiles /\ task[t].empties => task[t].told = NumFiles

(* A file all of whose blocks were pushed is reported as failed only for a   *)
(* reason: its write failed, the task had an error or was stopped, or the    *)
(* manager stopped; running out of patience (dataWriteTimeoutCnt) only ends  *)
(* a task whose blocks did not all come.                                     *)
FailHasCause ==
    ~mgr.sender /\ CheckManager => \A t \in Task, f \in File :
        "fail" \in task[t].res[f] /\ task[t].status = "run" /\ ~task[t].err /\ ~task[t].errLost =>
            ioFaults > 0 \/ ~(Blocks(f) \subseteq task[t].pushed)

(* The sender's progress reaches its total only when every task that has     *)
(* blocks was stopped (the comment in FileManagerGetBytesTransferred).       *)
AllBytesMeansStopped ==
    mgr.sender /\ mgr.run /\ mgr.total > 0 /\ FileManagerGetBytesTransferred = mgr.total =>
        \A t \in Task : task[t].status \notin {"idle", "run"}

Left(t) == task[t].occ /\ \A i \in Io : io[i].t # t
Undrained(t) == snd.pc = "asleep" /\ \E i \in Io : io[i].t = t /\ io[i].pc = "push"

Stopped(t) == task[t].status = "stop"
Cleared(t) == task[t].status = "freed" \/ Left(t) \/ Undrained(t)
Waking == mloop.pc = "waking"
Gone == mloop.pc = "gone"
AllPushed(t) == ~mgr.sender /\ task[t].status = "run" /\ task[t].pushed = AllBlocks
Ended(t) == \/ task[t].told = NumFiles \/ task[t].err \/ task[t].errLost
            \/ task[t].status # "run" \/ ~CheckManager \/ Left(t)

(* A stopped task is cleared, whoever was working on it, unless an IO thread *)
(* took it while it was in error and left it occupied, or waits for a place  *)
(* in a full send list whose sender thread sleeps because every task is      *)
(* stopped (the next transfer wakes it).                                     *)
StoppedIsCleared == \A t \in Task : Stopped(t) ~> Cleared(t)

(* Stopping the file manager's threads returns: every IO thread wakes up and *)
(* leaves, whatever it was waiting for.                                      *)
StopReturns == Waking ~> Gone

(* When all blocks of a running task were pushed they all get written: the   *)
(* task comes to its end unless it is stopped or runs into an error.         *)
AllWritten == \A t \in Task : AllPushed(t) ~> Ended(t)
============================================================================
