---------------------------- MODULE DFileSession ----------------------------
(* The DFile session: its threads and queues, the exchange of settings, and
   the frames on the TCP connection. Each section has variables of its own;
   their specifications are checked side by side. *)
EXTENDS Integers, Sequences, FiniteSets, SequencesExt

-----------------------------------------------------------------------------
(* One client session of DFile: the application threads that queue file     *)
(* lists, the main loop with its event chain, the sender and the receiver   *)
(* threads, and the thread that closes the session (nstackx_dfile.c and     *)
(* nstackx_dfile_session.c).  A transfer is only its beginning and its end  *)
(* (DFileTransfer models it), a frame is its number (the last section has   *)
(* the bytes).                                                              *)

CONSTANTS Caller,        \* threads of the application
          MaxLists,      \* file lists handed over, bounds the run
          MaxProcessing, \* NSTACKX_FILE_MANAGER_THREAD_NUM
          MaxTasks,      \* NSTACKX_MAX_FILE_LIST_NUM
          MaxSettings,   \* calls that set a path or a hook, bounds the run
          MaxFrames,     \* frames the peer sends, bounds the run
          MaxReadEvents, \* MAX_UNPROCESSED_READ_EVENT_COUNT
          RecvMax,       \* MAX_RECVBUF_COUNT
          MaxFails       \* failed calls of the system, bounds the run

VARIABLES starter,   \* the thread that opens the session
          node,      \* the session: "none", "made", "listed", "popped", "freed"
          closeFlag, \* the bits of closeFlag
          chain,     \* eventNodeChain, the events the main loop has to handle
          transfers, \* dFileTransChain, the lists under transfer
          count,     \* [processing, tasks (allTaskCount), settings, sem, outbound]
          pending,   \* pendingFileLists
          fate,      \* what became of every list: [said, told]
          inbound,   \* [queue, events, active, came, handled, dropped]
          thread,    \* state of "main", "sender", "receiver", "control"
          caller,    \* state of the application threads
          closer,    \* the thread in NSTACKX_DFileClose
          fails,     \* failures so far
          blame,     \* the step of opening that failed
          used       \* a freed session was used

seVars == <<starter, node, closeFlag, chain, transfers, count, pending, fate, inbound,
            thread, caller, closer, fails, blame, used>>

List == 1..MaxLists
Threads == {"main", "sender", "receiver", "control"}

SessionInit ==
    /\ starter = "main" /\ node = "made" /\ closeFlag = {} /\ chain = <<>>
    /\ transfers = {} /\ pending = <<>>
    /\ count = [processing |-> 0, tasks |-> 0, settings |-> 0, sem |-> 0, outbound |-> 0]
    /\ fate = [l \in List |-> [said |-> "none", told |-> 0]]
    /\ inbound = [queue |-> <<>>, events |-> 0, active |-> FALSE,
                  came |-> 0, handled |-> 0, dropped |-> 0]
    /\ thread = [t \in Threads |-> "none"]
    /\ caller = [c \in Caller |-> <<"idle">>]
    /\ closer = "no" /\ fails = 0 /\ blame = "none" /\ used = FALSE

Alive == node # "freed" /\ ~used
Fails == fails < MaxFails /\ fails' = fails + 1
Works == fails' = fails

-----------------------------------------------------------------------------
(* Opening: the four threads are created one after the other; when one      *)
(* cannot be, those before it are told to end and joined.                   *)

Created(t) == thread' = [thread EXCEPT ![t] = IF t = "main" THEN "loop" ELSE "run"]

AfterThread == [main |-> "sender", sender |-> "receiver", receiver |-> "control", control |-> "list"]

CreateThread ==
    /\ starter \in Threads /\ Alive
    /\ \/ Works /\ Created(starter) /\ starter' = AfterThread[starter] /\ UNCHANGED <<closeFlag, blame>>
       \/ /\ Fails /\ UNCHANGED thread /\ blame' = starter
          /\ starter' = IF starter = "main" THEN "failed" ELSE "giveup_" \o starter
          /\ closeFlag' = IF starter = "main" THEN closeFlag ELSE closeFlag \cup {"term"}
    /\ UNCHANGED <<node, chain, transfers, count, pending, fate, inbound, caller, closer, used>>

(* Which threads the error path joins: after the control thread could not be created, the
   receiver is not among them.                                                            *)
MutantJoinsMainOnly == [giveup_sender |-> {"main"}, giveup_receiver |-> {"main"},
                        giveup_control |-> {"main"}]

(* A thread that is over can be joined; the main loop "died" when waiting for events failed. *)
Over(t) == thread[t] \in {"ended", "died"}

Joined == [giveup_sender |-> {"main"}, giveup_receiver |-> {"sender", "main"},
           giveup_control |-> {"sender", "main"}]

GiveUp ==
    /\ starter \in DOMAIN Joined /\ Alive
    /\ \A t \in Joined[starter] : Over(t)
    /\ starter' = "failed"
    /\ UNCHANGED <<node, closeFlag, chain, transfers, count, pending, fate, inbound, thread, caller,
                   closer, fails, blame, used>>

(* AddDFileSessionNode: without memory the session is given up with its threads running. *)
StartSessionRunning ==
    /\ starter = "list" /\ Alive
    /\ \/ Works /\ starter' = "done" /\ node' = "listed" /\ UNCHANGED blame
       \/ Fails /\ starter' = "failed" /\ blame' = "list" /\ UNCHANGED node
    /\ UNCHANGED <<closeFlag, chain, transfers, count, pending, fate, inbound, thread, caller, closer, used>>

CleanAfterFailure ==
    /\ starter = "failed" /\ Alive
    /\ node' = "freed" /\ starter' = "done"
    /\ UNCHANGED <<closeFlag, chain, transfers, count, pending, fate, inbound, thread, caller, closer,
                   fails, blame, used>>

-----------------------------------------------------------------------------
(* Calls of the application: each looks the session up and posts an event;  *)
(* the node is not held between the two.                                    *)

Posted(e) == chain' = Append(chain, e)

NextList == Cardinality({l \in List : fate[l].said # "none"}) + 1

GetDFileSessionNodeById(c, what) ==
    /\ caller[c] = <<"idle">> /\ starter = "done" /\ ~used
    /\ IF what \in {"send", "fail"}
       THEN /\ NextList \in List
            /\ fate' = [fate EXCEPT ![NextList].said = IF node = "listed" THEN "asking" ELSE "refused"]
            /\ caller' = [caller EXCEPT ![c] = IF node = "listed" THEN <<what, NextList>> ELSE @]
            /\ UNCHANGED count
       ELSE /\ node = "listed" /\ count.settings < MaxSettings
            /\ count' = [count EXCEPT !.settings = @ + 1]
            /\ caller' = [caller EXCEPT ![c] = <<what>>]
            /\ UNCHANGED fate
    /\ UNCHANGED <<starter, node, closeFlag, chain, transfers, pending, inbound, thread, closer,
                   fails, blame, used>>

(* The limit on the lists handed over and not ended; only the first two calls look at it. *)
RebuildFilelist == count.tasks < MaxTasks

Answer(c, l, said) ==
    /\ fate' = [fate EXCEPT ![l].said = said]
    /\ caller' = [caller EXCEPT ![c] = <<"idle">>]

(* SendFilesInner posts the event first and counts the list afterwards, when the main loop
   may have ended it already.                                                            *)
PostList(c) ==
    LET l == caller[c][2] IN
    /\ caller[c][1] = "send" /\ Alive
    /\ \/ /\ RebuildFilelist /\ Works /\ Posted(<<"send", l>>)
          /\ fate' = [fate EXCEPT ![l].said = "accepted"]
          /\ caller' = [caller EXCEPT ![c] = <<"count">>]
       \/ ~RebuildFilelist /\ Works /\ Answer(c, l, "refused") /\ UNCHANGED chain
       \/ RebuildFilelist /\ Fails /\ Answer(c, l, "refused") /\ UNCHANGED chain
    /\ UNCHANGED <<starter, node, closeFlag, transfers, count, pending, inbound, thread, closer, blame, used>>

(* allTaskCount++ reads and writes a plain integer, which the main loop counts down and other
   callers count up: whichever writes last, the others' updates since its read are lost.     *)
CountList(c) ==
    /\ Alive
    /\ \/ /\ caller[c] = <<"count">> /\ caller' = [caller EXCEPT ![c] = <<"store", count.tasks>>]
          /\ UNCHANGED count
       \/ /\ caller[c][1] = "store" /\ caller' = [caller EXCEPT ![c] = <<"idle">>]
          /\ \/ count' = [count EXCEPT !.tasks = caller[c][2] + 1]
             \/ caller[c][2] # count.tasks /\ UNCHANGED count
    /\ UNCHANGED <<starter, node, closeFlag, chain, transfers, pending, fate, inbound, thread, closer,
                   fails, blame, used>>

(* A list the call refuses because of its parameters is also reported by an event. *)
PostSendFailAsync(c) ==
    LET l == caller[c][2] IN
    /\ caller[c][1] = "fail" /\ Alive
    /\ \/ Works /\ Posted(<<"fail", l>>) /\ Answer(c, l, "accepted")
       \/ Fails /\ Answer(c, l, "refused") /\ UNCHANGED chain
    /\ UNCHANGED <<starter, node, closeFlag, transfers, count, pending, inbound, thread, closer, blame, used>>

PostSetting(c) ==
    /\ caller[c][1] = "set" /\ Alive
    /\ \/ Works /\ Posted(<<"set">>)
       \/ Fails /\ UNCHANGED chain
    /\ caller' = [caller EXCEPT ![c] = <<"idle">>]
    /\ UNCHANGED <<starter, node, closeFlag, transfers, count, pending, fate, inbound, thread, closer,
                   blame, used>>

UsesFreed(c) ==
    /\ caller[c] # <<"idle">> /\ node = "freed" /\ ~used
    /\ used' = TRUE
    /\ UNCHANGED <<starter, node, closeFlag, chain, transfers, count, pending, fate, inbound, thread,
                   caller, closer, fails, blame>>

NSTACKX_DFileSendFiles(c) == GetDFileSessionNodeById(c, "send")
NSTACKX_DFileSendFilesWithRemotePathAndType(c) == GetDFileSessionNodeById(c, "fail")
NSTACKX_DFileSetStoragePath(c) == GetDFileSessionNodeById(c, "set")

-----------------------------------------------------------------------------
(* The main loop.                                                           *)

Goes(pc) == thread' = [thread EXCEPT !["main"] = pc]

Told(ls) == fate' = [l \in List |-> IF l \in ls THEN [fate[l] EXCEPT !.told = @ + 1] ELSE fate[l]]

MutantOneMore == count.processing > MaxProcessing
Full == count.processing >= MaxProcessing

(* DFileTransDestroy counts a list down, also one that could not be started; only one for
   which there was no memory is never counted down.                                       *)
Uncounted(failed) == {count.tasks - n : n \in 0..Cardinality(failed)}

(* The list goes to the pending ones, is started, or cannot be started and is reported. *)
DFileSendFileInner(l) ==
    \/ Full /\ Works /\ pending' = Append(pending, l) /\ UNCHANGED <<transfers, count, fate>>
    \/ /\ ~Full /\ Works /\ transfers' = transfers \cup {l}
       /\ count' = [count EXCEPT !.processing = @ + 1] /\ UNCHANGED <<pending, fate>>
    \/ /\ ~Full /\ Fails /\ Told({l}) /\ UNCHANGED <<pending, transfers>>
       /\ \E n \in Uncounted({l}) : count' = [count EXCEPT !.tasks = n]

MutantReadsUncounted(n) == n

EventsAfterRead(n) == n - 1

HandleEvent(e) ==
    CASE e[1] = "send" -> DFileSendFileInner(e[2]) /\ UNCHANGED <<inbound, closeFlag>> /\ Goes("trans")
      [] e[1] = "fail" -> Told({e[2]}) /\ Works /\ Goes("trans")
                          /\ UNCHANGED <<inbound, closeFlag, pending, transfers, count>>
      [] e[1] = "set"  -> Works /\ Goes("trans")
                          /\ UNCHANGED <<inbound, closeFlag, pending, transfers, count, fate>>
      [] e[1] = "read" -> Works /\ Goes("read")
                          /\ inbound' = [inbound EXCEPT !.events = EventsAfterRead(@)]
                          /\ UNCHANGED <<closeFlag, pending, transfers, count, fate>>
      [] OTHER         -> Works /\ closeFlag' = closeFlag \cup {e[1]} /\ Goes("trans")
                          /\ UNCHANGED <<inbound, pending, transfers, count, fate>>

(* EpollLoop handles an event, times out, or fails and the loop is left. *)
MainEpoll ==
    /\ thread["main"] = "loop" /\ closeFlag = {} /\ Alive
    /\ \/ /\ chain = <<>> /\ Goes("trans") /\ Works
          /\ UNCHANGED <<chain, inbound, closeFlag, pending, transfers, count, fate>>
       \/ chain # <<>> /\ HandleEvent(Head(chain)) /\ chain' = Tail(chain)
       \/ /\ Fails /\ Goes("failed")
          /\ UNCHANGED <<chain, inbound, closeFlag, pending, transfers, count, fate>>
    /\ UNCHANGED <<starter, node, caller, closer, blame, used>>

(* ReadEventHandle takes all the frames queued, handles them and looks again; a frame may
   be answered by one of our own, which wakes the sender.  Where the loop polls the queue it
   gives up after a while, when it has handled something.                                  *)
MutantPostsNothing(sem) == sem
SemAfterWrite(sem) == sem + 1

Reading == {"read", "part", "more"}

ReadEventHandle(pc) ==
    LET batch == inbound.queue IN
    /\ thread["main"] = pc /\ Alive
    /\ \/ /\ batch # <<>> /\ closeFlag = {}
          /\ inbound' = [inbound EXCEPT !.queue = <<>>, !.handled = @ + Len(batch)]
          /\ \/ count' = [count EXCEPT !.outbound = @ + 1, !.sem = SemAfterWrite(@)]
             \/ UNCHANGED count
          /\ Goes(IF pc = "part" THEN "more" ELSE pc)
       \/ /\ batch = <<>> \/ closeFlag # {} \/ pc = "more"
          /\ Goes(IF pc = "read" THEN "trans" ELSE "loop") /\ UNCHANGED <<inbound, count>>
    /\ UNCHANGED <<starter, node, closeFlag, chain, transfers, pending, fate, caller, closer, fails, blame,
                   used>>

(* SendPendingList: lists are taken until one starts; the ones that do not are reported. *)
MutantOneTry(n, started) == started \/ n = 1 \/ n = Len(pending)
StopsAt(n, started) == started \/ n = Len(pending)

MutantSaysNothing(failed, l) == {l}
Reported(failed, l) == failed \cup {l}

CheckTransDone(l) ==
    \E n \in 0..Len(pending), started \in BOOLEAN :
        /\ StopsAt(n, started) /\ (started => n > 0)
        /\ LET failed == {pending[i] : i \in 1..(IF started THEN n - 1 ELSE n)} IN
           /\ fails + Cardinality(failed) <= MaxFails
           /\ fails' = fails + Cardinality(failed)
           /\ transfers' = (transfers \ {l}) \cup (IF started THEN {pending[n]} ELSE {})
           /\ \E k \in Uncounted(failed) :
                count' = [count EXCEPT !.processing = @ - 1 + IF started THEN 1 ELSE 0,
                                       !.tasks = k - 1]
           /\ pending' = SubSeq(pending, n + 1, Len(pending))
           /\ Told(Reported(failed, l))

AfterTrans == IF inbound.active /\ inbound.queue # <<>> THEN "part" ELSE "loop"

ProcessSessionTrans ==
    /\ thread["main"] = "trans" /\ Alive
    /\ \/ \E l \in transfers : CheckTransDone(l)
       \/ UNCHANGED <<transfers, count, pending, fate, fails>>
    /\ Goes(AfterTrans)
    /\ UNCHANGED <<starter, node, closeFlag, chain, inbound, caller, closer, blame, used>>

MutantLeavesSender(sem) == sem
SemAtEnd(sem) == sem + 1

(* After a failure the application hears of a fatal error, but nothing tells the other threads
   to end: closeFlag stays as it is, the sender is woken once and goes on.                   *)
MainEnds ==
    /\ Alive
    /\ \/ thread["main"] = "loop" /\ closeFlag # {} /\ Goes("ended")
       \/ thread["main"] = "failed" /\ Goes("died")
    /\ count' = [count EXCEPT !.sem = SemAtEnd(@)]
    /\ UNCHANGED <<starter, node, closeFlag, chain, transfers, pending, fate, inbound, caller, closer,
                   fails, blame, used>>

-----------------------------------------------------------------------------
(* The receiver, the sender and the control thread.                         *)

(* PostFatalEvent: the flag is set at once when the event cannot be posted. *)
PostFatalEvent ==
    \/ Works /\ Posted(<<"fatal">>) /\ UNCHANGED closeFlag
    \/ Fails /\ closeFlag' = closeFlag \cup {"fatal"} /\ UNCHANGED chain

DFileAddInboundQueue ==
    /\ thread["receiver"] = "run" /\ closeFlag = {} /\ inbound.came < MaxFrames /\ Alive
    /\ IF Len(inbound.queue) > RecvMax
       THEN /\ inbound' = [inbound EXCEPT !.came = @ + 1, !.dropped = @ + 1]
            /\ UNCHANGED thread
       ELSE /\ inbound' = [inbound EXCEPT !.came = @ + 1, !.queue = Append(@, inbound.came + 1)]
            /\ thread' = [thread EXCEPT !["receiver"] = "post"]
    /\ UNCHANGED <<starter, node, closeFlag, chain, transfers, count, pending, fate, caller, closer, fails,
                   blame, used>>

PostReadEventToMainLoop ==
    /\ thread["receiver"] = "post" /\ Alive
    /\ thread' = [thread EXCEPT !["receiver"] = "run"]
    /\ IF inbound.events >= MaxReadEvents
       THEN Works /\ UNCHANGED <<inbound, chain>>
       ELSE \/ /\ Works /\ Posted(<<"read">>)
               /\ inbound' = [inbound EXCEPT !.events = @ + 1, !.active = FALSE]
            \/ /\ Fails /\ UNCHANGED chain
               /\ inbound' = [inbound EXCEPT !.active = TRUE]
    /\ UNCHANGED <<starter, node, closeFlag, transfers, count, pending, fate, caller, closer, blame, used>>

(* The flag is up, the peer has closed (no event) or the socket has failed. *)
ReceiverEnds ==
    /\ thread["receiver"] = "run" /\ Alive
    /\ thread' = [thread EXCEPT !["receiver"] = "ended"]
    /\ IF closeFlag # {} THEN Works /\ UNCHANGED <<chain, closeFlag>>
       ELSE \/ Fails /\ UNCHANGED <<chain, closeFlag>>
            \/ fails < MaxFails /\ PostFatalEvent
    /\ UNCHANGED <<starter, node, transfers, count, pending, fate, inbound, caller, closer, blame, used>>

(* WaitNewSendData looks at the queue, then waits on the semaphore. *)
WaitNewSendData ==
    /\ Alive
    /\ \/ /\ thread["sender"] = "run" /\ closeFlag = {}
          /\ thread' = [thread EXCEPT !["sender"] = IF count.outbound = 0 THEN "wait" ELSE "send"]
          /\ UNCHANGED count
       \/ /\ thread["sender"] = "wait" /\ count.sem > 0
          /\ thread' = [thread EXCEPT !["sender"] = IF closeFlag = {} THEN "send" ELSE "ended"]
          /\ count' = [count EXCEPT !.sem = @ - 1]
    /\ UNCHANGED <<starter, node, closeFlag, chain, transfers, pending, fate, inbound, caller, closer, fails,
                   blame, used>>

(* The frames queued go out, or the connection fails: reported by an event, except when
   waiting for the socket failed.                                                      *)
DFileSessionSendFrame ==
    /\ thread["sender"] = "send" /\ Alive
    /\ \/ /\ Works /\ count' = [count EXCEPT !.outbound = 0]
          /\ thread' = [thread EXCEPT !["sender"] = "run"] /\ UNCHANGED <<chain, closeFlag>>
       \/ /\ thread' = [thread EXCEPT !["sender"] = "ended"] /\ UNCHANGED count
          /\ \/ Fails /\ UNCHANGED <<chain, closeFlag>>
             \/ fails < MaxFails /\ PostFatalEvent
    /\ UNCHANGED <<starter, node, transfers, pending, fate, inbound, caller, closer, blame, used>>

ThreadEnds ==
    /\ closeFlag # {} /\ Alive
    /\ \E t \in {"sender", "control"} :
        thread[t] = "run" /\ thread' = [thread EXCEPT ![t] = "ended"]
    /\ UNCHANGED <<starter, node, closeFlag, chain, transfers, count, pending, fate, inbound, caller, closer,
                   fails, blame, used>>

-----------------------------------------------------------------------------
(* NSTACKX_DFileClose: the session leaves the table, its threads are told   *)
(* to end and joined, what it still holds is freed without a word.          *)

PopDFileSessionNodeById ==
    /\ closer = "no" /\ node = "listed" /\ ~used
    /\ node' = "popped" /\ closer' = "stop"
    /\ UNCHANGED <<starter, closeFlag, chain, transfers, count, pending, fate, inbound, thread, caller,
                   fails, blame, used>>

StopDFileThreads ==
    /\ closer = "stop" /\ Alive
    /\ \/ Works /\ Posted(<<"term">>) /\ UNCHANGED <<closeFlag, count>>
       \/ Fails /\ closeFlag' = closeFlag \cup {"term"} /\ UNCHANGED chain
          /\ count' = [count EXCEPT !.sem = @ + 1]
    /\ closer' = "join"
    /\ UNCHANGED <<starter, node, transfers, pending, fate, inbound, thread, caller, blame, used>>

NSTACKX_DFileClose ==
    /\ closer = "join" /\ Alive
    /\ \A t \in Threads : Over(t)
    /\ node' = "freed" /\ closer' = "done"
    /\ UNCHANGED <<starter, closeFlag, chain, transfers, count, pending, fate, inbound, thread, caller,
                   fails, blame, used>>

-----------------------------------------------------------------------------
MainStep == MainEpoll \/ (\E pc \in Reading : ReadEventHandle(pc)) \/ ProcessSessionTrans
            \/ MainEnds
ReceiverStep == PostReadEventToMainLoop \/ ReceiverEnds
SenderStep == WaitNewSendData \/ DFileSessionSendFrame
StartStep == CreateThread \/ GiveUp \/ StartSessionRunning \/ CleanAfterFailure
CloseStep == StopDFileThreads \/ NSTACKX_DFileClose
ApiStep(c) == PostList(c) \/ CountList(c) \/ PostSendFailAsync(c) \/ PostSetting(c)

SessionNext ==
    \/ StartStep \/ MainStep \/ DFileAddInboundQueue \/ ReceiverStep \/ SenderStep \/ ThreadEnds
    \/ PopDFileSessionNodeById \/ CloseStep
    \/ \E c \in Caller : \/ NSTACKX_DFileSendFiles(c) \/ NSTACKX_DFileSetStoragePath(c)
                         \/ NSTACKX_DFileSendFilesWithRemotePathAndType(c)
                         \/ ApiStep(c) \/ UsesFreed(c)

SessionSpec == SessionInit /\ [][SessionNext]_seVars

ReceiverLeaves == closeFlag # {} /\ ReceiverEnds

(* The threads are scheduled; whether an application calls, a peer sends or an operation
   fails is left open.                                                                  *)
SessionFairness ==
    /\ WF_seVars(StartStep) /\ WF_seVars(MainStep) /\ WF_seVars(SenderStep)
    /\ WF_seVars(PostReadEventToMainLoop) /\ WF_seVars(ReceiverLeaves)
    /\ WF_seVars(ThreadEnds) /\ WF_seVars(CloseStep)

SessionLiveSpec == SessionSpec /\ SessionFairness

-----------------------------------------------------------------------------
(* Every variable keeps its type, the counters their bounds: no count of    *)
(* events or of transfers goes below zero or over its limit.  Only the      *)
(* count of tasks may go below zero, by as many lists as ended before they  *)
(* were counted or whose counting was lost.                                 *)
SessionTypeOK ==
    /\ starter \in Threads \cup {"list", "failed", "done"} \cup DOMAIN Joined
    /\ node \in {"made", "listed", "popped", "freed"}
    /\ closeFlag \subseteq {"term", "fatal"}
    /\ transfers \subseteq List /\ pending \in Seq(List)
    /\ count.processing \in 0..MaxProcessing /\ count.tasks \in (-MaxLists)..MaxLists
    /\ count.sem \in Nat /\ count.outbound \in Nat
    /\ \A l \in List : /\ fate[l].said \in {"none", "asking", "accepted", "refused"}
                       /\ fate[l].told \in {0, 1}
    /\ inbound.events \in 0..MaxReadEvents /\ Len(inbound.queue) <= RecvMax + 1
    /\ \A t \in Threads : thread[t] \in {"none", "run", "loop", "trans", "post", "wait", "send", "failed",
                                         "died", "ended"} \cup Reading
    /\ closer \in {"no", "stop", "join", "done"}

(* DFileSendFileInner, CheckTransDone and SendPendingList lose no list: one *)
(* whose call returned success is, until the session is closed, in exactly  *)
(* one place: waiting as an event, pending, under transfer, or reported     *)
(* once.                                                                    *)
NothingForgotten ==
    (node # "freed" /\ ~used) =>
        \A l \in List :
            Cardinality({i \in 1..Len(chain) : chain[i] \in {<<"send", l>>, <<"fail", l>>}})
            + Cardinality({i \in 1..Len(pending) : pending[i] = l})
            + Cardinality(transfers \cap {l}) + fate[l].told
            = IF fate[l].said = "accepted" THEN 1 ELSE 0

(* SendPendingList: a list only waits behind one that is being sent, so     *)
(* the end of that one will start it.  A list that cannot be started does   *)
(* not hold up the ones behind it.                                          *)
PendingBehindTransfer == Alive => /\ pending # <<>> => transfers # {}
                                  /\ count.processing = Cardinality(transfers)

(* Opening and closing: the session is freed when all its threads have      *)
(* ended, except after the control thread could not be created (the         *)
(* receiver is not joined) or the session could not be listed (no thread is *)
(* stopped).                                                                *)
FreedAfterThreads ==
    node = "freed" => \/ \A t \in Threads : thread[t] = "none" \/ Over(t)
                      \/ blame \in {"control", "list"}

(* The main loop is left because waiting for events failed. *)
MainLoopFailed == thread["main"] \in {"failed", "died"}
Ending == closeFlag # {} \/ MainLoopFailed \/ ~Alive
FrameWaits == inbound.queue # <<>>
OutboundWaits == count.outbound > 0
SenderDone == count.outbound = 0 \/ thread["sender"] = "ended" \/ ~Alive
Closing == closer # "no"
Closed == closer = "done" \/ MainLoopFailed \/ ~Alive
Opened == starter = "done" \/ MainLoopFailed \/ ~Alive

(* ReadEventHandle, PostReadEventToMainLoop: no frame stays in the inbound  *)
(* queue of a running session: an event is on its way, or the main loop     *)
(* polls the queue because the event could not be posted.  Only a main loop *)
(* whose epoll_wait failed, which the application hears of as a fatal       *)
(* error, leaves frames behind.                                             *)
FramesHandled == FrameWaits ~> (~FrameWaits \/ Ending)

(* DFileWriteHandle, WaitNewSendData: a frame written to the outbound queue *)
(* is sent unless the sender has ended.                                     *)
OutboundSent == OutboundWaits ~> SenderDone

(* NSTACKX_DFileClose returns, and so does opening: every thread that is    *)
(* joined is woken and ends.  The exception is a main loop that ended on a  *)
(* failed epoll_wait: the event that asks it to stop the others is handled  *)
(* by nobody, and NSTACKX_DFileClose joins a sender that waits for ever.    *)
JoinsReturn == (Closing ~> Closed) /\ <>Opened

-----------------------------------------------------------------------------
(* The setting negotiation of DFile: the client sends its settings when the *)
(* session is opened, from the application's thread while the main loop     *)
(* already runs; the server makes a record of the peer and answers; timers  *)
(* repeat the settings and drop a peer that stays forgot                    *)
(* (nstackx_dfile_session.c).  The connection keeps the order of frames and *)
(* may break.                                                               *)

CONSTANTS Mtu,       \* frame sizes an end may offer, positive
          MinMtu,    \* a transfer refuses sizes up to this one, the header of a data frame
          MaxTrans,  \* transfers the client starts, bounds the run
          MaxTries,  \* MAX_NEGOTIATE_TIMEOUT_COUNT
          MaxResets, \* frames that say "without setting", bounds the run
          MaxFaults  \* failed calls and broken connections, bounds the run

VARIABLES local,  \* localMtu of both ends
          cl,     \* the client's peerInfo: [state, timer, cnt, mtu]
          opener, \* the thread in NSTACKX_DFileClientWithTargetDev
          sv,     \* the server's peerInfo: [there, state, timer, cnt, mtu]
          trans,  \* transfers of the client: [mtu, sent]
          c2s, s2c,
          cut,    \* the connection is broken
          heard,  \* [ok, fail]: was CONNECT_SUCCESS, CONNECT_FAIL notified
          forgot, \* the server dropped a peer that was silent, or made no record of one
          unheard,\* a header frame came for which the server had no peer
          resets, faults

sgVars == <<local, cl, opener, sv, trans, c2s, s2c, cut, heard, forgot, unheard, resets, faults>>

NoPeer == [there |-> FALSE, state |-> "none", timer |-> FALSE, cnt |-> 0, mtu |-> 0]

SettingInit ==
    /\ local \in [{"cl", "sv"} -> Mtu]
    /\ cl = [state |-> "none", timer |-> "no", cnt |-> 0, mtu |-> 0]
    /\ opener = "send" /\ sv = NoPeer /\ trans = <<>>
    /\ c2s = <<>> /\ s2c = <<>> /\ cut = FALSE
    /\ heard = [ok |-> FALSE, fail |-> FALSE]
    /\ forgot = FALSE /\ unheard = FALSE /\ resets = 0 /\ faults = 0

Fault == faults < MaxFaults /\ faults' = faults + 1
Fine == faults' = faults
Put(q, m) == IF cut THEN q ELSE Append(q, m)
MutantNoFailure == UNCHANGED heard
ConnectFail == heard' = [heard EXCEPT !.fail = TRUE]

MutantTheirs(mine, theirs) == theirs
MtuInUse(mine, theirs) == IF mine < theirs THEN mine ELSE theirs

-----------------------------------------------------------------------------
(* The client.  DFileSessionSendSetting writes the frame, then starts the   *)
(* timer unless there is one.                                               *)

SendSettingToServer ==
    /\ opener = "send"
    /\ cl' = [cl EXCEPT !.state = "negotiating"]
    /\ \/ Fine /\ c2s' = Put(c2s, <<"set", local["cl"]>>) /\ opener' = "timer" /\ UNCHANGED heard
       \/ Fault /\ ConnectFail /\ opener' = "done" /\ UNCHANGED c2s
    /\ UNCHANGED <<local, sv, trans, s2c, cut, forgot, unheard, resets>>

(* The answer may have come before the timer is started. *)
StartSettingTimer ==
    /\ opener = "timer" /\ opener' = "done"
    /\ IF cl.timer # "no" THEN Fine /\ UNCHANGED <<cl, heard>>
       ELSE \/ Fine /\ cl' = [cl EXCEPT !.timer = "runs"] /\ UNCHANGED heard
            \/ Fault /\ ConnectFail /\ UNCHANGED cl
    /\ UNCHANGED <<local, sv, trans, c2s, s2c, cut, forgot, unheard, resets>>

MutantOneTryMore(cnt) == cnt > MaxTries
TriedEnough(cnt) == cnt >= MaxTries

(* A timer that cannot be started again stays, stopped. *)
ClientSettingTimeoutHandle ==
    /\ cl.timer = "runs"
    /\ IF TriedEnough(cl.cnt)
       THEN /\ cl' = [cl EXCEPT !.timer = "no", !.cnt = 0] /\ ConnectFail /\ Fine /\ UNCHANGED c2s
       ELSE \/ /\ cl' = [cl EXCEPT !.cnt = @ + 1] /\ Fine
               /\ c2s' = Put(c2s, <<"set", local["cl"]>>) /\ UNCHANGED heard
            \/ Fault /\ ConnectFail /\ UNCHANGED c2s /\ cl' = [cl EXCEPT !.cnt = @ + 1]
            \/ /\ cl' = [cl EXCEPT !.cnt = @ + 1, !.timer = "stopped"] /\ Fault
               /\ c2s' = Put(c2s, <<"set", local["cl"]>>) /\ ConnectFail
    /\ UNCHANGED <<local, opener, sv, trans, s2c, cut, forgot, unheard, resets>>

(* DFileTransSetMtu: a size that leaves no room for data, 0 too, is refused. *)
MutantKeepsMtu(t, mtu) == t
WithMtu(t, mtu) == IF mtu > MinMtu THEN [t EXCEPT !.mtu = mtu] ELSE t

DFileSessionHandleClientSetting(theirs) ==
    LET mtu == MtuInUse(local["cl"], theirs) IN
    /\ cl' = [cl EXCEPT !.timer = "no", !.state = "negotiated", !.mtu = mtu]
    /\ trans' = [i \in 1..Len(trans) |-> WithMtu(trans[i], mtu)]
    /\ heard' = [heard EXCEPT !.ok = TRUE]
    /\ UNCHANGED <<c2s, faults>>

(* HandleWithoutSettingError means to stop the transfers until the settings are agreed again,
   but no transfer takes a size of 0; the settings are sent anew.                            *)
HandleWithoutSettingError ==
    /\ trans' = [i \in 1..Len(trans) |-> WithMtu(trans[i], 0)]
    /\ \/ /\ cl' = [cl EXCEPT !.state = "negotiating", !.timer = "runs"] /\ Fine
          /\ c2s' = Put(c2s, <<"set", local["cl"]>>) /\ UNCHANGED heard
       \/ /\ cl' = [cl EXCEPT !.state = "negotiating", !.timer = "no"] /\ Fault /\ ConnectFail
          /\ \/ UNCHANGED c2s
             \/ c2s' = Put(c2s, <<"set", local["cl"]>>)

ClientFrame ==
    /\ s2c # <<>> /\ s2c' = Tail(s2c)
    /\ IF Head(s2c)[1] = "set" THEN DFileSessionHandleClientSetting(Head(s2c)[2])
       ELSE HandleWithoutSettingError
    /\ UNCHANGED <<local, opener, sv, cut, forgot, unheard, resets>>

(* DFileStartTransInner: the transfer takes what the peer has agreed to. *)
DFileStartTrans ==
    /\ opener = "done" /\ Len(trans) < MaxTrans
    /\ trans' = Append(trans, WithMtu([mtu |-> 0, sent |-> FALSE], cl.mtu))
    /\ UNCHANGED <<local, cl, opener, sv, c2s, s2c, cut, heard, forgot, unheard, resets, faults>>

SendHeader(i) ==
    /\ trans[i].mtu # 0 /\ ~trans[i].sent
    /\ trans' = [trans EXCEPT ![i].sent = TRUE]
    /\ c2s' = Put(c2s, <<"header", i>>)
    /\ UNCHANGED <<local, cl, opener, sv, s2c, cut, heard, forgot, unheard, resets, faults>>

-----------------------------------------------------------------------------
(* The server.                                                              *)

AnswerSetting == s2c' = Put(s2c, <<"set", local["sv"]>>)

MutantNotListed(mtu) == NoPeer
NewPeer(mtu) == [there |-> TRUE, state |-> "negotiating", timer |-> TRUE, cnt |-> 1, mtu |-> mtu]

(* A known peer is answered a few times only; a new one is listed if its timer starts.  When
   the answer cannot be written no timer is started either.                                 *)
DFileSessionHandleServerSetting(theirs) ==
    LET mtu == MtuInUse(local["sv"], theirs)
        again == [sv EXCEPT !.state = "negotiating", !.mtu = mtu, !.cnt = @ + 1] IN
    \/ sv.there /\ sv.cnt >= MaxTries /\ Fine /\ UNCHANGED <<sv, s2c, forgot>>
    \/ /\ sv.there /\ sv.cnt < MaxTries /\ UNCHANGED forgot
       /\ \/ Fine /\ sv' = [again EXCEPT !.timer = TRUE] /\ AnswerSetting
          \/ Fault /\ ~sv.timer /\ sv' = again /\ AnswerSetting
          \/ Fault /\ sv' = again /\ UNCHANGED s2c
    \/ /\ ~sv.there
       /\ \/ Fine /\ sv' = NewPeer(mtu) /\ AnswerSetting /\ UNCHANGED forgot
          \/ Fault /\ forgot' = TRUE /\ AnswerSetting /\ UNCHANGED sv
          \/ Fault /\ UNCHANGED <<sv, s2c, forgot>>

MutantTimerStays == sv.timer
TimerAfterFrame == FALSE

(* DFileSessionHandleFrame: the first frame of a transfer ends the negotiation. *)
DFileSessionHandleFrame ==
    /\ sv' = IF sv.there /\ sv.state = "negotiating"
             THEN [sv EXCEPT !.state = "negotiated", !.timer = TimerAfterFrame] ELSE sv
    /\ unheard' = (unheard \/ ~sv.there)
    /\ UNCHANGED <<s2c, forgot, faults>>

ServerFrame ==
    /\ c2s # <<>> /\ c2s' = Tail(c2s)
    /\ IF Head(c2s)[1] = "set" THEN DFileSessionHandleServerSetting(Head(c2s)[2]) /\ UNCHANGED unheard
       ELSE DFileSessionHandleFrame
    /\ UNCHANGED <<local, cl, opener, trans, cut, heard, resets>>

(* Ten minutes, long after the transfers of the peer have timed out. *)
ServerSettingTimeoutHandle ==
    /\ sv.there /\ sv.timer
    /\ sv' = NoPeer /\ forgot' = TRUE
    /\ UNCHANGED <<local, cl, opener, trans, c2s, s2c, cut, heard, unheard, resets, faults>>

(* Only a peer of another version sends this frame. *)
ResetSent ==
    /\ resets < MaxResets /\ sv.there
    /\ resets' = resets + 1 /\ s2c' = Put(s2c, <<"rst">>)
    /\ UNCHANGED <<local, cl, opener, sv, trans, c2s, cut, heard, forgot, unheard, faults>>

ConnectionBreaks ==
    /\ ~cut /\ Fault /\ cut' = TRUE /\ c2s' = <<>> /\ s2c' = <<>>
    /\ UNCHANGED <<local, cl, opener, sv, trans, heard, forgot, unheard, resets>>

-----------------------------------------------------------------------------
SettingNext ==
    \/ SendSettingToServer \/ StartSettingTimer \/ ClientSettingTimeoutHandle \/ ClientFrame
    \/ DFileStartTrans \/ (\E i \in 1..Len(trans) : SendHeader(i))
    \/ ServerFrame \/ ServerSettingTimeoutHandle \/ ResetSent \/ ConnectionBreaks

SettingSpec == SettingInit /\ [][SettingNext]_sgVars

(* The threads run, the client's timer fires, frames are delivered. *)
OpenerStep == SendSettingToServer \/ StartSettingTimer
SettingFairness ==
            /\ WF_sgVars(OpenerStep)
            /\ WF_sgVars(ClientSettingTimeoutHandle) /\ WF_sgVars(ClientFrame) /\ WF_sgVars(ServerFrame)
SettingLiveSpec == SettingSpec /\ SettingFairness

-----------------------------------------------------------------------------
(* Every variable keeps its type; the counts of attempts keep their bounds, *)
(* so an 8-bit counter never wraps.                                         *)
SettingTypeOK ==
    /\ cl.state \in {"none", "negotiating", "negotiated"} /\ cl.timer \in {"no", "runs", "stopped"}
    /\ cl.cnt \in 0..MaxTries /\ sv.cnt \in 0..MaxTries
    /\ cl.mtu \in Mtu \cup {0} /\ sv.mtu \in Mtu \cup {0}
    /\ opener \in {"send", "timer", "done"}

(* DFileSessionHandleClientSetting, DFileTransSetMtu: with the settings     *)
(* agreed every transfer sends frames of the size agreed, also one started  *)
(* before the answer came or while settings were exchanged again.  A size   *)
(* that leaves no room for data is agreed to as well, and no transfer takes *)
(* it.                                                                      *)
TransfersMaySend ==
    cl.state = "negotiated" =>
        \A i \in 1..Len(trans) : trans[i].mtu = IF cl.mtu > MinMtu THEN cl.mtu ELSE 0

(* Both ends work out the same frame size, whatever either offered.         *)
MtuAgreed == (cl.mtu # 0 /\ sv.there) => cl.mtu = sv.mtu

(* DFileSessionHandleFrame: a header is ignored for want of a peer only     *)
(* after the server has dropped a peer that was silent for its time-out, or *)
(* answered one whose timer it could not start.                             *)
HeaderFindsPeer == unheard => forgot

KeepsPeer == (sv.there /\ sv.state = "negotiated") => sv'.there

(* ServerSettingTimeoutHandle drops no peer whose first frame after the     *)
(* settings has come: that frame stops the timer.                           *)
PeerKept == [][KeepsPeer]_sgVars

Heard == heard.ok \/ heard.fail

(* NSTACKX_DFileClientWithTargetDev: the application hears whether the      *)
(* connection was made, although answers get lost and timers race answers.  *)
ConnectAnswered == <>Heard

-----------------------------------------------------------------------------
(* The TCP stream of a DFile session: the sender thread writes the control  *)
(* frames of the outbound queue and the blocks of the file manager to one   *)
(* socket, whole or in parts, and the receiver thread of the other end cuts *)
(* the stream into frames (nstackx_dfile_send.c, nstackx_dfile_mp.c and the *)
(* two threads in nstackx_dfile_session.c).                                 *)

CONSTANTS MaxCtrl, \* control frames written, bounds the run
          MaxData, \* data blocks read from the files, bounds the run
          HeadLen, \* units of a frame header
          Payload, \* units a payload may have
          None

VARIABLES size,     \* units of every frame
          outQueue, \* outboundQueue
          made,     \* [ctrl, data]: frames written and blocks read so far
          unsent,   \* the block that is partly sent: [frame, at]
          preNode,  \* the control frame that is partly sent: [frame, at]
          sender,   \* the sender thread's place in its round
          ready,    \* the peer's settings have come (mtuInuse is set)
          stream,   \* units under way
          started,  \* frames in the order their first unit was sent
          recvBuf,  \* recvBuffer, the units of the frame that is coming in
          recvGoal, \* what TcpSocketRecv is to read
          frames    \* what was handed to DFileSessionHandleReadBuffer

stVars == <<size, outQueue, made, unsent, preNode, sender, ready, stream, started, recvBuf, recvGoal,
            frames>>

Frame == {<<"ctrl", n>> : n \in 1..MaxCtrl} \cup {<<"data", n>> : n \in 1..MaxData}
Unit(f, i) == [frame |-> f, at |-> i]
Units(f) == [i \in 1..size[f] |-> Unit(f, i)]

StreamInit ==
    /\ size \in [Frame -> {HeadLen + p : p \in Payload}]
    /\ outQueue = <<>> /\ made = [ctrl |-> 0, data |-> 0]
    /\ unsent = None /\ preNode = None /\ sender = "start" /\ ready = FALSE
    /\ stream = <<>> /\ started = <<>>
    /\ recvBuf = <<>> /\ recvGoal = HeadLen /\ frames = <<>>

-----------------------------------------------------------------------------
(* The main loop queues control frames; the settings come once. *)
DFileWriteHandle ==
    /\ made.ctrl < MaxCtrl
    /\ made' = [made EXCEPT !.ctrl = @ + 1]
    /\ outQueue' = Append(outQueue, <<"ctrl", made.ctrl + 1>>)
    /\ UNCHANGED <<size, unsent, preNode, sender, ready, stream, started, recvBuf, recvGoal, frames>>

SettingsCome ==
    /\ ~ready /\ ready' = TRUE
    /\ UNCHANGED <<size, outQueue, made, unsent, preNode, sender, stream, started, recvBuf, recvGoal, frames>>

(* SocketSend takes k of the units that are left of the frame, none when the buffer is full. *)
SocketSend(f, at, k) ==
    /\ stream' = stream \o [i \in 1..k |-> Unit(f, at + i)]
    /\ started' = IF at = 0 /\ k > 0 THEN Append(started, f) ELSE started

MutantOneTooMany(at, k) == at + k + 1
SentSoFar(at, k) == at + k

(* TcpSendFileDataFrame: a block that is not sent whole is kept as unsent, the round ends. *)
TcpSendFileDataFrame(f, at, next) ==
    \E k \in 0..(size[f] - at) :
        /\ SocketSend(f, at, k)
        /\ IF k = size[f] - at THEN unsent' = None /\ sender' = next
           ELSE unsent' = [frame |-> f, at |-> SentSoFar(at, k)] /\ sender' = "start"

(* DFileSessionSendFrame begins with what is left of the last block. *)
SendRemain ==
    /\ sender = "start"
    /\ IF unsent # None THEN TcpSendFileDataFrame(unsent.frame, unsent.at, "ctrl")
       ELSE /\ preNode # None \/ outQueue # <<>> \/ (ready /\ made.data < MaxData)
            /\ sender' = "ctrl" /\ UNCHANGED <<unsent, stream, started>>
    /\ UNCHANGED <<size, outQueue, made, preNode, ready, recvBuf, recvGoal, frames>>

MutantDropsNode(f, at, k) == None
KeptNode(f, at, k) == [frame |-> f, at |-> SentSoFar(at, k)]

(* SendControlFrame: all of what is left, or a part of it and the frame is kept. *)
SendControlFrame(f, at) ==
    \E k \in 0..(size[f] - at) :
        /\ SocketSend(f, at, k)
        /\ IF k = size[f] - at THEN preNode' = None /\ sender' = "ctrl"
           ELSE preNode' = KeptNode(f, at, k) /\ sender' = "start"

SendOutboundFrame ==
    /\ sender = "ctrl"
    /\ IF preNode # None THEN SendControlFrame(preNode.frame, preNode.at) /\ UNCHANGED outQueue
       ELSE IF outQueue # <<>> THEN SendControlFrame(Head(outQueue), 0) /\ outQueue' = Tail(outQueue)
       ELSE sender' = (IF ready THEN "data" ELSE "start") /\ UNCHANGED <<preNode, outQueue, stream, started>>
    /\ UNCHANGED <<size, made, unsent, ready, recvBuf, recvGoal, frames>>

(* DoSendDataFrame: block after block until there is none or one does not go out whole. *)
DoSendDataFrame ==
    /\ sender = "data"
    /\ IF made.data < MaxData
       THEN /\ made' = [made EXCEPT !.data = @ + 1]
            /\ TcpSendFileDataFrame(<<"data", made.data + 1>>, 0, "data")
       ELSE sender' = "start" /\ UNCHANGED <<made, unsent, stream, started>>
    /\ UNCHANGED <<size, outQueue, preNode, ready, recvBuf, recvGoal, frames>>

-----------------------------------------------------------------------------
(* The receiver.  A read that brings less than asked for is continued when  *)
(* the socket is readable again.                                            *)

(* The header says how long the payload is: whether the frame is whole. *)
FrameSize(buf) == size[buf[1].frame]

MutantReadsOn(buf) == Len(buf) + 1
GoalAfterHeader(buf) == FrameSize(buf)

TcpSocketRecv ==
    /\ stream # <<>> /\ Len(recvBuf) < recvGoal
    /\ \E k \in 1..Len(stream) :
        /\ k <= recvGoal - Len(recvBuf)
        /\ recvBuf' = recvBuf \o SubSeq(stream, 1, k)
        /\ stream' = SubSeq(stream, k + 1, Len(stream))
    /\ UNCHANGED <<size, outQueue, made, unsent, preNode, sender, ready, started, recvGoal, frames>>

(* SocketRecvForTcp: with the header there, its length gives what is still to be read. *)
SocketRecvForTcp ==
    /\ Len(recvBuf) = recvGoal /\ recvGoal < GoalAfterHeader(recvBuf)
    /\ recvGoal' = GoalAfterHeader(recvBuf)
    /\ UNCHANGED <<size, outQueue, made, unsent, preNode, sender, ready, stream, started, recvBuf, frames>>

DFileSocketRecvSP ==
    /\ Len(recvBuf) = recvGoal /\ recvGoal = GoalAfterHeader(recvBuf)
    /\ frames' = Append(frames, recvBuf)
    /\ recvBuf' = <<>> /\ recvGoal' = HeadLen
    /\ UNCHANGED <<size, outQueue, made, unsent, preNode, sender, ready, stream, started>>

-----------------------------------------------------------------------------
SendStep == SendRemain \/ SendOutboundFrame \/ DoSendDataFrame
RecvStep == TcpSocketRecv \/ SocketRecvForTcp \/ DFileSocketRecvSP
StreamNext == DFileWriteHandle \/ SettingsCome \/ SendStep \/ RecvStep

StreamSpec == StreamInit /\ [][StreamNext]_stVars

(* Both threads run; the socket, written to again and again, takes something. *)
Writes == SendStep /\ stream' # stream
StreamFairness == WF_stVars(SendStep) /\ SF_stVars(Writes) /\ WF_stVars(RecvStep)
StreamLiveSpec == StreamSpec /\ StreamFairness

-----------------------------------------------------------------------------
(* Every variable keeps its type; at most one frame is partly sent.         *)
StreamTypeOK ==
    /\ outQueue \in Seq(Frame) /\ started \in Seq(Frame)
    /\ made.ctrl \in 0..MaxCtrl /\ made.data \in 0..MaxData
    /\ \A p \in {unsent, preNode} \ {None} : p.at \in 0..(size[p.frame] - 1)
    /\ sender \in {"start", "ctrl", "data"} /\ ready \in BOOLEAN
    /\ Len(recvBuf) <= recvGoal

(* SendDataFrame, SendOutboundFrame, SocketRecvForTcp: what the receiver    *)
(* takes for frames are the frames the sender began, whole and in that      *)
(* order, although each may have been written and read in parts and a       *)
(* control frame may be queued while a block is partly sent.                *)
FramesWhole ==
    /\ Len(frames) <= Len(started)
    /\ \A i \in 1..Len(frames) : frames[i] = Units(started[i])

ToSend(f) == IF f[1] = "ctrl" THEN made.ctrl >= f[2] ELSE ready
Arrived(f) == \E i \in 1..Len(frames) : frames[i] = Units(f)

(* Every frame queued, and every block of a session whose settings have     *)
(* come, reaches the other end.                                             *)
AllArrive == \A f \in Frame : ToSend(f) ~> Arrived(f)

=============================================================================
