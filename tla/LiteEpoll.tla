------------------------------ MODULE LiteEpoll ------------------------------
(***************************************************************************)
(* The event loop that nstackx builds from select() where the kernel has   *)
(* no epoll (platform/liteos/sys_epoll.c), with the timers and the event   *)
(* pipe that are driven by it (sys_timer.c, sys_event.c).                  *)
(*                                                                         *)
(* A set of descriptors is three bit sets and the largest descriptor.  The *)
(* loop thread copies the sets without a lock, calls select() and walks    *)
(* the words of the live set from the lowest bit to the highest.  A task   *)
(* is registered under the set's mutex, by the loop thread (the CoAP       *)
(* sockets, every turn) or by the thread that initialises the library (the *)
(* event pipe, while the loop may already run).  An expired timer is a     *)
(* datagram to the descriptor's own socket.                                *)
(***************************************************************************)
EXTENDS Integers, Sequences, FiniteSets, FiniteSetsExt

CONSTANTS WordBits,     \* TYPE_BITS_NUM(unsigned long), a power of two
          Offset,       \* LWIP_SOCKET_OFFSET
          RecvFd,       \* epollfd.recvFd
          EventFd,      \* the reading end of the event pipe
          CoapFds,      \* descriptors of the CoAP sockets
          Timers,       \* timer objects
          PipeCap,      \* datagrams a loopback socket holds
          MaxPosts,     \* bound on posted events
          MaxArms,      \* bound on the times a timer is armed
          MaxErrors,    \* bound on socket errors
          MaxFails      \* bound on failed allocations and system calls

VARIABLES desc,      \* "none", "open", "failed", "closed": the epoll descriptor
          open,      \* descriptors that are open
          es,        \* the set: readfds, writefds, exceptfds, maxfd, and the
                     \* descriptors that have a task in the event table
          mutex,     \* who holds the set's mutex
          node,      \* the event node: "none", "half", "listed", "gone"
          pipe,      \* events in the event pipe
          runs,      \* EPOLL_CTL_RUN datagrams
          tm,        \* the timers
          kin, kerr, \* descriptors readable, in error
          loop,      \* the loop thread
          missed,    \* ghost: a ready task was passed over by a walk
          lost,      \* ghost: timers whose expiry found the socket full
          stale,     \* ghost: an expiry of a deleted timer was run
          used       \* bounds: posts, arms, errors, fails

NoSets == [rd |-> {}, wr |-> {}, ex |-> {}, maxfd |-> 0, tab |-> {}]
kernel == <<kin, kerr>>
ghosts == <<missed, lost, stale>>
leVars == <<desc, open, es, mutex, node, pipe, runs, tm, kernel, loop, ghosts, used>>

Fds == {RecvFd, EventFd} \union CoapFds
Idle == [pc |-> "off", todo |-> {}, r |-> {}, w |-> {}, x |-> {}, i |-> 0, bits |-> 0, due |-> {}]
Post(k) == used' = [used EXCEPT ![k] = @ + 1]

Init ==
    /\ desc = "none" /\ open = CoapFds
    /\ es = NoSets /\ mutex = "free"
    /\ node = "none" /\ pipe = <<>> /\ runs = <<>>
    /\ tm = [t \in Timers |-> [st |-> "none", rep |-> FALSE, disabled |-> FALSE, fired |-> FALSE]]
    /\ kin = {} /\ kerr = {} /\ loop = Idle
    /\ missed = FALSE /\ lost = {} /\ stale = FALSE
    /\ used = [post |-> 0, arm |-> 0, err |-> 0, fail |-> 0]

-----------------------------------------------------------------------------
(* The words of a bit set and the searches in them.                        *)

Shl(x, b) == (x * 2^b) % 2^WordBits
Shr(x, b) == x \div 2^b

Word(S, i) == SumSet({2^(fd % WordBits) : fd \in {f \in S : f \div WordBits = i}})

RECURSIVE RearSearch(_, _, _, _)
RearSearch(x, bitMov, bitNum, n) ==
    IF bitNum <= 1 THEN n - (x % 2)
    ELSE LET zero == Shl(x, bitMov) = 0
         IN RearSearch(IF zero THEN Shr(x, bitNum) ELSE x, bitMov + (bitNum \div 2),
                       bitNum \div 2, IF zero THEN n + bitNum ELSE n)

MutantTakesHighest(x) == CHOOSE b \in 0 .. WordBits - 1 : 2^b <= x /\ x < 2^(b + 1)
RearZeroBitNum(x) == RearSearch(x, WordBits \div 2, WordBits \div 2, 1)

RECURSIVE PreSearch(_, _, _, _)
PreSearch(x, bitMov, bitNum, n) ==
    IF bitNum <= 1 THEN n - Shr(x, WordBits - 1)
    ELSE LET zero == Shr(x, bitMov) = 0
         IN PreSearch(IF zero THEN Shl(x, bitNum) ELSE x, bitMov + (bitNum \div 2),
                      bitNum \div 2, IF zero THEN n + bitNum ELSE n)
PreZeroBitNum(x) == PreSearch(x, WordBits \div 2, WordBits \div 2, 1)

\* bits &= bits - 1
WithoutLowest(x) == x - 2^(CHOOSE b \in 0 .. WordBits - 1 : x % 2^(b + 1) = 2^b)

\* The largest descriptor of the highest word that is not empty.
MutantLowestBit(S, old) ==
    LET words == {i \in Offset \div WordBits .. old \div WordBits : Word(S, i) # 0}
    IN IF words = {} THEN old ELSE Max(words) * WordBits + RearZeroBitNum(Word(S, Max(words)))
EpollSetMaxFdUpdate(S, old) ==
    LET words == {i \in Offset \div WordBits .. old \div WordBits : Word(S, i) # 0}
    IN IF words = {} THEN old
       ELSE Max(words) * WordBits + (WordBits - 1 - PreZeroBitNum(Word(S, Max(words))))

-----------------------------------------------------------------------------
(* Registration.                                                           *)

\* CtlEpollDescSync works under the mutex of the set.
Unlocked == mutex = "free"

TaskListAdd(tasks, fd) == tasks \union {fd}
TaskListDel(tasks, fd) == tasks \ {fd}
EpollFdEventTaskAdd(s, fd) == [s EXCEPT !.tab = TaskListAdd(@, fd)]
EpollFdEventTaskDel(s, fd) == [s EXCEPT !.tab = TaskListDel(@, fd)]

MutantKeepsMax(s, fd) == s.maxfd
MaxAfterAdd(s, fd) == IF fd > s.maxfd THEN fd ELSE s.maxfd
MaxAfterDel(s, fd) == IF fd = s.maxfd THEN EpollSetMaxFdUpdate(s.ex, s.maxfd) ELSE s.maxfd

\* FD_SET and FD_CLR in the three sets.
SetBits(s, fd, out) ==
    [s EXCEPT !.rd = @ \union {fd}, !.wr = IF out THEN @ \union {fd} ELSE @, !.ex = @ \union {fd}]
ClearBits(s, fd) == [s EXCEPT !.rd = @ \ {fd}, !.wr = @ \ {fd}, !.ex = @ \ {fd}]

\* When the table entry cannot be made the three bits are taken back.
MutantKeepsExcept(s, fd) == [s EXCEPT !.rd = @ \ {fd}, !.wr = @ \ {fd}]
AddRefused(s, fd) == ClearBits(s, fd)
AddRecorded(s, fd) == [EpollFdEventTaskAdd(s, fd) EXCEPT !.maxfd = MaxAfterAdd(s, fd)]

EpollFdEventAdd(s, fd, out) == IF fd \in s.ex THEN s ELSE AddRecorded(SetBits(s, fd, out), fd)

EpollFdEventDel(s, fd) ==
    IF fd \notin s.ex THEN s
    ELSE LET c == EpollFdEventTaskDel(ClearBits(s, fd), fd) IN [c EXCEPT !.maxfd = MaxAfterDel(c, fd)]

\* CloseDesc: a descriptor that is still in a set leaves it before it is closed.
CloseDescEpollHandle(s, fd) == fd \in s.tab
CloseDescClearEpollPtr(s, fd) ==
    IF ~CloseDescEpollHandle(s, fd) THEN s
    ELSE LET c == [ClearBits(s, fd) EXCEPT !.tab = @ \ {fd}] IN [c EXCEPT !.maxfd = MaxAfterDel(c, fd)]

-----------------------------------------------------------------------------
(* The descriptor and the event node, on the initialising thread.          *)

\* GetLoopbackFd: socket, non-blocking, bind and connect, closed on failure.
GetLoopbackFd(fd, ok) == IF ok THEN {fd} ELSE {}
\* Both ends or none.
CreateEpollFdPair(fd, ok) == open \union GetLoopbackFd(fd, ok)

\* A failure after the pair (EpollEventRecordAdd) closes both ends again.
CreateEpollDesc(pair, recorded) ==
    /\ desc = "none"
    /\ (pair /\ recorded) \/ used.fail < MaxFails
    /\ IF pair /\ recorded
       THEN /\ open' = CreateEpollFdPair(RecvFd, TRUE)
            /\ es' = [es EXCEPT !.rd = {RecvFd}, !.ex = {RecvFd}, !.maxfd = RecvFd]
            /\ desc' = "open" /\ UNCHANGED used
       ELSE /\ open' = CreateEpollFdPair(RecvFd, pair) \ {RecvFd}
            /\ desc' = "failed" /\ Post("fail") /\ UNCHANGED es
    /\ UNCHANGED <<mutex, node, pipe, runs, tm, kernel, loop, ghosts>>

\* EventModuleInit up to the bits of the pipe's reading end.
EventModuleInit(ok) ==
    /\ desc = "open" /\ node = "none" /\ Unlocked
    /\ ok \/ used.fail < MaxFails
    /\ IF ok
       THEN /\ open' = CreateEpollFdPair(EventFd, TRUE)
            /\ es' = SetBits(es, EventFd, FALSE)
            /\ mutex' = "user" /\ node' = "half" /\ UNCHANGED used
       ELSE node' = "gone" /\ Post("fail") /\ UNCHANGED <<open, es, mutex>>
    /\ UNCHANGED <<desc, pipe, runs, tm, kernel, loop, ghosts>>

\* The rest of it: the entry and maxfd.  The caller is told nothing when the
\* entry was refused and lists the node all the same.
EventModuleListed(ok) ==
    /\ node = "half"
    /\ ok \/ used.fail < MaxFails
    /\ IF ok THEN es' = AddRecorded(es, EventFd) /\ UNCHANGED used
       ELSE es' = AddRefused(es, EventFd) /\ Post("fail")
    /\ mutex' = "free" /\ node' = "listed"
    /\ UNCHANGED <<desc, open, pipe, runs, tm, kernel, loop, ghosts>>

PostEvent(ev) ==
    /\ node = "listed" /\ desc = "open" /\ used.post < MaxPosts
    /\ Len(pipe) < PipeCap
    /\ pipe' = Append(pipe, ev) /\ kin' = kin \union {EventFd} /\ Post("post")
    /\ UNCHANGED <<desc, open, es, mutex, node, runs, tm, kerr, loop, ghosts>>

\* EventModuleClean and DeleteEventNode, once the loop has ended.
DeleteEventNode ==
    /\ node = "listed" /\ loop.pc = "ended"
    /\ es' = CloseDescClearEpollPtr(EpollFdEventDel(es, EventFd), EventFd)
    /\ open' = open \ {EventFd} /\ kin' = kin \ {EventFd} /\ pipe' = <<>> /\ node' = "gone"
    /\ UNCHANGED <<desc, mutex, runs, tm, kerr, loop, ghosts, used>>

\* ClearEvent: the events that are left are run on the caller's thread.
ClearEvent ==
    /\ node = "listed" /\ loop.pc = "ended" /\ pipe # <<>>
    /\ pipe' = <<>> /\ kin' = kin \ {EventFd}
    /\ UNCHANGED <<desc, open, es, mutex, node, runs, tm, kerr, loop, ghosts, used>>

MutantLeavesOpen == open
OpenAfterClose == open \ {RecvFd}
EpollEventCleanup == es' = NoSets
CloseEpollDescInner ==
    /\ desc = "open" /\ loop.pc \in {"off", "ended"} /\ node \in {"none", "gone"}
    /\ EpollEventCleanup
    /\ open' = OpenAfterClose /\ runs' = <<>> /\ kin' = kin \ {RecvFd} /\ desc' = "closed"
    /\ UNCHANGED <<mutex, node, pipe, tm, kerr, loop, ghosts, used>>

-----------------------------------------------------------------------------
(* Timers.                                                                 *)

MutantStaysDisabled(t, repeated) ==
    tm' = [tm EXCEPT ![t] = [@ EXCEPT !.st = "armed", !.rep = repeated, !.fired = FALSE]]
Arm(t, repeated) ==
    tm' = [tm EXCEPT ![t] = [st |-> "armed", rep |-> repeated, disabled |-> FALSE, fired |-> FALSE]]

TimerStart(t, repeated) ==
    /\ desc = "open" /\ tm[t].st = "none" /\ used.arm < MaxArms /\ loop.pc # "ended"
    /\ Arm(t, repeated) /\ Post("arm")
    /\ UNCHANGED <<desc, open, es, mutex, node, pipe, runs, kernel, loop, ghosts>>

TimerSetTimeout(t, repeated) ==
    /\ tm[t].st \in {"armed", "idle", "stopped"} /\ used.arm < MaxArms /\ loop.pc # "ended"
    /\ Arm(t, repeated) /\ Post("arm")
    /\ UNCHANGED <<desc, open, es, mutex, node, pipe, runs, kernel, loop, ghosts>>

\* A datagram to the descriptor's own socket; a full socket loses it.
RunEpollTask(t) ==
    IF Len(runs) < PipeCap
    THEN runs' = Append(runs, t) /\ kin' = kin \union {RecvFd} /\ lost' = lost
    ELSE lost' = lost \union {t} /\ UNCHANGED <<runs, kin>>

\* TimerTimeoutHandle, on a thread of the system.
TimerTimeoutHandle(t) ==
    /\ tm[t].st = "armed" /\ desc = "open"
    /\ tm' = [tm EXCEPT ![t].st = IF tm[t].rep THEN "armed" ELSE "idle"]
    /\ RunEpollTask(t)
    /\ UNCHANGED <<desc, open, es, mutex, node, pipe, kerr, loop, missed, stale, used>>

\* TimerReadHandle for every datagram that is waiting; a disabled timer is
\* passed over.
MutantRunsDisabled(t) == tm[t].st # "freed"
Fires(t) == tm[t].st # "freed" /\ ~tm[t].disabled
EpollFdEventRun ==
    [t \in Timers |-> IF (\E k \in DOMAIN runs : runs[k] = t) /\ Fires(t) THEN [tm[t] EXCEPT !.fired = TRUE] ELSE tm[t]]

-----------------------------------------------------------------------------
(* The loop thread.                                                        *)

Goto(pc) == loop' = [loop EXCEPT !.pc = pc]

StartLoop ==
    /\ desc = "open" /\ loop.pc = "off"
    /\ loop' = [Idle EXCEPT !.pc = "top", !.todo = CoapFds \intersect open]
    /\ UNCHANGED <<desc, open, es, mutex, node, pipe, runs, tm, kernel, ghosts, used>>

Terminate ==
    /\ loop.pc = "top"
    /\ loop' = [Idle EXCEPT !.pc = "ended"]
    /\ UNCHANGED <<desc, open, es, mutex, node, pipe, runs, tm, kernel, ghosts, used>>

\* The sockets that are open are registered before every round.
RegisterEpollTask(fd, out) ==
    /\ loop.pc = "top" /\ fd \in loop.todo /\ Unlocked
    /\ es' = EpollFdEventAdd(es, fd, out)
    /\ loop' = [loop EXCEPT !.todo = @ \ {fd}]
    /\ UNCHANGED <<desc, open, mutex, node, pipe, runs, tm, kernel, ghosts, used>>

\* The sets are copied one after the other, without the mutex.
CopyRead ==
    /\ loop.pc = "top" /\ loop.todo = {}
    /\ loop' = [loop EXCEPT !.pc = "copy", !.r = es.rd]
    /\ UNCHANGED <<desc, open, es, mutex, node, pipe, runs, tm, kernel, ghosts, used>>
CopyRest ==
    /\ loop.pc = "copy"
    /\ loop' = [loop EXCEPT !.pc = "select", !.w = es.wr, !.x = es.ex]
    /\ UNCHANGED <<desc, open, es, mutex, node, pipe, runs, tm, kernel, ghosts, used>>

Below(S) == {fd \in S : fd <= es.maxfd}
Selected == [r |-> Below(loop.r) \intersect kin, w |-> Below(loop.w) \intersect CoapFds,
             x |-> Below(loop.x) \intersect kerr]

\* select returns with something ready, or after the timeout with nothing.
EpollLoop ==
    /\ loop.pc = "select"
    /\ IF Selected.r \union Selected.w \union Selected.x = {}
       THEN loop' = [loop EXCEPT !.pc = "end", !.r = {}, !.w = {}, !.x = {}]
       ELSE loop' = [loop EXCEPT !.pc = "walk", !.r = Selected.r, !.w = Selected.w, !.x = Selected.x,
                                 !.i = Offset \div WordBits - 1]
    /\ UNCHANGED <<desc, open, es, mutex, node, pipe, runs, tm, kernel, ghosts, used>>

HasTask(fd) == fd \in es.tab
Ready(fd) == fd \in loop.r \union loop.w \union loop.x

\* EpollSetTraverse: the bits of the next word are those of the live set.
NextWord ==
    /\ loop.pc = "walk" /\ loop.bits = 0
    /\ missed' = (missed \/ loop.due \intersect es.tab # {})
    /\ IF loop.i + 1 <= es.maxfd \div WordBits
       THEN loop' = [loop EXCEPT !.i = @ + 1, !.bits = Word(es.ex, loop.i + 1),
                                 !.due = {fd \in es.tab : fd \div WordBits = loop.i + 1 /\ Ready(fd)}]
       ELSE loop' = [loop EXCEPT !.pc = "end", !.r = {}, !.w = {}, !.x = {}, !.due = {}, !.i = 0]
    /\ UNCHANGED <<desc, open, es, mutex, node, pipe, runs, tm, kernel, lost, stale, used>>

Fd == loop.i * WordBits + RearZeroBitNum(loop.bits)
Visited == loop' = [loop EXCEPT !.bits = WithoutLowest(@), !.due = @ \ {Fd}]

\* A descriptor whose task is gone or that has no event is passed over.
NothingToDo ==
    /\ loop.pc = "walk" /\ loop.bits # 0
    /\ Fd # RecvFd => (~HasTask(Fd) \/ ~Ready(Fd))
    /\ Fd = RecvFd => RecvFd \notin loop.r
    /\ Visited
    /\ UNCHANGED <<desc, open, es, mutex, node, pipe, runs, tm, kernel, ghosts, used>>

\* EpollFdEventHandle: all RUN datagrams that are waiting.
EpollFdEventHandle ==
    /\ loop.pc = "walk" /\ loop.bits # 0 /\ Fd = RecvFd /\ RecvFd \in loop.r
    /\ tm' = EpollFdEventRun
    /\ stale' = (stale \/ \E k \in DOMAIN runs : tm[runs[k]].st = "freed")
    /\ runs' = <<>> /\ kin' = kin \ {RecvFd}
    /\ Visited
    /\ UNCHANGED <<desc, open, es, mutex, node, pipe, kerr, missed, lost, used>>

\* What an event does on the loop thread: nothing to the timers, stop one
\* (TimerSetTimeout with 0), delete one, or open a socket that was closed.
EventEffect(ev) ==
    /\ tm' = CASE ev[1] = "stop" /\ tm[ev[2]].st \notin {"none", "freed"} ->
                     [tm EXCEPT ![ev[2]] = [@ EXCEPT !.st = "stopped", !.disabled = TRUE]]
               [] ev[1] = "delete" /\ tm[ev[2]].st # "none" -> [tm EXCEPT ![ev[2]].st = "freed"]
               [] OTHER -> tm
    /\ open' = IF ev[1] = "open" THEN open \union CoapFds ELSE open

\* EventProcessHandle: one event of the pipe.
EventProcessHandle ==
    /\ loop.pc = "walk" /\ loop.bits # 0 /\ Fd = EventFd /\ HasTask(Fd) /\ Fd \in loop.r
    /\ pipe # <<>>
    /\ EventEffect(pipe[1])
    /\ pipe' = Tail(pipe) /\ kin' = IF Len(pipe) = 1 THEN kin \ {EventFd} ELSE kin
    /\ Visited
    /\ UNCHANGED <<desc, es, mutex, node, runs, kerr, ghosts, used>>

\* EpollTaskEventHandle for a socket: an error deregisters and closes it, and
\* otherwise it is read and written.
SocketError ==
    /\ loop.pc = "walk" /\ loop.bits # 0 /\ Fd \in CoapFds /\ HasTask(Fd) /\ Fd \in loop.x /\ Unlocked
    /\ es' = CloseDescClearEpollPtr(EpollFdEventDel(es, Fd), Fd)
    /\ open' = open \ {Fd} /\ kin' = kin \ {Fd} /\ kerr' = kerr \ {Fd}
    /\ Visited
    /\ UNCHANGED <<desc, mutex, node, pipe, runs, tm, ghosts, used>>
EpollTaskEventHandle ==
    /\ loop.pc = "walk" /\ loop.bits # 0 /\ Fd \in CoapFds /\ HasTask(Fd) /\ Fd \notin loop.x /\ Ready(Fd)
    /\ kin' = IF Fd \in loop.r THEN kin \ {Fd} ELSE kin
    /\ Visited
    /\ UNCHANGED <<desc, open, es, mutex, node, pipe, runs, tm, kerr, ghosts, used>>

\* After the round the sockets are deregistered.
DeRegisterEpollTask ==
    /\ loop.pc = "end" /\ CoapFds \intersect es.ex # {} /\ Unlocked
    /\ es' = EpollFdEventDel(es, Min(CoapFds \intersect es.ex))
    /\ UNCHANGED <<desc, open, mutex, node, pipe, runs, tm, kernel, loop, ghosts, used>>
RoundEnds ==
    /\ loop.pc = "end" /\ CoapFds \intersect es.ex = {}
    /\ loop' = [Idle EXCEPT !.pc = "top", !.todo = CoapFds \intersect open]
    /\ UNCHANGED <<desc, open, es, mutex, node, pipe, runs, tm, kernel, ghosts, used>>

\* The network: a datagram, or an error of a socket.
Arrives(fd) ==
    /\ fd \in CoapFds \intersect open /\ loop.pc = "select" /\ used.post < MaxPosts
    /\ kin' = kin \union {fd} /\ Post("post")
    /\ UNCHANGED <<desc, open, es, mutex, node, pipe, runs, tm, kerr, loop, ghosts>>
Fails(fd) ==
    /\ fd \in CoapFds \intersect open /\ used.err < MaxErrors /\ loop.pc = "select"
    /\ kerr' = kerr \union {fd} /\ Post("err")
    /\ UNCHANGED <<desc, open, es, mutex, node, pipe, runs, tm, kin, loop, ghosts>>

Event == ({"stop", "delete"} \X Timers) \union {<<"open", 0>>}

User ==
    \/ \E a, b \in BOOLEAN : CreateEpollDesc(a, b)
    \/ \E ok \in BOOLEAN : EventModuleInit(ok) \/ EventModuleListed(ok)
    \/ \E ev \in Event : PostEvent(ev)
    \/ \E t \in Timers, rep \in BOOLEAN : TimerStart(t, rep) \/ TimerSetTimeout(t, rep)
    \/ DeleteEventNode \/ ClearEvent \/ CloseEpollDescInner \/ StartLoop
World == \/ \E t \in Timers : TimerTimeoutHandle(t)
         \/ \E fd \in CoapFds : Arrives(fd) \/ Fails(fd)
Loop ==
    \/ \E fd \in CoapFds, out \in BOOLEAN : RegisterEpollTask(fd, out)
    \/ CopyRead \/ CopyRest \/ EpollLoop \/ NextWord \/ NothingToDo
    \/ EpollFdEventHandle \/ EventProcessHandle \/ SocketError \/ EpollTaskEventHandle
    \/ DeRegisterEpollTask \/ RoundEnds
Next == User \/ World \/ Loop \/ Terminate
Spec == Init /\ [][Next]_leVars

\* The loop thread runs, expirations come and a half-made registration goes on.
Fairness ==
    /\ WF_leVars(Loop)
    /\ \A t \in Timers : WF_leVars(TimerTimeoutHandle(t))
    /\ WF_leVars(EventModuleListed(TRUE))
LiveSpec == Spec /\ Fairness

-----------------------------------------------------------------------------
EpollTypeOK ==
    /\ es.rd \union es.wr \union es.ex \union es.tab \subseteq Fds /\ open \subseteq Fds
    /\ es.maxfd \in Fds \union {0} /\ mutex \in {"free", "user"}
    /\ Len(pipe) <= PipeCap /\ Len(runs) <= PipeCap
    /\ loop.bits \in 0 .. 2^WordBits - 1

\* Outside a registration the three sets, the table and the open descriptors
\* agree: what select watches has a task and is open (sys_epoll.c 538-652,
\* 946-986), also after a refused registration.
SetsMatchTable ==
    mutex = "free" =>
        /\ es.rd \union es.wr \subseteq es.ex
        /\ es.ex \ {RecvFd} = es.tab
        /\ es.ex \subseteq open

\* maxfd is the largest watched descriptor, so select sees every one and the
\* walk reaches every word (EpollSetMaxFdUpdate, PreZeroBitNum).
MaxFdCovers == (mutex = "free" /\ desc = "open") => es.maxfd = Max(es.ex)

\* A walk passes over no task that was ready and still registered
\* (EpollSetTraverse, RearZeroBitNum), whatever the handlers before it did.
NoneMissed == ~missed

\* A descriptor that was closed, or never completely made, leaves no
\* descriptor open (CreateEpollDesc, CloseEpollDescInner).
DescClosed == desc \in {"failed", "closed"} => RecvFd \notin open

StaysSilent ==
    \A t \in Timers : (tm[t].st = "stopped" /\ tm'[t].st = "stopped") => tm'[t].fired = tm[t].fired

\* The handler of a timer runs only after an expiry of a timer that was not
\* stopped since (TimerReadHandle tests `disabled` when the datagram is read).
StoppedSilent == [][StaysSilent]_leVars

LoopOver == loop.pc \in {"off", "ended"}
HasInput(fd) == fd \in kin /\ fd \in es.tab \union {RecvFd}
Expects(t) == tm[t].st = "armed"
FiredOrNot(t) == \/ tm[t].fired \/ tm[t].st \in {"stopped", "freed"}
                 \/ t \in lost \/ LoopOver \/ desc # "open"

\* A registered descriptor that is ready is dealt with, although the loop may
\* have been in select when it was registered (EpollLoop has a timeout).
ReadyHandled == \A fd \in Fds : HasInput(fd) ~> (~HasInput(fd) \/ LoopOver)

\* An armed timer fires unless it is stopped, deleted or its expiry found the
\* socket full, as long as the loop runs.
TimerFires == \A t \in Timers : Expects(t) ~> FiredOrNot(t)
=============================================================================
