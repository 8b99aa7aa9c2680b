------------------------------- MODULE Looper -------------------------------
(***************************************************************************)
(* core/common/message_handler/message_handler.c: loopers, the threads     *)
(* that deliver messages in the order of their times, and how they are     *)
(* created, posted to and destroyed.                                       *)
(*                                                                         *)
(* The code between a lock and the matching unlock of context->lock is one *)
(* step.  A wait on a condition is a place (pc) that only a broadcast, or  *)
(* for a timed wait the clock, leaves.  The thread that starts the server  *)
(* is Main; Default is the looper it makes first and keeps in g_loopConfig;*)
(* any other looper (the BLE connection makes one) is in no table.         *)
(***************************************************************************)
EXTENDS Integers, Sequences, SequencesExt

CONSTANTS
    Loopers,   \* the loopers that may be created
    Default,   \* the one LooperInit creates
    Threads,   \* threads other than the loopers' own that post
    PostedTo,  \* the loopers they post to
    Main,      \* the thread that runs InitSoftBusServer
    NULL,
    Delays,    \* delays of PostMessageDelay; 0 is PostMessage
    What,      \* values of msg->what
    MaxMsg,    \* bound: messages posted
    MaxClock,  \* bound: the clock, and the time of every message
    MaxSetBack \* bound: how often the wall clock is set back

VARIABLES
    context,            \* SoftBusLooperContext of each looper
    task,               \* where the thread of each looper is in LoopTask
    posting,            \* the message a thread has timed and not yet inserted
    destroyer,          \* where a thread is in LooperDeinit and DestroyLooper
    main,               \* how far InitSoftBusServer has come
    g_loopConfig,       \* the looper of LOOP_TYPE_DEFAULT
    g_isThreadStarted,
    g_isNeedDestroy,
    posted,             \* messages posted so far
    clock,              \* what gettimeofday returns
    setBacks            \* how often it was set back

vars == <<context, task, posting, destroyer, main, g_loopConfig, g_isThreadStarted,
          g_isNeedDestroy, posted, clock, setBacks>>

Posters == Threads \cup Loopers

Message == [id : 1 .. MaxMsg, by : Posters, to : Loopers, what : What, delay : Delays,
            time : 0 .. MaxClock]

SoftBusLooperContext ==
    [mem : {"none", "live", "freed"}, stop : BOOLEAN, running : BOOLEAN,
     msgs : Seq(Message), msgSize : 0 .. MaxMsg, currentMsg : Message \cup {NULL}]

NoContext == [mem |-> "none", stop |-> FALSE, running |-> FALSE, msgs |-> <<>>,
              msgSize |-> 0, currentMsg |-> NULL]

Init ==
    /\ context = [l \in Loopers |-> NoContext]
    /\ task = [l \in Loopers |-> [pc |-> "none", until |-> 0]]
    /\ posting = [p \in Posters |-> NULL]
    /\ destroyer = [t \in Loopers \cup {Main} |-> "none"]
    /\ main = "start"
    /\ g_loopConfig = NULL
    /\ g_isThreadStarted = FALSE /\ g_isNeedDestroy = FALSE
    /\ posted = 0 /\ clock = 0 /\ setBacks = 0

At(l, pc) == task[l].pc = pc
Goto(l, pc) == task' = [task EXCEPT ![l].pc = pc]

\* pthread_cond_broadcast(&context->cond): every thread waiting on it goes on.
Broadcast(l) ==
    task' = IF At(l, "wait") \/ At(l, "timedwait")
            THEN [task EXCEPT ![l].pc = "loop"] ELSE task

-----------------------------------------------------------------------------
(* The thread of a looper. *)

\* LoopTask up to its loop.
LoopTaskStart(l) ==
    /\ At(l, "created")
    /\ context' = [context EXCEPT ![l].running = TRUE]
    /\ g_isThreadStarted' = TRUE
    /\ Goto(l, "loop")
    /\ UNCHANGED <<posting, destroyer, main, g_loopConfig, g_isNeedDestroy, posted, clock,
                   setBacks>>

\* The locked part of one round of the loop: leave it, wait, or take the head.
LoopRound(l) ==
    LET c == context[l]
        m == Head(c.msgs)
    IN /\ At(l, "loop")
       /\ \/ /\ c.stop \/ g_isNeedDestroy
             /\ Goto(l, "exit") /\ UNCHANGED context
          \/ /\ ~c.stop /\ ~g_isNeedDestroy /\ c.msgs = <<>>
             /\ Goto(l, "wait") /\ UNCHANGED context
          \/ /\ ~c.stop /\ ~g_isNeedDestroy /\ c.msgs # <<>> /\ clock < m.time
             /\ task' = [task EXCEPT ![l] = [pc |-> "timedwait", until |-> m.time]]
             /\ UNCHANGED context
          \/ /\ ~c.stop /\ ~g_isNeedDestroy /\ c.msgs # <<>> /\ clock >= m.time
             /\ context' = [context EXCEPT ![l].msgs = Tail(@), ![l].msgSize = @ - 1,
                                           ![l].currentMsg = m]
             /\ Goto(l, "handle")
       /\ UNCHANGED <<posting, destroyer, main, g_loopConfig, g_isThreadStarted,
                      g_isNeedDestroy, posted, clock, setBacks>>

\* pthread_cond_timedwait returns because its time has come.
TimedWaitEnds(l) ==
    /\ At(l, "timedwait") /\ clock >= task[l].until
    /\ Goto(l, "loop")
    /\ UNCHANGED <<context, posting, destroyer, main, g_loopConfig, g_isThreadStarted,
                   g_isNeedDestroy, posted, clock, setBacks>>

\* HandleMessage returns (what it posted is Post by the looper itself), and the
\* message is freed.
HandleMessageReturns(l) ==
    /\ At(l, "handle") /\ posting[l] = NULL
    /\ context' = [context EXCEPT ![l].currentMsg = NULL]
    /\ Goto(l, "loop")
    /\ UNCHANGED <<posting, destroyer, main, g_loopConfig, g_isThreadStarted,
                   g_isNeedDestroy, posted, clock, setBacks>>

\* A thread waiting on condRunning goes on.
BroadcastRunning(l) ==
    [t \in Loopers \cup {Main} |->
       IF destroyer[t] = "joinwait" /\ l = Default THEN "join" ELSE destroyer[t]]

\* Mutant: condRunning is not broadcast.
MutantSilentExit(l) ==
    /\ At(l, "exit")
    /\ context' = [context EXCEPT ![l].running = FALSE]
    /\ destroyer' = [destroyer EXCEPT ![l] = IF g_isNeedDestroy THEN "check" ELSE "none"]
    /\ Goto(l, "done")
    /\ UNCHANGED <<posting, main, g_loopConfig, g_isThreadStarted, g_isNeedDestroy,
                   posted, clock, setBacks>>

\* LoopTask after its loop: it no longer runs, and deinits for LooperDeinit if
\* that came before the thread had started.
LoopTaskEnd(l) ==
    /\ At(l, "exit")
    /\ context' = [context EXCEPT ![l].running = FALSE]
    /\ destroyer' = [BroadcastRunning(l) EXCEPT ![l] = IF g_isNeedDestroy THEN "check"
                                                       ELSE "none"]
    /\ Goto(l, "done")
    /\ UNCHANGED <<posting, main, g_loopConfig, g_isThreadStarted, g_isNeedDestroy,
                   posted, clock, setBacks>>

-----------------------------------------------------------------------------
(* Posting and removing. *)

\* Modules post while the server is up; a message handler posts while it runs.
MayPost(p) ==
    /\ posting[p] = NULL
    /\ IF p \in Loopers THEN At(p, "handle") ELSE main = "up"

\* LooperPostMessage, LooperPostMessageDelay: the time is read without the lock.
ReadTime(p, l, w, d) ==
    /\ MayPost(p) /\ context[l].mem = "live"
    /\ p \in Loopers => p = l
    /\ posted < MaxMsg /\ clock + d <= MaxClock
    /\ posted' = posted + 1
    /\ posting' = [posting EXCEPT ![p] = [id |-> posted + 1, by |-> p, to |-> l, what |-> w,
                                          delay |-> d, time |-> clock + d]]
    /\ UNCHANGED <<context, task, destroyer, main, g_loopConfig, g_isThreadStarted,
                   g_isNeedDestroy, clock, setBacks>>

\* Mutants: before the first message of the same time, and always at the end.
MutantBeforeEqual(msgs, m) ==
    LET later == {i \in 1 .. Len(msgs) : msgs[i].time >= m.time}
    IN IF later = {} THEN Append(msgs, m)
       ELSE InsertAt(msgs, CHOOSE i \in later : \A j \in later : i <= j, m)
MutantAtEnd(msgs, m) == Append(msgs, m)

\* The list walk of PostMessageAtTime: before the first message of a later time.
InsertByTime(msgs, m) ==
    LET later == {i \in 1 .. Len(msgs) : msgs[i].time > m.time}
    IN IF later = {} THEN Append(msgs, m)
       ELSE InsertAt(msgs, CHOOSE i \in later : \A j \in later : i <= j, m)

\* Mutant: the looper is not woken.
MutantNoBroadcast(p) ==
    LET m == posting[p]
    IN /\ m # NULL
       /\ context' = [context EXCEPT ![m.to].msgs = InsertByTime(@, m),
                                     ![m.to].msgSize = @ + 1]
       /\ posting' = [posting EXCEPT ![p] = NULL]
       /\ UNCHANGED <<task, destroyer, main, g_loopConfig, g_isThreadStarted,
                      g_isNeedDestroy, posted, clock, setBacks>>

\* The locked part of PostMessageAtTime; a stopped looper drops the message.
PostMessageAtTime(p) ==
    LET m == posting[p]
    IN /\ m # NULL
       /\ \/ /\ context[m.to].stop
             /\ UNCHANGED <<context, task>>
          \/ /\ ~context[m.to].stop
             /\ context' = [context EXCEPT ![m.to].msgs = InsertByTime(@, m),
                                           ![m.to].msgSize = @ + 1]
             /\ Broadcast(m.to)
       /\ posting' = [posting EXCEPT ![p] = NULL]
       /\ UNCHANGED <<destroyer, main, g_loopConfig, g_isThreadStarted, g_isNeedDestroy,
                      posted, clock, setBacks>>

\* LooperRemoveMessage; it does nothing to a looper whose thread has not started.
LoopRemoveMessageCustom(p, l, w) ==
    LET kept == SelectSeq(context[l].msgs, LAMBDA m : m.what # w)
    IN /\ MayPost(p) /\ context[l].mem = "live"
       /\ p \in Loopers => p = l
       /\ context[l].running /\ ~context[l].stop
       /\ kept # context[l].msgs
       /\ context' = [context EXCEPT
                        ![l].msgs = kept,
                        ![l].msgSize = @ - (Len(context[l].msgs) - Len(kept))]
       /\ UNCHANGED <<task, posting, destroyer, main, g_loopConfig, g_isThreadStarted,
                      g_isNeedDestroy, posted, clock, setBacks>>

-----------------------------------------------------------------------------
(* Creating and destroying. *)

\* CreateNewLooper: the thread is created, and may start at any later time.
CreateNewLooper(l) ==
    /\ context[l].mem = "none"
    /\ context' = [context EXCEPT ![l].mem = "live"]
    /\ Goto(l, "created")

\* CreateNewLooper for the default looper, SetLooper.
LooperInit ==
    /\ main = "start"
    /\ CreateNewLooper(Default)
    /\ g_loopConfig' = Default
    /\ main' = "up"
    /\ UNCHANGED <<posting, destroyer, g_isThreadStarted, g_isNeedDestroy, posted, clock,
                   setBacks>>

\* Mutant: the new looper takes the place of the default one.
MutantReplacesDefault(l) ==
    /\ main = "up" /\ l # Default
    /\ CreateNewLooper(l)
    /\ g_loopConfig' = l
    /\ UNCHANGED <<posting, destroyer, main, g_isThreadStarted, g_isNeedDestroy, posted,
                   clock, setBacks>>

\* A module makes a looper of its own, as BleConnLooperInit does.
CreateOwnLooper(l) ==
    /\ main = "up" /\ l # Default
    /\ CreateNewLooper(l)
    /\ UNCHANGED <<posting, destroyer, main, g_loopConfig, g_isThreadStarted,
                   g_isNeedDestroy, posted, clock, setBacks>>

\* ServerModuleDeinit: the modules have been deinitialised and post no more
\* when it reaches LooperDeinit.
ServerModuleDeinit ==
    /\ main = "up" /\ \A p \in Threads : posting[p] = NULL
    /\ main' = "deinit"
    /\ destroyer' = [destroyer EXCEPT ![Main] = "check"]
    /\ UNCHANGED <<context, task, posting, g_loopConfig, g_isThreadStarted,
                   g_isNeedDestroy, posted, clock, setBacks>>

\* Mutant: LooperDeinit does not ask whether the thread has started.
MutantNoStartedTest(t) ==
    /\ destroyer[t] = "check"
    /\ destroyer' = [destroyer EXCEPT ![t] = IF g_loopConfig = NULL THEN "none" ELSE "stop"]
    /\ UNCHANGED <<context, task, posting, main, g_loopConfig, g_isThreadStarted,
                   g_isNeedDestroy, posted, clock, setBacks>>

\* LooperDeinit: if no thread has started, the looper's own is left to do it.
LooperDeinit(t) ==
    /\ destroyer[t] = "check"
    /\ \/ /\ g_loopConfig = NULL
          /\ destroyer' = [destroyer EXCEPT ![t] = "none"] /\ UNCHANGED g_isNeedDestroy
       \/ /\ g_loopConfig # NULL /\ ~g_isThreadStarted
          /\ g_isNeedDestroy' = TRUE
          /\ destroyer' = [destroyer EXCEPT ![t] = "none"]
       \/ /\ g_loopConfig # NULL /\ g_isThreadStarted
          /\ destroyer' = [destroyer EXCEPT ![t] = "stop"] /\ UNCHANGED g_isNeedDestroy
    /\ UNCHANGED <<context, task, posting, main, g_loopConfig, g_isThreadStarted,
                   posted, clock, setBacks>>

\* DestroyLooper has read the default looper from g_loopConfig.  It sets stop
\* and wakes the looper.  A freed context keeps its last values.
DestroyLooperStop(t) ==
    /\ destroyer[t] = "stop"
    /\ context' = [context EXCEPT ![Default].stop = TRUE]
    /\ Broadcast(Default)
    /\ destroyer' = [destroyer EXCEPT ![t] = "join"]
    /\ UNCHANGED <<posting, main, g_loopConfig, g_isThreadStarted, g_isNeedDestroy,
                   posted, clock, setBacks>>

\* DestroyLooper looks at running, and waits on condRunning while it is 1.
DestroyLooperJoin(t) ==
    /\ destroyer[t] = "join"
    /\ destroyer' = [destroyer EXCEPT ![t] = IF context[Default].running
                                             THEN "joinwait" ELSE "free"]
    /\ UNCHANGED <<context, task, posting, main, g_loopConfig, g_isThreadStarted,
                   g_isNeedDestroy, posted, clock, setBacks>>

\* DestroyLooper frees the messages, the context and the entry of g_loopConfig.
DestroyLooperFree(t) ==
    /\ destroyer[t] = "free"
    /\ context' = [context EXCEPT ![Default].mem = "freed",
                                  ![Default].msgs = <<>>, ![Default].msgSize = 0]
    /\ g_loopConfig' = NULL
    /\ destroyer' = [destroyer EXCEPT ![t] = "none"]
    /\ UNCHANGED <<task, posting, main, g_isThreadStarted, g_isNeedDestroy, posted, clock,
                   setBacks>>

\* gettimeofday moves on; the clock of the system may also be set back.
ClockTick ==
    /\ clock < MaxClock
    /\ clock' = clock + 1
    /\ UNCHANGED <<context, task, posting, destroyer, main, g_loopConfig,
                   g_isThreadStarted, g_isNeedDestroy, posted, setBacks>>

ClockSetBack ==
    /\ setBacks < MaxSetBack /\ clock > 0
    /\ setBacks' = setBacks + 1
    /\ clock' = clock - 1
    /\ UNCHANGED <<context, task, posting, destroyer, main, g_loopConfig,
                   g_isThreadStarted, g_isNeedDestroy, posted>>

-----------------------------------------------------------------------------
LoopTask(l) == \/ LoopTaskStart(l) \/ LoopRound(l) \/ TimedWaitEnds(l)
               \/ HandleMessageReturns(l) \/ LoopTaskEnd(l)

Deinit(t) == \/ LooperDeinit(t) \/ DestroyLooperStop(t) \/ DestroyLooperJoin(t)
             \/ DestroyLooperFree(t)

Next ==
    \/ \E l \in Loopers : LoopTask(l) \/ CreateOwnLooper(l)
    \/ \E p \in Posters : \/ PostMessageAtTime(p)
                          \/ \E l \in PostedTo, w \in What :
                               \/ \E d \in Delays : ReadTime(p, l, w, d)
                               \/ LoopRemoveMessageCustom(p, l, w)
    \/ \E t \in Loopers \cup {Main} : Deinit(t)
    \/ LooperInit \/ ServerModuleDeinit \/ ClockTick \/ ClockSetBack

Spec == Init /\ [][Next]_vars

\* Threads that can run do run, handlers return, and time passes.
FairSpec ==
    /\ Spec
    /\ \A l \in Loopers : WF_vars(LoopTask(l))
    /\ \A p \in Posters : WF_vars(PostMessageAtTime(p))
    /\ \A t \in Loopers \cup {Main} : WF_vars(Deinit(t))
    /\ WF_vars(ClockTick)

\* Only the runs without liveness use it: the threads are alike.
ThreadSymmetry == Permutations(Threads)

-----------------------------------------------------------------------------
(* Properties. *)

TypeOK ==
    /\ context \in [Loopers -> SoftBusLooperContext]
    /\ task \in [Loopers -> [pc : {"none", "created", "loop", "wait", "timedwait", "handle",
                                   "exit", "done"}, until : 0 .. MaxClock]]
    /\ posting \in [Posters -> Message \cup {NULL}]
    /\ destroyer \in [Loopers \cup {Main} -> {"none", "check", "stop", "join", "joinwait",
                                              "free"}]
    /\ main \in {"start", "up", "deinit"}
    /\ g_loopConfig \in {NULL, Default}
    /\ g_isThreadStarted \in BOOLEAN /\ g_isNeedDestroy \in BOOLEAN
    /\ posted \in 0 .. MaxMsg /\ clock \in 0 .. MaxClock /\ setBacks \in 0 .. MaxSetBack

\* The list of a looper is in the order of the times, and msgSize is its length,
\* whatever threads insert and remove, even when the clock is set back.
MsgListSorted ==
    \A l \in Loopers :
      /\ context[l].msgSize = Len(context[l].msgs)
      /\ \A i, j \in 1 .. Len(context[l].msgs) :
           i < j => context[l].msgs[i].time <= context[l].msgs[j].time

\* While the clock only moves on, the messages a thread posts without delay are
\* handled in the order it posted them, whoever else posts in between: what the
\* handlers of the net builder and of the time synchronisation rely on.
PostedInOrder ==
    setBacks = 0 => \A l \in Loopers :
      LET all == (IF context[l].currentMsg = NULL THEN <<>> ELSE <<context[l].currentMsg>>)
                 \o context[l].msgs
      IN \A i, j \in 1 .. Len(all) :
           /\ i < j /\ all[i].by = all[j].by /\ all[i].delay = 0 /\ all[j].delay = 0
           => all[i].id < all[j].id

\* As long as the default looper is the only one, its thread never finds its
\* context freed, before its loop, in it or inside a handler: LooperDeinit may
\* come before, while or after the thread starts.
ContextNotUsedAfterFree ==
    /\ context[Default].mem = "freed"
    /\ \A l \in Loopers \ {Default} : context[l].mem = "none"
    => At(Default, "done") /\ context[Default].currentMsg = NULL

InList(l, k) == \E i \in 1 .. Len(context[l].msgs) : context[l].msgs[i].id = k

\* A message in the list of a looper is handled, removed or freed in the end: no
\* broadcast is lost and no timed wait lasts for ever.
MessageLeavesList ==
    \A l \in Loopers, k \in 1 .. MaxMsg :
      InList(l, k) ~> ~InList(l, k)

DeinitCalled == main = "deinit"
Freed == context[Default].mem = "freed"

\* LooperDeinit ends with the default looper freed, also when it came before the
\* looper's thread had started and left the work to it.
DeinitFrees == DeinitCalled ~> Freed

=============================================================================
