----------------------------- MODULE ThreadPool ------------------------------
(***************************************************************************)
(* The thread pool of core/connection/common/src/softbus_thread_pool.c: a  *)
(* linked list of jobs under the pool's mutex, workers that take its head, *)
(* put a PERSISTENT job back at the tail and run it under the job's own    *)
(* mutex, and ThreadPoolDestroy, which waits for the queue to empty.       *)
(*                                                                         *)
(* The pool's mutex is only modelled as held where its holder blocks: a    *)
(* worker or ThreadPoolRemoveJob waiting for a job's mutex.  A thread in   *)
(* pthread_cond_wait is in state "wait" until it is signalled.             *)
(*                                                                         *)
(* usage = "service" is how softbus_base_listener.c uses the pool: one     *)
(* worker, whose job may add jobs, no removal.  usage = "library" has all  *)
(* workers and operations, and jobs that do not call the pool.             *)
(***************************************************************************)
EXTENDS Integers, FiniteSets

CONSTANTS Worker, PoolUser, JobHandle,
          MaxJobs,        \* bound: jobs ever added
          QueueMaxNum,    \* queueMaxNum
          PoolNil

VARIABLES usage, head, tail, next, queueCurNum, queueClose, poolClose,
          job,         \* the jobs: mode, handle, runnable, owner of the mutex
          poolOwner,   \* who holds the pool's mutex while it is blocked
          worker, user

poolVars == <<usage, head, tail, next, queueCurNum, queueClose, poolClose, job, poolOwner, worker, user>>

Job == 1 .. MaxJobs
NoJob == [state |-> "none", mode |-> PoolNil, handle |-> PoolNil, runnable |-> FALSE, owner |-> PoolNil]
IdleWorker == [pc |-> "idle", job |-> PoolNil]

\* ThreadPoolInit.
PoolInit ==
    /\ usage \in {"service", "library"}
    /\ head = PoolNil /\ tail = PoolNil /\ next = [j \in Job |-> PoolNil]
    /\ queueCurNum = 0 /\ queueClose = FALSE /\ poolClose = FALSE
    /\ job = [j \in Job |-> NoJob] /\ poolOwner = PoolNil
    /\ worker \in [Worker -> {IdleWorker, [IdleWorker EXCEPT !.pc = "exit"]}]
    /\ Cardinality({w \in Worker : worker[w].pc = "idle"}) = (IF usage = "service" THEN 1 ELSE Cardinality(Worker))
    /\ user = [u \in PoolUser |-> IdleWorker]

\* The jobs reached from the head, in order.
Listed ==
    LET hop[n \in 0 .. MaxJobs] ==
            IF n = 0 THEN head ELSE IF hop[n - 1] = PoolNil THEN PoolNil ELSE next[hop[n - 1]]
    IN  {hop[n] : n \in 0 .. MaxJobs} \ {PoolNil}

MutantNoBroadcast(ws) == ws

\* pthread_cond_broadcast of queueNotEmpty.
BroadcastNotEmpty(ws) == [w \in Worker |-> IF ws[w].pc = "wait" THEN IdleWorker ELSE ws[w]]

-----------------------------------------------------------------------------
(* Adding and removing. *)

\* ThreadPoolAddJob with CheckThreadPoolAddReady, by a thread that finds the
\* pool's mutex free.
CanAdd(h) ==
    /\ queueCurNum # QueueMaxNum /\ ~queueClose /\ ~poolClose
    /\ ~\E j \in Listed : job[j].handle = h /\ job[j].runnable

AddJob(ws, h, mode) ==
    LET j == CHOOSE i \in Job : job[i].state = "none" /\ \A k \in Job : job[k].state = "none" => i <= k
    IN  IF ~CanAdd(h) THEN worker' = ws /\ UNCHANGED <<head, tail, next, queueCurNum, job>>
        ELSE /\ \E i \in Job : job[i].state = "none"
             /\ job' = [job EXCEPT ![j] = [NoJob EXCEPT !.state = "live", !.mode = mode,
                                                        !.handle = h, !.runnable = TRUE]]
             /\ tail' = j
             /\ IF head = PoolNil
                THEN /\ head' = j /\ UNCHANGED next
                     /\ worker' = BroadcastNotEmpty(ws)
                ELSE /\ next' = [next EXCEPT ![tail] = j]
                     /\ worker' = ws /\ UNCHANGED head
             /\ queueCurNum' = queueCurNum + 1

ThreadPoolAddJob(u, h, mode) ==
    /\ user[u].pc = "idle" /\ poolOwner = PoolNil
    /\ AddJob(worker, h, mode)
    /\ UNCHANGED <<usage, queueClose, poolClose, poolOwner, user>>

\* ThreadPoolRemoveJob: a PERSISTENT job that is listed and runnable is marked,
\* under both mutexes; the one who waits for the job's keeps the pool's.
Removable(h) == {j \in Listed : job[j].handle = h /\ job[j].mode = "PERSISTENT" /\ job[j].runnable}

ThreadPoolRemoveJob(u, h) ==
    /\ usage = "library" /\ user[u].pc = "idle" /\ poolOwner = PoolNil
    /\ \E j \in Removable(h) :
          IF job[j].owner = PoolNil
          THEN /\ job' = [job EXCEPT ![j].runnable = FALSE]
               /\ UNCHANGED <<poolOwner, user>>
          ELSE /\ poolOwner' = u
               /\ user' = [user EXCEPT ![u] = [pc |-> "remove", job |-> j]]
               /\ UNCHANGED job
    /\ UNCHANGED <<usage, head, tail, next, queueCurNum, queueClose, poolClose, worker>>

RemoveLocked(u) ==
    /\ user[u].pc = "remove" /\ job[user[u].job].owner = PoolNil
    /\ job' = [job EXCEPT ![user[u].job].runnable = FALSE]
    /\ poolOwner' = PoolNil /\ user' = [user EXCEPT ![u] = IdleWorker]
    /\ UNCHANGED <<usage, head, tail, next, queueCurNum, queueClose, poolClose, worker>>

-----------------------------------------------------------------------------
(* Workers. *)

MutantNoRelink(j, again) == next

\* A PERSISTENT job is linked behind the tail, which may be the job itself.
Relinked(j, again) == IF again THEN [next EXCEPT ![tail] = j] ELSE next

MutantTakesTwo(again) == queueCurNum - 2 + (IF again THEN 1 ELSE 0)

NumAfter(again) == queueCurNum - 1 + (IF again THEN 1 ELSE 0)

MutantNoSignal(num) == user

\* The signal of queueEmpty.
SignalEmpty(num) ==
    [u \in PoolUser |-> IF num = 0 /\ user[u].pc = "wait" THEN [user[u] EXCEPT !.pc = "destroy"] ELSE user[u]]

\* JobCheck on the job taken, with both mutexes held, and what follows until
\* the pool is unlocked: a job is dropped when the pool closes, a PERSISTENT one
\* goes to the tail, the head moves on, and an empty queue is signalled.
JobCheck(w, j) ==
    LET runnable == job[j].runnable /\ ~queueClose /\ ~poolClose
        again == job[j].mode = "PERSISTENT" /\ runnable
        num == NumAfter(again)
        linked == Relinked(j, again)
    IN  /\ queueCurNum' = num
        /\ head' = IF num = 0 THEN PoolNil ELSE linked[j]
        /\ tail' = IF num = 0 THEN PoolNil ELSE IF again THEN j ELSE tail
        /\ next' = IF num = 0 THEN linked ELSE [linked EXCEPT ![tail'] = PoolNil]
        /\ job' = [job EXCEPT ![j].runnable = runnable, ![j].owner = w]
        /\ worker' = [worker EXCEPT ![w] = [pc |-> "run", job |-> j]]
        /\ user' = SignalEmpty(num)

\* ThreadPoolWorker from the lock of the pool: wait, leave, or take the head.
\* When that job is running it waits for it with the pool locked (the count is
\* decremented here with the rest, nobody else can look at it).
TakeJob(w) ==
    /\ worker[w].pc = "idle" /\ poolOwner = PoolNil
    /\ \/ /\ queueCurNum = 0 \/ poolClose
          /\ worker' = [worker EXCEPT ![w].pc = IF poolClose THEN "exit" ELSE "wait"]
          /\ UNCHANGED <<head, tail, next, queueCurNum, job, poolOwner, user>>
       \/ /\ queueCurNum > 0 /\ ~poolClose
          /\ IF job[head].owner = PoolNil THEN JobCheck(w, head) /\ UNCHANGED poolOwner
             ELSE /\ poolOwner' = w
                  /\ worker' = [worker EXCEPT ![w] = [pc |-> "lockjob", job |-> head]]
                  /\ UNCHANGED <<head, tail, next, queueCurNum, job, user>>
    /\ UNCHANGED <<usage, queueClose, poolClose>>

JobLocked(w) ==
    /\ worker[w].pc = "lockjob" /\ job[worker[w].job].owner = PoolNil
    /\ JobCheck(w, worker[w].job)
    /\ poolOwner' = PoolNil
    /\ UNCHANGED <<usage, queueClose, poolClose>>

\* The callback, of a job that is still runnable: it may add a job itself
\* (StartThread, called in an event handler), for which it needs the pool.
RunCallback(w) ==
    /\ worker[w].pc = "run"
    /\ \E pc \in {"finish"} \cup {x \in {"add"} : usage = "service" /\ job[worker[w].job].runnable} :
          worker' = [worker EXCEPT ![w].pc = pc]
    /\ UNCHANGED <<usage, head, tail, next, queueCurNum, queueClose, poolClose, job, poolOwner, user>>

CallbackAdds(w, h) ==
    /\ worker[w].pc = "add" /\ poolOwner = PoolNil
    /\ AddJob([worker EXCEPT ![w].pc = "finish"], h, "PERSISTENT")
    /\ UNCHANGED <<usage, queueClose, poolClose, poolOwner, user>>

MutantFreesAll(j) == TRUE

FreedAfterRun(j) == job[j].mode = "ONCE" \/ ~job[j].runnable

FinishJob(w) ==
    LET j == worker[w].job
    IN  /\ worker[w].pc = "finish"
        /\ job' = [job EXCEPT ![j].owner = PoolNil, ![j].state = IF FreedAfterRun(j) THEN "freed" ELSE @]
        /\ worker' = [worker EXCEPT ![w] = IdleWorker]
        /\ UNCHANGED <<usage, head, tail, next, queueCurNum, queueClose, poolClose, poolOwner, user>>

-----------------------------------------------------------------------------
(* ThreadPoolDestroy. *)

StartDestroy(u) ==
    /\ usage = "library" /\ user[u].pc = "idle" /\ poolOwner = PoolNil /\ ~queueClose
    /\ queueClose' = TRUE
    /\ user' = [user EXCEPT ![u].pc = "destroy"]
    /\ UNCHANGED <<usage, head, tail, next, queueCurNum, poolClose, job, poolOwner, worker>>

\* With the mutex: wait for queueEmpty, or close and wake the workers.
CloseWhenEmpty(u) ==
    /\ user[u].pc = "destroy" /\ poolOwner = PoolNil
    /\ IF queueCurNum # 0
       THEN /\ user' = [user EXCEPT ![u].pc = "wait"]
            /\ UNCHANGED <<poolClose, worker>>
       ELSE /\ poolClose' = TRUE
            /\ worker' = BroadcastNotEmpty(worker)
            /\ user' = [user EXCEPT ![u].pc = "join"]
    /\ UNCHANGED <<usage, head, tail, next, queueCurNum, queueClose, job, poolOwner>>

\* Every worker has returned: the pool and the jobs still listed are freed.
JoinAndFree(u) ==
    /\ user[u].pc = "join" /\ \A w \in Worker : worker[w].pc = "exit"
    /\ job' = [j \in Job |-> IF j \in Listed THEN [job[j] EXCEPT !.state = "freed"] ELSE job[j]]
    /\ head' = PoolNil
    /\ user' = [user EXCEPT ![u].pc = "destroyed"]
    /\ UNCHANGED <<usage, tail, next, queueCurNum, queueClose, poolClose, poolOwner, worker>>

-----------------------------------------------------------------------------
WorkerStep(w) ==
    \/ TakeJob(w) \/ JobLocked(w) \/ RunCallback(w) \/ FinishJob(w)
    \/ \E h \in JobHandle : CallbackAdds(w, h)

UserStep(u) == RemoveLocked(u) \/ CloseWhenEmpty(u) \/ JoinAndFree(u)

PoolNext ==
    \/ \E w \in Worker : WorkerStep(w)
    \/ \E u \in PoolUser :
          \/ UserStep(u) \/ StartDestroy(u)
          \/ \E h \in JobHandle :
                \/ ThreadPoolRemoveJob(u, h)
                \/ \E mode \in {"ONCE", "PERSISTENT"} : ThreadPoolAddJob(u, h, mode)

\* Threads that can run are run, and callbacks return.  A thread that waits for
\* a mutex gets it if it is free again and again.
PoolFairness ==
    /\ \A w \in Worker : SF_poolVars(WorkerStep(w))
    /\ \A u \in PoolUser : SF_poolVars(UserStep(u))

PoolSpec == PoolInit /\ [][PoolNext]_poolVars /\ PoolFairness

-----------------------------------------------------------------------------
(* Properties. *)

\* The type of every variable.
PoolTypeOK ==
    /\ queueCurNum \in 0 .. QueueMaxNum
    /\ {head, tail} \subseteq Job \cup {PoolNil} /\ next \in [Job -> Job \cup {PoolNil}]
    /\ \A j \in Job : job[j].state \in {"none", "live", "freed"}
    /\ poolOwner \in Worker \cup PoolUser \cup {PoolNil}

\* The list from head is a proper one: queueCurNum jobs, the last of them tail,
\* without a cycle, although JobCheck relinks a job through its own next while
\* it is still the head (softbus_thread_pool.c:150-169).
QueueIsList ==
    (\A u \in PoolUser : user[u].pc # "destroyed") =>
        /\ Cardinality(Listed) = queueCurNum
        /\ (head = PoolNil) <=> (queueCurNum = 0)
        /\ head # PoolNil => tail \in Listed /\ next[tail] = PoolNil

\* No freed job is listed, is run, or is being waited for.
NoFreedJobUsed ==
    /\ \A j \in Listed : job[j].state = "live"
    /\ \A w \in Worker : worker[w].job # PoolNil => job[worker[w].job].state = "live"
    /\ \A u \in PoolUser : user[u].job # PoolNil => job[user[u].job].state = "live"

Destroying(u) == user[u].pc = "destroy"
Destroyed(u) == user[u].pc = "destroyed"

\* Nobody waits forever: a ThreadPoolDestroy that was started returns and has
\* joined every worker.  It rests on the workers signalling queueEmpty and on
\* jobs that are not put back once the queue is closed.
DestroyReturns == \A u \in PoolUser : Destroying(u) ~> Destroyed(u)

OnceListed(j) == j \in Listed /\ job[j].mode = "ONCE"
NotListed(j) == j \notin Listed

\* A job that was added is not left in the queue while a worker sleeps: it is
\* taken, although only the job added to an empty list wakes the workers.
ListedJobsMove == \A j \in Job : OnceListed(j) ~> NotListed(j)

=============================================================================
