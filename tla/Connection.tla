----------------------------- MODULE Connection -----------------------------
(* Under the connections: the connection manager, and the listener that
   selects on sockets. Each section has variables of its own; their
   specifications are checked side by side. *)
EXTENDS Integers, Sequences, FiniteSets, SequencesExt

-----------------------------------------------------------------------------
(***************************************************************************)
(* The connection manager (core/connection/manager): the list of listeners *)
(* and the events the media threads deliver to them, the requests routed   *)
(* to a medium by the type in a connection id, the buffer a caller hands   *)
(* over with its bytes, and the numbering of requests.                     *)
(*                                                                         *)
(* A media thread copies the listeners under the lock and calls them after *)
(* it has released it, so listeners come and go between two calls.         *)
(***************************************************************************)

CONSTANTS ConnModule,   \* modules that may listen
          Media,        \* registered connection types, small numbers
          CmThread,     \* media threads
          CmCaller,     \* threads that ask for request ids
          IdSpace,      \* 2^CONNECT_TYPE_SHIFT
          ReqidMax,     \* REQID_MAX
          MaxConn,      \* bound on connections
          MaxInits,     \* bound on initialisations
          MaxIds,       \* bound on request ids asked for
          MaxSets       \* bound on registrations of listeners

VARIABLES cmInited,   \* g_isInited
          listeners,  \* g_listenerList: NoList or the modules, newest first
          cnt,        \* g_listenerList->cnt
          manager,    \* types with an object in g_connManager
          cmThr,      \* a media thread and the event it delivers
          conn,       \* connections: the medium and how far it has come
          heard,      \* what every listener heard of every connection
          since,      \* ghost: listeners registered since the connection began
          buf,        \* the last buffer posted: its owner and where it went
          reqId,      \* the static counter
          asking,     \* what a caller inside ConnGetNewRequestId has loaded
          ids,        \* ghost: ids handed out, newest last
          overlap,    \* ghost: two callers were inside at once
          cmUsed

NoList == <<0>>
cmVars == <<cmInited, listeners, cnt, manager, cmThr, conn, heard, since, buf, reqId, asking, ids, overlap, cmUsed>>
listVars == <<cmInited, listeners, cnt, manager>>
idVars == <<reqId, asking, ids, overlap>>

Conns == 1 .. MaxConn
Stage == <<"conn", "data", "disc">>
Resting == [pc |-> "idle", c |-> 0, left |-> <<>>]
NoBuf == [state |-> "none", to |-> 0, owner |-> 0]

ConnMgrInit ==
    /\ cmInited = FALSE /\ listeners = NoList /\ cnt = 0 /\ manager = {}
    /\ cmThr = [t \in CmThread |-> Resting]
    /\ conn = [c \in Conns |-> [type |-> 0, stage |-> 0, by |-> 0]]
    /\ heard = [m \in ConnModule |-> [c \in Conns |-> <<>>]]
    /\ since = [c \in Conns |-> {}]
    /\ buf = NoBuf /\ reqId = 1
    /\ asking = [k \in CmCaller |-> 0] /\ ids = <<>> /\ overlap = FALSE
    /\ cmUsed = [conns |-> 0, inits |-> 0, sets |-> 0]

-----------------------------------------------------------------------------
(* Initialisation.                                                         *)

\* The media are registered first, then the list is made; a list that cannot
\* be made leaves the media registered.
ConnServerInit(listMade) ==
    /\ ~cmInited /\ cmUsed.inits < MaxInits
    /\ manager' = Media
    /\ IF listMade \/ listeners # NoList
       THEN listeners' = (IF listeners = NoList THEN <<>> ELSE listeners) /\ cmInited' = TRUE
       ELSE UNCHANGED <<listeners, cmInited>>
    /\ cmUsed' = [cmUsed EXCEPT !.inits = @ + 1]
    /\ UNCHANGED <<cnt, cmThr, conn, heard, since, buf, idVars>>

\* The list goes, the media stay registered.
ConnServerDeinit ==
    /\ cmInited /\ cmUsed.inits < MaxInits /\ \A t \in CmThread : cmThr[t].pc = "idle"
    /\ listeners' = NoList /\ cnt' = 0 /\ cmInited' = FALSE
    /\ since' = [c \in Conns |-> {}]
    /\ UNCHANGED <<manager, cmThr, conn, heard, buf, idVars, cmUsed>>

-----------------------------------------------------------------------------
(* Listeners.                                                              *)

Listed == IF listeners = NoList THEN {} ELSE ToSet(listeners)
MutantCountsOn == cnt
CntAfterDel == cnt - 1

AddListener(m) ==
    IF m \in Listed THEN UNCHANGED <<listeners, cnt>>
    ELSE listeners' = <<m>> \o listeners /\ cnt' = cnt + 1
ConnSetConnectCallback(m) ==
    /\ listeners # NoList /\ cmUsed.sets < MaxSets
    /\ AddListener(m)
    /\ cmUsed' = [cmUsed EXCEPT !.sets = @ + 1]
    /\ UNCHANGED <<cmInited, manager, cmThr, conn, heard, since, buf, idVars>>

DelListener(m) ==
    IF m \in Listed THEN listeners' = Remove(listeners, m) /\ cnt' = CntAfterDel
    ELSE UNCHANGED <<listeners, cnt>>
ConnUnSetConnectCallback(m) ==
    /\ m \in Listed
    /\ DelListener(m)
    /\ since' = [c \in Conns |-> since[c] \ {m}]
    /\ UNCHANGED <<cmInited, manager, cmThr, conn, heard, buf, idVars, cmUsed>>

-----------------------------------------------------------------------------
(* Events of the media.  The thread of a connection delivers them in order.*)

\* All of the list, in one copy of cnt places.
MutantAllButOne(L) == IF L = NoList THEN <<>> ELSE SubSeq(L, 1, Len(L) - 1)
GetAllListener(L) == IF L = NoList THEN <<>> ELSE L
\* The listener of one module.
GetListenerByModuleId(L, m) == IF L = NoList THEN <<>> ELSE SelectSeq(L, LAMBDA x : x = m)

Begin(t, c, to, stage) ==
    /\ cmThr[t].pc = "idle"
    /\ cmThr' = [cmThr EXCEPT ![t] = [pc |-> IF to = <<>> THEN "idle" ELSE "calling", c |-> c, left |-> to]]
    /\ conn' = [conn EXCEPT ![c].stage = stage]

\* A new connection: its medium numbers it and tells the manager.
ConnManagerConnected(t, type) ==
    /\ type \in manager /\ cmUsed.conns < MaxConn
    /\ LET c == cmUsed.conns + 1
       IN /\ cmThr[t].pc = "idle"
          /\ cmThr' = [cmThr EXCEPT ![t] = [pc |-> IF GetAllListener(listeners) = <<>> THEN "idle" ELSE "calling",
                                            c |-> c, left |-> GetAllListener(listeners)]]
          /\ conn' = [conn EXCEPT ![c] = [type |-> type, stage |-> 1, by |-> t]]
          /\ since' = [since EXCEPT ![c] = Listed]
    /\ cmUsed' = [cmUsed EXCEPT !.conns = @ + 1]
    /\ UNCHANGED <<listVars, heard, buf, idVars>>

\* Data for one module; a packet no longer than its head is refused.
ConnManagerRecvData(t, c, m) ==
    /\ conn[c].by = t /\ conn[c].stage = 1
    /\ Begin(t, c, GetListenerByModuleId(listeners, m), 2)
    /\ UNCHANGED <<listVars, heard, since, buf, idVars, cmUsed>>

ConnManagerDisconnected(t, c) ==
    /\ conn[c].by = t /\ conn[c].stage \in {1, 2}
    /\ Begin(t, c, GetAllListener(listeners), 3)
    /\ UNCHANGED <<listVars, heard, since, buf, idVars, cmUsed>>

\* The callbacks, one after the other and without the lock.
CallListener(t) ==
    /\ cmThr[t].pc = "calling"
    /\ LET m == cmThr[t].left[1]  rest == Tail(cmThr[t].left)
       IN /\ heard' = [heard EXCEPT ![m][cmThr[t].c] = Append(@, Stage[conn[cmThr[t].c].stage])]
          /\ cmThr' = [cmThr EXCEPT ![t] = IF rest = <<>> THEN [Resting EXCEPT !.c = cmThr[t].c]
                                           ELSE [@ EXCEPT !.left = rest]]
    /\ UNCHANGED <<listVars, conn, since, buf, idVars, cmUsed>>

-----------------------------------------------------------------------------
(* Requests to a medium.                                                   *)

ConnectionId(c) == conn[c].type * IdSpace + (c % IdSpace)
MutantLowBits(id) == id % IdSpace
TypeOf(id) == id \div IdSpace

ConnTypeCheck(type) == type \in manager

\* Every refusal frees the buffer; a medium that is called frees it itself.
MutantKeepsBuffer(b) == b
Refused(b) == [NoBuf EXCEPT !.state = "freed"]
ConnPostBytes(c, short, hasOp) ==
    /\ conn[c].stage \in {1, 2} /\ buf.state # "held"
    /\ LET id == ConnectionId(c)
           b == [state |-> "held", to |-> 0, owner |-> conn[c].type]
       IN buf' = IF short \/ ~ConnTypeCheck(TypeOf(id)) \/ ~hasOp THEN Refused(b)
                 ELSE [b EXCEPT !.state = "given", !.to = TypeOf(id)]
    /\ UNCHANGED <<listVars, cmThr, conn, heard, since, idVars, cmUsed>>

-----------------------------------------------------------------------------
(* Request ids: a static counter without a lock.                           *)

MutantWrapsEarly(r) == ((r + 1) % (ReqidMax - 2)) + 1
NextReqId(r) == ((r + 1) % ReqidMax) + 1

\* The counter is loaded, stepped and stored; another caller may load it between.
ConnGetNewRequestId(k) ==
    /\ asking[k] = 0 /\ Len(ids) < MaxIds
    /\ asking' = [asking EXCEPT ![k] = reqId]
    /\ overlap' = (overlap \/ \E o \in CmCaller : asking[o] # 0)
    /\ UNCHANGED <<listVars, cmThr, conn, heard, since, buf, reqId, ids, cmUsed>>
ReturnRequestId(k) ==
    /\ asking[k] # 0
    /\ reqId' = NextReqId(asking[k])
    /\ ids' = Append(ids, reqId')
    /\ asking' = [asking EXCEPT ![k] = 0]
    /\ UNCHANGED <<listVars, cmThr, conn, heard, since, buf, overlap, cmUsed>>

ConnMgrNext ==
    \/ \E ok \in BOOLEAN : ConnServerInit(ok)
    \/ ConnServerDeinit
    \/ \E m \in ConnModule : ConnSetConnectCallback(m) \/ ConnUnSetConnectCallback(m)
    \/ \E t \in CmThread :
          \/ \E type \in Media : ConnManagerConnected(t, type)
          \/ \E c \in Conns : ConnManagerDisconnected(t, c)
          \/ \E c \in Conns, m \in ConnModule : ConnManagerRecvData(t, c, m)
          \/ CallListener(t)
    \/ \E c \in Conns, short, hasOp \in BOOLEAN : ConnPostBytes(c, short, hasOp)
    \/ \E k \in CmCaller : ConnGetNewRequestId(k) \/ ReturnRequestId(k)
ConnMgrSpec == ConnMgrInit /\ [][ConnMgrNext]_cmVars

-----------------------------------------------------------------------------
\* GetAllListener allocates cnt places and copies the whole list into them: the
\* counter is the length of the list (AddListener, DelListener, and what an
\* initialisation after a deinitialisation starts from).
CopyFits == cnt = (IF listeners = NoList THEN 0 ELSE Len(listeners))

\* A listener registered before a connection came and ever since has heard of
\* it, and of its end, once the media thread has finished its calls, whoever
\* registered or left meanwhile (ConnManagerConnected, ConnManagerDisconnected).
KeptIsTold ==
    \A c \in Conns : \A m \in since[c] :
        (conn[c].stage # 0 /\ (cmThr[conn[c].by].pc = "idle" \/ cmThr[conn[c].by].c # c)) =>
            /\ heard[m][c] # <<>> /\ heard[m][c][1] = "conn"
            /\ conn[c].stage = 3 => Last(heard[m][c]) = "disc"
            /\ Cardinality(ToSet(heard[m][c])) = Len(heard[m][c])

\* Bytes posted on a connection reach the medium that made it or their buffer
\* is freed, on every path out of ConnPostBytes.
BufferPlaced == \/ buf.state \in {"none", "freed"}
                \/ buf.state = "given" /\ buf.to = buf.owner

\* Request ids asked for one after the other do not come again before half of
\* REQID_MAX others (ConnGetNewRequestId counts in steps of two).
IdsDistinct ==
    overlap \/ \A i, j \in DOMAIN ids : (i < j /\ j - i < ReqidMax \div 2) => ids[i] # ids[j]

ConnMgrTypeOK ==
    /\ cnt \in 0 .. Cardinality(ConnModule) /\ manager \subseteq Media
    /\ \A t \in CmThread : ToSet(cmThr[t].left) \subseteq ConnModule
    /\ reqId \in 1 .. ReqidMax

-----------------------------------------------------------------------------
(***************************************************************************)
(* The select loop that all TCP users share                                *)
(* (core/connection/common/src/softbus_base_listener.c): per module a node *)
(* with a lock, a listening descriptor and a list of watched descriptors,  *)
(* and for all of them the descriptor sets and g_maxFd under g_fdSetLock.  *)
(*                                                                         *)
(* An operation is one step per lock region.  UpdateMaxFd visits the       *)
(* modules one lock at a time and stores the result afterwards.  The write *)
(* set stands for the exception set too.  SelectThread is the job of the   *)
(* thread pool; a callback takes what made its descriptor ready.           *)
(*                                                                         *)
(* A module is started, stopped and destroyed by one thread (the bus       *)
(* center's, lnn_ip_network_impl.c, or the client's under its lock);       *)
(* triggers come and go from any thread at any time.                       *)
(***************************************************************************)

CONSTANTS Modules,     \* the number of listener modules in use
          Listening,   \* those of them with a listening socket
          MaxFdNum,    \* bound: descriptors
          MaxReady,    \* bound: descriptors with an event at a time
          Caller,      \* threads that call the operations
          MaxListenEvents,  \* MAX_LISTEN_EVENTS
          NULL

VARIABLES info,       \* g_listenerList[m].info
          rset, wset, \* g_readSet, g_writeSet
          maxFd,      \* g_maxFd
          own,        \* the module that has each open descriptor
          ready,      \* descriptors with an event
          caller, selector,
          raced,      \* an insertion overlapped an UpdateMaxFd
          left        \* descriptors whose bit stays set and no list has them

blVars == <<info, rset, wset, maxFd, own, ready, caller, selector, raced, left>>

Module == 1 .. Modules
Fd == 1 .. MaxFdNum
NoFd == 0
Free == [pc |-> "idle", m |-> NULL, destroy |-> FALSE, fd |-> NoFd, i |-> 0, acc |-> NoFd]
Polling == [i |-> 0, hits |-> {}]

\* CreateNewListenerInfo.
NewInfo == [status |-> "IDLE", listenFd |-> NoFd, fds |-> {}, fdCount |-> 0, early |-> FALSE]

\* A module starts to run; early records that it has descriptors already.
Run(x) == [x EXCEPT !.status = "RUNNING", !.early = x.fds # {}]

ListenerInit ==
    /\ info = [m \in Module |-> NULL] /\ rset = {} /\ wset = {} /\ maxFd = NoFd
    /\ own = [f \in Fd |-> NULL] /\ ready = {}
    /\ caller = [c \in Caller |-> Free] /\ selector = Polling
    /\ raced = FALSE /\ left = {}

Open == {f \in Fd : own[f] # NULL}
FreeFd == {f \in Fd : own[f] = NULL /\ \A g \in Fd : g < f => own[g] # NULL}
Running(m) == info[m] # NULL /\ info[m].status = "RUNNING"
Updating == \E c \in Caller : caller[c].pc \in {"collect", "store"}
Larger(f, g) == IF f > g THEN f ELSE g
Watched(m) == IF info[m] = NULL THEN {} ELSE info[m].fds \cup ({info[m].listenFd} \ {NoFd})
Exists(m) == info[m] # NULL

Idle(c) == caller[c].pc = "idle"

\* Nobody else is starting, stopping or destroying m.
Owner(c, m) == Idle(c) /\ \A d \in Caller : caller[d].m # m

-----------------------------------------------------------------------------
(* Starting. *)

\* StartBaseClient with PrepareBaseListener and StartThread.
StartBaseClient(c, m) ==
    /\ Owner(c, m) /\ m \notin Listening /\ (Exists(m) => info[m].status = "IDLE")
    /\ info' = [info EXCEPT ![m] = Run(IF @ = NULL THEN NewInfo ELSE @)]
    /\ UNCHANGED <<rset, wset, maxFd, own, ready, caller, selector, raced, left>>

\* StartBaseListener up to the end of InitListenFd, which may fail after the
\* socket exists and then resets the module.
StartBaseListener(c, m, f, ok) ==
    /\ Owner(c, m) /\ m \in Listening /\ (Exists(m) => info[m].status = "IDLE") /\ f \in FreeFd
    /\ info' = [info EXCEPT ![m] = [IF @ = NULL THEN NewInfo ELSE @ EXCEPT !.listenFd = f, !.fdCount = 1]]
    /\ own' = [own EXCEPT ![f] = m]
    /\ caller' = [caller EXCEPT ![c] = [Free EXCEPT !.pc = IF ok THEN "starting" ELSE "reset", !.m = m]]
    /\ IF ok THEN /\ rset' = rset \cup {f} /\ maxFd' = Larger(f, maxFd)
                  /\ left' = left \ {f} /\ raced' = (raced \/ Updating)
       ELSE UNCHANGED <<rset, maxFd, left, raced>>
    /\ UNCHANGED <<wset, ready, selector>>

\* The rest of it: the status, without a lock, and the job.
Started(c) ==
    /\ caller[c].pc = "starting"
    /\ info' = [info EXCEPT ![caller[c].m] = Run(@)]
    /\ caller' = [caller EXCEPT ![c] = Free]
    /\ raced' = (raced \/ Updating)
    /\ UNCHANGED <<rset, wset, maxFd, own, ready, selector, left>>

-----------------------------------------------------------------------------
(* Watched descriptors. *)

\* A module gets a descriptor from accept or connect.
OpenFd(m, f) ==
    /\ Exists(m) /\ f \in FreeFd
    /\ own' = [own EXCEPT ![f] = m]
    /\ UNCHANGED <<info, rset, wset, maxFd, ready, caller, selector, raced, left>>

\* It closes one that it does not watch and no operation of it is about.
CloseFd(f) ==
    /\ own[f] # NULL /\ f \notin Watched(own[f]) /\ \A c \in Caller : caller[c].fd # f
    /\ own' = [own EXCEPT ![f] = NULL] /\ ready' = ready \ {f}
    /\ UNCHANGED <<info, rset, wset, maxFd, caller, selector, raced, left>>

\* AddTrigger up to the unlock of the module, refused above the limit.  Only a
\* new descriptor goes on to g_maxFd.
AddTrigger(c, m, f, write) ==
    /\ Idle(c) /\ Exists(m) /\ info[m].fdCount <= MaxListenEvents
    /\ own[f] = m /\ f # info[m].listenFd
    /\ rset' = IF write THEN rset ELSE rset \cup {f}
    /\ wset' = IF write THEN wset \cup {f} ELSE wset
    /\ info' = [info EXCEPT ![m].fds = @ \cup {f}, ![m].fdCount = IF f \in info[m].fds THEN @ ELSE @ + 1]
    /\ caller' = IF f \in info[m].fds THEN caller
                 ELSE [caller EXCEPT ![c] = [Free EXCEPT !.pc = "max", !.fd = f]]
    /\ raced' = (raced \/ Updating) /\ left' = left \ {f}
    /\ UNCHANGED <<maxFd, own, ready, selector>>

MutantSetsMax(c) == caller[c].fd

NewMaxFd(c) == Larger(caller[c].fd, maxFd)

AddTriggerMax(c) ==
    /\ caller[c].pc = "max"
    /\ maxFd' = NewMaxFd(c)
    /\ caller' = [caller EXCEPT ![c] = Free]
    /\ UNCHANGED <<info, rset, wset, own, ready, selector, raced, left>>

MutantDropsNode(m, f, bits) == info[m].fds \ {f}

\* The descriptors still listed by module m after f lost a trigger and the
\* sets hold bits: DelFdNode only when no trigger is left.
FdsAfterDel(m, f, bits) == IF f \in bits THEN info[m].fds ELSE info[m].fds \ {f}

\* DelTrigger up to the unlock of the module, then UpdateMaxFd.
DelTrigger(c, m, f, write) ==
    /\ Idle(c) /\ Exists(m) /\ own[f] = m /\ f # info[m].listenFd
    /\ rset' = IF write THEN rset ELSE rset \ {f}
    /\ wset' = IF write THEN wset \ {f} ELSE wset
    /\ info' = [info EXCEPT ![m].fds = FdsAfterDel(m, f, rset' \cup wset'),
                            ![m].fdCount = IF f \in info[m].fds \ (rset' \cup wset') THEN @ - 1 ELSE @]
    /\ caller' = IF f \in rset' \cup wset' THEN caller
                 ELSE [caller EXCEPT ![c] = [Free EXCEPT !.pc = "collect", !.i = 1]]
    /\ UNCHANGED <<maxFd, own, ready, selector, raced, left>>

-----------------------------------------------------------------------------
(* Stopping. *)

\* StopBaseListener: the listening socket is closed; neither its bit nor the
\* list is cleared.
StopBaseListener(c, m) ==
    /\ Owner(c, m) /\ Running(m)
    /\ info' = [info EXCEPT ![m].status = "IDLE", ![m].listenFd = NoFd, ![m].early = FALSE]
    /\ own' = [f \in Fd |-> IF f = info[m].listenFd THEN NULL ELSE own[f]]
    /\ ready' = ready \ {info[m].listenFd}
    /\ left' = left \cup ({info[m].listenFd} \ {NoFd})
    /\ caller' = [caller EXCEPT ![c] = [Free EXCEPT !.pc = "collect", !.m = m, !.i = 1]]
    /\ UNCHANGED <<rset, wset, maxFd, selector, raced>>

\* ClearListenerFdList clears the bits of the descriptors in the list.
ClearListenerFdList(m) == info[m].fds

\* ResetBaseListener: after a start that failed, or first in DestroyBaseListener.
ResetBaseListener(c, m) ==
    /\ (caller[c].pc = "reset" /\ caller[c].m = m) \/ Owner(c, m)
    /\ Exists(m)
    /\ info' = [info EXCEPT ![m] = NewInfo]
    /\ own' = [f \in Fd |-> IF f = info[m].listenFd THEN NULL ELSE own[f]]
    /\ ready' = ready \ {info[m].listenFd}
    /\ left' = left \cup ({info[m].listenFd} \cap rset)
    /\ rset' = rset \ ClearListenerFdList(m) /\ wset' = wset \ ClearListenerFdList(m)
    /\ caller' = [caller EXCEPT ![c] = [Free EXCEPT !.pc = "collect", !.m = m, !.i = 1, !.destroy = Idle(c)]]
    /\ UNCHANGED <<maxFd, selector, raced>>

\* ResetBaseListenerSet.
ResetBaseListenerSet(c, m) ==
    /\ Owner(c, m) /\ Exists(m)
    /\ info' = [info EXCEPT ![m].fds = {}, ![m].fdCount = 0]
    /\ rset' = rset \ ClearListenerFdList(m) /\ wset' = wset \ ClearListenerFdList(m)
    /\ caller' = [caller EXCEPT ![c] = [Free EXCEPT !.pc = "collect", !.m = m, !.i = 1]]
    /\ UNCHANGED <<maxFd, own, ready, selector, raced, left>>

\* The end of DestroyBaseListener: a descriptor added since the reset is lost
\* with its node.
DestroyBaseListener(c) ==
    LET m == caller[c].m
    IN  /\ caller[c].pc = "destroy"
        /\ info' = [info EXCEPT ![m] = NULL] /\ left' = left \cup info[m].fds
        /\ caller' = [caller EXCEPT ![c] = Free]
        /\ UNCHANGED <<rset, wset, maxFd, own, ready, selector, raced>>

-----------------------------------------------------------------------------
(* UpdateMaxFd. *)

\* The number of descriptors, as select() wants it, in place of the largest.
MutantPlusOne(m, acc) == IF Running(m) THEN Cardinality(Watched(m)) + 1 ELSE acc

MutantSkipsList(m, acc) == IF Running(m) THEN Larger(info[m].listenFd, acc) ELSE acc

\* The maximum so far with the descriptors of a running module.
MaxWith(m, acc) ==
    LET all == Watched(m) \cup {acc}
    IN  IF Running(m) THEN CHOOSE f \in all : \A g \in all : g <= f ELSE acc

Collect(c) ==
    LET x == caller[c]
    IN  /\ x.pc = "collect"
        /\ caller' = [caller EXCEPT ![c].acc = MaxWith(x.i, x.acc), ![c].i = @ + 1,
                                    ![c].pc = IF x.i = Modules THEN "store" ELSE @]
        /\ raced' = (raced \/ \E d \in Caller : caller[d].pc = "starting")
        /\ UNCHANGED <<info, rset, wset, maxFd, own, ready, selector, left>>

Store(c) ==
    /\ caller[c].pc = "store"
    /\ maxFd' = caller[c].acc
    /\ caller' = [caller EXCEPT ![c] = IF caller[c].destroy THEN [Free EXCEPT !.pc = "destroy", !.m = caller[c].m]
                                       ELSE Free]
    /\ UNCHANGED <<info, rset, wset, own, ready, selector, raced, left>>

-----------------------------------------------------------------------------
(* SelectThread. *)

\* Data or a connection arrives.
Arrives(f) ==
    /\ own[f] # NULL /\ Cardinality(ready) < MaxReady /\ ready' = ready \cup {f}
    /\ UNCHANGED <<info, rset, wset, maxFd, own, caller, selector, raced, left>>

\* Mutant: select() is told the largest descriptor instead of one more.
MutantBelowMax == {f \in rset \cup wset : f < maxFd}

Selected == {f \in rset \cup wset : f <= maxFd}

\* SetSelect and select(), which fails when one of the descriptors is closed.
Select ==
    /\ selector.i = 0 /\ Selected \subseteq Open /\ Selected \cap ready # {}
    /\ selector' = [i |-> 1, hits |-> Selected \cap ready]
    /\ UNCHANGED <<info, rset, wset, maxFd, own, ready, caller, raced, left>>

\* ProcessData for the next module: OnEvent for each of its descriptors that
\* select() reported, if the module runs.
ProcessData ==
    LET m == selector.i
        events == IF Running(m) THEN selector.hits \cap Watched(m) ELSE {}
    IN  /\ m > 0
        /\ ready' = ready \ events
        /\ selector' = IF m = Modules THEN Polling ELSE [selector EXCEPT !.i = @ + 1]
        /\ UNCHANGED <<info, rset, wset, maxFd, own, caller, raced, left>>

CallerStep(c) == Started(c) \/ AddTriggerMax(c) \/ Collect(c) \/ Store(c) \/ DestroyBaseListener(c)

ListenerNext ==
    \/ \E c \in Caller, m \in Module :
          \/ StartBaseClient(c, m) \/ StopBaseListener(c, m) \/ ResetBaseListener(c, m)
          \/ ResetBaseListenerSet(c, m)
          \/ \E f \in Fd, b \in BOOLEAN :
                StartBaseListener(c, m, f, b) \/ AddTrigger(c, m, f, b) \/ DelTrigger(c, m, f, b)
    \/ \E c \in Caller : CallerStep(c)
    \/ \E f \in Fd : CloseFd(f) \/ Arrives(f) \/ \E m \in Module : OpenFd(m, f)
    \/ Select \/ ProcessData

ListenerSpec == ListenerInit /\ [][ListenerNext]_blVars

\* The select thread and the callers are threads: they run on.
ListenerFairness ==
    /\ WF_blVars(Select) /\ WF_blVars(ProcessData)
    /\ \A c \in Caller : WF_blVars(CallerStep(c))

ListenerLiveSpec == ListenerSpec /\ ListenerFairness

-----------------------------------------------------------------------------
(* Properties. *)

\* The type of every variable.
ListenerTypeOK ==
    /\ \A m \in Module : Exists(m) => /\ info[m].status \in {"IDLE", "RUNNING"}
                                      /\ info[m].fds \subseteq Fd /\ info[m].listenFd \in Fd \cup {NoFd}
    /\ rset \subseteq Fd /\ wset \subseteq Fd /\ maxFd \in Fd \cup {NoFd}
    /\ own \in [Fd -> Module \cup {NULL}]

\* The descriptors that select() is given are those some module watches, apart
\* from listening ones that were closed without FD_CLR (StopBaseListener and
\* ResetBaseListener) and those added while their module was being destroyed:
\* a bit without its list entry would never be cleared, an entry without a bit
\* would never be reported.
SetsMatchLists ==
    (\A c \in Caller : caller[c].pc # "reset") =>
        (rset \cup wset) \ left = UNION {Watched(m) : m \in Module} \ left

\* When no operation is in progress, select() covers every watched descriptor
\* of a running module, unless an insertion overlapped an UpdateMaxFd, whose
\* result is then stale when it is stored (softbus_base_listener.c:124), or the
\* module had descriptors in its list before it ran (UpdateMaxFd skips it then).
MaxFdCovers ==
    (~raced /\ \A c \in Caller : caller[c].pc = "idle") =>
        \A m \in Module : Running(m) /\ ~info[m].early => \A f \in Watched(m) : f <= maxFd

HasEvent(m, f) == Running(m) /\ f \in Watched(m) /\ f \in ready
EventDone(m, f) == f \notin ready \/ ~Running(m) \/ f \notin Watched(m) \/ left # {} \/ info[m].early

\* A watched descriptor of a running module with an event is handled, or it
\* stops being watched, or the module stops; a descriptor that stays in the sets
\* without a list may be closed and stall the loop for everyone.
EventsHandled == \A m \in Module, f \in Fd : HasEvent(m, f) ~> EventDone(m, f)

=============================================================================
