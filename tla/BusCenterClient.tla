--------------------------- MODULE BusCenterClient ---------------------------
(***************************************************************************)
(* The requests to join or to leave the network, from the call of an        *)
(* application to the callback with the result.                             *)
(*                                                                          *)
(* In the application (client_bus_center_manager.c) a call keeps            *)
(* g_busCenterClient.lock while it asks the service and then lists the      *)
(* callback; the thread that receives a result takes the same lock, unlinks *)
(* the callbacks one by one and calls each with the lock released.  In the  *)
(* service (lnn_bus_center_ipc.cpp, .c) a list of requests per kind, under  *)
(* one lock, remembers whom to tell.                                        *)
(*                                                                          *)
(* The two systems differ.  "standard": both directions are synchronous     *)
(* calls, and the requests are a std::vector whose erase leaves the second  *)
(* iterator on the NEXT element, so that one is deleted and stays listed.   *)
(* "small": both directions are one-way messages, and the requests are a    *)
(* linked list.  An access to a deleted request is undefined: it sets       *)
(* touched, and the model stops there.                                      *)
(***************************************************************************)
EXTENDS Naturals, Sequences, FiniteSets, SequencesExt

CONSTANTS App,      \* the applications (package names)
          Asks,     \* what can be asked for: "join", "leave"
          Peer,     \* the addresses to join and network ids to leave
          Callback, \* the callbacks an application passes
          Systems,  \* which of "standard", "small" is built
          MaxAsks,  \* bound: calls per application
          MaxDeaths,\* bound: applications that die
          BusNil

VARIABLES bsys,       \* the system
          items,      \* application -> its listed callbacks
          clientLock, \* application -> holder of g_busCenterClient.lock
          api,        \* application -> the thread that calls JoinLNN or LeaveLNN
          inbox,      \* application -> results on their way to it
          process,    \* application -> alive, died (the service not told yet), gone
          wire,       \* small: requests on their way to the service
          reqs,       \* kind -> the requests the service remembers
          reqLock,    \* g_lock held by the thread that tells results
          lnnWork,    \* what the network builder works on
          teller,     \* that thread
          rejected,   \* ghost: small: asked, answered OK, refused by the service
          touched     \* a deleted request was accessed

bcVars == <<bsys, items, clientLock, api, inbox, process, wire, reqs, reqLock, lnnWork, teller, rejected, touched>>

Kinds == {"join", "leave"}
Target == Asks \X Peer
Item == [t : Target, cb : Callback]
NoCall == [pc |-> "idle", t |-> BusNil, cb |-> BusNil, left |-> MaxAsks]
Resting == [t |-> BusNil, i |-> 0, a |-> BusNil]

BusCenterInit ==
    /\ bsys \in Systems
    /\ items = [a \in App |-> {}]
    /\ clientLock = [a \in App |-> BusNil]
    /\ api = [a \in App |-> NoCall]
    /\ inbox = [a \in App |-> <<>>]
    /\ process = [a \in App |-> "alive"]
    /\ wire = <<>>
    /\ reqs = [k \in Kinds |-> <<>>]
    /\ reqLock = BusNil
    /\ lnnWork = {}
    /\ teller = Resting
    /\ rejected = {}
    /\ touched = FALSE

----------------------------------------------------------------------------
\* The application's call.

FindCbItem(a, t, cb) == [t |-> t, cb |-> cb] \in items[a]

\* The lock the call keeps while it asks.
MutantAsksUnlocked(a) == BusNil
HeldWhileAsking(a) == "api"

CallInner(a, t, cb) ==
    /\ process[a] = "alive" /\ api[a].pc = "idle" /\ api[a].left > 0
    /\ clientLock[a] = BusNil
    /\ ~FindCbItem(a, t, cb)
    /\ clientLock' = [clientLock EXCEPT ![a] = HeldWhileAsking(a)]
    /\ api' = [api EXCEPT ![a] = [pc |-> "ask", t |-> t, cb |-> cb, left |-> @.left - 1]]
    /\ UNCHANGED <<bsys, items, inbox, process, wire, reqs, reqLock, lnnWork, teller, rejected, touched>>

JoinLNNInner(a, t, cb) == t[1] = "join" /\ CallInner(a, t, cb)
LeaveLNNInner(a, t, cb) == t[1] = "leave" /\ CallInner(a, t, cb)

\* The answer is there: list the callback if it was yes; unlock.
AddCbItem(a) ==
    /\ api[a].pc \in {"ok", "err"}
    /\ clientLock[a] \in {HeldWhileAsking(a), BusNil}
    /\ items' = IF api[a].pc = "ok" THEN [items EXCEPT ![a] = @ \cup {[t |-> api[a].t, cb |-> api[a].cb]}] ELSE items
    /\ clientLock' = [clientLock EXCEPT ![a] = BusNil]
    /\ api' = [api EXCEPT ![a] = [NoCall EXCEPT !.left = api[a].left]]
    /\ UNCHANGED <<bsys, inbox, process, wire, reqs, reqLock, lnnWork, teller, rejected, touched>>

----------------------------------------------------------------------------
\* The service takes a request.

\* The records a search reads: up to the first that fits, or all of them.
ReadUpTo(s, Fits(_)) ==
    LET hits == {j \in DOMAIN s : Fits(s[j])} IN
    {j \in DOMAIN s : \A h \in hits : j <= h}

IsRepeat(a, t) == \E j \in DOMAIN reqs[t[1]] : reqs[t[1]][j].a = a /\ reqs[t[1]][j].t = t
ReadsDeleted(a, t) ==
    LET s == reqs[t[1]] IN \E j \in ReadUpTo(s, LAMBDA r : r.a = a /\ r.t = t) : s[j].deleted

\* The network builder accepts (r = "ok") or refuses, the request is remembered:
\* the vector grows at its end, the list at its head.
AddInfo(s, a, t) ==
    LET r == [a |-> a, t |-> t, deleted |-> FALSE] IN IF bsys = "standard" THEN Append(s, r) ELSE <<r>> \o s

Accept(a, t) ==
    /\ reqs' = [reqs EXCEPT ![t[1]] = AddInfo(@, a, t)]
    /\ lnnWork' = lnnWork \cup {t}

\* "standard": the call itself, on a thread of the service.
ServerTakesCall(a) ==
    /\ bsys = "standard" /\ api[a].pc = "ask" /\ reqLock = BusNil
    /\ \E r \in {"ok", "err"} :
         /\ IsRepeat(a, api[a].t) => r = "err"
         /\ IF r = "ok" THEN Accept(a, api[a].t) ELSE UNCHANGED <<reqs, lnnWork>>
         /\ api' = [api EXCEPT ![a].pc = r]
    /\ touched' = ReadsDeleted(a, api[a].t)
    /\ UNCHANGED <<bsys, items, clientLock, inbox, process, wire, reqLock, teller, rejected>>

\* "small": the message is sent, the call returns OK; the service takes it later.
Invoke(a) ==
    /\ bsys = "small" /\ api[a].pc = "ask"
    /\ wire' = Append(wire, [a |-> a, t |-> api[a].t, cb |-> api[a].cb])
    /\ api' = [api EXCEPT ![a].pc = "ok"]
    /\ UNCHANGED <<bsys, items, clientLock, inbox, process, reqs, reqLock, lnnWork, teller, rejected, touched>>

ServerTakesMessage ==
    /\ wire # <<>> /\ reqLock = BusNil
    /\ LET m == Head(wire) IN
       \E r \in {"ok", "err"} :
         /\ IsRepeat(m.a, m.t) => r = "err"
         /\ IF r = "ok" THEN Accept(m.a, m.t) /\ UNCHANGED rejected
                        ELSE /\ rejected' = rejected \cup {<<m.a, [t |-> m.t, cb |-> m.cb]>>}
                             /\ UNCHANGED <<reqs, lnnWork>>
    /\ wire' = Tail(wire)
    /\ UNCHANGED <<bsys, items, clientLock, api, inbox, process, reqLock, teller, touched>>

LnnIpcServerJoin(a) == api[a].t[1] = "join" /\ ServerTakesCall(a)
LnnIpcServerLeave(a) == api[a].t[1] = "leave" /\ ServerTakesCall(a)
SmallServerJoin == wire # <<>> /\ Head(wire).t[1] = "join" /\ ServerTakesMessage
SmallServerLeave == wire # <<>> /\ Head(wire).t[1] = "leave" /\ ServerTakesMessage

----------------------------------------------------------------------------
\* The service tells a result.

\* The network builder is done with t, either way.
ResultOf(t) ==
    /\ t \in lnnWork /\ reqLock = BusNil
    /\ lnnWork' = lnnWork \ {t}
    /\ reqLock' = "teller"
    /\ teller' = [t |-> t, i |-> 1, a |-> BusNil]
    /\ UNCHANGED <<bsys, items, clientLock, api, inbox, process, wire, reqs, rejected, touched>>

\* erase(i), then delete *iter2: the element that moved up, or the erased one if it was the last.
Erase(s, i) ==
    LET rest == RemoveAt(s, i) IN
    IF bsys = "standard" /\ i <= Len(rest) THEN [rest EXCEPT ![i].deleted = TRUE] ELSE rest
DeletesAgain(s, i) == bsys = "standard" /\ i < Len(s) /\ s[i + 1].deleted

\* The next request for this result, from where the loop stands.
MutantSkipsOne(s) == {j \in DOMAIN s : j > teller.i /\ s[j].t = teller.t}
NextFor(s) == {j \in DOMAIN s : j >= teller.i /\ s[j].t = teller.t}

TellNext ==
    /\ teller.t # BusNil /\ teller.a = BusNil
    /\ LET s == reqs[teller.t[1]]
           hits == NextFor(s)
           upTo == {j \in DOMAIN s : j >= teller.i /\ \A h \in hits : j <= h}
       IN
       IF \E j \in upTo : s[j].deleted
       THEN /\ touched' = TRUE
            /\ UNCHANGED <<inbox, reqs, reqLock, teller>>
       ELSE IF hits = {}
       THEN /\ reqLock' = BusNil /\ teller' = Resting
            /\ UNCHANGED <<inbox, reqs, touched>>
       ELSE LET h == CHOOSE j \in hits : \A k \in hits : j <= k
                a == s[h].a
            IN
            /\ inbox' = IF process[a] = "alive" THEN [inbox EXCEPT ![a] = Append(@, teller.t)] ELSE inbox
            /\ IF bsys = "small"
               THEN /\ reqs' = [reqs EXCEPT ![teller.t[1]] = Erase(s, h)]
                    /\ teller' = [teller EXCEPT !.i = h]
               ELSE teller' = [teller EXCEPT !.i = h, !.a = a] /\ UNCHANGED reqs
            /\ UNCHANGED <<reqLock, touched>>
    /\ UNCHANGED <<bsys, items, clientLock, api, process, wire, lnnWork, rejected>>

\* "standard": the application's callbacks have returned (or it is dead); erase the request.
EraseTold ==
    /\ teller.a # BusNil
    /\ inbox[teller.a] = <<>> \/ process[teller.a] # "alive"
    /\ LET s == reqs[teller.t[1]] IN
       /\ touched' = DeletesAgain(s, teller.i)
       /\ reqs' = [reqs EXCEPT ![teller.t[1]] = Erase(s, teller.i)]
    /\ teller' = [teller EXCEPT !.a = BusNil]
    /\ UNCHANGED <<bsys, items, clientLock, api, inbox, process, wire, reqLock, lnnWork, rejected>>

Telling(sys, kind) == bsys = sys /\ teller.t # BusNil /\ teller.t[1] = kind
LnnIpcNotifyJoinResult == Telling("standard", "join") /\ (TellNext \/ EraseTold)
LnnIpcNotifyLeaveResult == Telling("standard", "leave") /\ (TellNext \/ EraseTold)
SmallNotifyJoinResult == Telling("small", "join") /\ TellNext
SmallNotifyLeaveResult == Telling("small", "leave") /\ TellNext

\* The application: with the lock, unlink one fitting callback and call it unlocked; none left: done.
OnResult(a) ==
    /\ process[a] = "alive" /\ inbox[a] # <<>> /\ clientLock[a] = BusNil
    /\ LET fitting == {it \in items[a] : it.t = Head(inbox[a])} IN
       IF fitting = {}
       THEN inbox' = [inbox EXCEPT ![a] = Tail(@)] /\ UNCHANGED <<items, rejected>>
       ELSE \E it \in fitting :
              /\ items' = [items EXCEPT ![a] = @ \ {it}]
              /\ rejected' = rejected \ {<<a, it>>}
              /\ UNCHANGED inbox
    /\ UNCHANGED <<bsys, clientLock, api, process, wire, reqs, reqLock, lnnWork, teller, touched>>

LnnOnJoinResult(a) == inbox[a] # <<>> /\ Head(inbox[a])[1] = "join" /\ OnResult(a)
LnnOnLeaveResult(a) == inbox[a] # <<>> /\ Head(inbox[a])[1] = "leave" /\ OnResult(a)

----------------------------------------------------------------------------
\* An application dies; the service hears of it some time later.

Die(a) ==
    /\ process[a] = "alive"
    /\ Cardinality({b \in App : process[b] # "alive"}) < MaxDeaths
    /\ process' = [process EXCEPT ![a] = "died"]
    /\ items' = [items EXCEPT ![a] = {}]
    /\ inbox' = [inbox EXCEPT ![a] = <<>>]
    /\ clientLock' = [clientLock EXCEPT ![a] = BusNil]
    /\ api' = [api EXCEPT ![a] = [NoCall EXCEPT !.left = 0]]
    /\ rejected' = {x \in rejected : x[1] # a}
    /\ UNCHANGED <<bsys, wire, reqs, reqLock, lnnWork, teller, touched>>

\* One round of the loop over the vector: st has the vector, the position and whether a deleted one was read.
RemoveStep(st, a) ==
    IF st.bad \/ st.s[st.i].deleted THEN [st EXCEPT !.bad = TRUE]
    ELSE IF st.s[st.i].a # a THEN [st EXCEPT !.i = @ + 1]
    ELSE [st EXCEPT !.s = Erase(@, st.i), !.bad = DeletesAgain(st.s, st.i)]
RemoveRequestInfoByPkgName(s, a) ==
    FoldLeft(LAMBDA st, x : RemoveStep(st, a), [s |-> s, i |-> 1, bad |-> FALSE], s)

BusCenterServerDeathCallback(a) ==
    /\ process[a] = "died" /\ reqLock = BusNil
    /\ process' = [process EXCEPT ![a] = "gone"]
    /\ IF bsys = "small" THEN UNCHANGED <<reqs, touched>>
       ELSE LET after == [k \in Kinds |-> RemoveRequestInfoByPkgName(reqs[k], a)] IN
            /\ reqs' = [k \in Kinds |-> after[k].s]
            /\ touched' = \E k \in Kinds : after[k].bad
    /\ UNCHANGED <<bsys, items, clientLock, api, inbox, wire, reqLock, lnnWork, teller, rejected>>

----------------------------------------------------------------------------
BusCenterNext ==
    /\ ~touched
    /\ \/ \E a \in App, t \in Target, cb \in Callback : JoinLNNInner(a, t, cb) \/ LeaveLNNInner(a, t, cb)
       \/ \E a \in App : AddCbItem(a)
       \/ \E a \in App : api[a].t # BusNil /\ (LnnIpcServerJoin(a) \/ LnnIpcServerLeave(a))
       \/ \E a \in App : Invoke(a)
       \/ SmallServerJoin \/ SmallServerLeave
       \/ \E t \in Target : ResultOf(t)
       \/ LnnIpcNotifyJoinResult \/ LnnIpcNotifyLeaveResult
       \/ SmallNotifyJoinResult \/ SmallNotifyLeaveResult
       \/ \E a \in App : LnnOnJoinResult(a) \/ LnnOnLeaveResult(a)
       \/ \E a \in App : Die(a)
       \/ \E a \in App : BusCenterServerDeathCallback(a)

BusCenterSpec == BusCenterInit /\ [][BusCenterNext]_bcVars

\* Every thread that is not blocked goes on; the network builder finishes what it took up
\* (its timeouts see to that); messages are delivered.
Steps ==
    ~touched /\ \/ \E a \in App : AddCbItem(a) \/ ServerTakesCall(a) \/ Invoke(a) \/ OnResult(a)
                \/ ServerTakesMessage \/ TellNext \/ EraseTold
ResultComes(t) == ~touched /\ ResultOf(t)
BusCenterFairness == WF_bcVars(Steps) /\ \A t \in Target : WF_bcVars(ResultComes(t))
BusCenterLiveSpec == BusCenterSpec /\ BusCenterFairness

----------------------------------------------------------------------------
\* The fields hold what the two programs keep in them.
BusClientTypeOK ==
    /\ bsys \in {"standard", "small"}
    /\ \A a \in App :
         /\ items[a] \subseteq Item
         /\ clientLock[a] \in {BusNil, "api"}
         /\ api[a].pc \in {"idle", "ask", "ok", "err"}
         /\ process[a] \in {"alive", "died", "gone"}
         /\ Range(inbox[a]) \subseteq Target
    /\ \A k \in Kinds : \A j \in DOMAIN reqs[k] : reqs[k][j].t \in Target /\ reqs[k][j].t[1] = k
    /\ lnnWork \subseteq Target
    /\ touched \in BOOLEAN

\* A callback that is listed in an application still has something that will lead to its call: the
\* request on its way, the request the service remembers, or the result on its way back.  The
\* exception is a request of the small system that the service refused after the call had returned OK.
\* In particular a result never overtakes the listing of its callback (JoinLNNInner, LnnOnJoinResult).
ResultNotLost ==
    ~touched =>
    \A a \in App : \A it \in items[a] :
        \/ <<a, it>> \in rejected
        \/ \E j \in DOMAIN wire : wire[j].a = a /\ wire[j].t = it.t
        \/ \E j \in DOMAIN reqs[it.t[1]] : reqs[it.t[1]][j].a = a /\ reqs[it.t[1]][j].t = it.t
        \/ it.t \in Range(inbox[a])

Awaited(a, it) == it \in items[a]
Settled(a, it) == it \notin items[a] \/ <<a, it>> \in rejected

\* A request that was answered with OK, and not refused behind the back of the caller, has its
\* callback called with the result, or the application dies: what JoinLNN and LeaveLNN promise.
ResultDelivered == \A a \in App, it \in Item : Awaited(a, it) ~> Settled(a, it)
=============================================================================
