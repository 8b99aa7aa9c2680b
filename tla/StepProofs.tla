----------------------------- MODULE StepProofs -----------------------------
(***************************************************************************)
(* What one step of the net builder or of a connection fsm can do to the   *)
(* queue, to the connection fsms, to the join timeouts and to the waiting  *)
(* JoinLNN callers: every handler does what AnyStep allows, which no       *)
(* longer mentions the handlers.                                           *)
(***************************************************************************)
EXTENDS LnnProofs

-----------------------------------------------------------------------------
(* The effect of a handler of the connection fsm f, whose record goes from *)
(* r to n, on a message of type w, with q the rest of the queue.           *)

\* A handler that leaves the connection fsms, the timeouts and the callers alone.
LEMMA QuietEffect ==
  ASSUME IInv, NEW f \in FsmId, NEW q, NEW w, fsm[f].alloc = "live",
         ~(w = "JOIN_LNN" /\ fsm[f].curState \in Joined),
         UNCHANGED <<fsm, listVars, timers, joinWait>>, out' = {},
         \/ queue' = q
         \/ \E m \in Message : queue' = Append(q, m) /\ FromFsm(f, m)
  PROVE  FsmEffect(f, q, w)
<1>1. Others(f) /\ QueueEffect(f, q)
  BY ZenonT(60) DEF Others, QueueEffect
<1>2. JoinEffect(fsm[f], fsm'[f], joinWait, joinWait')
  BY ZenonT(60) DEF JoinEffect
<1>3. WaitEffect(f, fsm[f], fsm'[f], timers, timers', w)
  BY ZenonT(60) DEF WaitEffect
<1> QED
  BY ZenonT(60), <1>1, <1>2, <1>3 DEF FsmEffect

\* A failed join: the fsm dies, its callers are told, its clean-up is requested.
LEMMA FailEffect ==
  ASSUME IInv, NEW f, NEW q, NEW w, Handling(f, q), CompleteJoinFail(f, q)
  PROVE  FsmEffect(f, q, w)
<1> DEFINE n == [fsm[f] EXCEPT
                   !.flag = fsm[f].flag \ (JOIN_ACTIVE \cup {"JOIN_PASSIVE"}),
                   !.nodeInfo = NULL, !.isDead = TRUE]
<1>0. f \in FsmId /\ fsm[f] \in ConnFsm /\ fsm[f].alloc = "live"
  BY ZenonT(60) DEF IInv, TypeOK, Handling
<1>1. /\ n.alloc = fsm[f].alloc /\ n.addr = fsm[f].addr /\ n.isDead
      /\ n.authId = fsm[f].authId /\ n.curState = fsm[f].curState
      /\ n.flag = fsm[f].flag \ (JOIN_ACTIVE \cup {"JOIN_PASSIVE"})
  BY ZenonT(60), <1>0 DEF ConnFsm
<1>2. /\ fsm' = [fsm EXCEPT ![f] = n] /\ timers' = timers \ {<<f, "JOIN_LNN_TIMEOUT">>}
      /\ NotifyJoinResult(f) /\ queue' = Append(q, CleanMsg(f))
      /\ out' = JoinResultCalls(f) /\ UNCHANGED listVars
  BY <1>0 DEF CompleteJoinFail
<1> HIDE DEF n
<1>3. fsm'[f] = n /\ \A g \in FsmId : g # f => fsm'[g] = fsm[g]
  BY ZenonT(60), <1>0, <1>2, OneRecord
<1>4. ~JoinAsked(n)
  BY ZenonT(60), <1>1 DEF JoinAsked, JOIN_ACTIVE
<1>5. Others(f)
  BY SMTT(60), <1>2, <1>3 DEF Others, Armed
<1>6. JoinEffect(fsm[f], n, joinWait, joinWait')
  BY ZenonT(60), <1>0, <1>1, <1>2, <1>4 DEF JoinEffect, NotifyJoinResult, JoinAsked
<1>7. WaitEffect(f, fsm[f], n, timers, timers', w)
  BY ZenonT(60), <1>1 DEF WaitEffect
<1>8. QueueEffect(f, q)
  BY ZenonT(60), <1>0, <1>2, CleanMsgType DEF QueueEffect, FromFsm
<1> QED
  BY ZenonT(60), <1>2, <1>3, <1>4, <1>5, <1>6, <1>7, <1>8 DEF FsmEffect

\* A join that succeeds: the callers are told as the fsm enters STATE_ONLINE.
LEMMA OkEffect ==
  ASSUME IInv, NEW f, NEW q, NEW w, Handling(f, q), CompleteJoinOk(f, q)
  PROVE  FsmEffect(f, q, w)
<1> DEFINE n == [fsm[f] EXCEPT
                   !.flag = (fsm[f].flag \ (JOIN_ACTIVE \cup {"JOIN_PASSIVE"}))
                            \cup {"ONLINE"},
                   !.nodeInfo = NULL, !.curState = "ONLINE"]
           info == fsm[f].nodeInfo
<1>0. f \in FsmId /\ fsm[f] \in ConnFsm /\ fsm[f].alloc = "live"
  BY ZenonT(60) DEF IInv, TypeOK, Handling
<1>1. /\ n.alloc = fsm[f].alloc /\ n.addr = fsm[f].addr
      /\ n.isDead = fsm[f].isDead /\ n.authId = fsm[f].authId
      /\ n.curState = "ONLINE"
      /\ n.flag = (fsm[f].flag \ (JOIN_ACTIVE \cup {"JOIN_PASSIVE"})) \cup {"ONLINE"}
  BY ZenonT(60), <1>0 DEF ConnFsm
<1>2. /\ fsm' = [fsm EXCEPT ![f] = n] /\ timers' = timers \ {<<f, "JOIN_LNN_TIMEOUT">>}
      /\ NotifyJoinResult(f) /\ queue' = q /\ UNCHANGED listVars
      /\ out' = JoinResultCalls(f) \cup
                  (IF ReportOfOnline(info) = "REPORT_NONE" THEN {}
                   ELSE {<<ReportOfOnline(info), info.udid>>})
  BY <1>0 DEF CompleteJoinOk
<1> HIDE DEF n
<1>3. fsm'[f] = n /\ \A g \in FsmId : g # f => fsm'[g] = fsm[g]
  BY ZenonT(60), <1>0, <1>2, OneRecord
<1>4. ~JoinAsked(n)
  BY ZenonT(60), <1>1 DEF JoinAsked, JOIN_ACTIVE
<1>5. Others(f)
  BY SMTT(60), <1>2, <1>3 DEF Others, Armed
<1>6. JoinEffect(fsm[f], n, joinWait, joinWait')
  BY ZenonT(60), <1>0, <1>1, <1>2, <1>4 DEF JoinEffect, NotifyJoinResult, JoinAsked
<1>7. WaitEffect(f, fsm[f], n, timers, timers', w)
  BY ZenonT(60), <1>1 DEF WaitEffect
<1>8. QueueEffect(f, q)
  BY ZenonT(60), <1>1, <1>2, <1>3 DEF QueueEffect
<1> QED
  BY ZenonT(60), <1>2, <1>3, <1>4, <1>5, <1>6, <1>7, <1>8 DEF FsmEffect

\* The leave is complete: the fsm dies, and a join request stays for later.
LEMMA LeaveEffect ==
  ASSUME IInv, NEW f, NEW q, NEW w, Handling(f, q), w # "JOIN_LNN",
         fsm[f].curState \in Joined, CompleteLeaveLNN(f, q)
  PROVE  FsmEffect(f, q, w)
<1> DEFINE n == [fsm[f] EXCEPT
                   !.flag = fsm[f].flag \ (LEAVE_ACTIVE \cup {"LEAVE_PASSIVE", "ONLINE"}),
                   !.isDead = TRUE, !.curState = "LEAVING"]
<1>0. f \in FsmId /\ fsm[f] \in ConnFsm /\ fsm[f].alloc = "live"
  BY ZenonT(60) DEF IInv, TypeOK, Handling
<1>1. /\ n.alloc = fsm[f].alloc /\ n.addr = fsm[f].addr /\ n.isDead
      /\ n.authId = fsm[f].authId /\ n.curState = "LEAVING"
      /\ n.flag = fsm[f].flag \ (LEAVE_ACTIVE \cup {"LEAVE_PASSIVE", "ONLINE"})
  BY ZenonT(60), <1>0 DEF ConnFsm
<1>2. /\ fsm' = [fsm EXCEPT ![f] = n] /\ timers' = timers \ {<<f, "LEAVE_LNN_TIMEOUT">>}
      /\ joinWait' = joinWait /\ queue' = Append(q, CleanMsg(f)) /\ UNCHANGED listVars
      /\ out' = OfflineCalls(f) \cup (IF "LEAVE_REQUEST" \in fsm[f].flag
                  THEN {<<"LeaveResult", fsm[f].peerNetworkId>>} ELSE {})
  BY <1>0 DEF CompleteLeaveLNN
<1> HIDE DEF n
<1>3. fsm'[f] = n /\ \A g \in FsmId : g # f => fsm'[g] = fsm[g]
  BY ZenonT(60), <1>0, <1>2, OneRecord
<1>4. JoinAsked(n) <=> JoinAsked(fsm[f])
  BY ZenonT(60), <1>1 DEF JoinAsked, LEAVE_ACTIVE
<1>5. Others(f)
  BY SMTT(60), <1>2, <1>3 DEF Others, Armed
<1>6. JoinEffect(fsm[f], n, joinWait, joinWait')
  BY ZenonT(60), <1>0, <1>1, <1>2, <1>4 DEF JoinEffect, Joined
<1>7. WaitEffect(f, fsm[f], n, timers, timers', w)
  BY ZenonT(60), <1>1 DEF WaitEffect
<1>8. QueueEffect(f, q)
  BY ZenonT(60), <1>0, <1>2, CleanMsgType DEF QueueEffect, FromFsm
<1> QED
  BY ZenonT(60), <1>2, <1>3, <1>5, <1>6, <1>7, <1>8 DEF FsmEffect

\* NotifyJoinResult on its own: only the callers and the flag change.
LEMMA NotifyEffect ==
  ASSUME IInv, NEW f, NEW q, NEW w, Handling(f, q), OnlyNotifyJoinResult(f, q)
  PROVE  FsmEffect(f, q, w)
<1> DEFINE n == [fsm[f] EXCEPT !.flag = fsm[f].flag \ JOIN_ACTIVE]
<1>0. f \in FsmId /\ fsm[f] \in ConnFsm /\ fsm[f].alloc = "live"
  BY ZenonT(60) DEF IInv, TypeOK, Handling
<1>1. /\ n.alloc = fsm[f].alloc /\ n.addr = fsm[f].addr
      /\ n.isDead = fsm[f].isDead /\ n.authId = fsm[f].authId
      /\ n.curState = fsm[f].curState /\ n.flag = fsm[f].flag \ JOIN_ACTIVE
  BY ZenonT(60), <1>0 DEF ConnFsm
<1>2. /\ fsm' = [fsm EXCEPT ![f] = n] /\ NotifyJoinResult(f) /\ queue' = q
      /\ out' = JoinResultCalls(f) /\ timers' = timers /\ UNCHANGED listVars
  BY <1>0 DEF OnlyNotifyJoinResult
<1> HIDE DEF n
<1>3. fsm'[f] = n /\ \A g \in FsmId : g # f => fsm'[g] = fsm[g]
  BY ZenonT(60), <1>0, <1>2, OneRecord
<1>4. ~JoinAsked(n) /\ (Passive(n) <=> Passive(fsm[f]))
  BY ZenonT(60), <1>1 DEF JoinAsked, JOIN_ACTIVE, Passive
<1>5. Others(f)
  BY ZenonT(60), <1>2, <1>3 DEF Others
<1>6. JoinEffect(fsm[f], n, joinWait, joinWait')
  BY ZenonT(60), <1>0, <1>1, <1>2, <1>4 DEF JoinEffect, NotifyJoinResult, JoinAsked
<1>7. WaitEffect(f, fsm[f], n, timers, timers', w)
  BY ZenonT(60), <1>1, <1>2, <1>4 DEF WaitEffect
<1>8. QueueEffect(f, q)
  BY ZenonT(60), <1>1, <1>2, <1>3 DEF QueueEffect
<1> QED
  BY ZenonT(60), <1>2, <1>3, <1>4, <1>5, <1>6, <1>7, <1>8 DEF FsmEffect

\* A transition to another state, with the fsm's timeouts and a message to itself.
LEMMA TransitEffect ==
  ASSUME IInv, NEW f, NEW w, Handling(f, Rest), NEW s, w # "JOIN_LNN",
         fsm' = [fsm EXCEPT ![f].curState = s],
         \A g \in FsmId : Armed(g, timers) => Armed(g, timers'),
         UNCHANGED <<listVars, joinWait>>, out' = {},
         \/ queue' = Rest
         \/ \E m \in Message : queue' = Append(Rest, m) /\ FromFsm(f, m),
         s \in Joined => fsm[f].isDead \/ fsm[f].curState \in Joined,
         fsm[f].curState \in Joined => s \in Joined,
         s # "NULL" /\ (s = "AUTH" => fsm[f].curState = "NULL"),
         s = "SYNC_DEVICE_INFO" =>
           /\ fsm[f].curState = "AUTH" /\ w = "AUTH_KEY_GENERATED"
  PROVE  FsmEffect(f, Rest, w)
<1> DEFINE n == [fsm[f] EXCEPT !.curState = s]
<1>0. f \in FsmId /\ fsm[f] \in ConnFsm /\ fsm[f].alloc = "live"
  BY ZenonT(60) DEF IInv, TypeOK, Handling
<1>1. /\ n.alloc = fsm[f].alloc /\ n.addr = fsm[f].addr
      /\ n.isDead = fsm[f].isDead /\ n.authId = fsm[f].authId
      /\ n.curState = s /\ n.flag = fsm[f].flag
  BY ZenonT(60), <1>0 DEF ConnFsm
<1>2. fsm' = [fsm EXCEPT ![f] = n]
  BY <1>0 DEF ConnFsm
<1> HIDE DEF n
<1>3. fsm'[f] = n /\ \A g \in FsmId : g # f => fsm'[g] = fsm[g]
  BY ZenonT(60), <1>0, <1>2, OneRecord
<1>4. (JoinAsked(n) <=> JoinAsked(fsm[f])) /\ (Passive(n) <=> Passive(fsm[f]))
  BY ZenonT(60), <1>1 DEF JoinAsked, Passive
<1>5. Others(f)
  BY ZenonT(60), <1>3 DEF Others
<1>6. JoinEffect(fsm[f], n, joinWait, joinWait')
  BY ZenonT(60), <1>0, <1>1, <1>4 DEF JoinEffect
<1>7. WaitEffect(f, fsm[f], n, timers, timers', w)
  BY ZenonT(60), <1>0, <1>1, <1>4 DEF WaitEffect
<1>8. QueueEffect(f, Rest)
  BY ZenonT(60), <1>1, <1>3 DEF QueueEffect
<1> QED
  BY ZenonT(60), <1>3, <1>5, <1>6, <1>7, <1>8 DEF FsmEffect

\* The join begins: the fsm has an authentication and its timeout.
LEMMA BeginEffect ==
  ASSUME IInv, NEW f, Handling(f, Rest), fsm[f].curState = "AUTH", BeginVerify(f)
  PROVE  FsmEffect(f, Rest, "JOIN_LNN")
<1> DEFINE n == [fsm[f] EXCEPT !.authId = nextAuth + 1]
<1>0. f \in FsmId /\ fsm[f] \in ConnFsm /\ fsm[f].alloc = "live"
  BY ZenonT(60) DEF IInv, TypeOK, Handling
<1>1. nextAuth + 1 # 0
  BY SMTT(60) DEF IInv, TypeOK
<1>2. /\ n.alloc = fsm[f].alloc /\ n.addr = fsm[f].addr
      /\ n.isDead = fsm[f].isDead /\ n.authId = nextAuth + 1
      /\ n.curState = "AUTH" /\ n.flag = fsm[f].flag
  BY ZenonT(60), <1>0 DEF ConnFsm
<1>3. /\ fsm' = [fsm EXCEPT ![f] = n] /\ queue' = Rest
      /\ out' = {} /\ timers' = timers \cup {<<f, "JOIN_LNN_TIMEOUT">>}
      /\ UNCHANGED listVars /\ joinWait' = joinWait
  BY <1>0 DEF BeginVerify, ConnFsm, waitVars
<1> HIDE DEF n
<1>4. fsm'[f] = n /\ \A g \in FsmId : g # f => fsm'[g] = fsm[g]
  BY ZenonT(60), <1>0, <1>3, OneRecord
<1>5. (JoinAsked(n) <=> JoinAsked(fsm[f])) /\ (Passive(n) <=> Passive(fsm[f]))
  BY ZenonT(60), <1>2 DEF JoinAsked, Passive
<1>6. Others(f) /\ Armed(f, timers')
  BY ZenonT(60), <1>3, <1>4 DEF Others, Armed
<1>7. JoinEffect(fsm[f], n, joinWait, joinWait')
  BY ZenonT(60), <1>0, <1>1, <1>2, <1>3, <1>5 DEF JoinEffect, Joined
<1>8. WaitEffect(f, fsm[f], n, timers, timers', "JOIN_LNN")
  BY ZenonT(60), <1>2, <1>5, <1>6 DEF WaitEffect
<1>9. QueueEffect(f, Rest) /\ fsm[f].curState \notin Joined
  BY ZenonT(60), <1>2, <1>3, <1>4 DEF QueueEffect, Joined
<1> QED
  BY ZenonT(60), <1>3, <1>4, <1>6, <1>7, <1>8, <1>9 DEF FsmEffect

\* A handler that gives up, or does nothing.
LEMMA EndEffect ==
  ASSUME IInv, NEW f, NEW q, NEW w, Handling(f, q),
         ~(w = "JOIN_LNN" /\ fsm[f].curState \in Joined),
         \/ Ignore(q) \/ NullNodeInfo(q) \/ OnJoinFail(f, q)
         \/ TryCancelJoinProcedure(f, q)
         \/ CompleteJoinFail(f, q) \/ OnlyNotifyJoinResult(f, q)
  PROVE  FsmEffect(f, q, w)
<1>0. f \in FsmId /\ fsm[f].alloc = "live"
  BY DEF Handling
<1>1. CASE Ignore(q) \/ NullNodeInfo(q)
  <2>1. UNCHANGED <<fsm, listVars, timers, joinWait>> /\ out' = {} /\ queue' = q
    BY ZenonT(60), <1>1 DEF Ignore, NullNodeInfo, waitVars
  <2> QED
    BY ZenonT(60), <1>0, <2>1, QuietEffect
<1>2. CASE CompleteJoinFail(f, q) \/ OnlyNotifyJoinResult(f, q)
  BY ZenonT(60), <1>2, FailEffect, NotifyEffect
<1> QED
  BY ZenonT(60), <1>1, <1>2 DEF OnJoinFail, TryCancelJoinProcedure

\* The connection fsm goes to STATE_ONLINE; a dead one changes nothing but its state.
LEMMA OnlineEffect ==
  ASSUME IInv, NEW f, NEW w, Handling(f, Rest), w # "JOIN_LNN",
         fsm[f].curState = "CLEAN_INVALID_CONN", EnterOnline(f, Rest)
  PROVE  FsmEffect(f, Rest, w)
<1>0. fsm[f].curState \notin Joined
  BY SMTT(60) DEF Joined
<1>1. CASE fsm[f].isDead
  <2>1. /\ fsm' = [fsm EXCEPT ![f].curState = "ONLINE"] /\ queue' = Rest /\ out' = {}
        /\ timers' = timers /\ UNCHANGED <<listVars, joinWait>>
    BY ZenonT(60), <1>1 DEF EnterOnline, waitVars
  <2>2. \A g \in FsmId : Armed(g, timers) => Armed(g, timers')
    BY ZenonT(60), <2>1
  <2> QED
    BY ZenonT(60), <1>0, <1>1, <2>1, <2>2, TransitEffect
<1>2. CASE NullNodeInfo(Rest)
  BY ZenonT(60), <1>2, EndEffect
<1>3. CASE CompleteJoinOk(f, Rest)
  BY ZenonT(60), <1>3, OkEffect
<1> QED
  BY ZenonT(60), <1>1, <1>2, <1>3 DEF EnterOnline

\* The handlers of STATE_AUTH.
LEMMA AuthStateEffect ==
  ASSUME IInv, NEW f \in FsmId,
         OnJoinLNNInAuth(f) \/ OnAuthKeyGeneratedInAuth(f) \/ OnAuthDoneInAuth(f)
  PROVE  FsmReacts(f)
<1>1. Handling(f, Rest)
  BY ZenonT(60), DispatchSound DEF OnJoinLNNInAuth, OnAuthKeyGeneratedInAuth, OnAuthDoneInAuth
<1>2. fsm[f].curState = "AUTH" /\ fsm[f].curState \notin Joined
  BY SMTT(60) DEF InState, OnJoinLNNInAuth, OnAuthKeyGeneratedInAuth, OnAuthDoneInAuth, Joined
<1>4. CASE OnJoinLNNInAuth(f)
  <2>1. \/ OnlyNotifyJoinResult(f, Rest) \/ Ignore(Rest) \/ BeginVerify(f)
        \/ CompleteJoinFail(f, Rest)
    BY ZenonT(60), <1>4 DEF OnJoinLNNInAuth
  <2>2. CASE Ignore(Rest)
    <3>1. UNCHANGED <<fsm, listVars, timers, joinWait>> /\ out' = {} /\ queue' = Rest
      BY ZenonT(60), <2>2 DEF Ignore, waitVars
    <3> QED
      BY ZenonT(60), <1>1, <1>2, <1>4, <3>1, QuietEffect DEF OnJoinLNNInAuth, Handling, FsmReacts
  <2> QED
    BY ZenonT(60), <1>1, <1>2, <1>4, <2>1, <2>2, NotifyEffect, BeginEffect, FailEffect
       DEF OnJoinLNNInAuth, FsmReacts
<1>5. CASE OnAuthKeyGeneratedInAuth(f)
  <2>0. Dispatch(f, "AUTH_KEY_GENERATED")
    BY ZenonT(60), <1>5 DEF OnAuthKeyGeneratedInAuth
  <2>1. CASE fsm[f].isDead
    <3>1. UNCHANGED <<fsm, listVars, timers, joinWait>> /\ out' = {} /\ queue' = Rest
      BY ZenonT(60), <1>5, <2>1 DEF OnAuthKeyGeneratedInAuth, Ignore, waitVars
    <3> QED
      BY ZenonT(60), <1>1, <1>2, <2>0, <3>1, QuietEffect DEF Handling, FsmReacts
  <2>2. CASE ~fsm[f].isDead
    <3>1. /\ fsm' = [fsm EXCEPT ![f].curState = "SYNC_DEVICE_INFO"]
          /\ queue' = Append(Rest, FsmMsg(f, "SYNC_DEVICE_INFO"))
          /\ timers \subseteq timers' /\ out' = {} /\ UNCHANGED <<listVars, joinWait>>
      BY ZenonT(60), <1>5, <2>2 DEF OnAuthKeyGeneratedInAuth, waitVars
    <3>2. /\ FsmMsg(f, "SYNC_DEVICE_INFO") \in Message
          /\ FromFsm(f, FsmMsg(f, "SYNC_DEVICE_INFO"))
      BY SMTT(60), <2>2, FsmMsgType DEF FromFsm, FsmData
    <3>3. \A g \in FsmId : Armed(g, timers) => Armed(g, timers')
      BY ZenonT(60), <3>1 DEF Armed
    <3>4. "SYNC_DEVICE_INFO" \notin Joined
      BY SMTT(60) DEF Joined
    <3>5. FsmEffect(f, Rest, "AUTH_KEY_GENERATED")
      BY ZenonT(60), <1>1, <1>2, <3>1, <3>2, <3>3, <3>4, TransitEffect
    <3> QED
      BY ZenonT(60), <2>0, <3>5 DEF FsmReacts
  <2> QED
    BY ZenonT(60), <2>1, <2>2
<1>6. CASE OnAuthDoneInAuth(f)
  <2>0. Dispatch(f, "AUTH_DONE") /\ (Ignore(Rest) \/ CompleteJoinFail(f, Rest))
    BY ZenonT(60), <1>6 DEF OnAuthDoneInAuth
  <2>1. CASE Ignore(Rest)
    <3>1. UNCHANGED <<fsm, listVars, timers, joinWait>> /\ out' = {} /\ queue' = Rest
      BY ZenonT(60), <2>1 DEF Ignore, waitVars
    <3> QED
      BY ZenonT(60), <1>1, <1>2, <2>0, <3>1, QuietEffect DEF Handling, FsmReacts
  <2> QED
    BY ZenonT(60), <1>1, <2>0, <2>1, FailEffect DEF FsmReacts
<1> QED
  BY <1>4, <1>5, <1>6

\* A handler that changes nothing of its record but what it knows of the peer.
LEMMA SameEffect ==
  ASSUME IInv, NEW f, NEW q, NEW w, Handling(f, q), NEW n, w # "JOIN_LNN",
         fsm' = [fsm EXCEPT ![f] = n], n.alloc = fsm[f].alloc, n.addr = fsm[f].addr,
         n.isDead = fsm[f].isDead, n.authId = fsm[f].authId,
         n.curState = fsm[f].curState, n.flag = fsm[f].flag,
         UNCHANGED <<listVars, timers, joinWait>>, out' = {}, queue' = q
  PROVE  FsmEffect(f, q, w)
<1>0. f \in FsmId /\ fsm[f].alloc = "live"
  BY ZenonT(60) DEF Handling
<1>1. fsm'[f] = n /\ \A g \in FsmId : g # f => fsm'[g] = fsm[g]
  BY ZenonT(60), <1>0, OneRecord
<1>2. (JoinAsked(n) <=> JoinAsked(fsm[f])) /\ (Passive(n) <=> Passive(fsm[f]))
  BY ZenonT(60) DEF JoinAsked, Passive
<1>3. Others(f) /\ QueueEffect(f, q)
  BY ZenonT(60), <1>1 DEF Others, QueueEffect
<1>4. JoinEffect(fsm[f], n, joinWait, joinWait')
  BY ZenonT(60), <1>0, <1>2 DEF JoinEffect
<1>5. WaitEffect(f, fsm[f], n, timers, timers', w)
  BY ZenonT(60), <1>2 DEF WaitEffect
<1> QED
  BY ZenonT(60), <1>1, <1>3, <1>4, <1>5 DEF FsmEffect

\* The handlers of STATE_SYNC_DEVICE_INFO.
LEMMA SyncInfoStateEffect ==
  ASSUME IInv, NEW f \in FsmId,
         OnSyncDeviceInfo(f) \/ OnSyncDeviceInfoDone(f) \/ OnAuthDoneInSyncInfo(f)
  PROVE  FsmReacts(f)
<1>1. Handling(f, Rest) /\ fsm[f] \in ConnFsm
  BY ZenonT(60), DispatchSound DEF OnSyncDeviceInfo, OnSyncDeviceInfoDone,
     OnAuthDoneInSyncInfo, IInv, TypeOK
<1>2. fsm[f].curState = "SYNC_DEVICE_INFO" /\ fsm[f].curState \notin Joined
  BY SMTT(60) DEF InState, OnSyncDeviceInfo, OnSyncDeviceInfoDone, OnAuthDoneInSyncInfo,
     Joined
<1>3. PICK w : Dispatch(f, w) /\ w \in {"SYNC_DEVICE_INFO", "SYNC_DEVICE_INFO_DONE",
                                        "AUTH_DONE"}
  BY ZenonT(60) DEF OnSyncDeviceInfo, OnSyncDeviceInfoDone, OnAuthDoneInSyncInfo
<1>4. w # "JOIN_LNN" /\ w \notin {"STOP", "DEINIT"}
  BY SMTT(60), <1>3
<1>5. CASE Ignore(Rest) \/ CompleteJoinFail(f, Rest)
  BY ZenonT(60), <1>1, <1>3, <1>4, <1>5, EndEffect DEF FsmReacts
<1>6. CASE OnSyncDeviceInfo(f) /\ ~Ignore(Rest) /\ ~CompleteJoinFail(f, Rest)
  <2>1. UNCHANGED <<fsm, listVars, timers, joinWait>> /\ out' = {} /\ queue' = Rest
    BY ZenonT(60), <1>6 DEF OnSyncDeviceInfo, waitVars
  <2> QED
    BY ZenonT(60), <1>1, <1>3, <1>4, <2>1, QuietEffect DEF Handling, FsmReacts
<1>7. CASE OnSyncDeviceInfoDone(f) /\ ~Ignore(Rest) /\ ~CompleteJoinFail(f, Rest)
  <2> DEFINE k == Head(queue).networkId
             i == ParsePeerNodeInfo(f, k)
             n == [fsm[f] EXCEPT !.nodeInfo = i, !.peerNetworkId = k]
  <2>1. /\ fsm' = [fsm EXCEPT ![f] = n] /\ queue' = Rest /\ out' = {}
        /\ UNCHANGED <<listVars, timers, joinWait>>
    BY ZenonT(60), <1>7 DEF OnSyncDeviceInfoDone, waitVars
  <2> HIDE DEF i, k
  <2>2. /\ n.alloc = fsm[f].alloc /\ n.addr = fsm[f].addr
        /\ n.isDead = fsm[f].isDead /\ n.authId = fsm[f].authId
        /\ n.curState = fsm[f].curState /\ n.flag = fsm[f].flag
    BY ZenonT(60), <1>1 DEF ConnFsm
  <2> HIDE DEF n
  <2> QED
    BY ZenonT(60), <1>1, <1>3, <1>4, <2>1, <2>2, SameEffect DEF FsmReacts
<1>8. CASE OnAuthDoneInSyncInfo(f) /\ ~Ignore(Rest) /\ ~CompleteJoinFail(f, Rest)
  <2>1. /\ ~fsm[f].isDead
        /\ fsm' = [fsm EXCEPT ![f].curState = "CLEAN_INVALID_CONN"]
        /\ queue' = Append(Rest, FsmMsg(f, "LEAVE_INVALID_CONN")) /\ out' = {}
        /\ UNCHANGED <<listVars, timers, joinWait>>
    BY ZenonT(60), <1>8 DEF OnAuthDoneInSyncInfo, waitVars
  <2>2. /\ FsmMsg(f, "LEAVE_INVALID_CONN") \in Message
        /\ FromFsm(f, FsmMsg(f, "LEAVE_INVALID_CONN"))
    BY SMTT(60), <2>1, FsmMsgType DEF FromFsm, FsmData
  <2>3. /\ \A g \in FsmId : Armed(g, timers) => Armed(g, timers')
        /\ "CLEAN_INVALID_CONN" \notin Joined
    BY SMTT(60), <2>1 DEF Joined, Armed
  <2> QED
    BY ZenonT(60), <1>1, <1>2, <1>3, <1>4, <2>1, <2>2, <2>3, TransitEffect DEF FsmReacts
<1> QED
  BY ZenonT(60), <1>5, <1>6, <1>7, <1>8

\* What the states before STATE_ONLINE do alike.
LEMMA BeforeOnlineEffect ==
  ASSUME IInv, NEW f \in FsmId,
         \/ OnLeaveLNNBeforeOnline(f) \/ OnDisconnectBeforeOnline(f)
         \/ OnNotTrustedBeforeOnline(f)
  PROVE  FsmReacts(f)
<1>1. Handling(f, Rest)
  BY ZenonT(60), DispatchSound DEF OnLeaveLNNBeforeOnline, OnDisconnectBeforeOnline,
     OnNotTrustedBeforeOnline
<1>2. PICK w : Dispatch(f, w) /\ w \in {"LEAVE_LNN", "DISCONNECT", "NOT_TRUSTED"}
  BY ZenonT(60) DEF OnLeaveLNNBeforeOnline, OnDisconnectBeforeOnline,
     OnNotTrustedBeforeOnline
<1>3. w # "JOIN_LNN" /\ w \notin {"STOP", "DEINIT"}
  BY SMTT(60), <1>2
<1>4. TryCancelJoinProcedure(f, Rest) \/ OnJoinFail(f, Rest)
  BY ZenonT(60) DEF OnLeaveLNNBeforeOnline, OnDisconnectBeforeOnline,
     OnNotTrustedBeforeOnline
<1> QED
  BY ZenonT(60), <1>1, <1>2, <1>3, <1>4, EndEffect DEF FsmReacts

\* The handlers of STATE_CLEAN_INVALID_CONN.
LEMMA CleanInvalidStateEffect ==
  ASSUME IInv, NEW f \in FsmId, OnLeaveInvalidConn(f) \/ OnInitiateOnline(f)
  PROVE  FsmReacts(f)
<1>1. Handling(f, Rest) /\ fsm[f].curState = "CLEAN_INVALID_CONN"
  BY ZenonT(60), DispatchSound DEF OnLeaveInvalidConn, OnInitiateOnline, InState
<1>2. PICK w : Dispatch(f, w) /\ w \in {"LEAVE_INVALID_CONN", "INITIATE_ONLINE"}
  BY ZenonT(60) DEF OnLeaveInvalidConn, OnInitiateOnline
<1>3. w # "JOIN_LNN" /\ w \notin {"STOP", "DEINIT"}
  BY SMTT(60), <1>2
<1>4. CASE EnterOnline(f, Rest)
  BY ZenonT(60), <1>1, <1>2, <1>3, <1>4, OnlineEffect DEF FsmReacts
<1>5. CASE NullNodeInfo(Rest) \/ Ignore(Rest)
  BY ZenonT(60), <1>1, <1>2, <1>3, <1>5, EndEffect DEF FsmReacts
<1>6. CASE OnLeaveInvalidConn(f) /\ fsm[f].nodeInfo # NULL /\ ~fsm[f].isDead
           /\ ~EnterOnline(f, Rest)
  <2> DEFINE info == fsm[f].nodeInfo
             old == ledger[info.udid]
             invalid == IF old.status = "online" THEN InvalidTypes(f, old) ELSE {}
             m(t) == [h |-> NB, what |-> "LEAVE_INVALID_CONN",
                      oldNetworkId |-> old.networkId, addrType |-> t,
                      newNetworkId |-> info.networkId]
  <2>1. PICK t \in invalid : Ignore(Append(Rest, m(t)))
    BY ZenonT(60), <1>6 DEF OnLeaveInvalidConn
  <2>2. info \in NodeInfo
    BY ZenonT(60), <1>6 DEF IInv, TypeOK, ConnFsm
  <2>3. info.udid \in Udid /\ info.networkId \in NetworkId
    BY ZenonT(60), <2>2 DEF NodeInfo
  <2>4. old.networkId \in 0 .. MaxNet
    BY ZenonT(60), <2>3 DEF IInv, TypeOK, LedgerNode
  <2>5. t \in AddrTypes \cup {"MAX"}
    BY ZenonT(60), <2>1 DEF InvalidTypes, TypeOfAddr, AddrTypes
  <2>6. m(t) \in Message /\ m(t).h = NB /\ m(t).what = "LEAVE_INVALID_CONN"
    BY ZenonT(60), <2>3, <2>4, <2>5 DEF Message
  <2> HIDE DEF m, invalid
  <2>7. FromFsm(f, m(t))
    BY ZenonT(60), <2>6 DEF FromFsm
  <2>8. /\ UNCHANGED <<fsm, listVars, timers, joinWait>> /\ out' = {}
        /\ queue' = Append(Rest, m(t))
    BY ZenonT(60), <2>1 DEF Ignore, waitVars
  <2> QED
    BY ZenonT(60), <1>1, <1>2, <1>3, <2>6, <2>7, <2>8, QuietEffect DEF Handling, FsmReacts
<1> QED
  BY ZenonT(60), <1>4, <1>5, <1>6 DEF OnLeaveInvalidConn, OnInitiateOnline

\* The handlers of STATE_ONLINE and STATE_LEAVING.
LEMMA OnlineStateEffect ==
  ASSUME IInv, NEW f \in FsmId,
         OnJoinLNNWhenJoined(f) \/ LeaveLNNInOnline(f) \/ OnSyncOfflineDone(f)
  PROVE  FsmReacts(f)
<1>1. Handling(f, Rest)
  BY ZenonT(60), DispatchSound DEF OnJoinLNNWhenJoined, LeaveLNNInOnline, OnSyncOfflineDone
<1>2. CASE OnJoinLNNWhenJoined(f)
  BY ZenonT(60), <1>1, <1>2, NotifyEffect DEF OnJoinLNNWhenJoined, FsmReacts
<1>3. CASE LeaveLNNInOnline(f) \/ OnSyncOfflineDone(f)
  <2>1. PICK w : /\ Dispatch(f, w)
                 /\ w \in {"LEAVE_LNN", "NOT_TRUSTED", "DISCONNECT", "SYNC_OFFLINE_DONE"}
    BY ZenonT(60), <1>3 DEF LeaveLNNInOnline, OnSyncOfflineDone
  <2>2. w # "JOIN_LNN" /\ w \notin {"STOP", "DEINIT"} /\ fsm[f].curState \in Joined
    BY SMTT(60), <1>3, <2>1 DEF LeaveLNNInOnline, OnSyncOfflineDone, InState, Joined
  <2>3. CASE Ignore(Rest) \/ CompleteLeaveLNN(f, Rest)
    BY ZenonT(60), <1>1, <2>1, <2>2, <2>3, EndEffect, LeaveEffect DEF FsmReacts
  <2>4. CASE ~Ignore(Rest) /\ ~CompleteLeaveLNN(f, Rest)
    <3>1. /\ fsm' = [fsm EXCEPT ![f].curState = "LEAVING"]
          /\ timers' = timers \cup {<<f, "LEAVE_LNN_TIMEOUT">>}
          /\ queue' = Rest /\ out' = {} /\ UNCHANGED <<listVars, joinWait>>
      BY ZenonT(60), <1>3, <2>4 DEF LeaveLNNInOnline, OnSyncOfflineDone, waitVars
    <3>2. \A g \in FsmId : Armed(g, timers) => Armed(g, timers')
      BY ZenonT(60), <3>1 DEF Armed
    <3>3. "LEAVING" \in Joined
      BY SMTT(60) DEF Joined
    <3> QED
      BY ZenonT(60), <1>1, <2>1, <2>2, <3>1, <3>2, <3>3, TransitEffect DEF FsmReacts
  <2> QED
    BY ZenonT(60), <2>3, <2>4
<1> QED
  BY ZenonT(60), <1>2, <1>3

\* START enters STATE_AUTH, and a message no state has a case for is freed.
LEMMA StartEffect ==
  ASSUME IInv, NEW f \in FsmId, ProcessStartMessage(f) \/ FreeUnhandledMessage(f)
  PROVE  FsmReacts(f)
<1>1. CASE FreeUnhandledMessage(f)
  <2> DEFINE w == Head(queue).what
  <2>1. Dispatch(f, w) /\ Ignore(Rest) /\ w \notin FsmCtrl \cup Handled(fsm[f].curState)
    BY ZenonT(60), <1>1 DEF FreeUnhandledMessage
  <2> HIDE DEF w
  <2>2. w \notin {"STOP", "DEINIT"}
    BY ZenonT(60), <2>1 DEF FsmCtrl
  <2>3. ~(w = "JOIN_LNN" /\ fsm[f].curState \in Joined)
    BY SMTT(60), <2>1 DEF Handled, Joined
  <2> QED
    BY ZenonT(60), <2>1, <2>2, <2>3, DispatchSound, EndEffect DEF FsmReacts
<1>2. CASE ProcessStartMessage(f)
  <2>1. Dispatch(f, "START") /\ Handling(f, Rest)
    BY ZenonT(60), <1>2, DispatchSound DEF ProcessStartMessage
  <2>2. CASE Ignore(Rest)
    BY ZenonT(60), <2>1, <2>2, EndEffect DEF FsmReacts
  <2>3. CASE ~Ignore(Rest)
    <3>1. /\ fsm[f].curState = "NULL" /\ fsm' = [fsm EXCEPT ![f].curState = "AUTH"]
          /\ queue' = Rest /\ out' = {} /\ UNCHANGED <<listVars, timers, joinWait>>
      BY ZenonT(60), <1>2, <2>3 DEF ProcessStartMessage, InState, waitVars
    <3>2. /\ \A g \in FsmId : Armed(g, timers) => Armed(g, timers')
          /\ "AUTH" \notin Joined /\ "NULL" \notin Joined
      BY SMTT(60), <3>1 DEF Joined, Armed
    <3> QED
      BY ZenonT(60), <2>1, <3>1, <3>2, TransitEffect DEF FsmReacts
  <2> QED
    BY <2>2, <2>3
<1> QED
  BY <1>1, <1>2

\* A step of a connection fsm is one of its handlers, STOP or DEINIT.
LEMMA FsmStepEffect ==
  ASSUME IInv, NEW f \in FsmId, FsmStep(f)
  PROVE  FsmReacts(f) \/ ProcessStopMessage(f) \/ ProcessDeinitMessage(f)
BY ZenonT(60), StartEffect, AuthStateEffect, SyncInfoStateEffect, BeforeOnlineEffect,
   CleanInvalidStateEffect, OnlineStateEffect DEF FsmStep

\* A timeout that nobody waits for any more is dropped; the others end the wait.
LEMMA TimerEffect ==
  ASSUME IInv, NEW f \in FsmId, TimerStep(f)
  PROVE  FsmEffect(f, queue, "")
<1>1. Handling(f, queue)
  <2>1. queue \in Seq(Message) /\ QueueSound(queue, fsm, fsmList, auth)
    BY ZenonT(60) DEF IInv, TypeOK, FsmLifecycle
  <2>2. fsm[f].alloc = "live"
    BY SMTT(60) DEF TimerStep, JoinLNNTimeout, LeaveLNNTimeout, IInv, FsmLifecycle,
       TimersSound, TimerSound
  <2> QED
    BY ZenonT(60), <2>1, <2>2 DEF Handling
<1>2. ASSUME NEW w \in FsmTimeouts, DropTimer(f, w),
             w = "JOIN_LNN_TIMEOUT" =>
               \/ fsm[f].isDead \/ fsm[f].curState \notin {"AUTH", "SYNC_DEVICE_INFO"}
      PROVE  FsmEffect(f, queue, "")
  <2>1. /\ fsm' = fsm /\ queue' = queue /\ out' = {} /\ timers' = timers \ {<<f, w>>}
        /\ UNCHANGED <<listVars, joinWait>>
    BY ZenonT(60), <1>2 DEF DropTimer, waitVars
  <2>2. Others(f)
    BY SMTT(60), <2>1 DEF Others, Armed
  <2>3. w # "JOIN_LNN_TIMEOUT" => (Armed(f, timers') <=> Armed(f, timers))
    BY SMTT(60), <2>1 DEF Armed
  <2>4. WaitEffect(f, fsm[f], fsm'[f], timers, timers', "")
    BY ZenonT(60), <1>2, <2>1, <2>3 DEF WaitEffect
  <2>5. JoinEffect(fsm[f], fsm'[f], joinWait, joinWait')
    BY ZenonT(60), <1>1, <2>1 DEF JoinEffect, Handling
  <2>6. QueueEffect(f, queue)
    BY ZenonT(60), <2>1 DEF QueueEffect
  <2> QED
    BY ZenonT(60), <2>1, <2>2, <2>4, <2>5, <2>6 DEF FsmEffect
<1>3. CASE JoinLNNTimeout(f)
  <2>1. \/ CompleteJoinFail(f, queue)
        \/ /\ DropTimer(f, "JOIN_LNN_TIMEOUT")
           /\ fsm[f].isDead \/ fsm[f].curState \notin {"AUTH", "SYNC_DEVICE_INFO"}
    BY ZenonT(60), <1>3 DEF JoinLNNTimeout
  <2> QED
    BY ZenonT(60), <1>1, <1>2, <2>1, FailEffect DEF FsmTimeouts
<1>4. CASE LeaveLNNTimeout(f)
  <2>1. \/ fsm[f].curState = "LEAVING" /\ CompleteLeaveLNN(f, queue)
        \/ DropTimer(f, "LEAVE_LNN_TIMEOUT")
    BY ZenonT(60), <1>4 DEF LeaveLNNTimeout, InState
  <2> QED
    BY ZenonT(60), <1>1, <1>2, <2>1, LeaveEffect DEF FsmTimeouts, Joined
<1> QED
  BY ZenonT(60), <1>3, <1>4 DEF TimerStep

-----------------------------------------------------------------------------
(* The effect of the net builder's handlers. *)

\* The connection fsms with flags added, and perhaps another cleanInfo.
FlagsAdded(r, flags) ==
  \A g \in FsmId : /\ r[g].alloc = fsm[g].alloc /\ r[g].isDead = fsm[g].isDead
                   /\ r[g].curState = fsm[g].curState /\ r[g].addr = fsm[g].addr
                   /\ r[g].authId = fsm[g].authId
                   /\ r[g].flag = fsm[g].flag \cup flags

\* A handler that only posts to listed connection fsms passes its message on.
LEMMA OnlyPostEffect ==
  ASSUME NEW w, Dispatch(NB, w), w # "JOIN_LNN_REQUEST",
         w = "CLEAN_CONN_FSM" => Head(queue).connFsmId \notin fsmList,
         NEW ms, ToListed(ms), OnlyPost(ms, {})
  PROVE  PassedOn
<1>1. /\ queue' = Rest \o ms /\ out' = {} /\ fsm' = fsm
      /\ UNCHANGED <<listVars, timers, joinWait>>
  BY ZenonT(60) DEF OnlyPost, waitVars
<1>2. \A g \in FsmId : SameFsm(fsm[g], fsm'[g]) /\ (JoinAsked(fsm'[g]) <=> JoinAsked(fsm[g]))
  BY ZenonT(60), <1>1 DEF SameFsm
<1> QED
  BY ZenonT(60), <1>1, <1>2 DEF PassedOn

\* One message to a listed connection fsm, or none.
LEMMA OneToListed ==
  /\ ToListed(<<>>)
  /\ \A m \in Message : /\ m.h \in fsmList /\ m.what \notin {"STOP", "DEINIT"}
                        /\ m.what = "AUTH_KEY_GENERATED" => fsm[m.h].authId # 0
                        => ToListed(<<m>>)
<1>1. ToListed(<<>>)
  BY SMTT(60) DEF ToListed
<1>2. ASSUME NEW m \in Message, m.h \in fsmList, m.what \notin {"STOP", "DEINIT"},
             m.what = "AUTH_KEY_GENERATED" => fsm[m.h].authId # 0
      PROVE  ToListed(<<m>>)
  <2>1. <<m>> \in Seq(Message) /\ \A k \in 1 .. Len(<<m>>) : <<m>>[k] = m
    BY SMTT(60)
  <2> QED
    BY ZenonT(60), <1>2, <2>1 DEF ToListed
<1> QED
  BY ZenonT(60), <1>1, <1>2

\* A walk over fsmList posts to listed connection fsms.
LEMMA WalkToListed ==
  ASSUME IInv, Counted, NEW S \in SUBSET fsmList, NEW s \in Walks(S), NEW w \in FsmData,
         w # "AUTH_KEY_GENERATED"
  PROVE  ToListed(Posts(s, w))
<1>1. S \in SUBSET FsmId /\ w \in FsmCtrl \cup FsmData /\ w \notin {"STOP", "DEINIT"}
  BY ZenonT(60) DEF IInv, TypeOK, FsmData
<1> DEFINE ps == Posts(s, w)
<1>2. /\ ps \in Seq(Message)
      /\ \A k \in 1 .. Len(ps) : ps[k].h \in S /\ ps[k].what = w
  BY SMTT(60), <1>1, PostsType
<1> HIDE DEF ps
<1>3. ToListed(ps)
  BY SMTT(60), <1>1, <1>2 DEF ToListed
<1> QED
  BY ZenonT(60), <1>3 DEF ps

\* Setting flags, and cleanInfo, changes nothing else in a connection fsm.
LEMMA FlagFields ==
  ASSUME IInv, NEW S, NEW flags, NEW r, FlagsAdded(r, flags),
         fsm' = [f \in FsmId |-> IF f \in S THEN r[f] ELSE fsm[f]]
  PROVE  \A g \in FsmId :
           /\ SameFsm(fsm[g], fsm'[g])
           /\ JoinAsked(fsm'[g]) <=> \/ JoinAsked(fsm[g])
                                     \/ g \in S /\ "JOIN_REQUEST" \in flags
<1> SUFFICES ASSUME NEW g \in FsmId
             PROVE  /\ SameFsm(fsm[g], fsm'[g])
                    /\ JoinAsked(fsm'[g]) <=> \/ JoinAsked(fsm[g])
                                              \/ g \in S /\ "JOIN_REQUEST" \in flags
  BY ZenonT(60)
<1>1. CASE g \notin S
  <2>1. fsm'[g] = fsm[g]
    BY ZenonT(60), <1>1
  <2> QED
    BY ZenonT(60), <1>1, <2>1 DEF SameFsm
<1>2. CASE g \in S
  <2>1. fsm'[g] = r[g]
    BY ZenonT(60), <1>2
  <2> QED
    BY ZenonT(60), <1>2, <2>1 DEF SameFsm, JoinAsked, Passive, FlagsAdded
<1> QED
  BY <1>1, <1>2

\* The messages of an authentication, of a device that lost trust and of the end
\* of an offline message are passed on.
LEMMA PassOnEffect ==
  ASSUME IInv, Counted, \/ ProcessAuthDone \/ ProcessSyncDeviceInfoDone
               \/ ProcessAuthDisconnect \/ ProcessDeviceNotTrusted
               \/ ProcessSyncOfflineFinish
  PROVE  PassedOn
<1> DEFINE found == AliveIn(First(ByAuthId(Head(queue).authId)))
<1>1. PICK w : Dispatch(NB, w) /\ w \in {"AUTH_DONE", "SYNC_DEVICE_INFO_DONE",
                                         "DISCONNECT", "NOT_TRUSTED", "SYNC_OFFLINE_FINISH"}
  BY ZenonT(60) DEF ProcessAuthDone, ProcessSyncDeviceInfoDone,
     ProcessAuthDisconnect, ProcessDeviceNotTrusted, ProcessSyncOfflineFinish
<1>2. NBHandling /\ w \notin {"JOIN_LNN_REQUEST", "CLEAN_CONN_FSM"}
  BY SMTT(60), <1>1, NBDispatchSound
<1>3. found \subseteq fsmList
  <2>1. ByAuthId(Head(queue).authId) \in SUBSET fsmList
    BY ZenonT(60) DEF ByAuthId
  <2> QED
    BY ZenonT(60), <2>1, SearchType
<1>4. ASSUME NEW f \in fsmList, NEW v \in FsmData \ {"AUTH_KEY_GENERATED"}
      PROVE  ToListed(<<FsmMsg(f, v)>>)
  <2>1. /\ FsmMsg(f, v) \in Message /\ FsmMsg(f, v).h = f /\ FsmMsg(f, v).what = v
        /\ v \notin {"STOP", "DEINIT", "AUTH_KEY_GENERATED"}
    BY ZenonT(60), <1>4, Listed, FsmMsgType DEF FsmData
  <2> QED
    BY ZenonT(60), <2>1, OneToListed
<1>5. \E ms : ToListed(ms) /\ OnlyPost(ms, {})
  <2>1. CASE OnlyPost(<<>>, {})
    BY ZenonT(60), <2>1, OneToListed
  <2>2. CASE ProcessAuthDone /\ ~OnlyPost(<<>>, {})
    <3> DEFINE m(f) == [h |-> f, what |-> "AUTH_DONE", isSuccess |-> Head(queue).isSuccess]
    <3>1. Head(queue).isSuccess \in BOOLEAN
      BY ZenonT(60), <1>2, <2>2, RequestFields DEF ProcessAuthDone, Dispatch, NBHandling
    <3>2. PICK f \in found : OnlyPost(<<m(f)>>, {})
      BY ZenonT(60), <2>2 DEF ProcessAuthDone, ToFsmOfAuth
    <3>3. f \in fsmList /\ f \in FsmId
      BY ZenonT(60), <1>3, Listed
    <3>4. m(f) \in Message /\ m(f).h = f /\ m(f).what = "AUTH_DONE"
      BY ZenonT(60), <3>1, <3>3 DEF Message
    <3> QED
      BY ZenonT(60), <3>2, <3>3, <3>4, OneToListed
  <2>3. CASE ProcessSyncDeviceInfoDone /\ ~OnlyPost(<<>>, {})
    <3> DEFINE m(f) == [h |-> f, what |-> "SYNC_DEVICE_INFO_DONE",
                        networkId |-> Head(queue).networkId]
    <3>1. Head(queue).networkId \in NetworkId
      BY ZenonT(60), <1>2, <2>3, RequestFields
         DEF ProcessSyncDeviceInfoDone, Dispatch, NBHandling
    <3>2. PICK f \in found : OnlyPost(<<m(f)>>, {})
      BY ZenonT(60), <2>3 DEF ProcessSyncDeviceInfoDone, ToFsmOfAuth
    <3>3. f \in fsmList /\ f \in FsmId
      BY ZenonT(60), <1>3, Listed
    <3>4. m(f) \in Message /\ m(f).h = f /\ m(f).what = "SYNC_DEVICE_INFO_DONE"
      BY ZenonT(60), <3>1, <3>3 DEF Message
    <3> QED
      BY ZenonT(60), <3>2, <3>3, <3>4, OneToListed
  <2>4. CASE ProcessAuthDisconnect /\ ~OnlyPost(<<>>, {})
    <3>1. "DISCONNECT" \in FsmData \ {"AUTH_KEY_GENERATED"}
      BY DEF FsmData
    <3> QED
      BY ZenonT(60), <1>3, <1>4, <2>4, <3>1 DEF ProcessAuthDisconnect, ToFsmOfAuth
  <2>5. CASE ProcessDeviceNotTrusted /\ ~OnlyPost(<<>>, {})
    <3>1. "NOT_TRUSTED" \in FsmData \ {"AUTH_KEY_GENERATED"}
      BY DEF FsmData
    <3>2. AliveIn(FindConnectionFsmByUdid(Head(queue).udid)) \subseteq fsmList
      BY ZenonT(60) DEF AliveIn, FindConnectionFsmByUdid, First, ByNetworkId
    <3> QED
      BY ZenonT(60), <1>4, <2>5, <3>1, <3>2 DEF ProcessDeviceNotTrusted
  <2>6. CASE ProcessSyncOfflineFinish
    <3> DEFINE S == AliveIn(ByNetworkId(Head(queue).networkId))
    <3>1. S \in SUBSET fsmList
      BY ZenonT(60) DEF AliveIn, ByNetworkId
    <3>2. PICK s \in Walks(S) : OnlyPost(Posts(s, "SYNC_OFFLINE_DONE"), {})
      BY ZenonT(60), <2>6 DEF ProcessSyncOfflineFinish
    <3>3. "SYNC_OFFLINE_DONE" \in FsmData /\ "SYNC_OFFLINE_DONE" # "AUTH_KEY_GENERATED"
      BY DEF FsmData
    <3> HIDE DEF S
    <3> QED
      BY ZenonT(60), <3>1, <3>2, <3>3, WalkToListed
  <2> QED
    BY ZenonT(60), <2>1, <2>2, <2>3, <2>4, <2>5, <2>6
<1> QED
  BY ZenonT(60), <1>1, <1>2, <1>5, OnlyPostEffect

\* A handler that posts to all of S, and at most sets flags, passes its message on.
LEMMA FlagEffect ==
  ASSUME IInv, Counted, NEW v, Dispatch(NB, v), v \notin {"JOIN_LNN_REQUEST", "CLEAN_CONN_FSM"},
         NEW S \in SUBSET fsmList, NEW w \in FsmData, w # "AUTH_KEY_GENERATED",
         \E s \in Walks(S) : queue' = Rest \o Posts(s, w),
         \A g \in FsmId : /\ SameFsm(fsm[g], fsm'[g])
                          /\ JoinAsked(fsm'[g]) <=> JoinAsked(fsm[g]),
         UNCHANGED <<listVars, timers, joinWait>>
  PROVE  PassedOn
<1>1. PICK s \in Walks(S) : queue' = Rest \o Posts(s, w)
  BY ZenonT(60)
<1>2. ToListed(Posts(s, w))
  BY ZenonT(60), WalkToListed
<1> QED
  BY ZenonT(60), <1>1, <1>2 DEF PassedOn

\* PostAndFlag changes nothing but flags.
LEMMA AddFlags ==
  ASSUME IInv, NEW S, NEW flags,
         fsm' = [f \in FsmId |-> IF f \in S
                   THEN [fsm[f] EXCEPT !.flag = fsm[f].flag \cup flags] ELSE fsm[f]]
  PROVE  \A g \in FsmId :
           /\ SameFsm(fsm[g], fsm'[g])
           /\ JoinAsked(fsm'[g]) <=> \/ JoinAsked(fsm[g])
                                     \/ g \in S /\ "JOIN_REQUEST" \in flags
<1> DEFINE r == [f \in FsmId |-> [fsm[f] EXCEPT !.flag = fsm[f].flag \cup flags]]
<1>1. FlagsAdded(r, flags)
  BY ZenonT(60) DEF FlagsAdded, IInv, TypeOK, ConnFsm
<1>2. fsm' = [f \in FsmId |-> IF f \in S THEN r[f] ELSE fsm[f]]
  BY ZenonT(60)
<1> HIDE DEF r
<1> QED
  BY ZenonT(60), <1>1, <1>2, FlagFields

\* PostAndFlag with a flag other than JOIN_REQUEST passes its message on.
LEMMA PostAndFlagEffect ==
  ASSUME IInv, Counted, NEW v, Dispatch(NB, v), v \notin {"JOIN_LNN_REQUEST", "CLEAN_CONN_FSM"},
         NEW S \in SUBSET fsmList, NEW w \in FsmData, w # "AUTH_KEY_GENERATED",
         NEW flags, "JOIN_REQUEST" \notin flags, NEW calls,
         PostAndFlag(S, w, flags, calls), joinWait' = joinWait
  PROVE  PassedOn /\ out' = calls
<1>1. /\ \E s \in Walks(S) : queue' = Rest \o Posts(s, w)
      /\ fsm' = [f \in FsmId |-> IF f \in S
                   THEN [fsm[f] EXCEPT !.flag = fsm[f].flag \cup flags] ELSE fsm[f]]
      /\ out' = calls /\ UNCHANGED <<listVars, timers, joinWait>>
  BY ZenonT(60) DEF PostAndFlag
<1>2. \A g \in FsmId : SameFsm(fsm[g], fsm'[g]) /\ (JoinAsked(fsm'[g]) <=> JoinAsked(fsm[g]))
  BY ZenonT(60), <1>1, AddFlags
<1> QED
  BY ZenonT(60), <1>1, <1>2, FlagEffect

\* The requests to leave are passed on.
LEMMA LeaveRequestEffect ==
  ASSUME IInv, Counted, \/ ProcessLeaveLNNRequest \/ ProcessLeaveInvalidConn
               \/ ProcessLeaveByAddrType
  PROVE  PassedOn
<1>0. /\ "LEAVE_LNN" \in FsmData /\ "LEAVE_LNN" # "AUTH_KEY_GENERATED"
      /\ "LEAVE_LNN_REQUEST" \notin {"JOIN_LNN_REQUEST", "CLEAN_CONN_FSM"}
      /\ "LEAVE_INVALID_CONN" \notin {"JOIN_LNN_REQUEST", "CLEAN_CONN_FSM"}
      /\ "LEAVE_BY_ADDR_TYPE" \notin {"JOIN_LNN_REQUEST", "CLEAN_CONN_FSM"}
      /\ "JOIN_REQUEST" \notin {"LEAVE_REQUEST"} /\ "JOIN_REQUEST" \notin {"LEAVE_AUTO"}
      /\ "JOIN_REQUEST" \notin {"INITIATE_ONLINE", "LEAVE_AUTO"}
  BY SMTT(60) DEF FsmData
<1>1. CASE ProcessLeaveLNNRequest
  <2> DEFINE n == Head(queue).networkId
             S == AliveIn(ByNetworkId(n))
             calls == IF S = {} THEN {<<"LeaveResult", n>>} ELSE {}
  <2>1. S \in SUBSET fsmList
    BY SMTT(60) DEF AliveIn, ByNetworkId
  <2>2. /\ Dispatch(NB, "LEAVE_LNN_REQUEST") /\ joinWait' = joinWait
        /\ PostAndFlag(S, "LEAVE_LNN", {"LEAVE_REQUEST"}, calls)
    BY ZenonT(60), <1>1 DEF ProcessLeaveLNNRequest
  <2> HIDE DEF S, calls
  <2> QED
    BY ZenonT(60), <1>0, <2>1, <2>2, PostAndFlagEffect
<1>2. CASE ProcessLeaveInvalidConn
  <2> DEFINE p == Head(queue)
             S == {f \in fsmList : IsInvalidConnectionFsm(f, p.oldNetworkId, p.addrType)}
             c == [networkId |-> p.newNetworkId, addrType |-> p.addrType]
             flags == {"INITIATE_ONLINE", "LEAVE_AUTO"}
             r == [f \in FsmId |-> [fsm[f] EXCEPT !.flag = fsm[f].flag \cup flags,
                                                  !.cleanInfo = c]]
  <2>1. /\ Dispatch(NB, "LEAVE_INVALID_CONN") /\ S \in SUBSET fsmList
        /\ \E s \in Walks(S) : queue' = Rest \o Posts(s, "LEAVE_LNN")
        /\ fsm' = [f \in FsmId |-> IF f \in S THEN r[f] ELSE fsm[f]]
        /\ out' = {} /\ UNCHANGED <<timers, listVars, joinWait>>
    BY ZenonT(60), <1>2 DEF ProcessLeaveInvalidConn, waitVars
  <2>0. "JOIN_REQUEST" \notin flags
    BY ZenonT(60), <1>0
  <2> HIDE DEF S, c, flags
  <2>4. FlagsAdded(r, flags)
    BY ZenonT(60) DEF FlagsAdded, IInv, TypeOK, ConnFsm
  <2> HIDE DEF r
  <2>2. \A g \in FsmId : /\ SameFsm(fsm[g], fsm'[g])
                         /\ JoinAsked(fsm'[g]) <=> JoinAsked(fsm[g])
    BY ZenonT(60), <2>0, <2>1, <2>4, FlagFields
  <2> QED
    BY ZenonT(60), <1>0, <2>1, <2>2, FlagEffect
<1>3. CASE ProcessLeaveByAddrType
  <2> DEFINE t == Head(queue).addrType
             same == {f \in fsmList : TypeOfAddr(fsm[f].addr) = t}
             S == AliveIn(same)
             calls == IF same = {} THEN {<<"LnnNotifyAllTypeOffline", t>>} ELSE {}
  <2>1. S \in SUBSET fsmList
    BY ZenonT(60) DEF AliveIn
  <2>2. /\ Dispatch(NB, "LEAVE_BY_ADDR_TYPE") /\ joinWait' = joinWait
        /\ PostAndFlag(S, "LEAVE_LNN", {"LEAVE_AUTO"}, calls)
    BY ZenonT(60), <1>3 DEF ProcessLeaveByAddrType, waitVars
  <2> HIDE DEF S, calls
  <2> QED
    BY ZenonT(60), <1>0, <2>1, <2>2, PostAndFlagEffect
<1> QED
  BY ZenonT(60), <1>1, <1>2, <1>3

\* A generated key goes to the connection fsm of its authentication or a new one.
LEMMA AuthKeyEffect ==
  ASSUME IInv, ProcessAuthKeyGenerated
  PROVE  PassedOn \/ Created
<1> DEFINE a == Head(queue).authId
           found == AliveIn(First(ByAuthId(a)))
<1>0. /\ Dispatch(NB, "AUTH_KEY_GENERATED")
      /\ "AUTH_KEY_GENERATED" \notin {"JOIN_LNN_REQUEST", "CLEAN_CONN_FSM"}
  BY ZenonT(60) DEF ProcessAuthKeyGenerated
<1>1. NBHandling /\ Head(queue).what = "AUTH_KEY_GENERATED"
  BY ZenonT(60), <1>0, NBDispatchSound
<1>2. a \in AuthId /\ a \in 0 .. MaxAuth /\ a # 0 /\ auth[a].addr \in Addr
  BY SMTT(60), <1>1, MessageFields DEF NBHandling, MessageSound, AuthId
<1>3. \A f \in found : f \in fsmList /\ f \in FsmId /\ fsm[f].authId = a
  BY ZenonT(60), Listed DEF AliveIn, First, ByAuthId
<1>4. ASSUME NEW f \in found, OnlyPost(<<FsmMsg(f, "AUTH_KEY_GENERATED")>>, {})
      PROVE  PassedOn
  <2>1. /\ FsmMsg(f, "AUTH_KEY_GENERATED") \in Message
        /\ FsmMsg(f, "AUTH_KEY_GENERATED").h = f
        /\ FsmMsg(f, "AUTH_KEY_GENERATED").what = "AUTH_KEY_GENERATED"
    BY ZenonT(60), <1>3, FsmMsgType DEF FsmData
  <2>2. ToListed(<<FsmMsg(f, "AUTH_KEY_GENERATED")>>)
    BY ZenonT(60), <1>2, <1>3, <2>1, OneToListed
  <2> QED
    BY ZenonT(60), <1>0, <1>4, <2>2, OnlyPostEffect
<1>5. CASE StartNewConnectionFsm(auth[a].addr, a, {"JOIN_PASSIVE"}, "AUTH_KEY_GENERATED")
  <2>1. "JOIN_REQUEST" \notin {"JOIN_PASSIVE"} /\ "JOIN_PASSIVE" \in {"JOIN_PASSIVE"}
    BY ZenonT(60)
  <2> HIDE DEF a
  <2> QED
    BY ZenonT(60), <1>0, <1>2, <1>5, <2>1 DEF Created
<1>6. CASE OnlyPost(<<>>, {})
  BY ZenonT(60), <1>0, <1>6, OneToListed, OnlyPostEffect
<1> QED
  BY ZenonT(60), <1>4, <1>5, <1>6 DEF ProcessAuthKeyGenerated

\* A search of fsmList returns at most one connection fsm.
LEMMA FirstIsOne ==
  ASSUME NEW S \in SUBSET FsmId, NEW f \in First(S)
  PROVE  First(S) = {f}
<1>1. ASSUME NEW g \in First(S) PROVE g = f
  BY SMTT(60) DEF First, FsmId
<1> QED
  BY ZenonT(60), <1>1

\* A walk that picks one connection fsm posts one message.
LEMMA OnePost ==
  ASSUME Counted, NEW f \in FsmId, NEW s \in Walks({f}), NEW w
  PROVE  Posts(s, w) = <<FsmMsg(f, w)>>
<1>1. Cardinality({f}) = 1
  BY ZenonT(60) DEF Counted
<1>2. s \in [1 .. 1 -> {f}]
  BY ZenonT(60), <1>1 DEF Walks
<1>3. DOMAIN s = 1 .. 1 /\ s[1] = f
  BY SMTT(60), <1>2
<1>4. Posts(s, w) = [i \in 1 .. 1 |-> FsmMsg(s[i], w)]
  BY ZenonT(60), <1>3 DEF Posts
<1> DEFINE m == FsmMsg(f, w)
<1>5. \A i \in 1 .. 1 : FsmMsg(s[i], w) = m
  BY SMTT(60), <1>3
<1> HIDE DEF m
<1>6. [i \in 1 .. 1 |-> m] = <<m>>
  BY SMTT(60)
<1>7. [i \in 1 .. 1 |-> FsmMsg(s[i], w)] = [i \in 1 .. 1 |-> m]
  BY ZenonT(60), <1>5
<1> QED
  BY ZenonT(60), <1>4, <1>6, <1>7 DEF m

\* A JoinLNN request is held by a connection fsm of its address, or refused; a
\* discovered device is joined in the same way, but nobody waits.
LEMMA JoinRequestEffect ==
  ASSUME IInv, Counted, ProcessJoinLNNRequest \/ ProcessDevDiscoveryRequest
  PROVE  (\E f \in FsmId : JoinPassedTo(f)) \/ JoinRefused \/ Created \/ PassedOn
<1> DEFINE a == Head(queue).addr
           S == First(ByAddr(a))
<1>1. PICK v \in {"JOIN_LNN_REQUEST", "DISCOVERY_DEVICE"}, flag \in JOIN_ACTIVE :
        /\ Dispatch(NB, v) /\ TrySendJoinLNNRequest(a, flag)
        /\ (v = "JOIN_LNN_REQUEST") <=> (flag = "JOIN_REQUEST")
  BY ZenonT(60) DEF ProcessJoinLNNRequest, ProcessDevDiscoveryRequest, JOIN_ACTIVE
<1>2. /\ NBHandling /\ v \notin {"CLEAN_CONN_FSM"} /\ a \in Addr
      /\ 0 \in 0 .. MaxAuth /\ "JOIN_LNN" \in FsmData
  BY SMTT(60), <1>1, NBDispatchSound, RequestFields, BoundsAssumption DEF NBHandling, FsmData
<1>3. S \in SUBSET fsmList /\ S \in SUBSET FsmId
  BY ZenonT(60), Listed DEF First, ByAddr
<1>4. CASE AliveIn(S) # {} /\ PostAndFlag(S, "JOIN_LNN", {flag}, {}) /\ UNCHANGED waitVars
  <2>1. PICK f \in S : ~fsm[f].isDead
    BY ZenonT(60), <1>4 DEF AliveIn
  <2>2. fsm[f].addr = a /\ f \in fsmList /\ f \in FsmId
    BY ZenonT(60), <1>3 DEF First, ByAddr
  <2>3. S = {f}
    <3>1. ByAddr(a) \in SUBSET FsmId
      BY ZenonT(60), Listed DEF ByAddr
    <3> QED
      BY ZenonT(60), <3>1, FirstIsOne
  <2> HIDE DEF S, a
  <2>4. CASE v = "JOIN_LNN_REQUEST"
    <3>1. /\ \E s \in Walks(S) : queue' = Rest \o Posts(s, "JOIN_LNN")
          /\ fsm' = [g \in FsmId |-> IF g \in S
                       THEN [fsm[g] EXCEPT !.flag = fsm[g].flag \cup {flag}] ELSE fsm[g]]
          /\ out' = {} /\ UNCHANGED <<listVars, timers, joinWait>>
      BY ZenonT(60), <1>4 DEF PostAndFlag, waitVars
    <3>2. queue' = Rest \o <<FsmMsg(f, "JOIN_LNN")>>
      BY ZenonT(60), <2>2, <2>3, <3>1, OnePost
    <3>3. \A g \in FsmId : /\ SameFsm(fsm[g], fsm'[g])
                           /\ JoinAsked(fsm'[g]) <=> JoinAsked(fsm[g]) \/ g = f
      <4> DEFINE flags == {flag}
      <4>1. "JOIN_REQUEST" \in flags
        BY ZenonT(60), <1>1, <2>4
      <4>2. fsm' = [g \in FsmId |-> IF g \in S
                       THEN [fsm[g] EXCEPT !.flag = fsm[g].flag \cup flags] ELSE fsm[g]]
        BY ZenonT(60), <3>1
      <4> HIDE DEF flags
      <4> QED
        BY ZenonT(60), <2>3, <4>1, <4>2, AddFlags
    <3> QED
      BY ZenonT(60), <1>1, <2>1, <2>2, <2>4, <3>1, <3>2, <3>3 DEF JoinPassedTo, a
  <2>5. CASE v # "JOIN_LNN_REQUEST"
    <3>1. "JOIN_REQUEST" \notin {flag} /\ "JOIN_LNN" # "AUTH_KEY_GENERATED"
      BY SMTT(60), <1>1, <2>5 DEF JOIN_ACTIVE
    <3>2. joinWait' = joinWait /\ v \notin {"JOIN_LNN_REQUEST", "CLEAN_CONN_FSM"}
      BY ZenonT(60), <1>2, <1>4, <2>5 DEF waitVars
    <3> QED
      BY ZenonT(60), <1>1, <1>2, <1>3, <1>4, <3>1, <3>2, PostAndFlagEffect
  <2> QED
    BY ZenonT(60), <2>4, <2>5
<1>5. CASE StartNewConnectionFsm(a, 0, {flag}, "JOIN_LNN")
  <2>2. \/ v = "JOIN_LNN_REQUEST" /\ {flag} = {"JOIN_REQUEST"}
        \/ v \notin {"JOIN_LNN_REQUEST", "CLEAN_CONN_FSM"} /\ "JOIN_REQUEST" \notin {flag}
    BY SMTT(60), <1>1, <1>2 DEF JOIN_ACTIVE
  <2> QED
    BY ZenonT(60), <1>1, <1>2, <1>5, <2>2 DEF Created
<1>6. CASE /\ joinWait' = IF flag = "JOIN_REQUEST" THEN joinWait \ {a} ELSE joinWait
           /\ out' = IF flag = "JOIN_REQUEST" THEN {<<"JoinResult", a>>} ELSE {}
           /\ queue' = Rest /\ UNCHANGED <<timers, fsm, listVars>>
  <2>2. CASE v = "JOIN_LNN_REQUEST"
    BY ZenonT(60), <1>1, <1>6, <2>2 DEF JoinRefused
  <2>3. CASE v # "JOIN_LNN_REQUEST"
    <3>1. queue' = Rest \o <<>>
      BY SMTT(60), <1>2, <1>6 DEF NBHandling
    <3>2. /\ joinWait' = joinWait
          /\ \A g \in FsmId : /\ SameFsm(fsm[g], fsm'[g])
                              /\ JoinAsked(fsm'[g]) <=> JoinAsked(fsm[g])
      BY ZenonT(60), <1>1, <1>6, <2>3 DEF SameFsm
    <3> QED
      BY ZenonT(60), <1>1, <1>2, <1>6, <2>3, <3>1, <3>2, OneToListed DEF PassedOn
  <2> QED
    BY ZenonT(60), <2>2, <2>3
<1> QED
  BY ZenonT(60), <1>1, <1>4, <1>5, <1>6 DEF TrySendJoinLNNRequest

\* A clean request unlists its connection fsm, or finds it gone.
LEMMA CleanEffect ==
  ASSUME ProcessCleanConnectionFsm
  PROVE  PassedOn \/ Cleaned
<1>1. Dispatch(NB, "CLEAN_CONN_FSM") /\ "CLEAN_CONN_FSM" # "JOIN_LNN_REQUEST"
  BY ZenonT(60) DEF ProcessCleanConnectionFsm
<1>2. CASE Head(queue).connFsmId \notin fsmList
  <2>1. OnlyPost(<<>>, {})
    BY ZenonT(60), <1>2 DEF ProcessCleanConnectionFsm
  <2> QED
    BY ZenonT(60), <1>1, <1>2, <2>1, OneToListed, OnlyPostEffect
<1>3. CASE Head(queue).connFsmId \in fsmList
  BY ZenonT(60), <1>3 DEF Cleaned
<1> QED
  BY <1>2, <1>3

-----------------------------------------------------------------------------
(* The other threads, and all steps together. *)

\* A message other than a JoinLNN request comes with no waiting caller.
LEMMA PlainPostEffect ==
  ASSUME NEW m \in Message, m.h = NB, m.what \notin {"CLEAN_CONN_FSM", "JOIN_LNN_REQUEST"},
         PostToNetBuilder(m), joinWait' = joinWait
  PROVE  PostedByOthers
<1>1. queue' = Append(queue, m) /\ out' = {} /\ UNCHANGED <<timers, fsm, listVars>>
  BY ZenonT(60) DEF PostToNetBuilder
<1> QED
  BY ZenonT(60), <1>1 DEF PostedByOthers

\* The callbacks of the auth manager post to the net builder.
LEMMA AuthManagerEffect ==
  ASSUME IInv, NEW a \in AuthId, AuthStep(a) \/ OnAuthFailed(a) \/ OnDisconnect(a)
  PROVE  PostedByOthers
<1>0. ASSUME NEW m \in Message, m.h = NB,
             m.what \notin {"CLEAN_CONN_FSM", "JOIN_LNN_REQUEST"},
             NEW from, NEW to, AuthCallback(a, from, to, m)
      PROVE  PostedByOthers
  <2>1. PostToNetBuilder(m) /\ joinWait' = joinWait
    BY ZenonT(60), <1>0 DEF AuthCallback, waitVars
  <2> QED
    BY ZenonT(60), <1>0, <2>1, PlainPostEffect
<1>1. ASSUME NEW w \in {"AUTH_KEY_GENERATED", "DISCONNECT"}, NEW from, NEW to,
             AuthCallback(a, from, to, [h |-> NB, what |-> w, authId |-> a])
      PROVE  PostedByOthers
  <2> DEFINE m == [h |-> NB, what |-> w, authId |-> a]
  <2>1. m \in Message /\ m.h = NB /\ m.what = w
    BY ZenonT(60) DEF Message
  <2>2. AuthCallback(a, from, to, m) /\ w \notin {"CLEAN_CONN_FSM", "JOIN_LNN_REQUEST"}
    BY ZenonT(60), <1>1
  <2> HIDE DEF m
  <2> QED
    BY ZenonT(60), <1>0, <2>1, <2>2
<1>2. ASSUME NEW ok \in BOOLEAN, NEW from, NEW to,
             AuthCallback(a, from, to, [h |-> NB, what |-> "AUTH_DONE", authId |-> a,
                                        isSuccess |-> ok])
      PROVE  PostedByOthers
  <2> DEFINE m == [h |-> NB, what |-> "AUTH_DONE", authId |-> a, isSuccess |-> ok]
  <2>1. m \in Message /\ m.h = NB /\ m.what = "AUTH_DONE"
    BY DEF Message
  <2>2. AuthCallback(a, from, to, m)
    BY ZenonT(60), <1>2
  <2> HIDE DEF m
  <2> QED
    BY ZenonT(60), <1>0, <2>1, <2>2
<1>3. CASE OnRecvPeerDeviceInfo(a)
  <2> DEFINE n == peerNet[PeerOf[auth[a].addr]]
             m == [h |-> NB, what |-> "SYNC_DEVICE_INFO_DONE", authId |-> a,
                   networkId |-> n]
  <2>1. auth[a].addr \in Addr /\ n > 0
    BY <1>3 DEF OnRecvPeerDeviceInfo, IInv, FsmLifecycle, AuthsSound
  <2>2. n \in 0 .. MaxNet
    BY ZenonT(60), <2>1, AddrAssumption DEF IInv, TypeOK
  <2>3. n \in NetworkId
    BY SMTT(60), <2>1, <2>2 DEF NetworkId
  <2>4. AuthCallback(a, {"synced"}, "info", m)
    BY ZenonT(60), <1>3 DEF OnRecvPeerDeviceInfo
  <2> HIDE DEF n
  <2>5. m \in Message /\ m.h = NB /\ m.what = "SYNC_DEVICE_INFO_DONE"
    BY ZenonT(60), <2>3 DEF Message
  <2> HIDE DEF m
  <2> QED
    BY ZenonT(60), <1>0, <2>4, <2>5
<1>4. CASE OnAuthKeyGenerated(a) \/ OnDisconnect(a)
  BY ZenonT(60), <1>1, <1>4 DEF OnAuthKeyGenerated, OnDisconnect
<1>5. CASE OnAuthPassed(a) \/ OnAuthFailed(a)
  BY ZenonT(60), <1>2, <1>5 DEF OnAuthPassed, OnAuthFailed
<1> QED
  BY ZenonT(60), <1>3, <1>4, <1>5 DEF AuthStep

\* The other threads only post.
LEMMA OtherThreadsEffect ==
  ASSUME IInv, Environment
  PROVE  PostedByOthers \/ UNCHANGED <<queue, timers, fsm, listVars, joinWait>>
<1>1. ASSUME NEW a \in Addr, LnnServerJoin(a)
      PROVE  PostedByOthers
  <2> DEFINE m == [h |-> NB, what |-> "JOIN_LNN_REQUEST", addr |-> a]
  <2>1. /\ m \in Message /\ m.h = NB /\ m.what = "JOIN_LNN_REQUEST" /\ m.addr = a
        /\ "JOIN_LNN_REQUEST" # "CLEAN_CONN_FSM"
    BY DEF Message
  <2>2. /\ queue' = Append(queue, m) /\ out' = {} /\ a \notin joinWait
        /\ joinWait' = joinWait \cup {a} /\ UNCHANGED <<timers, fsm, listVars>>
    BY ZenonT(60), <1>1 DEF LnnServerJoin, PostToNetBuilder
  <2> HIDE DEF m
  <2> QED
    BY ZenonT(60), <2>1, <2>2 DEF PostedByOthers
<1>2. ASSUME NEW a \in Addr, LnnNotifyDiscoveryDevice(a)
      PROVE  PostedByOthers
  <2> DEFINE m == [h |-> NB, what |-> "DISCOVERY_DEVICE", addr |-> a]
  <2>1. m \in Message /\ m.h = NB /\ m.what = "DISCOVERY_DEVICE"
    BY DEF Message
  <2>2. PostToNetBuilder(m) /\ joinWait' = joinWait
    BY ZenonT(60), <1>2 DEF LnnNotifyDiscoveryDevice, waitVars
  <2> HIDE DEF m
  <2> QED
    BY ZenonT(60), <2>1, <2>2, PlainPostEffect
<1>3. ASSUME NEW a \in Addr, OnServerAuthKeyGenerated(a)
      PROVE  PostedByOthers
  <2> DEFINE n == nextAuth + 1
             m == [h |-> NB, what |-> "AUTH_KEY_GENERATED", authId |-> n]
  <2>1. n \in AuthId
    BY SMTT(60), <1>3, BoundsAssumption DEF OnServerAuthKeyGenerated, IInv, TypeOK, AuthId
  <2>2. PostToNetBuilder(m) /\ joinWait' = joinWait
    BY ZenonT(60), <1>3 DEF OnServerAuthKeyGenerated, waitVars
  <2> HIDE DEF n
  <2>3. m \in Message /\ m.h = NB /\ m.what = "AUTH_KEY_GENERATED"
    BY ZenonT(60), <2>1 DEF Message
  <2> HIDE DEF m
  <2> QED
    BY ZenonT(60), <2>2, <2>3, PlainPostEffect
<1>4. ASSUME NEW n \in NetworkId, LnnServerLeave(n) \/ LnnNotifySyncOfflineFinish(n)
      PROVE  PostedByOthers
  <2> DEFINE m(w) == [h |-> NB, what |-> w, networkId |-> n]
  <2>1. PICK w \in {"LEAVE_LNN_REQUEST", "SYNC_OFFLINE_FINISH"} :
          PostToNetBuilder(m(w)) /\ joinWait' = joinWait
    BY ZenonT(60), <1>4 DEF LnnServerLeave, LnnNotifySyncOfflineFinish, waitVars
  <2>2. m(w) \in Message /\ m(w).h = NB /\ m(w).what = w
    BY ZenonT(60), <2>1 DEF Message
  <2>3. w \notin {"CLEAN_CONN_FSM", "JOIN_LNN_REQUEST"}
    BY SMTT(60), <2>1
  <2> HIDE DEF m
  <2> QED
    BY ZenonT(60), <2>1, <2>2, <2>3, PlainPostEffect
<1>5. ASSUME NEW t \in AddrTypes, LnnRequestLeaveByAddrType(t)
      PROVE  PostedByOthers
  <2> DEFINE m == [h |-> NB, what |-> "LEAVE_BY_ADDR_TYPE", addrType |-> t]
  <2>1. m \in Message /\ m.h = NB /\ m.what = "LEAVE_BY_ADDR_TYPE"
    BY DEF Message
  <2>2. PostToNetBuilder(m) /\ joinWait' = joinWait
    BY ZenonT(60), <1>5 DEF LnnRequestLeaveByAddrType, waitVars
  <2> HIDE DEF m
  <2> QED
    BY ZenonT(60), <2>1, <2>2, PlainPostEffect
<1>6. ASSUME NEW u \in Udid, OnDeviceNotTrusted(u)
      PROVE  PostedByOthers
  <2> DEFINE m == [h |-> NB, what |-> "NOT_TRUSTED", udid |-> u]
  <2>1. m \in Message /\ m.h = NB /\ m.what = "NOT_TRUSTED"
    BY DEF Message
  <2>2. PostToNetBuilder(m) /\ joinWait' = joinWait
    BY ZenonT(60), <1>6 DEF OnDeviceNotTrusted, waitVars
  <2> HIDE DEF m
  <2> QED
    BY ZenonT(60), <2>1, <2>2, PlainPostEffect
<1>7. ASSUME NEW u \in Udid, PeerBoot(u)
      PROVE  UNCHANGED <<queue, timers, fsm, listVars, joinWait>>
  BY ZenonT(60), <1>7 DEF PeerBoot, waitVars
<1> QED
  BY ZenonT(60), <1>1, <1>2, <1>3, <1>4, <1>5, <1>6, <1>7, AuthManagerEffect DEF Environment

\* Every step has one of these effects.
LEMMA StepEffect ==
  ASSUME IInv, Counted, [Next]_vars
  PROVE  AnyStep
<1>1. ASSUME NEW f \in FsmId, FsmStep(f) PROVE AnyStep
  BY ZenonT(60), <1>1, FsmStepEffect DEF AnyStep
<1>2. ASSUME NEW f \in FsmId, TimerStep(f) PROVE AnyStep
  BY ZenonT(60), <1>2, TimerEffect DEF AnyStep
<1>3. CASE NetBuilderStep
  BY ZenonT(60), <1>3, JoinRequestEffect, CleanEffect, AuthKeyEffect, PassOnEffect,
     LeaveRequestEffect DEF NetBuilderStep, AnyStep
<1>4. CASE Environment
  BY ZenonT(60), <1>4, OtherThreadsEffect DEF AnyStep
<1>5. CASE UNCHANGED vars
  BY ZenonT(60), <1>5 DEF vars, AnyStep, waitVars, listVars
<1> QED
  BY ZenonT(60), <1>1, <1>2, <1>3, <1>4, <1>5 DEF Next

=============================================================================
