----------------------------- MODULE LnnProofs ------------------------------
(***************************************************************************)
(* The inductive invariant of NetBuilder, what its proofs share (the       *)
(* messages, the queue, the change of one connection fsm and the ways its  *)
(* handlers end), and that every handler of a connection fsm and of the    *)
(* net builder, the two timeouts and the other threads keep it. TypeOK and *)
(* FsmLifecycle are inductive together: the handlers read fields of queued *)
(* messages and of connection fsms, which need the types, and the types of *)
(* what they build need the addresses FsmLifecycle promises. The last      *)
(* section says what one step can do, which StepProofs proves and the      *)
(* invariants of JoinProofs and RequestProofs are derived from.            *)
(***************************************************************************)
EXTENDS NetBuilder, Integers, TLAPS

IInv == TypeOK /\ FsmLifecycle

AuthRecord == [phase : {"none", "connecting", "keyed", "synced", "info", "passed",
                        "failed", "broken", "closed"}, addr : Addr \cup {NULL}]

\* connCount is inductive on its own, with the ids of the listed fsms.
CountInv ==
  /\ nextFsm \in 0 .. MaxFsm /\ fsmList \subseteq 1 .. nextFsm
  /\ ConnCountExact

\* What the handlers use of the number of connection fsms of a set: it is a natural
\* number, 0 only for the empty set, and 1 for one connection fsm.  FsmId is finite,
\* so this holds of every value of the constants; NetBuilderProofs proves it.
Counted ==
  /\ \A S \in SUBSET FsmId : Cardinality(S) \in Nat /\ (Cardinality(S) = 0 => S = {})
  /\ \A f \in FsmId : Cardinality({f}) = 1

-----------------------------------------------------------------------------
(* Messages. *)

\* LnnFsmPostMessage builds a well-formed message.
LEMMA FsmMsgType ==
  ASSUME NEW f \in FsmId, NEW w \in FsmCtrl \cup FsmData
  PROVE  /\ FsmMsg(f, w) \in Message
         /\ FsmMsg(f, w).h = f /\ FsmMsg(f, w).what = w
BY DEF FsmMsg, Message

\* The request to clean a connection fsm up is a well-formed message.
LEMMA CleanMsgType ==
  ASSUME NEW f \in FsmId
  PROVE  /\ CleanMsg(f) \in Message
         /\ CleanMsg(f).h = NB /\ CleanMsg(f).what = "CLEAN_CONN_FSM"
         /\ CleanMsg(f).connFsmId = f
BY DEF CleanMsg, Message

\* The fields a handler reads from a dispatched message.
LEMMA MessageFields ==
  ASSUME NEW m \in Message
  PROVE  /\ m.h # NB => m.h \in FsmId
         /\ m.h = NB /\ m.what = "CLEAN_CONN_FSM" => m.connFsmId \in FsmId
         /\ m.h = NB /\ m.what \in {"AUTH_KEY_GENERATED", "AUTH_DONE",
              "SYNC_DEVICE_INFO_DONE", "DISCONNECT"} => m.authId \in AuthId
BY DEF Message, FsmCtrl, FsmData, NB, FsmId

\* The address and the udid of the requests to the net builder.
LEMMA RequestFields ==
  ASSUME NEW m \in Message, m.h = NB
  PROVE  /\ m.what \in {"JOIN_LNN_REQUEST", "DISCOVERY_DEVICE"} => m.addr \in Addr
         /\ m.what = "AUTH_DONE" => m.isSuccess \in BOOLEAN
         /\ m.what = "SYNC_DEVICE_INFO_DONE" => m.networkId \in NetworkId
         /\ m.what = "LEAVE_LNN_REQUEST" => m.networkId \in NetworkId
         /\ m.what = "LEAVE_INVALID_CONN" => /\ m.newNetworkId \in NetworkId
                                             /\ m.addrType \in AddrTypes \cup {"MAX"}
BY DEF Message, FsmCtrl, FsmData, NB, FsmId

\* The node info an fsm is told of carries a network id.
LEMMA SyncInfoFields ==
  ASSUME NEW m \in Message, m.h # NB, m.what = "SYNC_DEVICE_INFO_DONE"
  PROVE  m.networkId \in NetworkId
BY DEF Message, FsmCtrl, FsmData, NB, FsmId

-----------------------------------------------------------------------------
(* The queue. *)

\* What a handler may do to the connection fsms while messages wait: it frees
\* none and revives none.
Grows(fs, fs2) ==
  \A f \in FsmId : /\ fs[f].alloc = "live" => fs2[f].alloc = "live"
                   /\ fs[f].alloc = "freed" => fs2[f].alloc = "freed"
                   /\ fs[f].isDead => fs2[f].isDead

AddrsKept(au, au2) ==
  \A a \in AuthId : au[a].addr \in Addr => au2[a].addr \in Addr

\* The looper takes the oldest message: what is left is still sound.
LEMMA TailSound ==
  ASSUME NEW q \in Seq(Message), q # <<>>, NEW fs, NEW li, NEW au,
         QueueSound(q, fs, li, au)
  PROVE  /\ Head(q) \in Message /\ Tail(q) \in Seq(Message)
         /\ MessageSound(Head(q), fs, li, au)
         /\ QueueSound(Tail(q), fs, li, au)
         /\ Head(q).what = "DEINIT" =>
              \A i \in 1 .. Len(Tail(q)) : Tail(q)[i].h # Head(q).h
<1>1. /\ Head(q) \in Message /\ Tail(q) \in Seq(Message)
      /\ Head(q) = q[1] /\ Len(q) \in Nat /\ Len(q) > 0
      /\ Len(Tail(q)) = Len(q) - 1
      /\ \A i \in 1 .. Len(Tail(q)) : Tail(q)[i] = q[i + 1] /\ i + 1 \in 1 .. Len(q)
  OBVIOUS
<1>2. MessageSound(Head(q), fs, li, au)
  BY <1>1 DEF QueueSound
<1>3. \A i \in 1 .. Len(Tail(q)) : MessageSound(Tail(q)[i], fs, li, au)
  BY <1>1 DEF QueueSound
<1>4. \A i, j \in 1 .. Len(Tail(q)) :
        Tail(q)[j].h = Tail(q)[i].h /\ Tail(q)[j].what = "DEINIT" => i <= j
  BY <1>1 DEF QueueSound
<1>5. Head(q).what = "DEINIT" =>
        \A i \in 1 .. Len(Tail(q)) : Tail(q)[i].h # Head(q).h
  BY <1>1 DEF QueueSound
<1> QED
  BY ZenonT(60), <1>1, <1>2, <1>3, <1>4, <1>5 DEF QueueSound

\* Messages that wait stay sound while handlers free no connection fsm, list only
\* new ones and keep the addresses of the authentications.
LEMMA QueueKept ==
  ASSUME NEW q \in Seq(Message), NEW fs, NEW fs2, NEW li, NEW li2, NEW au, NEW au2,
         QueueSound(q, fs, li, au), Grows(fs, fs2), AddrsKept(au, au2),
         \A f \in li2 : f \in li \/ fs[f].alloc = "none"
  PROVE  QueueSound(q, fs2, li2, au2)
<1>1. ASSUME NEW i \in 1 .. Len(q) PROVE MessageSound(q[i], fs2, li2, au2)
  <2>1. q[i] \in Message /\ MessageSound(q[i], fs, li, au)
    BY DEF QueueSound
  <2> QED
    BY ZenonT(60), <2>1, MessageFields DEF MessageSound, Grows, AddrsKept
<1> QED
  BY ZenonT(60), <1>1 DEF QueueSound

NoDeinit(q, f) ==
  \A j \in 1 .. Len(q) : ~(q[j].h = f /\ q[j].what = "DEINIT")

\* The DEINIT of a connection fsm that is listed or not dead is not in the queue.
LEMMA NoDeinitQueued ==
  ASSUME NEW q \in Seq(Message), NEW fs, NEW li, NEW au, QueueSound(q, fs, li, au),
         NEW f \in FsmId, f \in li \/ ~fs[f].isDead
  PROVE  NoDeinit(q, f)
<1> SUFFICES ASSUME NEW j \in 1 .. Len(q), q[j].h = f, q[j].what = "DEINIT"
             PROVE  FALSE
  BY DEF NoDeinit
<1>1. f # NB
  BY DEF NB, FsmId
<1> QED
  BY <1>1 DEF QueueSound, MessageSound

\* A sound message may be posted to a handler whose DEINIT is not in the queue.
LEMMA AppendSound ==
  ASSUME NEW q \in Seq(Message), NEW fs, NEW li, NEW au, QueueSound(q, fs, li, au),
         NEW m \in Message, MessageSound(m, fs, li, au),
         m.h # NB => NoDeinit(q, m.h)
  PROVE  /\ Append(q, m) \in Seq(Message)
         /\ QueueSound(Append(q, m), fs, li, au)
<1> DEFINE p == Append(q, m)
<1>1. /\ p \in Seq(Message) /\ Len(p) = Len(q) + 1 /\ Len(q) \in Nat
      /\ \A i \in 1 .. Len(q) : p[i] = q[i]
      /\ p[Len(q) + 1] = m
      /\ \A i \in 1 .. Len(q) : q[i] \in Message
  OBVIOUS
<1>2. \A i \in 1 .. Len(p) : MessageSound(p[i], fs, li, au)
  BY <1>1 DEF QueueSound
<1>3. NoDeinit(q, m.h)
  <2>1. CASE m.h = NB
    BY SMTT(60), <1>1, <2>1 DEF NoDeinit, Message, FsmCtrl, FsmData, NB, FsmId
  <2> QED
    BY ZenonT(60), <2>1
<1>4. \A i, j \in 1 .. Len(p) : p[j].h = p[i].h /\ p[j].what = "DEINIT" => i <= j
  <2> SUFFICES ASSUME NEW i \in 1 .. Len(p), NEW j \in 1 .. Len(p),
                      p[j].h = p[i].h, p[j].what = "DEINIT"
               PROVE  i <= j
    OBVIOUS
  <2>1. CASE j = Len(q) + 1
    BY <1>1, <2>1
  <2>2. CASE j \in 1 .. Len(q) /\ i \in 1 .. Len(q)
    BY ZenonT(60), <1>1, <2>2 DEF QueueSound
  <2>3. CASE j \in 1 .. Len(q) /\ i = Len(q) + 1
    BY ZenonT(60), <1>1, <1>3, <2>3 DEF NoDeinit
  <2> QED
    BY SMTT(60), <1>1, <2>1, <2>2, <2>3
<1> QED
  BY ZenonT(60), <1>1, <1>2, <1>4 DEF QueueSound

\* Messages other than DEINIT may be posted to listed connection fsms.
LEMMA ConcatSound ==
  ASSUME NEW q \in Seq(Message), NEW fs, NEW li, NEW au, QueueSound(q, fs, li, au),
         NEW s \in Seq(Message),
         \A k \in 1 .. Len(s) : /\ s[k].h \in FsmId \cap li
                                /\ fs[s[k].h].alloc = "live"
                                /\ s[k].what \notin {"STOP", "DEINIT"}
  PROVE  /\ q \o s \in Seq(Message)
         /\ QueueSound(q \o s, fs, li, au)
<1> DEFINE p == q \o s
<1>1. /\ p \in Seq(Message) /\ Len(p) = Len(q) + Len(s)
      /\ Len(q) \in Nat /\ Len(s) \in Nat
      /\ \A i \in 1 .. Len(q) : p[i] = q[i]
      /\ \A i \in Len(q) + 1 .. Len(p) : p[i] = s[i - Len(q)] /\ i - Len(q) \in 1 .. Len(s)
  OBVIOUS
<1>2. \A i \in Len(q) + 1 .. Len(p) : /\ p[i].h \in FsmId \cap li
                                      /\ fs[p[i].h].alloc = "live"
                                      /\ p[i].what \notin {"STOP", "DEINIT"}
  BY <1>1
<1>3. ASSUME NEW i \in 1 .. Len(p) PROVE MessageSound(p[i], fs, li, au)
  <2>1. CASE i \in 1 .. Len(q)
    BY ZenonT(60), <1>1, <2>1 DEF QueueSound
  <2>2. CASE i \in Len(q) + 1 .. Len(p)
    <3>1. \A h \in FsmId : h # NB
      BY SMTT(60) DEF NB, FsmId
    <3>2. /\ p[i].h \in FsmId /\ p[i].h \in li /\ fs[p[i].h].alloc = "live"
          /\ p[i].what \notin {"STOP", "DEINIT"}
      BY ZenonT(60), <1>2, <2>2
    <3> QED
      BY ZenonT(60), <3>1, <3>2 DEF MessageSound
  <2> QED
    BY SMTT(60), <1>1, <2>1, <2>2
<1>4. ASSUME NEW i \in 1 .. Len(p), NEW j \in 1 .. Len(p),
             p[j].h = p[i].h, p[j].what = "DEINIT"
      PROVE  i <= j
  <2>1. j \in 1 .. Len(q) /\ p[j] = q[j]
    BY SMTT(60), <1>1, <1>2, <1>4
  <2>2. CASE i \in 1 .. Len(q)
    BY ZenonT(60), <1>1, <1>4, <2>1, <2>2 DEF QueueSound
  <2>3. CASE i \in Len(q) + 1 .. Len(p)
    BY ZenonT(60), <1>2, <1>4, <2>1, <2>3, NoDeinitQueued DEF NoDeinit
  <2> QED
    BY SMTT(60), <1>1, <2>2, <2>3
<1> QED
  BY ZenonT(60), <1>1, <1>3, <1>4 DEF QueueSound

\* A walk over fsmList posts to the members of a set, each once.
LEMMA PostsType ==
  ASSUME Counted, NEW S \in SUBSET FsmId, NEW s \in Walks(S), NEW w \in FsmCtrl \cup FsmData
  PROVE  /\ Posts(s, w) \in Seq(Message)
         /\ \A k \in 1 .. Len(Posts(s, w)) : /\ Posts(s, w)[k].h \in S
                                             /\ Posts(s, w)[k].what = w
<1>1. Cardinality(S) \in Nat
  BY ZenonT(60) DEF Counted
<1>2. s \in [1 .. Cardinality(S) -> S]
  BY DEF Walks
<1>3. \A k \in 1 .. Cardinality(S) : /\ FsmMsg(s[k], w) \in Message
                                     /\ FsmMsg(s[k], w).h \in S
                                     /\ FsmMsg(s[k], w).what = w
  BY <1>2, FsmMsgType
<1>4. Posts(s, w) = [k \in 1 .. Cardinality(S) |-> FsmMsg(s[k], w)]
  BY <1>2 DEF Posts
<1>5. Posts(s, w) \in Seq(Message) /\ Len(Posts(s, w)) = Cardinality(S)
  BY <1>1, <1>3, <1>4
<1> QED
  BY ZenonT(60), <1>3, <1>4, <1>5

-----------------------------------------------------------------------------
(* One connection fsm changes. *)

\* A handler changes one connection fsm and its timeouts: the fsm stays allocated
\* at its address, a dead one stays dead, and its timeouts fit its new state.
LEMMA OneFsmChanges ==
  ASSUME IInv, NEW f \in FsmId, NEW r \in ConnFsm, fsm[f].alloc = "live",
         r.alloc = "live", r.addr = fsm[f].addr, fsm[f].isDead => r.isDead,
         NEW tm, tm \subseteq FsmId \X FsmTimeouts,
         \A t \in tm : \/ t \in timers /\ t[1] # f
                       \/ t[1] = f /\ TimerSound(r, t[2]),
         NEW fs2, fs2 = [fsm EXCEPT ![f] = r]
  PROVE  /\ fs2 \in [FsmId -> ConnFsm] /\ Grows(fsm, fs2)
         /\ TimersSound(tm, fs2) /\ FsmsSound(fs2, fsmList, nextFsm)
<1>1. fsm \in [FsmId -> ConnFsm] /\ FsmsSound(fsm, fsmList, nextFsm)
      /\ TimersSound(timers, fsm) /\ fsmList \subseteq FsmId
  BY DEF IInv, TypeOK, FsmLifecycle
<1>2. fs2 \in [FsmId -> ConnFsm]
  BY <1>1
<1>3. fs2[f] = r /\ \A g \in FsmId : g # f => fs2[g] = fsm[g]
  BY <1>1
<1>4. Grows(fsm, fs2)
  BY <1>3 DEF Grows
<1>5. TimersSound(tm, fs2)
  BY ZenonT(60), <1>1, <1>3 DEF TimersSound
<1>6. FsmsSound(fs2, fsmList, nextFsm)
  BY ZenonT(60), <1>1, <1>3 DEF FsmsSound
<1> QED
  BY ZenonT(60), <1>2, <1>4, <1>5, <1>6

\* The timeouts of an fsm that has none for its state are those of the others.
LEMMA NoTimers ==
  ASSUME IInv, NEW f \in FsmId,
         fsm[f].isDead \/ fsm[f].curState \in {"NULL", "ONLINE"}
  PROVE  \A t \in timers : t[1] # f
BY ZenonT(60) DEF IInv, FsmLifecycle, TimersSound, TimerSound, TimedStates

\* A connection fsm has no authentication, or one of the authentication manager's,
\* whose address is known.
LEMMA FsmAuths ==
  ASSUME IInv
  PROVE  /\ auth \in [AuthId -> AuthRecord] /\ AuthsSound(auth, fsm)
         /\ \A g \in FsmId : /\ fsm[g].authId \in {0} \cup AuthId
                             /\ fsm[g].authId > 0 => fsm[g].authId # 0
<1>1. fsm \in [FsmId -> ConnFsm] /\ auth \in [AuthId -> AuthRecord] /\ AuthsSound(auth, fsm)
  BY ZenonT(60) DEF IInv, TypeOK, FsmLifecycle, AuthRecord
<1>2. ASSUME NEW g \in FsmId PROVE /\ fsm[g].authId \in {0} \cup AuthId
                                   /\ fsm[g].authId > 0 => fsm[g].authId # 0
  BY SMTT(60), <1>1 DEF ConnFsm, AuthId
<1> QED
  BY ZenonT(60), <1>1, <1>2

\* Dropping the authentication of a connection fsm keeps the addresses known.
LEMMA AuthLeaveSound ==
  ASSUME IInv, NEW f \in FsmId, NEW fs2,
         \A g \in FsmId : fs2[g].authId = fsm[g].authId
  PROVE  /\ AuthHandleLeaveLNN(fsm[f].authId) \in [AuthId -> AuthRecord]
         /\ AddrsKept(auth, AuthHandleLeaveLNN(fsm[f].authId))
         /\ AuthsSound(AuthHandleLeaveLNN(fsm[f].authId), fs2)
<1> DEFINE a == fsm[f].authId
<1>1. a \in 0 .. MaxAuth /\ auth \in [AuthId -> AuthRecord]
  BY DEF IInv, TypeOK, ConnFsm, AuthRecord
<1>2. \A g \in FsmId : fs2[g].authId \in {0} \cup AuthId
  BY ZenonT(60), FsmAuths
<1>3. AuthsSound(auth, fsm)
  BY ZenonT(60), FsmAuths
<1>4. CASE a = 0
  BY ZenonT(60), <1>1, <1>3, <1>4 DEF AuthHandleLeaveLNN, AddrsKept, AuthsSound
<1>5. CASE a # 0
  <2>1. a \in AuthId /\ auth[a].addr \in Addr
    BY SMTT(60), <1>1, <1>3, <1>5 DEF AuthId, AuthsSound
  <2>2. AuthHandleLeaveLNN(a) = [auth EXCEPT ![a].phase = "closed"]
    BY ZenonT(60), <1>5 DEF AuthHandleLeaveLNN
  <2>3. AuthHandleLeaveLNN(a) \in [AuthId -> AuthRecord]
    BY ZenonT(60), <1>1, <2>1, <2>2 DEF AuthRecord
  <2>4. \A b \in AuthId : AuthHandleLeaveLNN(a)[b].addr = auth[b].addr
    BY SMTT(60), <1>1, <2>1, <2>2 DEF AuthRecord
  <2>5. \A b \in AuthId : b # a => AuthHandleLeaveLNN(a)[b] = auth[b]
    BY ZenonT(60), <1>1, <2>1, <2>2 DEF AuthRecord
  <2> QED
    BY ZenonT(60), <1>2, <1>3, <2>1, <2>3, <2>4, <2>5 DEF AddrsKept, AuthsSound
<1> QED
  BY ZenonT(60), <1>4, <1>5

-----------------------------------------------------------------------------
(* How the handlers of a connection fsm end. *)

\* A handler of f has taken its message; q is what is left of the queue.
Handling(f, q) ==
  /\ f \in FsmId /\ fsm[f].alloc = "live"
  /\ q \in Seq(Message) /\ QueueSound(q, fsm, fsmList, auth)

\* A failed join keeps the invariant and leaves the fsm without timeouts.
LEMMA CompleteJoinFailSound ==
  ASSUME IInv, NEW f, NEW q, Handling(f, q), fsm[f].curState # "LEAVING",
         CompleteJoinFail(f, q)
  PROVE  IInv'
<1> DEFINE r == [fsm[f] EXCEPT
                   !.flag = fsm[f].flag \ (JOIN_ACTIVE \cup {"JOIN_PASSIVE"}),
                   !.nodeInfo = NULL, !.isDead = TRUE]
<1>0. TypeOK /\ f \in FsmId /\ fsm[f] \in ConnFsm /\ fsm \in [FsmId -> ConnFsm]
  BY ZenonT(60) DEF IInv, TypeOK, Handling
<1>1. /\ r \in ConnFsm /\ r.alloc = fsm[f].alloc /\ r.addr = fsm[f].addr
      /\ r.isDead /\ r.authId = fsm[f].authId
  BY ZenonT(60), <1>0 DEF ConnFsm
<1>2. fsm' = [fsm EXCEPT ![f] = r]
  BY <1>0 DEF CompleteJoinFail
<1>3. timers' \subseteq FsmId \X FsmTimeouts /\ \A t \in timers' : t \in timers /\ t[1] # f
  <2>1. \A t \in timers : t \in FsmId \X FsmTimeouts /\ TimerSound(fsm[t[1]], t[2])
    BY DEF IInv, TypeOK, FsmLifecycle, TimersSound
  <2>2. \A t \in timers : t[1] = f => t = <<f, "JOIN_LNN_TIMEOUT">>
    BY <2>1 DEF TimerSound, TimedStates, FsmTimeouts
  <2> QED
    BY <2>1, <2>2 DEF CompleteJoinFail
<1>4. /\ fsm' \in [FsmId -> ConnFsm] /\ Grows(fsm, fsm')
      /\ TimersSound(timers', fsm') /\ FsmsSound(fsm', fsmList, nextFsm)
  <2> HIDE DEF r
  <2> QED
    BY ZenonT(60), <1>0, <1>1, <1>2, <1>3, OneFsmChanges DEF Handling
<1>5. /\ auth' \in [AuthId -> AuthRecord] /\ AddrsKept(auth, auth')
      /\ AuthsSound(auth', fsm')
  <2>1. \A g \in FsmId : fsm'[g].authId = fsm[g].authId
    BY ZenonT(60), <1>0, <1>1, <1>2
  <2> QED
    BY ZenonT(60), <1>0, <2>1, AuthLeaveSound DEF CompleteJoinFail
<1>6. queue' \in Seq(Message) /\ QueueSound(queue', fsm', fsmList, auth')
  <2>1. QueueSound(q, fsm', fsmList, auth')
    BY ZenonT(60), <1>4, <1>5, QueueKept DEF Handling
  <2>2. MessageSound(CleanMsg(f), fsm', fsmList, auth')
    BY ZenonT(60), <1>0, <1>1, <1>2, CleanMsgType DEF MessageSound
  <2> QED
    BY ZenonT(60), <1>0, <2>1, <2>2, CleanMsgType, AppendSound DEF CompleteJoinFail, Handling
<1>7. TypeOK'
  BY ZenonT(60), <1>0, <1>3, <1>4, <1>5, <1>6 DEF TypeOK, AuthRecord, CompleteJoinFail,
     NotifyJoinResult, listVars, ledgerVars, peerVars
<1> QED
  BY ZenonT(60), <1>4, <1>5, <1>6, <1>7 DEF IInv, FsmLifecycle, CompleteJoinFail, listVars

\* LnnAddOnlineNode and AddCnnCode leave well-formed ledgers.
LEMMA AddOnlineNodeType ==
  ASSUME TypeOK, NEW info \in NodeInfo
  PROVE  /\ LnnAddOnlineNode(info) \in [Udid -> LedgerNode]
         /\ AddCnnCode(info) \in [Udid -> 0 .. MaxAuth]
<1> DEFINE old == ledger[info.udid]
           merges == old.status = "online" /\ MergesTypes(old, info)
           types == IF merges THEN info.discoveryType \cup old.discoveryType
                    ELSE info.discoveryType
           ip == IF merges /\ info.ip = NULL THEN old.ip ELSE info.ip
           n == [status |-> "online", networkId |-> info.networkId, ip |-> ip,
                 hasPorts |-> info.hasPorts, discoveryType |-> types,
                 authChannelId |-> info.authChannelId]
<1>1. /\ info.udid \in Udid /\ info.networkId \in NetworkId
      /\ info.ip \in WlanAddr \cup {NULL} /\ info.hasPorts \in BOOLEAN
      /\ info.discoveryType \in SUBSET AddrTypes /\ info.authChannelId \in 0 .. MaxAuth
  BY DEF NodeInfo
<1>2. ledger \in [Udid -> LedgerNode] /\ cnnCode \in [Udid -> 0 .. MaxAuth]
  BY DEF TypeOK
<1>3. old.ip \in WlanAddr \cup {NULL} /\ old.discoveryType \in SUBSET AddrTypes
  BY ZenonT(60), <1>1, <1>2 DEF LedgerNode
<1>4. types \in SUBSET AddrTypes /\ ip \in WlanAddr \cup {NULL}
  BY ZenonT(60), <1>1, <1>3
<1>5. info.networkId \in 0 .. MaxNet
  BY SMTT(60), <1>1 DEF NetworkId
<1>6. n \in LedgerNode
  <2> HIDE DEF types, ip
  <2> QED
    BY ZenonT(60), <1>1, <1>4, <1>5 DEF LedgerNode
<1>7. LnnAddOnlineNode(info) = [ledger EXCEPT ![info.udid] = n]
  BY DEF LnnAddOnlineNode
<1>8. LnnAddOnlineNode(info) \in [Udid -> LedgerNode]
  <2> HIDE DEF n
  <2> QED
    BY ZenonT(60), <1>2, <1>6, <1>7
<1>9. AddCnnCode(info) \in [Udid -> 0 .. MaxAuth]
  BY ZenonT(60), <1>1, <1>2 DEF AddCnnCode
<1> QED
  BY <1>8, <1>9

\* UpdateLeaveToLedger leaves well-formed ledgers.
LEMMA LeaveLedgerType ==
  ASSUME TypeOK, NEW f, UpdateLeaveToLedger(f)
  PROVE  ledger' \in [Udid -> LedgerNode] /\ cnnCode' \in [Udid -> 0 .. MaxAuth]
<1>1. ledger \in [Udid -> LedgerNode] /\ cnnCode \in [Udid -> 0 .. MaxAuth]
  BY DEF TypeOK
<1>2. CASE LeavingNodes(f) = {}
  BY ZenonT(60), <1>1, <1>2 DEF UpdateLeaveToLedger, ledgerVars
<1>3. ASSUME NEW u \in LeavingNodes(f),
             ledger' = IF /\ ReportsOffline(u, fsm[f].authId)
                          /\ "LEAVE_PASSIVE" \in fsm[f].flag
                       THEN LnnRemoveNode(LnnSetNodeOffline(u, fsm[f].authId), u)
                       ELSE LnnSetNodeOffline(u, fsm[f].authId),
             cnnCode' = RemoveCnnCode(u)
      PROVE  ledger' \in [Udid -> LedgerNode] /\ cnnCode' \in [Udid -> 0 .. MaxAuth]
  <2>1. u \in Udid
    BY DEF LeavingNodes, NodesByNetworkId
  <2>2. LnnSetNodeOffline(u, fsm[f].authId) \in [Udid -> LedgerNode]
    BY ZenonT(60), <1>1, <2>1 DEF LnnSetNodeOffline, LedgerNode
  <2>3. AbsentNode \in LedgerNode
    BY SMTT(60), BoundsAssumption DEF AbsentNode, LedgerNode, AddrTypes
  <2>4. ledger' \in [Udid -> LedgerNode]
    BY ZenonT(60), <1>3, <2>1, <2>2, <2>3 DEF LnnRemoveNode
  <2>5. cnnCode' \in [Udid -> 0 .. MaxAuth]
    BY SMTT(60), <1>1, <1>3, <2>1, BoundsAssumption DEF RemoveCnnCode
  <2> QED
    BY ZenonT(60), <2>4, <2>5
<1> QED
  BY ZenonT(60), <1>2, <1>3 DEF UpdateLeaveToLedger

\* A successful join keeps the invariant: its timeout goes with its state.
LEMMA CompleteJoinOkSound ==
  ASSUME IInv, NEW f, NEW q, Handling(f, q), fsm[f].curState # "LEAVING",
         fsm[f].nodeInfo # NULL, CompleteJoinOk(f, q)
  PROVE  IInv'
<1> DEFINE r == [fsm[f] EXCEPT
                   !.flag = (fsm[f].flag \ (JOIN_ACTIVE \cup {"JOIN_PASSIVE"}))
                            \cup {"ONLINE"},
                   !.nodeInfo = NULL, !.curState = "ONLINE"]
<1>0. TypeOK /\ f \in FsmId /\ fsm[f] \in ConnFsm /\ fsm \in [FsmId -> ConnFsm]
  BY SMTT(60) DEF IInv, TypeOK, Handling
<1>1. /\ r \in ConnFsm /\ r.alloc = fsm[f].alloc /\ r.addr = fsm[f].addr
      /\ r.isDead = fsm[f].isDead /\ r.authId = fsm[f].authId
  BY ZenonT(60), <1>0 DEF ConnFsm, Flags, States
<1>2. fsm' = [fsm EXCEPT ![f] = r]
  BY <1>0 DEF CompleteJoinOk
<1>3. timers' \subseteq FsmId \X FsmTimeouts /\ \A t \in timers' : t \in timers /\ t[1] # f
  <2>1. \A t \in timers : t \in FsmId \X FsmTimeouts /\ TimerSound(fsm[t[1]], t[2])
    BY DEF IInv, TypeOK, FsmLifecycle, TimersSound
  <2>2. \A t \in timers : t[1] = f => t = <<f, "JOIN_LNN_TIMEOUT">>
    BY SMTT(60), <2>1 DEF TimerSound, TimedStates, FsmTimeouts
  <2> QED
    BY ZenonT(60), <2>1, <2>2 DEF CompleteJoinOk
<1>4. /\ fsm' \in [FsmId -> ConnFsm] /\ Grows(fsm, fsm')
      /\ TimersSound(timers', fsm') /\ FsmsSound(fsm', fsmList, nextFsm)
  <2> HIDE DEF r
  <2> QED
    BY ZenonT(60), <1>0, <1>1, <1>2, <1>3, OneFsmChanges DEF Handling
<1>5. AddrsKept(auth, auth') /\ AuthsSound(auth', fsm')
  <2>1. \A g \in FsmId : fsm'[g].authId = fsm[g].authId
    BY ZenonT(60), <1>0, <1>1, <1>2
  <2> QED
    BY <2>1 DEF CompleteJoinOk, AddrsKept, AuthsSound, IInv, FsmLifecycle
<1>6. queue' \in Seq(Message) /\ QueueSound(queue', fsm', fsmList, auth')
  BY ZenonT(60), <1>4, <1>5, QueueKept DEF Handling, CompleteJoinOk
<1>7. ledger' \in [Udid -> LedgerNode] /\ cnnCode' \in [Udid -> 0 .. MaxAuth]
  <2>1. fsm[f].nodeInfo \in NodeInfo
    BY SMTT(60), <1>0 DEF ConnFsm
  <2> QED
    BY ZenonT(60), <1>0, <2>1, AddOnlineNodeType DEF CompleteJoinOk
<1>8. TypeOK'
  BY ZenonT(60), <1>0, <1>3, <1>4, <1>6, <1>7 DEF TypeOK, CompleteJoinOk,
     NotifyJoinResult, listVars, peerVars
<1> QED
  BY ZenonT(60), <1>4, <1>5, <1>6, <1>8 DEF IInv, FsmLifecycle, CompleteJoinOk, listVars

\* A finished leave keeps the invariant: the fsm is dead and has no timeouts.
LEMMA CompleteLeaveSound ==
  ASSUME IInv, NEW f, NEW q, Handling(f, q),
         fsm[f].curState \in {"ONLINE", "LEAVING"}, CompleteLeaveLNN(f, q)
  PROVE  IInv'
<1> DEFINE r == [fsm[f] EXCEPT
                   !.flag = fsm[f].flag
                            \ (LEAVE_ACTIVE \cup {"LEAVE_PASSIVE", "ONLINE"}),
                   !.isDead = TRUE, !.curState = "LEAVING"]
<1>0. TypeOK /\ f \in FsmId /\ fsm[f] \in ConnFsm /\ fsm \in [FsmId -> ConnFsm]
  BY ZenonT(60) DEF IInv, TypeOK, Handling
<1>1. /\ r \in ConnFsm /\ r.alloc = fsm[f].alloc /\ r.addr = fsm[f].addr
      /\ r.isDead /\ r.authId = fsm[f].authId
  BY ZenonT(60), <1>0 DEF ConnFsm, States
<1>2. fsm' = [fsm EXCEPT ![f] = r]
  BY <1>0 DEF CompleteLeaveLNN
<1>3. timers' \subseteq FsmId \X FsmTimeouts /\ \A t \in timers' : t \in timers /\ t[1] # f
  <2>1. \A t \in timers : t \in FsmId \X FsmTimeouts /\ TimerSound(fsm[t[1]], t[2])
    BY ZenonT(60) DEF IInv, TypeOK, FsmLifecycle, TimersSound
  <2>2. \A t \in timers : t[1] = f => t = <<f, "LEAVE_LNN_TIMEOUT">>
    BY <2>1 DEF TimerSound, TimedStates, FsmTimeouts
  <2> QED
    BY ZenonT(60), <2>1, <2>2 DEF CompleteLeaveLNN
<1>4. /\ fsm' \in [FsmId -> ConnFsm] /\ Grows(fsm, fsm')
      /\ TimersSound(timers', fsm') /\ FsmsSound(fsm', fsmList, nextFsm)
  <2> HIDE DEF r
  <2> QED
    BY ZenonT(60), <1>0, <1>1, <1>2, <1>3, OneFsmChanges DEF Handling
<1>5. /\ auth' \in [AuthId -> AuthRecord] /\ AddrsKept(auth, auth')
      /\ AuthsSound(auth', fsm')
  <2>1. \A g \in FsmId : fsm'[g].authId = fsm[g].authId
    BY ZenonT(60), <1>0, <1>1, <1>2
  <2> QED
    BY ZenonT(60), <1>0, <2>1, AuthLeaveSound DEF CompleteLeaveLNN
<1>6. queue' \in Seq(Message) /\ QueueSound(queue', fsm', fsmList, auth')
  <2>1. QueueSound(q, fsm', fsmList, auth')
    BY ZenonT(60), <1>4, <1>5, QueueKept DEF Handling
  <2>2. MessageSound(CleanMsg(f), fsm', fsmList, auth')
    BY ZenonT(60), <1>0, <1>1, <1>2, CleanMsgType DEF MessageSound
  <2> QED
    BY ZenonT(60), <1>0, <2>1, <2>2, CleanMsgType, AppendSound DEF CompleteLeaveLNN, Handling
<1>7. ledger' \in [Udid -> LedgerNode] /\ cnnCode' \in [Udid -> 0 .. MaxAuth]
  BY ZenonT(60), <1>0, LeaveLedgerType DEF CompleteLeaveLNN
<1>8. TypeOK'
  BY ZenonT(60), <1>0, <1>3, <1>4, <1>5, <1>6, <1>7 DEF TypeOK, AuthRecord, CompleteLeaveLNN,
     listVars, peerVars
<1> QED
  BY ZenonT(60), <1>4, <1>5, <1>6, <1>8 DEF IInv, FsmLifecycle, CompleteLeaveLNN, listVars

\* A step that leaves the connection fsms, their list and the ledgers alone, and
\* at most drops timeouts, keeps the invariant if the new queue is sound.
LEMMA FsmsUnchanged ==
  ASSUME IInv, UNCHANGED <<fsm, listVars, ledgerVars>>, timers' \subseteq timers,
         auth' \in [AuthId -> AuthRecord], AuthsSound(auth', fsm),
         queue' \in Seq(Message), QueueSound(queue', fsm, fsmList, auth'),
         nextAuth' \in 0 .. MaxAuth, peerNet' \in [Udid -> 0 .. MaxNet],
         nextNet' \in 0 .. MaxNet, joinWait' \subseteq Addr,
         leaveWait' \subseteq NetworkId, offlineSync' \subseteq 0 .. MaxNet,
         alive' \in BOOLEAN
  PROVE  IInv'
<1>1. TypeOK'
  BY ZenonT(60) DEF IInv, TypeOK, AuthRecord, listVars, ledgerVars
<1>2. TimersSound(timers', fsm')
  BY ZenonT(60) DEF IInv, FsmLifecycle, TimersSound
<1> QED
  BY ZenonT(60), <1>1, <1>2 DEF IInv, FsmLifecycle, listVars

\* A handler that changes its own connection fsm, not its authentication, keeps
\* the invariant if its timeouts fit the new state and the new queue is sound.
LEMMA OwnFsmChanges ==
  ASSUME IInv, NEW f \in FsmId, fsm[f].alloc = "live", NEW r \in ConnFsm,
         r.alloc = "live", r.addr = fsm[f].addr, r.authId = fsm[f].authId,
         r.isDead = fsm[f].isDead, fsm' = [fsm EXCEPT ![f] = r],
         timers' \subseteq FsmId \X FsmTimeouts,
         \A t \in timers' : \/ t \in timers /\ t[1] # f
                            \/ t[1] = f /\ TimerSound(r, t[2]),
         queue' \in Seq(Message), QueueSound(queue', fsm, fsmList, auth),
         UNCHANGED <<listVars, ledgerVars, auth, peerVars, alive>>,
         joinWait' \subseteq Addr, leaveWait' \subseteq NetworkId,
         offlineSync' \subseteq 0 .. MaxNet
  PROVE  IInv'
<1>1. /\ fsm' \in [FsmId -> ConnFsm] /\ Grows(fsm, fsm')
      /\ TimersSound(timers', fsm') /\ FsmsSound(fsm', fsmList, nextFsm)
  BY ZenonT(60), OneFsmChanges
<1>2. TypeOK'
  BY ZenonT(60), <1>1 DEF IInv, TypeOK, listVars, ledgerVars, peerVars
<1>3. AddrsKept(auth, auth') /\ AuthsSound(auth', fsm')
  <2>1. \A g \in FsmId : fsm'[g].authId = fsm[g].authId
    BY ZenonT(60) DEF IInv, TypeOK
  <2> QED
    BY ZenonT(60), <2>1 DEF AddrsKept, AuthsSound, IInv, FsmLifecycle
<1>4. QueueSound(queue', fsm', fsmList, auth')
  BY ZenonT(60), <1>1, <1>3, QueueKept
<1> QED
  BY ZenonT(60), <1>1, <1>2, <1>3, <1>4 DEF IInv, FsmLifecycle, listVars

\* A handler that returns at once keeps the invariant.
LEMMA IgnoreSound ==
  ASSUME IInv, NEW q \in Seq(Message), QueueSound(q, fsm, fsmList, auth),
         Ignore(q) \/ NullNodeInfo(q)
  PROVE  IInv'
<1>1. /\ auth \in [AuthId -> AuthRecord] /\ AuthsSound(auth, fsm)
      /\ nextAuth \in 0 .. MaxAuth /\ peerNet \in [Udid -> 0 .. MaxNet]
      /\ nextNet \in 0 .. MaxNet /\ joinWait \subseteq Addr
      /\ leaveWait \subseteq NetworkId /\ offlineSync \subseteq 0 .. MaxNet
      /\ alive \in BOOLEAN
  BY DEF IInv, TypeOK, FsmLifecycle, AuthRecord
<1> QED
  BY ZenonT(60), <1>1, FsmsUnchanged DEF Ignore, NullNodeInfo, waitVars, peerVars

\* Telling the caller of JoinLNN keeps the invariant.
LEMMA OnlyNotifySound ==
  ASSUME IInv, NEW f, NEW q, Handling(f, q), OnlyNotifyJoinResult(f, q)
  PROVE  IInv'
<1> DEFINE r == [fsm[f] EXCEPT !.flag = fsm[f].flag \ JOIN_ACTIVE]
<1>0. TypeOK /\ f \in FsmId /\ fsm[f] \in ConnFsm /\ fsm \in [FsmId -> ConnFsm]
  BY ZenonT(60) DEF IInv, TypeOK, Handling
<1>1. /\ r \in ConnFsm /\ r.alloc = fsm[f].alloc /\ r.addr = fsm[f].addr
      /\ r.isDead = fsm[f].isDead /\ r.authId = fsm[f].authId
      /\ r.curState = fsm[f].curState
  BY <1>0 DEF ConnFsm
<1>2. fsm' = [fsm EXCEPT ![f] = r]
  BY ZenonT(60), <1>0 DEF OnlyNotifyJoinResult, ConnFsm
<1>3. \A t \in timers : t[1] = f => TimerSound(r, t[2])
  BY ZenonT(60), <1>1 DEF IInv, FsmLifecycle, TimersSound, TimerSound
<1> HIDE DEF r
<1>4. /\ joinWait' \subseteq Addr /\ leaveWait' \subseteq NetworkId
      /\ offlineSync' \subseteq 0 .. MaxNet
      /\ timers' = timers /\ timers' \subseteq FsmId \X FsmTimeouts
      /\ queue' = q /\ UNCHANGED <<listVars, ledgerVars, auth, peerVars, alive>>
  BY ZenonT(60), <1>0 DEF OnlyNotifyJoinResult, NotifyJoinResult, TypeOK
<1>5. fsm[f].alloc = "live" /\ q \in Seq(Message) /\ QueueSound(q, fsm, fsmList, auth)
  BY SMTT(60) DEF Handling
<1>6. \A t \in timers' : \/ t \in timers /\ t[1] # f
                         \/ t[1] = f /\ TimerSound(r, t[2])
  BY ZenonT(60), <1>3, <1>4
<1>7. r.alloc = "live" /\ queue' \in Seq(Message) /\ QueueSound(queue', fsm, fsmList, auth)
  BY ZenonT(60), <1>1, <1>4, <1>5
<1> QED
  BY ZenonT(60), <1>0, <1>1, <1>2, <1>4, <1>5, <1>6, <1>7, OwnFsmChanges

\* The failure paths common to the states before STATE_ONLINE.
LEMMA FailureSound ==
  ASSUME IInv, NEW f, NEW q, Handling(f, q), fsm[f].curState # "LEAVING",
         OnJoinFail(f, q) \/ TryCancelJoinProcedure(f, q)
  PROVE  IInv'
BY ZenonT(60), CompleteJoinFailSound, OnlyNotifySound, IgnoreSound
   DEF OnJoinFail, TryCancelJoinProcedure, Handling

\* Entering STATE_ONLINE keeps the invariant.
LEMMA EnterOnlineSound ==
  ASSUME IInv, NEW f, NEW q, Handling(f, q), fsm[f].curState # "LEAVING",
         EnterOnline(f, q)
  PROVE  IInv'
<1>1. CASE fsm[f].isDead
  <2> DEFINE r == [fsm[f] EXCEPT !.curState = "ONLINE"]
  <2>0. TypeOK /\ f \in FsmId /\ fsm[f] \in ConnFsm /\ fsm \in [FsmId -> ConnFsm]
    BY ZenonT(60) DEF IInv, TypeOK, Handling
  <2>1. /\ r \in ConnFsm /\ r.alloc = fsm[f].alloc /\ r.addr = fsm[f].addr
        /\ r.isDead = fsm[f].isDead /\ r.authId = fsm[f].authId
    BY <2>0 DEF ConnFsm, States
  <2>2. fsm' = [fsm EXCEPT ![f] = r]
    BY ZenonT(60), <1>1, <2>0 DEF EnterOnline
  <2>3. \A t \in timers : t[1] # f
    BY ZenonT(60), <1>1, <2>0, NoTimers
  <2> HIDE DEF r
  <2> QED
    BY ZenonT(60), <1>1, <2>0, <2>1, <2>2, <2>3, OwnFsmChanges DEF EnterOnline, Handling, TypeOK, waitVars
<1>2. CASE ~fsm[f].isDead /\ fsm[f].nodeInfo = NULL
  BY ZenonT(60), <1>2, IgnoreSound DEF EnterOnline, Handling
<1>3. CASE ~fsm[f].isDead /\ fsm[f].nodeInfo # NULL
  BY <1>3, CompleteJoinOkSound DEF EnterOnline
<1> QED
  BY ZenonT(60), <1>1, <1>2, <1>3

-----------------------------------------------------------------------------
(* The handlers of a connection fsm. *)

\* The state a handler of f starts in.
LEMMA DispatchSound ==
  ASSUME IInv, NEW f \in FsmId, NEW w, Dispatch(f, w)
  PROVE  /\ Handling(f, Rest) /\ f # NB
         /\ Head(queue) \in Message /\ Head(queue).h = f /\ Head(queue).what = w
         /\ w \in {"STOP", "DEINIT"} => fsm[f].isDead /\ f \notin fsmList
         /\ w = "DEINIT" => \A i \in 1 .. Len(Rest) : Rest[i].h # f
<1>1. f # NB
  BY DEF FsmId, NB
<1>2. queue \in Seq(Message) /\ queue # <<>> /\ QueueSound(queue, fsm, fsmList, auth)
  BY DEF IInv, TypeOK, FsmLifecycle, Dispatch
<1>3. /\ Head(queue) \in Message /\ Tail(queue) \in Seq(Message)
      /\ MessageSound(Head(queue), fsm, fsmList, auth)
      /\ QueueSound(Tail(queue), fsm, fsmList, auth)
      /\ Head(queue).what = "DEINIT" =>
           \A i \in 1 .. Len(Tail(queue)) : Tail(queue)[i].h # Head(queue).h
  BY ZenonT(60), <1>2, TailSound
<1>4. Head(queue).h = f /\ Head(queue).what = w
  BY DEF Dispatch
<1> QED
  BY ZenonT(60), <1>1, <1>3, <1>4 DEF Handling, Rest, MessageSound

\* A handler that moves its state machine to another state keeps the invariant.
LEMMA StateChangeSound ==
  ASSUME IInv, NEW f \in FsmId, fsm[f].alloc = "live", NEW s \in States,
         fsm' = [fsm EXCEPT ![f].curState = s],
         timers' \subseteq FsmId \X FsmTimeouts,
         \A t \in timers' :
           \/ t \in timers /\ t[1] # f
           \/ t[1] = f /\ ~fsm[f].isDead /\ s \in TimedStates(t[2]),
         queue' \in Seq(Message), QueueSound(queue', fsm, fsmList, auth),
         UNCHANGED <<listVars, ledgerVars, auth, peerVars, waitVars, alive>>,
         offlineSync' \subseteq 0 .. MaxNet
  PROVE  IInv'
<1> DEFINE r == [fsm[f] EXCEPT !.curState = s]
<1>1. fsm[f] \in ConnFsm /\ fsm \in [FsmId -> ConnFsm]
  BY DEF IInv, TypeOK
<1>2. /\ r \in ConnFsm /\ r.alloc = "live" /\ r.addr = fsm[f].addr
      /\ r.isDead = fsm[f].isDead /\ r.authId = fsm[f].authId /\ r.curState = s
  BY ZenonT(60), <1>1 DEF ConnFsm
<1>3. fsm' = [fsm EXCEPT ![f] = r]
  BY <1>1 DEF ConnFsm
<1> HIDE DEF r
<1>4. \A t \in timers' : \/ t \in timers /\ t[1] # f
                         \/ t[1] = f /\ TimerSound(r, t[2])
  BY <1>2 DEF TimerSound
<1>5. /\ joinWait' \subseteq Addr /\ leaveWait' \subseteq NetworkId
      /\ UNCHANGED <<listVars, ledgerVars, auth, peerVars, alive>>
  BY DEF IInv, TypeOK, waitVars
<1> QED
  BY ZenonT(60), <1>2, <1>3, <1>4, <1>5, OwnFsmChanges

\* The records of connection fsms that are not there, and that are freed.
LEMMA NoFsmType ==
  /\ NoFsm \in ConnFsm
  /\ [NoFsm EXCEPT !.alloc = "freed"] \in ConnFsm
  /\ [NoFsm EXCEPT !.alloc = "freed"].alloc = "freed"
  /\ [NoFsm EXCEPT !.alloc = "freed"].authId = 0
<1>1. 0 \in 0 .. MaxAuth /\ 0 \in 0 .. MaxNet
  BY BoundsAssumption
<1>2. /\ NoFsm.alloc = "none" /\ NoFsm.authId = 0 /\ NoFsm.isDead = FALSE
      /\ NoFsm \in ConnFsm
  BY <1>1 DEF NoFsm, ConnFsm, States
<1> QED
  BY <1>2 DEF ConnFsm

\* START, STOP and DEINIT: the state machine's own messages.
LEMMA ControlSound ==
  ASSUME IInv, NEW f \in FsmId,
         ProcessStartMessage(f) \/ ProcessStopMessage(f) \/ ProcessDeinitMessage(f)
  PROVE  IInv'
<1>0. /\ timers \subseteq FsmId \X FsmTimeouts /\ offlineSync \subseteq 0 .. MaxNet
      /\ "NULL" \in States /\ "AUTH" \in States
  BY DEF IInv, TypeOK, States
<1>1. CASE ProcessStartMessage(f)
  <2>1. Handling(f, Rest)
    BY ZenonT(60), <1>1, DispatchSound DEF ProcessStartMessage
  <2>2. CASE InState(f, "NULL")
    <3>1. \A t \in timers : t[1] # f
      BY ZenonT(60), <2>2, NoTimers DEF InState
    <3> QED
      BY ZenonT(60), <1>0, <1>1, <2>1, <2>2, <3>1, StateChangeSound DEF ProcessStartMessage, Handling
  <2>3. CASE ~InState(f, "NULL")
    BY ZenonT(60), <1>1, <2>1, <2>3, IgnoreSound DEF ProcessStartMessage, Handling
  <2> QED
    BY ZenonT(60), <2>2, <2>3
<1>2. CASE ProcessStopMessage(f)
  <2>1. Handling(f, Rest) /\ fsm[f].isDead
    BY <1>2, DispatchSound DEF ProcessStopMessage
  <2>2. \A t \in timers : t[1] # f
    BY <2>1, NoTimers
  <2>3. /\ fsm' = [fsm EXCEPT ![f].curState = "NULL"] /\ queue' = Rest
        /\ timers' = timers /\ offlineSync' = offlineSync
        /\ UNCHANGED <<listVars, ledgerVars, auth, peerVars, waitVars, alive>>
    BY <1>2 DEF ProcessStopMessage
  <2>4. \A t \in timers' : t \in timers /\ t[1] # f
    BY ZenonT(60), <2>2, <2>3
  <2>5. /\ fsm[f].alloc = "live" /\ queue' \in Seq(Message)
        /\ QueueSound(queue', fsm, fsmList, auth)
        /\ timers' \subseteq FsmId \X FsmTimeouts /\ offlineSync' \subseteq 0 .. MaxNet
    BY ZenonT(60), <1>0, <2>1, <2>3 DEF Handling
  <2> QED
    BY ZenonT(60), <1>0, <2>3, <2>4, <2>5, StateChangeSound
<1>3. CASE ProcessDeinitMessage(f)
  <2> DEFINE r == [NoFsm EXCEPT !.alloc = "freed"]
  <2>1. /\ Handling(f, Rest) /\ fsm[f].isDead /\ f \notin fsmList
        /\ \A i \in 1 .. Len(Rest) : Rest[i].h # f
    BY ZenonT(60), <1>3, DispatchSound DEF ProcessDeinitMessage
  <2>2. \A t \in timers : t[1] # f
    BY ZenonT(60), <2>1, NoTimers
  <2>3. r \in ConnFsm /\ r.alloc = "freed" /\ r.authId = 0
    BY NoFsmType
  <2>4. fsm' = [fsm EXCEPT ![f] = r] /\ queue' = Rest
    BY SMTT(60), <1>3 DEF ProcessDeinitMessage
  <2> HIDE DEF r
  <2>5. /\ fsm' \in [FsmId -> ConnFsm] /\ fsm'[f] = r
        /\ \A g \in FsmId : g # f => fsm'[g] = fsm[g]
    BY ZenonT(60), <2>3, <2>4 DEF IInv, TypeOK
  <2>6. ASSUME NEW i \in 1 .. Len(Rest)
        PROVE  MessageSound(Rest[i], fsm', fsmList, auth)
    <3>1. /\ Rest[i] \in Message /\ MessageSound(Rest[i], fsm, fsmList, auth)
          /\ Rest[i].h # f
      BY SMTT(60), <2>1 DEF Handling, QueueSound
    <3> QED
      BY ZenonT(60), <2>3, <2>5, <3>1, MessageFields DEF MessageSound
  <2>7. QueueSound(queue', fsm', fsmList, auth)
    BY ZenonT(60), <2>1, <2>4, <2>6 DEF QueueSound, Handling
  <2>8. TimersSound(timers, fsm')
    BY ZenonT(60), <1>0, <2>2, <2>5 DEF IInv, FsmLifecycle, TimersSound
  <2>9. FsmsSound(fsm', fsmList, nextFsm)
    <3>1. ~(f > nextFsm)
      BY ZenonT(60), <2>1 DEF Handling, IInv, FsmLifecycle, FsmsSound
    <3> QED
      BY ZenonT(60), <2>1, <2>3, <2>5, <3>1 DEF IInv, TypeOK, FsmLifecycle, FsmsSound
  <2>10. AuthsSound(auth, fsm')
    BY ZenonT(60), <2>3, <2>5 DEF IInv, FsmLifecycle, AuthsSound
  <2>11. UNCHANGED <<timers, fsmList, connCount, nextFsm, ledger, cnnCode, auth,
                     nextAuth, peerNet, nextNet, joinWait, leaveWait, offlineSync,
                     alive>>
    BY ZenonT(60), <1>3 DEF ProcessDeinitMessage, listVars, ledgerVars, peerVars, waitVars
  <2>12. TypeOK'
    BY ZenonT(60), <2>1, <2>4, <2>5, <2>11 DEF IInv, TypeOK, Handling
  <2> QED
    BY ZenonT(60), <2>7, <2>8, <2>9, <2>10, <2>11, <2>12 DEF IInv, FsmLifecycle
<1> QED
  BY ZenonT(60), <1>1, <1>2, <1>3

\* A message an fsm posts to itself while it is not dead.
LEMMA SelfPostSound ==
  ASSUME IInv, NEW f, NEW q, Handling(f, q), ~fsm[f].isDead,
         NEW w \in FsmData
  PROVE  /\ Append(q, FsmMsg(f, w)) \in Seq(Message)
         /\ QueueSound(Append(q, FsmMsg(f, w)), fsm, fsmList, auth)
<1>1. /\ FsmMsg(f, w) \in Message /\ FsmMsg(f, w).h = f /\ FsmMsg(f, w).what = w
      /\ f # NB /\ f \in FsmId /\ w \notin {"STOP", "DEINIT"}
  BY SMTT(60), FsmMsgType DEF Handling, NB, FsmId, FsmData
<1>2. MessageSound(FsmMsg(f, w), fsm, fsmList, auth)
  BY <1>1 DEF MessageSound, Handling
<1>3. NoDeinit(q, f)
  BY ZenonT(60), <1>1, NoDeinitQueued DEF Handling
<1> QED
  BY ZenonT(60), <1>1, <1>2, <1>3, AppendSound DEF Handling

\* BeginVerify: the new authentication has the address of the fsm.
LEMMA BeginVerifySound ==
  ASSUME IInv, NEW f, Handling(f, Rest), InState(f, "AUTH"), ~fsm[f].isDead,
         BeginVerify(f)
  PROVE  IInv'
<1> DEFINE n == nextAuth + 1
           r == [fsm[f] EXCEPT !.authId = n]
<1>0. /\ TypeOK /\ f \in FsmId /\ fsm[f] \in ConnFsm /\ fsm \in [FsmId -> ConnFsm]
      /\ auth \in [AuthId -> AuthRecord] /\ AuthsSound(auth, fsm)
      /\ timers \subseteq FsmId \X FsmTimeouts /\ fsm[f].alloc = "live"
  BY ZenonT(60) DEF IInv, TypeOK, FsmLifecycle, Handling, AuthRecord
<1>1. n \in AuthId /\ n # 0 /\ nextAuth' = n /\ nextAuth' \in 0 .. MaxAuth
  BY SMTT(60), <1>0, BoundsAssumption DEF BeginVerify, TypeOK, AuthId
<1>2. fsm[f].addr \in Addr
  BY <1>0 DEF IInv, FsmLifecycle, FsmsSound
<1>3. /\ auth' \in [AuthId -> AuthRecord] /\ auth'[n].addr = fsm[f].addr
      /\ \A a \in AuthId : a # n => auth'[a] = auth[a]
  BY ZenonT(60), <1>0, <1>1, <1>2 DEF BeginVerify, AuthRecord
<1>4. /\ r \in ConnFsm /\ r.alloc = "live" /\ r.addr = fsm[f].addr
      /\ r.isDead = fsm[f].isDead /\ r.authId = n /\ r.curState = fsm[f].curState
  BY ZenonT(60), <1>0, <1>1 DEF ConnFsm, AuthId
<1>5. fsm' = [fsm EXCEPT ![f] = r]
  BY <1>0 DEF BeginVerify, ConnFsm
<1> HIDE DEF r, n
<1>6. /\ timers' \subseteq FsmId \X FsmTimeouts
      /\ \A t \in timers' : \/ t \in timers /\ t[1] # f
                            \/ t[1] = f /\ TimerSound(r, t[2])
  <2>1. TimerSound(r, "JOIN_LNN_TIMEOUT")
    BY ZenonT(60), <1>4 DEF TimerSound, TimedStates, InState
  <2>2. \A t \in timers : t[1] = f => TimerSound(r, t[2])
    BY <1>4 DEF IInv, FsmLifecycle, TimersSound, TimerSound
  <2>3. timers' = timers \cup {<<f, "JOIN_LNN_TIMEOUT">>}
    BY SMTT(60) DEF BeginVerify
  <2> QED
    BY <1>0, <2>1, <2>2, <2>3 DEF FsmTimeouts
<1>7. /\ fsm' \in [FsmId -> ConnFsm] /\ Grows(fsm, fsm')
      /\ TimersSound(timers', fsm') /\ FsmsSound(fsm', fsmList, nextFsm)
  BY ZenonT(60), <1>0, <1>4, <1>5, <1>6, OneFsmChanges
<1>8. AddrsKept(auth, auth')
  BY ZenonT(60), <1>2, <1>3 DEF AddrsKept
<1>9. AuthsSound(auth', fsm')
  <2>1. \A g \in FsmId : fsm[g].authId \in {0} \cup AuthId
    BY SMTT(60), <1>0 DEF ConnFsm, AuthId
  <2>2. fsm'[f] = r /\ \A g \in FsmId : g # f => fsm'[g] = fsm[g]
    BY ZenonT(60), <1>0, <1>5
  <2>3. \A a \in AuthId : auth'[a].phase # "none" => auth'[a].addr \in Addr
    BY ZenonT(60), <1>0, <1>2, <1>3 DEF AuthsSound
  <2>4. \A g \in FsmId : g # f /\ fsm[g].authId # 0 => auth'[fsm[g].authId].addr \in Addr
    BY ZenonT(60), <1>0, <1>2, <1>3, <2>1 DEF AuthsSound
  <2> QED
    BY ZenonT(60), <1>2, <1>3, <1>4, <2>2, <2>3, <2>4 DEF AuthsSound
<1>10. queue' \in Seq(Message) /\ QueueSound(queue', fsm', fsmList, auth')
  BY SMTT(60), <1>7, <1>8, QueueKept DEF Handling, BeginVerify
<1>11. UNCHANGED <<fsmList, connCount, nextFsm, ledger, cnnCode, peerNet, nextNet,
                   joinWait, leaveWait, offlineSync, alive>>
  BY ZenonT(60) DEF BeginVerify, listVars, ledgerVars, waitVars
<1>12. TypeOK'
  BY ZenonT(60), <1>0, <1>1, <1>3, <1>6, <1>7, <1>10, <1>11 DEF TypeOK, AuthRecord
<1> QED
  BY ZenonT(60), <1>7, <1>9, <1>10, <1>11, <1>12 DEF IInv, FsmLifecycle

\* The handlers of STATE_AUTH.
LEMMA AuthStateSound ==
  ASSUME IInv, NEW f \in FsmId,
         OnJoinLNNInAuth(f) \/ OnAuthKeyGeneratedInAuth(f) \/ OnAuthDoneInAuth(f)
  PROVE  IInv'
<1>0. /\ timers \subseteq FsmId \X FsmTimeouts /\ offlineSync \subseteq 0 .. MaxNet
      /\ TimersSound(timers, fsm)
  BY DEF IInv, TypeOK, FsmLifecycle
<1>1. Handling(f, Rest)
  BY ZenonT(60), DispatchSound DEF OnJoinLNNInAuth, OnAuthKeyGeneratedInAuth, OnAuthDoneInAuth
<1>2. InState(f, "AUTH") /\ fsm[f].curState = "AUTH" /\ fsm[f].curState # "LEAVING"
  BY DEF InState, OnJoinLNNInAuth, OnAuthKeyGeneratedInAuth, OnAuthDoneInAuth
<1>3. Rest \in Seq(Message) /\ QueueSound(Rest, fsm, fsmList, auth)
  BY ZenonT(60), <1>1 DEF Handling
<1>4. CASE OnJoinLNNInAuth(f)
  BY ZenonT(60), <1>1, <1>2, <1>3, <1>4, OnlyNotifySound, IgnoreSound, BeginVerifySound,
     CompleteJoinFailSound DEF OnJoinLNNInAuth
<1>5. CASE OnAuthKeyGeneratedInAuth(f)
  <2>1. CASE fsm[f].isDead
    BY ZenonT(60), <1>3, <1>5, <2>1, IgnoreSound DEF OnAuthKeyGeneratedInAuth
  <2>2. CASE ~fsm[f].isDead
    <3>1. /\ fsm' = [fsm EXCEPT ![f].curState = "SYNC_DEVICE_INFO"]
          /\ queue' = Append(Rest, FsmMsg(f, "SYNC_DEVICE_INFO"))
          /\ timers' \subseteq timers \cup {<<f, "JOIN_LNN_TIMEOUT">>}
          /\ offlineSync' = offlineSync
          /\ UNCHANGED <<listVars, ledgerVars, auth, peerVars, waitVars, alive>>
      BY ZenonT(60), <1>5, <2>2 DEF OnAuthKeyGeneratedInAuth
    <3>2. queue' \in Seq(Message) /\ QueueSound(queue', fsm, fsmList, auth)
      BY ZenonT(60), <1>1, <2>2, <3>1, SelfPostSound DEF FsmData
    <3>3. \A t \in timers' : \/ t \in timers /\ t[1] # f
                             \/ /\ t[1] = f /\ ~fsm[f].isDead
                                /\ "SYNC_DEVICE_INFO" \in TimedStates(t[2])
      <4>1. \A t \in timers : t[1] = f => t[2] # "LEAVE_LNN_TIMEOUT"
        BY ZenonT(60), <1>0, <1>2 DEF TimersSound, TimerSound, TimedStates
      <4> QED
        BY SMTT(60), <2>2, <3>1, <4>1 DEF TimedStates
    <3>4. timers' \subseteq FsmId \X FsmTimeouts
      BY SMTT(60), <1>0, <3>1 DEF FsmTimeouts
    <3>5. "SYNC_DEVICE_INFO" \in States /\ fsm[f].alloc = "live"
      BY SMTT(60), <1>1 DEF States, Handling
    <3> QED
      BY ZenonT(60), <1>0, <3>1, <3>2, <3>3, <3>4, <3>5, StateChangeSound
  <2> QED
    BY ZenonT(60), <2>1, <2>2
<1>6. CASE OnAuthDoneInAuth(f)
  BY ZenonT(60), <1>1, <1>2, <1>3, <1>6, IgnoreSound, CompleteJoinFailSound DEF OnAuthDoneInAuth
<1> QED
  BY <1>4, <1>5, <1>6

\* The peer's node info is well-formed: the address of the fsm has a device.
LEMMA ParsePeerNodeInfoType ==
  ASSUME IInv, NEW f, Handling(f, Rest), NEW net \in NetworkId
  PROVE  ParsePeerNodeInfo(f, net) \in NodeInfo
<1>1. fsm[f].addr \in Addr /\ fsm[f].authId \in 0 .. MaxAuth
  BY ZenonT(60) DEF IInv, TypeOK, FsmLifecycle, FsmsSound, Handling, ConnFsm
<1>2. PeerOf[fsm[f].addr] \in Udid
  BY ZenonT(60), <1>1, AddrAssumption
<1>3. {TypeOfAddr(fsm[f].addr)} \in SUBSET AddrTypes
  BY DEF TypeOfAddr, AddrTypes
<1> QED
  BY SMTT(60), <1>1, <1>2, <1>3 DEF ParsePeerNodeInfo, NodeInfo

\* The handlers of STATE_SYNC_DEVICE_INFO.
LEMMA SyncInfoStateSound ==
  ASSUME IInv, NEW f \in FsmId,
         OnSyncDeviceInfo(f) \/ OnSyncDeviceInfoDone(f) \/ OnAuthDoneInSyncInfo(f)
  PROVE  IInv'
<1>0. /\ timers \subseteq FsmId \X FsmTimeouts /\ offlineSync \subseteq 0 .. MaxNet
      /\ TimersSound(timers, fsm) /\ TypeOK
      /\ fsm[f] \in ConnFsm /\ fsm \in [FsmId -> ConnFsm]
  BY ZenonT(60) DEF IInv, TypeOK, FsmLifecycle
<1>1. Handling(f, Rest)
  BY ZenonT(60), DispatchSound DEF OnSyncDeviceInfo, OnSyncDeviceInfoDone, OnAuthDoneInSyncInfo
<1>2. fsm[f].curState = "SYNC_DEVICE_INFO" /\ fsm[f].curState # "LEAVING"
  BY ZenonT(60) DEF InState, OnSyncDeviceInfo, OnSyncDeviceInfoDone, OnAuthDoneInSyncInfo
<1>3. /\ Rest \in Seq(Message) /\ QueueSound(Rest, fsm, fsmList, auth)
      /\ fsm[f].alloc = "live"
  BY ZenonT(60), <1>1 DEF Handling
<1>4. \A t \in timers : t[1] = f => t[2] # "LEAVE_LNN_TIMEOUT" /\ TimerSound(fsm[f], t[2])
  BY ZenonT(60), <1>0, <1>2 DEF TimersSound, TimerSound, TimedStates
<1>5. CASE Ignore(Rest) \/ CompleteJoinFail(f, Rest)
  BY ZenonT(60), <1>1, <1>2, <1>3, <1>5, IgnoreSound, CompleteJoinFailSound
<1>6. CASE OnSyncDeviceInfo(f) /\ ~Ignore(Rest) /\ ~CompleteJoinFail(f, Rest)
  <2> DEFINE a == fsm[f].authId
  <2>1. /\ a > 0 /\ queue' = Rest
        /\ auth' = [auth EXCEPT ![a].phase = IF @ = "keyed" THEN "synced" ELSE @]
        /\ UNCHANGED <<timers, fsm, listVars, ledgerVars, peerVars, waitVars,
                       offlineSync, alive>>
    BY ZenonT(60), <1>6 DEF OnSyncDeviceInfo
  <2>2. a \in AuthId /\ auth[a].addr \in Addr
    BY ZenonT(60), <1>0, <2>1, FsmAuths DEF AuthsSound
  <2>3. /\ auth \in [AuthId -> AuthRecord] /\ AuthsSound(auth, fsm)
        /\ \A g \in FsmId : fsm[g].authId \in {0} \cup AuthId
    BY ZenonT(60), FsmAuths
  <2>4. /\ auth' \in [AuthId -> AuthRecord]
        /\ \A b \in AuthId : /\ auth'[b].addr = auth[b].addr
                             /\ b # a => auth'[b] = auth[b]
    BY ZenonT(60), <2>1, <2>2, <2>3 DEF AuthRecord
  <2>5. AddrsKept(auth, auth') /\ AuthsSound(auth', fsm)
    BY ZenonT(60), <2>2, <2>3, <2>4 DEF AddrsKept, AuthsSound
  <2>6. QueueSound(Rest, fsm, fsmList, auth')
    <3>1. Grows(fsm, fsm)
      BY ZenonT(60) DEF Grows
    <3> QED
      BY ZenonT(60), <1>3, <2>5, <3>1, QueueKept
  <2>7. /\ nextAuth' \in 0 .. MaxAuth /\ peerNet' \in [Udid -> 0 .. MaxNet]
        /\ nextNet' \in 0 .. MaxNet /\ joinWait' \subseteq Addr
        /\ leaveWait' \subseteq NetworkId /\ offlineSync' \subseteq 0 .. MaxNet
        /\ alive' \in BOOLEAN
    BY ZenonT(60), <1>0, <2>1 DEF TypeOK, peerVars, waitVars
  <2> QED
    BY ZenonT(60), <1>3, <2>1, <2>4, <2>5, <2>6, <2>7, FsmsUnchanged
<1>7. CASE OnSyncDeviceInfoDone(f) /\ ~Ignore(Rest) /\ ~CompleteJoinFail(f, Rest)
  <2> DEFINE n == Head(queue).networkId
             i == ParsePeerNodeInfo(f, n)
             r == [fsm[f] EXCEPT !.nodeInfo = i, !.peerNetworkId = n]
  <2>1. n \in NetworkId
    <3>1. Dispatch(f, "SYNC_DEVICE_INFO_DONE")
      BY ZenonT(60), <1>7 DEF OnSyncDeviceInfoDone
    <3> QED
      BY ZenonT(60), <3>1, DispatchSound, SyncInfoFields
  <2>2. i \in NodeInfo /\ n \in 0 .. MaxNet
    BY SMTT(60), <1>1, <2>1, ParsePeerNodeInfoType DEF NetworkId
  <2>3. /\ fsm' = [fsm EXCEPT ![f] = r] /\ queue' = Rest
        /\ UNCHANGED <<timers, listVars, ledgerVars, auth, peerVars, waitVars,
                       offlineSync, alive>>
    BY ZenonT(60), <1>7 DEF OnSyncDeviceInfoDone
  <2> HIDE DEF i, n
  <2>4. /\ r \in ConnFsm /\ r.alloc = fsm[f].alloc /\ r.addr = fsm[f].addr
        /\ r.isDead = fsm[f].isDead /\ r.authId = fsm[f].authId
        /\ r.curState = fsm[f].curState
    BY ZenonT(60), <1>0, <2>2 DEF ConnFsm
  <2> HIDE DEF r
  <2>5. /\ timers' \subseteq FsmId \X FsmTimeouts /\ r.alloc = "live"
        /\ \A t \in timers' : \/ t \in timers /\ t[1] # f
                              \/ t[1] = f /\ TimerSound(r, t[2])
    BY ZenonT(60), <1>0, <1>3, <1>4, <2>3, <2>4 DEF TimerSound
  <2>6. /\ joinWait' \subseteq Addr /\ leaveWait' \subseteq NetworkId
        /\ offlineSync' \subseteq 0 .. MaxNet
        /\ UNCHANGED <<listVars, ledgerVars, auth, peerVars, alive>>
    BY ZenonT(60), <1>0, <2>3 DEF TypeOK, waitVars
  <2> QED
    BY ZenonT(60), <1>3, <2>3, <2>4, <2>5, <2>6, OwnFsmChanges
<1>8. CASE OnAuthDoneInSyncInfo(f) /\ ~Ignore(Rest) /\ ~CompleteJoinFail(f, Rest)
  <2>1. /\ ~fsm[f].isDead
        /\ fsm' = [fsm EXCEPT ![f].curState = "CLEAN_INVALID_CONN"]
        /\ queue' = Append(Rest, FsmMsg(f, "LEAVE_INVALID_CONN"))
        /\ timers' = timers /\ offlineSync' = offlineSync
        /\ UNCHANGED <<listVars, ledgerVars, auth, peerVars, waitVars, alive>>
    BY ZenonT(60), <1>8 DEF OnAuthDoneInSyncInfo
  <2>2. queue' \in Seq(Message) /\ QueueSound(queue', fsm, fsmList, auth)
    BY ZenonT(60), <1>1, <2>1, SelfPostSound DEF FsmData
  <2>3. \A t \in timers' : \/ t \in timers /\ t[1] # f
                           \/ /\ t[1] = f /\ ~fsm[f].isDead
                              /\ "CLEAN_INVALID_CONN" \in TimedStates(t[2])
    BY ZenonT(60), <1>4, <2>1 DEF TimedStates
  <2>4. "CLEAN_INVALID_CONN" \in States
    BY ZenonT(60) DEF States
  <2> QED
    BY ZenonT(60), <1>0, <1>3, <2>1, <2>2, <2>3, <2>4, StateChangeSound
<1> QED
  BY ZenonT(60), <1>5, <1>6, <1>7, <1>8

\* What the states before STATE_ONLINE do alike.
LEMMA BeforeOnlineSound ==
  ASSUME IInv, NEW f \in FsmId,
         \/ OnLeaveLNNBeforeOnline(f) \/ OnDisconnectBeforeOnline(f)
         \/ OnNotTrustedBeforeOnline(f)
  PROVE  IInv'
<1>1. Handling(f, Rest)
  BY ZenonT(60), DispatchSound DEF OnLeaveLNNBeforeOnline, OnDisconnectBeforeOnline,
     OnNotTrustedBeforeOnline
<1>2. fsm[f].curState # "LEAVING"
  BY SMTT(60) DEF OnLeaveLNNBeforeOnline, OnDisconnectBeforeOnline, OnNotTrustedBeforeOnline
<1> QED
  BY ZenonT(60), <1>1, <1>2, FailureSound DEF OnLeaveLNNBeforeOnline, OnDisconnectBeforeOnline,
     OnNotTrustedBeforeOnline

\* The handlers of STATE_CLEAN_INVALID_CONN.
LEMMA CleanInvalidStateSound ==
  ASSUME IInv, NEW f \in FsmId, OnLeaveInvalidConn(f) \/ OnInitiateOnline(f)
  PROVE  IInv'
<1>1. Handling(f, Rest)
  BY ZenonT(60), DispatchSound DEF OnLeaveInvalidConn, OnInitiateOnline
<1>2. fsm[f].curState # "LEAVING"
  BY ZenonT(60) DEF OnLeaveInvalidConn, OnInitiateOnline, InState
<1>3. Rest \in Seq(Message) /\ QueueSound(Rest, fsm, fsmList, auth)
  BY ZenonT(60), <1>1 DEF Handling
<1>4. CASE EnterOnline(f, Rest)
  BY ZenonT(60), <1>1, <1>2, <1>4, EnterOnlineSound
<1>5. CASE NullNodeInfo(Rest) \/ Ignore(Rest)
  BY ZenonT(60), <1>3, <1>5, IgnoreSound
<1>6. CASE OnLeaveInvalidConn(f) /\ fsm[f].nodeInfo # NULL /\ ~fsm[f].isDead
           /\ ~EnterOnline(f, Rest)
  <2> DEFINE info == fsm[f].nodeInfo
             old == ledger[info.udid]
             invalid == IF old.status = "online" THEN InvalidTypes(f, old) ELSE {}
             m(t) == [h |-> NB, what |-> "LEAVE_INVALID_CONN",
                      oldNetworkId |-> old.networkId, addrType |-> t,
                      newNetworkId |-> info.networkId]
  <2>1. PICK t \in invalid : Ignore(Append(Rest, m(t)))
    BY ZenonT(60), <1>6 DEF OnLeaveInvalidConn
  <2>2. info \in NodeInfo
    BY ZenonT(60), <1>6 DEF IInv, TypeOK, ConnFsm
  <2>3. info.udid \in Udid /\ info.networkId \in NetworkId
    BY ZenonT(60), <2>2 DEF NodeInfo
  <2>4. old.networkId \in 0 .. MaxNet
    BY ZenonT(60), <2>3 DEF IInv, TypeOK, LedgerNode
  <2>5. t \in AddrTypes \cup {"MAX"}
    BY ZenonT(60), <2>1 DEF InvalidTypes, TypeOfAddr, AddrTypes
  <2>6. m(t) \in Message /\ m(t).h = NB /\ m(t).what = "LEAVE_INVALID_CONN"
    BY ZenonT(60), <2>3, <2>4, <2>5 DEF Message
  <2> HIDE DEF m, invalid
  <2>7. MessageSound(m(t), fsm, fsmList, auth)
    BY ZenonT(60), <2>6 DEF MessageSound
  <2>8. /\ Append(Rest, m(t)) \in Seq(Message)
        /\ QueueSound(Append(Rest, m(t)), fsm, fsmList, auth)
    BY ZenonT(60), <1>3, <2>6, <2>7, AppendSound
  <2> QED
    BY ZenonT(60), <2>1, <2>8, IgnoreSound
<1> QED
  BY ZenonT(60), <1>4, <1>5, <1>6 DEF OnLeaveInvalidConn, OnInitiateOnline

\* The handlers of STATE_ONLINE and STATE_LEAVING.
LEMMA OnlineStateSound ==
  ASSUME IInv, NEW f \in FsmId,
         OnJoinLNNWhenJoined(f) \/ LeaveLNNInOnline(f) \/ OnSyncOfflineDone(f)
  PROVE  IInv'
<1>1. Handling(f, Rest)
  BY ZenonT(60), DispatchSound DEF OnJoinLNNWhenJoined, LeaveLNNInOnline, OnSyncOfflineDone
<1>2. /\ Rest \in Seq(Message) /\ QueueSound(Rest, fsm, fsmList, auth)
      /\ fsm[f].alloc = "live"
  BY <1>1 DEF Handling
<1>3. CASE OnJoinLNNWhenJoined(f)
  BY ZenonT(60), <1>1, <1>3, OnlyNotifySound DEF OnJoinLNNWhenJoined
<1>4. CASE OnSyncOfflineDone(f)
  BY ZenonT(60), <1>1, <1>2, <1>4, IgnoreSound, CompleteLeaveSound DEF OnSyncOfflineDone, InState
<1>5. CASE LeaveLNNInOnline(f) /\ (Ignore(Rest) \/ CompleteLeaveLNN(f, Rest))
  BY ZenonT(60), <1>1, <1>2, <1>5, IgnoreSound, CompleteLeaveSound DEF LeaveLNNInOnline, InState
<1>6. CASE LeaveLNNInOnline(f) /\ ~Ignore(Rest) /\ ~CompleteLeaveLNN(f, Rest)
  <2>1. /\ ~fsm[f].isDead /\ fsm[f].curState = "ONLINE"
        /\ fsm' = [fsm EXCEPT ![f].curState = "LEAVING"]
        /\ timers' = timers \cup {<<f, "LEAVE_LNN_TIMEOUT">>}
        /\ offlineSync' = offlineSync \cup {fsm[f].peerNetworkId}
        /\ queue' = Rest
        /\ UNCHANGED <<listVars, ledgerVars, auth, peerVars, waitVars, alive>>
    BY <1>6 DEF LeaveLNNInOnline, InState
  <2>2. \A t \in timers' : \/ t \in timers /\ t[1] # f
                           \/ /\ t[1] = f /\ ~fsm[f].isDead
                              /\ "LEAVING" \in TimedStates(t[2])
    BY <2>1, NoTimers DEF TimedStates
  <2>3. /\ timers' \subseteq FsmId \X FsmTimeouts /\ offlineSync' \subseteq 0 .. MaxNet
        /\ "LEAVING" \in States
    BY SMTT(60), <2>1 DEF IInv, TypeOK, ConnFsm, FsmTimeouts, States
  <2> QED
    BY ZenonT(60), <1>2, <2>1, <2>2, <2>3, StateChangeSound
<1> QED
  BY ZenonT(60), <1>3, <1>4, <1>5, <1>6

\* Every handler of a connection fsm keeps the invariant.
LEMMA FsmStepSound ==
  ASSUME IInv, NEW f \in FsmId, FsmStep(f)
  PROVE  IInv'
<1>1. CASE FreeUnhandledMessage(f)
  <2>1. Handling(f, Rest)
    BY ZenonT(60), <1>1, DispatchSound DEF FreeUnhandledMessage
  <2> QED
    BY ZenonT(60), <1>1, <2>1, IgnoreSound DEF FreeUnhandledMessage, Handling
<1> QED
  BY ZenonT(60), <1>1, ControlSound, AuthStateSound, SyncInfoStateSound, BeforeOnlineSound,
     CleanInvalidStateSound, OnlineStateSound DEF FsmStep

\* The two timeouts keep the invariant: each is cancelled or used up.
LEMMA TimerStepSound ==
  ASSUME IInv, NEW f \in FsmId, TimerStep(f)
  PROVE  IInv'
<1>0. queue \in Seq(Message) /\ QueueSound(queue, fsm, fsmList, auth)
  BY ZenonT(60) DEF IInv, TypeOK, FsmLifecycle
<1>1. fsm[f].alloc = "live"
  BY SMTT(60) DEF TimerStep, JoinLNNTimeout, LeaveLNNTimeout, IInv, FsmLifecycle, TimersSound,
     TimerSound
<1>2. Handling(f, queue)
  BY ZenonT(60), <1>0, <1>1 DEF Handling
<1>3. ASSUME NEW w, DropTimer(f, w) PROVE IInv'
  <2>1. /\ auth' \in [AuthId -> AuthRecord] /\ AuthsSound(auth', fsm)
        /\ nextAuth' \in 0 .. MaxAuth /\ peerNet' \in [Udid -> 0 .. MaxNet]
        /\ nextNet' \in 0 .. MaxNet /\ joinWait' \subseteq Addr
        /\ leaveWait' \subseteq NetworkId /\ offlineSync' \subseteq 0 .. MaxNet
        /\ alive' \in BOOLEAN
    BY ZenonT(60), <1>3 DEF DropTimer, IInv, TypeOK, FsmLifecycle, AuthRecord, waitVars, peerVars
  <2>2. /\ UNCHANGED <<fsm, listVars, ledgerVars>> /\ timers' \subseteq timers
        /\ queue' = queue /\ auth' = auth
    BY ZenonT(60), <1>3 DEF DropTimer
  <2> QED
    BY ZenonT(60), <1>0, <2>1, <2>2, FsmsUnchanged
<1>4. CASE JoinLNNTimeout(f)
  BY ZenonT(60), <1>2, <1>3, <1>4, CompleteJoinFailSound DEF JoinLNNTimeout
<1>5. CASE LeaveLNNTimeout(f)
  BY ZenonT(60), <1>2, <1>3, <1>5, CompleteLeaveSound DEF LeaveLNNTimeout, InState
<1> QED
  BY ZenonT(60), <1>4, <1>5 DEF TimerStep

-----------------------------------------------------------------------------
(* The handlers of the net builder. *)

\* The net builder has taken its message.
NBHandling ==
  /\ Rest \in Seq(Message) /\ QueueSound(Rest, fsm, fsmList, auth)
  /\ Head(queue) \in Message /\ Head(queue).h = NB
  /\ MessageSound(Head(queue), fsm, fsmList, auth)

\* The state a handler of the net builder starts in.
LEMMA NBDispatchSound ==
  ASSUME IInv, NEW w, Dispatch(NB, w)
  PROVE  NBHandling /\ Head(queue).what = w
<1>1. queue \in Seq(Message) /\ queue # <<>> /\ QueueSound(queue, fsm, fsmList, auth)
  BY DEF IInv, TypeOK, FsmLifecycle, Dispatch
<1>2. /\ Head(queue) \in Message /\ Tail(queue) \in Seq(Message)
      /\ MessageSound(Head(queue), fsm, fsmList, auth)
      /\ QueueSound(Tail(queue), fsm, fsmList, auth)
  BY ZenonT(60), <1>1, TailSound
<1> QED
  BY ZenonT(60), <1>2 DEF NBHandling, Rest, Dispatch

\* A listed connection fsm is allocated.
LEMMA Listed ==
  ASSUME IInv, NEW f \in fsmList
  PROVE  f \in FsmId /\ f # NB /\ fsm[f].alloc = "live" /\ f \in FsmId \cap fsmList
BY DEF IInv, TypeOK, FsmLifecycle, FsmsSound, NB, FsmId

\* A handler that only posts to listed connection fsms keeps the invariant.
LEMMA OnlyPostSound ==
  ASSUME IInv, NBHandling, NEW msgs \in Seq(Message), NEW calls,
         \A k \in 1 .. Len(msgs) : /\ msgs[k].h \in fsmList
                                   /\ msgs[k].what \notin {"STOP", "DEINIT"},
         OnlyPost(msgs, calls)
  PROVE  IInv'
<1>1. \A k \in 1 .. Len(msgs) : /\ msgs[k].h \in FsmId \cap fsmList
                                /\ fsm[msgs[k].h].alloc = "live"
                                /\ msgs[k].what \notin {"STOP", "DEINIT"}
  BY ZenonT(60), Listed
<1>2. Rest \o msgs \in Seq(Message) /\ QueueSound(Rest \o msgs, fsm, fsmList, auth)
  BY ZenonT(60), <1>1, ConcatSound DEF NBHandling
<1>3. /\ auth' \in [AuthId -> AuthRecord] /\ AuthsSound(auth', fsm)
      /\ nextAuth' \in 0 .. MaxAuth /\ peerNet' \in [Udid -> 0 .. MaxNet]
      /\ nextNet' \in 0 .. MaxNet /\ joinWait' \subseteq Addr
      /\ leaveWait' \subseteq NetworkId /\ offlineSync' \subseteq 0 .. MaxNet
      /\ alive' \in BOOLEAN
  BY ZenonT(60), FsmAuths DEF OnlyPost, IInv, TypeOK, waitVars, peerVars
<1>4. /\ UNCHANGED <<fsm, listVars, ledgerVars>> /\ timers' \subseteq timers
      /\ queue' = Rest \o msgs /\ auth' = auth
  BY DEF OnlyPost
<1> QED
  BY ZenonT(60), <1>2, <1>3, <1>4, FsmsUnchanged

\* One message, or none.
LEMMA OnePostSound ==
  ASSUME IInv, NBHandling, NEW calls
  PROVE  /\ OnlyPost(<<>>, calls) => IInv'
         /\ \A m \in Message : /\ m.h \in fsmList /\ m.what \notin {"STOP", "DEINIT"}
                               /\ OnlyPost(<<m>>, calls)
                               => IInv'
<1>1. <<>> \in Seq(Message) /\ \A k \in 1 .. Len(<<>>) : FALSE
  OBVIOUS
<1>2. OnlyPost(<<>>, calls) => IInv'
  BY ZenonT(60), <1>1, OnlyPostSound
<1>3. ASSUME NEW m \in Message, m.h \in fsmList, m.what \notin {"STOP", "DEINIT"},
             OnlyPost(<<m>>, calls)
      PROVE  IInv'
  <2>1. /\ <<m>> \in Seq(Message)
        /\ \A k \in 1 .. Len(<<m>>) : <<m>>[k] = m
    OBVIOUS
  <2> QED
    BY ZenonT(60), <1>3, <2>1, OnlyPostSound
<1> QED
  BY ZenonT(60), <1>2, <1>3

\* A handler that posts to listed connection fsms and changes flags or cleanInfo
\* in them, as PostAndFlag and ProcessLeaveInvalidConn do, keeps the invariant.
LEMMA FlagSound ==
  ASSUME IInv, Counted, NBHandling, NEW S \in SUBSET fsmList, NEW w \in FsmData,
         \E s \in Walks(S) : queue' = Rest \o Posts(s, w),
         fsm' \in [FsmId -> ConnFsm],
         \A g \in FsmId : /\ fsm'[g].alloc = fsm[g].alloc
                          /\ fsm'[g].isDead = fsm[g].isDead
                          /\ fsm'[g].curState = fsm[g].curState
                          /\ fsm'[g].addr = fsm[g].addr
                          /\ fsm'[g].authId = fsm[g].authId,
         UNCHANGED <<timers, listVars, ledgerVars, auth, peerVars, offlineSync, alive>>,
         joinWait' \subseteq Addr, leaveWait' \subseteq NetworkId
  PROVE  IInv'
<1>1. PICK s \in Walks(S) : queue' = Rest \o Posts(s, w)
  BY ZenonT(60)
<1>2. S \in SUBSET FsmId
  BY Listed
<1>3. /\ Posts(s, w) \in Seq(Message)
      /\ \A k \in 1 .. Len(Posts(s, w)) : Posts(s, w)[k].h \in S /\ Posts(s, w)[k].what = w
  BY ZenonT(60), <1>2, PostsType
<1>4. \A k \in 1 .. Len(Posts(s, w)) : /\ Posts(s, w)[k].h \in FsmId \cap fsmList
                                       /\ fsm[Posts(s, w)[k].h].alloc = "live"
                                       /\ Posts(s, w)[k].what \notin {"STOP", "DEINIT"}
  BY ZenonT(60), <1>3, Listed DEF FsmData
<1>5. queue' \in Seq(Message) /\ QueueSound(queue', fsm, fsmList, auth)
  <2> DEFINE ms == Posts(s, w)
  <2>1. /\ queue' = Rest \o ms /\ ms \in Seq(Message)
        /\ \A k \in 1 .. Len(ms) : /\ ms[k].h \in FsmId \cap fsmList
                                   /\ fsm[ms[k].h].alloc = "live"
                                   /\ ms[k].what \notin {"STOP", "DEINIT"}
    BY ZenonT(60), <1>1, <1>3, <1>4
  <2> HIDE DEF ms
  <2>2. Rest \in Seq(Message) /\ QueueSound(Rest, fsm, fsmList, auth)
    BY ZenonT(60) DEF NBHandling
  <2>3. Rest \o ms \in Seq(Message) /\ QueueSound(Rest \o ms, fsm, fsmList, auth)
    BY ZenonT(60), <2>1, <2>2, ConcatSound
  <2> QED
    BY ZenonT(60), <2>1, <2>3
<1>6. Grows(fsm, fsm') /\ AddrsKept(auth, auth)
  BY ZenonT(60) DEF Grows, AddrsKept
<1>7. QueueSound(queue', fsm', fsmList, auth)
  BY ZenonT(60), <1>5, <1>6, QueueKept
<1>8. /\ TimersSound(timers, fsm') /\ FsmsSound(fsm', fsmList, nextFsm)
      /\ AuthsSound(auth, fsm')
  <2>1. timers \subseteq FsmId \X FsmTimeouts /\ fsmList \subseteq FsmId
    BY ZenonT(60) DEF IInv, TypeOK
  <2> QED
    BY ZenonT(60), <2>1 DEF IInv, FsmLifecycle, TimersSound, TimerSound, FsmsSound, AuthsSound
<1>9. TypeOK'
  BY ZenonT(60), <1>5 DEF IInv, TypeOK, listVars, ledgerVars, peerVars
<1> QED
  BY ZenonT(60), <1>7, <1>8, <1>9 DEF IInv, FsmLifecycle, listVars

\* PostAndFlag keeps the invariant.
LEMMA PostAndFlagSound ==
  ASSUME IInv, Counted, NBHandling, NEW S \in SUBSET fsmList, NEW w \in FsmData,
         NEW flags \in SUBSET Flags, NEW calls, PostAndFlag(S, w, flags, calls),
         joinWait' \subseteq Addr, leaveWait' \subseteq NetworkId
  PROVE  IInv'
<1>1. fsm \in [FsmId -> ConnFsm]
  BY DEF IInv, TypeOK
<1>2. fsm' = [f \in FsmId |-> IF f \in S
                              THEN [fsm[f] EXCEPT !.flag = fsm[f].flag \cup flags]
                              ELSE fsm[f]]
  BY DEF PostAndFlag
<1>3. \A f \in FsmId : [fsm[f] EXCEPT !.flag = fsm[f].flag \cup flags] \in ConnFsm
  BY ZenonT(60), <1>1 DEF ConnFsm
<1>4. fsm' \in [FsmId -> ConnFsm]
  BY <1>1, <1>2, <1>3
<1>5. \A g \in FsmId : /\ fsm'[g].alloc = fsm[g].alloc
                       /\ fsm'[g].isDead = fsm[g].isDead
                       /\ fsm'[g].curState = fsm[g].curState
                       /\ fsm'[g].addr = fsm[g].addr
                       /\ fsm'[g].authId = fsm[g].authId
  BY <1>1, <1>2 DEF ConnFsm
<1>6. /\ \E s \in Walks(S) : queue' = Rest \o Posts(s, w)
      /\ UNCHANGED <<timers, listVars, ledgerVars, auth, peerVars, offlineSync, alive>>
  BY DEF PostAndFlag
<1> QED
  BY ZenonT(60), <1>4, <1>5, <1>6, FlagSound

\* A search of fsmList finds members of it.
LEMMA SearchType ==
  ASSUME NEW S \in SUBSET fsmList
  PROVE  First(S) \subseteq fsmList /\ AliveIn(S) \subseteq fsmList
         /\ AliveIn(First(S)) \subseteq fsmList
BY DEF First, AliveIn

\* A new connection fsm: nothing in the queue or the timers names its id yet.
LEMMA StartNewSound ==
  ASSUME IInv, NBHandling, NEW a \in Addr, NEW id \in 0 .. MaxAuth,
         id # 0 => auth[id].addr \in Addr,
         NEW flags \in SUBSET Flags, NEW w \in FsmData,
         StartNewConnectionFsm(a, id, flags, w)
  PROVE  IInv'
<1> DEFINE f == nextFsm + 1
           r == [NoFsm EXCEPT !.alloc = "live", !.addr = a, !.authId = id,
                              !.flag = flags]
           ms == <<FsmMsg(f, "START"), FsmMsg(f, w)>>
<1>0. /\ TypeOK /\ fsm \in [FsmId -> ConnFsm] /\ nextFsm \in 0 .. MaxFsm
      /\ fsmList \subseteq FsmId /\ FsmsSound(fsm, fsmList, nextFsm)
      /\ timers \subseteq FsmId \X FsmTimeouts /\ TimersSound(timers, fsm)
      /\ AuthsSound(auth, fsm)
  BY DEF IInv, TypeOK, FsmLifecycle
<1>1. /\ nextFsm < MaxFsm /\ nextFsm' = f /\ fsm' = [fsm EXCEPT ![f] = r]
      /\ fsmList' = fsmList \cup {f} /\ connCount' = connCount + 1
      /\ queue' = Rest \o ms
      /\ UNCHANGED <<timers, ledgerVars, auth, peerVars, waitVars, offlineSync, alive>>
  BY DEF StartNewConnectionFsm, CanStartNewConnectionFsm
<1>2. f \in FsmId /\ f > nextFsm
  BY SMTT(60), <1>0, <1>1, BoundsAssumption DEF FsmId
<1>3. fsm[f].alloc = "none" /\ ~fsm[f].isDead
  BY ZenonT(60), <1>0, <1>2 DEF FsmsSound
<1>4. /\ r \in ConnFsm /\ r.alloc = "live" /\ r.addr = a /\ r.isDead = FALSE
      /\ r.authId = id
  <2>1. NoFsm \in ConnFsm /\ NoFsm.isDead = FALSE
    BY ZenonT(60), NoFsmType DEF NoFsm
  <2> QED
    BY ZenonT(60), <2>1 DEF ConnFsm
<1>5. ms \in Seq(Message)
      /\ \A k \in 1 .. Len(ms) : ms[k].h = f /\ ms[k].what \notin {"STOP", "DEINIT"}
  <2>1. /\ FsmMsg(f, "START") \in Message /\ FsmMsg(f, "START").h = f
        /\ FsmMsg(f, "START").what = "START"
        /\ FsmMsg(f, w) \in Message /\ FsmMsg(f, w).h = f /\ FsmMsg(f, w).what = w
        /\ w \notin {"STOP", "DEINIT"}
    BY ZenonT(60), <1>2, FsmMsgType DEF FsmCtrl, FsmData
  <2> QED
    BY <2>1
<1> HIDE DEF r, ms, f
<1>6. /\ fsm' \in [FsmId -> ConnFsm] /\ fsm'[f] = r
      /\ \A g \in FsmId : g # f => fsm'[g] = fsm[g]
  BY ZenonT(60), <1>0, <1>1, <1>2, <1>4
<1>7. Grows(fsm, fsm')
  BY ZenonT(60), <1>2, <1>3, <1>6 DEF Grows
<1>8. QueueSound(queue', fsm', fsmList', auth') /\ queue' \in Seq(Message)
  <2>1. AddrsKept(auth, auth') /\ auth' = auth
    BY <1>1 DEF AddrsKept
  <2>2. QueueSound(Rest, fsm', fsmList', auth') /\ Rest \in Seq(Message)
    BY ZenonT(60), <1>1, <1>3, <1>7, <2>1, QueueKept DEF NBHandling
  <2>3. \A k \in 1 .. Len(ms) : /\ ms[k].h \in FsmId \cap fsmList'
                                /\ fsm'[ms[k].h].alloc = "live"
                                /\ ms[k].what \notin {"STOP", "DEINIT"}
    BY ZenonT(60), <1>1, <1>2, <1>4, <1>5, <1>6
  <2> QED
    BY ZenonT(60), <1>1, <1>5, <2>2, <2>3, ConcatSound
<1>9. TimersSound(timers', fsm')
  BY ZenonT(60), <1>0, <1>1, <1>3, <1>6 DEF TimersSound, TimerSound
<1>10. FsmsSound(fsm', fsmList', nextFsm')
  <2>1. \A g \in FsmId : g > nextFsm' => g > nextFsm /\ g # f
    BY SMTT(60), <1>0, <1>1, <1>2 DEF FsmId
  <2> QED
    BY ZenonT(60), <1>0, <1>1, <1>2, <1>4, <1>6, <2>1 DEF FsmsSound
<1>11. AuthsSound(auth', fsm')
  BY ZenonT(60), <1>0, <1>1, <1>4, <1>6 DEF AuthsSound
<1>12. TypeOK'
  <2>1. /\ nextFsm' \in 0 .. MaxFsm /\ fsmList' \subseteq FsmId /\ connCount' \in Nat
        /\ timers' = timers /\ ledger' = ledger /\ cnnCode' = cnnCode /\ auth' = auth
        /\ nextAuth' = nextAuth /\ peerNet' = peerNet /\ nextNet' = nextNet
        /\ joinWait' = joinWait /\ leaveWait' = leaveWait
        /\ offlineSync' = offlineSync /\ alive' = alive
    BY SMTT(60), <1>0, <1>1, <1>2 DEF TypeOK, FsmId, ledgerVars, peerVars, waitVars
  <2> QED
    BY ZenonT(60), <1>0, <1>6, <1>8, <2>1 DEF TypeOK
<1> QED
  BY ZenonT(60), <1>8, <1>9, <1>10, <1>11, <1>12 DEF IInv, FsmLifecycle

\* TrySendJoinLNNRequest keeps the invariant.
LEMMA TrySendJoinSound ==
  ASSUME IInv, Counted, NBHandling, NEW a \in Addr, NEW flag \in JOIN_ACTIVE,
         TrySendJoinLNNRequest(a, flag)
  PROVE  IInv'
<1>0. /\ TypeOK /\ ByAddr(a) \in SUBSET fsmList /\ "JOIN_LNN" \in FsmData
      /\ {flag} \in SUBSET Flags /\ 0 \in 0 .. MaxAuth
  BY SMTT(60), BoundsAssumption DEF IInv, ByAddr, FsmData, JOIN_ACTIVE, Flags
<1>1. CASE /\ PostAndFlag(First(ByAddr(a)), "JOIN_LNN", {flag}, {})
           /\ UNCHANGED waitVars
  <2>1. joinWait' \subseteq Addr /\ leaveWait' \subseteq NetworkId
    BY ZenonT(60), <1>0, <1>1 DEF waitVars, TypeOK
  <2>2. First(ByAddr(a)) \in SUBSET fsmList
    BY ZenonT(60), <1>0, SearchType
  <2> QED
    BY ZenonT(60), <1>0, <1>1, <2>1, <2>2, PostAndFlagSound
<1>2. CASE StartNewConnectionFsm(a, 0, {flag}, "JOIN_LNN")
  BY ZenonT(60), <1>0, <1>2, StartNewSound
<1>3. CASE /\ joinWait' \in {joinWait, joinWait \ {a}} /\ queue' = Rest
           /\ UNCHANGED <<timers, fsm, listVars, ledgerVars, auth, peerVars,
                          leaveWait, offlineSync, alive>>
  <2>1. /\ auth' \in [AuthId -> AuthRecord] /\ AuthsSound(auth', fsm)
        /\ nextAuth' \in 0 .. MaxAuth /\ peerNet' \in [Udid -> 0 .. MaxNet]
        /\ nextNet' \in 0 .. MaxNet /\ joinWait' \subseteq Addr
        /\ leaveWait' \subseteq NetworkId /\ offlineSync' \subseteq 0 .. MaxNet
        /\ alive' \in BOOLEAN
    BY ZenonT(60), <1>3 DEF IInv, TypeOK, FsmLifecycle, AuthRecord, peerVars
  <2>2. /\ UNCHANGED <<fsm, listVars, ledgerVars>> /\ timers' \subseteq timers
        /\ queue' \in Seq(Message) /\ QueueSound(queue', fsm, fsmList, auth')
    BY ZenonT(60), <1>3 DEF NBHandling
  <2> QED
    BY ZenonT(60), <2>1, <2>2, FsmsUnchanged
<1> QED
  BY ZenonT(60), <1>1, <1>2, <1>3 DEF TrySendJoinLNNRequest

\* StopConnectionFsm: the dead connection fsm is unlisted, STOP and DEINIT are the
\* last messages it gets, and only listed ones are told to go online.
LEMMA CleanSound ==
  ASSUME IInv, Counted, CountInv, ProcessCleanConnectionFsm
  PROVE  IInv'
<1> DEFINE f == Head(queue).connFsmId
           rest == fsmList \ {f}
<1>0. /\ TypeOK /\ FsmsSound(fsm, fsmList, nextFsm) /\ TimersSound(timers, fsm)
      /\ AuthsSound(auth, fsm)
  BY ZenonT(60) DEF IInv, FsmLifecycle
<1>1. NBHandling /\ Head(queue).what = "CLEAN_CONN_FSM"
  BY ZenonT(60), NBDispatchSound DEF ProcessCleanConnectionFsm
<1>2. f \in FsmId /\ (fsm[f].isDead \/ fsm[f].alloc = "freed")
  BY ZenonT(60), <1>1, MessageFields DEF NBHandling, MessageSound
<1>3. CASE f \notin fsmList
  BY ZenonT(60), <1>1, <1>3, OnePostSound DEF ProcessCleanConnectionFsm
<1>4. CASE f \in fsmList
  <2> DEFINE T == InitiateTargets(f, rest)
  <2>1. PICK s \in Walks(T) : queue' = Rest \o StopMessages(f) \o Posts(s, "INITIATE_ONLINE")
    BY ZenonT(60), <1>4 DEF ProcessCleanConnectionFsm
  <2>2. /\ fsmList' = rest /\ connCount' = connCount - 1
        /\ UNCHANGED <<timers, fsm, nextFsm, ledgerVars, auth, peerVars, waitVars,
                       offlineSync, alive>>
    BY ZenonT(60), <1>4 DEF ProcessCleanConnectionFsm
  <2>3. fsm[f].alloc = "live" /\ fsm[f].isDead /\ f # NB
    BY ZenonT(60), <1>2, <1>4, Listed
  <2>4. T \subseteq rest /\ rest \subseteq fsmList /\ T \in SUBSET FsmId
    BY ZenonT(60), <1>0 DEF InitiateTargets, TypeOK
  <2> DEFINE q1 == Append(Rest, FsmMsg(f, "STOP"))
             q2 == Append(q1, FsmMsg(f, "DEINIT"))
             ps == Posts(s, "INITIATE_ONLINE")
  <2>5. /\ FsmMsg(f, "STOP") \in Message /\ FsmMsg(f, "DEINIT") \in Message
        /\ FsmMsg(f, "STOP").h = f /\ FsmMsg(f, "DEINIT").h = f
        /\ FsmMsg(f, "STOP").what = "STOP" /\ FsmMsg(f, "DEINIT").what = "DEINIT"
    BY ZenonT(60), <1>2, FsmMsgType DEF FsmCtrl
  <2>6. QueueSound(Rest, fsm, rest, auth) /\ Rest \in Seq(Message) /\ NoDeinit(Rest, f)
    <3>1. Grows(fsm, fsm) /\ AddrsKept(auth, auth)
      BY ZenonT(60) DEF Grows, AddrsKept
    <3> QED
      BY ZenonT(60), <1>1, <1>2, <1>4, <3>1, QueueKept, NoDeinitQueued DEF NBHandling
  <2>7. /\ MessageSound(FsmMsg(f, "STOP"), fsm, rest, auth)
        /\ MessageSound(FsmMsg(f, "DEINIT"), fsm, rest, auth)
    BY ZenonT(60), <2>3, <2>5 DEF MessageSound
  <2>8. q1 \in Seq(Message) /\ QueueSound(q1, fsm, rest, auth)
    BY ZenonT(60), <2>5, <2>6, <2>7, AppendSound
  <2>9. NoDeinit(q1, f)
    <3>1. /\ Len(q1) = Len(Rest) + 1 /\ q1[Len(Rest) + 1] = FsmMsg(f, "STOP")
          /\ \A j \in 1 .. Len(Rest) : q1[j] = Rest[j]
      BY SMTT(60), <2>6
    <3> HIDE DEF q1
    <3>2. \A j \in 1 .. Len(q1) : j \in 1 .. Len(Rest) \/ j = Len(Rest) + 1
      BY SMTT(60), <2>6, <3>1
    <3>3. "STOP" # "DEINIT"
      BY SMT
    <3> QED
      BY ZenonT(60), <2>5, <2>6, <3>1, <3>2, <3>3 DEF NoDeinit
  <2>10. q2 \in Seq(Message) /\ QueueSound(q2, fsm, rest, auth)
    <3> HIDE DEF q1
    <3> QED
      BY ZenonT(60), <2>5, <2>7, <2>8, <2>9, AppendSound
  <2>11. /\ ps \in Seq(Message)
         /\ \A k \in 1 .. Len(ps) : ps[k].h \in T /\ ps[k].what = "INITIATE_ONLINE"
    <3>1. "INITIATE_ONLINE" \in FsmCtrl \cup FsmData
      BY ZenonT(60) DEF FsmData
    <3> HIDE DEF T
    <3> QED
      BY SMTT(60), <2>1, <2>4, <3>1, PostsType
  <2>12. \A k \in 1 .. Len(ps) : /\ ps[k].h \in FsmId \cap rest
                                 /\ fsm[ps[k].h].alloc = "live"
                                 /\ ps[k].what \notin {"STOP", "DEINIT"}
    BY ZenonT(60), <2>4, <2>11, Listed
  <2>13. queue' = q2 \o ps
    <3>1. Rest \o StopMessages(f) = q2
      BY <2>5, <2>6 DEF StopMessages
    <3> QED
      BY ZenonT(60), <2>1, <3>1
  <2>14. queue' \in Seq(Message) /\ QueueSound(queue', fsm, rest, auth)
    <3> HIDE DEF rest, q2, ps
    <3> QED
      BY ZenonT(60), <2>10, <2>11, <2>12, <2>13, ConcatSound
  <2>15. FsmsSound(fsm, rest, nextFsm)
    BY ZenonT(60), <1>0 DEF FsmsSound
  <2>16. connCount' \in Nat
    <3>1. fsmList \in SUBSET FsmId /\ fsmList # {}
      BY ZenonT(60), <1>0, <1>4 DEF TypeOK
    <3>2. Cardinality(fsmList) \in Nat /\ Cardinality(fsmList) # 0
      BY ZenonT(60), <3>1 DEF Counted
    <3> QED
      BY SMTT(60), <2>2, <3>2 DEF CountInv, ConnCountExact
  <2>17. TypeOK'
    BY ZenonT(60), <1>0, <2>2, <2>4, <2>14, <2>16 DEF TypeOK, ledgerVars, peerVars, waitVars
  <2> QED
    BY ZenonT(60), <1>0, <2>2, <2>14, <2>15, <2>17 DEF IInv, FsmLifecycle
<1> QED
  BY ZenonT(60), <1>3, <1>4

\* ProcessAuthKeyGenerated: to the connection fsm of the authentication, or to a
\* new one at the address of the authentication.
LEMMA AuthKeySound ==
  ASSUME IInv, ProcessAuthKeyGenerated
  PROVE  IInv'
<1> DEFINE a == Head(queue).authId
           found == AliveIn(First(ByAuthId(a)))
<1>1. NBHandling /\ Head(queue).what = "AUTH_KEY_GENERATED"
  BY ZenonT(60), NBDispatchSound DEF ProcessAuthKeyGenerated
<1>2. a \in AuthId /\ a \in 0 .. MaxAuth /\ auth[a].addr \in Addr
  BY SMTT(60), <1>1, MessageFields DEF NBHandling, MessageSound, AuthId
<1>3. found \subseteq fsmList
  <2>1. ByAuthId(a) \in SUBSET fsmList
    BY SMTT(60) DEF ByAuthId
  <2> QED
    BY ZenonT(60), <2>1, SearchType
<1>4. ASSUME NEW f \in found, OnlyPost(<<FsmMsg(f, "AUTH_KEY_GENERATED")>>, {})
      PROVE  IInv'
  <2>1. f \in fsmList /\ f \in FsmId
    BY ZenonT(60), <1>3, Listed
  <2>2. /\ FsmMsg(f, "AUTH_KEY_GENERATED") \in Message
        /\ FsmMsg(f, "AUTH_KEY_GENERATED").h = f
        /\ FsmMsg(f, "AUTH_KEY_GENERATED").what = "AUTH_KEY_GENERATED"
    BY ZenonT(60), <2>1, FsmMsgType DEF FsmData
  <2> QED
    BY ZenonT(60), <1>1, <1>4, <2>1, <2>2, OnePostSound
<1>5. CASE StartNewConnectionFsm(auth[a].addr, a, {"JOIN_PASSIVE"}, "AUTH_KEY_GENERATED")
  <2>1. {"JOIN_PASSIVE"} \in SUBSET Flags /\ "AUTH_KEY_GENERATED" \in FsmData
    BY ZenonT(60) DEF Flags, FsmData
  <2> QED
    BY ZenonT(60), <1>1, <1>2, <1>5, <2>1, StartNewSound
<1>6. CASE OnlyPost(<<>>, {})
  BY ZenonT(60), <1>1, <1>6, OnePostSound
<1> QED
  BY ZenonT(60), <1>4, <1>5, <1>6 DEF ProcessAuthKeyGenerated

\* The messages passed on to the connection fsm of an authentication, or of a
\* device that lost trust.
LEMMA PassOnSound ==
  ASSUME IInv, \/ ProcessAuthDone \/ ProcessSyncDeviceInfoDone
               \/ ProcessAuthDisconnect \/ ProcessDeviceNotTrusted
  PROVE  IInv'
<1> DEFINE S == ByAuthId(Head(queue).authId)
           found == AliveIn(First(S))
<1>1. NBHandling
  BY ZenonT(60), NBDispatchSound DEF ProcessAuthDone, ProcessSyncDeviceInfoDone,
     ProcessAuthDisconnect, ProcessDeviceNotTrusted
<1>2. found \subseteq fsmList
  <2>1. S \in SUBSET fsmList
    BY ZenonT(60) DEF ByAuthId
  <2> QED
    BY ZenonT(60), <2>1, SearchType
<1>3. CASE OnlyPost(<<>>, {})
  BY ZenonT(60), <1>1, <1>3, OnePostSound
<1>4. ASSUME NEW f \in fsmList, NEW w \in FsmData, OnlyPost(<<FsmMsg(f, w)>>, {})
      PROVE  IInv'
  <2>1. /\ FsmMsg(f, w) \in Message /\ FsmMsg(f, w).h = f /\ FsmMsg(f, w).what = w
        /\ w \notin {"STOP", "DEINIT"}
    BY ZenonT(60), <1>4, Listed, FsmMsgType DEF FsmData
  <2> QED
    BY ZenonT(60), <1>1, <1>4, <2>1, OnePostSound
<1>5. CASE ProcessAuthDone
  <2> DEFINE m(f) == [h |-> f, what |-> "AUTH_DONE", isSuccess |-> Head(queue).isSuccess]
  <2>1. Head(queue).isSuccess \in BOOLEAN
    BY ZenonT(60), <1>1, <1>5, RequestFields DEF ProcessAuthDone, Dispatch, NBHandling
  <2>2. ASSUME NEW f \in found, OnlyPost(<<m(f)>>, {}) PROVE IInv'
    <3>1. f \in fsmList /\ f \in FsmId
      BY ZenonT(60), <1>2, Listed
    <3>2. m(f) \in Message /\ m(f).h = f /\ m(f).what = "AUTH_DONE"
      BY ZenonT(60), <2>1, <3>1 DEF Message
    <3> QED
      BY ZenonT(60), <1>1, <2>2, <3>1, <3>2, OnePostSound
  <2> QED
    BY ZenonT(60), <1>3, <1>5, <2>2 DEF ProcessAuthDone, ToFsmOfAuth
<1>6. CASE ProcessSyncDeviceInfoDone
  <2> DEFINE m(f) == [h |-> f, what |-> "SYNC_DEVICE_INFO_DONE",
                      networkId |-> Head(queue).networkId]
  <2>1. Head(queue).networkId \in NetworkId
    BY ZenonT(60), <1>1, <1>6, RequestFields DEF ProcessSyncDeviceInfoDone, Dispatch, NBHandling
  <2>2. ASSUME NEW f \in found, OnlyPost(<<m(f)>>, {}) PROVE IInv'
    <3>1. f \in fsmList /\ f \in FsmId
      BY ZenonT(60), <1>2, Listed
    <3>2. m(f) \in Message /\ m(f).h = f /\ m(f).what = "SYNC_DEVICE_INFO_DONE"
      BY ZenonT(60), <2>1, <3>1 DEF Message
    <3> QED
      BY ZenonT(60), <1>1, <2>2, <3>1, <3>2, OnePostSound
  <2> QED
    BY ZenonT(60), <1>3, <1>6, <2>2 DEF ProcessSyncDeviceInfoDone, ToFsmOfAuth
<1>7. CASE ProcessAuthDisconnect
  <2>1. "DISCONNECT" \in FsmData
    BY DEF FsmData
  <2> QED
    BY ZenonT(60), <1>2, <1>3, <1>4, <1>7, <2>1 DEF ProcessAuthDisconnect, ToFsmOfAuth
<1>8. CASE ProcessDeviceNotTrusted
  <2>1. "NOT_TRUSTED" \in FsmData
    BY DEF FsmData
  <2>2. AliveIn(FindConnectionFsmByUdid(Head(queue).udid)) \subseteq fsmList
    BY ZenonT(60) DEF AliveIn, FindConnectionFsmByUdid, First, ByNetworkId
  <2> QED
    BY ZenonT(60), <1>3, <1>4, <1>8, <2>1, <2>2 DEF ProcessDeviceNotTrusted
<1> QED
  BY ZenonT(60), <1>5, <1>6, <1>7, <1>8

\* The leave requests, and the end of the offline message, go to all alive
\* connection fsms they concern.
LEMMA LeaveSound ==
  ASSUME IInv, Counted, \/ ProcessLeaveLNNRequest \/ ProcessSyncOfflineFinish
               \/ ProcessLeaveInvalidConn \/ ProcessLeaveByAddrType
  PROVE  IInv'
<1>0. /\ TypeOK /\ fsm \in [FsmId -> ConnFsm]
      /\ "LEAVE_LNN" \in FsmData /\ "SYNC_OFFLINE_DONE" \in FsmData
      /\ {"LEAVE_REQUEST"} \in SUBSET Flags /\ {"LEAVE_AUTO"} \in SUBSET Flags
      /\ {"INITIATE_ONLINE", "LEAVE_AUTO"} \in SUBSET Flags
  BY SMTT(60) DEF IInv, TypeOK, FsmData, Flags
<1>1. NBHandling
  BY ZenonT(60), NBDispatchSound DEF ProcessLeaveLNNRequest, ProcessSyncOfflineFinish,
     ProcessLeaveInvalidConn, ProcessLeaveByAddrType
<1>2. CASE ProcessLeaveLNNRequest
  <2> DEFINE S == AliveIn(ByNetworkId(Head(queue).networkId))
  <2>1. S \in SUBSET fsmList
    BY SMTT(60) DEF AliveIn, ByNetworkId
  <2>2. PICK calls : PostAndFlag(S, "LEAVE_LNN", {"LEAVE_REQUEST"}, calls)
    BY ZenonT(60), <1>2 DEF ProcessLeaveLNNRequest
  <2>3. joinWait' \subseteq Addr /\ leaveWait' \subseteq NetworkId
    BY ZenonT(60), <1>0, <1>2 DEF ProcessLeaveLNNRequest, TypeOK
  <2> HIDE DEF S
  <2> QED
    BY ZenonT(60), <1>0, <1>1, <2>1, <2>2, <2>3, PostAndFlagSound
<1>3. CASE ProcessSyncOfflineFinish
  <2> DEFINE S == AliveIn(ByNetworkId(Head(queue).networkId))
  <2>1. S \in SUBSET fsmList /\ S \in SUBSET FsmId
    BY ZenonT(60), <1>0 DEF AliveIn, ByNetworkId, TypeOK
  <2>2. PICK s \in Walks(S) : OnlyPost(Posts(s, "SYNC_OFFLINE_DONE"), {})
    BY ZenonT(60), <1>3 DEF ProcessSyncOfflineFinish
  <2> HIDE DEF S
  <2>3. /\ Posts(s, "SYNC_OFFLINE_DONE") \in Seq(Message)
        /\ \A k \in 1 .. Len(Posts(s, "SYNC_OFFLINE_DONE")) :
             /\ Posts(s, "SYNC_OFFLINE_DONE")[k].h \in S
             /\ Posts(s, "SYNC_OFFLINE_DONE")[k].what = "SYNC_OFFLINE_DONE"
    BY SMTT(60), <1>0, <2>1, <2>2, PostsType
  <2> QED
    BY ZenonT(60), <1>1, <2>1, <2>2, <2>3, OnlyPostSound
<1>4. CASE ProcessLeaveInvalidConn
  <2> DEFINE p == Head(queue)
             S == {f \in fsmList : IsInvalidConnectionFsm(f, p.oldNetworkId, p.addrType)}
             c == [networkId |-> p.newNetworkId, addrType |-> p.addrType]
             r(f) == [fsm[f] EXCEPT
                        !.flag = fsm[f].flag \cup {"INITIATE_ONLINE", "LEAVE_AUTO"},
                        !.cleanInfo = c]
  <2>1. /\ \E s \in Walks(S) : queue' = Rest \o Posts(s, "LEAVE_LNN")
        /\ fsm' = [f \in FsmId |-> IF f \in S THEN r(f) ELSE fsm[f]]
        /\ UNCHANGED <<timers, listVars, ledgerVars, auth, peerVars, waitVars,
                       offlineSync, alive>>
    BY ZenonT(60), <1>4 DEF ProcessLeaveInvalidConn
  <2>2. S \in SUBSET fsmList
    BY ZenonT(60)
  <2>3. c \in CleanInfo
    <3>1. p.newNetworkId \in NetworkId /\ p.addrType \in AddrTypes \cup {"MAX"}
      BY ZenonT(60), <1>1, <1>4, RequestFields DEF ProcessLeaveInvalidConn, Dispatch, NBHandling
    <3> QED
      BY ZenonT(60), <3>1 DEF CleanInfo
  <2> HIDE DEF S, c
  <2>4. ASSUME NEW f \in FsmId
        PROVE  /\ r(f) \in ConnFsm /\ r(f).alloc = fsm[f].alloc
               /\ r(f).isDead = fsm[f].isDead /\ r(f).curState = fsm[f].curState
               /\ r(f).addr = fsm[f].addr /\ r(f).authId = fsm[f].authId
    <3>1. fsm[f] \in ConnFsm
      BY ZenonT(60), <1>0
    <3>2. fsm[f].flag \cup {"INITIATE_ONLINE", "LEAVE_AUTO"} \in SUBSET Flags
      BY ZenonT(60), <1>0, <3>1 DEF ConnFsm
    <3> QED
      BY ZenonT(60), <2>3, <3>1, <3>2 DEF ConnFsm
  <2> HIDE DEF r
  <2>5. /\ fsm' \in [FsmId -> ConnFsm]
        /\ \A g \in FsmId : /\ fsm'[g].alloc = fsm[g].alloc
                            /\ fsm'[g].isDead = fsm[g].isDead
                            /\ fsm'[g].curState = fsm[g].curState
                            /\ fsm'[g].addr = fsm[g].addr
                            /\ fsm'[g].authId = fsm[g].authId
    BY ZenonT(60), <1>0, <2>1, <2>4
  <2>6. /\ joinWait' \subseteq Addr /\ leaveWait' \subseteq NetworkId
        /\ UNCHANGED <<timers, listVars, ledgerVars, auth, peerVars, offlineSync, alive>>
    BY SMTT(60), <1>0, <2>1 DEF TypeOK, waitVars
  <2> QED
    BY ZenonT(60), <1>0, <1>1, <2>1, <2>2, <2>5, <2>6, FlagSound
<1>5. CASE ProcessLeaveByAddrType
  <2> DEFINE S == AliveIn({f \in fsmList : TypeOfAddr(fsm[f].addr) = Head(queue).addrType})
  <2>1. S \in SUBSET fsmList
    BY SMTT(60) DEF AliveIn
  <2>2. PICK calls : PostAndFlag(S, "LEAVE_LNN", {"LEAVE_AUTO"}, calls)
    BY ZenonT(60), <1>5 DEF ProcessLeaveByAddrType
  <2>3. joinWait' \subseteq Addr /\ leaveWait' \subseteq NetworkId
    BY ZenonT(60), <1>0, <1>5 DEF ProcessLeaveByAddrType, TypeOK, waitVars
  <2> HIDE DEF S
  <2> QED
    BY ZenonT(60), <1>0, <1>1, <2>1, <2>2, <2>3, PostAndFlagSound
<1> QED
  BY <1>2, <1>3, <1>4, <1>5

\* Every handler of the net builder keeps the invariant.
LEMMA NetBuilderStepSound ==
  ASSUME IInv, Counted, CountInv, NetBuilderStep
  PROVE  IInv'
<1>1. CASE ProcessJoinLNNRequest \/ ProcessDevDiscoveryRequest
  <2>1. NBHandling /\ Head(queue).what \in {"JOIN_LNN_REQUEST", "DISCOVERY_DEVICE"}
    BY ZenonT(60), <1>1, NBDispatchSound DEF ProcessJoinLNNRequest, ProcessDevDiscoveryRequest
  <2>2. Head(queue).addr \in Addr
    BY ZenonT(60), <2>1, RequestFields DEF NBHandling
  <2>3. "JOIN_REQUEST" \in JOIN_ACTIVE /\ "JOIN_AUTO" \in JOIN_ACTIVE
    BY DEF JOIN_ACTIVE
  <2> QED
    BY ZenonT(60), <1>1, <2>1, <2>2, <2>3, TrySendJoinSound
       DEF ProcessJoinLNNRequest, ProcessDevDiscoveryRequest
<1> QED
  BY ZenonT(60), <1>1, CleanSound, AuthKeySound, PassOnSound, LeaveSound DEF NetBuilderStep

-----------------------------------------------------------------------------
(* The other threads. *)

\* A message from another thread to the net builder keeps the invariant, if the
\* authentications keep their addresses.
LEMMA PostSound ==
  ASSUME IInv, NEW m \in Message, m.h = NB, m.what # "CLEAN_CONN_FSM",
         m.what = "AUTH_KEY_GENERATED" => auth'[m.authId].addr \in Addr,
         PostToNetBuilder(m),
         auth' \in [AuthId -> AuthRecord], AddrsKept(auth, auth'), AuthsSound(auth', fsm),
         nextAuth' \in 0 .. MaxAuth, peerVars' = <<nextAuth', peerNet, nextNet>>,
         joinWait' \subseteq Addr, leaveWait' \subseteq NetworkId,
         offlineSync' \subseteq 0 .. MaxNet
  PROVE  IInv'
<1>1. Grows(fsm, fsm)
  BY ZenonT(60) DEF Grows
<1>2. QueueSound(queue, fsm, fsmList, auth') /\ queue \in Seq(Message)
  BY ZenonT(60), <1>1, QueueKept DEF IInv, TypeOK, FsmLifecycle
<1>3. MessageSound(m, fsm, fsmList, auth')
  BY DEF MessageSound
<1>4. queue' \in Seq(Message) /\ QueueSound(queue', fsm, fsmList, auth')
  BY ZenonT(60), <1>2, <1>3, AppendSound DEF PostToNetBuilder
<1>5. /\ UNCHANGED <<fsm, listVars, ledgerVars>> /\ timers' \subseteq timers
      /\ alive' \in BOOLEAN /\ peerNet' \in [Udid -> 0 .. MaxNet]
      /\ nextNet' \in 0 .. MaxNet
  BY SMTT(60) DEF PostToNetBuilder, IInv, TypeOK, peerVars
<1> QED
  BY ZenonT(60), <1>4, <1>5, FsmsUnchanged

\* A step of an authentication keeps the invariant.
LEMMA AuthCallbackSound ==
  ASSUME IInv, NEW a \in AuthId, NEW from, "none" \notin from,
         NEW to \in {"keyed", "info", "passed", "failed", "closed"},
         NEW m \in Message, m.h = NB, m.what # "CLEAN_CONN_FSM",
         m.what = "AUTH_KEY_GENERATED" => m.authId = a,
         AuthCallback(a, from, to, m)
  PROVE  IInv'
<1>1. /\ auth \in [AuthId -> AuthRecord] /\ AuthsSound(auth, fsm)
      /\ \A g \in FsmId : fsm[g].authId \in {0} \cup AuthId
  BY ZenonT(60), FsmAuths
<1>2. auth[a].addr \in Addr
  BY ZenonT(60), <1>1 DEF AuthCallback, AuthsSound
<1>3. auth' = [auth EXCEPT ![a].phase = to] /\ PostToNetBuilder(m)
  BY DEF AuthCallback
<1>4. /\ auth' \in [AuthId -> AuthRecord]
      /\ \A b \in AuthId : auth'[b].addr = auth[b].addr /\ (b # a => auth'[b] = auth[b])
  BY ZenonT(60), <1>1, <1>3 DEF AuthRecord
<1>5. AddrsKept(auth, auth') /\ AuthsSound(auth', fsm)
  BY ZenonT(60), <1>1, <1>2, <1>4 DEF AddrsKept, AuthsSound
<1>6. /\ nextAuth' \in 0 .. MaxAuth /\ peerVars' = <<nextAuth', peerNet, nextNet>>
      /\ joinWait' \subseteq Addr /\ leaveWait' \subseteq NetworkId
      /\ offlineSync' \subseteq 0 .. MaxNet
  BY DEF AuthCallback, IInv, TypeOK, peerVars, waitVars
<1> QED
  BY ZenonT(60), <1>2, <1>3, <1>4, <1>5, <1>6, PostSound

\* The callbacks of the auth manager keep the invariant.
LEMMA AuthManagerSound ==
  ASSUME IInv, NEW a \in AuthId, AuthStep(a) \/ OnAuthFailed(a) \/ OnDisconnect(a)
  PROVE  IInv'
<1>1. CASE OnAuthKeyGenerated(a)
  <2> DEFINE m == [h |-> NB, what |-> "AUTH_KEY_GENERATED", authId |-> a]
  <2>1. m \in Message /\ m.h = NB /\ m.what = "AUTH_KEY_GENERATED" /\ m.authId = a
    BY ZenonT(60) DEF Message
  <2>2. AuthCallback(a, {"connecting"}, "keyed", m)
    BY <1>1 DEF OnAuthKeyGenerated
  <2> HIDE DEF m
  <2> QED
    BY ZenonT(60), <2>1, <2>2, AuthCallbackSound
<1>2. CASE OnRecvPeerDeviceInfo(a)
  <2> DEFINE n == peerNet[PeerOf[auth[a].addr]]
             m == [h |-> NB, what |-> "SYNC_DEVICE_INFO_DONE", authId |-> a,
                   networkId |-> n]
  <2>1. auth[a].addr \in Addr /\ n > 0
    BY ZenonT(60), <1>2 DEF OnRecvPeerDeviceInfo, IInv, FsmLifecycle, AuthsSound
  <2>2. n \in 0 .. MaxNet
    BY ZenonT(60), <2>1, AddrAssumption DEF IInv, TypeOK
  <2>3. n \in NetworkId
    BY SMTT(60), <2>1, <2>2 DEF NetworkId
  <2>4. AuthCallback(a, {"synced"}, "info", m)
    BY ZenonT(60), <1>2 DEF OnRecvPeerDeviceInfo
  <2> HIDE DEF n
  <2>5. m \in Message /\ m.h = NB /\ m.what = "SYNC_DEVICE_INFO_DONE"
    BY ZenonT(60), <2>3 DEF Message
  <2> HIDE DEF m
  <2> QED
    BY ZenonT(60), <2>4, <2>5, AuthCallbackSound
<1>3. ASSUME NEW ok \in BOOLEAN, NEW from, "none" \notin from, NEW to \in {"passed", "failed"},
             AuthCallback(a, from, to, [h |-> NB, what |-> "AUTH_DONE", authId |-> a,
                                        isSuccess |-> ok])
      PROVE  IInv'
  <2> DEFINE m == [h |-> NB, what |-> "AUTH_DONE", authId |-> a, isSuccess |-> ok]
  <2>1. m \in Message /\ m.h = NB /\ m.what = "AUTH_DONE"
    BY ZenonT(60) DEF Message
  <2>2. AuthCallback(a, from, to, m)
    BY ZenonT(60), <1>3
  <2> HIDE DEF m
  <2> QED
    BY ZenonT(60), <1>3, <2>1, <2>2, AuthCallbackSound
<1>4. CASE OnAuthPassed(a)
  BY ZenonT(60), <1>3, <1>4 DEF OnAuthPassed
<1>5. CASE OnAuthFailed(a)
  BY ZenonT(60), <1>3, <1>5 DEF OnAuthFailed
<1>6. CASE OnDisconnect(a)
  <2> DEFINE m == [h |-> NB, what |-> "DISCONNECT", authId |-> a]
  <2>1. m \in Message /\ m.h = NB /\ m.what = "DISCONNECT"
    BY ZenonT(60) DEF Message
  <2>2. AuthCallback(a, {"connecting", "keyed", "synced", "info", "passed", "failed",
                         "broken"}, "closed", m)
    BY ZenonT(60), <1>6 DEF OnDisconnect
  <2> HIDE DEF m
  <2> QED
    BY ZenonT(60), <2>1, <2>2, AuthCallbackSound
<1> QED
  BY ZenonT(60), <1>1, <1>2, <1>4, <1>5, <1>6 DEF AuthStep

\* A message that comes with no change of the authentications.
LEMMA PlainPostSound ==
  ASSUME IInv, NEW m \in Message, m.h = NB,
         m.what \notin {"CLEAN_CONN_FSM", "AUTH_KEY_GENERATED"}, PostToNetBuilder(m),
         UNCHANGED <<auth, peerVars>>, joinWait' \subseteq Addr,
         leaveWait' \subseteq NetworkId, offlineSync' \subseteq 0 .. MaxNet
  PROVE  IInv'
<1>1. /\ auth' \in [AuthId -> AuthRecord] /\ AddrsKept(auth, auth')
      /\ AuthsSound(auth', fsm) /\ nextAuth' \in 0 .. MaxAuth
      /\ peerVars' = <<nextAuth', peerNet, nextNet>>
  BY DEF IInv, TypeOK, FsmLifecycle, AuthRecord, AddrsKept, peerVars
<1> QED
  BY ZenonT(60), <1>1, PostSound

\* The requests of other threads keep the invariant.
LEMMA RequestSound ==
  ASSUME IInv,
         \/ \E a \in Addr : LnnServerJoin(a) \/ LnnNotifyDiscoveryDevice(a)
         \/ \E n \in NetworkId : LnnServerLeave(n) \/ LnnNotifySyncOfflineFinish(n)
         \/ \E t \in AddrTypes : LnnRequestLeaveByAddrType(t)
         \/ \E u \in Udid : OnDeviceNotTrusted(u)
  PROVE  IInv'
<1>0. /\ joinWait \subseteq Addr /\ leaveWait \subseteq NetworkId
      /\ offlineSync \subseteq 0 .. MaxNet
  BY DEF IInv, TypeOK
<1>1. ASSUME NEW a \in Addr, NEW w \in {"JOIN_LNN_REQUEST", "DISCOVERY_DEVICE"},
             PostToNetBuilder([h |-> NB, what |-> w, addr |-> a]),
             UNCHANGED <<auth, peerVars>>, joinWait' \subseteq Addr,
             leaveWait' \subseteq NetworkId, offlineSync' \subseteq 0 .. MaxNet
      PROVE  IInv'
  <2> DEFINE m == [h |-> NB, what |-> w, addr |-> a]
  <2>1. m \in Message /\ m.h = NB /\ m.what = w
    BY ZenonT(60) DEF Message
  <2> HIDE DEF m
  <2> QED
    BY ZenonT(60), <1>1, <2>1, PlainPostSound DEF m
<1>2. ASSUME NEW n \in NetworkId, NEW w \in {"LEAVE_LNN_REQUEST", "SYNC_OFFLINE_FINISH"},
             PostToNetBuilder([h |-> NB, what |-> w, networkId |-> n]),
             UNCHANGED <<auth, peerVars>>, joinWait' \subseteq Addr,
             leaveWait' \subseteq NetworkId, offlineSync' \subseteq 0 .. MaxNet
      PROVE  IInv'
  <2> DEFINE m == [h |-> NB, what |-> w, networkId |-> n]
  <2>1. m \in Message /\ m.h = NB /\ m.what = w
    BY ZenonT(60) DEF Message
  <2> QED
    BY ZenonT(60), <1>2, <2>1, PlainPostSound
<1>3. ASSUME NEW a \in Addr, LnnServerJoin(a) PROVE IInv'
  BY ZenonT(60), <1>0, <1>1, <1>3 DEF LnnServerJoin
<1>4. ASSUME NEW a \in Addr, LnnNotifyDiscoveryDevice(a) PROVE IInv'
  BY ZenonT(60), <1>0, <1>1, <1>4 DEF LnnNotifyDiscoveryDevice, waitVars
<1>5. ASSUME NEW n \in NetworkId, LnnServerLeave(n) PROVE IInv'
  BY ZenonT(60), <1>0, <1>2, <1>5 DEF LnnServerLeave
<1>6. ASSUME NEW n \in NetworkId, LnnNotifySyncOfflineFinish(n) PROVE IInv'
  BY ZenonT(60), <1>0, <1>2, <1>6 DEF LnnNotifySyncOfflineFinish, waitVars
<1>7. ASSUME NEW t \in AddrTypes, LnnRequestLeaveByAddrType(t) PROVE IInv'
  <2> DEFINE m == [h |-> NB, what |-> "LEAVE_BY_ADDR_TYPE", addrType |-> t]
  <2>1. m \in Message /\ m.h = NB /\ m.what = "LEAVE_BY_ADDR_TYPE"
    BY ZenonT(60) DEF Message
  <2> QED
    BY ZenonT(60), <1>0, <1>7, <2>1, PlainPostSound DEF LnnRequestLeaveByAddrType, waitVars
<1>8. ASSUME NEW u \in Udid, OnDeviceNotTrusted(u) PROVE IInv'
  <2> DEFINE m == [h |-> NB, what |-> "NOT_TRUSTED", udid |-> u]
  <2>1. m \in Message /\ m.h = NB /\ m.what = "NOT_TRUSTED"
    BY ZenonT(60) DEF Message
  <2> QED
    BY ZenonT(60), <1>0, <1>8, <2>1, PlainPostSound DEF OnDeviceNotTrusted, waitVars
<1> QED
  BY ZenonT(60), <1>3, <1>4, <1>5, <1>6, <1>7, <1>8

\* A peer that connects to us, and a peer that restarts, keep the invariant.
LEMMA PeerSound ==
  ASSUME IInv, \/ \E a \in Addr : OnServerAuthKeyGenerated(a)
               \/ \E u \in Udid : PeerBoot(u)
  PROVE  IInv'
<1>0. /\ TypeOK /\ auth \in [AuthId -> AuthRecord] /\ AuthsSound(auth, fsm)
      /\ \A g \in FsmId : fsm[g].authId \in {0} \cup AuthId
      /\ nextAuth \in 0 .. MaxAuth /\ nextNet \in 0 .. MaxNet
  BY ZenonT(60), FsmAuths DEF IInv, TypeOK
<1>1. ASSUME NEW a \in Addr, OnServerAuthKeyGenerated(a) PROVE IInv'
  <2> DEFINE n == nextAuth + 1
             m == [h |-> NB, what |-> "AUTH_KEY_GENERATED", authId |-> n]
  <2>1. /\ nextAuth' = n /\ n \in AuthId /\ nextAuth' \in 0 .. MaxAuth
        /\ auth' = [auth EXCEPT ![n] = [phase |-> "keyed", addr |-> a]]
        /\ PostToNetBuilder(m)
    BY <1>0, <1>1, BoundsAssumption DEF OnServerAuthKeyGenerated, AuthId
  <2>2. m \in Message /\ m.h = NB /\ m.what = "AUTH_KEY_GENERATED" /\ m.authId = n
    BY ZenonT(60), <2>1 DEF Message
  <2> HIDE DEF m, n
  <2>3. /\ auth' \in [AuthId -> AuthRecord] /\ auth'[n].addr \in Addr
        /\ \A b \in AuthId : b # n => auth'[b] = auth[b]
    BY ZenonT(60), <1>0, <2>1 DEF AuthRecord
  <2>4. AddrsKept(auth, auth')
    BY ZenonT(60), <2>3 DEF AddrsKept
  <2>5. AuthsSound(auth', fsm)
    <3>1. \A b \in AuthId : auth'[b].phase # "none" => auth'[b].addr \in Addr
      BY ZenonT(60), <1>0, <2>3 DEF AuthsSound
    <3>2. \A g \in FsmId : fsm[g].authId # 0 => auth'[fsm[g].authId].addr \in Addr
      BY ZenonT(60), <1>0, <2>3 DEF AuthsSound
    <3> QED
      BY ZenonT(60), <3>1, <3>2 DEF AuthsSound
  <2>6. /\ peerVars' = <<nextAuth', peerNet, nextNet>>
        /\ joinWait' \subseteq Addr /\ leaveWait' \subseteq NetworkId
        /\ offlineSync' \subseteq 0 .. MaxNet
    BY ZenonT(60), <1>0, <1>1 DEF OnServerAuthKeyGenerated, TypeOK, peerVars, waitVars
  <2> QED
    BY ZenonT(60), <2>1, <2>2, <2>3, <2>4, <2>5, <2>6, PostSound
<1>2. ASSUME NEW u \in Udid, PeerBoot(u) PROVE IInv'
  <2>1. /\ nextNet' \in 0 .. MaxNet /\ peerNet' \in [Udid -> 0 .. MaxNet]
    BY SMTT(60), <1>0, <1>2, BoundsAssumption DEF PeerBoot, TypeOK
  <2>2. auth' = [a \in AuthId |->
                   IF /\ auth[a].phase \in {"connecting", "keyed", "synced", "info"}
                      /\ PeerOf[auth[a].addr] = u
                   THEN [auth[a] EXCEPT !.phase = "broken"] ELSE auth[a]]
    BY ZenonT(60), <1>2 DEF PeerBoot
  <2>3. /\ auth' \in [AuthId -> AuthRecord]
        /\ \A a \in AuthId : /\ auth'[a].addr = auth[a].addr
                             /\ auth'[a].phase # "none" => auth[a].phase # "none"
    BY ZenonT(60), <1>0, <2>2 DEF AuthRecord
  <2>4. AddrsKept(auth, auth') /\ AuthsSound(auth', fsm)
    BY ZenonT(60), <1>0, <2>3 DEF AddrsKept, AuthsSound
  <2>5. /\ UNCHANGED <<fsm, listVars, ledgerVars>> /\ timers' \subseteq timers
        /\ queue' = queue /\ nextAuth' \in 0 .. MaxAuth /\ joinWait' \subseteq Addr
        /\ leaveWait' \subseteq NetworkId /\ offlineSync' \subseteq 0 .. MaxNet
        /\ alive' \in BOOLEAN
    BY ZenonT(60), <1>0, <1>2 DEF PeerBoot, TypeOK, waitVars
  <2>6. queue' \in Seq(Message) /\ QueueSound(queue', fsm, fsmList, auth')
    <3>1. Grows(fsm, fsm)
      BY ZenonT(60) DEF Grows
    <3> QED
      BY ZenonT(60), <2>4, <2>5, <3>1, QueueKept DEF IInv, TypeOK, FsmLifecycle
  <2> QED
    BY ZenonT(60), <2>1, <2>3, <2>4, <2>5, <2>6, FsmsUnchanged
<1> QED
  BY ZenonT(60), <1>1, <1>2

\* The ways the handlers of a connection fsm end leave the list alone.
LEMMA EndsKeepList ==
  ASSUME NEW f, NEW q,
         \/ CompleteJoinFail(f, q) \/ CompleteJoinOk(f, q) \/ CompleteLeaveLNN(f, q)
         \/ OnlyNotifyJoinResult(f, q) \/ OnJoinFail(f, q)
         \/ TryCancelJoinProcedure(f, q) \/ EnterOnline(f, q) \/ Ignore(q)
         \/ NullNodeInfo(q)
  PROVE  UNCHANGED listVars
BY DEF CompleteJoinFail, CompleteJoinOk, CompleteLeaveLNN, OnlyNotifyJoinResult,
   OnJoinFail, TryCancelJoinProcedure, EnterOnline, Ignore, NullNodeInfo

\* Only StartNewConnectionFsm and StopConnectionFsm touch the list and its count.
LEMMA OthersKeepList ==
  ASSUME Next, ~ProcessCleanConnectionFsm,
         \A a, id, flags, w : ~StartNewConnectionFsm(a, id, flags, w)
  PROVE  UNCHANGED listVars
<1>1. ASSUME NEW f, FsmStep(f) PROVE UNCHANGED listVars
  <2>1. CASE ProcessStartMessage(f)
    BY ZenonT(60), EndsKeepList, <2>1 DEF ProcessStartMessage
  <2>2. CASE ProcessStopMessage(f)
    BY ZenonT(60), EndsKeepList, <2>2 DEF ProcessStopMessage
  <2>3. CASE ProcessDeinitMessage(f)
    BY ZenonT(60), EndsKeepList, <2>3 DEF ProcessDeinitMessage
  <2>4. CASE OnJoinLNNInAuth(f)
    BY ZenonT(60), EndsKeepList, <2>4 DEF OnJoinLNNInAuth, BeginVerify
  <2>5. CASE OnAuthKeyGeneratedInAuth(f)
    BY ZenonT(60), EndsKeepList, <2>5 DEF OnAuthKeyGeneratedInAuth
  <2>6. CASE OnAuthDoneInAuth(f)
    BY ZenonT(60), EndsKeepList, <2>6 DEF OnAuthDoneInAuth
  <2>7. CASE OnSyncDeviceInfo(f)
    BY ZenonT(60), EndsKeepList, <2>7 DEF OnSyncDeviceInfo
  <2>8. CASE OnSyncDeviceInfoDone(f)
    BY ZenonT(60), EndsKeepList, <2>8 DEF OnSyncDeviceInfoDone
  <2>9. CASE OnAuthDoneInSyncInfo(f)
    BY ZenonT(60), EndsKeepList, <2>9 DEF OnAuthDoneInSyncInfo
  <2>10. CASE OnLeaveLNNBeforeOnline(f)
    BY ZenonT(60), EndsKeepList, <2>10 DEF OnLeaveLNNBeforeOnline
  <2>11. CASE OnDisconnectBeforeOnline(f)
    BY ZenonT(60), EndsKeepList, <2>11 DEF OnDisconnectBeforeOnline
  <2>12. CASE OnNotTrustedBeforeOnline(f)
    BY ZenonT(60), EndsKeepList, <2>12 DEF OnNotTrustedBeforeOnline
  <2>13. CASE OnLeaveInvalidConn(f)
    BY ZenonT(60), EndsKeepList, <2>13 DEF OnLeaveInvalidConn
  <2>14. CASE OnInitiateOnline(f)
    BY ZenonT(60), EndsKeepList, <2>14 DEF OnInitiateOnline
  <2>15. CASE OnJoinLNNWhenJoined(f)
    BY ZenonT(60), EndsKeepList, <2>15 DEF OnJoinLNNWhenJoined
  <2>16. CASE LeaveLNNInOnline(f)
    BY ZenonT(60), EndsKeepList, <2>16 DEF LeaveLNNInOnline
  <2>17. CASE OnSyncOfflineDone(f)
    BY ZenonT(60), EndsKeepList, <2>17 DEF OnSyncOfflineDone
  <2>18. CASE FreeUnhandledMessage(f)
    BY ZenonT(60), EndsKeepList, <2>18 DEF FreeUnhandledMessage
  <2> QED
    BY ZenonT(60), <1>1, <2>1, <2>2, <2>3, <2>4, <2>5, <2>6, <2>7, <2>8, <2>9, <2>10,
       <2>11, <2>12, <2>13, <2>14, <2>15, <2>16, <2>17, <2>18 DEF FsmStep
<1>2. ASSUME NEW f, TimerStep(f) PROVE UNCHANGED listVars
  <2>1. CASE JoinLNNTimeout(f)
    BY ZenonT(60), EndsKeepList, <2>1 DEF JoinLNNTimeout, DropTimer
  <2>2. CASE LeaveLNNTimeout(f)
    BY ZenonT(60), EndsKeepList, <2>2 DEF LeaveLNNTimeout, DropTimer
  <2> QED
    BY ZenonT(60), <1>2, <2>1, <2>2 DEF TimerStep
<1>3. \A ms, calls : OnlyPost(ms, calls) => UNCHANGED listVars
  BY DEF OnlyPost
<1>4. \A S, w, flags, calls : PostAndFlag(S, w, flags, calls) => UNCHANGED listVars
  BY DEF PostAndFlag
<1>5. ASSUME NetBuilderStep PROVE UNCHANGED listVars
  <2>1. CASE \/ ProcessJoinLNNRequest \/ ProcessDevDiscoveryRequest
             \/ ProcessAuthKeyGenerated
    BY ZenonT(60), <1>3, <1>4, <2>1 DEF ProcessJoinLNNRequest, ProcessDevDiscoveryRequest,
       ProcessAuthKeyGenerated, TrySendJoinLNNRequest
  <2>2. CASE ProcessAuthDone \/ ProcessSyncDeviceInfoDone \/ ProcessAuthDisconnect
    BY ZenonT(60), <1>3, <2>2 DEF ProcessAuthDone, ProcessSyncDeviceInfoDone,
       ProcessAuthDisconnect, ToFsmOfAuth
  <2>3. CASE \/ ProcessDeviceNotTrusted \/ ProcessLeaveLNNRequest
             \/ ProcessSyncOfflineFinish \/ ProcessLeaveInvalidConn
             \/ ProcessLeaveByAddrType
    BY ZenonT(60), <1>3, <1>4, <2>3 DEF ProcessDeviceNotTrusted, ProcessLeaveLNNRequest,
       ProcessSyncOfflineFinish, ProcessLeaveInvalidConn, ProcessLeaveByAddrType
  <2> QED
    BY ZenonT(60), <1>5, <2>1, <2>2, <2>3 DEF NetBuilderStep
<1>6. ASSUME Environment PROVE UNCHANGED listVars
  BY ZenonT(60), <1>6 DEF Environment, LnnServerJoin, LnnNotifyDiscoveryDevice,
     OnServerAuthKeyGenerated, LnnServerLeave, LnnNotifySyncOfflineFinish,
     LnnRequestLeaveByAddrType, AuthStep, OnAuthKeyGenerated, OnRecvPeerDeviceInfo,
     OnAuthPassed, OnAuthFailed, OnDisconnect, AuthCallback, OnDeviceNotTrusted,
     PeerBoot, PostToNetBuilder
<1> QED
  BY ZenonT(60), <1>1, <1>2, <1>5, <1>6 DEF Next

-----------------------------------------------------------------------------
(* What one step can do. *)

JoinAsked(r) == "JOIN_REQUEST" \in r.flag

Passive(r) == "JOIN_PASSIVE" \in r.flag

Joined == {"ONLINE", "LEAVING"}

Armed(f, tm) == <<f, "JOIN_LNN_TIMEOUT">> \in tm

\* The waiting caller is told when, and only when, the JOIN_REQUEST flag goes.
JoinEffect(r, n, wait, wait2) ==
  /\ r.alloc = "live" /\ n.alloc = "live" /\ n.addr = r.addr
  /\ r.isDead => n.isDead
  /\ r.authId # 0 => n.authId # 0
  /\ \/ (JoinAsked(n) <=> JoinAsked(r)) /\ wait2 = wait
     \/ JoinAsked(r) /\ ~JoinAsked(n) /\ wait2 = wait \ {r.addr}
  /\ JoinAsked(n) => /\ n.isDead => r.isDead \/ r.curState \in Joined
                     /\ n.curState \in Joined => r.isDead \/ r.curState \in Joined
                     /\ r.curState \in Joined => n.curState \in Joined

\* A connection fsm that begins to wait arms its timeout or had armed it.
WaitEffect(f, r, n, tm, tm2, w) ==
  /\ ~n.isDead /\ n.curState # "ONLINE" /\ Passive(r) => Passive(n)
  /\ ~n.isDead /\ n.curState = "NULL" => r.curState = "NULL" /\ n.authId = r.authId
  /\ ~n.isDead /\ n.curState = "AUTH" /\ n.authId # 0 /\ ~Armed(f, tm2) =>
       /\ r.authId = n.authId
       /\ r.curState = "NULL" \/ (r.curState = "AUTH" /\ ~Armed(f, tm))
  /\ ~n.isDead /\ n.curState = "SYNC_DEVICE_INFO" /\ ~Armed(f, tm2) =>
       /\ ~Armed(f, tm)
       /\ \/ r.curState = "SYNC_DEVICE_INFO"
          \/ r.curState = "AUTH" /\ w = "AUTH_KEY_GENERATED"

FromFsm(f, m) ==
  \/ m = CleanMsg(f)
  \/ /\ m.h = f /\ ~fsm[f].isDead
     /\ m.what \in {"SYNC_DEVICE_INFO", "LEAVE_INVALID_CONN"}
  \/ m.h = NB /\ m.what = "LEAVE_INVALID_CONN"

QueueEffect(f, q) ==
  /\ \/ queue' = q
     \/ \E m \in Message : queue' = Append(q, m) /\ FromFsm(f, m)
  /\ fsm'[f].isDead /\ ~fsm[f].isDead => queue' = Append(q, CleanMsg(f))

Others(f) ==
  \A g \in FsmId : g # f => /\ fsm'[g] = fsm[g]
                            /\ Armed(g, timers) => Armed(g, timers')

FsmEffect(f, q, w) ==
  /\ UNCHANGED listVars
  /\ Others(f)
  /\ JoinEffect(fsm[f], fsm'[f], joinWait, joinWait')
  /\ WaitEffect(f, fsm[f], fsm'[f], timers, timers', w)
  /\ QueueEffect(f, q)
  /\ w = "JOIN_LNN" /\ fsm[f].curState \in Joined => ~JoinAsked(fsm'[f])

\* The connection fsm f handles a message other than its stop messages.
FsmReacts(f) ==
  \E w : Dispatch(f, w) /\ w \notin {"STOP", "DEINIT"} /\ FsmEffect(f, Rest, w)

\* What the net builder leaves alone in a connection fsm: all but some flags.
SameFsm(r, n) ==
  /\ n.alloc = r.alloc /\ n.isDead = r.isDead /\ n.curState = r.curState
  /\ n.addr = r.addr /\ n.authId = r.authId
  /\ Passive(r) => Passive(n)

\* Messages to listed connection fsms; a key message goes to one with an authId.
ToListed(ms) ==
  /\ ms \in Seq(Message)
  /\ \A k \in 1 .. Len(ms) :
       /\ ms[k].h \in fsmList /\ ms[k].what \notin {"STOP", "DEINIT"}
       /\ ms[k].what = "AUTH_KEY_GENERATED" => fsm[ms[k].h].authId # 0

\* A message is passed on to connection fsms, or dropped.
PassedOn ==
  /\ \E w : /\ Dispatch(NB, w) /\ w # "JOIN_LNN_REQUEST"
            /\ w = "CLEAN_CONN_FSM" => Head(queue).connFsmId \notin fsmList
  /\ \E ms : ToListed(ms) /\ queue' = Rest \o ms
  /\ \A g \in FsmId : /\ SameFsm(fsm[g], fsm'[g])
                      /\ JoinAsked(fsm'[g]) <=> JoinAsked(fsm[g])
  /\ UNCHANGED <<listVars, timers, joinWait>>

\* A JoinLNN request goes to the connection fsm f of its address.
JoinPassedTo(f) ==
  /\ Dispatch(NB, "JOIN_LNN_REQUEST")
  /\ f \in fsmList /\ ~fsm[f].isDead /\ fsm[f].addr = Head(queue).addr
  /\ queue' = Rest \o <<FsmMsg(f, "JOIN_LNN")>>
  /\ \A g \in FsmId : /\ SameFsm(fsm[g], fsm'[g])
                      /\ JoinAsked(fsm'[g]) <=> JoinAsked(fsm[g]) \/ g = f
  /\ UNCHANGED <<listVars, timers, joinWait>>

\* A JoinLNN request is refused: its caller is told.
JoinRefused ==
  /\ Dispatch(NB, "JOIN_LNN_REQUEST")
  /\ joinWait' = joinWait \ {Head(queue).addr}
  /\ queue' = Rest /\ UNCHANGED <<fsm, listVars, timers>>

\* A new connection fsm, which holds the JoinLNN request it was created for.
Created ==
  \E a \in Addr, id \in 0 .. MaxAuth : \E flags, w, v :
    /\ Dispatch(NB, v) /\ StartNewConnectionFsm(a, id, flags, w)
    /\ \/ v = "JOIN_LNN_REQUEST" /\ a = Head(queue).addr /\ flags = {"JOIN_REQUEST"}
       \/ v \notin {"JOIN_LNN_REQUEST", "CLEAN_CONN_FSM"} /\ "JOIN_REQUEST" \notin flags
    /\ \/ id = 0 /\ w = "JOIN_LNN"
       \/ id # 0 /\ w = "AUTH_KEY_GENERATED" /\ "JOIN_PASSIVE" \in flags

\* A dead connection fsm leaves the list.
Cleaned ==
  ProcessCleanConnectionFsm /\ Head(queue).connFsmId \in fsmList

\* Another thread posts m to the net builder; only JoinLNN adds a waiting caller.
PostedByOthers ==
  \E m \in Message :
    /\ queue' = Append(queue, m) /\ m.h = NB /\ m.what # "CLEAN_CONN_FSM"
    /\ \/ /\ m.what = "JOIN_LNN_REQUEST" /\ m.addr \notin joinWait
          /\ joinWait' = joinWait \cup {m.addr}
       \/ m.what # "JOIN_LNN_REQUEST" /\ joinWait' = joinWait
    /\ UNCHANGED <<timers, fsm, listVars>>

\* The effects a step of the system can have.
AnyStep ==
  \/ \E f \in FsmId : \/ FsmReacts(f) \/ FsmEffect(f, queue, "") \/ JoinPassedTo(f)
                      \/ ProcessStopMessage(f) \/ ProcessDeinitMessage(f)
  \/ PassedOn \/ JoinRefused \/ Created \/ Cleaned \/ PostedByOthers
  \/ UNCHANGED <<queue, timers, fsm, listVars, joinWait>>

\* The fields of one connection fsm whose record is replaced.
LEMMA OneRecord ==
  ASSUME IInv, NEW f \in FsmId, NEW n, fsm' = [fsm EXCEPT ![f] = n]
  PROVE  fsm'[f] = n /\ \A g \in FsmId : g # f => fsm'[g] = fsm[g]
BY ZenonT(60) DEF IInv, TypeOK

=============================================================================
