----------------------------- MODULE LiveProofs -----------------------------
(***************************************************************************)
(* Two small components for every value of their constants: the counter of *)
(* the node state callbacks (AppCallbacks), and the records of the time    *)
(* synchronisation (TimeSync).                                             *)
(***************************************************************************)
EXTENDS AppCallbacks, TimeSync, FiniteSetTheorems, TLAPS

-----------------------------------------------------------------------------
(* AppCallbacks. *)

(* The list holds callbacks, no more than allowed, and the counter its      *)
(* length. *)
CountInv == nodeList \in Seq(NodeCb) /\ nodeCnt = Len(nodeList) /\ nodeCnt <= MaxNodeCb

(* Removing an element that is there leaves a sequence of the same things,  *)
(* shorter by one. *)
LEMMA RemovalType ==
    ASSUME NEW S, NEW s \in Seq(S), NEW i \in 1 .. Len(s)
    PROVE  RemoveAt(s, i) \in Seq(S) /\ Len(RemoveAt(s, i)) = Len(s) - 1
<1>1. SubSeq(s, 1, i - 1) \in Seq(S) /\ Len(SubSeq(s, 1, i - 1)) = i - 1
    OBVIOUS
<1>2. SubSeq(s, i + 1, Len(s)) \in Seq(S) /\ Len(SubSeq(s, i + 1, Len(s))) = Len(s) - i
    OBVIOUS
<1>3. \A a, b \in Seq(S) : a \o b \in Seq(S) /\ Len(a \o b) = Len(a) + Len(b)
    OBVIOUS
<1>4. RemoveAt(s, i) = SubSeq(s, 1, i - 1) \o SubSeq(s, i + 1, Len(s))
    BY DEF RemoveAt
<1>5. RemoveAt(s, i) \in Seq(S) /\ Len(RemoveAt(s, i)) = (i - 1) + (Len(s) - i)
    BY <1>1, <1>2, <1>3, <1>4, Zenon
<1> QED
    BY <1>5
(* Putting one element in front keeps the type and adds one to the length. *)
LEMMA FrontType ==
    ASSUME NEW S, NEW s \in Seq(S), NEW x \in S
    PROVE  <<x>> \o s \in Seq(S) /\ Len(<<x>> \o s) = Len(s) + 1
    OBVIOUS

(* Every step keeps the counter equal to the length of the list: a         *)
(* registration adds to both (RegNodeDeviceStateCbInner), the loop of       *)
(* UnregNodeDeviceStateCbInner takes one from both where it finds the       *)
(* callback and nothing where it does not, and BusCenterClientDeinit clears *)
(* both. *)
LEMMA CountStep == MaxNodeCb \in Nat /\ CountInv /\ [CallbackNext]_acbVars => CountInv'
<1> SUFFICES ASSUME MaxNodeCb \in Nat, CountInv, [CallbackNext]_acbVars PROVE CountInv'
    OBVIOUS
<1>t. /\ nodeList \in Seq(NodeCb) /\ nodeCnt = Len(nodeList) /\ nodeCnt <= MaxNodeCb
      /\ Len(nodeList) \in Nat /\ MaxNodeCb \in Nat
    BY DEF CountInv
<1>1. ASSUME NEW t \in CbThread, NEW cb \in NodeCb, RegNodeDeviceStateCbInner(t, cb) PROVE CountInv'
    <2>1. nodeList' = <<cb>> \o nodeList /\ nodeCnt' = nodeCnt + 1 /\ nodeCnt < MaxNodeCb
        BY <1>1 DEF RegNodeDeviceStateCbInner, RoomForOne
    <2> QED
        BY <2>1, <1>t, FrontType DEF CountInv
<1>2. ASSUME NEW t \in CbThread, NEW cb \in NodeCb, UnregNodeDeviceStateCbInner(t, cb) PROVE CountInv'
    <2>1. CASE UNCHANGED <<nodeList, nodeCnt>>
        BY <2>1 DEF CountInv
    <2>2. ASSUME NEW i \in FirstOf(cb), nodeList' = RemoveAt(nodeList, i), nodeCnt' = nodeCnt - 1 PROVE CountInv'
        <3>1. i \in 1 .. Len(nodeList)
            BY <1>t DEF FirstOf
        <3>2. nodeList' \in Seq(NodeCb) /\ Len(nodeList') = Len(nodeList) - 1
            BY <2>2, <3>1, <1>t, RemovalType
        <3> QED
            BY <2>2, <3>2, <1>t DEF CountInv
    <2> QED
        BY <1>2, <2>1, <2>2 DEF UnregNodeDeviceStateCbInner
<1>3. ASSUME UNCHANGED <<nodeList, nodeCnt>> PROVE CountInv'
    BY <1>3 DEF CountInv
<1>4. ASSUME NEW list, Event(list) PROVE CountInv'
    BY <1>3, <1>4 DEF Event
<1>5. CASE LnnOnNodeOnlineStateChanged \/ LnnOnNodeBasicInfoChanged \/ LnnOnTimeSyncResult
    BY <1>4, <1>5 DEF LnnOnNodeOnlineStateChanged, LnnOnNodeBasicInfoChanged, LnnOnTimeSyncResult
<1>6. CASE CallOne
    BY <1>3, <1>6 DEF CallOne
<1>7. ASSUME NEW t \in CbThread, NEW cb \in SyncCb, StartTimeSyncInner(t, cb) PROVE CountInv'
    BY <1>3, <1>7 DEF StartTimeSyncInner
<1>8. ASSUME NEW t \in CbThread, StopTimeSyncInner(t) \/ StopRound(t) PROVE CountInv'
    BY <1>3, <1>8 DEF StopTimeSyncInner, StopRound
<1>11. ASSUME NEW t \in CbThread, BusCenterClientDeinit(t) PROVE CountInv'
    BY <1>11, <1>t DEF BusCenterClientDeinit, CountInv
<1>9. CASE ServiceGone \/ ServiceBack
    BY <1>3, <1>9 DEF ServiceGone, ServiceBack
<1>10. CASE UNCHANGED acbVars
    BY <1>3, <1>10 DEF acbVars
<1> QED
    BY <1>1, <1>2, <1>5, <1>6, <1>7, <1>8, <1>9, <1>10, <1>11 DEF CallbackNext

(* The number that limits the node state callbacks (MaxNodeCb, compared in  *)
(* RegNodeDeviceStateCbInner) is the length of nodeStateCbList at all times. *)
THEOREM CountCorrect == ASSUME MaxNodeCb \in Nat PROVE CallbackSpec => []CountIsLength
<1>1. CallbackInit => CountInv
    BY DEF CallbackInit, CountInv
<1>2. CountInv => CountIsLength
    BY DEF CountInv, CountIsLength
<1>3. CountInv /\ [CallbackNext]_acbVars => CountInv'
    BY CountStep
<1> QED
    BY <1>1, <1>2, <1>3, PTL DEF CallbackSpec

-----------------------------------------------------------------------------
(* TimeSync. *)

(* A finite set of numbers that is not empty has a largest and a smallest   *)
(* element, which is what Wanted takes: of the strictly nested sets of      *)
(* larger (or smaller) elements one is least. *)
LEMMA Extremes ==
    ASSUME NEW S, S \subseteq Nat, S # {}, IsFiniteSet(S)
    PROVE  Max(S) \in S /\ Min(S) \in S
<1> DEFINE over(x) == {y \in S : y > x}
           under(x) == {y \in S : y < x}
           overs == {over(x) : x \in S}
           unders == {under(x) : x \in S}
<1>1. IsWellFoundedOn(StrictSubsetOrdering(S), SUBSET S)
    BY ZenonT(60), FS_StrictSubsetOrderingWellFounded, FS_FiniteSubsetsOfFinite
<1>2. \A A, B \in SUBSET S : A \subseteq B /\ A # B => <<A, B>> \in StrictSubsetOrdering(S)
    BY ZenonT(60) DEF StrictSubsetOrdering
<1>3. \E x \in S : \A y \in S : x >= y
    <2>1. overs \subseteq SUBSET S /\ overs # {}
        BY ZenonT(60)
    <2>2. PICK A \in overs : \A B \in overs : ~(<<B, A>> \in StrictSubsetOrdering(S))
        BY ZenonT(60), <1>1, <2>1, WFMin
    <2>3. PICK x \in S : A = over(x)
        BY <2>2
    <2>4. ASSUME NEW y \in S, y > x PROVE FALSE
        <3>0. ~(y > y) /\ \A z \in S : z > y => z > x
            BY SMTT(60), <2>4
        <3>1. over(y) \subseteq over(x) /\ y \in over(x) /\ y \notin over(y)
            BY ZenonT(60), <2>4, <3>0
        <3>2. over(y) \in overs /\ over(y) \in SUBSET S /\ over(x) \in SUBSET S
            BY ZenonT(60), <2>4
        <3>3. over(y) # over(x)
            BY ZenonT(60), <3>1
        <3> HIDE DEF over, overs
        <3> QED
            BY ZenonT(60), <1>2, <2>2, <2>3, <3>1, <3>2, <3>3
    <2>5. \A y \in S : x >= y
        BY SMTT(60), <2>4
    <2> QED
        BY <2>5
<1>4. \E x \in S : \A y \in S : x =< y
    <2>1. unders \subseteq SUBSET S /\ unders # {}
        BY ZenonT(60)
    <2>2. PICK A \in unders : \A B \in unders : ~(<<B, A>> \in StrictSubsetOrdering(S))
        BY ZenonT(60), <1>1, <2>1, WFMin
    <2>3. PICK x \in S : A = under(x)
        BY <2>2
    <2>4. ASSUME NEW y \in S, y < x PROVE FALSE
        <3>0. ~(y < y) /\ \A z \in S : z < y => z < x
            BY SMTT(60), <2>4
        <3>1. under(y) \subseteq under(x) /\ y \in under(x) /\ y \notin under(y)
            BY ZenonT(60), <2>4, <3>0
        <3>2. under(y) \in unders /\ under(y) \in SUBSET S /\ under(x) \in SUBSET S
            BY ZenonT(60), <2>4
        <3>3. under(y) # under(x)
            BY ZenonT(60), <3>1
        <3> HIDE DEF under, unders
        <3> QED
            BY ZenonT(60), <1>2, <2>2, <2>3, <3>1, <3>2, <3>3
    <2>5. \A y \in S : x =< y
        BY SMTT(60), <2>4
    <2> QED
        BY <2>5
<1> QED
    BY ZenonT(60), <1>3, <1>4 DEF Max, Min

(* The types, and that the implementation runs what is recorded.            *)
SyncInv == TimeSyncTypeOK /\ ImplMatchesRequests

(* The fields of the messages.                                              *)
LEMMA SyncFields ==
    ASSUME NEW m \in Message
    PROVE  /\ m.what = "START" => m.pkg \in Pkg /\ m.node \in Node /\ m.rate \in Rate
           /\ m.what = "STOP" => m.pkg \in Pkg /\ m.node \in Node
           /\ m.what = "COMPLETE" => m.node \in Node
BY SMTT(60) DEF Message

(* A message leaves the looper, or one is posted.                           *)
LEMMA SyncQueue ==
    ASSUME TimeSyncTypeOK
    PROVE  /\ queue # <<>> => Head(queue) \in Message /\ Tail(queue) \in Seq(Message)
           /\ \A m \in Message : Append(queue, m) \in Seq(Message)
<1>1. queue \in Seq(Message)
    BY DEF TimeSyncTypeOK
<1> QED
    BY SMTT(60), <1>1

(* The record of a node after a package's request was entered.              *)
LEMMA EnteredType ==
    ASSUME TimeSyncTypeOK, NEW n \in Node, NEW p \in Pkg, NEW r \in Rate
    PROVE  LET new == TryUpdateStartTimeSyncReq(FindOrCreate(n, r), p, r)
           IN  /\ new \in TimeSyncReqInfo /\ RemoveStartTimeSyncReq(new, p) \in TimeSyncReqInfo
               /\ \A q \in Pkg : reqList[n] # TsNil /\ q # p =>
                     /\ new.startReqList[q] = reqList[n].startReqList[q]
                     /\ RemoveStartTimeSyncReq(new, p).startReqList[q] = reqList[n].startReqList[q]
<1> DEFINE info == FindOrCreate(n, r)
           new == TryUpdateStartTimeSyncReq(info, p, r)
<1>1. reqList[n] # TsNil => reqList[n] \in TimeSyncReqInfo
    BY ZenonT(60) DEF TimeSyncTypeOK
<1>2. /\ info \in TimeSyncReqInfo
      /\ reqList[n] # TsNil => info.startReqList = reqList[n].startReqList
    BY SMTT(60), <1>1 DEF FindOrCreate, TimeSyncReqInfo
<1> HIDE DEF info
<1>3. ASSUME NEW i \in TimeSyncReqInfo, NEW x \in Rate \cup {TsNil}
      PROVE  /\ [i EXCEPT !.startReqList[p] = x] \in TimeSyncReqInfo
             /\ \A q \in Pkg : q # p =>
                   [i EXCEPT !.startReqList[p] = x].startReqList[q] = i.startReqList[q]
    BY SMTT(60) DEF TimeSyncReqInfo
<1>4. /\ new \in TimeSyncReqInfo
      /\ \A q \in Pkg : q # p => new.startReqList[q] = info.startReqList[q]
    BY SMTT(60), <1>2, <1>3 DEF TryUpdateStartTimeSyncReq
<1> HIDE DEF new
<1>5. /\ RemoveStartTimeSyncReq(new, p) \in TimeSyncReqInfo
      /\ \A q \in Pkg : q # p =>
            RemoveStartTimeSyncReq(new, p).startReqList[q] = new.startReqList[q]
    BY SMTT(60), <1>3, <1>4 DEF RemoveStartTimeSyncReq
<1>6. \A q \in Pkg : reqList[n] # TsNil /\ q # p =>
                     /\ new.startReqList[q] = reqList[n].startReqList[q]
                     /\ RemoveStartTimeSyncReq(new, p).startReqList[q] = reqList[n].startReqList[q]
    BY ZenonT(60), <1>2, <1>4, <1>5
<1> QED
    BY ZenonT(60), <1>4, <1>5, <1>6 DEF new, info

(* What the remaining packages want is a rate.                              *)
LEMMA WantedType ==
    ASSUME NEW info \in TimeSyncReqInfo, Requesters(info) # {}
    PROVE  Wanted(info) \in Rate
<1> DEFINE accuracies == {info.startReqList[p].accuracy : p \in Requesters(info)}
           periods == {info.startReqList[p].period : p \in Requesters(info)}
<1>1. \A p \in Requesters(info) : info.startReqList[p] \in Rate
    BY ZenonT(60) DEF Requesters, TimeSyncReqInfo
<1>2. \A r \in Rate : r.accuracy \in Accuracy /\ r.period \in Period
    BY SMTT(60) DEF Rate
<1>3. /\ accuracies \in SUBSET Accuracy /\ accuracies # {}
      /\ periods \in SUBSET Period /\ periods # {}
    BY ZenonT(60), <1>1, <1>2
<1> HIDE DEF accuracies, periods
<1>4. /\ accuracies \subseteq Nat /\ IsFiniteSet(accuracies)
      /\ periods \subseteq Nat /\ IsFiniteSet(periods)
    BY ZenonT(60), <1>3, TimeSyncAssumption, FS_Subset
<1>5. Max(accuracies) \in Accuracy /\ Min(periods) \in Period
    BY ZenonT(60), <1>3, <1>4, Extremes
<1>6. Wanted(info) = [accuracy |-> Max(accuracies), period |-> Min(periods)]
    BY ZenonT(60) DEF Wanted, accuracies, periods
<1> QED
    BY SMTT(60), <1>5, <1>6 DEF Rate

(* The record of one node is replaced, and what the implementation runs for  *)
(* it: both are there afterwards, or neither.                               *)
LEMMA RecordStep ==
    ASSUME SyncInv, NEW n \in Node, NEW x \in TimeSyncReqInfo \cup {TsNil},
           NEW y \in Rate \cup {TsNil}, up' = up, up => (y # TsNil <=> x # TsNil),
           reqList' = [reqList EXCEPT ![n] = x], impl' = [impl EXCEPT ![n] = y]
    PROVE  /\ reqList' \in [Node -> TimeSyncReqInfo \cup {TsNil}]
           /\ impl' \in [Node -> Rate \cup {TsNil}] /\ ImplMatchesRequests'
<1>1. /\ reqList \in [Node -> TimeSyncReqInfo \cup {TsNil}]
      /\ impl \in [Node -> Rate \cup {TsNil}]
    BY DEF SyncInv, TimeSyncTypeOK
<1>2. /\ reqList' \in [Node -> TimeSyncReqInfo \cup {TsNil}]
      /\ impl' \in [Node -> Rate \cup {TsNil}]
    BY SMTT(60), <1>1
<1>3. \A k \in Node : /\ reqList'[k] = IF k = n THEN x ELSE reqList[k]
                      /\ impl'[k] = IF k = n THEN y ELSE impl[k]
    BY SMTT(60), <1>1
<1> QED
    BY ZenonT(60), <1>2, <1>3 DEF SyncInv, ImplMatchesRequests

(* The same when the implementation is left as it is.                       *)
LEMMA RecordOnly ==
    ASSUME SyncInv, NEW n \in Node, NEW x \in TimeSyncReqInfo \cup {TsNil},
           up' = up, reqList[n] # TsNil <=> x # TsNil,
           reqList' = [reqList EXCEPT ![n] = x], impl' = impl
    PROVE  /\ reqList' \in [Node -> TimeSyncReqInfo \cup {TsNil}]
           /\ impl' \in [Node -> Rate \cup {TsNil}] /\ ImplMatchesRequests'
<1>1. impl[n] \in Rate \cup {TsNil} /\ impl' = [impl EXCEPT ![n] = impl[n]]
    BY SMTT(60) DEF SyncInv, TimeSyncTypeOK
<1>2. up => (impl[n] # TsNil <=> x # TsNil)
    BY ZenonT(60) DEF SyncInv, ImplMatchesRequests
<1> QED
    BY ZenonT(60), <1>1, <1>2, RecordStep

(* The handler of a stop, for a node that has a record, with info what is    *)
(* left of it.                                                              *)
LEMMA StopKeeps ==
    ASSUME SyncInv, NEW n \in Node, reqList[n] # TsNil, NEW info \in TimeSyncReqInfo,
           up' = up, TryUpdateTimeSyncReq(info, n)
    PROVE  /\ reqList' \in [Node -> TimeSyncReqInfo \cup {TsNil}]
           /\ impl' \in [Node -> Rate \cup {TsNil}] /\ ImplMatchesRequests'
<1>1. CASE /\ reqList' = [reqList EXCEPT ![n] = TsNil]
           /\ impl' = [impl EXCEPT ![n] = TsNil]
    BY ZenonT(60), <1>1, RecordStep
<1>2. CASE /\ Requesters(info) # {}
           /\ reqList' = [reqList EXCEPT ![n] = [info EXCEPT !.cur = Wanted(info)]]
           /\ \/ impl' = [impl EXCEPT ![n] = IF up THEN Wanted(info) ELSE TsNil]
              \/ UNCHANGED impl
    <2>1. Wanted(info) \in Rate
        BY <1>2, WantedType
    <2>2. [info EXCEPT !.cur = Wanted(info)] \in TimeSyncReqInfo
        BY SMTT(60), <2>1 DEF TimeSyncReqInfo
    <2>3. /\ Wanted(info) # TsNil /\ [info EXCEPT !.cur = Wanted(info)] # TsNil
          /\ (IF up THEN Wanted(info) ELSE TsNil) \in Rate \cup {TsNil}
          /\ up => (IF up THEN Wanted(info) ELSE TsNil) # TsNil
        BY ZenonT(60), <2>1, <2>2, TsNilAssumption
    <2>4. CASE UNCHANGED impl
        BY ZenonT(60), <1>2, <2>2, <2>3, <2>4, RecordOnly
    <2>5. CASE impl' = [impl EXCEPT ![n] = IF up THEN Wanted(info) ELSE TsNil]
        BY ZenonT(60), <1>2, <2>2, <2>3, <2>5, RecordStep
    <2> QED
        BY <1>2, <2>4, <2>5
<1>3. CASE reqList' = [reqList EXCEPT ![n] = info] /\ UNCHANGED impl
    BY ZenonT(60), <1>3, TsNilAssumption, RecordOnly
<1> QED
    BY ZenonT(60), <1>1, <1>2, <1>3 DEF TryUpdateTimeSyncReq

(* The handler of a start, for the record new it leads to.                  *)
LEMMA StartKeeps ==
    ASSUME SyncInv, ProcessStartTimeSyncRequest
    PROVE  /\ reqList' \in [Node -> TimeSyncReqInfo \cup {TsNil}]
           /\ impl' \in [Node -> Rate \cup {TsNil}] /\ ImplMatchesRequests'
<1> DEFINE m == Head(queue)
           old == reqList[m.node]
           new == TryUpdateStartTimeSyncReq(FindOrCreate(m.node, m.rate), m.pkg, m.rate)
           left == RemoveStartTimeSyncReq(new, m.pkg)
<1>1. m.pkg \in Pkg /\ m.node \in Node /\ m.rate \in Rate /\ up' = up
    BY ZenonT(60), SyncQueue, SyncFields DEF SyncInv, ProcessStartTimeSyncRequest, Taken
<1>2. new \in TimeSyncReqInfo /\ left \in TimeSyncReqInfo /\ new.cur \in Rate
    <2>1. new \in TimeSyncReqInfo /\ left \in TimeSyncReqInfo
        BY ZenonT(60), <1>1, EnteredType DEF SyncInv
    <2> HIDE DEF new
    <2>2. new.cur \in Rate
        BY SMTT(60), <2>1 DEF TimeSyncReqInfo
    <2> QED
        BY <2>1, <2>2
<1>3. \/ /\ old # TsNil /\ reqList' = [reqList EXCEPT ![m.node] = new]
         /\ impl' = impl
      \/ /\ reqList' = [reqList EXCEPT ![m.node] = new]
         /\ impl' = [impl EXCEPT ![m.node] = IF up THEN new.cur ELSE TsNil]
      \/ /\ reqList' = [reqList EXCEPT ![m.node] = IF old = TsNil THEN TsNil ELSE left]
         /\ impl' = impl
    BY ZenonT(60) DEF ProcessStartTimeSyncRequest
<1> HIDE DEF m, old, new, left
<1>4. /\ new # TsNil /\ left # TsNil /\ new.cur # TsNil
      /\ (IF up THEN new.cur ELSE TsNil) \in Rate \cup {TsNil}
      /\ up => (IF up THEN new.cur ELSE TsNil) # TsNil
      /\ (IF old = TsNil THEN TsNil ELSE left) \in TimeSyncReqInfo \cup {TsNil}
      /\ old # TsNil <=> (IF old = TsNil THEN TsNil ELSE left) # TsNil
    BY ZenonT(60), <1>2, TsNilAssumption
<1>5. reqList[m.node] = old
    BY DEF old
<1>6. CASE old # TsNil /\ reqList' = [reqList EXCEPT ![m.node] = new] /\ impl' = impl
    BY ZenonT(60), <1>1, <1>2, <1>4, <1>5, <1>6, RecordOnly
<1>7. CASE /\ reqList' = [reqList EXCEPT ![m.node] = new]
           /\ impl' = [impl EXCEPT ![m.node] = IF up THEN new.cur ELSE TsNil]
    BY ZenonT(60), <1>1, <1>2, <1>4, <1>7, RecordStep
<1>8. CASE /\ reqList' = [reqList EXCEPT ![m.node] = IF old = TsNil THEN TsNil ELSE left]
           /\ impl' = impl
    BY ZenonT(60), <1>1, <1>4, <1>5, <1>8, RecordOnly
<1> QED
    BY <1>3, <1>6, <1>7, <1>8

(* The record of a node after a package's request was taken back.           *)
LEMMA RemovedType ==
    ASSUME NEW i \in TimeSyncReqInfo, NEW p \in Pkg
    PROVE  /\ RemoveStartTimeSyncReq(i, p) \in TimeSyncReqInfo
           /\ \A q \in Pkg : q # p =>
                 RemoveStartTimeSyncReq(i, p).startReqList[q] = i.startReqList[q]
BY SMTT(60) DEF RemoveStartTimeSyncReq, TimeSyncReqInfo

(* The calls, the results and the deinitialisation keep the invariant.      *)
LEMMA CallsKeep ==
    ASSUME SyncInv,
           \/ \E p \in Pkg, n \in Node : \/ \E r \in Rate : LnnStartTimeSync(p, n, r)
                                         \/ LnnStopTimeSync(p, n)
           \/ \E n \in Node, ret \in {"ok", "fail", "other"} : OnTimeSyncImplComplete(n, ret)
           \/ LnnTimeSyncDeinit
    PROVE  SyncInv'
<1>1. TimeSyncTypeOK
    BY DEF SyncInv
<1>2. ASSUME NEW p \in Pkg, NEW n \in Node, NEW r \in Rate, LnnStartTimeSync(p, n, r)
      PROVE  SyncInv'
    <2>1. [what |-> "START", pkg |-> p, node |-> n, rate |-> r] \in Message
        BY SMTT(60) DEF Message
    <2>2. queue' \in Seq(Message)
        BY ZenonT(60), <1>1, <1>2, <2>1, SyncQueue DEF LnnStartTimeSync
    <2>3. calls' \in 0 .. MaxCalls
        BY SMTT(60), <1>1, <1>2, TimeSyncAssumption DEF LnnStartTimeSync, TimeSyncTypeOK
    <2>4. waiting' \subseteq Pkg \X Node
        BY SMTT(60), <1>1, <1>2 DEF LnnStartTimeSync, TimeSyncTypeOK
    <2> QED
        BY ZenonT(60), <1>2, <2>2, <2>3, <2>4
        DEF LnnStartTimeSync, SyncInv, TimeSyncTypeOK, ImplMatchesRequests
<1>3. ASSUME NEW p \in Pkg, NEW n \in Node, LnnStopTimeSync(p, n)
      PROVE  SyncInv'
    <2>1. [what |-> "STOP", pkg |-> p, node |-> n] \in Message
        BY SMTT(60) DEF Message
    <2>2. queue' \in Seq(Message)
        BY ZenonT(60), <1>1, <1>3, <2>1, SyncQueue DEF LnnStopTimeSync
    <2>3. calls' \in 0 .. MaxCalls
        BY SMTT(60), <1>1, <1>3, TimeSyncAssumption DEF LnnStopTimeSync, TimeSyncTypeOK
    <2>4. waiting' \subseteq Pkg \X Node
        BY ZenonT(60), <1>1, <1>3 DEF LnnStopTimeSync, TimeSyncTypeOK
    <2> QED
        BY ZenonT(60), <1>3, <2>2, <2>3, <2>4
        DEF LnnStopTimeSync, SyncInv, TimeSyncTypeOK, ImplMatchesRequests
<1>4. ASSUME NEW n \in Node, NEW ret \in {"ok", "fail", "other"},
             OnTimeSyncImplComplete(n, ret)
      PROVE  SyncInv'
    <2>1. [what |-> "COMPLETE", node |-> n, retCode |-> ret] \in Message
        BY SMTT(60) DEF Message
    <2>2. queue' \in Seq(Message)
        BY ZenonT(60), <1>1, <1>4, <2>1, SyncQueue DEF OnTimeSyncImplComplete
    <2> QED
        BY ZenonT(60), <1>4, <2>2
        DEF OnTimeSyncImplComplete, SyncInv, TimeSyncTypeOK, ImplMatchesRequests
<1>5. CASE LnnTimeSyncDeinit
    <2>1. [what |-> "REMOVE_ALL"] \in Message
        BY SMTT(60) DEF Message
    <2>2. queue' \in Seq(Message)
        BY ZenonT(60), <1>1, <1>5, <2>1, SyncQueue DEF LnnTimeSyncDeinit
    <2>3. impl' \in [Node -> Rate \cup {TsNil}]
        BY SMTT(60), <1>5 DEF LnnTimeSyncDeinit
    <2>4. up' = FALSE /\ UNCHANGED <<reqList, calls, waiting>>
        BY <1>5 DEF LnnTimeSyncDeinit
    <2> QED
        BY ZenonT(60), <2>2, <2>3, <2>4 DEF SyncInv, TimeSyncTypeOK, ImplMatchesRequests
<1> QED
    BY ZenonT(60), <1>2, <1>3, <1>4, <1>5

(* The handlers keep the invariant.                                         *)
LEMMA HandlersKeep ==
    ASSUME SyncInv, TimeSyncMessageHandler
    PROVE  SyncInv'
<1> DEFINE m == Head(queue)
<1>1. TimeSyncTypeOK
    BY DEF SyncInv
<1>2. queue' \in Seq(Message) /\ m \in Message /\ UNCHANGED <<calls, up>>
    BY ZenonT(60), <1>1, SyncQueue
    DEF TimeSyncMessageHandler, Taken, ProcessStartTimeSyncRequest,
        ProcessStopTimeSyncRequest, ProcessTimeSyncComplete, ProcessRemoveAll
<1>3. waiting' \subseteq waiting
    BY ZenonT(60)
    DEF TimeSyncMessageHandler, ProcessStartTimeSyncRequest,
        ProcessStopTimeSyncRequest, ProcessTimeSyncComplete, ProcessRemoveAll
<1>4. SUFFICES /\ reqList' \in [Node -> TimeSyncReqInfo \cup {TsNil}]
               /\ impl' \in [Node -> Rate \cup {TsNil}] /\ ImplMatchesRequests'
    BY ZenonT(60), <1>1, <1>2, <1>3 DEF SyncInv, TimeSyncTypeOK
<1>5. CASE ProcessStartTimeSyncRequest
    BY <1>5, StartKeeps
<1>6. CASE UNCHANGED <<reqList, impl>>
    BY ZenonT(60), <1>1, <1>2, <1>6 DEF SyncInv, TimeSyncTypeOK, ImplMatchesRequests
<1>7. CASE ProcessStopTimeSyncRequest
    <2>1. m.pkg \in Pkg /\ m.node \in Node
        BY ZenonT(60), <1>2, <1>7, SyncFields DEF ProcessStopTimeSyncRequest, Taken
    <2>2. CASE reqList[m.node] # TsNil
        <3>1. reqList[m.node] \in TimeSyncReqInfo
            BY ZenonT(60), <1>1, <2>1, <2>2 DEF TimeSyncTypeOK
        <3>2. RemoveStartTimeSyncReq(reqList[m.node], m.pkg) \in TimeSyncReqInfo
            BY ZenonT(60), <2>1, <3>1, RemovedType
        <3>3. TryUpdateTimeSyncReq(RemoveStartTimeSyncReq(reqList[m.node], m.pkg), m.node)
            BY ZenonT(60), <1>7, <2>2 DEF ProcessStopTimeSyncRequest
        <3> HIDE DEF m
        <3> QED
            BY ZenonT(60), <1>2, <2>1, <2>2, <3>2, <3>3, StopKeeps
    <2> QED
        BY ZenonT(60), <1>6, <1>7, <2>2 DEF ProcessStopTimeSyncRequest
<1>8. CASE ProcessTimeSyncComplete
    <2>1. m.node \in Node
        BY ZenonT(60), <1>2, <1>8, SyncFields DEF ProcessTimeSyncComplete, Taken
    <2>2. CASE /\ reqList' = [reqList EXCEPT ![m.node] = TsNil]
               /\ impl' = [impl EXCEPT ![m.node] = TsNil]
        <3> HIDE DEF m
        <3> QED
            BY ZenonT(60), <1>2, <2>1, <2>2, RecordStep
    <2> QED
        BY ZenonT(60), <1>6, <1>8, <2>2 DEF ProcessTimeSyncComplete
<1>9. CASE ProcessRemoveAll
    <2>1. /\ reqList' = [n \in Node |-> TsNil]
          /\ impl' = [n \in Node |-> TsNil]
        BY <1>9 DEF ProcessRemoveAll
    <2> QED
        BY SMTT(60), <2>1 DEF ImplMatchesRequests
<1> QED
    BY <1>5, <1>7, <1>8, <1>9 DEF TimeSyncMessageHandler

(* The implementation of the time synchronisation runs for exactly the nodes *)
(* that have a record, and every field keeps its type, whatever starts, stops,*)
(* refusals, results and failures meet in the looper: this is inductive.     *)
THEOREM SyncInductive == TimeSyncSpec => []SyncInv
<1>1. TimeSyncInit => SyncInv
    <2> SUFFICES ASSUME TimeSyncInit PROVE SyncInv
        OBVIOUS
    <2>1. queue \in Seq(Message) /\ calls \in 0 .. MaxCalls
        BY SMTT(60), TimeSyncAssumption DEF TimeSyncInit
    <2>2. /\ reqList \in [Node -> TimeSyncReqInfo \cup {TsNil}]
          /\ impl \in [Node -> Rate \cup {TsNil}]
          /\ \A n \in Node : reqList[n] = TsNil /\ impl[n] = TsNil
        BY SMTT(60) DEF TimeSyncInit
    <2>3. up \in BOOLEAN /\ waiting \subseteq Pkg \X Node
        BY ZenonT(60) DEF TimeSyncInit
    <2> QED
        BY ZenonT(60), <2>1, <2>2, <2>3 DEF SyncInv, TimeSyncTypeOK, ImplMatchesRequests
<1>2. SyncInv /\ [TimeSyncNext]_tsVars => SyncInv'
    <2> SUFFICES ASSUME SyncInv, [TimeSyncNext]_tsVars PROVE SyncInv'
        OBVIOUS
    <2>1. CASE UNCHANGED tsVars
        BY ZenonT(60), <2>1 DEF tsVars, SyncInv, TimeSyncTypeOK, ImplMatchesRequests
    <2>2. CASE TimeSyncNext
        BY ZenonT(60), <2>2, CallsKeep, HandlersKeep DEF TimeSyncNext
    <2> QED
        BY <2>1, <2>2
<1> QED
    BY <1>1, <1>2, PTL DEF TimeSyncSpec

(* lnn_time_sync_manager.c: no synchronisation is left running with no record *)
(* to stop it by, and none is recorded that was refused or has been stopped.  *)
THEOREM SyncMatches == TimeSyncSpec => []ImplMatchesRequests
<1>1. SyncInv => ImplMatchesRequests
    BY DEF SyncInv
<1> QED
    BY <1>1, SyncInductive, PTL

(* A package's request is in the new record x of a node when it was in the   *)
(* old one and x was derived from it for the sake of another package.        *)
LEMMA StaysRecorded ==
    ASSUME SyncInv, NEW n \in Node, NEW k \in Node, NEW p \in Pkg, NEW x \in TimeSyncReqInfo,
           reqList' = [reqList EXCEPT ![k] = x], Recorded(p, n),
           x.startReqList[p] = reqList[k].startReqList[p]
    PROVE  Recorded(p, n)'
<1>1. reqList'[n] = IF n = k THEN x ELSE reqList[n]
    BY SMTT(60) DEF SyncInv, TimeSyncTypeOK
<1> QED
    BY ZenonT(60), <1>1, TsNilAssumption DEF Recorded

(* A start enters, raises or takes back the request of its own package only. *)
LEMMA StartOwn ==
    ASSUME SyncInv, ProcessStartTimeSyncRequest, NEW n \in Node, NEW p \in Pkg,
           Recorded(p, n), p # Head(queue).pkg
    PROVE  Recorded(p, n)'
<1> DEFINE m == Head(queue)
           new == TryUpdateStartTimeSyncReq(FindOrCreate(m.node, m.rate), m.pkg, m.rate)
           left == RemoveStartTimeSyncReq(new, m.pkg)
<1>1. m.pkg \in Pkg /\ m.node \in Node /\ m.rate \in Rate
    BY ZenonT(60), SyncQueue, SyncFields DEF SyncInv, ProcessStartTimeSyncRequest, Taken
<1>2. /\ new \in TimeSyncReqInfo /\ left \in TimeSyncReqInfo
      /\ reqList[m.node] # TsNil =>
            /\ new.startReqList[p] = reqList[m.node].startReqList[p]
            /\ left.startReqList[p] = reqList[m.node].startReqList[p]
    BY ZenonT(60), <1>1, EnteredType DEF SyncInv
<1>3. \/ reqList' = [reqList EXCEPT ![m.node] = new]
      \/ reqList' = [reqList EXCEPT ![m.node] = IF reqList[m.node] = TsNil THEN TsNil ELSE left]
    BY ZenonT(60) DEF ProcessStartTimeSyncRequest
<1> HIDE DEF m, new, left
<1>4. CASE reqList[m.node] = TsNil
    <2>1. n # m.node
        BY <1>4 DEF Recorded
    <2>2. reqList'[n] = reqList[n]
        BY SMTT(60), <1>1, <1>3, <2>1 DEF SyncInv, TimeSyncTypeOK
    <2> QED
        BY ZenonT(60), <2>2 DEF Recorded
<1>5. CASE reqList[m.node] # TsNil
    BY ZenonT(60), <1>1, <1>2, <1>3, <1>5, StaysRecorded
<1> QED
    BY <1>4, <1>5

(* A stop takes away the request of its own package only: the record goes    *)
(* when no other package is left in it.                                     *)
LEMMA StopOwn ==
    ASSUME SyncInv, ProcessStopTimeSyncRequest, NEW n \in Node, NEW p \in Pkg,
           Recorded(p, n), p # Head(queue).pkg
    PROVE  Recorded(p, n)'
<1> DEFINE m == Head(queue)
           info == RemoveStartTimeSyncReq(reqList[m.node], m.pkg)
<1>1. m.pkg \in Pkg /\ m.node \in Node
    BY ZenonT(60), SyncQueue, SyncFields DEF SyncInv, ProcessStopTimeSyncRequest, Taken
<1>2. CASE reqList' = reqList
    BY ZenonT(60), <1>2 DEF Recorded
<1>3. CASE reqList[m.node] # TsNil /\ TryUpdateTimeSyncReq(info, m.node)
    <2>1. reqList[m.node] \in TimeSyncReqInfo
        BY ZenonT(60), <1>1, <1>3 DEF SyncInv, TimeSyncTypeOK
    <2>2. info \in TimeSyncReqInfo /\ info.startReqList[p] = reqList[m.node].startReqList[p]
        BY ZenonT(60), <1>1, <2>1, RemovedType
    <2> HIDE DEF info, m
    <2>3. CASE Requesters(info) = {} /\ reqList' = [reqList EXCEPT ![m.node] = TsNil]
        <3>1. n # m.node
            BY ZenonT(60), <1>3, <2>2, <2>3 DEF Recorded, Requesters
        <3>2. reqList'[n] = reqList[n]
            BY SMTT(60), <1>1, <2>3, <3>1 DEF SyncInv, TimeSyncTypeOK
        <3> QED
            BY ZenonT(60), <3>2 DEF Recorded
    <2>4. CASE /\ Requesters(info) # {}
               /\ reqList' = [reqList EXCEPT ![m.node] = [info EXCEPT !.cur = Wanted(info)]]
        <3>1. Wanted(info) \in Rate
            BY <2>2, <2>4, WantedType
        <3>2. /\ [info EXCEPT !.cur = Wanted(info)] \in TimeSyncReqInfo
              /\ [info EXCEPT !.cur = Wanted(info)].startReqList = info.startReqList
            BY SMTT(60), <2>2, <3>1 DEF TimeSyncReqInfo
        <3> QED
            BY ZenonT(60), <1>1, <2>2, <2>4, <3>2, StaysRecorded
    <2>5. CASE reqList' = [reqList EXCEPT ![m.node] = info]
        BY ZenonT(60), <1>1, <2>2, <2>5, StaysRecorded
    <2> QED
        BY ZenonT(60), <1>3, <2>3, <2>4, <2>5 DEF TryUpdateTimeSyncReq
<1> QED
    BY ZenonT(60), <1>2, <1>3 DEF ProcessStopTimeSyncRequest

(* A result that takes a record away is told to every package in it.        *)
LEMMA CompleteTold ==
    ASSUME SyncInv, ProcessTimeSyncComplete, NEW n \in Node, NEW p \in Pkg,
           Recorded(p, n), ~Recorded(p, n)'
    PROVE  <<p, n>> \notin waiting'
<1> DEFINE m == Head(queue)
<1>1. m.node \in Node
    BY ZenonT(60), SyncQueue, SyncFields DEF SyncInv, ProcessTimeSyncComplete, Taken
<1>2. CASE reqList' = reqList
    BY ZenonT(60), <1>2 DEF Recorded
<1>3. CASE /\ reqList' = [reqList EXCEPT ![m.node] = TsNil]
           /\ waiting' = waiting \ (Requesters(reqList[m.node]) \X {m.node})
    <2> HIDE DEF m
    <2>1. reqList'[n] = IF n = m.node THEN TsNil ELSE reqList[n]
        BY SMTT(60), <1>1, <1>3 DEF SyncInv, TimeSyncTypeOK
    <2>2. n = m.node
        BY ZenonT(60), <2>1 DEF Recorded
    <2>3. p \in Requesters(reqList[m.node])
        BY ZenonT(60), <2>2 DEF Recorded, Requesters
    <2>4. <<p, n>> \in Requesters(reqList[m.node]) \X {m.node}
        BY ZenonT(60), <2>2, <2>3
    <2> QED
        BY ZenonT(60), <1>3, <2>4
<1> QED
    BY ZenonT(60), <1>2, <1>3 DEF ProcessTimeSyncComplete

(* lnn_time_sync_manager.c: what one package does never takes away another's *)
(* request.  A request goes with a message of its own package, with a result *)
(* its package is told, or when everything is removed.                       *)
THEOREM OthersKept == TimeSyncSpec => OthersKeepTheirRequest
<1>1. SyncInv /\ [TimeSyncNext]_tsVars => [OwnRequestsOnly]_tsVars
    <2> SUFFICES ASSUME SyncInv, TimeSyncNext, NEW n \in Node, NEW p \in Pkg,
                        Recorded(p, n), ~Recorded(p, n)'
                 PROVE  \/ Head(queue).what \in {"START", "STOP"} /\ Head(queue).pkg = p
                        \/ Head(queue).what = "COMPLETE" /\ <<p, n>> \notin waiting'
                        \/ Head(queue).what = "REMOVE_ALL"
        BY ZenonT(60) DEF OwnRequestsOnly
    <2>1. reqList' # reqList
        BY ZenonT(60) DEF Recorded
    <2>2. TimeSyncMessageHandler
        BY ZenonT(60), <2>1
        DEF TimeSyncNext, LnnStartTimeSync, LnnStopTimeSync, OnTimeSyncImplComplete,
            LnnTimeSyncDeinit
    <2>3. CASE ProcessStartTimeSyncRequest
        BY ZenonT(60), <2>3, StartOwn DEF ProcessStartTimeSyncRequest, Taken
    <2>4. CASE ProcessStopTimeSyncRequest
        BY ZenonT(60), <2>4, StopOwn DEF ProcessStopTimeSyncRequest, Taken
    <2>5. CASE ProcessTimeSyncComplete
        BY ZenonT(60), <2>5, CompleteTold DEF ProcessTimeSyncComplete, Taken
    <2>6. CASE ProcessRemoveAll
        BY ZenonT(60), <2>6 DEF ProcessRemoveAll, Taken
    <2> QED
        BY <2>2, <2>3, <2>4, <2>5, <2>6 DEF TimeSyncMessageHandler
<1> QED
    BY <1>1, SyncInductive, PTL DEF TimeSyncSpec, OthersKeepTheirRequest
=============================================================================
