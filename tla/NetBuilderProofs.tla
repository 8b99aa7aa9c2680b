-------------------------- MODULE NetBuilderProofs --------------------------
(***************************************************************************)
(* For every value of its constants, NetBuilder is type-correct, counts    *)
(* its connections exactly, never uses a freed connection fsm, cleans up   *)
(* every dead connection fsm, keeps a timeout for every one that waits and *)
(* holds every JoinLNN request in one place.                               *)
(***************************************************************************)
EXTENDS StepProofs, RequestProofs, FiniteSetTheorems

\* The list of connection fsms is finite.
LEMMA FiniteList ==
  ASSUME CountInv
  PROVE  IsFiniteSet(fsmList)
<1>1. nextFsm \in Int /\ fsmList \in SUBSET (1 .. nextFsm)
  BY DEF CountInv
<1>2. IsFiniteSet(1 .. nextFsm)
  BY <1>1, FS_Interval
<1> QED
  BY ZenonT(60), <1>1, <1>2, FS_Subset

-----------------------------------------------------------------------------
(* The theorems. *)

\* LnnInitNetBuilder starts with nothing listed, queued or timed.
LEMMA InitSound == Init => IInv /\ CountInv
<1> SUFFICES ASSUME Init PROVE IInv /\ CountInv
  OBVIOUS
<1>1. /\ NoFsm \in ConnFsm /\ AbsentNode \in LedgerNode
      /\ 0 \in 0 .. MaxAuth /\ 0 \in 0 .. MaxNet /\ 0 \in 0 .. MaxFsm
      /\ [phase |-> "none", addr |-> NULL] \in AuthRecord
  BY SMTT(60), NoFsmType, BoundsAssumption DEF AbsentNode, LedgerNode, AuthRecord
<1>2. TypeOK
  BY SMTT(60), <1>1 DEF Init, TypeOK, AuthRecord
<1>3. Len(queue) = 0 /\ \A i \in 1 .. Len(queue) : FALSE
  BY SMTT(60) DEF Init
<1>4. QueueSound(queue, fsm, fsmList, auth) /\ TimersSound(timers, fsm)
  BY ZenonT(60), <1>3 DEF Init, QueueSound, TimersSound
<1>5. FsmsSound(fsm, fsmList, nextFsm) /\ AuthsSound(auth, fsm)
  BY DEF Init, FsmsSound, AuthsSound, NoFsm
<1>6. CountInv
  BY SMTT(60), <1>1, FS_EmptySet, BoundsAssumption DEF Init, CountInv, ConnCountExact
<1> QED
  BY ZenonT(60), <1>2, <1>4, <1>5, <1>6 DEF IInv, FsmLifecycle

\* connCount is kept exact by every step.
LEMMA CountStep ==
  ASSUME CountInv, [Next]_vars
  PROVE  CountInv'
<1>1. IsFiniteSet(fsmList) /\ Cardinality(fsmList) \in Nat
  BY ZenonT(60), FiniteList, FS_CardinalityType
<1>2. CASE UNCHANGED listVars
  BY ZenonT(60), <1>2 DEF CountInv, ConnCountExact, listVars
<1>3. ASSUME NEW a, NEW id, NEW flags, NEW w, StartNewConnectionFsm(a, id, flags, w)
      PROVE  CountInv'
  <2>1. /\ nextFsm' = nextFsm + 1 /\ fsmList' = fsmList \cup {nextFsm + 1}
        /\ connCount' = connCount + 1 /\ connCount < MaxConnCount /\ nextFsm < MaxFsm
    BY ZenonT(60), <1>3 DEF StartNewConnectionFsm, CanStartNewConnectionFsm
  <2>2. nextFsm + 1 \notin fsmList
    BY SMTT(60) DEF CountInv
  <2>3. Cardinality(fsmList') = Cardinality(fsmList) + 1
    BY ZenonT(60), <1>1, <2>1, <2>2, FS_AddElement
  <2> QED
    BY SMTT(60), <1>1, <2>1, <2>3, BoundsAssumption DEF CountInv, ConnCountExact
<1>4. CASE ProcessCleanConnectionFsm /\ ~UNCHANGED listVars
  <2>1. PICK f \in fsmList : fsmList' = fsmList \ {f} /\ connCount' = connCount - 1
                             /\ nextFsm' = nextFsm
    BY ZenonT(60), <1>4 DEF ProcessCleanConnectionFsm, OnlyPost
  <2>2. Cardinality(fsmList') = Cardinality(fsmList) - 1
    BY ZenonT(60), <1>1, <2>1, FS_RemoveElement
  <2> QED
    BY SMTT(60), <1>1, <2>1, <2>2, BoundsAssumption DEF CountInv, ConnCountExact
<1>5. CASE UNCHANGED vars
  BY ZenonT(60), <1>2, <1>5 DEF vars
<1> QED
  BY ZenonT(60), <1>2, <1>3, <1>4, <1>5, OthersKeepList

\* There are finitely many connection fsms to create, so every set of them is counted.
LEMMA FsmsCounted == Counted
<1>1. IsFiniteSet(FsmId)
  BY FS_Interval, BoundsAssumption DEF FsmId
<1>2. \A S \in SUBSET FsmId : IsFiniteSet(S)
  BY ZenonT(60), <1>1, FS_Subset
<1>3. \A S \in SUBSET FsmId : Cardinality(S) \in Nat /\ (Cardinality(S) = 0 => S = {})
  BY ZenonT(60), <1>2, FS_CardinalityType, FS_EmptySet
<1>4. \A f \in FsmId : Cardinality({f}) = 1
  BY FS_Singleton
<1> QED
  BY ZenonT(60), <1>3, <1>4 DEF Counted

\* The inductive step: every handler, timeout and external event.
LEMMA InvStep ==
  ASSUME IInv, CountInv, [Next]_vars
  PROVE  IInv'
<1>1. CASE NetBuilderStep
  BY ZenonT(60), <1>1, NetBuilderStepSound, FsmsCounted
<1>2. ASSUME NEW f \in FsmId, FsmStep(f) \/ TimerStep(f) PROVE IInv'
  BY ZenonT(60), <1>2, FsmStepSound, TimerStepSound
<1>3. CASE Environment
  BY ZenonT(60), <1>3, RequestSound, PeerSound, AuthManagerSound DEF Environment
<1>4. CASE UNCHANGED vars
  BY ZenonT(60), <1>4 DEF vars, listVars, ledgerVars, peerVars, waitVars, IInv, TypeOK, FsmLifecycle
<1> QED
  BY ZenonT(60), <1>1, <1>2, <1>3, <1>4 DEF Next

\* The inductive invariant holds in every behaviour.
THEOREM Inductive == Spec => [](IInv /\ CountInv)
BY InitSound, InvStep, CountStep, PTL DEF Spec

\* Every queued message, connection fsm, ledger entry and authentication is
\* well-formed, for any number of addresses, devices and connection fsms.
THEOREM TypeCorrect == Spec => []TypeOK
<1>1. IInv => TypeOK
  BY DEF IInv
<1> QED
  BY <1>1, Inductive, PTL

\* g_netBuilder.connCount is the length of fsmList and at most maxConnCount.
THEOREM CountCorrect == Spec => []ConnCountExact
<1>1. CountInv => ConnCountExact
  BY ZenonT(60) DEF CountInv
<1> QED
  BY <1>1, Inductive, PTL

\* A connection fsm lives as its handlers assume: messages and timeouts only
\* reach allocated ones, and DEINIT is the last message.
THEOREM LifecycleCorrect == Spec => []FsmLifecycle
<1>1. IInv => FsmLifecycle
  BY DEF IInv
<1> QED
  BY <1>1, Inductive, PTL

\* No connection fsm is used after LnnDestroyConnectionFsm has freed it.
THEOREM NoUseAfterFree == Spec => []FreedFsmUnreferenced
<1>1. ASSUME IInv PROVE FreedFsmUnreferenced
  <2>1. /\ queue \in Seq(Message) /\ QueueSound(queue, fsm, fsmList, auth)
        /\ timers \subseteq FsmId \X FsmTimeouts /\ TimersSound(timers, fsm)
    BY ZenonT(60), <1>1 DEF IInv, TypeOK, FsmLifecycle
  <2>2. DOMAIN queue = 1 .. Len(queue)
    BY SMTT(60), <2>1
  <2>3. \A f \in fsmList : fsm[f].alloc = "live"
    BY ZenonT(60), <1>1, Listed
  <2>4. ASSUME NEW t \in timers
        PROVE  fsm[t[1]].alloc = "live" /\ ~Queued(t[1], "DEINIT")
    <3>1. fsm[t[1]].alloc = "live" /\ ~fsm[t[1]].isDead /\ t[1] \in FsmId
      BY ZenonT(60), <2>1 DEF TimersSound, TimerSound
    <3>2. NoDeinit(queue, t[1])
      BY ZenonT(60), <2>1, <3>1, NoDeinitQueued
    <3>3. FsmMsg(t[1], "DEINIT").h = t[1] /\ FsmMsg(t[1], "DEINIT").what = "DEINIT"
      BY ZenonT(60) DEF FsmMsg
    <3> QED
      BY ZenonT(60), <2>2, <3>1, <3>2, <3>3 DEF NoDeinit, Queued
  <2>5. \A i \in DOMAIN queue :
          queue[i].h # NB => /\ fsm[queue[i].h].alloc = "live"
                             /\ \A j \in DOMAIN queue :
                                  /\ queue[j].h = queue[i].h
                                  /\ queue[j].what = "DEINIT"
                                  => i <= j
    BY ZenonT(60), <2>1, <2>2 DEF QueueSound, MessageSound
  <2> QED
    BY ZenonT(60), <2>3, <2>4, <2>5 DEF FreedFsmUnreferenced
<1> QED
  BY <1>1, Inductive, PTL

\* The bookkeeping of clean-ups and timeouts holds in every behaviour.
THEOREM JoinInductive == Spec => [](IInv /\ JoinInv)
<1>1. Spec => []IInv
  BY Inductive, PTL
<1>2. IInv /\ JoinInv /\ [Next]_vars => JoinInv'
  BY ZenonT(60), JoinStep, StepEffect, FsmsCounted
<1> QED
  BY <1>1, <1>2, JoinInit, PTL DEF Spec

\* A dead connection fsm is always on its way out: the clean request that
\* CompleteJoinLNN or CompleteLeaveLNN posts for it stays queued until
\* StopConnectionFsm unlists it, and then its DEINIT until it is freed.
THEOREM DeadFsmCleaned == Spec => []DeadFsmBeingCleaned
<1>1. IInv /\ JoinInv => DeadFsmBeingCleaned
  BY ZenonT(60), CleaningMeans
<1> QED
  BY <1>1, JoinInductive, PTL

\* A connection fsm that waits in STATE_AUTH with an authentication, or in
\* STATE_SYNC_DEVICE_INFO, and is not passive, has its join timeout armed.
THEOREM TimeoutArmed == Spec => []JoinTimeoutArmed
<1>1. IInv /\ JoinInv => JoinTimeoutArmed
  BY ZenonT(60), WaitingMeans
<1> QED
  BY <1>1, JoinInductive, PTL

\* The bookkeeping of requests holds in every behaviour.
THEOREM RequestInductive == Spec => [](IInv /\ RequestInv)
<1>1. Spec => []IInv
  BY Inductive, PTL
<1>2. IInv /\ RequestInv /\ [Next]_vars => RequestInv'
  BY ZenonT(60), RequestStep, StepEffect, FsmsCounted
<1> QED
  BY <1>1, <1>2, RequestInit, PTL DEF Spec

\* A JoinLNN request whose result is awaited is held once, in the queue or by one
\* connection fsm that will still answer it, and no other request is held.
THEOREM RequestHeldOnce == Spec => []JoinRequestHeldOnce
<1>1. IInv /\ RequestInv => JoinRequestHeldOnce
  BY ZenonT(60), HeldMeans, FS_EmptySet, FS_Singleton
<1> QED
  BY <1>1, RequestInductive, PTL

=============================================================================
