--------------------------- MODULE RequestProofs ----------------------------
(***************************************************************************)
(* What becomes of a JoinLNN request: it is held in exactly one place, the *)
(* queue or a connection fsm that will answer it, until its caller is      *)
(* told. Every step that does what AnyStep allows keeps this.              *)
(***************************************************************************)
EXTENDS JoinProofs

-----------------------------------------------------------------------------
(* Nothing but DEINIT follows the STOP of a connection fsm. *)

StopLast ==
  {p \in Message \X Message :
     p[1].h # NB /\ p[1].h = p[2].h /\ p[1].what = "STOP" => p[2].what = "DEINIT"}

StopOrder == Ordered(queue, StopLast)

\* What it means for two messages to be in StopLast.
LEMMA StopLastPairs ==
  ASSUME NEW m \in Message, NEW n \in Message
  PROVE  <<m, n>> \in StopLast <=>
           (m.h # NB /\ m.h = n.h /\ m.what = "STOP" => n.what = "DEINIT")
<1>1. <<m, n>> \in Message \X Message /\ <<m, n>>[1] = m /\ <<m, n>>[2] = n
  BY ZenonT(60)
<1> QED
  BY ZenonT(60), <1>1 DEF StopLast

\* Messages none of which is a STOP are in order.
LEMMA NoStops ==
  ASSUME NEW s \in Seq(Message), \A m \in Msgs(s) : m.what # "STOP"
  PROVE  Ordered(s, StopLast)
<1>1. \A i \in 1 .. Len(s) : s[i] \in Message /\ s[i].what # "STOP"
  <2>1. \A i \in 1 .. Len(s) : s[i] \in Message
    BY SMTT(60)
  <2> QED
    BY ZenonT(60), <2>1 DEF Msgs
<1> QED
  BY ZenonT(60), <1>1, StopLastPairs DEF Ordered

\* What goes to the net builder, to a listed connection fsm or to one that is not
\* dead follows no STOP.
LEMMA StopOrderKept ==
  ASSUME IInv, StopOrder, NEW b, NEW s, Moves(b, s), Ordered(s, StopLast),
         \A m \in Msgs(s) : m.h = NB \/ m.h \in fsmList \/ ~fsm[m.h].isDead
  PROVE  StopOrder'
<1>1. queue \in Seq(Message) /\ b \in Seq(Message) /\ s \in Seq(Message)
      /\ Msgs(b) \subseteq Msgs(queue) /\ queue' = b \o s
  BY ZenonT(60), MovedMsgs DEF IInv, TypeOK, Moves
<1>2. Ordered(b, StopLast)
  BY ZenonT(60), <1>1, TailOrdered DEF StopOrder, Moves, Rest
<1>3. ASSUME NEW m \in Msgs(b), NEW n \in Msgs(s) PROVE <<m, n>> \in StopLast
  <2>1. m \in Message /\ n \in Message
    <3>1. m \in Message
      BY ZenonT(60), <1>1, QueuedMsgs
    <3>2. PICK i \in 1 .. Len(s) : n = s[i]
      BY ZenonT(60) DEF Msgs
    <3>3. n \in Message
      BY SMTT(60), <1>1, <3>2
    <3> QED
      BY <3>1, <3>3
  <2>2. ASSUME m.h # NB, m.what = "STOP" PROVE fsm[m.h].isDead /\ m.h \notin fsmList
    BY ZenonT(60), <1>1, <2>2, QueuedMsgs
  <2>3. ~(m.h # NB /\ m.h = n.h /\ m.what = "STOP")
    BY ZenonT(60), <2>2
  <2> QED
    BY ZenonT(60), <2>1, <2>3, StopLastPairs
<1>4. Ordered(b \o s, StopLast)
  BY ZenonT(60), <1>1, <1>2, <1>3, ConcatOrdered
<1> QED
  BY ZenonT(60), <1>1, <1>4 DEF StopOrder, Ordered

\* The messages that stop a connection fsm are in order.
LEMMA StopsOrdered ==
  ASSUME NEW f \in FsmId, NEW s, Stops(f, s)
  PROVE  Ordered(s, StopLast)
<1>1. PICK t \in Seq(Message) :
        /\ s = <<FsmMsg(f, "STOP"), FsmMsg(f, "DEINIT")>> \o t
        /\ \A m \in Msgs(t) : m.h \in fsmList \ {f} /\ m.what = "INITIATE_ONLINE"
  BY DEF Stops
<1> DEFINE stop == <<FsmMsg(f, "STOP"), FsmMsg(f, "DEINIT")>>
<1>2. /\ FsmMsg(f, "STOP") \in Message /\ FsmMsg(f, "DEINIT") \in Message
      /\ FsmMsg(f, "STOP").h = f /\ FsmMsg(f, "DEINIT").h = f
      /\ FsmMsg(f, "DEINIT").what = "DEINIT"
  BY ZenonT(60), FsmMsgType DEF FsmCtrl
<1>3. stop \in Seq(Message) /\ Msgs(stop) = {FsmMsg(f, "STOP"), FsmMsg(f, "DEINIT")}
  BY ZenonT(60), <1>2, FewMsgs
<1>4. Ordered(stop, StopLast)
  <2>1. <<FsmMsg(f, "STOP"), FsmMsg(f, "DEINIT")>> \in StopLast
    BY ZenonT(60), <1>2, StopLastPairs
  <2> QED
    BY ZenonT(60), <1>2, <2>1, FewOrdered
<1> HIDE DEF stop
<1>5. Ordered(t, StopLast)
  <2>1. \A m \in Msgs(t) : m.what # "STOP"
    BY ZenonT(60), <1>1
  <2> QED
    BY ZenonT(60), <2>1, NoStops
<1>6. ASSUME NEW m \in Msgs(stop), NEW n \in Msgs(t) PROVE <<m, n>> \in StopLast
  <2>1. PICK i \in 1 .. Len(t) : n = t[i]
    BY ZenonT(60) DEF Msgs
  <2>2. n \in Message
    BY SMTT(60), <2>1
  <2>3. m \in Message /\ m.h = f /\ n.h # f
    BY ZenonT(60), <1>1, <1>2, <1>3
  <2> QED
    BY ZenonT(60), <2>2, <2>3, StopLastPairs
<1>7. Ordered(stop \o t, StopLast)
  BY ZenonT(60), <1>3, <1>4, <1>5, <1>6, ConcatOrdered
<1> QED
  BY <1>1, <1>7 DEF stop

\* What is posted to the net builder, to a listed connection fsm or to one that is
\* not dead, and is no STOP.
Harmless(s) ==
  \A m \in Msgs(s) : /\ m.what # "STOP"
                     /\ m.h = NB \/ m.h \in fsmList \/ ~fsm[m.h].isDead

\* What the handlers of a connection fsm post is harmless, and no request.
LEMMA FsmHarmless ==
  ASSUME NEW f \in FsmId, NEW s, \A m \in Msgs(s) : FromFsm(f, m)
  PROVE  Harmless(s) /\ \A m \in Msgs(s) : m.what # "JOIN_LNN_REQUEST"
<1>1. CleanMsg(f).h = NB /\ CleanMsg(f).what = "CLEAN_CONN_FSM"
  BY CleaningMsgs
<1>2. ASSUME NEW m \in Msgs(s)
      PROVE  /\ m.what \in {"CLEAN_CONN_FSM", "SYNC_DEVICE_INFO", "LEAVE_INVALID_CONN"}
             /\ m.h = NB \/ ~fsm[m.h].isDead
  <2>1. FromFsm(f, m)
    BY <1>2
  <2> QED
    BY ZenonT(60), <1>1, <2>1 DEF FromFsm
<1>3. \A m \in Msgs(s) : m.what # "STOP" /\ m.what # "JOIN_LNN_REQUEST"
  BY SMTT(60), <1>2
<1> QED
  BY ZenonT(60), <1>2, <1>3 DEF Harmless

\* Every step keeps STOP last.
LEMMA StopOrderStep ==
  ASSUME IInv, Counted, StopOrder, AnyStep
  PROVE  StopOrder'
<1>0. AnyStep
  OBVIOUS
<1>1. ASSUME NEW b, NEW s, Moves(b, s), Harmless(s) PROVE StopOrder'
  <2>1. s \in Seq(Message) /\ \A m \in Msgs(s) : m.what # "STOP"
    BY ZenonT(60), <1>1 DEF Moves, Harmless
  <2>2. Ordered(s, StopLast)
    BY ZenonT(60), <2>1, NoStops
  <2>3. \A m \in Msgs(s) : m.h = NB \/ m.h \in fsmList \/ ~fsm[m.h].isDead
    BY <1>1 DEF Harmless
  <2> QED
    BY ZenonT(60), <1>1, <2>2, <2>3, StopOrderKept
<1>2. ASSUME NEW f \in FsmId, FsmReacts(f) \/ FsmEffect(f, queue, "") PROVE StopOrder'
  <2>1. PICK b, w : FsmEffect(f, b, w) /\ (b = queue \/ (queue # <<>> /\ b = Rest))
    BY ZenonT(60), <1>2 DEF FsmReacts, Dispatch
  <2>2. PICK s : Moves(b, s) /\ \A m \in Msgs(s) : FromFsm(f, m)
    BY ZenonT(60), <2>1, ActsPosts
  <2> QED
    BY ZenonT(60), <1>1, <2>2, FsmHarmless
<1>3. Harmless(<<>>)
  BY FewMsgs DEF Harmless
<1>4. ASSUME NEW f \in FsmId, ProcessStopMessage(f) \/ ProcessDeinitMessage(f)
      PROVE  StopOrder'
  <2>1. Moves(Rest, <<>>)
    BY ZenonT(60), <1>4, StopFacts
  <2> QED
    BY ZenonT(60), <1>1, <1>3, <2>1
<1>5. ASSUME NEW f \in FsmId, JoinPassedTo(f) PROVE StopOrder'
  <2>1. /\ Moves(Rest, <<FsmMsg(f, "JOIN_LNN")>>) /\ f \in fsmList
        /\ Msgs(<<FsmMsg(f, "JOIN_LNN")>>) = {FsmMsg(f, "JOIN_LNN")}
        /\ FsmMsg(f, "JOIN_LNN").what = "JOIN_LNN" /\ FsmMsg(f, "JOIN_LNN").h = f
    BY ZenonT(60), <1>5, JoinMoves DEF JoinPassedTo
  <2>2. Harmless(<<FsmMsg(f, "JOIN_LNN")>>)
    BY ZenonT(60), <2>1 DEF Harmless
  <2> QED
    BY ZenonT(60), <1>1, <2>1, <2>2
<1>6. CASE PassedOn
  <2>1. PICK s : Moves(Rest, s) /\ \A m \in Msgs(s) :
                        m.h \in fsmList /\ m.what \notin {"STOP", "DEINIT"}
    BY ZenonT(60), <1>6, PassFacts
  <2>2. Harmless(s)
    BY ZenonT(60), <2>1 DEF Harmless
  <2> QED
    BY ZenonT(60), <1>1, <2>1, <2>2
<1>7. CASE JoinRefused
  <2>1. Moves(Rest, <<>>)
    BY ZenonT(60), <1>7, JoinMoves DEF JoinRefused
  <2> QED
    BY ZenonT(60), <1>1, <1>3, <2>1
<1>8. CASE PostedByOthers
  <2>1. PICK m \in Message : Moves(queue, <<m>>) /\ Msgs(<<m>>) = {m} /\ m.h = NB
    BY ZenonT(60), <1>8, PostFacts
  <2>2. m.what # "STOP"
    BY SMTT(60), <2>1 DEF Message, FsmId, NB
  <2>3. ASSUME NEW n \in Msgs(<<m>>) PROVE n.what # "STOP" /\ n.h = NB
    <3>1. n = m
      BY ZenonT(60), <2>1
    <3> QED
      BY ZenonT(60), <2>1, <2>2, <3>1
  <2>4. Harmless(<<m>>)
    BY ZenonT(60), <2>3 DEF Harmless
  <2> QED
    BY ZenonT(60), <1>1, <2>1, <2>4
<1>9. CASE Created
  <2>1. PICK f, s, a, id, flags, w : NewFsm(f, s, a, id, flags, w)
    BY <1>9, CreateFacts
  <2>2. /\ Moves(Rest, s) /\ ~fsm[f].isDead /\ w \in {"JOIN_LNN", "AUTH_KEY_GENERATED"}
        /\ \A m \in Msgs(s) : m.h = f /\ m.what \in {"START", w}
    BY ZenonT(60), <2>1 DEF NewFsm, Starts
  <2>3. Harmless(s)
    BY ZenonT(60), <2>2 DEF Harmless
  <2> QED
    BY ZenonT(60), <1>1, <2>2, <2>3
<1>10. CASE Cleaned
  <2>1. PICK f \in fsmList : \E s : f \in FsmId /\ Moves(Rest, s) /\ Stops(f, s)
    BY ZenonT(60), <1>10, CleanFacts
  <2>2. PICK s : Moves(Rest, s) /\ Stops(f, s)
    BY <2>1
  <2>3. Ordered(s, StopLast)
    BY ZenonT(60), <2>1, <2>2, StopsOrdered
  <2>4. \A m \in Msgs(s) : m.h \in fsmList
    BY ZenonT(60), <2>1, <2>2, StopsMsgs
  <2> QED
    BY ZenonT(60), <2>2, <2>3, <2>4, StopOrderKept
<1>11. CASE UNCHANGED <<queue, timers, fsm, listVars, joinWait>>
  BY ZenonT(60), <1>11 DEF StopOrder, Ordered
<1> QED
  BY ZenonT(60), <1>0, <1>2, <1>4, <1>5, <1>6, <1>7, <1>8, <1>9, <1>10, <1>11 DEF AnyStep

-----------------------------------------------------------------------------
(* A connection fsm that holds a JoinLNN request will still answer it. *)

\* One that is dead, or past the join, has the JOIN_LNN message still to come, in
\* whose handler it answers.
Answers(f, r, q) ==
  JoinAsked(r) =>
    /\ r.alloc = "live"
    /\ r.isDead => r.curState \in Joined
    /\ r.isDead \/ r.curState \in Joined => FsmMsg(f, "JOIN_LNN") \in Msgs(q)

Answering == \A f \in FsmId : Answers(f, fsm[f], queue)

\* The connection fsm g and its JOIN_LNN message stay as they are.
LEMMA AnswersKept ==
  ASSUME IInv, Answering, NEW g \in FsmId, NEW b, NEW s, Moves(b, s),
         b # queue => Head(queue) # FsmMsg(g, "JOIN_LNN"),
         JoinAsked(fsm'[g]) => JoinAsked(fsm[g]),
         fsm'[g].alloc = fsm[g].alloc, fsm'[g].isDead = fsm[g].isDead,
         fsm'[g].curState = fsm[g].curState
  PROVE  Answers(g, fsm'[g], queue')
<1>1. Answers(g, fsm[g], queue)
  BY DEF Answering
<1>2. FsmMsg(g, "JOIN_LNN") \in Msgs(queue) => FsmMsg(g, "JOIN_LNN") \in Msgs(queue')
  BY ZenonT(60), MovedMsgs
<1> QED
  BY ZenonT(60), <1>1, <1>2 DEF Answers

\* A message to another handler is not the JOIN_LNN message of g.
LEMMA OtherHandler ==
  ASSUME NEW g \in FsmId, NEW m, m.h # g \/ m.what # "JOIN_LNN"
  PROVE  m # FsmMsg(g, "JOIN_LNN")
<1>1. FsmMsg(g, "JOIN_LNN").h = g /\ FsmMsg(g, "JOIN_LNN").what = "JOIN_LNN"
  BY ZenonT(60), FsmMsgType DEF FsmData
<1> QED
  BY ZenonT(60), <1>1

\* The handlers of a connection fsm answer, or leave the JOIN_LNN message queued.
LEMMA FsmAnswering ==
  ASSUME IInv, Answering, NEW f \in FsmId, NEW b, NEW w, FsmEffect(f, b, w),
         \/ b = queue
         \/ queue # <<>> /\ b = Rest /\ Head(queue).h = f /\ Head(queue).what = w
  PROVE  Answering'
<1>1. PICK s : Moves(b, s)
  BY ZenonT(60), ActsPosts
<1>2. /\ Others(f) /\ JoinEffect(fsm[f], fsm'[f], joinWait, joinWait')
      /\ w = "JOIN_LNN" /\ fsm[f].curState \in Joined => ~JoinAsked(fsm'[f])
  BY DEF FsmEffect
<1>3. ASSUME NEW g \in FsmId, g # f PROVE Answers(g, fsm'[g], queue')
  <2>1. b # queue => Head(queue) # FsmMsg(g, "JOIN_LNN")
    BY ZenonT(60), <1>3, OtherHandler
  <2>2. fsm'[g] = fsm[g]
    BY ZenonT(60), <1>2, <1>3 DEF Others
  <2> QED
    BY ZenonT(60), <1>1, <2>1, <2>2, AnswersKept
<1>4. ASSUME JoinAsked(fsm'[f])
      PROVE  /\ fsm'[f].alloc = "live"
             /\ fsm'[f].isDead => fsm'[f].curState \in Joined
             /\ fsm'[f].isDead \/ fsm'[f].curState \in Joined =>
                  FsmMsg(f, "JOIN_LNN") \in Msgs(queue')
  <2>1. /\ JoinAsked(fsm[f]) /\ fsm'[f].alloc = "live"
        /\ fsm'[f].isDead => fsm[f].isDead \/ fsm[f].curState \in Joined
        /\ fsm'[f].curState \in Joined => fsm[f].isDead \/ fsm[f].curState \in Joined
        /\ fsm[f].curState \in Joined => fsm'[f].curState \in Joined
    BY ZenonT(60), <1>2, <1>4 DEF JoinEffect
  <2>2. /\ fsm[f].isDead => fsm[f].curState \in Joined
        /\ fsm[f].isDead \/ fsm[f].curState \in Joined => FsmMsg(f, "JOIN_LNN") \in Msgs(queue)
    BY ZenonT(60), <2>1 DEF Answering, Answers
  <2>3. ASSUME fsm[f].curState \in Joined PROVE FsmMsg(f, "JOIN_LNN") \in Msgs(queue')
    <3>1. w # "JOIN_LNN" /\ FsmMsg(f, "JOIN_LNN") \in Msgs(queue)
      BY ZenonT(60), <1>2, <1>4, <2>2, <2>3
    <3>2. b # queue => Head(queue) # FsmMsg(f, "JOIN_LNN")
      BY ZenonT(60), <3>1, OtherHandler
    <3> QED
      BY ZenonT(60), <1>1, <3>1, <3>2, MovedMsgs
  <2> QED
    BY ZenonT(60), <2>1, <2>2, <2>3
<1>5. Answers(f, fsm'[f], queue')
  BY ZenonT(60), <1>4 DEF Answers
<1> QED
  BY ZenonT(60), <1>3, <1>5 DEF Answering

\* A connection fsm that is stopped or freed holds no request any more.
LEMMA StoppedAnswered ==
  ASSUME IInv, StopOrder, Answering, NEW f \in FsmId,
         ProcessStopMessage(f) \/ ProcessDeinitMessage(f)
  PROVE  ~JoinAsked(fsm[f]) /\ ~JoinAsked(fsm'[f])
<1>1. /\ Moves(Rest, <<>>) /\ Head(queue).h = f /\ fsm[f].isDead
      /\ Head(queue).what \in {"STOP", "DEINIT"}
  BY ZenonT(60), StopFacts
<1>2. /\ queue \in Seq(Message) /\ queue # <<>> /\ Head(queue) \in Msgs(queue)
      /\ Head(queue) \in Message
  BY ZenonT(60), TakenMsg, QueuedMsgs DEF ProcessStopMessage, ProcessDeinitMessage
<1>3. queue' = Rest
  BY ZenonT(60) DEF ProcessStopMessage, ProcessDeinitMessage
<1>4. ASSUME JoinAsked(fsm[f]) PROVE FALSE
  <2>1. FsmMsg(f, "JOIN_LNN") \in Msgs(queue)
    BY ZenonT(60), <1>1, <1>4 DEF Answering, Answers
  <2>2. Head(queue).what # "JOIN_LNN"
    BY ZenonT(60), <1>1
  <2>3. FsmMsg(f, "JOIN_LNN") \in Msgs(Rest)
    BY ZenonT(60), <1>1, <1>3, <2>1, <2>2, OtherHandler, MovedMsgs
  <2>4. /\ FsmMsg(f, "JOIN_LNN") \in Message /\ FsmMsg(f, "JOIN_LNN").h = f
        /\ FsmMsg(f, "JOIN_LNN").what = "JOIN_LNN"
    BY ZenonT(60), FsmMsgType DEF FsmData
  <2>5. f # NB
    BY ZenonT(60), CleaningMsgs
  <2>6. CASE ProcessDeinitMessage(f)
    BY ZenonT(60), <1>3, <2>3, <2>4, <2>6, StopFacts
  <2>7. CASE ProcessStopMessage(f)
    <3>1. Head(queue).what = "STOP"
      BY ZenonT(60), <2>7, StopFacts
    <3>2. <<Head(queue), FsmMsg(f, "JOIN_LNN")>> \in StopLast
      BY ZenonT(60), <1>2, <2>3, TailOrdered DEF StopOrder, Rest
    <3>3. FsmMsg(f, "JOIN_LNN").what = "DEINIT"
      BY ZenonT(60), <1>1, <1>2, <2>4, <2>5, <3>1, <3>2, StopLastPairs
    <3> QED
      BY <2>4, <3>3
  <2> QED
    BY <2>6, <2>7
<1>5. fsm'[f].flag = fsm[f].flag \/ fsm'[f].flag = {}
  BY ZenonT(60), StopFacts
<1> QED
  BY ZenonT(60), <1>4, <1>5 DEF JoinAsked

\* Every step leaves the requests the connection fsms hold answerable.
LEMMA AnsweringStep ==
  ASSUME IInv, Counted, StopOrder, Answering, AnyStep
  PROVE  Answering'
<1>0. AnyStep
  OBVIOUS
<1>1. ASSUME NEW f \in FsmId, FsmReacts(f) \/ FsmEffect(f, queue, "") PROVE Answering'
  <2>1. PICK b, w : /\ FsmEffect(f, b, w)
                    /\ \/ b = queue
                       \/ /\ queue # <<>> /\ b = Rest
                          /\ Head(queue).h = f /\ Head(queue).what = w
    BY ZenonT(60), <1>1 DEF FsmReacts, Dispatch
  <2> QED
    BY ZenonT(60), <2>1, FsmAnswering
<1>2. ASSUME NEW f \in FsmId, ProcessStopMessage(f) \/ ProcessDeinitMessage(f)
      PROVE  Answering'
  <2>1. ~JoinAsked(fsm'[f])
    BY ZenonT(60), <1>2, StoppedAnswered
  <2>2. /\ Moves(Rest, <<>>) /\ Head(queue).h = f
        /\ \A g \in FsmId : g # f => fsm'[g] = fsm[g]
    BY ZenonT(60), <1>2, StopFacts
  <2>3. ASSUME NEW g \in FsmId, g # f PROVE Answers(g, fsm'[g], queue')
    <3>1. Head(queue) # FsmMsg(g, "JOIN_LNN") /\ fsm'[g] = fsm[g]
      BY ZenonT(60), <2>2, <2>3, OtherHandler
    <3> QED
      BY ZenonT(60), <2>2, <3>1, AnswersKept
  <2>4. Answers(f, fsm'[f], queue')
    BY <2>1 DEF Answers
  <2> QED
    BY ZenonT(60), <2>3, <2>4 DEF Answering
<1>3. ASSUME NEW g \in FsmId, NEW b, NEW s, Moves(b, s), b # queue => Head(queue).h = NB,
             SameFsm(fsm[g], fsm'[g]), JoinAsked(fsm'[g]) => JoinAsked(fsm[g])
      PROVE  Answers(g, fsm'[g], queue')
  <2>1. g # NB
    BY ZenonT(60), CleaningMsgs
  <2>2. b # queue => Head(queue) # FsmMsg(g, "JOIN_LNN")
    BY ZenonT(60), <1>3, <2>1, OtherHandler
  <2>3. /\ fsm'[g].alloc = fsm[g].alloc /\ fsm'[g].isDead = fsm[g].isDead
        /\ fsm'[g].curState = fsm[g].curState
    BY ZenonT(60), <1>3 DEF SameFsm
  <2> QED
    BY ZenonT(60), <1>3, <2>2, <2>3, AnswersKept
<1>4. ASSUME NEW b, NEW s, Moves(b, s), b # queue => Head(queue).h = NB, fsm' = fsm
      PROVE  Answering'
  <2>1. \A g \in FsmId : SameFsm(fsm[g], fsm'[g]) /\ (JoinAsked(fsm'[g]) => JoinAsked(fsm[g]))
    BY ZenonT(60), <1>4 DEF SameFsm
  <2> QED
    BY ZenonT(60), <1>3, <1>4, <2>1 DEF Answering
<1>5. CASE PassedOn
  <2>1. PICK s : Moves(Rest, s) /\ Head(queue).h = NB
    BY ZenonT(60), <1>5, PassFacts DEF Dispatch
  <2>2. \A g \in FsmId : SameFsm(fsm[g], fsm'[g]) /\ (JoinAsked(fsm'[g]) => JoinAsked(fsm[g]))
    BY ZenonT(60), <1>5 DEF PassedOn
  <2> QED
    BY ZenonT(60), <1>3, <2>1, <2>2 DEF Answering
<1>6. ASSUME NEW f \in FsmId, JoinPassedTo(f) PROVE Answering'
  <2>1. /\ Moves(Rest, <<FsmMsg(f, "JOIN_LNN")>>) /\ Head(queue).h = NB
        /\ Msgs(<<FsmMsg(f, "JOIN_LNN")>>) = {FsmMsg(f, "JOIN_LNN")}
        /\ f \in fsmList /\ ~fsm[f].isDead
        /\ \A g \in FsmId : /\ SameFsm(fsm[g], fsm'[g])
                            /\ JoinAsked(fsm'[g]) <=> JoinAsked(fsm[g]) \/ g = f
    BY ZenonT(60), <1>6, JoinMoves DEF JoinPassedTo, Dispatch
  <2>2. \A g \in FsmId : g # f => Answers(g, fsm'[g], queue')
    BY ZenonT(60), <1>3, <2>1
  <2>3. FsmMsg(f, "JOIN_LNN") \in Msgs(queue')
    BY ZenonT(60), <2>1, MovedMsgs
  <2>4. fsm'[f].alloc = "live" /\ ~fsm'[f].isDead
    BY ZenonT(60), <2>1, Listed DEF SameFsm
  <2>5. Answers(f, fsm'[f], queue')
    BY ZenonT(60), <2>3, <2>4 DEF Answers
  <2> QED
    BY ZenonT(60), <2>2, <2>5 DEF Answering
<1>7. CASE JoinRefused
  <2>1. Moves(Rest, <<>>) /\ Head(queue).h = NB /\ fsm' = fsm
    BY ZenonT(60), <1>7, JoinMoves DEF JoinRefused, Dispatch
  <2> QED
    BY ZenonT(60), <1>4, <2>1
<1>8. CASE PostedByOthers
  <2>1. PICK m \in Message : Moves(queue, <<m>>) /\ fsm' = fsm
    BY ZenonT(60), <1>8, PostFacts
  <2> QED
    BY ZenonT(60), <1>4, <2>1
<1>9. CASE Created
  <2>1. PICK f, s, a, id, flags, w : NewFsm(f, s, a, id, flags, w)
    BY <1>9, CreateFacts
  <2>2. /\ Moves(Rest, s) /\ Head(queue).h = NB /\ f \in FsmId
        /\ fsm'[f].alloc = "live" /\ ~fsm'[f].isDead /\ fsm'[f].curState = "NULL"
        /\ \A g \in FsmId : g # f => fsm'[g] = fsm[g]
    BY ZenonT(60), <2>1 DEF NewFsm, Starts
  <2>3. \A g \in FsmId : g # f => Answers(g, fsm'[g], queue')
    BY ZenonT(60), <1>3, <2>2 DEF SameFsm
  <2>4. "NULL" \notin Joined
    BY DEF Joined
  <2>5. Answers(f, fsm'[f], queue')
    BY ZenonT(60), <2>2, <2>4 DEF Answers
  <2> QED
    BY ZenonT(60), <2>3, <2>5 DEF Answering
<1>10. CASE Cleaned
  <2>1. PICK s : Moves(Rest, s) /\ Head(queue).h = NB /\ fsm' = fsm
    BY ZenonT(60), <1>10, CleanFacts DEF Dispatch
  <2> QED
    BY ZenonT(60), <1>4, <2>1
<1>11. CASE UNCHANGED <<queue, timers, fsm, listVars, joinWait>>
  BY ZenonT(60), <1>11 DEF Answering, Answers, Msgs
<1> QED
  BY ZenonT(60), <1>0, <1>1, <1>2, <1>5, <1>6, <1>7, <1>8, <1>9, <1>10, <1>11 DEF AnyStep

-----------------------------------------------------------------------------
(* A JoinLNN request is held once: queued or by a connection fsm. *)

IsRequest(m) == m.what = "JOIN_LNN_REQUEST"

Requests(q) == {m \in Msgs(q) : IsRequest(m)}

\* The requests R and the fsms fs hold one request for each address in wait.
Holding(R, fs, wait) ==
  /\ \A f, g \in FsmId : JoinAsked(fs[f]) /\ JoinAsked(fs[g]) /\ fs[f].addr = fs[g].addr => f = g
  /\ \A m \in R : m.addr \in wait
  /\ \A f \in FsmId : JoinAsked(fs[f]) => fs[f].addr \in wait
  /\ \A m \in R, f \in FsmId : JoinAsked(fs[f]) => m.addr # fs[f].addr
  /\ \A a \in wait : \/ \E m \in R : m.addr = a
                     \/ \E f \in FsmId : JoinAsked(fs[f]) /\ fs[f].addr = a

\* Nothing happens to the requests.
LEMMA HoldingKept ==
  ASSUME NEW R, NEW fs, NEW fs2, NEW wait, Holding(R, fs, wait),
         \A f \in FsmId : /\ JoinAsked(fs2[f]) <=> JoinAsked(fs[f])
                          /\ JoinAsked(fs2[f]) => fs2[f].addr = fs[f].addr
  PROVE  Holding(R, fs2, wait)
BY SMTT(60) DEF Holding

\* The connection fsm f answers.
LEMMA HoldingAnswered ==
  ASSUME NEW R, NEW fs, NEW fs2, NEW wait, Holding(R, fs, wait), NEW f \in FsmId,
         JoinAsked(fs[f]), ~JoinAsked(fs2[f]), \A g \in FsmId : g # f => fs2[g] = fs[g]
  PROVE  Holding(R, fs2, wait \ {fs[f].addr})
<1>1. \A g \in FsmId : JoinAsked(fs2[g]) => g # f /\ fs2[g] = fs[g] /\ JoinAsked(fs[g])
  BY ZenonT(60)
<1>2. \A g \in FsmId : JoinAsked(fs[g]) /\ g # f =>
         JoinAsked(fs2[g]) /\ fs2[g].addr = fs[g].addr /\ fs[g].addr # fs[f].addr
  BY ZenonT(60) DEF Holding
<1> QED
  BY SMTT(60), <1>1, <1>2 DEF Holding

\* The request m, the only one for its address, is taken by the connection fsm f.
Takes(f, m, R, R2, fs, fs2) ==
  /\ R = R2 \cup {m} /\ \A n \in R2 : n.addr # m.addr
  /\ f \in FsmId /\ JoinAsked(fs2[f]) /\ fs2[f].addr = m.addr /\ ~JoinAsked(fs[f])
  /\ \A g \in FsmId : g # f => /\ JoinAsked(fs2[g]) <=> JoinAsked(fs[g])
                               /\ JoinAsked(fs2[g]) => fs2[g].addr = fs[g].addr

\* A request that changes hands is still held once.
LEMMA HoldingTaken ==
  ASSUME NEW f, NEW m, NEW R, NEW R2, NEW fs, NEW fs2, NEW wait,
         Takes(f, m, R, R2, fs, fs2), Holding(R, fs, wait)
  PROVE  Holding(R2, fs2, wait)
<1> USE DEF Takes
<1>1. \A g \in FsmId : JoinAsked(fs2[g]) => g = f \/ (JoinAsked(fs[g]) /\ fs2[g].addr = fs[g].addr)
  BY ZenonT(60)
<1>2. \A g \in FsmId : JoinAsked(fs[g]) => /\ JoinAsked(fs2[g]) /\ fs2[g].addr = fs[g].addr
                                           /\ fs[g].addr # m.addr
  BY ZenonT(60) DEF Holding
<1>3. m.addr \in wait /\ \A n \in R2 : n.addr \in wait
  BY ZenonT(60) DEF Holding
<1>4. ASSUME NEW g \in FsmId, NEW h \in FsmId, JoinAsked(fs2[g]), JoinAsked(fs2[h]),
             fs2[g].addr = fs2[h].addr
      PROVE  g = h
  BY SMTT(60), <1>1, <1>2, <1>4 DEF Holding
<1>5. ASSUME NEW n \in R2, NEW g \in FsmId, JoinAsked(fs2[g]) PROVE n.addr # fs2[g].addr
  BY SMTT(60), <1>1, <1>5 DEF Holding
<1>6. ASSUME NEW g \in FsmId, JoinAsked(fs2[g]) PROVE fs2[g].addr \in wait
  BY ZenonT(60), <1>1, <1>3, <1>6 DEF Holding
<1>7. ASSUME NEW a \in wait
      PROVE  \/ \E n \in R2 : n.addr = a
             \/ \E g \in FsmId : JoinAsked(fs2[g]) /\ fs2[g].addr = a
  BY SMTT(60), <1>2, <1>7 DEF Holding
<1> QED
  BY ZenonT(60), <1>3, <1>4, <1>5, <1>6, <1>7 DEF Holding

\* The request m, the only one for its address, is refused.
LEMMA HoldingRefused ==
  ASSUME NEW R, NEW R2, NEW m, R = R2 \cup {m}, \A n \in R2 : n.addr # m.addr,
         NEW fs, NEW wait, Holding(R, fs, wait)
  PROVE  Holding(R2, fs, wait \ {m.addr})
<1>1. \A g \in FsmId : JoinAsked(fs[g]) => fs[g].addr # m.addr
  BY ZenonT(60) DEF Holding
<1> QED
  BY ZenonT(60), <1>1 DEF Holding

\* The request m is posted for an address that has none.
LEMMA HoldingPosted ==
  ASSUME NEW R, NEW m, NEW fs, NEW wait, Holding(R, fs, wait), m.addr \notin wait
  PROVE  Holding(R \cup {m}, fs, wait \cup {m.addr})
BY ZenonT(60) DEF Holding

\* No two queued requests are for one address.
OneRequest ==
  {p \in Message \X Message :
     ~(IsRequest(p[1]) /\ IsRequest(p[2]) /\ p[1].addr = p[2].addr)}

Held == Ordered(queue, OneRequest) /\ Holding(Requests(queue), fsm, joinWait)

\* What it means for two messages to be in OneRequest.
LEMMA OneRequestPairs ==
  ASSUME NEW m \in Message, NEW n \in Message
  PROVE  <<m, n>> \in OneRequest <=> ~(IsRequest(m) /\ IsRequest(n) /\ m.addr = n.addr)
<1>1. <<m, n>> \in Message \X Message /\ <<m, n>>[1] = m /\ <<m, n>>[2] = n
  BY ZenonT(60)
<1> QED
  BY ZenonT(60), <1>1 DEF OneRequest

\* What a sequence of messages holds are messages.
LEMMA MsgsType ==
  ASSUME NEW q \in Seq(Message)
  PROVE  /\ Msgs(q) \subseteq Message
         /\ \A i \in 1 .. Len(q) : q[i] \in Message /\ q[i] \in Msgs(q)
<1>1. ASSUME NEW i \in 1 .. Len(q) PROVE q[i] \in Message
  BY SMTT(60)
<1> QED
  BY ZenonT(60), <1>1 DEF Msgs

\* Only the net builder is sent JoinLNN requests.
LEMMA FsmNoRequest ==
  ASSUME NEW m \in Message, m.h # NB
  PROVE  ~IsRequest(m)
BY SMTT(60) DEF Message, FsmCtrl, FsmData, FsmId, NB, IsRequest

\* Messages without a request behind any others.
LEMMA NoRequests ==
  ASSUME NEW q \in Seq(Message), NEW s \in Seq(Message), \A m \in Msgs(s) : ~IsRequest(m)
  PROVE  /\ Ordered(s, OneRequest)
         /\ \A m \in Msgs(q), n \in Msgs(s) : <<m, n>> \in OneRequest
<1>1. \A m \in Message, n \in Msgs(s) : <<m, n>> \in OneRequest
  BY ZenonT(60), MsgsType, OneRequestPairs
<1>2. ASSUME NEW i \in 1 .. Len(s), NEW j \in 1 .. Len(s) PROVE <<s[i], s[j]>> \in OneRequest
  BY ZenonT(60), <1>1, MsgsType
<1> QED
  BY ZenonT(60), <1>1, <1>2, MsgsType DEF Ordered

\* Messages without a request are posted: the queue stays in order.
LEMMA RequestsOrdered ==
  ASSUME IInv, Ordered(queue, OneRequest), NEW b, NEW s, Moves(b, s),
         \A m \in Msgs(s) : ~IsRequest(m)
  PROVE  Ordered(queue', OneRequest) /\ Requests(queue') = Requests(b)
<1>1. /\ queue \in Seq(Message) /\ b \in Seq(Message) /\ s \in Seq(Message)
      /\ Msgs(queue') = Msgs(b) \cup Msgs(s) /\ queue' = b \o s
  BY ZenonT(60), MovedMsgs DEF IInv, TypeOK, Moves
<1>2. Ordered(b, OneRequest)
  BY ZenonT(60), <1>1, TailOrdered DEF Moves, Rest
<1>3. /\ Ordered(s, OneRequest)
      /\ \A m \in Msgs(b), n \in Msgs(s) : <<m, n>> \in OneRequest
  BY ZenonT(60), <1>1, NoRequests
<1>4. Ordered(b \o s, OneRequest)
  BY ZenonT(60), <1>1, <1>2, <1>3, ConcatOrdered
<1>5. Requests(queue') = Requests(b)
  BY ZenonT(60), <1>1 DEF Requests
<1> QED
  BY ZenonT(60), <1>1, <1>4, <1>5

\* A step that moves no request and answers none.
LEMMA HeldKept ==
  ASSUME IInv, Held, NEW b, NEW s, Moves(b, s), \A m \in Msgs(s) : ~IsRequest(m),
         b # queue => ~IsRequest(Head(queue))
  PROVE  Ordered(queue', OneRequest) /\ Requests(queue') = Requests(queue)
<1>1. Ordered(queue', OneRequest) /\ Requests(queue') = Requests(b)
  BY ZenonT(60), RequestsOrdered DEF Held
<1>2. \A m : IsRequest(m) => (m \in Msgs(b) <=> m \in Msgs(queue))
  <2>1. queue \in Seq(Message)
    BY ZenonT(60) DEF IInv, TypeOK
  <2> QED
    BY ZenonT(60), <2>1, TailMsgs DEF Moves, Rest
<1>3. Requests(b) = Requests(queue)
  BY ZenonT(60), <1>2 DEF Requests
<1> QED
  BY <1>1, <1>3

\* The oldest message is a request: it is the only one for its address.
LEMMA HeldTaken ==
  ASSUME IInv, Held, Dispatch(NB, "JOIN_LNN_REQUEST"), NEW s, Moves(Rest, s),
         \A m \in Msgs(s) : ~IsRequest(m)
  PROVE  /\ Ordered(queue', OneRequest)
         /\ Requests(queue) = Requests(queue') \cup {Head(queue)}
         /\ \A n \in Requests(queue') : n.addr # Head(queue).addr
<1>1. Ordered(queue', OneRequest) /\ Requests(queue') = Requests(Rest)
  BY ZenonT(60), RequestsOrdered DEF Held
<1>2. /\ queue # <<>> /\ queue \in Seq(Message) /\ Head(queue) \in Msgs(queue)
      /\ Head(queue).what = "JOIN_LNN_REQUEST"
  BY ZenonT(60), TakenMsg
<1>3. Msgs(queue) = Msgs(Rest) \cup {Head(queue)}
  BY ZenonT(60), <1>2, TailMsgs DEF Rest
<1>4. Requests(queue) = Requests(Rest) \cup {Head(queue)}
  BY ZenonT(60), <1>2, <1>3 DEF Requests, IsRequest
<1>5. ASSUME NEW n \in Requests(Rest) PROVE n.addr # Head(queue).addr
  <2>1. n \in Msgs(Rest) /\ IsRequest(n) /\ IsRequest(Head(queue))
    BY ZenonT(60), <1>2 DEF Requests, IsRequest
  <2>2. <<Head(queue), n>> \in OneRequest
    BY ZenonT(60), <1>2, <2>1, TailOrdered DEF Held, Rest
  <2>3. n \in Message /\ Head(queue) \in Message
    BY ZenonT(60), <1>2, <1>3, <2>1, MsgsType
  <2> QED
    BY ZenonT(60), <2>1, <2>2, <2>3, OneRequestPairs
<1> QED
  BY ZenonT(60), <1>1, <1>4, <1>5

\* The handlers of a connection fsm answer the request they hold, or keep it.
LEMMA FsmHeld ==
  ASSUME IInv, Held, NEW f \in FsmId, NEW b, NEW w, FsmEffect(f, b, w),
         b = queue \/ (queue # <<>> /\ b = Rest /\ Head(queue).h = f)
  PROVE  Held'
<1>1. PICK s : Moves(b, s) /\ \A m \in Msgs(s) : FromFsm(f, m)
  BY ZenonT(60), ActsPosts
<1>2. \A m \in Msgs(s) : ~IsRequest(m)
  BY ZenonT(60), <1>1, FsmHarmless DEF IsRequest
<1>3. b # queue => ~IsRequest(Head(queue))
  <2>1. queue \in Seq(Message) /\ f # NB
    BY ZenonT(60), CleaningMsgs DEF IInv, TypeOK
  <2>2. queue # <<>> => Head(queue) \in Message
    BY ZenonT(60), <2>1, TailMsgs, MsgsType
  <2> QED
    BY ZenonT(60), <2>1, <2>2, FsmNoRequest
<1>4. Ordered(queue', OneRequest) /\ Requests(queue') = Requests(queue)
  BY ZenonT(60), <1>1, <1>2, <1>3, HeldKept
<1>5. /\ \A g \in FsmId : g # f => fsm'[g] = fsm[g]
      /\ fsm'[f].addr = fsm[f].addr
      /\ \/ (JoinAsked(fsm'[f]) <=> JoinAsked(fsm[f])) /\ joinWait' = joinWait
         \/ /\ JoinAsked(fsm[f]) /\ ~JoinAsked(fsm'[f])
            /\ joinWait' = joinWait \ {fsm[f].addr}
  BY ZenonT(60) DEF FsmEffect, Others, JoinEffect
<1>6. CASE (JoinAsked(fsm'[f]) <=> JoinAsked(fsm[f])) /\ joinWait' = joinWait
  <2>1. \A g \in FsmId : /\ JoinAsked(fsm'[g]) <=> JoinAsked(fsm[g])
                         /\ JoinAsked(fsm'[g]) => fsm'[g].addr = fsm[g].addr
    BY ZenonT(60), <1>5, <1>6
  <2>2. Holding(Requests(queue), fsm', joinWait)
    BY ZenonT(60), <2>1, HoldingKept DEF Held
  <2> QED
    BY ZenonT(60), <1>4, <1>6, <2>2 DEF Held
<1>7. CASE /\ JoinAsked(fsm[f]) /\ ~JoinAsked(fsm'[f])
           /\ joinWait' = joinWait \ {fsm[f].addr}
  <2>1. Holding(Requests(queue), fsm', joinWait \ {fsm[f].addr})
    BY ZenonT(60), <1>5, <1>7, HoldingAnswered DEF Held
  <2> QED
    BY ZenonT(60), <1>4, <1>7, <2>1 DEF Held
<1> QED
  BY ZenonT(60), <1>5, <1>6, <1>7

\* The handler of a JoinLNN request gives it to the connection fsm f.
LEMMA TakenHeld ==
  ASSUME IInv, Held, Dispatch(NB, "JOIN_LNN_REQUEST"), NEW s, Moves(Rest, s),
         \A m \in Msgs(s) : ~IsRequest(m), NEW f \in FsmId,
         JoinAsked(fsm'[f]), fsm'[f].addr = Head(queue).addr,
         JoinAsked(fsm[f]) => fsm[f].addr = Head(queue).addr,
         \A g \in FsmId : g # f => /\ JoinAsked(fsm'[g]) <=> JoinAsked(fsm[g])
                                   /\ JoinAsked(fsm'[g]) => fsm'[g].addr = fsm[g].addr,
         joinWait' = joinWait
  PROVE  Held'
<1>1. /\ Ordered(queue', OneRequest)
      /\ Requests(queue) = Requests(queue') \cup {Head(queue)}
      /\ \A n \in Requests(queue') : n.addr # Head(queue).addr
  BY ZenonT(60), HeldTaken
<1>2. Head(queue) \in Requests(queue)
  BY ZenonT(60), <1>1
<1>3. ~JoinAsked(fsm[f])
  BY ZenonT(60), <1>2 DEF Held, Holding
<1>4. Holding(Requests(queue'), fsm', joinWait)
  <2>1. Takes(f, Head(queue), Requests(queue), Requests(queue'), fsm, fsm')
    BY ZenonT(60), <1>1, <1>3 DEF Takes
  <2> QED
    BY ZenonT(60), <2>1, HoldingTaken DEF Held
<1> QED
  BY ZenonT(60), <1>1, <1>4 DEF Held

\* Every step keeps one holder for each request whose result is awaited.
LEMMA HeldStep ==
  ASSUME IInv, Counted, StopOrder, Answering, Held, AnyStep
  PROVE  Held'
<1>0. AnyStep
  OBVIOUS
<1>1. ASSUME NEW f \in FsmId, FsmReacts(f) \/ FsmEffect(f, queue, "") PROVE Held'
  <2>1. PICK b, w : /\ FsmEffect(f, b, w)
                    /\ b = queue \/ (queue # <<>> /\ b = Rest /\ Head(queue).h = f)
    BY ZenonT(60), <1>1 DEF FsmReacts, Dispatch
  <2> QED
    BY ZenonT(60), <2>1, FsmHeld
<1>2. ASSUME NEW b, NEW s, Moves(b, s), \A m \in Msgs(s) : ~IsRequest(m),
             b # queue => ~IsRequest(Head(queue)), joinWait' = joinWait,
             \A g \in FsmId : /\ JoinAsked(fsm'[g]) <=> JoinAsked(fsm[g])
                              /\ JoinAsked(fsm'[g]) => fsm'[g].addr = fsm[g].addr
      PROVE  Held'
  <2>1. Ordered(queue', OneRequest) /\ Requests(queue') = Requests(queue)
    BY ZenonT(60), <1>2, HeldKept
  <2>2. Holding(Requests(queue), fsm', joinWait)
    BY ZenonT(60), <1>2, HoldingKept DEF Held
  <2> QED
    BY ZenonT(60), <1>2, <2>1, <2>2 DEF Held
<1>3. \A m \in Msgs(<<>>) : ~IsRequest(m)
  BY FewMsgs
<1>4. ASSUME NEW f \in FsmId, ProcessStopMessage(f) \/ ProcessDeinitMessage(f)
      PROVE  Held'
  <2>1. ~JoinAsked(fsm[f]) /\ ~JoinAsked(fsm'[f])
    BY ZenonT(60), <1>4, StoppedAnswered
  <2>2. /\ Moves(Rest, <<>>) /\ Head(queue).what \in {"STOP", "DEINIT"} /\ joinWait' = joinWait
        /\ \A g \in FsmId : g # f => fsm'[g] = fsm[g]
    BY ZenonT(60), <1>4, StopFacts
  <2>3. ~IsRequest(Head(queue))
    BY ZenonT(60), <2>2 DEF IsRequest
  <2>4. \A g \in FsmId : /\ JoinAsked(fsm'[g]) <=> JoinAsked(fsm[g])
                         /\ JoinAsked(fsm'[g]) => fsm'[g].addr = fsm[g].addr
    BY ZenonT(60), <2>1, <2>2
  <2> QED
    BY ZenonT(60), <1>2, <1>3, <2>2, <2>3, <2>4
<1>5. CASE PassedOn
  <2>1. PICK s, w : /\ Moves(Rest, s) /\ Dispatch(NB, w) /\ w # "JOIN_LNN_REQUEST"
                    /\ \A m \in Msgs(s) : m.h \in fsmList
    BY ZenonT(60), <1>5, PassFacts
  <2>2. ASSUME NEW m \in Msgs(s) PROVE ~IsRequest(m)
    <3>1. m \in Message /\ m.h # NB
      BY ZenonT(60), <2>1, Listed, MsgsType DEF Moves
    <3> QED
      BY <3>1, FsmNoRequest
  <2>3. ~IsRequest(Head(queue))
    BY ZenonT(60), <2>1 DEF Dispatch, IsRequest
  <2>4. /\ joinWait' = joinWait
        /\ \A g \in FsmId : /\ JoinAsked(fsm'[g]) <=> JoinAsked(fsm[g])
                            /\ JoinAsked(fsm'[g]) => fsm'[g].addr = fsm[g].addr
    BY ZenonT(60), <1>5 DEF PassedOn, SameFsm
  <2> QED
    BY ZenonT(60), <1>2, <2>1, <2>2, <2>3, <2>4
<1>6. ASSUME NEW f \in FsmId, JoinPassedTo(f) PROVE Held'
  <2>1. /\ Moves(Rest, <<FsmMsg(f, "JOIN_LNN")>>) /\ Dispatch(NB, "JOIN_LNN_REQUEST")
        /\ Msgs(<<FsmMsg(f, "JOIN_LNN")>>) = {FsmMsg(f, "JOIN_LNN")}
        /\ FsmMsg(f, "JOIN_LNN").what = "JOIN_LNN" /\ fsm[f].addr = Head(queue).addr
        /\ joinWait' = joinWait
        /\ \A g \in FsmId : /\ SameFsm(fsm[g], fsm'[g])
                            /\ JoinAsked(fsm'[g]) <=> JoinAsked(fsm[g]) \/ g = f
    BY ZenonT(60), <1>6, JoinMoves DEF JoinPassedTo
  <2>2. \A m \in Msgs(<<FsmMsg(f, "JOIN_LNN")>>) : ~IsRequest(m)
    BY ZenonT(60), <2>1 DEF IsRequest
  <2>3. /\ JoinAsked(fsm'[f]) /\ fsm'[f].addr = Head(queue).addr
        /\ \A g \in FsmId : g # f => /\ JoinAsked(fsm'[g]) <=> JoinAsked(fsm[g])
                                     /\ JoinAsked(fsm'[g]) => fsm'[g].addr = fsm[g].addr
    BY ZenonT(60), <2>1 DEF SameFsm
  <2> QED
    BY ZenonT(60), <2>1, <2>2, <2>3, TakenHeld
<1>7. CASE JoinRefused
  <2>1. /\ Moves(Rest, <<>>) /\ Dispatch(NB, "JOIN_LNN_REQUEST") /\ fsm' = fsm
        /\ joinWait' = joinWait \ {Head(queue).addr}
    BY ZenonT(60), <1>7, JoinMoves DEF JoinRefused
  <2>2. /\ Ordered(queue', OneRequest)
        /\ Requests(queue) = Requests(queue') \cup {Head(queue)}
        /\ \A n \in Requests(queue') : n.addr # Head(queue).addr
    BY ZenonT(60), <1>3, <2>1, HeldTaken
  <2>3. Holding(Requests(queue'), fsm, joinWait \ {Head(queue).addr})
    BY ZenonT(60), <2>2, HoldingRefused DEF Held
  <2> QED
    BY ZenonT(60), <2>1, <2>2, <2>3 DEF Held
<1>8. CASE PostedByOthers
  <2>1. PICK m \in Message :
          /\ Moves(queue, <<m>>) /\ Msgs(<<m>>) = {m} /\ fsm' = fsm
          /\ \/ IsRequest(m) /\ m.addr \notin joinWait /\ joinWait' = joinWait \cup {m.addr}
             \/ ~IsRequest(m) /\ joinWait' = joinWait
    BY ZenonT(60), <1>8, PostFacts DEF IsRequest
  <2>2. CASE ~IsRequest(m) /\ joinWait' = joinWait
    BY ZenonT(60), <1>2, <2>1, <2>2
  <2>3. CASE IsRequest(m) /\ m.addr \notin joinWait /\ joinWait' = joinWait \cup {m.addr}
    <3>1. /\ queue \in Seq(Message) /\ <<m>> \in Seq(Message) /\ queue' = queue \o <<m>>
          /\ Msgs(queue') = Msgs(queue) \cup {m}
      BY ZenonT(60), <2>1, MovedMsgs DEF Moves
    <3>2. ASSUME NEW n \in Msgs(queue) PROVE <<n, m>> \in OneRequest
      <4>1. IsRequest(n) => n.addr # m.addr
        BY ZenonT(60), <2>3 DEF Held, Holding, Requests
      <4> QED
        BY ZenonT(60), <3>1, <4>1, MsgsType, OneRequestPairs
    <3>3. \A n \in Msgs(queue), o \in Msgs(<<m>>) : <<n, o>> \in OneRequest
      BY ZenonT(60), <2>1, <3>2
    <3>4. Ordered(queue', OneRequest)
      <4>1. Ordered(queue, OneRequest) /\ Ordered(<<m>>, OneRequest)
        BY ZenonT(60), FewOrdered DEF Held
      <4>2. Ordered(queue \o <<m>>, OneRequest)
        BY ZenonT(60), <3>1, <3>3, <4>1, ConcatOrdered
      <4> QED
        BY <3>1, <4>2
    <3>5. Requests(queue') = Requests(queue) \cup {m}
      BY ZenonT(60), <2>3, <3>1 DEF Requests
    <3>6. Holding(Requests(queue) \cup {m}, fsm, joinWait \cup {m.addr})
      BY ZenonT(60), <2>3, HoldingPosted DEF Held
    <3> QED
      BY ZenonT(60), <2>1, <2>3, <3>4, <3>5, <3>6 DEF Held
  <2> QED
    BY <2>1, <2>2, <2>3
<1>9. CASE Created
  <2>1. PICK f, s, a, id, flags, w : NewFsm(f, s, a, id, flags, w)
    BY <1>9, CreateFacts
  <2>2. /\ Moves(Rest, s) /\ f \in FsmId /\ joinWait' = joinWait
        /\ fsm[f].alloc = "none" /\ fsm'[f].addr = a /\ fsm'[f].flag = flags
        /\ \A g \in FsmId : g # f => fsm'[g] = fsm[g]
        /\ \A m \in Msgs(s) : m.h = f
        /\ \/ /\ queue # <<>> /\ Head(queue).h = NB
              /\ Head(queue).what = "JOIN_LNN_REQUEST" /\ a = Head(queue).addr
              /\ flags = {"JOIN_REQUEST"}
           \/ Head(queue).what # "JOIN_LNN_REQUEST" /\ "JOIN_REQUEST" \notin flags
    BY ZenonT(60), <2>1 DEF NewFsm, Starts
  <2>3. ~JoinAsked(fsm[f])
    BY ZenonT(60), <2>2 DEF Answering, Answers
  <2>4. ASSUME NEW m \in Msgs(s) PROVE ~IsRequest(m)
    <3>1. m \in Message /\ m.h # NB
      BY ZenonT(60), <2>2, CleaningMsgs, MsgsType DEF Moves
    <3> QED
      BY <3>1, FsmNoRequest
  <2>5. CASE /\ queue # <<>> /\ Head(queue).h = NB
             /\ Head(queue).what = "JOIN_LNN_REQUEST" /\ a = Head(queue).addr
             /\ flags = {"JOIN_REQUEST"}
    <3>1. Dispatch(NB, "JOIN_LNN_REQUEST")
      BY ZenonT(60), <1>9, <2>5 DEF Created, Dispatch
    <3>2. JoinAsked(fsm'[f]) /\ fsm'[f].addr = Head(queue).addr
      BY ZenonT(60), <2>2, <2>5 DEF JoinAsked
    <3>3. \A g \in FsmId : g # f => /\ JoinAsked(fsm'[g]) <=> JoinAsked(fsm[g])
                                    /\ JoinAsked(fsm'[g]) => fsm'[g].addr = fsm[g].addr
      BY ZenonT(60), <2>2
    <3> QED
      BY ZenonT(60), <2>2, <2>3, <2>4, <3>1, <3>2, <3>3, TakenHeld
  <2>6. CASE Head(queue).what # "JOIN_LNN_REQUEST" /\ "JOIN_REQUEST" \notin flags
    <3>1. \A g \in FsmId : /\ JoinAsked(fsm'[g]) <=> JoinAsked(fsm[g])
                           /\ JoinAsked(fsm'[g]) => fsm'[g].addr = fsm[g].addr
      BY ZenonT(60), <2>2, <2>3, <2>6 DEF JoinAsked
    <3>2. ~IsRequest(Head(queue))
      BY <2>6 DEF IsRequest
    <3> QED
      BY ZenonT(60), <1>2, <2>2, <2>4, <3>1, <3>2
  <2> QED
    BY <2>2, <2>5, <2>6
<1>10. CASE Cleaned
  <2>1. PICK f \in fsmList : \E s :
          /\ Dispatch(NB, "CLEAN_CONN_FSM") /\ UNCHANGED <<fsm, joinWait>>
          /\ f \in FsmId /\ Moves(Rest, s) /\ Stops(f, s)
    BY ZenonT(60), <1>10, CleanFacts
  <2>2. PICK s : Moves(Rest, s) /\ Stops(f, s)
    BY <2>1
  <2>3. \A m \in Msgs(s) : ~IsRequest(m)
    <3>1. \A m \in Msgs(s) : m.what \in {"STOP", "DEINIT", "INITIATE_ONLINE"}
      BY ZenonT(60), <2>1, <2>2, StopsMsgs
    <3> QED
      BY ZenonT(60), <3>1 DEF IsRequest
  <2>4. ~IsRequest(Head(queue))
    BY ZenonT(60), <2>1 DEF Dispatch, IsRequest
  <2> QED
    BY ZenonT(60), <1>2, <2>1, <2>2, <2>3, <2>4
<1>11. CASE UNCHANGED <<queue, timers, fsm, listVars, joinWait>>
  BY ZenonT(60), <1>11 DEF Held, Ordered, Requests, Msgs
<1> QED
  BY ZenonT(60), <1>0, <1>1, <1>4, <1>5, <1>6, <1>7, <1>8, <1>9, <1>10, <1>11 DEF AnyStep

-----------------------------------------------------------------------------
(* The theorem. *)

RequestInv == StopOrder /\ Answering /\ Held

\* The bookkeeping of requests holds before the first one.
LEMMA RequestInit ==
  ASSUME Init
  PROVE  RequestInv
<1>1. /\ queue = <<>> /\ joinWait = {}
      /\ \A f \in FsmId : fsm[f] = NoFsm
  BY ZenonT(60) DEF Init
<1>2. Msgs(queue) = {} /\ \A R : Ordered(queue, R)
  BY ZenonT(60), <1>1, FewMsgs, FewOrdered
<1>3. ~JoinAsked(NoFsm)
  BY SMTT(60) DEF NoFsm, JoinAsked
<1>4. StopOrder
  BY ZenonT(60), <1>2 DEF StopOrder
<1>5. \A f \in FsmId : ~JoinAsked(fsm[f])
  BY ZenonT(60), <1>1, <1>3
<1>6. Answering
  BY ZenonT(60), <1>5 DEF Answering, Answers
<1>7. Held
  BY ZenonT(60), <1>1, <1>2, <1>5 DEF Held, Holding, Requests
<1> QED
  BY <1>4, <1>6, <1>7 DEF RequestInv

\* It is kept by every step of the net builder and its environment.
LEMMA RequestStep ==
  ASSUME IInv, Counted, RequestInv, AnyStep
  PROVE  RequestInv'
<1>1. StopOrder /\ Answering /\ Held
  BY DEF RequestInv
<1>2. StopOrder' /\ Answering' /\ Held'
  BY ZenonT(60), <1>1, StopOrderStep, AnsweringStep, HeldStep
<1> QED
  BY <1>2 DEF RequestInv

\* What Holding, StopOrder and Answering say of a request is what JoinRequestHeldOnce
\* does, the empty set and the sets of one element being counted.
LEMMA HeldMeans ==
  ASSUME IInv, RequestInv, Cardinality({}) = 0, \A x : Cardinality({x}) = 1
  PROVE  JoinRequestHeldOnce
<1>1. ASSUME NEW a \in Addr
      PROVE  LET queued == {i \in DOMAIN queue :
                              queue[i].what = "JOIN_LNN_REQUEST" /\ queue[i].addr = a}
                 flagged == {f \in FsmId : /\ "JOIN_REQUEST" \in fsm[f].flag
                                           /\ fsm[f].addr = a}
             IN /\ Cardinality(queued) + Cardinality(flagged)
                     = IF a \in joinWait THEN 1 ELSE 0
                /\ \A f \in flagged : ~fsm[f].isDead \/ Queued(f, "JOIN_LNN")
  <2> DEFINE queued == {i \in DOMAIN queue :
                          queue[i].what = "JOIN_LNN_REQUEST" /\ queue[i].addr = a}
             flagged == {f \in FsmId : "JOIN_REQUEST" \in fsm[f].flag /\ fsm[f].addr = a}
  <2>1. /\ queue \in Seq(Message) /\ Len(queue) \in Nat /\ DOMAIN queue = 1 .. Len(queue)
        /\ \A m : m \in Msgs(queue) <=> \E i \in DOMAIN queue : queue[i] = m
    BY ZenonT(60), <1>1, QueuedPlace
  <2>2. \A i : i \in queued <=> i \in 1 .. Len(queue) /\ queue[i] \in Requests(queue) /\ queue[i].addr = a
    BY ZenonT(60), <2>1 DEF Requests, IsRequest
  <2>3. \A f : f \in flagged <=> f \in FsmId /\ JoinAsked(fsm[f]) /\ fsm[f].addr = a
    BY ZenonT(60) DEF JoinAsked
  <2>4. Ordered(queue, OneRequest) /\ Holding(Requests(queue), fsm, joinWait) /\ Answering
    BY <1>1 DEF RequestInv, Held
  <2>5. ASSUME NEW i \in queued, NEW j \in queued PROVE i = j
    <3>1. /\ i \in 1 .. Len(queue) /\ j \in 1 .. Len(queue)
          /\ queue[i] \in Message /\ queue[j] \in Message
          /\ IsRequest(queue[i]) /\ IsRequest(queue[j]) /\ queue[i].addr = queue[j].addr
      BY ZenonT(60), <2>1, <2>2, <2>5, MsgsType DEF Requests
    <3>2. <<queue[i], queue[j]>> \notin OneRequest /\ <<queue[j], queue[i]>> \notin OneRequest
      BY ZenonT(60), <3>1, OneRequestPairs
    <3>3. ~(i < j) /\ ~(j < i)
      BY ZenonT(60), <2>4, <3>1, <3>2 DEF Ordered
    <3> QED
      BY SMTT(60), <2>1, <3>1, <3>3
  <2>6. Cardinality({}) = 0 /\ \A x : Cardinality({x}) = 1
    BY ZenonT(60)
  <2>7. \A f \in flagged : ~fsm[f].isDead \/ Queued(f, "JOIN_LNN")
    BY ZenonT(60), <2>1, <2>3, <2>4 DEF Answering, Answers, Queued
  <2> HIDE DEF queued, flagged
  <2>8. ASSUME NEW i \in queued PROVE a \in joinWait /\ flagged = {}
    <3>1. queue[i] \in Requests(queue) /\ queue[i].addr = a
      BY ZenonT(60), <2>2, <2>8
    <3>2. a \in joinWait
      BY ZenonT(60), <2>4, <3>1 DEF Holding
    <3>3. \A f \in FsmId : JoinAsked(fsm[f]) => fsm[f].addr # a
      BY ZenonT(60), <2>4, <3>1 DEF Holding
    <3> QED
      BY ZenonT(60), <2>3, <3>2, <3>3
  <2>9. ASSUME NEW f \in flagged PROVE a \in joinWait /\ flagged = {f}
    <3>1. f \in FsmId /\ JoinAsked(fsm[f]) /\ fsm[f].addr = a
      BY ZenonT(60), <2>3, <2>9
    <3>2. a \in joinWait
      BY ZenonT(60), <2>4, <3>1 DEF Holding
    <3>3. ASSUME NEW g \in flagged PROVE g = f
      <4>1. g \in FsmId /\ JoinAsked(fsm[g]) /\ fsm[g].addr = fsm[f].addr
        BY ZenonT(60), <2>3, <3>1, <3>3
      <4> QED
        BY ZenonT(60), <2>4, <3>1, <4>1 DEF Holding
    <3> QED
      BY ZenonT(60), <2>9, <3>2, <3>3
  <2>10. ASSUME a \in joinWait PROVE (\E i : i \in queued) \/ (\E f : f \in flagged)
    <3>1. CASE \E m \in Requests(queue) : m.addr = a
      <4>1. PICK m \in Requests(queue) : m.addr = a
        BY <3>1
      <4>2. PICK i \in 1 .. Len(queue) : queue[i] = m
        BY ZenonT(60), <2>1, <4>1 DEF Requests
      <4> QED
        BY ZenonT(60), <2>2, <4>1, <4>2
    <3>2. CASE \E f \in FsmId : JoinAsked(fsm[f]) /\ fsm[f].addr = a
      BY ZenonT(60), <2>3, <3>2
    <3> QED
      BY ZenonT(60), <2>4, <2>10, <3>1, <3>2 DEF Holding
  <2>11. \/ a \notin joinWait /\ queued = {} /\ flagged = {}
         \/ a \in joinWait /\ flagged = {} /\ \E i : queued = {i}
         \/ a \in joinWait /\ queued = {} /\ \E f : flagged = {f}
    <3>1. CASE queued = {} /\ flagged = {}
      BY ZenonT(60), <2>10, <3>1
    <3>2. CASE queued # {}
      <4>1. PICK i : i \in queued
        BY <3>2
      <4>2. queued = {i}
        BY ZenonT(60), <2>5, <4>1
      <4> QED
        BY ZenonT(60), <2>8, <4>1, <4>2
    <3>3. CASE queued = {} /\ flagged # {}
      <4>1. PICK f : f \in flagged
        BY <3>3
      <4> QED
        BY ZenonT(60), <2>9, <3>3, <4>1
    <3> QED
      BY <3>1, <3>2, <3>3
  <2>12. Cardinality(queued) + Cardinality(flagged) = IF a \in joinWait THEN 1 ELSE 0
    <3>1. \/ a \notin joinWait /\ Cardinality(queued) = 0 /\ Cardinality(flagged) = 0
          \/ a \in joinWait /\ Cardinality(queued) = 1 /\ Cardinality(flagged) = 0
          \/ a \in joinWait /\ Cardinality(queued) = 0 /\ Cardinality(flagged) = 1
      BY ZenonT(60), <2>6, <2>11
    <3> QED
      BY SMTT(60), <3>1
  <2> USE DEF queued, flagged
  <2> QED
    BY ZenonT(60), <2>7, <2>12
<1> QED
  BY ZenonT(60), <1>1 DEF JoinRequestHeldOnce

=============================================================================
