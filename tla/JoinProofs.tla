----------------------------- MODULE JoinProofs -----------------------------
(***************************************************************************)
(* What becomes of a connection fsm: a dead one is always being cleaned    *)
(* up, and one that waits has its timeout. Every step that does what       *)
(* AnyStep allows keeps this.                                              *)
(***************************************************************************)
EXTENDS LnnProofs

-----------------------------------------------------------------------------
(* The messages of a queue. *)

Msgs(q) == {q[i] : i \in 1 .. Len(q)}

\* The oldest message and the others.
LEMMA TailMsgs ==
  ASSUME NEW q \in Seq(Message), q # <<>>
  PROVE  /\ Tail(q) \in Seq(Message) /\ Len(Tail(q)) = Len(q) - 1
         /\ Head(q) = q[1] /\ 1 \in 1 .. Len(q)
         /\ \A i \in 1 .. Len(Tail(q)) : Tail(q)[i] = q[i + 1] /\ i + 1 \in 1 .. Len(q)
         /\ \A i \in 1 .. Len(q) : i # 1 => i - 1 \in 1 .. Len(Tail(q))
         /\ Head(q) \in Message /\ Msgs(q) = {Head(q)} \cup Msgs(Tail(q))
<1>1. /\ Tail(q) \in Seq(Message) /\ Len(Tail(q)) = Len(q) - 1 /\ Len(q) \in Nat
      /\ Head(q) = q[1] /\ Len(q) > 0
      /\ \A i \in 1 .. Len(Tail(q)) : Tail(q)[i] = q[i + 1]
  BY SMTT(60)
<1>2. /\ 1 \in 1 .. Len(q) /\ \A i \in 1 .. Len(Tail(q)) : i + 1 \in 1 .. Len(q)
      /\ \A i \in 1 .. Len(q) : i # 1 => i - 1 \in 1 .. Len(Tail(q)) /\ (i - 1) + 1 = i
  BY SMTT(60), <1>1
<1>3. Head(q) \in Message
  BY SMTT(60), <1>1, <1>2
<1>4. \A i \in 1 .. Len(q) : i # 1 => q[i] = Tail(q)[i - 1]
  BY ZenonT(60), <1>1, <1>2
<1>5. Msgs(q) = {Head(q)} \cup Msgs(Tail(q))
  <2>1. ASSUME NEW m \in Msgs(q) PROVE m \in {Head(q)} \cup Msgs(Tail(q))
    <3>1. PICK i \in 1 .. Len(q) : m = q[i]
      BY ZenonT(60) DEF Msgs
    <3> QED
      BY ZenonT(60), <1>1, <1>2, <1>4, <3>1 DEF Msgs
  <2>2. ASSUME NEW m \in Msgs(Tail(q)) PROVE m \in Msgs(q)
    <3>1. PICK i \in 1 .. Len(Tail(q)) : m = Tail(q)[i]
      BY ZenonT(60) DEF Msgs
    <3> QED
      BY ZenonT(60), <1>1, <1>2, <3>1 DEF Msgs
  <2>3. Head(q) \in Msgs(q)
    BY ZenonT(60), <1>1, <1>2 DEF Msgs
  <2> QED
    BY ZenonT(60), <2>1, <2>2, <2>3
<1> QED
  BY ZenonT(60), <1>1, <1>2, <1>3, <1>5

\* Messages posted behind a queue.
LEMMA ConcatMsgs ==
  ASSUME NEW q \in Seq(Message), NEW s \in Seq(Message)
  PROVE  /\ q \o s \in Seq(Message) /\ Len(q \o s) = Len(q) + Len(s)
         /\ Len(q) \in Nat /\ Len(s) \in Nat
         /\ \A i \in 1 .. Len(q) : (q \o s)[i] = q[i] /\ i \in 1 .. Len(q \o s)
         /\ \A k \in 1 .. Len(s) : /\ (q \o s)[Len(q) + k] = s[k]
                                   /\ Len(q) + k \in 1 .. Len(q \o s)
         /\ \A i \in 1 .. Len(q \o s) : i \in 1 .. Len(q) \/ i - Len(q) \in 1 .. Len(s)
         /\ Msgs(q \o s) = Msgs(q) \cup Msgs(s)
<1>1. /\ q \o s \in Seq(Message) /\ Len(q \o s) = Len(q) + Len(s)
      /\ Len(q) \in Nat /\ Len(s) \in Nat
      /\ \A i \in 1 .. Len(q) + Len(s) :
           (q \o s)[i] = IF i <= Len(q) THEN q[i] ELSE s[i - Len(q)]
  BY SMTT(60)
<1>2. /\ \A i \in 1 .. Len(q) : (q \o s)[i] = q[i] /\ i \in 1 .. Len(q \o s)
      /\ \A k \in 1 .. Len(s) : /\ (q \o s)[Len(q) + k] = s[k]
                                /\ Len(q) + k \in 1 .. Len(q \o s)
  BY SMTT(60), <1>1
<1>3. \A i \in 1 .. Len(q \o s) :
        \/ i \in 1 .. Len(q) /\ (q \o s)[i] = q[i]
        \/ i - Len(q) \in 1 .. Len(s) /\ (q \o s)[i] = s[i - Len(q)]
  BY SMTT(60), <1>1
<1>4. Msgs(q \o s) = Msgs(q) \cup Msgs(s)
  <2>1. ASSUME NEW m \in Msgs(q \o s) PROVE m \in Msgs(q) \cup Msgs(s)
    <3>1. PICK i \in 1 .. Len(q \o s) : m = (q \o s)[i]
      BY ZenonT(60) DEF Msgs
    <3> QED
      BY ZenonT(60), <1>3, <3>1 DEF Msgs
  <2>2. ASSUME NEW m \in Msgs(q) PROVE m \in Msgs(q \o s)
    <3>1. PICK i \in 1 .. Len(q) : m = q[i]
      BY ZenonT(60) DEF Msgs
    <3> QED
      BY ZenonT(60), <1>2, <3>1 DEF Msgs
  <2>3. ASSUME NEW m \in Msgs(s) PROVE m \in Msgs(q \o s)
    <3>1. PICK k \in 1 .. Len(s) : m = s[k]
      BY ZenonT(60) DEF Msgs
    <3> QED
      BY ZenonT(60), <1>2, <3>1 DEF Msgs
  <2> QED
    BY ZenonT(60), <2>1, <2>2, <2>3
<1> QED
  BY ZenonT(60), <1>1, <1>2, <1>3, <1>4

\* A few messages.
LEMMA FewMsgs ==
  /\ <<>> \in Seq(Message) /\ Msgs(<<>>) = {} /\ Len(<<>>) = 0
  /\ \A m \in Message : /\ <<m>> \in Seq(Message) /\ Msgs(<<m>>) = {m}
                        /\ Len(<<m>>) = 1 /\ <<m>>[1] = m
  /\ \A m, n \in Message : <<m, n>> \in Seq(Message) /\ Msgs(<<m, n>>) = {m, n}
<1>1. <<>> \in Seq(Message) /\ Msgs(<<>>) = {} /\ Len(<<>>) = 0
  BY SMTT(60) DEF Msgs
<1>2. ASSUME NEW m \in Message
      PROVE  /\ <<m>> \in Seq(Message) /\ Msgs(<<m>>) = {m}
             /\ Len(<<m>>) = 1 /\ <<m>>[1] = m
  BY SMTT(60) DEF Msgs
<1>3. ASSUME NEW m \in Message, NEW n \in Message
      PROVE  <<m, n>> \in Seq(Message) /\ Msgs(<<m, n>>) = {m, n}
  BY SMTT(60) DEF Msgs
<1> QED
  BY ZenonT(60), <1>1, <1>2, <1>3

\* Every two messages of q, in their order, are a pair of R.
Ordered(q, R) == \A i, j \in 1 .. Len(q) : i < j => <<q[i], q[j]>> \in R

\* The messages that are left are in order, and behind the oldest one.
LEMMA TailOrdered ==
  ASSUME NEW q \in Seq(Message), q # <<>>, NEW R, Ordered(q, R)
  PROVE  Ordered(Tail(q), R) /\ \A m \in Msgs(Tail(q)) : <<Head(q), m>> \in R
<1>1. Len(q) \in Nat /\ Len(Tail(q)) = Len(q) - 1
  BY SMTT(60), TailMsgs
<1>2. /\ Head(q) = q[1] /\ 1 \in 1 .. Len(q)
      /\ \A i \in 1 .. Len(Tail(q)) : Tail(q)[i] = q[i + 1] /\ i + 1 \in 1 .. Len(q)
  BY ZenonT(60), TailMsgs
<1>3. ASSUME NEW i \in 1 .. Len(Tail(q)), NEW j \in 1 .. Len(Tail(q)), i < j
      PROVE  <<Tail(q)[i], Tail(q)[j]>> \in R
  <2>1. i + 1 < j + 1
    BY SMTT(60), <1>1, <1>3
  <2> QED
    BY ZenonT(60), <1>2, <2>1 DEF Ordered
<1>4. ASSUME NEW m \in Msgs(Tail(q)) PROVE <<Head(q), m>> \in R
  <2>1. PICK i \in 1 .. Len(Tail(q)) : m = Tail(q)[i]
    BY ZenonT(60) DEF Msgs
  <2>2. 1 < i + 1
    BY SMTT(60), <1>1
  <2> QED
    BY ZenonT(60), <1>2, <2>1, <2>2 DEF Ordered
<1> QED
  BY ZenonT(60), <1>3, <1>4 DEF Ordered

\* Messages posted behind a queue are in order if each fits behind each.
LEMMA ConcatOrdered ==
  ASSUME NEW q \in Seq(Message), NEW s \in Seq(Message), NEW R,
         Ordered(q, R), Ordered(s, R),
         \A m \in Msgs(q), n \in Msgs(s) : <<m, n>> \in R
  PROVE  Ordered(q \o s, R)
<1>1. /\ Len(q) \in Nat /\ Len(s) \in Nat /\ Len(q \o s) = Len(q) + Len(s)
      /\ \A i \in 1 .. Len(q) : (q \o s)[i] = q[i]
      /\ \A k \in 1 .. Len(s) : (q \o s)[Len(q) + k] = s[k]
  BY SMTT(60), ConcatMsgs
<1>2. SUFFICES ASSUME NEW i \in 1 .. Len(q \o s), NEW j \in 1 .. Len(q \o s), i < j
               PROVE  <<(q \o s)[i], (q \o s)[j]>> \in R
  BY ZenonT(60) DEF Ordered
<1>3. CASE j <= Len(q)
  <2>1. i \in 1 .. Len(q) /\ j \in 1 .. Len(q)
    BY SMTT(60), <1>1, <1>2, <1>3
  <2> QED
    BY ZenonT(60), <1>1, <1>2, <2>1 DEF Ordered
<1>4. CASE i > Len(q)
  <2> DEFINE k == i - Len(q)
             l == j - Len(q)
  <2>1. /\ k \in 1 .. Len(s) /\ l \in 1 .. Len(s) /\ k < l
        /\ i = Len(q) + k /\ j = Len(q) + l
    BY SMTT(60), <1>1, <1>2, <1>4
  <2> HIDE DEF k, l
  <2> QED
    BY ZenonT(60), <1>1, <2>1 DEF Ordered
<1>5. CASE i <= Len(q) /\ j > Len(q)
  <2> DEFINE l == j - Len(q)
  <2>1. i \in 1 .. Len(q) /\ l \in 1 .. Len(s) /\ j = Len(q) + l
    BY SMTT(60), <1>1, <1>2, <1>5
  <2> HIDE DEF l
  <2> QED
    BY ZenonT(60), <1>1, <2>1 DEF Msgs
<1>6. j <= Len(q) \/ i > Len(q) \/ (i <= Len(q) /\ j > Len(q))
  <2>1. Len(q) \in Nat /\ i \in Int /\ j \in Int
    BY SMTT(60), <1>1
  <2> QED
    BY SMTT(60), <2>1
<1> QED
  BY ZenonT(60), <1>3, <1>4, <1>5, <1>6

\* A few messages in order.
LEMMA FewOrdered ==
  ASSUME NEW R
  PROVE  /\ Ordered(<<>>, R) /\ \A m \in Message : Ordered(<<m>>, R)
         /\ \A m, n \in Message : <<m, n>> \in R => Ordered(<<m, n>>, R)
<1>1. Ordered(<<>>, R)
  BY SMTT(60) DEF Ordered
<1>2. ASSUME NEW m \in Message PROVE Ordered(<<m>>, R)
  BY SMTT(60) DEF Ordered
<1>3. ASSUME NEW m \in Message, NEW n \in Message, <<m, n>> \in R
      PROVE  Ordered(<<m, n>>, R)
  <2>1. ASSUME NEW i \in 1 .. 2, NEW j \in 1 .. 2, i < j PROVE i = 1 /\ j = 2
    BY SMTT(60), <2>1
  <2>2. Len(<<m, n>>) = 2 /\ <<m, n>>[1] = m /\ <<m, n>>[2] = n
    OBVIOUS
  <2>3. ASSUME NEW i \in 1 .. 2, NEW j \in 1 .. 2, i < j
        PROVE  << <<m, n>>[i], <<m, n>>[j] >> \in R
    BY ZenonT(60), <1>3, <2>1, <2>2, <2>3
  <2> QED
    BY ZenonT(60), <2>2, <2>3 DEF Ordered
<1> QED
  BY ZenonT(60), <1>1, <1>2, <1>3

-----------------------------------------------------------------------------
(* What a step does to the messages. *)

\* The queue becomes b with s posted behind it; b is the queue, or what is left
\* when its oldest message has been taken.
Moves(b, s) ==
  /\ b = queue \/ (queue # <<>> /\ b = Rest)
  /\ s \in Seq(Message) /\ queue' = b \o s

\* The messages of the queue before and after.
LEMMA MovedMsgs ==
  ASSUME IInv, NEW b, NEW s, Moves(b, s)
  PROVE  /\ b \in Seq(Message) /\ queue' \in Seq(Message)
         /\ Msgs(queue') = Msgs(b) \cup Msgs(s) /\ Msgs(b) \subseteq Msgs(queue)
         /\ \A m \in Msgs(queue) :
              m \in Msgs(queue') \/ (b # queue /\ m = Head(queue))
<1>1. queue \in Seq(Message)
  BY ZenonT(60) DEF IInv, TypeOK
<1>2. /\ b \in Seq(Message) /\ Msgs(b) \subseteq Msgs(queue)
      /\ \A m \in Msgs(queue) : m \in Msgs(b) \/ (b # queue /\ m = Head(queue))
  BY ZenonT(60), <1>1, TailMsgs DEF Moves, Rest
<1> QED
  BY ZenonT(60), <1>2, ConcatMsgs DEF Moves

\* What the inductive invariant says of the queued messages.
LEMMA QueuedMsgs ==
  ASSUME IInv, NEW m \in Msgs(queue)
  PROVE  /\ m \in Message
         /\ m.h # NB => m.h \in FsmId /\ fsm[m.h].alloc = "live"
         /\ m.h # NB /\ m.what \in {"STOP", "DEINIT"} =>
              fsm[m.h].isDead /\ m.h \notin fsmList
<1>1. queue \in Seq(Message) /\ QueueSound(queue, fsm, fsmList, auth)
  BY ZenonT(60) DEF IInv, TypeOK, FsmLifecycle
<1>2. PICK i \in 1 .. Len(queue) : m = queue[i]
  BY ZenonT(60) DEF Msgs
<1>3. m \in Message
  BY SMTT(60), <1>1, <1>2
<1>4. MessageSound(m, fsm, fsmList, auth)
  BY ZenonT(60), <1>1, <1>2 DEF QueueSound
<1> QED
  BY ZenonT(60), <1>3, <1>4, MessageFields DEF MessageSound

\* A message taken from the queue was in it.
LEMMA TakenMsg ==
  ASSUME IInv, NEW h, NEW w, Dispatch(h, w)
  PROVE  /\ queue # <<>> /\ queue \in Seq(Message) /\ Head(queue) \in Msgs(queue)
         /\ Head(queue).h = h /\ Head(queue).what = w
<1>1. queue \in Seq(Message) /\ queue # <<>>
  BY ZenonT(60) DEF IInv, TypeOK, Dispatch
<1> QED
  BY ZenonT(60), <1>1, TailMsgs DEF Dispatch

\* One message posted is a sequence of one.
LEMMA OneBehind ==
  ASSUME NEW q \in Seq(Message)
  PROVE  /\ q \o <<>> = q
         /\ \A m \in Message : Append(q, m) = q \o <<m>>
<1>1. q \o <<>> = q
  BY SMTT(60)
<1>2. ASSUME NEW m \in Message PROVE Append(q, m) = q \o <<m>>
  BY SMTT(60)
<1> QED
  BY ZenonT(60), <1>1, <1>2

\* A handler of a connection fsm posts at most one message of its own.
LEMMA ActsPosts ==
  ASSUME IInv, NEW f \in FsmId, NEW b, NEW w, FsmEffect(f, b, w),
         b = queue \/ (queue # <<>> /\ b = Rest)
  PROVE  \E s : /\ Moves(b, s) /\ \A m \in Msgs(s) : FromFsm(f, m)
                /\ fsm'[f].isDead /\ ~fsm[f].isDead => CleanMsg(f) \in Msgs(s)
<1>1. queue \in Seq(Message)
  BY ZenonT(60) DEF IInv, TypeOK
<1>2. b \in Seq(Message)
  BY ZenonT(60), <1>1, TailMsgs DEF Rest
<1>3. QueueEffect(f, b)
  BY DEF FsmEffect
<1>4. CASE fsm'[f].isDead /\ ~fsm[f].isDead
  <2>1. CleanMsg(f) \in Message
    BY CleanMsgType
  <2>2. Moves(b, <<CleanMsg(f)>>)
    BY ZenonT(60), <1>2, <1>3, <1>4, <2>1, OneBehind, FewMsgs DEF QueueEffect, Moves
  <2>3. Msgs(<<CleanMsg(f)>>) = {CleanMsg(f)}
    BY ZenonT(60), <2>1, FewMsgs
  <2> QED
    BY ZenonT(60), <2>2, <2>3 DEF FromFsm
<1>5. CASE queue' = b /\ ~(fsm'[f].isDead /\ ~fsm[f].isDead)
  <2>1. Moves(b, <<>>)
    BY ZenonT(60), <1>2, <1>5, OneBehind, FewMsgs DEF Moves
  <2> QED
    BY ZenonT(60), <1>5, <2>1, FewMsgs
<1>6. CASE queue' # b /\ ~(fsm'[f].isDead /\ ~fsm[f].isDead)
  <2>1. PICK m \in Message : queue' = Append(b, m) /\ FromFsm(f, m)
    BY ZenonT(60), <1>3, <1>6 DEF QueueEffect
  <2>2. Moves(b, <<m>>)
    BY ZenonT(60), <1>2, <2>1, OneBehind, FewMsgs DEF Moves
  <2>3. Msgs(<<m>>) = {m}
    BY ZenonT(60), FewMsgs
  <2> QED
    BY ZenonT(60), <1>6, <2>1, <2>2, <2>3
<1> QED
  BY ZenonT(60), <1>4, <1>5, <1>6

\* What a new connection fsm f starts with; s is what is posted to it.
Starts(f, s, a, id, flags, w) ==
  /\ f \in FsmId \ fsmList /\ fsm[f].alloc = "none" /\ ~fsm[f].isDead
  /\ fsmList' = fsmList \cup {f} /\ UNCHANGED <<timers, joinWait>>
  /\ fsm'[f].alloc = "live" /\ ~fsm'[f].isDead /\ fsm'[f].curState = "NULL"
  /\ fsm'[f].addr = a /\ fsm'[f].authId = id /\ fsm'[f].flag = flags
  /\ \A g \in FsmId : g # f => fsm'[g] = fsm[g]
  /\ Moves(Rest, s) /\ \A m \in Msgs(s) : m.h = f /\ m.what \in {"START", w}

\* StartNewConnectionFsm takes an unused record, lists it and posts two messages.
LEMMA NewFsmStarts ==
  ASSUME IInv, NEW a \in Addr, NEW id \in 0 .. MaxAuth, NEW flags, NEW w, NEW v,
         w \in FsmData, Dispatch(NB, v), StartNewConnectionFsm(a, id, flags, w)
  PROVE  \E f, s : Starts(f, s, a, id, flags, w)
<1> DEFINE f == nextFsm + 1
           s == <<FsmMsg(f, "START"), FsmMsg(f, w)>>
           n == [NoFsm EXCEPT !.alloc = "live", !.addr = a, !.authId = id, !.flag = flags]
<1>1. f \in FsmId /\ f > nextFsm
  BY SMTT(60), BoundsAssumption
     DEF IInv, TypeOK, StartNewConnectionFsm, CanStartNewConnectionFsm, FsmId
<1>2. /\ fsm' = [fsm EXCEPT ![f] = n] /\ fsmList' = fsmList \cup {f}
      /\ queue' = Rest \o s /\ UNCHANGED <<timers, joinWait>>
  BY DEF StartNewConnectionFsm, waitVars
<1>3. /\ n.alloc = "live" /\ n.isDead = FALSE /\ n.curState = "NULL"
      /\ n.addr = a /\ n.authId = id /\ n.flag = flags
  BY DEF NoFsm
<1> HIDE DEF n, f
<1>4. fsm'[f] = n /\ \A g \in FsmId : g # f => fsm'[g] = fsm[g]
  BY ZenonT(60), <1>1, <1>2, OneRecord
<1>5. fsm[f].alloc = "none" /\ ~fsm[f].isDead
  BY ZenonT(60), <1>1 DEF IInv, FsmLifecycle, FsmsSound
<1>6. f \notin fsmList
  BY ZenonT(60), <1>5 DEF IInv, FsmLifecycle, FsmsSound
<1>8. /\ FsmMsg(f, "START") \in Message /\ FsmMsg(f, w) \in Message
      /\ FsmMsg(f, "START").h = f /\ FsmMsg(f, "START").what = "START"
      /\ FsmMsg(f, w).h = f /\ FsmMsg(f, w).what = w
  BY ZenonT(60), <1>1, FsmMsgType DEF FsmCtrl, FsmData
<1>9. s \in Seq(Message) /\ Msgs(s) = {FsmMsg(f, "START"), FsmMsg(f, w)}
  BY ZenonT(60), <1>8, FewMsgs
<1>10. Moves(Rest, s) /\ \A m \in Msgs(s) : m.h = f /\ m.what \in {"START", w}
  BY ZenonT(60), <1>2, <1>8, <1>9, TakenMsg DEF Moves
<1> HIDE DEF s
<1>11. Starts(f, s, a, id, flags, w)
  BY ZenonT(60), <1>1, <1>2, <1>3, <1>4, <1>5, <1>6, <1>10 DEF Starts
<1> QED
  BY <1>11

\* A new connection fsm holds the JoinLNN request it was created for, if any.
NewFsm(f, s, a, id, flags, w) ==
  /\ Starts(f, s, a, id, flags, w) /\ a \in Addr
  /\ queue # <<>> /\ Head(queue).h = NB /\ Head(queue).what # "CLEAN_CONN_FSM"
  /\ \/ Head(queue).what = "JOIN_LNN_REQUEST" /\ a = Head(queue).addr
        /\ flags = {"JOIN_REQUEST"}
     \/ Head(queue).what # "JOIN_LNN_REQUEST" /\ "JOIN_REQUEST" \notin flags
  /\ \/ id = 0 /\ w = "JOIN_LNN"
     \/ id # 0 /\ w = "AUTH_KEY_GENERATED" /\ "JOIN_PASSIVE" \in flags

\* A step that creates a connection fsm, in the terms of NewFsm.
LEMMA CreateFacts ==
  ASSUME IInv, Created
  PROVE  \E f, s, a, id, flags, w : NewFsm(f, s, a, id, flags, w)
<1>1. PICK a \in Addr, id \in 0 .. MaxAuth : \E flags, w, v :
        /\ Dispatch(NB, v) /\ StartNewConnectionFsm(a, id, flags, w)
        /\ \/ v = "JOIN_LNN_REQUEST" /\ a = Head(queue).addr /\ flags = {"JOIN_REQUEST"}
           \/ v \notin {"JOIN_LNN_REQUEST", "CLEAN_CONN_FSM"} /\ "JOIN_REQUEST" \notin flags
        /\ \/ id = 0 /\ w = "JOIN_LNN"
           \/ id # 0 /\ w = "AUTH_KEY_GENERATED" /\ "JOIN_PASSIVE" \in flags
  BY DEF Created
<1>2. PICK flags, w, v :
        /\ Dispatch(NB, v) /\ StartNewConnectionFsm(a, id, flags, w)
        /\ \/ v = "JOIN_LNN_REQUEST" /\ a = Head(queue).addr /\ flags = {"JOIN_REQUEST"}
           \/ v \notin {"JOIN_LNN_REQUEST", "CLEAN_CONN_FSM"} /\ "JOIN_REQUEST" \notin flags
        /\ \/ id = 0 /\ w = "JOIN_LNN"
           \/ id # 0 /\ w = "AUTH_KEY_GENERATED" /\ "JOIN_PASSIVE" \in flags
  BY <1>1
<1>3. w \in FsmData /\ Dispatch(NB, v) /\ StartNewConnectionFsm(a, id, flags, w)
  BY ZenonT(60), <1>2 DEF FsmData
<1>4. PICK f, s : Starts(f, s, a, id, flags, w)
  BY ZenonT(60), <1>3, NewFsmStarts
<1>5. queue # <<>> /\ Head(queue).h = NB /\ Head(queue).what = v
  BY ZenonT(60), <1>2, TakenMsg
<1>6. NewFsm(f, s, a, id, flags, w)
  BY ZenonT(60), <1>2, <1>4, <1>5 DEF NewFsm
<1> QED
  BY <1>6

\* FSM_CTRL_MSG_STOP and FSM_CTRL_MSG_DEINIT: what they leave of the fsm.
LEMMA StopFacts ==
  ASSUME IInv, NEW f \in FsmId, ProcessStopMessage(f) \/ ProcessDeinitMessage(f)
  PROVE  /\ Moves(Rest, <<>>) /\ UNCHANGED <<fsmList, timers, joinWait>>
         /\ Head(queue).h = f /\ Head(queue).what \in {"STOP", "DEINIT"}
         /\ fsm[f].isDead /\ f \notin fsmList
         /\ \A g \in FsmId : g # f => fsm'[g] = fsm[g]
         /\ ProcessStopMessage(f) =>
              /\ fsm'[f].alloc = fsm[f].alloc /\ fsm'[f].isDead /\ Head(queue).what = "STOP"
              /\ fsm'[f].authId = fsm[f].authId /\ fsm'[f].flag = fsm[f].flag
              /\ fsm'[f].addr = fsm[f].addr
         /\ ProcessDeinitMessage(f) =>
              /\ fsm'[f].alloc = "freed" /\ ~fsm'[f].isDead /\ fsm'[f].flag = {}
              /\ \A m \in Msgs(queue') : m.h # f
<1>1. queue \in Seq(Message) /\ queue # <<>> /\ Rest \in Seq(Message) /\ fsm[f] \in ConnFsm
  BY ZenonT(60), TailMsgs
     DEF IInv, TypeOK, ProcessStopMessage, ProcessDeinitMessage, Dispatch, Rest
<1>2. /\ Moves(Rest, <<>>) /\ UNCHANGED <<fsmList, timers, joinWait>>
  BY ZenonT(60), <1>1, OneBehind, FewMsgs
     DEF Moves, ProcessStopMessage, ProcessDeinitMessage, listVars, waitVars
<1>3. /\ Head(queue).h = f /\ Head(queue).what \in {"STOP", "DEINIT"}
      /\ fsm[f].isDead /\ f \notin fsmList
  BY ZenonT(60), DispatchSound DEF ProcessStopMessage, ProcessDeinitMessage
<1>4. CASE ProcessStopMessage(f)
  <2> DEFINE n == [fsm[f] EXCEPT !.curState = "NULL"]
  <2>1. /\ n.alloc = fsm[f].alloc /\ n.isDead = fsm[f].isDead /\ n.flag = fsm[f].flag
        /\ n.authId = fsm[f].authId /\ n.addr = fsm[f].addr
    BY ZenonT(60), <1>1 DEF ConnFsm
  <2>2. fsm' = [fsm EXCEPT ![f] = n] /\ Head(queue).what = "STOP"
    BY <1>4 DEF ProcessStopMessage, Dispatch
  <2>3. Head(queue).what # "DEINIT"
    BY SMTT(60), <2>2
  <2> HIDE DEF n
  <2>4. fsm'[f] = n /\ \A g \in FsmId : g # f => fsm'[g] = fsm[g]
    BY ZenonT(60), <2>2, OneRecord
  <2> QED
    BY ZenonT(60), <1>2, <1>3, <2>1, <2>2, <2>3, <2>4 DEF ProcessDeinitMessage, Dispatch
<1>5. CASE ProcessDeinitMessage(f)
  <2> DEFINE n == [NoFsm EXCEPT !.alloc = "freed"]
  <2>1. n.alloc = "freed" /\ n.isDead = FALSE /\ n.flag = {}
    BY DEF NoFsm
  <2>2. /\ fsm' = [fsm EXCEPT ![f] = n] /\ Head(queue).what = "DEINIT" /\ queue' = Rest
        /\ Dispatch(f, "DEINIT")
    BY <1>5 DEF ProcessDeinitMessage, Dispatch
  <2>3. Head(queue).what # "STOP"
    BY SMTT(60), <2>2
  <2> HIDE DEF n
  <2>4. fsm'[f] = n /\ \A g \in FsmId : g # f => fsm'[g] = fsm[g]
    BY ZenonT(60), <2>2, OneRecord
  <2>5. \A m \in Msgs(queue') : m.h # f
    BY ZenonT(60), <2>2, DispatchSound DEF Msgs
  <2> QED
    BY ZenonT(60), <1>2, <1>3, <2>1, <2>3, <2>4, <2>5 DEF ProcessStopMessage, Dispatch
<1> QED
  BY <1>4, <1>5

\* StopConnectionFsm posts STOP and DEINIT to f, and then messages to others.
Stops(f, s) ==
  \E t \in Seq(Message) :
    /\ s = <<FsmMsg(f, "STOP"), FsmMsg(f, "DEINIT")>> \o t
    /\ \A m \in Msgs(t) : m.h \in fsmList \ {f} /\ m.what = "INITIATE_ONLINE"

\* StopConnectionFsm unlists a connection fsm and posts its STOP and DEINIT.
LEMMA CleanFacts ==
  ASSUME IInv, Counted, Cleaned
  PROVE  \E f \in fsmList : \E s :
           /\ Head(queue).connFsmId = f /\ Dispatch(NB, "CLEAN_CONN_FSM")
           /\ fsmList' = fsmList \ {f} /\ UNCHANGED <<fsm, timers, joinWait>>
           /\ f \in FsmId /\ Moves(Rest, s) /\ Stops(f, s)
<1> DEFINE f == Head(queue).connFsmId
           stop == <<FsmMsg(f, "STOP"), FsmMsg(f, "DEINIT")>>
<1>1. /\ f \in fsmList /\ Dispatch(NB, "CLEAN_CONN_FSM")
      /\ fsmList' = fsmList \ {f} /\ UNCHANGED <<fsm, timers, joinWait>>
      /\ \E w \in Walks(InitiateTargets(f, fsmList \ {f})) :
           queue' = Rest \o stop \o Posts(w, "INITIATE_ONLINE")
  BY ZenonT(60) DEF Cleaned, ProcessCleanConnectionFsm, waitVars, StopMessages
<1>2. /\ queue \in Seq(Message) /\ queue # <<>> /\ Rest \in Seq(Message)
      /\ fsmList \subseteq FsmId
  BY ZenonT(60), <1>1, TailMsgs DEF IInv, TypeOK, Dispatch, Rest
<1> HIDE DEF f
<1>3. PICK w \in Walks(InitiateTargets(f, fsmList \ {f})) :
        queue' = Rest \o stop \o Posts(w, "INITIATE_ONLINE")
  BY <1>1
<1> DEFINE t == Posts(w, "INITIATE_ONLINE")
<1>4. t \in Seq(Message) /\ \A m \in Msgs(t) : m.h \in fsmList \ {f} /\ m.what = "INITIATE_ONLINE"
  <2> DEFINE T == InitiateTargets(f, fsmList \ {f})
  <2>1. T \subseteq fsmList \ {f}
    BY ZenonT(60) DEF InitiateTargets
  <2>2. T \in SUBSET FsmId /\ w \in Walks(T)
    BY ZenonT(60), <1>2, <2>1
  <2> HIDE DEF T
  <2>3. "INITIATE_ONLINE" \in FsmCtrl \cup FsmData
    BY DEF FsmCtrl, FsmData
  <2>4. /\ t \in Seq(Message)
        /\ \A k \in 1 .. Len(t) : t[k].h \in T /\ t[k].what = "INITIATE_ONLINE"
    BY SMTT(60), <2>2, <2>3, PostsType
  <2> HIDE DEF t
  <2> QED
    BY ZenonT(60), <2>1, <2>4 DEF Msgs
<1> HIDE DEF t
<1>5. stop \in Seq(Message)
  <2>1. f \in FsmId
    BY <1>1, <1>2
  <2>2. FsmMsg(f, "STOP") \in Message /\ FsmMsg(f, "DEINIT") \in Message
    BY ZenonT(60), <2>1, FsmMsgType DEF FsmCtrl
  <2> QED
    BY ZenonT(60), <2>2, FewMsgs
<1>6. stop \o t \in Seq(Message)
  BY ZenonT(60), <1>4, <1>5, ConcatMsgs
<1>7. queue' = Rest \o (stop \o t)
  <2>1. queue' = (Rest \o stop) \o t
    BY <1>3 DEF t
  <2> HIDE DEF stop
  <2>2. (Rest \o stop) \o t = Rest \o (stop \o t)
    BY SMTT(60), <1>2, <1>4, <1>5
  <2> QED
    BY <2>1, <2>2
<1>8. Moves(Rest, stop \o t) /\ Stops(f, stop \o t)
  BY ZenonT(60), <1>2, <1>4, <1>6, <1>7 DEF Moves, Stops
<1> QED
  BY ZenonT(60), <1>1, <1>2, <1>8 DEF f

\* The messages that stop a connection fsm.
LEMMA StopsMsgs ==
  ASSUME NEW f \in FsmId, NEW s, Stops(f, s)
  PROVE  /\ FsmMsg(f, "DEINIT") \in Msgs(s) /\ s \in Seq(Message)
         /\ \A m \in Msgs(s) : \/ m.h = f /\ m.what \in {"STOP", "DEINIT"}
                               \/ m.h \in fsmList \ {f} /\ m.what = "INITIATE_ONLINE"
<1>1. PICK t \in Seq(Message) :
        /\ s = <<FsmMsg(f, "STOP"), FsmMsg(f, "DEINIT")>> \o t
        /\ \A m \in Msgs(t) : m.h \in fsmList \ {f} /\ m.what = "INITIATE_ONLINE"
  BY DEF Stops
<1> DEFINE stop == <<FsmMsg(f, "STOP"), FsmMsg(f, "DEINIT")>>
<1>2. /\ FsmMsg(f, "STOP") \in Message /\ FsmMsg(f, "DEINIT") \in Message
      /\ FsmMsg(f, "STOP").h = f /\ FsmMsg(f, "STOP").what = "STOP"
      /\ FsmMsg(f, "DEINIT").h = f /\ FsmMsg(f, "DEINIT").what = "DEINIT"
  BY ZenonT(60), FsmMsgType DEF FsmCtrl
<1>3. stop \in Seq(Message) /\ Msgs(stop) = {FsmMsg(f, "STOP"), FsmMsg(f, "DEINIT")}
  BY ZenonT(60), <1>2, FewMsgs
<1> HIDE DEF stop
<1>4. stop \o t \in Seq(Message) /\ Msgs(stop \o t) = Msgs(stop) \cup Msgs(t)
  BY ZenonT(60), <1>3, ConcatMsgs
<1>5. s = stop \o t
  BY <1>1 DEF stop
<1>6. s \in Seq(Message) /\ Msgs(s) = Msgs(stop) \cup Msgs(t)
  BY <1>4, <1>5
<1>7. ASSUME NEW m \in Msgs(s)
      PROVE  \/ m.h = f /\ m.what \in {"STOP", "DEINIT"}
             \/ m.h \in fsmList \ {f} /\ m.what = "INITIATE_ONLINE"
  BY ZenonT(60), <1>1, <1>2, <1>3, <1>6
<1> QED
  BY ZenonT(60), <1>3, <1>6, <1>7

\* The net builder passes messages on to listed connection fsms.
LEMMA PassFacts ==
  ASSUME IInv, PassedOn
  PROVE  \E s, w : /\ Moves(Rest, s) /\ Dispatch(NB, w) /\ w # "JOIN_LNN_REQUEST"
                   /\ w = "CLEAN_CONN_FSM" => Head(queue).connFsmId \notin fsmList
                   /\ \A m \in Msgs(s) :
                        /\ m.h \in fsmList /\ m.what \notin {"STOP", "DEINIT"}
                        /\ m.what = "AUTH_KEY_GENERATED" => fsm[m.h].authId # 0
<1>1. PICK w : /\ Dispatch(NB, w) /\ w # "JOIN_LNN_REQUEST"
               /\ w = "CLEAN_CONN_FSM" => Head(queue).connFsmId \notin fsmList
  BY DEF PassedOn
<1>2. PICK s : ToListed(s) /\ queue' = Rest \o s
  BY DEF PassedOn
<1>3. Moves(Rest, s)
  BY ZenonT(60), <1>1, <1>2 DEF Moves, ToListed, Dispatch
<1>4. ASSUME NEW m \in Msgs(s)
      PROVE  /\ m.h \in fsmList /\ m.what \notin {"STOP", "DEINIT"}
             /\ m.what = "AUTH_KEY_GENERATED" => fsm[m.h].authId # 0
  BY ZenonT(60), <1>2 DEF Msgs, ToListed
<1> QED
  BY ZenonT(60), <1>1, <1>3, <1>4

\* A refused request is taken from the queue, and one that is passed on becomes the
\* message of a connection fsm.
LEMMA JoinMoves ==
  ASSUME IInv, Dispatch(NB, "JOIN_LNN_REQUEST")
  PROVE  /\ queue' = Rest => Moves(Rest, <<>>)
         /\ \A f \in FsmId : queue' = Rest \o <<FsmMsg(f, "JOIN_LNN")>> =>
              /\ Moves(Rest, <<FsmMsg(f, "JOIN_LNN")>>)
              /\ Msgs(<<FsmMsg(f, "JOIN_LNN")>>) = {FsmMsg(f, "JOIN_LNN")}
              /\ FsmMsg(f, "JOIN_LNN").h = f /\ FsmMsg(f, "JOIN_LNN").what = "JOIN_LNN"
<1>1. queue # <<>> /\ Rest \in Seq(Message)
  BY ZenonT(60), TakenMsg, TailMsgs DEF Rest
<1>2. queue' = Rest => Moves(Rest, <<>>)
  BY ZenonT(60), <1>1, OneBehind, FewMsgs DEF Moves
<1>3. ASSUME NEW f \in FsmId
      PROVE  /\ FsmMsg(f, "JOIN_LNN") \in Message /\ FsmMsg(f, "JOIN_LNN").h = f
             /\ FsmMsg(f, "JOIN_LNN").what = "JOIN_LNN"
  BY ZenonT(60), FsmMsgType DEF FsmData
<1> QED
  BY ZenonT(60), <1>1, <1>2, <1>3, FewMsgs DEF Moves

\* What another thread posts goes behind the queue.
LEMMA PostFacts ==
  ASSUME IInv, PostedByOthers
  PROVE  \E m \in Message :
           /\ Moves(queue, <<m>>) /\ Msgs(<<m>>) = {m}
           /\ m.h = NB /\ m.what # "CLEAN_CONN_FSM" /\ UNCHANGED <<timers, fsm, fsmList>>
           /\ \/ /\ m.what = "JOIN_LNN_REQUEST" /\ m.addr \notin joinWait
                 /\ joinWait' = joinWait \cup {m.addr}
              \/ m.what # "JOIN_LNN_REQUEST" /\ joinWait' = joinWait
<1>1. PICK m \in Message :
           /\ queue' = Append(queue, m) /\ m.h = NB /\ m.what # "CLEAN_CONN_FSM"
           /\ \/ /\ m.what = "JOIN_LNN_REQUEST" /\ m.addr \notin joinWait
                 /\ joinWait' = joinWait \cup {m.addr}
              \/ m.what # "JOIN_LNN_REQUEST" /\ joinWait' = joinWait
           /\ UNCHANGED <<timers, fsm, fsmList>>
  BY ZenonT(60) DEF PostedByOthers, listVars
<1>2. queue \in Seq(Message)
  BY ZenonT(60) DEF IInv, TypeOK
<1>3. Moves(queue, <<m>>) /\ Msgs(<<m>>) = {m}
  BY ZenonT(60), <1>1, <1>2, OneBehind, FewMsgs DEF Moves
<1> QED
  BY ZenonT(60), <1>1, <1>3

-----------------------------------------------------------------------------
(* A dead connection fsm is being cleaned up. *)

Cleaning ==
  \A f \in FsmId :
    /\ f \in fsmList /\ fsm[f].isDead => CleanMsg(f) \in Msgs(queue)
    /\ f \notin fsmList /\ fsm[f].alloc = "live" => FsmMsg(f, "DEINIT") \in Msgs(queue)

\* The two messages of a connection fsm that Cleaning is about.
LEMMA CleaningMsgs ==
  ASSUME NEW f \in FsmId
  PROVE  /\ CleanMsg(f) \in Message /\ CleanMsg(f).h = NB
         /\ CleanMsg(f).what = "CLEAN_CONN_FSM" /\ CleanMsg(f).connFsmId = f
         /\ FsmMsg(f, "DEINIT") \in Message /\ FsmMsg(f, "DEINIT").h = f
         /\ FsmMsg(f, "DEINIT").what = "DEINIT" /\ f # NB
<1>1. f # NB
  BY SMTT(60), BoundsAssumption DEF FsmId, NB
<1> QED
  BY ZenonT(60), <1>1, CleanMsgType, FsmMsgType DEF FsmCtrl

\* A step that lists nobody else, cleans nobody and has a dying fsm ask for it.
LEMMA CleaningKept ==
  ASSUME IInv, Cleaning, NEW b, NEW s, Moves(b, s), fsmList' = fsmList,
         \A g \in FsmId : fsm'[g].alloc = "live" => fsm[g].alloc = "live",
         \A g \in FsmId : fsm'[g].isDead => fsm[g].isDead \/ CleanMsg(g) \in Msgs(s),
         b # queue => \A g \in FsmId :
           /\ g \in fsmList => Head(queue) # CleanMsg(g)
           /\ fsm'[g].alloc = "live" => Head(queue) # FsmMsg(g, "DEINIT")
  PROVE  Cleaning'
<1>1. ASSUME NEW g \in FsmId, g \in fsmList, fsm'[g].isDead
      PROVE  CleanMsg(g) \in Msgs(queue')
  BY ZenonT(60), <1>1, MovedMsgs DEF Cleaning
<1>2. ASSUME NEW g \in FsmId, g \notin fsmList, fsm'[g].alloc = "live"
      PROVE  FsmMsg(g, "DEINIT") \in Msgs(queue')
  BY ZenonT(60), <1>2, MovedMsgs DEF Cleaning
<1> QED
  BY ZenonT(60), <1>1, <1>2 DEF Cleaning

\* A connection fsm asks for its clean-up when it dies.
LEMMA FsmCleaning ==
  ASSUME IInv, Cleaning, NEW f \in FsmId, FsmReacts(f) \/ FsmEffect(f, queue, "")
  PROVE  Cleaning'
<1>1. ASSUME NEW b, NEW w, FsmEffect(f, b, w), b = queue \/ (queue # <<>> /\ b = Rest),
             b # queue => Head(queue).h = f /\ Head(queue).what # "DEINIT"
      PROVE  Cleaning'
  <2>1. PICK s : /\ Moves(b, s)
                 /\ fsm'[f].isDead /\ ~fsm[f].isDead => CleanMsg(f) \in Msgs(s)
    BY ZenonT(60), <1>1, ActsPosts
  <2>2. /\ fsmList' = fsmList /\ fsm[f].alloc = "live"
        /\ \A g \in FsmId : g # f => fsm'[g] = fsm[g]
    BY ZenonT(60), <1>1 DEF FsmEffect, listVars, Others, JoinEffect
  <2>3. ASSUME b # queue, NEW g \in FsmId
        PROVE  Head(queue) # CleanMsg(g) /\ Head(queue) # FsmMsg(g, "DEINIT")
    <3>1. Head(queue).h = f /\ Head(queue).what # "DEINIT" /\ f # NB
      BY ZenonT(60), <1>1, <2>3, CleaningMsgs
    <3> QED
      BY ZenonT(60), <3>1, CleaningMsgs
  <2>4. \A g \in FsmId : fsm'[g].alloc = "live" => fsm[g].alloc = "live"
    BY ZenonT(60), <2>2
  <2>5. \A g \in FsmId : fsm'[g].isDead => fsm[g].isDead \/ CleanMsg(g) \in Msgs(s)
    BY ZenonT(60), <2>1, <2>2
  <2>6. b # queue => \A g \in FsmId :
          /\ g \in fsmList => Head(queue) # CleanMsg(g)
          /\ fsm'[g].alloc = "live" => Head(queue) # FsmMsg(g, "DEINIT")
    BY ZenonT(60), <2>3
  <2> QED
    BY ZenonT(60), <2>1, <2>2, <2>4, <2>5, <2>6, CleaningKept
<1>2. CASE FsmReacts(f)
  <2>1. PICK w : Dispatch(f, w) /\ w \notin {"STOP", "DEINIT"} /\ FsmEffect(f, Rest, w)
    BY <1>2 DEF FsmReacts
  <2>2. queue # <<>> /\ Head(queue).h = f /\ Head(queue).what # "DEINIT"
    BY ZenonT(60), <2>1, TakenMsg
  <2> QED
    BY ZenonT(60), <1>1, <2>1, <2>2
<1>3. CASE FsmEffect(f, queue, "")
  BY ZenonT(60), <1>1, <1>3
<1> QED
  BY <1>2, <1>3

\* A connection fsm is stopped, and freed, only when it is unlisted.
LEMMA StopCleaning ==
  ASSUME IInv, Cleaning, NEW f \in FsmId,
         ProcessStopMessage(f) \/ ProcessDeinitMessage(f)
  PROVE  Cleaning'
<1>1. /\ Moves(Rest, <<>>) /\ fsmList' = fsmList /\ Head(queue).h = f
      /\ fsm[f].isDead /\ \A g \in FsmId : g # f => fsm'[g] = fsm[g]
      /\ \/ Head(queue).what = "STOP" /\ fsm'[f].alloc = fsm[f].alloc
         \/ fsm'[f].alloc = "freed"
  BY ZenonT(60), StopFacts
<1>2. "STOP" # "DEINIT" /\ "freed" # "live"
  OBVIOUS
<1>3. ASSUME NEW g \in FsmId
      PROVE  /\ Head(queue) # CleanMsg(g)
             /\ fsm'[g].alloc = "live" => Head(queue) # FsmMsg(g, "DEINIT")
             /\ fsm'[g].alloc = "live" => fsm[g].alloc = "live"
             /\ fsm'[g].isDead => fsm[g].isDead
  BY ZenonT(60), <1>1, <1>2, CleaningMsgs
<1>4. /\ \A g \in FsmId : fsm'[g].alloc = "live" => fsm[g].alloc = "live"
      /\ \A g \in FsmId : fsm'[g].isDead => fsm[g].isDead \/ CleanMsg(g) \in Msgs(<<>>)
      /\ Rest # queue => \A g \in FsmId :
           /\ g \in fsmList => Head(queue) # CleanMsg(g)
           /\ fsm'[g].alloc = "live" => Head(queue) # FsmMsg(g, "DEINIT")
  BY ZenonT(60), <1>3
<1> QED
  BY ZenonT(60), <1>1, <1>4, CleaningKept

\* The net builder removes exactly the connection fsm it was asked to clean.
LEMMA ListCleaning ==
  ASSUME IInv, Counted, Cleaning, Created \/ Cleaned
  PROVE  Cleaning'
<1>1. CASE Created
  <2>1. PICK f, s, a, id, flags, w : NewFsm(f, s, a, id, flags, w)
    BY <1>1, CreateFacts
  <2>4. /\ Starts(f, s, a, id, flags, w) /\ Moves(Rest, s)
        /\ Head(queue).h = NB /\ Head(queue).what # "CLEAN_CONN_FSM"
    BY <2>1 DEF NewFsm, Starts
  <2>5. ASSUME NEW g \in FsmId
        PROVE  Head(queue) # CleanMsg(g) /\ Head(queue) # FsmMsg(g, "DEINIT")
    BY ZenonT(60), <2>4, CleaningMsgs
  <2>6. ASSUME NEW g \in FsmId, g \in fsmList', fsm'[g].isDead
        PROVE  CleanMsg(g) \in Msgs(queue')
    <3>1. g # f /\ g \in fsmList /\ fsm[g].isDead
      BY ZenonT(60), <2>4, <2>6 DEF Starts
    <3>2. CleanMsg(g) \in Msgs(queue)
      BY ZenonT(60), <3>1 DEF Cleaning
    <3> QED
      BY ZenonT(60), <2>4, <2>5, <3>2, MovedMsgs
  <2>7. ASSUME NEW g \in FsmId, g \notin fsmList', fsm'[g].alloc = "live"
        PROVE  FsmMsg(g, "DEINIT") \in Msgs(queue')
    <3>1. g # f /\ g \notin fsmList /\ fsm[g].alloc = "live"
      BY ZenonT(60), <2>4, <2>7 DEF Starts
    <3>2. FsmMsg(g, "DEINIT") \in Msgs(queue)
      BY ZenonT(60), <3>1 DEF Cleaning
    <3> QED
      BY ZenonT(60), <2>4, <2>5, <3>2, MovedMsgs
  <2> QED
    BY ZenonT(60), <2>6, <2>7 DEF Cleaning
<1>2. CASE Cleaned
  <2>1. PICK f \in fsmList : \E s :
          /\ Head(queue).connFsmId = f /\ Dispatch(NB, "CLEAN_CONN_FSM")
          /\ fsmList' = fsmList \ {f} /\ UNCHANGED <<fsm, timers, joinWait>>
          /\ f \in FsmId /\ Moves(Rest, s) /\ Stops(f, s)
    BY ZenonT(60), <1>2, CleanFacts
  <2>2. PICK s :
          /\ Head(queue).connFsmId = f /\ Dispatch(NB, "CLEAN_CONN_FSM")
          /\ fsmList' = fsmList \ {f} /\ fsm' = fsm
          /\ f \in FsmId /\ Moves(Rest, s) /\ Stops(f, s)
    BY <2>1
  <2>3. Head(queue).h = NB
    BY ZenonT(60), <2>2, TakenMsg
  <2>4. ASSUME NEW g \in FsmId, g \in fsmList', fsm'[g].isDead
        PROVE  CleanMsg(g) \in Msgs(queue')
    <3>1. g # f /\ CleanMsg(g) \in Msgs(queue)
      BY ZenonT(60), <2>2, <2>4 DEF Cleaning
    <3>2. Head(queue) # CleanMsg(g)
      BY ZenonT(60), <2>2, <3>1, CleaningMsgs
    <3> QED
      BY ZenonT(60), <2>2, <3>1, <3>2, MovedMsgs
  <2>5. ASSUME NEW g \in FsmId, g \notin fsmList', fsm'[g].alloc = "live"
        PROVE  FsmMsg(g, "DEINIT") \in Msgs(queue')
    <3>1. CASE g = f
      BY ZenonT(60), <2>2, <3>1, StopsMsgs, MovedMsgs
    <3>2. CASE g # f
      <4>1. FsmMsg(g, "DEINIT") \in Msgs(queue)
        BY ZenonT(60), <2>2, <2>5, <3>2 DEF Cleaning
      <4>2. Head(queue) # FsmMsg(g, "DEINIT")
        BY ZenonT(60), <2>3, CleaningMsgs
      <4> QED
        BY ZenonT(60), <2>2, <4>1, <4>2, MovedMsgs
    <3> QED
      BY <3>1, <3>2
  <2> QED
    BY ZenonT(60), <2>4, <2>5 DEF Cleaning
<1> QED
  BY <1>1, <1>2

\* Messages passed on, posted or refused touch no dead connection fsm.
LEMMA PassCleaning ==
  ASSUME IInv, Cleaning,
         \/ PassedOn \/ JoinRefused \/ PostedByOthers
         \/ \E f \in FsmId : JoinPassedTo(f)
  PROVE  Cleaning'
<1>1. /\ fsmList' = fsmList
      /\ \A g \in FsmId : fsm'[g].alloc = fsm[g].alloc /\ fsm'[g].isDead = fsm[g].isDead
  BY ZenonT(60) DEF PassedOn, JoinRefused, PostedByOthers, JoinPassedTo, listVars, SameFsm
<1>2. ASSUME NEW b, NEW s, Moves(b, s),
             b # queue => /\ Head(queue).h = NB
                          /\ Head(queue).what = "CLEAN_CONN_FSM" =>
                               Head(queue).connFsmId \notin fsmList
      PROVE  Cleaning'
  <2>1. b # queue => \A g \in FsmId :
          /\ g \in fsmList => Head(queue) # CleanMsg(g)
          /\ fsm'[g].alloc = "live" => Head(queue) # FsmMsg(g, "DEINIT")
    BY ZenonT(60), <1>2, CleaningMsgs
  <2>2. /\ \A g \in FsmId : fsm'[g].alloc = "live" => fsm[g].alloc = "live"
        /\ \A g \in FsmId : fsm'[g].isDead => fsm[g].isDead \/ CleanMsg(g) \in Msgs(s)
    BY ZenonT(60), <1>1
  <2> QED
    BY ZenonT(60), <1>1, <1>2, <2>1, <2>2, CleaningKept
<1>3. CASE PassedOn
  <2>1. PICK s, w : /\ Moves(Rest, s) /\ Dispatch(NB, w)
                    /\ w = "CLEAN_CONN_FSM" => Head(queue).connFsmId \notin fsmList
    BY ZenonT(60), <1>3, PassFacts
  <2>2. Head(queue).h = NB /\ Head(queue).what = w
    BY ZenonT(60), <2>1, TakenMsg
  <2> QED
    BY ZenonT(60), <1>2, <2>1, <2>2
<1>4. CASE JoinRefused \/ \E f \in FsmId : JoinPassedTo(f)
  <2>1. ASSUME Dispatch(NB, "JOIN_LNN_REQUEST")
        PROVE  Head(queue).h = NB /\ Head(queue).what # "CLEAN_CONN_FSM"
    <3>1. Head(queue).h = NB /\ Head(queue).what = "JOIN_LNN_REQUEST"
      BY ZenonT(60), <2>1, TakenMsg
    <3> QED
      BY <3>1
  <2>2. CASE JoinRefused
    <3>1. Moves(Rest, <<>>)
      BY ZenonT(60), <2>2, JoinMoves DEF JoinRefused
    <3> QED
      BY ZenonT(60), <1>2, <2>1, <2>2, <3>1 DEF JoinRefused
  <2>3. CASE \E f \in FsmId : JoinPassedTo(f)
    <3>1. PICK f \in FsmId : JoinPassedTo(f)
      BY <2>3
    <3>2. Moves(Rest, <<FsmMsg(f, "JOIN_LNN")>>)
      BY ZenonT(60), <3>1, JoinMoves DEF JoinPassedTo
    <3> QED
      BY ZenonT(60), <1>2, <2>1, <3>1, <3>2 DEF JoinPassedTo
  <2> QED
    BY <1>4, <2>2, <2>3
<1>5. CASE PostedByOthers
  <2>1. \E s : Moves(queue, s)
    BY ZenonT(60), <1>5, PostFacts
  <2> QED
    BY ZenonT(60), <1>2, <2>1
<1> QED
  BY <1>3, <1>4, <1>5

\* Every step keeps dead connection fsms on their way out.
LEMMA CleaningStep ==
  ASSUME IInv, Counted, Cleaning, AnyStep
  PROVE  Cleaning'
<1>1. AnyStep
  OBVIOUS
<1>2. CASE UNCHANGED <<queue, timers, fsm, listVars, joinWait>>
  BY ZenonT(60), <1>2 DEF Cleaning, Msgs, listVars
<1> QED
  BY ZenonT(60), <1>1, <1>2, FsmCleaning, StopCleaning, ListCleaning, PassCleaning
     DEF AnyStep

-----------------------------------------------------------------------------
(* A connection fsm that waits has its timeout. *)

\* A key message is only on its way to a connection fsm with an authentication.
Keyed ==
  \A m \in Msgs(queue) :
    m.h # NB /\ m.what = "AUTH_KEY_GENERATED" => fsm[m.h].authId # 0

\* The timeout of the connection fsm with record r is armed if it has to be.
Waits(r, armed) ==
  r.alloc = "live" /\ ~r.isDead /\ ~Passive(r) =>
    /\ r.curState = "NULL" => r.authId = 0
    /\ r.curState = "AUTH" /\ r.authId # 0 => armed
    /\ r.curState = "SYNC_DEVICE_INFO" => armed

Waiting == \A f \in FsmId : Waits(fsm[f], Armed(f, timers))

\* Authentications are kept by the fsms that key messages are on their way to.
LEMMA KeyedKept ==
  ASSUME IInv, Keyed, NEW b, NEW s, Moves(b, s),
         \A m \in Msgs(b) : m.h # NB /\ fsm[m.h].authId # 0 => fsm'[m.h].authId # 0,
         \A m \in Msgs(s) : m.h # NB /\ m.what = "AUTH_KEY_GENERATED" =>
                             fsm'[m.h].authId # 0
  PROVE  Keyed'
<1>1. ASSUME NEW m \in Msgs(queue'), m.h # NB, m.what = "AUTH_KEY_GENERATED"
      PROVE  fsm'[m.h].authId # 0
  <2>1. (m \in Msgs(b) /\ m \in Msgs(queue)) \/ m \in Msgs(s)
    BY ZenonT(60), MovedMsgs
  <2> QED
    BY ZenonT(60), <1>1, <2>1 DEF Keyed
<1> QED
  BY ZenonT(60), <1>1 DEF Keyed

\* A connection fsm that begins to wait arms its timeout, or had armed it.
LEMMA FsmWaiting ==
  ASSUME IInv, Keyed, Waiting, NEW f \in FsmId, NEW b, NEW w, FsmEffect(f, b, w),
         b = queue \/ (queue # <<>> /\ b = Rest),
         w = "AUTH_KEY_GENERATED" => fsm[f].authId # 0
  PROVE  Keyed' /\ Waiting'
<1>1. /\ Others(f) /\ JoinEffect(fsm[f], fsm'[f], joinWait, joinWait')
      /\ WaitEffect(f, fsm[f], fsm'[f], timers, timers', w)
  BY DEF FsmEffect
<1>2. \A g \in FsmId : fsm[g].authId # 0 => fsm'[g].authId # 0
  BY ZenonT(60), <1>1 DEF Others, JoinEffect
<1>3. Keyed'
  <2>1. PICK s : Moves(b, s) /\ \A m \in Msgs(s) : FromFsm(f, m)
    BY ZenonT(60), ActsPosts
  <2>2. ASSUME NEW m \in Msgs(b), m.h # NB, fsm[m.h].authId # 0
        PROVE  fsm'[m.h].authId # 0
    <3>1. m \in Msgs(queue)
      BY ZenonT(60), <2>1, MovedMsgs
    <3>2. m.h \in FsmId
      BY ZenonT(60), <2>2, <3>1, QueuedMsgs
    <3> QED
      BY ZenonT(60), <1>2, <2>2, <3>2
  <2>3. ASSUME NEW m \in Msgs(s), m.h # NB PROVE m.what # "AUTH_KEY_GENERATED"
    <3>1. FromFsm(f, m) /\ CleanMsg(f).h = NB
      BY ZenonT(60), <2>1, CleaningMsgs
    <3>2. m.what \in {"SYNC_DEVICE_INFO", "LEAVE_INVALID_CONN"}
      BY ZenonT(60), <2>3, <3>1 DEF FromFsm
    <3> QED
      BY <3>2
  <2> QED
    BY ZenonT(60), <2>1, <2>2, <2>3, KeyedKept
<1>4. Waits(fsm'[f], Armed(f, timers'))
  <2>1. Waits(fsm[f], Armed(f, timers))
    BY DEF Waiting
  <2> QED
    BY ZenonT(60), <1>1, <2>1 DEF Waits, WaitEffect, JoinEffect
<1>5. ASSUME NEW g \in FsmId, g # f PROVE Waits(fsm'[g], Armed(g, timers'))
  BY ZenonT(60), <1>1, <1>5 DEF Others, Waiting, Waits
<1>6. Waiting'
  BY ZenonT(60), <1>4, <1>5 DEF Waiting, Armed
<1> QED
  BY <1>3, <1>6

\* The timeouts stay, and every connection fsm keeps its state or is dead or gone.
LEMMA WaitingKept ==
  ASSUME Waiting, timers' = timers,
         \A g \in FsmId : SameFsm(fsm[g], fsm'[g]) \/ fsm'[g].isDead
                         \/ fsm'[g].alloc # "live"
  PROVE  Waiting'
<1>1. ASSUME NEW g \in FsmId PROVE Waits(fsm'[g], Armed(g, timers'))
  <2>1. Waits(fsm[g], Armed(g, timers))
    BY DEF Waiting
  <2> QED
    BY ZenonT(60), <2>1 DEF Waits, SameFsm
<1> QED
  BY ZenonT(60), <1>1 DEF Waiting, Armed

\* Every step keeps the authentications and the timeouts that are waited for.
LEMMA WaitingStep ==
  ASSUME IInv, Counted, Keyed, Waiting, AnyStep
  PROVE  Keyed' /\ Waiting'
<1>0. AnyStep
  OBVIOUS
<1>1. ASSUME NEW f \in FsmId, FsmReacts(f) \/ FsmEffect(f, queue, "")
      PROVE  Keyed' /\ Waiting'
  <2>1. CASE FsmReacts(f)
    <3>1. PICK w : Dispatch(f, w) /\ FsmEffect(f, Rest, w)
      BY <2>1 DEF FsmReacts
    <3>2. /\ queue # <<>> /\ Head(queue) \in Msgs(queue) /\ f # NB
          /\ Head(queue).h = f /\ Head(queue).what = w
      BY ZenonT(60), <3>1, TakenMsg, CleaningMsgs
    <3>3. w = "AUTH_KEY_GENERATED" => fsm[f].authId # 0
      BY ZenonT(60), <3>2 DEF Keyed
    <3> QED
      BY ZenonT(60), <3>1, <3>2, <3>3, FsmWaiting
  <2>2. CASE FsmEffect(f, queue, "")
    <3>1. "" # "AUTH_KEY_GENERATED"
      OBVIOUS
    <3> QED
      BY ZenonT(60), <2>2, <3>1, FsmWaiting
  <2> QED
    BY <1>1, <2>1, <2>2
<1>2. ASSUME NEW f \in FsmId, ProcessStopMessage(f) \/ ProcessDeinitMessage(f)
      PROVE  Keyed' /\ Waiting'
  <2>1. /\ Moves(Rest, <<>>) /\ timers' = timers
        /\ \A g \in FsmId : g # f => fsm'[g] = fsm[g]
        /\ \/ fsm'[f].isDead /\ fsm'[f].authId = fsm[f].authId
           \/ fsm'[f].alloc = "freed" /\ \A m \in Msgs(queue') : m.h # f
    BY ZenonT(60), <1>2, StopFacts
  <2>2. Msgs(Rest) \subseteq Msgs(queue') /\ Msgs(Rest) \subseteq Msgs(queue)
    BY ZenonT(60), <2>1, MovedMsgs
  <2>3. ASSUME NEW m \in Msgs(Rest), m.h # NB, fsm[m.h].authId # 0
        PROVE  fsm'[m.h].authId # 0
    <3>1. m.h \in FsmId
      BY ZenonT(60), <2>2, <2>3, QueuedMsgs
    <3> QED
      BY ZenonT(60), <2>1, <2>2, <2>3, <3>1
  <2>4. Keyed'
    BY ZenonT(60), <2>1, <2>3, KeyedKept, FewMsgs
  <2>5. "freed" # "live"
    OBVIOUS
  <2>6. Waiting'
    BY ZenonT(60), <2>1, <2>5, WaitingKept DEF SameFsm
  <2> QED
    BY <2>4, <2>6
<1>3. ASSUME NEW s, Moves(Rest, s) \/ Moves(queue, s), timers' = timers,
             \A g \in FsmId : SameFsm(fsm[g], fsm'[g]),
             \A m \in Msgs(s) : m.h # NB /\ m.what = "AUTH_KEY_GENERATED" =>
                                 m.h \in FsmId /\ fsm[m.h].authId # 0
      PROVE  Keyed' /\ Waiting'
  <2>1. \A g \in FsmId : fsm'[g].authId = fsm[g].authId
    BY ZenonT(60), <1>3 DEF SameFsm
  <2>2. ASSUME NEW m \in Msgs(queue), m.h # NB, fsm[m.h].authId # 0
        PROVE  fsm'[m.h].authId # 0
    BY ZenonT(60), <2>1, <2>2, QueuedMsgs
  <2>3. \A m \in Msgs(s) : m.h # NB /\ m.what = "AUTH_KEY_GENERATED" =>
                            fsm'[m.h].authId # 0
    BY ZenonT(60), <1>3, <2>1
  <2>4. PICK b : b \in {queue, Rest} /\ Moves(b, s)
    BY ZenonT(60), <1>3
  <2>5. Msgs(b) \subseteq Msgs(queue)
    BY ZenonT(60), <2>4, MovedMsgs
  <2>6. \A m \in Msgs(b) : m.h # NB /\ fsm[m.h].authId # 0 => fsm'[m.h].authId # 0
    BY ZenonT(60), <2>2, <2>5
  <2>7. Keyed'
    BY ZenonT(60), <2>3, <2>4, <2>6, KeyedKept
  <2> QED
    BY ZenonT(60), <1>3, <2>7, WaitingKept
<1>4. fsm' = fsm => \A g \in FsmId : SameFsm(fsm[g], fsm'[g])
  BY ZenonT(60) DEF SameFsm
<1>5. CASE PassedOn
  <2>1. PICK s : Moves(Rest, s) /\ \A m \in Msgs(s) :
                        /\ m.h \in fsmList
                        /\ m.what = "AUTH_KEY_GENERATED" => fsm[m.h].authId # 0
    BY ZenonT(60), <1>5, PassFacts
  <2>2. fsmList \subseteq FsmId
    BY ZenonT(60) DEF IInv, TypeOK
  <2>3. /\ timers' = timers /\ \A g \in FsmId : SameFsm(fsm[g], fsm'[g])
        /\ \A m \in Msgs(s) : m.h # NB /\ m.what = "AUTH_KEY_GENERATED" =>
                               m.h \in FsmId /\ fsm[m.h].authId # 0
    BY ZenonT(60), <1>5, <2>1, <2>2 DEF PassedOn
  <2> QED
    BY ZenonT(60), <1>3, <2>1, <2>3
<1>6. ASSUME NEW f \in FsmId, JoinPassedTo(f) PROVE Keyed' /\ Waiting'
  <2>1. /\ Moves(Rest, <<FsmMsg(f, "JOIN_LNN")>>)
        /\ Msgs(<<FsmMsg(f, "JOIN_LNN")>>) = {FsmMsg(f, "JOIN_LNN")}
        /\ FsmMsg(f, "JOIN_LNN").what = "JOIN_LNN"
        /\ timers' = timers /\ \A g \in FsmId : SameFsm(fsm[g], fsm'[g])
    BY ZenonT(60), <1>6, JoinMoves DEF JoinPassedTo
  <2>2. \A m \in Msgs(<<FsmMsg(f, "JOIN_LNN")>>) : m.what # "AUTH_KEY_GENERATED"
    BY ZenonT(60), <2>1
  <2> QED
    BY ZenonT(60), <1>3, <2>1, <2>2
<1>7. CASE JoinRefused
  <2>1. Moves(Rest, <<>>) /\ timers' = timers /\ fsm' = fsm
    BY ZenonT(60), <1>7, JoinMoves DEF JoinRefused
  <2>2. \A m : m \notin Msgs(<<>>)
    BY FewMsgs
  <2> QED
    BY ZenonT(60), <1>3, <1>4, <2>1, <2>2
<1>8. CASE PostedByOthers
  <2>1. PICK m \in Message : /\ Moves(queue, <<m>>) /\ Msgs(<<m>>) = {m} /\ m.h = NB
                             /\ timers' = timers /\ fsm' = fsm
    BY ZenonT(60), <1>8, PostFacts
  <2>2. \A n \in Msgs(<<m>>) : n.h = NB
    BY ZenonT(60), <2>1
  <2> QED
    BY ZenonT(60), <1>3, <1>4, <2>1, <2>2
<1>9. CASE Created
  <2>1. PICK f, s, a, id, flags, w : NewFsm(f, s, a, id, flags, w)
    BY <1>9, CreateFacts
  <2>2. /\ Starts(f, s, a, id, flags, w) /\ f \in FsmId /\ Moves(Rest, s)
        /\ id # 0 => "JOIN_PASSIVE" \in flags
        /\ w # "JOIN_LNN" => id # 0
        /\ fsm[f].alloc = "none" /\ fsm'[f].authId = id
        /\ \A g \in FsmId : g # f => fsm'[g] = fsm[g]
        /\ \A m \in Msgs(s) : m.h = f /\ m.what \in {"START", w}
    BY ZenonT(60), <2>1 DEF NewFsm, Starts
  <2>3. ASSUME NEW m \in Msgs(Rest), m.h # NB, fsm[m.h].authId # 0
        PROVE  fsm'[m.h].authId # 0
    <3>1. m \in Msgs(queue)
      BY ZenonT(60), <2>2, MovedMsgs
    <3>2. m.h \in FsmId /\ fsm[m.h].alloc = "live"
      BY ZenonT(60), <2>3, <3>1, QueuedMsgs
    <3>3. m.h # f
      BY SMTT(60), <2>2, <3>2
    <3> QED
      BY ZenonT(60), <2>2, <2>3, <3>2, <3>3
  <2>4. ASSUME NEW m \in Msgs(s), m.what = "AUTH_KEY_GENERATED"
        PROVE  fsm'[m.h].authId # 0
    BY ZenonT(60), <2>2, <2>4
  <2>5. Keyed'
    BY ZenonT(60), <2>2, <2>3, <2>4, KeyedKept
  <2>6. ASSUME NEW g \in FsmId PROVE Waits(fsm'[g], Armed(g, timers'))
    <3>1. CASE g = f
      BY ZenonT(60), <2>2, <3>1 DEF Waits, Passive, Starts
    <3>2. CASE g # f
      BY ZenonT(60), <2>2, <3>2 DEF Waiting, Waits, Starts
    <3> QED
      BY <3>1, <3>2
  <2>7. Waiting'
    BY ZenonT(60), <2>6 DEF Waiting, Armed
  <2> QED
    BY <2>5, <2>7
<1>10. CASE Cleaned
  <2>1. PICK f \in fsmList : \E s : /\ timers' = timers /\ fsm' = fsm /\ f \in FsmId
                                    /\ Moves(Rest, s) /\ Stops(f, s)
    BY ZenonT(60), <1>10, CleanFacts
  <2>2. PICK s : Moves(Rest, s) /\ Stops(f, s)
    BY <2>1
  <2>3. ASSUME NEW m \in Msgs(s) PROVE m.what # "AUTH_KEY_GENERATED"
    <3>1. m.what \in {"STOP", "DEINIT", "INITIATE_ONLINE"}
      BY ZenonT(60), <2>1, <2>2, StopsMsgs
    <3> QED
      BY <3>1
  <2> QED
    BY ZenonT(60), <1>3, <1>4, <2>1, <2>2, <2>3
<1>11. CASE UNCHANGED <<queue, timers, fsm, listVars, joinWait>>
  BY ZenonT(60), <1>11 DEF Keyed, Waiting, Waits, Armed, Msgs
<1> QED
  BY ZenonT(60), <1>0, <1>1, <1>2, <1>5, <1>6, <1>7, <1>8, <1>9, <1>10, <1>11 DEF AnyStep

-----------------------------------------------------------------------------
(* The theorems. *)

JoinInv == Cleaning /\ Keyed /\ Waiting

\* The bookkeeping of clean-ups and timeouts holds before the first request.
LEMMA JoinInit ==
  ASSUME Init
  PROVE  JoinInv
<1>1. /\ queue = <<>> /\ fsmList = {}
      /\ \A f \in FsmId : fsm[f] = NoFsm
  BY ZenonT(60) DEF Init
<1>2. Msgs(queue) = {}
  BY ZenonT(60), <1>1, FewMsgs
<1>3. NoFsm.alloc # "live" /\ ~NoFsm.isDead
  BY SMTT(60) DEF NoFsm
<1>4. Cleaning
  BY ZenonT(60), <1>1, <1>3 DEF Cleaning
<1>5. Keyed
  BY ZenonT(60), <1>2 DEF Keyed
<1>6. Waiting
  BY ZenonT(60), <1>1, <1>3 DEF Waiting, Waits
<1> QED
  BY <1>4, <1>5, <1>6 DEF JoinInv

\* It is kept by every step of the net builder and its environment.
LEMMA JoinStep ==
  ASSUME IInv, Counted, JoinInv, AnyStep
  PROVE  JoinInv'
<1>1. Cleaning /\ Keyed /\ Waiting
  BY DEF JoinInv
<1>2. Cleaning' /\ Keyed' /\ Waiting'
  BY ZenonT(60), <1>1, CleaningStep, WaitingStep
<1> QED
  BY <1>2 DEF JoinInv

\* A message is queued at some place of the queue.
LEMMA QueuedPlace ==
  ASSUME IInv
  PROVE  /\ queue \in Seq(Message) /\ Len(queue) \in Nat /\ DOMAIN queue = 1 .. Len(queue)
         /\ \A m : m \in Msgs(queue) <=> \E i \in DOMAIN queue : queue[i] = m
<1>1. queue \in Seq(Message)
  BY ZenonT(60) DEF IInv, TypeOK
<1>2. Len(queue) \in Nat /\ DOMAIN queue = 1 .. Len(queue)
  BY SMTT(60), <1>1
<1> QED
  BY ZenonT(60), <1>1, <1>2 DEF Msgs

\* What Cleaning says of a dead connection fsm is what DeadFsmBeingCleaned does.
LEMMA CleaningMeans ==
  ASSUME IInv, JoinInv
  PROVE  DeadFsmBeingCleaned
<1>1. Cleaning
  BY DEF JoinInv
<1> QED
  BY ZenonT(60), <1>1, QueuedPlace DEF Cleaning, DeadFsmBeingCleaned, Queued

\* What Waiting says of a connection fsm that waits is what JoinTimeoutArmed does.
LEMMA WaitingMeans ==
  ASSUME IInv, JoinInv
  PROVE  JoinTimeoutArmed
<1>1. ASSUME NEW f \in fsmList, ~fsm[f].isDead, "JOIN_PASSIVE" \notin fsm[f].flag,
             \/ InState(f, "AUTH") /\ fsm[f].authId > 0
             \/ InState(f, "SYNC_DEVICE_INFO")
      PROVE  <<f, "JOIN_LNN_TIMEOUT">> \in timers
  <2>1. f \in FsmId /\ fsm[f].alloc = "live"
    BY ZenonT(60), <1>1, Listed
  <2>2. Waits(fsm[f], Armed(f, timers))
    BY ZenonT(60), <1>1, <2>1 DEF JoinInv, Waiting
  <2>3. fsm[f].authId > 0 => fsm[f].authId # 0
    BY SMTT(60)
  <2> QED
    BY ZenonT(60), <1>1, <2>1, <2>2, <2>3 DEF Waits, Passive, Armed, InState
<1> QED
  BY ZenonT(60), <1>1 DEF JoinTimeoutArmed

=============================================================================
