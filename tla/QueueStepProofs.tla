-------------------------- MODULE QueueStepProofs ---------------------------
(***************************************************************************)
(* What holds of the ring queue of softbus_queue.h for any number of       *)
(* threads, any number of slots and any width of the counters, and that    *)
(* every step keeps it.                                                    *)
(*                                                                         *)
(* The counters wrap, so that the order of two of them means nothing by    *)
(* itself. The invariant is stated over positions: how far a counter is    *)
(* from the value st at which the queue was started.                       *)
(***************************************************************************)
EXTENDS LockFreeQueue, TLAPS

Pos(st, v) == IF st <= v THEN v - st ELSE v - st + Wrap

SlotAt(st, n) == (st + n) % unitNum

(* What the proofs use of the number of threads of a finite set.              *)
Counted(S) ==
    /\ Cardinality(S) \in Nat /\ (S = {} => Cardinality(S) = 0)
    /\ \A s, t \in S : s # t => Cardinality(S) > 1
    /\ \A t : /\ t \notin S => Cardinality(S \cup {t}) = Cardinality(S) + 1
              /\ t \in S => Cardinality(S \ {t}) = Cardinality(S) - 1

(* The constants, and that the sets of threads of a crew are counted: crews   *)
(* are finite, and LockFreeQueueProofs derives the second from the first.      *)
CrewsCounted == \A k \in Crews : \A S \in SUBSET k : Counted(S)
QueueSetting == QueueConstants /\ CrewsCounted

(* The remainders the code takes, for arguments no further off than it meets. *)
LEMMA Remainders ==
    ASSUME NEW a \in Int, NEW b \in Int, b > 0
    PROVE  /\ 0 <= a /\ a < b => a % b = a
           /\ b <= a /\ a < b + b => a % b = a - b
           /\ -b <= a /\ a < 0 => a % b = a + b
<1>1. /\ a % b \in Int /\ 0 <= a % b /\ a % b < b
      /\ a = b * (a \div b) + (a % b) /\ (a \div b) \in Int
    BY SMTT(60)
<1> DEFINE r == a % b
           d == a \div b
<1>2. /\ r \in Int /\ d \in Int /\ 0 <= r /\ r < b /\ a = b * d + r
    BY ZenonT(60), <1>1
<1> HIDE DEF r, d
<1>3. ASSUME 0 <= a, a < b PROVE r = a
    <2>1. d = 0
        BY SMTT(60), <1>2, <1>3
    <2> QED
        BY SMTT(60), <1>2, <2>1
<1>4. ASSUME b <= a, a < b + b PROVE r = a - b
    <2>1. d = 1
        BY SMTT(60), <1>2, <1>4
    <2> QED
        BY SMTT(60), <1>2, <2>1
<1>5. ASSUME -b <= a, a < 0 PROVE r = a + b
    <2>1. d = -1
        BY SMTT(60), <1>2, <1>5
    <2> QED
        BY SMTT(60), <1>2, <2>1
<1> QED
    BY ZenonT(60), <1>3, <1>4, <1>5 DEF r

(* Two numbers with the same remainder differ by a multiple of the divisor.  *)
LEMMA SameRemainder ==
    ASSUME NEW a \in Int, NEW c \in Int, NEW b \in Int, b > 0
    PROVE  a % b = c % b /\ a < c => c - a >= b
<1> DEFINE ra == a % b
           da == a \div b
           rc == c % b
           dc == c \div b
<1>1. /\ ra \in Int /\ da \in Int /\ 0 <= ra /\ ra < b /\ a = b * da + ra
      /\ rc \in Int /\ dc \in Int /\ 0 <= rc /\ rc < b /\ c = b * dc + rc
    BY SMTT(60)
<1> HIDE DEF ra, da, rc, dc
<1>0. \A x \in Int : x >= 1 => b * x >= b
    BY SMTT(60)
<1>2. ASSUME ra = rc, a < c PROVE c - a >= b
    <2>1. c - a = b * (dc - da) /\ dc - da \in Int
        BY SMTT(60), <1>1, <1>2
    <2>2. dc - da >= 1
        <3>1. \A x \in Int : x <= 0 => b * x <= 0
            BY SMTT(60)
        <3> QED
            BY SMTT(60), <1>2, <2>1, <3>1
    <2> QED
        BY SMTT(60), <1>0, <2>1, <2>2
<1> QED
    BY ZenonT(60), <1>2 DEF ra, rc

(* Adding a multiple of the divisor keeps the remainder.                     *)
LEMMA MultipleAdded ==
    ASSUME NEW a \in Int, NEW b \in Int, b > 0, NEW k \in Int, NEW m \in Int, m = b * k
    PROVE  (a + m) % b = a % b
<1> DEFINE c == a + m
<1>1. c \in Int /\ c = a + b * k
    BY SMTT(60)
<1> HIDE DEF c
<1> DEFINE ra == a % b
           da == a \div b
           rc == c % b
           dc == c \div b
<1>2. /\ ra \in Int /\ da \in Int /\ 0 <= ra /\ ra < b /\ a = b * da + ra
      /\ rc \in Int /\ dc \in Int /\ 0 <= rc /\ rc < b /\ c = b * dc + rc
    BY SMTT(60), <1>1
<1> HIDE DEF ra, da, rc, dc
<1>3. /\ rc - ra = b * (da + k - dc) /\ da + k - dc \in Int
    BY SMTT(60), <1>1, <1>2
<1>4. da + k - dc < 1
    <2>1. \A x \in Int : x >= 1 => b * x >= b
        BY SMTT(60)
    <2> QED
        BY SMTT(60), <1>2, <1>3, <2>1
<1>5. da + k - dc > -1
    <2>1. \A x \in Int : x <= -1 => b * x <= -b
        BY SMTT(60)
    <2> QED
        BY SMTT(60), <1>2, <1>3, <2>1
<1>6. da + k - dc = 0
    BY SMTT(60), <1>2, <1>4, <1>5
<1>7. ra = rc
    BY SMTT(60), <1>2, <1>3, <1>6
<1> QED
    BY ZenonT(60), <1>7 DEF ra, rc, c

(* A position is as large as a counter, and tells counters apart.           *)
LEMMA PosType ==
    ASSUME QueueSetting, NEW st \in Counter, NEW v \in Counter
    PROVE  /\ Pos(st, v) \in Counter /\ Pos(st, v) \in Nat
           /\ \A w \in Counter : Pos(st, v) = Pos(st, w) => v = w
BY SMTT(60) DEF Pos, Counter, QueueSetting, QueueConstants

(* A counter that is incremented, wrapping or not, moves on by one position. *)
LEMMA PosNext ==
    ASSUME QueueSetting, NEW st \in Counter, NEW v \in Counter, Pos(st, v) + 1 < Wrap
    PROVE  /\ Plus(v, 1) \in Counter
           /\ Pos(st, Plus(v, 1)) = Pos(st, v) + 1
<1>1. Wrap \in Int /\ Wrap > 0 /\ v \in Int /\ v + 1 \in Int /\ 0 <= v /\ v < Wrap
    BY SMTT(60) DEF Counter, QueueSetting, QueueConstants
<1>2. CASE v + 1 < Wrap
    <2>1. Plus(v, 1) = v + 1
        BY SMTT(60), <1>1, <1>2, Remainders DEF Plus
    <2> QED
        BY SMTT(60), <1>1, <1>2, <2>1 DEF Pos, Counter, QueueSetting, QueueConstants
<1>3. CASE v + 1 = Wrap
    <2>1. Plus(v, 1) = 0
        BY SMTT(60), <1>1, <1>3, Remainders DEF Plus
    <2> QED
        BY SMTT(60), <1>1, <1>3, <2>1 DEF Pos, Counter, QueueSetting, QueueConstants
<1> QED
    BY SMTT(60), <1>1, <1>2, <1>3

(* The difference of two counters, and of a counter plus mask and another, is *)
(* that of their positions.                                                 *)
LEMMA PosDiff ==
    ASSUME QueueSetting, NEW st \in Counter, NEW v \in Counter, NEW w \in Counter,
           NEW k \in 0 .. mask, Pos(st, w) <= Pos(st, v) + k, Pos(st, v) + k < Wrap
    PROVE  Minus(k + v, w) = Pos(st, v) + k - Pos(st, w)
<1> DEFINE x == Pos(st, v) + k - Pos(st, w)
           y == (k + v) - w
<1>1. /\ Wrap \in Int /\ Wrap > 0 /\ x \in Int /\ y \in Int /\ 0 <= x /\ x < Wrap
      /\ y = x \/ y = x + Wrap \/ y = x - Wrap
    BY SMTT(60) DEF Pos, Counter, QueueSetting, QueueConstants, mask
<1> HIDE DEF x, y
<1>2. y % Wrap = x
    BY SMTT(60), <1>1, Remainders
<1>3. Minus(k + v, w) = y % Wrap
    BY ZenonT(60) DEF Minus, y
<1> QED
    BY ZenonT(60), <1>2, <1>3 DEF x

(* The slot of a counter, and of one some way ahead of it, is that of the    *)
(* position: unitNum divides the value at which the counters wrap.           *)
LEMMA SlotPos ==
    ASSUME QueueSetting, NEW st \in Counter, NEW v \in Counter, NEW j \in Nat
    PROVE  /\ Slot(v + j) = SlotAt(st, Pos(st, v) + j)
           /\ Slot(v) = SlotAt(st, Pos(st, v))
<1>1. /\ unitNum \in Int /\ unitNum > 0 /\ st \in Int /\ v \in Int /\ Wrap \in Int
    BY SMTT(60) DEF Counter, QueueSetting, QueueConstants
<1>2. PICK k \in Int : Wrap = unitNum * k
    <2>1. (Wrap \div unitNum) \in Int /\ Wrap = unitNum * (Wrap \div unitNum)
        BY SMTT(60), <1>1 DEF QueueSetting, QueueConstants
    <2> QED
        BY ZenonT(60), <2>1
<1>3. ASSUME NEW x \in Int PROVE (x + Wrap) % unitNum = x % unitNum
    BY ZenonT(60), <1>1, <1>2, MultipleAdded
<1>4. ASSUME NEW i \in Nat PROVE Slot(v + i) = SlotAt(st, Pos(st, v) + i)
    <2>1. CASE st <= v
        <3>1. st + (Pos(st, v) + i) = v + i
            BY SMTT(60), <1>1, <2>1 DEF Pos
        <3> QED
            BY ZenonT(60), <3>1 DEF Slot, SlotAt
    <2>2. CASE ~(st <= v)
        <3>1. st + (Pos(st, v) + i) = (v + i) + Wrap /\ v + i \in Int
            BY SMTT(60), <1>1, <2>2 DEF Pos
        <3> QED
            BY ZenonT(60), <1>3, <3>1 DEF Slot, SlotAt
    <2> QED
        BY ZenonT(60), <2>1, <2>2
<1>5. v + 0 = v /\ Pos(st, v) + 0 = Pos(st, v)
    BY SMTT(60), <1>1 DEF Pos
<1>6. 0 \in Nat
    BY SMT
<1>7. Slot(v + 0) = SlotAt(st, Pos(st, v) + 0)
    BY ZenonT(60), <1>4, <1>6
<1> QED
    BY ZenonT(60), <1>4, <1>5, <1>7

(* Positions less than unitNum apart have slots of their own.               *)
LEMMA SlotsDiffer ==
    ASSUME QueueSetting, NEW st \in Counter, NEW m \in Nat, NEW n \in Nat,
           m # n, m <= n + mask, n <= m + mask
    PROVE  SlotAt(st, m) # SlotAt(st, n)
<1>1. /\ unitNum \in Int /\ unitNum > 0 /\ st \in Int /\ mask = unitNum - 1
      /\ st + m \in Int /\ st + n \in Int
    BY SMTT(60) DEF Counter, QueueSetting, QueueConstants, mask
<1>2. CASE m < n
    BY SMTT(60), <1>1, <1>2, SameRemainder DEF SlotAt
<1>3. CASE n < m
    BY SMTT(60), <1>1, <1>3, SameRemainder DEF SlotAt
<1> QED
    BY SMTT(60), <1>2, <1>3

(* A slot is one of the queue's.                                            *)
LEMMA SlotType ==
    ASSUME QueueSetting, NEW st \in Counter, NEW n \in Nat
    PROVE  SlotAt(st, n) \in 0 .. mask
<1>1. /\ unitNum \in Int /\ unitNum > 0 /\ st + n \in Int /\ mask = unitNum - 1
    BY SMTT(60) DEF Counter, QueueSetting, QueueConstants, mask
<1> QED
    BY SMTT(60), <1>1 DEF SlotAt

-----------------------------------------------------------------------------

Putters == crew \cap Producers

Takers == crew \cap Consumers

PcPos(st) == [t \in Threads |-> Pos(st, local[t].head)]

Within(side) == {t \in side : InSlot(t)}

Claiming == {p \in Putters : pc[p] \in {"head", "check", "claim"}}

(* Between tail and head, in the order of the counters, each position has    *)
(* exactly one thread: one that claimed it and is not done.                  *)
Turns(I, pos, tail, head) ==
    /\ tail <= head
    /\ \A t \in I : tail <= pos[t] /\ pos[t] < head
    /\ \A s, t \in I : pos[s] = pos[t] => s = t
    /\ \A n \in Nat : tail <= n /\ n < head => \E t \in I : pos[t] = n

(* What the positions say of each other: the four counters stand in their     *)
(* order, one slot stays free, and a slot is claimed once for each call.      *)
Order(st) ==
    /\ Pos(st, consumer.head) <= Pos(st, producer.tail)
    /\ Pos(st, producer.head) <= Pos(st, consumer.tail) + mask
    /\ Pos(st, producer.head) + Cardinality(Claiming) <= calls

(* Every slot between the two tails holds a node.                            *)
Filled(st) ==
    \A n \in Nat : Pos(st, consumer.tail) <= n /\ n < Pos(st, producer.tail)
                   => nodes[SlotAt(st, n)] \in Node

(* A head that was read is never ahead of the counter, and not behind it when *)
(* no other thread is on the side; a check that was passed stays passed; and a *)
(* node that was stored stays in its slot until it is published.              *)
PutterOK(st, p) ==
    /\ ret[p] = CALLING <=> pc[p] # "idle"
    /\ pc[p] \in {"idle", "head", "check", "claim", "store", "publish"}
    /\ pc[p] # "idle" => local[p].node \in Node
    /\ pc[p] \in {"check", "claim"} =>
         /\ PcPos(st)[p] <= Pos(st, producer.head)
         /\ SafeProducer \/ PcPos(st)[p] = Pos(st, producer.head)
    /\ pc[p] = "claim" => PcPos(st)[p] < Pos(st, consumer.tail) + mask
    /\ pc[p] = "publish" => nodes[Slot(local[p].head)] = local[p].node

TakerOK(st, c) ==
    /\ ret[c] = CALLING <=> pc[c] # "idle"
    /\ pc[c] \in {"idle", "head", "check", "claim", "copy", "release"}
    /\ pc[c] \in {"head", "check", "claim"} => local[c].node = NULL
    /\ pc[c] = "release" => local[c].node \in Node
    /\ pc[c] \in {"check", "claim"} =>
         /\ PcPos(st)[c] <= Pos(st, consumer.head)
         /\ SafeConsumer \/ PcPos(st)[c] = Pos(st, consumer.head)
    /\ pc[c] = "claim" => PcPos(st)[c] < Pos(st, producer.tail)

PutTurns(st) ==
    Turns(Within(Putters), PcPos(st), Pos(st, producer.tail), Pos(st, producer.head))

TakeTurns(st) ==
    Turns(Within(Takers), PcPos(st), Pos(st, consumer.tail), Pos(st, consumer.head))

(* The inductive invariant of a queue that was started at st.                *)
QInv(st) ==
    /\ TypeOK /\ \A t \in Threads \ crew : pc[t] = "idle"
    /\ PutTurns(st) /\ TakeTurns(st) /\ Order(st) /\ Filled(st)
    /\ \A p \in Putters : PutterOK(st, p)
    /\ \A c \in Takers : TakerOK(st, c)

(* One thread moves, the others stay where they are.                        *)
Moves(t, from, to) ==
    /\ crew' = crew /\ pc[t] = from /\ pc'[t] = to
    /\ \A s \in Threads : s # t => /\ pc'[s] = pc[s] /\ local'[s] = local[s]
                                   /\ ret'[s] = ret[s]

(* What the invariant says of a producer thread inside a call.                *)
LEMMA PutterBusy ==
    ASSUME NEW st, NEW p, PutterOK(st, p), pc[p] \in {"head", "check", "claim", "store", "publish"}
    PROVE  /\ ret[p] = CALLING /\ local[p].node \in Node
           /\ pc[p] = "publish" => nodes[Slot(local[p].head)] = local[p].node
BY SMTT(60) DEF PutterOK

(* What the invariant says of a consumer thread inside a call.                *)
LEMMA TakerBusy ==
    ASSUME NEW st, NEW c, TakerOK(st, c), pc[c] \in {"head", "check", "claim", "copy", "release"}
    PROVE  /\ ret[c] = CALLING /\ (pc[c] \in {"head", "check", "claim"} => local[c].node = NULL)
           /\ pc[c] = "release" => local[c].node \in Node
BY SMTT(60) DEF TakerOK

(* A producer thread that has returned.                                     *)
LEMMA PutterIdle ==
    ASSUME NEW st, NEW p, pc'[p] = "idle", ret'[p] \in {"OK", "QUEUE_FULL"}
    PROVE  PutterOK(st, p)'
BY SMTT(60) DEF PutterOK, CALLING

(* A producer thread that reads the head, or stores its node.                 *)
LEMMA PutterGoesOn ==
    ASSUME NEW st, NEW p, pc'[p] = "head" \/ pc'[p] = "store", ret'[p] = CALLING,
           local'[p].node \in Node
    PROVE  PutterOK(st, p)'
BY SMTT(60) DEF PutterOK

(* A producer thread whose node is in its slot.                               *)
LEMMA PutterPublishes ==
    ASSUME NEW st, NEW p, pc'[p] = "publish", ret'[p] = CALLING, local'[p].node \in Node,
           (nodes[Slot(local[p].head)] = local[p].node)'
    PROVE  PutterOK(st, p)'
BY SMTT(60) DEF PutterOK

(* A consumer thread that has returned.                                     *)
LEMMA TakerIdle ==
    ASSUME NEW st, NEW c, pc'[c] = "idle", ret'[c] \in {"OK", "QUEUE_EMPTY"}
    PROVE  TakerOK(st, c)'
BY SMTT(60) DEF TakerOK, CALLING

(* A consumer thread that reads the head.                                    *)
LEMMA TakerReads ==
    ASSUME NEW st, NEW c, pc'[c] = "head", ret'[c] = CALLING, local'[c].node = NULL
    PROVE  TakerOK(st, c)'
BY SMTT(60) DEF TakerOK

(* A consumer thread that has read the head, and one that found a node.       *)
LEMMA TakerTries ==
    ASSUME NEW st, NEW c, pc'[c] = "check" \/ pc'[c] = "claim", ret'[c] = CALLING, local'[c].node = NULL,
           PcPos(st)'[c] <= Pos(st, consumer.head)',
           SafeConsumer' \/ PcPos(st)'[c] = Pos(st, consumer.head)',
           pc'[c] = "claim" => PcPos(st)'[c] < Pos(st, producer.tail)'
    PROVE  TakerOK(st, c)'
BY SMTT(60) DEF TakerOK

(* A consumer thread that owns its slot, and one that has copied the node.    *)
LEMMA TakerHolds ==
    ASSUME NEW st, NEW c, pc'[c] = "copy" \/ pc'[c] = "release", ret'[c] = CALLING,
           pc'[c] = "release" => local'[c].node \in Node
    PROVE  TakerOK(st, c)'
BY SMTT(60) DEF TakerOK

(* Turns only speaks of the positions of the threads that hold one.         *)
LEMMA TurnsSame ==
    ASSUME NEW I, NEW pos, NEW pos2, NEW tail, NEW head, Turns(I, pos, tail, head),
           \A t \in I : pos2[t] = pos[t]
    PROVE  Turns(I, pos2, tail, head)
BY ZenonT(60) DEF Turns

(* A thread claims the position at the head.                                *)
LEMMA TurnsClaim ==
    ASSUME NEW I, NEW pos, NEW pos2, NEW tail \in Nat, NEW head \in Nat, NEW c,
           Turns(I, pos, tail, head), \A t \in I : pos[t] \in Nat /\ pos2[t] = pos[t],
           c \notin I, pos2[c] = head
    PROVE  Turns(I \cup {c}, pos2, tail, head + 1)
<1>1. tail <= head + 1
    BY SMTT(60) DEF Turns
<1>2. ASSUME NEW t \in I \cup {c} PROVE tail <= pos2[t] /\ pos2[t] < head + 1
    BY SMTT(60) DEF Turns
<1>3. ASSUME NEW s \in I \cup {c}, NEW t \in I \cup {c}, pos2[s] = pos2[t] PROVE s = t
    <2>1. \A i \in I : pos2[i] # head
        BY SMTT(60) DEF Turns
    <2> QED
        BY ZenonT(60), <1>3, <2>1 DEF Turns
<1>4. ASSUME NEW n \in Nat, tail <= n, n < head + 1 PROVE \E t \in I \cup {c} : pos2[t] = n
    <2>1. n < head \/ n = head
        BY SMTT(60), <1>4
    <2> QED
        BY ZenonT(60), <1>4, <2>1 DEF Turns
<1> QED
    BY ZenonT(60), <1>1, <1>2, <1>3, <1>4 DEF Turns

(* The thread at the tail is done.                                          *)
LEMMA TurnsLeave ==
    ASSUME NEW I, NEW pos, NEW pos2, NEW tail \in Nat, NEW head \in Nat, NEW c \in I,
           Turns(I, pos, tail, head), \A t \in I : pos[t] \in Nat,
           \A t \in I \ {c} : pos2[t] = pos[t], pos[c] = tail
    PROVE  Turns(I \ {c}, pos2, tail + 1, head)
<1>1. tail + 1 <= head
    BY SMTT(60) DEF Turns
<1>2. ASSUME NEW t \in I \ {c} PROVE tail + 1 <= pos2[t] /\ pos2[t] < head
    <2>1. pos[t] # tail
        BY ZenonT(60) DEF Turns
    <2> QED
        BY SMTT(60), <2>1 DEF Turns
<1>3. ASSUME NEW s \in I \ {c}, NEW t \in I \ {c}, pos2[s] = pos2[t] PROVE s = t
    BY ZenonT(60), <1>3 DEF Turns
<1>4. ASSUME NEW n \in Nat, tail + 1 <= n, n < head PROVE \E t \in I \ {c} : pos2[t] = n
    <2>1. tail <= n /\ n # tail
        BY SMTT(60), <1>4
    <2> QED
        BY ZenonT(60), <1>4, <2>1 DEF Turns
<1> QED
    BY ZenonT(60), <1>1, <1>2, <1>3, <1>4 DEF Turns

(* Two threads on a side are more than one.                                 *)
LEMMA TwoThreads ==
    ASSUME NEW S, Counted(S), NEW s \in S, NEW t \in S, s # t
    PROVE  Cardinality(S) > 1
BY ZenonT(60) DEF Counted

(* What the constants and the type of the state say of the threads.         *)
LEMMA Sides ==
    ASSUME QueueSetting, TypeOK
    PROVE  /\ Putters \subseteq Threads /\ Takers \subseteq Threads
           /\ Putters \cap Takers = {}
           /\ Counted(Putters) /\ Counted(Takers) /\ Counted(Claiming)
           /\ crew \subseteq Threads
<1>1. crew \in Crews /\ crew \subseteq Threads
    BY ZenonT(60) DEF QueueSetting, QueueConstants, TypeOK
<1>2. /\ Putters \subseteq crew /\ Takers \subseteq crew /\ Claiming \subseteq crew
      /\ Putters \cap Takers = {}
    BY ZenonT(60) DEF QueueSetting, QueueConstants, Putters, Takers, Claiming
<1>3. Counted(Putters) /\ Counted(Takers) /\ Counted(Claiming)
    BY ZenonT(60), <1>1, <1>2 DEF QueueSetting, CrewsCounted
<1> QED
    BY ZenonT(60), <1>1, <1>2, <1>3

(* The fields the positions are of.                                         *)
LEMMA Fields ==
    ASSUME QueueSetting, TypeOK, NEW st \in Counter
    PROVE  /\ producer.head \in Counter /\ producer.tail \in Counter
           /\ consumer.head \in Counter /\ consumer.tail \in Counter
           /\ Pos(st, producer.head) \in Nat /\ Pos(st, producer.tail) \in Nat
           /\ Pos(st, consumer.head) \in Nat /\ Pos(st, consumer.tail) \in Nat
           /\ \A t \in Threads : /\ local[t].head \in Counter
                                 /\ PcPos(st)[t] = Pos(st, local[t].head)
                                 /\ PcPos(st)[t] \in Nat
<1>1. /\ producer.head \in Counter /\ producer.tail \in Counter
      /\ consumer.head \in Counter /\ consumer.tail \in Counter
    BY SMTT(60) DEF TypeOK
<1>2. \A t \in Threads : local[t].head \in Counter
    BY SMTT(60) DEF TypeOK
<1>3. \A t \in Threads : PcPos(st)[t] = Pos(st, local[t].head)
    BY ZenonT(60) DEF PcPos
<1>4. /\ Pos(st, producer.head) \in Nat /\ Pos(st, producer.tail) \in Nat
      /\ Pos(st, consumer.head) \in Nat /\ Pos(st, consumer.tail) \in Nat
    <2>1. \A v \in Counter : Pos(st, v) \in Nat
        BY ZenonT(60), PosType
    <2> QED
        BY ZenonT(60), <1>1, <2>1
<1>5. \A t \in Threads : Pos(st, local[t].head) \in Nat
    BY ZenonT(60), <1>2, PosType
<1> QED
    BY ZenonT(60), <1>1, <1>2, <1>3, <1>4, <1>5

(* What an assignment to a thread's node does to the threads' variables.     *)
LEMMA NodeSet ==
    ASSUME TypeOK, NEW t \in Threads, NEW x, local' = [local EXCEPT ![t].node = x]
    PROVE  /\ local'[t].head = local[t].head /\ local'[t].node = x
           /\ \A s \in Threads : s # t => local'[s] = local[s]
<1>1. local \in [Threads -> [head : Counter, node : Node \cup {NULL}]]
    BY ZenonT(60) DEF TypeOK
<1> QED
    BY SMTT(60), <1>1

(* What an assignment to a thread's head does to the threads' variables.     *)
LEMMA HeadSet ==
    ASSUME TypeOK, NEW t \in Threads, NEW x, local' = [local EXCEPT ![t].head = x]
    PROVE  /\ local'[t].head = x /\ local'[t].node = local[t].node
           /\ \A s \in Threads : s # t => local'[s] = local[s]
<1>1. local \in [Threads -> [head : Counter, node : Node \cup {NULL}]]
    BY ZenonT(60) DEF TypeOK
<1> QED
    BY SMTT(60), <1>1

(* What a thread's answer does to the answers.                              *)
LEMMA RetSet ==
    ASSUME TypeOK, NEW t \in Threads, NEW x, Returns(t, x)
    PROVE  ret'[t] = x /\ \A s \in Threads : s # t => ret'[s] = ret[s]
<1>1. DOMAIN ret = Threads /\ ret' = [ret EXCEPT ![t] = x]
    BY ZenonT(60) DEF TypeOK, Returns
<1> QED
    BY SMTT(60), <1>1

(* What an assignment to a counter does to the two records of counters.       *)
LEMMA CounterSet ==
    ASSUME TypeOK, NEW x
    PROVE  /\ producer' = [producer EXCEPT !.head = x] =>
                producer'.head = x /\ producer'.tail = producer.tail
           /\ producer' = [producer EXCEPT !.tail = x] =>
                producer'.head = producer.head /\ producer'.tail = x
           /\ consumer' = [consumer EXCEPT !.head = x] =>
                consumer'.head = x /\ consumer'.tail = consumer.tail
           /\ consumer' = [consumer EXCEPT !.tail = x] =>
                consumer'.head = consumer.head /\ consumer'.tail = x
BY SMTT(60) DEF TypeOK

(* A thread that leaves the others' variables alone and goes on moves.       *)
LEMMA MovesBy ==
    ASSUME TypeOK, NEW t \in Threads, NEW a, NEW b, Goto(t, a, b), crew' = crew,
           \A s \in Threads : s # t => local'[s] = local[s],
           \A s \in Threads : s # t => ret'[s] = ret[s]
    PROVE  Moves(t, a, b)
<1>1. DOMAIN pc = Threads /\ pc' = [pc EXCEPT ![t] = b] /\ pc[t] = a
    BY ZenonT(60) DEF TypeOK, Goto
<1>2. pc'[t] = b /\ \A s \in Threads : s # t => pc'[s] = pc[s]
    BY SMTT(60), <1>1
<1> QED
    BY ZenonT(60), <1>1, <1>2 DEF Moves

(* A call of enqueue.                                                       *)
LEMMA DoesCallEnqueue ==
    ASSUME TypeOK, NEW p \in Threads, CallEnqueue(p), crew' = crew
    PROVE  /\ Moves(p, "idle", "head") /\ calls < MaxCalls
           /\ calls' = calls + 1 /\ ret'[p] = CALLING
           /\ local'[p].head = local[p].head /\ local'[p].node = calls + 1
           /\ UNCHANGED <<producer, consumer, nodes>>
<1>1. /\ Goto(p, "idle", "head") /\ Returns(p, CALLING)
      /\ local' = [local EXCEPT ![p].node = calls + 1]
      /\ calls < MaxCalls /\ calls' = calls + 1
      /\ UNCHANGED <<producer, consumer, nodes>>
    BY ZenonT(60) DEF CallEnqueue
<1>2. /\ local'[p].head = local[p].head /\ local'[p].node = calls + 1
      /\ \A s \in Threads : s # p => local'[s] = local[s]
    BY ZenonT(60), <1>1, NodeSet
<1>3. ret'[p] = CALLING /\ \A s \in Threads : s # p => ret'[s] = ret[s]
    BY ZenonT(60), <1>1, RetSet
<1>4. Moves(p, "idle", "head")
    BY ZenonT(60), <1>1, <1>2, <1>3, MovesBy
<1> QED
    BY ZenonT(60), <1>1, <1>2, <1>3, <1>4

(* The head is read.                                                        *)
LEMMA DoesReadProducerHead ==
    ASSUME TypeOK, NEW p \in Threads, ReadProducerHead(p), crew' = crew
    PROVE  /\ Moves(p, "head", "check") /\ ret'[p] = ret[p]
           /\ local'[p].head = producer.head /\ local'[p].node = local[p].node
           /\ UNCHANGED <<producer, consumer, nodes, calls>>
<1>1. /\ Goto(p, "head", "check") /\ ret' = ret
      /\ local' = [local EXCEPT ![p].head = producer.head]
      /\ UNCHANGED <<producer, consumer, nodes, calls>>
    BY ZenonT(60) DEF ReadProducerHead
<1>2. /\ local'[p].head = producer.head /\ local'[p].node = local[p].node
      /\ \A s \in Threads : s # p => local'[s] = local[s]
    BY ZenonT(60), <1>1, HeadSet
<1>3. Moves(p, "head", "check")
    BY ZenonT(60), <1>1, <1>2, MovesBy
<1> QED
    BY ZenonT(60), <1>1, <1>2, <1>3

(* The queue is found full, or not.                                         *)
LEMMA DoesCheckFull ==
    ASSUME TypeOK, NEW p \in Threads, CheckFull(p), crew' = crew
    PROVE  \/ /\ Available(p) < 1 /\ Moves(p, "check", "idle") /\ ret'[p] = "QUEUE_FULL"
              /\ local'[p].head = local[p].head /\ local'[p].node = NULL
              /\ UNCHANGED <<producer, consumer, nodes, calls>>
           \/ /\ ~(Available(p) < 1) /\ Moves(p, "check", "claim") /\ ret'[p] = ret[p]
              /\ local'[p] = local[p]
              /\ UNCHANGED <<producer, consumer, nodes, calls>>
<1>0. UNCHANGED <<producer, consumer, nodes, calls>>
    BY ZenonT(60) DEF CheckFull
<1>1. CASE Available(p) < 1
    <2>1. /\ Goto(p, "check", "idle") /\ Returns(p, "QUEUE_FULL")
          /\ local' = [local EXCEPT ![p].node = NULL]
        BY ZenonT(60), <1>1 DEF CheckFull, Drops
    <2>2. /\ local'[p].head = local[p].head /\ local'[p].node = NULL
          /\ \A s \in Threads : s # p => local'[s] = local[s]
        BY ZenonT(60), <2>1, NodeSet
    <2>3. ret'[p] = "QUEUE_FULL" /\ \A s \in Threads : s # p => ret'[s] = ret[s]
        BY ZenonT(60), <2>1, RetSet
    <2>4. Moves(p, "check", "idle")
        BY ZenonT(60), <2>1, <2>2, <2>3, MovesBy
    <2> QED
        BY ZenonT(60), <1>0, <1>1, <2>2, <2>3, <2>4
<1>2. CASE ~(Available(p) < 1)
    <2>1. Goto(p, "check", "claim") /\ ret' = ret /\ local' = local
        BY ZenonT(60), <1>2 DEF CheckFull
    <2>2. Moves(p, "check", "claim")
        BY ZenonT(60), <2>1, MovesBy
    <2> QED
        BY ZenonT(60), <1>0, <1>2, <2>1, <2>2
<1> QED
    BY ZenonT(60), <1>1, <1>2

(* The slot is claimed, or another thread was faster.                       *)
LEMMA DoesClaimProducer ==
    ASSUME TypeOK, NEW p \in Threads, ClaimProducer(p), crew' = crew
    PROVE  \/ /\ Moves(p, "claim", "head") /\ ret'[p] = ret[p]
              /\ local'[p] = local[p]
              /\ UNCHANGED <<producer, consumer, nodes, calls>>
           \/ /\ SafeProducer => producer.head = local[p].head
              /\ Moves(p, "claim", "store") /\ ret'[p] = ret[p]
              /\ local'[p] = local[p]
              /\ producer' = [producer EXCEPT !.head = Plus(local[p].head, 1)]
              /\ UNCHANGED <<consumer, nodes, calls>>
<1>0. local' = local /\ ret' = ret /\ UNCHANGED <<consumer, nodes, calls>>
    BY ZenonT(60) DEF ClaimProducer
<1>1. CASE SafeProducer /\ producer.head # local[p].head
    <2>1. Goto(p, "claim", "head") /\ producer' = producer
        BY ZenonT(60), <1>1 DEF ClaimProducer
    <2>2. Moves(p, "claim", "head")
        BY ZenonT(60), <1>0, <2>1, MovesBy
    <2> QED
        BY ZenonT(60), <1>0, <2>1, <2>2
<1>2. CASE ~(SafeProducer /\ producer.head # local[p].head)
    <2>1. /\ Goto(p, "claim", "store")
          /\ producer' = [producer EXCEPT !.head = Plus(local[p].head, 1)]
        BY ZenonT(60), <1>2 DEF ClaimProducer
    <2>2. Moves(p, "claim", "store")
        BY ZenonT(60), <1>0, <2>1, MovesBy
    <2> QED
        BY ZenonT(60), <1>0, <1>2, <2>1, <2>2
<1> QED
    BY ZenonT(60), <1>1, <1>2

(* The node is put into the slot.                                           *)
LEMMA DoesStoreNode ==
    ASSUME TypeOK, NEW p \in Threads, StoreNode(p), crew' = crew
    PROVE  /\ Moves(p, "store", "publish") /\ ret'[p] = ret[p]
           /\ local'[p] = local[p]
           /\ nodes' = [nodes EXCEPT ![Slot(local[p].head)] = local[p].node]
           /\ UNCHANGED <<producer, consumer, calls>>
<1>1. /\ Goto(p, "store", "publish") /\ ret' = ret /\ local' = local
      /\ nodes' = [nodes EXCEPT ![Slot(local[p].head)] = local[p].node]
      /\ UNCHANGED <<producer, consumer, calls>>
    BY ZenonT(60) DEF StoreNode
<1>2. Moves(p, "store", "publish")
    BY ZenonT(60), <1>1, MovesBy
<1> QED
    BY ZenonT(60), <1>1, <1>2

(* The tail moves over the slot.                                            *)
LEMMA DoesPublish ==
    ASSUME TypeOK, NEW p \in Threads, Publish(p), crew' = crew
    PROVE  /\ SafeProducer => producer.tail = local[p].head
           /\ Moves(p, "publish", "idle") /\ ret'[p] = "OK"
           /\ local'[p].head = local[p].head /\ local'[p].node = NULL
           /\ producer' = [producer EXCEPT !.tail = Plus(local[p].head, 1)]
           /\ UNCHANGED <<consumer, nodes, calls>>
<1>1. /\ SafeProducer => producer.tail = local[p].head
      /\ Goto(p, "publish", "idle") /\ Returns(p, "OK")
      /\ local' = [local EXCEPT ![p].node = NULL]
      /\ producer' = [producer EXCEPT !.tail = Plus(local[p].head, 1)]
      /\ UNCHANGED <<consumer, nodes, calls>>
    BY ZenonT(60) DEF Publish, Drops
<1>2. /\ local'[p].head = local[p].head /\ local'[p].node = NULL
      /\ \A s \in Threads : s # p => local'[s] = local[s]
    BY ZenonT(60), <1>1, NodeSet
<1>3. ret'[p] = "OK" /\ \A s \in Threads : s # p => ret'[s] = ret[s]
    BY ZenonT(60), <1>1, RetSet
<1>4. Moves(p, "publish", "idle")
    BY ZenonT(60), <1>1, <1>2, <1>3, MovesBy
<1> QED
    BY ZenonT(60), <1>1, <1>2, <1>3, <1>4

(* A call of dequeue.                                                       *)
LEMMA DoesCallDequeue ==
    ASSUME TypeOK, NEW c \in Threads, CallDequeue(c), crew' = crew
    PROVE  /\ Moves(c, "idle", "head") /\ ret'[c] = CALLING
           /\ local'[c].head = local[c].head /\ local'[c].node = NULL
           /\ UNCHANGED <<producer, consumer, nodes, calls>>
<1>1. /\ Goto(c, "idle", "head") /\ Returns(c, CALLING)
      /\ local' = [local EXCEPT ![c].node = NULL]
      /\ UNCHANGED <<producer, consumer, nodes, calls>>
    BY ZenonT(60) DEF CallDequeue, Drops
<1>2. /\ local'[c].head = local[c].head /\ local'[c].node = NULL
      /\ \A s \in Threads : s # c => local'[s] = local[s]
    BY ZenonT(60), <1>1, NodeSet
<1>3. ret'[c] = CALLING /\ \A s \in Threads : s # c => ret'[s] = ret[s]
    BY ZenonT(60), <1>1, RetSet
<1>4. Moves(c, "idle", "head")
    BY ZenonT(60), <1>1, <1>2, <1>3, MovesBy
<1> QED
    BY ZenonT(60), <1>1, <1>2, <1>3, <1>4

(* The head is read.                                                        *)
LEMMA DoesReadConsumerHead ==
    ASSUME TypeOK, NEW c \in Threads, ReadConsumerHead(c), crew' = crew
    PROVE  /\ Moves(c, "head", "check") /\ ret'[c] = ret[c]
           /\ local'[c].head = consumer.head /\ local'[c].node = local[c].node
           /\ UNCHANGED <<producer, consumer, nodes, calls>>
<1>1. /\ Goto(c, "head", "check") /\ ret' = ret
      /\ local' = [local EXCEPT ![c].head = consumer.head]
      /\ UNCHANGED <<producer, consumer, nodes, calls>>
    BY ZenonT(60) DEF ReadConsumerHead
<1>2. /\ local'[c].head = consumer.head /\ local'[c].node = local[c].node
      /\ \A s \in Threads : s # c => local'[s] = local[s]
    BY ZenonT(60), <1>1, HeadSet
<1>3. Moves(c, "head", "check")
    BY ZenonT(60), <1>1, <1>2, MovesBy
<1> QED
    BY ZenonT(60), <1>1, <1>2, <1>3

(* The queue is found empty, or not.                                        *)
LEMMA DoesCheckEmpty ==
    ASSUME TypeOK, NEW c \in Threads, CheckEmpty(c), crew' = crew
    PROVE  \/ /\ Minus(producer.tail, local[c].head) < 1 /\ Moves(c, "check", "idle")
              /\ ret'[c] = "QUEUE_EMPTY" /\ local'[c] = local[c]
              /\ UNCHANGED <<producer, consumer, nodes, calls>>
           \/ /\ ~(Minus(producer.tail, local[c].head) < 1) /\ Moves(c, "check", "claim")
              /\ ret'[c] = ret[c] /\ local'[c] = local[c]
              /\ UNCHANGED <<producer, consumer, nodes, calls>>
<1>0. local' = local /\ UNCHANGED <<producer, consumer, nodes, calls>>
    BY ZenonT(60) DEF CheckEmpty
<1>1. CASE Minus(producer.tail, local[c].head) < 1
    <2>1. Goto(c, "check", "idle") /\ Returns(c, "QUEUE_EMPTY")
        BY ZenonT(60), <1>1 DEF CheckEmpty
    <2>2. ret'[c] = "QUEUE_EMPTY" /\ \A s \in Threads : s # c => ret'[s] = ret[s]
        BY ZenonT(60), <2>1, RetSet
    <2>3. Moves(c, "check", "idle")
        BY ZenonT(60), <1>0, <2>1, <2>2, MovesBy
    <2> QED
        BY ZenonT(60), <1>0, <1>1, <2>2, <2>3
<1>2. CASE ~(Minus(producer.tail, local[c].head) < 1)
    <2>1. Goto(c, "check", "claim") /\ ret' = ret
        BY ZenonT(60), <1>2 DEF CheckEmpty
    <2>2. Moves(c, "check", "claim")
        BY ZenonT(60), <1>0, <2>1, MovesBy
    <2> QED
        BY ZenonT(60), <1>0, <1>2, <2>1, <2>2
<1> QED
    BY ZenonT(60), <1>1, <1>2

(* The oldest node is claimed, or another thread was faster.                *)
LEMMA DoesClaimConsumer ==
    ASSUME TypeOK, NEW c \in Threads, ClaimConsumer(c), crew' = crew
    PROVE  \/ /\ Moves(c, "claim", "head") /\ ret'[c] = ret[c]
              /\ local'[c] = local[c]
              /\ UNCHANGED <<producer, consumer, nodes, calls>>
           \/ /\ SafeConsumer => consumer.head = local[c].head
              /\ Moves(c, "claim", "copy") /\ ret'[c] = ret[c]
              /\ local'[c] = local[c]
              /\ consumer' = [consumer EXCEPT !.head = Plus(local[c].head, 1)]
              /\ UNCHANGED <<producer, nodes, calls>>
<1>0. local' = local /\ ret' = ret /\ UNCHANGED <<producer, nodes, calls>>
    BY ZenonT(60) DEF ClaimConsumer
<1>1. CASE SafeConsumer /\ consumer.head # local[c].head
    <2>1. Goto(c, "claim", "head") /\ consumer' = consumer
        BY ZenonT(60), <1>1 DEF ClaimConsumer
    <2>2. Moves(c, "claim", "head")
        BY ZenonT(60), <1>0, <2>1, MovesBy
    <2> QED
        BY ZenonT(60), <1>0, <2>1, <2>2
<1>2. CASE ~(SafeConsumer /\ consumer.head # local[c].head)
    <2>1. /\ Goto(c, "claim", "copy")
          /\ consumer' = [consumer EXCEPT !.head = Plus(local[c].head, 1)]
        BY ZenonT(60), <1>2 DEF ClaimConsumer
    <2>2. Moves(c, "claim", "copy")
        BY ZenonT(60), <1>0, <2>1, MovesBy
    <2> QED
        BY ZenonT(60), <1>0, <1>2, <2>1, <2>2
<1> QED
    BY ZenonT(60), <1>1, <1>2

(* The node is copied.                                                      *)
LEMMA DoesCopyNode ==
    ASSUME TypeOK, NEW c \in Threads, CopyNode(c), crew' = crew
    PROVE  /\ Moves(c, "copy", "release") /\ ret'[c] = ret[c]
           /\ local'[c].head = local[c].head
           /\ local'[c].node = nodes[Slot(local[c].head)]
           /\ UNCHANGED <<producer, consumer, nodes, calls>>
<1>1. /\ Goto(c, "copy", "release") /\ ret' = ret
      /\ local' = [local EXCEPT ![c].node = nodes[Slot(local[c].head)]]
      /\ UNCHANGED <<producer, consumer, nodes, calls>>
    BY ZenonT(60) DEF CopyNode
<1>2. /\ local'[c].head = local[c].head /\ local'[c].node = nodes[Slot(local[c].head)]
      /\ \A s \in Threads : s # c => local'[s] = local[s]
    BY ZenonT(60), <1>1, NodeSet
<1>3. Moves(c, "copy", "release")
    BY ZenonT(60), <1>1, <1>2, MovesBy
<1> QED
    BY ZenonT(60), <1>1, <1>2, <1>3

(* The slot is given back.                                                  *)
LEMMA DoesRelease ==
    ASSUME TypeOK, NEW c \in Threads, Release(c), crew' = crew
    PROVE  /\ SafeConsumer => consumer.tail = local[c].head
           /\ Moves(c, "release", "idle") /\ ret'[c] = "OK"
           /\ local'[c] = local[c]
           /\ consumer' = [consumer EXCEPT !.tail = Plus(local[c].head, 1)]
           /\ UNCHANGED <<producer, nodes, calls>>
<1>1. /\ SafeConsumer => consumer.tail = local[c].head
      /\ Goto(c, "release", "idle") /\ Returns(c, "OK") /\ local' = local
      /\ consumer' = [consumer EXCEPT !.tail = Plus(local[c].head, 1)]
      /\ UNCHANGED <<producer, nodes, calls>>
    BY ZenonT(60) DEF Release
<1>2. ret'[c] = "OK" /\ \A s \in Threads : s # c => ret'[s] = ret[s]
    BY ZenonT(60), <1>1, RetSet
<1>3. Moves(c, "release", "idle")
    BY ZenonT(60), <1>1, <1>2, MovesBy
<1> QED
    BY ZenonT(60), <1>1, <1>2, <1>3

(* Counters stay counters and slots slots.                                  *)
LEMMA PlusType ==
    ASSUME QueueSetting, NEW v \in Counter
    PROVE  Plus(v, 1) \in Counter /\ Slot(v) \in 0 .. mask
<1>1. /\ Wrap \in Int /\ Wrap > 0 /\ unitNum \in Int /\ unitNum > 0 /\ v \in Int
    BY SMTT(60) DEF QueueSetting, QueueConstants, Counter
<1> QED
    BY SMTT(60), <1>1 DEF Plus, Slot, Counter, mask

Positions == {"idle", "head", "check", "claim", "store", "publish", "copy", "release"}

Answers == {CALLING, "OK", "QUEUE_FULL", "QUEUE_EMPTY"}

Locs == [head : Counter, node : Node \cup {NULL}]

(* The types of what an assignment to a thread's variables leaves.           *)
LEMMA AssignTypes ==
    ASSUME TypeOK, NEW t \in Threads
    PROVE  /\ \A x \in Positions : [pc EXCEPT ![t] = x] \in [Threads -> Positions]
           /\ \A x \in Answers : [ret EXCEPT ![t] = x] \in [Threads -> Answers]
           /\ \A x \in Counter : /\ [local EXCEPT ![t].head = x] \in [Threads -> Locs]
                                 /\ [producer EXCEPT !.head = x] \in [head : Counter, tail : Counter]
                                 /\ [producer EXCEPT !.tail = x] \in [head : Counter, tail : Counter]
                                 /\ [consumer EXCEPT !.head = x] \in [head : Counter, tail : Counter]
                                 /\ [consumer EXCEPT !.tail = x] \in [head : Counter, tail : Counter]
           /\ \A x \in Node \cup {NULL} :
                /\ [local EXCEPT ![t].node = x] \in [Threads -> Locs]
                /\ \A i \in 0 .. mask : [nodes EXCEPT ![i] = x] \in [0 .. mask -> Node \cup {NULL}]
<1> USE DEF TypeOK
<1>1. \A x \in Positions : [pc EXCEPT ![t] = x] \in [Threads -> Positions]
    BY ZenonT(60) DEF Positions
<1>2. \A x \in Answers : [ret EXCEPT ![t] = x] \in [Threads -> Answers]
    BY ZenonT(60) DEF Answers
<1>3. \A x \in Counter : [local EXCEPT ![t].head = x] \in [Threads -> Locs]
    BY SMTT(60) DEF Locs
<1>4. \A x \in Counter : /\ [producer EXCEPT !.head = x] \in [head : Counter, tail : Counter]
                         /\ [producer EXCEPT !.tail = x] \in [head : Counter, tail : Counter]
                         /\ [consumer EXCEPT !.head = x] \in [head : Counter, tail : Counter]
                         /\ [consumer EXCEPT !.tail = x] \in [head : Counter, tail : Counter]
    BY SMTT(60)
<1>5. \A x \in Node \cup {NULL} : [local EXCEPT ![t].node = x] \in [Threads -> Locs]
    BY SMTT(60) DEF Locs
<1>6. \A x \in Node \cup {NULL} : \A i \in 0 .. mask :
         [nodes EXCEPT ![i] = x] \in [0 .. mask -> Node \cup {NULL}]
    BY ZenonT(60)
<1> QED
    BY ONLY <1>1, <1>2, <1>3, <1>4, <1>5, <1>6

(* Every field keeps its type.                                              *)
LEMMA TypeStep ==
    ASSUME QueueSetting, TypeOK, Next
    PROVE  TypeOK'
<1>1. /\ pc \in [Threads -> Positions] /\ ret \in [Threads -> Answers]
      /\ local \in [Threads -> Locs] /\ calls \in 0 .. MaxCalls
      /\ producer \in [head : Counter, tail : Counter]
      /\ consumer \in [head : Counter, tail : Counter]
      /\ nodes \in [0 .. mask -> Node \cup {NULL}]
      /\ crew \in Crews /\ crew' = crew
    BY ZenonT(60) DEF TypeOK, Positions, Answers, Locs, Next
<1>2. SUFFICES /\ pc' \in [Threads -> Positions] /\ ret' \in [Threads -> Answers]
               /\ local' \in [Threads -> Locs] /\ calls' \in 0 .. MaxCalls
               /\ producer' \in [head : Counter, tail : Counter]
               /\ consumer' \in [head : Counter, tail : Counter]
               /\ nodes' \in [0 .. mask -> Node \cup {NULL}]
    BY ZenonT(60), <1>1 DEF TypeOK, Positions, Answers, Locs
<1>3. /\ {"idle", "head", "check", "claim", "store", "publish", "copy", "release"} \subseteq Positions
      /\ {CALLING, "OK", "QUEUE_FULL", "QUEUE_EMPTY"} \subseteq Answers
      /\ NULL \in Node \cup {NULL}
    BY ZenonT(60) DEF Positions, Answers
<1>4. ASSUME NEW t \in Threads
      PROVE  /\ local[t].head \in Counter /\ local[t].node \in Node \cup {NULL}
             /\ Plus(local[t].head, 1) \in Counter /\ Slot(local[t].head) \in 0 .. mask
             /\ nodes[Slot(local[t].head)] \in Node \cup {NULL}
    <2>1. local[t].head \in Counter /\ local[t].node \in Node \cup {NULL}
        BY SMTT(60), <1>1 DEF Locs
    <2>2. Plus(local[t].head, 1) \in Counter /\ Slot(local[t].head) \in 0 .. mask
        BY ZenonT(60), <2>1, PlusType
    <2> QED
        BY ZenonT(60), <1>1, <2>1, <2>2
<1>5. producer.head \in Counter /\ consumer.head \in Counter
    BY SMTT(60), <1>1
<1>6. ASSUME NEW p \in Threads, CallEnqueue(p)
      PROVE  calls' \in 0 .. MaxCalls /\ calls + 1 \in Node \cup {NULL}
    BY SMTT(60), <1>1, <1>6 DEF CallEnqueue, QueueSetting, QueueConstants, Node
<1>7. ASSUME NEW t \in Threads, CallEnqueue(t) \/ ProducerStep(t)
      PROVE  /\ pc' \in [Threads -> Positions] /\ ret' \in [Threads -> Answers]
             /\ local' \in [Threads -> Locs] /\ calls' \in 0 .. MaxCalls
             /\ producer' \in [head : Counter, tail : Counter]
             /\ consumer' \in [head : Counter, tail : Counter]
             /\ nodes' \in [0 .. mask -> Node \cup {NULL}]
    <2> USE <1>1, <1>3, <1>4, AssignTypes DEF Goto, Returns, Drops
    <2>1. CASE CallEnqueue(t)
        BY ZenonT(60), <1>6, <2>1 DEF CallEnqueue
    <2>2. CASE ReadProducerHead(t)
        BY ZenonT(60), <1>5, <2>2 DEF ReadProducerHead
    <2>3. CASE CheckFull(t)
        <3>1. /\ \/ /\ pc' = [pc EXCEPT ![t] = "idle"] /\ ret' = [ret EXCEPT ![t] = "QUEUE_FULL"]
                    /\ local' = [local EXCEPT ![t].node = NULL]
                 \/ pc' = [pc EXCEPT ![t] = "claim"] /\ UNCHANGED <<ret, local>>
              /\ UNCHANGED <<producer, consumer, nodes, calls>>
            BY ONLY ZenonT(60), <2>3 DEF CheckFull, Goto, Returns, Drops
        <3>2. pc' \in [Threads -> Positions]
            BY ZenonT(60), <3>1
        <3>3. ret' \in [Threads -> Answers]
            BY ZenonT(60), <3>1
        <3>4. local' \in [Threads -> Locs]
            <4>1. [local EXCEPT ![t].node = NULL] \in [Threads -> Locs]
                BY ZenonT(60)
            <4>2. local' = [local EXCEPT ![t].node = NULL] \/ local' = local
                BY ONLY ZenonT(60), <3>1
            <4> QED
                BY ONLY <1>1, <4>1, <4>2
        <3>5. /\ producer' \in [head : Counter, tail : Counter]
              /\ consumer' \in [head : Counter, tail : Counter]
            BY ZenonT(60), <3>1
        <3>6. calls' \in 0 .. MaxCalls /\ nodes' \in [0 .. mask -> Node \cup {NULL}]
            BY ZenonT(60), <3>1
        <3> QED
            BY ONLY <3>2, <3>3, <3>4, <3>5, <3>6
    <2>4. CASE ClaimProducer(t)
        <3>1. /\ \/ pc' = [pc EXCEPT ![t] = "head"] /\ UNCHANGED producer
                 \/ /\ pc' = [pc EXCEPT ![t] = "store"]
                    /\ producer' = [producer EXCEPT !.head = Plus(local[t].head, 1)]
              /\ UNCHANGED <<consumer, nodes, local, ret, calls>>
            BY ONLY ZenonT(60), <2>4 DEF ClaimProducer, Goto
        <3>2. pc' \in [Threads -> Positions]
            BY ZenonT(60), <3>1
        <3>3. ret' \in [Threads -> Answers]
            BY ZenonT(60), <3>1
        <3>4. local' \in [Threads -> Locs]
            BY ZenonT(60), <3>1
        <3>5. /\ producer' \in [head : Counter, tail : Counter]
              /\ consumer' \in [head : Counter, tail : Counter]
            BY ZenonT(60), <3>1
        <3>6. calls' \in 0 .. MaxCalls /\ nodes' \in [0 .. mask -> Node \cup {NULL}]
            BY ZenonT(60), <3>1
        <3> QED
            BY ONLY <3>2, <3>3, <3>4, <3>5, <3>6
    <2>5. CASE StoreNode(t)
        BY ZenonT(60), <2>5 DEF StoreNode
    <2>6. CASE Publish(t)
        BY ZenonT(60), <2>6 DEF Publish
    <2> QED
        BY ONLY <1>7, <2>1, <2>2, <2>3, <2>4, <2>5, <2>6 DEF ProducerStep
<1>8. ASSUME NEW t \in Threads, CallDequeue(t) \/ ConsumerStep(t)
      PROVE  /\ pc' \in [Threads -> Positions] /\ ret' \in [Threads -> Answers]
             /\ local' \in [Threads -> Locs] /\ calls' \in 0 .. MaxCalls
             /\ producer' \in [head : Counter, tail : Counter]
             /\ consumer' \in [head : Counter, tail : Counter]
             /\ nodes' \in [0 .. mask -> Node \cup {NULL}]
    <2> USE <1>1, <1>3, <1>4, AssignTypes DEF Goto, Returns, Drops
    <2>1. CASE CallDequeue(t)
        BY ZenonT(60), <2>1 DEF CallDequeue
    <2>2. CASE ReadConsumerHead(t)
        BY ZenonT(60), <1>5, <2>2 DEF ReadConsumerHead
    <2>3. CASE CheckEmpty(t)
        <3>1. /\ \/ pc' = [pc EXCEPT ![t] = "idle"] /\ ret' = [ret EXCEPT ![t] = "QUEUE_EMPTY"]
                 \/ pc' = [pc EXCEPT ![t] = "claim"] /\ UNCHANGED ret
              /\ UNCHANGED <<producer, consumer, nodes, local, calls>>
            BY ONLY ZenonT(60), <2>3 DEF CheckEmpty, Goto, Returns
        <3>2. pc' \in [Threads -> Positions]
            BY ZenonT(60), <3>1
        <3>3. ret' \in [Threads -> Answers]
            BY ZenonT(60), <3>1
        <3>4. local' \in [Threads -> Locs]
            BY ZenonT(60), <3>1
        <3>5. /\ producer' \in [head : Counter, tail : Counter]
              /\ consumer' \in [head : Counter, tail : Counter]
            BY ZenonT(60), <3>1
        <3>6. calls' \in 0 .. MaxCalls /\ nodes' \in [0 .. mask -> Node \cup {NULL}]
            BY ZenonT(60), <3>1
        <3> QED
            BY ONLY <3>2, <3>3, <3>4, <3>5, <3>6
    <2>4. CASE ClaimConsumer(t)
        <3>1. /\ \/ pc' = [pc EXCEPT ![t] = "head"] /\ UNCHANGED consumer
                 \/ /\ pc' = [pc EXCEPT ![t] = "copy"]
                    /\ consumer' = [consumer EXCEPT !.head = Plus(local[t].head, 1)]
              /\ UNCHANGED <<producer, nodes, local, ret, calls>>
            BY ONLY ZenonT(60), <2>4 DEF ClaimConsumer, Goto
        <3>2. pc' \in [Threads -> Positions]
            BY ZenonT(60), <3>1
        <3>3. ret' \in [Threads -> Answers]
            BY ZenonT(60), <3>1
        <3>4. local' \in [Threads -> Locs]
            BY ZenonT(60), <3>1
        <3>5. /\ producer' \in [head : Counter, tail : Counter]
              /\ consumer' \in [head : Counter, tail : Counter]
            BY ZenonT(60), <3>1
        <3>6. calls' \in 0 .. MaxCalls /\ nodes' \in [0 .. mask -> Node \cup {NULL}]
            BY ZenonT(60), <3>1
        <3> QED
            BY ONLY <3>2, <3>3, <3>4, <3>5, <3>6
    <2>5. CASE CopyNode(t)
        BY ZenonT(60), <2>5 DEF CopyNode
    <2>6. CASE Release(t)
        BY ZenonT(60), <2>6 DEF Release
    <2> QED
        BY ONLY <1>8, <2>1, <2>2, <2>3, <2>4, <2>5, <2>6 DEF ConsumerStep
<1> QED
    BY ZenonT(60), <1>1, <1>7, <1>8, Sides DEF Next, Putters, Takers

-----------------------------------------------------------------------------
(* What a thread's move does to what the invariant speaks of. *)

Slots == {"store", "publish", "copy", "release"}

Trying == {"head", "check", "claim"}

(* The sides stay, and of the positions and the sets only the thread's own   *)
(* part changes.                                                            *)
LEMMA MoveEffects ==
    ASSUME NEW st, NEW t \in Threads, NEW a, NEW b, Moves(t, a, b), crew \subseteq Threads
    PROVE  /\ Putters' = Putters /\ Takers' = Takers
           /\ \A s \in Threads : s # t => PcPos(st)'[s] = PcPos(st)[s]
           /\ local'[t].head = local[t].head => PcPos(st)'[t] = PcPos(st)[t]
           /\ t \notin Putters =>
                Within(Putters)' = Within(Putters) /\ Claiming' = Claiming
           /\ t \notin Takers => Within(Takers)' = Within(Takers)
           /\ b \in Slots /\ t \in Putters => Within(Putters)' = Within(Putters) \cup {t}
           /\ b \in Slots /\ t \in Takers => Within(Takers)' = Within(Takers) \cup {t}
           /\ b \notin Slots => Within(Putters)' = Within(Putters) \ {t}
           /\ b \notin Slots => Within(Takers)' = Within(Takers) \ {t}
           /\ b \in Trying /\ t \in Putters => Claiming' = Claiming \cup {t}
           /\ b \notin Trying => Claiming' = Claiming \ {t}
<1>1. Putters' = Putters /\ Takers' = Takers
    BY ZenonT(60) DEF Moves, Putters, Takers
<1>2. /\ \A s \in Threads : s # t => PcPos(st)'[s] = PcPos(st)[s]
      /\ local'[t].head = local[t].head => PcPos(st)'[t] = PcPos(st)[t]
    BY ZenonT(60) DEF Moves, PcPos, Pos
<1>3. /\ Putters \subseteq Threads /\ Takers \subseteq Threads
      /\ pc'[t] = b /\ \A s \in Threads : s # t => pc'[s] = pc[s]
    BY ZenonT(60) DEF Moves, Putters, Takers
<1>4. /\ Within(Putters) = {s \in Putters : pc[s] \in Slots}
      /\ Within(Putters)' = {s \in Putters : pc'[s] \in Slots}
      /\ Within(Takers) = {s \in Takers : pc[s] \in Slots}
      /\ Within(Takers)' = {s \in Takers : pc'[s] \in Slots}
      /\ Claiming = {s \in Putters : pc[s] \in Trying}
      /\ Claiming' = {s \in Putters : pc'[s] \in Trying}
    BY ZenonT(60), <1>1 DEF Within, InSlot, Slots, Claiming, Trying
<1>5. t \notin Putters => Within(Putters)' = Within(Putters) /\ Claiming' = Claiming
    BY ZenonT(60), <1>3, <1>4
<1>6. t \notin Takers => Within(Takers)' = Within(Takers)
    BY ZenonT(60), <1>3, <1>4
<1>7. /\ b \in Slots /\ t \in Putters => Within(Putters)' = Within(Putters) \cup {t}
      /\ b \in Slots /\ t \in Takers => Within(Takers)' = Within(Takers) \cup {t}
    BY ZenonT(60), <1>3, <1>4
<1>8. /\ b \notin Slots => Within(Putters)' = Within(Putters) \ {t}
      /\ b \notin Slots => Within(Takers)' = Within(Takers) \ {t}
    BY ZenonT(60), <1>3, <1>4
<1>9. /\ b \in Trying /\ t \in Putters => Claiming' = Claiming \cup {t}
      /\ b \notin Trying => Claiming' = Claiming \ {t}
    BY ZenonT(60), <1>3, <1>4
<1> QED
    BY ONLY ZenonT(60), <1>1, <1>2, <1>5, <1>6, <1>7, <1>8, <1>9

(* A move of the other side leaves the turns of a side alone.                *)
LEMMA OtherTurns ==
    ASSUME NEW st, NEW t \in Threads, NEW a, NEW b, Moves(t, a, b), crew \subseteq Threads
    PROVE  /\ t \notin Takers /\ consumer' = consumer /\ TakeTurns(st) => TakeTurns(st)'
           /\ t \notin Putters /\ producer' = producer /\ PutTurns(st) => PutTurns(st)'
<1>1. /\ \A s \in Threads : s # t => PcPos(st)'[s] = PcPos(st)[s]
      /\ t \notin Putters => Within(Putters)' = Within(Putters)
      /\ t \notin Takers => Within(Takers)' = Within(Takers)
    BY ZenonT(60), MoveEffects
<1>2. Within(Putters) \subseteq Threads \cap Putters /\ Within(Takers) \subseteq Threads \cap Takers
    BY ZenonT(60) DEF Putters, Takers, Within
<1>3. ASSUME t \notin Takers, consumer' = consumer, TakeTurns(st) PROVE TakeTurns(st)'
    <2>1. \A s \in Within(Takers) : PcPos(st)'[s] = PcPos(st)[s]
        BY ZenonT(60), <1>1, <1>2, <1>3
    <2>2. Turns(Within(Takers), PcPos(st)', Pos(st, consumer.tail), Pos(st, consumer.head))
        BY ZenonT(60), <1>3, <2>1, TurnsSame DEF TakeTurns
    <2>3. TakeTurns(st)' = Turns(Within(Takers)', PcPos(st)', Pos(st, consumer'.tail),
                                 Pos(st, consumer'.head))
        BY ZenonT(60) DEF TakeTurns, Turns, Pos
    <2> QED
        BY ZenonT(60), <1>1, <1>3, <2>2, <2>3
<1>4. ASSUME t \notin Putters, producer' = producer, PutTurns(st) PROVE PutTurns(st)'
    <2>1. \A s \in Within(Putters) : PcPos(st)'[s] = PcPos(st)[s]
        BY ZenonT(60), <1>1, <1>2, <1>4
    <2>2. Turns(Within(Putters), PcPos(st)', Pos(st, producer.tail), Pos(st, producer.head))
        BY ZenonT(60), <1>4, <2>1, TurnsSame DEF PutTurns
    <2>3. PutTurns(st)' = Turns(Within(Putters)', PcPos(st)', Pos(st, producer'.tail),
                                Pos(st, producer'.head))
        BY ZenonT(60) DEF PutTurns, Turns, Pos
    <2> QED
        BY ZenonT(60), <1>1, <1>4, <2>2, <2>3
<1> QED
    BY ZenonT(60), <1>3, <1>4

(* A move within or without the slots leaves the turns of its own side alone. *)
LEMMA OwnTurns ==
    ASSUME NEW st, NEW t \in Threads, NEW a, NEW b, Moves(t, a, b), crew \subseteq Threads,
           a \in Slots <=> b \in Slots, b \in Slots => local'[t].head = local[t].head
    PROVE  /\ consumer' = consumer /\ TakeTurns(st) => TakeTurns(st)'
           /\ producer' = producer /\ PutTurns(st) => PutTurns(st)'
<1>0. pc[t] = a /\ pc'[t] = b
    BY ZenonT(60) DEF Moves
<1>1. /\ Within(Putters)' = Within(Putters) /\ Within(Takers)' = Within(Takers)
    <2>1. /\ t \in Within(Putters) <=> t \in Putters /\ a \in Slots
          /\ t \in Within(Takers) <=> t \in Takers /\ a \in Slots
        BY ZenonT(60), <1>0 DEF Within, InSlot, Slots
    <2>2. /\ t \notin Putters => Within(Putters)' = Within(Putters)
          /\ t \notin Takers => Within(Takers)' = Within(Takers)
          /\ b \in Slots /\ t \in Putters => Within(Putters)' = Within(Putters) \cup {t}
          /\ b \in Slots /\ t \in Takers => Within(Takers)' = Within(Takers) \cup {t}
          /\ b \notin Slots => Within(Putters)' = Within(Putters) \ {t}
          /\ b \notin Slots => Within(Takers)' = Within(Takers) \ {t}
        BY ZenonT(60), MoveEffects
    <2>3. Within(Putters)' = Within(Putters)
        BY ZenonT(60), <2>1, <2>2
    <2>4. Within(Takers)' = Within(Takers)
        BY ZenonT(60), <2>1, <2>2
    <2> QED
        BY ZenonT(60), <2>3, <2>4
<1>2. /\ \A s \in Within(Putters) : PcPos(st)'[s] = PcPos(st)[s]
      /\ \A s \in Within(Takers) : PcPos(st)'[s] = PcPos(st)[s]
    <2>1. \A s \in Within(Putters) \cup Within(Takers) : s \in Threads /\ pc[s] \in Slots
        BY ZenonT(60) DEF Within, InSlot, Slots, Putters, Takers
    <2>2. \A s \in Threads : s # t => PcPos(st)'[s] = PcPos(st)[s]
        BY ZenonT(60), MoveEffects
    <2>3. a \in Slots => PcPos(st)'[t] = PcPos(st)[t]
        BY ZenonT(60), MoveEffects
    <2> QED
        BY ZenonT(60), <1>0, <2>1, <2>2, <2>3
<1>3. /\ TakeTurns(st)' = Turns(Within(Takers)', PcPos(st)', Pos(st, consumer'.tail),
                                Pos(st, consumer'.head))
      /\ PutTurns(st)' = Turns(Within(Putters)', PcPos(st)', Pos(st, producer'.tail),
                               Pos(st, producer'.head))
    BY ZenonT(60) DEF TakeTurns, PutTurns, Turns, Pos
<1>4. ASSUME consumer' = consumer, TakeTurns(st) PROVE TakeTurns(st)'
    BY ZenonT(60), <1>1, <1>2, <1>3, <1>4, TurnsSame DEF TakeTurns
<1>5. ASSUME producer' = producer, PutTurns(st) PROVE PutTurns(st)'
    BY ZenonT(60), <1>1, <1>2, <1>3, <1>5, TurnsSame DEF PutTurns
<1> QED
    BY ZenonT(60), <1>4, <1>5

(* What the others' moves may do to a producer without harm.                 *)
LEMMA PutterStays ==
    ASSUME NEW st, NEW t \in Threads, NEW a, NEW b, Moves(t, a, b), crew \subseteq Threads,
           NEW s \in Putters, s # t, PutterOK(st, s), PcPos(st)[s] \in Nat,
           Pos(st, producer.head) \in Nat, Pos(st, consumer.tail) \in Nat, mask \in Nat,
           \/ producer'.head = producer.head
           \/ /\ Pos(st, producer'.head) = Pos(st, producer.head) + 1
              /\ SafeProducer,
           \/ consumer'.tail = consumer.tail
           \/ Pos(st, consumer'.tail) = Pos(st, consumer.tail) + 1,
           pc[s] = "publish" =>
             nodes'[Slot(local[s].head)] = nodes[Slot(local[s].head)]
    PROVE  PutterOK(st, s)'
<1>1. /\ s \in Threads /\ pc'[s] = pc[s] /\ local'[s] = local[s] /\ ret'[s] = ret[s]
      /\ PcPos(st)'[s] = PcPos(st)[s] /\ crew' = crew
    BY ZenonT(60), MoveEffects DEF Moves, Putters
<1>2. SafeProducer' <=> SafeProducer
    BY ZenonT(60), <1>1 DEF SafeProducer
<1>3. pc[s] \in {"check", "claim"} =>
         /\ PcPos(st)[s] <= Pos(st, producer'.head)
         /\ SafeProducer \/ PcPos(st)[s] = Pos(st, producer'.head)
    <2>1. CASE producer'.head = producer.head
        BY ZenonT(60), <2>1 DEF PutterOK
    <2>2. CASE /\ Pos(st, producer'.head) = Pos(st, producer.head) + 1
               /\ SafeProducer
        BY SMTT(60), <2>2 DEF PutterOK
    <2> QED
        BY ZenonT(60), <2>1, <2>2
<1>4. pc[s] = "claim" => PcPos(st)[s] < Pos(st, consumer'.tail) + mask
    BY SMTT(60) DEF PutterOK
<1>5. /\ Pos(st, producer.head)' = Pos(st, producer'.head)
      /\ Pos(st, consumer.tail)' = Pos(st, consumer'.tail)
    BY ZenonT(60) DEF Pos
<1> QED
    BY ZenonT(60), <1>1, <1>2, <1>3, <1>4, <1>5 DEF PutterOK

(* What the others' moves may do to a consumer without harm.                 *)
LEMMA TakerStays ==
    ASSUME NEW st, NEW t \in Threads, NEW a, NEW b, Moves(t, a, b), crew \subseteq Threads,
           NEW s \in Takers, s # t, TakerOK(st, s), PcPos(st)[s] \in Nat,
           Pos(st, consumer.head) \in Nat, Pos(st, producer.tail) \in Nat,
           \/ consumer'.head = consumer.head
           \/ /\ Pos(st, consumer'.head) = Pos(st, consumer.head) + 1
              /\ SafeConsumer,
           \/ producer'.tail = producer.tail
           \/ Pos(st, producer'.tail) = Pos(st, producer.tail) + 1
    PROVE  TakerOK(st, s)'
<1>1. /\ s \in Threads /\ pc'[s] = pc[s] /\ local'[s] = local[s] /\ ret'[s] = ret[s]
      /\ PcPos(st)'[s] = PcPos(st)[s] /\ crew' = crew
    BY ZenonT(60), MoveEffects DEF Moves, Takers
<1>2. SafeConsumer' <=> SafeConsumer
    BY ZenonT(60), <1>1 DEF SafeConsumer
<1>3. pc[s] \in {"check", "claim"} =>
         /\ PcPos(st)[s] <= Pos(st, consumer'.head)
         /\ SafeConsumer \/ PcPos(st)[s] = Pos(st, consumer'.head)
    <2>1. CASE consumer'.head = consumer.head
        BY ZenonT(60), <2>1 DEF TakerOK
    <2>2. CASE /\ Pos(st, consumer'.head) = Pos(st, consumer.head) + 1
               /\ SafeConsumer
        BY SMTT(60), <2>2 DEF TakerOK
    <2> QED
        BY ZenonT(60), <2>1, <2>2
<1>4. pc[s] = "claim" => PcPos(st)[s] < Pos(st, producer'.tail)
    BY SMTT(60) DEF TakerOK
<1>5. /\ Pos(st, consumer.head)' = Pos(st, consumer'.head)
      /\ Pos(st, producer.tail)' = Pos(st, producer'.tail)
    BY ZenonT(60) DEF Pos
<1> QED
    BY ZenonT(60), <1>1, <1>2, <1>3, <1>4, <1>5 DEF TakerOK

(* The counters in their order, and far from where they would catch up with   *)
(* each other.                                                              *)
LEMMA Bounds ==
    ASSUME QueueSetting, NEW st \in Counter, QInv(st)
    PROVE  /\ Pos(st, producer.head) \in Nat /\ Pos(st, producer.tail) \in Nat
           /\ Pos(st, consumer.head) \in Nat /\ Pos(st, consumer.tail) \in Nat
           /\ Pos(st, consumer.tail) <= Pos(st, consumer.head)
           /\ Pos(st, consumer.head) <= Pos(st, producer.tail)
           /\ Pos(st, producer.tail) <= Pos(st, producer.head)
           /\ Pos(st, producer.head) <= Pos(st, consumer.tail) + mask
           /\ Pos(st, producer.head) + Cardinality(Claiming) <= calls
           /\ calls \in Nat /\ calls <= MaxCalls /\ Cardinality(Claiming) \in Nat
           /\ Pos(st, producer.head) + mask < Wrap
           /\ mask \in Nat /\ MaxCalls \in Nat /\ Wrap \in Nat
           /\ Putters \subseteq Threads /\ Takers \subseteq Threads /\ Putters \cap Takers = {}
           /\ Counted(Claiming) /\ crew \subseteq Threads
           /\ \A t \in Threads : PcPos(st)[t] \in Nat
<1>1. TypeOK /\ PutTurns(st) /\ TakeTurns(st) /\ Order(st)
    BY ZenonT(60) DEF QInv
<1>2. /\ Putters \subseteq Threads /\ Takers \subseteq Threads /\ Putters \cap Takers = {}
      /\ Counted(Claiming) /\ crew \subseteq Threads
    BY ZenonT(60), <1>1, Sides
<1>3. Cardinality(Claiming) \in Nat
    BY ZenonT(60), <1>2 DEF Counted
<1>4. /\ Pos(st, producer.head) \in Nat /\ Pos(st, producer.tail) \in Nat
      /\ Pos(st, consumer.head) \in Nat /\ Pos(st, consumer.tail) \in Nat
      /\ \A t \in Threads : PcPos(st)[t] \in Nat
    BY ZenonT(60), <1>1, Fields
<1>5. /\ Pos(st, consumer.tail) <= Pos(st, consumer.head)
      /\ Pos(st, consumer.head) <= Pos(st, producer.tail)
      /\ Pos(st, producer.tail) <= Pos(st, producer.head)
      /\ Pos(st, producer.head) <= Pos(st, consumer.tail) + mask
      /\ Pos(st, producer.head) + Cardinality(Claiming) <= calls
    BY ZenonT(60), <1>1 DEF PutTurns, TakeTurns, Turns, Order
<1>6. calls \in 0 .. MaxCalls
    BY ZenonT(60), <1>1 DEF TypeOK
<1>7. /\ mask \in Nat /\ MaxCalls \in Nat /\ Wrap \in Nat /\ MaxCalls + mask < Wrap
    BY SMTT(60) DEF QueueSetting, QueueConstants, mask
<1>8. /\ calls \in Nat /\ calls <= MaxCalls /\ Pos(st, producer.head) + mask < Wrap
    BY SMTT(60), <1>3, <1>4, <1>5, <1>6, <1>7
<1> QED
    BY ZenonT(60), <1>2, <1>3, <1>4, <1>5, <1>7, <1>8

(* What every step leaves alone, when one thread moves.                      *)
Begins(st, t) ==
    /\ QueueSetting /\ st \in Counter /\ QInv(st) /\ TypeOK'
    /\ t \in Threads /\ t \in crew
    /\ t \in Putters => PutterOK(st, t)'
    /\ t \in Takers => TakerOK(st, t)'

(* A move that leaves the counters and the slots alone, and neither claims a  *)
(* slot nor leaves one, keeps the invariant.                                *)
LEMMA PlainMove ==
    ASSUME NEW st, NEW t, NEW a, NEW b, Begins(st, t), Moves(t, a, b),
           UNCHANGED <<producer, consumer, nodes>>,
           a \in Slots <=> b \in Slots, b \in Slots => local'[t].head = local[t].head,
           Pos(st, producer.head) + Cardinality(Claiming') <= calls'
    PROVE  QInv(st)'
<1>0. QueueSetting /\ st \in Counter /\ QInv(st) /\ t \in Threads /\ t \in crew
    BY ZenonT(60) DEF Begins
<1>1. /\ crew \subseteq Threads /\ mask \in Nat /\ \A s \in Threads : PcPos(st)[s] \in Nat
      /\ Pos(st, producer.head) \in Nat /\ Pos(st, producer.tail) \in Nat
      /\ Pos(st, consumer.head) \in Nat /\ Pos(st, consumer.tail) \in Nat
      /\ Putters \subseteq Threads /\ Takers \subseteq Threads
    BY ZenonT(60), <1>0, Bounds
<1>2. Putters' = Putters /\ Takers' = Takers /\ crew' = crew
    BY ZenonT(60), <1>0, <1>1, MoveEffects DEF Moves
<1>3. PutTurns(st)' /\ TakeTurns(st)'
    BY ZenonT(60), <1>0, <1>1, OwnTurns DEF QInv
<1>4. /\ producer'.head = producer.head /\ producer'.tail = producer.tail
      /\ consumer'.head = consumer.head /\ consumer'.tail = consumer.tail
    OBVIOUS
<1>5. ASSUME NEW s \in Putters PROVE PutterOK(st, s)'
    <2>1. CASE s = t
        BY ZenonT(60), <2>1 DEF Begins
    <2>2. CASE s # t
        <3>1. PutterOK(st, s) /\ PcPos(st)[s] \in Nat
            BY ZenonT(60), <1>0, <1>1 DEF QInv
        <3> QED
            BY ZenonT(60), <1>0, <1>1, <1>4, <2>2, <3>1, PutterStays
    <2> QED
        BY ZenonT(60), <2>1, <2>2
<1>6. ASSUME NEW s \in Takers PROVE TakerOK(st, s)'
    <2>1. CASE s = t
        BY ZenonT(60), <2>1 DEF Begins
    <2>2. CASE s # t
        <3>1. TakerOK(st, s) /\ PcPos(st)[s] \in Nat
            BY ZenonT(60), <1>0, <1>1 DEF QInv
        <3> QED
            BY ZenonT(60), <1>0, <1>1, <1>4, <2>2, <3>1, TakerStays
    <2> QED
        BY ZenonT(60), <2>1, <2>2
<1>7. Order(st)' /\ Filled(st)'
    <2>1. Order(st) /\ Filled(st)
        BY ZenonT(60), <1>0 DEF QInv
    <2> QED
        BY ZenonT(60), <2>1 DEF Order, Filled, Pos
<1>8. \A s \in Threads \ crew' : pc'[s] = "idle"
    BY ZenonT(60), <1>0 DEF QInv, Moves
<1>9. TypeOK'
    BY ZenonT(60) DEF Begins
<1> QED
    BY ZenonT(60), <1>2, <1>3, <1>5, <1>6, <1>7, <1>8, <1>9 DEF QInv

(* How many producers are still before their claim.                          *)
LEMMA ClaimingMoves ==
    ASSUME NEW t \in Threads, NEW a, NEW b, Moves(t, a, b), crew \subseteq Threads,
           Counted(Claiming)
    PROVE  /\ t \notin Putters => Claiming' = Claiming
           /\ a \in Trying /\ b \in Trying => Claiming' = Claiming
           /\ a \notin Trying /\ b \in Trying /\ t \in Putters =>
                Cardinality(Claiming') = Cardinality(Claiming) + 1
           /\ a \in Trying /\ b \notin Trying /\ t \in Putters =>
                Cardinality(Claiming') = Cardinality(Claiming) - 1
           /\ a \notin Trying /\ b \notin Trying => Claiming' = Claiming
<1>1. /\ t \notin Putters => Claiming' = Claiming
      /\ b \in Trying /\ t \in Putters => Claiming' = Claiming \cup {t}
      /\ b \notin Trying => Claiming' = Claiming \ {t}
    BY ZenonT(60), MoveEffects
<1>2. t \in Claiming <=> t \in Putters /\ a \in Trying
    BY ZenonT(60) DEF Claiming, Trying, Moves
<1>3. ASSUME a \in Trying, b \in Trying PROVE Claiming' = Claiming
    <2>1. CASE t \in Putters
        BY ZenonT(60), <1>1, <1>2, <1>3, <2>1
    <2> QED
        BY ZenonT(60), <1>1, <2>1
<1>4. ASSUME a \notin Trying, b \in Trying, t \in Putters
      PROVE  Cardinality(Claiming') = Cardinality(Claiming) + 1
    <2>1. t \notin Claiming /\ Claiming' = Claiming \cup {t}
        BY ZenonT(60), <1>1, <1>2, <1>4
    <2> QED
        BY ZenonT(60), <2>1 DEF Counted
<1>5. ASSUME a \in Trying, b \notin Trying, t \in Putters
      PROVE  Cardinality(Claiming') = Cardinality(Claiming) - 1
    <2>1. t \in Claiming /\ Claiming' = Claiming \ {t}
        BY ZenonT(60), <1>1, <1>2, <1>5
    <2> QED
        BY ZenonT(60), <2>1 DEF Counted
<1>6. ASSUME a \notin Trying, b \notin Trying PROVE Claiming' = Claiming
    BY ZenonT(60), <1>1, <1>2, <1>6
<1> QED
    BY ZenonT(60), <1>1, <1>3, <1>4, <1>5, <1>6

(* The places of a call that are in the slots, and those before the claim.   *)
LEMMA Places ==
    /\ "store" \in Slots /\ "publish" \in Slots /\ "copy" \in Slots /\ "release" \in Slots
    /\ "idle" \notin Slots /\ "head" \notin Slots /\ "check" \notin Slots /\ "claim" \notin Slots
    /\ "head" \in Trying /\ "check" \in Trying /\ "claim" \in Trying
    /\ "idle" \notin Trying /\ "store" \notin Trying /\ "publish" \notin Trying
BY SMTT(60) DEF Slots, Trying

(* What a producer's step starts from.                                      *)
LEMMA PutterStarts ==
    ASSUME QueueSetting, NEW st \in Counter, QInv(st), NEW p \in Putters, TypeOK',
           NEW a, NEW b, Moves(p, a, b)
    PROVE  /\ PutterOK(st, p) /\ TypeOK /\ p \in Threads /\ p \notin Takers
           /\ PutterOK(st, p)' => Begins(st, p)
           /\ Pos(st, producer'.head) = Pos(st, producer.head)' /\ (SafeProducer' <=> SafeProducer)
           /\ Pos(st, consumer'.tail) = Pos(st, consumer.tail)'
           /\ PcPos(st)[p] = Pos(st, local[p].head)
           /\ PcPos(st)'[p] = Pos(st, local'[p].head)
<1>1. PutterOK(st, p) /\ TypeOK
    BY ZenonT(60) DEF QInv
<1>2. p \in Threads /\ p \notin Takers /\ p \in crew
    BY ZenonT(60), Bounds DEF Putters
<1>3. PutterOK(st, p)' => Begins(st, p)
    BY ZenonT(60), <1>2 DEF Begins
<1>4. /\ Pos(st, producer'.head) = Pos(st, producer.head)' /\ (SafeProducer' <=> SafeProducer)
      /\ Pos(st, consumer'.tail) = Pos(st, consumer.tail)'
    BY ZenonT(60) DEF Pos, SafeProducer, Moves
<1>5. /\ PcPos(st)[p] = Pos(st, local[p].head)
      /\ PcPos(st)'[p] = Pos(st, local'[p].head)
    BY ZenonT(60), <1>2 DEF PcPos, Pos
<1> QED
    BY ZenonT(60), <1>1, <1>2, <1>3, <1>4, <1>5

(* What a consumer's step starts from.                                      *)
LEMMA TakerStarts ==
    ASSUME QueueSetting, NEW st \in Counter, QInv(st), NEW c \in Takers, TypeOK',
           NEW a, NEW b, Moves(c, a, b)
    PROVE  /\ TakerOK(st, c) /\ TypeOK /\ c \in Threads /\ c \notin Putters
           /\ TakerOK(st, c)' => Begins(st, c)
           /\ Pos(st, consumer'.head) = Pos(st, consumer.head)' /\ (SafeConsumer' <=> SafeConsumer)
           /\ Pos(st, producer'.tail) = Pos(st, producer.tail)'
           /\ PcPos(st)[c] = Pos(st, local[c].head)
           /\ PcPos(st)'[c] = Pos(st, local'[c].head)
<1>1. TakerOK(st, c) /\ TypeOK
    BY ZenonT(60) DEF QInv
<1>2. c \in Threads /\ c \notin Putters /\ c \in crew
    BY ZenonT(60), Bounds DEF Takers
<1>3. TakerOK(st, c)' => Begins(st, c)
    BY ZenonT(60), <1>2 DEF Begins
<1>4. /\ Pos(st, consumer'.head) = Pos(st, consumer.head)' /\ (SafeConsumer' <=> SafeConsumer)
      /\ Pos(st, producer'.tail) = Pos(st, producer.tail)'
    BY ZenonT(60) DEF Pos, SafeConsumer, Moves
<1>5. /\ PcPos(st)[c] = Pos(st, local[c].head)
      /\ PcPos(st)'[c] = Pos(st, local'[c].head)
    BY ZenonT(60), <1>2 DEF PcPos, Pos
<1> QED
    BY ZenonT(60), <1>1, <1>2, <1>3, <1>4, <1>5

-----------------------------------------------------------------------------
(* The steps of a producer. *)

(* A call is counted, and its thread with those before their claim.         *)
LEMMA CallEnqueueKeeps ==
    ASSUME QueueSetting, NEW st \in Counter, QInv(st), NEW p \in Putters, TypeOK',
           crew' = crew, CallEnqueue(p)
    PROVE  QInv(st)'
<1>1. TypeOK /\ p \in Threads
    BY ZenonT(60), Bounds DEF QInv
<1>2. /\ Moves(p, "idle", "head") /\ calls < MaxCalls /\ calls' = calls + 1
      /\ ret'[p] = CALLING /\ local'[p].node = calls + 1
      /\ UNCHANGED <<producer, consumer, nodes>>
    BY ZenonT(60), <1>1, DoesCallEnqueue
<1>3. local'[p].node \in Node
    BY SMTT(60), <1>2, Bounds DEF Node
<1>4. pc'[p] = "head"
    BY ZenonT(60), <1>2 DEF Moves
<1>5. PutterOK(st, p)'
    BY SMTT(60), <1>2, <1>3, <1>4 DEF PutterOK
<1>6. Pos(st, producer.head) + Cardinality(Claiming') <= calls'
    <2>1. Cardinality(Claiming') = Cardinality(Claiming) + 1
        BY ZenonT(60), <1>1, <1>2, Bounds, ClaimingMoves, Places
    <2> QED
        BY SMTT(60), <1>2, <2>1, Bounds
<1>7. Begins(st, p)
    BY ZenonT(60), <1>2, <1>5, PutterStarts
<1> QED
    BY ZenonT(60), <1>2, <1>6, <1>7, PlainMove, Places

(* The head a producer reads is the counter's.                              *)
LEMMA ReadProducerHeadKeeps ==
    ASSUME QueueSetting, NEW st \in Counter, QInv(st), NEW p \in Putters, TypeOK',
           crew' = crew, ReadProducerHead(p)
    PROVE  QInv(st)'
<1>1. TypeOK /\ p \in Threads
    BY ZenonT(60), Bounds DEF QInv
<1>2. /\ Moves(p, "head", "check") /\ ret'[p] = ret[p]
      /\ local'[p].head = producer.head /\ local'[p].node = local[p].node
      /\ UNCHANGED <<producer, consumer, nodes, calls>>
    BY ZenonT(60), <1>1, DoesReadProducerHead
<1>3. pc'[p] = "check" /\ pc[p] = "head"
    BY ZenonT(60), <1>2 DEF Moves
<1>4. /\ PutterOK(st, p) /\ PcPos(st)'[p] = Pos(st, producer'.head)
      /\ Pos(st, producer'.head) = Pos(st, producer.head)' /\ (SafeProducer' <=> SafeProducer)
      /\ Pos(st, producer'.head) \in Nat
    BY ZenonT(60), <1>2, Bounds, PutterStarts
<1>5. Pos(st, producer'.head) <= Pos(st, producer'.head)
    BY SMTT(60), <1>4
<1>6. PutterOK(st, p)'
    BY SMTT(60), <1>2, <1>3, <1>4, <1>5 DEF PutterOK
<1>7. Pos(st, producer.head) + Cardinality(Claiming') <= calls'
    BY ZenonT(60), <1>1, <1>2, Bounds, ClaimingMoves, Places
<1>8. Begins(st, p)
    BY ZenonT(60), <1>2, <1>6, PutterStarts
<1> QED
    BY ZenonT(60), <1>2, <1>7, <1>8, PlainMove, Places

(* What is available, in positions: the head may be old, and is never too far *)
(* ahead.                                                                   *)
LEMMA AvailablePos ==
    ASSUME QueueSetting, NEW st \in Counter, QInv(st), NEW p \in Putters, pc[p] = "check"
    PROVE  /\ Available(p) = Pos(st, consumer.tail) + mask - PcPos(st)[p]
           /\ PcPos(st)[p] <= Pos(st, producer.head) /\ PcPos(st)[p] \in Nat
<1>1. /\ PcPos(st)[p] <= Pos(st, producer.head)
      /\ PcPos(st)[p] \in Nat /\ PcPos(st)[p] = Pos(st, local[p].head)
      /\ local[p].head \in Counter /\ consumer.tail \in Counter
    BY ZenonT(60), Bounds, Fields DEF QInv, PutterOK
<1>2. /\ Pos(st, local[p].head) <= Pos(st, consumer.tail) + mask
      /\ Pos(st, consumer.tail) + mask < Wrap /\ mask \in 0 .. mask
    BY SMTT(60), <1>1, Bounds
<1>3. Minus(mask + consumer.tail, local[p].head)
        = Pos(st, consumer.tail) + mask - Pos(st, local[p].head)
    BY ZenonT(60), <1>1, <1>2, PosDiff
<1> QED
    BY ZenonT(60), <1>1, <1>3 DEF Available

(* The check passes only if there is room behind the head that was read.     *)
LEMMA CheckFullKeeps ==
    ASSUME QueueSetting, NEW st \in Counter, QInv(st), NEW p \in Putters, TypeOK',
           crew' = crew, CheckFull(p)
    PROVE  QInv(st)'
<1>1. TypeOK /\ p \in Threads
    BY ZenonT(60), Bounds DEF QInv
<1>2. CASE /\ Available(p) < 1 /\ Moves(p, "check", "idle") /\ ret'[p] = "QUEUE_FULL"
           /\ UNCHANGED <<producer, consumer, nodes, calls>>
    <2>1. pc'[p] = "idle" /\ pc[p] = "check"
        BY ZenonT(60), <1>2 DEF Moves
    <2>2. PutterOK(st, p)'
        BY ZenonT(60), <1>2, <2>1, PutterIdle
    <2>3. Pos(st, producer.head) + Cardinality(Claiming') <= calls'
        <3>1. Cardinality(Claiming') = Cardinality(Claiming) - 1
            BY ZenonT(60), <1>1, <1>2, Bounds, ClaimingMoves, Places
        <3> QED
            BY SMTT(60), <1>2, <3>1, Bounds
    <2>4. Begins(st, p)
        BY ZenonT(60), <1>2, <2>2, PutterStarts
    <2> QED
        BY ZenonT(60), <1>2, <2>3, <2>4, PlainMove, Places
<1>3. CASE /\ ~(Available(p) < 1) /\ Moves(p, "check", "claim") /\ ret'[p] = ret[p]
           /\ local'[p] = local[p]
           /\ UNCHANGED <<producer, consumer, nodes, calls>>
    <2>1. pc'[p] = "claim" /\ pc[p] = "check"
        BY ZenonT(60), <1>3 DEF Moves
    <2>2. /\ PutterOK(st, p) /\ PcPos(st)'[p] = PcPos(st)[p]
          /\ Pos(st, producer.head)' = Pos(st, producer.head) /\ (SafeProducer' <=> SafeProducer)
          /\ Pos(st, consumer.tail)' = Pos(st, consumer.tail)
        BY ZenonT(60), <1>3, PutterStarts
    <2>3. PcPos(st)[p] < Pos(st, consumer.tail) + mask
        BY SMTT(60), <1>3, <2>1, AvailablePos, Bounds
    <2>4. PutterOK(st, p)'
        BY SMTT(60), <1>3, <2>1, <2>2, <2>3 DEF PutterOK
    <2>5. Pos(st, producer.head) + Cardinality(Claiming') <= calls'
        BY ZenonT(60), <1>1, <1>3, Bounds, ClaimingMoves, Places
    <2>6. Begins(st, p)
        BY ZenonT(60), <1>3, <2>4, PutterStarts
    <2> QED
        BY ZenonT(60), <1>3, <2>5, <2>6, PlainMove, Places
<1> QED
    BY ZenonT(60), <1>1, <1>2, <1>3, DoesCheckFull

(* A step that is the thread's own, and leaves the others as they should be,  *)
(* keeps the invariant.                                                     *)
LEMMA Finish ==
    ASSUME NEW st, NEW t, NEW a, NEW b, Begins(st, t), Moves(t, a, b),
           PutTurns(st)', TakeTurns(st)', Order(st)', Filled(st)',
           \A s \in Putters : s # t => PutterOK(st, s)',
           \A s \in Takers : s # t => TakerOK(st, s)'
    PROVE  QInv(st)'
<1>0. QueueSetting /\ st \in Counter /\ QInv(st) /\ t \in Threads /\ t \in crew
    BY ZenonT(60) DEF Begins
<1>1. Putters' = Putters /\ Takers' = Takers /\ crew' = crew
    BY ZenonT(60), <1>0, Bounds, MoveEffects DEF Moves
<1>2. /\ \A s \in Putters : PutterOK(st, s)'
      /\ \A s \in Takers : TakerOK(st, s)'
    BY ZenonT(60) DEF Begins
<1>3. \A s \in Threads \ crew' : pc'[s] = "idle"
    BY ZenonT(60), <1>0 DEF QInv, Moves
<1>4. TypeOK'
    BY ZenonT(60) DEF Begins
<1> QED
    BY ZenonT(60), <1>1, <1>2, <1>3, <1>4 DEF QInv

(* The turns of a side after a step, over the new values.                    *)
LEMMA TurnsPrimed ==
    ASSUME NEW st
    PROVE  /\ TakeTurns(st)' = Turns(Within(Takers)', PcPos(st)', Pos(st, consumer'.tail),
                                     Pos(st, consumer'.head))
           /\ PutTurns(st)' = Turns(Within(Putters)', PcPos(st)', Pos(st, producer'.tail),
                                    Pos(st, producer'.head))
           /\ Pos(st, producer.head)' = Pos(st, producer'.head)
           /\ Pos(st, producer.tail)' = Pos(st, producer'.tail)
           /\ Pos(st, consumer.head)' = Pos(st, consumer'.head)
           /\ Pos(st, consumer.tail)' = Pos(st, consumer'.tail)
BY ZenonT(60) DEF TakeTurns, PutTurns, Turns, Pos

(* A claim that goes through is of the counter's value, whether compared or   *)
(* not, and there is room for it.                                           *)
LEMMA ClaimProducerKeeps ==
    ASSUME QueueSetting, NEW st \in Counter, QInv(st), NEW p \in Putters, TypeOK',
           crew' = crew, ClaimProducer(p)
    PROVE  QInv(st)'
<1>1. TypeOK /\ p \in Threads
    BY ZenonT(60), Bounds DEF QInv
<1>2. CASE /\ Moves(p, "claim", "head") /\ ret'[p] = ret[p] /\ local'[p] = local[p]
           /\ UNCHANGED <<producer, consumer, nodes, calls>>
    <2>1. pc'[p] = "head" /\ pc[p] = "claim"
        BY ZenonT(60), <1>2 DEF Moves
    <2>2. PutterOK(st, p)
        BY ZenonT(60) DEF QInv
    <2>3. PutterOK(st, p)'
        BY ZenonT(60), <1>2, <2>1, <2>2, PutterBusy, PutterGoesOn
    <2>4. Pos(st, producer.head) + Cardinality(Claiming') <= calls'
        BY ZenonT(60), <1>1, <1>2, Bounds, ClaimingMoves, Places
    <2>5. Begins(st, p)
        BY ZenonT(60), <1>2, <2>3, PutterStarts
    <2> QED
        BY ZenonT(60), <1>2, <2>4, <2>5, PlainMove, Places
<1>3. CASE /\ SafeProducer => producer.head = local[p].head
           /\ Moves(p, "claim", "store") /\ ret'[p] = ret[p] /\ local'[p] = local[p]
           /\ producer' = [producer EXCEPT !.head = Plus(local[p].head, 1)]
           /\ UNCHANGED <<consumer, nodes, calls>>
    <2>1. pc'[p] = "store" /\ pc[p] = "claim"
        BY ZenonT(60), <1>3 DEF Moves
    <2>2. /\ PutterOK(st, p) /\ PcPos(st)[p] = Pos(st, local[p].head)
          /\ PcPos(st)'[p] = PcPos(st)[p]
          /\ local[p].head \in Counter /\ producer.head \in Counter
        <3>1. /\ PutterOK(st, p) /\ PcPos(st)[p] = Pos(st, local[p].head)
              /\ PcPos(st)'[p] = Pos(st, local'[p].head)
            BY ZenonT(60), <1>3, PutterStarts
        <3>2. local[p].head \in Counter /\ producer.head \in Counter
            BY ZenonT(60), <1>1, Fields
        <3> QED
            BY ZenonT(60), <1>3, <3>1, <3>2
    <2>3. PcPos(st)[p] = Pos(st, producer.head)
        BY ZenonT(60), <1>3, <2>1, <2>2 DEF PutterOK
    <2>4. local[p].head = producer.head
        BY ZenonT(60), <2>2, <2>3, PosType
    <2>5. PcPos(st)[p] < Pos(st, consumer.tail) + mask
        BY ZenonT(60), <2>1, <2>2 DEF PutterOK
    <2>6. Pos(st, producer.head) + 1 < Wrap
        BY SMTT(60), <2>3, <2>5, Bounds
    <2>7. producer'.head = Plus(producer.head, 1) /\ producer'.tail = producer.tail
        BY ZenonT(60), <1>1, <1>3, <2>4, CounterSet
    <2>8. Pos(st, producer'.head) = Pos(st, producer.head) + 1
        <3>1. producer.head \in Counter
            BY ZenonT(60), <2>2
        <3>2. Pos(st, Plus(producer.head, 1)) = Pos(st, producer.head) + 1
            BY ONLY ZenonT(60), QueueSetting, st \in Counter, <3>1, <2>6, PosNext
        <3> QED
            BY ZenonT(60), <2>7, <3>2
    <2>9. PutTurns(st)'
        <3>1. Within(Putters)' = Within(Putters) \cup {p}
            BY ZenonT(60), <1>1, <1>3, Bounds, MoveEffects, Places
        <3>2. p \notin Within(Putters) /\ Within(Putters) \subseteq Putters
            BY ZenonT(60), <2>1, Places DEF Within, InSlot, Slots
        <3>3. \A s \in Within(Putters) : PcPos(st)[s] \in Nat /\ PcPos(st)'[s] = PcPos(st)[s]
            BY ZenonT(60), <1>1, <1>3, <3>2, Bounds, MoveEffects
        <3>4. Turns(Within(Putters), PcPos(st), Pos(st, producer.tail), Pos(st, producer.head))
            BY ZenonT(60) DEF QInv, PutTurns
        <3>5. PcPos(st)'[p] = Pos(st, producer.head)
            BY ZenonT(60), <2>2, <2>3
        <3>6. Turns(Within(Putters) \cup {p}, PcPos(st)', Pos(st, producer.tail),
                    Pos(st, producer.head) + 1)
            BY ZenonT(60), <3>2, <3>3, <3>4, <3>5, Bounds, TurnsClaim
        <3> QED
            BY ZenonT(60), <2>7, <2>8, <3>1, <3>6, TurnsPrimed
    <2>10. TakeTurns(st)'
        BY ZenonT(60), <1>1, <1>3, Bounds, OtherTurns, PutterStarts DEF QInv
    <2>11. Order(st)'
        <3>1. Cardinality(Claiming') = Cardinality(Claiming) - 1
            BY ZenonT(60), <1>1, <1>3, Bounds, ClaimingMoves, Places
        <3>2. /\ Pos(st, producer.head)' = Pos(st, producer.head) + 1
              /\ Pos(st, producer.tail)' = Pos(st, producer.tail)
              /\ Pos(st, consumer.head)' = Pos(st, consumer.head)
              /\ Pos(st, consumer.tail)' = Pos(st, consumer.tail)
            BY ZenonT(60), <1>3, <2>7, <2>8, TurnsPrimed
        <3>3. /\ Pos(st, producer.head) + 1 <= Pos(st, consumer.tail) + mask
              /\ Pos(st, producer.head) + 1 + Cardinality(Claiming') <= calls
            BY SMTT(60), <2>3, <2>5, <3>1, Bounds
        <3> QED
            BY ZenonT(60), <1>3, <3>2, <3>3, Bounds DEF Order
    <2>12. Filled(st)'
        <3>1. /\ Pos(st, producer.tail)' = Pos(st, producer.tail)
              /\ Pos(st, consumer.tail)' = Pos(st, consumer.tail)
            BY ZenonT(60), <1>3, <2>7, TurnsPrimed
        <3>2. Filled(st)
            BY ZenonT(60) DEF QInv
        <3> QED
            BY ZenonT(60), <1>3, <3>1, <3>2 DEF Filled
    <2>13. ASSUME NEW s \in Putters, s # p PROVE PutterOK(st, s)'
        <3>1. SafeProducer
            BY ZenonT(60), <1>1, <2>13, Sides, TwoThreads DEF SafeProducer, Putters
        <3>2. PutterOK(st, s) /\ PcPos(st)[s] \in Nat
            BY ZenonT(60), Bounds DEF QInv
        <3> QED
            BY ZenonT(60), <1>1, <1>3, <2>8, <2>13, <3>1, <3>2, Bounds, PutterStays
    <2>14. ASSUME NEW s \in Takers PROVE TakerOK(st, s)'
        <3>1. TakerOK(st, s) /\ PcPos(st)[s] \in Nat /\ s # p
            BY ZenonT(60), Bounds DEF QInv
        <3> QED
            BY ZenonT(60), <1>1, <1>3, <2>7, <3>1, Bounds, TakerStays
    <2>15. PutterOK(st, p)'
        BY ZenonT(60), <1>3, <2>1, <2>2, PutterBusy, PutterGoesOn
    <2>16. Begins(st, p)
        BY ZenonT(60), <1>3, <2>15, PutterStarts
    <2> QED
        BY ZenonT(60), <1>3, <2>9, <2>10, <2>11, <2>12, <2>13, <2>14, <2>16, Finish
<1> QED
    BY ZenonT(60), <1>1, <1>2, <1>3, DoesClaimProducer

(* The slot a producer has claimed is that of its position, and no other      *)
(* position from the consumer's tail to the producer's head has it.          *)
LEMMA ClaimedSlot ==
    ASSUME QueueSetting, NEW st \in Counter, QInv(st), NEW p \in Within(Putters)
    PROVE  /\ Slot(local[p].head) = SlotAt(st, PcPos(st)[p])
           /\ Slot(local[p].head) \in 0 .. mask /\ PcPos(st)[p] \in Nat
           /\ Pos(st, producer.tail) <= PcPos(st)[p] /\ PcPos(st)[p] < Pos(st, producer.head)
           /\ \A n \in Nat : /\ Pos(st, consumer.tail) <= n /\ n < Pos(st, producer.head)
                             /\ n # PcPos(st)[p]
                             => SlotAt(st, n) # Slot(local[p].head)
<1>1. p \in Threads /\ TypeOK
    BY ZenonT(60), Bounds DEF Within, QInv
<1>2. /\ local[p].head \in Counter /\ PcPos(st)[p] \in Nat
      /\ PcPos(st)[p] = Pos(st, local[p].head)
    BY ZenonT(60), <1>1, Fields
<1>3. Pos(st, producer.tail) <= PcPos(st)[p] /\ PcPos(st)[p] < Pos(st, producer.head)
    BY ZenonT(60) DEF QInv, PutTurns, Turns
<1>4. 0 \in Nat
    BY SMT
<1>5. Slot(local[p].head) = SlotAt(st, PcPos(st)[p])
    BY ZenonT(60), <1>2, <1>4, SlotPos
<1>6. Slot(local[p].head) \in 0 .. mask
    BY ZenonT(60), <1>2, <1>5, SlotType
<1>7. ASSUME NEW n \in Nat, Pos(st, consumer.tail) <= n, n < Pos(st, producer.head),
             n # PcPos(st)[p]
      PROVE  SlotAt(st, n) # Slot(local[p].head)
    <2>1. n <= PcPos(st)[p] + mask /\ PcPos(st)[p] <= n + mask
        BY SMTT(60), <1>2, <1>3, <1>7, Bounds
    <2> QED
        BY ZenonT(60), <1>2, <1>5, <1>7, <2>1, SlotsDiffer
<1> QED
    BY ZenonT(60), <1>2, <1>3, <1>5, <1>6, <1>7

(* The store meets no node that waits, is copied or is about to be published. *)
LEMMA StoreNodeKeeps ==
    ASSUME QueueSetting, NEW st \in Counter, QInv(st), NEW p \in Putters, TypeOK',
           crew' = crew, StoreNode(p)
    PROVE  QInv(st)'
<1>1. TypeOK /\ p \in Threads
    BY ZenonT(60), Bounds DEF QInv
<1>2. /\ Moves(p, "store", "publish") /\ ret'[p] = ret[p] /\ local'[p] = local[p]
      /\ nodes' = [nodes EXCEPT ![Slot(local[p].head)] = local[p].node]
      /\ UNCHANGED <<producer, consumer, calls>>
    BY ZenonT(60), <1>1, DoesStoreNode
<1>3. pc'[p] = "publish" /\ pc[p] = "store"
    BY ZenonT(60), <1>2 DEF Moves
<1>4. p \in Within(Putters)
    BY ZenonT(60), <1>3 DEF Within, InSlot
<1>5. DOMAIN nodes = 0 .. mask
    BY ZenonT(60), <1>1 DEF TypeOK
<1>6. /\ nodes'[Slot(local[p].head)] = local[p].node
      /\ \A i \in 0 .. mask : i # Slot(local[p].head) => nodes'[i] = nodes[i]
    BY ZenonT(60), <1>2, <1>4, <1>5, ClaimedSlot
<1>7. PutTurns(st)' /\ TakeTurns(st)'
    BY ZenonT(60), <1>1, <1>2, Bounds, OwnTurns, Places DEF QInv
<1>8. Order(st)'
    <2>1. Claiming' = Claiming
        BY ZenonT(60), <1>1, <1>2, Bounds, ClaimingMoves, Places
    <2>2. Order(st)
        BY ZenonT(60) DEF QInv
    <2> QED
        BY ZenonT(60), <1>2, <2>1, <2>2 DEF Order, Pos
<1>9. Filled(st)'
    <2>1. ASSUME NEW n \in Nat, Pos(st, consumer.tail) <= n, n < Pos(st, producer.tail)
          PROVE  nodes'[SlotAt(st, n)] \in Node
        <3>1. nodes[SlotAt(st, n)] \in Node
            BY ZenonT(60), <2>1 DEF QInv, Filled
        <3>2. n # PcPos(st)[p] /\ n < Pos(st, producer.head)
            BY SMTT(60), <1>4, <2>1, Bounds, ClaimedSlot
        <3>3. SlotAt(st, n) # Slot(local[p].head)
            BY ZenonT(60), <1>4, <2>1, <3>2, ClaimedSlot
        <3>4. SlotAt(st, n) \in 0 .. mask
            BY ZenonT(60), SlotType
        <3> QED
            BY ZenonT(60), <1>6, <3>1, <3>3, <3>4
    <2> QED
        BY ZenonT(60), <1>2, <2>1 DEF Filled, Pos, SlotAt
<1>10. ASSUME NEW s \in Putters, s # p PROVE PutterOK(st, s)'
    <2>1. PutterOK(st, s) /\ PcPos(st)[s] \in Nat
        BY ZenonT(60), Bounds DEF QInv
    <2>2. ASSUME pc[s] = "publish"
          PROVE  nodes'[Slot(local[s].head)] = nodes[Slot(local[s].head)]
        <3>1. s \in Within(Putters)
            BY ZenonT(60), <2>2 DEF Within, InSlot
        <3>2. PcPos(st)[s] # PcPos(st)[p]
            BY ZenonT(60), <1>4, <1>10, <3>1 DEF QInv, PutTurns, Turns
        <3>3. /\ Slot(local[s].head) = SlotAt(st, PcPos(st)[s]) /\ Slot(local[s].head) \in 0 .. mask
              /\ Pos(st, producer.tail) <= PcPos(st)[s] /\ PcPos(st)[s] < Pos(st, producer.head)
            BY ZenonT(60), <3>1, ClaimedSlot
        <3>4. Pos(st, consumer.tail) <= PcPos(st)[s]
            BY SMTT(60), <2>1, <3>3, Bounds
        <3>5. Slot(local[s].head) # Slot(local[p].head)
            BY ZenonT(60), <1>4, <2>1, <3>2, <3>3, <3>4, ClaimedSlot
        <3> QED
            BY ZenonT(60), <1>6, <3>3, <3>5
    <2> QED
        BY ZenonT(60), <1>1, <1>2, <1>10, <2>1, <2>2, Bounds, PutterStays
<1>11. ASSUME NEW s \in Takers PROVE TakerOK(st, s)'
    <2>1. TakerOK(st, s) /\ PcPos(st)[s] \in Nat /\ s # p
        BY ZenonT(60), Bounds DEF QInv
    <2> QED
        BY ZenonT(60), <1>1, <1>2, <2>1, Bounds, TakerStays
<1>12. PutterOK(st, p)'
    <2>1. PutterOK(st, p)
        BY ZenonT(60) DEF QInv
    <2>2. (nodes[Slot(local[p].head)] = local[p].node)'
        BY ZenonT(60), <1>2, <1>6 DEF Slot
    <2> QED
        BY ZenonT(60), <1>2, <1>3, <2>1, <2>2, PutterBusy, PutterPublishes
<1>13. Begins(st, p)
    BY ZenonT(60), <1>2, <1>12, PutterStarts
<1> QED
    BY ZenonT(60), <1>2, <1>7, <1>8, <1>9, <1>10, <1>11, <1>13, Finish

(* A producer that publishes is the one at the tail, whether it waited for    *)
(* that or is alone.                                                        *)
LEMMA PublishesAtTail ==
    ASSUME QueueSetting, NEW st \in Counter, QInv(st), NEW p \in Within(Putters),
           SafeProducer => producer.tail = local[p].head
    PROVE  PcPos(st)[p] = Pos(st, producer.tail)
<1>1. TypeOK /\ p \in Threads
    BY ZenonT(60), Bounds DEF QInv, Within
<1>2. CASE SafeProducer
    BY ZenonT(60), <1>1, <1>2, Fields
<1>3. CASE ~SafeProducer
    <2>1. /\ Pos(st, producer.tail) <= PcPos(st)[p] /\ PcPos(st)[p] < Pos(st, producer.head)
          /\ PcPos(st)[p] \in Nat
        BY ZenonT(60), ClaimedSlot
    <2>2. /\ Pos(st, producer.tail) <= Pos(st, producer.tail)
          /\ Pos(st, producer.tail) < Pos(st, producer.head) /\ Pos(st, producer.tail) \in Nat
        BY SMTT(60), <2>1, Bounds
    <2>3. PICK t \in Within(Putters) : PcPos(st)[t] = Pos(st, producer.tail)
        BY ZenonT(60), <2>2 DEF QInv, PutTurns, Turns
    <2>4. t = p
        BY ZenonT(60), <1>1, <1>3, Sides, TwoThreads DEF SafeProducer, Putters, Within
    <2> QED
        BY ZenonT(60), <2>3, <2>4
<1> QED
    BY ZenonT(60), <1>2, <1>3

(* What is published is what was stored, and now waits between the tails.    *)
LEMMA PublishKeeps ==
    ASSUME QueueSetting, NEW st \in Counter, QInv(st), NEW p \in Putters, TypeOK',
           crew' = crew, Publish(p)
    PROVE  QInv(st)'
<1>1. TypeOK /\ p \in Threads
    BY ZenonT(60), Bounds DEF QInv
<1>2. /\ SafeProducer => producer.tail = local[p].head
      /\ Moves(p, "publish", "idle") /\ ret'[p] = "OK" /\ local'[p].head = local[p].head
      /\ producer' = [producer EXCEPT !.tail = Plus(local[p].head, 1)]
      /\ UNCHANGED <<consumer, nodes, calls>>
    BY ZenonT(60), <1>1, DoesPublish
<1>3. pc'[p] = "idle" /\ pc[p] = "publish"
    BY ZenonT(60), <1>2 DEF Moves
<1>4. p \in Within(Putters) /\ Within(Putters) \subseteq Putters
    BY ZenonT(60), <1>3 DEF Within, InSlot
<1>5. PcPos(st)[p] = Pos(st, producer.tail)
    BY ZenonT(60), <1>2, <1>4, PublishesAtTail
<1>6. /\ local[p].head \in Counter /\ PcPos(st)[p] = Pos(st, local[p].head)
    BY ZenonT(60), <1>1, Fields
<1>7. Pos(st, local[p].head) + 1 < Wrap
    <2>1. PcPos(st)[p] < Pos(st, producer.head) /\ PcPos(st)[p] \in Nat
        BY ZenonT(60), <1>4, ClaimedSlot
    <2>2. Pos(st, producer.head) < Wrap
        BY SMTT(60), Bounds
    <2>3. Pos(st, producer.head) <= Pos(st, consumer.tail) + mask
        BY ZenonT(60), Bounds
    <2> QED
        BY SMTT(60), <1>5, <1>6, <2>1, <2>2, <2>3, Bounds
<1>8. Pos(st, Plus(local[p].head, 1)) = Pos(st, producer.tail) + 1
    <2>1. Pos(st, Plus(local[p].head, 1)) = Pos(st, local[p].head) + 1
        BY ONLY ZenonT(60), QueueSetting, st \in Counter, <1>6, <1>7, PosNext
    <2> QED
        BY ZenonT(60), <1>5, <1>6, <2>1
<1>9. /\ producer'.head = producer.head /\ producer'.tail = Plus(local[p].head, 1)
    BY ZenonT(60), <1>1, <1>2, CounterSet
<1>10. /\ Pos(st, producer.head)' = Pos(st, producer.head)
       /\ Pos(st, producer.tail)' = Pos(st, producer.tail) + 1
       /\ Pos(st, consumer.head)' = Pos(st, consumer.head)
       /\ Pos(st, consumer.tail)' = Pos(st, consumer.tail)
    BY ZenonT(60), <1>2, <1>8, <1>9, TurnsPrimed
<1>11. PutTurns(st)'
    <2>1. Within(Putters)' = Within(Putters) \ {p}
        BY ZenonT(60), <1>1, <1>2, Bounds, MoveEffects, Places
    <2>2. /\ \A s \in Within(Putters) : PcPos(st)[s] \in Nat
          /\ \A s \in Within(Putters) \ {p} : PcPos(st)'[s] = PcPos(st)[s]
        <3>1. \A s \in Within(Putters) : s \in Threads
            BY ZenonT(60), <1>4, Bounds
        <3>2. \A s \in Threads : s # p => PcPos(st)'[s] = PcPos(st)[s]
            BY ZenonT(60), <1>1, <1>2, Bounds, MoveEffects
        <3> QED
            BY ZenonT(60), <3>1, <3>2, Bounds
    <2>3. Turns(Within(Putters), PcPos(st), Pos(st, producer.tail), Pos(st, producer.head))
        BY ZenonT(60) DEF QInv, PutTurns
    <2>4. Turns(Within(Putters) \ {p}, PcPos(st)', Pos(st, producer.tail) + 1,
                Pos(st, producer.head))
        BY ZenonT(60), <1>4, <1>5, <2>2, <2>3, Bounds, TurnsLeave
    <2> QED
        BY ZenonT(60), <1>8, <1>9, <2>1, <2>4, TurnsPrimed
<1>12. TakeTurns(st)'
    BY ZenonT(60), <1>1, <1>2, Bounds, OtherTurns, PutterStarts DEF QInv
<1>13. Order(st)'
    <2>1. Claiming' = Claiming
        BY ZenonT(60), <1>1, <1>2, Bounds, ClaimingMoves, Places
    <2>2. Pos(st, consumer.head) <= Pos(st, producer.tail) + 1
        BY SMTT(60), Bounds
    <2> QED
        BY ZenonT(60), <1>2, <1>10, <2>1, <2>2, Bounds DEF Order
<1>14. Filled(st)'
    <2>1. nodes[SlotAt(st, Pos(st, producer.tail))] \in Node
        <3>1. Slot(local[p].head) = SlotAt(st, PcPos(st)[p])
            BY ZenonT(60), <1>4, ClaimedSlot
        <3>2. nodes[Slot(local[p].head)] = local[p].node /\ local[p].node \in Node
            BY ZenonT(60), <1>3, PutterBusy DEF QInv
        <3> QED
            BY ZenonT(60), <1>5, <3>1, <3>2
    <2>2. ASSUME NEW n \in Nat, Pos(st, consumer.tail) <= n, n < Pos(st, producer.tail) + 1
          PROVE  nodes[SlotAt(st, n)] \in Node
        <3>1. n = Pos(st, producer.tail) \/ n < Pos(st, producer.tail)
            BY SMTT(60), <2>2, Bounds
        <3> QED
            BY ZenonT(60), <2>1, <2>2, <3>1 DEF QInv, Filled
    <2> QED
        BY ZenonT(60), <1>2, <1>10, <2>2 DEF Filled
<1>15. ASSUME NEW s \in Putters, s # p PROVE PutterOK(st, s)'
    <2>1. PutterOK(st, s) /\ PcPos(st)[s] \in Nat
        BY ZenonT(60), Bounds DEF QInv
    <2> QED
        BY ZenonT(60), <1>1, <1>2, <1>9, <1>15, <2>1, Bounds, PutterStays
<1>16. ASSUME NEW s \in Takers PROVE TakerOK(st, s)'
    <2>1. TakerOK(st, s) /\ PcPos(st)[s] \in Nat /\ s # p
        BY ZenonT(60), Bounds DEF QInv
    <2>2. Pos(st, producer'.tail) = Pos(st, producer.tail) + 1
        BY ZenonT(60), <1>8, <1>9
    <2> QED
        BY ZenonT(60), <1>1, <1>2, <2>1, <2>2, Bounds, TakerStays
<1>17. PutterOK(st, p)'
    BY ZenonT(60), <1>2, <1>3, PutterIdle
<1>18. Begins(st, p)
    BY ZenonT(60), <1>2, <1>17, PutterStarts
<1> QED
    BY ZenonT(60), <1>2, <1>11, <1>12, <1>13, <1>14, <1>15, <1>16, <1>18, Finish

-----------------------------------------------------------------------------
(* The steps of a consumer. *)

(* A call of dequeue has no node yet.                                       *)
LEMMA CallDequeueKeeps ==
    ASSUME QueueSetting, NEW st \in Counter, QInv(st), NEW c \in Takers, TypeOK',
           crew' = crew, CallDequeue(c)
    PROVE  QInv(st)'
<1>1. TypeOK /\ c \in Threads
    BY ZenonT(60), Bounds DEF QInv
<1>2. /\ Moves(c, "idle", "head") /\ ret'[c] = CALLING /\ local'[c].node = NULL
      /\ UNCHANGED <<producer, consumer, nodes, calls>>
    BY ZenonT(60), <1>1, DoesCallDequeue
<1>3. pc'[c] = "head"
    BY ZenonT(60), <1>2 DEF Moves
<1>4. TakerOK(st, c)'
    BY ZenonT(60), <1>2, <1>3, TakerReads
<1>5. Pos(st, producer.head) + Cardinality(Claiming') <= calls'
    BY ZenonT(60), <1>1, <1>2, Bounds, ClaimingMoves, TakerStarts
<1>6. Begins(st, c)
    BY ZenonT(60), <1>2, <1>4, TakerStarts
<1> QED
    BY ZenonT(60), <1>2, <1>5, <1>6, PlainMove, Places

(* The head a consumer reads is the counter's.                              *)
LEMMA ReadConsumerHeadKeeps ==
    ASSUME QueueSetting, NEW st \in Counter, QInv(st), NEW c \in Takers, TypeOK',
           crew' = crew, ReadConsumerHead(c)
    PROVE  QInv(st)'
<1>1. TypeOK /\ c \in Threads
    BY ZenonT(60), Bounds DEF QInv
<1>2. /\ Moves(c, "head", "check") /\ ret'[c] = ret[c]
      /\ local'[c].head = consumer.head /\ local'[c].node = local[c].node
      /\ UNCHANGED <<producer, consumer, nodes, calls>>
    BY ZenonT(60), <1>1, DoesReadConsumerHead
<1>3. pc'[c] = "check" /\ pc[c] = "head"
    BY ZenonT(60), <1>2 DEF Moves
<1>4. /\ TakerOK(st, c) /\ PcPos(st)'[c] = Pos(st, consumer'.head)
      /\ Pos(st, consumer'.head) = Pos(st, consumer.head)' /\ (SafeConsumer' <=> SafeConsumer)
      /\ Pos(st, consumer'.head) \in Nat
    BY ZenonT(60), <1>2, Bounds, TakerStarts
<1>5. Pos(st, consumer'.head) <= Pos(st, consumer'.head)
    BY SMTT(60), <1>4
<1>6. TakerOK(st, c)'
    BY ZenonT(60), <1>2, <1>3, <1>4, <1>5, TakerBusy, TakerTries
<1>7. Pos(st, producer.head) + Cardinality(Claiming') <= calls'
    BY ZenonT(60), <1>1, <1>2, Bounds, ClaimingMoves, TakerStarts
<1>8. Begins(st, c)
    BY ZenonT(60), <1>2, <1>6, TakerStarts
<1> QED
    BY ZenonT(60), <1>2, <1>7, <1>8, PlainMove, Places

(* How many nodes wait behind the head that was read, in positions.          *)
LEMMA BehindPos ==
    ASSUME QueueSetting, NEW st \in Counter, QInv(st), NEW c \in Takers, pc[c] = "check"
    PROVE  /\ Minus(producer.tail, local[c].head) = Pos(st, producer.tail) - PcPos(st)[c]
           /\ PcPos(st)[c] <= Pos(st, consumer.head) /\ PcPos(st)[c] \in Nat
<1>1. /\ PcPos(st)[c] <= Pos(st, consumer.head)
      /\ PcPos(st)[c] \in Nat /\ PcPos(st)[c] = Pos(st, local[c].head)
      /\ local[c].head \in Counter /\ producer.tail \in Counter
    BY ZenonT(60), Bounds, Fields DEF QInv, TakerOK
<1>2. /\ Pos(st, local[c].head) <= Pos(st, producer.tail) + 0
      /\ Pos(st, producer.tail) + 0 < Wrap /\ 0 \in 0 .. mask
    BY SMTT(60), <1>1, Bounds
<1>3. Minus(0 + producer.tail, local[c].head)
        = Pos(st, producer.tail) + 0 - Pos(st, local[c].head)
    BY ZenonT(60), <1>1, <1>2, PosDiff
<1>4. producer.tail \in Int
    BY SMTT(60), <1>1 DEF Counter, QueueSetting, QueueConstants
<1>5. 0 + producer.tail = producer.tail
    BY SMTT(60), <1>4
<1>6. Minus(producer.tail, local[c].head)
        = Pos(st, producer.tail) + 0 - Pos(st, local[c].head)
    BY ZenonT(60), <1>3, <1>5
<1>7. Pos(st, producer.tail) + 0 - Pos(st, local[c].head)
        = Pos(st, producer.tail) - PcPos(st)[c]
    BY SMTT(60), <1>1, Bounds
<1> QED
    BY ZenonT(60), <1>1, <1>6, <1>7

(* The check passes only if a node waits at the head that was read, or did.   *)
LEMMA CheckEmptyKeeps ==
    ASSUME QueueSetting, NEW st \in Counter, QInv(st), NEW c \in Takers, TypeOK',
           crew' = crew, CheckEmpty(c)
    PROVE  QInv(st)'
<1>1. TypeOK /\ c \in Threads
    BY ZenonT(60), Bounds DEF QInv
<1>2. CASE /\ Moves(c, "check", "idle") /\ ret'[c] = "QUEUE_EMPTY"
           /\ UNCHANGED <<producer, consumer, nodes, calls>>
    <2>1. pc'[c] = "idle" /\ pc[c] = "check"
        BY ZenonT(60), <1>2 DEF Moves
    <2>2. TakerOK(st, c)'
        BY ZenonT(60), <1>2, <2>1, TakerIdle
    <2>3. Pos(st, producer.head) + Cardinality(Claiming') <= calls'
        BY ZenonT(60), <1>1, <1>2, Bounds, ClaimingMoves, TakerStarts
    <2>4. Begins(st, c)
        BY ZenonT(60), <1>2, <2>2, TakerStarts
    <2> QED
        BY ZenonT(60), <1>2, <2>3, <2>4, PlainMove, Places
<1>3. CASE /\ ~(Minus(producer.tail, local[c].head) < 1) /\ Moves(c, "check", "claim")
           /\ ret'[c] = ret[c] /\ local'[c] = local[c]
           /\ UNCHANGED <<producer, consumer, nodes, calls>>
    <2>1. pc'[c] = "claim" /\ pc[c] = "check"
        BY ZenonT(60), <1>3 DEF Moves
    <2>2. /\ TakerOK(st, c) /\ PcPos(st)'[c] = PcPos(st)[c]
          /\ Pos(st, consumer.head)' = Pos(st, consumer.head) /\ (SafeConsumer' <=> SafeConsumer)
          /\ Pos(st, producer.tail)' = Pos(st, producer.tail)
        BY ZenonT(60), <1>3, TakerStarts
    <2>3. PcPos(st)[c] < Pos(st, producer.tail)
        BY SMTT(60), <1>3, <2>1, BehindPos, Bounds
    <2>4. TakerOK(st, c)'
        BY ZenonT(60), <1>3, <2>1, <2>2, <2>3, TakerBusy, TakerTries DEF TakerOK
    <2>5. Pos(st, producer.head) + Cardinality(Claiming') <= calls'
        BY ZenonT(60), <1>1, <1>3, Bounds, ClaimingMoves, TakerStarts
    <2>6. Begins(st, c)
        BY ZenonT(60), <1>3, <2>4, TakerStarts
    <2> QED
        BY ZenonT(60), <1>3, <2>5, <2>6, PlainMove, Places
<1> QED
    BY ZenonT(60), <1>1, <1>2, <1>3, DoesCheckEmpty

(* A consumer's claim is of the counter's value, and of a node that waits.     *)
LEMMA ClaimConsumerKeeps ==
    ASSUME QueueSetting, NEW st \in Counter, QInv(st), NEW c \in Takers, TypeOK',
           crew' = crew, ClaimConsumer(c)
    PROVE  QInv(st)'
<1>1. TypeOK /\ c \in Threads
    BY ZenonT(60), Bounds DEF QInv
<1>2. CASE /\ Moves(c, "claim", "head") /\ ret'[c] = ret[c] /\ local'[c] = local[c]
           /\ UNCHANGED <<producer, consumer, nodes, calls>>
    <2>1. pc'[c] = "head" /\ pc[c] = "claim"
        BY ZenonT(60), <1>2 DEF Moves
    <2>2. TakerOK(st, c)
        BY ZenonT(60) DEF QInv
    <2>3. TakerOK(st, c)'
        BY ZenonT(60), <1>2, <2>1, <2>2, TakerBusy, TakerReads
    <2>4. Pos(st, producer.head) + Cardinality(Claiming') <= calls'
        BY ZenonT(60), <1>1, <1>2, Bounds, ClaimingMoves, TakerStarts
    <2>5. Begins(st, c)
        BY ZenonT(60), <1>2, <2>3, TakerStarts
    <2> QED
        BY ZenonT(60), <1>2, <2>4, <2>5, PlainMove, Places
<1>3. CASE /\ SafeConsumer => consumer.head = local[c].head
           /\ Moves(c, "claim", "copy") /\ ret'[c] = ret[c] /\ local'[c] = local[c]
           /\ consumer' = [consumer EXCEPT !.head = Plus(local[c].head, 1)]
           /\ UNCHANGED <<producer, nodes, calls>>
    <2>1. pc'[c] = "copy" /\ pc[c] = "claim"
        BY ZenonT(60), <1>3 DEF Moves
    <2>2. /\ TakerOK(st, c) /\ PcPos(st)[c] = Pos(st, local[c].head)
          /\ PcPos(st)'[c] = PcPos(st)[c]
          /\ local[c].head \in Counter /\ consumer.head \in Counter
        <3>1. /\ TakerOK(st, c) /\ PcPos(st)[c] = Pos(st, local[c].head)
              /\ PcPos(st)'[c] = Pos(st, local'[c].head)
            BY ZenonT(60), <1>3, TakerStarts
        <3>2. local[c].head \in Counter /\ consumer.head \in Counter
            BY ZenonT(60), <1>1, Fields
        <3> QED
            BY ZenonT(60), <1>3, <3>1, <3>2
    <2>3. PcPos(st)[c] = Pos(st, consumer.head)
        BY ZenonT(60), <1>3, <2>1, <2>2 DEF TakerOK
    <2>4. local[c].head = consumer.head
        BY ZenonT(60), <2>2, <2>3, PosType
    <2>5. PcPos(st)[c] < Pos(st, producer.tail)
        BY ZenonT(60), <2>1, <2>2 DEF TakerOK
    <2>6. Pos(st, consumer.head) + 1 < Wrap
        BY SMTT(60), <2>3, <2>5, Bounds
    <2>7. consumer'.head = Plus(consumer.head, 1) /\ consumer'.tail = consumer.tail
        BY ZenonT(60), <1>1, <1>3, <2>4, CounterSet
    <2>8. Pos(st, consumer'.head) = Pos(st, consumer.head) + 1
        <3>1. consumer.head \in Counter
            BY ZenonT(60), <2>2
        <3>2. Pos(st, Plus(consumer.head, 1)) = Pos(st, consumer.head) + 1
            BY ONLY ZenonT(60), QueueSetting, st \in Counter, <3>1, <2>6, PosNext
        <3> QED
            BY ZenonT(60), <2>7, <3>2
    <2>9. TakeTurns(st)'
        <3>1. Within(Takers)' = Within(Takers) \cup {c}
            BY ZenonT(60), <1>1, <1>3, Bounds, MoveEffects, Places
        <3>2. c \notin Within(Takers) /\ Within(Takers) \subseteq Takers
            BY ZenonT(60), <2>1, Places DEF Within, InSlot, Slots
        <3>3. \A s \in Within(Takers) : PcPos(st)[s] \in Nat /\ PcPos(st)'[s] = PcPos(st)[s]
            BY ZenonT(60), <1>1, <1>3, <3>2, Bounds, MoveEffects
        <3>4. Turns(Within(Takers), PcPos(st), Pos(st, consumer.tail), Pos(st, consumer.head))
            BY ZenonT(60) DEF QInv, TakeTurns
        <3>5. PcPos(st)'[c] = Pos(st, consumer.head)
            BY ZenonT(60), <2>2, <2>3
        <3>6. Turns(Within(Takers) \cup {c}, PcPos(st)', Pos(st, consumer.tail),
                    Pos(st, consumer.head) + 1)
            BY ZenonT(60), <3>2, <3>3, <3>4, <3>5, Bounds, TurnsClaim
        <3> QED
            BY ZenonT(60), <2>7, <2>8, <3>1, <3>6, TurnsPrimed
    <2>10. PutTurns(st)'
        BY ZenonT(60), <1>1, <1>3, Bounds, OtherTurns, TakerStarts DEF QInv
    <2>11. /\ Pos(st, producer.head)' = Pos(st, producer.head)
           /\ Pos(st, producer.tail)' = Pos(st, producer.tail)
           /\ Pos(st, consumer.head)' = Pos(st, consumer.head) + 1
           /\ Pos(st, consumer.tail)' = Pos(st, consumer.tail)
        BY ZenonT(60), <1>3, <2>7, <2>8, TurnsPrimed
    <2>12. Order(st)'
        <3>1. Claiming' = Claiming
            BY ZenonT(60), <1>1, <1>3, Bounds, ClaimingMoves, TakerStarts
        <3>2. Pos(st, consumer.head) + 1 <= Pos(st, producer.tail)
            BY SMTT(60), <2>3, <2>5, Bounds
        <3> QED
            BY ZenonT(60), <1>3, <2>11, <3>1, <3>2, Bounds DEF Order
    <2>13. Filled(st)'
        <3>1. Filled(st)
            BY ZenonT(60) DEF QInv
        <3> QED
            BY ZenonT(60), <1>3, <2>11, <3>1 DEF Filled
    <2>14. ASSUME NEW s \in Takers, s # c PROVE TakerOK(st, s)'
        <3>1. SafeConsumer
            BY ZenonT(60), <1>1, <2>14, Sides, TwoThreads DEF SafeConsumer, Takers
        <3>2. TakerOK(st, s) /\ PcPos(st)[s] \in Nat
            BY ZenonT(60), Bounds DEF QInv
        <3> QED
            BY ZenonT(60), <1>1, <1>3, <2>8, <2>14, <3>1, <3>2, Bounds, TakerStays
    <2>15. ASSUME NEW s \in Putters PROVE PutterOK(st, s)'
        <3>1. PutterOK(st, s) /\ PcPos(st)[s] \in Nat /\ s # c
            BY ZenonT(60), Bounds DEF QInv
        <3> QED
            BY ZenonT(60), <1>1, <1>3, <2>7, <3>1, Bounds, PutterStays
    <2>16. TakerOK(st, c)'
        BY ZenonT(60), <1>3, <2>1, <2>2, TakerBusy, TakerHolds
    <2>17. Begins(st, c)
        BY ZenonT(60), <1>3, <2>16, TakerStarts
    <2> QED
        BY ZenonT(60), <1>3, <2>9, <2>10, <2>12, <2>13, <2>14, <2>15, <2>17, Finish
<1> QED
    BY ZenonT(60), <1>1, <1>2, <1>3, DoesClaimConsumer

(* The slot a consumer has claimed is that of its position, and holds a node.  *)
LEMMA TakenSlot ==
    ASSUME QueueSetting, NEW st \in Counter, QInv(st), NEW c \in Within(Takers)
    PROVE  /\ Slot(local[c].head) = SlotAt(st, PcPos(st)[c])
           /\ nodes[Slot(local[c].head)] \in Node /\ PcPos(st)[c] \in Nat
           /\ Pos(st, consumer.tail) <= PcPos(st)[c] /\ PcPos(st)[c] < Pos(st, consumer.head)
<1>1. c \in Threads /\ TypeOK
    BY ZenonT(60), Bounds DEF Within, QInv
<1>2. /\ local[c].head \in Counter /\ PcPos(st)[c] \in Nat
      /\ PcPos(st)[c] = Pos(st, local[c].head)
    BY ZenonT(60), <1>1, Fields
<1>3. Pos(st, consumer.tail) <= PcPos(st)[c] /\ PcPos(st)[c] < Pos(st, consumer.head)
    BY ZenonT(60) DEF QInv, TakeTurns, Turns
<1>4. 0 \in Nat /\ PcPos(st)[c] < Pos(st, producer.tail)
    BY SMTT(60), <1>2, <1>3, Bounds
<1>5. Slot(local[c].head) = SlotAt(st, PcPos(st)[c])
    BY ZenonT(60), <1>2, <1>4, SlotPos
<1>6. nodes[SlotAt(st, PcPos(st)[c])] \in Node
    BY ZenonT(60), <1>2, <1>3, <1>4 DEF QInv, Filled
<1> QED
    BY ZenonT(60), <1>2, <1>3, <1>5, <1>6

(* The node that is copied is one that was published.                        *)
LEMMA CopyNodeKeeps ==
    ASSUME QueueSetting, NEW st \in Counter, QInv(st), NEW c \in Takers, TypeOK',
           crew' = crew, CopyNode(c)
    PROVE  QInv(st)'
<1>1. TypeOK /\ c \in Threads
    BY ZenonT(60), Bounds DEF QInv
<1>2. /\ Moves(c, "copy", "release") /\ ret'[c] = ret[c]
      /\ local'[c].head = local[c].head /\ local'[c].node = nodes[Slot(local[c].head)]
      /\ UNCHANGED <<producer, consumer, nodes, calls>>
    BY ZenonT(60), <1>1, DoesCopyNode
<1>3. pc'[c] = "release" /\ pc[c] = "copy"
    BY ZenonT(60), <1>2 DEF Moves
<1>4. c \in Within(Takers)
    BY ZenonT(60), <1>3 DEF Within, InSlot
<1>5. local'[c].node \in Node /\ TakerOK(st, c)
    BY ZenonT(60), <1>2, <1>4, TakenSlot DEF QInv
<1>6. TakerOK(st, c)'
    BY ZenonT(60), <1>2, <1>3, <1>5, TakerBusy, TakerHolds
<1>7. Pos(st, producer.head) + Cardinality(Claiming') <= calls'
    BY ZenonT(60), <1>1, <1>2, Bounds, ClaimingMoves, TakerStarts
<1>8. Begins(st, c)
    BY ZenonT(60), <1>2, <1>6, TakerStarts
<1> QED
    BY ZenonT(60), <1>2, <1>7, <1>8, PlainMove, Places

(* A consumer that gives its slot back is the one at the tail.                *)
LEMMA ReleasesAtTail ==
    ASSUME QueueSetting, NEW st \in Counter, QInv(st), NEW c \in Within(Takers),
           SafeConsumer => consumer.tail = local[c].head
    PROVE  PcPos(st)[c] = Pos(st, consumer.tail)
<1>1. TypeOK /\ c \in Threads
    BY ZenonT(60), Bounds DEF QInv, Within
<1>2. CASE SafeConsumer
    BY ZenonT(60), <1>1, <1>2, Fields
<1>3. CASE ~SafeConsumer
    <2>1. /\ Pos(st, consumer.tail) <= PcPos(st)[c] /\ PcPos(st)[c] < Pos(st, consumer.head)
          /\ PcPos(st)[c] \in Nat
        BY ZenonT(60), TakenSlot
    <2>2. /\ Pos(st, consumer.tail) <= Pos(st, consumer.tail)
          /\ Pos(st, consumer.tail) < Pos(st, consumer.head) /\ Pos(st, consumer.tail) \in Nat
        BY SMTT(60), <2>1, Bounds
    <2>3. PICK t \in Within(Takers) : PcPos(st)[t] = Pos(st, consumer.tail)
        BY ZenonT(60), <2>2 DEF QInv, TakeTurns, Turns
    <2>4. t = c
        BY ZenonT(60), <1>1, <1>3, Sides, TwoThreads DEF SafeConsumer, Takers, Within
    <2> QED
        BY ZenonT(60), <2>3, <2>4
<1> QED
    BY ZenonT(60), <1>2, <1>3

(* The slot that is given back is the oldest that was held.                  *)
LEMMA ReleaseKeeps ==
    ASSUME QueueSetting, NEW st \in Counter, QInv(st), NEW c \in Takers, TypeOK',
           crew' = crew, Release(c)
    PROVE  QInv(st)'
<1>1. TypeOK /\ c \in Threads
    BY ZenonT(60), Bounds DEF QInv
<1>2. /\ SafeConsumer => consumer.tail = local[c].head
      /\ Moves(c, "release", "idle") /\ ret'[c] = "OK" /\ local'[c] = local[c]
      /\ consumer' = [consumer EXCEPT !.tail = Plus(local[c].head, 1)]
      /\ UNCHANGED <<producer, nodes, calls>>
    BY ZenonT(60), <1>1, DoesRelease
<1>3. pc'[c] = "idle" /\ pc[c] = "release"
    BY ZenonT(60), <1>2 DEF Moves
<1>4. c \in Within(Takers) /\ Within(Takers) \subseteq Takers
    BY ZenonT(60), <1>3 DEF Within, InSlot
<1>5. PcPos(st)[c] = Pos(st, consumer.tail)
    BY ZenonT(60), <1>2, <1>4, ReleasesAtTail
<1>6. /\ local[c].head \in Counter /\ PcPos(st)[c] = Pos(st, local[c].head)
      /\ PcPos(st)[c] \in Nat
    BY ZenonT(60), <1>1, Fields
<1>7. /\ Pos(st, local[c].head) + 1 < Wrap
      /\ Pos(st, consumer.tail) < Pos(st, consumer.head)
    <2>1. PcPos(st)[c] < Pos(st, consumer.head)
        BY ZenonT(60), <1>4, TakenSlot
    <2> QED
        BY SMTT(60), <1>5, <1>6, <2>1, Bounds
<1>8. Pos(st, Plus(local[c].head, 1)) = Pos(st, consumer.tail) + 1
    <2>1. Pos(st, Plus(local[c].head, 1)) = Pos(st, local[c].head) + 1
        BY ONLY ZenonT(60), QueueSetting, st \in Counter, <1>6, <1>7, PosNext
    <2> QED
        BY ZenonT(60), <1>5, <1>6, <2>1
<1>9. consumer'.head = consumer.head /\ consumer'.tail = Plus(local[c].head, 1)
    BY ZenonT(60), <1>1, <1>2, CounterSet
<1>10. /\ Pos(st, producer.head)' = Pos(st, producer.head)
       /\ Pos(st, producer.tail)' = Pos(st, producer.tail)
       /\ Pos(st, consumer.head)' = Pos(st, consumer.head)
       /\ Pos(st, consumer.tail)' = Pos(st, consumer.tail) + 1
    BY ZenonT(60), <1>2, <1>8, <1>9, TurnsPrimed
<1>11. TakeTurns(st)'
    <2>1. Within(Takers)' = Within(Takers) \ {c}
        BY ZenonT(60), <1>1, <1>2, Bounds, MoveEffects, Places
    <2>2. /\ \A s \in Within(Takers) : PcPos(st)[s] \in Nat
          /\ \A s \in Within(Takers) \ {c} : PcPos(st)'[s] = PcPos(st)[s]
        <3>1. \A s \in Within(Takers) : s \in Threads
            BY ZenonT(60), <1>4, Bounds
        <3>2. \A s \in Threads : s # c => PcPos(st)'[s] = PcPos(st)[s]
            BY ZenonT(60), <1>1, <1>2, Bounds, MoveEffects
        <3> QED
            BY ZenonT(60), <3>1, <3>2, Bounds
    <2>3. Turns(Within(Takers), PcPos(st), Pos(st, consumer.tail), Pos(st, consumer.head))
        BY ZenonT(60) DEF QInv, TakeTurns
    <2>4. Turns(Within(Takers) \ {c}, PcPos(st)', Pos(st, consumer.tail) + 1,
                Pos(st, consumer.head))
        BY ZenonT(60), <1>4, <1>5, <2>2, <2>3, Bounds, TurnsLeave
    <2> QED
        BY ZenonT(60), <1>8, <1>9, <2>1, <2>4, TurnsPrimed
<1>12. PutTurns(st)'
    BY ZenonT(60), <1>1, <1>2, Bounds, OtherTurns, TakerStarts DEF QInv
<1>13. Order(st)'
    <2>1. Claiming' = Claiming
        BY ZenonT(60), <1>1, <1>2, Bounds, ClaimingMoves, TakerStarts
    <2>2. /\ Pos(st, consumer.tail) + 1 <= Pos(st, consumer.head)
          /\ Pos(st, producer.head) <= Pos(st, consumer.tail) + 1 + mask
        BY SMTT(60), <1>7, Bounds
    <2> QED
        BY ZenonT(60), <1>2, <1>10, <2>1, <2>2, Bounds DEF Order
<1>14. Filled(st)'
    <2>1. ASSUME NEW n \in Nat, Pos(st, consumer.tail) + 1 <= n, n < Pos(st, producer.tail)
          PROVE  nodes[SlotAt(st, n)] \in Node
        <3>1. Pos(st, consumer.tail) <= n
            BY SMTT(60), <2>1, Bounds
        <3> QED
            BY ZenonT(60), <2>1, <3>1 DEF QInv, Filled
    <2> QED
        BY ZenonT(60), <1>2, <1>10, <2>1 DEF Filled
<1>15. ASSUME NEW s \in Takers, s # c PROVE TakerOK(st, s)'
    <2>1. TakerOK(st, s) /\ PcPos(st)[s] \in Nat
        BY ZenonT(60), Bounds DEF QInv
    <2> QED
        BY ZenonT(60), <1>1, <1>2, <1>9, <1>15, <2>1, Bounds, TakerStays
<1>16. ASSUME NEW s \in Putters PROVE PutterOK(st, s)'
    <2>1. PutterOK(st, s) /\ PcPos(st)[s] \in Nat /\ s # c
        BY ZenonT(60), Bounds DEF QInv
    <2>2. Pos(st, consumer'.tail) = Pos(st, consumer.tail) + 1
        BY ZenonT(60), <1>8, <1>9
    <2> QED
        BY ZenonT(60), <1>1, <1>2, <2>1, <2>2, Bounds, PutterStays
<1>17. TakerOK(st, c)'
    BY ZenonT(60), <1>2, <1>3, TakerIdle
<1>18. Begins(st, c)
    BY ZenonT(60), <1>2, <1>17, TakerStarts
<1> QED
    BY ZenonT(60), <1>2, <1>11, <1>12, <1>13, <1>14, <1>15, <1>16, <1>18, Finish

-----------------------------------------------------------------------------

(* A fresh queue: the counters stand where it was started, and no thread is   *)
(* in a call.                                                               *)
LEMMA Fresh ==
    ASSUME QueueSetting, Init
    PROVE  \E st \in Starts : QInv(st)
<1>1. PICK st \in Starts : /\ producer = [head |-> st, tail |-> st]
                           /\ consumer = [head |-> st, tail |-> st]
    BY ZenonT(60) DEF Init
<1>2. st \in Counter
    BY ZenonT(60) DEF QueueSetting, QueueConstants
<1>3. /\ producer.head = st /\ producer.tail = st
      /\ consumer.head = st /\ consumer.tail = st
    BY ZenonT(60), <1>1
<1>4. Pos(st, st) = 0 /\ mask \in Nat /\ 0 \in Counter
    BY SMTT(60), <1>2 DEF Pos, Counter, QueueSetting, QueueConstants, mask
<1>5. TypeOK
    <2>1. /\ producer \in [head : Counter, tail : Counter]
          /\ consumer \in [head : Counter, tail : Counter]
        BY ZenonT(60), <1>1, <1>2
    <2>2. /\ nodes \in [0 .. mask -> Node \cup {NULL}]
          /\ local \in [Threads -> [head : Counter, node : Node \cup {NULL}]]
        BY ZenonT(60), <1>4 DEF Init
    <2>3. ret \in [Threads -> {CALLING, "OK", "QUEUE_FULL", "QUEUE_EMPTY"}] /\ crew \in Crews
        BY ZenonT(60) DEF Init
    <2>4. pc \in [Threads -> {"idle", "head", "check", "claim", "store", "publish",
                             "copy", "release"}]
        BY ZenonT(60) DEF Init
    <2>5. calls \in 0 .. MaxCalls
        BY SMTT(60) DEF Init, QueueSetting, QueueConstants
    <2> QED
        BY ZenonT(60), <2>1, <2>2, <2>3, <2>4, <2>5 DEF TypeOK
<1>6. \A t \in Threads : pc[t] = "idle" /\ ret[t] = "OK"
    BY ZenonT(60) DEF Init
<1>7. Putters \subseteq Threads /\ Takers \subseteq Threads
    BY ZenonT(60), <1>5, Sides
<1>8. Within(Putters) = {} /\ Within(Takers) = {} /\ Claiming = {}
    BY SMTT(60), <1>6, <1>7 DEF Within, InSlot, Claiming
<1>9. Turns({}, PcPos(st), 0, 0)
    BY SMTT(60) DEF Turns
<1>10. PutTurns(st) /\ TakeTurns(st)
    BY ZenonT(60), <1>3, <1>4, <1>8, <1>9 DEF PutTurns, TakeTurns
<1>11. Order(st)
    <2>1. Cardinality(Claiming) = 0
        <3>1. Counted(Claiming)
            BY ZenonT(60), <1>5, Sides
        <3> QED
            BY ZenonT(60), <1>8, <3>1 DEF Counted
    <2>2. calls = 0
        BY ZenonT(60) DEF Init
    <2>3. 0 <= 0 /\ 0 <= 0 + mask /\ 0 + 0 <= 0
        BY SMTT(60), <1>4
    <2> QED
        BY ZenonT(60), <1>3, <1>4, <2>1, <2>2, <2>3 DEF Order
<1>12. Filled(st)
    <2>1. \A n \in Nat : ~(n < 0)
        BY SMTT(60)
    <2> QED
        BY ZenonT(60), <1>3, <1>4, <2>1 DEF Filled
<1>13. \A t \in Threads : PutterOK(st, t) /\ TakerOK(st, t)
    BY SMTT(60), <1>6 DEF PutterOK, TakerOK, CALLING
<1> QED
    BY ZenonT(60), <1>5, <1>6, <1>7, <1>10, <1>11, <1>12, <1>13 DEF QInv

(* Every step keeps the invariant, with the same start.                      *)
LEMMA QueueStep ==
    ASSUME QueueSetting, NEW st \in Counter, QInv(st), [Next]_vars
    PROVE  QInv(st)'
<1>1. CASE Next
    <2>1. TypeOK' /\ crew' = crew
        BY ZenonT(60), <1>1, TypeStep DEF QInv, Next
    <2>2. ASSUME NEW p \in Putters, CallEnqueue(p) \/ ProducerStep(p) PROVE QInv(st)'
        BY ZenonT(60), <2>1, <2>2, CallEnqueueKeeps, ReadProducerHeadKeeps, CheckFullKeeps,
           ClaimProducerKeeps, StoreNodeKeeps, PublishKeeps DEF ProducerStep
    <2>3. ASSUME NEW c \in Takers, CallDequeue(c) \/ ConsumerStep(c) PROVE QInv(st)'
        BY ZenonT(60), <2>1, <2>3, CallDequeueKeeps, ReadConsumerHeadKeeps, CheckEmptyKeeps,
           ClaimConsumerKeeps, CopyNodeKeeps, ReleaseKeeps DEF ConsumerStep
    <2> QED
        BY ZenonT(60), <1>1, <2>2, <2>3 DEF Next, Putters, Takers
<1>2. CASE UNCHANGED vars
    <2>1. /\ crew' = crew /\ producer' = producer /\ consumer' = consumer /\ nodes' = nodes
          /\ pc' = pc /\ local' = local /\ ret' = ret /\ calls' = calls
        BY ZenonT(60), <1>2 DEF vars
    <2>0. TypeOK'
        BY ZenonT(60), <2>1 DEF QInv, TypeOK
    <2>2. TypeOK' /\ Putters' = Putters /\ Takers' = Takers /\ PcPos(st)' = PcPos(st)
        BY ZenonT(60), <2>0, <2>1 DEF Putters, Takers, PcPos, Pos
    <2>3. /\ Within(Putters)' = Within(Putters) /\ Within(Takers)' = Within(Takers)
          /\ Claiming' = Claiming
        BY ZenonT(60), <2>1, <2>2 DEF Within, InSlot, Claiming
    <2>4. PutTurns(st)' /\ TakeTurns(st)'
        BY ZenonT(60), <2>1, <2>2, <2>3, TurnsPrimed DEF QInv, PutTurns, TakeTurns
    <2>5. Order(st)' /\ Filled(st)'
        BY ZenonT(60), <2>1, <2>3, TurnsPrimed DEF QInv, Order, Filled
    <2>6. \A t : (PutterOK(st, t)' <=> PutterOK(st, t)) /\ (TakerOK(st, t)' <=> TakerOK(st, t))
        BY ZenonT(60), <2>1, <2>2 DEF PutterOK, TakerOK, SafeProducer, SafeConsumer, Pos, Slot
    <2> QED
        BY ZenonT(60), <2>1, <2>2, <2>4, <2>5, <2>6 DEF QInv
<1> QED
    BY ZenonT(60), <1>1, <1>2

(* What holds of the queue at all times.                                     *)
QueueInv == \E st \in Starts : QInv(st)

-----------------------------------------------------------------------------

(* What the differences the code takes of two counters are, in positions.    *)
LEMMA Differences ==
    ASSUME QueueSetting, NEW st \in Counter, NEW v \in Counter, NEW w \in Counter,
           Pos(st, w) <= Pos(st, v)
    PROVE  Minus(v, w) = Pos(st, v) - Pos(st, w)
<1>1. Pos(st, v) \in Nat /\ Pos(st, w) \in Nat /\ Pos(st, v) \in Counter
    BY ZenonT(60), PosType
<1>2. /\ Pos(st, w) <= Pos(st, v) + 0 /\ Pos(st, v) + 0 < Wrap /\ 0 \in 0 .. mask
      /\ 0 + v = v
    BY SMTT(60), <1>1 DEF Counter, QueueSetting, QueueConstants, mask
<1>3. Minus(0 + v, w) = Pos(st, v) + 0 - Pos(st, w)
    BY ZenonT(60), <1>2, PosDiff
<1>4. Minus(v, w) = Pos(st, v) + 0 - Pos(st, w)
    BY ZenonT(60), <1>2, <1>3
<1>5. Pos(st, v) + 0 - Pos(st, w) = Pos(st, v) - Pos(st, w)
    BY SMTT(60), <1>1
<1> QED
    BY ZenonT(60), <1>4, <1>5

(* No two threads that are in a slot are in the same one.                    *)
LEMMA SlotsApart ==
    ASSUME QueueSetting, NEW st \in Counter, QInv(st)
    PROVE  NoSlotRace
<1>1. SUFFICES ASSUME NEW s \in Threads, NEW t \in Threads, s # t, InSlot(s), InSlot(t)
               PROVE  Slot(local[s].head) # Slot(local[t].head)
    BY ZenonT(60) DEF NoSlotRace
<1>2. s \in crew /\ t \in crew
    BY ZenonT(60), <1>1 DEF QInv, InSlot
<1>3. /\ s \in Within(Putters) \/ s \in Within(Takers)
      /\ t \in Within(Putters) \/ t \in Within(Takers)
    BY ZenonT(60), <1>1, <1>2 DEF Within, Putters, Takers, Threads
<1>4. ASSUME NEW u \in Threads, u \in Within(Putters) \/ u \in Within(Takers)
      PROVE  /\ Slot(local[u].head) = SlotAt(st, PcPos(st)[u]) /\ PcPos(st)[u] \in Nat
             /\ Pos(st, consumer.tail) <= PcPos(st)[u] /\ PcPos(st)[u] < Pos(st, producer.head)
    <2>1. CASE u \in Within(Putters)
        <3>1. /\ Slot(local[u].head) = SlotAt(st, PcPos(st)[u]) /\ PcPos(st)[u] \in Nat
              /\ Pos(st, producer.tail) <= PcPos(st)[u] /\ PcPos(st)[u] < Pos(st, producer.head)
            BY ZenonT(60), <2>1, ClaimedSlot
        <3>2. Pos(st, consumer.tail) <= PcPos(st)[u]
            BY SMTT(60), <3>1, Bounds
        <3> QED
            BY ZenonT(60), <3>1, <3>2
    <2>2. CASE u \in Within(Takers)
        <3>1. /\ Slot(local[u].head) = SlotAt(st, PcPos(st)[u]) /\ PcPos(st)[u] \in Nat
              /\ Pos(st, consumer.tail) <= PcPos(st)[u] /\ PcPos(st)[u] < Pos(st, consumer.head)
            BY ZenonT(60), <2>2, TakenSlot
        <3>2. PcPos(st)[u] < Pos(st, producer.head)
            BY SMTT(60), <3>1, Bounds
        <3> QED
            BY ZenonT(60), <3>1, <3>2
    <2> QED
        BY ZenonT(60), <1>4, <2>1, <2>2
<1>5. PcPos(st)[s] # PcPos(st)[t]
    <2>1. CASE s \in Within(Putters) /\ t \in Within(Putters)
        BY ZenonT(60), <1>1, <2>1 DEF QInv, PutTurns, Turns
    <2>2. CASE s \in Within(Takers) /\ t \in Within(Takers)
        BY ZenonT(60), <1>1, <2>2 DEF QInv, TakeTurns, Turns
    <2>3. ASSUME NEW p \in Within(Putters), NEW c \in Within(Takers)
          PROVE  PcPos(st)[p] # PcPos(st)[c]
        <3>1. Pos(st, producer.tail) <= PcPos(st)[p] /\ PcPos(st)[p] \in Nat
            BY ZenonT(60), ClaimedSlot
        <3>2. PcPos(st)[c] < Pos(st, consumer.head) /\ PcPos(st)[c] \in Nat
            BY ZenonT(60), TakenSlot
        <3> QED
            BY SMTT(60), <3>1, <3>2, Bounds
    <2> QED
        BY ZenonT(60), <1>3, <2>1, <2>2, <2>3
<1>6. /\ Slot(local[s].head) = SlotAt(st, PcPos(st)[s]) /\ PcPos(st)[s] \in Nat
      /\ Slot(local[t].head) = SlotAt(st, PcPos(st)[t]) /\ PcPos(st)[t] \in Nat
      /\ PcPos(st)[s] <= PcPos(st)[t] + mask /\ PcPos(st)[t] <= PcPos(st)[s] + mask
    <2>1. /\ Slot(local[s].head) = SlotAt(st, PcPos(st)[s]) /\ PcPos(st)[s] \in Nat
          /\ Pos(st, consumer.tail) <= PcPos(st)[s] /\ PcPos(st)[s] < Pos(st, producer.head)
        BY ZenonT(60), <1>3, <1>4
    <2>2. /\ Slot(local[t].head) = SlotAt(st, PcPos(st)[t]) /\ PcPos(st)[t] \in Nat
          /\ Pos(st, consumer.tail) <= PcPos(st)[t] /\ PcPos(st)[t] < Pos(st, producer.head)
        BY ZenonT(60), <1>3, <1>4
    <2>3. /\ PcPos(st)[s] <= PcPos(st)[t] + mask /\ PcPos(st)[t] <= PcPos(st)[s] + mask
        BY SMTT(60), <2>1, <2>2, Bounds
    <2> QED
        BY ZenonT(60), <2>1, <2>2, <2>3
<1> QED
    BY ZenonT(60), <1>5, <1>6, SlotsDiffer

(* Of all steps only a failed check answers QUEUE_FULL.                      *)
LEMMA FullAnswered ==
    ASSUME QueueSetting, TypeOK, [Next]_vars, NEW p \in Producers,
           ret[p] = CALLING, ret'[p] = "QUEUE_FULL"
    PROVE  p \in Putters /\ pc[p] = "check" /\ Available(p) < 1
<1>1. ret'[p] # ret[p] /\ p \in Threads /\ p \notin Consumers
    BY SMTT(60) DEF CALLING, Threads, QueueSetting, QueueConstants
<1>2. Next /\ crew' = crew
    BY ZenonT(60), <1>1 DEF vars, Next
<1>3. /\ Putters \subseteq Threads /\ Takers \subseteq Threads
    BY ZenonT(60), Sides
<1>4. ASSUME NEW c \in Takers, CallDequeue(c) \/ ConsumerStep(c) PROVE FALSE
    <2>1. c \in Threads /\ c # p
        BY ZenonT(60), <1>1, <1>3 DEF Takers
    <2>2. \A s \in Threads : s # c => ret'[s] = ret[s]
        BY ZenonT(60), <1>2, <1>4, <2>1, DoesCallDequeue, DoesReadConsumerHead, DoesCheckEmpty,
           DoesClaimConsumer, DoesCopyNode, DoesRelease DEF ConsumerStep, Moves
    <2> QED
        BY ZenonT(60), <1>1, <2>1, <2>2
<1>5. ASSUME NEW q \in Putters, CallEnqueue(q) \/ ProducerStep(q)
      PROVE  q = p /\ CheckFull(q) /\ Available(q) < 1
    <2>1. q \in Threads
        BY ZenonT(60), <1>3
    <2>2. \A s \in Threads : s # q => ret'[s] = ret[s]
        BY ZenonT(60), <1>2, <1>5, <2>1, DoesCallEnqueue, DoesReadProducerHead, DoesCheckFull,
           DoesClaimProducer, DoesStoreNode, DoesPublish DEF ProducerStep, Moves
    <2>3. q = p
        BY ZenonT(60), <1>1, <2>2
    <2>4. ASSUME ~CheckFull(q) PROVE FALSE
        <3>1. ret'[q] = CALLING \/ ret'[q] = ret[q] \/ ret'[q] = "OK"
            BY ZenonT(60), <1>2, <1>5, <2>1, <2>4, DoesCallEnqueue, DoesReadProducerHead,
               DoesClaimProducer, DoesStoreNode, DoesPublish DEF ProducerStep
        <3> QED
            BY SMTT(60), <1>1, <2>3, <3>1 DEF CALLING
    <2>5. Available(q) < 1
        BY ZenonT(60), <1>1, <2>3, <2>4 DEF CheckFull
    <2> QED
        BY ZenonT(60), <2>3, <2>4, <2>5
<1>6. PICK q \in Putters : CallEnqueue(q) \/ ProducerStep(q)
    BY ZenonT(60), <1>2, <1>4 DEF Next, Putters, Takers
<1>7. q = p /\ CheckFull(p) /\ Available(p) < 1
    BY ZenonT(60), <1>5, <1>6
<1> QED
    BY ZenonT(60), <1>7 DEF CheckFull, Goto

-----------------------------------------------------------------------------

(* The queue the callers see: the nodes from the consumers' head to the       *)
(* producers' tail, and the node each caller puts or has taken.               *)
QueueAt(v, w, nds) == [i \in 1 .. Minus(v, w) |-> nds[Slot(w + i - 1)]]

QueueOf == [i \in 1 .. Waiting |-> nodes[Slot(consumer.head + i - 1)]]

NodeOf == [t \in Threads |-> IF pc[t] = "copy" THEN nodes[Slot(local[t].head)]
                                             ELSE local[t].node]

(* Two counters in their order, with a node in every slot between them.       *)
Span(st, v, w, nds) ==
    /\ QueueSetting /\ st \in Counter /\ v \in Counter /\ w \in Counter
    /\ Pos(st, w) <= Pos(st, v)
    /\ \A n \in Nat : Pos(st, w) <= n /\ n < Pos(st, v) => nds[SlotAt(st, n)] \in Node

(* What such a queue holds, in positions.                                   *)
Holds(st, v, w, nds) ==
    /\ QueueAt(v, w, nds) \in Seq(Node)
    /\ Len(QueueAt(v, w, nds)) = Pos(st, v) - Pos(st, w)
    /\ Pos(st, v) - Pos(st, w) \in Nat /\ Pos(st, v) \in Nat /\ Pos(st, w) \in Nat
    /\ \A i \in 1 .. Pos(st, v) - Pos(st, w) :
         QueueAt(v, w, nds)[i] = nds[SlotAt(st, Pos(st, w) + (i - 1))]

(* Two sequences of the same nodes are the same.                             *)
LEMMA EqualNodes ==
    ASSUME NEW s \in Seq(Node), NEW t \in Seq(Node), Len(s) = Len(t),
           \A i \in 1 .. Len(s) : s[i] = t[i]
    PROVE  s = t
BY SMTT(60)

(* A sequence of nodes that is not empty has a length.                       *)
LEMMA NoNodes ==
    ASSUME NEW s \in Seq(Node), s # <<>>
    PROVE  Len(s) \in Nat \ {0}
BY SMTT(60)

(* A node appended to a sequence of nodes.                                   *)
LEMMA AppendedNode ==
    ASSUME NEW s \in Seq(Node), NEW e \in Node
    PROVE  /\ Append(s, e) \in Seq(Node) /\ Len(Append(s, e)) = Len(s) + 1
           /\ \A i \in 1 .. Len(s) : Append(s, e)[i] = s[i]
           /\ Append(s, e)[Len(s) + 1] = e
BY SMTT(60)

(* The first node taken from a sequence of nodes.                            *)
LEMMA TakenNode ==
    ASSUME NEW s \in Seq(Node), s # <<>>
    PROVE  /\ Tail(s) \in Seq(Node) /\ Len(Tail(s)) = Len(s) - 1
           /\ \A i \in 1 .. Len(Tail(s)) : Tail(s)[i] = s[i + 1]
BY SMTT(60)

(* A slot of the queue is that of a position.                               *)
LEMMA QueueAtPos ==
    ASSUME NEW st, NEW v, NEW w, NEW nds, Span(st, v, w, nds)
    PROVE  Holds(st, v, w, nds)
<1>1. /\ QueueSetting /\ st \in Counter /\ v \in Counter /\ w \in Counter
      /\ Pos(st, w) <= Pos(st, v)
      /\ \A n \in Nat : Pos(st, w) <= n /\ n < Pos(st, v) => nds[SlotAt(st, n)] \in Node
    BY ZenonT(60) DEF Span
<1>2. Pos(st, v) \in Nat /\ Pos(st, w) \in Nat
    BY ZenonT(60), <1>1, PosType
<1>3. Minus(v, w) = Pos(st, v) - Pos(st, w)
    BY ZenonT(60), <1>1, Differences
<1> DEFINE m == Pos(st, v) - Pos(st, w)
<1>4. m \in Nat
    BY SMTT(60), <1>1, <1>2
<1>5. QueueAt(v, w, nds) = [i \in 1 .. m |-> nds[Slot(w + i - 1)]]
    BY ZenonT(60), <1>3 DEF QueueAt
<1>6. ASSUME NEW i \in 1 .. m
      PROVE  /\ nds[Slot(w + i - 1)] = nds[SlotAt(st, Pos(st, w) + (i - 1))]
             /\ nds[Slot(w + i - 1)] \in Node
    <2>1. i - 1 \in Nat /\ Pos(st, w) + (i - 1) \in Nat
        BY SMTT(60), <1>2, <1>4
    <2>2. Slot(w + (i - 1)) = SlotAt(st, Pos(st, w) + (i - 1))
        BY ONLY ZenonT(60), <1>1, <2>1, SlotPos
    <2>3. w + i - 1 = w + (i - 1)
        BY SMTT(60)
    <2>4. Pos(st, w) <= Pos(st, w) + (i - 1) /\ Pos(st, w) + (i - 1) < Pos(st, v)
        BY SMTT(60), <1>2, <1>4
    <2>5. nds[SlotAt(st, Pos(st, w) + (i - 1))] \in Node
        BY ZenonT(60), <1>1, <2>1, <2>4
    <2>6. Slot(w + i - 1) = SlotAt(st, Pos(st, w) + (i - 1))
        BY ZenonT(60), <2>2, <2>3
    <2> QED
        BY ZenonT(60), <2>5, <2>6
<1> HIDE DEF m
<1>7. /\ QueueAt(v, w, nds) \in Seq(Node) /\ Len(QueueAt(v, w, nds)) = m
    <2>1. QueueAt(v, w, nds) \in [1 .. m -> Node]
        BY ZenonT(60), <1>5, <1>6
    <2> QED
        BY SMTT(60), <1>4, <2>1
<1>8. \A i \in 1 .. m : QueueAt(v, w, nds)[i] = nds[SlotAt(st, Pos(st, w) + (i - 1))]
    BY ZenonT(60), <1>5, <1>6
<1> QED
    BY ZenonT(60), <1>2, <1>4, <1>7, <1>8 DEF m, Holds

(* The slots between two counters hold the same nodes.                       *)
SameNodes(st, v, w, nds, nds2) ==
    \A n \in Nat : Pos(st, w) <= n /\ n < Pos(st, v)
                   => nds2[SlotAt(st, n)] = nds[SlotAt(st, n)]

(* The queue between two counters is the same.                               *)
EqualQueues(v, w, nds, nds2) == QueueAt(v, w, nds2) = QueueAt(v, w, nds)

(* The queue depends on the slots between the counters only.                 *)
LEMMA SameQueue ==
    ASSUME NEW st, NEW v, NEW w, NEW nds, NEW nds2, Span(st, v, w, nds), Span(st, v, w, nds2),
           SameNodes(st, v, w, nds, nds2)
    PROVE  EqualQueues(v, w, nds, nds2)
<1> DEFINE m == Pos(st, v) - Pos(st, w)
<1>1. /\ QueueAt(v, w, nds) \in Seq(Node) /\ Len(QueueAt(v, w, nds)) = m
      /\ QueueAt(v, w, nds2) \in Seq(Node) /\ Len(QueueAt(v, w, nds2)) = m
      /\ m \in Nat /\ Pos(st, v) \in Nat /\ Pos(st, w) \in Nat
      /\ \A i \in 1 .. m : QueueAt(v, w, nds)[i] = nds[SlotAt(st, Pos(st, w) + (i - 1))]
      /\ \A i \in 1 .. m : QueueAt(v, w, nds2)[i] = nds2[SlotAt(st, Pos(st, w) + (i - 1))]
    <2>1. Holds(st, v, w, nds) /\ Holds(st, v, w, nds2)
        BY ZenonT(60), QueueAtPos
    <2> QED
        BY ZenonT(60), <2>1 DEF Holds
<1>2. ASSUME NEW i \in 1 .. m
      PROVE  /\ Pos(st, w) + (i - 1) \in Nat /\ Pos(st, w) <= Pos(st, w) + (i - 1)
             /\ Pos(st, w) + (i - 1) < Pos(st, v)
    BY SMTT(60), <1>1
<1> HIDE DEF m
<1>3. \A i \in 1 .. m : QueueAt(v, w, nds2)[i] = QueueAt(v, w, nds)[i]
    BY ZenonT(60), <1>1, <1>2 DEF SameNodes
<1> QED
    BY ZenonT(60), <1>1, <1>3, EqualNodes DEF EqualQueues

(* A tail that moves on appends what is in its slot.                         *)
LEMMA LongerQueue ==
    ASSUME NEW st, NEW v, NEW v2, NEW w, NEW nds, Span(st, v, w, nds), Span(st, v2, w, nds),
           Pos(st, v2) = Pos(st, v) + 1
    PROVE  QueueAt(v2, w, nds) = Append(QueueAt(v, w, nds), nds[SlotAt(st, Pos(st, v))])
<1> DEFINE m == Pos(st, v) - Pos(st, w)
           s == QueueAt(v, w, nds)
           s2 == QueueAt(v2, w, nds)
           e == nds[SlotAt(st, Pos(st, v))]
<1>1. /\ s \in Seq(Node) /\ Len(s) = m
      /\ m \in Nat /\ Pos(st, v) \in Nat /\ Pos(st, w) \in Nat
      /\ \A i \in 1 .. m : s[i] = nds[SlotAt(st, Pos(st, w) + (i - 1))]
    <2>1. Holds(st, v, w, nds)
        BY ZenonT(60), QueueAtPos
    <2> QED
        BY ZenonT(60), <2>1 DEF Holds
<1>2. /\ s2 \in Seq(Node) /\ Len(s2) = Pos(st, v2) - Pos(st, w)
      /\ \A i \in 1 .. Pos(st, v2) - Pos(st, w) : s2[i] = nds[SlotAt(st, Pos(st, w) + (i - 1))]
    <2>1. Holds(st, v2, w, nds)
        BY ZenonT(60), QueueAtPos
    <2> QED
        BY ZenonT(60), <2>1 DEF Holds
<1>3. Pos(st, v2) - Pos(st, w) = m + 1 /\ Pos(st, w) + ((m + 1) - 1) = Pos(st, v)
    BY SMTT(60), <1>1
<1>4. Pos(st, w) <= Pos(st, v) /\ Pos(st, v) < Pos(st, v2) /\ m + 1 \in 1 .. m + 1
    BY SMTT(60), <1>1
<1>5. e \in Node
    BY ZenonT(60), <1>1, <1>4 DEF Span
<1>6. /\ Len(s2) = m + 1
      /\ \A i \in 1 .. m + 1 : s2[i] = nds[SlotAt(st, Pos(st, w) + (i - 1))]
    BY ZenonT(60), <1>2, <1>3
<1> HIDE DEF m
<1>7. s2[m + 1] = e
    <2>1. s2[m + 1] = nds[SlotAt(st, Pos(st, w) + ((m + 1) - 1))]
        BY ZenonT(60), <1>4, <1>6
    <2> QED
        BY ZenonT(60), <1>3, <2>1
<1>8. \A i \in 1 .. m : s2[i] = s[i]
    <2>1. \A i \in 1 .. m : i \in 1 .. m + 1
        BY SMTT(60), <1>1
    <2> QED
        BY ZenonT(60), <1>1, <1>6, <2>1
<1> HIDE DEF s, s2, e
<1>9. /\ Append(s, e) \in Seq(Node) /\ Len(Append(s, e)) = m + 1
      /\ \A i \in 1 .. m : Append(s, e)[i] = s[i]
      /\ Append(s, e)[m + 1] = e
    <2>1. /\ Append(s, e) \in Seq(Node) /\ Len(Append(s, e)) = Len(s) + 1
          /\ \A i \in 1 .. Len(s) : Append(s, e)[i] = s[i]
          /\ Append(s, e)[Len(s) + 1] = e
        BY ZenonT(60), <1>1, <1>5, AppendedNode
    <2> QED
        BY ZenonT(60), <1>1, <2>1
<1>10. \A i \in 1 .. m + 1 : s2[i] = Append(s, e)[i]
    <2>1. \A i \in 1 .. m + 1 : i \in 1 .. m \/ i = m + 1
        BY SMTT(60), <1>1
    <2> QED
        BY ZenonT(60), <1>7, <1>8, <1>9, <2>1
<1>11. s2 = Append(s, e)
    BY ZenonT(60), <1>2, <1>6, <1>9, <1>10, EqualNodes
<1> QED
    BY ZenonT(60), <1>11 DEF s, s2, e

(* A head that moves on takes the oldest node.                              *)
LEMMA ShorterQueue ==
    ASSUME NEW st, NEW v, NEW w, NEW w2, NEW nds, Span(st, v, w, nds), Span(st, v, w2, nds),
           Pos(st, w2) = Pos(st, w) + 1
    PROVE  /\ QueueAt(v, w, nds) # <<>>
           /\ QueueAt(v, w2, nds) = Tail(QueueAt(v, w, nds))
           /\ Head(QueueAt(v, w, nds)) = nds[SlotAt(st, Pos(st, w))]
<1> DEFINE m == Pos(st, v) - Pos(st, w2)
           s == QueueAt(v, w, nds)
           s2 == QueueAt(v, w2, nds)
<1>1. /\ s2 \in Seq(Node) /\ Len(s2) = m /\ Pos(st, v) \in Nat
      /\ m \in Nat /\ \A i \in 1 .. m : s2[i] = nds[SlotAt(st, Pos(st, w2) + (i - 1))]
    <2>1. Holds(st, v, w2, nds)
        BY ZenonT(60), QueueAtPos
    <2> QED
        BY ZenonT(60), <2>1 DEF Holds
<1>2. /\ s \in Seq(Node) /\ Len(s) = Pos(st, v) - Pos(st, w) /\ Pos(st, w) \in Nat
      /\ \A i \in 1 .. Pos(st, v) - Pos(st, w) : s[i] = nds[SlotAt(st, Pos(st, w) + (i - 1))]
    <2>1. Holds(st, v, w, nds)
        BY ZenonT(60), QueueAtPos
    <2> QED
        BY ZenonT(60), <2>1 DEF Holds
<1>3. Pos(st, v) - Pos(st, w) = m + 1
    BY SMTT(60), <1>1, <1>2
<1>4. \A i \in 1 .. m : Pos(st, w2) + (i - 1) = Pos(st, w) + ((i + 1) - 1)
    BY SMTT(60), <1>1, <1>2
<1>5. Pos(st, w) + (1 - 1) = Pos(st, w)
    BY SMTT(60), <1>2
<1> HIDE DEF m
<1>6. /\ Len(s) = m + 1
      /\ \A i \in 1 .. m + 1 : s[i] = nds[SlotAt(st, Pos(st, w) + (i - 1))]
    BY ZenonT(60), <1>2, <1>3
<1>7. 1 \in 1 .. m + 1 /\ \A i \in 1 .. m : i + 1 \in 1 .. m + 1
    BY SMTT(60), <1>1
<1>8. s[1] = nds[SlotAt(st, Pos(st, w))]
    <2>1. s[1] = nds[SlotAt(st, Pos(st, w) + (1 - 1))]
        BY ZenonT(60), <1>6, <1>7
    <2> QED
        BY ZenonT(60), <1>5, <2>1
<1>9. \A i \in 1 .. m : s2[i] = s[i + 1]
    BY ZenonT(60), <1>1, <1>4, <1>6, <1>7
<1> HIDE DEF s, s2
<1>10. s # <<>> /\ Head(s) = s[1]
    BY SMTT(60), <1>1, <1>2, <1>6
<1>11. /\ Tail(s) \in Seq(Node) /\ Len(Tail(s)) = m
       /\ \A i \in 1 .. m : Tail(s)[i] = s[i + 1]
    <2>1. /\ Tail(s) \in Seq(Node) /\ Len(Tail(s)) = Len(s) - 1
          /\ \A i \in 1 .. Len(Tail(s)) : Tail(s)[i] = s[i + 1]
        BY ZenonT(60), <1>2, <1>10, TakenNode
    <2>2. Len(s) - 1 = m
        BY SMTT(60), <1>1, <1>6
    <2> QED
        BY ZenonT(60), <2>1, <2>2
<1>12. \A i \in 1 .. m : s2[i] = Tail(s)[i]
    BY ZenonT(60), <1>9, <1>11
<1>13. s2 = Tail(s)
    BY ZenonT(60), <1>1, <1>11, <1>12, EqualNodes
<1> QED
    BY ZenonT(60), <1>8, <1>10, <1>13 DEF s, s2

(* The queue the callers see is such a queue, before and after a step.        *)
LEMMA Spans ==
    ASSUME QueueSetting, NEW st \in Counter, QInv(st), QInv(st)'
    PROVE  /\ Span(st, producer.tail, consumer.head, nodes)
           /\ QueueOf = QueueAt(producer.tail, consumer.head, nodes)
           /\ Span(st, producer'.tail, consumer'.head, nodes')
           /\ QueueOf' = QueueAt(producer'.tail, consumer'.head, nodes')
<1>1. /\ QueueOf = QueueAt(producer.tail, consumer.head, nodes)
      /\ QueueOf' = QueueAt(producer'.tail, consumer'.head, nodes')
    BY ZenonT(60) DEF QueueOf, QueueAt, Waiting, Minus, Slot
<1>2. Span(st, producer.tail, consumer.head, nodes)
    <2>1. TypeOK /\ Filled(st)
        BY ZenonT(60) DEF QInv
    <2>2. producer.tail \in Counter /\ consumer.head \in Counter
        BY ZenonT(60), <2>1, Fields
    <2>3. \A n \in Nat : Pos(st, consumer.head) <= n => Pos(st, consumer.tail) <= n
        BY SMTT(60), Bounds
    <2> QED
        BY ZenonT(60), <2>1, <2>2, <2>3, Bounds DEF Span, Filled
<1>3. Span(st, producer'.tail, consumer'.head, nodes')
    <2>1. /\ producer' \in [head : Counter, tail : Counter]
          /\ consumer' \in [head : Counter, tail : Counter]
        BY ZenonT(60) DEF QInv, TypeOK
    <2>2. producer'.tail \in Counter /\ consumer'.head \in Counter /\ consumer'.tail \in Counter
        BY SMTT(60), <2>1
    <2>3. /\ Pos(st, consumer'.head) <= Pos(st, producer'.tail)
          /\ Pos(st, consumer'.tail) <= Pos(st, consumer'.head)
        BY ZenonT(60) DEF QInv, Order, TakeTurns, Turns, Pos
    <2>4. Pos(st, consumer'.head) \in Nat /\ Pos(st, consumer'.tail) \in Nat
        BY ZenonT(60), <2>2, PosType
    <2>5. \A n \in Nat : Pos(st, consumer'.head) <= n => Pos(st, consumer'.tail) <= n
        BY SMTT(60), <2>3, <2>4
    <2>6. \A n \in Nat : Pos(st, consumer'.tail) <= n /\ n < Pos(st, producer'.tail)
                         => nodes'[SlotAt(st, n)] \in Node
        BY ZenonT(60) DEF QInv, Filled, Pos, SlotAt
    <2> QED
        BY ZenonT(60), <2>2, <2>3, <2>5, <2>6 DEF Span
<1> QED
    BY ZenonT(60), <1>1, <1>2, <1>3

(* A move that leaves the counters and the waiting slots alone leaves the     *)
(* queue alone.                                                             *)
LEMMA QueueStays ==
    ASSUME QueueSetting, NEW st \in Counter, QInv(st), QInv(st)',
           producer'.tail = producer.tail, consumer'.head = consumer.head,
           \A n \in Nat : Pos(st, consumer.head) <= n /\ n < Pos(st, producer.tail)
                          => nodes'[SlotAt(st, n)] = nodes[SlotAt(st, n)]
    PROVE  QueueOf' = QueueOf
<1>1. /\ Span(st, producer.tail, consumer.head, nodes)
      /\ QueueOf = QueueAt(producer.tail, consumer.head, nodes)
      /\ Span(st, producer.tail, consumer.head, nodes')
      /\ QueueOf' = QueueAt(producer.tail, consumer.head, nodes')
    BY ZenonT(60), Spans
<1>2. QueueAt(producer.tail, consumer.head, nodes') = QueueAt(producer.tail, consumer.head, nodes)
    <2>1. SameNodes(st, producer.tail, consumer.head, nodes, nodes')
        BY ZenonT(60) DEF SameNodes
    <2>2. EqualQueues(producer.tail, consumer.head, nodes, nodes')
        BY ZenonT(60), <1>1, <2>1, SameQueue
    <2> QED
        BY ZenonT(60), <2>2 DEF EqualQueues
<1> QED
    BY ZenonT(60), <1>1, <1>2

(* What the callers see of a move of a thread: its answer and its node only.  *)
SeenBy(t, a, b) ==
    /\ ret' = [ret EXCEPT ![t] = ret'[t]]
    /\ ret'[t] = ret[t] => ret' = ret
    /\ NodeOf' = [NodeOf EXCEPT ![t] = NodeOf'[t]]
    /\ NodeOf'[t] = NodeOf[t] => NodeOf' = NodeOf
    /\ a # "copy" => NodeOf[t] = local[t].node
    /\ b # "copy" => NodeOf'[t] = local'[t].node
    /\ a = "copy" => NodeOf[t] = nodes[Slot(local[t].head)]
    /\ b = "copy" => NodeOf'[t] = nodes'[Slot(local'[t].head)]

(* What the callers see of one thread's move.                               *)
LEMMA Seen ==
    ASSUME TypeOK, TypeOK', NEW t \in Threads, NEW a, NEW b, Moves(t, a, b),
           \A s \in Threads : s # t /\ pc[s] = "copy" =>
             nodes'[Slot(local[s].head)] = nodes[Slot(local[s].head)]
    PROVE  SeenBy(t, a, b)
<1>1. /\ pc[t] = a /\ pc'[t] = b
      /\ \A s \in Threads : s # t => pc'[s] = pc[s] /\ local'[s] = local[s] /\ ret'[s] = ret[s]
    BY ZenonT(60) DEF Moves
<1> DEFINE R == {CALLING, "OK", "QUEUE_FULL", "QUEUE_EMPTY"}
<1>2. ret \in [Threads -> R] /\ ret' \in [Threads -> R]
    BY ZenonT(60) DEF TypeOK
<1> HIDE DEF R
<1>3. ret' = [ret EXCEPT ![t] = ret'[t]] /\ (ret'[t] = ret[t] => ret' = ret)
    BY SMTT(60), <1>1, <1>2
<1>4. /\ NodeOf = [s \in Threads |-> IF pc[s] = "copy" THEN nodes[Slot(local[s].head)]
                                                       ELSE local[s].node]
      /\ NodeOf' = [s \in Threads |-> IF pc'[s] = "copy" THEN nodes'[Slot(local'[s].head)]
                                                         ELSE local'[s].node]
    BY ZenonT(60) DEF NodeOf, Slot
<1>5. \A s \in Threads : s # t => NodeOf'[s] = NodeOf[s]
    BY ZenonT(60), <1>1, <1>4
<1>6. DOMAIN NodeOf = Threads /\ DOMAIN NodeOf' = Threads
    BY ZenonT(60), <1>4
<1>7. NodeOf = [s \in Threads |-> NodeOf[s]] /\ NodeOf' = [s \in Threads |-> NodeOf'[s]]
    BY ZenonT(60), <1>4
<1>8. /\ NodeOf' = [NodeOf EXCEPT ![t] = NodeOf'[t]]
      /\ NodeOf'[t] = NodeOf[t] => NodeOf' = NodeOf
    BY SMTT(60), <1>5, <1>6, <1>7
<1>9. /\ a # "copy" => NodeOf[t] = local[t].node
      /\ b # "copy" => NodeOf'[t] = local'[t].node
      /\ a = "copy" => NodeOf[t] = nodes[Slot(local[t].head)]
      /\ b = "copy" => NodeOf'[t] = nodes'[Slot(local'[t].head)]
    BY ZenonT(60), <1>1, <1>4
<1> QED
    BY ZenonT(60), <1>3, <1>8, <1>9 DEF SeenBy

(* The steps of the abstract queue, in terms of what the callers see.         *)
LEMMA FifoSteps ==
    ASSUME NEW t, NEW r, NEW n, ret' = [ret EXCEPT ![t] = r], NodeOf' = [NodeOf EXCEPT ![t] = n]
    PROVE  /\ t \in Producers /\ ret[t] # CALLING /\ n \in Node /\ r = CALLING
                 /\ QueueOf' = QueueOf => FifoStep
           /\ t \in Producers /\ ret[t] = CALLING /\ n = NULL /\ r = "OK" /\ Len(QueueOf) < mask
                 /\ QueueOf' = Append(QueueOf, NodeOf[t]) => FifoStep
           /\ t \in Producers /\ ret[t] = CALLING /\ n = NULL /\ r = "QUEUE_FULL"
                 /\ QueueOf' = QueueOf => FifoStep
           /\ t \in Consumers /\ ret[t] # CALLING /\ n = NULL /\ r = CALLING
                 /\ QueueOf' = QueueOf => FifoStep
           /\ t \in Consumers /\ ret[t] = CALLING /\ NodeOf[t] = NULL /\ QueueOf # <<>>
                 /\ n = Head(QueueOf) /\ ret' = ret /\ QueueOf' = Tail(QueueOf) => FifoStep
           /\ t \in Consumers /\ ret[t] = CALLING /\ NodeOf[t] # NULL /\ n = NodeOf[t]
                 /\ r = "OK" /\ QueueOf' = QueueOf => FifoStep
           /\ t \in Consumers /\ ret[t] = CALLING /\ NodeOf[t] = NULL /\ QueueOf = <<>>
                 /\ n = NULL /\ r = "QUEUE_EMPTY" /\ QueueOf' = QueueOf => FifoStep
<1>1. ASSUME t \in Producers, ret[t] # CALLING, n \in Node, r = CALLING, QueueOf' = QueueOf
      PROVE  FifoStep
    BY ZenonT(60), <1>1 DEF FifoStep, Fifo!Next, Fifo!Enqueue, Fifo!Answer, Fifo!CALLING, CALLING,
       QueueOf, NodeOf
<1>2. ASSUME t \in Producers, ret[t] = CALLING, n = NULL, r = "OK", Len(QueueOf) < mask,
             QueueOf' = Append(QueueOf, NodeOf[t])
      PROVE  FifoStep
    BY ZenonT(60), <1>2 DEF FifoStep, Fifo!Next, Fifo!Put, Fifo!Answer, Fifo!CALLING, CALLING,
       QueueOf, NodeOf
<1>3. ASSUME t \in Producers, ret[t] = CALLING, n = NULL, r = "QUEUE_FULL", QueueOf' = QueueOf
      PROVE  FifoStep
    BY ZenonT(60), <1>3 DEF FifoStep, Fifo!Next, Fifo!Full, Fifo!Answer, Fifo!CALLING, CALLING,
       QueueOf, NodeOf
<1>4. ASSUME t \in Consumers, ret[t] # CALLING, n = NULL, r = CALLING, QueueOf' = QueueOf
      PROVE  FifoStep
    BY ZenonT(60), <1>4 DEF FifoStep, Fifo!Next, Fifo!Dequeue, Fifo!Answer, Fifo!CALLING, CALLING,
       QueueOf, NodeOf
<1>5. ASSUME t \in Consumers, ret[t] = CALLING, NodeOf[t] = NULL, QueueOf # <<>>,
             n = Head(QueueOf), ret' = ret, QueueOf' = Tail(QueueOf)
      PROVE  FifoStep
    BY ZenonT(60), <1>5 DEF FifoStep, Fifo!Next, Fifo!Take, Fifo!Answer, Fifo!CALLING, CALLING,
       QueueOf, NodeOf
<1>6. ASSUME t \in Consumers, ret[t] = CALLING, NodeOf[t] # NULL, n = NodeOf[t], r = "OK",
             QueueOf' = QueueOf
      PROVE  FifoStep
    BY ZenonT(60), <1>6 DEF FifoStep, Fifo!Next, Fifo!Return, Fifo!Answer, Fifo!CALLING, CALLING,
       QueueOf, NodeOf
<1>7. ASSUME t \in Consumers, ret[t] = CALLING, NodeOf[t] = NULL, QueueOf = <<>>, n = NULL,
             r = "QUEUE_EMPTY", QueueOf' = QueueOf
      PROVE  FifoStep
    BY ZenonT(60), <1>7 DEF FifoStep, Fifo!Next, Fifo!Empty, Fifo!Answer, Fifo!CALLING, CALLING,
       QueueOf, NodeOf
<1> QED
    BY ZenonT(60), <1>1, <1>2, <1>3, <1>4, <1>5, <1>6, <1>7

(* A step the callers see nothing of.                                        *)
LEMMA Unseen ==
    ASSUME QueueOf' = QueueOf, NodeOf' = NodeOf, ret' = ret
    PROVE  FifoStep
BY ZenonT(60) DEF FifoStep, Fifo!vars, QueueOf, NodeOf

-----------------------------------------------------------------------------

(* What a step of the ring queue is for the callers.  Both ends of a step     *)
(* satisfy the invariant.                                                   *)
Ends(st, t) ==
    /\ QueueSetting /\ st \in Counter /\ QInv(st) /\ QInv(st)' /\ crew' = crew
    /\ t \in Threads

(* What a step starts from, when it stores no node.                          *)
LEMMA EndsSeen ==
    ASSUME NEW st, NEW t, Ends(st, t), NEW a, NEW b, Moves(t, a, b), nodes' = nodes
    PROVE  /\ TypeOK /\ ret' = [ret EXCEPT ![t] = ret'[t]] /\ (ret'[t] = ret[t] => ret' = ret)
           /\ NodeOf' = [NodeOf EXCEPT ![t] = NodeOf'[t]]
           /\ NodeOf'[t] = NodeOf[t] => NodeOf' = NodeOf
           /\ a # "copy" => NodeOf[t] = local[t].node
           /\ b # "copy" => NodeOf'[t] = local'[t].node
           /\ a = "copy" => NodeOf[t] = nodes[Slot(local[t].head)]
           /\ b = "copy" => NodeOf'[t] = nodes[Slot(local'[t].head)]
           /\ producer'.tail = producer.tail /\ consumer'.head = consumer.head
                => QueueOf' = QueueOf
           /\ t \in Putters => PutterOK(st, t)
           /\ t \in Takers => TakerOK(st, t)
<1>1. TypeOK /\ TypeOK' /\ t \in Threads
    BY ZenonT(60) DEF Ends, QInv
<1>2. /\ t \in Putters => PutterOK(st, t)
      /\ t \in Takers => TakerOK(st, t)
    BY ZenonT(60) DEF Ends, QInv
<1>3. /\ producer'.tail = producer.tail /\ consumer'.head = consumer.head
                => QueueOf' = QueueOf
    BY ZenonT(60), QueueStays DEF Ends
<1>4. SeenBy(t, a, b)
    <2>1. \A s \in Threads : s # t /\ pc[s] = "copy" =>
            nodes'[Slot(local[s].head)] = nodes[Slot(local[s].head)]
        OBVIOUS
    <2> QED
        BY ZenonT(60), <1>1, <2>1, Seen
<1> QED
    BY ZenonT(60), <1>1, <1>2, <1>3, <1>4 DEF SeenBy

=============================================================================
