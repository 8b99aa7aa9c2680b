------------------------ MODULE LockFreeQueueProofs -------------------------
(***************************************************************************)
(* The ring queue of softbus_queue.h is a first-in first-out queue for any *)
(* number of threads, any number of slots and any width of the counters:   *)
(* the refinement of FifoQueue by LockFreeQueue, and the properties of the *)
(* invariant of QueueStepProofs.                                           *)
(***************************************************************************)
EXTENDS QueueStepProofs, FiniteSetTheorems

(* Crews are finite, so that every set of threads of one is counted.          *)
LEMMA CrewsFinite ==
    ASSUME QueueConstants
    PROVE  QueueSetting
<1>1. ASSUME NEW k \in Crews, NEW S \in SUBSET k PROVE Counted(S)
    <2>1. IsFiniteSet(S)
        BY ZenonT(60), FS_Subset DEF QueueConstants
    <2>2. Cardinality(S) \in Nat /\ (S = {} => Cardinality(S) = 0)
        BY ZenonT(60), <2>1, FS_CardinalityType, FS_EmptySet
    <2>3. \A t : /\ t \notin S => Cardinality(S \cup {t}) = Cardinality(S) + 1
                 /\ t \in S => Cardinality(S \ {t}) = Cardinality(S) - 1
        BY ZenonT(60), <2>1, FS_AddElement, FS_RemoveElement
    <2>4. ASSUME NEW s \in S, NEW t \in S, s # t PROVE Cardinality(S) > 1
        <3>1. IsFiniteSet(S \ {s}) /\ S \ {s} # {}
            BY ZenonT(60), <2>1, <2>4, FS_RemoveElement
        <3>2. Cardinality(S \ {s}) \in Nat /\ Cardinality(S \ {s}) # 0
            BY ZenonT(60), <3>1, FS_CardinalityType, FS_EmptySet
        <3>3. Cardinality(S \ {s}) = Cardinality(S) - 1
            BY ZenonT(60), <2>3
        <3> QED
            BY SMTT(60), <2>2, <3>2, <3>3
    <2>5. \A s, t \in S : s # t => Cardinality(S) > 1
        BY ZenonT(60), <2>4
    <2> QED
        BY ZenonT(60), <2>2, <2>3, <2>5 DEF Counted
<1> QED
    BY ZenonT(60), <1>1 DEF QueueSetting, CrewsCounted

(* The invariant of the ring queue is inductive: its four counters keep their *)
(* order, its threads their turns, and its slots their nodes.                 *)
THEOREM QueueInductive ==
    ASSUME QueueConstants
    PROVE  Spec => []QueueInv
<1>0. QueueSetting
    BY CrewsFinite
<1>1. Init => QueueInv
    BY <1>0, Fresh DEF QueueInv
<1>2. QueueInv /\ [Next]_vars => QueueInv'
    <2>1. \A st \in Starts : st \in Counter
        BY DEF QueueConstants
    <2> QED
        BY ZenonT(60), <1>0, <2>1, QueueStep DEF QueueInv
<1> QED
    BY <1>1, <1>2, PTL DEF Spec

(* Two threads never touch the same slot at once, however many producers and  *)
(* consumers there are: a slot belongs to the thread that claimed it until    *)
(* that thread has published or released it.                                *)
THEOREM SlotsUnshared ==
    ASSUME QueueConstants
    PROVE  Spec => []NoSlotRace
<1>0. QueueSetting
    BY CrewsFinite
<1>1. QueueInv => NoSlotRace
    <2>1. \A st \in Starts : st \in Counter
        BY DEF QueueConstants
    <2> QED
        BY ZenonT(60), <1>0, <2>1, SlotsApart DEF QueueInv
<1> QED
    BY <1>1, QueueInductive, PTL

(* QUEUE_FULL is the truth when it is answered: every slot but the one that   *)
(* stays free is claimed, even if the head the producer holds is old.         *)
THEOREM FullIsFull ==
    ASSUME QueueConstants
    PROVE  Spec => FullWhenFull
<1>0. QueueSetting
    BY CrewsFinite
<1>1. QueueInv /\ [Next]_vars => FullOnlyIfClaimed
    <2>1. SUFFICES ASSUME NEW st \in Starts, QInv(st), [Next]_vars, NEW p \in Producers,
                          ret[p] = CALLING, ret'[p] = "QUEUE_FULL"
                   PROVE  Minus(producer.head, consumer.tail) = mask
        BY DEF QueueInv, FullOnlyIfClaimed
    <2>2. st \in Counter /\ TypeOK
        BY <2>1 DEF QueueConstants, QInv
    <2>3. p \in Putters /\ pc[p] = "check" /\ Available(p) < 1
        BY ZenonT(60), <1>0, <2>1, <2>2, FullAnswered
    <2>4. /\ Available(p) = Pos(st, consumer.tail) + mask - PcPos(st)[p]
          /\ PcPos(st)[p] <= Pos(st, producer.head) /\ PcPos(st)[p] \in Nat
        BY ZenonT(60), <1>0, <2>1, <2>2, <2>3, AvailablePos
    <2>5. /\ Pos(st, producer.head) - Pos(st, consumer.tail) = mask
          /\ Pos(st, consumer.tail) <= Pos(st, producer.head)
        <3>1. /\ Pos(st, producer.head) \in Nat /\ Pos(st, consumer.tail) \in Nat /\ mask \in Nat
              /\ Pos(st, producer.head) <= Pos(st, consumer.tail) + mask
              /\ Pos(st, consumer.tail) <= Pos(st, consumer.head)
              /\ Pos(st, consumer.head) <= Pos(st, producer.tail)
              /\ Pos(st, producer.tail) <= Pos(st, producer.head)
              /\ Pos(st, consumer.head) \in Nat /\ Pos(st, producer.tail) \in Nat
            BY ZenonT(60), <1>0, <2>1, <2>2, Bounds
        <3> QED
            BY SMTT(60), <2>3, <2>4, <3>1
    <2>6. producer.head \in Counter /\ consumer.tail \in Counter
        BY ZenonT(60), <1>0, <2>2, Fields
    <2> QED
        BY ZenonT(60), <1>0, <2>2, <2>5, <2>6, Differences
<1>2. QueueInv /\ [Next]_vars => [FullOnlyIfClaimed]_vars
    BY <1>1
<1> QED
    BY <1>2, QueueInductive, PTL DEF Spec, FullWhenFull

(* A call of enqueue begins with a node of its own.                          *)
LEMMA CallEnqueueRefines ==
    ASSUME NEW st, NEW p \in Putters, Ends(st, p), CallEnqueue(p)
    PROVE  FifoStep
<1>1. /\ p \in Producers /\ TypeOK /\ p \in Threads /\ crew' = crew /\ PutterOK(st, p)
    BY DEF Ends, QInv, Putters
<1>2. /\ Moves(p, "idle", "head") /\ ret'[p] = CALLING /\ local'[p].node = calls + 1
      /\ UNCHANGED <<producer, consumer, nodes>>
    BY ZenonT(60), <1>1, DoesCallEnqueue
<1>3. local'[p].node \in Node
    <2>1. calls \in 0 .. MaxCalls /\ calls < MaxCalls /\ MaxCalls \in Nat
        BY <1>1 DEF CallEnqueue, TypeOK, Ends, QueueSetting, QueueConstants
    <2>2. calls + 1 \in 1 .. MaxCalls
        BY SMTT(60), <2>1
    <2> QED
        BY <1>2, <2>2 DEF Node
<1>4. ret[p] # CALLING
    BY <1>1, <1>2 DEF PutterOK, Moves
<1>5. /\ ret' = [ret EXCEPT ![p] = ret'[p]] /\ NodeOf' = [NodeOf EXCEPT ![p] = NodeOf'[p]]
      /\ NodeOf'[p] = local'[p].node /\ QueueOf' = QueueOf
    BY <1>2, EndsSeen
<1> QED
    BY ZenonT(60), <1>1, <1>2, <1>3, <1>4, <1>5, FifoSteps

(* The read of the head shows nothing.                                       *)
LEMMA ReadProducerHeadRefines ==
    ASSUME NEW st, NEW p \in Putters, Ends(st, p), ReadProducerHead(p)
    PROVE  FifoStep
<1>1. TypeOK /\ p \in Threads /\ crew' = crew
    BY DEF Ends, QInv
<1>2. /\ Moves(p, "head", "check") /\ ret'[p] = ret[p] /\ local'[p].node = local[p].node
      /\ UNCHANGED <<producer, consumer, nodes>>
    BY ZenonT(60), <1>1, DoesReadProducerHead
<1>3. ret' = ret /\ NodeOf' = NodeOf /\ QueueOf' = QueueOf
    BY <1>2, EndsSeen
<1> QED
    BY <1>3, Unseen

(* The check answers QUEUE_FULL or shows nothing.                            *)
LEMMA CheckFullRefines ==
    ASSUME NEW st, NEW p \in Putters, Ends(st, p), CheckFull(p)
    PROVE  FifoStep
<1>1. /\ p \in Producers /\ TypeOK /\ p \in Threads /\ crew' = crew /\ PutterOK(st, p)
    BY DEF Ends, QInv, Putters
<1>2. CASE /\ Moves(p, "check", "idle") /\ ret'[p] = "QUEUE_FULL"
           /\ local'[p].node = NULL /\ UNCHANGED <<producer, consumer, nodes>>
    <2>1. ret[p] = CALLING
        BY <1>1, <1>2 DEF PutterOK, Moves
    <2>2. /\ ret' = [ret EXCEPT ![p] = ret'[p]] /\ NodeOf' = [NodeOf EXCEPT ![p] = NodeOf'[p]]
          /\ NodeOf'[p] = local'[p].node /\ QueueOf' = QueueOf
        BY <1>2, EndsSeen
    <2> QED
        BY ZenonT(60), <1>1, <1>2, <2>1, <2>2, FifoSteps
<1>3. CASE /\ Moves(p, "check", "claim") /\ ret'[p] = ret[p] /\ local'[p] = local[p]
           /\ UNCHANGED <<producer, consumer, nodes>>
    <2>1. ret' = ret /\ NodeOf' = NodeOf /\ QueueOf' = QueueOf
        BY <1>3, EndsSeen
    <2> QED
        BY <2>1, Unseen
<1> QED
    BY ZenonT(60), <1>1, <1>2, <1>3, DoesCheckFull

(* A producer's claim shows nothing.                                        *)
LEMMA ClaimProducerRefines ==
    ASSUME NEW st, NEW p \in Putters, Ends(st, p), ClaimProducer(p)
    PROVE  FifoStep
<1>1. TypeOK /\ p \in Threads /\ crew' = crew
    BY DEF Ends, QInv
<1>2. PICK b \in {"head", "store"} :
        /\ Moves(p, "claim", b) /\ ret'[p] = ret[p] /\ local'[p] = local[p]
        /\ producer' = producer \/ producer' = [producer EXCEPT !.head = Plus(local[p].head, 1)]
        /\ UNCHANGED <<consumer, nodes>>
    BY ZenonT(60), <1>1, DoesClaimProducer
<1>3. producer'.tail = producer.tail
    BY SMTT(60), <1>1, <1>2 DEF TypeOK
<1>4. ret' = ret /\ NodeOf' = NodeOf /\ QueueOf' = QueueOf
    BY <1>2, <1>3, EndsSeen
<1> QED
    BY <1>4, Unseen

(* The store is to a slot that no caller sees yet.                           *)
LEMMA StoreNodeRefines ==
    ASSUME NEW st, NEW p \in Putters, Ends(st, p), StoreNode(p)
    PROVE  FifoStep
<1>1. /\ TypeOK /\ TypeOK' /\ p \in Threads /\ crew' = crew /\ QueueSetting /\ st \in Counter
      /\ QInv(st) /\ QInv(st)'
    BY DEF Ends, QInv
<1>2. /\ Moves(p, "store", "publish") /\ ret'[p] = ret[p] /\ local'[p] = local[p]
      /\ nodes' = [nodes EXCEPT ![Slot(local[p].head)] = local[p].node]
      /\ UNCHANGED <<producer, consumer>>
    BY ZenonT(60), <1>1, DoesStoreNode
<1>3. p \in Within(Putters)
    BY ZenonT(60), <1>2 DEF Within, InSlot, Moves
<1>4. DOMAIN nodes = 0 .. mask
    BY ZenonT(60), <1>1 DEF TypeOK
<1>5. ASSUME NEW n \in Nat, Pos(st, consumer.tail) <= n, n < Pos(st, producer.tail)
      PROVE  nodes'[SlotAt(st, n)] = nodes[SlotAt(st, n)]
    <2>1. /\ Pos(st, producer.tail) <= PcPos(st)[p] /\ PcPos(st)[p] < Pos(st, producer.head)
          /\ PcPos(st)[p] \in Nat
        BY ZenonT(60), <1>1, <1>3, ClaimedSlot
    <2>2. Pos(st, producer.tail) \in Nat /\ Pos(st, producer.head) \in Nat
        BY ZenonT(60), <1>1, Fields
    <2>3. n # PcPos(st)[p] /\ n < Pos(st, producer.head)
        BY SMTT(60), <1>5, <2>1, <2>2
    <2>4. SlotAt(st, n) # Slot(local[p].head)
        BY ZenonT(60), <1>1, <1>3, <1>5, <2>3, ClaimedSlot
    <2>5. SlotAt(st, n) \in 0 .. mask
        BY ZenonT(60), <1>1, SlotType
    <2> QED
        BY ZenonT(60), <1>2, <1>4, <2>4, <2>5
<1>6. /\ Pos(st, consumer.tail) <= Pos(st, consumer.head)
      /\ Pos(st, consumer.head) <= Pos(st, producer.tail)
      /\ Pos(st, consumer.tail) \in Nat /\ Pos(st, consumer.head) \in Nat
      /\ Pos(st, producer.tail) \in Nat
    BY ZenonT(60), <1>1, Bounds
<1>7. QueueOf' = QueueOf
    <2>1. \A n \in Nat : Pos(st, consumer.head) <= n => Pos(st, consumer.tail) <= n
        BY SMTT(60), <1>6
    <2>2. \A n \in Nat : Pos(st, consumer.head) <= n /\ n < Pos(st, producer.tail)
                         => nodes'[SlotAt(st, n)] = nodes[SlotAt(st, n)]
        BY ZenonT(60), <1>5, <2>1
    <2> QED
        BY <1>1, <1>2, <2>2, QueueStays
<1>8. ASSUME NEW s \in Threads, s # p, pc[s] = "copy"
      PROVE  nodes'[Slot(local[s].head)] = nodes[Slot(local[s].head)]
    <2>1. s \in crew
        BY ZenonT(60), <1>1, <1>8 DEF QInv
    <2>2. s \notin Putters
        BY ZenonT(60), <1>1, <1>8 DEF QInv, PutterOK
    <2>3. s \in Within(Takers)
        BY ZenonT(60), <1>8, <2>1, <2>2 DEF Within, InSlot, Takers, Putters, Threads
    <2>4. /\ Slot(local[s].head) = SlotAt(st, PcPos(st)[s]) /\ PcPos(st)[s] \in Nat
          /\ Pos(st, consumer.tail) <= PcPos(st)[s] /\ PcPos(st)[s] < Pos(st, consumer.head)
        BY ZenonT(60), <1>1, <2>3, TakenSlot
    <2>5. PcPos(st)[s] < Pos(st, producer.tail)
        BY SMTT(60), <1>6, <2>4
    <2> QED
        BY ZenonT(60), <1>5, <2>4, <2>5
<1>9. ret' = ret /\ NodeOf' = NodeOf
    <2>1. /\ ret'[p] = ret[p] => ret' = ret
          /\ NodeOf'[p] = NodeOf[p] => NodeOf' = NodeOf
          /\ NodeOf[p] = local[p].node /\ NodeOf'[p] = local'[p].node
        <3>1. SeenBy(p, "store", "publish")
            BY ZenonT(60), <1>1, <1>2, <1>8, Seen
        <3> QED
            BY ZenonT(60), <3>1 DEF SeenBy
    <2> QED
        BY <1>2, <2>1
<1> QED
    BY <1>7, <1>9, Unseen

(* The publication puts the producer's node at the end of the queue.           *)
LEMMA PublishRefines ==
    ASSUME NEW st, NEW p \in Putters, Ends(st, p), Publish(p)
    PROVE  FifoStep
<1>1. /\ TypeOK /\ p \in Threads /\ crew' = crew /\ QueueSetting /\ st \in Counter
      /\ QInv(st) /\ QInv(st)' /\ p \in Producers /\ PutterOK(st, p)
    BY DEF Ends, QInv, Putters
<1>2. /\ SafeProducer => producer.tail = local[p].head
      /\ Moves(p, "publish", "idle") /\ ret'[p] = "OK" /\ local'[p].node = NULL
      /\ producer' = [producer EXCEPT !.tail = Plus(local[p].head, 1)]
      /\ UNCHANGED <<consumer, nodes>>
    BY ZenonT(60), <1>1, DoesPublish
<1>3. pc[p] = "publish" /\ p \in Within(Putters)
    BY ZenonT(60), <1>2 DEF Within, InSlot, Moves
<1>4. /\ PcPos(st)[p] = Pos(st, producer.tail) /\ PcPos(st)[p] < Pos(st, producer.head)
      /\ Slot(local[p].head) = SlotAt(st, PcPos(st)[p])
    BY ZenonT(60), <1>1, <1>2, <1>3, PublishesAtTail, ClaimedSlot
<1>5. /\ Pos(st, producer.head) \in Nat /\ Pos(st, producer.tail) \in Nat
      /\ Pos(st, consumer.head) \in Nat /\ Pos(st, consumer.tail) \in Nat
      /\ Pos(st, consumer.tail) <= Pos(st, consumer.head)
      /\ Pos(st, producer.head) <= Pos(st, consumer.tail) + mask
      /\ Pos(st, producer.head) + mask < Wrap /\ mask \in Nat /\ Wrap \in Nat
    BY ZenonT(60), <1>1, Bounds
<1>6. /\ local[p].head \in Counter /\ PcPos(st)[p] = Pos(st, local[p].head)
    BY ZenonT(60), <1>1, Fields
<1>7. Pos(st, local[p].head) + 1 < Wrap
    BY SMTT(60), <1>4, <1>5, <1>6
<1>8. Pos(st, producer'.tail) = Pos(st, producer.tail) + 1
    <2>1. Pos(st, Plus(local[p].head, 1)) = Pos(st, local[p].head) + 1
        BY ONLY ZenonT(60), <1>1, <1>6, <1>7, PosNext
    <2>2. producer'.tail = Plus(local[p].head, 1)
        BY SMTT(60), <1>1, <1>2 DEF TypeOK
    <2> QED
        BY <1>4, <1>6, <2>1, <2>2
<1>9. /\ Span(st, producer.tail, consumer.head, nodes)
      /\ QueueOf = QueueAt(producer.tail, consumer.head, nodes)
      /\ Span(st, producer'.tail, consumer.head, nodes)
      /\ QueueOf' = QueueAt(producer'.tail, consumer.head, nodes)
    <2>1. /\ Span(st, producer.tail, consumer.head, nodes)
          /\ QueueOf = QueueAt(producer.tail, consumer.head, nodes)
          /\ Span(st, producer'.tail, consumer'.head, nodes')
          /\ QueueOf' = QueueAt(producer'.tail, consumer'.head, nodes')
        BY ONLY ZenonT(60), <1>1, Spans
    <2> QED
        BY <1>2, <2>1
<1>10. QueueOf' = Append(QueueOf, nodes[SlotAt(st, Pos(st, producer.tail))])
    BY <1>8, <1>9, LongerQueue
<1>11. /\ ret' = [ret EXCEPT ![p] = ret'[p]] /\ NodeOf' = [NodeOf EXCEPT ![p] = NodeOf'[p]]
       /\ NodeOf'[p] = local'[p].node /\ NodeOf[p] = local[p].node
    BY <1>2, EndsSeen
<1>12. nodes[SlotAt(st, Pos(st, producer.tail))] = NodeOf[p] /\ ret[p] = CALLING
    BY SMTT(60), <1>1, <1>3, <1>4, <1>11 DEF PutterOK
<1>13. Len(QueueOf) < mask
    <2>1. Holds(st, producer.tail, consumer.head, nodes)
        BY <1>9, QueueAtPos
    <2>2. Len(QueueOf) = Pos(st, producer.tail) - Pos(st, consumer.head)
        BY <1>9, <2>1 DEF Holds
    <2> QED
        BY SMTT(60), <1>4, <1>5, <2>2
<1>14. QueueOf' = Append(QueueOf, NodeOf[p])
    BY <1>10, <1>12
<1> QED
    BY ZenonT(60), <1>1, <1>2, <1>11, <1>12, <1>13, <1>14, FifoSteps

(* A call of dequeue begins without a node.                                  *)
LEMMA CallDequeueRefines ==
    ASSUME NEW st, NEW c \in Takers, Ends(st, c), CallDequeue(c)
    PROVE  FifoStep
<1>1. /\ c \in Consumers /\ TypeOK /\ c \in Threads /\ crew' = crew /\ TakerOK(st, c)
    BY DEF Ends, QInv, Takers
<1>2. /\ Moves(c, "idle", "head") /\ ret'[c] = CALLING /\ local'[c].node = NULL
      /\ UNCHANGED <<producer, consumer, nodes>>
    BY ZenonT(60), <1>1, DoesCallDequeue
<1>3. ret[c] # CALLING
    BY <1>1, <1>2 DEF TakerOK, Moves
<1>4. /\ ret' = [ret EXCEPT ![c] = ret'[c]] /\ NodeOf' = [NodeOf EXCEPT ![c] = NodeOf'[c]]
      /\ NodeOf'[c] = local'[c].node /\ QueueOf' = QueueOf
    BY <1>2, EndsSeen
<1> QED
    BY ZenonT(60), <1>1, <1>2, <1>3, <1>4, FifoSteps

(* The read of the head shows nothing.                                       *)
LEMMA ReadConsumerHeadRefines ==
    ASSUME NEW st, NEW c \in Takers, Ends(st, c), ReadConsumerHead(c)
    PROVE  FifoStep
<1>1. TypeOK /\ c \in Threads /\ crew' = crew
    BY DEF Ends, QInv
<1>2. /\ Moves(c, "head", "check") /\ ret'[c] = ret[c] /\ local'[c].node = local[c].node
      /\ UNCHANGED <<producer, consumer, nodes>>
    BY ZenonT(60), <1>1, DoesReadConsumerHead
<1>3. ret' = ret /\ NodeOf' = NodeOf /\ QueueOf' = QueueOf
    BY <1>2, EndsSeen
<1> QED
    BY <1>3, Unseen

(* QUEUE_EMPTY is answered of an empty queue, though the head may be old.      *)
LEMMA CheckEmptyRefines ==
    ASSUME NEW st, NEW c \in Takers, Ends(st, c), CheckEmpty(c)
    PROVE  FifoStep
<1>1. /\ c \in Consumers /\ TypeOK /\ c \in Threads /\ crew' = crew /\ TakerOK(st, c)
      /\ QueueSetting /\ st \in Counter /\ QInv(st) /\ QInv(st)'
    BY DEF Ends, QInv, Takers
<1>2. CASE /\ Minus(producer.tail, local[c].head) < 1 /\ Moves(c, "check", "idle")
           /\ ret'[c] = "QUEUE_EMPTY" /\ local'[c] = local[c]
           /\ UNCHANGED <<producer, consumer, nodes>>
    <2>1. pc[c] = "check" /\ ret[c] = CALLING /\ local[c].node = NULL
        BY SMTT(60), <1>1, <1>2 DEF TakerOK, Moves
    <2>2. /\ ret' = [ret EXCEPT ![c] = ret'[c]] /\ NodeOf' = [NodeOf EXCEPT ![c] = NodeOf'[c]]
          /\ NodeOf'[c] = local'[c].node /\ NodeOf[c] = local[c].node /\ QueueOf' = QueueOf
        BY <1>2, EndsSeen
    <2>3. QueueOf = <<>>
        <3>1. /\ Minus(producer.tail, local[c].head) = Pos(st, producer.tail) - PcPos(st)[c]
              /\ PcPos(st)[c] <= Pos(st, consumer.head) /\ PcPos(st)[c] \in Nat
            BY ZenonT(60), <1>1, <2>1, BehindPos
        <3>2. /\ Span(st, producer.tail, consumer.head, nodes)
              /\ QueueOf = QueueAt(producer.tail, consumer.head, nodes)
            BY ONLY ZenonT(60), <1>1, Spans
        <3>3. Holds(st, producer.tail, consumer.head, nodes)
            BY <3>2, QueueAtPos
        <3>4. /\ QueueOf \in Seq(Node) /\ Len(QueueOf) = Pos(st, producer.tail) - Pos(st, consumer.head)
              /\ Len(QueueOf) \in Nat /\ Pos(st, producer.tail) \in Nat /\ Pos(st, consumer.head) \in Nat
            BY <3>2, <3>3 DEF Holds
        <3>5. Len(QueueOf) = 0
            BY SMTT(60), <1>2, <3>1, <3>4
        <3>6. 0 \notin Nat \ {0}
            BY SMT
        <3> QED
            BY ZenonT(60), <3>4, <3>5, <3>6, NoNodes
    <2> QED
        BY ZenonT(60), <1>1, <1>2, <2>1, <2>2, <2>3, FifoSteps
<1>3. CASE /\ Moves(c, "check", "claim") /\ ret'[c] = ret[c] /\ local'[c] = local[c]
           /\ UNCHANGED <<producer, consumer, nodes>>
    <2>1. ret' = ret /\ NodeOf' = NodeOf /\ QueueOf' = QueueOf
        BY <1>3, EndsSeen
    <2> QED
        BY <2>1, Unseen
<1> QED
    BY ZenonT(60), <1>1, <1>2, <1>3, DoesCheckEmpty

(* The claim takes the oldest node; a lost claim shows nothing.                *)
LEMMA ClaimConsumerRefines ==
    ASSUME NEW st, NEW c \in Takers, Ends(st, c), ClaimConsumer(c)
    PROVE  FifoStep
<1>1. /\ c \in Consumers /\ TypeOK /\ c \in Threads /\ crew' = crew /\ TakerOK(st, c)
      /\ QueueSetting /\ st \in Counter /\ QInv(st) /\ QInv(st)'
    BY DEF Ends, QInv, Takers
<1>2. CASE /\ Moves(c, "claim", "head") /\ ret'[c] = ret[c] /\ local'[c] = local[c]
           /\ UNCHANGED <<producer, consumer, nodes>>
    <2>1. ret' = ret /\ NodeOf' = NodeOf /\ QueueOf' = QueueOf
        BY <1>2, EndsSeen
    <2> QED
        BY <2>1, Unseen
<1>3. CASE /\ SafeConsumer => consumer.head = local[c].head
           /\ Moves(c, "claim", "copy") /\ ret'[c] = ret[c] /\ local'[c] = local[c]
           /\ consumer' = [consumer EXCEPT !.head = Plus(local[c].head, 1)]
           /\ UNCHANGED <<producer, nodes>>
    <2>1. pc[c] = "claim" /\ pc'[c] = "copy"
        BY <1>3 DEF Moves
    <2>2. local[c].head \in Counter /\ consumer.head \in Counter
          /\ PcPos(st)[c] = Pos(st, local[c].head)
        BY ZenonT(60), <1>1, Fields
    <2>3. /\ PcPos(st)[c] = Pos(st, consumer.head) /\ PcPos(st)[c] < Pos(st, producer.tail)
          /\ ret[c] = CALLING /\ local[c].node = NULL
        BY SMTT(60), <1>1, <1>3, <2>1, <2>2 DEF TakerOK
    <2>4. local[c].head = consumer.head
        BY ZenonT(60), <1>1, <2>2, <2>3, PosType
    <2>5. Pos(st, consumer.head) + 1 < Wrap
        <3>1. /\ Pos(st, producer.tail) <= Pos(st, producer.head)
              /\ Pos(st, producer.head) + mask < Wrap /\ mask \in Nat /\ Wrap \in Nat
              /\ Pos(st, producer.head) \in Nat /\ Pos(st, producer.tail) \in Nat
              /\ Pos(st, producer.head) <= Pos(st, consumer.tail) + mask
              /\ Pos(st, consumer.tail) <= Pos(st, consumer.head)
              /\ Pos(st, consumer.head) \in Nat /\ Pos(st, consumer.tail) \in Nat
            BY ZenonT(60), <1>1, Bounds
        <3> QED
            BY SMTT(60), <2>3, <3>1
    <2>6. Pos(st, consumer'.head) = Pos(st, consumer.head) + 1
        <3>1. Pos(st, Plus(consumer.head, 1)) = Pos(st, consumer.head) + 1
            BY ONLY ZenonT(60), <1>1, <2>2, <2>5, PosNext
        <3>2. consumer'.head = Plus(consumer.head, 1)
            BY SMTT(60), <1>1, <1>3, <2>4 DEF TypeOK
        <3> QED
            BY <3>1, <3>2
    <2>7. /\ Span(st, producer.tail, consumer.head, nodes)
          /\ QueueOf = QueueAt(producer.tail, consumer.head, nodes)
          /\ Span(st, producer.tail, consumer'.head, nodes)
          /\ QueueOf' = QueueAt(producer.tail, consumer'.head, nodes)
        <3>1. /\ Span(st, producer.tail, consumer.head, nodes)
              /\ QueueOf = QueueAt(producer.tail, consumer.head, nodes)
              /\ Span(st, producer'.tail, consumer'.head, nodes')
              /\ QueueOf' = QueueAt(producer'.tail, consumer'.head, nodes')
            BY ONLY ZenonT(60), <1>1, Spans
        <3> QED
            BY <1>3, <3>1
    <2>8. /\ QueueOf # <<>> /\ QueueOf' = Tail(QueueOf)
          /\ Head(QueueOf) = nodes[SlotAt(st, Pos(st, consumer.head))]
        BY <2>6, <2>7, ShorterQueue
    <2>9. /\ ret' = ret /\ ret' = [ret EXCEPT ![c] = ret'[c]]
          /\ NodeOf' = [NodeOf EXCEPT ![c] = NodeOf'[c]]
          /\ NodeOf'[c] = nodes[Slot(local'[c].head)] /\ NodeOf[c] = local[c].node
        BY <1>3, EndsSeen
    <2>10. NodeOf'[c] = Head(QueueOf)
        <3>1. 0 \in Nat
            BY SMT
        <3>2. Slot(consumer.head) = SlotAt(st, Pos(st, consumer.head))
            BY ONLY ZenonT(60), <1>1, <2>2, <3>1, SlotPos
        <3> QED
            BY <1>3, <2>4, <2>8, <2>9, <3>2
    <2> QED
        BY ZenonT(60), <1>1, <2>3, <2>8, <2>9, <2>10, FifoSteps
<1> QED
    BY ZenonT(60), <1>1, <1>2, <1>3, DoesClaimConsumer

(* The copy is of the node that was taken.                                  *)
LEMMA CopyNodeRefines ==
    ASSUME NEW st, NEW c \in Takers, Ends(st, c), CopyNode(c)
    PROVE  FifoStep
<1>1. TypeOK /\ c \in Threads /\ crew' = crew
    BY DEF Ends, QInv
<1>2. /\ Moves(c, "copy", "release") /\ ret'[c] = ret[c]
      /\ local'[c].node = nodes[Slot(local[c].head)]
      /\ UNCHANGED <<producer, consumer, nodes>>
    BY ZenonT(60), <1>1, DoesCopyNode
<1>3. ret' = ret /\ NodeOf' = NodeOf /\ QueueOf' = QueueOf
    BY <1>2, EndsSeen
<1> QED
    BY <1>3, Unseen

(* The release returns the node that was taken.                              *)
LEMMA ReleaseRefines ==
    ASSUME NEW st, NEW c \in Takers, Ends(st, c), Release(c)
    PROVE  FifoStep
<1>1. /\ c \in Consumers /\ TypeOK /\ c \in Threads /\ crew' = crew /\ TakerOK(st, c)
    BY DEF Ends, QInv, Takers
<1>2. /\ Moves(c, "release", "idle") /\ ret'[c] = "OK" /\ local'[c] = local[c]
      /\ consumer' = [consumer EXCEPT !.tail = Plus(local[c].head, 1)]
      /\ UNCHANGED <<producer, nodes>>
    BY ZenonT(60), <1>1, DoesRelease
<1>3. consumer'.head = consumer.head
    BY SMTT(60), <1>1, <1>2 DEF TypeOK
<1>4. ret[c] = CALLING /\ local[c].node \in Node
    BY SMTT(60), <1>1, <1>2 DEF TakerOK, Moves
<1>5. local[c].node # NULL
    BY ZenonT(60), <1>4 DEF Ends, QueueSetting, QueueConstants
<1>6. /\ ret' = [ret EXCEPT ![c] = ret'[c]] /\ NodeOf' = [NodeOf EXCEPT ![c] = NodeOf'[c]]
      /\ NodeOf'[c] = local'[c].node /\ NodeOf[c] = local[c].node /\ QueueOf' = QueueOf
    BY <1>2, <1>3, EndsSeen
<1> QED
    BY ZenonT(60), <1>1, <1>2, <1>4, <1>5, <1>6, FifoSteps

(* A fresh queue is empty, and no caller has a node.                          *)
LEMMA FreshRefines ==
    ASSUME QueueSetting, Init
    PROVE  FifoInit
<1>1. PICK st \in Starts : /\ producer = [head |-> st, tail |-> st]
                           /\ consumer = [head |-> st, tail |-> st]
    BY DEF Init
<1>2. st \in Counter /\ producer.tail = st /\ consumer.head = st
    BY <1>1 DEF QueueSetting, QueueConstants
<1>3. Waiting = 0
    <2>1. Minus(st, st) = 0
        <3>1. st \in Int /\ Wrap \in Int /\ Wrap > 0 /\ st - st = 0
            BY SMTT(60), <1>2 DEF Counter, QueueSetting, QueueConstants
        <3>2. 0 % Wrap = 0
            BY SMTT(60), <3>1, Remainders
        <3> QED
            BY <3>1, <3>2 DEF Minus
    <2> QED
        BY <1>2, <2>1 DEF Waiting
<1>4. QueueOf = <<>>
    BY SMTT(60), <1>3 DEF QueueOf
<1>5. NodeOf = [t \in Threads |-> NULL]
    BY SMTT(60) DEF Init, NodeOf
<1>6. ret = [t \in Threads |-> "OK"]
    BY DEF Init
<1> QED
    BY ZenonT(60), <1>4, <1>5, <1>6 DEF FifoInit, Fifo!Init, Fifo!Threads, Threads, QueueOf, NodeOf

(* Every step of the ring queue is a step of the first-in first-out queue, or  *)
(* one its callers see nothing of.                                           *)
LEMMA StepRefines ==
    ASSUME QueueSetting, NEW st \in Counter, QInv(st), [Next]_vars
    PROVE  FifoStep
<1>1. QInv(st)'
    BY QueueStep
<1>2. CASE Next
    <2>1. crew' = crew /\ Putters \subseteq Threads /\ Takers \subseteq Threads
        BY ZenonT(60), <1>2, Bounds DEF Next
    <2>2. \A t \in Threads : Ends(st, t)
        BY <1>1, <2>1 DEF Ends
    <2>3. ASSUME NEW p \in Putters, CallEnqueue(p) \/ ProducerStep(p) PROVE FifoStep
        BY ZenonT(60), <2>1, <2>2, <2>3, CallEnqueueRefines, ReadProducerHeadRefines,
           CheckFullRefines, ClaimProducerRefines, StoreNodeRefines, PublishRefines
           DEF ProducerStep
    <2>4. ASSUME NEW c \in Takers, CallDequeue(c) \/ ConsumerStep(c) PROVE FifoStep
        BY ZenonT(60), <2>1, <2>2, <2>4, CallDequeueRefines, ReadConsumerHeadRefines,
           CheckEmptyRefines, ClaimConsumerRefines, CopyNodeRefines, ReleaseRefines
           DEF ConsumerStep
    <2> QED
        BY ZenonT(60), <1>2, <2>3, <2>4 DEF Next, Putters, Takers
<1>3. CASE UNCHANGED vars
    BY ZenonT(60), <1>3, Unseen DEF vars, QueueOf, NodeOf, Waiting
<1> QED
    BY <1>2, <1>3

(* The ring queue of softbus_queue.h is a bounded first-in first-out queue    *)
(* for any number of slots that divides the counters' range, any number of    *)
(* producers and consumers, and any place the counters start from: what is    *)
(* published is appended, what is claimed is the oldest node, the node a      *)
(* dequeue returns is the one it claimed, and QUEUE_EMPTY is the truth.        *)
THEOREM QueueIsFifo ==
    ASSUME QueueConstants
    PROVE  Spec => ImplementsFifo
<1>0. QueueSetting
    BY CrewsFinite
<1>1. Init => Fifo!Init
    BY <1>0, FreshRefines DEF FifoInit
<1>2. QueueInv /\ [Next]_vars => [Fifo!Next]_(Fifo!vars)
    <2>1. \A st \in Starts : st \in Counter
        BY DEF QueueConstants
    <2>2. QueueInv /\ [Next]_vars => FifoStep
        BY ZenonT(60), <1>0, <2>1, StepRefines DEF QueueInv
    <2> QED
        BY <2>2 DEF FifoStep
<1> QED
    BY <1>1, <1>2, QueueInductive, PTL DEF Spec, ImplementsFifo, Fifo!Spec

-----------------------------------------------------------------------------
(* The counts the callers can ask for, and who is between the counters.       *)

(* A counter k steps on is k positions on.                                   *)
LEMMA PosPlus ==
    ASSUME QueueSetting, NEW st \in Counter, NEW v \in Counter, NEW k \in Nat,
           Pos(st, v) + k < Wrap
    PROVE  /\ Plus(v, k) \in Counter
           /\ Pos(st, Plus(v, k)) = Pos(st, v) + k
<1>1. /\ Wrap \in Int /\ Wrap > 0 /\ v \in Int /\ st \in Int /\ v + k \in Int /\ 0 <= v /\ v < Wrap
      /\ 0 <= st /\ st < Wrap
    BY SMTT(60) DEF Counter, QueueSetting, QueueConstants
<1>2. CASE v + k < Wrap
    <2>1. Plus(v, k) = v + k
        BY SMTT(60), <1>1, <1>2, Remainders DEF Plus
    <2> QED
        BY SMTT(60), <1>1, <1>2, <2>1 DEF Pos, Counter
<1>3. CASE ~(v + k < Wrap)
    <2>1. st <= v /\ v + k < Wrap + Wrap
        BY SMTT(60), <1>1, <1>3 DEF Pos
    <2>2. Plus(v, k) = (v + k) - Wrap
        BY SMTT(60), <1>1, <1>3, <2>1, Remainders DEF Plus
    <2> QED
        BY SMTT(60), <1>1, <1>3, <2>1, <2>2 DEF Pos, Counter
<1> QED
    BY <1>2, <1>3

(* The values of some threads are all those from v up to w.                   *)
Spread(I, v, w) == {local[t].head : t \in I} = {Plus(v, i) : i \in 0 .. Minus(w, v) - 1}

(* The threads between a tail and a head hold all the values between them.    *)
LEMMA TurnsValues ==
    ASSUME QueueSetting, TypeOK, NEW st \in Counter, NEW I \in SUBSET Threads,
           NEW v \in Counter, NEW w \in Counter, Turns(I, PcPos(st), Pos(st, v), Pos(st, w))
    PROVE  Spread(I, v, w)
<1>1. /\ Pos(st, v) \in Nat /\ Pos(st, w) \in Nat /\ Pos(st, w) \in Counter
      /\ \A t \in I : /\ local[t].head \in Counter /\ PcPos(st)[t] \in Nat
                      /\ PcPos(st)[t] = Pos(st, local[t].head)
    BY ZenonT(60), PosType, Fields
<1>2. Pos(st, v) <= Pos(st, w)
    BY DEF Turns
<1>3. Minus(w, v) = Pos(st, w) - Pos(st, v)
    BY ZenonT(60), <1>2, Differences
<1>4. Pos(st, w) < Wrap /\ Wrap \in Nat
    BY SMTT(60), <1>1 DEF Counter, QueueSetting, QueueConstants
<1>5. ASSUME NEW t \in I
      PROVE  \E i \in 0 .. Minus(w, v) - 1 : local[t].head = Plus(v, i)
    <2>1. Pos(st, v) <= PcPos(st)[t] /\ PcPos(st)[t] < Pos(st, w)
        BY ZenonT(60) DEF Turns
    <2> DEFINE k == PcPos(st)[t] - Pos(st, v)
    <2>2. /\ k \in Nat /\ k \in 0 .. Minus(w, v) - 1 /\ Pos(st, v) + k < Wrap
          /\ Pos(st, v) + k = PcPos(st)[t]
        BY SMTT(60), <1>1, <1>3, <1>4, <2>1
    <2> HIDE DEF k
    <2>3. Plus(v, k) \in Counter /\ Pos(st, Plus(v, k)) = PcPos(st)[t]
        BY <2>2, PosPlus
    <2>4. local[t].head = Plus(v, k)
        <3>1. /\ local[t].head \in Counter /\ Plus(v, k) \in Counter
              /\ Pos(st, local[t].head) = Pos(st, Plus(v, k))
            BY <1>1, <2>3
        <3>2. \A x \in Counter : Pos(st, local[t].head) = Pos(st, x) => local[t].head = x
            BY <3>1, PosType
        <3> QED
            BY <3>1, <3>2
    <2> QED
        BY <2>2, <2>4
<1>6. ASSUME NEW i \in 0 .. Minus(w, v) - 1
      PROVE  \E t \in I : Plus(v, i) = local[t].head
    <2>1. /\ i \in Nat /\ Pos(st, v) + i < Wrap /\ Pos(st, v) + i \in Nat
          /\ Pos(st, v) <= Pos(st, v) + i /\ Pos(st, v) + i < Pos(st, w)
        BY SMTT(60), <1>1, <1>2, <1>3, <1>4
    <2>2. PICK t \in I : PcPos(st)[t] = Pos(st, v) + i
        BY ZenonT(60), <2>1 DEF Turns
    <2>3. Plus(v, i) \in Counter /\ Pos(st, Plus(v, i)) = PcPos(st)[t]
        BY <2>1, <2>2, PosPlus
    <2>4. local[t].head = Plus(v, i)
        <3>1. /\ local[t].head \in Counter /\ Plus(v, i) \in Counter
              /\ Pos(st, local[t].head) = Pos(st, Plus(v, i))
            BY <1>1, <2>3
        <3>2. \A x \in Counter : Pos(st, local[t].head) = Pos(st, x) => local[t].head = x
            BY <3>1, PosType
        <3> QED
            BY <3>1, <3>2
    <2> QED
        BY <2>4
<1>7. {local[t].head : t \in I} = {Plus(v, i) : i \in 0 .. Minus(w, v) - 1}
    BY ZenonT(60), <1>5, <1>6
<1> QED
    BY ZenonT(60), <1>7 DEF Spread

(* Between tail and head stand exactly the threads that have claimed a slot   *)
(* and are not done with it, so that whoever waits for its turn waits for a   *)
(* thread that is there, on both sides and for any number of threads.         *)
THEOREM TurnsKept ==
    ASSUME QueueConstants
    PROVE  Spec => []TurnsHeld
<1>0. QueueSetting
    BY CrewsFinite
<1>1. QueueInv => TurnsHeld
    <2>1. SUFFICES ASSUME NEW st \in Starts, QInv(st) PROVE TurnsHeld
        BY DEF QueueInv
    <2>2. st \in Counter /\ TypeOK /\ PutTurns(st) /\ TakeTurns(st)
        BY <2>1 DEF QueueConstants, QInv
    <2>3. /\ producer.head \in Counter /\ producer.tail \in Counter
          /\ consumer.head \in Counter /\ consumer.tail \in Counter
        BY ZenonT(60), <1>0, <2>2, Fields
    <2>4. /\ {s \in Producers : InSlot(s)} = Within(Putters)
          /\ {s \in Consumers : InSlot(s)} = Within(Takers)
          /\ Within(Putters) \in SUBSET Threads /\ Within(Takers) \in SUBSET Threads
        <3>1. \A s \in Threads : InSlot(s) => s \in crew
            BY ZenonT(60), <2>1 DEF QInv, InSlot
        <3> QED
            BY ZenonT(60), <3>1 DEF Within, Putters, Takers, Threads
    <2>5. Spread(Within(Putters), producer.tail, producer.head)
        <3>1. Turns(Within(Putters), PcPos(st), Pos(st, producer.tail), Pos(st, producer.head))
            BY <2>2 DEF PutTurns
        <3> QED
            BY ZenonT(60), <1>0, <2>2, <2>3, <2>4, <3>1, TurnsValues
    <2>6. Spread(Within(Takers), consumer.tail, consumer.head)
        <3>1. Turns(Within(Takers), PcPos(st), Pos(st, consumer.tail), Pos(st, consumer.head))
            BY <2>2 DEF TakeTurns
        <3> QED
            BY ZenonT(60), <1>0, <2>2, <2>3, <2>4, <3>1, TurnsValues
    <2> QED
        BY ZenonT(60), <2>4, <2>5, <2>6 DEF TurnsHeld, Claimed, Between, Spread
<1> QED
    BY <1>1, QueueInductive, PTL

(* As many threads are between a tail and a head as there are positions.      *)
LEMMA TurnsCount ==
    ASSUME NEW I, NEW pos, NEW tail \in Nat, NEW head \in Nat, Turns(I, pos, tail, head),
           \A t \in I : pos[t] \in Nat
    PROVE  Cardinality(I) = head - tail
<1> DEFINE T == tail .. head - 1
           f == [t \in I |-> pos[t]]
<1>1. \A n \in T : n \in Nat /\ tail <= n /\ n < head
    BY SMTT(60)
<1>2. ASSUME NEW t \in I PROVE pos[t] \in T
    <2>1. tail <= pos[t] /\ pos[t] < head
        BY ZenonT(60) DEF Turns
    <2> QED
        BY SMTT(60), <2>1
<1>3. IsFiniteSet(T) /\ Cardinality(T) = head - tail
    <2>1. /\ IsFiniteSet(T)
          /\ Cardinality(T) = IF tail > head - 1 THEN 0 ELSE (head - 1) - tail + 1
        BY FS_Interval
    <2>2. tail <= head
        BY DEF Turns
    <2> QED
        BY SMTT(60), <2>1, <2>2
<1> HIDE DEF T
<1>4. f \in [I -> T]
    BY ZenonT(60), <1>2
<1>5. \A a, b \in I : f[a] = f[b] => a = b
    BY ZenonT(60) DEF Turns
<1>6. \A n \in T : \E t \in I : f[t] = n
    BY ZenonT(60), <1>1 DEF Turns
<1> HIDE DEF f
<1>7. f \in Injection(I, T)
    BY ZenonT(60), <1>4, <1>5 DEF Injection, IsInjective
<1>8. f \in Surjection(I, T)
    BY ZenonT(60), <1>4, <1>6 DEF Surjection
<1> QED
    BY ZenonT(60), <1>3, <1>7, <1>8, FS_Injection

(* QueueCountGet and QueueIsEmpty lose nothing by taking the difference       *)
(* modulo unitNum: the result is the number of published nodes whose slot is  *)
(* not yet released, because one slot always stays free.                      *)
THEOREM CountIsExact ==
    ASSUME QueueConstants
    PROVE  Spec => []CountExact
<1>0. QueueSetting
    BY CrewsFinite
<1>1. QueueInv => CountExact
    <2>1. SUFFICES ASSUME NEW st \in Starts, QInv(st) PROVE CountExact
        BY DEF QueueInv
    <2>2. st \in Counter /\ TypeOK /\ TakeTurns(st)
        BY <2>1 DEF QueueConstants, QInv
    <2>3. /\ producer.head \in Counter /\ producer.tail \in Counter
          /\ consumer.head \in Counter /\ consumer.tail \in Counter
        BY ZenonT(60), <1>0, <2>2, Fields
    <2>4. /\ Pos(st, producer.head) \in Nat /\ Pos(st, producer.tail) \in Nat
          /\ Pos(st, consumer.head) \in Nat /\ Pos(st, consumer.tail) \in Nat
          /\ Pos(st, consumer.tail) <= Pos(st, consumer.head)
          /\ Pos(st, consumer.head) <= Pos(st, producer.tail)
          /\ Pos(st, producer.tail) <= Pos(st, producer.head)
          /\ Pos(st, producer.head) <= Pos(st, consumer.tail) + mask
          /\ \A t \in Threads : PcPos(st)[t] \in Nat
        BY ZenonT(60), <1>0, <2>1, <2>2, Bounds
    <2>5. /\ Pos(st, consumer.tail) <= Pos(st, producer.tail)
          /\ Pos(st, consumer.tail) <= Pos(st, producer.head)
        BY SMTT(60), <2>4
    <2>6. /\ Minus(producer.tail, consumer.tail) = Pos(st, producer.tail) - Pos(st, consumer.tail)
          /\ Minus(producer.tail, consumer.head) = Pos(st, producer.tail) - Pos(st, consumer.head)
          /\ Minus(producer.head, consumer.tail) = Pos(st, producer.head) - Pos(st, consumer.tail)
        BY ZenonT(60), <1>0, <2>2, <2>3, <2>4, <2>5, Differences
    <2>7. Cardinality({c \in Consumers : InSlot(c)}) = Pos(st, consumer.head) - Pos(st, consumer.tail)
        <3>1. {s \in Consumers : InSlot(s)} = Within(Takers) /\ Within(Takers) \subseteq Threads
            <4>1. \A s \in Threads : InSlot(s) => s \in crew
                BY ZenonT(60), <2>1 DEF QInv, InSlot
            <4> QED
                BY ZenonT(60), <4>1 DEF Within, Takers, Threads
        <3>2. \A t \in Within(Takers) : PcPos(st)[t] \in Nat
            BY ZenonT(60), <2>4, <3>1
        <3>3. Cardinality(Within(Takers)) = Pos(st, consumer.head) - Pos(st, consumer.tail)
            BY <2>2, <2>4, <3>2, TurnsCount DEF TakeTurns
        <3> QED
            BY <3>1, <3>3
    <2>8. QueueCount = Pos(st, producer.tail) - Pos(st, consumer.tail)
        <3> DEFINE d == Pos(st, producer.tail) - Pos(st, consumer.tail)
        <3>1. d \in Int /\ 0 <= d /\ d < unitNum /\ unitNum \in Int /\ unitNum > 0
            BY SMTT(60), <2>4, <2>5 DEF QueueConstants, mask
        <3> HIDE DEF d
        <3>2. d % unitNum = d
            BY ZenonT(60), <3>1, Remainders
        <3> QED
            BY <2>6, <3>2 DEF QueueCount, d
    <2>9. /\ Pos(st, producer.tail) - Pos(st, consumer.tail)
              = (Pos(st, producer.tail) - Pos(st, consumer.head))
                  + (Pos(st, consumer.head) - Pos(st, consumer.tail))
          /\ Pos(st, producer.head) - Pos(st, consumer.tail) <= mask
        <3>1. mask \in Int
            BY SMTT(60) DEF QueueConstants, mask
        <3> QED
            BY SMTT(60), <2>4, <3>1
    <2> QED
        BY <2>6, <2>7, <2>8, <2>9 DEF CountExact
<1> QED
    BY <1>1, QueueInductive, PTL

=============================================================================
