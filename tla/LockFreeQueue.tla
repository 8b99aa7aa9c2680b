---------------------------- MODULE LockFreeQueue ----------------------------
(***************************************************************************)
(* softbus_queue.h, softbus_queue.c: the lock free ring queue.  Every      *)
(* access to a shared word that the barriers order is a step of its own.   *)
(* The four counters only grow and are reduced modulo Wrap, which is 2^32  *)
(* in the code.                                                            *)
(***************************************************************************)
EXTENDS Integers, Sequences, FiniteSets

CONSTANTS
  Producers,      \* threads that enqueue
  Consumers,      \* threads that dequeue
  Crews,          \* sets of threads that use one queue
  unitNum,        \* the number of slots
  Wrap,           \* where the counters wrap: a multiple of unitNum, at least MaxCalls + unitNum
  Starts,         \* counter values to start from
  MaxCalls,       \* bound: enqueue calls
  NULL

VARIABLES
  crew,                 \* the threads that use the queue
  producer, consumer,   \* [head, tail]
  nodes,                \* the slots
  pc, local,            \* a thread's position and local variables
  ret,                  \* what its last call returned
  calls                 \* enqueue calls so far, and the newest node

vars == <<crew, producer, consumer, nodes, pc, local, ret, calls>>

Threads == Producers \cup Consumers
Counter == 0 .. Wrap - 1
Node == 1 .. MaxCalls
CALLING == "calling"
mask == unitNum - 1
Slot(i) == i % unitNum
MutantPlus(i, k) == i + k
Plus(i, k) == (i + k) % Wrap
Minus(i, j) == (i - j) % Wrap

\* What the constants have to be: unitNum divides 2^32, being a power of two, and
\* no more calls are made than the counters can tell apart.
QueueConstants ==
  /\ unitNum \in Nat \ {0} /\ Wrap \in Nat /\ MaxCalls \in Nat
  /\ Wrap % unitNum = 0 /\ MaxCalls + unitNum <= Wrap
  /\ Starts \subseteq Counter
  /\ Producers \cap Consumers = {}
  /\ \A k \in Crews : k \subseteq Threads /\ IsFiniteSet(k)
  /\ NULL \notin Node

\* QueueMultiProducerEnqueue and QueueMultiConsumerDequeue are for several
\* callers; a thread alone on its side uses the single operation.
SafeProducer == Cardinality(crew \cap Producers) > 1
SafeConsumer == Cardinality(crew \cap Consumers) > 1

\* QueueInit starts the counters at 0; a queue drained after any number of
\* operations looks the same but for where they are.
Init ==
  /\ crew \in Crews
  /\ \E i \in Starts : /\ producer = [head |-> i, tail |-> i]
                       /\ consumer = [head |-> i, tail |-> i]
  /\ nodes = [i \in 0 .. mask |-> NULL]
  /\ pc = [t \in Threads |-> "idle"]
  /\ local = [t \in Threads |-> [head |-> 0, node |-> NULL]]
  /\ ret = [t \in Threads |-> "OK"]
  /\ calls = 0

Goto(t, from, to) == pc[t] = from /\ pc' = [pc EXCEPT ![t] = to]
Returns(t, r) == ret' = [ret EXCEPT ![t] = r]
Drops(t) == local' = [local EXCEPT ![t].node = NULL]

------------------------------------------------------------------------------
CallEnqueue(p) ==
  /\ calls < MaxCalls
  /\ Goto(p, "idle", "head") /\ Returns(p, CALLING)
  /\ calls' = calls + 1
  /\ local' = [local EXCEPT ![p].node = calls + 1]
  /\ UNCHANGED <<producer, consumer, nodes>>

ReadProducerHead(p) ==
  /\ Goto(p, "head", "check")
  /\ local' = [local EXCEPT ![p].head = producer.head]
  /\ UNCHANGED <<producer, consumer, nodes, ret, calls>>

\* The head was read before the consumer's tail is.
MutantAvailableLess(p) == Minus(mask - 1 + consumer.tail, local[p].head)
MutantAvailable(p) == Minus(unitNum + consumer.tail, local[p].head)
Available(p) == Minus(mask + consumer.tail, local[p].head)

CheckFull(p) ==
  /\ IF Available(p) < 1
       THEN Goto(p, "check", "idle") /\ Returns(p, "QUEUE_FULL") /\ Drops(p)
       ELSE Goto(p, "check", "claim") /\ UNCHANGED <<ret, local>>
  /\ UNCHANGED <<producer, consumer, nodes, calls>>

\* The compare and swap of the thread safe operation; a plain store in the
\* other.
MutantClaimProducer(p) ==
  /\ Goto(p, "claim", "store")
  /\ producer' = [producer EXCEPT !.head = Plus(local[p].head, 1)]
  /\ UNCHANGED <<consumer, nodes, local, ret, calls>>
ClaimProducer(p) ==
  /\ IF SafeProducer /\ producer.head # local[p].head
       THEN Goto(p, "claim", "head") /\ UNCHANGED producer
       ELSE /\ Goto(p, "claim", "store")
            /\ producer' = [producer EXCEPT !.head = Plus(local[p].head, 1)]
  /\ UNCHANGED <<consumer, nodes, local, ret, calls>>

MutantStoreNode(p) ==
  /\ Goto(p, "store", "publish")
  /\ nodes' = [nodes EXCEPT ![Slot(local[p].head + 1)] = local[p].node]
  /\ UNCHANGED <<producer, consumer, local, ret, calls>>
StoreNode(p) ==
  /\ Goto(p, "store", "publish")
  /\ nodes' = [nodes EXCEPT ![Slot(local[p].head)] = local[p].node]
  /\ UNCHANGED <<producer, consumer, local, ret, calls>>

\* The thread safe operation waits until the producers before it are done.
MutantPublish(p) ==
  /\ Goto(p, "publish", "idle") /\ Returns(p, "OK") /\ Drops(p)
  /\ producer' = [producer EXCEPT !.tail = Plus(@, 1)]
  /\ UNCHANGED <<consumer, nodes, calls>>
Publish(p) ==
  /\ SafeProducer => producer.tail = local[p].head
  /\ Goto(p, "publish", "idle") /\ Returns(p, "OK") /\ Drops(p)
  /\ producer' = [producer EXCEPT !.tail = Plus(local[p].head, 1)]
  /\ UNCHANGED <<consumer, nodes, calls>>

------------------------------------------------------------------------------
CallDequeue(c) ==
  /\ Goto(c, "idle", "head") /\ Returns(c, CALLING) /\ Drops(c)
  /\ UNCHANGED <<producer, consumer, nodes, calls>>

ReadConsumerHead(c) ==
  /\ Goto(c, "head", "check")
  /\ local' = [local EXCEPT ![c].head = consumer.head]
  /\ UNCHANGED <<producer, consumer, nodes, ret, calls>>

CheckEmpty(c) ==
  /\ IF Minus(producer.tail, local[c].head) < 1
       THEN Goto(c, "check", "idle") /\ Returns(c, "QUEUE_EMPTY")
       ELSE Goto(c, "check", "claim") /\ UNCHANGED ret
  /\ UNCHANGED <<producer, consumer, nodes, local, calls>>

ClaimConsumer(c) ==
  /\ IF SafeConsumer /\ consumer.head # local[c].head
       THEN Goto(c, "claim", "head") /\ UNCHANGED consumer
       ELSE /\ Goto(c, "claim", "copy")
            /\ consumer' = [consumer EXCEPT !.head = Plus(local[c].head, 1)]
  /\ UNCHANGED <<producer, nodes, local, ret, calls>>

CopyNode(c) ==
  /\ Goto(c, "copy", "release")
  /\ local' = [local EXCEPT ![c].node = nodes[Slot(local[c].head)]]
  /\ UNCHANGED <<producer, consumer, nodes, ret, calls>>

\* Only now may a producer fill the slot again.
Release(c) ==
  /\ SafeConsumer => consumer.tail = local[c].head
  /\ Goto(c, "release", "idle") /\ Returns(c, "OK")
  /\ consumer' = [consumer EXCEPT !.tail = Plus(local[c].head, 1)]
  /\ UNCHANGED <<producer, nodes, local, calls>>

ProducerStep(p) ==
  \/ ReadProducerHead(p) \/ CheckFull(p) \/ ClaimProducer(p)
  \/ StoreNode(p) \/ Publish(p)

ConsumerStep(c) ==
  \/ ReadConsumerHead(c) \/ CheckEmpty(c) \/ ClaimConsumer(c)
  \/ CopyNode(c) \/ Release(c)

Next ==
  /\ \/ \E p \in crew \cap Producers : CallEnqueue(p) \/ ProducerStep(p)
     \/ \E c \in crew \cap Consumers : CallDequeue(c) \/ ConsumerStep(c)
  /\ UNCHANGED crew

Spec == Init /\ [][Next]_vars

------------------------------------------------------------------------------
\* QueueCountGet, and QueueIsEmpty which compares it with zero.
QueueCount == Minus(producer.tail, consumer.tail) % unitNum

TypeOK ==
  /\ crew \in Crews
  /\ producer \in [head : Counter, tail : Counter]
  /\ consumer \in [head : Counter, tail : Counter]
  /\ nodes \in [0 .. mask -> Node \cup {NULL}]
  /\ pc \in [Threads -> {"idle", "head", "check", "claim", "store", "publish",
                         "copy", "release"}]
  /\ local \in [Threads -> [head : Counter, node : Node \cup {NULL}]]
  /\ ret \in [Threads -> {CALLING, "OK", "QUEUE_FULL", "QUEUE_EMPTY"}]
  /\ calls \in 0 .. MaxCalls

InSlot(t) == pc[t] \in {"store", "publish", "copy", "release"}

\* A slot a thread has claimed is touched by no other thread until it has
\* published or released it: no two stores, and no store under a copy, meet.
NoSlotRace ==
  \A s, t \in Threads :
    s # t /\ InSlot(s) /\ InSlot(t) => Slot(local[s].head) # Slot(local[t].head)

\* QueueCountGet and QueueIsEmpty take the difference of two counters modulo
\* unitNum; that loses nothing, because one slot always stays free: the result
\* is the number of published nodes whose slot is not yet released.
CountExact ==
  /\ QueueCount = Minus(producer.tail, consumer.head)
                    + Cardinality({c \in Consumers : InSlot(c)})
  /\ Minus(producer.head, consumer.tail) <= mask

FullOnlyIfClaimed ==
  \A p \in Producers :
    ret[p] = CALLING /\ ret'[p] = "QUEUE_FULL" => Minus(producer.head, consumer.tail) = mask

\* QUEUE_FULL is answered only when every slot that can be used is claimed,
\* though the producer's head may be old when the consumer's tail is read.
FullWhenFull == [][FullOnlyIfClaimed]_vars

Claimed(side) == {local[t].head : t \in {s \in side : InSlot(s)}}
Between(e) == {Plus(e.tail, i) : i \in 0 .. Minus(e.head, e.tail) - 1}

\* Between tail and head stand exactly the threads that have claimed a slot and
\* not yet published or released it: the loops that wait for the threads before
\* them always wait for a thread that is there, and so end, whatever the order
\* in which the threads got through.
TurnsHeld == /\ Claimed(Producers) = Between(producer)
             /\ Claimed(Consumers) = Between(consumer)

Waiting == Minus(producer.tail, consumer.head)
Fifo == INSTANCE FifoQueue WITH
          Limit <- mask,
          q <- [i \in 1 .. Waiting |-> nodes[Slot(consumer.head + i - 1)]],
          node <- [t \in Threads |->
                     IF pc[t] = "copy" THEN nodes[Slot(local[t].head)]
                                       ELSE local[t].node]
FifoInit == Fifo!Init
FifoStep == [Fifo!Next]_(Fifo!vars)

\* The queue is a first-in first-out queue: an enqueue takes effect when the
\* tail is published, a dequeue when the head is claimed, QUEUE_EMPTY is
\* answered only if the queue was empty, and the node a dequeue returns is the
\* one that was oldest when it was claimed.
ImplementsFifo == Fifo!Spec
==============================================================================
