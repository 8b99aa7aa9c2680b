------------------------------- MODULE FifoQueue -------------------------------
(***************************************************************************)
(* What the lock free queue of softbus_queue.h promises its callers: a     *)
(* bounded first-in first-out queue, whose operations each take effect at  *)
(* one instant between their call and their return.                        *)
(***************************************************************************)
EXTENDS Integers, Sequences

CONSTANTS Producers, Consumers, Node, NULL,
          Limit                   \* the most nodes the queue ever holds

VARIABLES q,                      \* the nodes, oldest first
          node,                   \* the node a caller is putting or has taken
          ret                     \* what the caller's last call returned

vars == <<q, node, ret>>
Threads == Producers \cup Consumers
CALLING == "calling"

Init ==
  /\ q = <<>>
  /\ node = [t \in Threads |-> NULL]
  /\ ret = [t \in Threads |-> "OK"]

Answer(t, n, r) ==
  /\ node' = [node EXCEPT ![t] = n]
  /\ ret' = [ret EXCEPT ![t] = r]

Enqueue(p) ==
  /\ ret[p] # CALLING
  /\ \E n \in Node : Answer(p, n, CALLING)
  /\ UNCHANGED q

Put(p) ==
  /\ ret[p] = CALLING /\ Len(q) < Limit
  /\ q' = Append(q, node[p])
  /\ Answer(p, NULL, "OK")

Full(p) ==
  /\ ret[p] = CALLING /\ Answer(p, NULL, "QUEUE_FULL")
  /\ UNCHANGED q

Dequeue(c) ==
  /\ ret[c] # CALLING
  /\ Answer(c, NULL, CALLING)
  /\ UNCHANGED q

Take(c) ==
  /\ ret[c] = CALLING /\ node[c] = NULL /\ q # <<>>
  /\ q' = Tail(q)
  /\ node' = [node EXCEPT ![c] = Head(q)]
  /\ UNCHANGED ret

\* The node is handed to the caller, and is the one that was taken.
Return(c) ==
  /\ ret[c] = CALLING /\ node[c] # NULL
  /\ Answer(c, node[c], "OK")
  /\ UNCHANGED q

Empty(c) ==
  /\ ret[c] = CALLING /\ node[c] = NULL /\ q = <<>>
  /\ Answer(c, NULL, "QUEUE_EMPTY")
  /\ UNCHANGED q

Next ==
  \/ \E p \in Producers : Enqueue(p) \/ Put(p) \/ Full(p)
  \/ \E c \in Consumers : Dequeue(c) \/ Take(c) \/ Return(c) \/ Empty(c)

Spec == Init /\ [][Next]_vars
================================================================================
