----------------------------- MODULE MCNetBuilder -----------------------------
(* Instances of NetBuilder for TLC. *)
EXTENDS NetBuilder, TLC

CONSTANTS w1, w2, b1, b2, u1, u2

\* One device behind every address.
OnePeer == [a \in Addr |-> u1]

\* The two WLAN addresses of that device can be exchanged: nothing orders them.
WlanSymmetry == Permutations({w1, w2})

\* A second device behind the second address of each kind.
TwoPeers == [a \in Addr |-> IF a \in {w1, b1} THEN u1 ELSE u2]
=============================================================================
