--------------------------- MODULE SeqVerification ---------------------------
(***************************************************************************)
(* The duplicate filter of a TCP direct channel,                           *)
(* core/common/security/sequence_verification: a receiver keeps the next   *)
(* expected number minSeq, one past the largest number seen maxSeq, and a  *)
(* bitmap of the numbers below maxSeq.  Packets are numbered 0, 1, 2, ...  *)
(* by the sender; the receiver sees the number as a signed integer that    *)
(* wraps.  Delivery may reorder, repeat and lose packets.                  *)
(*                                                                         *)
(* The widths are parameters: the code has SeqBits = 32, MAX_SEQ_BIAS = 60,*)
(* BitmapBits = 64 and RepeatBits = 32.                                    *)
(***************************************************************************)
EXTENDS Integers, FiniteSets

CONSTANTS
    SeqBits,       \* width of int32_t
    MAX_SEQ_BIAS,  \* largest distance of an accepted number from minSeq
    BitmapBits,    \* width of uint64_t recvBitmap
    RepeatBits,    \* width of the int32_t that IsPassDuplicateCheck tests
    Lifetime,      \* bound: a packet is delivered at most this long after sending, less
                   \* than Half - MAX_SEQ_BIAS: numbers a cycle apart never meet
    MaxSent        \* bound: packets the sender numbers

Half == 2 ^ (SeqBits - 1)

VARIABLES
    info,      \* SeqVerifyInfo of the receiver
    sent,      \* packets numbered so far by the sender
    behind,    \* packets numbered so far that are not yet behind minSeq
    accepted,  \* packets that passed and may still be delivered again
    outcome    \* the last packet checked and what IsPassSeqCheck returned

vars == <<info, sent, behind, accepted, outcome>>

Packets == 0 .. MaxSent - 1

(* Two's complement: the value an int32_t of SeqBits bits holds. *)
Wrap(x) == ((x + Half) % (2 * Half)) - Half

Seqs == -Half .. Half - 1

SeqVerifyInfo == [maxSeq : Seqs, minSeq : Seqs, recvBitmap : SUBSET (0 .. BitmapBits - 1)]

Refuse(i) == [pass |-> FALSE, info |-> i]

Pass(i) == [pass |-> TRUE, info |-> i]

(* Mutant of ShiftLeft: the bit that leaves the bitmap is kept. *)
MutantWideShift(bits, n) == {b + n : b \in bits}

ShiftLeft(bits, n) == {b + n : b \in {c \in bits : c + n < BitmapBits}}

IsDifferentSign(a, b) == (a >= 0) # (b >= 0)

(* The masked bit is assigned to an int32_t, so a bit at or above RepeatBits is lost. *)
IsPassDuplicateCheck(i, recvSeq) ==
    LET offset == Wrap(i.maxSeq - recvSeq)
    IN  IF offset \in i.recvBitmap /\ offset < RepeatBits
        THEN Refuse(i)
        ELSE Pass([i EXCEPT !.recvBitmap = @ \cup {offset}])

(* Mutants of IsPassOverMaxCheck: the bitmap shifted by one too few, the bias  *)
(* limit dropped.                                                              *)
MutantShortShift(i, recvSeq) ==
    LET seqOffset == Wrap(recvSeq - i.maxSeq)
    IN  IF seqOffset < 0 \/ Wrap(recvSeq - i.minSeq) >= MAX_SEQ_BIAS
        THEN Refuse(i)
        ELSE Pass([i EXCEPT !.maxSeq = Wrap(recvSeq + 1),
                            !.recvBitmap = ShiftLeft(@, seqOffset) \cup {1}])

MutantNoBias(i, recvSeq) ==
    LET seqOffset == Wrap(recvSeq - i.maxSeq)
    IN  IF seqOffset < 0
        THEN Refuse(i)
        ELSE Pass([i EXCEPT !.maxSeq = Wrap(recvSeq + 1),
                            !.recvBitmap = ShiftLeft(@, seqOffset + 1) \cup {1}])

IsPassOverMaxCheck(i, recvSeq) ==
    LET seqOffset == Wrap(recvSeq - i.maxSeq) + 1
    IN  IF Wrap(recvSeq - i.maxSeq) < 0 \/ Wrap(recvSeq - i.minSeq) >= MAX_SEQ_BIAS
        THEN Refuse(i)
        ELSE Pass([i EXCEPT !.maxSeq = Wrap(recvSeq + 1),
                            !.recvBitmap = ShiftLeft(@, seqOffset) \cup {1}])

AdvanceMin(i) == Pass([i EXCEPT !.minSeq = Wrap(@ + 1)])

(* Mutant: numbers behind minSeq are only looked up in the bitmap. *)
MutantNoMinTest(i, recvSeq) ==
    CASE recvSeq = i.minSeq -> AdvanceMin(i)
      [] recvSeq # i.minSeq /\ recvSeq < i.maxSeq -> IsPassDuplicateCheck(i, recvSeq)
      [] OTHER -> IsPassOverMaxCheck(i, recvSeq)

IsPassAllRangeCheck(i, recvSeq) ==
    CASE recvSeq = i.minSeq -> AdvanceMin(i)
      [] recvSeq > i.minSeq /\ recvSeq < i.maxSeq -> IsPassDuplicateCheck(i, recvSeq)
      [] recvSeq > i.minSeq /\ recvSeq >= i.maxSeq -> IsPassOverMaxCheck(i, recvSeq)
      [] OTHER -> Refuse(i)

IsPassNormalCheck(i, recvSeq) ==
    CASE recvSeq = i.minSeq ->
            Pass([i EXCEPT !.minSeq = Wrap(recvSeq + 1), !.maxSeq = Wrap(recvSeq + 1)])
      [] recvSeq # i.minSeq /\ ~IsDifferentSign(recvSeq, i.minSeq) /\ recvSeq <= i.maxSeq ->
            Refuse(i)
      [] OTHER -> IsPassOverMaxCheck(i, recvSeq)

IsPassNoflipDisorderCheck(i, recvSeq) ==
    IF IsDifferentSign(recvSeq, i.minSeq)
    THEN IsPassOverMaxCheck(i, recvSeq)
    ELSE IsPassAllRangeCheck(i, recvSeq)

(* minSeq < 0 <= maxSeq: the window has passed from -1 to 0. *)
IsPassFlipPositiveCheck(i, recvSeq) ==
    CASE recvSeq >= 0 /\ recvSeq < i.maxSeq -> IsPassDuplicateCheck(i, recvSeq)
      [] recvSeq >= 0 /\ recvSeq >= i.maxSeq -> IsPassOverMaxCheck(i, recvSeq)
      [] recvSeq < 0 /\ recvSeq = i.minSeq -> AdvanceMin(i)
      [] recvSeq < 0 /\ recvSeq > i.minSeq -> IsPassDuplicateCheck(i, recvSeq)
      [] OTHER -> Refuse(i)

(* maxSeq < 0 <= minSeq: the window has passed the largest number. *)
IsPassFlipNegativeCheck(i, recvSeq) ==
    CASE recvSeq >= 0 /\ recvSeq = i.minSeq -> AdvanceMin(i)
      [] recvSeq >= 0 /\ recvSeq > i.minSeq -> IsPassDuplicateCheck(i, recvSeq)
      [] recvSeq < 0 /\ recvSeq < i.maxSeq -> IsPassDuplicateCheck(i, recvSeq)
      [] recvSeq < 0 /\ recvSeq >= i.maxSeq -> IsPassOverMaxCheck(i, recvSeq)
      [] OTHER -> Refuse(i)

IsPassSeqCheck(i, recvSeq) ==
    LET flipped == IsDifferentSign(i.minSeq, i.maxSeq)
    IN  CASE i.minSeq = i.maxSeq -> IsPassNormalCheck(i, recvSeq)
          [] i.minSeq < i.maxSeq /\ ~flipped -> IsPassNoflipDisorderCheck(i, recvSeq)
          [] i.minSeq > i.maxSeq /\ flipped -> IsPassFlipNegativeCheck(i, recvSeq)
          [] i.minSeq < i.maxSeq /\ flipped -> IsPassFlipPositiveCheck(i, recvSeq)
          [] OTHER -> Refuse(i)

-----------------------------------------------------------------------------
Init ==
    /\ info = [maxSeq |-> 0, minSeq |-> 0, recvBitmap |-> {}]
    /\ sent = 0
    /\ behind = 0
    /\ accepted = {}
    /\ outcome = [seq |-> -1, pass |-> FALSE]

Deliverable == {n \in Packets : n < sent /\ n >= sent - Lifetime}

(* The sender numbers one more packet; the oldest one can no longer arrive.  A *)
(* sender half the number space ahead of the receiver is out of scope: it takes *)
(* 2^31 packets to get there.                                                   *)
Send ==
    /\ sent < MaxSent
    /\ behind < Half - MAX_SEQ_BIAS
    /\ sent' = sent + 1
    /\ behind' = behind + 1
    /\ accepted' = {n \in accepted : n >= sent + 1 - Lifetime}
    /\ UNCHANGED <<info, outcome>>

(* The receiver checks packet n, which may have been delivered before. *)
Deliver(n) ==
    LET result == IsPassSeqCheck(info, Wrap(n))
    IN  /\ n \in Deliverable
        /\ info' = result.info
        /\ behind' = behind - Wrap(result.info.minSeq - info.minSeq)
        /\ outcome' = [seq |-> n, pass |-> result.pass]
        /\ accepted' = IF result.pass THEN accepted \cup {n} ELSE accepted
        /\ UNCHANGED sent

Next == Send \/ \E n \in Packets : Deliver(n)

Spec == Init /\ [][Next]_vars

-----------------------------------------------------------------------------
(* Every variable stays in its domain: numbers fit the signed width and no bit *)
(* is recorded beyond the bitmap.                                              *)
TypeOK ==
    /\ info \in SeqVerifyInfo
    /\ sent \in 0 .. MaxSent
    /\ behind \in 0 .. Half - MAX_SEQ_BIAS
    /\ accepted \subseteq Packets
    /\ outcome \in [seq : Packets \cup {-1}, pass : BOOLEAN]

(* minSeq never overtakes maxSeq and trails it by at most MAX_SEQ_BIAS, whatever *)
(* the flips: so every shift of recvBitmap stays below its width.                *)
WindowBounded == Wrap(info.maxSeq - info.minSeq) \in 0 .. MAX_SEQ_BIAS

Checked == sent' = sent

AheadOfMin(n) == Wrap(Wrap(n) - info.minSeq)

PassesFresh ==
    LET n == outcome'.seq
    IN  Checked /\ n \notin accepted /\ AheadOfMin(n) \in 0 .. MAX_SEQ_BIAS - 1 => outcome'.pass
RefusesBehind == Checked /\ AheadOfMin(outcome'.seq) < 0 => ~outcome'.pass

(* A packet that did not pass before and whose number is less than MAX_SEQ_BIAS *)
(* ahead of minSeq passes: no stale bit of recvBitmap makes IsPassSeqCheck      *)
(* refuse it, before, across and after a flip.                                  *)
FreshInWindowPasses == [][PassesFresh]_vars

(* "when receive seq < minSeq, the package is duplicated": a number behind minSeq *)
(* never passes, on either side of a flip.                                        *)
BehindMinRefused == [][RefusesBehind]_vars

(* A repeated packet never passes a second time, as the repeat tests expect. *)
RepeatRefused ==
    [][Checked /\ outcome'.seq \in accepted => ~outcome'.pass]_vars
=============================================================================
