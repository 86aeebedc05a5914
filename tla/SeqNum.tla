------------------------------- MODULE SeqNum -------------------------------
(***************************************************************************)
(* Wrapping sequence numbers, src/rtpx/util/sn.hpp (litertp has the same   *)
(* file).  Numbers are of an unsigned type with T values; the templates    *)
(* with M = 0 wrap at T, the others at M, but still compute in the type.   *)
(***************************************************************************)
EXTENDS Integers

CONSTANT T  \* 2^16: the number of values of uint16_t

ASSUME TAssumption == T \in Nat /\ T > 0 /\ T % 2 = 0

Numbers == 0..(T - 1)

\* forward_diff<T>(a, b) and reverse_diff<T>(a, b)
ForwardDiff(a, b) == (b - a) % T
ReverseDiff(a, b) == (a - b) % T

\* ahead_or_at<T>(a, b).  a - b is computed in int, so it may be negative.
AheadOrAt(a, b) ==
    IF a - b = T \div 2 THEN b < a ELSE ForwardDiff(b, a) < T \div 2

\* ahead_of<T>(a, b)
AheadOf_M(a, b) == AheadOrAt(a, b)
AheadOf(a, b) == a # b /\ AheadOrAt(a, b)

\* The same with M > 0.
ForwardDiffMod(a, b, M) == (IF a <= b THEN b - a ELSE M - (a - b)) % T
ReverseDiffMod(a, b, M) == (IF b <= a THEN a - b ELSE M - (b - a)) % T
MinDiffMod(a, b, M) ==
    IF ForwardDiffMod(a, b, M) <= ReverseDiffMod(a, b, M)
      THEN ForwardDiffMod(a, b, M) ELSE ReverseDiffMod(a, b, M)
AheadOrAtMod(a, b, M) ==
    IF M % 2 = 0 /\ MinDiffMod(a, b, M) = M \div 2
      THEN b < a ELSE ForwardDiffMod(b, a, M) <= M \div 2
AheadOfMod(a, b, M) == a # b /\ AheadOrAtMod(a, b, M)

-----------------------------------------------------------------------------
\* What the comment on ahead_of() says: a is ahead of b when it is reached from b
\* in fewer steps than b from a, and at the maximal distance when it is higher.
Reference(a, b) ==
    \/ \E n \in 1..(T \div 2 - 1) : a = b + n \/ a + T = b + n
    \/ a = b + T \div 2

\* ahead_of<T> is that relation, though it compares a - b without wrapping.
AheadIsReference == \A a, b \in Numbers : AheadOf(a, b) <=> Reference(a, b)

\* Of two different numbers exactly one is ahead, for ahead_of<T> and for
\* ahead_of<T, M> with numbers below M: the tie at the maximal distance is broken.
ExactlyOneAhead ==
    \A a, b \in Numbers : a # b =>
      /\ AheadOf(a, b) <=> ~AheadOf(b, a)
      /\ \A M \in 1..T : (a < M /\ b < M) => (AheadOfMod(a, b, M) <=> ~AheadOfMod(b, a, M))
=============================================================================
