-------------------------- MODULE RtpReceiverProofs --------------------------
(***************************************************************************)
(* Wrapping sequence numbers: the comparison is right for every even T, so *)
(* for uint16_t, the receiver recovers the order of sending from it, and   *)
(* what the network has only reordered is played in order and completely.  *)
(* The video receiver, which stands on the same numbers and slots, hands   *)
(* up whole NAL units only, in order, and all of them when nothing is lost.*)
(***************************************************************************)
EXTENDS RtpReceiver, VideoState, FiniteSetTheorems, SequenceTheorems, NaturalsInduction,
        WellFoundedInduction, TLAPS

(* src/rtpx/util/sn.hpp                                                    *)

\* Unsigned arithmetic in the type: a difference that is not negative is itself.
LEMMA ModSmall ==
    ASSUME NEW d \in Int, NEW n \in Nat, 0 <= d, d < n
    PROVE  d % n = d
  OBVIOUS

\* Unsigned arithmetic in the type: a negative difference wraps once.
LEMMA ModNegative ==
    ASSUME NEW d \in Int, NEW n \in Nat, -n <= d, d < 0
    PROVE  d % n = d + n
  OBVIOUS

\* T is even: max_dist is exactly half of it.
LEMMA HalfOfT == T \in Nat /\ T > 0 /\ T \div 2 \in Nat /\ T = 2 * (T \div 2)
  BY TAssumption

\* forward_diff<T>(): the number of steps from a to b.
LEMMA ForwardDiffIs ==
    ASSUME NEW a \in Numbers, NEW b \in Numbers
    PROVE  ForwardDiff(a, b) = IF a <= b THEN b - a ELSE b - a + T
  <1>1. CASE a <= b
    BY <1>1, HalfOfT, ModSmall DEF ForwardDiff, Numbers
  <1>2. CASE a > b
    BY <1>2, HalfOfT, ModNegative DEF ForwardDiff, Numbers
  <1>3. QED
    BY <1>1, <1>2 DEF Numbers

\* ahead_of<T>() without the modulus: a is above b by half the range at most, or b is
\* above a by more than half.
LEMMA AheadOfLinear ==
    ASSUME NEW a \in Numbers, NEW b \in Numbers
    PROVE  AheadOf(a, b) <=> \/ b < a /\ a - b <= T \div 2
                             \/ a < b /\ a - b + T < T \div 2
  <1>1. a \in Int /\ b \in Int /\ 0 <= a /\ a < T /\ 0 <= b /\ b < T
    BY HalfOfT DEF Numbers
  <1>2. ForwardDiff(b, a) = IF b <= a THEN a - b ELSE a - b + T
    BY ForwardDiffIs
  <1>3. QED
    BY <1>1, <1>2, HalfOfT DEF AheadOf, AheadOrAt

\* ahead_of<T>() is the documented relation on any two numbers.
LEMMA AheadOfIs ==
    ASSUME NEW a \in Numbers, NEW b \in Numbers
    PROVE  AheadOf(a, b) <=> Reference(a, b)
  <1> DEFINE h == T \div 2
  <1>1. a \in Int /\ b \in Int /\ 0 <= a /\ a < T /\ 0 <= b /\ b < T
    BY HalfOfT DEF Numbers
  <1>2. h \in Nat /\ T = 2 * h
    BY HalfOfT
  <1>3. AheadOf(a, b) <=> \/ b < a /\ a - b <= h
                          \/ a < b /\ a - b + T < h
    BY AheadOfLinear
  <1>4. Reference(a, b) <=> \/ b < a /\ a - b <= h
                            \/ a < b /\ a - b + T < h
    <2>1. ASSUME Reference(a, b)
          PROVE  \/ b < a /\ a - b <= h
                 \/ a < b /\ a - b + T < h
      <3>1. CASE a = b + h
        BY <1>1, <1>2, <3>1, HalfOfT
      <3>2. CASE \E n \in 1..(h - 1) : a = b + n \/ a + T = b + n
        BY <1>1, <1>2, <3>2
      <3>3. QED
        BY <2>1, <3>1, <3>2 DEF Reference
    <2>2. ASSUME b < a, a - b <= h
          PROVE  Reference(a, b)
      <3>1. CASE a - b = h
        BY <1>1, <1>2, <3>1 DEF Reference
      <3>2. CASE a - b < h
        <4>1. a - b \in 1..(h - 1) /\ a = b + (a - b)
          BY <1>1, <1>2, <2>2, <3>2
        <4>2. QED
          BY <4>1 DEF Reference
      <3>3. QED
        BY <1>1, <1>2, <2>2, <3>1, <3>2
    <2>3. ASSUME a < b, a - b + T < h
          PROVE  Reference(a, b)
      <3>1. a - b + T \in 1..(h - 1) /\ a + T = b + (a - b + T)
        BY <1>1, <1>2, <2>3
      <3>2. QED
        BY <3>1 DEF Reference
    <2>4. QED
      BY <2>1, <2>2, <2>3
  <1>5. QED
    BY <1>3, <1>4

\* ahead_of<T>() agrees with its documentation whatever the width of the type.
THEOREM AheadIsReferenceAlways == AheadIsReference
  BY AheadOfIs DEF AheadIsReference

\* forward_diff<T, M>() and reverse_diff<T, M>() on numbers below M: the steps from
\* a to b and back, which are M together and never leave the type.
LEMMA DiffModIs ==
    ASSUME NEW M \in 1..T, NEW a \in 0..(M - 1), NEW b \in 0..(M - 1), a # b
    PROVE  /\ ForwardDiffMod(a, b, M) = IF a < b THEN b - a ELSE M - (a - b)
           /\ ReverseDiffMod(a, b, M) = IF b < a THEN a - b ELSE M - (b - a)
  <1>1. T \in Nat
    BY HalfOfT
  <1>2. CASE a < b
    BY <1>1, <1>2, ModSmall DEF ForwardDiffMod, ReverseDiffMod
  <1>3. CASE b < a
    BY <1>1, <1>3, ModSmall DEF ForwardDiffMod, ReverseDiffMod
  <1>4. QED
    BY <1>2, <1>3

\* ahead_of<T, M>() is total and antisymmetric on the numbers below M.
LEMMA OneAheadMod ==
    ASSUME NEW M \in 1..T, NEW a \in 0..(M - 1), NEW b \in 0..(M - 1), a < b
    PROVE  AheadOfMod(a, b, M) <=> ~AheadOfMod(b, a, M)
  <1> DEFINE h == M \div 2
  <1>1. M \in Nat /\ T \in Nat /\ h \in Nat
    BY HalfOfT
  <1>2. /\ ForwardDiffMod(a, b, M) = b - a /\ ReverseDiffMod(a, b, M) = M - (b - a)
        /\ ForwardDiffMod(b, a, M) = M - (b - a) /\ ReverseDiffMod(b, a, M) = b - a
    BY DiffModIs
  <1>3. MinDiffMod(a, b, M) = MinDiffMod(b, a, M)
    BY <1>1, <1>2 DEF MinDiffMod
  <1>4. MinDiffMod(a, b, M) = IF b - a <= M - (b - a) THEN b - a ELSE M - (b - a)
    BY <1>2 DEF MinDiffMod
  <1>5. CASE M % 2 = 0 /\ MinDiffMod(a, b, M) = h
    BY <1>1, <1>3, <1>5 DEF AheadOfMod, AheadOrAtMod
  <1>6. CASE M % 2 = 0 /\ MinDiffMod(a, b, M) # h
    <2>1. M = 2 * h
      BY <1>1, <1>6
    <2>2. b - a # h
      BY <1>1, <1>4, <1>6, <2>1
    <2>3. b - a <= h <=> ~(M - (b - a) <= h)
      BY <1>1, <2>1, <2>2
    <2>4. QED
      BY <1>2, <1>3, <1>6, <2>3 DEF AheadOfMod, AheadOrAtMod
  <1>7. CASE M % 2 # 0
    <2>1. M = 2 * h + 1
      BY <1>1, <1>7
    <2>2. b - a <= h <=> ~(M - (b - a) <= h)
      BY <1>1, <2>1
    <2>3. QED
      BY <1>2, <1>7, <2>2 DEF AheadOfMod, AheadOrAtMod
  <1>8. QED
    BY <1>5, <1>6, <1>7

\* Neither comparison leaves two different numbers undecided, and none says that
\* each is ahead of the other, whatever the width of the type and the modulus M.
THEOREM ExactlyOneAheadAlways == ExactlyOneAhead
  <1>1. ASSUME NEW a \in Numbers, NEW b \in Numbers, a # b
        PROVE  AheadOf(a, b) <=> ~AheadOf(b, a)
    <2> DEFINE h == T \div 2
    <2>1. a \in Int /\ b \in Int /\ h \in Nat /\ T = 2 * h /\ T \in Nat
      BY HalfOfT DEF Numbers
    <2>2. /\ ForwardDiff(b, a) = IF b <= a THEN a - b ELSE a - b + T
          /\ ForwardDiff(a, b) = IF a <= b THEN b - a ELSE b - a + T
      BY ForwardDiffIs
    <2>3. QED
      BY <1>1, <2>1, <2>2 DEF AheadOf, AheadOrAt, Numbers
  <1>2. ASSUME NEW a \in Numbers, NEW b \in Numbers, a # b, NEW M \in 1..T, a < M, b < M
        PROVE  AheadOfMod(a, b, M) <=> ~AheadOfMod(b, a, M)
    <2>1. a \in 0..(M - 1) /\ b \in 0..(M - 1) /\ (a < b \/ b < a)
      BY <1>2, HalfOfT DEF Numbers
    <2>2. QED
      BY <2>1, OneAheadMod
  <1>3. QED
    BY <1>1, <1>2 DEF ExactlyOneAhead

-----------------------------------------------------------------------------
(* Packets and their numbers                                               *)

\* The first number of a stream is one.
LEMMA FirstIs ==
    ASSUME network \in Networks
    PROVE  First \in Nat
  BY HalfOfT, StreamAssumption DEF Numbers, Network, First

\* The sequence number of packet k is first + k less a multiple of T.
LEMMA Seq16Is ==
    ASSUME First \in Nat, NEW k \in Nat
    PROVE  /\ Seq16(k) \in Numbers
           /\ \E q \in Int : Seq16(k) = (First + k) - T * q
  <1>1. T \in Nat /\ T > 0 /\ First \in Nat
    BY HalfOfT
  <1> DEFINE x == First + k
  <1>2. x \in Nat
    BY <1>1
  <1>3. x % T \in 0..(T - 1) /\ x \div T \in Int /\ x = T * (x \div T) + (x % T)
    <2> HIDE DEF x
    <2> QED
      BY <1>1, <1>2
  <1>4. Seq16(k) \in Numbers /\ Seq16(k) = x - T * (x \div T)
    <2>1. Seq16(k) = x % T
      BY DEF Seq16
    <2> HIDE DEF x
    <2> QED
      BY <1>1, <1>2, <1>3, <2>1 DEF Numbers
  <1>5. QED
    BY <1>3, <1>4

\* Two packets sent d apart, d less than T, have numbers d apart, wrapped once at most.
LEMMA NumbersApart ==
    ASSUME First \in Nat, NEW i \in Nat, NEW j \in Nat, i - j < T, j - i < T
    PROVE  \/ Seq16(i) - Seq16(j) = i - j
           \/ Seq16(i) - Seq16(j) = i - j + T
           \/ Seq16(i) - Seq16(j) = i - j - T
  <1>1. T \in Nat /\ T > 0 /\ First \in Nat
    BY HalfOfT
  <1>2. PICK p \in Int : Seq16(i) = (First + i) - T * p
    BY Seq16Is
  <1>3. PICK q \in Int : Seq16(j) = (First + j) - T * q
    BY Seq16Is
  <1>4. Seq16(i) \in 0..(T - 1) /\ Seq16(j) \in 0..(T - 1)
    BY Seq16Is DEF Numbers
  <1>5. Seq16(i) - Seq16(j) = i - j + T * (q - p)
    BY <1>1, <1>2, <1>3
  <1> DEFINE m == q - p
             e == Seq16(i) - Seq16(j)
  <1>6. m \in Int /\ e \in Int /\ -T < e /\ e < T
    BY <1>4, <1>1
  <1>7. T * m = e - (i - j) /\ -(2 * T) < T * m /\ T * m < 2 * T
    BY <1>1, <1>5, <1>6
  <1>8. m = -1 \/ m = 0 \/ m = 1
    <2> HIDE DEF m, e
    <2>1. ASSUME m >= 2 PROVE FALSE
      <3>1. T * m >= T * 2
        BY <2>1, <1>1, <1>6
      <3>2. QED
        BY <3>1, <1>1, <1>6, <1>7
    <2>2. ASSUME m <= -2 PROVE FALSE
      <3>1. T * m <= T * (-2)
        BY <2>2, <1>1, <1>6
      <3>2. QED
        BY <3>1, <1>1, <1>6, <1>7
    <2>3. QED
      BY <2>1, <2>2, <1>6
  <1>9. QED
    BY <1>1, <1>5, <1>8

\* The comparison of two packets less than half the numbers apart.
LEMMA LaterIsAhead ==
    ASSUME First \in Nat, NEW i \in Nat, NEW j \in Nat, i - j < T \div 2, j - i < T \div 2
    PROVE  AheadOf(Seq16(i), Seq16(j)) <=> i > j
  <1> DEFINE a == Seq16(i)
             b == Seq16(j)
             h == T \div 2
  <1>1. T \in Nat /\ h \in Nat /\ T = 2 * h /\ T > 0
    BY HalfOfT
  <1>2. a \in 0..(T - 1) /\ b \in 0..(T - 1) /\ a \in Numbers /\ b \in Numbers
    BY Seq16Is DEF Numbers
  <1>3. a - b = i - j \/ a - b = i - j + T \/ a - b = i - j - T
    BY NumbersApart, <1>1
  <1>4. AheadOf(a, b) <=> \/ b < a /\ a - b <= h
                          \/ a < b /\ a - b + T < h
    BY <1>2, AheadOfLinear
  <1>5. QED
    <2> HIDE DEF a, b, h
    <2>1. i - j < h /\ j - i < h
      BY DEF h
    <2>2. (\/ b < a /\ a - b <= h
           \/ a < b /\ a - b + T < h) <=> i > j
      BY <1>1, <1>2, <1>3, <2>1
    <2>3. QED
      BY <1>4, <2>2 DEF a, b

\* In every reachable state the number of packets sent is a natural number and the
\* network is one of those the behaviours run on.
StreamOK == sent \in Nat /\ network \in Networks

\* It holds from the start, and no step sends less or changes the network.
LEMMA StreamAlwaysOK == Spec => []StreamOK
  <1>1. Init => StreamOK
    BY DEF Init, StreamOK
  <1>2. StreamOK /\ [Next]_vars => StreamOK'
    <2> SUFFICES ASSUME StreamOK, [Next]_vars
                 PROVE  sent' \in Nat /\ network' \in Networks
      BY DEF StreamOK
    <2> USE DEF StreamOK
    <2>1. CASE Send
      <3>1. sent' = sent + 1 /\ network' = network
        BY <2>1 DEF Send
      <3>2. QED
        BY <3>1
    <2>2. CASE OnNack
      BY <2>2 DEF OnNack
    <2>3. CASE Deliver
      BY <2>3 DEF Deliver
    <2>4. CASE ProcessNack
      BY <2>4 DEF ProcessNack
    <2>5. CASE Lose
      BY <2>5 DEF Lose
    <2>6. CASE UNCHANGED vars
      BY <2>6 DEF vars
    <2>7. QED
      BY <2>1, <2>2, <2>3, <2>4, <2>5, <2>6 DEF Next
  <1>3. QED
    BY <1>1, <1>2, PTL DEF Spec

\* ahead_of() tells which of two packets was sent later, whatever the width of the
\* sequence number, the first number and the length of the stream.
THEOREM OrderRecoveredAlways == Spec => []OrderRecovered
  <1>1. StreamOK => OrderRecovered
    <2> SUFFICES ASSUME StreamOK,
                        NEW i \in 0..(sent - 1), NEW j \in 0..(sent - 1),
                        i - j < T \div 2, j - i < T \div 2
                 PROVE  AheadOf(Seq16(i), Seq16(j)) <=> i > j
      BY DEF OrderRecovered
    <2>1. i \in Nat /\ j \in Nat /\ First \in Nat
      BY FirstIs DEF StreamOK
    <2>2. QED
      BY <2>1, LaterIsAhead
  <1>2. QED
    BY <1>1, StreamAlwaysOK, PTL

-----------------------------------------------------------------------------
(* Packets and the slots of recv_packs_                                    *)

\* A number has one quotient and one remainder.
LEMMA ModUnique ==
    ASSUME NEW n \in Nat, n > 0, NEW x \in Int, NEW q \in Int, NEW r \in 0..(n - 1), x = n * q + r
    PROVE  x % n = r
  <1> DEFINE p == x \div n
             y == x % n
             m == p - q
  <1>1. p \in Int /\ y \in 0..(n - 1) /\ x = n * p + y
    OBVIOUS
  <1> HIDE DEF p, y
  <1>2. m \in Int /\ n * m = r - y
    <2>1. n * p = n * q + r - y
      BY <1>1
    <2>2. n * (p - q) = n * p - n * q
      BY <1>1
    <2> QED
      BY <1>1, <2>1, <2>2
  <1>3. -n < n * m /\ n * m < n
    BY <1>1, <1>2
  <1>4. m = 0
    <2> HIDE DEF m
    <2>1. ASSUME m >= 1 PROVE FALSE
      <3>1. n * m >= n * 1
        BY <1>2, <2>1
      <3> QED
        BY <1>3, <3>1, <1>2
    <2>2. ASSUME m <= -1 PROVE FALSE
      <3>1. n * m <= n * (-1)
        BY <1>2, <2>2
      <3> QED
        BY <1>3, <3>1, <1>2
    <2> QED
      BY <1>2, <2>1, <2>2
  <1>5. y = r
    BY <1>1, <1>2, <1>4
  <1> QED
    BY <1>5 DEF y

\* Whole turns do not change a remainder.
LEMMA ModTurn ==
    ASSUME NEW n \in Nat, n > 0, NEW q \in Int, NEW y \in Int
    PROVE  (n * q + y) % n = y % n
  <1> DEFINE p == y \div n
             r == y % n
  <1>1. p \in Int /\ r \in 0..(n - 1) /\ y = n * p + r
    OBVIOUS
  <1> HIDE DEF p, r
  <1>2. n * (q + p) = n * q + n * p
    BY <1>1
  <1>3. n * q \in Int /\ n * p \in Int
    BY <1>1
  <1>4. n * q + y = n * (q + p) + r
    BY <1>1, <1>2, <1>3
  <1>5. (n * q + y) % n = r
    BY <1>1, <1>3, <1>4, ModUnique
  <1> QED
    BY <1>5 DEF r

\* The slot of packet k
Slot(k) == Seq16(k) % BufferSize

\* The number that is o after that of packet k is the number of packet k + o.
LEMMA Seq16Shift ==
    ASSUME First \in Nat, NEW k \in Nat, NEW o \in Nat
    PROVE  (Seq16(k) + o) % T = Seq16(k + o)
  <1>1. T \in Nat /\ T > 0 /\ First \in Nat
    BY HalfOfT
  <1>2. PICK q \in Int : Seq16(k) = (First + k) - T * q
    BY Seq16Is
  <1> DEFINE y == Seq16(k) + o
  <1>3. Seq16(k) \in Int /\ T * q \in Int
    BY <1>1, Seq16Is DEF Numbers
  <1>4. First + (k + o) = T * q + y
    BY <1>1, <1>2, <1>3
  <1>5. (T * q + y) % T = y % T
    <2>1. y \in Int
      BY <1>3
    <2> HIDE DEF y
    <2> QED
      BY <1>1, <2>1, ModTurn
  <1> QED
    BY <1>4, <1>5 DEF Seq16

\* T is a multiple of the buffer's size: the slot does not depend on the wraps.
LEMMA SlotIs ==
    ASSUME First \in Nat, NEW k \in Nat
    PROVE  Slot(k) = (First + k) % BufferSize
  <1>1. T \in Nat /\ T > 0 /\ First \in Nat /\ BufferSize \in Nat /\ BufferSize > 0
    BY HalfOfT, BufferAssumption
  <1>2. PICK q \in Int : Seq16(k) = (First + k) - T * q
    BY Seq16Is
  <1> DEFINE c == T \div BufferSize
  <1>3. c \in Int /\ T = BufferSize * c
    BY <1>1, BufferAssumption
  <1> HIDE DEF c
  <1>4. c * q \in Int /\ T * q = BufferSize * (c * q)
    BY <1>1, <1>3
  <1>5. Seq16(k) \in Int
    BY <1>1, Seq16Is DEF Numbers
  <1>6. First + k = BufferSize * (c * q) + Seq16(k)
    BY <1>1, <1>2, <1>4, <1>5
  <1> DEFINE d == c * q
  <1>7. d \in Int
    BY <1>4
  <1> HIDE DEF d
  <1>8. (BufferSize * d + Seq16(k)) % BufferSize = Seq16(k) % BufferSize
    BY <1>1, <1>5, <1>7, ModTurn
  <1> QED
    BY <1>6, <1>8 DEF Slot, d

\* A slot is one of the buffer.
LEMMA SlotInBuffer ==
    ASSUME First \in Nat, NEW k \in Nat
    PROVE  Slot(k) \in Slots
  <1>1. BufferSize \in Nat /\ BufferSize > 0 /\ First \in Nat
    BY BufferAssumption
  <1> DEFINE x == First + k
  <1>2. x \in Int
    BY <1>1
  <1>3. x % BufferSize \in 0..(BufferSize - 1)
    <2> HIDE DEF x
    <2> QED
      BY <1>1, <1>2
  <1> QED
    BY <1>3, SlotIs DEF Slots

\* Packets less than the buffer apart do not meet in a slot.
LEMMA SlotsDiffer ==
    ASSUME First \in Nat, NEW i \in Nat, NEW j \in Nat, i < j, j - i < BufferSize
    PROVE  Slot(i) # Slot(j)
  <1>1. BufferSize \in Nat /\ BufferSize > 0 /\ First \in Nat
    BY BufferAssumption
  <1> DEFINE x == First + i
             y == First + j
             p == x \div BufferSize
             q == y \div BufferSize
  <1>2. x \in Int /\ y \in Int /\ y - x = j - i
    BY <1>1
  <1>3. /\ p \in Int /\ x % BufferSize \in Int /\ x = BufferSize * p + (x % BufferSize)
        /\ q \in Int /\ y % BufferSize \in Int /\ y = BufferSize * q + (y % BufferSize)
    <2> HIDE DEF x, y
    <2> QED
      BY <1>1, <1>2
  <1> HIDE DEF p, q
  <1>4. SUFFICES ASSUME x % BufferSize = y % BufferSize PROVE FALSE
    BY SlotIs
  <1>5. BufferSize * q - BufferSize * p = j - i
    <2>1. BufferSize * q \in Int /\ BufferSize * p \in Int
      BY <1>1, <1>3
    <2> HIDE DEF x, y
    <2> QED
      BY <1>2, <1>3, <1>4, <2>1
  <1> DEFINE m == q - p
  <1>6. m \in Int /\ BufferSize * m = j - i
    <2>1. BufferSize * (q - p) = BufferSize * q - BufferSize * p
      BY <1>1, <1>3
    <2> QED
      BY <1>3, <1>5, <2>1
  <1> HIDE DEF m
  <1>7. m >= 1
    <2>1. ASSUME m <= 0 PROVE FALSE
      <3>1. BufferSize * m <= BufferSize * 0
        BY <1>1, <1>6, <2>1
      <3> QED
        BY <1>1, <1>6, <3>1
    <2> QED
      BY <1>6, <2>1
  <1>8. BufferSize * m >= BufferSize * 1
    BY <1>1, <1>6, <1>7
  <1> QED
    BY <1>1, <1>6, <1>8

\* A slot comes again after a turn of the buffer.
LEMMA SlotAgain ==
    ASSUME First \in Nat, NEW k \in Nat
    PROVE  Slot(k + BufferSize) = Slot(k)
  <1>1. BufferSize \in Nat /\ BufferSize > 0 /\ First \in Nat
    BY BufferAssumption
  <1> DEFINE y == First + k
             turns == 1
  <1>2. First + (k + BufferSize) = BufferSize * turns + y
    BY <1>1
  <1>3. (BufferSize * turns + y) % BufferSize = y % BufferSize
    <2>1. y \in Int /\ turns \in Int
      BY <1>1
    <2> HIDE DEF y, turns
    <2> QED
      BY <1>1, <2>1, ModTurn
  <1>4. Slot(k) = y % BufferSize
    BY SlotIs
  <1>5. Slot(k + BufferSize) = (First + (k + BufferSize)) % BufferSize
    <2>1. k + BufferSize \in Nat
      BY <1>1
    <2> QED
      BY <2>1, SlotIs
  <1> QED
    BY <1>2, <1>3, <1>4, <1>5

\* forward_diff() between two packets less than a turn apart
LEMMA PacketsApart ==
    ASSUME First \in Nat, NEW i \in Nat, NEW j \in Nat, i <= j, j - i < T
    PROVE  ForwardDiff(Seq16(i), Seq16(j)) = j - i
  <1>1. T \in Nat /\ T > 0
    BY HalfOfT
  <1>2. Seq16(i) \in Numbers /\ Seq16(j) \in Numbers
    BY Seq16Is
  <1>3. \/ Seq16(j) - Seq16(i) = j - i
        \/ Seq16(j) - Seq16(i) = j - i + T
        \/ Seq16(j) - Seq16(i) = j - i - T
    BY NumbersApart, <1>1
  <1>4. ForwardDiff(Seq16(i), Seq16(j)) =
          IF Seq16(i) <= Seq16(j) THEN Seq16(j) - Seq16(i) ELSE Seq16(j) - Seq16(i) + T
    BY <1>2, ForwardDiffIs
  <1> QED
    BY <1>1, <1>2, <1>3, <1>4 DEF Numbers

\* The test "packet buffer is empty or full" does not fire while fewer than half the
\* slots are waited for, wherever the two numbers lie.
LEMMA NotFull ==
    ASSUME First \in Nat, NEW i \in Nat, NEW j \in Nat, i <= j, 2 * (j - i) < BufferSize
    PROVE  ~Overflows(Seq16(i), Seq16(j))
  <1> DEFINE a == Seq16(i)
             b == Seq16(j)
             d == j - i
             h == BufferSize \div 2
  <1>1. T \in Nat /\ T > 0 /\ BufferSize \in Nat /\ BufferSize > 0 /\ BufferSize <= T
    <2>1. T \in Nat /\ T > 0 /\ BufferSize \in Nat /\ BufferSize > 0 /\ T % BufferSize = 0
      BY HalfOfT, BufferAssumption
    <2>2. ASSUME T < BufferSize PROVE FALSE
      BY <2>1, <2>2, ModSmall
    <2> QED
      BY <2>1, <2>2
  <1>2. a \in Int /\ b \in Int /\ 0 <= a /\ a < T /\ 0 <= b /\ b < T
    BY Seq16Is, <1>1 DEF Numbers
  <1>3. b - a = d \/ b - a = d + T \/ b - a = d - T
    BY NumbersApart, <1>1
  <1>4. d \in Nat /\ 2 * d < BufferSize /\ h \in Nat /\ d <= h /\ (BufferSize % 2 = 0 => d < h)
        /\ 2 * h <= BufferSize
    BY <1>1
  <1> HIDE DEF a, b, d, h
  <1>5. b - a = d \/ b - a = d - T
    BY <1>1, <1>2, <1>3, <1>4
  <1>6. CASE a = b
    BY <1>6 DEF Overflows, AheadOfMod, a, b
  <1>7. CASE a < b
    <2>1. b - a = d /\ d > 0
      BY <1>1, <1>2, <1>4, <1>5, <1>7
    <2>2. ForwardDiffMod(b, a, BufferSize) = BufferSize - d
      <3>1. (BufferSize - d) % T = BufferSize - d
        BY <1>1, <1>4, <2>1, ModSmall
      <3> QED
        BY <1>2, <1>7, <2>1, <3>1 DEF ForwardDiffMod
    <2>3. BufferSize - d > h
      BY <1>1, <1>4, <2>1
    <2>4. ~(b < a)
      BY <1>2, <1>7
    <2>5. ~(ForwardDiffMod(b, a, BufferSize) <= h)
      BY <1>1, <1>4, <2>2, <2>3
    <2> QED
      BY <2>4, <2>5 DEF Overflows, AheadOfMod, AheadOrAtMod, a, b, h
  <1>8. CASE b < a
    <2>1. b - a = d - T
      BY <1>1, <1>2, <1>4, <1>5, <1>8
    <2>2. ForwardDiffMod(b, a, BufferSize) = T - d
      <3>1. (a - b) % T = a - b
        BY <1>1, <1>2, <1>8, ModSmall
      <3> QED
        BY <1>1, <1>2, <1>4, <1>8, <2>1, <3>1 DEF ForwardDiffMod
    <2>3. T - d > h
      BY <1>1, <1>4
    <2>4. MinDiffMod(a, b, BufferSize) # h \/ BufferSize % 2 # 0
      <3>1. ReverseDiffMod(a, b, BufferSize) = T - d
        <4>1. (a - b) % T = a - b
          BY <1>1, <1>2, <1>8, ModSmall
        <4> QED
          BY <1>1, <1>2, <1>4, <1>8, <2>1, <4>1 DEF ReverseDiffMod
      <3>2. ForwardDiffMod(a, b, BufferSize) = (BufferSize - (T - d)) % T
        BY <1>1, <1>2, <1>4, <1>8, <2>1 DEF ForwardDiffMod
      <3>3. CASE BufferSize = T
        <4>1. (BufferSize - (T - d)) % T = d
          BY <1>1, <1>4, <3>3, ModSmall
        <4> QED
          BY <1>1, <1>4, <2>3, <3>1, <3>2, <4>1 DEF MinDiffMod
      <3>4. CASE BufferSize < T
        <4>1. 2 * BufferSize <= T
          <5> DEFINE c == T \div BufferSize
          <5>1. c \in Int /\ T = BufferSize * c
            BY <1>1, BufferAssumption
          <5> HIDE DEF c
          <5>2. c >= 2
            <6>1. ASSUME c <= 1 PROVE FALSE
              <7>1. BufferSize * c <= BufferSize * 1
                BY <1>1, <5>1, <6>1
              <7> QED
                BY <1>1, <3>4, <5>1, <7>1
            <6> QED
              BY <5>1, <6>1
          <5>3. BufferSize * c >= BufferSize * 2
            BY <1>1, <5>1, <5>2
          <5> QED
            BY <1>1, <5>1, <5>3
        <4>2. (BufferSize - (T - d)) % T = BufferSize + d
          <5>1. -T <= BufferSize - (T - d) /\ BufferSize - (T - d) < 0 /\ BufferSize - (T - d) \in Int
            BY <1>1, <1>4, <3>4, <4>1
          <5>2. (BufferSize - (T - d)) % T = BufferSize - (T - d) + T
            BY <1>1, <5>1, ModNegative
          <5> QED
            BY <1>1, <1>4, <5>2
        <4> QED
          BY <1>1, <1>4, <2>3, <3>1, <3>2, <4>2 DEF MinDiffMod
      <3> QED
        BY <1>1, <3>3, <3>4
    <2>5. ~(ForwardDiffMod(b, a, BufferSize) <= h)
      BY <1>1, <1>4, <2>2, <2>3
    <2> QED
      BY <2>4, <2>5 DEF Overflows, AheadOfMod, AheadOrAtMod, a, b, h
  <1> QED
    BY <1>2, <1>6, <1>7, <1>8

-----------------------------------------------------------------------------
(* find_a_frame() on a buffer in which packets d, d + 1, ... are looked up *)

\* The relation "less than" on the natural numbers
Less == {p \in Nat \X Nat : p[1] < p[2]}

\* Min() is the least element of a set of natural numbers.
LEMMA MinIsLeast ==
    ASSUME NEW S \in SUBSET Nat, S # {}
    PROVE  Min(S) \in S /\ \A y \in S : Min(S) <= y
  <1>1. IsWellFoundedOn(Less, Nat)
    BY NatLessThanWellFounded DEF Less, OpToRel
  <1>2. PICK x \in S : \A y \in S : ~(<<y, x>> \in Less)
    BY <1>1, WFMin
  <1>3. ASSUME NEW y \in S PROVE x <= y
    <2>1. x \in Nat /\ y \in Nat /\ ~(<<y, x>> \in Less)
      BY <1>2
    <2>2. y < x => <<y, x>> \in Less
      BY <2>1 DEF Less
    <2> QED
      BY <2>1, <2>2
  <1> QED
    BY <1>3 DEF Min

\* From packet d on, the buffer has those of R and nothing else.
Holds(buffer, d, R) ==
    \A k \in d..(d + BufferSize - 1) : buffer[Slot(k)] = IF k \in R THEN k ELSE None

\* Whether the loop finds something o numbers after packet d
LEMMA FilledIs ==
    ASSUME First \in Nat, NEW d \in Nat, NEW R \in SUBSET Nat, NEW buffer,
           Holds(buffer, d, R), NEW o \in 0..(BufferSize - 1)
    PROVE  /\ buffer[((Seq16(d) + o) % T) % BufferSize] = IF d + o \in R THEN d + o ELSE None
           /\ Filled(buffer, Seq16(d), o) <=> d + o \in R
  <1>1. BufferSize \in Nat /\ BufferSize > 0
    BY BufferAssumption
  <1>2. ((Seq16(d) + o) % T) % BufferSize = Slot(d + o)
    BY <1>1, Seq16Shift DEF Slot
  <1>3. d + o \in d..(d + BufferSize - 1)
    BY <1>1
  <1>4. buffer[Slot(d + o)] = IF d + o \in R THEN d + o ELSE None
    BY <1>3 DEF Holds
  <1>5. d + o # None
    BY DEF None
  <1> QED
    BY <1>1, <1>2, <1>4, <1>5 DEF Filled

\* Without a timeout the loop passes over the packets that have come without a gap.
LEMMA PassedIs ==
    ASSUME First \in Nat, NEW d \in Nat, NEW m \in Nat, d <= m, 2 * (m - d) < BufferSize,
           NEW R \in SUBSET Nat, m \in R, \A k \in R : k <= m,
           NEW buffer, Holds(buffer, d, R)
    PROVE  LET n == Passed(buffer, Seq16(d), Seq16(m), FALSE)
           IN /\ n \in Nat /\ n <= m - d + 1
              /\ d + n \notin R
              /\ \A o \in 0..(n - 1) : d + o \in R
  <1> DEFINE gaps == {o \in 0..(m - d) : ~Filled(buffer, Seq16(d), o)}
             n == Passed(buffer, Seq16(d), Seq16(m), FALSE)
  <1>1. T \in Nat /\ BufferSize \in Nat /\ BufferSize > 0 /\ BufferSize <= T
    <2>1. T \in Nat /\ T > 0 /\ BufferSize \in Nat /\ BufferSize > 0 /\ T % BufferSize = 0
      BY HalfOfT, BufferAssumption
    <2>2. ASSUME T < BufferSize PROVE FALSE
      BY <2>1, <2>2, ModSmall
    <2> QED
      BY <2>1, <2>2
  <1>2. ForwardDiff(Seq16(d), Seq16(m)) = m - d
    BY <1>1, PacketsApart
  <1>3. ~AheadOf(Seq16(d), Seq16(m))
    <2>1. d - m < T \div 2 /\ m - d < T \div 2 /\ ~(d > m)
      BY <1>1, HalfOfT
    <2> QED
      BY <2>1, LaterIsAhead
  <1>4. n = IF gaps = {} THEN m - d + 1 ELSE Min(gaps)
    BY <1>2, <1>3 DEF Passed
  <1>5. \A o \in 0..(m - d) : Filled(buffer, Seq16(d), o) <=> d + o \in R
    <2>1. \A o \in 0..(m - d) : o \in 0..(BufferSize - 1)
      BY <1>1
    <2> QED
      BY <2>1, FilledIs
  <1>6. CASE gaps = {}
    <2>1. n = m - d + 1 /\ \A o \in 0..(m - d) : d + o \in R
      BY <1>4, <1>5, <1>6
    <2> HIDE DEF n, gaps
    <2>2. n \in Nat /\ n <= m - d + 1 /\ d + n = m + 1 /\ n - 1 = m - d
      BY <2>1
    <2>3. d + n \notin R
      BY <2>2
    <2>4. \A o \in 0..(n - 1) : d + o \in R
      BY <2>1, <2>2
    <2> QED
      BY <2>2, <2>3, <2>4 DEF n
  <1>7. CASE gaps # {}
    <2>1. gaps \in SUBSET Nat
      OBVIOUS
    <2>2. n \in gaps /\ \A o \in gaps : n <= o
      <3>1. n = Min(gaps)
        BY <1>4, <1>7
      <3> HIDE DEF gaps, n
      <3> QED
        BY <1>7, <2>1, <3>1, MinIsLeast
    <2> HIDE DEF n
    <2>3. n \in 0..(m - d) /\ d + n \notin R
      BY <1>5, <2>2
    <2>4. ASSUME NEW o \in 0..(n - 1) PROVE d + o \in R
      <3>1. o \in 0..(m - d) /\ ~(n <= o)
        BY <2>3
      <3>2. o \notin gaps
        BY <2>2, <3>1
      <3> QED
        BY <1>5, <3>1, <3>2
    <2>5. n \in Nat /\ n <= m - d + 1
      BY <2>3
    <2> QED
      BY <2>3, <2>4, <2>5 DEF n
  <1> QED
    BY <1>6, <1>7

\* What is handed up when the n packets from d on are there
LEMMA FramesAre ==
    ASSUME First \in Nat, NEW d \in Nat, NEW n \in Nat, n <= BufferSize,
           NEW R \in SUBSET Nat, NEW buffer, Holds(buffer, d, R),
           \A o \in 0..(n - 1) : d + o \in R
    PROVE  Frames(buffer, Seq16(d), n) = [i \in 1..n |-> d + (i - 1)]
  <1> DEFINE b == Seq16(d)
             offsets == {o \in 0..(n - 1) : Filled(buffer, b, o)}
             nth(i) == CHOOSE o \in offsets : Cardinality({x \in offsets : x < o}) = i - 1
  <1>1. BufferSize \in Nat
    BY BufferAssumption
  <1>2. \A o \in 0..(n - 1) : o \in 0..(BufferSize - 1)
    BY <1>1
  <1>3. \A o \in 0..(n - 1) : /\ Filled(buffer, b, o)
                              /\ buffer[((b + o) % T) % BufferSize] = d + o
    BY <1>2, FilledIs
  <1>4. offsets = 0..(n - 1)
    BY <1>3
  <1>5. Cardinality(offsets) = n
    <2>1. Cardinality(0..(n - 1)) = IF 0 > n - 1 THEN 0 ELSE (n - 1) - 0 + 1
      BY FS_Interval
    <2> HIDE DEF offsets
    <2> QED
      BY <1>4, <2>1
  <1>6. ASSUME NEW o \in 0..(n - 1) PROVE Cardinality({x \in offsets : x < o}) = o
    <2> DEFINE S == {x \in offsets : x < o}
    <2>1. S = 0..(o - 1)
      BY <1>4
    <2>2. Cardinality(0..(o - 1)) = IF 0 > o - 1 THEN 0 ELSE (o - 1) - 0 + 1
      BY FS_Interval
    <2> HIDE DEF S, offsets
    <2>3. Cardinality(S) = o
      BY <2>1, <2>2
    <2> QED
      BY <2>3 DEF S
  <1>7. ASSUME NEW i \in 1..n PROVE nth(i) = i - 1
    <2> HIDE DEF offsets
    <2>1. i - 1 \in offsets /\ Cardinality({x \in offsets : x < i - 1}) = i - 1
      BY <1>4, <1>6
    <2>2. \A o \in offsets : Cardinality({x \in offsets : x < o}) = i - 1 => o = i - 1
      BY <1>4, <1>6
    <2> QED
      BY <2>1, <2>2
  <1>8. Frames(buffer, b, n) = [i \in 1..n |-> buffer[((b + nth(i)) % T) % BufferSize]]
    BY <1>5 DEF Frames
  <1> HIDE DEF nth, b, offsets
  <1>9. \A i \in 1..n : buffer[((b + nth(i)) % T) % BufferSize] = d + (i - 1)
    <2>1. \A i \in 1..n : i - 1 \in 0..(n - 1)
      OBVIOUS
    <2> QED
      BY <1>3, <1>7, <2>1
  <1> QED
    BY <1>8, <1>9 DEF b

\* The buffer after the loop has passed over n numbers from b on
Emptied(buffer, b, n) ==
    LET passed == {((b + o) % T) % BufferSize : o \in 0..(n - 1)}
    IN [i \in Slots |-> IF i \in passed THEN None ELSE buffer[i]]

\* Emptying the slots of those n packets leaves the buffer as it should be for d + n.
LEMMA EmptiedHolds ==
    ASSUME First \in Nat, NEW d \in Nat, NEW m \in Nat, d <= m, 2 * (m - d) < BufferSize,
           NEW n \in Nat, n <= m - d + 1,
           NEW R \in SUBSET Nat, \A k \in R : k <= m, NEW buffer, Holds(buffer, d, R)
    PROVE  Holds(Emptied(buffer, Seq16(d), n), d + n, R)
  <1> DEFINE passed == {((Seq16(d) + o) % T) % BufferSize : o \in 0..(n - 1)}
             new == [i \in Slots |-> IF i \in passed THEN None ELSE buffer[i]]
  <1>1. BufferSize \in Nat /\ BufferSize > 0
    BY BufferAssumption
  <1>2. \A o \in 0..(n - 1) : ((Seq16(d) + o) % T) % BufferSize = Slot(d + o)
    BY Seq16Shift DEF Slot
  <1>3. passed = {Slot(d + o) : o \in 0..(n - 1)}
    BY <1>2
  <1> SUFFICES ASSUME NEW k \in (d + n)..(d + n + BufferSize - 1)
               PROVE  new[Slot(k)] = IF k \in R THEN k ELSE None
    BY DEF Holds, Emptied
  <1>4. k \in Nat /\ Slot(k) \in Slots
    BY <1>1, SlotInBuffer
  <1>5. new[Slot(k)] = IF Slot(k) \in passed THEN None ELSE buffer[Slot(k)]
    BY <1>4
  <1>6. CASE k < d + BufferSize
    <2>1. Slot(k) \notin passed
      <3> SUFFICES ASSUME NEW o \in 0..(n - 1) PROVE Slot(k) # Slot(d + o)
        BY <1>3
      <3>1. d + o \in Nat /\ d + o < k /\ k - (d + o) < BufferSize
        BY <1>1, <1>6
      <3> QED
        BY <1>4, <3>1, SlotsDiffer
    <2>2. k \in d..(d + BufferSize - 1)
      BY <1>1, <1>6
    <2> HIDE DEF new, passed
    <2> QED
      BY <1>5, <2>1, <2>2 DEF Holds
  <1>7. CASE k >= d + BufferSize
    <2> DEFINE o == k - BufferSize - d
    <2>1. o \in 0..(n - 1) /\ k = (d + o) + BufferSize /\ d + o \in Nat
      BY <1>1, <1>7
    <2>2. Slot(k) = Slot(d + o)
      <3> HIDE DEF o
      <3> QED
        BY <2>1, SlotAgain
    <2>3. Slot(k) \in passed
      <3> HIDE DEF o
      <3> QED
        BY <1>3, <2>1, <2>2
    <2>4. k \notin R
      <3>1. k > m
        BY <1>1, <1>7
      <3> QED
        BY <1>4, <3>1
    <2> HIDE DEF new, passed
    <2> QED
      BY <1>5, <2>3, <2>4
  <1> QED
    BY <1>1, <1>4, <1>6, <1>7

-----------------------------------------------------------------------------
(* Reordering.  A network that loses nothing and lets a packet be overtaken *)
(* by fewer others than half the buffer has slots.                          *)

Calm(n) == n.losses = 0 /\ ~n.silences /\ ~n.answers /\ 2 * n.window < BufferSize

Played == Len(delivered)

\* m is the latest packet that has come, and not too far ahead of what is waited for.
Latest(m) ==
    /\ \A k \in received : k <= m
    /\ end = Seq16(m)
    /\ Played - 1 <= m /\ m - Played < network.window

\* The packets before number Played have been handed up, one after the other; that one
\* has not come, and later ones that have are in their slots.
PlayInv ==
    /\ received \in SUBSET Nat /\ delivered \in Seq(Nat)
    /\ \A i \in 1..Played : delivered[i] = i - 1
    /\ Played \notin received /\ \A k \in 0..(Played - 1) : k \in received
    /\ packs \in [Slots -> Int]
    /\ received = {} => reset
    /\ received # {} =>
         /\ ~reset /\ begin = Seq16(Played)
         /\ Holds(packs, Played, received)
         /\ \E m \in received : Latest(m)

\* t is s followed by u.
Joined(t, s, u) == t = s \o u

\* t has the d elements of s and then the n elements of u.
Parts(X, t, s, u, d, n) ==
    /\ t \in Seq(X) /\ Len(t) = d + n
    /\ \A i \in 1..(d + n) : t[i] = IF i <= d THEN s[i] ELSE u[i - d]

\* What two sequences put together have in their places
LEMMA ConcatIs ==
    ASSUME NEW X, NEW s \in Seq(X), NEW u \in Seq(X), NEW t, Joined(t, s, u),
           NEW d \in Nat, NEW n \in Nat, Len(s) = d, Len(u) = n
    PROVE  Parts(X, t, s, u, d, n)
  <1> DEFINE c == s \o u
  <1>1. /\ c \in Seq(X) /\ Len(c) = Len(s) + Len(u)
        /\ \A i \in 1..(Len(s) + Len(u)) : c[i] = IF i <= Len(s) THEN s[i] ELSE u[i - Len(s)]
    BY ConcatProperties
  <1>2. t = c
    BY DEF Joined
  <1> HIDE DEF c
  <1>3. t \in Seq(X) /\ Len(t) = d + n
    BY <1>1, <1>2
  <1>4. ASSUME NEW i \in 1..(d + n) PROVE t[i] = IF i <= d THEN s[i] ELSE u[i - d]
    BY <1>1, <1>2
  <1> QED
    BY <1>3, <1>4 DEF Parts

\* s is the run of numbers 0, 1, ... up to d - 1.
Run(s, d) == s \in Seq(Nat) /\ Len(s) = d /\ \A i \in 1..d : s[i] = i - 1

\* t is s followed by the n numbers from d on.
Extends(t, s, d, n) == t = s \o [i \in 1..n |-> d + (i - 1)]

\* A run goes on where it ended.
LEMMA RunsJoin ==
    ASSUME NEW s, NEW d \in Nat, Run(s, d), NEW n \in Nat,
           NEW t, Extends(t, s, d, n)
    PROVE  Run(t, d + n)
  <1> DEFINE u == [i \in 1..n |-> d + (i - 1)]
  <1>1. u \in Seq(Nat) /\ Len(u) = n /\ \A i \in 1..n : u[i] = d + (i - 1)
    <2>1. u \in [1..n -> Nat]
      OBVIOUS
    <2> QED
      BY <2>1
  <1>2. Joined(t, s, u)
    BY DEF Extends, Joined
  <1> HIDE DEF u
  <1>3. s \in Seq(Nat) /\ Len(s) = d /\ \A i \in 1..d : s[i] = i - 1
    BY DEF Run
  <1>4. /\ t \in Seq(Nat) /\ Len(t) = d + n
        /\ \A i \in 1..(d + n) : t[i] = IF i <= d THEN s[i] ELSE u[i - d]
    <2>1. Parts(Nat, t, s, u, d, n)
      BY <1>1, <1>2, <1>3, ConcatIs, Zenon
    <2> QED
      BY <2>1 DEF Parts
  <1>5. ASSUME NEW i \in 1..(d + n) PROVE t[i] = i - 1
    <2>1. t[i] = IF i <= d THEN s[i] ELSE u[i - d]
      BY <1>4
    <2>2. CASE i <= d
      <3>1. i \in 1..d
        BY <2>2
      <3> QED
        BY <1>3, <2>1, <2>2, <3>1
    <2>3. CASE i > d
      <3>1. i - d \in 1..n /\ ~(i <= d)
        BY <2>3
      <3>2. u[i - d] = d + ((i - d) - 1)
        BY <1>1, <3>1
      <3>3. d + ((i - d) - 1) = i - 1
        OBVIOUS
      <3> QED
        BY <2>1, <3>1, <3>2, <3>3
    <2> QED
      BY <2>2, <2>3
  <1> QED
    BY <1>4, <1>5 DEF Run

\* The second half of insert_packet(), when packet k is in its slot: the search
LEMMA SearchStep ==
    ASSUME network \in Networks, First \in Nat, Calm(network), network' = network, PlayInv,
           NEW m \in Nat, NEW R \in SUBSET Nat, NEW buffer \in [Slots -> Int],
           m \in R, \A k \in R : k <= m, Played <= m, m - Played < network.window,
           \A k \in 0..(Played - 1) : k \in R,
           Holds(buffer, Played, R),
           reset' = FALSE, end' = Seq16(m), received' = R,
           LET n == Passed(buffer, Seq16(Played), Seq16(m), FALSE)
           IN /\ begin' = (Seq16(Played) + n) % T
              /\ packs' = Emptied(buffer, Seq16(Played), n)
              /\ delivered' = delivered \o Frames(buffer, Seq16(Played), n)
    PROVE  PlayInv'
  <1> DEFINE n == Passed(buffer, Seq16(Played), Seq16(m), FALSE)
  <1>1. Played \in Nat /\ delivered \in Seq(Nat) /\ Len(delivered) = Played
        /\ BufferSize \in Nat /\ network.window \in Nat /\ 2 * network.window < BufferSize
    BY BufferAssumption, StreamAssumption DEF PlayInv, Played, Network, Calm
  <1>2. 2 * (m - Played) < BufferSize
    BY <1>1
  <1>3. n \in Nat /\ n <= m - Played + 1 /\ Played + n \notin R /\ \A o \in 0..(n - 1) : Played + o \in R
    BY <1>1, <1>2, PassedIs
  <1>4. /\ begin' = (Seq16(Played) + n) % T /\ packs' = Emptied(buffer, Seq16(Played), n)
        /\ delivered' = delivered \o Frames(buffer, Seq16(Played), n)
    OBVIOUS
  <1> DEFINE d == Played
  <1> HIDE DEF n
  <1>5. n <= BufferSize
    BY <1>1, <1>2, <1>3
  <1>6. Frames(buffer, Seq16(d), n) = [i \in 1..n |-> d + (i - 1)]
    BY <1>1, <1>3, <1>5, FramesAre
  <1>7. Holds(packs', d + n, R)
    BY <1>1, <1>2, <1>3, <1>4, EmptiedHolds
  <1>8. begin' = Seq16(d + n)
    BY <1>1, <1>3, <1>4, Seq16Shift
  <1>9. packs' \in [Slots -> Int]
    <2> DEFINE passed == {((Seq16(Played) + o) % T) % BufferSize : o \in 0..(n - 1)}
    <2>1. packs' = [i \in Slots |-> IF i \in passed THEN None ELSE buffer[i]]
      BY <1>4 DEF Emptied
    <2> HIDE DEF passed
    <2>2. None \in Int
      BY DEF None
    <2> QED
      BY <2>1, <2>2
  <1>10. /\ delivered' \in Seq(Nat) /\ Len(delivered') = d + n
         /\ \A i \in 1..(d + n) : delivered'[i] = i - 1
    <2>1. \A i \in 1..d : delivered[i] = i - 1
      BY DEF PlayInv
    <2>2. delivered' = delivered \o [i \in 1..n |-> d + (i - 1)]
      BY <1>4, <1>6
    <2>3. d \in Nat /\ Len(delivered) = d
      BY <1>1
    <2> HIDE DEF d
    <2>4. Run(delivered, d)
      BY <1>1, <2>1, <2>3 DEF Run
    <2>5. Extends(delivered', delivered, d, n)
      BY <2>2 DEF Extends
    <2>6. Run(delivered', d + n)
      BY <1>3, <2>3, <2>4, <2>5, RunsJoin
    <2> QED
      BY <2>6 DEF Run
  <1>11. \A k \in 0..(d + n - 1) : k \in R
    <2> SUFFICES ASSUME NEW k \in 0..(d + n - 1), k >= d PROVE k \in R
      BY <1>1, <1>3
    <2>1. k - d \in 0..(n - 1) /\ k = d + (k - d)
      BY <1>1, <1>3
    <2> QED
      BY <1>3, <2>1
  <1>12. Played' = d + n
    BY <1>10 DEF Played
  <1>13. (d + n) - 1 <= m /\ m - (d + n) < network.window
    BY <1>1, <1>3
  <1>14. /\ received' \in SUBSET Nat /\ m \in received' /\ Played' \notin received'
         /\ \A k \in 0..(Played' - 1) : k \in received'
    <2>1. received' = R
      OBVIOUS
    <2>2. Played' \notin R
      BY <1>3, <1>12
    <2>3. \A k \in 0..(Played' - 1) : k \in R
      <3> SUFFICES ASSUME NEW k \in 0..(Played' - 1) PROVE k \in R
        OBVIOUS
      <3>1. k \in 0..(d + n - 1)
        BY <1>1, <1>3, <1>12
      <3> QED
        BY <1>11, <3>1
    <2> QED
      BY <2>1, <2>2, <2>3
  <1>15. \A k : Seq16(k)' = Seq16(k) /\ Slot(k)' = Slot(k)
    BY DEF Seq16, First, Slot
  <1> HIDE DEF d
  <1>16. Latest(m)'
    BY <1>12, <1>13, <1>15 DEF Latest
  <1>17. Holds(packs, Played, received)'
    BY <1>7, <1>12, <1>15 DEF Holds
  <1>18. begin' = Seq16(Played)'
    BY <1>8, <1>12, <1>15
  <1>19. \A i \in 1..Played' : delivered'[i] = i - 1
    BY <1>10, <1>12
  <1> QED
    BY <1>9, <1>10, <1>16, <1>17, <1>14, <1>18, <1>19 DEF PlayInv

\* A packet put into its slot
LEMMA StoredHolds ==
    ASSUME First \in Nat, NEW d \in Nat, NEW k \in Nat, d <= k, k - d < BufferSize,
           NEW R \in SUBSET Nat, NEW old \in [Slots -> Int], Holds(old, d, R)
    PROVE  LET new == [old EXCEPT ![Slot(k)] = k]
           IN new \in [Slots -> Int] /\ Holds(new, d, R \union {k})
  <1> DEFINE new == [old EXCEPT ![Slot(k)] = k]
  <1>1. BufferSize \in Nat /\ Slot(k) \in Slots
    BY BufferAssumption, SlotInBuffer
  <1>2. new \in [Slots -> Int] /\ \A i \in Slots : new[i] = IF i = Slot(k) THEN k ELSE old[i]
    BY <1>1
  <1> HIDE DEF new
  <1>3. ASSUME NEW j \in d..(d + BufferSize - 1)
        PROVE  new[Slot(j)] = IF j \in R \union {k} THEN j ELSE None
    <2>1. j \in Nat /\ Slot(j) \in Slots
      BY <1>1, SlotInBuffer
    <2>2. CASE j = k
      BY <1>2, <2>1, <2>2
    <2>3. CASE j # k
      <3>1. Slot(j) # Slot(k)
        <4>1. CASE j < k
          BY <1>1, <2>1, <4>1, SlotsDiffer
        <4>2. CASE k < j
          BY <1>1, <2>1, <4>2, SlotsDiffer
        <4> QED
          BY <2>1, <2>3, <4>1, <4>2
      <3>2. old[Slot(j)] = IF j \in R THEN j ELSE None
        BY DEF Holds
      <3> QED
        BY <1>2, <2>1, <2>3, <3>1, <3>2
    <2> QED
      BY <2>2, <2>3
  <1>4. Holds(new, d, R \union {k})
    BY <1>3 DEF Holds
  <1> QED
    BY <1>2, <1>4 DEF new

\* insert_packet() of a packet that has not come before and is not far ahead
LEMMA InsertStep ==
    ASSUME network \in Networks, First \in Nat, Calm(network), network' = network, PlayInv,
           NEW k \in Nat, k \notin received, Played <= k, k - Played < network.window,
           received = {} => k = Played, Insert(k, FALSE)
    PROVE  PlayInv'
  <1> DEFINE seq == Seq16(k)
             restart == reset \/ AheadOf(begin % T, seq)
             b0 == IF restart THEN seq ELSE begin
             e0 == IF restart THEN seq ELSE end
             old == IF restart THEN EmptyBuffer ELSE packs
             buffer == [old EXCEPT ![Slot(k)] = k]
             e1 == IF AheadOf(e0, seq) THEN e0 ELSE seq
             b1 == IF Overflows(b0, e1) THEN e1 ELSE b0
             n == Passed(buffer, b1, e1, FALSE)
             R == received \union {k}
  <1>1. /\ reset' = FALSE /\ end' = e1 /\ begin' = (b1 + n) % T
        /\ packs' = Emptied(buffer, b1, n)
        /\ delivered' = delivered \o Frames(buffer, b1, n)
        /\ received' = R
    <2> DEFINE n0 == Passed(buffer, b1, e1, FALSE /\ ~restart)
    <2>1. /\ reset' = FALSE /\ end' = e1 /\ begin' = (b1 + n0) % T
          /\ packs' = Emptied(buffer, b1, n0)
          /\ delivered' = delivered \o Frames(buffer, b1, n0)
          /\ received' = R
      BY DEF Insert, Emptied, Slot
    <2>2. n0 = n
      <3> HIDE DEF restart, b1, e1, buffer
      <3> QED
        BY DEF Passed
    <2> HIDE DEF n0, n, restart, b1, e1, buffer, R
    <2> QED
      BY <2>1, <2>2
  <1>2. /\ Played \in Nat /\ received \in SUBSET Nat /\ packs \in [Slots -> Int]
        /\ \A j \in 0..(Played - 1) : j \in received
    BY DEF PlayInv, Played
  <1>3. /\ BufferSize \in Nat /\ BufferSize <= T /\ T \in Nat
        /\ network.window \in Nat /\ network.window > 0 /\ 2 * network.window < BufferSize
    <2>1. T \in Nat /\ T > 0 /\ BufferSize \in Nat /\ BufferSize > 0 /\ T % BufferSize = 0
      BY HalfOfT, BufferAssumption
    <2>2. ASSUME T < BufferSize PROVE FALSE
      BY <2>1, <2>2, ModSmall
    <2> QED
      BY <2>1, <2>2, StreamAssumption DEF Network, Calm
  <1>4. \E m \in R : /\ \A j \in R : j <= m
                     /\ Played <= m /\ m - Played < network.window
                     /\ b0 = Seq16(Played) /\ e1 = Seq16(m)
                     /\ old \in [Slots -> Int] /\ Holds(old, Played, received)
    <2>1. CASE received = {}
      <3>1. reset /\ k = Played /\ Played \notin received
        BY <2>1 DEF PlayInv
      <3>2. b0 = seq /\ e0 = seq /\ old = EmptyBuffer /\ e1 = seq
        BY <3>1 DEF AheadOf
      <3>3. old \in [Slots -> Int]
        BY <3>2 DEF EmptyBuffer, None
      <3>4. Holds(EmptyBuffer, Played, received)
        <4>1. \A j \in Played..(Played + BufferSize - 1) : Slot(j) \in Slots
          BY <1>2, <1>3, SlotInBuffer
        <4> QED
          BY <2>1, <4>1 DEF Holds, EmptyBuffer
      <3>5. R = {k}
        BY <2>1
      <3> HIDE DEF b0, e0, old, e1, R
      <3>6. /\ k \in R /\ \A j \in R : j <= k
            /\ Played <= k /\ k - Played < network.window
        BY <3>5
      <3> QED
        BY <3>1, <3>2, <3>3, <3>4, <3>6 DEF seq
    <2>2. CASE received # {}
      <3>1. ~reset /\ begin = Seq16(Played) /\ Holds(packs, Played, received)
        BY <2>2 DEF PlayInv
      <3>2. PICK m0 \in received : Latest(m0)
        BY <2>2 DEF PlayInv
      <3>3. m0 \in Nat /\ end = Seq16(m0) /\ Played - 1 <= m0 /\ m0 - Played < network.window
            /\ \A j \in received : j <= m0
        BY <1>2, <3>2 DEF Latest
      <3>4. ~restart
        <4>1. begin % T = begin
          <5>1. begin \in Int /\ 0 <= begin /\ begin < T
            BY <1>2, <1>3, <3>1, Seq16Is DEF Numbers
          <5> QED
            BY <1>3, <5>1, ModSmall
        <4>2. Played - k < T \div 2 /\ k - Played < T \div 2 /\ ~(Played > k)
          BY <1>2, <1>3, HalfOfT
        <4>3. ~AheadOf(Seq16(Played), Seq16(k))
          BY <1>2, <4>2, LaterIsAhead
        <4> QED
          BY <3>1, <4>1, <4>3
      <3>5. b0 = Seq16(Played) /\ e0 = Seq16(m0) /\ old = packs
        BY <3>1, <3>3, <3>4
      <3>6. AheadOf(Seq16(m0), Seq16(k)) <=> m0 > k
        <4>1. m0 - k < T \div 2 /\ k - m0 < T \div 2
          BY <1>2, <1>3, <3>3, HalfOfT
        <4> QED
          BY <3>3, <4>1, LaterIsAhead
      <3> DEFINE m == IF m0 > k THEN m0 ELSE k
      <3>7. e1 = Seq16(m)
        BY <3>5, <3>6
      <3>8. m \in R /\ \A j \in R : j <= m
        BY <1>2, <3>3
      <3>9. Played <= m /\ m - Played < network.window
        BY <1>2, <1>3, <3>3
      <3> HIDE DEF b0, e0, old, e1, R, m
      <3> QED
        BY <1>2, <3>1, <3>5, <3>7, <3>8, <3>9
    <2> QED
      BY <2>1, <2>2
  <1>5. PICK m \in R : /\ \A j \in R : j <= m
                       /\ Played <= m /\ m - Played < network.window
                       /\ b0 = Seq16(Played) /\ e1 = Seq16(m)
                       /\ old \in [Slots -> Int] /\ Holds(old, Played, received)
    BY <1>4
  <1>6. m \in Nat /\ R \in SUBSET Nat /\ \A j \in 0..(Played - 1) : j \in R
    BY <1>2
  <1>7. buffer \in [Slots -> Int] /\ Holds(buffer, Played, R)
    <2>1. k - Played < BufferSize
      BY <1>2, <1>3
    <2> HIDE DEF old
    <2> QED
      BY <1>2, <1>5, <2>1, StoredHolds
  <1>8. b1 = Seq16(Played)
    <2>1. 2 * (m - Played) < BufferSize
      BY <1>2, <1>3, <1>5, <1>6
    <2>2. ~Overflows(Seq16(Played), Seq16(m))
      BY <1>2, <1>5, <1>6, <2>1, NotFull
    <2> HIDE DEF b0, e1
    <2> QED
      BY <1>5, <2>2
  <1> HIDE DEF seq, restart, b0, e0, old, buffer, e1, b1, R
  <1> QED
    BY <1>1, <1>5, <1>6, <1>7, <1>8, SearchStep

\* Every packet sent is on its way or has come, once; those on their way are in order.
FlightInv ==
    /\ network \in Networks /\ sent \in Nat /\ losses = 0 /\ rtcp = <<>>
    /\ net \in Seq(Nat)
    /\ \A i \in 1..Len(net) : net[i] < sent /\ net[i] \notin received
    /\ \A i, j \in 1..Len(net) : i < j => net[i] < net[j]
    /\ \A k \in received : k < sent
    /\ \A k \in 0..(sent - 1) : k \in received \/ \E i \in 1..Len(net) : net[i] = k

OrderInv == FlightInv /\ PlayInv

\* process_nack() does not find the list too long, which would restart the receiver.
ListBelowLimit == ~(Cardinality(nacks) >= network.limit)

\* t is s without its i-th element.
Removed(t, s, i) == t = RemoveAt(s, i)

\* What is left when a packet is taken out of the network
LEMMA RemoveAtIs ==
    ASSUME NEW X, NEW s \in Seq(X), NEW i \in 1..Len(s), NEW t, Removed(t, s, i)
    PROVE  /\ t \in Seq(X) /\ Len(t) = Len(s) - 1
           /\ \A j \in 1..(Len(s) - 1) : t[j] = IF j < i THEN s[j] ELSE s[j + 1]
  <1> DEFINE p == SubSeq(s, 1, i - 1)
             q == SubSeq(s, i + 1, Len(s))
             l == Len(s)
  <1>1. l \in Nat /\ i \in 1..l
    OBVIOUS
  <1>2. p \in Seq(X) /\ Len(p) = i - 1 /\ \A j \in 1..(i - 1) : p[j] = s[j]
    BY <1>1
  <1>3. q \in Seq(X) /\ Len(q) = l - i /\ \A j \in 1..(l - i) : q[j] = s[i + j]
    <2> DEFINE m == i + 1
    <2>1. m \in Int /\ l \in Int /\ \A j \in m..l : s[j] \in X
      BY <1>1
    <2>2. m - 1 = i /\ l - m + 1 = l - i /\ (m > l => l - i = 0)
      BY <1>1
    <2> HIDE DEF m
    <2>3. /\ SubSeq(s, m, l) \in Seq(X)
          /\ Len(SubSeq(s, m, l)) = IF m <= l THEN l - m + 1 ELSE 0
          /\ \A j \in 1..(l - m + 1) : SubSeq(s, m, l)[j] = s[m + j - 1]
      BY <2>1, SubSeqProperties
    <2>4. q = SubSeq(s, m, l)
      BY DEF m
    <2> HIDE DEF q, l
    <2>5. Len(q) = l - i
      BY <1>1, <2>1, <2>2, <2>3, <2>4
    <2>6. ASSUME NEW j \in 1..(l - i) PROVE q[j] = s[i + j]
      <3>1. m + j - 1 = i + j /\ j \in 1..(l - m + 1)
        BY <1>1, <2>1, <2>2
      <3> QED
        BY <2>3, <2>4, <3>1
    <2> QED
      BY <2>3, <2>4, <2>5, <2>6
  <1>4. Joined(t, p, q)
    BY DEF Removed, RemoveAt, Joined
  <1> HIDE DEF p, q, l
  <1> DEFINE d == i - 1
             n == l - i
  <1>5. d \in Nat /\ n \in Nat /\ d + n = l - 1 /\ Len(p) = d /\ Len(q) = n
    BY <1>1, <1>2, <1>3
  <1> HIDE DEF d, n
  <1>6. /\ t \in Seq(X) /\ Len(t) = d + n
        /\ \A j \in 1..(d + n) : t[j] = IF j <= d THEN p[j] ELSE q[j - d]
    <2>1. p \in Seq(X) /\ q \in Seq(X)
      BY <1>2, <1>3
    <2>2. d \in Nat /\ n \in Nat /\ Len(p) = d /\ Len(q) = n
      BY <1>5
    <2>3. Parts(X, t, p, q, d, n)
      BY <1>4, <2>1, <2>2, ConcatIs, Zenon
    <2> QED
      BY <2>3 DEF Parts
  <1>7. ASSUME NEW j \in 1..(l - 1) PROVE t[j] = IF j < i THEN s[j] ELSE s[j + 1]
    <2>1. t[j] = IF j <= d THEN p[j] ELSE q[j - d]
      BY <1>5, <1>6
    <2>2. CASE j < i
      <3>1. j <= d /\ j \in 1..(i - 1)
        BY <1>1, <2>2 DEF d
      <3> QED
        BY <1>2, <2>1, <2>2, <3>1
    <2>3. CASE ~(j < i)
      <3>1. ~(j <= d) /\ j - d \in 1..(l - i) /\ i + (j - d) = j + 1
        BY <1>1, <2>3 DEF d
      <3>2. q[j - d] = s[i + (j - d)]
        BY <1>3, <3>1
      <3> QED
        BY <2>1, <2>3, <3>1, <3>2
    <2> QED
      BY <2>2, <2>3
  <1> QED
    BY <1>5, <1>6, <1>7 DEF l

\* The packets on their way after the i-th of them has been taken out and inserted
LEMMA TakenFlight ==
    ASSUME FlightInv, NEW i \in 1..Len(net), Removed(net', net, i),
           received' = received \union {net[i]},
           UNCHANGED <<network, sent, losses, rtcp>>
    PROVE  FlightInv'
  <1> DEFINE l == Len(net)
  <1>1. /\ l \in Nat /\ i \in 1..l /\ net \in Seq(Nat) /\ sent \in Nat
        /\ \A j \in 1..l : net[j] \in Nat /\ net[j] < sent /\ net[j] \notin received
        /\ \A a, b \in 1..l : a < b => net[a] < net[b]
    BY DEF FlightInv
  <1>2. /\ net' \in Seq(Nat) /\ Len(net') = l - 1
        /\ \A j \in 1..(l - 1) : net'[j] = IF j < i THEN net[j] ELSE net[j + 1]
    BY <1>1, RemoveAtIs
  <1> HIDE DEF l
  <1>3. ASSUME NEW j \in 1..(l - 1)
        PROVE  \E a \in 1..l : a # i /\ net'[j] = net[a] /\ a = IF j < i THEN j ELSE j + 1
    <2>1. CASE j < i
      <3>1. j \in 1..l /\ j # i /\ net'[j] = net[j]
        BY <1>1, <1>2, <2>1
      <3> QED
        BY <2>1, <3>1
    <2>2. CASE ~(j < i)
      <3>1. j + 1 \in 1..l /\ j + 1 # i /\ net'[j] = net[j + 1]
        BY <1>1, <1>2, <2>2
      <3> QED
        BY <2>2, <3>1
    <2> QED
      BY <2>1, <2>2
  <1>4. ASSUME NEW j \in 1..(l - 1) PROVE net'[j] < sent /\ net'[j] \notin received'
    <2>1. PICK a \in 1..l : a # i /\ net'[j] = net[a]
      BY <1>3
    <2>2. net[a] # net[i]
      <3>1. a < i \/ i < a
        BY <1>1, <2>1
      <3>2. net[a] < net[i] \/ net[i] < net[a]
        BY <1>1, <3>1
      <3>3. net[a] \in Nat /\ net[i] \in Nat
        BY <1>1
      <3> QED
        BY <3>2, <3>3
    <2> QED
      BY <1>1, <2>1, <2>2
  <1>5. ASSUME NEW j \in 1..(l - 1), NEW k \in 1..(l - 1), j < k PROVE net'[j] < net'[k]
    <2>1. PICK a \in 1..l : net'[j] = net[a] /\ a = IF j < i THEN j ELSE j + 1
      BY <1>3
    <2>2. PICK b \in 1..l : net'[k] = net[b] /\ b = IF k < i THEN k ELSE k + 1
      BY <1>3
    <2>3. a < b
      BY <1>1, <1>5, <2>1, <2>2
    <2> QED
      BY <1>1, <2>1, <2>2, <2>3
  <1>6. \A k \in received' : k < sent
    BY <1>1 DEF FlightInv
  <1>7. ASSUME NEW k \in 0..(sent - 1), k \notin received'
        PROVE  \E j \in 1..(l - 1) : net'[j] = k
    <2>1. PICK a \in 1..l : net[a] = k
      BY <1>7 DEF FlightInv, l
    <2>2. a # i
      BY <1>7, <2>1
    <2>3. CASE a < i
      <3>1. a \in 1..(l - 1)
        BY <1>1, <2>3
      <3> QED
        BY <1>2, <2>1, <2>3, <3>1
    <2>4. CASE a > i
      <3>1. a - 1 \in 1..(l - 1) /\ ~(a - 1 < i) /\ (a - 1) + 1 = a
        BY <1>1, <2>4
      <3>2. net'[a - 1] = net[a]
        BY <1>2, <3>1
      <3> QED
        BY <2>1, <3>1, <3>2
    <2> QED
      BY <1>1, <2>2, <2>3, <2>4
  <1>8. Len(net') = l - 1 /\ net' \in Seq(Nat)
    BY <1>2
  <1> QED
    BY <1>4, <1>5, <1>6, <1>7, <1>8 DEF FlightInv

\* insert_packet() and the search for frames: what arrives is stored, and played as soon as
\* nothing before it is missing.
LEMMA DeliverOrder ==
    ASSUME OrderInv, Calm(network), Deliver
    PROVE  OrderInv'
  <1>1. PICK i \in 1..Len(net), late \in (IF network.silences THEN BOOLEAN ELSE {FALSE}) :
          /\ i <= (IF received = {} THEN 1 ELSE network.window)
          /\ \A j \in 1..i : net[i] - net[j] < network.window
          /\ net' = RemoveAt(net, i)
          /\ Insert(net[i], late)
    BY DEF Deliver
  <1>2. late = FALSE
    BY DEF Calm
  <1>3. UNCHANGED <<network, sent, losses, rtcp>>
    BY DEF Deliver
  <1> DEFINE k == net[i]
  <1>4. Len(net) \in Nat /\ network \in Networks /\ k \in Nat /\ k < sent /\ k \notin received /\ sent \in Nat
    BY DEF OrderInv, FlightInv
  <1> First \in Nat
    BY <1>4, FirstIs
  <1>5. Played \in Nat /\ received \in SUBSET Nat
        /\ Played \notin received /\ \A j \in 0..(Played - 1) : j \in received
    BY DEF OrderInv, PlayInv, Played
  <1>6. Played <= k
    BY <1>4, <1>5
  <1>7. PICK j \in 1..Len(net) : net[j] = Played
    <2>1. Played \in 0..(sent - 1)
      BY <1>4, <1>5, <1>6
    <2> QED
      BY <1>5, <2>1 DEF OrderInv, FlightInv
  <1>8. j <= i
    <2>1. ASSUME i < j PROVE FALSE
      <3>1. net[i] < net[j]
        BY <2>1 DEF OrderInv, FlightInv
      <3> QED
        BY <1>4, <1>5, <1>6, <1>7, <3>1
    <2> QED
      BY <1>4, <2>1
  <1>9. k - Played < network.window
    <2>1. j \in 1..i
      BY <1>4, <1>8
    <2> QED
      BY <1>1, <1>7, <2>1
  <1>10. received = {} => k = Played
    <2> SUFFICES ASSUME received = {} PROVE k = Played
      OBVIOUS
    <2>1. i <= 1
      BY <1>1
    <2>2. i = j
      BY <1>4, <1>8, <2>1
    <2> QED
      BY <1>7, <2>2
  <1>11. Insert(k, FALSE)
    BY <1>1, <1>2, Zenon
  <1>12. received' = received \union {k}
    BY <1>11, Zenon DEF Insert
  <1>13. PlayInv'
    <2> HIDE DEF k
    <2> QED
      BY <1>3, <1>4, <1>6, <1>9, <1>10, <1>11, InsertStep DEF OrderInv
  <1>14. FlightInv'
    BY <1>1, <1>3, <1>12, TakenFlight DEF OrderInv, Removed
  <1> QED
    BY <1>13, <1>14 DEF OrderInv

\* The state of the receiver's buffer does not change.
LEMMA SamePlay ==
    ASSUME PlayInv, UNCHANGED <<network, received, delivered, packs, reset, begin, end>>
    PROVE  PlayInv'
  BY DEF PlayInv, Played, Holds, Slot, Seq16, First, Latest

\* A packet that is sent joins those on their way.
LEMMA SendOrder ==
    ASSUME OrderInv, Send
    PROVE  OrderInv'
  <1>1. /\ sent' = sent + 1 /\ net' = Append(net, sent)
        /\ UNCHANGED <<network, losses, rtcp, reset, begin, end, packs, received, delivered>>
    BY DEF Send
  <1>2. PlayInv'
    BY <1>1, SamePlay DEF OrderInv
  <1> DEFINE l == Len(net)
  <1>3. sent \in Nat /\ l \in Nat /\ net \in Seq(Nat)
    BY DEF OrderInv, FlightInv
  <1>4. /\ net' \in Seq(Nat) /\ Len(net') = l + 1 /\ net'[l + 1] = sent
        /\ \A i \in 1..l : net'[i] = net[i]
    BY <1>1, <1>3
  <1>5. /\ \A i \in 1..l : net[i] \in Nat /\ net[i] < sent /\ net[i] \notin received
        /\ \A i, j \in 1..l : i < j => net[i] < net[j]
        /\ \A k \in received : k \in Nat /\ k < sent
        /\ \A k \in 0..(sent - 1) : k \in received \/ \E i \in 1..l : net[i] = k
    BY DEF OrderInv, FlightInv, PlayInv
  <1> HIDE DEF l
  <1>6. \A i \in 1..(l + 1) : i \in 1..l \/ i = l + 1
    BY <1>3
  <1>7. \A i \in 1..(l + 1) : net'[i] < sent' /\ net'[i] \notin received'
    <2>1. ASSUME NEW i \in 1..l PROVE net'[i] < sent' /\ net'[i] \notin received'
      BY <1>1, <1>3, <1>4, <1>5
    <2>2. net'[l + 1] < sent' /\ net'[l + 1] \notin received'
      BY <1>1, <1>3, <1>4, <1>5
    <2> QED
      BY <1>6, <2>1, <2>2
  <1>8. ASSUME NEW i \in 1..(l + 1), NEW j \in 1..(l + 1), i < j PROVE net'[i] < net'[j]
    <2>1. i \in 1..l
      BY <1>3, <1>8
    <2>2. CASE j \in 1..l
      BY <1>4, <1>5, <1>8, <2>1, <2>2
    <2>3. CASE j = l + 1
      BY <1>4, <1>5, <2>1, <2>3
    <2> QED
      BY <1>6, <2>2, <2>3
  <1>9. \A k \in received' : k < sent'
    BY <1>1, <1>3, <1>5
  <1>10. ASSUME NEW k \in 0..(sent' - 1)
         PROVE  k \in received' \/ \E i \in 1..(l + 1) : net'[i] = k
    <2>1. CASE k = sent
      <3>1. l + 1 \in 1..(l + 1)
        BY <1>3
      <3> QED
        BY <1>4, <2>1, <3>1
    <2>2. CASE k # sent
      <3>1. k \in 0..(sent - 1)
        BY <1>1, <1>3, <2>2
      <3>2. CASE k \in received
        BY <1>1, <3>2
      <3>3. CASE \E i \in 1..l : net[i] = k
        <4>1. PICK i \in 1..l : net[i] = k
          BY <3>3
        <4>2. i \in 1..(l + 1) /\ net'[i] = k
          BY <1>3, <1>4, <4>1
        <4> QED
          BY <4>2
      <3> QED
        BY <1>5, <3>1, <3>2, <3>3
    <2> QED
      BY <2>1, <2>2
  <1>11. FlightInv'
    <2>1. sent' \in Nat /\ network' \in Networks /\ losses' = 0 /\ rtcp' = <<>>
      BY <1>1, <1>3 DEF OrderInv, FlightInv
    <2> QED
      BY <1>4, <1>7, <1>8, <1>9, <1>10, <2>1 DEF FlightInv
  <1> QED
    BY <1>2, <1>11 DEF OrderInv

\* Before the first packet nothing is on its way, stored or played.
LEMMA InitOrder == Init => OrderInv
  <1> SUFFICES ASSUME Init PROVE OrderInv
    OBVIOUS
  <1>1. FlightInv
    BY DEF Init, FlightInv
  <1>2. PlayInv
    BY DEF Init, PlayInv, Played, EmptyBuffer, None
  <1> QED
    BY <1>1, <1>2 DEF OrderInv

\* Every step preserves the order, as long as the NACK list does not restart the receiver.
LEMMA NextOrder ==
    ASSUME \A n \in Networks : Calm(n)
    PROVE  OrderInv /\ ListBelowLimit /\ [Next]_vars => OrderInv'
  <1> SUFFICES ASSUME OrderInv, ListBelowLimit, [Next]_vars PROVE OrderInv'
    OBVIOUS
  <1>1. network \in Networks /\ Calm(network) /\ losses = 0 /\ rtcp = <<>>
    BY DEF OrderInv, FlightInv
  <1>2. CASE Send
    BY <1>2, SendOrder
  <1>3. CASE OnNack
    BY <1>1, <1>3 DEF OnNack
  <1>4. CASE Deliver
    BY <1>1, <1>4, DeliverOrder
  <1>5. CASE ProcessNack
    <2>1. UNCHANGED <<network, sent, net, losses, begin, end, packs, received, delivered>>
      BY <1>5 DEF ProcessNack
    <2>2. reset' = reset /\ rtcp' = rtcp
      BY <1>1, <1>5 DEF ProcessNack, ListBelowLimit, Calm
    <2>3. PlayInv'
      BY <2>1, <2>2, SamePlay DEF OrderInv
    <2>4. FlightInv'
      BY <2>1, <2>2 DEF OrderInv, FlightInv
    <2> QED
      BY <2>3, <2>4 DEF OrderInv
  <1>6. CASE Lose
    <2>1. losses < network.losses /\ network.losses = 0
      BY <1>1, <1>6 DEF Lose, Calm
    <2> QED
      BY <1>1, <2>1
  <1>7. CASE UNCHANGED vars
    <2>1. PlayInv'
      BY <1>7, SamePlay DEF vars, OrderInv
    <2>2. FlightInv'
      BY <1>7 DEF vars, OrderInv, FlightInv
    <2> QED
      BY <2>1, <2>2 DEF OrderInv
  <1> QED
    BY <1>2, <1>3, <1>4, <1>5, <1>6, <1>7 DEF Next

\* Packets that the network only reorders, by less than half the buffer, are all played,
\* each after the one before, across every wrap of the sequence numbers: no restart, no
\* full buffer and no slot in use stands in the way.  The NACK list, which late packets
\* fill up, may not reach the limit at which the receiver starts anew.
THEOREM ReorderingIsUndone ==
    ASSUME \A n \in Networks : Calm(n)
    PROVE  Spec /\ []ListBelowLimit => []NothingSkipped
  <1>1. OrderInv => NothingSkipped
    <2> SUFFICES ASSUME OrderInv, NEW i \in 1..(Len(delivered) - 1)
                 PROVE  delivered[i + 1] = delivered[i] + 1
      BY DEF NothingSkipped
    <2>1. Len(delivered) \in Nat /\ \A j \in 1..Len(delivered) : delivered[j] = j - 1
      BY DEF OrderInv, PlayInv, Played
    <2>2. i \in 1..Len(delivered) /\ i + 1 \in 1..Len(delivered)
      BY <2>1
    <2> QED
      BY <2>1, <2>2
  <1>2. Spec /\ []ListBelowLimit => []OrderInv
    BY InitOrder, NextOrder, PTL DEF Spec
  <1> QED
    BY <1>1, <1>2, PTL

\* So they come out in the order they were sent in, and none comes out twice.
THEOREM ReorderedInOrder ==
    ASSUME \A n \in Networks : Calm(n)
    PROVE  Spec /\ []ListBelowLimit => []DeliveredInOrder
  <1>1. OrderInv => DeliveredInOrder
    <2> SUFFICES ASSUME OrderInv, NEW i \in 1..(Len(delivered) - 1)
                 PROVE  delivered[i] < delivered[i + 1]
      BY DEF DeliveredInOrder
    <2>1. Len(delivered) \in Nat /\ \A j \in 1..Len(delivered) : delivered[j] = j - 1
      BY DEF OrderInv, PlayInv, Played
    <2>2. i \in 1..Len(delivered) /\ i + 1 \in 1..Len(delivered)
      BY <2>1
    <2> QED
      BY <2>1, <2>2
  <1>2. Spec /\ []ListBelowLimit => []OrderInv
    BY InitOrder, NextOrder, PTL DEF Spec
  <1> QED
    BY <1>1, <1>2, PTL

-----------------------------------------------------------------------------
(* The video receiver, on a network of its own and without retransmission  *)

CONSTANT VideoNetworks
VARIABLES units, wait, late, resetting

Video == INSTANCE VideoReceiver WITH Networks <- VideoNetworks

\* The packets of an H.264 stream, and the NAL units in them
Packet == [kind : {"single", "stap", "fu"}, ids : Seq(Nat), part : Nat, m : BOOLEAN]
Nals == Seq([t : Video!Types, n : Nat \ {0}])

\* A NAL unit with all its fragments
Whole(ns, id) == [p \in 1..ns[id].n |-> <<id, p>>]
Wholes(ns) == {Whole(ns, id) : id \in DOMAIN ns}

\* q is the fragment that follows on p.
Continues(p, q) ==
    p.kind = "fu" /\ q.kind = "fu" /\ q.ids[1] = p.ids[1] /\ q.part = p.part + 1

\* The NAL units in packet k of s are some of ns; its neighbours are the fragments
\* before and after it, if there are any; the last fragment only may be marked.
Placed(s, ns, k) ==
    LET p == s[k]
        n == ns[p.ids[1]].n
    IN /\ \A i \in DOMAIN p.ids : p.ids[i] \in DOMAIN ns
       /\ p.kind # "fu" => \A i \in DOMAIN p.ids : ns[p.ids[i]].n = 1
       /\ p.kind # "stap" => DOMAIN p.ids = {1}
       /\ p.kind = "fu" =>
            /\ p.part \in 1..n
            /\ p.part < n => ~p.m /\ k + 1 \in DOMAIN s /\ Continues(p, s[k + 1])
            /\ p.part > 1 => k - 1 \in DOMAIN s /\ Continues(s[k - 1], p)

\* s is made of NAL units of ns, each with all its fragments.
Piece(s, ns) == s \in Seq(Packet) /\ \A k \in DOMAIN s : Placed(s, ns, k)

\* Pieces one after the other are a piece.
LEMMA PiecesJoin ==
    ASSUME NEW s, NEW u, NEW t, NEW ns, Piece(s, ns), Piece(u, ns), Joined(t, s, u)
    PROVE  Piece(t, ns)
  <1> DEFINE d == Len(s)
             n == Len(u)
  <1>1. s \in Seq(Packet) /\ u \in Seq(Packet)
    BY DEF Piece
  <1>2. d \in Nat /\ n \in Nat /\ DOMAIN s = 1..d /\ DOMAIN u = 1..n
    BY <1>1
  <1> HIDE DEF d, n
  <1>3. Parts(Packet, t, s, u, d, n)
    <2>1. Len(s) = d /\ Len(u) = n
      BY DEF d, n
    <2> QED
      BY <1>1, <1>2, <2>1, ConcatIs, Zenon
  <1>4. t \in Seq(Packet) /\ Len(t) = d + n /\ DOMAIN t = 1..(d + n)
        /\ \A i \in 1..(d + n) : t[i] = IF i <= d THEN s[i] ELSE u[i - d]
    BY <1>2, <1>3 DEF Parts
  <1>5. \A k \in 1..d : t[k] = s[k]
    BY <1>2, <1>4
  <1>6. \A k \in 1..n : t[k + d] = u[k]
    <2> SUFFICES ASSUME NEW k \in 1..n PROVE t[k + d] = u[k]
      OBVIOUS
    <2>1. k + d \in 1..(d + n) /\ ~(k + d <= d) /\ (k + d) - d = k
      BY <1>2
    <2> QED
      BY <1>4, <2>1
  <1>7. ASSUME NEW k \in 1..d PROVE Placed(t, ns, k)
    <2>1. Placed(s, ns, k) /\ t[k] = s[k]
      BY <1>2, <1>5 DEF Piece
    <2>2. k + 1 \in 1..d => k + 1 \in 1..(d + n) /\ t[k + 1] = s[k + 1]
      BY <1>2, <1>5
    <2>3. k - 1 \in 1..d => k - 1 \in 1..(d + n) /\ t[k - 1] = s[k - 1]
      BY <1>2, <1>5
    <2> QED
      BY <1>2, <1>4, <2>1, <2>2, <2>3 DEF Placed
  <1>8. ASSUME NEW k \in 1..n PROVE Placed(t, ns, k + d)
    <2>1. Placed(u, ns, k) /\ t[k + d] = u[k]
      BY <1>2, <1>6 DEF Piece
    <2>2. k + 1 \in 1..n => (k + d) + 1 \in 1..(d + n) /\ t[(k + d) + 1] = u[k + 1]
      <3>1. (k + d) + 1 = (k + 1) + d
        BY <1>2
      <3> QED
        BY <1>2, <1>6, <3>1
    <2>3. k - 1 \in 1..n => (k + d) - 1 \in 1..(d + n) /\ t[(k + d) - 1] = u[k - 1]
      <3>1. (k + d) - 1 = (k - 1) + d
        BY <1>2
      <3> QED
        BY <1>2, <1>6, <3>1
    <2> QED
      BY <1>2, <1>4, <2>1, <2>2, <2>3 DEF Placed
  <1>9. ASSUME NEW k \in 1..(d + n) PROVE Placed(t, ns, k)
    <2>1. CASE k \in 1..d
      BY <1>7, <2>1
    <2>2. CASE k \notin 1..d
      <3>1. k - d \in 1..n /\ (k - d) + d = k
        BY <1>2, <2>2
      <3> QED
        BY <1>8, <3>1
    <2> QED
      BY <2>1, <2>2
  <1> QED
    BY <1>4, <1>9 DEF Piece

\* NAL units that follow do not change a piece.
LEMMA PieceStays ==
    ASSUME NEW s, NEW ns \in Nals, NEW more \in Nals, Piece(s, ns)
    PROVE  Piece(s, ns \o more)
  <1> DEFINE all == ns \o more
  <1>1. \A id \in DOMAIN ns : id \in DOMAIN all /\ all[id] = ns[id]
    BY DEF Nals
  <1> HIDE DEF all
  <1>2. ASSUME NEW k \in DOMAIN s PROVE Placed(s, all, k)
    <2> DEFINE p == s[k]
    <2>1. Placed(s, ns, k)
      BY DEF Piece
    <2>2. \A i \in DOMAIN p.ids : p.ids[i] \in DOMAIN all /\ all[p.ids[i]] = ns[p.ids[i]]
      BY <1>1, <2>1 DEF Placed
    <2>3. p.kind = "fu" => all[p.ids[1]].n = ns[p.ids[1]].n
      BY <2>1, <2>2 DEF Placed
    <2>4. p.kind # "fu" => \A i \in DOMAIN p.ids : all[p.ids[i]].n = 1
      BY <2>1, <2>2 DEF Placed
    <2> QED
      BY <2>1, <2>2, <2>3, <2>4 DEF Placed
  <1> QED
    BY <1>2 DEF Piece, all

\* What a NAL unit is
LEMMA NalIs ==
    ASSUME NEW ns \in Nals, NEW id \in DOMAIN ns
    PROVE  id \in Nat /\ ns[id].n \in Nat \ {0}
  <1> DEFINE N == [t : Video!Types, n : Nat \ {0}]
  <1>1. ns \in Seq(N)
    BY DEF Nals
  <1>2. ns[id] \in N => ns[id].n \in Nat \ {0}
    OBVIOUS
  <1> HIDE DEF N
  <1>3. id \in Nat /\ ns[id] \in N
    BY <1>1
  <1> QED
    BY <1>2, <1>3

\* The packets of one NAL unit
LEMMA NalIsPiece ==
    ASSUME NEW ns \in Nals, NEW id \in DOMAIN ns, NEW last \in BOOLEAN
    PROVE  Piece(Video!SendNal(id, ns[id].n, last), ns)
  <1> DEFINE n == ns[id].n
             s == Video!SendNal(id, n, last)
  <1>1. n \in Nat \ {0} /\ id \in Nat
    BY NalIs
  <1> HIDE DEF n
  <1>2. s = [j \in 1..n |-> [kind |-> IF n = 1 THEN "single" ELSE "fu", ids |-> <<id>>, part |-> j,
                             m |-> last /\ j = n]]
    BY DEF Video!SendNal
  <1> HIDE DEF s
  <1>3. s \in Seq(Packet)
    <2>1. \A j \in 1..n : (last /\ j = n) \in BOOLEAN
      OBVIOUS
    <2>2. \A j \in 1..n : [kind |-> IF n = 1 THEN "single" ELSE "fu", ids |-> <<id>>, part |-> j,
                             m |-> last /\ j = n] \in Packet
      BY <1>1, <2>1 DEF Packet
    <2>3. s \in [1..n -> Packet]
      BY <1>2, <2>2
    <2> QED
      BY <1>1, <2>3
  <1>4. DOMAIN s = 1..n
    BY <1>2
  <1>5. ASSUME NEW k \in 1..n PROVE Placed(s, ns, k)
    <2>1. /\ s[k].kind = IF n = 1 THEN "single" ELSE "fu"
          /\ s[k].ids = <<id>> /\ s[k].part = k /\ (s[k].m => k = n)
      BY <1>2
    <2>2. k < n => k + 1 \in 1..n /\ Continues(s[k], s[k + 1])
      BY <1>1, <1>2 DEF Continues
    <2>3. k > 1 => k - 1 \in 1..n /\ Continues(s[k - 1], s[k])
      BY <1>1, <1>2 DEF Continues
    <2>4. DOMAIN s[k].ids = 1..1 /\ s[k].ids[1] = id
      BY <2>1
    <2>5. s[k].kind # "fu" => n = 1
      BY <2>1
    <2>6. ns[s[k].ids[1]].n = n
      BY <2>4 DEF n
    <2> HIDE DEF s
    <2>7. \A i \in DOMAIN s[k].ids : s[k].ids[i] \in DOMAIN ns /\ (n = 1 => ns[s[k].ids[i]].n = 1)
      BY <2>4 DEF n
    <2>8. 1 \in DOMAIN s[k].ids /\ s[k].part \in 1..n
      BY <2>1, <2>4
    <2>9. s[k].part < n => ~s[k].m
      BY <1>1, <2>1
    <2> QED
      BY <1>4, <2>1, <2>2, <2>3, <2>5, <2>6, <2>7, <2>8, <2>9 DEF Placed
  <1> QED
    BY <1>3, <1>4, <1>5 DEF Piece, s, n

\* What the recursive function of FlattenSeq() is
Flattens(f, seqs, n) ==
    f = [i \in 1..n |-> IF i = 1 THEN seqs[i] ELSE f[i - 1] \o seqs[i]]

\* There is such a function.
LEMMA FlattenExists ==
    ASSUME NEW seqs, NEW n \in Nat
    PROVE  \E f : Flattens(f, seqs, n)
  <1> DEFINE bad == {m \in Nat : ~ \E f : Flattens(f, seqs, m)}
  <1> SUFFICES ASSUME bad # {} PROVE FALSE
    OBVIOUS
  <1>1. bad \in SUBSET Nat
    OBVIOUS
  <1>2. PICK m \in bad : \A y \in bad : m <= y
    <2> HIDE DEF bad
    <2> QED
      BY <1>1, MinIsLeast
  <1>3. m \in Nat /\ ~ \E f : Flattens(f, seqs, m)
    OBVIOUS
  <1>4. CASE m = 0
    <2>1. Flattens([i \in 1..0 |-> i], seqs, m)
      BY <1>4 DEF Flattens
    <2> QED
      BY <1>3, <2>1
  <1>5. CASE m > 0
    <2>1. m - 1 \in Nat /\ m - 1 \notin bad
      BY <1>2, <1>3, <1>5
    <2>2. PICK g : Flattens(g, seqs, m - 1)
      BY <2>1
    <2> DEFINE f == [i \in 1..m |-> IF i = 1 THEN seqs[i] ELSE g[i - 1] \o seqs[i]]
    <2>3. \A i \in 1..(m - 1) : f[i] = g[i]
      <3>1. g = [i \in 1..(m - 1) |-> IF i = 1 THEN seqs[i] ELSE g[i - 1] \o seqs[i]]
        BY <2>2 DEF Flattens
      <3>2. \A i \in 1..(m - 1) : g[i] = IF i = 1 THEN seqs[i] ELSE g[i - 1] \o seqs[i]
        BY <3>1
      <3>3. \A i \in 1..(m - 1) : i \in 1..m
        BY <1>3
      <3> QED
        BY <3>2, <3>3
    <2>4. \A i \in 1..m : i # 1 => i - 1 \in 1..(m - 1)
      BY <1>3
    <2>5. \A i \in 1..m : (IF i = 1 THEN seqs[i] ELSE g[i - 1] \o seqs[i])
                          = (IF i = 1 THEN seqs[i] ELSE f[i - 1] \o seqs[i])
      <3> HIDE DEF f
      <3> QED
        BY <2>3, <2>4
    <2>6. f = [i \in 1..m |-> IF i = 1 THEN seqs[i] ELSE f[i - 1] \o seqs[i]]
      <3>1. f = [i \in 1..m |-> IF i = 1 THEN seqs[i] ELSE g[i - 1] \o seqs[i]]
        OBVIOUS
      <3> HIDE DEF f
      <3> QED
        BY <2>5, <3>1
    <2>7. Flattens(f, seqs, m)
      <3> HIDE DEF f
      <3> QED
        BY <2>6 DEF Flattens
    <2> QED
      BY <1>3, <2>7
  <1> QED
    BY <1>3, <1>4, <1>5

\* Pieces put together one after the other are a piece.
LEMMA FlatIsPiece ==
    ASSUME NEW seqs, NEW n \in Nat \ {0}, Len(seqs) = n, NEW ns, \A i \in 1..n : Piece(seqs[i], ns)
    PROVE  Piece(FlattenSeq(seqs), ns)
  <1> DEFINE f == CHOOSE f : Flattens(f, seqs, n)
             bad == {i \in 1..n : ~Piece(f[i], ns)}
  <1>1. FlattenSeq(seqs) = f[n]
    BY DEF FlattenSeq, Flattens
  <1>2. Flattens(f, seqs, n)
    BY FlattenExists
  <1> HIDE DEF f
  <1>3. \A i \in 1..n : f[i] = IF i = 1 THEN seqs[i] ELSE f[i - 1] \o seqs[i]
    BY <1>2 DEF Flattens
  <1>4. bad = {}
    <2> SUFFICES ASSUME bad # {} PROVE FALSE
      OBVIOUS
    <2>1. bad \in SUBSET Nat
      OBVIOUS
    <2>2. PICK m \in bad : \A y \in bad : m <= y
      <3> HIDE DEF bad
      <3> QED
        BY <2>1, MinIsLeast
    <2>3. m \in 1..n /\ ~Piece(f[m], ns)
      OBVIOUS
    <2>4. CASE m = 1
      BY <1>3, <2>3, <2>4
    <2>5. CASE m # 1
      <3>1. m - 1 \in 1..n /\ m - 1 \notin bad
        BY <2>2, <2>3, <2>5
      <3>2. Piece(f[m - 1], ns)
        BY <3>1
      <3>3. Joined(f[m], f[m - 1], seqs[m])
        BY <1>3, <2>3, <2>5 DEF Joined
      <3> HIDE DEF bad
      <3> QED
        BY <2>3, <3>2, <3>3, PiecesJoin
    <2> QED
      BY <2>4, <2>5
  <1>5. n \in 1..n
    OBVIOUS
  <1> QED
    BY <1>1, <1>4, <1>5

\* The packets that send_frame() makes
LEMMA FrameIsPiece ==
    ASSUME nals \in Nals, NEW frame, Video!IsFrame(frame)
    PROVE  Piece(Video!Packets(frame), nals \o frame.nals)
  <1> DEFINE n == Len(frame.nals)
             d == Len(nals)
             all == nals \o frame.nals
  <1>1. frame.nals \in Nals /\ frame.nals # <<>>
        /\ (frame.fits => \A i \in DOMAIN frame.nals : frame.nals[i].n = 1)
    BY DEF Video!IsFrame, Nals
  <1>2. n \in Nat \ {0} /\ d \in Nat /\ DOMAIN frame.nals = 1..n
    BY <1>1 DEF Nals
  <1>3. /\ all \in Nals /\ Len(all) = d + n /\ DOMAIN all = 1..(d + n)
        /\ \A i \in 1..n : all[d + i] = frame.nals[i]
    <2> DEFINE N == [t : Video!Types, n : Nat \ {0}]
    <2>1. nals \in Seq(N) /\ frame.nals \in Seq(N)
      BY <1>1 DEF Nals
    <2> HIDE DEF N
    <2>2. /\ all \in Seq(N) /\ Len(all) = d + n
          /\ \A i \in 1..(d + n) : all[i] = IF i <= d THEN nals[i] ELSE frame.nals[i - d]
      BY <2>1, ConcatProperties
    <2> HIDE DEF all, d, n
    <2>3. \A i \in 1..n : d + i \in 1..(d + n) /\ ~(d + i <= d) /\ (d + i) - d = i
      BY <1>2
    <2> QED
      BY <2>2, <2>3 DEF N, Nals
  <1> DEFINE id(i) == d + i
  <1>4. \A i \in 1..n : id(i) \in DOMAIN all /\ all[id(i)].n = frame.nals[i].n
    BY <1>2, <1>3
  <1>5. CASE frame.fits /\ n > 1
    <2> DEFINE m == frame.nals[1].t # "par"
               p == [kind |-> "stap", ids |-> [i \in 1..n |-> id(i)], part |-> 1, m |-> m]
    <2>1. Video!Packets(frame) = <<p>>
      BY <1>5 DEF Video!Packets
    <2>2. p \in Packet
      <3>1. m \in BOOLEAN
        OBVIOUS
      <3>2. [i \in 1..n |-> id(i)] \in Seq(Nat)
        <4>1. [i \in 1..n |-> id(i)] \in [1..n -> Nat]
          BY <1>2
        <4> QED
          BY <1>2, <4>1
      <3> HIDE DEF m
      <3> QED
        BY <3>1, <3>2 DEF Packet
    <2>3. \A i \in DOMAIN p.ids : p.ids[i] \in DOMAIN all /\ all[p.ids[i]].n = 1
      <3>1. DOMAIN p.ids = 1..n /\ \A i \in 1..n : p.ids[i] = id(i)
        OBVIOUS
      <3> HIDE DEF p, id, all, d, n
      <3> QED
        BY <1>1, <1>2, <1>4, <1>5, <3>1
    <2>4. p.kind = "stap"
      OBVIOUS
    <2> HIDE DEF p, all
    <2>5. Placed(<<p>>, all, 1)
      BY <2>3, <2>4 DEF Placed
    <2>6. <<p>> \in Seq(Packet) /\ DOMAIN <<p>> = {1}
      BY <2>2
    <2> QED
      BY <2>1, <2>5, <2>6 DEF Piece, all
  <1>6. CASE ~(frame.fits /\ n > 1)
    <2> DEFINE seqs == [i \in 1..n |-> Video!SendNal(id(i), frame.nals[i].n, i = n)]
    <2>1. Video!Packets(frame) = FlattenSeq(seqs)
      <3>1. Video!Packets(frame) = Video!FlattenSeq(seqs)
        BY <1>6 DEF Video!Packets
      <3> HIDE DEF seqs
      <3> QED
        BY <3>1 DEF Video!FlattenSeq, FlattenSeq
    <2>2. Len(seqs) = n
      BY <1>2
    <2>3. ASSUME NEW i \in 1..n PROVE Piece(seqs[i], all)
      <3> DEFINE last == i = n
      <3>1. seqs[i] = Video!SendNal(id(i), all[id(i)].n, last)
        BY <1>4
      <3>2. last \in BOOLEAN
        OBVIOUS
      <3> HIDE DEF seqs, last, all, id
      <3> QED
        BY <1>3, <1>4, <3>1, <3>2, NalIsPiece
    <2> HIDE DEF seqs, all, n
    <2>4. Piece(FlattenSeq(seqs), all)
      BY <1>2, <2>2, <2>3, FlatIsPiece
    <2> QED
      BY <2>1, <2>4 DEF all
  <1> QED
    BY <1>5, <1>6

\* What is assembled of the packets up to place k: the fragments collected are those of one
\* NAL unit from the first on, up to the one at place k or else to the last one.
Begun(fu, k) ==
    \E id \in DOMAIN nals : \E j \in 1..nals[id].n :
        /\ fu = [p \in 1..j |-> <<id, p>>]
        /\ IF k \in DOMAIN stream /\ stream[k].kind = "fu"
           THEN stream[k].ids[1] = id /\ stream[k].part = j
           ELSE j = nals[id].n

Assembly(w, fu, out) == [wait |-> w, fu |-> fu, out |-> out]

Assembled(st, k) ==
    \E w, fu, out : /\ st = Assembly(w, fu, out)
                    /\ out \in Seq(Wholes(nals))
                    /\ fu = <<>> \/ Begun(fu, k)

\* What invoke_rtp_frame() gets joins what it got before, or nothing is handed up.
LEMMA HandUpIs ==
    ASSUME NEW w, NEW fu, NEW out \in Seq(Wholes(nals)), NEW frames \in Seq(Wholes(nals))
    PROVE  \E new \in Seq(Wholes(nals)) :
             Video!HandUp(Assembly(w, fu, out), frames) = Assembly(w, fu, new)
  <1> DEFINE S == Wholes(nals)
             st == Assembly(w, fu, out)
  <1>1. out \o frames \in Seq(S)
    <2>1. out \in Seq(S) /\ frames \in Seq(S)
      OBVIOUS
    <2> HIDE DEF S
    <2> QED
      BY <2>1
  <1>2. CASE st.wait
    <2>1. Video!HandUp(st, frames) = st
      BY <1>2 DEF Video!HandUp
    <2> QED
      BY <2>1
  <1>3. CASE ~st.wait
    <2>1. Video!HandUp(st, frames) = Assembly(w, fu, out \o frames)
      BY <1>3 DEF Video!HandUp, Assembly
    <2> QED
      BY <1>1, <2>1
  <1> QED
    BY <1>2, <1>3

\* NAL units of one packet each are whole.
LEMMA SinglesAreWhole ==
    ASSUME nals \in Nals, NEW ids \in Seq(Nat),
           \A i \in DOMAIN ids : ids[i] \in DOMAIN nals /\ nals[ids[i]].n = 1
    PROVE  [i \in DOMAIN ids |-> << <<ids[i], 1>> >>] \in Seq(Wholes(nals))
  <1> DEFINE l == Len(ids)
             s == [i \in DOMAIN ids |-> << <<ids[i], 1>> >>]
             S == Wholes(nals)
  <1>1. l \in Nat /\ DOMAIN ids = 1..l
    OBVIOUS
  <1>2. ASSUME NEW i \in DOMAIN ids PROVE << <<ids[i], 1>> >> \in S
    <2> DEFINE id == ids[i]
    <2>1. id \in DOMAIN nals /\ nals[id].n = 1
      OBVIOUS
    <2> HIDE DEF id
    <2>2. Whole(nals, id) = << <<id, 1>> >>
      BY <2>1 DEF Whole
    <2> QED
      BY <2>1, <2>2 DEF Wholes, id
  <1> HIDE DEF S
  <1>3. s \in [1..l -> S]
    BY <1>1, <1>2
  <1> HIDE DEF s, l
  <1> QED
    BY <1>1, <1>3 DEF s, S

\* A fragment of place k: the fragments collected so far go on with it.
LEMMA FragmentAdded ==
    ASSUME nals \in Nals, Piece(stream, nals), NEW k \in DOMAIN stream, stream[k].kind = "fu",
           NEW fu, fu = <<>> \/ Begun(fu, k - 1)
    PROVE  LET new == Video!AddFragment(fu, stream[k].ids[1], stream[k].part)
           IN new = <<>> \/ Begun(new, k)
  <1> DEFINE id == stream[k].ids[1]
             part == stream[k].part
             new == Video!AddFragment(fu, id, part)
  <1>1. Placed(stream, nals, k)
    BY DEF Piece
  <1>2. id \in DOMAIN nals /\ part \in 1..nals[id].n
        /\ (part > 1 => k - 1 \in DOMAIN stream /\ Continues(stream[k - 1], stream[k]))
    BY <1>1 DEF Placed
  <1>3. nals[id].n \in Nat \ {0}
    BY <1>2, NalIs
  <1>4. ASSUME new = [p \in 1..part |-> <<id, p>>]
        PROVE  Begun(new, k)
    <2> HIDE DEF new, id, part
    <2> QED
      BY <1>2, <1>4 DEF Begun, id, part
  <1>5. CASE part = 1
    <2>1. new = << <<id, 1>> >>
      BY <1>5 DEF Video!AddFragment
    <2> HIDE DEF new, id, part
    <2>2. [p \in 1..1 |-> <<id, p>>] = << <<id, 1>> >>
      OBVIOUS
    <2> QED
      BY <1>4, <1>5, <2>1, <2>2 DEF new, id, part
  <1>6. CASE part # 1
    <2>1. CASE fu = <<>>
      BY <1>6, <2>1 DEF Video!AddFragment
    <2>2. CASE fu # <<>>
      <3>1. k - 1 \in DOMAIN stream /\ Continues(stream[k - 1], stream[k])
        BY <1>2, <1>3, <1>6
      <3> PICK i \in DOMAIN nals : \E j \in 1..nals[i].n :
             fu = [p \in 1..j |-> <<i, p>>] /\ stream[k - 1].ids[1] = i /\ stream[k - 1].part = j
        BY <2>2, <3>1 DEF Begun, Continues
      <3>2. PICK j \in 1..nals[i].n :
              fu = [p \in 1..j |-> <<i, p>>] /\ stream[k - 1].ids[1] = i /\ stream[k - 1].part = j
        OBVIOUS
      <3>3. i = id /\ part = j + 1
        BY <3>1, <3>2 DEF Continues
      <3>4. new = Append(fu, <<id, part>>)
        BY <1>6, <2>2 DEF Video!AddFragment
      <3>5. j \in Nat
        BY <1>3, <3>2, <3>3
      <3> HIDE DEF new, id, part
      <3>6. Append([p \in 1..j |-> <<i, p>>], <<i, j + 1>>) = [p \in 1..(j + 1) |-> <<i, p>>]
        <4> DEFINE f == [p \in 1..j |-> <<i, p>>]
                   g == [p \in 1..(j + 1) |-> <<i, p>>]
                   a == <<i, j + 1>>
                   X == {<<i, p>> : p \in 1..(j + 1)}
        <4>1. f \in [1..j -> X] /\ g \in [1..(j + 1) -> X] /\ a \in X
          BY <3>5
        <4>2. f \in Seq(X) /\ g \in Seq(X) /\ Len(f) = j /\ Len(g) = j + 1
          BY <3>5, <4>1
        <4>3. \A p \in 1..j : f[p] = g[p]
          BY <3>5
        <4>4. g[j + 1] = a
          BY <3>5
        <4> HIDE DEF f, g, a, X
        <4>5. Append(f, a) \in Seq(X) /\ Len(Append(f, a)) = j + 1
          BY <3>5, <4>1, <4>2
        <4>6. \A p \in 1..(j + 1) : Append(f, a)[p] = g[p]
          BY <3>5, <4>1, <4>2, <4>3, <4>4
        <4>7. Append(f, a) = g
          BY <3>5, <4>2, <4>5, <4>6
        <4> QED
          BY <4>7 DEF f, g, a
      <3>7. new = [p \in 1..(j + 1) |-> <<i, p>>]
        <4>1. fu = [p \in 1..j |-> <<i, p>>] /\ <<id, part>> = <<i, j + 1>>
          BY <3>2, <3>3
        <4> QED
          BY <3>4, <3>6, <4>1
      <3>8. new = [p \in 1..part |-> <<id, p>>]
        BY <3>3, <3>7
      <3> QED
        BY <1>4, <3>8 DEF new, id, part
    <2> QED
      BY <2>1, <2>2
  <1> QED
    BY <1>5, <1>6

\* A packet that is no fragment comes when the NAL unit collected is whole.
LEMMA FragmentsStay ==
    ASSUME nals \in Nals, Piece(stream, nals), NEW k \in DOMAIN stream, stream[k].kind # "fu",
           NEW fu, Begun(fu, k - 1)
    PROVE  Begun(fu, k)
  <1> DEFINE Upto(id, j) ==
               /\ fu = [p \in 1..j |-> <<id, p>>]
               /\ IF k - 1 \in DOMAIN stream /\ stream[k - 1].kind = "fu"
                  THEN stream[k - 1].ids[1] = id /\ stream[k - 1].part = j
                  ELSE j = nals[id].n
  <1> PICK id \in DOMAIN nals : \E j \in 1..nals[id].n : Upto(id, j)
    BY DEF Begun
  <1>1. PICK j \in 1..nals[id].n : Upto(id, j)
    OBVIOUS
  <1>2. nals[id].n \in Nat \ {0}
    BY NalIs
  <1>3. j = nals[id].n
    <2>1. CASE k - 1 \in DOMAIN stream /\ stream[k - 1].kind = "fu"
      <3>1. Placed(stream, nals, k - 1) /\ (k - 1) + 1 = k
        <4>1. stream \in Seq(Packet) /\ Placed(stream, nals, k - 1)
          BY <2>1 DEF Piece
        <4>2. k \in Int
          BY <4>1
        <4> QED
          BY <4>1, <4>2
      <3>2. ~(stream[k - 1].part < nals[id].n)
        BY <1>1, <2>1, <3>1 DEF Placed, Continues
      <3> QED
        BY <1>1, <1>2, <2>1, <3>2
    <2> QED
      BY <1>1, <2>1
  <1> QED
    BY <1>1, <1>3 DEF Begun

\* combin_frame() on the packet at place k
LEMMA PacketAdded ==
    ASSUME nals \in Nals, Piece(stream, nals), NEW k \in DOMAIN stream,
           NEW st, Assembled(st, k - 1)
    PROVE  Assembled(Video!AddPacket(st, stream[k]), k)
  <1> DEFINE p == stream[k]
             whole == [i \in DOMAIN p.ids |-> << <<p.ids[i], 1>> >>]
             new == Video!AddPacket(st, p)
  <1>1. PICK w, fu, out : /\ st = Assembly(w, fu, out) /\ out \in Seq(Wholes(nals))
                          /\ fu = <<>> \/ Begun(fu, k - 1)
    BY DEF Assembled
  <1>2. p \in Packet /\ Placed(stream, nals, k)
    BY DEF Piece
  <1>3. ASSUME p.kind # "fu"
        PROVE  whole \in Seq(Wholes(nals)) /\ (fu = <<>> \/ Begun(fu, k))
    <2>1. p.ids \in Seq(Nat) /\ \A i \in DOMAIN p.ids : p.ids[i] \in DOMAIN nals /\ nals[p.ids[i]].n = 1
      BY <1>2, <1>3 DEF Placed, Packet
    <2>2. whole \in Seq(Wholes(nals))
      <3> HIDE DEF p
      <3> QED
        BY <2>1, SinglesAreWhole
    <2>3. fu = <<>> \/ Begun(fu, k)
      BY <1>1, <1>3, FragmentsStay
    <2> QED
      BY <2>2, <2>3
  <1>4. CASE p.kind = "single"
    <2> PICK v : v = (w /\ ~Video!IsKey(Video!Type(p)))
      OBVIOUS
    <2>1. [st EXCEPT !.wait = @ /\ ~Video!IsKey(Video!Type(p))] = Assembly(v, fu, out)
      BY <1>1 DEF Assembly
    <2>2. new = Video!HandUp(Assembly(v, fu, out), whole)
      BY <1>4, <2>1 DEF Video!AddPacket
    <2>3. p.kind # "fu"
      BY <1>4
    <2> HIDE DEF p, whole, new
    <2>4. PICK more \in Seq(Wholes(nals)) : new = Assembly(v, fu, more)
      BY <1>1, <1>3, <2>2, <2>3, HandUpIs
    <2> QED
      BY <1>3, <2>3, <2>4 DEF Assembled, new, p
  <1>5. CASE p.kind = "stap"
    <2>2. new = Video!HandUp(Assembly(w, fu, out), whole)
      BY <1>1, <1>5 DEF Video!AddPacket
    <2>3. p.kind # "fu"
      BY <1>5
    <2> HIDE DEF p, whole, new
    <2>4. PICK more \in Seq(Wholes(nals)) : new = Assembly(w, fu, more)
      BY <1>1, <1>3, <2>2, <2>3, HandUpIs
    <2> QED
      BY <1>3, <2>3, <2>4 DEF Assembled, new, p
  <1>6. CASE p.kind = "fu"
    <2> PICK more : more = Video!AddFragment(fu, p.ids[1], p.part)
      OBVIOUS
    <2>1. new = Assembly(w, more, out)
      BY <1>1, <1>6 DEF Video!AddPacket, Assembly
    <2>2. more = <<>> \/ Begun(more, k)
      BY <1>1, <1>6, FragmentAdded
    <2> HIDE DEF p, whole, new
    <2> QED
      BY <1>1, <2>1, <2>2 DEF Assembled, new, p
  <1> QED
    BY <1>2, <1>4, <1>5, <1>6 DEF Packet

\* At the end of an access unit the fragments collected are handed up.
Ended(w, fu, out) ==
    \E v : /\ v = (w /\ ~Video!IsKey(nals[fu[1][1]].t))
           /\ Video!EndUnit(Assembly(w, fu, out)) = Video!HandUp(Assembly(v, <<>>, out), <<fu>>)

LEMMA AssemblyEnds ==
    ASSUME NEW w, NEW fu, NEW out, fu # <<>>
    PROVE  Ended(w, fu, out)
  <1> PICK st : st = Assembly(w, fu, out)
    OBVIOUS
  <1> PICK key : key = Video!IsKey(nals[fu[1][1]].t)
    OBVIOUS
  <1> PICK v : v = (st.wait /\ ~key)
    OBVIOUS
  <1>1. st.fu = fu
    BY DEF Assembly
  <1> PICK new : new = [st EXCEPT !.wait = @ /\ ~key, !.fu = <<>>]
    OBVIOUS
  <1>2. Video!EndUnit(st) = Video!HandUp(new, <<fu>>)
    BY <1>1 DEF Video!EndUnit
  <1>3. new = Assembly(v, <<>>, out)
    <2>1. new = [st EXCEPT !.wait = v, !.fu = <<>>]
      OBVIOUS
    <2>2. new = [[st EXCEPT !.wait = v] EXCEPT !.fu = <<>>]
      BY <2>1
    <2>3. [st EXCEPT !.wait = v] = Assembly(v, fu, out)
      BY DEF Assembly
    <2>4. [Assembly(v, fu, out) EXCEPT !.fu = <<>>] = Assembly(v, <<>>, out)
      BY DEF Assembly
    <2> QED
      BY <2>2, <2>3, <2>4
  <1>4. v = (w /\ ~key)
    BY DEF Assembly
  <1> QED
    BY <1>2, <1>3, <1>4 DEF Ended

\* combin_frame() at a marked packet: the NAL unit collected is whole.
LEMMA UnitEnded ==
    ASSUME nals \in Nals, Piece(stream, nals), NEW k \in DOMAIN stream, stream[k].m,
           NEW st, Assembled(st, k)
    PROVE  Assembled(Video!EndUnit(st), k)
  <1> DEFINE new == Video!EndUnit(st)
  <1>1. PICK w, fu, out : /\ st = Assembly(w, fu, out) /\ out \in Seq(Wholes(nals))
                          /\ fu = <<>> \/ Begun(fu, k)
    BY DEF Assembled
  <1>2. CASE fu = <<>>
    <2>1. new = st
      BY <1>1, <1>2 DEF Video!EndUnit, Assembly
    <2> QED
      BY <2>1
  <1>3. CASE fu # <<>>
    <2> DEFINE Upto(id, j) ==
                 /\ fu = [p \in 1..j |-> <<id, p>>]
                 /\ IF k \in DOMAIN stream /\ stream[k].kind = "fu"
                    THEN stream[k].ids[1] = id /\ stream[k].part = j
                    ELSE j = nals[id].n
    <2> PICK id \in DOMAIN nals : \E j \in 1..nals[id].n : Upto(id, j)
      BY <1>1, <1>3 DEF Begun
    <2>1. PICK j \in 1..nals[id].n : Upto(id, j)
      OBVIOUS
    <2>2. nals[id].n \in Nat \ {0}
      BY NalIs
    <2>3. Placed(stream, nals, k)
      BY DEF Piece
    <2>4. j = nals[id].n
      BY <2>1, <2>2, <2>3 DEF Placed
    <2>5. fu = Whole(nals, id)
      BY <2>1, <2>4 DEF Whole
    <2>6. fu \in Wholes(nals)
      BY <2>5 DEF Wholes
    <2>7. <<fu>> \in Seq(Wholes(nals))
      <3> PICK S : S = Wholes(nals)
        OBVIOUS
      <3>1. fu \in S
        BY <2>6
      <3>2. <<fu>> \in Seq(S)
        BY <3>1
      <3> QED
        BY <3>2
    <2>10. PICK v : new = Video!HandUp(Assembly(v, <<>>, out), <<fu>>)
      <3>1. Ended(w, fu, out)
        BY <1>3, AssemblyEnds, Zenon
      <3>2. st = Assembly(w, fu, out)
        BY <1>1
      <3> HIDE DEF Upto
      <3> QED
        BY <3>1, <3>2 DEF Ended
    <2> HIDE DEF new
    <2>11. PICK more \in Seq(Wholes(nals)) : new = Assembly(v, <<>>, more)
      BY <1>1, <2>7, <2>10, HandUpIs
    <2> QED
      BY <2>11 DEF Assembled, new
  <1> QED
    BY <1>2, <1>3

\* What combin_frame() does with a packet
Taken(st, p) ==
    LET added == Video!AddPacket(st, stream[p.k])
    IN IF p.m THEN Video!EndUnit(added) ELSE added

\* What the recursive function of combin_frame() is
Combines(f, buffer, c, n) ==
    f = [i \in 0..n |->
           IF i = 0 THEN [wait |-> wait, fu |-> <<>>, out |-> <<>>]
           ELSE Taken(f[i - 1], Video!At(buffer, c, i - 1))]

\* There is such a function.
LEMMA CombineExists ==
    ASSUME NEW buffer, NEW c, NEW n \in Nat
    PROVE  \E f : Combines(f, buffer, c, n)
  <1> DEFINE bad == {m \in Nat : ~ \E f : Combines(f, buffer, c, m)}
             start == [wait |-> wait, fu |-> <<>>, out |-> <<>>]
             next(st, i) == Taken(st, Video!At(buffer, c, i - 1))
  <1> SUFFICES ASSUME bad # {} PROVE FALSE
    OBVIOUS
  <1>1. bad \in SUBSET Nat
    OBVIOUS
  <1>2. PICK m \in bad : \A y \in bad : m <= y
    <2> HIDE DEF bad
    <2> QED
      BY <1>1, MinIsLeast
  <1>3. m \in Nat /\ ~ \E f : Combines(f, buffer, c, m)
    OBVIOUS
  <1>4. \A f, l : Combines(f, buffer, c, l) <=>
                    f = [i \in 0..l |-> IF i = 0 THEN start ELSE next(f[i - 1], i)]
    BY DEF Combines
  <1> HIDE DEF start, next
  <1>5. CASE m = 0
    <2> DEFINE f == [i \in 0..0 |-> start]
    <2>1. f = [i \in 0..m |-> IF i = 0 THEN start ELSE next(f[i - 1], i)]
      BY <1>5
    <2> HIDE DEF f
    <2> QED
      BY <1>3, <1>4, <2>1
  <1>6. CASE m > 0
    <2>1. m - 1 \in Nat /\ m - 1 \notin bad
      BY <1>2, <1>3, <1>6
    <2>2. PICK g : Combines(g, buffer, c, m - 1)
      BY <2>1
    <2> DEFINE f == [i \in 0..m |-> IF i = 0 THEN start ELSE next(g[i - 1], i)]
    <2>3. \A i \in 0..(m - 1) : f[i] = g[i]
      <3>1. g = [i \in 0..(m - 1) |-> IF i = 0 THEN start ELSE next(g[i - 1], i)]
        BY <1>4, <2>2
      <3>2. \A i \in 0..(m - 1) : g[i] = IF i = 0 THEN start ELSE next(g[i - 1], i)
        BY <3>1
      <3>3. \A i \in 0..(m - 1) : i \in 0..m
        BY <1>3
      <3> QED
        BY <3>2, <3>3
    <2>4. \A i \in 0..m : i # 0 => i - 1 \in 0..(m - 1)
      BY <1>3
    <2>5. \A i \in 0..m : (IF i = 0 THEN start ELSE next(g[i - 1], i))
                          = (IF i = 0 THEN start ELSE next(f[i - 1], i))
      <3> HIDE DEF f
      <3> QED
        BY <2>3, <2>4
    <2>6. f = [i \in 0..m |-> IF i = 0 THEN start ELSE next(f[i - 1], i)]
      <3>1. f = [i \in 0..m |-> IF i = 0 THEN start ELSE next(g[i - 1], i)]
        OBVIOUS
      <3> HIDE DEF f
      <3> QED
        BY <2>5, <3>1
    <2> HIDE DEF f
    <2> QED
      BY <1>3, <1>4, <2>6
  <1> QED
    BY <1>3, <1>5, <1>6

\* What combin_frame() hands up of n packets in a row, the first at place b + 1
LEMMA CombineIs ==
    ASSUME nals \in Nals, Piece(stream, nals), NEW b \in Nat, NEW n \in Nat,
           b + n <= Len(stream), NEW buffer, NEW c,
           \A i \in 1..n : Video!At(buffer, c, i - 1) = [k |-> b + i, m |-> stream[b + i].m]
    PROVE  Video!Combine(buffer, c, n).out \in Seq(Wholes(nals))
  <1> DEFINE f == CHOOSE f : Combines(f, buffer, c, n)
             bad == {i \in 0..n : ~Assembled(f[i], b + i)}
  <1>1. Video!Combine(buffer, c, n) = f[n]
    BY DEF Video!Combine, Combines, Taken
  <1>2. Combines(f, buffer, c, n)
    BY CombineExists
  <1> HIDE DEF f
  <1>3. \A i \in 0..n : f[i] = IF i = 0 THEN [wait |-> wait, fu |-> <<>>, out |-> <<>>]
                               ELSE Taken(f[i - 1], Video!At(buffer, c, i - 1))
    BY <1>2 DEF Combines
  <1>4. bad = {}
    <2> SUFFICES ASSUME bad # {} PROVE FALSE
      OBVIOUS
    <2>1. bad \in SUBSET Nat
      OBVIOUS
    <2>2. PICK m \in bad : \A y \in bad : m <= y
      <3> HIDE DEF bad
      <3> QED
        BY <2>1, MinIsLeast
    <2>3. m \in 0..n /\ ~Assembled(f[m], b + m)
      OBVIOUS
    <2>4. CASE m = 0
      <3>1. f[m] = Assembly(wait, <<>>, <<>>)
        BY <1>3, <2>3, <2>4 DEF Assembly
      <3>2. <<>> \in Seq(Wholes(nals))
        OBVIOUS
      <3> QED
        BY <2>3, <3>1, <3>2 DEF Assembled
    <2>5. CASE m # 0
      <3>1. m - 1 \in 0..n /\ m - 1 \notin bad /\ m \in 1..n
        BY <2>2, <2>3, <2>5
      <3>2. Assembled(f[m - 1], b + (m - 1))
        BY <3>1
      <3> PICK k : k = b + m
        OBVIOUS
      <3>3. k - 1 = b + (m - 1) /\ k \in DOMAIN stream
        <4>1. stream \in Seq(Packet)
          BY DEF Piece
        <4>2. DOMAIN stream = 1..Len(stream) /\ Len(stream) \in Nat
          BY <4>1
        <4> QED
          BY <2>3, <3>1, <4>2
      <3>4. Video!At(buffer, c, m - 1) = [k |-> k, m |-> stream[k].m]
        BY <3>1
      <3> HIDE DEF bad
      <3> PICK added : added = Video!AddPacket(f[m - 1], stream[k])
        OBVIOUS
      <3>5. f[m] = IF stream[k].m THEN Video!EndUnit(added) ELSE added
        <4> PICK p : p = [k |-> k, m |-> stream[k].m]
          OBVIOUS
        <4>1. f[m] = Taken(f[m - 1], p)
          BY <1>3, <2>3, <2>5, <3>4
        <4>2. p.k = k /\ p.m = stream[k].m
          OBVIOUS
        <4> QED
          BY <4>1, <4>2 DEF Taken
      <3>6. Assembled(added, k)
        <4>1. Assembled(f[m - 1], k - 1)
          BY <3>2, <3>3
        <4> QED
          BY <3>3, <4>1, PacketAdded
      <3>7. stream[k].m => Assembled(Video!EndUnit(added), k)
        BY <3>3, <3>6, UnitEnded
      <3>8. Assembled(f[m], k)
        BY <3>5, <3>6, <3>7
      <3> QED
        BY <2>3, <3>8
    <2> QED
      BY <2>4, <2>5
  <1>5. n \in 0..n
    OBVIOUS
  <1>6. Assembled(f[n], b + n)
    BY <1>4, <1>5
  <1>7. f[n].out \in Seq(Wholes(nals))
    BY <1>6 DEF Assembled, Assembly
  <1> QED
    BY <1>1, <1>7

\* NAL unit p of packet a comes before NAL unit q of a later packet b: their numbers say so,
\* or it is the same unit and b the later fragment.
Follows(a, p, b, q) ==
    \/ a.ids[p] < b.ids[q]
    \/ /\ p = 1 /\ q = 1 /\ a.kind = "fu" /\ b.kind = "fu"
       /\ a.ids[1] = b.ids[1] /\ a.part < b.part

\* In s the NAL units come in their order, and the last fragment of one is marked.
Ascends(s) ==
    /\ \A k \in DOMAIN s : \A p, q \in DOMAIN s[k].ids : p < q => s[k].ids[p] < s[k].ids[q]
    /\ \A k, l \in DOMAIN s : k < l =>
         \A p \in DOMAIN s[k].ids, q \in DOMAIN s[l].ids : Follows(s[k], p, s[l], q)
LastMarked(s, ns) == \A k \in DOMAIN s : s[k].kind = "fu" /\ s[k].part = ns[s[k].ids[1]].n => s[k].m
InTurn(s, ns) == Ascends(s) /\ LastMarked(s, ns)

\* The NAL units in s are numbers lo + 1 to hi.
Ranges(s, lo, hi) ==
    \A k \in DOMAIN s : \A p \in DOMAIN s[k].ids :
        s[k].ids[p] \in Nat /\ lo < s[k].ids[p] /\ s[k].ids[p] <= hi

\* Pieces with NAL units one after the other
LEMMA TurnsJoin ==
    ASSUME NEW s \in Seq(Packet), NEW u \in Seq(Packet), NEW ns, InTurn(s, ns), InTurn(u, ns),
           NEW t, Joined(t, s, u), NEW a \in Nat, NEW b \in Nat, NEW c \in Nat, a <= b, b <= c,
           Ranges(s, a, b), Ranges(u, b, c)
    PROVE  t \in Seq(Packet) /\ InTurn(t, ns) /\ Ranges(t, a, c)
  <1> PICK d, n : d = Len(s) /\ n = Len(u)
    OBVIOUS
  <1>1. d \in Nat /\ n \in Nat /\ DOMAIN s = 1..d /\ DOMAIN u = 1..n
    OBVIOUS
  <1>2. Parts(Packet, t, s, u, d, n)
    BY <1>1, ConcatIs
  <1>3. t \in Seq(Packet) /\ Len(t) = d + n /\ DOMAIN t = 1..(d + n)
        /\ \A i \in 1..(d + n) : t[i] = IF i <= d THEN s[i] ELSE u[i - d]
    BY <1>1, <1>2 DEF Parts
  <1>4. ASSUME NEW k \in 1..(d + n)
        PROVE  \/ k \in 1..d /\ t[k] = s[k]
               \/ k > d /\ k - d \in 1..n /\ t[k] = u[k - d]
    BY <1>1, <1>3
  <1>5. ASSUME NEW k \in 1..(d + n), NEW p \in DOMAIN t[k].ids, NEW q \in DOMAIN t[k].ids, p < q
        PROVE  t[k].ids[p] < t[k].ids[q]
    <2>1. CASE k \in 1..d /\ t[k] = s[k]
      BY <1>1, <1>5, <2>1 DEF InTurn, Ascends, LastMarked
    <2>2. CASE k > d /\ k - d \in 1..n /\ t[k] = u[k - d]
      BY <1>1, <1>5, <2>2 DEF InTurn, Ascends, LastMarked
    <2> QED
      BY <1>4, <2>1, <2>2
  <1>6. ASSUME NEW k \in 1..(d + n), NEW l \in 1..(d + n), k < l,
               NEW p \in DOMAIN t[k].ids, NEW q \in DOMAIN t[l].ids
        PROVE  Follows(t[k], p, t[l], q)
    <2>1. CASE l \in 1..d
      <3>1. k \in 1..d /\ t[k] = s[k] /\ t[l] = s[l]
        BY <1>1, <1>3, <1>6, <2>1
      <3> QED
        BY <1>1, <1>6, <2>1, <3>1 DEF InTurn, Ascends, LastMarked
    <2>2. CASE k \in 1..d /\ l > d
      <3>1. t[k] = s[k] /\ t[l] = u[l - d] /\ l - d \in 1..n
        BY <1>1, <1>4, <2>2
      <3> PICK x, y : x = t[k].ids[p] /\ y = t[l].ids[q]
        OBVIOUS
      <3>2. x \in Nat /\ x <= b
        BY <1>1, <2>2, <3>1 DEF Ranges
      <3>3. y \in Nat /\ b < y
        BY <1>1, <3>1 DEF Ranges
      <3>4. x < y
        BY <3>2, <3>3
      <3> QED
        BY <3>4 DEF Follows
    <2>3. CASE k > d
      <3>1. t[k] = u[k - d] /\ k - d \in 1..n /\ t[l] = u[l - d] /\ l - d \in 1..n /\ k - d < l - d
        BY <1>1, <1>3, <1>4, <1>6, <2>3
      <3> QED
        BY <1>1, <3>1 DEF InTurn, Ascends, LastMarked
    <2> QED
      BY <1>1, <1>4, <2>1, <2>2, <2>3
  <1>7. ASSUME NEW k \in 1..(d + n), t[k].kind = "fu", t[k].part = ns[t[k].ids[1]].n PROVE t[k].m
    <2>1. CASE k \in 1..d /\ t[k] = s[k]
      BY <1>1, <1>7, <2>1 DEF InTurn, Ascends, LastMarked
    <2>2. CASE k > d /\ k - d \in 1..n /\ t[k] = u[k - d]
      BY <1>1, <1>7, <2>2 DEF InTurn, Ascends, LastMarked
    <2> QED
      BY <1>4, <2>1, <2>2
  <1>8. InTurn(t, ns)
    BY <1>3, <1>5, <1>6, <1>7 DEF InTurn, Ascends, LastMarked
  <1>9. ASSUME NEW k \in 1..(d + n), NEW p \in DOMAIN t[k].ids
        PROVE  t[k].ids[p] \in Nat /\ a < t[k].ids[p] /\ t[k].ids[p] <= c
    <2> PICK x : x = t[k].ids[p]
      OBVIOUS
    <2>1. CASE k \in 1..d /\ t[k] = s[k]
      <3>1. x \in Nat /\ a < x /\ x <= b
        BY <1>1, <2>1 DEF Ranges
      <3> QED
        BY <3>1
    <2>2. CASE k > d /\ k - d \in 1..n /\ t[k] = u[k - d]
      <3>1. x \in Nat /\ b < x /\ x <= c
        BY <1>1, <2>2 DEF Ranges
      <3> QED
        BY <3>1
    <2> QED
      BY <1>4, <2>1, <2>2
  <1> QED
    BY <1>3, <1>8, <1>9 DEF Ranges

\* NAL units that follow do not change the order.
LEMMA TurnsStay ==
    ASSUME NEW s, NEW ns \in Nals, NEW more \in Nals, Piece(s, ns), InTurn(s, ns)
    PROVE  InTurn(s, ns \o more)
  <1> PICK all : all = ns \o more
    OBVIOUS
  <1>1. \A id \in DOMAIN ns : all[id] = ns[id]
    BY DEF Nals
  <1>2. ASSUME NEW k \in DOMAIN s, s[k].kind = "fu", s[k].part = all[s[k].ids[1]].n PROVE s[k].m
    <2>1. Placed(s, ns, k)
      BY DEF Piece
    <2>2. s[k].ids[1] \in DOMAIN ns
      BY <1>2, <2>1 DEF Placed
    <2> QED
      BY <1>1, <1>2, <2>2 DEF InTurn, Ascends, LastMarked
  <1>3. LastMarked(s, all)
    BY <1>2 DEF LastMarked
  <1> QED
    BY <1>3 DEF InTurn

\* The packets of one NAL unit, if it is the last one of its access unit or takes one packet
LEMMA NalInTurn ==
    ASSUME NEW ns \in Nals, NEW id \in DOMAIN ns, NEW last \in BOOLEAN, last \/ ns[id].n = 1
    PROVE  LET s == Video!SendNal(id, ns[id].n, last)
           IN InTurn(s, ns) /\ Ranges(s, id - 1, id)
  <1> PICK n : n = ns[id].n
    OBVIOUS
  <1> PICK s : s = Video!SendNal(id, n, last)
    OBVIOUS
  <1>1. n \in Nat \ {0} /\ id \in Nat
    BY NalIs
  <1>2. s = [j \in 1..n |-> [kind |-> IF n = 1 THEN "single" ELSE "fu", ids |-> <<id>>, part |-> j,
                             m |-> last /\ j = n]]
    BY DEF Video!SendNal
  <1>3. DOMAIN s = 1..n
    BY <1>2
  <1>4. ASSUME NEW j \in 1..n
        PROVE  /\ s[j].kind = IF n = 1 THEN "single" ELSE "fu"
               /\ s[j].ids = <<id>> /\ s[j].part = j /\ (s[j].m <=> last /\ j = n)
    <2> PICK kind, m : kind = (IF n = 1 THEN "single" ELSE "fu") /\ m = (last /\ j = n)
      OBVIOUS
    <2>1. s[j] = [kind |-> kind, ids |-> <<id>>, part |-> j, m |-> m]
      BY <1>2
    <2>2. s[j].kind = kind /\ s[j].ids = <<id>> /\ s[j].part = j /\ s[j].m = m
      BY <2>1
    <2> QED
      BY <2>2
  <1>5. \A j \in 1..n : DOMAIN s[j].ids = {1} /\ s[j].ids[1] = id
    BY <1>4
  <1>6. ASSUME NEW k \in 1..n, NEW l \in 1..n, k < l,
               NEW p \in DOMAIN s[k].ids, NEW q \in DOMAIN s[l].ids
        PROVE  Follows(s[k], p, s[l], q)
    <2>1. n # 1
      BY <1>1, <1>6
    <2>2. p = 1 /\ q = 1 /\ s[k].kind = "fu" /\ s[l].kind = "fu"
          /\ s[k].ids[1] = id /\ s[l].ids[1] = id /\ s[k].part = k /\ s[l].part = l
      BY <1>4, <1>5, <2>1
    <2> QED
      BY <1>6, <2>2 DEF Follows
  <1>7. ASSUME NEW k \in 1..n, s[k].kind = "fu", s[k].part = ns[s[k].ids[1]].n PROVE s[k].m
    <2>1. s[k].part = k /\ s[k].ids[1] = id /\ n # 1 /\ (s[k].m <=> last /\ k = n)
      BY <1>4, <1>5, <1>7
    <2> QED
      BY <1>7, <2>1
  <1>8. ASSUME NEW k \in 1..n, NEW p \in DOMAIN s[k].ids, NEW q \in DOMAIN s[k].ids, p < q
        PROVE  FALSE
    <2>1. p = 1 /\ q = 1
      BY <1>5
    <2> QED
      BY <1>8, <2>1
  <1>9. InTurn(s, ns)
    BY <1>3, <1>6, <1>7, <1>8 DEF InTurn, Ascends, LastMarked
  <1>10. Ranges(s, id - 1, id)
    <2>1. id \in Nat /\ id - 1 < id /\ id <= id
      BY <1>1
    <2> QED
      BY <1>3, <1>5, <2>1 DEF Ranges
  <1> QED
    BY <1>9, <1>10

\* NAL units lo + 1 to hi one after the other
Turn(s, ns, lo, hi) == s \in Seq(Packet) /\ InTurn(s, ns) /\ Ranges(s, lo, hi)

\* Pieces put together one after the other, one for each NAL unit from d + 1 on
LEMMA FlatInTurn ==
    ASSUME NEW seqs, NEW n \in Nat \ {0}, Len(seqs) = n, NEW ns, NEW d \in Nat,
           \A i \in 1..n : Turn(seqs[i], ns, (d + i) - 1, d + i)
    PROVE  Turn(FlattenSeq(seqs), ns, d, d + n)
  <1> DEFINE f == CHOOSE f : Flattens(f, seqs, n)
             bad == {i \in 1..n : ~Turn(f[i], ns, d, d + i)}
  <1>1. FlattenSeq(seqs) = f[n]
    BY DEF FlattenSeq, Flattens
  <1>2. Flattens(f, seqs, n)
    BY FlattenExists
  <1> HIDE DEF f
  <1>3. \A i \in 1..n : f[i] = IF i = 1 THEN seqs[i] ELSE f[i - 1] \o seqs[i]
    BY <1>2 DEF Flattens
  <1>4. bad = {}
    <2> SUFFICES ASSUME bad # {} PROVE FALSE
      OBVIOUS
    <2>1. bad \in SUBSET Nat
      OBVIOUS
    <2>2. PICK m \in bad : \A y \in bad : m <= y
      <3> HIDE DEF bad
      <3> QED
        BY <2>1, MinIsLeast
    <2>3. m \in 1..n /\ ~Turn(f[m], ns, d, d + m)
      OBVIOUS
    <2>4. CASE m = 1
      <3>1. Turn(seqs[1], ns, (d + 1) - 1, d + 1)
        BY <2>3, <2>4
      <3>2. (d + 1) - 1 = d
        OBVIOUS
      <3>3. f[m] = seqs[1]
        BY <1>3, <2>3, <2>4
      <3> QED
        BY <2>3, <2>4, <3>1, <3>2, <3>3
    <2>5. CASE m # 1
      <3>1. m - 1 \in 1..n /\ m - 1 \notin bad
        BY <2>2, <2>3, <2>5
      <3>2. Turn(f[m - 1], ns, d, d + (m - 1))
        BY <3>1
      <3>3. Joined(f[m], f[m - 1], seqs[m])
        BY <1>3, <2>3, <2>5 DEF Joined
      <3> HIDE DEF bad
      <3> PICK x, y, z : x = d + (m - 1) /\ y = d + m /\ z = f[m - 1]
        OBVIOUS
      <3>4. x \in Nat /\ y \in Nat /\ d <= x /\ x <= y /\ x = (d + m) - 1
        BY <2>3, <3>1
      <3>5. Turn(seqs[m], ns, x, y)
        BY <2>3, <3>4
      <3>6. Turn(z, ns, d, x)
        BY <3>2
      <3>7. z \in Seq(Packet) /\ InTurn(z, ns) /\ Ranges(z, d, x)
        BY <3>6 DEF Turn
      <3>8. seqs[m] \in Seq(Packet) /\ InTurn(seqs[m], ns) /\ Ranges(seqs[m], x, y)
        BY <3>5 DEF Turn
      <3>9. Joined(f[m], z, seqs[m])
        BY <3>3
      <3>10. f[m] \in Seq(Packet) /\ InTurn(f[m], ns) /\ Ranges(f[m], d, y)
        BY <3>4, <3>7, <3>8, <3>9, TurnsJoin
      <3>11. Turn(f[m], ns, d, y)
        BY <3>10 DEF Turn
      <3> QED
        BY <2>3, <3>11
    <2> QED
      BY <2>4, <2>5
  <1>5. n \in 1..n
    OBVIOUS
  <1> QED
    BY <1>1, <1>4, <1>5

\* Only the last NAL unit of an access unit may take several packets.  (Of two fragmented
\* ones only the last is handed up, and a fragmented one after a single one that follows it.)
LastSplit(frame) == \A i \in 1..(Len(frame.nals) - 1) : frame.nals[i].n = 1

\* A STAP-A is in turn.
LEMMA OneInTurn ==
    ASSUME NEW p \in Packet, p.kind = "stap", NEW ns, NEW d \in Nat, NEW n \in Nat,
           DOMAIN p.ids = 1..n, \A i \in 1..n : p.ids[i] = d + i
    PROVE  Turn(<<p>>, ns, d, d + n)
  <1> PICK s : s = <<p>>
    OBVIOUS
  <1>1. s \in Seq(Packet) /\ DOMAIN s = {1} /\ s[1] = p
    OBVIOUS
  <1>2. Ranges(s, d, d + n)
    BY <1>1 DEF Ranges
  <1>3. \A x, y \in DOMAIN p.ids : x < y => p.ids[x] < p.ids[y]
    OBVIOUS
  <1>4. \A k, l \in DOMAIN s : ~(k < l)
    BY <1>1
  <1>5. Ascends(s)
    BY <1>1, <1>3, <1>4 DEF Ascends
  <1>6. LastMarked(s, ns)
    BY <1>1 DEF LastMarked
  <1> QED
    BY <1>1, <1>2, <1>5, <1>6 DEF Turn, InTurn

\* The packets that send_frame() makes come in turn.
LEMMA FrameInTurn ==
    ASSUME nals \in Nals, NEW frame, Video!IsFrame(frame), LastSplit(frame)
    PROVE  Turn(Video!Packets(frame), nals \o frame.nals, Len(nals), Len(nals \o frame.nals))
  <1> DEFINE n == Len(frame.nals)
             d == Len(nals)
             all == nals \o frame.nals
  <1>1. frame.nals \in Nals /\ frame.nals # <<>>
        /\ (frame.fits => \A i \in DOMAIN frame.nals : frame.nals[i].n = 1)
    BY DEF Video!IsFrame, Nals
  <1>2. n \in Nat \ {0} /\ d \in Nat /\ DOMAIN frame.nals = 1..n
    BY <1>1 DEF Nals
  <1>3. /\ all \in Nals /\ Len(all) = d + n /\ DOMAIN all = 1..(d + n)
        /\ \A i \in 1..n : all[d + i] = frame.nals[i]
    <2> DEFINE N == [t : Video!Types, n : Nat \ {0}]
    <2>1. nals \in Seq(N) /\ frame.nals \in Seq(N)
      BY <1>1 DEF Nals
    <2> HIDE DEF N
    <2>2. /\ all \in Seq(N) /\ Len(all) = d + n
          /\ \A i \in 1..(d + n) : all[i] = IF i <= d THEN nals[i] ELSE frame.nals[i - d]
      BY <2>1, ConcatProperties
    <2> HIDE DEF all, d, n
    <2>3. \A i \in 1..n : d + i \in 1..(d + n) /\ ~(d + i <= d) /\ (d + i) - d = i
      BY <1>2
    <2> QED
      BY <2>2, <2>3 DEF N, Nals
  <1> DEFINE id(i) == d + i
  <1>4. \A i \in 1..n : id(i) \in DOMAIN all /\ all[id(i)].n = frame.nals[i].n
    BY <1>2, <1>3
  <1>5. CASE frame.fits /\ n > 1
    <2> DEFINE m == frame.nals[1].t # "par"
               p == [kind |-> "stap", ids |-> [i \in 1..n |-> id(i)], part |-> 1, m |-> m]
    <2>1. Video!Packets(frame) = <<p>>
      BY <1>5 DEF Video!Packets
    <2>2. p \in Packet
      <3>1. m \in BOOLEAN
        OBVIOUS
      <3>2. [i \in 1..n |-> id(i)] \in Seq(Nat)
        <4>1. [i \in 1..n |-> id(i)] \in [1..n -> Nat]
          BY <1>2
        <4> QED
          BY <1>2, <4>1
      <3> HIDE DEF m
      <3> QED
        BY <3>1, <3>2 DEF Packet
    <2>3. p.kind = "stap" /\ DOMAIN p.ids = 1..n /\ \A i \in 1..n : p.ids[i] = d + i
      OBVIOUS
    <2> HIDE DEF p, all, n, d
    <2>4. Turn(<<p>>, all, d, d + n)
      BY <1>2, <2>2, <2>3, OneInTurn
    <2>5. Turn(Video!Packets(frame), all, d, Len(all))
      BY <1>3, <2>1, <2>4
    <2> QED
      BY <2>5 DEF all, d
  <1>6. CASE ~(frame.fits /\ n > 1)
    <2> DEFINE seqs == [i \in 1..n |-> Video!SendNal(id(i), frame.nals[i].n, i = n)]
    <2>1. Video!Packets(frame) = FlattenSeq(seqs)
      <3>1. Video!Packets(frame) = Video!FlattenSeq(seqs)
        BY <1>6 DEF Video!Packets
      <3> HIDE DEF seqs
      <3> QED
        BY <3>1 DEF Video!FlattenSeq, FlattenSeq
    <2>2. Len(seqs) = n
      BY <1>2
    <2>3. ASSUME NEW i \in 1..n PROVE Turn(seqs[i], all, (d + i) - 1, d + i)
      <3> DEFINE last == i = n
      <3>1. seqs[i] = Video!SendNal(id(i), all[id(i)].n, last)
        BY <1>4
      <3>2. last \in BOOLEAN
        OBVIOUS
      <3>3. last \/ all[id(i)].n = 1
        <4>1. last \/ i \in 1..(n - 1)
          BY <1>2
        <4>2. i \in 1..(n - 1) => frame.nals[i].n = 1
          BY DEF LastSplit
        <4>3. all[id(i)].n = frame.nals[i].n
          BY <1>4
        <4> HIDE DEF last, all, id
        <4> QED
          BY <4>1, <4>2, <4>3
      <3> PICK x, s : x = id(i) /\ s = seqs[i]
        OBVIOUS
      <3>4. x \in DOMAIN all
        BY <1>4
      <3>5. s = Video!SendNal(x, all[x].n, last) /\ (last \/ all[x].n = 1)
        BY <3>1, <3>3
      <3> HIDE DEF seqs, last, all, id
      <3>6. InTurn(s, all) /\ Ranges(s, x - 1, x)
        BY <1>3, <3>2, <3>4, <3>5, NalInTurn
      <3>7. s \in Seq(Packet)
        <4>1. Piece(s, all)
          BY <1>3, <3>2, <3>4, <3>5, NalIsPiece
        <4> QED
          BY <4>1 DEF Piece
      <3>8. Turn(s, all, x - 1, x)
        BY <3>6, <3>7 DEF Turn
      <3> QED
        BY <3>8 DEF id
    <2> HIDE DEF seqs, all, n, d
    <2>4. Turn(FlattenSeq(seqs), all, d, d + n)
      BY <1>2, <2>2, <2>3, FlatInTurn
    <2>5. Turn(Video!Packets(frame), all, d, Len(all))
      BY <1>3, <2>1, <2>4
    <2> QED
      BY <2>5 DEF all, d
  <1> QED
    BY <1>5, <1>6

\* The NAL units of t were sent one after the other.
Rising(t) == \A i, j \in DOMAIN t : i < j => t[i][1][1] < t[j][1][1]

\* The NAL units of t were sent before those in the packets after place b.
Before(t, b) ==
    \A i \in DOMAIN t : \A l \in DOMAIN stream : l > b =>
        \A q \in DOMAIN stream[l].ids : t[i][1][1] < stream[l].ids[q]

\* What packet k adds comes after what was there.
Adds(f, k) ==
    /\ Rising(f) /\ Before(f, k)
    /\ \A j \in DOMAIN f : \E q \in DOMAIN stream[k].ids : f[j][1][1] = stream[k].ids[q]

LEMMA RisesOn ==
    ASSUME NEW k \in DOMAIN stream, stream \in Seq(Packet), NEW S, NEW t \in Seq(S), NEW f \in Seq(S),
           NEW u, Joined(u, t, f), Rising(t), Before(t, k - 1), Adds(f, k)
    PROVE  u \in Seq(S) /\ Rising(u) /\ Before(u, k)
  <1> PICK d, n : d = Len(t) /\ n = Len(f)
    OBVIOUS
  <1>1. d \in Nat /\ n \in Nat /\ DOMAIN t = 1..d /\ DOMAIN f = 1..n
    OBVIOUS
  <1>2. Parts(S, u, t, f, d, n)
    BY <1>1, ConcatIs
  <1>3. u \in Seq(S) /\ DOMAIN u = 1..(d + n)
        /\ \A i \in 1..(d + n) : u[i] = IF i <= d THEN t[i] ELSE f[i - d]
    BY <1>1, <1>2 DEF Parts
  <1>4. ASSUME NEW i \in 1..(d + n)
        PROVE  \/ i \in 1..d /\ u[i] = t[i]
               \/ i > d /\ i - d \in 1..n /\ u[i] = f[i - d]
    BY <1>1, <1>3
  <1>5. k \in Nat /\ \A l \in DOMAIN stream : l \in Nat
    OBVIOUS
  <1>6. ASSUME NEW i \in 1..(d + n), NEW l \in DOMAIN stream, l > k, NEW q \in DOMAIN stream[l].ids
        PROVE  u[i][1][1] < stream[l].ids[q]
    <2>1. CASE i \in 1..d /\ u[i] = t[i]
      <3>1. l > k - 1
        BY <1>5, <1>6
      <3> QED
        BY <1>1, <2>1, <3>1 DEF Before
    <2>2. CASE i > d /\ i - d \in 1..n /\ u[i] = f[i - d]
      BY <1>1, <1>6, <2>2 DEF Adds, Before
    <2> QED
      BY <1>4, <2>1, <2>2
  <1>7. ASSUME NEW i \in 1..(d + n), NEW j \in 1..(d + n), i < j
        PROVE  u[i][1][1] < u[j][1][1]
    <2>1. CASE j \in 1..d
      <3>1. i \in 1..d /\ u[i] = t[i] /\ u[j] = t[j]
        BY <1>1, <1>3, <1>7, <2>1
      <3> QED
        BY <1>1, <1>7, <2>1, <3>1 DEF Rising
    <2>2. CASE i \in 1..d /\ j > d
      <3>1. u[i] = t[i] /\ u[j] = f[j - d] /\ j - d \in 1..n
        BY <1>1, <1>4, <2>2
      <3>2. PICK q \in DOMAIN stream[k].ids : f[j - d][1][1] = stream[k].ids[q]
        BY <1>1, <3>1 DEF Adds
      <3>3. k > k - 1
        BY <1>5
      <3>4. t[i][1][1] < stream[k].ids[q]
        BY <1>1, <2>2, <3>3 DEF Before
      <3> QED
        BY <3>1, <3>2, <3>4
    <2>3. CASE i > d
      <3>1. u[i] = f[i - d] /\ i - d \in 1..n /\ u[j] = f[j - d] /\ j - d \in 1..n /\ i - d < j - d
        BY <1>1, <1>3, <1>4, <1>7, <2>3
      <3> QED
        BY <1>1, <3>1 DEF Adds, Rising
    <2> QED
      BY <1>1, <1>4, <2>1, <2>2, <2>3
  <1> QED
    BY <1>3, <1>6, <1>7 DEF Rising, Before

\* What was sent before a place was sent before every later one.
LEMMA BeforeLater ==
    ASSUME NEW t, NEW b \in Nat, NEW c \in Nat, b <= c, stream \in Seq(Packet), Before(t, b)
    PROVE  Before(t, c)
  <1>1. \A l \in DOMAIN stream : l \in Nat
    OBVIOUS
  <1>2. \A l \in Nat : l > c => l > b
    OBVIOUS
  <1> QED
    BY <1>1, <1>2 DEF Before

\* The NAL units of a packet that is no fragment
LEMMA SinglesAdd ==
    ASSUME NEW k \in DOMAIN stream, stream \in Seq(Packet), InTurn(stream, nals),
           stream[k].kind # "fu"
    PROVE  Adds([i \in DOMAIN stream[k].ids |-> << <<stream[k].ids[i], 1>> >>], k)
  <1> PICK ids : ids = stream[k].ids
    OBVIOUS
  <1> PICK f : f = [i \in DOMAIN ids |-> << <<ids[i], 1>> >>]
    OBVIOUS
  <1>1. DOMAIN f = DOMAIN ids /\ \A i \in DOMAIN ids : f[i][1][1] = ids[i]
    OBVIOUS
  <1>2. Rising(f)
    <2>1. \A p, q \in DOMAIN ids : p < q => ids[p] < ids[q]
      BY DEF InTurn, Ascends
    <2> QED
      BY <1>1, <2>1 DEF Rising
  <1>3. Before(f, k)
    <2> SUFFICES ASSUME NEW i \in DOMAIN ids, NEW l \in DOMAIN stream, l > k, NEW q \in DOMAIN stream[l].ids
                 PROVE  ids[i] < stream[l].ids[q]
      BY <1>1 DEF Before
    <2>1. k < l
      OBVIOUS
    <2>2. Follows(stream[k], i, stream[l], q)
      BY <2>1 DEF InTurn, Ascends
    <2> QED
      BY <2>2 DEF Follows
  <1> QED
    BY <1>1, <1>2, <1>3 DEF Adds

\* The fragments collected up to a marked one
LEMMA FragmentsAdd ==
    ASSUME nals \in Nals, NEW k \in DOMAIN stream, Piece(stream, nals), InTurn(stream, nals),
           stream[k].kind = "fu", stream[k].m, NEW fu, Begun(fu, k)
    PROVE  Adds(<<fu>>, k)
  <1>1. PICK id \in DOMAIN nals : \E j \in 1..nals[id].n :
          fu = [p \in 1..j |-> <<id, p>>] /\ stream[k].ids[1] = id /\ stream[k].part = j
    BY DEF Begun
  <1>2. PICK j \in 1..nals[id].n :
          fu = [p \in 1..j |-> <<id, p>>] /\ stream[k].ids[1] = id /\ stream[k].part = j
    BY <1>1
  <1>3. nals[id].n \in Nat \ {0}
    BY NalIs
  <1>4. stream \in Seq(Packet) /\ Placed(stream, nals, k)
    BY DEF Piece
  <1>5. j = nals[id].n /\ 1 \in DOMAIN stream[k].ids
    BY <1>2, <1>3, <1>4 DEF Placed
  <1>6. fu[1] = <<id, 1>>
    BY <1>2, <1>3
  <1>7. fu[1][1] = id
    BY <1>6
  <1> PICK f : f = <<fu>>
    OBVIOUS
  <1>8. DOMAIN f = {1} /\ f[1][1][1] = id
    BY <1>7
  <1>9. ASSUME NEW l \in DOMAIN stream, l > k, NEW q \in DOMAIN stream[l].ids
        PROVE  id < stream[l].ids[q]
    <2>1. k < l
      BY <1>9
    <2>2. Follows(stream[k], 1, stream[l], q)
      BY <1>5, <2>1 DEF InTurn, Ascends
    <2>3. CASE q = 1 /\ stream[l].kind = "fu" /\ stream[l].ids[1] = id /\ j < stream[l].part
      <3>1. Placed(stream, nals, l)
        BY DEF Piece
      <3>2. stream[l].part \in 1..nals[id].n
        BY <2>3, <3>1 DEF Placed
      <3> QED
        BY <1>3, <1>5, <2>3, <3>2
    <2> QED
      BY <1>2, <2>2, <2>3 DEF Follows
  <1>10. Before(f, k)
    BY <1>8, <1>9 DEF Before
  <1>11. Rising(f)
    BY <1>8 DEF Rising
  <1>12. \A i \in DOMAIN f : f[i][1][1] = stream[k].ids[1]
    BY <1>2, <1>8
  <1> QED
    BY <1>5, <1>10, <1>11, <1>12 DEF Adds

\* With out, what was handed up goes up to packet b in the order of the stream; nothing is
\* handed up while the receiver waits for a keyframe.
Grown(w, out, b) ==
    /\ out \in Seq(Wholes(nals)) /\ (w => wait /\ out = <<>>)
    /\ \E s : Joined(s, handed, out) /\ Rising(s) /\ Before(s, b)

\* What is assembled of the packets up to place k: fragments are collected only as long as
\* the packets are fragments, and of the packet at place k itself nothing was handed up then.
Turned(st, k) ==
    \E w, fu, out :
        /\ st = Assembly(w, fu, out) /\ Grown(w, out, k)
        /\ \/ fu = <<>>
           \/ k \in DOMAIN stream /\ stream[k].kind = "fu" /\ Begun(fu, k) /\ Grown(w, out, k - 1)

\* A marked packet ends the access unit.
Closed(st, k) == k \in DOMAIN stream /\ stream[k].m => st.fu = <<>>

LEMMA GrownLater ==
    ASSUME NEW w, NEW out, NEW k \in Nat \ {0}, stream \in Seq(Packet), Grown(w, out, k - 1)
    PROVE  Grown(w, out, k)
  <1>1. PICK s : Joined(s, handed, out) /\ Rising(s) /\ Before(s, k - 1)
    BY DEF Grown
  <1>2. k - 1 \in Nat /\ k \in Nat /\ k - 1 <= k
    OBVIOUS
  <1>3. Before(s, k)
    BY <1>1, <1>2, BeforeLater
  <1> QED
    BY <1>1, <1>3 DEF Grown

\* What invoke_rtp_frame() gets joins what it got before, up to packet k.
HandsUp(w, fu, out, frames, k) ==
    \E v, new : /\ Video!HandUp(Assembly(w, fu, out), frames) = Assembly(v, fu, new)
                /\ Grown(v, new, k)

\* Three sequences put together
LEMMA JoinedAnyWay ==
    ASSUME NEW S, NEW t \in Seq(S), NEW u \in Seq(S), NEW v \in Seq(S)
    PROVE  (t \o u) \o v = t \o (u \o v)
  BY ConcatAssociative, SMT

\* What invoke_rtp_frame() gets of packet k follows on what it got before.
LEMMA HandUpTurned ==
    ASSUME NEW k \in DOMAIN stream, stream \in Seq(Packet), handed \in Seq(Wholes(nals)),
           NEW w, NEW fu, NEW out, NEW a, a = k - 1, Grown(w, out, a),
           NEW frames \in Seq(Wholes(nals)), Adds(frames, k)
    PROVE  HandsUp(w, fu, out, frames, k)
  <1> DEFINE st == Assembly(w, fu, out)
  <1>1. k \in Nat \ {0}
    OBVIOUS
  <1>2. CASE st.wait
    <2>1. Video!HandUp(st, frames) = st
      BY <1>2 DEF Video!HandUp
    <2>2. Grown(w, out, k)
      BY <1>1, GrownLater
    <2> QED
      BY <2>1, <2>2 DEF HandsUp
  <1>3. CASE ~st.wait
    <2> PICK new : new = out \o frames
      OBVIOUS
    <2>1. Video!HandUp(st, frames) = Assembly(w, fu, new)
      BY <1>3 DEF Video!HandUp, Assembly
    <2>2. ~w
      BY <1>3 DEF Assembly
    <2>3. PICK s : Joined(s, handed, out) /\ Rising(s) /\ Before(s, k - 1)
      BY DEF Grown
    <2>4. out \in Seq(Wholes(nals))
      BY DEF Grown
    <2> PICK S : S = Wholes(nals)
      OBVIOUS
    <2>5. handed \in Seq(S) /\ out \in Seq(S) /\ frames \in Seq(S) /\ s = handed \o out
      BY <2>3, <2>4 DEF Joined
    <2>6. new \in Seq(S) /\ s \in Seq(S) /\ handed \o new = s \o frames
      <3>1. new \in Seq(S) /\ s \in Seq(S)
        BY <2>5
      <3> HIDE DEF st
      <3>2. (handed \o out) \o frames = handed \o (out \o frames)
        <4>1. handed \in Seq(S) /\ out \in Seq(S) /\ frames \in Seq(S)
          BY <2>5
        <4> QED
          BY ONLY <4>1, JoinedAnyWay
      <3> QED
        BY <2>5, <3>1, <3>2
    <2> PICK u : u = s \o frames
      OBVIOUS
    <2>7. Joined(u, s, frames) /\ Joined(u, handed, new)
      BY <2>6 DEF Joined
    <2>8. Rising(u) /\ Before(u, k)
      BY <2>3, <2>5, <2>6, <2>7, RisesOn
    <2>9. Grown(w, new, k)
      BY <2>2, <2>6, <2>7, <2>8 DEF Grown
    <2> QED
      BY <2>1, <2>9 DEF HandsUp
  <1> QED
    BY <1>2, <1>3

\* No fragments are left when a packet that is none comes.
LEMMA NoneCollected ==
    ASSUME nals \in Nals, Piece(stream, nals), InTurn(stream, nals),
           NEW k \in DOMAIN stream, stream[k].kind # "fu",
           NEW fu, Begun(fu, k - 1), k - 1 \in DOMAIN stream, stream[k - 1].kind = "fu",
           ~stream[k - 1].m
    PROVE  FALSE
  <1> PICK a : a = k - 1
    OBVIOUS
  <1>1. PICK id \in DOMAIN nals : \E j \in 1..nals[id].n :
          fu = [p \in 1..j |-> <<id, p>>] /\ stream[a].ids[1] = id /\ stream[a].part = j
    BY DEF Begun
  <1>2. PICK j \in 1..nals[id].n : stream[a].ids[1] = id /\ stream[a].part = j
    BY <1>1
  <1>3. nals[id].n \in Nat \ {0}
    BY NalIs
  <1>4. j # nals[id].n
    BY <1>2 DEF InTurn, LastMarked
  <1>5. stream \in Seq(Packet) /\ Placed(stream, nals, a)
    BY DEF Piece
  <1>6. a + 1 = k
    <2>1. k \in Int
      BY <1>5
    <2> QED
      BY <2>1
  <1>7. Continues(stream[a], stream[k])
    BY <1>2, <1>3, <1>4, <1>5, <1>6 DEF Placed
  <1> QED
    BY <1>7 DEF Continues

\* combin_frame() on the packet at place k
LEMMA PacketTurned ==
    ASSUME nals \in Nals, Piece(stream, nals), InTurn(stream, nals), handed \in Seq(Wholes(nals)),
           NEW k \in DOMAIN stream, NEW st, Turned(st, k - 1), Closed(st, k - 1)
    PROVE  Turned(Video!AddPacket(st, stream[k]), k)
  <1> DEFINE p == stream[k]
             whole == [i \in DOMAIN p.ids |-> << <<p.ids[i], 1>> >>]
             new == Video!AddPacket(st, p)
  <1>1. PICK w, fu, out :
          /\ st = Assembly(w, fu, out) /\ Grown(w, out, k - 1)
          /\ \/ fu = <<>>
             \/ k - 1 \in DOMAIN stream /\ stream[k - 1].kind = "fu" /\ Begun(fu, k - 1)
    BY DEF Turned
  <1>2. p \in Packet /\ Placed(stream, nals, k) /\ stream \in Seq(Packet) /\ k \in Nat \ {0}
    <2>1. stream \in Seq(Packet) /\ Placed(stream, nals, k)
      BY DEF Piece
    <2> QED
      BY <2>1
  <1>3. ASSUME p.kind # "fu"
        PROVE  whole \in Seq(Wholes(nals)) /\ Adds(whole, k) /\ fu = <<>>
    <2>1. p.ids \in Seq(Nat) /\ \A i \in DOMAIN p.ids : p.ids[i] \in DOMAIN nals /\ nals[p.ids[i]].n = 1
      BY <1>2, <1>3 DEF Placed, Packet
    <2>2. whole \in Seq(Wholes(nals))
      <3> HIDE DEF p
      <3> QED
        BY <2>1, SinglesAreWhole
    <2>3. Adds(whole, k)
      BY <1>2, <1>3, SinglesAdd
    <2>4. ASSUME fu # <<>> PROVE FALSE
      <3>1. k - 1 \in DOMAIN stream /\ stream[k - 1].kind = "fu" /\ Begun(fu, k - 1)
        BY <1>1, <2>4
      <3>2. st.fu = fu
        BY <1>1 DEF Assembly
      <3>3. ~stream[k - 1].m
        BY <2>4, <3>1, <3>2 DEF Closed
      <3> QED
        BY <1>3, <3>1, <3>3, NoneCollected
    <2> QED
      BY <2>2, <2>3, <2>4
  <1>4. ASSUME NEW v, v => w, p.kind # "fu", new = Video!HandUp(Assembly(v, fu, out), whole)
        PROVE  Turned(new, k)
    <2>1. Grown(v, out, k - 1)
      BY <1>1, <1>4 DEF Grown
    <2>2. whole \in Seq(Wholes(nals)) /\ Adds(whole, k) /\ fu = <<>>
      BY <1>3, <1>4
    <2> HIDE DEF p, whole, new
    <2>3. PICK x, more : /\ Video!HandUp(Assembly(v, fu, out), whole) = Assembly(x, fu, more)
                         /\ Grown(x, more, k)
      <3> PICK a : a = k - 1
        OBVIOUS
      <3>1. Grown(v, out, a)
        BY <2>1
      <3>2. HandsUp(v, fu, out, whole, k)
        BY <1>2, <2>2, <3>1, HandUpTurned, Zenon
      <3> QED
        BY <3>2 DEF HandsUp
    <2> QED
      BY <1>4, <2>2, <2>3 DEF Turned
  <1>5. CASE p.kind = "single"
    <2> PICK v : v = (w /\ ~Video!IsKey(Video!Type(p)))
      OBVIOUS
    <2>1. [st EXCEPT !.wait = @ /\ ~Video!IsKey(Video!Type(p))] = Assembly(v, fu, out)
      BY <1>1 DEF Assembly
    <2>2. new = Video!HandUp(Assembly(v, fu, out), whole)
      BY <1>5, <2>1 DEF Video!AddPacket
    <2>3. p.kind # "fu" /\ (v => w)
      BY <1>5
    <2> HIDE DEF p, whole, new
    <2> QED
      BY <1>4, <2>2, <2>3 DEF new, p
  <1>6. CASE p.kind = "stap"
    <2>2. new = Video!HandUp(Assembly(w, fu, out), whole)
      BY <1>1, <1>6 DEF Video!AddPacket
    <2>3. p.kind # "fu"
      BY <1>6
    <2> HIDE DEF p, whole, new
    <2> QED
      BY <1>4, <2>2, <2>3 DEF new, p
  <1>7. CASE p.kind = "fu"
    <2> PICK more : more = Video!AddFragment(fu, p.ids[1], p.part)
      OBVIOUS
    <2>1. new = Assembly(w, more, out)
      BY <1>1, <1>7 DEF Video!AddPacket, Assembly
    <2>2. more = <<>> \/ Begun(more, k)
      BY <1>1, <1>7, FragmentAdded
    <2>3. Grown(w, out, k)
      BY <1>1, <1>2, GrownLater
    <2>4. stream[k].kind = "fu"
      BY <1>7
    <2> HIDE DEF p, whole, new
    <2> QED
      BY <1>1, <2>1, <2>2, <2>3, <2>4 DEF Turned, new, p
  <1> QED
    BY <1>2, <1>5, <1>6, <1>7 DEF Packet

\* combin_frame() at a marked packet
LEMMA UnitTurned ==
    ASSUME nals \in Nals, Piece(stream, nals), InTurn(stream, nals), handed \in Seq(Wholes(nals)),
           NEW k \in DOMAIN stream, stream[k].m, NEW st, Turned(st, k)
    PROVE  Turned(Video!EndUnit(st), k) /\ Video!EndUnit(st).fu = <<>>
  <1> DEFINE new == Video!EndUnit(st)
  <1>0. ASSUME NEW w, NEW fu, NEW out, NEW a, a = k - 1, Grown(w, out, a), NEW frames \in Seq(Wholes(nals)),
               Adds(frames, k)
        PROVE  HandsUp(w, fu, out, frames, k)
    <2>1. stream \in Seq(Packet)
      BY DEF Piece
    <2> HIDE DEF new
    <2> QED
      BY <1>0, <2>1, HandUpTurned, Zenon
  <1>1. PICK w, fu, out :
          /\ st = Assembly(w, fu, out) /\ Grown(w, out, k)
          /\ \/ fu = <<>>
             \/ k \in DOMAIN stream /\ stream[k].kind = "fu" /\ Begun(fu, k) /\ Grown(w, out, k - 1)
    BY DEF Turned
  <1>2. CASE fu = <<>>
    <2>1. new = st /\ st.fu = <<>>
      BY <1>1, <1>2 DEF Video!EndUnit, Assembly
    <2> QED
      BY <2>1
  <1>3. CASE fu # <<>>
    <2>1. stream[k].kind = "fu" /\ Begun(fu, k) /\ Grown(w, out, k - 1)
      BY <1>1, <1>3
    <2>2. Adds(<<fu>>, k)
      BY <2>1, FragmentsAdd
    <2>3. PICK id \in DOMAIN nals : \E j \in 1..nals[id].n :
            fu = [p \in 1..j |-> <<id, p>>] /\ stream[k].ids[1] = id /\ stream[k].part = j
      BY <2>1 DEF Begun
    <2>4. PICK j \in 1..nals[id].n :
            fu = [p \in 1..j |-> <<id, p>>] /\ stream[k].ids[1] = id /\ stream[k].part = j
      BY <2>3
    <2>5. nals[id].n \in Nat \ {0}
      BY NalIs
    <2>6. Placed(stream, nals, k)
      BY DEF Piece
    <2>7. j = nals[id].n
      BY <2>1, <2>4, <2>5, <2>6 DEF Placed
    <2>8. fu = Whole(nals, id)
      BY <2>4, <2>7 DEF Whole
    <2>9. <<fu>> \in Seq(Wholes(nals))
      <3> PICK S : S = Wholes(nals)
        OBVIOUS
      <3>1. fu \in S
        BY <2>8 DEF Wholes
      <3>2. <<fu>> \in Seq(S)
        BY <3>1
      <3> QED
        BY <3>2
    <2>10. PICK v : (v => w) /\ new = Video!HandUp(Assembly(v, <<>>, out), <<fu>>)
      <3>1. Ended(w, fu, out)
        BY <1>3, AssemblyEnds, Zenon
      <3>2. st = Assembly(w, fu, out)
        BY <1>1
      <3> QED
        BY <3>1, <3>2 DEF Ended
    <2>11. Grown(v, out, k - 1)
      BY <2>1, <2>10 DEF Grown
    <2>12. stream \in Seq(Packet)
      BY DEF Piece
    <2> HIDE DEF new
    <2> PICK frames : frames = <<fu>>
      OBVIOUS
    <2>13. PICK x, more : /\ Video!HandUp(Assembly(v, <<>>, out), frames) = Assembly(x, <<>>, more)
                          /\ Grown(x, more, k)
      <3>1. frames \in Seq(Wholes(nals)) /\ Adds(frames, k)
        BY <2>2, <2>9
      <3> PICK a : a = k - 1
        OBVIOUS
      <3>2. Grown(v, out, a)
        BY <2>11
      <3> QED
        <4>1. HandsUp(v, <<>>, out, frames, k)
          BY <1>0, <3>1, <3>2, Zenon
        <4> QED
          BY <4>1 DEF HandsUp
    <2>14. new = Assembly(x, <<>>, more)
      BY <2>10, <2>13
    <2>15. new.fu = <<>>
      BY <2>14 DEF Assembly
    <2> QED
      BY <2>13, <2>14, <2>15 DEF Turned, new
  <1> QED
    BY <1>2, <1>3

\* What combin_frame() hands up of n packets in a row, the first at place b + 1, follows on
\* what was handed up of those before.
LEMMA CombineTurned ==
    ASSUME nals \in Nals, Piece(stream, nals), InTurn(stream, nals), handed \in Seq(Wholes(nals)),
           NEW b \in Nat, NEW n \in Nat, b + n <= Len(stream), NEW buffer, NEW c,
           \A i \in 1..n : Video!At(buffer, c, i - 1) = [k |-> b + i, m |-> stream[b + i].m],
           Rising(handed), Before(handed, b)
    PROVE  LET st == Video!Combine(buffer, c, n) IN Grown(st.wait, st.out, b + n)
  <1> DEFINE f == CHOOSE f : Combines(f, buffer, c, n)
             bad == {i \in 0..n : ~(Turned(f[i], b + i) /\ Closed(f[i], b + i))}
  <1>1. Video!Combine(buffer, c, n) = f[n]
    BY DEF Video!Combine, Combines, Taken
  <1>2. Combines(f, buffer, c, n)
    BY CombineExists
  <1> HIDE DEF f
  <1>3. \A i \in 0..n : f[i] = IF i = 0 THEN [wait |-> wait, fu |-> <<>>, out |-> <<>>]
                               ELSE Taken(f[i - 1], Video!At(buffer, c, i - 1))
    BY <1>2 DEF Combines
  <1>4. bad = {}
    <2> SUFFICES ASSUME bad # {} PROVE FALSE
      OBVIOUS
    <2>1. bad \in SUBSET Nat
      OBVIOUS
    <2>2. PICK m \in bad : \A y \in bad : m <= y
      <3> HIDE DEF bad
      <3> QED
        BY <2>1, MinIsLeast
    <2>3. m \in 0..n /\ ~(Turned(f[m], b + m) /\ Closed(f[m], b + m))
      OBVIOUS
    <2>4. CASE m = 0
      <3>1. f[m] = Assembly(wait, <<>>, <<>>) /\ b + m = b
        BY <1>3, <2>3, <2>4 DEF Assembly
      <3>2. Grown(wait, <<>>, b)
        <4> PICK S : S = Wholes(nals)
          OBVIOUS
        <4>1. handed \in Seq(S)
          OBVIOUS
        <4>2. handed = handed \o <<>> /\ <<>> \in Seq(S)
          BY <4>1, ConcatEmptySeq
        <4>3. Joined(handed, handed, <<>>)
          BY <4>2 DEF Joined
        <4> QED
          BY <4>2, <4>3 DEF Grown
      <3>3. Turned(f[m], b + m)
        BY <3>1, <3>2 DEF Turned
      <3>4. Closed(f[m], b + m)
        BY <3>1 DEF Closed, Assembly
      <3> QED
        BY <2>3, <3>3, <3>4
    <2>5. CASE m # 0
      <3>1. m - 1 \in 0..n /\ m - 1 \notin bad /\ m \in 1..n
        BY <2>2, <2>3, <2>5
      <3>2. Turned(f[m - 1], b + (m - 1)) /\ Closed(f[m - 1], b + (m - 1))
        BY <3>1
      <3> PICK k : k = b + m
        OBVIOUS
      <3>3. k - 1 = b + (m - 1) /\ k \in DOMAIN stream
        <4>1. stream \in Seq(Packet)
          BY DEF Piece
        <4>2. DOMAIN stream = 1..Len(stream) /\ Len(stream) \in Nat
          BY <4>1
        <4> QED
          BY <2>3, <3>1, <4>2
      <3>4. Video!At(buffer, c, m - 1) = [k |-> k, m |-> stream[k].m]
        BY <3>1
      <3> HIDE DEF bad
      <3> PICK added : added = Video!AddPacket(f[m - 1], stream[k])
        OBVIOUS
      <3>5. f[m] = IF stream[k].m THEN Video!EndUnit(added) ELSE added
        <4> PICK p : p = [k |-> k, m |-> stream[k].m]
          OBVIOUS
        <4>1. f[m] = Taken(f[m - 1], p)
          BY <1>3, <2>3, <2>5, <3>4
        <4>2. p.k = k /\ p.m = stream[k].m
          OBVIOUS
        <4> QED
          BY <4>1, <4>2 DEF Taken
      <3>6. Turned(added, k)
        <4> PICK st : st = f[m - 1]
          OBVIOUS
        <4>1. Turned(st, k - 1) /\ Closed(st, k - 1)
          BY <3>2, <3>3
        <4>2. Turned(Video!AddPacket(st, stream[k]), k)
          BY <3>3, <4>1, PacketTurned
        <4> QED
          BY <4>2
      <3>7. CASE stream[k].m
        <4>1. Turned(Video!EndUnit(added), k) /\ Video!EndUnit(added).fu = <<>>
          BY <3>3, <3>6, <3>7, UnitTurned
        <4>2. Turned(f[m], k) /\ Closed(f[m], k)
          BY <3>5, <3>7, <4>1 DEF Closed
        <4> QED
          BY <2>3, <4>2
      <3>8. CASE ~stream[k].m
        <4>1. Turned(f[m], k) /\ Closed(f[m], k)
          BY <3>5, <3>6, <3>8 DEF Closed
        <4> QED
          BY <2>3, <4>1
      <3> QED
        BY <3>7, <3>8
    <2> QED
      BY <2>4, <2>5
  <1>5. n \in 0..n
    OBVIOUS
  <1>6. Turned(f[n], b + n)
    BY <1>4, <1>5
  <1>7. Grown(f[n].wait, f[n].out, b + n)
    BY <1>6 DEF Turned, Assembly
  <1> QED
    BY <1>1, <1>7

\* The NAL units sent later come after those handed up.
LEMMA BeforeStays ==
    ASSUME nals \in Nals, handed \in Seq(Wholes(nals)), NEW b \in Nat, Before(handed, b),
           NEW d \in Nat, d = Len(stream), stream \in Seq(Packet),
           NEW more, NEW n \in Nat, Len(more) = n, Joined(stream', stream, more), more \in Seq(Packet),
           NEW hi, Ranges(more, Len(nals), hi), handed' = handed
    PROVE  Before(handed, b)'
  <1>1. /\ DOMAIN stream' = 1..(d + n) /\ DOMAIN stream = 1..d /\ DOMAIN more = 1..n
        /\ \A i \in 1..(d + n) : stream'[i] = IF i <= d THEN stream[i] ELSE more[i - d]
    <2>1. Parts(Packet, stream', stream, more, d, n)
      BY ConcatIs
    <2> QED
      BY <2>1 DEF Parts
  <1>2. ASSUME NEW i \in DOMAIN handed
        PROVE  handed[i][1][1] \in Nat /\ handed[i][1][1] <= Len(nals)
    <2>1. handed[i] \in Wholes(nals)
      <3> PICK S : S = Wholes(nals)
        OBVIOUS
      <3>1. handed \in Seq(S)
        OBVIOUS
      <3> QED
        BY <3>1
    <2>2. PICK id \in DOMAIN nals : handed[i] = Whole(nals, id)
      BY <2>1 DEF Wholes
    <2>3. nals[id].n \in Nat \ {0}
      BY NalIs
    <2>4. handed[i] = [p \in 1..nals[id].n |-> <<id, p>>] /\ 1 \in 1..nals[id].n
      BY <2>2, <2>3 DEF Whole
    <2>5. handed[i][1][1] = id
      BY <2>4
    <2>6. id \in 1..Len(nals) /\ Len(nals) \in Nat
      BY DEF Nals
    <2> QED
      BY <2>5, <2>6
  <1>3. Len(nals) \in Nat
    BY DEF Nals
  <1>4. ASSUME NEW i \in DOMAIN handed, NEW l \in 1..(d + n), l > b, NEW q \in DOMAIN stream'[l].ids
        PROVE  handed[i][1][1] < stream'[l].ids[q]
    <2>1. CASE l <= d
      <3>1. l \in DOMAIN stream /\ stream'[l] = stream[l]
        BY <1>1, <2>1
      <3> QED
        BY <1>4, <3>1 DEF Before
    <2>2. CASE ~(l <= d)
      <3>1. l - d \in DOMAIN more /\ stream'[l] = more[l - d]
        BY <1>1, <2>2
      <3> PICK x, y : x = handed[i][1][1] /\ y = stream'[l].ids[q]
        OBVIOUS
      <3>2. y \in Nat /\ Len(nals) < y
        BY <3>1 DEF Ranges
      <3>3. x \in Nat /\ x <= Len(nals)
        BY <1>2
      <3>4. x < y
        BY <1>3, <3>2, <3>3
      <3> QED
        BY <3>4
    <2> QED
      BY <2>1, <2>2
  <1> QED
    BY <1>1, <1>4 DEF Before

\* The comparisons are those of the audio receiver.
LEMMA SameNumbers ==
    /\ \A a, b : Video!AheadOf(a, b) <=> AheadOf(a, b)
    /\ \A a, b : Video!ForwardDiff(a, b) = ForwardDiff(a, b)
    /\ \A a, b : Video!AheadOfMod(a, b, BufferSize) <=> Overflows(a, b)
  <1>1. \A a, b : Video!ForwardDiff(a, b) = ForwardDiff(a, b)
    BY DEF Video!ForwardDiff, ForwardDiff
  <1>2. \A a, b : Video!AheadOf(a, b) <=> AheadOf(a, b)
    BY <1>1 DEF Video!AheadOf, Video!AheadOrAt, AheadOf, AheadOrAt
  <1>3. \A a, b : Video!AheadOfMod(a, b, BufferSize) <=> Overflows(a, b)
    BY DEF Overflows, Video!AheadOfMod, Video!AheadOrAtMod, Video!ForwardDiffMod, Video!MinDiffMod,
           Video!ReverseDiffMod, AheadOfMod, AheadOrAtMod, ForwardDiffMod, MinDiffMod, ReverseDiffMod
  <1> QED
    BY <1>1, <1>2, <1>3

\* Packet j of the stream, counted from 0, as it is sent
Sent(j) == [k |-> j + 1, m |-> stream[j + 1].m]

\* From packet b on, the buffer has some of the packets up to e and nothing else.
Keeps(buffer, b, e) ==
    \A j \in b..(b + BufferSize - 1) :
        buffer[Slot(j)] # Video!None => j <= e /\ buffer[Slot(j)] = Sent(j)

IsBuffer(buffer) == buffer = [i \in Slots |-> buffer[i]]

\* The number of packet j
LEMMA VideoNumberIs ==
    ASSUME First \in Nat, NEW j \in Nat
    PROVE  Video!Number(j + 1) = Seq16(j)
  <1>1. network.first + (j + 1) - 1 = First + j
    BY DEF First
  <1> QED
    BY <1>1 DEF Video!Number, Seq16

\* A packet put into its slot
LEMMA StoredKeeps ==
    ASSUME First \in Nat, NEW b \in Nat, NEW k \in Nat, b <= k, k - b < BufferSize,
           NEW e \in Nat, NEW f \in Nat, e <= f, k <= f,
           NEW old, IsBuffer(old), Keeps(old, b, e),
           NEW new, new = [old EXCEPT ![Slot(k)] = Sent(k)]
    PROVE  IsBuffer(new) /\ Keeps(new, b, f)
  <1>1. BufferSize \in Nat /\ Slot(k) \in Slots
    BY BufferAssumption, SlotInBuffer
  <1>2. \A i \in Slots : new[i] = IF i = Slot(k) THEN Sent(k) ELSE old[i]
    BY <1>1 DEF IsBuffer
  <1>3. IsBuffer(new)
    BY DEF IsBuffer
  <1>4. ASSUME NEW j \in b..(b + BufferSize - 1), new[Slot(j)] # Video!None
        PROVE  j <= f /\ new[Slot(j)] = Sent(j)
    <2>1. j \in Nat /\ Slot(j) \in Slots
      BY <1>1, SlotInBuffer
    <2>2. CASE j = k
      BY <1>2, <2>1, <2>2
    <2>3. CASE j # k
      <3>1. Slot(j) # Slot(k)
        <4>1. CASE j < k
          BY <1>1, <2>1, <4>1, SlotsDiffer
        <4>2. CASE k < j
          BY <1>1, <2>1, <4>2, SlotsDiffer
        <4> QED
          BY <2>1, <2>3, <4>1, <4>2
      <3>2. new[Slot(j)] = old[Slot(j)]
        BY <1>2, <2>1, <3>1
      <3>3. j <= e /\ old[Slot(j)] = Sent(j)
        BY <1>4, <3>2 DEF Keeps
      <3> QED
        BY <2>1, <3>2, <3>3
    <2> QED
      BY <2>2, <2>3
  <1> QED
    BY <1>3, <1>4 DEF Keeps

\* Taking out the first n packets leaves the buffer as it should be for those after them.
LEMMA WithoutKeeps ==
    ASSUME First \in Nat, NEW b \in Nat, NEW e \in Nat, e - b < BufferSize,
           NEW n \in Nat, b + n <= e + 1,
           NEW buffer, Keeps(buffer, b, e),
           NEW new, new = Video!Without(buffer, Seq16(b), 0..(n - 1))
    PROVE  /\ IsBuffer(new) /\ Keeps(new, b + n, e)
           /\ \A j \in (b + n)..(b + BufferSize - 1) : new[Slot(j)] = buffer[Slot(j)]
  <1>1. BufferSize \in Nat /\ BufferSize > 0
    BY BufferAssumption
  <1>2. \A o \in 0..(n - 1) : ((Seq16(b) + o) % T) % BufferSize = Slot(b + o)
    BY Seq16Shift DEF Slot
  <1> DEFINE Gone(i) == \E o \in 0..(n - 1) : i = ((Seq16(b) + o) % T) % BufferSize
  <1>3. new = [i \in Slots |-> IF Gone(i) THEN Video!None ELSE buffer[i]]
    BY DEF Video!Without, Video!Slots, Slots
  <1>4. \A i : Gone(i) <=> \E o \in 0..(n - 1) : i = Slot(b + o)
    BY <1>2
  <1> HIDE DEF Gone
  <1>5. IsBuffer(new)
    BY <1>3 DEF IsBuffer
  <1>6. ASSUME NEW j \in (b + n)..(b + n + BufferSize - 1), new[Slot(j)] # Video!None
        PROVE  j <= e /\ new[Slot(j)] = Sent(j)
    <2>1. j \in Nat /\ Slot(j) \in Slots
      BY <1>1, SlotInBuffer
    <2>2. ~Gone(Slot(j)) /\ new[Slot(j)] = buffer[Slot(j)]
      BY <1>3, <1>6, <2>1
    <2>3. j < b + BufferSize
      <3> SUFFICES ASSUME j >= b + BufferSize PROVE FALSE
        BY <1>1, <2>1
      <3> PICK o : o = j - BufferSize - b
        OBVIOUS
      <3>1. o \in 0..(n - 1) /\ j = (b + o) + BufferSize /\ b + o \in Nat
        BY <1>1
      <3>2. Slot(j) = Slot(b + o)
        BY <3>1, SlotAgain
      <3> QED
        BY <1>4, <2>2, <3>1, <3>2
    <2>4. j \in b..(b + BufferSize - 1)
      BY <1>1, <2>1, <2>3
    <2> QED
      BY <1>6, <2>2, <2>4 DEF Keeps
  <1>7. ASSUME NEW j \in (b + n)..(b + BufferSize - 1) PROVE new[Slot(j)] = buffer[Slot(j)]
    <2>1. j \in Nat /\ Slot(j) \in Slots
      BY <1>1, SlotInBuffer
    <2>2. ASSUME NEW o \in 0..(n - 1) PROVE Slot(j) # Slot(b + o)
      <3>1. b + o \in Nat /\ b + o < j /\ j - (b + o) < BufferSize
        BY <1>1
      <3> QED
        BY <2>1, <3>1, SlotsDiffer
    <2>3. ~Gone(Slot(j))
      BY <1>4, <2>2
    <2> QED
      BY <1>3, <2>1, <2>3
  <1> QED
    BY <1>5, <1>6, <1>7 DEF Keeps

\* What lies o numbers after packet b
LEMMA AtIs ==
    ASSUME First \in Nat, NEW b \in Nat, NEW o \in Nat, NEW buffer
    PROVE  Video!At(buffer, Seq16(b), o) = buffer[Slot(b + o)]
  BY Seq16Shift DEF Video!At, Slot

\* The first n packets from b on are in the buffer.
Lined(buffer, c, b, n) ==
    /\ b + n <= Len(stream)
    /\ \A i \in 1..n : Video!At(buffer, c, i - 1) = [k |-> b + i, m |-> stream[b + i].m]

LEMMA LinedIs ==
    ASSUME First \in Nat, NEW b \in Nat, NEW e \in Nat, e - b < BufferSize, NEW n \in Nat, b + n <= e + 1,
           NEW buffer, Keeps(buffer, b, e), \A o \in 0..(n - 1) : buffer[Slot(b + o)] # Video!None,
           Len(stream) \in Nat, e < Len(stream), NEW c, c = Seq16(b)
    PROVE  Lined(buffer, c, b, n)
  <1>1. BufferSize \in Nat
    BY BufferAssumption
  <1>2. ASSUME NEW i \in 1..n
        PROVE  Video!At(buffer, Seq16(b), i - 1) = [k |-> b + i, m |-> stream[b + i].m]
    <2> PICK o : o = i - 1
      OBVIOUS
    <2>1. o \in Nat /\ o \in 0..(n - 1) /\ (b + o) + 1 = b + i /\ b + o \in b..(b + BufferSize - 1)
      BY <1>1
    <2>2. Video!At(buffer, Seq16(b), o) = buffer[Slot(b + o)]
      BY <2>1, AtIs
    <2>3. buffer[Slot(b + o)] = Sent(b + o)
      BY <2>1 DEF Keeps
    <2> QED
      BY <2>1, <2>2, <2>3 DEF Sent
  <1>3. b + n <= Len(stream)
    OBVIOUS
  <1> QED
    BY <1>2, <1>3 DEF Lined

\* Max() is the largest element of a set of numbers up to n.
LEMMA MaxIsThere ==
    ASSUME NEW n \in Nat, NEW S \in SUBSET (0..n), S # {}
    PROVE  Max(S) \in S /\ \A z \in S : z <= Max(S)
  <1> DEFINE R == {y \in 0..n : n - y \in S}
  <1>1. R \in SUBSET Nat
    OBVIOUS
  <1>2. R # {}
    <2>1. PICK x \in S : TRUE
      OBVIOUS
    <2>2. n - x \in R
      BY <2>1
    <2> QED
      BY <2>2
  <1>3. PICK y \in R : \A z \in R : y <= z
    <2> HIDE DEF R
    <2> QED
      BY <1>1, <1>2, MinIsLeast
  <1>4. n - y \in S /\ y \in 0..n
    OBVIOUS
  <1>5. \A z \in S : n - y >= z
    <2> SUFFICES ASSUME NEW z \in S PROVE n - y >= z
      OBVIOUS
    <2>1. n - z \in R
      OBVIOUS
    <2>2. y <= n - z
      BY <1>3, <2>1
    <2> QED
      BY <1>4, <2>2
  <1> HIDE DEF R
  <1> QED
    BY <1>4, <1>5 DEF Max

\* find_a_frame(): the packets counted are all there, the last one is marked, and no
\* marked packet after it has all those before it.
LEMMA CompleteIs ==
    ASSUME First \in Nat, NEW b \in Nat, NEW e \in Nat, b <= e, 2 * (e - b) < BufferSize, NEW buffer
    PROVE  LET n == Video!Complete(buffer, Seq16(b), Seq16(e))
           IN /\ n \in Nat /\ b + n <= e + 1
              /\ \A o \in 0..(n - 1) : buffer[Slot(b + o)] # Video!None
              /\ n = 0 \/ buffer[Slot((b + n) - 1)].m
              /\ \A m \in (b + n)..e : buffer[Slot(m)].m => \E j \in b..m : buffer[Slot(j)] = Video!None
  <1> DEFINE d == e - b
             ends == {o \in 0..d : /\ Video!At(buffer, Seq16(b), o).m
                                   /\ \A i \in 0..o : Video!Filled(buffer, Seq16(b), i)}
             n == Video!Complete(buffer, Seq16(b), Seq16(e))
  <1>1. T \in Nat /\ BufferSize \in Nat /\ BufferSize > 0 /\ BufferSize <= T /\ d \in Nat
    <2>1. T \in Nat /\ T > 0 /\ BufferSize \in Nat /\ BufferSize > 0 /\ T % BufferSize = 0
      BY HalfOfT, BufferAssumption
    <2>2. ASSUME T < BufferSize PROVE FALSE
      BY <2>1, <2>2, ModSmall
    <2> QED
      BY <2>1, <2>2
  <1>2. Video!ForwardDiff(Seq16(b), Seq16(e)) = d
    BY <1>1, PacketsApart, SameNumbers
  <1>3. n = IF Video!AheadOf(Seq16(b), Seq16(e)) \/ ends = {} THEN 0 ELSE Video!Max(ends) + 1
    BY <1>2 DEF Video!Complete
  <1>6. ASSUME NEW m \in b..e, buffer[Slot(m)].m, \A j \in b..m : buffer[Slot(j)] # Video!None
        PROVE  m - b \in ends
    <2> PICK o : o = m - b
      OBVIOUS
    <2>1. o \in 0..d /\ b + o = m /\ o < BufferSize
      BY <1>1
    <2>2. Video!At(buffer, Seq16(b), o).m
      BY <1>6, <2>1, AtIs
    <2>3. ASSUME NEW i \in 0..o PROVE Video!Filled(buffer, Seq16(b), i)
      <3>1. b + i \in b..m /\ i < BufferSize /\ i \in Nat
        BY <1>1, <2>1
      <3>2. buffer[Slot(b + i)] # Video!None
        BY <1>6, <3>1
      <3> QED
        BY <3>1, <3>2, AtIs DEF Video!Filled
    <2> QED
      BY <2>1, <2>2, <2>3
  <1>7. ~Video!AheadOf(Seq16(b), Seq16(e))
    <2>1. T = 2 * (T \div 2) /\ T \div 2 \in Nat
      BY HalfOfT
    <2>2. b - e < T \div 2 /\ e - b < T \div 2
      BY <1>1, <2>1
    <2> QED
      BY <2>2, LaterIsAhead, SameNumbers
  <1>4. CASE ends = {}
    <2>1. n = 0
      BY <1>3, <1>4
    <2>2. ASSUME NEW m \in b..e, buffer[Slot(m)].m PROVE \E j \in b..m : buffer[Slot(j)] = Video!None
      BY <1>4, <1>6, <2>2
    <2> HIDE DEF n, ends
    <2> QED
      BY <1>1, <2>1, <2>2 DEF n
  <1>5. CASE ends # {}
    <2>1. ends # {} /\ n = Max(ends) + 1
      <3>1. ends # {} /\ n = Video!Max(ends) + 1
        BY <1>3, <1>5, <1>7
      <3> HIDE DEF ends, n
      <3> QED
        BY <3>1 DEF Video!Max, Max
    <2>2. ends \in SUBSET (0..d)
      OBVIOUS
    <2> PICK x : x = Max(ends)
      OBVIOUS
    <2>3. x \in ends /\ \A z \in ends : z <= x
      <3> HIDE DEF ends, d
      <3> QED
        BY <1>1, <2>1, <2>2, MaxIsThere
    <2>4. x \in 0..d /\ \A i \in 0..x : Video!Filled(buffer, Seq16(b), i)
      BY <2>3
    <2>5. \A o \in 0..x : buffer[Slot(b + o)] # Video!None
      <3> SUFFICES ASSUME NEW o \in 0..x PROVE buffer[Slot(b + o)] # Video!None
        OBVIOUS
      <3>1. o \in Nat /\ Video!At(buffer, Seq16(b), o) # Video!None
        BY <2>4 DEF Video!Filled
      <3> QED
        BY <3>1, AtIs
    <2>8. buffer[Slot(b + x)].m
      <3>1. x \in Nat /\ Video!At(buffer, Seq16(b), x).m
        BY <2>3
      <3> QED
        BY <3>1, AtIs
    <2> HIDE DEF n, ends, d
    <2>6. n = x + 1 /\ n - 1 = x
      BY <1>1, <2>1, <2>4
    <2>7. n \in Nat /\ b + n <= e + 1
      BY <1>1, <2>4, <2>6 DEF d
    <2>9. ASSUME NEW m \in (b + n)..e, buffer[Slot(m)].m, \A j \in b..m : buffer[Slot(j)] # Video!None
          PROVE  FALSE
      <3>1. m \in b..e
        BY <2>7
      <3>2. m - b \in ends
        BY <1>6, <2>9, <3>1
      <3>3. m - b <= x
        BY <2>3, <3>2
      <3> QED
        BY <2>4, <2>6, <3>1, <3>3
    <2>10. (b + n) - 1 = b + x
      BY <2>4, <2>6
    <2> QED
      BY <2>5, <2>6, <2>7, <2>8, <2>9, <2>10 DEF n
  <1> QED
    BY <1>4, <1>5

\* check_for_drop(): what is given up is a run of numbers up to the newest at most.
LEMMA DroppedIs ==
    ASSUME First \in Nat, NEW b \in Nat, NEW e \in Nat, b <= e, 2 * (e - b) < BufferSize, NEW buffer
    PROVE  \E n \in Nat : b + n <= e + 1 /\ Video!Dropped(buffer, Seq16(b), Seq16(e)) = 0..(n - 1)
  <1> DEFINE d == e - b
             ends == {o \in 0..d : /\ Video!Filled(buffer, Seq16(b), o)
                                   /\ Video!At(buffer, Seq16(b), o).m}
             drop == Video!Dropped(buffer, Seq16(b), Seq16(e))
  <1>1. T \in Nat /\ BufferSize \in Nat /\ BufferSize > 0 /\ BufferSize <= T /\ d \in Nat
    <2>1. T \in Nat /\ T > 0 /\ BufferSize \in Nat /\ BufferSize > 0 /\ T % BufferSize = 0
      BY HalfOfT, BufferAssumption
    <2>2. ASSUME T < BufferSize PROVE FALSE
      BY <2>1, <2>2, ModSmall
    <2> QED
      BY <2>1, <2>2
  <1>2. Video!ForwardDiff(Seq16(b), Seq16(e)) = d
    BY <1>1, PacketsApart, SameNumbers
  <1>3. drop = IF Video!AheadOf(Seq16(b), Seq16(e)) THEN {}
               ELSE 0..(IF ends = {} THEN d ELSE Video!Min(ends))
    BY <1>2 DEF Video!Dropped
  <1>4. CASE drop = {}
    <2>1. 0..(0 - 1) = {}
      OBVIOUS
    <2> HIDE DEF drop
    <2> QED
      BY <1>1, <1>4, <2>1 DEF drop
  <1>5. CASE ends = {} /\ drop = 0..d
    <2>1. d + 1 \in Nat /\ b + (d + 1) <= e + 1 /\ (d + 1) - 1 = d
      BY <1>1
    <2> HIDE DEF drop, d, ends
    <2> QED
      BY <1>5, <2>1 DEF drop
  <1>6. CASE ends # {} /\ drop = 0..Video!Min(ends)
    <2>1. ends \in SUBSET Nat
      OBVIOUS
    <2> PICK x : x = Min(ends)
      OBVIOUS
    <2>2. x \in ends
      <3> HIDE DEF ends
      <3> QED
        BY <1>6, <2>1, MinIsLeast
    <2>3. x \in 0..d
      BY <2>2
    <2> HIDE DEF drop, ends
    <2>4. drop = 0..x
      BY <1>6 DEF Video!Min, Min
    <2>5. x + 1 \in Nat /\ b + (x + 1) <= e + 1 /\ (x + 1) - 1 = x
      BY <1>1, <2>3
    <2> HIDE DEF d
    <2> QED
      BY <2>4, <2>5 DEF drop
  <1> QED
    BY <1>3, <1>4, <1>5, <1>6

LEMMA SameCardinality == \A S : Video!Cardinality(S) = Cardinality(S)
  BY DEF Video!Cardinality, Cardinality

\* The losses and the reordering of network w are few, measured by the numbers there are, and
\* nothing is sent again.
Near(w) ==
    /\ w.first \in Nat /\ w.window \in Nat \ {0} /\ w.losses \in Nat /\ w.answers = "none"
    /\ BufferSize + 2 * (w.losses + 2 * w.window) + 4 <= T

\* What is sent in network w can be handed up in the order it was sent in: an access unit has
\* one fragmented NAL unit at most and at its end, and either no packet overtakes another or
\* the receiver never gives up packets because of a silence.
InSequence(w) == (\A frame \in w.frames : LastSplit(frame)) /\ (w.window = 1 \/ ~w.silences)

\* What was handed up came in the order of the stream, and before packet b.
Shown(b) == Rising(handed) /\ Before(handed, b)

\* So it is when the receiver waits for packet b; without silences it waits for a keyframe
\* only as long as nothing was handed up.
Past(b) ==
    InSequence(network) /\ (network.window = 1 \/ ~jumped) =>
        Shown(b) /\ (~network.silences => ~late /\ (wait => handed = <<>>))

\* The receiver waits for packet b and has packets up to e; of the packets sent, the one at
\* place top is the latest that has come.
Position(top, b, e) ==
    /\ e < top /\ top - network.window <= e
    /\ b <= e + 1 /\ 2 * (e - b) < BufferSize
    /\ begin = Seq16(b) /\ end = Seq16(e)
    /\ IsBuffer(packs) /\ Keeps(packs, b, e)

\* The second half of insert_packet(), when the packet is in its slot: the search
Searched(buffer, c, d, restart) ==
    LET n == Video!Complete(buffer, c, d)
        rest == Video!Without(buffer, c, 0..(n - 1))
        b2 == (c + n) % T
        drop == IF late /\ ~restart /\ n = 0 THEN Video!Dropped(rest, b2, d) ELSE {}
    IN /\ begin' = (b2 + Video!Cardinality(drop)) % T
       /\ packs' = Video!Without(rest, b2, drop)
       /\ handed' = handed \o Video!Combine(buffer, c, n).out
       /\ ~late => ~late' /\ (wait' => Video!Combine(buffer, c, n).wait)

\* What it hands up is whole, and what it leaves in the buffer is in place.
LEMMA VideoSearch ==
    ASSUME First \in Nat, network' = network, stream' = stream, nals' = nals, nals \in Nals,
           Piece(stream, nals), handed \in Seq(Wholes(nals)),
           NEW b \in Nat, NEW e \in Nat, b <= e, 2 * (e - b) < BufferSize, e < Len(stream),
           NEW buffer, Keeps(buffer, b, e), NEW restart,
           Searched(buffer, Seq16(b), Seq16(e), restart)
    PROVE  /\ handed' \in Seq(Wholes(nals))
           /\ \E c \in Nat : /\ b <= c /\ c <= e + 1 /\ begin' = Seq16(c)
                             /\ IsBuffer(packs') /\ Keeps(packs', c, e)
                             /\ InTurn(stream, nals) /\ Shown(b) => Shown(c)'
           /\ InTurn(stream, nals) /\ Shown(b) /\ ~late => ~late' /\ (wait' => wait /\ handed' = handed)
  <1>0. PICK n, rest, b2, drop :
          /\ n = Video!Complete(buffer, Seq16(b), Seq16(e))
          /\ rest = Video!Without(buffer, Seq16(b), 0..(n - 1))
          /\ b2 = (Seq16(b) + n) % T
          /\ drop = IF late /\ ~restart /\ n = 0 THEN Video!Dropped(rest, b2, Seq16(e)) ELSE {}
    OBVIOUS
  <1>1. /\ begin' = (b2 + Video!Cardinality(drop)) % T
        /\ packs' = Video!Without(rest, b2, drop)
        /\ handed' = handed \o Video!Combine(buffer, Seq16(b), n).out
        /\ ~late => ~late' /\ (wait' => Video!Combine(buffer, Seq16(b), n).wait)
    BY <1>0 DEF Searched
  <1>2. BufferSize \in Nat /\ BufferSize > 0 /\ Len(stream) \in Nat
    BY BufferAssumption DEF Piece
  <1>3. n \in Nat /\ b + n <= e + 1 /\ \A o \in 0..(n - 1) : buffer[Slot(b + o)] # Video!None
    BY <1>0, CompleteIs
  <1>4. e - b < BufferSize
    BY <1>2
  <1>5. IsBuffer(rest) /\ Keeps(rest, b + n, e)
    BY <1>0, <1>3, <1>4, WithoutKeeps
  <1>6. b2 = Seq16(b + n) /\ b + n \in Nat
    <2>1. n \in Nat
      BY <1>3
    <2>2. (Seq16(b) + n) % T = Seq16(b + n)
      BY <2>1, Seq16Shift, Zenon
    <2> QED
      BY <1>0, <2>1, <2>2
  <1>7. PICK x \in Nat : b + n + x <= e + 1 /\ drop = 0..(x - 1)
    <2>1. CASE late /\ ~restart /\ n = 0
      <3>1. drop = Video!Dropped(rest, Seq16(b), Seq16(e)) /\ b + n = b
        BY <1>0, <1>3, <1>6, <2>1
      <3>2. PICK x \in Nat : b + x <= e + 1 /\ Video!Dropped(rest, Seq16(b), Seq16(e)) = 0..(x - 1)
        BY DroppedIs
      <3> QED
        BY <3>1, <3>2
    <2>2. CASE ~(late /\ ~restart /\ n = 0)
      <3>1. drop = {} /\ 0..(0 - 1) = {} /\ b + n + 0 <= e + 1
        BY <1>0, <1>3, <2>2
      <3> QED
        BY <3>1
    <2> QED
      BY <2>1, <2>2
  <1>8. Video!Cardinality(drop) = x
    <2>1. Cardinality(0..(x - 1)) = IF 0 > x - 1 THEN 0 ELSE (x - 1) - 0 + 1
      BY FS_Interval
    <2> QED
      BY <1>7, <2>1, SameCardinality
  <1>9. begin' = Seq16(b + n + x)
    BY <1>1, <1>6, <1>8, Seq16Shift
  <1>10. IsBuffer(packs') /\ Keeps(packs', b + n + x, e)
    <2>1. packs' = Video!Without(rest, Seq16(b + n), 0..(x - 1))
      BY <1>1, <1>6, <1>7
    <2>2. e - (b + n) < BufferSize
      BY <1>2, <1>3, <1>4
    <2> PICK c : c = b + n
      OBVIOUS
    <2>3. IsBuffer(packs') /\ Keeps(packs', c + x, e)
      BY <1>5, <1>6, <1>7, <2>1, <2>2, WithoutKeeps
    <2> QED
      BY <2>3
  <1> PICK st, at : st = Video!Combine(buffer, Seq16(b), n) /\ at = Seq16(b)
    OBVIOUS
  <1>11. Lined(buffer, at, b, n)
    BY <1>0, <1>2, <1>3, <1>4, LinedIs
  <1>12. handed' \in Seq(Wholes(nals))
    <2> PICK out : out = st.out
      OBVIOUS
    <2>3. out \in Seq(Wholes(nals))
      BY <1>3, <1>11, CombineIs DEF Lined
    <2> PICK S : S = Wholes(nals)
      OBVIOUS
    <2>4. handed \in Seq(S) /\ out \in Seq(S) /\ handed' = handed \o out
      BY <1>1, <2>3
    <2>5. handed' \in Seq(S)
      BY <2>4
    <2> QED
      BY <2>5
  <1>13. b + n + x \in Nat /\ b <= b + n + x /\ b + n \in Nat /\ b + n <= b + n + x
    BY <1>3, <1>7
  <1>14. ASSUME InTurn(stream, nals), Shown(b)
         PROVE  Shown(b + n + x)' /\ (~late => ~late' /\ (wait' => wait /\ handed' = handed))
    <2>1. Grown(st.wait, st.out, b + n)
      BY <1>3, <1>11, <1>14, CombineTurned DEF Shown, Lined
    <2> PICK out : out = st.out
      OBVIOUS
    <2>2. /\ out \in Seq(Wholes(nals)) /\ (st.wait => wait /\ out = <<>>)
          /\ \E s : Joined(s, handed, out) /\ Rising(s) /\ Before(s, b + n)
      BY <2>1 DEF Grown
    <2>3. handed' = handed \o out /\ (~late => ~late' /\ (wait' => st.wait))
      BY <1>1
    <2>4. Rising(handed') /\ Before(handed', b + n)
      BY <2>2, <2>3 DEF Joined
    <2>5. stream \in Seq(Packet)
      BY DEF Piece
    <2> PICK c, d : c = b + n /\ d = b + n + x
      OBVIOUS
    <2>6. Before(handed', d)
      BY <1>13, <2>4, <2>5, BeforeLater
    <2>7. Shown(d)'
      BY <2>4, <2>6 DEF Shown, Rising, Before
    <2>8. out = <<>> => handed' = handed
      <3> PICK S : S = Wholes(nals)
        OBVIOUS
      <3>1. handed \in Seq(S)
        OBVIOUS
      <3> QED
        BY <2>3, <3>1, ConcatEmptySeq
    <2> QED
      BY <2>2, <2>3, <2>7, <2>8
  <1> QED
    BY <1>7, <1>9, <1>10, <1>12, <1>13, <1>14

\* Packets b to e are where the network and the receiver can keep them apart from packet k.
LEMMA InReach ==
    ASSUME NEW h \in Nat, NEW n \in Nat, NEW l \in Nat, NEW w \in Nat,
           w > 0, n + 2 * (l + 2 * w) + 4 <= 2 * h,
           NEW top \in Nat, NEW k \in Nat, NEW b \in Nat, NEW e \in Nat,
           e < top, top - w <= e, b <= e + 1, 2 * (e - b) < n,
           top - w <= k, k < top + l + w
    PROVE  b - k < h /\ k - b < h /\ e - k < h /\ k - e < h
  OBVIOUS

\* Where the newest packet of the buffer is when the latest has come
LEMMA NearNewest ==
    ASSUME NEW w \in Nat, w > 0, NEW top \in Nat, NEW k \in Nat, NEW f \in Nat, NEW new,
           new = IF k + 1 > top THEN k + 1 ELSE top,
           top - w <= f, f < top \/ f = k, k <= f
    PROVE  f < new /\ new - w <= f
  OBVIOUS

\* Packet k is one that may come next: not the latest nor far from it, and less than half
\* the buffer after the one that the receiver waits for.
MayCome(top, k) ==
    /\ top <= Len(stream) /\ k < Len(stream) /\ k + 1 # top
    /\ top - network.window <= k /\ k < top + network.losses + network.window
    /\ ~reset /\ ~AheadOf(begin, Seq16(k)) => 2 * ForwardDiff(begin, Seq16(k)) < BufferSize

\* The latest packet after packet k has come
Newest(top, k) == IF k + 1 > top THEN k + 1 ELSE top

\* The receiver starts anew, or it waits for some packet and has packets up to another.
Positioned(top) ==
    \/ reset /\ Past(top)
    \/ ~reset /\ \E b, e \in Nat : Position(top, b, e) /\ Past(b)

\* A packet that starts the receiver anew is not overtaken by others, or it is the first one
\* of those handed up.
LEMMA StartsAnew ==
    ASSUME Near(network), stream \in Seq(Packet), NEW top \in Nat, NEW k \in Nat,
           Positioned(top), MayCome(top, k),
           InSequence(network), network.window = 1 \/ (~jumped /\ wait)
    PROVE  Shown(k) /\ (~network.silences => ~late /\ (wait => handed = <<>>))
  <1>1. PICK b \in Nat : b <= top /\ Past(b)
    <2>1. CASE reset
      BY <2>1 DEF Positioned
    <2>2. CASE ~reset
      <3>1. PICK b \in Nat, e \in Nat : Position(top, b, e) /\ Past(b)
        BY <2>2 DEF Positioned
      <3>2. b <= top
        BY <3>1 DEF Position
      <3> QED
        BY <3>1, <3>2
    <2> QED
      BY <2>1, <2>2
  <1>2. Shown(b) /\ (~network.silences => ~late /\ (wait => handed = <<>>))
    BY <1>1 DEF Past
  <1>3. CASE network.window = 1
    <2>1. top - 1 <= k /\ k + 1 # top
      BY <1>3 DEF MayCome
    <2>2. b <= k
      BY <1>1, <2>1
    <2>3. Shown(k)
      BY <1>2, <2>2, BeforeLater DEF Shown
    <2> QED
      BY <1>2, <2>3
  <1>4. CASE network.window # 1
    <2>1. handed = <<>>
      BY <1>2, <1>4 DEF InSequence
    <2>2. DOMAIN handed = {}
      BY <2>1
    <2>3. Shown(k)
      BY <2>2 DEF Shown, Rising, Before
    <2> QED
      BY <1>2, <2>3
  <1> QED
    BY <1>3, <1>4

\* insert_packet() puts packet p into its slot and searches.
Inserts(p) ==
    LET seq == Video!Number(p.k)
        restart == reset \/ Video!AheadOf(begin % T, seq)
        b0 == IF restart THEN seq ELSE begin
        e0 == IF restart THEN seq ELSE end
        old == IF restart THEN Video!EmptyBuffer ELSE packs
        buffer == [old EXCEPT ![seq % BufferSize] = p]
        e1 == IF Video!AheadOf(e0, seq) THEN e0 ELSE seq
        b1 == IF Video!AheadOfMod(b0, e1, BufferSize) THEN e1 ELSE b0
    IN /\ reset' = FALSE /\ end' = e1 /\ Searched(buffer, b1, e1, restart)
       /\ ~jumped' => ~jumped /\ (restart => wait)

LEMMA InsertIs == ASSUME NEW p, Video!Insert(p) PROVE Inserts(p)
  <1> DEFINE seq == Video!Number(p.k)
             restart == reset \/ Video!AheadOf(begin % T, seq)
             b0 == IF restart THEN seq ELSE begin
             e0 == IF restart THEN seq ELSE end
             old == IF restart THEN Video!EmptyBuffer ELSE packs
             buffer == [old EXCEPT ![seq % BufferSize] = p]
             e1 == IF Video!AheadOf(e0, seq) THEN e0 ELSE seq
             b1 == IF Video!AheadOfMod(b0, e1, BufferSize) THEN e1 ELSE b0
  <1>1. reset' = FALSE
    BY Zenon DEF Video!Insert
  <1>2. end' = e1
    BY Zenon DEF Video!Insert
  <1>3. ~jumped' => ~jumped /\ (restart => wait)
    BY Zenon DEF Video!Insert
  <1>4. ASSUME ~late
        PROVE  ~late' /\ (wait' => Video!Combine(buffer, b1, Video!Complete(buffer, b1, e1)).wait)
    BY <1>4, Zenon DEF Video!Insert
  <1>5. Searched(buffer, b1, e1, restart)
    BY <1>4, Zenon DEF Video!Insert, Searched
  <1> QED
    BY <1>1, <1>2, <1>3, <1>5 DEF Inserts

\* Packets b and e are less than half the numbers away from packet k.
Apart(b, e, k) ==
    LET h == T \div 2 IN b - k < h /\ k - b < h /\ e - k < h /\ k - e < h /\ k - b < T

LEMMA ApartIs ==
    ASSUME Near(network), Len(stream) \in Nat,
           NEW top \in Nat, NEW k \in Nat, NEW b \in Nat, NEW e \in Nat,
           Position(top, b, e), MayCome(top, k)
    PROVE  Apart(b, e, k)
  <1> PICK w : w = network.window
    OBVIOUS
  <1> PICK l : l = network.losses
    OBVIOUS
  <1> PICK h : h = T \div 2
    OBVIOUS
  <1>1. First \in Nat /\ w \in Nat /\ w > 0 /\ l \in Nat
        /\ BufferSize + 2 * (l + 2 * w) + 4 <= T
    BY DEF Near, First
  <1>2. /\ T \in Nat /\ T > 0 /\ BufferSize \in Nat /\ BufferSize > 0 /\ BufferSize <= T
        /\ Len(stream) \in Nat /\ h \in Nat /\ T = 2 * h
    <2>1. T \in Nat /\ T > 0 /\ BufferSize \in Nat /\ BufferSize > 0
      BY HalfOfT, BufferAssumption
    <2>2. h \in Nat /\ T = 2 * h
      BY HalfOfT
    <2>3. BufferSize <= T
      <3>1. \A x, y, t \in Nat : t + 2 * (x + 2 * y) + 4 <= T => t <= T
        BY <2>1
      <3> QED
        BY <1>1, <2>1, <3>1, Zenon
    <2> QED
      BY <2>1, <2>2, <2>3
  <1>3. e < top /\ top - w <= e /\ b <= e + 1 /\ 2 * (e - b) < BufferSize
    BY DEF Position
  <1>4. top - w <= k /\ k < top + l + w
    BY DEF MayCome
  <1>5. b - k < h /\ k - b < h /\ e - k < h /\ k - e < h
    <2>1. /\ h \in Nat /\ BufferSize \in Nat /\ l \in Nat /\ w \in Nat /\ w > 0
          /\ BufferSize + 2 * (l + 2 * w) + 4 <= 2 * h
      BY <1>1, <1>2
    <2> QED
      BY <1>3, <1>4, <2>1, InReach, Zenon
  <1>6. k - b < T
    BY <1>2, <1>5
  <1> QED
    BY <1>5, <1>6 DEF Apart

\* A packet that does not come before the one waited for does not start the receiver anew.
LEMMA NoneAhead ==
    ASSUME Near(network), Len(stream) \in Nat,
           NEW top \in Nat, NEW k \in Nat, NEW b \in Nat, NEW e \in Nat,
           Position(top, b, e), MayCome(top, k)
    PROVE  Video!AheadOf(begin % T, Seq16(k)) <=> b > k
  <1>1. begin = Seq16(b) /\ First \in Nat /\ T \in Nat /\ T > 0
    BY HalfOfT DEF Position, Near, First
  <1>2. begin \in Nat /\ begin < T /\ 0 <= begin
    <2>1. begin \in Numbers
      BY <1>1, Seq16Is
    <2> QED
      BY <1>1, <2>1 DEF Numbers
  <1>3. begin % T = begin
    BY <1>1, <1>2, ModSmall
  <1>4. b - k < T \div 2 /\ k - b < T \div 2
    BY ApartIs DEF Apart
  <1> QED
    BY <1>1, <1>3, <1>4, LaterIsAhead, SameNumbers

\* The newest packet of the buffer once packet k is in it
Later(e, k) == IF e > k THEN e ELSE k

\* Packet k, number seq, is in the buffer, which has packets up to f then.
Stored(b, e, k, seq, f, new) ==
    /\ f \in Nat /\ e <= f /\ k <= f /\ b <= k /\ b <= f /\ 2 * (f - b) < BufferSize
    /\ f < new /\ new - network.window <= f
    /\ (IF Video!AheadOf(end, seq) THEN end ELSE seq) = Seq16(f)
    /\ ~Video!AheadOfMod(begin, Seq16(f), BufferSize)
    /\ Keeps([packs EXCEPT ![seq % BufferSize] = Sent(k)], b, f)

\* insert_packet(): a packet that does not start the receiver anew is put into the buffer.
LEMMA PacketStored ==
    ASSUME Near(network), Len(stream) \in Nat,
           NEW top \in Nat, NEW k \in Nat, NEW b \in Nat, NEW e \in Nat,
           Position(top, b, e), MayCome(top, k), ~reset,
           NEW seq, seq = Seq16(k), ~Video!AheadOf(begin % T, seq),
           NEW f, f = Later(e, k), NEW new, new = Newest(top, k)
    PROVE  Stored(b, e, k, seq, f, new)
  <1> PICK w : w = network.window
    OBVIOUS
  <1> PICK l : l = network.losses
    OBVIOUS
  <1> PICK h : h = T \div 2
    OBVIOUS
  <1>1. First \in Nat /\ w \in Nat /\ w > 0 /\ l \in Nat
        /\ BufferSize + 2 * (l + 2 * w) + 4 <= T
    BY DEF Near, First
  <1>2. /\ T \in Nat /\ T > 0 /\ BufferSize \in Nat /\ BufferSize > 0 /\ BufferSize <= T
        /\ Len(stream) \in Nat /\ h \in Nat /\ T = 2 * h
    <2>1. T \in Nat /\ T > 0 /\ BufferSize \in Nat /\ BufferSize > 0
      BY HalfOfT, BufferAssumption
    <2>2. h \in Nat /\ T = 2 * h
      BY HalfOfT
    <2>3. BufferSize <= T
      <3>1. \A x, y, t \in Nat : t + 2 * (x + 2 * y) + 4 <= T => t <= T
        BY <2>1
      <3> QED
        BY <1>1, <2>1, <3>1, Zenon
    <2> QED
      BY <2>1, <2>2, <2>3
  <1>3. /\ top <= Len(stream) /\ k < Len(stream) /\ top - w <= k /\ k < top + l + w
        /\ ~reset /\ ~AheadOf(begin, Seq16(k)) => 2 * ForwardDiff(begin, Seq16(k)) < BufferSize
    BY DEF MayCome
  <1>4. /\ e < top /\ top - w <= e /\ b <= e + 1 /\ 2 * (e - b) < BufferSize
        /\ begin = Seq16(b) /\ end = Seq16(e) /\ IsBuffer(packs) /\ Keeps(packs, b, e)
    BY DEF Position
  <1>6. b - k < h /\ k - b < h /\ e - k < h /\ k - e < h /\ k - b < T
    BY ApartIs DEF Apart
  <1>7. b <= k
    BY NoneAhead
  <1>5. ~AheadOf(Seq16(b), Seq16(k))
    BY <1>1, <1>6, <1>7, LaterIsAhead
  <1>8. 2 * (k - b) < BufferSize
    <2>1. 2 * ForwardDiff(Seq16(b), Seq16(k)) < BufferSize
      BY <1>3, <1>4, <1>5
    <2>2. k - b < T
      BY <1>6
    <2>3. ForwardDiff(Seq16(b), Seq16(k)) = k - b
      BY <1>1, <1>7, <2>2, PacketsApart
    <2> QED
      BY <2>1, <2>3
  <1>9. f \in Nat /\ e <= f /\ k <= f /\ b <= f /\ 2 * (f - b) < BufferSize
    BY <1>4, <1>7, <1>8 DEF Later
  <1>10. (IF Video!AheadOf(end, seq) THEN end ELSE seq) = Seq16(f)
    <2>1. e - k < T \div 2 /\ k - e < T \div 2
      BY <1>6
    <2>2. AheadOf(Seq16(e), Seq16(k)) <=> e > k
      BY <1>1, <2>1, LaterIsAhead
    <2> QED
      BY <1>4, <2>2, SameNumbers DEF Later
  <1>11. ~Video!AheadOfMod(begin, Seq16(f), BufferSize)
    <2>1. ~Overflows(Seq16(b), Seq16(f))
      BY <1>1, <1>9, NotFull
    <2> QED
      BY <1>4, <2>1, SameNumbers
  <1>12. Keeps([packs EXCEPT ![seq % BufferSize] = Sent(k)], b, f)
    <2>1. k - b < BufferSize /\ seq % BufferSize = Slot(k)
      BY <1>2, <1>8 DEF Slot
    <2> QED
      BY <1>1, <1>4, <1>7, <1>9, <2>1, StoredKeeps
  <1>13. f < new /\ new - w <= f
    <2>1. w \in Nat /\ w > 0 /\ f \in Nat /\ k <= f
      BY <1>1, <1>9
    <2>2. top - w <= f
      <3>1. top - w <= k
        BY <1>3
      <3>2. \A x \in Nat, y \in Nat, z \in Nat, v \in Nat : x - v <= y /\ y <= z => x - v <= z
        OBVIOUS
      <3> QED
        BY <2>1, <3>1, <3>2, Zenon
    <2>3. f < top \/ f = k
      BY <1>4 DEF Later
    <2>4. new = IF k + 1 > top THEN k + 1 ELSE top
      BY DEF Newest
    <2> QED
      BY <2>1, <2>2, <2>3, <2>4, NearNewest, Zenon
  <1> QED
    BY <1>7, <1>9, <1>10, <1>11, <1>12, <1>13 DEF Stored

\* Packet k alone is in the buffer.
IsFirst(k) ==
    /\ Keeps([Video!EmptyBuffer EXCEPT ![Slot(k)] = Sent(k)], k, k)
    /\ ~Video!AheadOfMod(Seq16(k), Seq16(k), BufferSize)

\* insert_packet(): a packet that starts the receiver anew is put into the buffer.
LEMMA FirstStored ==
    ASSUME Near(network), NEW k \in Nat
    PROVE  IsFirst(k)
  <1> PICK old, new : old = Video!EmptyBuffer /\ new = [old EXCEPT ![Slot(k)] = Sent(k)]
    OBVIOUS
  <1>1. First \in Nat /\ BufferSize \in Nat /\ BufferSize > 0
    BY BufferAssumption DEF Near, First
  <1>2. k - k < BufferSize /\ 2 * (k - k) < BufferSize /\ k <= k
    BY <1>1
  <1>3. ~Video!AheadOfMod(Seq16(k), Seq16(k), BufferSize)
    BY <1>1, <1>2, NotFull, SameNumbers
  <1>4. IsBuffer(old) /\ Keeps(old, k, k)
    <2>1. \A i \in Slots : Video!EmptyBuffer[i] = Video!None
      BY DEF Video!EmptyBuffer, Video!Slots, Slots
    <2>2. \A j \in k..(k + BufferSize - 1) : Slot(j) \in Slots
      BY <1>1, SlotInBuffer
    <2>3. IsBuffer(Video!EmptyBuffer)
      BY DEF IsBuffer, Video!EmptyBuffer, Video!Slots, Slots
    <2> QED
      BY <2>1, <2>2, <2>3 DEF Keeps
  <1>5. Keeps(new, k, k)
    BY <1>1, <1>2, <1>4, StoredKeeps
  <1> QED
    BY <1>3, <1>5 DEF IsFirst

\* The receiver waits for packet c when its members say so.
LEMMA PositionIs ==
    ASSUME network' = network, stream' = stream, NEW new \in Nat, NEW c \in Nat, NEW e \in Nat,
           begin' = Seq16(c), end' = Seq16(e), IsBuffer(packs'), Keeps(packs', c, e),
           c <= e + 1, 2 * (e - c) < BufferSize, e < new, new - network.window <= e
    PROVE  Position(new, c, e)'
  <1>1. \A j : Seq16(j)' = Seq16(j) /\ Slot(j)' = Slot(j) /\ Sent(j)' = Sent(j)
    BY DEF Seq16, First, Slot, Sent
  <1>2. Keeps(packs, c, e)'
    BY <1>1 DEF Keeps
  <1>3. IsBuffer(packs)'
    BY DEF IsBuffer
  <1> QED
    BY <1>1, <1>2, <1>3 DEF Position

\* insert_packet() of packet k
LEMMA VideoInsert ==
    ASSUME Near(network), network' = network, stream' = stream, nals' = nals, nals \in Nals,
           Piece(stream, nals), handed \in Seq(Wholes(nals)),
           InSequence(network) => InTurn(stream, nals),
           NEW top \in Nat, NEW k \in Nat, Positioned(top), MayCome(top, k),
           Video!Insert(Sent(k)), NEW new, new = Newest(top, k)
    PROVE  handed' \in Seq(Wholes(nals)) /\ Positioned(new)'
  <1> DEFINE p == Sent(k)
             seq == Video!Number(p.k)
             restart == reset \/ Video!AheadOf(begin % T, seq)
             b0 == IF restart THEN seq ELSE begin
             e0 == IF restart THEN seq ELSE end
             old == IF restart THEN Video!EmptyBuffer ELSE packs
             buffer == [old EXCEPT ![seq % BufferSize] = p]
             e1 == IF Video!AheadOf(e0, seq) THEN e0 ELSE seq
             b1 == IF Video!AheadOfMod(b0, e1, BufferSize) THEN e1 ELSE b0
             Began(b) == InSequence(network) /\ (network.window = 1 \/ ~jumped') =>
                             Shown(b) /\ (~network.silences => ~late /\ (wait => handed = <<>>))
  <1>1. /\ reset' = FALSE /\ end' = e1 /\ Searched(buffer, b1, e1, restart)
        /\ ~jumped' => ~jumped /\ (restart => wait)
    <2>1. Inserts(p)
      BY InsertIs, Zenon
    <2> HIDE DEF p
    <2> QED
      BY <2>1 DEF Inserts
  <1> PICK w : w = network.window
    OBVIOUS
  <1> PICK l : l = network.losses
    OBVIOUS
  <1> PICK h : h = T \div 2
    OBVIOUS
  <1>2. First \in Nat /\ w \in Nat /\ w > 0 /\ l \in Nat
        /\ BufferSize + 2 * (l + 2 * w) + 4 <= T
    BY DEF Near, First
  <1>3. /\ T \in Nat /\ T > 0 /\ BufferSize \in Nat /\ BufferSize > 0 /\ BufferSize <= T
        /\ Len(stream) \in Nat /\ h \in Nat /\ T = 2 * h
    <2>1. T \in Nat /\ T > 0 /\ BufferSize \in Nat /\ BufferSize > 0
      BY HalfOfT, BufferAssumption
    <2>2. Len(stream) \in Nat
      BY DEF Piece
    <2>3. h \in Nat /\ T = 2 * h
      BY HalfOfT
    <2>4. BufferSize <= T
      <3>1. \A x, y, t \in Nat : t + 2 * (x + 2 * y) + 4 <= T => t <= T
        BY <2>1
      <3> QED
        BY <1>2, <2>1, <3>1, Zenon
    <2> QED
      BY <2>1, <2>2, <2>3, <2>4
  <1>4. p.k = k + 1 /\ seq = Seq16(k) /\ seq % BufferSize = Slot(k)
    <2>1. p.k = k + 1
      BY DEF Sent
    <2>2. Video!Number(p.k) = Seq16(k)
      BY <1>2, <2>1, VideoNumberIs
    <2> QED
      BY <2>1, <2>2 DEF Slot
  <1>11. /\ top <= Len(stream) /\ k < Len(stream) /\ top - w <= k /\ k < top + l + w
         /\ ~reset /\ ~AheadOf(begin, Seq16(k)) => 2 * ForwardDiff(begin, Seq16(k)) < BufferSize
    BY DEF MayCome
  <1>12. new \in Nat /\ new = IF k + 1 > top THEN k + 1 ELSE top
    BY DEF Newest
  <1> HIDE DEF p, seq
  <1>5. \E b, e \in Nat : /\ b <= e /\ 2 * (e - b) < BufferSize /\ e < new /\ new - w <= e
                          /\ b1 = Seq16(b) /\ e1 = Seq16(e)
                          /\ Keeps(buffer, b, e) /\ Began(b)
    <2>1. CASE restart
      <3>1. b0 = seq /\ e0 = seq /\ e1 = seq /\ old = Video!EmptyBuffer
        BY <2>1
      <3>2. IsFirst(k)
        BY FirstStored
      <3>3. b1 = Seq16(k) /\ e1 = Seq16(k)
        BY <1>4, <3>1, <3>2 DEF IsFirst
      <3>8. Began(k)
        <4>1. ASSUME InSequence(network), network.window = 1 \/ ~jumped'
              PROVE  Shown(k) /\ (~network.silences => ~late /\ (wait => handed = <<>>))
          <5>1. network.window = 1 \/ (~jumped /\ wait)
            BY <1>1, <2>1, <4>1
          <5>2. stream \in Seq(Packet)
            BY DEF Piece
          <5>3. k \in Nat /\ top \in Nat
            OBVIOUS
          <5> QED
            BY <4>1, <5>1, <5>2, <5>3, StartsAnew
        <4> QED
          BY <4>1
      <3> HIDE DEF old, restart, b0, e0, e1, b1, Began
      <3>5. buffer = [Video!EmptyBuffer EXCEPT ![Slot(k)] = Sent(k)]
        BY <1>4, <3>1 DEF p, buffer
      <3> HIDE DEF buffer
      <3>6. Keeps(buffer, k, k)
        BY <3>2, <3>5 DEF IsFirst
      <3>7. k <= k /\ 2 * (k - k) < BufferSize /\ k < new /\ new - w <= k
        <4>1. k < new /\ new - w <= k
          <5>1. w \in Nat /\ w > 0 /\ top - w <= k /\ k <= k
            BY <1>2, <1>11
          <5>2. new = IF k + 1 > top THEN k + 1 ELSE top
            BY <1>12
          <5> QED
            BY <5>1, <5>2, NearNewest, Zenon
        <4>2. k <= k /\ 2 * (k - k) < BufferSize
          BY <1>3
        <4> QED
          BY <4>1, <4>2
      <3> QED
        BY <3>3, <3>6, <3>7, <3>8
    <2>2. CASE ~restart
      <3>1. PICK b \in Nat, e \in Nat : Position(top, b, e) /\ Past(b)
        BY <2>2 DEF Positioned
      <3>14. Began(b)
        BY <1>1, <3>1 DEF Past
      <3> HIDE DEF Began
      <3>2. /\ e < top /\ top - w <= e /\ b <= e + 1 /\ 2 * (e - b) < BufferSize
            /\ begin = Seq16(b) /\ end = Seq16(e) /\ IsBuffer(packs) /\ Keeps(packs, b, e)
        BY <3>1 DEF Position
      <3>3. b0 = Seq16(b) /\ e0 = Seq16(e) /\ old = packs /\ ~reset
        BY <2>2, <3>2
      <3> PICK f : f = Later(e, k)
        OBVIOUS
      <3>4. ~Video!AheadOf(begin % T, seq)
        BY <2>2
      <3> DEFINE end1 == IF Video!AheadOf(end, seq) THEN end ELSE seq
                 put == [packs EXCEPT ![seq % BufferSize] = Sent(k)]
      <3>5. /\ f \in Nat /\ b <= f /\ 2 * (f - b) < BufferSize /\ f < new /\ new - w <= f
            /\ end1 = Seq16(f) /\ ~Video!AheadOfMod(begin, Seq16(f), BufferSize) /\ Keeps(put, b, f)
        <4> HIDE DEF old, restart, b0, e0, e1, b1, buffer, end1, put
        <4>1. Stored(b, e, k, seq, f, new)
          BY <1>3, <1>4, <3>1, <3>3, <3>4, PacketStored, Zenon
        <4> QED
          BY <4>1 DEF end1, put, Stored
      <3>6. e1 = end1 /\ buffer = put
        BY <2>2 DEF p
      <3>7. b1 = Seq16(b)
        <4> HIDE DEF end1, put, buffer
        <4>1. b1 = IF Video!AheadOfMod(begin, e1, BufferSize) THEN e1 ELSE begin
          BY <2>2
        <4> HIDE DEF e1, b1
        <4> QED
          BY <3>2, <3>5, <3>6, <4>1
      <3> HIDE DEF old, restart, b0, e0, e1, b1, buffer, end1, put
      <3> QED
        BY <3>5, <3>6, <3>7, <3>14
    <2> QED
      BY <2>1, <2>2
  <1>6. PICK b \in Nat, e \in Nat :
          /\ b <= e /\ 2 * (e - b) < BufferSize /\ e < new /\ new - w <= e
          /\ b1 = Seq16(b) /\ e1 = Seq16(e)
          /\ Keeps(buffer, b, e) /\ Began(b)
    BY <1>5
  <1> HIDE DEF old, restart, b0, e0, e1, b1, buffer
  <1>7. e < Len(stream)
    BY <1>3, <1>6, <1>11, <1>12
  <1>8. /\ handed' \in Seq(Wholes(nals))
        /\ \E c \in Nat : /\ b <= c /\ c <= e + 1 /\ begin' = Seq16(c)
                          /\ IsBuffer(packs') /\ Keeps(packs', c, e)
                          /\ InTurn(stream, nals) /\ Shown(b) => Shown(c)'
        /\ InTurn(stream, nals) /\ Shown(b) /\ ~late => ~late' /\ (wait' => wait /\ handed' = handed)
    <2>1. Searched(buffer, Seq16(b), Seq16(e), restart)
      BY <1>1, <1>6
    <2> QED
      BY <1>2, <1>6, <1>7, <2>1, VideoSearch
  <1>9. PICK c \in Nat : /\ b <= c /\ c <= e + 1 /\ begin' = Seq16(c)
                         /\ IsBuffer(packs') /\ Keeps(packs', c, e)
                         /\ InTurn(stream, nals) /\ Shown(b) => Shown(c)'
    BY <1>8
  <1>10. Position(new, c, e)'
    <2>1. c <= e + 1 /\ 2 * (e - c) < BufferSize
      BY <1>3, <1>6, <1>9
    <2>2. end' = Seq16(e)
      BY <1>1, <1>6
    <2> QED
      BY <1>6, <1>9, <1>12, <2>1, <2>2, PositionIs
  <1>13. Past(c)'
    <2> SUFFICES ASSUME InSequence(network), network.window = 1 \/ ~jumped'
                 PROVE  Shown(c)' /\ (~network.silences => ~late' /\ (wait' => handed' = <<>>))
      BY DEF Past
    <2>1. Shown(b) /\ (~network.silences => ~late /\ (wait => handed = <<>>))
      BY <1>6
    <2>2. InTurn(stream, nals)
      OBVIOUS
    <2>3. Shown(c)'
      BY <1>9, <2>1, <2>2
    <2>4. ~late => ~late' /\ (wait' => wait /\ handed' = handed)
      BY <1>8, <2>1, <2>2
    <2> QED
      BY <2>1, <2>3, <2>4
  <1> QED
    BY <1>1, <1>8, <1>10, <1>13 DEF Positioned

\* The packets of the stream as they are sent
Sents == {Sent(j) : j \in 0..(Len(stream) - 1)}

\* What is on the way are packets of the stream in the order they were sent in; few are lost
\* and none is sent again.
OnWay ==
    /\ net \in Seq(Sents)
    /\ \A i, j \in 1..Len(net) : i < j => net[i].k < net[j].k
    /\ IsFiniteSet(lost) /\ Cardinality(lost) <= network.losses /\ resent = {}

\* The latest packet that has come is the one at place top.
Arrived(top) ==
    /\ top \in 0..Len(stream)
    /\ \A i \in 1..Len(net) : top - network.window < net[i].k /\ net[i].k # top
    /\ \A k \in (top + 1)..Len(stream) : k \in lost \/ \E i \in 1..Len(net) : net[i].k = k

\* A packet on the way
LEMMA OnWayIs ==
    ASSUME OnWay, Len(stream) \in Nat, NEW i \in 1..Len(net)
    PROVE  /\ Len(net) \in Nat /\ net[i].k \in 1..Len(stream) /\ net[i].k \in Nat
           /\ net[i] = Sent(net[i].k - 1)
  <1>1. net \in Seq(Sents) /\ Len(net) \in Nat /\ net[i] \in Sents
    <2> PICK S : S = Sents
      OBVIOUS
    <2>1. net \in Seq(S)
      BY DEF OnWay
    <2>2. Len(net) \in Nat /\ net[i] \in S
      BY <2>1
    <2> QED
      BY <2>1, <2>2
  <1> PICK p : p = net[i]
    OBVIOUS
  <1>2. PICK j \in 0..(Len(stream) - 1) : p = Sent(j)
    BY <1>1 DEF Sents
  <1>3. p.k = j + 1
    BY <1>2 DEF Sent
  <1>4. p.k - 1 = j /\ p.k \in 1..Len(stream) /\ p.k \in Nat
    BY <1>3
  <1> QED
    BY <1>1, <1>2, <1>4

\* At most l numbers lie between top and w before q.
LEMMA FewBetween ==
    ASSUME NEW q \in Nat, NEW w \in Nat, w > 0, NEW top \in Nat, top - w < q,
           NEW l \in Nat, NEW c \in Nat, c <= l,
           c = IF top + 1 > q - w THEN 0 ELSE (q - w) - (top + 1) + 1
    PROVE  top - w <= q - 1 /\ q - 1 < top + l + w
  OBVIOUS

\* A packet that the network may deliver is one that may come next.
LEMMA ReachIs ==
    ASSUME OnWay, Len(stream) \in Nat, Near(network), NEW top, Arrived(top), NEW i \in 1..Len(net),
           \A j \in 1..i : net[i].k - net[j].k < network.window
    PROVE  /\ top - network.window <= net[i].k - 1
           /\ net[i].k - 1 < top + network.losses + network.window
  <1> PICK w : w = network.window
    OBVIOUS
  <1> PICK q : q = net[i].k
    OBVIOUS
  <1>1. w \in Nat /\ w > 0 /\ network.losses \in Nat
    BY DEF Near
  <1>2. Len(net) \in Nat /\ q \in 1..Len(stream) /\ q \in Nat
    BY OnWayIs
  <1>3. top \in Nat /\ top - w < q
    BY DEF Arrived
  <1> DEFINE S == (top + 1)..(q - w)
  <1>4. S \subseteq lost
    <2> SUFFICES ASSUME NEW k \in S, k \notin lost PROVE FALSE
      OBVIOUS
    <2>1. k \in (top + 1)..Len(stream) /\ k <= q - w
      BY <1>1, <1>2, <1>3
    <2>2. PICK j \in 1..Len(net) : net[j].k = k
      BY <2>1 DEF Arrived
    <2>3. \A a, b \in 1..Len(net) : a < b => net[a].k < net[b].k
      BY DEF OnWay
    <2>4. ~(i < j) /\ i # j
      <3>1. k < q
        BY <1>1, <1>2, <2>1
      <3>2. i < j => q < k
        BY <2>2, <2>3
      <3>3. k \in Int /\ q \in Nat
        BY <1>2
      <3> QED
        BY <2>2, <3>1, <3>2, <3>3
    <2>5. j \in 1..i
      BY <1>2, <2>4
    <2>6. q - k < w
      BY <2>2, <2>5
    <2> QED
      BY <1>1, <1>2, <2>1, <2>6
  <1>5. IsFiniteSet(lost) /\ Cardinality(lost) \in Nat /\ Cardinality(lost) <= network.losses
    BY FS_CardinalityType DEF OnWay
  <1>6. Cardinality(S) <= Cardinality(lost) /\ Cardinality(S) \in Nat
    <2> HIDE DEF S
    <2> QED
      BY <1>4, <1>5, FS_Subset, FS_CardinalityType
  <1>7. Cardinality(S) = IF top + 1 > q - w THEN 0 ELSE (q - w) - (top + 1) + 1
    <2>1. top + 1 \in Int /\ q - w \in Int
      BY <1>1, <1>2, <1>3
    <2> QED
      BY <2>1, FS_Interval
  <1> HIDE DEF S
  <1> PICK c, l : c = Cardinality(S) /\ l = network.losses
    OBVIOUS
  <1>8. c \in Nat /\ l \in Nat /\ c <= l
    <2>1. Cardinality(S) <= Cardinality(lost) /\ Cardinality(lost) <= l
      BY <1>5, <1>6
    <2> QED
      BY <1>1, <1>5, <1>6, <2>1
  <1>9. c = IF top + 1 > q - w THEN 0 ELSE (q - w) - (top + 1) + 1
    BY <1>7
  <1>10. q \in Nat /\ w \in Nat /\ w > 0 /\ top \in Nat /\ top - w < q
    BY <1>1, <1>2, <1>3
  <1>11. top - w <= q - 1 /\ q - 1 < top + l + w
    BY <1>8, <1>9, <1>10, FewBetween, Zenon
  <1> QED
    BY <1>11

\* Arithmetic on places: y is less than w before x, or after it.
LEMMA TurnedRound == ASSUME NEW x \in Nat, NEW y \in Nat, NEW w \in Nat, x - y < w PROVE x - w < y
  OBVIOUS

LEMMA LaterIsNear == ASSUME NEW x \in Nat, NEW y \in Nat, NEW w \in Nat, x < y PROVE x - w < y
  OBVIOUS

LEMMA StillNear ==
    ASSUME NEW x \in Nat, NEW y \in Nat, NEW w \in Nat, NEW top \in Nat, NEW new,
           new = IF x > top THEN x ELSE top, top - w < y, x - w < y
    PROVE  new - w < y
  OBVIOUS

\* What is left of the packets on the way when one is taken out
LEMMA TakenView ==
    ASSUME OnWay, Len(stream) \in Nat, Near(network), NEW top, Arrived(top), NEW i \in 1..Len(net),
           \A j \in 1..i : net[i].k - net[j].k < network.window,
           network' = network, stream' = stream, lost' = lost, resent' = resent,
           Removed(net', net, i), NEW new, new = Newest(top, net[i].k - 1)
    PROVE  OnWay' /\ Arrived(new)'
  <1> PICK l : l = Len(net)
    OBVIOUS
  <1> PICK w : w = network.window
    OBVIOUS
  <1> PICK f : f = [a \in 1..l |-> net[a].k]
    OBVIOUS
  <1>1. l \in Nat /\ i \in 1..l /\ w \in Nat /\ w > 0
    BY OnWayIs DEF Near
  <1>2. /\ net' \in Seq(Sents) /\ Len(net') = l - 1
        /\ \A j \in 1..(l - 1) : net'[j] = IF j < i THEN net[j] ELSE net[j + 1]
    <2> PICK S : S = Sents
      OBVIOUS
    <2>1. net \in Seq(S)
      BY DEF OnWay
    <2>2. /\ net' \in Seq(S) /\ Len(net') = l - 1
          /\ \A j \in 1..(l - 1) : net'[j] = IF j < i THEN net[j] ELSE net[j + 1]
      BY <2>1, RemoveAtIs
    <2> QED
      BY <2>2
  <1>3. /\ \A a \in 1..l : f[a] = net[a].k /\ f[a] \in Nat
        /\ \A a, b \in 1..l : a < b => f[a] < f[b]
        /\ \A a \in 1..l : top - w < f[a] /\ f[a] # top
        /\ \A a \in 1..i : f[i] - f[a] < w
        /\ f[i] <= Len(stream)
    <2>1. \A a \in 1..l : f[a] = net[a].k
      OBVIOUS
    <2>2. \A a \in 1..l : net[a].k \in Nat /\ net[a].k \in 1..Len(stream)
      BY OnWayIs
    <2>3. \A a \in 1..i : a \in 1..l
      BY <1>1
    <2>4. \A a, b \in 1..l : a < b => f[a] < f[b]
      <3>1. \A a, b \in 1..l : a < b => net[a].k < net[b].k
        BY DEF OnWay
      <3> QED
        BY <2>1, <3>1
    <2>5. \A a \in 1..l : top - w < f[a] /\ f[a] # top
      <3>1. \A a \in 1..l : top - w < net[a].k /\ net[a].k # top
        BY DEF Arrived
      <3> QED
        BY <2>1, <3>1
    <2>6. f[i] <= Len(stream)
      BY <1>1, <2>1, <2>2
    <2>7. \A a \in 1..l : f[a] \in Nat
      BY <2>1, <2>2
    <2>8. \A a \in 1..i : f[i] - f[a] < w
      <3> SUFFICES ASSUME NEW a \in 1..i PROVE f[i] - f[a] < w
        OBVIOUS
      <3>1. f[a] = net[a].k /\ f[i] = net[i].k
        BY <1>1, <2>1, <2>3
      <3>2. net[i].k - net[a].k < w
        OBVIOUS
      <3> QED
        BY <3>1, <3>2
    <2> QED
      BY <2>1, <2>4, <2>5, <2>6, <2>7, <2>8
  <1>4. ASSUME NEW j \in 1..(l - 1)
        PROVE  \E a \in 1..l : a # i /\ net'[j].k = f[a] /\ a = IF j < i THEN j ELSE j + 1
    <2>1. CASE j < i
      <3>1. j \in 1..l /\ j # i /\ net'[j] = net[j]
        BY <1>1, <1>2, <2>1
      <3>2. net'[j].k = f[j]
        BY <1>3, <3>1
      <3> QED
        BY <2>1, <3>1, <3>2
    <2>2. CASE ~(j < i)
      <3>1. j + 1 \in 1..l /\ j + 1 # i /\ net'[j] = net[j + 1]
        BY <1>1, <1>2, <2>2
      <3>2. net'[j].k = f[j + 1]
        BY <1>3, <3>1
      <3> QED
        BY <2>2, <3>1, <3>2
    <2> QED
      BY <2>1, <2>2
  <1>5. ASSUME NEW x \in 1..(l - 1), NEW y \in 1..(l - 1), x < y
        PROVE  net'[x].k < net'[y].k
    <2>1. PICK a \in 1..l : net'[x].k = f[a] /\ a = IF x < i THEN x ELSE x + 1
      BY <1>4
    <2>2. PICK b \in 1..l : net'[y].k = f[b] /\ b = IF y < i THEN y ELSE y + 1
      BY <1>4
    <2>3. a < b
      BY <1>1, <1>5, <2>1, <2>2
    <2> QED
      BY <1>3, <2>1, <2>2, <2>3
  <1>6. top \in Nat /\ top <= Len(stream) /\ f[i] \in Nat
        /\ new = IF f[i] > top THEN f[i] ELSE top
    <2>1. top \in Nat /\ top <= Len(stream) /\ f[i] \in Nat /\ f[i] = net[i].k
      BY <1>1, <1>3 DEF Arrived
    <2>2. (f[i] - 1) + 1 = f[i]
      BY <2>1
    <2> QED
      BY <2>1, <2>2 DEF Newest
  <1>7. new \in 0..Len(stream) /\ top <= new /\ f[i] <= new
    BY <1>3, <1>6
  <1>8. ASSUME NEW j \in 1..(l - 1) PROVE new - w < net'[j].k /\ net'[j].k # new
    <2>1. PICK a \in 1..l : a # i /\ net'[j].k = f[a]
      BY <1>4
    <2>5. net'[j].k # new
      <3>1. f[a] # f[i] /\ f[a] # top
        <4>1. a < i \/ i < a
          BY <1>1, <2>1
        <4>2. f[a] \in Nat /\ f[i] \in Nat /\ (a < i => f[a] < f[i]) /\ (i < a => f[i] < f[a]) /\ f[a] # top
          BY <1>1, <1>3
        <4> QED
          BY <4>1, <4>2
      <3> QED
        BY <1>6, <2>1, <3>1
    <2>2. top - w < f[a] /\ f[a] \in Nat
      BY <1>3
    <2>3. CASE a < i
      <3>1. a \in 1..i
        BY <1>1, <2>3
      <3>2. f[i] - f[a] < w
        BY <1>3, <3>1
      <3>3. f[i] \in Nat /\ f[a] \in Nat /\ w \in Nat /\ top \in Nat
        BY <1>1, <1>6, <2>2
      <3>4. f[i] - w < f[a]
        BY <3>2, <3>3, TurnedRound, Zenon
      <3>5. new - w < f[a]
        BY <1>6, <2>2, <3>3, <3>4, StillNear, Zenon
      <3> QED
        BY <2>1, <2>5, <3>5
    <2>4. CASE i < a
      <3>1. f[i] < f[a]
        BY <1>1, <1>3, <2>4
      <3>2. f[i] \in Nat /\ f[a] \in Nat /\ w \in Nat /\ top \in Nat /\ 0 < w
        BY <1>1, <1>6, <2>2
      <3>3. f[i] - w < f[a]
        BY <3>1, <3>2, LaterIsNear, Zenon
      <3>4. new - w < f[a]
        BY <1>6, <2>2, <3>2, <3>3, StillNear, Zenon
      <3> QED
        BY <2>1, <2>5, <3>4
    <2> QED
      BY <1>1, <2>1, <2>3, <2>4, <2>5
  <1>9. ASSUME NEW k \in (new + 1)..Len(stream), k \notin lost
        PROVE  \E j \in 1..(l - 1) : net'[j].k = k
    <2>1. k \in (top + 1)..Len(stream) /\ k # f[i]
      BY <1>6, <1>7
    <2>2. PICK a \in 1..l : net[a].k = k
      BY <1>9, <2>1 DEF Arrived
    <2>3. a # i
      BY <1>1, <1>3, <2>1, <2>2
    <2>4. CASE a < i
      <3>1. a \in 1..(l - 1) /\ net'[a] = net[a]
        BY <1>1, <1>2, <2>4
      <3> QED
        BY <2>2, <3>1
    <2>5. CASE i < a
      <3>1. a - 1 \in 1..(l - 1) /\ ~(a - 1 < i) /\ (a - 1) + 1 = a
        BY <1>1, <2>5
      <3>2. net'[a - 1] = net[a]
        BY <1>2, <3>1
      <3> QED
        BY <2>2, <3>1, <3>2
    <2> QED
      BY <1>1, <2>3, <2>4, <2>5
  <1>10. OnWay'
    <2>1. Sents' = Sents
      BY DEF Sents, Sent
    <2>2. net' \in Seq(Sents')
      BY <1>2, <2>1
    <2>3. \A x, y \in 1..Len(net') : x < y => net'[x].k < net'[y].k
      BY <1>2, <1>5
    <2>4. IsFiniteSet(lost') /\ Cardinality(lost') <= network'.losses /\ resent' = {}
      BY DEF OnWay
    <2> QED
      BY <2>2, <2>3, <2>4 DEF OnWay
  <1>11. Arrived(new)'
    <2>1. new \in 0..Len(stream')
      BY <1>7
    <2>2. \A j \in 1..Len(net') : new - network'.window < net'[j].k /\ net'[j].k # new
      BY <1>2, <1>8
    <2>3. \A k \in (new + 1)..Len(stream') : k \in lost' \/ \E j \in 1..Len(net') : net'[j].k = k
      BY <1>2, <1>9
    <2> QED
      BY <2>1, <2>2, <2>3 DEF Arrived
  <1> QED
    BY <1>10, <1>11

\* What was sent is well formed, and what was handed up is whole.
SentWell ==
    /\ network \in VideoNetworks /\ nals \in Nals /\ Piece(stream, nals)
    /\ InSequence(network) => InTurn(stream, nals)
    /\ handed \in Seq(Wholes(nals))

\* The strengthening of NalsWhole and HandedInOrder
ViewInv == SentWell /\ OnWay /\ \E top \in Nat : Arrived(top) /\ Positioned(top)

\* Nothing is sent again, and every packet lost was counted.
Unrepaired == rtcp = <<>> /\ losses \in Nat /\ IsFiniteSet(lost) /\ Cardinality(lost) <= losses

\* The buffer is not filled up: a packet that may come next, unless it starts the receiver
\* anew, lies less than half the buffer after the one that the receiver waits for.
Roomy ==
    ~reset => \A i \in 1..Len(net) :
        i <= network.window /\ ~AheadOf(begin, Video!Number(net[i].k)) =>
            2 * ForwardDiff(begin, Video!Number(net[i].k)) < BufferSize

\* Packet k, number i of those on the way, comes and may come.
Takes(top, i, k) ==
    /\ i \in 1..Len(net) /\ i <= (IF wait THEN 1 ELSE network.window)
    /\ \A j \in 1..i : net[i].k - net[j].k < network.window
    /\ k \in Nat /\ k < Len(stream) /\ net[i].k = k + 1 /\ MayCome(top, k)
    /\ Removed(net', net, i) /\ Video!Insert(Sent(k))

LEMMA DeliverTakes ==
    ASSUME ViewInv, Near(network), Roomy, Video!Deliver, NEW top \in Nat, Arrived(top)
    PROVE  \E i, k : Takes(top, i, k)
  <1>1. SentWell /\ OnWay /\ Len(stream) \in Nat /\ First \in Nat
    <2>1. Piece(stream, nals)
      BY DEF ViewInv, SentWell
    <2>2. Len(stream) \in Nat
      BY <2>1 DEF Piece
    <2> QED
      BY <2>2 DEF ViewInv, Near, First
  <1>2. PICK i \in 1..Len(net) :
          /\ i <= (IF wait THEN 1 ELSE network.window)
          /\ \A j \in 1..i : net[i].k - net[j].k < network.window
          /\ net' = Video!RemoveAt(net, i)
          /\ Video!Insert(net[i])
    BY DEF Video!Deliver
  <1>3. network' = network /\ nals' = nals /\ stream' = stream /\ lost' = lost /\ resent' = resent
    BY DEF Video!Deliver, Video!source, Video!losing
  <1>4. Removed(net', net, i)
    BY <1>2 DEF Video!RemoveAt, RemoveAt, Removed
  <1> PICK k : k = net[i].k - 1
    OBVIOUS
  <1>5. k \in Nat /\ k < Len(stream) /\ net[i].k = k + 1 /\ net[i] = Sent(k)
    <2>1. net[i].k \in 1..Len(stream) /\ net[i].k \in Nat /\ net[i] = Sent(net[i].k - 1)
      BY <1>1, OnWayIs
    <2> PICK q : q = net[i].k
      OBVIOUS
    <2>2. k \in Nat /\ k < Len(stream) /\ q = k + 1
      BY <1>1, <2>1
    <2> QED
      BY <2>1, <2>2
  <1>6. MayCome(top, k)
    <2>6. k + 1 # top
      BY <1>5 DEF Arrived
    <2>1. top - network.window <= k /\ k < top + network.losses + network.window
      BY <1>1, <1>2, ReachIs
    <2>2. top <= Len(stream)
      BY <1>1 DEF Arrived
    <2>3. i <= network.window
      BY <1>2 DEF Near
    <2>4. Video!Number(net[i].k) = Seq16(k)
      BY <1>1, <1>5, VideoNumberIs
    <2>5. ~reset /\ ~AheadOf(begin, Seq16(k)) => 2 * ForwardDiff(begin, Seq16(k)) < BufferSize
      BY <2>3, <2>4 DEF Roomy
    <2> QED
      BY <1>5, <2>1, <2>2, <2>5, <2>6 DEF MayCome
  <1> QED
    BY <1>2, <1>4, <1>5, <1>6 DEF Takes

\* A packet comes, in the order or out of it.
LEMMA DeliverView ==
    ASSUME ViewInv, Near(network), Roomy, Video!Deliver
    PROVE  ViewInv'
  <1>1. SentWell /\ OnWay /\ Len(stream) \in Nat
    <2>1. Piece(stream, nals)
      BY DEF ViewInv, SentWell
    <2> QED
      BY <2>1 DEF ViewInv, Piece
  <1> PICK top \in Nat : Arrived(top) /\ Positioned(top)
    BY DEF ViewInv
  <1>2. PICK i, k : Takes(top, i, k)
    BY DeliverTakes
  <1>3. network' = network /\ nals' = nals /\ stream' = stream /\ lost' = lost /\ resent' = resent
    BY DEF Video!Deliver, Video!source, Video!losing
  <1>4. /\ i \in 1..Len(net) /\ \A j \in 1..i : net[i].k - net[j].k < network.window
        /\ k \in Nat /\ net[i].k - 1 = k /\ MayCome(top, k)
        /\ Removed(net', net, i) /\ Video!Insert(Sent(k))
    BY <1>2 DEF Takes
  <1> PICK new : new = Newest(top, k)
    OBVIOUS
  <1>7. handed' \in Seq(Wholes(nals)) /\ Positioned(new)'
    <2>1. /\ nals \in Nals /\ Piece(stream, nals) /\ handed \in Seq(Wholes(nals))
          /\ InSequence(network) => InTurn(stream, nals)
      BY <1>1 DEF SentWell
    <2> QED
      BY <1>3, <1>4, <2>1, VideoInsert
  <1>8. OnWay' /\ Arrived(new)'
    BY <1>1, <1>3, <1>4, TakenView
  <1>9. SentWell'
    <2>1. (Piece(stream, nals))' /\ (InSequence(network) => InTurn(stream, nals))'
      BY <1>1, <1>3 DEF SentWell
    <2>2. (Wholes(nals))' = Wholes(nals)
      BY <1>3
    <2> QED
      BY <1>1, <1>3, <1>7, <2>1, <2>2 DEF SentWell
  <1>10. new \in Nat
    <2>1. new \in 0..Len(stream)
      BY <1>3, <1>8 DEF Arrived
    <2> QED
      BY <1>1, <2>1
  <1> QED
    BY <1>7, <1>8, <1>9, <1>10 DEF ViewInv

\* The place of the receiver does not change when it does not, except that a second passes
\* or it is told to start anew.
LEMMA SamePlace ==
    ASSUME NEW top \in Nat, Positioned(top), network' = network, stream' = stream,
           begin' = begin, end' = end, packs' = packs, handed' = handed,
           wait' = wait, jumped' = jumped, stream \in Seq(Packet),
           late' = late \/ network.silences, reset' = reset \/ reset' = TRUE
    PROVE  Positioned(top)'
  <1>1. ASSUME NEW b \in Nat, NEW c \in Nat, b <= c, Past(b) PROVE Past(c)'
    <2>1. Shown(b) => Shown(c)'
      <3>1. Before(handed, b) => Before(handed, c)
        BY <1>1, BeforeLater
      <3> QED
        BY <3>1 DEF Shown, Rising, Before
    <2> SUFFICES ASSUME InSequence(network), network.window = 1 \/ ~jumped
                 PROVE  Shown(c)' /\ (~network.silences => ~late' /\ (wait => handed = <<>>))
      BY DEF Past
    <2>2. Shown(b) /\ (~network.silences => ~late /\ (wait => handed = <<>>))
      BY <1>1 DEF Past
    <2> QED
      BY <2>1, <2>2
  <1>2. CASE reset
    <2>1. reset'
      BY <1>2, Zenon
    <2>2. top <= top
      OBVIOUS
    <2> QED
      BY <1>1, <1>2, <2>1, <2>2 DEF Positioned
  <1>3. CASE ~reset
    <2>1. PICK b \in Nat, e \in Nat : Position(top, b, e) /\ Past(b)
      BY <1>3 DEF Positioned
    <2>2. CASE reset' = TRUE
      <3>1. b <= top
        BY <2>1 DEF Position
      <3> QED
        BY <1>1, <2>1, <2>2, <3>1 DEF Positioned
    <2>3. CASE ~reset'
      <3>1. Position(top, b, e)'
        BY <2>1 DEF Position, IsBuffer, Keeps, Slot, Seq16, First, Sent
      <3>2. b <= b
        OBVIOUS
      <3> QED
        BY <1>1, <2>1, <2>3, <3>1, <3>2 DEF Positioned
    <2> QED
      BY <1>3, <2>2, <2>3
  <1> QED
    BY <1>2, <1>3

\* A packet is lost.
LEMMA LoseView ==
    ASSUME ViewInv, Unrepaired, Near(network), Video!Lose
    PROVE  ViewInv'
  <1>1. SentWell /\ OnWay /\ Len(stream) \in Nat
    <2>1. Piece(stream, nals)
      BY DEF ViewInv, SentWell
    <2> QED
      BY <2>1 DEF ViewInv, Piece
  <1>2. PICK top \in Nat : Arrived(top) /\ Positioned(top)
    BY DEF ViewInv
  <1>3. /\ losses < network.losses /\ net # <<>>
        /\ lost' = lost \union {Head(net).k} /\ net' = Tail(net)
    BY DEF Video!Lose
  <1>4. /\ network' = network /\ nals' = nals /\ stream' = stream /\ resent' = resent
        /\ reset' = reset /\ begin' = begin /\ end' = end /\ packs' = packs /\ handed' = handed
        /\ wait' = wait /\ late' = late /\ jumped' = jumped
    BY DEF Video!Lose, Video!source, Video!receiver
  <1> PICK l : l = Len(net)
    OBVIOUS
  <1>5. /\ net \in Seq(Sents) /\ l \in Nat /\ l > 0 /\ Head(net) = net[1]
        /\ net' \in Seq(Sents) /\ Len(net') = l - 1
        /\ \A i \in 1..(l - 1) : net'[i] = net[i + 1] /\ i + 1 \in 1..l
    <2> PICK S : S = Sents
      OBVIOUS
    <2>1. net \in Seq(S) /\ net # <<>> /\ net' = Tail(net)
      BY <1>1, <1>3 DEF OnWay
    <2>2. /\ l \in Nat /\ l > 0 /\ Head(net) = net[1]
          /\ net' \in Seq(S) /\ Len(net') = l - 1
          /\ \A i \in 1..(l - 1) : net'[i] = net[i + 1] /\ i + 1 \in 1..l
      BY <2>1
    <2> QED
      BY <2>1, <2>2
  <1>6. OnWay'
    <2>1. Sents' = Sents
      BY <1>4 DEF Sents, Sent
    <2>2. \A i, j \in 1..(l - 1) : i < j => net'[i].k < net'[j].k
      <3> SUFFICES ASSUME NEW i \in 1..(l - 1), NEW j \in 1..(l - 1), i < j
                   PROVE  net'[i].k < net'[j].k
        OBVIOUS
      <3>1. i + 1 \in 1..l /\ j + 1 \in 1..l /\ i + 1 < j + 1
        BY <1>5
      <3>2. net[i + 1].k < net[j + 1].k
        BY <1>1, <3>1 DEF OnWay
      <3> QED
        BY <1>5, <3>2
    <2>4. network' = network /\ resent' = resent
      BY <1>4
    <2>3. IsFiniteSet(lost') /\ Cardinality(lost') <= network.losses
      <3>1. IsFiniteSet(lost) /\ Cardinality(lost) <= losses /\ losses \in Nat
        BY DEF Unrepaired
      <3> PICK q : q = Head(net).k
        OBVIOUS
      <3>3. IsFiniteSet(lost') /\ Cardinality(lost') = IF q \in lost THEN Cardinality(lost)
                                                     ELSE Cardinality(lost) + 1
        BY <1>3, <3>1, FS_AddElement
      <3>4. Cardinality(lost) \in Nat /\ network.losses \in Nat
        BY <3>1, FS_CardinalityType DEF Near
      <3> QED
        BY <1>3, <3>1, <3>3, <3>4
    <2> QED
      BY <1>1, <1>5, <2>1, <2>2, <2>3, <2>4 DEF OnWay
  <1>7. Arrived(top)'
    <2>1. \A i \in 1..(l - 1) : top - network.window < net'[i].k /\ net'[i].k # top
      <3>1. \A i \in 1..l : top - network.window < net[i].k /\ net[i].k # top
        BY <1>2, Zenon DEF Arrived
      <3>2. \A i \in 1..(l - 1) : net'[i] = net[i + 1] /\ i + 1 \in 1..l
        BY <1>5
      <3> QED
        BY <3>1, <3>2, Zenon
    <2>2. ASSUME NEW k \in (top + 1)..Len(stream), k \notin lost'
          PROVE  \E i \in 1..(l - 1) : net'[i].k = k
      <3>1. PICK j \in 1..l : net[j].k = k
        BY <1>2, <1>3, <2>2 DEF Arrived
      <3>2. j # 1
        BY <1>3, <1>5, <2>2, <3>1
      <3>3. j - 1 \in 1..(l - 1) /\ (j - 1) + 1 = j
        BY <1>5, <3>2
      <3>4. net'[j - 1] = net[j]
        BY <1>5, <3>3
      <3> QED
        BY <3>1, <3>3, <3>4
    <2> QED
      BY <1>2, <1>4, <1>5, <2>1, <2>2 DEF Arrived
  <1>8. Positioned(top)'
    <2>1. stream \in Seq(Packet)
      BY DEF ViewInv, SentWell, Piece
    <2> QED
      BY <1>2, <1>4, <2>1, SamePlace
  <1>9. SentWell'
    BY <1>1, <1>4 DEF SentWell, Wholes, Whole
  <1> QED
    BY <1>2, <1>6, <1>7, <1>8, <1>9 DEF ViewInv

\* n packets more of the stream go on their way.
Departs(extra, d, n) ==
    /\ Len(extra) = n /\ extra \in Seq(Sents')
    /\ \A i \in 1..n : extra[i].k = d + i

\* What is on the way when more is sent
LEMMA SentView ==
    ASSUME OnWay, NEW d \in Nat, d = Len(stream), NEW n \in Nat, Len(stream') = d + n,
           Sents \subseteq Sents', NEW extra, Departs(extra, d, n), Joined(net', net, extra),
           network' = network, lost' = lost, resent' = resent, network.window \in Nat \ {0}
    PROVE  OnWay' /\ \A top \in Nat : Arrived(top) => Arrived(top)'
  <1> PICK l : l = Len(net)
    OBVIOUS
  <1> PICK S : S = Sents'
    OBVIOUS
  <1>1. net \in Seq(S) /\ l \in Nat
    <2>1. net \in Seq(Sents) /\ Sents \subseteq S
      BY DEF OnWay
    <2> PICK R : R = Sents
      OBVIOUS
    <2>2. net \in Seq(R) /\ R \subseteq S
      BY <2>1
    <2> QED
      BY <2>2
  <1>2. Len(extra) = n /\ extra \in Seq(S) /\ \A i \in 1..n : extra[i].k = d + i
    BY DEF Departs
  <1>3. /\ net' \in Seq(S) /\ Len(net') = l + n
        /\ \A i \in 1..(l + n) : net'[i] = IF i <= l THEN net[i] ELSE extra[i - l]
    <2>1. Parts(S, net', net, extra, l, n)
      BY <1>1, <1>2, ConcatIs
    <2> QED
      BY <2>1 DEF Parts
  <1>4. ASSUME NEW i \in 1..l PROVE i \in 1..(l + n) /\ net'[i] = net[i] /\ net[i].k \in 1..d
    <2>1. net[i].k \in 1..d
      BY OnWayIs
    <2> QED
      BY <1>1, <1>3, <2>1
  <1>5. ASSUME NEW i \in 1..n
        PROVE  l + i \in 1..(l + n) /\ net'[l + i].k = d + i
    <2>1. l + i \in 1..(l + n) /\ ~(l + i <= l) /\ (l + i) - l = i
      BY <1>1
    <2> QED
      BY <1>2, <1>3, <2>1
  <1>6. ASSUME NEW i \in 1..(l + n)
        PROVE  \/ i \in 1..l /\ net'[i] = net[i] /\ net[i].k \in 1..d
               \/ i > l /\ net'[i].k = d + (i - l)
    <2>1. CASE i <= l
      <3>1. i \in 1..l
        BY <2>1
      <3> QED
        BY <1>4, <3>1
    <2>2. CASE ~(i <= l)
      <3>1. i - l \in 1..n /\ l + (i - l) = i
        BY <1>1, <2>2
      <3>2. net'[l + (i - l)].k = d + (i - l)
        BY <1>5, <3>1
      <3> QED
        BY <1>1, <2>2, <3>1, <3>2
    <2> QED
      BY <2>1, <2>2
  <1>7. ASSUME NEW i \in 1..(l + n), NEW j \in 1..(l + n), i < j PROVE net'[i].k < net'[j].k
    <2>1. CASE j \in 1..l
      <3>1. i \in 1..l
        BY <1>1, <1>7, <2>1
      <3>2. net[i].k < net[j].k
        BY <1>7, <2>1, <3>1 DEF OnWay
      <3> QED
        BY <1>4, <2>1, <3>1, <3>2
    <2>2. CASE j > l /\ i \in 1..l
      <3>1. net'[i].k \in 1..d /\ net'[j].k = d + (j - l)
        BY <1>1, <1>4, <1>6, <2>2
      <3> PICK x, y : x = net'[i].k /\ y = net'[j].k
        OBVIOUS
      <3>2. x < y
        BY <1>1, <2>2, <3>1
      <3> QED
        BY <3>2
    <2>3. CASE j > l /\ i > l
      <3>1. net'[i].k = d + (i - l) /\ net'[j].k = d + (j - l)
        BY <1>1, <1>6, <2>3
      <3> PICK x, y : x = net'[i].k /\ y = net'[j].k
        OBVIOUS
      <3>2. x < y
        BY <1>1, <1>7, <3>1
      <3> QED
        BY <3>2
    <2> QED
      BY <1>1, <2>1, <2>2, <2>3
  <1>8. OnWay'
    BY <1>3, <1>7 DEF OnWay
  <1>9. ASSUME NEW top \in Nat, Arrived(top) PROVE Arrived(top)'
    <2>1. top \in 0..d /\ top \in 0..(d + n)
      BY <1>9 DEF Arrived
    <2>2. ASSUME NEW i \in 1..(l + n) PROVE top - network.window < net'[i].k /\ net'[i].k # top
      <3>1. CASE i \in 1..l
        BY <1>4, <1>9, <3>1 DEF Arrived
      <3>2. CASE i > l
        <4>1. net'[i].k = d + (i - l)
          BY <1>1, <1>6, <3>2
        <4> PICK x, w : x = net'[i].k /\ w = network.window
          OBVIOUS
        <4>2. top - w < x /\ x # top
          BY <1>1, <2>1, <3>2, <4>1
        <4> QED
          BY <4>2
      <3> QED
        BY <1>6, <3>1, <3>2
    <2>3. ASSUME NEW k \in (top + 1)..(d + n), k \notin lost
          PROVE  \E i \in 1..(l + n) : net'[i].k = k
      <3>1. CASE k <= d
        <4>1. k \in (top + 1)..d
          BY <2>1, <3>1
        <4>2. PICK i \in 1..l : net[i].k = k
          BY <1>9, <2>3, <4>1 DEF Arrived
        <4> QED
          BY <1>4, <4>2
      <3>2. CASE ~(k <= d)
        <4>1. k - d \in 1..n /\ d + (k - d) = k
          BY <2>1, <3>2
        <4> QED
          BY <1>5, <4>1
      <3> QED
        BY <3>1, <3>2
    <2> QED
      BY <1>3, <2>1, <2>2, <2>3 DEF Arrived
  <1> QED
    BY <1>8, <1>9

\* The position of the receiver does not change when the stream grows.
LEMMA PositionStays ==
    ASSUME NEW top \in Nat, NEW b \in Nat, NEW e \in Nat, Position(top, b, e), network' = network,
           NEW d \in Nat, top <= d, \A j \in 0..(d - 1) : Sent(j)' = Sent(j),
           begin' = begin, end' = end, packs' = packs
    PROVE  Position(top, b, e)'
  <1>1. \A j : Seq16(j)' = Seq16(j) /\ Slot(j)' = Slot(j)
    BY DEF Seq16, First, Slot
  <1>2. BufferSize \in Nat /\ e < top
    BY BufferAssumption DEF Position
  <1>3. Keeps(packs, b, e)'
    <2>1. ASSUME NEW j \in b..(b + BufferSize - 1), packs[Slot(j)] # Video!None
          PROVE  j <= e /\ packs[Slot(j)] = Sent(j)'
      <3>1. j <= e /\ packs[Slot(j)] = Sent(j)
        BY <2>1 DEF Position, Keeps
      <3>2. j \in 0..(d - 1)
        BY <1>2, <3>1
      <3> QED
        BY <3>1, <3>2
    <2> QED
      BY <1>1, <2>1 DEF Keeps
  <1> QED
    BY <1>1, <1>3 DEF Position, IsBuffer

\* Nor does what is known of it.
LEMMA SamePosition ==
    ASSUME NEW top \in Nat, Positioned(top), NEW d \in Nat, top <= d, network' = network,
           \A j \in 0..(d - 1) : Sent(j)' = Sent(j),
           reset' = reset, begin' = begin, end' = end, packs' = packs, handed' = handed,
           wait' = wait, late' = late, jumped' = jumped,
           InSequence(network) => \A b \in Nat : Before(handed, b) => Before(handed, b)'
    PROVE  Positioned(top)'
  <1>3. ASSUME NEW b \in Nat, Past(b) PROVE Past(b)'
    <2>1. InSequence(network) /\ Shown(b) => Shown(b)'
      BY DEF Shown, Rising
    <2> QED
      BY <1>3, <2>1 DEF Past
  <1>1. CASE reset
    BY <1>1, <1>3 DEF Positioned
  <1>2. CASE ~reset
    <2>1. PICK b \in Nat, e \in Nat : Position(top, b, e) /\ Past(b)
      BY <1>2 DEF Positioned
    <2>5. Position(top, b, e)'
      BY <2>1, PositionStays
    <2> QED
      BY <1>2, <1>3, <2>1, <2>5 DEF Positioned
  <1> QED
    BY <1>1, <1>2

\* An access unit is sent: the d packets of the stream are followed by the n packets of frame.
Sends(frame, packets, extra, d, n) ==
    /\ frame \in network.frames /\ Video!IsFrame(frame) /\ packets = Video!Packets(frame)
    /\ Joined(stream', stream, packets) /\ Joined(net', net, extra) /\ nals' = nals \o frame.nals
    /\ frame.nals \in Nals /\ nals' \in Nals /\ packets \in Seq(Packet) /\ Piece(stream', nals')
    /\ d \in Nat /\ n \in Nat /\ Len(stream) = d /\ Len(packets) = n /\ Len(stream') = d + n
    /\ \A i \in 1..(d + n) : stream'[i] = IF i <= d THEN stream[i] ELSE packets[i - d]
    /\ \A j \in 0..(d - 1) : Sent(j)' = Sent(j)
    /\ Departs(extra, d, n)
    /\ OnWay' /\ \A top \in Nat : Arrived(top) => Arrived(top)'

LEMMA SendIs ==
    ASSUME ViewInv, Near(network), Video!StreamsOK, Video!SendFrame
    PROVE  \E frame, packets, extra, d, n : Sends(frame, packets, extra, d, n)
  <1>1. SentWell /\ OnWay /\ Piece(stream, nals) /\ nals \in Nals /\ stream \in Seq(Packet)
    BY DEF ViewInv, SentWell, Piece
  <1>2. PICK frame \in network.frames :
          LET packets == Video!Packets(frame)
          IN /\ nals' = nals \o frame.nals
             /\ stream' = stream \o packets
             /\ net' = net \o [i \in DOMAIN packets |->
                                 [k |-> Len(stream) + i, m |-> packets[i].m]]
    BY DEF Video!SendFrame
  <1>3. /\ network' = network /\ lost' = lost /\ resent' = resent
        /\ reset' = reset /\ begin' = begin /\ end' = end /\ packs' = packs /\ handed' = handed
        /\ wait' = wait /\ late' = late /\ jumped' = jumped
    BY DEF Video!SendFrame, Video!losing, Video!receiver
  <1>4. Video!IsFrame(frame)
    BY <1>1 DEF Video!StreamsOK, SentWell
  <1>5. frame.nals \in Nals
    BY <1>4 DEF Video!IsFrame, Nals
  <1> PICK packets : packets = Video!Packets(frame)
    OBVIOUS
  <1> PICK extra : extra = [i \in DOMAIN packets |-> [k |-> Len(stream) + i, m |-> packets[i].m]]
    OBVIOUS
  <1> PICK d, n : d = Len(stream) /\ n = Len(packets)
    OBVIOUS
  <1>6. Joined(stream', stream, packets) /\ Joined(net', net, extra) /\ nals' = nals \o frame.nals
    BY <1>2 DEF Joined
  <1>7. nals' \in Nals
    <2> PICK N, more : N = [t : Video!Types, n : Nat \ {0}] /\ more = frame.nals
      OBVIOUS
    <2>1. nals \in Seq(N) /\ more \in Seq(N) /\ nals' = nals \o more
      BY <1>1, <1>5, <1>6 DEF Nals
    <2>2. nals' \in Seq(N)
      BY <2>1
    <2> QED
      BY <2>2 DEF Nals
  <1>8. Piece(packets, nals')
    BY <1>1, <1>4, <1>6, FrameIsPiece
  <1>9. Piece(stream, nals')
    BY <1>1, <1>5, <1>6, PieceStays
  <1>10. Piece(stream', nals')
    BY <1>6, <1>8, <1>9, PiecesJoin
  <1>11. packets \in Seq(Packet) /\ d \in Nat /\ n \in Nat /\ DOMAIN packets = 1..n
    BY <1>1, <1>8 DEF Piece
  <1>12. /\ Len(stream') = d + n
         /\ \A i \in 1..(d + n) : stream'[i] = IF i <= d THEN stream[i] ELSE packets[i - d]
    <2>1. Parts(Packet, stream', stream, packets, d, n)
      BY <1>1, <1>6, <1>11, ConcatIs
    <2> QED
      BY <2>1 DEF Parts
  <1>13. ASSUME NEW j \in 0..(d - 1) PROVE Sent(j)' = Sent(j) /\ Sent(j) \in Sents'
    <2>1. j + 1 \in 1..(d + n) /\ j + 1 <= d /\ j \in 0..((d + n) - 1)
      BY <1>11
    <2>2. stream'[j + 1] = stream[j + 1]
      BY <1>12, <2>1
    <2>3. Sent(j)' = Sent(j)
      BY <2>2 DEF Sent
    <2> QED
      BY <1>12, <2>1, <2>3 DEF Sents
  <1>14. Sents \subseteq Sents'
    BY <1>13 DEF Sents
  <1>15. Departs(extra, d, n)
    <2>1. ASSUME NEW i \in 1..n PROVE extra[i].k = d + i /\ extra[i] \in Sents'
      <3> PICK j : j = (d + i) - 1
        OBVIOUS
      <3>1. j \in 0..((d + n) - 1) /\ j + 1 = d + i /\ d + i \in 1..(d + n) /\ ~(d + i <= d)
            /\ (d + i) - d = i
        BY <1>11
      <3>2. extra[i] = [k |-> d + i, m |-> packets[i].m]
        BY <1>11
      <3>3. stream'[j + 1] = packets[i]
        BY <1>12, <3>1
      <3>4. Sent(j)' = [k |-> d + i, m |-> packets[i].m]
        BY <3>1, <3>3 DEF Sent
      <3>5. Sent(j)' \in Sents'
        BY <1>12, <3>1 DEF Sents
      <3> QED
        BY <3>2, <3>4, <3>5
    <2> PICK S : S = Sents'
      OBVIOUS
    <2>2. extra \in [1..n -> S]
      BY <1>11, <2>1
    <2>3. extra \in Seq(S) /\ Len(extra) = n
      BY <1>11, <2>2
    <2> QED
      BY <2>1, <2>3 DEF Departs
  <1>16. OnWay' /\ \A top \in Nat : Arrived(top) => Arrived(top)'
    <2>1. network.window \in Nat \ {0}
      BY DEF Near
    <2> QED
      BY <1>1, <1>3, <1>6, <1>11, <1>12, <1>14, <1>15, <2>1, SentView
  <1> QED
    BY <1>2, <1>4, <1>5, <1>6, <1>7, <1>10, <1>11, <1>12, <1>13, <1>15, <1>16 DEF Sends

\* The invariant holds when an access unit is sent.
LEMMA SendView ==
    ASSUME ViewInv, Near(network), Video!StreamsOK, Video!SendFrame
    PROVE  ViewInv'
  <1>1. SentWell /\ OnWay /\ Piece(stream, nals) /\ nals \in Nals /\ stream \in Seq(Packet)
    BY DEF ViewInv, SentWell, Piece
  <1>2. PICK frame, packets, extra, d, n : Sends(frame, packets, extra, d, n)
    BY SendIs
  <1>3. /\ network' = network /\ lost' = lost /\ resent' = resent
        /\ reset' = reset /\ begin' = begin /\ end' = end /\ packs' = packs /\ handed' = handed
        /\ wait' = wait /\ late' = late /\ jumped' = jumped
    BY DEF Video!SendFrame, Video!losing, Video!receiver
  <1>4. frame \in network.frames /\ Video!IsFrame(frame) /\ packets = Video!Packets(frame)
    BY <1>2 DEF Sends
  <1>5. frame.nals \in Nals
    BY <1>2 DEF Sends
  <1>6. Joined(stream', stream, packets) /\ Joined(net', net, extra) /\ nals' = nals \o frame.nals
    BY <1>2 DEF Sends
  <1>7. nals' \in Nals
    BY <1>2 DEF Sends
  <1>10. Piece(stream', nals')
    BY <1>2 DEF Sends
  <1>11. packets \in Seq(Packet) /\ d \in Nat /\ n \in Nat
    BY <1>2 DEF Sends
  <1>13. d = Len(stream) /\ \A j \in 0..(d - 1) : Sent(j)' = Sent(j)
    BY <1>2 DEF Sends
  <1>16. OnWay' /\ \A top \in Nat : Arrived(top) => Arrived(top)'
    BY <1>2 DEF Sends
  <1>20. ASSUME InSequence(network)
         PROVE  InTurn(stream', nals') /\ Ranges(packets, Len(nals), Len(nals'))
    <2>1. LastSplit(frame)
      BY <1>4, <1>20 DEF InSequence
    <2>2. Turn(packets, nals', Len(nals), Len(nals'))
      BY <1>1, <1>4, <1>6, <2>1, FrameInTurn
    <2>3. InTurn(stream, nals')
      <3>1. InTurn(stream, nals)
        BY <1>1, <1>20 DEF SentWell
      <3> QED
        BY <1>1, <1>5, <1>6, <3>1, TurnsStay
    <2>4. Ranges(stream, 0, Len(nals)) /\ Len(nals) \in Nat /\ Len(nals') \in Nat
      <3>1. DOMAIN nals = 1..Len(nals) /\ Len(nals) \in Nat
        BY <1>1 DEF Nals
      <3>2. \A k \in DOMAIN stream : \A p \in DOMAIN stream[k].ids : stream[k].ids[p] \in DOMAIN nals
        BY <1>1 DEF Piece, Placed
      <3>3. \A x \in 1..Len(nals) : x \in Nat /\ 0 < x /\ x <= Len(nals)
        BY <3>1
      <3>4. Ranges(stream, 0, Len(nals))
        BY <3>1, <3>2, <3>3, Zenon DEF Ranges
      <3> QED
        BY <1>7, <3>1, <3>4 DEF Nals
    <2>5. Len(nals) <= Len(nals')
      <3> PICK N, more : N = [t : Video!Types, n : Nat \ {0}] /\ more = frame.nals
        OBVIOUS
      <3>1. nals \in Seq(N) /\ more \in Seq(N) /\ nals' = nals \o more
        BY <1>1, <1>5, <1>6 DEF Nals
      <3> QED
        BY <3>1
    <2>6. packets \in Seq(Packet) /\ InTurn(packets, nals') /\ Ranges(packets, Len(nals), Len(nals'))
      BY <2>2 DEF Turn
    <2> PICK a, c, all : a = Len(nals) /\ c = Len(nals') /\ all = nals'
      OBVIOUS
    <2>7. InTurn(stream', all)
      <3>1. 0 <= a /\ a <= c /\ a \in Nat /\ c \in Nat /\ 0 \in Nat
        BY <2>4, <2>5
      <3>2. InTurn(stream, all) /\ InTurn(packets, all) /\ Ranges(stream, 0, a) /\ Ranges(packets, a, c)
        BY <2>3, <2>4, <2>6
      <3> QED
        BY <1>1, <1>6, <1>11, <3>1, <3>2, TurnsJoin
    <2> QED
      BY <2>6, <2>7
  <1>17. SentWell'
    <2>1. Wholes(nals) \subseteq Wholes(nals')
      <3> SUFFICES ASSUME NEW id \in DOMAIN nals PROVE Whole(nals, id) \in Wholes(nals')
        BY DEF Wholes
      <3> PICK N, more : N = [t : Video!Types, n : Nat \ {0}] /\ more = frame.nals
        OBVIOUS
      <3>1. nals \in Seq(N) /\ more \in Seq(N) /\ nals' = nals \o more
        BY <1>1, <1>5, <1>6 DEF Nals
      <3>2. id \in DOMAIN nals' /\ nals'[id] = nals[id]
        BY <3>1
      <3>3. Whole(nals, id) = Whole(nals', id)
        BY <3>2 DEF Whole
      <3> QED
        BY <3>2, <3>3 DEF Wholes
    <2>2. handed \in Seq(Wholes(nals'))
      <3> PICK R, S : R = Wholes(nals) /\ S = Wholes(nals')
        OBVIOUS
      <3>1. handed \in Seq(R) /\ R \subseteq S
        BY <1>1, <2>1 DEF SentWell
      <3>2. handed \in Seq(S)
        BY <3>1
      <3> QED
        BY <3>2
    <2>3. (InSequence(network) => InTurn(stream, nals))'
      BY <1>3, <1>20
    <2> QED
      BY <1>1, <1>3, <1>7, <1>10, <2>2, <2>3 DEF SentWell
  <1>18. PICK top \in Nat : Arrived(top) /\ Positioned(top)
    BY DEF ViewInv
  <1>19. Positioned(top)'
    <2>1. top <= d
      BY <1>11, <1>13, <1>18 DEF Arrived
    <2>2. ASSUME InSequence(network), NEW b \in Nat, Before(handed, b) PROVE Before(handed, b)'
      <3>1. handed \in Seq(Wholes(nals))
        BY <1>1 DEF SentWell
      <3> PICK hi : hi = Len(nals')
        OBVIOUS
      <3>2. Ranges(packets, Len(nals), hi)
        BY <1>20, <2>2
      <3> QED
        BY <1>1, <1>3, <1>6, <1>11, <2>2, <3>1, <3>2, BeforeStays
    <2> QED
      BY <1>3, <1>11, <1>13, <1>18, <2>1, <2>2, SamePosition
  <1> QED
    BY <1>16, <1>17, <1>18, <1>19 DEF ViewInv

\* Nothing was sent at first.
LEMMA InitView ==
    ASSUME Video!Init, Near(network)
    PROVE  ViewInv
  <1>1. /\ network \in VideoNetworks /\ nals = <<>> /\ stream = <<>> /\ net = <<>> /\ lost = {}
        /\ resent = {} /\ reset = TRUE /\ handed = <<>>
        /\ wait = TRUE /\ late = FALSE
    BY DEF Video!Init
  <1>2. SentWell
    <2>1. DOMAIN stream = {}
      BY <1>1
    <2>2. InTurn(stream, nals)
      BY <2>1 DEF InTurn, Ascends, LastMarked
    <2> QED
      BY <1>1, <2>2 DEF SentWell, Nals, Piece
  <1>3. OnWay
    <2>1. IsFiniteSet({}) /\ Cardinality({}) = 0
      BY FS_EmptySet
    <2>2. network.losses \in Nat
      BY DEF Near
    <2> QED
      BY <1>1, <2>1, <2>2 DEF OnWay
  <1>4. Arrived(0) /\ Positioned(0)
    <2>1. DOMAIN handed = {}
      BY <1>1
    <2>2. Shown(0)
      BY <2>1 DEF Shown, Rising, Before
    <2>3. Past(0)
      BY <1>1, <2>2 DEF Past
    <2>4. Positioned(0)
      BY <1>1, <2>3 DEF Positioned
    <2> QED
      BY <1>1, <2>4 DEF Arrived
  <1> QED
    BY <1>2, <1>3, <1>4 DEF ViewInv

\* At first nothing was lost, and no NACK arrives.
LEMMA InitUnrepaired ==
    ASSUME Video!Init
    PROVE  Unrepaired
  <1>1. rtcp = <<>> /\ losses = 0 /\ lost = {}
    BY DEF Video!Init
  <1> QED
    BY <1>1, FS_EmptySet DEF Unrepaired

LEMMA NextUnrepaired ==
    ASSUME Near(network), Unrepaired, [Video!Next]_(Video!vars)
    PROVE  Unrepaired'
  <1>1. ASSUME UNCHANGED <<rtcp, losses, lost>> PROVE Unrepaired'
    BY <1>1 DEF Unrepaired
  <1>2. CASE Video!SendFrame
    BY <1>1, <1>2 DEF Video!SendFrame, Video!losing
  <1>3. CASE Video!OnNack
    BY <1>3 DEF Video!OnNack, Unrepaired
  <1>4. CASE Video!Lose
    <2> PICK q : q = Head(net).k
      OBVIOUS
    <2>1. rtcp' = rtcp /\ losses' = losses + 1 /\ lost' = lost \union {q}
      BY <1>4 DEF Video!Lose
    <2>2. IsFiniteSet(lost') /\ Cardinality(lost') = IF q \in lost THEN Cardinality(lost)
                                                   ELSE Cardinality(lost) + 1
      BY <2>1, FS_AddElement DEF Unrepaired
    <2>3. Cardinality(lost) \in Nat
      BY FS_CardinalityType DEF Unrepaired
    <2> QED
      BY <2>1, <2>2, <2>3 DEF Unrepaired
  <1>5. CASE Video!Deliver
    BY <1>1, <1>5 DEF Video!Deliver, Video!losing
  <1>6. CASE Video!Elapse
    BY <1>1, <1>6 DEF Video!Elapse, Video!losing
  <1>7. CASE Video!GiveUp
    BY <1>1, <1>7 DEF Video!GiveUp, Video!losing
  <1>8. CASE Video!Clear
    BY <1>1, <1>8 DEF Video!Clear, Video!losing
  <1>9. CASE Video!Restart
    BY <1>1, <1>9 DEF Video!Restart, Video!losing
  <1>10. CASE Video!Ask
    BY <1>1, <1>10 DEF Video!Ask, Video!losing, Near
  <1>11. CASE UNCHANGED Video!vars
    BY <1>1, <1>11 DEF Video!vars
  <1> QED
    BY <1>2, <1>3, <1>4, <1>5, <1>6, <1>7, <1>8, <1>9, <1>10, <1>11 DEF Video!Next, Video!ProcessNack

\* Every step keeps the invariant.
LEMMA NextView ==
    ASSUME Video!StreamsOK, \A w \in VideoNetworks : Near(w), ViewInv, Unrepaired, Roomy,
           [Video!Next]_(Video!vars)
    PROVE  ViewInv' /\ Unrepaired'
  <1>1. network \in VideoNetworks /\ Near(network)
    BY DEF ViewInv, SentWell
  <1> SUFFICES ViewInv'
    BY <1>1, NextUnrepaired
  <1>2. ASSUME UNCHANGED <<network, nals, stream, net, lost, resent, begin, end, packs, wait, jumped, handed>>,
               late' = late \/ network.silences, reset' = reset \/ reset' = TRUE
        PROVE  ViewInv'
    <2>1. SentWell'
      BY <1>2 DEF ViewInv, SentWell
    <2>2. OnWay'
      <3>1. Sents' = Sents
        BY <1>2 DEF Sents, Sent
      <3> QED
        BY <1>2, <3>1 DEF ViewInv, OnWay
    <2>3. PICK top \in Nat : Arrived(top) /\ Positioned(top)
      BY DEF ViewInv
    <2>4. Arrived(top)'
      BY <1>2, <2>3 DEF Arrived
    <2>5. Positioned(top)'
      <3>1. stream \in Seq(Packet)
        BY DEF ViewInv, SentWell, Piece
      <3> QED
        BY <1>2, <2>3, <3>1, SamePlace
    <2> QED
      BY <2>1, <2>2, <2>3, <2>4, <2>5 DEF ViewInv
  <1>3. CASE Video!SendFrame
    BY <1>1, <1>3, SendView
  <1>4. CASE Video!OnNack
    BY <1>4 DEF Video!OnNack, Unrepaired
  <1>5. CASE Video!Lose
    BY <1>1, <1>5, LoseView
  <1>6. CASE Video!Deliver
    BY <1>1, <1>6, DeliverView
  <1>7. CASE Video!Elapse
    BY <1>2, <1>7 DEF Video!Elapse, Video!source, Video!losing, Video!receiver
  <1>8. CASE Video!GiveUp
    BY <1>2, <1>8 DEF Video!GiveUp, Video!source, Video!losing, Video!receiver
  <1>9. CASE Video!Clear
    BY <1>2, <1>9 DEF Video!Clear, Video!source, Video!losing, Video!receiver
  <1>10. CASE Video!Restart
    BY <1>2, <1>10 DEF Video!Restart, Video!source, Video!losing, Video!receiver
  <1>11. CASE Video!Ask
    BY <1>2, <1>11 DEF Video!Ask, Video!source, Video!losing, Video!receiver
  <1>12. CASE UNCHANGED Video!vars
    BY <1>2, <1>12 DEF Video!vars
  <1> QED
    BY <1>3, <1>4, <1>5, <1>6, <1>7, <1>8, <1>9, <1>10, <1>11, <1>12
       DEF Video!Next, Video!ProcessNack

\* Every NAL unit that the video receiver hands up is one that was sent, with all its
\* fragments and no others, whatever is lost, however packets overtake each other across
\* the wraps of the sequence numbers, and whenever a second passes or the receiver starts
\* anew: the slots that it has searched hold nothing of an earlier round.  Losses and
\* reordering are few, measured by the numbers there are, nothing is sent again, and
\* a wait never fills the buffer, which is when packets of an earlier round stay in it.
THEOREM HandedUpWhole ==
    ASSUME Video!StreamsOK, \A w \in VideoNetworks : Near(w)
    PROVE  Video!Spec /\ []Roomy => []NalsWhole
  <1> DEFINE Inv == ViewInv /\ Unrepaired
  <1>1. ViewInv => NalsWhole
    <2> SUFFICES ASSUME ViewInv, NEW i \in DOMAIN handed
                 PROVE  LET id == handed[i][1][1]
                        IN handed[i] = [p \in 1..nals[id].n |-> <<id, p>>]
      BY DEF NalsWhole
    <2>1. handed[i] \in Wholes(nals) /\ nals \in Nals
      <3> PICK S : S = Wholes(nals)
        OBVIOUS
      <3>1. handed \in Seq(S) /\ nals \in Nals
        BY DEF ViewInv, SentWell
      <3> QED
        BY <3>1
    <2>2. PICK id \in DOMAIN nals : handed[i] = Whole(nals, id)
      BY <2>1 DEF Wholes
    <2>3. nals[id].n \in Nat \ {0}
      BY <2>1, NalIs
    <2>4. handed[i] = [p \in 1..nals[id].n |-> <<id, p>>] /\ 1 \in 1..nals[id].n
      BY <2>2, <2>3 DEF Whole
    <2>5. handed[i][1][1] = id
      BY <2>4
    <2> QED
      BY <2>4, <2>5
  <1>2. Video!Init => Inv
    <2> SUFFICES ASSUME Video!Init PROVE Inv
      OBVIOUS
    <2>1. network \in VideoNetworks
      BY DEF Video!Init
    <2> QED
      BY <2>1, InitView, InitUnrepaired
  <1>3. Inv /\ Roomy /\ [Video!Next]_(Video!vars) => Inv'
    BY NextView
  <1>4. Video!Spec /\ []Roomy => []Inv
    BY <1>2, <1>3, PTL DEF Video!Spec
  <1> QED
    BY <1>1, <1>4, PTL

\* The video receiver hands up the NAL units in the order they were sent in and none twice,
\* whatever is lost and however often process_nack() starts it anew: a packet that comes late
\* was never given up on.  The conditions are those of HandedUpWhole, and two more.  An access
\* unit has one fragmented NAL unit at most and at its end, as others are handed up after
\* those that follow them.  Packets overtake each other, or the receiver gives up those that
\* do not come within a second, but not both: a keyframe that was overtaken, given up on and
\* comes after all starts the receiver anew in the past.
THEOREM HandedUpInOrder ==
    ASSUME Video!StreamsOK, \A w \in VideoNetworks : Near(w) /\ InSequence(w)
    PROVE  Video!Spec /\ []Roomy => []HandedInOrder
  <1> DEFINE Inv == ViewInv /\ Unrepaired
  <1>1. ViewInv => HandedInOrder
    <2> SUFFICES ASSUME ViewInv, network.window = 1 \/ ~jumped, NEW i \in 1..(Len(handed) - 1)
                 PROVE  handed[i][1][1] < handed[i + 1][1][1]
      BY DEF HandedInOrder
    <2>1. InSequence(network)
      BY DEF ViewInv, SentWell
    <2>2. PICK top \in Nat : Positioned(top)
      BY DEF ViewInv
    <2>3. PICK b : Past(b)
      BY <2>2 DEF Positioned
    <2>4. Rising(handed)
      BY <2>1, <2>3 DEF Past, Shown
    <2>5. i \in DOMAIN handed /\ i + 1 \in DOMAIN handed /\ i < i + 1
      <3> PICK S : S = Wholes(nals)
        OBVIOUS
      <3>1. handed \in Seq(S)
        BY DEF ViewInv, SentWell
      <3> QED
        BY <3>1
    <2> QED
      BY <2>4, <2>5 DEF Rising
  <1>2. Video!Init => Inv
    <2> SUFFICES ASSUME Video!Init PROVE Inv
      OBVIOUS
    <2>1. network \in VideoNetworks
      BY DEF Video!Init
    <2> QED
      BY <2>1, InitView, InitUnrepaired
  <1>3. Inv /\ Roomy /\ [Video!Next]_(Video!vars) => Inv'
    BY NextView
  <1>4. Video!Spec /\ []Roomy => []Inv
    BY <1>2, <1>3, PTL DEF Video!Spec
  <1> QED
    BY <1>1, <1>4, PTL

-----------------------------------------------------------------------------
(* Without losses the video receiver shows everything.                     *)

\* With packet k comes what ends the wait for a keyframe.
Keyed(k) == stream[k].kind # "stap" /\ IsKey(Type(stream[k]))

\* A keyframe came with packet k or before it.
Due(k) == \E key \in 1..k : Keyed(key)

\* The NAL units of packet k are among those handed up and those of out.
Has(out, k) ==
    \A q \in DOMAIN stream[k].ids :
        \/ stream[k].ids[q] \in HandedIds
        \/ \E j \in DOMAIN out : out[j][1][1] = stream[k].ids[q]

\* Up to packet k, all are that should be.
Covered(w, out, k) == \A a \in 1..k : Due(a) => ~w /\ Has(out, a)

\* It is so, and nothing is collected.
Showing(st, k) == st.fu = <<>> /\ Covered(st.wait, st.out, k)

\* What invoke_rtp_frame() gets is what is missing.
LEMMA HandUpShows ==
    ASSUME NEW k \in Nat, NEW v, NEW out \in Seq(Wholes(nals)), NEW frames \in Seq(Wholes(nals)),
           \A a \in 1..k : Due(a) => ~v /\ (Has(out, a) \/ Has(frames, a))
    PROVE  Showing(Video!HandUp(Assembly(v, <<>>, out), frames), k)
  <1> PICK st : st = Assembly(v, <<>>, out)
    OBVIOUS
  <1>1. st.wait = v /\ st.fu = <<>> /\ st.out = out
    BY DEF Assembly
  <1>2. CASE v
    <2>1. Video!HandUp(st, frames) = st
      BY <1>1, <1>2 DEF Video!HandUp
    <2>2. Covered(v, out, k)
      BY <1>2 DEF Covered
    <2> QED
      BY <1>1, <2>1, <2>2 DEF Showing
  <1>3. CASE ~v
    <2> PICK new : new = out \o frames
      OBVIOUS
    <2>1. Video!HandUp(st, frames) = Assembly(v, <<>>, new)
      BY <1>1, <1>3 DEF Video!HandUp, Assembly
    <2> PICK S, d, n : S = Wholes(nals) /\ d = Len(out) /\ n = Len(frames)
      OBVIOUS
    <2>2. /\ out \in Seq(S) /\ frames \in Seq(S) /\ d \in Nat /\ n \in Nat
          /\ DOMAIN out = 1..d /\ DOMAIN frames = 1..n
      OBVIOUS
    <2>3. /\ DOMAIN new = 1..(d + n)
          /\ \A i \in 1..(d + n) : new[i] = IF i <= d THEN out[i] ELSE frames[i - d]
      <3>1. Parts(S, new, out, frames, d, n)
        BY <2>2, ConcatIs DEF Joined
      <3> QED
        BY <2>2, <3>1 DEF Parts
    <2>4. \A j \in DOMAIN out : j \in DOMAIN new /\ new[j] = out[j]
      BY <2>2, <2>3
    <2>5. \A j \in DOMAIN frames : d + j \in DOMAIN new /\ new[d + j] = frames[j]
      <3>1. \A j \in 1..n : d + j \in 1..(d + n) /\ ~(d + j <= d) /\ (d + j) - d = j
        BY <2>2
      <3> QED
        BY <2>2, <2>3, <3>1
    <2>6. ASSUME NEW a \in 1..k, Due(a) PROVE Has(new, a)
      <3>1. Has(out, a) => Has(new, a)
        BY <2>4, Zenon DEF Has
      <3>2. Has(frames, a) => Has(new, a)
        <4>1. \A j \in DOMAIN frames : \E i \in DOMAIN new : new[i] = frames[j]
          BY <2>5
        <4> SUFFICES ASSUME Has(frames, a), NEW q \in DOMAIN stream[a].ids,
                            stream[a].ids[q] \notin HandedIds
                     PROVE  \E i \in DOMAIN new : new[i][1][1] = stream[a].ids[q]
          BY Zenon DEF Has
        <4>2. PICK j \in DOMAIN frames : frames[j][1][1] = stream[a].ids[q]
          BY Zenon DEF Has
        <4>3. PICK i \in DOMAIN new : new[i] = frames[j]
          BY <4>1
        <4> QED
          BY <4>2, <4>3
      <3> QED
        BY <2>6, <3>1, <3>2
    <2>7. Covered(v, new, k)
      BY <1>3, <2>6 DEF Covered
    <2> PICK after : after = Video!HandUp(st, frames)
      OBVIOUS
    <2>8. after.fu = <<>> /\ after.wait = v /\ after.out = new
      BY <2>1 DEF Assembly
    <2> QED
      BY <2>7, <2>8, Zenon DEF Showing
  <1> QED
    BY <1>2, <1>3

\* Packet a is a fragment of the same NAL unit as packet k.
Same(a, k) == stream[a].kind = "fu" /\ stream[a].ids[1] = stream[k].ids[1]

\* Packet k is a fragment that others follow.
Cut(k) == k \in DOMAIN stream /\ stream[k].kind = "fu" /\ ~stream[k].m

\* Up to packet k, all are that should be, but for the NAL unit that is collected.
Collecting(st, k) ==
    /\ k \in DOMAIN stream /\ stream[k].kind = "fu"
    /\ st.fu # <<>> /\ st.fu[1][1] = stream[k].ids[1]
    /\ \A a \in 1..k : Due(a) => Same(a, k) \/ (~st.wait /\ Has(st.out, a))

\* combin_frame() before and after the end of the access unit
Halfway(st, k) == (Showing(st, k) /\ stream[k].kind # "fu") \/ Collecting(st, k)
Showed(st, k) == (Showing(st, k) /\ ~Cut(k)) \/ (Collecting(st, k) /\ Cut(k))

\* A packet is due after a keyframe or when it is one.
LEMMA DueIs ==
    ASSUME NEW k \in Nat \ {0}, NEW a, a = k - 1
    PROVE  /\ Due(k) => Keyed(k) \/ (a \in 1..a /\ Due(a))
           /\ \A b \in 1..k : b = k \/ b \in 1..a
  <1>1. \A b \in 1..k : b = k \/ b \in 1..a
    OBVIOUS
  <1>2. ASSUME Due(k), ~Keyed(k) PROVE a \in 1..a /\ Due(a)
    <2>1. PICK key \in 1..k : Keyed(key)
      BY <1>2 DEF Due
    <2>2. key \in 1..a
      BY <1>1, <1>2, <2>1
    <2>3. a \in 1..a
      BY <2>2
    <2> QED
      BY <2>1, <2>2, <2>3 DEF Due
  <1> QED
    BY <1>1, <1>2

\* After a fragment that others follow comes the next one of the same NAL unit.
LEMMA CutGoesOn ==
    ASSUME nals \in Nals, Piece(stream, nals), LastMarked(stream, nals),
           NEW k \in DOMAIN stream, NEW a, a = k - 1
    PROVE  Cut(a) => Continues(stream[a], stream[k])
  <1> SUFFICES ASSUME Cut(a) PROVE Continues(stream[a], stream[k])
    OBVIOUS
  <1>1. stream \in Seq(Packet) /\ Placed(stream, nals, a) /\ a \in DOMAIN stream
    BY DEF Piece, Cut
  <1>2. a + 1 = k
    <2>1. k \in Int
      BY <1>1
    <2> QED
      BY <2>1
  <1> PICK id, part, n : id = stream[a].ids[1] /\ part = stream[a].part /\ n = nals[id].n
    OBVIOUS
  <1>3. part \in 1..n /\ id \in DOMAIN nals /\ (part < n => Continues(stream[a], stream[a + 1]))
    BY <1>1 DEF Placed, Cut
  <1>4. part # n
    BY <1>1 DEF LastMarked, Cut
  <1>5. n \in Nat
    BY <1>3, NalIs
  <1> QED
    BY <1>2, <1>3, <1>4, <1>5

\* Before a fragment that is not the first comes the one before it.
LEMMA CutBefore ==
    ASSUME nals \in Nals, Piece(stream, nals),
           NEW k \in DOMAIN stream, NEW a, a = k - 1, stream[k].kind = "fu", stream[k].part # 1
    PROVE  Cut(a) /\ stream[a].ids[1] = stream[k].ids[1]
  <1> PICK id, part, n : id = stream[k].ids[1] /\ part = stream[k].part /\ n = nals[id].n
    OBVIOUS
  <1>1. stream \in Seq(Packet) /\ Placed(stream, nals, k)
    BY DEF Piece
  <1>2. id \in DOMAIN nals /\ part \in 1..n /\ (part > 1 => a \in DOMAIN stream /\ Continues(stream[a], stream[k]))
    BY <1>1 DEF Placed
  <1>3. a \in DOMAIN stream /\ Continues(stream[a], stream[k])
    BY <1>2
  <1>4. stream[a].kind = "fu" /\ stream[a].ids[1] = id /\ part = stream[a].part + 1
    BY <1>3 DEF Continues
  <1>5. Placed(stream, nals, a)
    BY <1>3 DEF Piece
  <1>6. stream[a].part \in 1..n
    BY <1>4, <1>5 DEF Placed
  <1>7. n \in Nat
    BY <1>2, NalIs
  <1>8. stream[a].part < n
    BY <1>2, <1>4, <1>6, <1>7
  <1>9. ~stream[a].m
    BY <1>4, <1>5, <1>8 DEF Placed
  <1> QED
    BY <1>3, <1>4, <1>9 DEF Cut

\* combin_frame() on a packet at place k that is no fragment
LEMMA WholeShown ==
    ASSUME NEW k \in Nat \ {0}, NEW a, a = k - 1, NEW w, NEW v, NEW out \in Seq(Wholes(nals)),
           NEW whole \in Seq(Wholes(nals)), Covered(w, out, a), Has(whole, k),
           v => w, Keyed(k) => ~v
    PROVE  Showing(Video!HandUp(Assembly(v, <<>>, out), whole), k)
  <1>1. ASSUME NEW c \in 1..k, Due(c) PROVE ~v /\ (Has(out, c) \/ Has(whole, c))
    <2>1. CASE c \in 1..a
      BY <1>1, <2>1, Zenon DEF Covered
    <2>2. CASE c = k
      <3>1. Keyed(k) \/ (a \in 1..a /\ Due(a))
        BY <1>1, <2>2, DueIs
      <3>2. ~v
        BY <3>1, Zenon DEF Covered
      <3> QED
        BY <2>2, <3>2
    <2> QED
      BY <2>1, <2>2, DueIs
  <1> QED
    BY <1>1, HandUpShows

\* combin_frame() on the packet at place k
LEMMA PacketShown ==
    ASSUME nals \in Nals, Piece(stream, nals), LastMarked(stream, nals),
           NEW k \in DOMAIN stream, NEW a, a = k - 1, NEW st, Assembled(st, a), Showed(st, a)
    PROVE  Halfway(Video!AddPacket(st, stream[k]), k)
  <1> DEFINE p == stream[k]
             whole == [i \in DOMAIN p.ids |-> << <<p.ids[i], 1>> >>]
             new == Video!AddPacket(st, p)
  <1>1. PICK w, fu, out : /\ st = Assembly(w, fu, out) /\ out \in Seq(Wholes(nals))
                          /\ fu = <<>> \/ Begun(fu, a)
    BY DEF Assembled
  <1>2. p \in Packet /\ Placed(stream, nals, k) /\ stream \in Seq(Packet) /\ k \in Nat \ {0}
    <2>1. stream \in Seq(Packet) /\ Placed(stream, nals, k)
      BY DEF Piece
    <2> QED
      BY <2>1
  <1>3. st.wait = w /\ st.fu = fu /\ st.out = out
    BY <1>1 DEF Assembly
  <1>4. ~Cut(a) => fu = <<>> /\ Covered(w, out, a)
    BY <1>3 DEF Showed, Showing
  <1>5. ASSUME p.kind # "fu"
        PROVE  /\ whole \in Seq(Wholes(nals)) /\ Has(whole, k)
               /\ fu = <<>> /\ Covered(w, out, a)
    <2>1. p.ids \in Seq(Nat) /\ \A i \in DOMAIN p.ids : p.ids[i] \in DOMAIN nals /\ nals[p.ids[i]].n = 1
      BY <1>2, <1>5 DEF Placed, Packet
    <2>2. whole \in Seq(Wholes(nals))
      <3> HIDE DEF p
      <3> QED
        BY <2>1, SinglesAreWhole
    <2>3. Has(whole, k)
      BY DEF Has
    <2>4. ~Cut(a)
      BY <1>5, CutGoesOn DEF Continues
    <2> QED
      BY <1>4, <2>2, <2>3, <2>4
  <1>6. ASSUME NEW v, v => w, Keyed(k) => ~v, p.kind # "fu",
               new = Video!HandUp(Assembly(v, fu, out), whole)
        PROVE  Halfway(new, k)
    <2>1. /\ whole \in Seq(Wholes(nals)) /\ Has(whole, k)
          /\ fu = <<>> /\ Covered(w, out, a)
      BY <1>5, <1>6
    <2> HIDE DEF whole, new
    <2>2. Showing(Video!HandUp(Assembly(v, <<>>, out), whole), k)
      BY <1>1, <1>2, <1>6, <2>1, WholeShown
    <2>3. Showing(new, k)
      BY <1>6, <2>1, <2>2
    <2> QED
      BY <1>6, <2>3 DEF Halfway
  <1>7. CASE p.kind = "single"
    <2> PICK v : v = (w /\ ~IsKey(Type(p)))
      OBVIOUS
    <2>1. [st EXCEPT !.wait = @ /\ ~IsKey(Type(p))] = Assembly(v, fu, out)
      BY <1>1 DEF Assembly
    <2>2. new = Video!HandUp(Assembly(v, fu, out), whole)
      BY <1>7, <2>1 DEF Video!AddPacket, Video!IsKey, IsKey, Video!Type, Type
    <2>3. p.kind # "fu" /\ (v => w) /\ (Keyed(k) => ~v)
      BY <1>7 DEF Keyed
    <2> HIDE DEF p, whole, new
    <2> QED
      BY <1>6, <2>2, <2>3 DEF new, p
  <1>8. CASE p.kind = "stap"
    <2>1. new = Video!HandUp(Assembly(w, fu, out), whole)
      BY <1>1, <1>8 DEF Video!AddPacket
    <2>2. p.kind # "fu" /\ (w => w) /\ (Keyed(k) => ~w)
      BY <1>8 DEF Keyed
    <2> HIDE DEF p, whole, new
    <2> QED
      BY <1>6, <2>1, <2>2 DEF new, p
  <1>9. CASE p.kind = "fu"
    <2> PICK id, part : id = p.ids[1] /\ part = p.part
      OBVIOUS
    <2> PICK more : more = Video!AddFragment(fu, id, part)
      OBVIOUS
    <2>1. new = Assembly(w, more, out)
      BY <1>1, <1>9 DEF Video!AddPacket, Assembly
    <2>2. Same(k, k)
      BY <1>9 DEF Same
    <2>3. \A c \in 1..k : c = k \/ c \in 1..a
      BY <1>2, DueIs
    <2>4. ASSUME more # <<>>, more[1][1] = id,
                 \A c \in 1..a : Due(c) => Same(c, k) \/ (~w /\ Has(out, c))
          PROVE  Collecting(new, k)
      <3>1. new.wait = w /\ new.fu = more /\ new.out = out
        BY <2>1 DEF Assembly
      <3> HIDE DEF new
      <3>2. \A c \in 1..k : Due(c) => Same(c, k) \/ (~w /\ Has(out, c))
        BY <2>2, <2>3, <2>4, Zenon
      <3> QED
        BY <1>9, <2>4, <3>1, <3>2 DEF Collecting
    <2>5. CASE part = 1
      <3>1. more = << <<id, part>> >>
        BY <2>5 DEF Video!AddFragment
      <3>2. more # <<>> /\ more[1][1] = id
        BY <3>1
      <3>3. ~Cut(a)
        <4> SUFFICES ASSUME Cut(a) PROVE FALSE
          OBVIOUS
        <4>1. Continues(stream[a], p)
          BY CutGoesOn
        <4>2. Placed(stream, nals, a) /\ stream[a].kind = "fu"
          BY DEF Piece, Cut
        <4>3. stream[a].part \in 1..nals[stream[a].ids[1]].n /\ part = stream[a].part + 1
          BY <4>1, <4>2 DEF Placed, Continues
        <4> QED
          BY <2>5, <4>3
      <3>4. Covered(w, out, a)
        BY <1>4, <3>3
      <3>5. \A c \in 1..a : Due(c) => Same(c, k) \/ (~w /\ Has(out, c))
        BY <3>4, Zenon DEF Covered
      <3> QED
        BY <2>4, <3>2, <3>5 DEF Halfway
    <2>6. CASE part # 1
      <3>1. Cut(a) /\ stream[a].ids[1] = id
        BY <1>9, <2>6, CutBefore
      <3>2. Collecting(st, a)
        BY <3>1 DEF Showed
      <3>3. fu # <<>> /\ fu[1][1] = id /\ \A c \in 1..a : Due(c) => Same(c, a) \/ (~w /\ Has(out, c))
        BY <1>3, <3>1, <3>2 DEF Collecting
      <3>4. \A c \in 1..a : Due(c) => Same(c, k) \/ (~w /\ Has(out, c))
        BY <3>1, <3>3, Zenon DEF Same
      <3>5. more = Append(fu, <<id, part>>)
        BY <2>6, <3>3 DEF Video!AddFragment
      <3>6. more # <<>> /\ more[1] = fu[1]
        <4>0. PICK i \in DOMAIN nals : \E j \in 1..nals[i].n : fu = [q \in 1..j |-> <<i, q>>]
          BY <1>1, <3>3 DEF Begun
        <4>1. PICK j \in 1..nals[i].n : fu = [q \in 1..j |-> <<i, q>>]
          BY <4>0
        <4> PICK X : X = {<<i, q>> : q \in Nat} \union {<<id, part>>}
          OBVIOUS
        <4>2. fu \in Seq(X) /\ <<id, part>> \in X
          <5>1. nals[i].n \in Nat \ {0}
            BY NalIs
          <5>2. fu \in [1..j -> X] /\ j \in Nat
            BY <4>1, <5>1
          <5> QED
            BY <5>2
        <4> QED
          BY <3>3, <3>5, <4>2
      <3> QED
        BY <2>4, <3>3, <3>4, <3>6 DEF Halfway
    <2> QED
      BY <2>5, <2>6
  <1> QED
    BY <1>2, <1>7, <1>8, <1>9 DEF Packet

\* combin_frame() at a marked packet
LEMMA UnitShown ==
    ASSUME nals \in Nals, Piece(stream, nals), NEW k \in DOMAIN stream, stream[k].m,
           NEW st, Assembled(st, k), Halfway(st, k)
    PROVE  Showing(Video!EndUnit(st), k)
  <1> DEFINE new == Video!EndUnit(st)
  <1>1. PICK w, fu, out : /\ st = Assembly(w, fu, out) /\ out \in Seq(Wholes(nals))
                          /\ fu = <<>> \/ Begun(fu, k)
    BY DEF Assembled
  <1>2. st.wait = w /\ st.fu = fu /\ st.out = out
    BY <1>1 DEF Assembly
  <1>3. CASE Showing(st, k)
    <2>1. new = st
      BY <1>3 DEF Video!EndUnit, Showing
    <2> QED
      BY <1>3, <2>1
  <1>4. CASE Collecting(st, k)
    <2> PICK id : id = stream[k].ids[1]
      OBVIOUS
    <2>1. /\ stream[k].kind = "fu" /\ fu # <<>> /\ fu[1][1] = id
          /\ \A c \in 1..k : Due(c) => Same(c, k) \/ (~w /\ Has(out, c))
      BY <1>2, <1>4 DEF Collecting
    <2>2. Placed(stream, nals, k) /\ stream \in Seq(Packet) /\ k \in Nat
      <3>1. stream \in Seq(Packet) /\ Placed(stream, nals, k)
        BY DEF Piece
      <3> QED
        BY <3>1
    <2>3. fu = Whole(nals, id) /\ id \in DOMAIN nals
      <3>0. PICK i \in DOMAIN nals : \E j \in 1..nals[i].n :
              fu = [p \in 1..j |-> <<i, p>>] /\ stream[k].ids[1] = i /\ stream[k].part = j
        BY <1>1, <2>1 DEF Begun
      <3>1. PICK j \in 1..nals[i].n :
              fu = [p \in 1..j |-> <<i, p>>] /\ stream[k].ids[1] = i /\ stream[k].part = j
        BY <3>0
      <3>2. nals[id].n \in Nat \ {0} /\ i = id
        BY <3>1, NalIs
      <3>3. j = nals[id].n
        BY <2>1, <2>2, <3>1, <3>2 DEF Placed
      <3> QED
        BY <3>1, <3>2, <3>3 DEF Whole
    <2> PICK frames : frames = <<fu>>
      OBVIOUS
    <2>4. frames \in Seq(Wholes(nals))
      <3> PICK S : S = Wholes(nals)
        OBVIOUS
      <3>1. fu \in S
        BY <2>3 DEF Wholes
      <3>2. <<fu>> \in Seq(S)
        BY <3>1
      <3> QED
        BY <3>2
    <2> PICK key : key = IsKey(nals[id].t)
      OBVIOUS
    <2>5. PICK v : v = (w /\ ~key) /\ new = Video!HandUp(Assembly(v, <<>>, out), frames)
      <3>1. Ended(w, fu, out)
        BY <2>1, AssemblyEnds, Zenon
      <3>2. st = Assembly(w, fu, out) /\ key = Video!IsKey(nals[fu[1][1]].t)
        BY <1>1, <2>1 DEF Video!IsKey, IsKey
      <3> QED
        BY <3>1, <3>2 DEF Ended
    <2>6. ASSUME NEW c \in 1..k, Due(c) PROVE ~v /\ (Has(out, c) \/ Has(frames, c))
      <3>1. ~v
        <4>1. PICK q \in 1..c : Keyed(q)
          BY <2>6 DEF Due
        <4>2. q \in 1..k /\ q \in 1..q
          BY <2>2
        <4>3. Due(q)
          BY <4>1, <4>2 DEF Due
        <4>4. Same(q, k) \/ ~w
          BY <2>1, <4>2, <4>3
        <4>5. Same(q, k) => key
          BY <4>1 DEF Same, Keyed, Type
        <4> QED
          BY <2>5, <4>4, <4>5
      <3>2. ASSUME Same(c, k) PROVE Has(frames, c)
        <4>1. c \in DOMAIN stream
          BY <2>2
        <4>2. Placed(stream, nals, c)
          BY <4>1 DEF Piece
        <4>3. DOMAIN stream[c].ids = {1} /\ stream[c].ids[1] = id
          BY <3>2, <4>2 DEF Placed, Same
        <4>4. 1 \in DOMAIN frames /\ frames[1][1][1] = id
          BY <2>1
        <4> QED
          BY <4>3, <4>4 DEF Has
      <3> QED
        BY <2>1, <2>6, <3>1, <3>2
    <2> HIDE DEF new
    <2>7. Showing(Video!HandUp(Assembly(v, <<>>, out), frames), k)
      BY <1>1, <2>2, <2>4, <2>6, HandUpShows
    <2> QED
      BY <2>5, <2>7 DEF new
  <1> QED
    BY <1>3, <1>4 DEF Halfway

\* What combin_frame() hands up of n packets in a row, the first at place b + 1, is all that
\* it should be of access units that are complete.
LEMMA CombineShows ==
    ASSUME nals \in Nals, Piece(stream, nals), LastMarked(stream, nals),
           NEW b \in Nat, NEW n \in Nat, b + n <= Len(stream), NEW buffer, NEW c,
           \A i \in 1..n : Video!At(buffer, c, i - 1) = [k |-> b + i, m |-> stream[b + i].m],
           b = 0 \/ stream[b].m, n = 0 \/ stream[b + n].m, Covered(wait, <<>>, b)
    PROVE  LET st == Video!Combine(buffer, c, n) IN Covered(st.wait, st.out, b + n)
  <1> DEFINE f == CHOOSE f : Combines(f, buffer, c, n)
             bad == {i \in 0..n : ~(Assembled(f[i], b + i) /\ Showed(f[i], b + i))}
  <1>1. Video!Combine(buffer, c, n) = f[n]
    BY DEF Video!Combine, Combines, Taken
  <1>2. Combines(f, buffer, c, n)
    BY CombineExists
  <1> HIDE DEF f
  <1>3. \A i \in 0..n : f[i] = IF i = 0 THEN [wait |-> wait, fu |-> <<>>, out |-> <<>>]
                               ELSE Taken(f[i - 1], Video!At(buffer, c, i - 1))
    BY <1>2 DEF Combines
  <1>8. DOMAIN stream = 1..Len(stream) /\ Len(stream) \in Nat
    <2>1. stream \in Seq(Packet)
      BY DEF Piece
    <2> QED
      BY <2>1
  <1>4. bad = {}
    <2> SUFFICES ASSUME bad # {} PROVE FALSE
      OBVIOUS
    <2>1. bad \in SUBSET Nat
      OBVIOUS
    <2>2. PICK m \in bad : \A y \in bad : m <= y
      <3> HIDE DEF bad
      <3> QED
        BY <2>1, MinIsLeast
    <2>3. m \in 0..n /\ ~(Assembled(f[m], b + m) /\ Showed(f[m], b + m))
      OBVIOUS
    <2>4. CASE m = 0
      <3>1. f[m] = Assembly(wait, <<>>, <<>>) /\ b + m = b
        BY <1>3, <2>3, <2>4 DEF Assembly
      <3>2. Assembled(f[m], b + m)
        <4>1. <<>> \in Seq(Wholes(nals))
          OBVIOUS
        <4> QED
          BY <3>1, <4>1 DEF Assembled
      <3>3. Showing(f[m], b) /\ ~Cut(b)
        BY <1>8, <3>1 DEF Showing, Assembly, Cut
      <3> QED
        BY <2>3, <3>1, <3>2, <3>3 DEF Showed
    <2>5. CASE m # 0
      <3>1. m - 1 \in 0..n /\ m - 1 \notin bad /\ m \in 1..n
        BY <2>2, <2>3, <2>5
      <3>2. Assembled(f[m - 1], b + (m - 1)) /\ Showed(f[m - 1], b + (m - 1))
        BY <3>1
      <3> PICK k, a, st : k = b + m /\ a = k - 1 /\ st = f[m - 1]
        OBVIOUS
      <3>3. a = b + (m - 1) /\ k \in DOMAIN stream
        BY <1>8, <2>3, <3>1
      <3>4. Video!At(buffer, c, m - 1) = [k |-> k, m |-> stream[k].m]
        BY <3>1
      <3> HIDE DEF bad
      <3> PICK added : added = Video!AddPacket(st, stream[k])
        OBVIOUS
      <3>5. f[m] = IF stream[k].m THEN Video!EndUnit(added) ELSE added
        <4> PICK p : p = [k |-> k, m |-> stream[k].m]
          OBVIOUS
        <4>1. f[m] = Taken(st, p)
          BY <1>3, <2>3, <2>5, <3>4
        <4>2. p.k = k /\ p.m = stream[k].m
          OBVIOUS
        <4> QED
          BY <4>1, <4>2 DEF Taken
      <3>6. Assembled(st, a) /\ Showed(st, a)
        BY <3>2, <3>3
      <3>7. Assembled(added, k)
        BY <3>3, <3>6, PacketAdded
      <3>8. Halfway(added, k)
        BY <3>3, <3>6, PacketShown
      <3>9. CASE stream[k].m
        <4>1. Assembled(Video!EndUnit(added), k) /\ Showing(Video!EndUnit(added), k)
          BY <3>3, <3>7, <3>8, <3>9, UnitEnded, UnitShown
        <4>2. Assembled(f[m], k) /\ Showing(f[m], k) /\ ~Cut(k)
          BY <3>5, <3>9, <4>1 DEF Cut
        <4> QED
          BY <2>3, <4>2 DEF Showed
      <3>10. CASE ~stream[k].m
        <4>1. f[m] = added
          BY <3>5, <3>10
        <4>2. Showed(added, k)
          BY <3>3, <3>8, <3>10 DEF Halfway, Showed, Cut, Collecting
        <4> QED
          BY <2>3, <3>7, <4>1, <4>2
      <3> QED
        BY <3>9, <3>10
    <2> QED
      BY <2>4, <2>5
  <1>5. n \in 0..n
    OBVIOUS
  <1>6. Showed(f[n], b + n)
    BY <1>4, <1>5
  <1>9. ~Cut(b + n)
    BY <1>8 DEF Cut
  <1>7. Covered(f[n].wait, f[n].out, b + n)
    BY <1>6, <1>9 DEF Showed, Showing
  <1> QED
    BY <1>1, <1>7

\* What is handed up of what is missing is missing no more.
LEMMA HandedCovers ==
    ASSUME stream' = stream, nals' = nals, NEW S, handed \in Seq(S), NEW out \in Seq(S),
           handed' = handed \o out, NEW k \in Nat, NEW w, Covered(w, out, k), wait' => w
    PROVE  Covered(wait, <<>>, k)'
  <1> PICK d, n : d = Len(handed) /\ n = Len(out)
    OBVIOUS
  <1>1. Parts(S, handed', handed, out, d, n)
    <2>1. Joined(handed', handed, out)
      BY DEF Joined
    <2>2. d \in Nat /\ n \in Nat
      OBVIOUS
    <2> QED
      BY <2>1, <2>2, ConcatIs
  <1>2. /\ d \in Nat /\ n \in Nat /\ DOMAIN handed = 1..d /\ DOMAIN out = 1..n
        /\ DOMAIN handed' = 1..(d + n)
        /\ \A i \in 1..(d + n) : handed'[i] = IF i <= d THEN handed[i] ELSE out[i - d]
    <2>1. d \in Nat /\ n \in Nat /\ DOMAIN handed = 1..d /\ DOMAIN out = 1..n
      OBVIOUS
    <2> QED
      BY <1>1, <2>1 DEF Parts
  <1>3. HandedIds \subseteq HandedIds'
    <2> SUFFICES ASSUME NEW i \in 1..d PROVE handed[i][1][1] \in HandedIds'
      BY <1>2 DEF HandedIds
    <2>1. i \in DOMAIN handed' /\ handed'[i] = handed[i]
      BY <1>2
    <2> QED
      BY <2>1 DEF HandedIds
  <1>4. ASSUME NEW j \in 1..n PROVE out[j][1][1] \in HandedIds'
    <2> PICK i : i = d + j
      OBVIOUS
    <2>1. i \in 1..(d + n) /\ ~(i <= d) /\ i - d = j
      BY <1>2
    <2>2. i \in DOMAIN handed' /\ handed'[i] = out[j]
      BY <1>2, <2>1
    <2> QED
      BY <2>2 DEF HandedIds
  <1>5. ASSUME NEW a \in 1..k, Has(out, a) PROVE Has(<<>>, a)'
    <2> SUFFICES ASSUME NEW q \in DOMAIN stream[a].ids PROVE stream[a].ids[q] \in HandedIds'
      BY DEF Has
    <2>1. stream[a].ids[q] \in HandedIds \/ \E j \in DOMAIN out : out[j][1][1] = stream[a].ids[q]
      BY <1>5 DEF Has
    <2> QED
      BY <1>2, <1>3, <1>4, <2>1
  <1>6. \A a : Due(a)' <=> Due(a)
    BY DEF Due, Keyed, Type
  <1> SUFFICES ASSUME NEW a \in 1..k, Due(a) PROVE ~wait' /\ Has(<<>>, a)'
    BY <1>6 DEF Covered
  <1>7. ~w /\ Has(out, a)
    BY DEF Covered
  <1> QED
    BY <1>5, <1>7

\* The buffer has no complete access unit from packet b on.
NoneWhole(buffer, b, e) ==
    \A m \in b..e : stream[m + 1].m => \E j \in b..m : buffer[Slot(j)] = Video!None

\* Packet b is the first of an access unit, and what was before it is handed up.
Waiting(b) == (b = 0 \/ stream[b].m) /\ Covered(wait, <<>>, b)

\* The receiver goes on from packet b to packet c, and takes out the packets in between.
Moved(buffer, b, c, e) ==
    /\ c \in Nat /\ b <= c /\ c <= e + 1 /\ begin' = Seq16(c)
    /\ IsBuffer(packs') /\ Keeps(packs', c, e)
    /\ \A j \in b..(c - 1) : buffer[Slot(j)] # Video!None
    /\ \A j \in c..e : packs'[Slot(j)] = buffer[Slot(j)]
    /\ NoneWhole(packs', c, e) /\ Waiting(c)' /\ ~late'

\* The second half of insert_packet() when no second has passed
LEMMA CalmSearch ==
    ASSUME First \in Nat, network' = network, stream' = stream, nals' = nals, nals \in Nals,
           Piece(stream, nals), LastMarked(stream, nals), handed \in Seq(Wholes(nals)),
           NEW b \in Nat, NEW e \in Nat, b <= e, 2 * (e - b) < BufferSize, e < Len(stream),
           NEW buffer, Keeps(buffer, b, e), NEW restart,
           Searched(buffer, Seq16(b), Seq16(e), restart), Waiting(b), ~late
    PROVE  \E c : Moved(buffer, b, c, e)
  <1>0. PICK n, rest, b2, at, st :
          /\ n = Video!Complete(buffer, Seq16(b), Seq16(e))
          /\ rest = Video!Without(buffer, Seq16(b), 0..(n - 1))
          /\ b2 = (Seq16(b) + n) % T
          /\ at = Seq16(b) /\ st = Video!Combine(buffer, Seq16(b), n)
    OBVIOUS
  <1>1. /\ begin' = (b2 + Video!Cardinality({})) % T
        /\ packs' = Video!Without(rest, b2, {})
        /\ handed' = handed \o st.out
        /\ ~late' /\ (wait' => st.wait)
    BY <1>0 DEF Searched
  <1>2. BufferSize \in Nat /\ BufferSize > 0 /\ Len(stream) \in Nat
    BY BufferAssumption DEF Piece
  <1>3. /\ n \in Nat /\ b + n <= e + 1 /\ \A o \in 0..(n - 1) : buffer[Slot(b + o)] # Video!None
        /\ n = 0 \/ buffer[Slot((b + n) - 1)].m
        /\ \A m \in (b + n)..e : buffer[Slot(m)].m => \E j \in b..m : buffer[Slot(j)] = Video!None
    BY <1>0, CompleteIs
  <1> PICK c : c = b + n
    OBVIOUS
  <1>4. e - b < BufferSize /\ c \in Nat /\ b <= c /\ c <= e + 1 /\ e - c < BufferSize
    BY <1>2, <1>3
  <1>5. /\ IsBuffer(rest) /\ Keeps(rest, c, e)
        /\ \A j \in c..(b + BufferSize - 1) : rest[Slot(j)] = buffer[Slot(j)]
    <2>1. /\ IsBuffer(rest) /\ Keeps(rest, b + n, e)
          /\ \A j \in (b + n)..(b + BufferSize - 1) : rest[Slot(j)] = buffer[Slot(j)]
      <3>1. n \in Nat /\ b + n <= e + 1 /\ rest = Video!Without(buffer, Seq16(b), 0..(n - 1))
        BY <1>0, <1>3
      <3> QED
        BY <1>4, <3>1, WithoutKeeps
    <2> QED
      BY <2>1
  <1>6. b2 = Seq16(c)
    <2>1. (Seq16(b) + n) % T = Seq16(b + n)
      BY <1>3, Seq16Shift, Zenon
    <2> QED
      BY <1>0, <2>1
  <1>7. begin' = Seq16(c)
    <2>1. Video!Cardinality({}) = 0
      BY SameCardinality, FS_EmptySet
    <2>2. (Seq16(c) + 0) % T = Seq16(c + 0)
      BY <1>4, Seq16Shift
    <2> QED
      BY <1>1, <1>4, <1>6, <2>1, <2>2
  <1>8. /\ IsBuffer(packs') /\ Keeps(packs', c, e)
        /\ \A j \in c..(c + BufferSize - 1) : packs'[Slot(j)] = rest[Slot(j)]
    <2>1. 0..(0 - 1) = {} /\ 0 \in Nat /\ c + 0 = c /\ c + 0 <= e + 1
      BY <1>4
    <2>2. packs' = Video!Without(rest, Seq16(c), 0..(0 - 1))
      BY <1>1, <1>6, <2>1
    <2>3. /\ IsBuffer(packs') /\ Keeps(packs', c + 0, e)
          /\ \A j \in (c + 0)..(c + BufferSize - 1) : packs'[Slot(j)] = rest[Slot(j)]
      BY <1>4, <1>5, <2>1, <2>2, WithoutKeeps
    <2> QED
      BY <2>1, <2>3
  <1>9. \A j \in c..e : packs'[Slot(j)] = buffer[Slot(j)]
    <2> SUFFICES ASSUME NEW j \in c..e PROVE packs'[Slot(j)] = buffer[Slot(j)]
      OBVIOUS
    <2>1. j \in c..(b + BufferSize - 1) /\ j \in c..(c + BufferSize - 1)
      BY <1>2, <1>4
    <2> QED
      BY <1>5, <1>8, <2>1
  <1>10. \A j \in b..(c - 1) : buffer[Slot(j)] # Video!None
    <2> SUFFICES ASSUME NEW j \in b..(c - 1) PROVE buffer[Slot(j)] # Video!None
      OBVIOUS
    <2>1. j - b \in 0..(n - 1) /\ b + (j - b) = j
      BY <1>3, <1>4
    <2> QED
      BY <1>3, <2>1
  <1>11. \A j \in b..e : buffer[Slot(j)] # Video!None => buffer[Slot(j)].m = stream[j + 1].m
    <2> SUFFICES ASSUME NEW j \in b..e, buffer[Slot(j)] # Video!None
                 PROVE  buffer[Slot(j)].m = stream[j + 1].m
      OBVIOUS
    <2>1. j \in b..(b + BufferSize - 1)
      BY <1>2, <1>4
    <2>2. buffer[Slot(j)] = Sent(j)
      BY <2>1 DEF Keeps
    <2> QED
      BY <2>2 DEF Sent
  <1>12. NoneWhole(packs', c, e)
    <2> SUFFICES ASSUME NEW m \in c..e, stream[m + 1].m, \A j \in c..m : packs'[Slot(j)] # Video!None
                 PROVE  FALSE
      BY DEF NoneWhole
    <2>1. ASSUME NEW j \in b..m PROVE buffer[Slot(j)] # Video!None
      <3>1. j \in b..(c - 1) \/ (j \in c..m /\ j \in c..e)
        BY <1>4
      <3> QED
        BY <1>9, <1>10, <3>1
    <2>2. m \in b..m /\ m \in b..e /\ m \in (b + n)..e
      BY <1>4
    <2>3. buffer[Slot(m)].m
      BY <1>11, <2>1, <2>2
    <2> QED
      BY <1>3, <2>1, <2>2, <2>3
  <1>13. n = 0 \/ stream[c].m
    <2> SUFFICES ASSUME n # 0 PROVE stream[c].m
      OBVIOUS
    <2>1. c - 1 \in b..(c - 1) /\ c - 1 \in b..e /\ (c - 1) + 1 = c
      BY <1>3, <1>4
    <2>2. buffer[Slot(c - 1)].m
      BY <1>3
    <2> QED
      BY <1>10, <1>11, <2>1, <2>2
  <1>14. Covered(st.wait, st.out, c) /\ st.out \in Seq(Wholes(nals))
    <2>1. Lined(buffer, at, b, n)
      BY <1>0, <1>2, <1>3, <1>4, LinedIs
    <2>2. n = 0 \/ stream[b + n].m
      BY <1>13
    <2>3. st.out \in Seq(Wholes(nals))
      BY <1>0, <1>3, <2>1, CombineIs DEF Lined
    <2>4. Covered(st.wait, st.out, b + n)
      BY <1>0, <1>3, <2>1, <2>2, CombineShows DEF Lined, Waiting
    <2> QED
      BY <2>3, <2>4
  <1>15. Waiting(c)'
    <2> PICK S, w, out : S = Wholes(nals) /\ w = st.wait /\ out = st.out
      OBVIOUS
    <2>1. handed \in Seq(S) /\ out \in Seq(S) /\ handed' = handed \o out /\ Covered(w, out, c) /\ (wait' => w)
      BY <1>1, <1>14
    <2>2. Covered(wait, <<>>, c)'
      BY <1>4, <2>1, HandedCovers
    <2>3. c = 0 \/ stream'[c].m
      BY <1>3, <1>13 DEF Waiting
    <2> QED
      BY <2>2, <2>3 DEF Waiting
  <1> QED
    BY <1>1, <1>4, <1>7, <1>8, <1>9, <1>10, <1>12, <1>15 DEF Moved

\* The places in the stream of the packets s
Away(s) == {s[i].k : i \in 1..Len(s)}

\* A packet that is taken out is on the way no more.
LEMMA TakenAway ==
    ASSUME OnWay, Len(stream) \in Nat, NEW i \in 1..Len(net), Removed(net', net, i)
    PROVE  Away(net') = Away(net) \ {net[i].k}
  <1> PICK l : l = Len(net)
    OBVIOUS
  <1>1. l \in Nat /\ i \in 1..l /\ Len(net') = l - 1
        /\ \A j \in 1..(l - 1) : net'[j] = IF j < i THEN net[j] ELSE net[j + 1]
    <2> PICK S : S = Sents
      OBVIOUS
    <2>1. net \in Seq(S)
      BY DEF OnWay
    <2>2. /\ Len(net') = l - 1 /\ l \in Nat
          /\ \A j \in 1..(l - 1) : net'[j] = IF j < i THEN net[j] ELSE net[j + 1]
      BY <2>1, RemoveAtIs
    <2> QED
      BY <2>2
  <1>2. ASSUME NEW a \in 1..l, a # i PROVE net[a].k # net[i].k
    <2>1. net[a].k \in Nat /\ net[i].k \in Nat
      BY <1>1, OnWayIs
    <2>2. a < i \/ i < a
      BY <1>1, <1>2
    <2>3. (a < i => net[a].k < net[i].k) /\ (i < a => net[i].k < net[a].k)
      BY <1>1 DEF OnWay
    <2> QED
      BY <2>1, <2>2, <2>3
  <1>3. ASSUME NEW j \in 1..(l - 1) PROVE net'[j].k \in Away(net) \ {net[i].k}
    <2> PICK a : a = IF j < i THEN j ELSE j + 1
      OBVIOUS
    <2>1. a \in 1..l /\ a # i /\ net'[j] = net[a]
      BY <1>1
    <2> QED
      BY <1>2, <2>1 DEF Away
  <1>4. ASSUME NEW a \in 1..l, net[a].k # net[i].k PROVE net[a].k \in Away(net')
    <2> PICK j : j = IF a < i THEN a ELSE a - 1
      OBVIOUS
    <2>1. a # i
      BY <1>4
    <2>2. j \in 1..(l - 1) /\ net'[j] = net[a]
      BY <1>1, <2>1
    <2> QED
      BY <1>1, <2>2 DEF Away
  <1>5. Away(net') \subseteq Away(net) \ {net[i].k}
    BY <1>1, <1>3 DEF Away
  <1>6. Away(net) \ {net[i].k} \subseteq Away(net')
    BY <1>4 DEF Away
  <1> QED
    BY <1>5, <1>6

\* The buffer has the packets b to e that are not on the way.
Matches(buffer, b, e, away) ==
    /\ \A x \in away : x \in Nat /\ x > b
    /\ \A j \in b..e : buffer[Slot(j)] # Video!None <=> j + 1 \notin away

\* The receiver waits for packet b and has all up to packet e that have come.
Gapless(b, e) ==
    /\ Arrived(e + 1) /\ Position(e + 1, b, e) /\ Matches(packs, b, e, Away(net))
    /\ NoneWhole(packs, b, e) /\ Waiting(b)

\* insert_packet(): the search keeps it so.
LEMMA SearchShows ==
    ASSUME Near(network), network' = network, stream' = stream, nals' = nals, nals \in Nals,
           Piece(stream, nals), LastMarked(stream, nals), handed \in Seq(Wholes(nals)),
           NEW b \in Nat, NEW e \in Nat, b <= e, 2 * (e - b) < BufferSize, e < Len(stream),
           NEW buffer, Keeps(buffer, b, e), Matches(buffer, b, e, Away(net')), NEW restart,
           Searched(buffer, Seq16(b), Seq16(e), restart), end' = Seq16(e),
           Waiting(b), ~late, Arrived(e + 1)'
    PROVE  ~late' /\ \E c \in Nat : Gapless(c, e)'
  <1>1. First \in Nat /\ BufferSize \in Nat /\ network.window \in Nat \ {0}
    BY BufferAssumption DEF Near, First
  <1>2. PICK c : Moved(buffer, b, c, e)
    BY <1>1, CalmSearch
  <1>3. /\ c \in Nat /\ b <= c /\ c <= e + 1 /\ begin' = Seq16(c)
        /\ IsBuffer(packs') /\ Keeps(packs', c, e)
        /\ \A j \in b..(c - 1) : buffer[Slot(j)] # Video!None
        /\ \A j \in c..e : packs'[Slot(j)] = buffer[Slot(j)]
        /\ NoneWhole(packs', c, e) /\ Waiting(c)' /\ ~late'
    BY <1>2 DEF Moved
  <1>4. \A j : Slot(j)' = Slot(j)
    BY DEF Seq16, First, Slot
  <1>5. Position(e + 1, c, e)'
    <2>1. 2 * (e - c) < BufferSize /\ e < e + 1 /\ (e + 1) - network.window <= e /\ e + 1 \in Nat
      BY <1>1, <1>3
    <2> QED
      BY <1>3, <2>1, PositionIs
  <1>6. Matches(packs, c, e, Away(net))'
    <2> PICK away : away = Away(net')
      OBVIOUS
    <2>1. \A x \in away : x \in Nat /\ x > b
      BY DEF Matches
    <2>2. \A j \in b..e : buffer[Slot(j)] # Video!None <=> j + 1 \notin away
      BY DEF Matches
    <2>3. ASSUME NEW x \in away PROVE x \in Nat /\ x > c
      <3>1. x \in Nat /\ x > b
        BY <2>1
      <3>2. ASSUME x <= c PROVE FALSE
        <4>1. x - 1 \in b..(c - 1) /\ x - 1 \in b..e /\ (x - 1) + 1 = x
          BY <1>3, <3>1, <3>2
        <4> QED
          BY <1>3, <2>2, <4>1
      <3> QED
        BY <1>3, <3>1, <3>2
    <2>4. ASSUME NEW j \in c..e PROVE packs'[Slot(j)] # Video!None <=> j + 1 \notin away
      <3>1. packs'[Slot(j)] = buffer[Slot(j)]
        BY <1>3
      <3>2. j \in b..e
        BY <1>3
      <3> QED
        BY <2>2, <3>1, <3>2
    <2> QED
      BY <1>4, <2>3, <2>4 DEF Matches
  <1>7. NoneWhole(packs, c, e)'
    BY <1>3, <1>4 DEF NoneWhole
  <1> QED
    BY <1>3, <1>5, <1>6, <1>7 DEF Gapless

\* A packet that is put into the buffer is on the way no more.
LEMMA StoredMatches ==
    ASSUME First \in Nat, NEW b \in Nat, NEW e \in Nat, NEW k \in Nat, NEW f, f = Later(e, k),
           b <= k, 2 * (f - b) < BufferSize, IsBuffer(packs), Keeps(packs, b, e),
           NEW away, Matches(packs, b, e, away), NEW l \in Nat, f < l, \A x \in (e + 2)..l : x \in away,
           NEW new, new = [packs EXCEPT ![Slot(k)] = Sent(k)]
    PROVE  Matches(new, b, f, away \ {k + 1})
  <1>1. BufferSize \in Nat /\ Slot(k) \in Slots
    BY BufferAssumption, SlotInBuffer
  <1>2. \A i \in Slots : new[i] = IF i = Slot(k) THEN Sent(k) ELSE packs[i]
    BY <1>1 DEF IsBuffer
  <1>3. f \in Nat /\ e <= f /\ k <= f /\ f - b < BufferSize
    BY <1>1 DEF Later
  <1>4. ASSUME NEW j \in b..f PROVE new[Slot(j)] # Video!None <=> j + 1 \notin away \ {k + 1}
    <2>1. j \in Nat /\ Slot(j) \in Slots
      BY <1>1, SlotInBuffer
    <2>2. CASE j = k
      <3>1. new[Slot(j)] = Sent(k)
        BY <1>2, <2>1, <2>2
      <3>2. Sent(k).k = k + 1 /\ Video!None.k = 0
        BY DEF Sent, Video!None
      <3>3. Sent(k) # Video!None
        BY <3>2
      <3> QED
        BY <2>2, <3>1, <3>3
    <2>3. CASE j # k
      <3>1. Slot(j) # Slot(k)
        <4>1. CASE j < k
          BY <1>1, <1>3, <2>1, <4>1, SlotsDiffer
        <4>2. CASE k < j
          BY <1>1, <1>3, <2>1, <4>2, SlotsDiffer
        <4> QED
          BY <2>1, <2>3, <4>1, <4>2
      <3>2. new[Slot(j)] = packs[Slot(j)]
        BY <1>2, <2>1, <3>1
      <3>3. j + 1 # k + 1
        BY <2>1, <2>3
      <3>4. CASE j <= e
        <4>1. packs[Slot(j)] # Video!None <=> j + 1 \notin away
          BY <2>1, <3>4 DEF Matches
        <4> QED
          BY <3>2, <3>3, <4>1
      <3>5. CASE ~(j <= e)
        <4>1. j \in b..(b + BufferSize - 1)
          BY <1>1, <1>3
        <4>2. packs[Slot(j)] = Video!None
          BY <3>5, <4>1 DEF Keeps
        <4>3. j + 1 \in (e + 2)..l
          BY <1>3, <2>1, <3>5
        <4> QED
          BY <3>2, <3>3, <4>2, <4>3
      <3> QED
        BY <3>4, <3>5
    <2> QED
      BY <2>2, <2>3
  <1> QED
    BY <1>4 DEF Matches

\* Nothing is lost, no second passes, and the receiver goes on where it was.
Undisturbed == lost = {} /\ ~network.silences /\ ~restarted /\ ~jumped

\* The strengthening of EverythingShown: so far nothing has come, or no complete access unit
\* waits in the buffer and all before it is handed up.
ShowInv ==
    Undisturbed => /\ ~late
            /\ \/ reset /\ wait /\ Arrived(0)
               \/ ~reset /\ \E b, e \in Nat : Gapless(b, e)

\* The first packet comes.
LEMMA FirstShows ==
    ASSUME ViewInv, Near(network), LastMarked(stream, nals), lost = {}, ~late, reset, wait, Arrived(0),
           network' = network, stream' = stream, nals' = nals, lost' = lost, resent' = resent,
           NEW i, NEW k, Takes(0, i, k)
    PROVE  ~reset' /\ ~late' /\ \E b, e \in Nat : Gapless(b, e)'
  <1>1. /\ SentWell /\ OnWay /\ nals \in Nals /\ Piece(stream, nals) /\ handed \in Seq(Wholes(nals))
        /\ Len(stream) \in Nat
    <2>1. Piece(stream, nals)
      BY DEF ViewInv, SentWell
    <2> QED
      BY <2>1 DEF ViewInv, SentWell, Piece
  <1>2. /\ i = 1 /\ i \in 1..Len(net) /\ \A j \in 1..i : net[i].k - net[j].k < network.window
        /\ k \in Nat /\ k < Len(stream) /\ net[i].k = k + 1
        /\ Removed(net', net, i) /\ Video!Insert(Sent(k))
    BY DEF Takes
  <1>3. k = 0
    <2>1. 1 \in (0 + 1)..Len(stream)
      BY <1>1, <1>2
    <2>2. PICK j \in 1..Len(net) : net[j].k = 1
      BY <2>1 DEF Arrived
    <2>3. j = 1 \/ net[1].k < 1
      <3>1. 1 < j => net[1].k < net[j].k
        BY <1>1, <1>2 DEF OnWay
      <3> QED
        BY <2>2, <3>1
    <2> QED
      BY <1>2, <2>2, <2>3
  <1>4. First \in Nat /\ Video!Number(0 + 1) = Seq16(0)
    <2>1. First \in Nat
      BY DEF Near, First
    <2> QED
      BY <2>1, VideoNumberIs
  <1> PICK at, buffer : at = Seq16(0) /\ buffer = [Video!EmptyBuffer EXCEPT ![Slot(0)] = Sent(0)]
    OBVIOUS
  <1>5. IsFirst(0)
    BY FirstStored
  <1>6. ~reset' /\ end' = at /\ Searched(buffer, at, at, TRUE)
    <2>1. Inserts(Sent(0))
      BY <1>2, <1>3, InsertIs
    <2>2. Video!Number(Sent(0).k) = at /\ at % BufferSize = Slot(0)
      BY <1>4 DEF Sent, Slot
    <2>3. ~Video!AheadOfMod(at, at, BufferSize)
      BY <1>5 DEF IsFirst
    <2> QED
      BY <2>1, <2>2, <2>3 DEF Inserts
  <1>7. Keeps(buffer, 0, 0)
    BY <1>5 DEF IsFirst
  <1>8. Matches(buffer, 0, 0, Away(net'))
    <2>1. Away(net') = Away(net) \ {1}
      BY <1>1, <1>2, <1>3, TakenAway
    <2>2. \A x \in Away(net) : x \in Nat /\ x > 0
      BY <1>1, OnWayIs DEF Away
    <2>3. buffer[Slot(0)] # Video!None
      <3>1. Slot(0) \in Slots
        BY <1>4, SlotInBuffer
      <3>2. buffer[Slot(0)] = Sent(0)
        BY <3>1 DEF Video!EmptyBuffer, Video!Slots, Slots
      <3>3. Sent(0).k = 1 /\ Video!None.k = 0
        BY DEF Sent, Video!None
      <3> QED
        BY <3>2, <3>3
    <2>4. \A j \in 0..0 : j = 0
      OBVIOUS
    <2> QED
      BY <2>1, <2>2, <2>3, <2>4 DEF Matches
  <1>9. Arrived(1)'
    <2>1. 1 = Newest(0, net[i].k - 1)
      BY <1>2, <1>3 DEF Newest
    <2> QED
      BY <1>1, <1>2, <2>1, TakenView
  <1>10. Waiting(0)
    BY DEF Waiting, Covered
  <1>11. BufferSize \in Nat /\ BufferSize > 0
    BY BufferAssumption
  <1>12. ~late' /\ \E c \in Nat : Gapless(c, 0)'
    <2>1. 0 \in Nat /\ 0 <= 0 /\ 2 * (0 - 0) < BufferSize /\ 0 < Len(stream) /\ 0 + 1 = 1
      BY <1>2, <1>3, <1>11
    <2>2. Searched(buffer, Seq16(0), Seq16(0), TRUE) /\ end' = Seq16(0)
      BY <1>6
    <2>3. Arrived(0 + 1)'
      BY <1>9, <2>1, Zenon
    <2> QED
      BY <1>1, <1>7, <1>8, <1>10, <2>1, <2>2, <2>3, SearchShows
  <1> QED
    BY <1>6, <1>12

\* A packet comes later.
LEMMA LaterShows ==
    ASSUME ViewInv, Near(network), LastMarked(stream, nals), lost = {}, ~late, ~reset,
           NEW b \in Nat, NEW e \in Nat, Gapless(b, e),
           network' = network, stream' = stream, nals' = nals, lost' = lost, resent' = resent,
           NEW i, NEW k, Takes(e + 1, i, k)
    PROVE  ~reset' /\ ~late' /\ \E c, d \in Nat : Gapless(c, d)'
  <1>1. /\ SentWell /\ OnWay /\ nals \in Nals /\ Piece(stream, nals) /\ handed \in Seq(Wholes(nals))
        /\ Len(stream) \in Nat
    <2>1. Piece(stream, nals)
      BY DEF ViewInv, SentWell
    <2> QED
      BY <2>1 DEF ViewInv, SentWell, Piece
  <1>2. /\ i \in 1..Len(net) /\ \A j \in 1..i : net[i].k - net[j].k < network.window
        /\ k \in Nat /\ k < Len(stream) /\ net[i].k = k + 1 /\ MayCome(e + 1, k)
        /\ Removed(net', net, i) /\ Video!Insert(Sent(k))
    BY DEF Takes
  <1>3. /\ Arrived(e + 1) /\ Position(e + 1, b, e) /\ Matches(packs, b, e, Away(net)) /\ Waiting(b)
        /\ e + 1 \in Nat /\ e + 1 <= Len(stream)
    BY DEF Gapless, Arrived
  <1>4. b <= k
    <2>1. net[i].k \in Away(net)
      BY <1>2 DEF Away
    <2>2. k + 1 > b
      BY <1>2, <1>3, <2>1 DEF Matches
    <2> QED
      BY <1>2, <2>2
  <1>5. First \in Nat /\ Video!Number(k + 1) = Seq16(k) /\ BufferSize \in Nat
    <2>1. First \in Nat
      BY DEF Near, First
    <2> QED
      BY <1>2, <2>1, VideoNumberIs, BufferAssumption
  <1> PICK seq, f, new : seq = Seq16(k) /\ f = Later(e, k) /\ new = Newest(e + 1, k)
    OBVIOUS
  <1> PICK put : put = [packs EXCEPT ![seq % BufferSize] = Sent(k)]
    OBVIOUS
  <1>6. ~Video!AheadOf(begin % T, seq)
    <2>1. ~(b > k)
      BY <1>2, <1>4
    <2> QED
      BY <1>1, <1>2, <1>3, <2>1, NoneAhead
  <1>7. Stored(b, e, k, seq, f, new)
    BY <1>1, <1>2, <1>3, <1>6, PacketStored, Zenon
  <1>8. new = f + 1 /\ f \in Nat /\ f < Len(stream)
    BY <1>2, <1>3 DEF Newest, Later
  <1>9. /\ b <= f /\ 2 * (f - b) < BufferSize /\ Keeps(put, b, f)
        /\ (IF Video!AheadOf(end, seq) THEN end ELSE seq) = Seq16(f)
        /\ ~Video!AheadOfMod(begin, Seq16(f), BufferSize)
    BY <1>7 DEF Stored
  <1>10. ~reset' /\ end' = Seq16(f) /\ Searched(put, Seq16(b), Seq16(f), FALSE)
    <2>1. Inserts(Sent(k))
      BY <1>2, InsertIs
    <2>2. Video!Number(Sent(k).k) = seq
      BY <1>5 DEF Sent
    <2>3. begin = Seq16(b)
      BY <1>3 DEF Position
    <2> QED
      BY <1>6, <1>9, <2>1, <2>2, <2>3 DEF Inserts
  <1>11. Matches(put, b, f, Away(net'))
    <2>1. Away(net') = Away(net) \ {k + 1}
      BY <1>1, <1>2, TakenAway
    <2>2. put = [packs EXCEPT ![Slot(k)] = Sent(k)]
      BY DEF Slot
    <2>3. IsBuffer(packs) /\ Keeps(packs, b, e)
      BY <1>3 DEF Position
    <2>4. \A x \in (e + 2)..Len(stream) : x \in Away(net)
      <3>1. \A x \in ((e + 1) + 1)..Len(stream) : \E j \in 1..Len(net) : net[j].k = x
        BY <1>3 DEF Arrived
      <3> QED
        BY <3>1 DEF Away
    <2> PICK away, l : away = Away(net) /\ l = Len(stream)
      OBVIOUS
    <2>5. Matches(put, b, f, away \ {k + 1})
      BY <1>1, <1>2, <1>3, <1>4, <1>5, <1>8, <1>9, <2>2, <2>3, <2>4, StoredMatches
    <2> QED
      BY <2>1, <2>5
  <1>12. Arrived(f + 1)'
    <2>1. new = Newest(e + 1, net[i].k - 1)
      BY <1>2
    <2>2. Arrived(new)'
      BY <1>1, <1>2, <1>3, <2>1, TakenView
    <2> QED
      BY <1>8, <2>2
  <1>13. ~late' /\ \E c \in Nat : Gapless(c, f)'
    BY <1>1, <1>3, <1>8, <1>9, <1>10, <1>11, <1>12, SearchShows
  <1> QED
    BY <1>8, <1>10, <1>13

\* Every packet that comes keeps it so.
LEMMA DeliverShow ==
    ASSUME ViewInv, ShowInv, Near(network), Roomy, \A frame \in network.frames : LastSplit(frame),
           Video!Deliver
    PROVE  ShowInv'
  <1>1. /\ network' = network /\ nals' = nals /\ stream' = stream /\ lost' = lost /\ resent' = resent
        /\ restarted' = restarted
    BY DEF Video!Deliver, Video!source, Video!losing
  <1> SUFFICES ASSUME Undisturbed'
               PROVE  ~late' /\ ~reset' /\ \E b, e \in Nat : Gapless(b, e)'
    BY DEF ShowInv
  <1>2. PICK i \in 1..Len(net) : Video!Insert(net[i])
    BY DEF Video!Deliver
  <1>3. ~jumped
    <2>1. Inserts(net[i])
      BY <1>2, InsertIs
    <2>2. ~jumped'
      BY DEF Undisturbed
    <2> QED
      BY <2>1, <2>2 DEF Inserts
  <1>4. Undisturbed
    BY <1>1, <1>3 DEF Undisturbed
  <1>5. lost = {} /\ LastMarked(stream, nals)
    <2>1. InSequence(network)
      BY <1>4 DEF InSequence, Undisturbed
    <2>2. InTurn(stream, nals)
      BY <2>1 DEF ViewInv, SentWell
    <2> QED
      BY <1>4, <2>2 DEF Undisturbed, InTurn
  <1>6. CASE reset /\ wait /\ Arrived(0)
    <2>1. \E j, k : Takes(0, j, k)
      BY <1>6, DeliverTakes
    <2> QED
      BY <1>1, <1>4, <1>5, <1>6, <2>1, FirstShows DEF ShowInv
  <1>7. CASE ~reset /\ \E b, e \in Nat : Gapless(b, e)
    <2>1. PICK b \in Nat, e \in Nat : Gapless(b, e)
      BY <1>7
    <2>2. e + 1 \in Nat /\ Arrived(e + 1)
      BY <2>1 DEF Gapless
    <2>3. \E j, k : Takes(e + 1, j, k)
      BY <2>2, DeliverTakes
    <2> QED
      BY <1>1, <1>4, <1>5, <1>7, <2>1, <2>3, LaterShows DEF ShowInv
  <1> QED
    BY <1>4, <1>6, <1>7 DEF ShowInv

\* What is handed up and what is missing does not change when more is sent.
LEMMA ShownStays ==
    ASSUME Piece(stream, nals), NEW b \in Nat, NEW e \in Nat, NEW d \in Nat, b <= e + 1, e + 1 <= d,
           \A k \in 1..d : k \in DOMAIN stream /\ stream'[k] = stream[k],
           \A id \in DOMAIN nals : nals'[id] = nals[id],
           network' = network, packs' = packs, wait' = wait, handed' = handed,
           NoneWhole(packs, b, e), Waiting(b)
    PROVE  NoneWhole(packs, b, e)' /\ Waiting(b)'
  <1>1. \A j : Slot(j)' = Slot(j)
    BY DEF Seq16, First, Slot
  <1>2. ASSUME NEW m \in b..e, stream'[m + 1].m PROVE \E j \in b..m : packs[Slot(j)] = Video!None
    <2>1. m + 1 \in 1..d
      OBVIOUS
    <2>2. stream[m + 1].m
      BY <1>2, <2>1
    <2> QED
      BY <2>2 DEF NoneWhole
  <1>3. ASSUME NEW key \in 1..d, Keyed(key)' PROVE Keyed(key)
    <2> PICK p : p = stream[key]
      OBVIOUS
    <2>1. stream'[key] = p /\ key \in DOMAIN stream
      OBVIOUS
    <2>2. p.kind # "stap" /\ IsKey(nals'[p.ids[1]].t)
      BY <1>3, <2>1 DEF Keyed, Type
    <2>3. p.ids[1] \in DOMAIN nals
      BY <2>1, <2>2 DEF Piece, Placed
    <2>4. IsKey(nals[p.ids[1]].t)
      BY <2>2, <2>3
    <2> QED
      BY <2>2, <2>4 DEF Keyed, Type
  <1>4. Covered(wait, <<>>, b)'
    <2> SUFFICES ASSUME NEW a \in 1..b, Due(a)' PROVE ~wait' /\ Has(<<>>, a)'
      BY DEF Covered
    <2>1. PICK key \in 1..a : Keyed(key)'
      BY DEF Due
    <2>2. key \in 1..d /\ a \in 1..d
      OBVIOUS
    <2>3. Due(a)
      BY <1>3, <2>1, <2>2 DEF Due
    <2>4. ~wait /\ Has(<<>>, a)
      BY <2>3 DEF Waiting, Covered
    <2>5. HandedIds' = HandedIds /\ stream'[a] = stream[a]
      BY <2>2 DEF HandedIds
    <2> QED
      BY <2>4, <2>5 DEF Has
  <1>5. b = 0 \/ stream'[b].m
    <2>1. b # 0 => b \in 1..d
      OBVIOUS
    <2> QED
      BY <2>1 DEF Waiting
  <1> QED
    BY <1>1, <1>2, <1>4, <1>5 DEF NoneWhole, Waiting

\* What is sent is on the way.
LEMMA SentAway ==
    ASSUME OnWay, NEW frame, NEW packets, NEW extra, NEW d, NEW n,
           Sends(frame, packets, extra, d, n)
    PROVE  /\ Away(net) \subseteq Away(net')
           /\ \A x \in Away(net') : x \in Away(net) \/ (x \in Nat /\ x > d)
  <1>1. d \in Nat /\ n \in Nat /\ Joined(net', net, extra) /\ Departs(extra, d, n)
    BY DEF Sends
  <1>2. Len(extra) = n /\ extra \in Seq(Sents') /\ \A i \in 1..n : extra[i].k = d + i
    BY <1>1 DEF Departs
  <1> PICK l : l = Len(net)
    OBVIOUS
  <1>3. /\ l \in Nat /\ Len(net') = l + n
        /\ \A i \in 1..(l + n) : net'[i] = IF i <= l THEN net[i] ELSE extra[i - l]
    <2> PICK A, B : A = Sents /\ B = Sents'
      OBVIOUS
    <2>1. net \in Seq(A) /\ extra \in Seq(B)
      BY <1>2 DEF OnWay
    <2> PICK S : S = A \union B
      OBVIOUS
    <2>2. net \in Seq(S) /\ extra \in Seq(S) /\ l \in Nat
      BY <2>1
    <2>3. Parts(S, net', net, extra, l, n)
      BY <1>1, <1>2, <2>2, ConcatIs
    <2> QED
      BY <2>2, <2>3 DEF Parts
  <1>4. ASSUME NEW i \in 1..l PROVE net[i].k \in Away(net')
    <2>1. i \in 1..(l + n) /\ i <= l
      BY <1>1, <1>3
    <2>2. net'[i] = net[i]
      BY <1>3, <2>1
    <2> QED
      BY <1>3, <2>1, <2>2 DEF Away
  <1>5. ASSUME NEW i \in 1..(l + n) PROVE net'[i].k \in Away(net) \/ (net'[i].k \in Nat /\ net'[i].k > d)
    <2>1. CASE i <= l
      <3>1. i \in 1..l /\ net'[i] = net[i]
        BY <1>3, <2>1
      <3> QED
        BY <3>1 DEF Away
    <2>2. CASE ~(i <= l)
      <3> PICK j : j = i - l
        OBVIOUS
      <3>1. j \in 1..n /\ net'[i] = extra[j]
        BY <1>1, <1>3, <2>2
      <3> PICK q : q = net'[i].k
        OBVIOUS
      <3>2. q = d + j
        BY <1>2, <3>1
      <3>3. q \in Nat /\ q > d
        BY <1>1, <3>1, <3>2
      <3> QED
        BY <3>3
    <2> QED
      BY <2>1, <2>2
  <1>6. Away(net) \subseteq Away(net')
    BY <1>4 DEF Away
  <1>7. \A x \in Away(net') : x \in Away(net) \/ (x \in Nat /\ x > d)
    BY <1>3, <1>5 DEF Away
  <1> QED
    BY <1>6, <1>7

\* An access unit more keeps it so: the receiver does not know of it yet.
LEMMA SendShow ==
    ASSUME ViewInv, ShowInv, Near(network), Video!StreamsOK, Video!SendFrame
    PROVE  ShowInv'
  <1>1. SentWell /\ OnWay /\ Piece(stream, nals) /\ nals \in Nals /\ stream \in Seq(Packet)
    BY DEF ViewInv, SentWell, Piece
  <1>2. PICK frame, packets, extra, d, n : Sends(frame, packets, extra, d, n)
    BY SendIs
  <1>3. /\ network' = network /\ lost' = lost /\ restarted' = restarted
        /\ reset' = reset /\ begin' = begin /\ end' = end /\ packs' = packs /\ handed' = handed
        /\ wait' = wait /\ late' = late /\ jumped' = jumped
    BY DEF Video!SendFrame, Video!losing, Video!receiver
  <1> SUFFICES ASSUME Undisturbed
               PROVE  /\ ~late'
                      /\ \/ reset' /\ wait' /\ Arrived(0)'
                         \/ ~reset' /\ \E b, e \in Nat : Gapless(b, e)'
    BY <1>3 DEF ShowInv, Undisturbed
  <1>4. \A top \in Nat : Arrived(top) => Arrived(top)'
    BY <1>2 DEF Sends
  <1>5. ~late
    BY DEF ShowInv
  <1>6. CASE reset /\ wait /\ Arrived(0)
    BY <1>3, <1>4, <1>5, <1>6
  <1>7. CASE ~reset /\ \E b, e \in Nat : Gapless(b, e)
    <2>1. PICK b \in Nat, e \in Nat : Gapless(b, e)
      BY <1>7
    <2>2. /\ Arrived(e + 1) /\ Position(e + 1, b, e) /\ Matches(packs, b, e, Away(net))
          /\ NoneWhole(packs, b, e) /\ Waiting(b)
      BY <2>1 DEF Gapless
    <2>3. d \in Nat /\ d = Len(stream) /\ e + 1 \in Nat /\ e + 1 <= d /\ b <= e + 1
      BY <1>2, <2>2 DEF Sends, Arrived, Position
    <2>4. Arrived(e + 1)'
      BY <1>4, <2>2, <2>3
    <2>5. Position(e + 1, b, e)'
      <3>1. \A j \in 0..(d - 1) : Sent(j)' = Sent(j)
        BY <1>2 DEF Sends
      <3> PICK top : top = e + 1
        OBVIOUS
      <3>2. top \in Nat /\ top <= d /\ Position(top, b, e)
        BY <2>2, <2>3
      <3>3. Position(top, b, e)'
        BY <1>3, <2>3, <3>1, <3>2, PositionStays
      <3> QED
        BY <3>3
    <2>6. Matches(packs, b, e, Away(net))'
      <3>1. /\ Away(net) \subseteq Away(net')
            /\ \A x \in Away(net') : x \in Away(net) \/ (x \in Nat /\ x > d)
        BY <1>1, <1>2, SentAway
      <3> PICK old, new : old = Away(net) /\ new = Away(net')
        OBVIOUS
      <3>2. \A x \in old : x \in Nat /\ x > b
        BY <2>2 DEF Matches
      <3>3. \A x \in new : x \in Nat /\ x > b
        BY <2>3, <3>1, <3>2
      <3>4. ASSUME NEW j \in b..e PROVE packs[Slot(j)] # Video!None <=> j + 1 \notin new
        <4>1. packs[Slot(j)] # Video!None <=> j + 1 \notin old
          BY <2>2 DEF Matches
        <4>2. ~(j + 1 > d)
          BY <2>3
        <4>3. j + 1 \in old <=> j + 1 \in new
          BY <3>1, <4>2
        <4> QED
          BY <4>1, <4>3
      <3>5. \A j : Slot(j)' = Slot(j)
        BY <1>3 DEF Seq16, First, Slot
      <3> QED
        BY <1>3, <3>3, <3>4, <3>5 DEF Matches
    <2>7. NoneWhole(packs, b, e)' /\ Waiting(b)'
      <3>1. \A k \in 1..d : k \in DOMAIN stream /\ stream'[k] = stream[k]
        <4>1. n \in Nat /\ \A i \in 1..(d + n) : stream'[i] = IF i <= d THEN stream[i] ELSE packets[i - d]
          BY <1>2 DEF Sends
        <4> QED
          BY <1>1, <2>3, <4>1
      <3>2. \A id \in DOMAIN nals : nals'[id] = nals[id]
        <4> PICK N, more : N = [t : Video!Types, n : Nat \ {0}] /\ more = frame.nals
          OBVIOUS
        <4>1. nals \in Seq(N) /\ more \in Seq(N) /\ nals' = nals \o more
          BY <1>1, <1>2 DEF Nals, Sends
        <4> QED
          BY <4>1
      <3> QED
        BY <1>1, <1>3, <2>2, <2>3, <3>1, <3>2, ShownStays
    <2>8. Gapless(b, e)'
      BY <2>4, <2>5, <2>6, <2>7 DEF Gapless
    <2> QED
      BY <1>3, <1>5, <1>7, <2>8
  <1> QED
    BY <1>6, <1>7 DEF ShowInv

\* Nothing was sent at first.
LEMMA InitShow ==
    ASSUME Video!Init
    PROVE  ShowInv
  <1>1. reset = TRUE /\ wait = TRUE /\ late = FALSE /\ stream = <<>> /\ net = <<>>
    BY DEF Video!Init
  <1>2. Arrived(0)
    BY <1>1 DEF Arrived
  <1> QED
    BY <1>1, <1>2 DEF ShowInv

\* A step that does not concern the receiver keeps it so.
LEMMA SameShow ==
    ASSUME ShowInv,
           UNCHANGED <<network, nals, stream, net, lost, reset, begin, end, packs, wait, late,
                       restarted, jumped, handed>>
    PROVE  ShowInv'
  <1>1. Undisturbed' => Undisturbed
    BY DEF Undisturbed
  <1>2. \A top : Arrived(top) => Arrived(top)'
    BY DEF Arrived
  <1>3. ASSUME NEW b \in Nat, NEW e \in Nat, Gapless(b, e) PROVE Gapless(b, e)'
    <2>1. Position(e + 1, b, e)'
      BY <1>3 DEF Gapless, Position, IsBuffer, Keeps, Slot, Seq16, First, Sent
    <2>2. Matches(packs, b, e, Away(net))'
      BY <1>3 DEF Gapless, Matches, Away, Slot, Seq16, First
    <2>3. NoneWhole(packs, b, e)'
      BY <1>3 DEF Gapless, NoneWhole, Slot, Seq16, First
    <2>4. Waiting(b)'
      BY <1>3 DEF Gapless, Waiting, Covered, Due, Keyed, Type, Has, HandedIds
    <2>5. Arrived(e + 1)'
      BY <1>2, <1>3 DEF Gapless
    <2> QED
      BY <2>1, <2>2, <2>3, <2>4, <2>5 DEF Gapless
  <1> SUFFICES ASSUME Undisturbed
               PROVE  /\ ~late
                      /\ \/ reset /\ wait /\ Arrived(0)'
                         \/ ~reset /\ \E b, e \in Nat : Gapless(b, e)'
    BY <1>1 DEF ShowInv
  <1>4. /\ ~late
        /\ \/ reset /\ wait /\ Arrived(0)
           \/ ~reset /\ \E b, e \in Nat : Gapless(b, e)
    BY DEF ShowInv
  <1> QED
    BY <1>2, <1>3, <1>4

\* Every step keeps the invariant.
LEMMA NextShow ==
    ASSUME Video!StreamsOK,
           \A w \in VideoNetworks : Near(w) /\ \A frame \in w.frames : LastSplit(frame),
           ViewInv, Unrepaired, ShowInv, Roomy, [Video!Next]_(Video!vars)
    PROVE  ShowInv'
  <1>1. network \in VideoNetworks /\ Near(network) /\ \A frame \in network.frames : LastSplit(frame)
    BY DEF ViewInv, SentWell
  <1>2. CASE Video!SendFrame
    BY <1>1, <1>2, SendShow
  <1>3. CASE Video!OnNack
    BY <1>3 DEF Video!OnNack, Unrepaired
  <1>4. CASE Video!Lose
    <2>1. lost' # {}
      BY <1>4 DEF Video!Lose
    <2> QED
      BY <2>1 DEF ShowInv, Undisturbed
  <1>5. CASE Video!Deliver
    BY <1>1, <1>5, DeliverShow
  <1>6. CASE Video!Elapse
    <2>1. network'.silences
      BY <1>6 DEF Video!Elapse
    <2> QED
      BY <2>1 DEF ShowInv, Undisturbed
  <1>7. CASE Video!GiveUp
    BY <1>7, SameShow DEF Video!GiveUp, Video!source, Video!losing, Video!receiver
  <1>8. CASE Video!Clear
    BY <1>8, SameShow DEF Video!Clear, Video!source, Video!losing, Video!receiver
  <1>9. CASE Video!Restart
    <2>1. restarted' = TRUE
      BY <1>9 DEF Video!Restart
    <2> QED
      BY <2>1 DEF ShowInv, Undisturbed
  <1>10. CASE Video!Ask
    BY <1>10, SameShow DEF Video!Ask, Video!source, Video!losing, Video!receiver
  <1>11. CASE UNCHANGED Video!vars
    BY <1>11, SameShow DEF Video!vars
  <1> QED
    BY <1>2, <1>3, <1>4, <1>5, <1>6, <1>7, <1>8, <1>9, <1>10, <1>11
       DEF Video!Next, Video!ProcessNack

\* When all has arrived, no packet from b on is marked, and so all that is due is handed up.
LEMMA AllShown ==
    ASSUME ViewInv, ShowInv
    PROVE  EverythingShown
  <1> SUFFICES ASSUME net = <<>>, Undisturbed PROVE Expected \subseteq HandedIds
    BY DEF EverythingShown, Undisturbed
  <1>1. Len(net) = 0 /\ lost = {} /\ resent = {} /\ Len(stream) \in Nat /\ DOMAIN stream = 1..Len(stream)
    <2>1. stream \in Seq(Packet)
      BY DEF ViewInv, SentWell, Piece
    <2> QED
      BY <2>1 DEF Undisturbed, ViewInv, OnWay
  <1>2. ASSUME NEW top \in Nat, Arrived(top) PROVE Len(stream) = top
    <2>1. \A k \in (top + 1)..Len(stream) : FALSE
      BY <1>1, <1>2 DEF Arrived
    <2>2. top <= Len(stream)
      BY <1>2 DEF Arrived
    <2> PICK l : l = Len(stream)
      OBVIOUS
    <2>3. top < l => top + 1 \in (top + 1)..l
      BY <1>1
    <2> QED
      BY <1>1, <2>1, <2>2, <2>3
  <1> DEFINE keys == {k \in DOMAIN stream : stream[k].kind # "stap" /\ IsKey(Type(stream[k]))}
             bare == IF network.answers = "rtx" THEN resent ELSE {}
             ends == {k \in DOMAIN stream \ bare : stream[k].m}
  <1> SUFFICES ASSUME keys # {}, ends # {}, NEW k \in Min(keys)..Max(ends), NEW id \in ToSet(stream[k].ids)
               PROVE  id \in HandedIds
    BY DEF Expected
  <1>3. Min(keys) \in keys /\ Max(ends) \in ends
    <2>1. keys \in SUBSET Nat /\ ends \in SUBSET (0..Len(stream))
      BY <1>1
    <2> HIDE DEF keys, ends
    <2> QED
      BY <1>1, <2>1, MinIsLeast, MaxIsThere
  <1> PICK first, last : first = Min(keys) /\ last = Max(ends)
    OBVIOUS
  <1>4. /\ first \in 1..Len(stream) /\ Keyed(first)
        /\ last \in 1..Len(stream) /\ stream[last].m /\ k \in first..last
    BY <1>1, <1>3 DEF Keyed
  <1> HIDE DEF keys, ends
  <1>5. ~Arrived(0)
    <2> SUFFICES ASSUME Arrived(0) PROVE FALSE
      OBVIOUS
    <2>1. Len(stream) = 0
      BY <1>2
    <2> QED
      BY <1>4, <2>1
  <1>6. PICK b \in Nat, e \in Nat : Gapless(b, e)
    BY <1>5 DEF ShowInv
  <1>7. Len(stream) = e + 1
    BY <1>2, <1>6 DEF Gapless
  <1>8. Away(net) = {}
    BY <1>1 DEF Away
  <1>9. last <= b
    <2> SUFFICES ASSUME last > b PROVE FALSE
      BY <1>4
    <2> PICK m : m = last - 1
      OBVIOUS
    <2>1. m \in b..e /\ m + 1 = last
      BY <1>4, <1>7
    <2>2. PICK j \in b..m : packs[Slot(j)] = Video!None
      BY <1>4, <1>6, <2>1 DEF Gapless, NoneWhole
    <2>3. j \in b..e
      BY <2>1
    <2> QED
      BY <1>6, <1>8, <2>2, <2>3 DEF Gapless, Matches
  <1>10. k \in 1..b /\ first \in 1..k
    BY <1>4, <1>9
  <1>11. Has(<<>>, k)
    <2>1. Due(k)
      BY <1>4, <1>10 DEF Due
    <2> QED
      BY <1>6, <1>10, <2>1 DEF Gapless, Waiting, Covered
  <1>12. PICK q \in DOMAIN stream[k].ids : id = stream[k].ids[q]
    BY DEF ToSet
  <1> QED
    BY <1>11, <1>12 DEF Has

\* When nothing is lost, no second passes within an access unit and the receiver is not
\* started anew, then as soon as all that was sent has arrived every NAL unit from the first
\* keyframe to the last marked packet has been handed up, however packets overtake each other
\* across the wraps of the sequence numbers: the search goes on where it stopped, and no
\* complete access unit stays behind in the buffer.  The losses that a network allows and the
\* reordering are few, measured by the numbers there are, nothing is sent again, a wait
\* never fills the buffer, and only the last NAL unit of an access unit is fragmented: of two
\* fragmented ones the first is never handed up.
THEOREM EverythingIsShown ==
    ASSUME Video!StreamsOK,
           \A w \in VideoNetworks : Near(w) /\ \A frame \in w.frames : LastSplit(frame)
    PROVE  Video!Spec /\ []Roomy => []EverythingShown
  <1> DEFINE Inv == ViewInv /\ Unrepaired /\ ShowInv
  <1>1. Inv => EverythingShown
    BY AllShown
  <1>2. Video!Init => Inv
    <2> SUFFICES ASSUME Video!Init PROVE Inv
      OBVIOUS
    <2>1. network \in VideoNetworks
      BY DEF Video!Init
    <2> QED
      BY <2>1, InitView, InitUnrepaired, InitShow
  <1>3. Inv /\ Roomy /\ [Video!Next]_(Video!vars) => Inv'
    BY NextView, NextShow
  <1>4. Video!Spec /\ []Roomy => []Inv
    BY <1>2, <1>3, PTL DEF Video!Spec
  <1> QED
    BY <1>1, <1>4, PTL
=============================================================================
