----------------------------- MODULE SctpProofs -----------------------------
(***************************************************************************)
(* rtpx's SCTP.  Data transfer (module SctpStream), for any message sizes, *)
(* resends, timeouts and losses, and also on a network that repeats        *)
(* packets at will:                                                        *)
(*   - on any streams, what is handed up is a prefix of what was sent,     *)
(*     every message whole;                                                *)
(*   - on a single stream, a SACK acknowledges nothing that has not been   *)
(*     received (with two streams it may: run SctpStreamTwo).              *)
(* The association (module Sctp), for any losses, heartbeats, resends and  *)
(* closes:                                                                 *)
(*   - the client never counts the association up more often than the      *)
(*     server;                                                             *)
(*   - until an INIT is sent again, no stream of an open channel is        *)
(*     dropped;                                                            *)
(*   - without losses and resends, both ends come to use the same channel  *)
(*     and to agree on its next messages.                                  *)
(***************************************************************************)
EXTENDS SctpStream, SctpState, FiniteSetTheorems, SequenceTheorems, WellFoundedInduction, TLAPS

(* Least elements.  The library's induction theorems take an operator as a  *)
(* parameter, but well-founded relations give the least-number principle    *)
(* for sets, from which the inductions below follow.                        *)

Less == {p \in Nat \X Nat : p[1] < p[2]}

\* A set of natural numbers that is not empty has a least element.
LEMMA LeastNatural ==
    ASSUME NEW S \in SUBSET Nat, S # {}
    PROVE  \E x \in S : \A y \in S : x <= y
  <1>1. IsWellFoundedOn(Less, Nat)
    BY NatLessThanWellFounded DEF Less, OpToRel
  <1>2. PICK x \in S : \A y \in S : ~(<<y, x>> \in Less)
    BY <1>1, WFMin
  <1>3. ASSUME NEW y \in S PROVE x <= y
    <2>1. x \in Nat /\ y \in Nat /\ ~(<<y, x>> \in Less)
      BY <1>2
    <2>2. y < x => <<y, x>> \in Less
      BY <2>1 DEF Less
    <2>3. QED
      BY <2>1, <2>2
  <1>4. QED
    BY <1>3

\* Min() is that element.
LEMMA MinIsLeast ==
    ASSUME NEW S \in SUBSET Nat, S # {}
    PROVE  Min(S) \in S /\ \A y \in S : Min(S) <= y
  <1>1. \E x \in S : \A y \in S : x <= y
    BY LeastNatural
  <1>2. QED
    BY <1>1 DEF Min

-----------------------------------------------------------------------------
(* Chunks and messages                                                     *)

\* The place of a chunk in its message, and the TSN before the message's first.
Frag(c) == c.payload[3]
Base(c) == c.tsn - Frag(c)

\* The message that a chunk is part of, as A accepted it.
Whole(c) == accepted[c.sid][c.ssn + 1]

\* A chunk is one that split_data made of a message that A accepted.
Genuine(c) ==
    /\ c \in ChunkType
    /\ c.ssn + 1 \in DOMAIN accepted[c.sid]
    /\ InitTsn <= c.tsn /\ c.tsn < localTsn
    /\ Frag(c) \in 1..Len(Whole(c))
    /\ c.payload = <<c.sid, c.ssn + 1, Frag(c)>>
    /\ c.begin <=> Frag(c) = 1
    /\ c.end <=> Frag(c) = Len(Whole(c))

\* Chunks of one message, and no two that disagree on where it begins.
Coherent(s, n, B) ==
    /\ \A b \in B : Genuine(b) /\ b.sid = s /\ b.ssn = n
    /\ \A b, d \in B : Base(b) = Base(d)

MessageType == [begin_tsn : Nat, blocks : SUBSET ChunkType, age : Nat]

\* A message of B's inbox: begin_tsn is the begin chunk's TSN as soon as it is there.
FiledOK(s, n, m) ==
    /\ m \in MessageType /\ m.begin_tsn \in Nat
    /\ Coherent(s, n, m.blocks)
    /\ m.begin_tsn = InitTsn - 1 \/ \E b \in m.blocks : b.begin /\ b.tsn = m.begin_tsn
    /\ \A b \in m.blocks : b.begin => b.tsn = m.begin_tsn

\* What A accepted are messages of one chunk or more.
MessagesOK ==
    \A s \in Streams : \A k \in DOMAIN accepted[s] :
      \E n \in FragmentCounts : accepted[s][k] = Message(s, k, n)

\* The loops over a message start at begin_tsn and do not pass an end chunk.
LEMMA ScanIs ==
    ASSUME NEW m, m.begin_tsn \in Nat, \A b \in m.blocks : b.tsn \in Nat
    PROVE  \E last \in Nat :
             /\ Scan(m) = m.begin_tsn..last /\ m.begin_tsn <= last
             /\ \A b \in m.blocks : b.end /\ b.tsn >= m.begin_tsn => last <= b.tsn
  <1> DEFINE limit == m.begin_tsn + MaxChunks - 1
             ends == {b.tsn : b \in {c \in m.blocks : c.end /\ c.tsn >= m.begin_tsn}}
             S == ends \union {limit}
  <1>1. MaxChunks \in Nat /\ MaxChunks > 0
    BY CountsAssumption
  <1>2. limit \in Nat /\ m.begin_tsn <= limit
    BY <1>1
  <1>3. \A t \in ends : t \in Nat /\ m.begin_tsn <= t
    OBVIOUS
  <1>4. S \in SUBSET Nat /\ S # {}
    BY <1>2, <1>3
  <1>5. \A t \in S : m.begin_tsn <= t
    BY <1>2, <1>3
  <1>6. Min(S) \in S /\ \A y \in S : Min(S) <= y
    BY <1>4, MinIsLeast
  <1>7. \A b \in m.blocks : b.end /\ b.tsn >= m.begin_tsn => b.tsn \in S
    OBVIOUS
  <1>8. Scan(m) = m.begin_tsn..Min(S)
    BY DEF Scan
  <1> HIDE DEF S, ends, limit
  <1>9. Min(S) \in Nat /\ m.begin_tsn <= Min(S)
    BY <1>4, <1>5, <1>6
  <1>10. QED
    BY <1>6, <1>7, <1>8, <1>9

\* Block() finds the chunk that Has() saw.
LEMMA BlockIs ==
    ASSUME NEW m, NEW t, Has(m, t)
    PROVE  Block(m, t) \in m.blocks /\ Block(m, t).tsn = t
  BY DEF Has, Block

\* A message that is_completed() accepts is whole: serialize() returns what was sent.
LEMMA CompletedIsWhole ==
    ASSUME MessagesOK, NEW s \in Streams, NEW n \in Nat, NEW m, FiledOK(s, n, m), IsCompleted(m)
    PROVE  /\ n + 1 \in DOMAIN accepted[s]
           /\ Serialize(m) = accepted[s][n + 1]
           /\ Len(accepted[s][n + 1]) \in Nat \ {0}
           /\ Scan(m) = m.begin_tsn..(m.begin_tsn + Len(accepted[s][n + 1]) - 1)
           /\ \A b \in m.blocks : Base(b) = m.begin_tsn - 1
           /\ \E b \in m.blocks : TRUE
  <1>0. \A b \in m.blocks : Genuine(b) /\ b.sid = s /\ b.ssn = n /\ b.tsn \in Nat /\ b.tsn > 0
    BY DEF FiledOK, Coherent, Genuine, ChunkType, InitTsn
  <1>1. PICK last \in Nat :
             /\ Scan(m) = m.begin_tsn..last /\ m.begin_tsn <= last
             /\ \A b \in m.blocks : b.end /\ b.tsn >= m.begin_tsn => last <= b.tsn
    BY <1>0, ScanIs DEF FiledOK
  <1>2. \A t \in Scan(m) : Has(m, t) /\ Block(m, t) \in m.blocks /\ Block(m, t).tsn = t
    BY BlockIs DEF IsCompleted
  <1>3. m.begin_tsn \in Nat /\ m.begin_tsn > 0
    <2>1. m.begin_tsn \in Nat /\ m.begin_tsn \in Scan(m)
      BY <1>1 DEF FiledOK
    <2>2. QED
      BY <1>0, <1>2, <2>1
  <1>4. PICK f \in m.blocks : f.begin /\ f.tsn = m.begin_tsn
    BY <1>3 DEF FiledOK, InitTsn
  <1>5. Frag(f) = 1 /\ Base(f) = m.begin_tsn - 1
    BY <1>0, <1>4 DEF Genuine, Base
  <1>6. \A b \in m.blocks : Base(b) = m.begin_tsn - 1
    BY <1>4, <1>5 DEF FiledOK, Coherent
  <1> DEFINE w == accepted[s][n + 1]
  <1>7. n + 1 \in DOMAIN accepted[s] /\ \A b \in m.blocks : Whole(b) = w
    BY <1>0, <1>4 DEF Genuine, Whole
  <1>8. PICK count \in FragmentCounts : w = Message(s, n + 1, count)
    BY <1>7 DEF MessagesOK
  <1>9. count \in Nat \ {0} /\ Len(w) = count /\ w = [i \in 1..count |-> <<s, n + 1, i>>]
    BY <1>8, CountsAssumption DEF Message
  <1>10. PICK e \in Scan(m) : Block(m, e).end
    BY DEF IsCompleted
  <1>11. e = m.begin_tsn + count - 1 /\ last = e
    <2> DEFINE b == Block(m, e)
    <2>1. b \in m.blocks /\ b.tsn = e /\ b.end /\ e \in Nat /\ e >= m.begin_tsn /\ e <= last
      BY <1>1, <1>2, <1>3, <1>10
    <2>2. Frag(b) = count
      BY <1>0, <1>7, <1>9, <2>1 DEF Genuine
    <2>3. b.tsn - Frag(b) = m.begin_tsn - 1
      BY <1>6, <2>1 DEF Base
    <2>4. last <= e
      BY <1>1, <2>1
    <2>5. e - count = m.begin_tsn - 1
      BY <2>1, <2>2, <2>3
    <2>6. last = e
      BY <2>1, <2>4
    <2>7. e \in Int /\ count \in Int /\ m.begin_tsn \in Int
      BY <1>3, <1>9, <2>1
    <2>8. e = m.begin_tsn + count - 1
      BY <2>5, <2>7
    <2>9. QED
      BY <2>6, <2>8
  <1>12. Scan(m) = m.begin_tsn..(m.begin_tsn + count - 1)
    BY <1>1, <1>11
  <1>13. Cardinality(Scan(m)) = count
    <2>1. m.begin_tsn \in Int /\ m.begin_tsn + count - 1 \in Int /\ m.begin_tsn <= m.begin_tsn + count - 1
      BY <1>3, <1>9
    <2>2. Cardinality(m.begin_tsn..(m.begin_tsn + count - 1)) = (m.begin_tsn + count - 1) - m.begin_tsn + 1
      BY <2>1, FS_Interval
    <2>3. (m.begin_tsn + count - 1) - m.begin_tsn + 1 = count
      <3>1. \A a, b \in Int : (a + b - 1) - a + 1 = b
        OBVIOUS
      <3>2. m.begin_tsn \in Int /\ count \in Int
        BY <1>9, <2>1
      <3>3. QED
        BY <3>1, <3>2
    <2>4. QED
      BY <1>12, <2>2, <2>3
  <1>14. Min(Scan(m)) = m.begin_tsn
    <2>1. Scan(m) \in SUBSET Nat /\ m.begin_tsn \in Scan(m) /\ \A t \in Scan(m) : m.begin_tsn <= t
      BY <1>3, <1>9, <1>12
    <2>2. Min(Scan(m)) \in Scan(m) /\ Min(Scan(m)) <= m.begin_tsn
      BY <2>1, MinIsLeast
    <2>3. QED
      BY <2>1, <2>2
  <1>15. \A i \in 1..count : Block(m, m.begin_tsn + i - 1).payload = <<s, n + 1, i>>
    <2> SUFFICES ASSUME NEW i \in 1..count
                 PROVE  Block(m, m.begin_tsn + i - 1).payload = <<s, n + 1, i>>
      OBVIOUS
    <2> DEFINE t == m.begin_tsn + i - 1
               b == Block(m, t)
    <2>1. t \in Scan(m) /\ t \in Nat
      BY <1>3, <1>9, <1>12
    <2>2. b \in m.blocks /\ b.tsn = t
      BY <1>2, <2>1
    <2>3. b.payload = <<s, n + 1, Frag(b)>> /\ Frag(b) \in Int /\ b.tsn - Frag(b) = m.begin_tsn - 1
      BY <1>0, <1>6, <2>2 DEF Genuine, Base
    <2>4. Frag(b) = i
      <3>1. t - Frag(b) = m.begin_tsn - 1
        BY <2>2, <2>3
      <3> HIDE DEF b
      <3>2. QED
        BY <1>3, <2>3, <3>1
    <2>5. QED
      BY <2>3, <2>4
  <1>16. Serialize(m) = [i \in 1..count |-> Block(m, m.begin_tsn + i - 1).payload]
    BY <1>13, <1>14 DEF Serialize
  <1>17. Serialize(m) = w
    BY <1>9, <1>15, <1>16
  <1>18. QED
    BY <1>4, <1>6, <1>7, <1>9, <1>12, <1>17

\* A stream's messages_ at B.
BoxOK(s, box) == DOMAIN box \subseteq Nat /\ \A n \in DOMAIN box : FiledOK(s, n, box[n])

\* The next_message() loop takes a run of whole messages out, from the next on.
LEMMA ReadyIs ==
    ASSUME MessagesOK, NEW s \in Streams, NEW box, BoxOK(s, box), NEW next \in Nat,
           DOMAIN accepted[s] = 1..Len(accepted[s]), Len(accepted[s]) \in Nat
    PROVE  \E k \in Nat :
             /\ next <= k
             /\ Ready(box, next) = next..(k - 1)
             /\ Cardinality(Ready(box, next)) = k - next
             /\ \A i \in next..(k - 1) :
                  /\ i \in Nat /\ i \in DOMAIN box /\ IsCompleted(box[i]) /\ FiledOK(s, i, box[i])
                  /\ i + 1 \in DOMAIN accepted[s]
                  /\ Serialize(box[i]) = accepted[s][i + 1]
  <1> DEFINE Good(i) == i \in DOMAIN box /\ IsCompleted(box[i])
             Bad == {i \in Nat : i >= next /\ ~Good(i)}
             len == Len(accepted[s])
  <1>1. ASSUME NEW i \in Nat, Good(i)
        PROVE  FiledOK(s, i, box[i]) /\ i + 1 \in DOMAIN accepted[s] /\ Serialize(box[i]) = accepted[s][i + 1]
    <2>1. FiledOK(s, i, box[i]) /\ IsCompleted(box[i])
      BY <1>1 DEF BoxOK
    <2>2. QED
      BY <2>1, CompletedIsWhole
  <1>2. (next + len) \in Bad
    <2>1. next + len \in Nat /\ next + len >= next /\ ~((next + len) + 1 \in 1..len)
      OBVIOUS
    <2> HIDE DEF Good
    <2>2. ~Good(next + len)
      BY <1>1, <2>1
    <2>3. QED
      BY <2>1, <2>2
  <1>3. PICK k \in Bad : \A i \in Bad : k <= i
    <2>1. Bad \in SUBSET Nat /\ Bad # {}
      BY <1>2
    <2> HIDE DEF Bad
    <2>2. QED
      BY <2>1, LeastNatural
  <1>4. k \in Nat /\ next <= k /\ ~Good(k)
    BY <1>3
  <1>5. \A i \in next..(k - 1) : i \in Nat /\ Good(i)
    <2> SUFFICES ASSUME NEW i \in next..(k - 1) PROVE i \in Nat /\ Good(i)
      OBVIOUS
    <2>1. i \in Nat /\ i >= next /\ ~(k <= i)
      BY <1>4
    <2> HIDE DEF Good
    <2>2. QED
      BY <1>3, <2>1
  <1>6. Ready(box, next) = {n \in DOMAIN box : n >= next /\ \A i \in next..n : Good(i)}
    BY DEF Ready
  <1> HIDE DEF Good, Bad
  <1>7. Ready(box, next) = next..(k - 1)
    <2>1. ASSUME NEW n \in Ready(box, next) PROVE n \in next..(k - 1)
      <3>1. n \in Nat /\ n >= next /\ \A i \in next..n : Good(i)
        BY <1>6, <2>1 DEF BoxOK
      <3>2. ~(k \in next..n)
        BY <1>4, <3>1
      <3>3. QED
        BY <1>4, <3>1, <3>2
    <2>2. ASSUME NEW n \in next..(k - 1) PROVE n \in Ready(box, next)
      <3>1. n \in Nat /\ n >= next /\ n \in DOMAIN box
        BY <1>5 DEF Good
      <3>2. \A i \in next..n : i \in next..(k - 1)
        BY <1>4, <3>1
      <3>3. QED
        BY <1>5, <1>6, <3>1, <3>2
    <2>3. QED
      BY <2>1, <2>2
  <1>8. Cardinality(Ready(box, next)) = k - next
    <2>1. next \in Int /\ k - 1 \in Int
      BY <1>4
    <2>2. Cardinality(next..(k - 1)) = IF next > k - 1 THEN 0 ELSE (k - 1) - next + 1
      BY <2>1, FS_Interval
    <2>3. QED
      BY <1>4, <1>7, <2>2
  <1>9. \A i \in next..(k - 1) :
           /\ i \in Nat /\ i \in DOMAIN box /\ IsCompleted(box[i]) /\ FiledOK(s, i, box[i])
           /\ i + 1 \in DOMAIN accepted[s]
           /\ Serialize(box[i]) = accepted[s][i + 1]
    BY <1>1, <1>5 DEF Good
  <1>10. QED
    BY <1>4, <1>7, <1>8, <1>9

\* sctp_message::insert() keeps a message in order.
LEMMA InsertOK ==
    ASSUME NEW s, NEW n, NEW m, FiledOK(s, n, m), NEW c, Genuine(c), c.sid = s, c.ssn = n,
           \A b \in m.blocks : Base(b) = Base(c)
    PROVE  FiledOK(s, n, Insert(m, c)) /\ Insert(m, c).blocks \subseteq m.blocks \union {c}
  <1> DEFINE m2 == Insert(m, c)
             B == IF \E b \in m.blocks : b.tsn = c.tsn THEN m.blocks ELSE m.blocks \union {c}
  <1>0. c \in ChunkType /\ m.blocks \subseteq ChunkType /\ m \in MessageType
    BY DEF FiledOK, MessageType, Genuine
  <1>1. /\ m2.begin_tsn = (IF c.begin THEN c.tsn ELSE m.begin_tsn)
        /\ m2.blocks = B /\ m2 \in MessageType /\ B \subseteq m.blocks \union {c}
    BY <1>0 DEF Insert, MessageType, ChunkType
  <1>2. ASSUME NEW b \in m.blocks \union {c}
        PROVE  /\ Genuine(b) /\ b.sid = s /\ b.ssn = n /\ Base(b) = Base(c)
               /\ b.tsn \in Nat /\ Frag(b) \in Nat /\ b.tsn - Frag(b) = c.tsn - Frag(c)
    <2>1. Genuine(b) /\ b.sid = s /\ b.ssn = n /\ Base(b) = Base(c)
      BY DEF FiledOK, Coherent
    <2>2. b.tsn \in Nat /\ Frag(b) \in Nat
      BY <2>1 DEF Genuine, ChunkType, Frag
    <2>3. QED
      BY <2>1, <2>2 DEF Base
  <1>3. \A b \in m.blocks \union {c} : (b.begin <=> Frag(b) = 1)
    BY <1>2 DEF Genuine
  <1>4. \A b, d \in m.blocks \union {c} : b.begin /\ d.begin => b.tsn = d.tsn
    BY <1>2, <1>3
  <1>5. \A b, d \in m.blocks \union {c} : b.begin /\ b.tsn = d.tsn => d.begin
    BY <1>2, <1>3
  <1>6. \E b \in B : b.tsn = c.tsn
    OBVIOUS
  <1>7. m.blocks \subseteq B
    OBVIOUS
  <1> HIDE DEF B, m2
  <1>8. Coherent(s, n, m2.blocks)
    BY <1>1, <1>2 DEF Coherent
  <1>9. m2.begin_tsn \in Nat
    BY <1>1, <1>2 DEF FiledOK
  <1>10. m2.begin_tsn = InitTsn - 1 \/ \E b \in m2.blocks : b.begin /\ b.tsn = m2.begin_tsn
    <2>1. CASE c.begin
      BY <1>1, <1>5, <1>6, <2>1
    <2>2. CASE ~c.begin
      BY <1>1, <1>7, <2>2 DEF FiledOK
    <2>3. QED
      BY <2>1, <2>2
  <1>11. \A b \in m2.blocks : b.begin => b.tsn = m2.begin_tsn
    <2>1. CASE c.begin
      BY <1>1, <1>4, <2>1
    <2>2. CASE ~c.begin
      BY <1>1, <2>2 DEF FiledOK
    <2>3. QED
      BY <2>1, <2>2
  <1>12. QED
    BY <1>1, <1>8, <1>9, <1>10, <1>11 DEF FiledOK, m2

-----------------------------------------------------------------------------
(* The invariant                                                           *)

Payload == Streams \X Nat \X Nat

\* The parts of the state that the argument looks at.
TypeInv ==
    /\ localTsn \in Nat /\ InitTsn <= localTsn
    /\ accepted \in [Streams -> Seq(Seq(Payload))]
    /\ delivered \in [Streams -> Seq(Seq(Payload))]
    /\ nextRecv \in [Streams -> Nat]
    /\ inbox = [s \in Streams |-> inbox[s]]

\* The chunks that exist: sent and kept, on their way, or filed.
Stored == UNION {UNION {inbox[s][n].blocks : n \in DOMAIN inbox[s]} : s \in Streams}
Pool == data \union DOMAIN unacked \union Stored

PoolInv ==
    /\ \A c \in Pool : Genuine(c)
    /\ \A c, d \in Pool : c.sid = d.sid /\ c.ssn = d.ssn => Base(c) = Base(d)

InboxInv == \A s \in Streams : BoxOK(s, inbox[s])

\* What was delivered is counted by next_recv_ssn_.
Counted == \A s \in Streams : Len(delivered[s]) = nextRecv[s]

Inv == TypeInv /\ MessagesOK /\ PoolInv /\ InboxInv /\ Counted /\ DeliveredIsPrefix

\* Being genuine depends on what A accepted, which only grows.
LEMMA GenuineKept ==
    ASSUME NEW c, Genuine(c), UNCHANGED <<accepted, localTsn>>
    PROVE  Genuine(c)'
  BY DEF Genuine, Whole

\* What is filed stays in order while A accepts nothing.
LEMMA FiledKept ==
    ASSUME NEW s, NEW n, NEW m, FiledOK(s, n, m), UNCHANGED <<accepted, localTsn>>
    PROVE  FiledOK(s, n, m)'
  BY GenuineKept DEF FiledOK, Coherent

\* The chunks of the inbox.
LEMMA StoredIs ==
    ASSUME NEW c
    PROVE  c \in Stored <=> \E s \in Streams : \E n \in DOMAIN inbox[s] : c \in inbox[s][n].blocks
  BY DEF Stored

\* The same in the next state.
LEMMA StoredIsNext ==
    ASSUME NEW c
    PROVE  c \in Stored' <=> \E s \in Streams : \E n \in DOMAIN inbox'[s] : c \in inbox'[s][n].blocks
  BY DEF Stored

\* No new chunks: the pool stays in order.
LEMMA PoolKept ==
    ASSUME PoolInv, Pool' \subseteq Pool, UNCHANGED <<accepted, localTsn>>
    PROVE  PoolInv'
  BY GenuineKept DEF PoolInv

\* A step that hands nothing up and files nothing: messages may only go or grow older.
Quiet ==
    /\ UNCHANGED <<accepted, localTsn, nextRecv, delivered>>
    /\ data' \subseteq Pool /\ DOMAIN unacked' \subseteq Pool
    /\ inbox' = [s \in Streams |-> inbox'[s]]
    /\ \A s \in Streams : /\ DOMAIN inbox'[s] \subseteq DOMAIN inbox[s]
                          /\ \A n \in DOMAIN inbox'[s] :
                               /\ inbox'[s][n] \in MessageType
                               /\ inbox'[s][n].begin_tsn = inbox[s][n].begin_tsn
                               /\ inbox'[s][n].blocks = inbox[s][n].blocks

\* Such a step brings no chunk.
LEMMA QuietPool == ASSUME Quiet PROVE Stored' \subseteq Stored /\ Pool' \subseteq Pool
  <1>1. Stored' \subseteq Stored
    BY StoredIs, StoredIsNext DEF Quiet
  <1>2. QED
    BY <1>1 DEF Quiet, Pool

\* Such a step keeps the invariant.
LEMMA QuietStep == ASSUME Inv, Quiet PROVE Inv'
  <1>1. TypeInv' /\ MessagesOK' /\ Counted' /\ DeliveredIsPrefix'
    BY DEF Quiet, Inv, TypeInv, MessagesOK, Counted, DeliveredIsPrefix
  <1>2. PoolInv'
    BY QuietPool, PoolKept DEF Quiet, Inv
  <1>3. InboxInv'
    <2> SUFFICES ASSUME NEW s \in Streams, NEW n \in DOMAIN inbox'[s]
                 PROVE  n \in Nat /\ FiledOK(s, n, inbox[s][n])'
      BY DEF InboxInv, BoxOK
    <2>1. n \in Nat /\ FiledOK(s, n, inbox[s][n])
      BY DEF Quiet, Inv, InboxInv, BoxOK
    <2>2. FiledOK(s, n, inbox'[s][n])
      BY <2>1 DEF Quiet, FiledOK
    <2>3. QED
      BY <2>1, <2>2, FiledKept DEF Quiet
  <1>4. QED
    BY <1>1, <1>2, <1>3 DEF Inv

\* A step that leaves the inbox alone.
LEMMA InboxAlone ==
    ASSUME Inv, UNCHANGED <<accepted, localTsn, nextRecv, delivered, inbox>>,
           data' \subseteq Pool, DOMAIN unacked' \subseteq Pool
    PROVE  Quiet
  <1>1. \A s \in Streams : \A n \in DOMAIN inbox[s] : inbox[s][n] \in MessageType
    BY DEF Inv, InboxInv, BoxOK, FiledOK
  <1>2. inbox = [s \in Streams |-> inbox[s]]
    BY DEF Inv, TypeInv
  <1>3. QED
    BY <1>1, <1>2 DEF Quiet

\* Nothing is sent initially.
LEMMA InitInv == Init => Inv
<1> SUFFICES ASSUME Init PROVE Inv
  OBVIOUS
<1>1. localTsn \in Nat /\ InitTsn <= localTsn /\ nextRecv \in [Streams -> Nat]
  BY DEF Init, InitTsn
<1>2. /\ accepted \in [Streams -> Seq(Seq(Payload))] /\ delivered \in [Streams -> Seq(Seq(Payload))]
      /\ \A s \in Streams : accepted[s] = <<>> /\ delivered[s] = <<>> /\ inbox[s] = <<>> /\ nextRecv[s] = 0
      /\ inbox = [s \in Streams |-> inbox[s]]
  BY DEF Init
<1>3. \A s \in Streams : DOMAIN accepted[s] = {} /\ DOMAIN delivered[s] = {} /\ DOMAIN inbox[s] = {}
                         /\ Len(delivered[s]) = 0 /\ Len(accepted[s]) = 0
  BY <1>2
<1>4. TypeInv
  BY <1>1, <1>2 DEF TypeInv
<1>5. Stored = {} /\ data = {} /\ DOMAIN unacked = {}
  BY <1>3, StoredIs DEF Init
<1>6. PoolInv
  BY <1>5 DEF PoolInv, Pool
<1>7. MessagesOK /\ InboxInv /\ Counted /\ DeliveredIsPrefix
  BY <1>2, <1>3 DEF MessagesOK, InboxInv, BoxOK, Counted, DeliveredIsPrefix
<1>8. QED
  BY <1>4, <1>6, <1>7 DEF Inv

-----------------------------------------------------------------------------
(* The steps                                                               *)

\* A SACK takes chunks out of sent_messages_.
LEMMA ReceiveSackQuiet == ASSUME Inv, NEW k \in sacks, ReceiveSack(k) PROVE Quiet
  <1>1. UNCHANGED <<accepted, localTsn, recvVars, data>>
    BY DEF ReceiveSack
  <1>2. DOMAIN unacked' \subseteq DOMAIN unacked
    BY DEF ReceiveSack, RestrictDomain, Restrict
  <1>3. QED
    BY <1>1, <1>2, InboxAlone DEF Pool, recvVars

\* resend_messages() sends what is kept already.
LEMMA SenderTimerQuiet == ASSUME Inv, SenderTimer PROVE Quiet
  <1>1. UNCHANGED <<accepted, localTsn, recvVars>>
    BY DEF SenderTimer
  <1>2. DOMAIN unacked' \subseteq DOMAIN unacked /\ data' \subseteq Pool
    BY DEF SenderTimer, Pool
  <1>3. QED
    BY <1>1, <1>2, InboxAlone DEF Pool, recvVars

\* clear_timeout_recv_messages() only drops messages.
LEMMA ReceiverTimerQuiet == ASSUME Inv, ReceiverTimer PROVE Quiet
  <1>1. UNCHANGED <<accepted, localTsn, unacked, nextRecv, delivered, data>>
    BY DEF ReceiverTimer, sendVars
  <1>2. inbox' = [s \in Streams |->
                    [n \in {i \in DOMAIN inbox[s] : inbox[s][i].age < MsgTimeout} |-> inbox[s][n]]]
    BY DEF ReceiverTimer, RestrictValues, Restrict
  <1>3. \A s \in Streams : /\ DOMAIN inbox'[s] \subseteq DOMAIN inbox[s]
                           /\ \A n \in DOMAIN inbox'[s] : inbox'[s][n] = inbox[s][n]
    BY <1>2
  <1>4. \A s \in Streams : \A n \in DOMAIN inbox[s] : inbox[s][n] \in MessageType
    BY DEF Inv, InboxInv, BoxOK, FiledOK
  <1>5. inbox' = [s \in Streams |-> inbox'[s]]
    BY <1>2
  <1>6. QED
    BY <1>1, <1>3, <1>4, <1>5 DEF Quiet, Pool

\* on_operational_error() drops all messages.
LEMMA ReceiveErrorQuiet == ASSUME Inv, ReceiveError PROVE Quiet
  <1>1. UNCHANGED <<accepted, localTsn, unacked, nextRecv, delivered, data>>
    BY DEF ReceiveError, sendVars
  <1>2. inbox' = [s \in Streams |-> <<>>]
    BY DEF ReceiveError
  <1>3. \A s \in Streams : DOMAIN inbox'[s] = {}
    BY <1>2
  <1>4. inbox' = [s \in Streams |-> inbox'[s]]
    BY <1>2
  <1>5. QED
    BY <1>1, <1>3, <1>4 DEF Quiet, Pool

\* Losing a packet.
LEMMA LoseQuiet == ASSUME Inv, Lose PROVE Quiet
  <1>1. UNCHANGED <<accepted, localTsn, unacked, inbox, nextRecv, delivered>> /\ data' \subseteq data
    BY DEF Lose, sendVars, recvVars
  <1>2. QED
    BY <1>1, InboxAlone DEF Pool

\* Messages that are not complete grow older.
LEMMA NextSecondQuiet == ASSUME Inv, NextSecond PROVE Quiet
  <1> DEFINE older(m) == [m EXCEPT !.age = Min({m.age + 1, MsgTimeout})]
  <1>1. UNCHANGED <<accepted, localTsn, unacked, nextRecv, delivered, data>>
    BY DEF NextSecond, sendVars, netVars
  <1>2. inbox' = [s \in Streams |-> [n \in DOMAIN inbox[s] |-> older(inbox[s][n])]]
    BY DEF NextSecond
  <1>3. \A s \in Streams : \A n \in DOMAIN inbox[s] : inbox[s][n] \in MessageType
    BY DEF Inv, InboxInv, BoxOK, FiledOK
  <1>4. ASSUME NEW m \in MessageType
        PROVE  older(m) \in MessageType /\ older(m).begin_tsn = m.begin_tsn /\ older(m).blocks = m.blocks
    <2>1. {m.age + 1, MsgTimeout} \in SUBSET Nat
      BY CountsAssumption DEF MessageType
    <2>2. Min({m.age + 1, MsgTimeout}) \in Nat
      BY <2>1, MinIsLeast
    <2>3. QED
      BY <2>2 DEF MessageType
  <1> HIDE DEF older
  <1>5. \A s \in Streams : /\ DOMAIN inbox'[s] = DOMAIN inbox[s]
                           /\ \A n \in DOMAIN inbox[s] : inbox'[s][n] = older(inbox[s][n])
    BY <1>2
  <1>6. inbox' = [s \in Streams |-> inbox'[s]]
    BY <1>2
  <1>7. \A s \in Streams : /\ DOMAIN inbox'[s] \subseteq DOMAIN inbox[s]
                           /\ \A n \in DOMAIN inbox'[s] :
                                /\ inbox'[s][n] \in MessageType
                                /\ inbox'[s][n].begin_tsn = inbox[s][n].begin_tsn
                                /\ inbox'[s][n].blocks = inbox[s][n].blocks
    BY <1>3, <1>4, <1>5
  <1>8. QED
    BY <1>1, <1>6, <1>7 DEF Quiet, Pool

\* Append adds one element behind the others.
LEMMA AppendIs ==
    ASSUME NEW S, NEW q \in Seq(S), NEW e \in S
    PROVE  LET r == Append(q, e)
           IN /\ r \in Seq(S) /\ Len(q) <= Len(r) /\ Len(r) = Len(q) + 1
              /\ \A i \in DOMAIN q : i \in DOMAIN r /\ r[i] = q[i]
              /\ \A i \in DOMAIN r : i \in DOMAIN q \/ (i = Len(q) + 1 /\ r[i] = e)
  OBVIOUS

\* A takes one more message, of n chunks, on stream s.
Takes(s, n) ==
    /\ accepted' = [accepted EXCEPT ![s] = Append(@, Message(s, Len(accepted[s]) + 1, n))]
    /\ localTsn' = localTsn + n

NextChunk(s, n, i) == Chunk(s, Len(accepted[s]) + 1, i, n, localTsn + i - 1)

\* The chunks of a message that A sends now.
LEMMA NewChunks ==
    ASSUME Inv, NEW s \in Streams, NEW n \in FragmentCounts, NEW i \in 1..n, Takes(s, n),
           NEW c, c = NextChunk(s, n, i)
    PROVE  /\ Genuine(c)' /\ c.sid = s /\ c.ssn = Len(accepted[s]) /\ Base(c) = localTsn - 1
           /\ Len(Whole(c)') = n
  <1> DEFINE k == Len(accepted[s]) + 1
             w == Message(s, k, n)
  <1>1. /\ n \in Nat /\ n > 0 /\ localTsn \in Nat /\ InitTsn <= localTsn /\ i \in Nat /\ InitTsn \in Nat
        /\ accepted \in [Streams -> Seq(Seq(Payload))] /\ Len(accepted[s]) \in Nat /\ k \in Nat
    BY CountsAssumption DEF Inv, TypeInv, InitTsn
  <1>2. /\ c.tsn = localTsn + i - 1 /\ c.sid = s /\ c.ssn = k - 1 /\ c.payload = <<s, k, i>>
        /\ c.begin = (i = 1) /\ c.end = (i = n)
    BY DEF NextChunk, Chunk
  <1>3. c \in ChunkType
    BY <1>1 DEF NextChunk, Chunk, ChunkType
  <1>4. Len(w) = n
    BY <1>1 DEF Message
  <1>5. accepted'[s] = Append(accepted[s], w)
    BY <1>1 DEF Takes
  <1>6. k \in DOMAIN accepted'[s] /\ accepted'[s][k] = w
    <2>1. w \in Seq(Payload)
      BY <1>1 DEF Message, Payload
    <2> HIDE DEF w
    <2>2. QED
      BY <1>1, <1>5, <2>1
  <1> HIDE DEF w
  <1>7. (c.ssn + 1) = k /\ c.ssn = Len(accepted[s])
    BY <1>1, <1>2
  <1> HIDE DEF k
  <1>8. Frag(c) = i
    BY <1>2 DEF Frag
  <1>9. Whole(c)' = w
    BY <1>2, <1>6, <1>7 DEF Whole
  <1>10. Genuine(c)'
    <2>1. InitTsn <= c.tsn /\ c.tsn < localTsn'
      BY <1>1, <1>2 DEF Takes
    <2>2. c.payload = <<c.sid, c.ssn + 1, Frag(c)>>
      BY <1>2, <1>7, <1>8
    <2>3. (c.begin <=> Frag(c) = 1) /\ (c.end <=> Frag(c) = Len(w))
      BY <1>2, <1>4, <1>8
    <2>4. c.ssn + 1 \in DOMAIN accepted'[c.sid]
      BY <1>2, <1>6, <1>7
    <2>5. QED
      BY <1>1, <1>3, <1>4, <1>8, <1>9, <2>1, <2>2, <2>3, <2>4 DEF Genuine
  <1>11. Base(c) = localTsn - 1
    BY <1>1, <1>2, <1>8 DEF Base
  <1>12. QED
    BY <1>2, <1>4, <1>7, <1>9, <1>10, <1>11

\* What A accepts now changes nothing for the messages before.
LEMMA GenuineGrows ==
    ASSUME Inv, NEW s \in Streams, NEW n \in FragmentCounts,
           Takes(s, n), NEW c, Genuine(c)
    PROVE  Genuine(c)' /\ (c.sid = s => c.ssn < Len(accepted[s])) /\ Whole(c)' = Whole(c)
  <1> DEFINE w == Message(s, Len(accepted[s]) + 1, n)
  <1>1. /\ n \in Nat /\ localTsn \in Nat /\ c.tsn \in Nat /\ c.ssn \in Nat /\ c.sid \in Streams
        /\ accepted \in [Streams -> Seq(Seq(Payload))]
    BY CountsAssumption DEF Inv, TypeInv, Genuine, ChunkType
  <1>2. w \in Seq(Payload)
    BY <1>1 DEF Message, Payload
  <1> HIDE DEF w
  <1>3. accepted'[c.sid] = IF c.sid = s THEN Append(accepted[s], w) ELSE accepted[c.sid]
    BY <1>1 DEF w, Takes
  <1>4. /\ c.ssn + 1 \in DOMAIN accepted[c.sid]
        /\ DOMAIN accepted[c.sid] = 1..Len(accepted[c.sid]) /\ Len(accepted[c.sid]) \in Nat
    <2>1. c.ssn + 1 \in DOMAIN accepted[c.sid]
      BY DEF Genuine
    <2>2. accepted[c.sid] \in Seq(Seq(Payload))
      BY <1>1
    <2>3. QED
      BY <2>1, <2>2
  <1>5. c.ssn + 1 \in DOMAIN accepted'[c.sid] /\ accepted'[c.sid][c.ssn + 1] = accepted[c.sid][c.ssn + 1]
    <2>1. CASE c.sid # s
      BY <1>3, <1>4, <2>1
    <2>2. CASE c.sid = s
      <3> DEFINE old == accepted[s]
      <3>1. old \in Seq(Seq(Payload)) /\ accepted'[c.sid] = Append(old, w)
        BY <1>1, <1>3, <2>2
      <3>2. c.ssn + 1 \in 1..Len(old)
        BY <1>4, <2>2
      <3> HIDE DEF old
      <3>3. c.ssn + 1 \in DOMAIN Append(old, w) /\ Append(old, w)[c.ssn + 1] = old[c.ssn + 1]
        BY <1>2, <3>1, <3>2
      <3>4. QED
        BY <2>2, <3>1, <3>3 DEF old
    <2>3. QED
      BY <2>1, <2>2
  <1>6. Whole(c)' = Whole(c)
    BY <1>5 DEF Whole
  <1>7. c.tsn < localTsn'
    <2>1. c.tsn < localTsn /\ localTsn' = localTsn + n
      BY <1>1 DEF Genuine, Takes
    <2>2. c.tsn \in Int /\ localTsn \in Int /\ n \in Nat
      BY <1>1 DEF Genuine, ChunkType
    <2>3. \A a, b \in Int : a < b => a < b + n
      BY <2>2
    <2>4. QED
      BY <2>1, <2>2, <2>3
  <1>8. Genuine(c)'
    BY <1>5, <1>6, <1>7 DEF Genuine
  <1>9. QED
    BY <1>1, <1>4, <1>6, <1>8

\* send() adds the chunks of one new message.
LEMMA SendInv == ASSUME Inv, NEW s \in Streams, NEW n \in FragmentCounts, Send(s, n) PROVE Inv'
  <1> DEFINE k == Len(accepted[s]) + 1
             w == Message(s, k, n)
             chunks == {Chunk(s, k, i, n, localTsn + i - 1) : i \in 1..n}
  <1>0. Takes(s, n)
    BY DEF Send, Takes
  <1>1. /\ accepted' = [accepted EXCEPT ![s] = Append(@, w)] /\ localTsn' = localTsn + n
        /\ data' = data \union chunks /\ DOMAIN unacked' = DOMAIN unacked \union chunks
        /\ UNCHANGED recvVars
    BY DEF Send
  <1>2. /\ n \in Nat /\ localTsn \in Nat /\ InitTsn <= localTsn /\ InitTsn \in Nat
        /\ accepted \in [Streams -> Seq(Seq(Payload))] /\ Len(accepted[s]) \in Nat
        /\ delivered \in [Streams -> Seq(Seq(Payload))]
    BY CountsAssumption DEF Inv, TypeInv, InitTsn
  <1>3. w \in Seq(Payload)
    BY <1>2 DEF Message, Payload
  <1>4. \A c \in chunks : Genuine(c)' /\ c.sid = s /\ c.ssn = Len(accepted[s]) /\ Base(c) = localTsn - 1
    <2> SUFFICES ASSUME NEW c \in chunks
                 PROVE  Genuine(c)' /\ c.sid = s /\ c.ssn = Len(accepted[s]) /\ Base(c) = localTsn - 1
      OBVIOUS
    <2>1. PICK i \in 1..n : c = Chunk(s, k, i, n, localTsn + i - 1)
      OBVIOUS
    <2>2. c = NextChunk(s, n, i)
      BY <2>1 DEF NextChunk
    <2> HIDE DEF chunks
    <2>3. QED
      BY <1>0, <2>2, NewChunks
  <1>5. \A c : Genuine(c) => Genuine(c)' /\ (c.sid = s => c.ssn < Len(accepted[s]))
    BY <1>0, GenuineGrows
  <1>6. Pool' = Pool \union chunks
    <2>1. Stored' = Stored
      BY <1>1 DEF Stored, recvVars
    <2> HIDE DEF chunks
    <2>2. QED
      BY <1>1, <2>1 DEF Pool
  <1>7. \A t \in Streams : accepted'[t] = IF t = s THEN Append(accepted[s], w) ELSE accepted[t]
    BY <1>1, <1>2
  <1>8. accepted' \in [Streams -> Seq(Seq(Payload))]
    <2> HIDE DEF w
    <2>1. Append(accepted[s], w) \in Seq(Seq(Payload))
      BY <1>2, <1>3
    <2>2. QED
      BY <1>1, <1>2, <2>1
  <1>9. TypeInv'
    BY <1>1, <1>2, <1>8 DEF Inv, TypeInv, recvVars
  <1>10. ASSUME NEW t \in Streams
         PROVE  /\ Len(accepted[t]) <= Len(accepted'[t])
                /\ \A i \in DOMAIN accepted[t] : i \in DOMAIN accepted'[t] /\ accepted'[t][i] = accepted[t][i]
                /\ \A i \in DOMAIN accepted'[t] : i \in DOMAIN accepted[t]
                                                  \/ (t = s /\ i = k /\ accepted'[t][i] = w)
    <2> HIDE DEF w
    <2>1. CASE t = s
      <3>1. accepted'[t] = Append(accepted[s], w) /\ accepted[s] \in Seq(Seq(Payload))
        BY <1>2, <1>7, <2>1
      <3>2. QED
        BY <1>3, <2>1, <3>1, AppendIs
    <2>2. CASE t # s
      BY <1>2, <1>7, <2>2
    <2>3. QED
      BY <2>1, <2>2
  <1>11. MessagesOK'
    BY <1>10 DEF Inv, MessagesOK
  <1> HIDE DEF chunks, w, k
  <1>12. PoolInv'
    <2>1. \A c \in Pool' : Genuine(c)'
      BY <1>4, <1>5, <1>6 DEF Inv, PoolInv
    <2>2. ASSUME NEW c \in Pool', NEW d \in Pool', c.sid = d.sid, c.ssn = d.ssn
          PROVE  Base(c) = Base(d)
      <3>1. CASE c \in Pool /\ d \in Pool
        BY <2>2, <3>1 DEF Inv, PoolInv
      <3>2. CASE c \in chunks /\ d \in chunks
        BY <1>4, <3>2
      <3>3. CASE (c \in chunks /\ d \in Pool) \/ (c \in Pool /\ d \in chunks)
        BY <1>2, <1>4, <1>5, <2>2, <3>3 DEF Inv, PoolInv
      <3>4. QED
        BY <1>6, <3>1, <3>2, <3>3
    <2>3. QED
      BY <2>1, <2>2 DEF PoolInv
  <1>13. InboxInv'
    <2>1. inbox' = inbox
      BY <1>1 DEF recvVars
    <2> SUFFICES ASSUME NEW t \in Streams, NEW i \in DOMAIN inbox[t], NEW m, m = inbox[t][i]
                 PROVE  i \in Nat /\ FiledOK(t, i, m)'
      BY <2>1 DEF InboxInv, BoxOK
    <2>2. i \in Nat /\ FiledOK(t, i, m)
      BY DEF Inv, InboxInv, BoxOK
    <2>3. QED
      BY <1>5, <2>2 DEF FiledOK, Coherent
  <1>14. Counted' /\ DeliveredIsPrefix'
    <2>1. delivered' = delivered /\ nextRecv' = nextRecv
      BY <1>1 DEF recvVars
    <2>2. ASSUME NEW t \in Streams
          PROVE  /\ Len(delivered[t]) <= Len(accepted'[t])
                 /\ \A i \in DOMAIN delivered[t] : delivered[t][i] = accepted'[t][i]
      <3>1. /\ DOMAIN delivered[t] = 1..Len(delivered[t]) /\ Len(delivered[t]) \in Nat
            /\ DOMAIN accepted[t] = 1..Len(accepted[t]) /\ Len(accepted[t]) \in Nat
            /\ Len(accepted'[t]) \in Nat
        BY <1>2, <1>8
      <3>2. /\ Len(delivered[t]) <= Len(accepted[t])
            /\ \A i \in DOMAIN delivered[t] : delivered[t][i] = accepted[t][i]
        BY DEF Inv, DeliveredIsPrefix
      <3>3. QED
        BY <1>10, <3>1, <3>2
    <2>3. QED
      BY <2>1, <2>2 DEF Inv, Counted, DeliveredIsPrefix
  <1>15. QED
    BY <1>9, <1>11, <1>12, <1>13, <1>14 DEF Inv

\* The length of two sequences one behind the other.
LEMMA ConcatIs ==
    ASSUME NEW S, NEW p \in Seq(S), NEW q \in Seq(S)
    PROVE  /\ p \o q \in Seq(S) /\ Len(p \o q) = Len(p) + Len(q)
           /\ \A i \in 1..(Len(p) + Len(q)) :
                (p \o q)[i] = IF i <= Len(p) THEN p[i] ELSE q[i - Len(p)]
  BY ConcatProperties

\* sctp_stream::insert() keeps a stream's messages in order.
LEMMA FiledBox ==
    ASSUME Inv, NEW c \in data
    PROVE  LET box == Filed(inbox[c.sid], c)
           IN /\ c.sid \in Streams
              /\ BoxOK(c.sid, box)
              /\ \A n \in DOMAIN box : box[n].blocks \subseteq Stored \union {c}
  <1> DEFINE s == c.sid
             m == IF c.ssn \in DOMAIN inbox[s] THEN inbox[s][c.ssn] ELSE EmptyMessage
             box == Filed(inbox[s], c)
  <1>1. c \in Pool /\ Genuine(c)
    BY DEF Inv, PoolInv, Pool
  <1>2. s \in Streams /\ c.ssn \in Nat
    BY <1>1 DEF Genuine, ChunkType
  <1>3. /\ DOMAIN box = DOMAIN inbox[s] \union {c.ssn}
        /\ \A n \in DOMAIN box : box[n] = IF n = c.ssn THEN Insert(m, c) ELSE inbox[s][n]
    BY DEF Filed
  <1>4. \A n \in DOMAIN inbox[s] : n \in Nat /\ FiledOK(s, n, inbox[s][n]) /\ inbox[s][n].blocks \subseteq Stored
    BY <1>2, StoredIs DEF Inv, InboxInv, BoxOK
  <1>5. FiledOK(s, c.ssn, m) /\ m.blocks \subseteq Stored
    <2>1. CASE c.ssn \in DOMAIN inbox[s]
      BY <1>4, <2>1
    <2>2. CASE c.ssn \notin DOMAIN inbox[s]
      <3>1. m = EmptyMessage
        BY <2>2
      <3>2. EmptyMessage.blocks = {} /\ EmptyMessage \in MessageType /\ EmptyMessage.begin_tsn = InitTsn - 1
            /\ EmptyMessage.begin_tsn \in Nat
        BY DEF EmptyMessage, MessageType, InitTsn
      <3> HIDE DEF m
      <3>3. QED
        BY <3>1, <3>2 DEF FiledOK, Coherent
    <2>3. QED
      BY <2>1, <2>2
  <1> HIDE DEF m
  <1>6. \A b \in m.blocks : Base(b) = Base(c)
    BY <1>1, <1>5 DEF Inv, PoolInv, Pool, FiledOK, Coherent
  <1>7. FiledOK(s, c.ssn, Insert(m, c)) /\ Insert(m, c).blocks \subseteq m.blocks \union {c}
    BY <1>1, <1>5, <1>6, InsertOK
  <1> HIDE DEF box
  <1>8. BoxOK(s, box)
    BY <1>2, <1>3, <1>4, <1>7 DEF BoxOK
  <1>9. \A n \in DOMAIN box : box[n].blocks \subseteq Stored \union {c}
    BY <1>1, <1>3, <1>4, <1>5, <1>7
  <1>10. QED
    BY <1>2, <1>8, <1>9 DEF box

\* A chunk that arrives is filed; no other chunk is new.
LEMMA ReceivePool ==
    ASSUME Inv, NEW c \in data, ReceiveData(c)
    PROVE  Stored' \subseteq Stored \union {c} /\ Pool' \subseteq Pool
  <1> DEFINE s == c.sid
             box == Filed(inbox[s], c)
             rest == RestrictDomain(box, LAMBDA n : n \notin Ready(box, nextRecv[s]))
  <1>1. inbox' = [inbox EXCEPT ![s] = rest] /\ data' \subseteq data /\ unacked' = unacked
    BY DEF ReceiveData, sendVars
  <1>2. DOMAIN rest \subseteq DOMAIN box /\ \A n \in DOMAIN rest : rest[n] = box[n]
    BY DEF RestrictDomain, Restrict
  <1>3. s \in Streams /\ \A n \in DOMAIN box : box[n].blocks \subseteq Stored \union {c}
    BY FiledBox
  <1> HIDE DEF box, rest
  <1>4. \A t \in Streams : inbox'[t] = IF t = s THEN rest ELSE inbox[t]
    BY <1>1, <1>3 DEF Inv, TypeInv
  <1>5. ASSUME NEW d, d \in Stored' PROVE d \in Stored \union {c}
    <2>1. PICK t \in Streams : \E n \in DOMAIN inbox'[t] : d \in inbox'[t][n].blocks
      BY <1>5, StoredIsNext
    <2>2. PICK n \in DOMAIN inbox'[t] : d \in inbox'[t][n].blocks
      BY <2>1
    <2>3. CASE t = s
      BY <1>2, <1>3, <1>4, <2>2, <2>3
    <2>4. CASE t # s
      BY <1>4, <2>2, <2>4, StoredIs
    <2>5. QED
      BY <2>3, <2>4
  <1>6. QED
    BY <1>1, <1>5 DEF Pool

\* insert_data_chunk() hands up whole messages, in order.
LEMMA ReceiveDataInv == ASSUME Inv, NEW c \in data, ReceiveData(c) PROVE Inv'
  <1> DEFINE s == c.sid
             box == Filed(inbox[s], c)
             next == nextRecv[s]
             ready == Ready(box, next)
             out == [i \in 1..Cardinality(ready) |-> Serialize(box[next + i - 1])]
  <1>1. /\ UNCHANGED <<accepted, localTsn, unacked>> /\ data' \subseteq data
        /\ inbox' = [inbox EXCEPT ![s] = [n \in {i \in DOMAIN box : i \notin ready} |-> box[n]]]
        /\ nextRecv' = [nextRecv EXCEPT ![s] = @ + Cardinality(ready)]
        /\ delivered' = [delivered EXCEPT ![s] = @ \o out]
    BY DEF ReceiveData, RestrictDomain, Restrict, sendVars
  <1>2. s \in Streams /\ BoxOK(s, box)
    BY FiledBox
  <1> HIDE DEF box
  <1>3. /\ accepted \in [Streams -> Seq(Seq(Payload))] /\ delivered \in [Streams -> Seq(Seq(Payload))]
        /\ nextRecv \in [Streams -> Nat] /\ inbox = [t \in Streams |-> inbox[t]]
        /\ next \in Nat /\ Len(delivered[s]) = next
    BY <1>2 DEF Inv, TypeInv, Counted
  <1>4. DOMAIN accepted[s] = 1..Len(accepted[s]) /\ Len(accepted[s]) \in Nat
        /\ accepted[s] \in Seq(Seq(Payload)) /\ delivered[s] \in Seq(Seq(Payload))
    BY <1>2, <1>3
  <1>5. PICK k \in Nat :
             /\ next <= k
             /\ ready = next..(k - 1)
             /\ Cardinality(ready) = k - next
             /\ \A i \in next..(k - 1) :
                  /\ i \in Nat /\ i \in DOMAIN box /\ IsCompleted(box[i]) /\ FiledOK(s, i, box[i])
                  /\ i + 1 \in DOMAIN accepted[s]
                  /\ Serialize(box[i]) = accepted[s][i + 1]
    BY <1>2, <1>3, <1>4, ReadyIs DEF Inv
  <1> HIDE DEF ready
  <1>6. /\ k - next \in Nat /\ out = [i \in 1..(k - next) |-> accepted[s][next + i]]
        /\ \A i \in 1..(k - next) : next + i \in DOMAIN accepted[s]
    <2>1. ASSUME NEW i \in 1..(k - next)
          PROVE  next + i \in DOMAIN accepted[s] /\ Serialize(box[next + i - 1]) = accepted[s][next + i]
      <3>1. next + i - 1 \in next..(k - 1) /\ (next + i - 1) + 1 = next + i
        <4>1. next \in Int /\ k \in Int
          BY <1>3, <1>5
        <4> HIDE DEF next
        <4>2. i \in Int /\ 1 <= i /\ i <= k - next
          BY <4>1
        <4>3. QED
          BY <4>1, <4>2
      <3>2. QED
        BY <1>5, <3>1
    <2>2. k - next \in Nat
      BY <1>3, <1>5
    <2>3. out = [i \in 1..(k - next) |-> Serialize(box[next + i - 1])]
      BY <1>5
    <2> HIDE DEF out, next
    <2>4. QED
      BY <2>1, <2>2, <2>3
  <1>7. out \in Seq(Seq(Payload)) /\ Len(out) = k - next
    <2>1. \A i \in 1..(k - next) : accepted[s][next + i] \in Seq(Payload)
      BY <1>4, <1>6
    <2> DEFINE size == k - next
    <2>2. size \in Nat /\ out \in [1..size -> Seq(Payload)]
      <3> HIDE DEF out
      <3>1. QED
        BY <1>6, <2>1
    <2> HIDE DEF out, size
    <2>3. out \in Seq(Seq(Payload)) /\ Len(out) = size
      BY <2>2
    <2>4. QED
      BY <2>3 DEF size
  <1> HIDE DEF out
  <1>8. k <= Len(accepted[s])
    <2>1. CASE k = next
      BY <1>2, <1>3, <2>1 DEF Inv, DeliveredIsPrefix
    <2>2. CASE k # next
      <3>1. k - 1 \in next..(k - 1) /\ (k - 1) + 1 = k
        BY <1>3, <1>5, <2>2
      <3>2. QED
        BY <1>4, <1>5, <3>1
    <2>3. QED
      BY <2>1, <2>2
  <1>9. \A t \in Streams : delivered'[t] = (IF t = s THEN delivered[s] \o out ELSE delivered[t])
                         /\ nextRecv'[t] = (IF t = s THEN k ELSE nextRecv[t])
    BY <1>1, <1>2, <1>3, <1>5
  <1>10. delivered[s] \o out \in Seq(Seq(Payload)) /\ Len(delivered[s] \o out) = k
    <2>1. /\ delivered[s] \o out \in Seq(Seq(Payload))
          /\ Len(delivered[s] \o out) = Len(delivered[s]) + Len(out)
      BY <1>4, <1>7, ConcatIs
    <2>2. next \in Int /\ k \in Int
      BY <1>3, <1>5
    <2> HIDE DEF next
    <2>3. next + (k - next) = k
      BY <2>2
    <2>4. QED
      BY <1>3, <1>7, <2>1, <2>3
  <1>11. \A i \in DOMAIN (delivered[s] \o out) : (delivered[s] \o out)[i] = accepted[s][i]
    <2> SUFFICES ASSUME NEW i \in DOMAIN (delivered[s] \o out)
                 PROVE  (delivered[s] \o out)[i] = accepted[s][i]
      OBVIOUS
    <2>1. i \in 1..k
      BY <1>10
    <2>2. CASE i <= next
      <3>1. i \in DOMAIN delivered[s] /\ (delivered[s] \o out)[i] = delivered[s][i]
        BY <1>3, <1>4, <1>7, <2>1, <2>2
      <3>2. QED
        BY <1>2, <3>1 DEF Inv, DeliveredIsPrefix
    <2>3. CASE i > next
      <3>1. (i - next) \in 1..(k - next) /\ next + (i - next) = i
        <4>1. next \in Int /\ k \in Int /\ i \in Int /\ i > next /\ i <= k
          BY <1>3, <1>5, <2>1, <2>3
        <4> HIDE DEF next
        <4>2. QED
          BY <4>1
      <3>2. (delivered[s] \o out)[i] = out[i - next]
        <4>1. /\ \A j \in 1..(Len(delivered[s]) + Len(out)) :
                   (delivered[s] \o out)[j] =
                     IF j <= Len(delivered[s]) THEN delivered[s][j] ELSE out[j - Len(delivered[s])]
              /\ Len(delivered[s] \o out) = Len(delivered[s]) + Len(out)
          BY <1>4, <1>7, ConcatIs
        <4>2. next \in Int /\ i \in Int /\ Len(delivered[s]) = next
              /\ i \in 1..(Len(delivered[s]) + Len(out))
          BY <1>3, <1>10, <2>1, <4>1
        <4> HIDE DEF next
        <4>3. ~(i <= next)
          BY <2>3, <4>2
        <4>4. QED
          BY <4>1, <4>2, <4>3
      <3> HIDE DEF next
      <3>3. QED
        BY <1>6, <3>1, <3>2
    <2>4. QED
      BY <1>3, <2>1, <2>2, <2>3
  <1>12. Counted' /\ DeliveredIsPrefix'
    <2> HIDE DEF next
    <2>1. ASSUME NEW t \in Streams
          PROVE  /\ Len(delivered'[t]) = nextRecv'[t] /\ Len(delivered'[t]) <= Len(accepted'[t])
                 /\ \A i \in DOMAIN delivered'[t] : delivered'[t][i] = accepted'[t][i]
      <3>1. CASE t = s
        <4> DEFINE d == delivered[s] \o out
        <4>1. delivered'[t] = d /\ nextRecv'[t] = k /\ accepted'[t] = accepted[s]
          BY <1>1, <1>2, <1>9, <3>1
        <4>2. Len(d) = k /\ \A i \in DOMAIN d : d[i] = accepted[s][i]
          BY <1>10, <1>11
        <4> HIDE DEF d
        <4>3. QED
          BY <1>8, <4>1, <4>2
      <3>2. CASE t # s
        BY <1>1, <1>9, <3>2 DEF Inv, Counted, DeliveredIsPrefix
      <3>3. QED
        BY <3>1, <3>2
    <2>2. QED
      BY <2>1 DEF Counted, DeliveredIsPrefix
  <1>13. delivered' \in [Streams -> Seq(Seq(Payload))]
    BY <1>1, <1>2, <1>3, <1>10
  <1>14. nextRecv' \in [Streams -> Nat]
    BY <1>1, <1>2, <1>3, <1>5
  <1> DEFINE rest == [n \in {i \in DOMAIN box : i \notin ready} |-> box[n]]
  <1>15. /\ inbox' = [t \in Streams |-> inbox'[t]]
         /\ \A t \in Streams : inbox'[t] = IF t = s THEN rest ELSE inbox[t]
    BY <1>1, <1>2, <1>3
  <1>16. DOMAIN rest \subseteq DOMAIN box /\ \A n \in DOMAIN rest : rest[n] = box[n]
    OBVIOUS
  <1> HIDE DEF rest, next
  <1>17. TypeInv' /\ MessagesOK'
    BY <1>1, <1>3, <1>13, <1>14, <1>15 DEF Inv, TypeInv, MessagesOK
  <1>18. Pool' \subseteq Pool
    BY ReceivePool
  <1>19. PoolInv'
    BY <1>1, <1>18, PoolKept DEF Inv
  <1>20. InboxInv'
    <2> SUFFICES ASSUME NEW t \in Streams, NEW n \in DOMAIN inbox'[t]
                 PROVE  n \in Nat /\ FiledOK(t, n, inbox[t][n])'
      BY DEF InboxInv, BoxOK
    <2>1. n \in Nat /\ FiledOK(t, n, inbox'[t][n])
      <3>1. CASE t = s
        BY <1>2, <1>15, <1>16, <3>1 DEF BoxOK
      <3>2. CASE t # s
        BY <1>15, <3>2 DEF Inv, InboxInv, BoxOK
      <3>3. QED
        BY <3>1, <3>2
    <2>2. QED
      BY <1>1, <2>1, FiledKept
  <1>21. QED
    BY <1>12, <1>17, <1>19, <1>20 DEF Inv

\* Every step keeps the invariant.
LEMMA NextInv == Inv /\ [Next]_vars => Inv'
<1> SUFFICES ASSUME Inv, [Next]_vars PROVE Inv'
  OBVIOUS
<1>1. CASE \E s \in Streams, n \in FragmentCounts : Send(s, n)
  BY <1>1, SendInv
<1>2. CASE DeliverData
  BY <1>2, ReceiveDataInv DEF DeliverData
<1>3. CASE DeliverSack
  BY <1>3, QuietStep, ReceiveSackQuiet DEF DeliverSack
<1>4. CASE ReceiveError
  BY <1>4, QuietStep, ReceiveErrorQuiet
<1>5. CASE SenderTimer
  BY <1>5, QuietStep, SenderTimerQuiet
<1>6. CASE ReceiverTimer
  BY <1>6, QuietStep, ReceiverTimerQuiet
<1>7. CASE Lose
  BY <1>7, QuietStep, LoseQuiet
<1>8. CASE NextSecond
  BY <1>8, QuietStep, NextSecondQuiet
<1>9. CASE UNCHANGED vars
  BY <1>9, QuietStep, InboxAlone DEF vars, sendVars, recvVars, netVars, Pool
<1>10. QED
  BY <1>1, <1>2, <1>3, <1>4, <1>5, <1>6, <1>7, <1>8, <1>9 DEF Next

\* B hands up a prefix of what A sent, every message whole (sctp_stream::insert(),
\* next_message(), is_completed(), serialize()), on every stream, whatever the network
\* and the timers do.
THEOREM DeliveredIsPrefixAlways == Spec => []DeliveredIsPrefix
<1>1. Spec => []Inv
  BY InitInv, NextInv, PTL DEF Spec
<1>2. Inv => DeliveredIsPrefix
  BY DEF Inv
<1>3. QED
  BY <1>1, <1>2, PTL

-----------------------------------------------------------------------------
(* One stream: nothing is lost silently                                    *)

\* B has received what it has filed.
StoredGot == \A c \in Stored : c.tsn \in got

\* Consecutive messages have consecutive TSNs, up to the last one sent.
Consecutive ==
    /\ \A c, d \in Pool : d.ssn = c.ssn + 1 => Base(d) = Base(c) + Len(Whole(c))
    /\ \A c \in Pool : c.ssn + 1 = Len(accepted[c.sid]) => Base(c) + Len(Whole(c)) = localTsn - 1

\* B has received all that comes before the message that is next in order.
ReceivedBefore ==
    /\ \A c \in Pool : c.ssn <= nextRecv[c.sid] => InitTsn..Base(c) \subseteq got
    /\ \A s \in Streams : nextRecv[s] = Len(accepted[s]) => InitTsn..(localTsn - 1) \subseteq got

\* A SACK's cumulative TSN is one up to which B has received everything.
Covered(k, G) == IsFiniteSet(k.gaps) /\ k.tsn \in Int /\ InitTsn..k.tsn \subseteq G
SacksCovered == \A k \in sacks : Covered(k, got)

OneInv == StoredGot /\ Consecutive /\ ReceivedBefore /\ SacksCovered /\ NoSilentLoss

\* Two integer intervals have finitely many pairs.
LEMMA PairsFinite ==
    ASSUME NEW a \in Int, NEW b \in Int, NEW S \in SUBSET ((a..b) \X (a..b))
    PROVE  IsFiniteSet(S)
  <1>1. IsFiniteSet(a..b)
    BY FS_Interval
  <1>2. IsFiniteSet((a..b) \X (a..b))
    BY <1>1, FS_Product
  <1>3. QED
    BY <1>2, FS_Subset

\* A set of numbers that has a but not all above it has a last one before a hole.
LEMMA RunEnd ==
    ASSUME NEW P \in SUBSET Nat, NEW a \in P, NEW top \in Nat, \A t \in P : t <= top
    PROVE  \E e \in P : a <= e /\ a..e \subseteq P /\ e + 1 \notin P
  <1> DEFINE Ends == {e \in Nat : a <= e /\ e + 1 \notin P}
  <1>1. a \in Nat /\ a <= top
    OBVIOUS
  <1>2. top \in Ends
    BY <1>1
  <1>3. PICK e \in Ends : \A x \in Ends : e <= x
    BY <1>2, LeastNatural
  <1>4. e \in Nat /\ a <= e /\ e + 1 \notin P
    BY <1>3
  <1>5. a..e \subseteq P
    <2> SUFFICES ASSUME NEW t \in a..e PROVE t \in P
      OBVIOUS
    <2>1. CASE t = a
      BY <2>1
    <2>2. CASE t # a
      <3>1. t - 1 \in Nat /\ a <= t - 1 /\ ~(e <= t - 1) /\ (t - 1) + 1 = t
        BY <1>1, <1>4, <2>2
      <3>2. QED
        BY <1>3, <3>1
    <2>3. QED
      BY <2>1, <2>2
  <1>6. e \in a..e
    BY <1>1, <1>4
  <1>7. QED
    BY <1>4, <1>5, <1>6

\* calc_gaps(): the cumulative TSN ends the run of chunks that the begin chunk starts,
\* or it is the one before the first TSN of all.
LEMMA SackIs ==
    ASSUME NEW s, NEW n, NEW m, FiledOK(s, n, m)
    PROVE  LET k == Sack(m)
           IN /\ IsFiniteSet(k.gaps) /\ k.tsn \in Int
              /\ \/ k.tsn = InitTsn - 1
                 \/ /\ \E b \in m.blocks : b.begin /\ b.tsn = m.begin_tsn
                    /\ \A t \in m.begin_tsn..k.tsn : Has(m, t)
  <1> DEFINE present == {t \in Scan(m) : Has(m, t)}
             runs == Runs(m)
             started == \E t \in Scan(m) : Has(m, t) /\ Block(m, t).begin
             first == CHOOSE r \in runs : \A q \in runs : r[1] <= q[1]
             cumulative == IF started THEN first[2] ELSE InitTsn - 1
             rest == IF started THEN runs \ {first} ELSE runs
             gaps == {<<r[1] - cumulative, r[2] - cumulative>> : r \in rest}
  <1>1. \A b \in m.blocks : b.tsn \in Nat /\ (b.begin => b.tsn = m.begin_tsn)
    BY DEF FiledOK, Coherent, Genuine, ChunkType
  <1>2. m.begin_tsn \in Nat
    BY DEF FiledOK
  <1>3. PICK last \in Nat : Scan(m) = m.begin_tsn..last /\ m.begin_tsn <= last
    BY <1>1, <1>2, ScanIs
  <1>4. present \in SUBSET Nat /\ \A t \in present : t \in Int /\ m.begin_tsn <= t /\ t <= last
    BY <1>2, <1>3
  <1>5. runs = {r \in present \X present :
                  /\ r[1] <= r[2] /\ r[1]..r[2] \subseteq present
                  /\ r[1] - 1 \notin present /\ r[2] + 1 \notin present}
    BY DEF Runs
  <1>6. Sack(m).tsn = cumulative /\ Sack(m).gaps = gaps
    BY DEF Sack
  <1>7. \A t \in present : Has(m, t)
    OBVIOUS
  <1>8. started => m.begin_tsn \in present /\ \E b \in m.blocks : b.begin /\ b.tsn = m.begin_tsn
    <2> SUFFICES ASSUME NEW t \in Scan(m), Has(m, t), Block(m, t).begin
                 PROVE  t = m.begin_tsn /\ t \in present /\ \E b \in m.blocks : b.begin /\ b.tsn = m.begin_tsn
      OBVIOUS
    <2>1. Block(m, t) \in m.blocks /\ Block(m, t).tsn = t
      BY BlockIs
    <2>2. QED
      BY <1>1, <2>1
  <1> HIDE DEF present, runs, started
  <1>9. ASSUME started
        PROVE  first \in runs /\ first[1] = m.begin_tsn
    <2>1. PICK e \in present : m.begin_tsn <= e /\ m.begin_tsn..e \subseteq present /\ e + 1 \notin present
      BY <1>4, <1>8, <1>9, RunEnd
    <2> DEFINE r == <<m.begin_tsn, e>>
    <2>2. m.begin_tsn - 1 \notin present
      BY <1>2, <1>4
    <2>3. r \in runs
      BY <1>5, <1>8, <1>9, <2>1, <2>2
    <2>4. \A q \in runs : q[1] \in Nat /\ m.begin_tsn <= q[1]
      BY <1>4, <1>5
    <2>5. \E x \in runs : \A q \in runs : x[1] <= q[1]
      BY <2>3, <2>4
    <2>6. first \in runs /\ \A q \in runs : first[1] <= q[1]
      BY <2>5
    <2> HIDE DEF first
    <2>7. first[1] <= m.begin_tsn
      BY <2>3, <2>6
    <2>8. QED
      BY <1>2, <2>4, <2>6, <2>7
  <1> HIDE DEF first
  <1>10. cumulative \in Int /\ (started => cumulative = first[2] /\ m.begin_tsn..cumulative \subseteq present)
    <2>1. CASE started
      <3>0. first \in runs /\ first[1] = m.begin_tsn
        BY <1>9, <2>1
      <3>1. first[2] \in present /\ first[1]..first[2] \subseteq present
        BY <1>5, <3>0
      <3>2. QED
        BY <1>4, <2>1, <3>0, <3>1
    <2>2. CASE ~started
      BY <2>2 DEF InitTsn
    <2>3. QED
      BY <2>1, <2>2
  <1>11. IsFiniteSet(gaps)
    <2>1. rest \subseteq runs
      OBVIOUS
    <2> HIDE DEF rest, cumulative
    <2> DEFINE lo == m.begin_tsn - cumulative
               hi == last - cumulative
    <2>2. ASSUME NEW r \in rest
          PROVE  <<r[1] - cumulative, r[2] - cumulative>> \in (lo..hi) \X (lo..hi)
      <3>1. r[1] \in present /\ r[2] \in present
        BY <1>5, <2>1
      <3>2. /\ r[1] \in Int /\ m.begin_tsn <= r[1] /\ r[1] <= last
            /\ r[2] \in Int /\ m.begin_tsn <= r[2] /\ r[2] <= last
        BY <1>4, <3>1, Zenon
      <3>3. QED
        BY <1>2, <1>10, <3>2
    <2>3. gaps \in SUBSET ((lo..hi) \X (lo..hi)) /\ lo \in Int /\ hi \in Int
      BY <1>2, <1>10, <2>2
    <2> HIDE DEF gaps, lo, hi
    <2>4. QED
      BY <2>3, PairsFinite
  <1>12. cumulative = InitTsn - 1 \/ started
    OBVIOUS
  <1> HIDE DEF cumulative, gaps
  <1>13. QED
    BY <1>6, <1>7, <1>8, <1>10, <1>11, <1>12

\* So a SACK covers only what was received, if all before its message was.
LEMMA SackCovered ==
    ASSUME NEW s, NEW n, NEW m, FiledOK(s, n, m), NEW G,
           \A b \in m.blocks : b.tsn \in G /\ InitTsn..Base(b) \subseteq G
    PROVE  Covered(Sack(m), G)
  <1> DEFINE k == Sack(m)
  <1>1. /\ IsFiniteSet(k.gaps) /\ k.tsn \in Int
        /\ \/ k.tsn = InitTsn - 1
           \/ /\ \E b \in m.blocks : b.begin /\ b.tsn = m.begin_tsn
              /\ \A t \in m.begin_tsn..k.tsn : Has(m, t)
    BY SackIs
  <1> HIDE DEF k
  <1>2. InitTsn..k.tsn \subseteq G
    <2>1. CASE k.tsn = InitTsn - 1
      BY <2>1 DEF InitTsn
    <2>2. CASE /\ \E b \in m.blocks : b.begin /\ b.tsn = m.begin_tsn
               /\ \A t \in m.begin_tsn..k.tsn : Has(m, t)
      <3>1. PICK b \in m.blocks : b.begin /\ b.tsn = m.begin_tsn
        BY <2>2
      <3>2. m.begin_tsn \in Nat /\ Base(b) = m.begin_tsn - 1
        BY <3>1 DEF FiledOK, Coherent, Genuine, Base
      <3>3. InitTsn..(m.begin_tsn - 1) \subseteq G
        BY <3>1, <3>2
      <3>4. \A t \in m.begin_tsn..k.tsn : t \in G
        BY <2>2 DEF Has
      <3>5. QED
        BY <1>1, <3>2, <3>3, <3>4 DEF InitTsn
    <2>3. QED
      BY <1>1, <2>1, <2>2
  <1>3. QED
    BY <1>1, <1>2 DEF Covered, k

\* A SACK that process_sack() gets to see acknowledges only what was received.
LEMMA AckedIsGot ==
    ASSUME NEW k, NEW G, Covered(k, G), Parses(k), NEW t \in Acked(k), InitTsn <= t
    PROVE  t \in G
  <1>1. Cardinality(k.gaps) \in Nat
    BY FS_CardinalityType DEF Covered
  <1>2. Cardinality(k.gaps) = 0
    BY <1>1 DEF Parses
  <1>3. k.gaps = {}
    BY <1>2, FS_EmptySet DEF Covered
  <1>4. t \in (k.tsn - MaxChunks)..k.tsn
    BY <1>3 DEF Acked
  <1>5. k.tsn \in Int /\ MaxChunks \in Int
    BY CountsAssumption DEF Covered
  <1>6. t \in InitTsn..k.tsn
    BY <1>4, <1>5 DEF InitTsn
  <1>7. QED
    BY <1>6 DEF Covered

\* A step that brings no chunk and hands nothing up.
LEMMA QuietOne ==
    ASSUME OneInv, Quiet, UNCHANGED got
    PROVE  StoredGot' /\ Consecutive' /\ ReceivedBefore'
  <1>1. UNCHANGED <<accepted, localTsn, nextRecv>> /\ Stored' \subseteq Stored /\ Pool' \subseteq Pool
    BY QuietPool DEF Quiet
  <1>2. \A c : Whole(c)' = Whole(c)
    BY <1>1 DEF Whole
  <1>3. QED
    BY <1>1, <1>2 DEF OneInv, StoredGot, Consecutive, ReceivedBefore

\* process_sack() forgets only what B has.
LEMMA ReceiveSackOne == ASSUME Inv, OneInv, NEW k \in sacks, ReceiveSack(k) PROVE OneInv'
  <1>1. /\ UNCHANGED <<localTsn, exhausted, got>> /\ sacks' \subseteq sacks
        /\ \A c \in DOMAIN unacked : c \in DOMAIN unacked' \/ (Parses(k) /\ c.tsn \in Acked(k))
    BY DEF ReceiveSack, recvVars, RestrictDomain, Restrict
  <1>2. StoredGot' /\ Consecutive' /\ ReceivedBefore'
    BY <1>1, ReceiveSackQuiet, QuietOne
  <1>3. SacksCovered'
    BY <1>1 DEF OneInv, SacksCovered, Covered
  <1>4. NoSilentLoss'
    <2> SUFFICES ASSUME NEW t \in InitTsn..(localTsn - 1)
                 PROVE  t \in got \/ t \in exhausted \/ \E c \in DOMAIN unacked' : c.tsn = t
      BY <1>1 DEF NoSilentLoss
    <2>1. InitTsn <= t
      BY DEF InitTsn
    <2>2. Parses(k) /\ t \in Acked(k) => t \in got
      BY <2>1, AckedIsGot DEF OneInv, SacksCovered
    <2>3. QED
      BY <1>1, <2>2 DEF OneInv, NoSilentLoss
  <1>5. QED
    BY <1>2, <1>3, <1>4 DEF OneInv

\* resend_messages() gives up only what it has resent often enough.
LEMMA SenderTimerOne == ASSUME Inv, OneInv, SenderTimer PROVE OneInv'
  <1>1. /\ UNCHANGED <<localTsn, got, sacks>> /\ exhausted \subseteq exhausted'
        /\ \A c \in DOMAIN unacked : c \in DOMAIN unacked' \/ c.tsn \in exhausted'
    BY DEF SenderTimer, recvVars
  <1>2. StoredGot' /\ Consecutive' /\ ReceivedBefore'
    BY <1>1, SenderTimerQuiet, QuietOne
  <1>3. SacksCovered' /\ NoSilentLoss'
    BY <1>1 DEF OneInv, SacksCovered, Covered, NoSilentLoss
  <1>4. QED
    BY <1>2, <1>3 DEF OneInv

\* The timer's SACK is about the message that is next in order.
LEMMA ReceiverTimerOne == ASSUME Inv, OneInv, ReceiverTimer PROVE OneInv'
  <1>1. UNCHANGED <<localTsn, got, exhausted, unacked, nextRecv>>
    BY DEF ReceiverTimer, sendVars
  <1>2. StoredGot' /\ Consecutive' /\ ReceivedBefore'
    BY <1>1, ReceiverTimerQuiet, QuietOne
  <1>3. NoSilentLoss'
    BY <1>1 DEF OneInv, NoSilentLoss
  <1>4. Inv'
    BY ReceiverTimerQuiet, QuietStep
  <1>5. ASSUME NEW s \in Streams, NEW m, nextRecv[s] \in DOMAIN inbox'[s], m = inbox'[s][nextRecv[s]]
        PROVE  Covered(Sack(m), got)
    <2>1. FiledOK(s, nextRecv[s], m)
      <3>1. nextRecv[s] \in DOMAIN inbox[s] /\ m.blocks = inbox[s][nextRecv[s]].blocks
            /\ m.begin_tsn = inbox[s][nextRecv[s]].begin_tsn /\ m \in MessageType
        BY <1>5, ReceiverTimerQuiet DEF Quiet
      <3>2. QED
        BY <3>1 DEF Inv, InboxInv, BoxOK, FiledOK
    <2>2. \A b \in m.blocks : b \in Stored'
      BY <1>5, StoredIsNext
    <2>3. \A b \in m.blocks : b.tsn \in got /\ b \in Pool'
      BY <1>1, <1>2, <2>2 DEF StoredGot, Pool
    <2>4. \A b \in m.blocks : b.sid = s /\ b.ssn = nextRecv[s] /\ nextRecv[s] \in Nat
      BY <2>1 DEF FiledOK, Coherent, Inv, TypeInv
    <2>5. \A b \in m.blocks : InitTsn..Base(b) \subseteq got
      BY <1>1, <1>2, <2>3, <2>4 DEF ReceivedBefore
    <2>6. QED
      BY <2>1, <2>3, <2>5, SackCovered
  <1>6. \A k \in sacks' : k \in sacks
            \/ \E s \in Streams : nextRecv[s] \in DOMAIN inbox'[s] /\ k = Sack(inbox'[s][nextRecv[s]])
    BY DEF ReceiverTimer
  <1>7. SacksCovered'
    <2> SUFFICES ASSUME NEW k \in sacks' PROVE Covered(k, got)
      BY <1>1 DEF SacksCovered, Covered
    <2>1. QED
      BY <1>5, <1>6 DEF OneInv, SacksCovered
  <1>8. QED
    BY <1>2, <1>3, <1>7 DEF OneInv

\* The other steps send no SACK and forget nothing.
LEMMA IdleOne ==
    ASSUME OneInv, Quiet, UNCHANGED <<got, exhausted, unacked>>, sacks' \subseteq sacks
    PROVE  OneInv'
  <1>1. StoredGot' /\ Consecutive' /\ ReceivedBefore'
    BY QuietOne
  <1>2. localTsn' = localTsn
    BY DEF Quiet
  <1>3. SacksCovered' /\ NoSilentLoss'
    BY <1>2 DEF OneInv, SacksCovered, Covered, NoSilentLoss
  <1>4. QED
    BY <1>1, <1>3 DEF OneInv

\* The chunks of a new message follow those of the one before.
LEMMA SendOne ==
    ASSUME NEW s, Streams = {s}, Inv, OneInv, NEW n \in FragmentCounts, Send(s, n)
    PROVE  OneInv'
  <1> DEFINE new == {NextChunk(s, n, i) : i \in 1..n}
             len == Len(accepted[s])
  <1>1. /\ Takes(s, n) /\ data' = data \union new /\ DOMAIN unacked' = DOMAIN unacked \union new
        /\ UNCHANGED <<recvVars, sacks, exhausted>>
    BY DEF Send, Takes, NextChunk
  <1>2. UNCHANGED <<inbox, nextRecv, got, delivered>> /\ localTsn' = localTsn + n
    BY <1>1 DEF recvVars, Takes
  <1>3. /\ s \in Streams /\ n \in Nat /\ n > 0 /\ localTsn \in Nat /\ len \in Nat
        /\ nextRecv[s] \in Nat /\ nextRecv[s] <= len
    BY CountsAssumption DEF Inv, TypeInv, Counted, DeliveredIsPrefix
  <1>4. \A c \in new : /\ c.sid = s /\ c.ssn = len /\ Base(c) = localTsn - 1 /\ Len(Whole(c)') = n
    BY <1>1, <1>3, NewChunks
  <1>5. \A c \in Pool : /\ Genuine(c) /\ c.sid = s /\ c.ssn \in Nat /\ c.ssn < len /\ Whole(c)' = Whole(c)
    <2> SUFFICES ASSUME NEW c \in Pool
                 PROVE  Genuine(c) /\ c.sid = s /\ c.ssn \in Nat /\ c.ssn < len /\ Whole(c)' = Whole(c)
      OBVIOUS
    <2>1. Genuine(c) /\ c.sid = s /\ c.ssn \in Nat
      BY DEF Inv, PoolInv, Genuine, ChunkType
    <2>2. QED
      BY <1>1, <1>3, <2>1, GenuineGrows
  <1>6. Len(accepted'[s]) = len + 1
    <2>1. accepted[s] \in Seq(Seq(Payload)) /\ accepted'[s] = Append(accepted[s], Message(s, len + 1, n))
      BY <1>1, <1>3 DEF Takes, Inv, TypeInv
    <2>2. Message(s, len + 1, n) \in Seq(Payload)
      BY <1>3 DEF Message, Payload
    <2> DEFINE w == Message(s, len + 1, n)
    <2> HIDE DEF w
    <2>3. QED
      BY <2>1, <2>2, AppendIs DEF w
  <1> HIDE DEF new
  <1>7. Stored' = Stored /\ Pool' = Pool \union new
    <2>1. Stored' = Stored
      BY <1>2 DEF Stored
    <2>2. QED
      BY <1>1, <2>1 DEF Pool
  <1> HIDE DEF len
  <1>8. StoredGot'
    BY <1>2, <1>7 DEF OneInv, StoredGot
  <1>9. ASSUME NEW c \in Pool', NEW d \in Pool', d.ssn = c.ssn + 1
        PROVE  Base(d) = Base(c) + Len(Whole(c)')
    <2>1. CASE c \in Pool /\ d \in Pool
      BY <1>5, <1>9, <2>1 DEF OneInv, Consecutive
    <2>2. CASE c \in Pool /\ d \in new
      <3>1. c.ssn + 1 = Len(accepted[c.sid])
        BY <1>4, <1>5, <1>9, <2>2 DEF len
      <3>2. Base(c) + Len(Whole(c)) = localTsn - 1
        BY <2>2, <3>1 DEF OneInv, Consecutive
      <3>3. QED
        BY <1>4, <1>5, <2>2, <3>2
    <2>3. CASE c \in new
      BY <1>3, <1>4, <1>5, <1>7, <1>9, <2>3
    <2>4. QED
      BY <1>7, <2>1, <2>2, <2>3
  <1>10. ASSUME NEW c \in Pool', c.ssn + 1 = Len(accepted'[c.sid])
         PROVE  Base(c) + Len(Whole(c)') = localTsn' - 1
    <2>1. c.sid = s /\ c.ssn = len
      BY <1>3, <1>4, <1>5, <1>6, <1>7, <1>10
    <2>2. c \in new
      BY <1>3, <1>5, <1>7, <2>1
    <2>3. QED
      BY <1>2, <1>3, <1>4, <2>2
  <1>11. Consecutive'
    BY <1>9, <1>10 DEF Consecutive
  <1>12. ReceivedBefore'
    <2>1. ASSUME NEW c \in Pool', c.ssn <= nextRecv[c.sid] PROVE InitTsn..Base(c) \subseteq got
      <3>1. CASE c \in Pool
        BY <2>1, <3>1 DEF OneInv, ReceivedBefore
      <3>2. CASE c \in new
        <4>1. nextRecv[s] = Len(accepted[s])
          BY <1>3, <1>4, <2>1, <3>2 DEF len
        <4>2. QED
          BY <1>3, <1>4, <3>2, <4>1 DEF OneInv, ReceivedBefore
      <3>3. QED
        BY <1>7, <3>1, <3>2
    <2>2. nextRecv[s] # Len(accepted'[s])
      BY <1>3, <1>6
    <2>3. QED
      BY <1>2, <2>1, <2>2 DEF ReceivedBefore
  <1>13. SacksCovered'
    BY <1>1, <1>2 DEF OneInv, SacksCovered, Covered
  <1>14. NoSilentLoss'
    <2> SUFFICES ASSUME NEW t \in InitTsn..(localTsn' - 1)
                 PROVE  t \in got \/ t \in exhausted \/ \E c \in DOMAIN unacked' : c.tsn = t
      BY <1>1, <1>2 DEF NoSilentLoss
    <2>1. CASE t < localTsn
      <3>1. t \in InitTsn..(localTsn - 1)
        BY <1>3, <2>1 DEF InitTsn
      <3>2. QED
        BY <1>1, <3>1 DEF OneInv, NoSilentLoss
    <2>2. CASE t >= localTsn
      <3> DEFINE i == (t - localTsn) + 1
      <3>1. i \in 1..n /\ localTsn + i - 1 = t
        BY <1>2, <1>3, <2>2 DEF InitTsn
      <3> HIDE DEF i
      <3>2. NextChunk(s, n, i) \in new
        BY <3>1 DEF new
      <3>3. NextChunk(s, n, i).tsn = t
        BY <3>1 DEF NextChunk, Chunk
      <3>4. QED
        BY <1>1, <3>2, <3>3
    <2>3. QED
      BY <1>3, <2>1, <2>2 DEF InitTsn
  <1>15. QED
    BY <1>8, <1>11, <1>12, <1>13, <1>14 DEF OneInv

\* insert_data_chunk(): what is handed up, and so acknowledged, was received with all
\* that came before it.
LEMMA ReceiveDataOne ==
    ASSUME NEW s, Streams = {s}, Inv, OneInv, NEW c \in data, ReceiveData(c)
    PROVE  OneInv'
  <1> DEFINE box == Filed(inbox[s], c)
             next == nextRecv[s]
             ready == Ready(box, next)
             Before(i) == \A d \in Pool : d.ssn = i => InitTsn..Base(d) \subseteq got'
  <1>1. c.sid = s
    BY FiledBox
  <1>2. /\ UNCHANGED <<accepted, localTsn, unacked, exhausted>> /\ got' = got \union {c.tsn}
        /\ nextRecv' = [nextRecv EXCEPT ![s] = @ + Cardinality(ready)]
        /\ sacks' = sacks \union {Sack(box[n]) : n \in ready}
    BY <1>1 DEF ReceiveData, sendVars
  <1>3. BoxOK(s, box) /\ \A n \in DOMAIN box : box[n].blocks \subseteq Stored \union {c}
    BY <1>1, FiledBox
  <1> HIDE DEF box
  <1>4. /\ s \in Streams /\ next \in Nat /\ nextRecv \in [Streams -> Nat] /\ localTsn \in Nat
        /\ DOMAIN accepted[s] = 1..Len(accepted[s]) /\ Len(accepted[s]) \in Nat
    BY DEF Inv, TypeInv
  <1>5. PICK k \in Nat :
             /\ next <= k
             /\ ready = next..(k - 1)
             /\ Cardinality(ready) = k - next
             /\ \A i \in next..(k - 1) :
                  /\ i \in Nat /\ i \in DOMAIN box /\ IsCompleted(box[i]) /\ FiledOK(s, i, box[i])
                  /\ i + 1 \in DOMAIN accepted[s]
                  /\ Serialize(box[i]) = accepted[s][i + 1]
    BY <1>3, <1>4, ReadyIs DEF Inv
  <1> HIDE DEF ready
  <1>6. nextRecv'[s] = k
    <2>1. nextRecv'[s] = next + (k - next)
      BY <1>2, <1>4, <1>5
    <2>2. next \in Int /\ k \in Int
      BY <1>4, <1>5
    <2> HIDE DEF next
    <2>3. QED
      BY <2>1, <2>2
  <1>7. Stored' \subseteq Stored \union {c} /\ Pool' \subseteq Pool /\ Stored \union {c} \subseteq Pool
    BY ReceivePool DEF Pool
  <1>8. \A d \in Stored \union {c} : d.tsn \in got'
    BY <1>2 DEF OneInv, StoredGot
  <1>9. \A d \in Pool : d.sid = s /\ d.ssn \in Nat /\ Base(d) \in Int
    BY DEF Inv, PoolInv, Genuine, ChunkType, Base
  <1> HIDE DEF next
  \* A whole message has all its TSNs.
  <1>10. ASSUME NEW i \in next..(k - 1), Before(i)
         PROVE  \E d \in Pool : /\ d.ssn = i /\ Whole(d) = accepted[s][i + 1]
                                /\ Len(Whole(d)) \in Nat
                                /\ InitTsn..(Base(d) + Len(Whole(d))) \subseteq got'
    <2> DEFINE m == box[i]
               len == Len(accepted[s][i + 1])
    <2>1. i \in Nat /\ i \in DOMAIN box /\ IsCompleted(m) /\ FiledOK(s, i, m) /\ m.blocks \subseteq Stored \union {c}
      BY <1>3, <1>5
    <2> HIDE DEF m
    <2>2. /\ len \in Nat /\ Scan(m) = m.begin_tsn..(m.begin_tsn + len - 1)
          /\ \A b \in m.blocks : Base(b) = m.begin_tsn - 1
          /\ \E b \in m.blocks : TRUE
      BY <2>1, CompletedIsWhole DEF Inv
    <2>3. PICK d \in m.blocks : TRUE
      BY <2>2
    <2>4. d \in Pool /\ d.sid = s /\ d.ssn = i /\ m.begin_tsn \in Nat
      BY <1>7, <2>1, <2>3 DEF FiledOK, Coherent
    <2>5. Whole(d) = accepted[s][i + 1] /\ Len(Whole(d)) = len
      BY <2>4 DEF Whole
    <2>6. InitTsn..(m.begin_tsn - 1) \subseteq got'
      BY <1>10, <2>2, <2>4
    <2>7. \A t \in m.begin_tsn..(m.begin_tsn + len - 1) : t \in got'
      BY <1>8, <2>1, <2>2 DEF IsCompleted, Has
    <2> HIDE DEF len
    <2>8. InitTsn..((m.begin_tsn - 1) + len) \subseteq got'
      BY <2>2, <2>4, <2>6, <2>7 DEF InitTsn
    <2>9. QED
      BY <2>2, <2>4, <2>5, <2>8
  <1>11. Before(next)
    BY <1>2, <1>4, <1>9 DEF OneInv, ReceivedBefore, next
  <1>12. ASSUME NEW i \in next..(k - 1), Before(i) PROVE Before(i + 1)
    <2> SUFFICES ASSUME NEW d \in Pool, d.ssn = i + 1 PROVE InitTsn..Base(d) \subseteq got'
      OBVIOUS
    <2>1. PICK e \in Pool : /\ e.ssn = i /\ InitTsn..(Base(e) + Len(Whole(e))) \subseteq got'
      BY <1>10, <1>12
    <2>2. QED
      BY <2>1 DEF OneInv, Consecutive
  <1>13. \A i \in next..k : Before(i)
    <2> DEFINE Bad == {i \in Nat : next <= i /\ i <= k /\ ~Before(i)}
    <2> HIDE DEF Before
    <2>1. CASE Bad = {}
      BY <1>4, <1>5, <2>1
    <2>2. CASE Bad # {}
      <3>1. Bad \in SUBSET Nat
        OBVIOUS
      <3> HIDE DEF Bad
      <3>2. PICK i \in Bad : \A j \in Bad : i <= j
        BY <2>2, <3>1, LeastNatural
      <3>3. i \in Nat /\ next <= i /\ i <= k /\ ~Before(i)
        BY <3>2 DEF Bad
      <3>4. i # next
        BY <1>11, <3>3
      <3>5. i - 1 \in Nat /\ i - 1 \in next..(k - 1) /\ next <= i - 1 /\ i - 1 <= k /\ (i - 1) + 1 = i /\ ~(i <= i - 1)
        BY <1>4, <1>5, <3>3, <3>4
      <3>6. Before(i - 1)
        BY <3>2, <3>5 DEF Bad
      <3>7. Before(i)
        BY <1>12, <3>5, <3>6
      <3>8. QED
        BY <3>3, <3>7
    <2>3. QED
      BY <2>1, <2>2
  <1>14. StoredGot'
    BY <1>7, <1>8 DEF StoredGot
  <1>15. Consecutive'
    BY <1>2, <1>7 DEF OneInv, Consecutive, Whole
  <1>16. ASSUME NEW d \in Pool, d.ssn <= k PROVE InitTsn..Base(d) \subseteq got'
    <2>1. CASE d.ssn < next
      BY <1>2, <1>4, <1>9, <2>1 DEF OneInv, ReceivedBefore, next
    <2>2. CASE d.ssn >= next
      <3>1. d.ssn \in next..k
        BY <1>4, <1>9, <1>16, <2>2
      <3>2. QED
        BY <1>13, <3>1
    <2>3. QED
      BY <1>4, <1>9, <2>1, <2>2
  <1>17. ASSUME k = Len(accepted[s]) PROVE InitTsn..(localTsn - 1) \subseteq got'
    <2>1. CASE k = next
      BY <1>2, <1>4, <1>17, <2>1 DEF OneInv, ReceivedBefore, next
    <2>2. CASE k # next
      <3>1. k - 1 \in next..(k - 1) /\ k - 1 \in next..k /\ (k - 1) + 1 = k
        BY <1>4, <1>5, <2>2
      <3>2. PICK d \in Pool : /\ d.ssn = k - 1 /\ InitTsn..(Base(d) + Len(Whole(d))) \subseteq got'
        BY <1>10, <1>13, <3>1
      <3>3. d.ssn + 1 = Len(accepted[d.sid])
        BY <1>9, <1>17, <3>1, <3>2
      <3>4. QED
        BY <3>2, <3>3 DEF OneInv, Consecutive
    <2>3. QED
      BY <2>1, <2>2
  <1>18. ReceivedBefore'
    BY <1>2, <1>6, <1>7, <1>9, <1>16, <1>17 DEF ReceivedBefore
  <1>19. SacksCovered'
    <2>1. ASSUME NEW q \in sacks PROVE Covered(q, got')
      BY <1>2 DEF OneInv, SacksCovered, Covered
    <2>2. ASSUME NEW i \in next..(k - 1) PROVE Covered(Sack(box[i]), got')
      <3> DEFINE m == box[i]
      <3>1. FiledOK(s, i, m) /\ m.blocks \subseteq Stored \union {c} /\ i \in next..k
        BY <1>3, <1>4, <1>5
      <3> HIDE DEF m
      <3>2. \A b \in m.blocks : b \in Pool /\ b.ssn = i /\ b.tsn \in got'
        BY <1>7, <1>8, <3>1 DEF FiledOK, Coherent
      <3>3. \A b \in m.blocks : InitTsn..Base(b) \subseteq got'
        BY <1>13, <3>1, <3>2
      <3>4. Covered(Sack(m), got')
        BY <3>1, <3>2, <3>3, SackCovered
      <3>5. QED
        BY <3>4 DEF m
    <2>3. \A q \in sacks' : Covered(q, got')
      BY <1>2, <1>5, <2>1, <2>2
    <2>4. QED
      BY <2>3 DEF SacksCovered, Covered
  <1>20. NoSilentLoss'
    BY <1>2 DEF OneInv, NoSilentLoss
  <1>21. QED
    BY <1>14, <1>15, <1>18, <1>19, <1>20 DEF OneInv

\* Nothing is sent initially.
LEMMA InitOne == Init => OneInv
<1> SUFFICES ASSUME Init PROVE OneInv
  OBVIOUS
<1>1. data = {} /\ DOMAIN unacked = {} /\ sacks = {} /\ localTsn = InitTsn
      /\ \A s \in Streams : DOMAIN inbox[s] = {}
  BY DEF Init
<1>2. Stored = {} /\ Pool = {}
  BY <1>1, StoredIs DEF Pool
<1>3. InitTsn..(localTsn - 1) = {}
  BY <1>1 DEF InitTsn
<1>4. QED
  BY <1>1, <1>2, <1>3 DEF OneInv, StoredGot, Consecutive, ReceivedBefore, SacksCovered, NoSilentLoss

\* Every step keeps the invariant of one stream.
LEMMA NextOne ==
    ASSUME NEW s, Streams = {s}
    PROVE  Inv /\ OneInv /\ [Next]_vars => OneInv'
<1> SUFFICES ASSUME Inv, OneInv, [Next]_vars PROVE OneInv'
  OBVIOUS
<1>1. CASE \E t \in Streams, n \in FragmentCounts : Send(t, n)
  BY <1>1, SendOne
<1>2. CASE DeliverData
  BY <1>2, ReceiveDataOne DEF DeliverData
<1>3. CASE DeliverSack
  BY <1>3, ReceiveSackOne DEF DeliverSack
<1>4. CASE ReceiveError
  <2>1. UNCHANGED <<got, exhausted, unacked, sacks>>
    BY <1>4 DEF ReceiveError, sendVars
  <2>2. QED
    BY <1>4, <2>1, ReceiveErrorQuiet, IdleOne
<1>5. CASE SenderTimer
  BY <1>5, SenderTimerOne
<1>6. CASE ReceiverTimer
  BY <1>6, ReceiverTimerOne
<1>7. CASE Lose
  <2>1. UNCHANGED <<got, exhausted, unacked>> /\ sacks' \subseteq sacks
    BY <1>7 DEF Lose, sendVars, recvVars
  <2>2. QED
    BY <1>7, <2>1, LoseQuiet, IdleOne
<1>8. CASE NextSecond
  <2>1. UNCHANGED <<got, exhausted, unacked, sacks>>
    BY <1>8 DEF NextSecond, sendVars, netVars
  <2>2. QED
    BY <1>8, <2>1, NextSecondQuiet, IdleOne
<1>9. CASE UNCHANGED vars
  BY <1>9, IdleOne, InboxAlone DEF vars, sendVars, recvVars, netVars, Pool
<1>10. QED
  BY <1>1, <1>2, <1>3, <1>4, <1>5, <1>6, <1>7, <1>8, <1>9 DEF Next

\* On an association with one stream, a chunk leaves sent_messages_ only when B has it or
\* when it was resent as often as resend_messages() allows: process_sack() never takes a
\* cumulative TSN for more than what B has received.
THEOREM NoSilentLossAlways ==
    ASSUME NEW s, Streams = {s}
    PROVE  Spec => []NoSilentLoss
<1>1. Spec => []Inv
  BY InitInv, NextInv, PTL DEF Spec
<1>2. Inv /\ OneInv /\ [Next]_vars => OneInv'
  BY NextOne
<1>3. Spec => []OneInv
  BY <1>1, <1>2, InitOne, PTL DEF Spec
<1>4. OneInv => NoSilentLoss
  BY DEF OneInv
<1>5. QED
  BY <1>3, <1>4, PTL

-----------------------------------------------------------------------------
(***************************************************************************)
(* The association (module Sctp).  The argument counts the packets of each *)
(* type that are on their way.                                             *)
(***************************************************************************)
CONSTANTS MaxInits, MaxHeartbeats, MayClose, MayCloseStream

Assoc == INSTANCE Sctp

\* Module Sctp uses the same standard operators.
LEMMA SameCardinality == ASSUME NEW S PROVE Assoc!Cardinality(S) = Cardinality(S)
  BY DEF Assoc!Cardinality, Cardinality

\* A sequence, of whatever.
IsSeq(s) == \E S : s \in Seq(S)

\* The places of the chunks of a type in s, and how many there are.
Places(s, type) == {i \in 1..Len(s) : s[i].type = type}
Count(s, type) == Cardinality(Places(s, type))

\* The number of chunks of a type is a natural number.
LEMMA CountIsNat ==
    ASSUME NEW s, IsSeq(s), NEW ty
    PROVE  Count(s, ty) \in Nat /\ IsFiniteSet(Places(s, ty))
  <1>1. Len(s) \in Nat
    BY DEF IsSeq
  <1>2. IsFiniteSet(1..Len(s))
    BY <1>1, FS_Interval
  <1>3. Places(s, ty) \subseteq 1..Len(s)
    BY DEF Places
  <1>4. IsFiniteSet(Places(s, ty))
    BY <1>2, <1>3, FS_Subset
  <1> QED
    BY <1>4, FS_CardinalityType DEF Count

\* It is not zero if there is such a chunk.
LEMMA CountZero ==
    ASSUME NEW s, IsSeq(s), NEW ty, NEW i \in 1..Len(s), s[i].type = ty
    PROVE  Count(s, ty) > 0
  <1>1. i \in Places(s, ty)
    BY DEF Places
  <1>2. Places(s, ty) # {}
    BY <1>1
  <1>3. Count(s, ty) # 0
    BY <1>2, CountIsNat, FS_EmptySet DEF Count
  <1> QED
    BY <1>3, CountIsNat

\* A shift of places by d
Shifted(A, B, d) ==
    /\ A \subseteq Nat /\ d \in Int
    /\ \A i \in A : i + d \in B
    /\ \A j \in B : j \in Int /\ j - d \in A

\* Sets that are shifts of one another are of equal size.
LEMMA ShiftCount ==
    ASSUME NEW A, NEW B, IsFiniteSet(A), NEW d, Shifted(A, B, d)
    PROVE  IsFiniteSet(B) /\ Cardinality(B) = Cardinality(A)
  <1> DEFINE f == [i \in A |-> i + d]
  <1>1. f \in Bijection(A, B)
    <2>1. f \in [A -> B]
      BY DEF Shifted
    <2>2. \A a, b \in A : f[a] = f[b] => a = b
      BY DEF Shifted
    <2>3. \A j \in B : \E i \in A : f[i] = j
      <3> SUFFICES ASSUME NEW j \in B PROVE \E i \in A : f[i] = j
        OBVIOUS
      <3>1. j - d \in A /\ (j - d) + d = j
        BY DEF Shifted
      <3> QED
        BY <3>1
    <2> HIDE DEF f
    <2>4. f \in Injection(A, B)
      BY <2>1, <2>2 DEF Injection, IsInjective
    <2>5. f \in Surjection(A, B)
      BY <2>1, <2>3 DEF Surjection
    <2> QED
      BY <2>4, <2>5 DEF Bijection
  <1> QED
    BY <1>1, FS_Bijection DEF ExistsBijection

\* What Tail leaves.
LEMMA TailIs ==
    ASSUME NEW s, IsSeq(s), s # <<>>
    PROVE  /\ IsSeq(Tail(s)) /\ Len(s) \in Nat \ {0} /\ Len(Tail(s)) = Len(s) - 1
           /\ Head(s) = s[1] /\ \A i \in 1..(Len(s) - 1) : Tail(s)[i] = s[i + 1]
  <1>1. PICK S : s \in Seq(S)
    BY DEF IsSeq
  <1>2. Tail(s) \in Seq(S)
    BY <1>1
  <1> QED
    BY <1>1, <1>2 DEF IsSeq

\* What joining two sequences gives.
LEMMA JoinIs ==
    ASSUME NEW s, IsSeq(s), NEW t, IsSeq(t)
    PROVE  /\ IsSeq(s \o t) /\ Len(s) \in Nat /\ Len(t) \in Nat /\ Len(s \o t) = Len(s) + Len(t)
           /\ \A i \in 1..(Len(s) + Len(t)) :
                (s \o t)[i] = IF i <= Len(s) THEN s[i] ELSE t[i - Len(s)]
  <1>1. PICK S : s \in Seq(S)
    BY DEF IsSeq
  <1>2. PICK U : t \in Seq(U)
    BY DEF IsSeq
  <1> DEFINE V == S \union U
  <1>3. s \in Seq(V) /\ t \in Seq(V)
    BY <1>1, <1>2
  <1> HIDE DEF V
  <1>4. /\ s \o t \in Seq(V) /\ Len(s \o t) = Len(s) + Len(t)
        /\ \A i \in 1..(Len(s) + Len(t)) :
             (s \o t)[i] = IF i <= Len(s) THEN s[i] ELSE t[i - Len(s)]
    BY <1>3, ConcatProperties
  <1> QED
    BY <1>3, <1>4 DEF IsSeq

\* Taking the first chunk away takes one of its type away.
LEMMA CountTail ==
    ASSUME NEW s, IsSeq(s), s # <<>>, NEW ty
    PROVE  Count(Tail(s), ty) = Count(s, ty) - (IF Head(s).type = ty THEN 1 ELSE 0)
  <1> DEFINE P == Places(s, ty)
             A == P \ {1}
             B == Places(Tail(s), ty)
             l == Len(s)
             u == Tail(s)
  <1>1. /\ l \in Nat \ {0} /\ IsSeq(u) /\ Len(u) = l - 1
        /\ Head(s) = s[1] /\ \A i \in 1..(l - 1) : u[i] = s[i + 1]
    BY TailIs
  <1>2. IsFiniteSet(P) /\ Cardinality(P) \in Nat
    BY CountIsNat DEF Count
  <1>3. IsFiniteSet(A)
    BY <1>2, FS_Subset
  <1>4. Cardinality(A) = Cardinality(P) - (IF 1 \in P THEN 1 ELSE 0)
    BY <1>2, FS_RemoveElement
  <1>5. \A i : i \in P <=> i \in 1..l /\ s[i].type = ty
    BY DEF Places
  <1>6. \A i : i \in B <=> i \in 1..(l - 1) /\ u[i].type = ty
    BY <1>1 DEF Places
  <1> HIDE DEF P, B, l, u
  <1>7. 1 \in P <=> Head(s).type = ty
    BY <1>1, <1>5
  <1>8. A \subseteq Nat
    BY <1>1, <1>5
  <1>9. \A i \in A : i + (-1) \in B
    <2> SUFFICES ASSUME NEW i \in A PROVE i + (-1) \in B
      OBVIOUS
    <2>1. i \in 1..l /\ i # 1 /\ s[i].type = ty
      BY <1>5
    <2>2. i + (-1) \in 1..(l - 1) /\ (i + (-1)) + 1 = i
      BY <1>1, <2>1
    <2> QED
      BY <1>1, <1>6, <2>1, <2>2
  <1>10. \A j \in B : j \in Int /\ j - (-1) \in A
    <2> SUFFICES ASSUME NEW j \in B PROVE j \in Int /\ j - (-1) \in A
      OBVIOUS
    <2>1. j \in 1..(l - 1) /\ u[j].type = ty
      BY <1>6
    <2>2. j \in Int /\ j - (-1) = j + 1 /\ j + 1 \in 1..l /\ j + 1 # 1
      BY <1>1, <2>1
    <2> QED
      BY <1>1, <1>5, <2>1, <2>2
  <1> HIDE DEF A
  <1>11. Cardinality(B) = Cardinality(A)
    <2>1. Shifted(A, B, -1)
      BY <1>8, <1>9, <1>10 DEF Shifted
    <2> QED
      BY <1>3, <2>1, ShiftCount
  <1> QED
    BY <1>4, <1>7, <1>11 DEF Count, P, B, u

\* The chunks of two sequences that are joined add up.
LEMMA CountJoin ==
    ASSUME NEW s, IsSeq(s), NEW t, IsSeq(t), NEW ty
    PROVE  Count(s \o t, ty) = Count(s, ty) + Count(t, ty)
  <1> DEFINE A == Places(s, ty)
             B == Places(t, ty)
             l == Len(s)
             n == Len(t)
             w == s \o t
             P == Places(w, ty)
             M == P \ A
  <1>1. /\ IsSeq(w) /\ l \in Nat /\ n \in Nat /\ Len(w) = l + n
        /\ \A i \in 1..(l + n) : w[i] = IF i <= l THEN s[i] ELSE t[i - l]
    BY JoinIs
  <1> HIDE DEF w
  <1>2. IsFiniteSet(A) /\ IsFiniteSet(B)
    BY CountIsNat
  <1>3. IsFiniteSet(P)
    BY <1>1, CountIsNat
  <1>4. \A i : i \in A <=> i \in 1..l /\ s[i].type = ty
    BY DEF Places
  <1>5. \A i : i \in B <=> i \in 1..n /\ t[i].type = ty
    BY DEF Places
  <1>6. \A i : i \in P <=> i \in 1..(l + n) /\ w[i].type = ty
    BY <1>1 DEF Places
  <1> HIDE DEF A, B, P, l, n
  <1>7. A \subseteq P
    <2> SUFFICES ASSUME NEW i \in A PROVE i \in P
      OBVIOUS
    <2>1. i \in 1..l /\ s[i].type = ty
      BY <1>4
    <2>2. i \in 1..(l + n) /\ i <= l
      BY <1>1, <2>1
    <2> QED
      BY <1>1, <1>6, <2>1, <2>2
  <1>8. B \subseteq Nat
    BY <1>1, <1>5
  <1>9. \A i \in B : i + l \in M
    <2> SUFFICES ASSUME NEW i \in B PROVE i + l \in M
      OBVIOUS
    <2>1. i \in 1..n /\ t[i].type = ty
      BY <1>5
    <2>2. i + l \in 1..(l + n) /\ ~(i + l <= l) /\ (i + l) - l = i /\ i + l \notin 1..l
      BY <1>1, <2>1
    <2> QED
      BY <1>1, <1>4, <1>6, <2>1, <2>2
  <1>10. \A j \in M : j \in Int /\ j - l \in B
    <2> SUFFICES ASSUME NEW j \in M PROVE j \in Int /\ j - l \in B
      OBVIOUS
    <2>1. j \in 1..(l + n) /\ w[j].type = ty /\ j \notin A
      BY <1>6
    <2>2. ASSUME j <= l PROVE FALSE
      <3>1. j \in 1..l /\ w[j] = s[j]
        BY <1>1, <2>1, <2>2
      <3> QED
        BY <1>4, <2>1, <3>1
    <2>3. j \in Int /\ j - l \in 1..n /\ w[j] = t[j - l]
      BY <1>1, <2>1, <2>2
    <2> QED
      BY <1>5, <2>1, <2>3
  <1>11. IsFiniteSet(M) /\ Cardinality(M) = Cardinality(B)
    <2> HIDE DEF M
    <2>1. Shifted(B, M, l)
      BY <1>1, <1>8, <1>9, <1>10 DEF Shifted
    <2> QED
      BY <1>2, <2>1, ShiftCount
  <1>12. P = A \union M /\ A \cap M = {}
    BY <1>7
  <1>13. Cardinality(A \union M) = Cardinality(A) + Cardinality(M)
    <2> HIDE DEF M
    <2>1. Cardinality(A \union M) = Cardinality(A) + Cardinality(M) - Cardinality(A \cap M)
      BY <1>2, <1>11, FS_Union
    <2>2. Cardinality(A \cap M) = 0
      BY <1>12, FS_EmptySet
    <2>3. Cardinality(A) \in Nat /\ Cardinality(M) \in Nat
      BY <1>2, <1>11, FS_CardinalityType
    <2> QED
      BY <2>1, <2>2, <2>3
  <1> QED
    BY <1>11, <1>12, <1>13 DEF Count, A, B, P, w

\* No packet brings nothing.
LEMMA CountNone ==
    ASSUME NEW ty
    PROVE  IsSeq(<<>>) /\ Count(<<>>, ty) = 0
  <1>1. IsSeq(<<>>)
    <2>1. <<>> \in Seq({})
      OBVIOUS
    <2> QED
      BY <2>1 DEF IsSeq
  <1>2. Places(<<>>, ty) = {}
    BY DEF Places
  <1> QED
    BY <1>1, <1>2, FS_EmptySet DEF Count

\* One packet brings one chunk, of its type.
LEMMA CountOne ==
    ASSUME NEW c, NEW ty
    PROVE  IsSeq(<<c>>) /\ Count(<<c>>, ty) = IF c.type = ty THEN 1 ELSE 0
  <1>1. IsSeq(<<c>>)
    <2>1. <<c>> \in Seq({c})
      OBVIOUS
    <2> QED
      BY <2>1 DEF IsSeq
  <1>2. CASE c.type = ty
    <2>1. Places(<<c>>, ty) = {1}
      BY <1>2 DEF Places
    <2> QED
      BY <1>1, <1>2, <2>1, FS_Singleton DEF Count
  <1>3. CASE c.type # ty
    <2>1. Places(<<c>>, ty) = {}
      BY <1>3 DEF Places
    <2> QED
      BY <1>1, <1>3, <2>1, FS_EmptySet DEF Count
  <1> QED
    BY <1>2, <1>3

\* What sctp::close() sends is a DATA chunk for every stream, and nothing else.
LEMMA CountClose ==
    ASSUME NEW e, IsFiniteSet(DOMAIN streams[e]), NEW ty, ty # "data" \/ DOMAIN streams[e] = {}
    PROVE  IsSeq(Assoc!CloseChunks(e)) /\ Count(Assoc!CloseChunks(e), ty) = 0
  <1> DEFINE n == Assoc!Cardinality(DOMAIN streams[e])
             f == Assoc!CloseChunks(e)
  <1>1. n \in Nat /\ (DOMAIN streams[e] = {} => n = 0)
    BY SameCardinality, FS_CardinalityType, FS_EmptySet
  <1>2. PICK g : f = [i \in 1..n |-> g[i]] /\ \A i \in 1..n : g[i].type = "data"
    <2> DEFINE sids == DOMAIN streams[e]
               nth(i) == CHOOSE s \in sids : Assoc!Cardinality({u \in sids : u <= s}) = i
               h == [i \in 1..n |-> Assoc!Data(nth(i), streams[e][nth(i)].send, "close")]
    <2>1. f = h
      BY DEF Assoc!CloseChunks
    <2>2. \A i \in 1..n : h[i].type = "data"
      BY DEF Assoc!Data
    <2> HIDE DEF n
    <2>3. h = [i \in 1..n |-> h[i]]
      OBVIOUS
    <2> HIDE DEF h
    <2> QED
      BY <2>1, <2>2, <2>3
  <1> HIDE DEF n, f
  <1>3. f \in Seq({g[i] : i \in 1..n}) /\ Len(f) = n
    BY <1>1, <1>2
  <1>4. Places(f, ty) = {}
    BY <1>1, <1>2, <1>3 DEF Places
  <1> QED
    BY <1>3, <1>4, FS_EmptySet DEF IsSeq, Count, f

-----------------------------------------------------------------------------
\* The chunks of a type on their way to e.
N(e, ty) == Count(net[e], ty)
\* The types that are counted.
Types == {"init", "init_ack", "cookie_echo", "cookie_ack", "data"}

\* What the counting needs to know of the types of the variables.
Shape ==
    /\ DOMAIN state = Assoc!Endpoints /\ DOMAIN live = Assoc!Endpoints /\ DOMAIN streams = Assoc!Endpoints
    /\ DOMAIN opened = Assoc!Endpoints /\ DOMAIN ups = Assoc!Endpoints /\ DOMAIN net = Assoc!Endpoints
    /\ inits \in Nat
    /\ \A e \in Assoc!Endpoints :
         ups[e] \in Nat /\ IsSeq(net[e]) /\ IsFiniteSet(DOMAIN streams[e])

\* The handshake is the client's: only the server is sent INIT and COOKIE ECHO, only
\* the client INIT ACK and COOKIE ACK.
Sides ==
    /\ N("C", "init") = 0 /\ N("C", "cookie_echo") = 0
    /\ N("S", "init_ack") = 0 /\ N("S", "cookie_ack") = 0

\* Every COOKIE ACK, handled or on its way, answers a COOKIE ECHO that the server has
\* reported as up.
EchoesAcked == ups["C"] + N("C", "cookie_ack") <= ups["S"]

\* Nothing but at most one INIT is on its way, there are no streams and no channel is
\* reported open.
NoTraffic ==
    /\ N("C", "init_ack") = 0 /\ N("C", "cookie_ack") = 0 /\ N("S", "cookie_echo") = 0
    /\ N("S", "init") <= 1
    /\ beating = {}
    /\ \A e \in Assoc!Endpoints :
         N(e, "data") = 0 /\ opened[e] = {} /\ DOMAIN streams[e] = {} /\ state[e] # "connected"

\* The client has not connected yet.
Before == live["C"] /\ state["C"] = "none"

\* Until the server has handled the first INIT, all is quiet: clearing streams_ in connect()
\* and in on_init() drops nothing.
Early == (inits = 0 /\ (Before \/ N("S", "init") > 0)) => NoTraffic /\ (Before => N("S", "init") = 0)

\* A channel reported open has its stream, as long as no INIT was sent again.
Kept == inits = 0 => \A e \in Assoc!Endpoints : live[e] => opened[e] \subseteq DOMAIN streams[e]

\* One handshake is one packet that goes back and forth and ends as a call of the connected
\* handler: of the server, and of the client.  A second one takes an INIT sent again.
Token == IF Before THEN 1 ELSE 0
HandshakeS == N("S", "init") + N("C", "init_ack") + N("S", "cookie_echo") + ups["S"] + Token
HandshakeC ==
    N("S", "init") + N("C", "init_ack") + N("S", "cookie_echo") + N("C", "cookie_ack") + ups["C"] + Token
Once == inits = 0 => HandshakeS <= 1 /\ HandshakeC <= 1

\* The inductive invariant of the association.
AssocInv == Shape /\ Sides /\ EchoesAcked /\ Early /\ Kept /\ Once

\* There are two endpoints, each the peer of the other.
LEMMA PeerIs ==
    ASSUME NEW e \in Assoc!Endpoints
    PROVE  Assoc!Peer(e) \in Assoc!Endpoints /\ Assoc!Peer(e) # e /\ (e = "C" <=> Assoc!Peer(e) = "S")
  BY DEF Assoc!Endpoints, Assoc!Peer

\* What is on its way is a natural number of chunks of each type.
LEMMA CountsAreNat ==
    ASSUME Shape, NEW e \in Assoc!Endpoints, NEW ty
    PROVE  N(e, ty) \in Nat
  BY CountIsNat DEF Shape, N

\* A chunk that an endpoint handles was on its way to it.
LEMMA GotCount ==
    ASSUME Shape, NEW e \in Assoc!Endpoints, NEW ty, Assoc!Got(e, ty)
    PROVE  N(e, ty) > 0 /\ net[e] # <<>> /\ live[e] /\ Head(net[e]).type = ty
  <1>1. net[e] # <<>> /\ live[e] /\ Head(net[e]).type = ty /\ IsSeq(net[e])
    BY DEF Assoc!Got, Shape
  <1>2. Len(net[e]) \in Nat \ {0} /\ Head(net[e]) = net[e][1]
    BY <1>1, TailIs
  <1>3. 1 \in 1..Len(net[e]) /\ net[e][1].type = ty
    BY <1>1, <1>2
  <1> QED
    BY <1>1, <1>3, CountZero DEF N

\* What out brings: so many of each type.
Brings(out, k) == IsSeq(out) /\ \A ty \in Types : Count(out, ty) = k[ty]

\* Whether the next packet for e is of a type.
Taken(e, ty) == IF Head(net[e]).type = ty THEN 1 ELSE 0

\* A send adds what it brings to what is on its way to the peer.
LEMMA SendNet ==
    ASSUME Shape, NEW e \in Assoc!Endpoints, NEW out, NEW k, Brings(out, k), Assoc!Send(e, out)
    PROVE  /\ DOMAIN net' = Assoc!Endpoints /\ \A x \in Assoc!Endpoints : IsSeq(net'[x])
           /\ \A ty \in Types : N(e, ty)' = N(e, ty) /\ N(Assoc!Peer(e), ty)' = N(Assoc!Peer(e), ty) + k[ty]
  <1>1. Assoc!Peer(e) \in Assoc!Endpoints /\ Assoc!Peer(e) # e /\ DOMAIN net = Assoc!Endpoints
        /\ \A x \in Assoc!Endpoints : IsSeq(net[x])
    BY PeerIs DEF Shape
  <1> DEFINE new == net[Assoc!Peer(e)] \o out
  <1>2. net' = [net EXCEPT ![Assoc!Peer(e)] = new]
    BY DEF Assoc!Send
  <1>3. IsSeq(new) /\ \A ty \in Types : Count(new, ty) = Count(net[Assoc!Peer(e)], ty) + k[ty]
    BY <1>1, JoinIs, CountJoin DEF Brings
  <1> HIDE DEF new
  <1>4. DOMAIN net' = Assoc!Endpoints /\ net'[e] = net[e] /\ net'[Assoc!Peer(e)] = new
        /\ \A x \in Assoc!Endpoints : net'[x] = IF x = Assoc!Peer(e) THEN new ELSE net[x]
    BY <1>1, <1>2
  <1>5. \A x \in Assoc!Endpoints : IsSeq(net'[x])
    BY <1>1, <1>3, <1>4
  <1> QED
    BY <1>3, <1>4, <1>5 DEF N

\* An answer also takes the packet that it answers.
LEMMA ReplyNet ==
    ASSUME Shape, NEW e \in Assoc!Endpoints, net[e] # <<>>, NEW out, NEW k, Brings(out, k), Assoc!Reply(e, out)
    PROVE  /\ DOMAIN net' = Assoc!Endpoints /\ \A x \in Assoc!Endpoints : IsSeq(net'[x])
           /\ \A ty \in Types : /\ N(e, ty)' = N(e, ty) - Taken(e, ty)
                                /\ N(Assoc!Peer(e), ty)' = N(Assoc!Peer(e), ty) + k[ty]
  <1>1. Assoc!Peer(e) \in Assoc!Endpoints /\ Assoc!Peer(e) # e /\ DOMAIN net = Assoc!Endpoints
        /\ \A x \in Assoc!Endpoints : IsSeq(net[x])
    BY PeerIs DEF Shape
  <1> DEFINE new == net[Assoc!Peer(e)] \o out
             rest == Tail(net[e])
  <1>2. net' = [net EXCEPT ![e] = rest, ![Assoc!Peer(e)] = new]
    BY <1>1 DEF Assoc!Reply
  <1>3. IsSeq(new) /\ \A ty \in Types : Count(new, ty) = Count(net[Assoc!Peer(e)], ty) + k[ty]
    BY <1>1, JoinIs, CountJoin DEF Brings
  <1>4. IsSeq(rest) /\ \A ty \in Types : Count(rest, ty) = Count(net[e], ty) - Taken(e, ty)
    BY <1>1, TailIs, CountTail DEF Taken
  <1> HIDE DEF new, rest
  <1>5. DOMAIN net' = Assoc!Endpoints /\ net'[e] = rest /\ net'[Assoc!Peer(e)] = new
    BY <1>1, <1>2
  <1>6. \A x \in Assoc!Endpoints : IsSeq(net'[x])
    BY <1>1, <1>3, <1>4, <1>5 DEF Assoc!Endpoints, Assoc!Peer
  <1> QED
    BY <1>3, <1>4, <1>5, <1>6 DEF N

\* Nothing of any type; one chunk of a type.
Zero == [ty \in Types |-> 0]
Only(type) == [ty \in Types |-> IF ty = type THEN 1 ELSE 0]

\* Sending no packet brings nothing.
LEMMA BringsNone == Brings(<<>>, Zero)
  BY CountNone DEF Brings, Zero

\* Sending one packet brings one chunk of its type.
LEMMA BringsOne ==
    ASSUME NEW c
    PROVE  Brings(<<c>>, Only(c.type))
  BY CountOne DEF Brings, Only

\* While the handshake has not begun, or its INIT is on the way
Starting == inits = 0 /\ (Before \/ N("S", "init") > 0)

\* The numbers of packets of each type on their way to x: they are numbers, a step
\* changes them by so much, a step adds none.
Nums(x) ==
    /\ N(x, "init") \in Nat /\ N(x, "init_ack") \in Nat /\ N(x, "cookie_echo") \in Nat
    /\ N(x, "cookie_ack") \in Nat /\ N(x, "data") \in Nat
Delta(x, init, init_ack, cookie_echo, cookie_ack, payload) ==
    /\ N(x, "init")' = N(x, "init") + init
    /\ N(x, "init_ack")' = N(x, "init_ack") + init_ack
    /\ N(x, "cookie_echo")' = N(x, "cookie_echo") + cookie_echo
    /\ N(x, "cookie_ack")' = N(x, "cookie_ack") + cookie_ack
    /\ N(x, "data")' = N(x, "data") + payload
NoMore(x) ==
    /\ N(x, "init")' <= N(x, "init") /\ N(x, "init_ack")' <= N(x, "init_ack")
    /\ N(x, "cookie_echo")' <= N(x, "cookie_echo")
    /\ N(x, "cookie_ack")' <= N(x, "cookie_ack") /\ N(x, "data")' <= N(x, "data")

\* The numbers of packets are natural numbers, before a step
LEMMA NumsAreNat ==
    ASSUME Shape
    PROVE  Nums("C") /\ Nums("S")
  <1>1. "C" \in Assoc!Endpoints /\ "S" \in Assoc!Endpoints
    BY DEF Assoc!Endpoints
  <1> QED
    BY <1>1, CountsAreNat DEF Nums

\* and after it.
LEMMA NumsStayNat ==
    ASSUME Shape'
    PROVE  Nums("C")' /\ Nums("S")'
  <1>1. IsSeq(net'["C"]) /\ IsSeq(net'["S"])
    BY DEF Shape, Assoc!Endpoints
  <1> QED
    BY <1>1, CountIsNat DEF Nums, N

\* The invariant in numbers, for both endpoints
LEMMA InvFacts ==
    ASSUME AssocInv
    PROVE  /\ Shape /\ Nums("C") /\ Nums("S") /\ ups["C"] \in Nat /\ ups["S"] \in Nat
           /\ Sides /\ EchoesAcked /\ Early /\ Kept
           /\ Starting => NoTraffic /\ (Before => N("S", "init") = 0)
  <1>1. Shape
    BY DEF AssocInv
  <1>2. ups["C"] \in Nat /\ ups["S"] \in Nat
    BY <1>1 DEF Shape, Assoc!Endpoints
  <1> QED
    BY <1>1, <1>2, NumsAreNat DEF AssocInv, Early, Starting

\* Something that only comes later has come: the handshake is past its INIT.
LEMMA LaterStep ==
    ASSUME ~Starting, inits' = inits, Before' => Before,
           N("S", "init") \in Nat, N("S", "init")' \in Nat, N("S", "init")' <= N("S", "init")
    PROVE  Early'
  BY DEF Early, Starting

\* No packet of the handshake is added for x.
NoHandshake(x) ==
    /\ N(x, "init")' <= N(x, "init") /\ N(x, "init_ack")' <= N(x, "init_ack")
    /\ N(x, "cookie_echo")' <= N(x, "cookie_echo") /\ N(x, "cookie_ack")' <= N(x, "cookie_ack")

\* A handshake that gains no packet and reports nothing is still one handshake.
LEMMA OnceKept ==
    ASSUME AssocInv, Nums("C")', Nums("S")', NoHandshake("C"), NoHandshake("S"), UNCHANGED <<ups, inits>>,
           Before' => Before
    PROVE  Once'
  <1>1. Nums("C") /\ Nums("S") /\ ups["C"] \in Nat /\ ups["S"] \in Nat /\ Once
    BY NumsAreNat DEF AssocInv, Shape, Assoc!Endpoints
  <1>2. Token' \in {0, 1} /\ Token \in {0, 1} /\ Token' <= Token
    BY DEF Token
  <1>3. HandshakeS' <= HandshakeS /\ HandshakeS \in Nat /\ HandshakeS' \in Nat
    BY <1>1, <1>2 DEF HandshakeS, NoHandshake, Nums
  <1>4. HandshakeC' <= HandshakeC /\ HandshakeC \in Nat /\ HandshakeC' \in Nat
    BY <1>1, <1>2 DEF HandshakeC, NoHandshake, Nums
  <1> QED
    BY <1>1, <1>3, <1>4 DEF Once

\* A packet is taken and nothing of the handshake or of a stream is sent.
LEMMA PlainReply ==
    ASSUME AssocInv, NEW e \in Assoc!Endpoints, net[e] # <<>>, NEW out, Brings(out, Zero), Assoc!Reply(e, out),
           UNCHANGED <<state, live, streams, opened, ups, inits, beating>>
    PROVE  AssocInv'
  <1>1. Shape /\ Nums("C") /\ Nums("S") /\ ups["C"] \in Nat /\ ups["S"] \in Nat
        /\ Sides /\ EchoesAcked /\ Early /\ Kept
    BY InvFacts
  <1>2. /\ DOMAIN net' = Assoc!Endpoints /\ \A x \in Assoc!Endpoints : IsSeq(net'[x])
        /\ \A ty \in Types : /\ N(e, ty)' = N(e, ty) - Taken(e, ty)
                             /\ N(Assoc!Peer(e), ty)' = N(Assoc!Peer(e), ty) + Zero[ty]
    BY <1>1, ReplyNet
  <1>3. Shape'
    BY <1>1, <1>2 DEF Shape
  <1>4. Nums("C")' /\ Nums("S")'
    BY <1>3, NumsStayNat
  <1>5. NoMore(e) /\ NoMore(Assoc!Peer(e))
    <2>1. \A ty \in Types : Taken(e, ty) \in Nat /\ Zero[ty] = 0
      BY DEF Taken, Zero
    <2>2. \A ty \in Types : N(e, ty)' <= N(e, ty)
      BY <1>1, <1>2, <2>1, CountsAreNat
    <2>3. \A ty \in Types : N(Assoc!Peer(e), ty)' <= N(Assoc!Peer(e), ty)
      BY <1>1, <1>2, <2>1, CountsAreNat, PeerIs
    <2> QED
      BY <2>2, <2>3 DEF NoMore, Types
  <1>6. NoMore("C") /\ NoMore("S")
    BY <1>5 DEF Assoc!Endpoints, Assoc!Peer
  <1>7. Sides' /\ EchoesAcked'
    <2>1. Sides'
      BY <1>1, <1>4, <1>6 DEF Sides, Nums, NoMore
    <2>2. N("C", "cookie_ack")' <= N("C", "cookie_ack") /\ N("C", "cookie_ack") \in Nat /\ N("C", "cookie_ack")' \in Nat
      BY <1>1, <1>4, <1>6 DEF Nums, NoMore
    <2>3. EchoesAcked'
      BY <1>1, <2>2 DEF EchoesAcked
    <2> QED
      BY <2>1, <2>3
  <1>8. Early'
    <2>1. Before' <=> Before
      BY DEF Before
    <2>2. NoTraffic => NoTraffic'
      <3> SUFFICES ASSUME NoTraffic PROVE NoTraffic'
        OBVIOUS
      <3>1. \A a, b \in Nat : b <= a => (a = 0 => b = 0) /\ (a <= 1 => b <= 1)
        OBVIOUS
      <3>2. /\ N("C", "init_ack")' = 0 /\ N("C", "cookie_ack")' = 0 /\ N("S", "cookie_echo")' = 0
            /\ N("S", "init")' <= 1 /\ N("C", "data")' = 0 /\ N("S", "data")' = 0
        BY <1>1, <1>4, <1>6, <3>1 DEF NoTraffic, Nums, NoMore, Assoc!Endpoints
      <3> QED
        BY <3>2 DEF NoTraffic, Assoc!Endpoints
    <2>3. N("S", "init")' <= N("S", "init") /\ N("S", "init") \in Nat /\ N("S", "init")' \in Nat
      BY <1>1, <1>4, <1>6 DEF Nums, NoMore
    <2> QED
      BY <1>1, <2>1, <2>2, <2>3 DEF Early
  <1>9. Kept'
    BY DEF AssocInv, Kept
  <1>10. Once'
    BY <1>4, <1>6, OnceKept DEF NoMore, NoHandshake, Before
  <1> QED
    BY <1>3, <1>7, <1>8, <1>9, <1>10 DEF AssocInv

\* The type of a chunk is the type it was made with.
LEMMA TypeOfChunk == ASSUME NEW ty PROVE Assoc!Chunk(ty).type = ty
  BY DEF Assoc!Chunk

\* Chunks of the other types count for nothing.
LEMMA OtherChunk ==
    ASSUME NEW ty, ty \notin Types
    PROVE  Brings(<<Assoc!Chunk(ty)>>, Zero)
  <1>1. Only(ty) = Zero
    BY DEF Only, Zero
  <1> QED
    BY <1>1, BringsOne, TypeOfChunk

\* An INIT that is refused, a heartbeat, a packet that is ignored or lost: nothing
\* changes but the packets, and none of those that count is added.
LEMMA PlainSteps ==
    ASSUME AssocInv, NEW e \in Assoc!Endpoints, Assoc!OnBadInit(e) \/ Assoc!OnHeartbeat(e) \/ Assoc!Discard(e) \/ Assoc!Lose(e)
    PROVE  AssocInv'
  <1>1. "operational_error" \notin Types
    BY DEF Types
  <1>2. Brings(<<Assoc!Chunk("operational_error")>>, Zero) /\ Brings(<<>>, Zero)
    BY <1>1, OtherChunk, BringsNone
  <1>3. Shape
    BY InvFacts
  <1>4. CASE Assoc!OnBadInit(e)
    <2>1. net[e] # <<>> /\ Assoc!Reply(e, <<Assoc!Chunk("operational_error")>>)
          /\ UNCHANGED <<state, live, streams, opened, ups, inits, beating>>
      BY <1>4 DEF Assoc!OnBadInit, Assoc!Got
    <2> QED
      BY <1>2, <2>1, PlainReply
  <1>5. CASE Assoc!OnHeartbeat(e)
    <2>1. net[e] # <<>> /\ Assoc!Reply(e, <<Assoc!Chunk("operational_error")>>)
          /\ UNCHANGED <<state, live, streams, opened, ups, inits, beating>>
      BY <1>5 DEF Assoc!OnHeartbeat, Assoc!Got
    <2> QED
      BY <1>2, <2>1, PlainReply
  <1>6. CASE Assoc!Discard(e)
    <2>1. net[e] # <<>> /\ Assoc!Reply(e, <<>>)
          /\ UNCHANGED <<state, live, streams, opened, ups, inits, beating>>
      BY <1>6 DEF Assoc!Discard
    <2> QED
      BY <1>2, <2>1, PlainReply
  <1>7. CASE Assoc!Lose(e)
    <2>1. net[e] # <<>> /\ Assoc!Reply(e, <<>>)
          /\ UNCHANGED <<state, live, streams, opened, ups, inits, beating>>
      BY <1>7 DEF Assoc!Lose
    <2> QED
      BY <1>2, <2>1, PlainReply
  <1> QED
    BY <1>4, <1>5, <1>6, <1>7

-----------------------------------------------------------------------------
\* What a step does to the streams of e
Changes(e, S) ==
    /\ DOMAIN streams' = Assoc!Endpoints /\ DOMAIN (streams'[e]) = S
    /\ \A x \in Assoc!Endpoints : IsFiniteSet(DOMAIN (streams'[x])) /\ (x # e => streams'[x] = streams[x])

\* streams_.clear() leaves no stream,
LEMMA Emptied ==
    ASSUME Shape, NEW e \in Assoc!Endpoints, streams' = [streams EXCEPT ![e] = <<>>]
    PROVE  Changes(e, {})
  <1>1. DOMAIN streams' = Assoc!Endpoints /\ DOMAIN (streams'[e]) = {}
        /\ \A x \in Assoc!Endpoints : x # e => streams'[x] = streams[x]
    BY DEF Shape
  <1>2. IsFiniteSet({})
    BY FS_EmptySet
  <1> QED
    BY <1>1, <1>2 DEF Changes, Shape

\* create_stream() and an insertion into streams_ add one,
LEMMA Grown ==
    ASSUME Shape, NEW e \in Assoc!Endpoints, NEW sid, NEW v,
           streams' = Assoc!With(e, sid, v)
    PROVE  Changes(e, DOMAIN streams[e] \union {sid})
  <1> DEFINE f == [t \in DOMAIN streams[e] \union {sid} |-> IF t = sid THEN v ELSE streams[e][t]]
  <1>1. DOMAIN f = DOMAIN streams[e] \union {sid}
    OBVIOUS
  <1>2. streams' = [streams EXCEPT ![e] = f]
    BY DEF Assoc!With
  <1> HIDE DEF f
  <1>3. DOMAIN streams' = Assoc!Endpoints /\ streams'[e] = f
        /\ \A x \in Assoc!Endpoints : x # e => streams'[x] = streams[x]
    BY <1>2 DEF Shape
  <1>4. IsFiniteSet(DOMAIN streams[e] \union {sid})
    BY FS_AddElement DEF Shape
  <1> QED
    BY <1>1, <1>3, <1>4 DEF Changes, Shape

\* and streams_.erase() takes one away.
LEMMA Shrunk ==
    ASSUME Shape, NEW e \in Assoc!Endpoints, NEW sid,
           streams' = [streams EXCEPT ![e] = Assoc!RestrictDomain(@, LAMBDA s : s # sid)]
    PROVE  Changes(e, DOMAIN streams[e] \ {sid})
  <1> DEFINE f == Assoc!RestrictDomain(streams[e], LAMBDA s : s # sid)
  <1>1. DOMAIN f = DOMAIN streams[e] \ {sid}
    BY DEF Assoc!RestrictDomain, Assoc!Restrict
  <1>2. streams' = [streams EXCEPT ![e] = f]
    OBVIOUS
  <1> HIDE DEF f
  <1>3. DOMAIN streams' = Assoc!Endpoints /\ streams'[e] = f
        /\ \A x \in Assoc!Endpoints : x # e => streams'[x] = streams[x]
    BY <1>2 DEF Shape
  <1>4. IsFiniteSet(DOMAIN streams[e] \ {sid})
    BY FS_RemoveElement DEF Shape
  <1> QED
    BY <1>1, <1>3, <1>4 DEF Changes, Shape

\* The end of each of the lemmas below
LEMMA NextShape ==
    ASSUME Shape, NEW e \in Assoc!Endpoints, NEW S, Changes(e, S) \/ UNCHANGED streams,
           DOMAIN net' = Assoc!Endpoints, \A x \in Assoc!Endpoints : IsSeq(net'[x]),
           DOMAIN state' = Assoc!Endpoints, DOMAIN live' = Assoc!Endpoints, DOMAIN opened' = Assoc!Endpoints,
           DOMAIN ups' = Assoc!Endpoints, \A x \in Assoc!Endpoints : ups'[x] \in Nat, inits' \in Nat
    PROVE  Shape' /\ Nums("C")' /\ Nums("S")'
  <1>1. Shape'
    BY DEF Shape, Changes
  <1> QED
    BY <1>1, NumsStayNat

\* What an endpoint takes and what it sends
LEMMA ReplyNums ==
    ASSUME Shape, NEW e \in Assoc!Endpoints, NEW p \in Assoc!Endpoints, p = Assoc!Peer(e), NEW type \in Types,
           Assoc!Got(e, type), NEW out, NEW k, Brings(out, k), Assoc!Reply(e, out)
    PROVE  /\ DOMAIN net' = Assoc!Endpoints /\ \A x \in Assoc!Endpoints : IsSeq(net'[x])
           /\ \A ty \in Types : /\ N(e, ty)' = N(e, ty) - (IF ty = type THEN 1 ELSE 0)
                                /\ N(p, ty)' = N(p, ty) + k[ty]
  <1>1. net[e] # <<>> /\ Head(net[e]).type = type
    BY DEF Assoc!Got
  <1>2. /\ DOMAIN net' = Assoc!Endpoints /\ \A x \in Assoc!Endpoints : IsSeq(net'[x])
        /\ \A ty \in Types : /\ N(e, ty)' = N(e, ty) - Taken(e, ty)
                             /\ N(p, ty)' = N(p, ty) + k[ty]
    BY <1>1, ReplyNet DEF N
  <1>3. \A ty \in Types : Taken(e, ty) = IF ty = type THEN 1 ELSE 0
    BY <1>1 DEF Taken
  <1> QED
    BY <1>2, <1>3

\* What is sent holds nothing of the handshake.
DataOnly(out) == IsSeq(out) /\ \A ty \in Types \ {"data"} : Count(out, ty) = 0

\* Sending that adds no packet of the handshake.
LEMMA DataNet ==
    ASSUME Shape, NEW e \in Assoc!Endpoints, NEW out, DataOnly(out),
           Assoc!Send(e, out) \/ (net[e] # <<>> /\ Assoc!Reply(e, out))
    PROVE  /\ DOMAIN net' = Assoc!Endpoints /\ \A x \in Assoc!Endpoints : IsSeq(net'[x])
           /\ NoHandshake("C") /\ NoHandshake("S")
           /\ Count(out, "data") = 0 =>
                N("C", "data")' <= N("C", "data") /\ N("S", "data")' <= N("S", "data")
  <1> DEFINE k == [ty \in Types |-> Count(out, ty)]
  <1>1. Brings(out, k) /\ k["data"] = Count(out, "data")
        /\ k["init"] = 0 /\ k["init_ack"] = 0 /\ k["cookie_echo"] = 0 /\ k["cookie_ack"] = 0
    BY DEF Brings, DataOnly, Types
  <1> HIDE DEF k
  <1>2. /\ DOMAIN net' = Assoc!Endpoints /\ \A x \in Assoc!Endpoints : IsSeq(net'[x])
        /\ \A ty \in Types : /\ N(e, ty)' = N(e, ty) - Taken(e, ty) \/ N(e, ty)' = N(e, ty)
                             /\ N(Assoc!Peer(e), ty)' = N(Assoc!Peer(e), ty) + k[ty]
    <2>1. CASE Assoc!Send(e, out)
      BY <1>1, <2>1, SendNet
    <2>2. CASE net[e] # <<>> /\ Assoc!Reply(e, out)
      BY <1>1, <2>2, ReplyNet
    <2> QED
      BY <2>1, <2>2
  <1>3. Nums("C") /\ Nums("S") /\ Nums(e) /\ Nums(Assoc!Peer(e))
    BY NumsAreNat DEF Assoc!Endpoints, Assoc!Peer
  <1>4. \A ty \in Types : Taken(e, ty) \in Nat
    BY DEF Taken
  <1>5. NoHandshake(e) /\ N(e, "data")' <= N(e, "data")
    <2>1. \A ty \in Types : N(e, ty)' <= N(e, ty)
      BY <1>2, <1>4, CountsAreNat
    <2> QED
      BY <2>1 DEF NoHandshake, Types
  <1>6. NoHandshake(Assoc!Peer(e)) /\ (Count(out, "data") = 0 => N(Assoc!Peer(e), "data")' <= N(Assoc!Peer(e), "data"))
    <2>1. \A ty \in Types : k[ty] = 0 => N(Assoc!Peer(e), ty)' <= N(Assoc!Peer(e), ty)
      BY <1>2, CountsAreNat, PeerIs
    <2> QED
      BY <1>1, <2>1 DEF NoHandshake, Types
  <1>7. CASE e = "C"
    BY <1>2, <1>5, <1>6, <1>7 DEF Assoc!Peer
  <1>8. CASE e = "S"
    BY <1>2, <1>5, <1>6, <1>8 DEF Assoc!Peer
  <1> QED
    BY <1>7, <1>8 DEF Assoc!Endpoints

\* A step that adds no packet of the handshake
LEMMA Settled ==
    ASSUME AssocInv, Nums("C")', Nums("S")', NoHandshake("C"), NoHandshake("S"), UNCHANGED ups
    PROVE  Sides' /\ EchoesAcked' /\ N("S", "init")' <= N("S", "init") /\ N("S", "init") \in Nat
  <1>1. Nums("C") /\ Nums("S") /\ ups["C"] \in Nat /\ ups["S"] \in Nat /\ Sides /\ EchoesAcked
    BY InvFacts
  <1>2. Sides'
    BY <1>1 DEF Sides, Nums, NoHandshake
  <1>3. N("C", "cookie_ack")' <= N("C", "cookie_ack") /\ N("C", "cookie_ack") \in Nat
        /\ N("C", "cookie_ack")' \in Nat
    BY <1>1 DEF Nums, NoHandshake
  <1>4. EchoesAcked'
    BY <1>1, <1>3 DEF EchoesAcked
  <1> QED
    BY <1>1, <1>2, <1>4 DEF NoHandshake, Nums

\* on_init(): only the server gets INITs, and with a single one there is no stream yet.
LEMMA OnInitStep ==
    ASSUME AssocInv, NEW e \in Assoc!Endpoints, Assoc!OnInit(e)
    PROVE  AssocInv'
  <1>1. Shape /\ Nums("C") /\ Nums("S") /\ ups["C"] \in Nat /\ ups["S"] \in Nat
        /\ Sides /\ EchoesAcked /\ Early /\ Kept
        /\ (Starting => NoTraffic /\ (Before => N("S", "init") = 0))
    BY InvFacts
  <1>2. N(e, "init") > 0 /\ net[e] # <<>> /\ Head(net[e]).type = "init"
    BY <1>1, GotCount DEF Assoc!OnInit
  <1>3. e = "S"
    BY <1>1, <1>2 DEF Sides, Assoc!Endpoints
  <1>4. Brings(<<Assoc!Chunk("init_ack")>>, Only("init_ack"))
    BY BringsOne, TypeOfChunk
  <1>5. /\ DOMAIN net' = Assoc!Endpoints /\ \A x \in Assoc!Endpoints : IsSeq(net'[x])
        /\ \A ty \in Types : /\ N(e, ty)' = N(e, ty) - Taken(e, ty)
                             /\ N(Assoc!Peer(e), ty)' = N(Assoc!Peer(e), ty) + Only("init_ack")[ty]
    BY <1>1, <1>2, <1>4, ReplyNet DEF Assoc!OnInit
  <1>6. Delta("S", -1, 0, 0, 0, 0) /\ Delta("C", 0, 1, 0, 0, 0)
    <2>1. \A ty \in Types : /\ N("S", ty)' = N("S", ty) - Taken("S", ty)
                            /\ N("C", ty)' = N("C", ty) + Only("init_ack")[ty]
      BY <1>3, <1>5 DEF Assoc!Peer, N
    <2>2. Head(net["S"]).type = "init"
      BY <1>2, <1>3
    <2>3. \A ty \in Types : Taken("S", ty) = IF ty = "init" THEN 1 ELSE 0
      BY <2>2 DEF Taken
    <2>4. \A ty \in Types : Only("init_ack")[ty] = IF ty = "init_ack" THEN 1 ELSE 0
      BY DEF Only
    <2> QED
      BY <1>1, <2>1, <2>3, <2>4 DEF Delta, Types, Nums
  <1>7. Changes("S", {})
    BY <1>1, <1>3, Emptied DEF Assoc!OnInit
  <1>8. UNCHANGED <<state, live, opened, ups, inits, beating>>
    BY DEF Assoc!OnInit
  <1>9. Shape' /\ Nums("C")' /\ Nums("S")'
    BY <1>1, <1>3, <1>5, <1>7, <1>8, NextShape DEF Shape
  <1>10. Sides' /\ EchoesAcked'
    BY <1>1, <1>6, <1>8 DEF Sides, EchoesAcked, Delta, Nums
  <1>11. Starting' => FALSE
    <2> SUFFICES ASSUME Starting' PROVE FALSE
      OBVIOUS
    <2>1. inits = 0 /\ Starting
      BY <1>1, <1>2, <1>3, <1>8 DEF Starting
    <2>2. ~Before' /\ N("S", "init") <= 1
      BY <1>1, <1>2, <1>3, <1>8, <2>1 DEF Before, NoTraffic
    <2>3. ~(N("S", "init")' > 0)
      BY <1>1, <1>6, <1>9, <2>2 DEF Delta, Nums
    <2> QED
      BY <2>2, <2>3 DEF Starting
  <1>12. Kept'
    <2> SUFFICES ASSUME inits = 0, NEW x \in Assoc!Endpoints, live[x]
                 PROVE  opened[x] \subseteq DOMAIN (streams'[x])
      BY <1>8 DEF Kept
    <2>1. CASE x = "S"
      <3>1. Starting
        BY <1>2, <1>3 DEF Starting
      <3> QED
        BY <1>1, <3>1 DEF NoTraffic
    <2>2. CASE x # "S"
      BY <1>1, <1>7, <2>2 DEF Kept, Changes
    <2> QED
      BY <2>1, <2>2
  <1>13. Once'
    <2>1. Token' = Token /\ Token \in {0, 1} /\ Once
      BY <1>8 DEF Token, Before, AssocInv
    <2>2. HandshakeS' = HandshakeS /\ HandshakeC' = HandshakeC
      BY <1>1, <1>6, <1>8, <2>1 DEF HandshakeS, HandshakeC, Delta, Nums
    <2> QED
      BY <1>8, <2>1, <2>2 DEF Once
  <1> QED
    BY <1>9, <1>10, <1>11, <1>12, <1>13 DEF AssocInv, Early, Starting

\* on_init_ack(): only the client gets INIT ACKs.
LEMMA OnInitAckStep ==
    ASSUME AssocInv, NEW e \in Assoc!Endpoints, Assoc!OnInitAck(e)
    PROVE  AssocInv'
  <1>1. Shape /\ Nums("C") /\ Nums("S") /\ ups["C"] \in Nat /\ ups["S"] \in Nat
        /\ Sides /\ EchoesAcked /\ Early /\ Kept
        /\ (Starting => NoTraffic /\ (Before => N("S", "init") = 0))
    BY InvFacts
  <1>2. N(e, "init_ack") > 0
    BY <1>1, GotCount DEF Assoc!OnInitAck
  <1>3. e = "C" /\ Assoc!Peer(e) = "S" /\ "S" \in Assoc!Endpoints /\ "init_ack" \in Types
    BY <1>1, <1>2 DEF Sides, Assoc!Endpoints, Assoc!Peer, Types
  <1>4. Brings(<<Assoc!Chunk("cookie_echo")>>, Only("cookie_echo"))
    BY BringsOne, TypeOfChunk
  <1>5. /\ DOMAIN net' = Assoc!Endpoints /\ \A x \in Assoc!Endpoints : IsSeq(net'[x])
        /\ \A ty \in Types : /\ N("C", ty)' = N("C", ty) - (IF ty = "init_ack" THEN 1 ELSE 0)
                             /\ N("S", ty)' = N("S", ty) + Only("cookie_echo")[ty]
    BY <1>1, <1>3, <1>4, ReplyNums DEF Assoc!OnInitAck
  <1>6. Delta("C", 0, -1, 0, 0, 0) /\ Delta("S", 0, 0, 1, 0, 0)
    BY <1>1, <1>5 DEF Delta, Only, Types, Nums
  <1>7. UNCHANGED <<state, live, streams, opened, ups, inits, beating>>
    BY DEF Assoc!OnInitAck
  <1>8. Shape' /\ Nums("C")' /\ Nums("S")'
    BY <1>1, <1>5, <1>7, NextShape DEF Shape
  <1>9. Sides' /\ EchoesAcked' /\ N("S", "init")' <= N("S", "init") /\ N("S", "init") \in Nat /\ N("S", "init")' \in Nat
    BY <1>1, <1>6, <1>7, <1>8 DEF Sides, EchoesAcked, Delta, Nums
  <1>10. ~Starting
    BY <1>1, <1>2, <1>3 DEF NoTraffic
  <1>11. Early'
    BY <1>7, <1>9, <1>10, LaterStep DEF Before
  <1>12. Kept'
    BY <1>1, <1>7 DEF Kept
  <1>13. Once'
    <2>1. Token' = Token /\ Token \in {0, 1} /\ Once
      BY <1>7 DEF Token, Before, AssocInv
    <2>2. HandshakeS' = HandshakeS /\ HandshakeC' = HandshakeC
      BY <1>1, <1>6, <1>7, <2>1 DEF HandshakeS, HandshakeC, Delta, Nums
    <2> QED
      BY <1>7, <2>1, <2>2 DEF Once
  <1> QED
    BY <1>8, <1>9, <1>11, <1>12, <1>13 DEF AssocInv

\* What the connected handler does
LEMMA ConnectedDoes ==
    ASSUME Shape, NEW e \in Assoc!Endpoints, NEW p \in Assoc!Endpoints, p = Assoc!Peer(e), NEW type \in Types,
           Assoc!Got(e, type), NEW first, NEW k, Brings(first, k), Assoc!Connected(e, first)
    PROVE  /\ DOMAIN net' = Assoc!Endpoints /\ \A x \in Assoc!Endpoints : IsSeq(net'[x])
           /\ \A ty \in Types :
                /\ N(e, ty)' = N(e, ty) - (IF ty = type THEN 1 ELSE 0)
                /\ ty # "data" => N(p, ty)' = N(p, ty) + k[ty]
           /\ \E S : Changes(e, S) /\ DOMAIN streams[e] \subseteq S
           /\ state' = [state EXCEPT ![e] = "connected"]
           /\ ups' = [ups EXCEPT ![e] = @ + 1]
           /\ UNCHANGED <<live, opened, inits, beating>>
  <1>1. /\ state' = [state EXCEPT ![e] = "connected"]
        /\ ups' = [ups EXCEPT ![e] = @ + 1]
        /\ UNCHANGED <<live, opened, inits, beating>>
    BY DEF Assoc!Connected
  <1>2. CASE e = Offerer
    <2> DEFINE sid == Assoc!NextFree(e)
               open == <<Assoc!Data(sid, 0, "open")>>
               out == first \o open
               j == [ty \in Types |-> k[ty] + Count(open, ty)]
    <2>1. Assoc!Reply(e, out) /\ streams' = Assoc!With(e, sid, [send |-> 1, recv |-> 0])
      BY <1>2 DEF Assoc!Connected
    <2>2. IsSeq(open) /\ \A ty \in Types : Count(open, ty) = IF ty = "data" THEN 1 ELSE 0
      BY CountOne DEF Assoc!Data
    <2> HIDE DEF open
    <2>3. Brings(out, j)
      BY <2>2, JoinIs, CountJoin DEF Brings
    <2> HIDE DEF sid, out
    <2>4. Changes(e, DOMAIN streams[e] \union {sid})
      BY <2>1, Grown
    <2>5. /\ DOMAIN net' = Assoc!Endpoints /\ \A x \in Assoc!Endpoints : IsSeq(net'[x])
          /\ \A ty \in Types : /\ N(e, ty)' = N(e, ty) - (IF ty = type THEN 1 ELSE 0)
                               /\ N(p, ty)' = N(p, ty) + j[ty]
      <3> HIDE DEF j
      <3> QED
        BY <2>1, <2>3, ReplyNums
    <2>6. \A ty \in Types : ty # "data" => j[ty] = k[ty] + 0
      BY <2>2
    <2> HIDE DEF j
    <2>7. \A ty \in Types : k[ty] \in Nat
      BY CountIsNat DEF Brings
    <2>8. \A ty \in Types : ty # "data" => N(p, ty)' = N(p, ty) + k[ty]
      BY <2>5, <2>6, <2>7
    <2> QED
      BY <1>1, <2>4, <2>5, <2>8
  <1>3. CASE e # Offerer
    <2>1. Assoc!Reply(e, first) /\ UNCHANGED streams
      BY <1>3 DEF Assoc!Connected
    <2>2. Changes(e, DOMAIN streams[e])
      BY <2>1 DEF Changes, Shape
    <2>3. /\ DOMAIN net' = Assoc!Endpoints /\ \A x \in Assoc!Endpoints : IsSeq(net'[x])
          /\ \A ty \in Types : /\ N(e, ty)' = N(e, ty) - (IF ty = type THEN 1 ELSE 0)
                               /\ N(p, ty)' = N(p, ty) + k[ty]
      BY <2>1, ReplyNums
    <2> QED
      BY <1>1, <2>2, <2>3
  <1> QED
    BY <1>2, <1>3

\* on_cookie_echo(): only the server gets COOKIE ECHOs, and acknowledges each.
LEMMA OnCookieEchoStep ==
    ASSUME AssocInv, NEW e \in Assoc!Endpoints, Assoc!OnCookieEcho(e)
    PROVE  AssocInv'
  <1>1. Shape /\ Nums("C") /\ Nums("S") /\ ups["C"] \in Nat /\ ups["S"] \in Nat
        /\ Sides /\ EchoesAcked /\ Early /\ Kept
        /\ (Starting => NoTraffic /\ (Before => N("S", "init") = 0))
    BY InvFacts
  <1>2. N(e, "cookie_echo") > 0
    BY <1>1, GotCount DEF Assoc!OnCookieEcho
  <1>3. e = "S" /\ Assoc!Peer(e) = "C" /\ "C" \in Assoc!Endpoints /\ "cookie_echo" \in Types
    BY <1>1, <1>2 DEF Sides, Assoc!Endpoints, Assoc!Peer, Types
  <1>4. Brings(<<Assoc!Chunk("cookie_ack")>>, Only("cookie_ack"))
    BY BringsOne, TypeOfChunk
  <1>5. /\ DOMAIN net' = Assoc!Endpoints /\ \A x \in Assoc!Endpoints : IsSeq(net'[x])
        /\ \A ty \in Types :
             /\ N("S", ty)' = N("S", ty) - (IF ty = "cookie_echo" THEN 1 ELSE 0)
             /\ ty # "data" => N("C", ty)' = N("C", ty) + Only("cookie_ack")[ty]
        /\ \E S : Changes("S", S) /\ DOMAIN streams["S"] \subseteq S
        /\ state' = [state EXCEPT !["S"] = "connected"]
        /\ ups' = [ups EXCEPT !["S"] = @ + 1]
        /\ UNCHANGED <<live, opened, inits, beating>>
    BY <1>1, <1>3, <1>4, ConnectedDoes DEF Assoc!OnCookieEcho
  <1>6. PICK S : Changes("S", S) /\ DOMAIN streams["S"] \subseteq S
    BY <1>5
  <1>7. /\ N("C", "init")' = N("C", "init") /\ N("C", "cookie_echo")' = N("C", "cookie_echo")
        /\ N("C", "cookie_ack")' = N("C", "cookie_ack") + 1
        /\ N("S", "init_ack")' = N("S", "init_ack") /\ N("S", "cookie_ack")' = N("S", "cookie_ack")
        /\ N("S", "init")' = N("S", "init")
    BY <1>1, <1>5 DEF Only, Types, Nums
  <1>8. /\ ups'["S"] = ups["S"] + 1 /\ ups'["C"] = ups["C"] /\ DOMAIN ups' = Assoc!Endpoints
        /\ state'["C"] = state["C"] /\ DOMAIN state' = Assoc!Endpoints
        /\ \A x \in Assoc!Endpoints : ups'[x] \in Nat
    BY <1>1, <1>5 DEF Shape, Assoc!Endpoints
  <1>9. Shape' /\ Nums("C")' /\ Nums("S")'
    <2>1. "S" \in Assoc!Endpoints /\ DOMAIN live' = Assoc!Endpoints /\ DOMAIN opened' = Assoc!Endpoints /\ inits' \in Nat
      BY <1>1, <1>3, <1>5 DEF Shape
    <2> QED
      BY <1>1, <1>5, <1>6, <1>8, <2>1, NextShape
  <1>10. Sides' /\ EchoesAcked'
    BY <1>1, <1>7, <1>8 DEF Sides, EchoesAcked, Nums
  <1>11. ~Starting
    BY <1>1, <1>2, <1>3 DEF NoTraffic
  <1>12. Early'
    <2>1. Before' => Before
      BY <1>5, <1>8 DEF Before
    <2>2. N("S", "init")' <= N("S", "init") /\ N("S", "init") \in Nat /\ N("S", "init")' \in Nat
      BY <1>1, <1>7 DEF Nums
    <2> QED
      BY <1>5, <1>11, <2>1, <2>2, LaterStep
  <1>13. Kept'
    <2>1. \A x \in Assoc!Endpoints : DOMAIN streams[x] \subseteq DOMAIN (streams'[x])
      BY <1>6 DEF Changes
    <2> QED
      BY <1>1, <1>5, <2>1 DEF Kept
  <1>14. Once'
    <2>1. Token' <= Token /\ Token \in {0, 1} /\ Token' \in {0, 1} /\ Once
      BY <1>5, <1>8 DEF Token, Before, AssocInv
    <2>2. N("C", "init_ack")' = N("C", "init_ack") /\ N("S", "cookie_echo")' = N("S", "cookie_echo") - 1
      BY <1>1, <1>5 DEF Only, Types, Nums
    <2>3. HandshakeS' <= HandshakeS /\ HandshakeS \in Nat /\ HandshakeS' \in Int
      BY <1>1, <1>7, <1>8, <1>9, <2>1, <2>2 DEF HandshakeS, Nums
    <2>4. HandshakeC' <= HandshakeC /\ HandshakeC \in Nat /\ HandshakeC' \in Int
      BY <1>1, <1>7, <1>8, <1>9, <2>1, <2>2 DEF HandshakeC, Nums
    <2> QED
      BY <1>5, <2>1, <2>3, <2>4 DEF Once
  <1> QED
    BY <1>9, <1>10, <1>12, <1>13, <1>14 DEF AssocInv

\* on_cookie_ack(): only the client gets COOKIE ACKs, and takes each for a new association.
LEMMA OnCookieAckStep ==
    ASSUME AssocInv, NEW e \in Assoc!Endpoints, Assoc!OnCookieAck(e)
    PROVE  AssocInv'
  <1>1. Shape /\ Nums("C") /\ Nums("S") /\ ups["C"] \in Nat /\ ups["S"] \in Nat
        /\ Sides /\ EchoesAcked /\ Early /\ Kept
        /\ (Starting => NoTraffic /\ (Before => N("S", "init") = 0))
    BY InvFacts
  <1>2. N(e, "cookie_ack") > 0
    BY <1>1, GotCount DEF Assoc!OnCookieAck
  <1>3. e = "C" /\ Assoc!Peer(e) = "S" /\ "S" \in Assoc!Endpoints /\ "cookie_ack" \in Types
    BY <1>1, <1>2 DEF Sides, Assoc!Endpoints, Assoc!Peer, Types
  <1>5. /\ DOMAIN net' = Assoc!Endpoints /\ \A x \in Assoc!Endpoints : IsSeq(net'[x])
        /\ \A ty \in Types :
             /\ N("C", ty)' = N("C", ty) - (IF ty = "cookie_ack" THEN 1 ELSE 0)
             /\ ty # "data" => N("S", ty)' = N("S", ty) + Zero[ty]
        /\ \E S : Changes("C", S) /\ DOMAIN streams["C"] \subseteq S
        /\ state' = [state EXCEPT !["C"] = "connected"]
        /\ ups' = [ups EXCEPT !["C"] = @ + 1]
        /\ UNCHANGED <<live, opened, inits, beating>>
    BY <1>1, <1>3, BringsNone, ConnectedDoes DEF Assoc!OnCookieAck
  <1>6. PICK S : Changes("C", S) /\ DOMAIN streams["C"] \subseteq S
    BY <1>5
  <1>7. /\ N("C", "init")' = N("C", "init") /\ N("C", "cookie_echo")' = N("C", "cookie_echo")
        /\ N("C", "cookie_ack")' = N("C", "cookie_ack") - 1
        /\ N("S", "init_ack")' = N("S", "init_ack") /\ N("S", "cookie_ack")' = N("S", "cookie_ack")
        /\ N("S", "init")' = N("S", "init")
    BY <1>1, <1>5 DEF Zero, Types, Nums
  <1>8. /\ ups'["C"] = ups["C"] + 1 /\ ups'["S"] = ups["S"] /\ DOMAIN ups' = Assoc!Endpoints
        /\ state'["C"] = "connected" /\ DOMAIN state' = Assoc!Endpoints
        /\ \A x \in Assoc!Endpoints : ups'[x] \in Nat
    BY <1>1, <1>5 DEF Shape, Assoc!Endpoints
  <1>9. Shape' /\ Nums("C")' /\ Nums("S")'
    <2>1. "C" \in Assoc!Endpoints /\ DOMAIN live' = Assoc!Endpoints /\ DOMAIN opened' = Assoc!Endpoints /\ inits' \in Nat
      BY <1>1, <1>3, <1>5 DEF Shape
    <2> QED
      BY <1>1, <1>5, <1>6, <1>8, <2>1, NextShape
  <1>10. Sides' /\ EchoesAcked'
    BY <1>1, <1>7, <1>8 DEF Sides, EchoesAcked, Nums
  <1>11. ~Starting
    BY <1>1, <1>2, <1>3 DEF NoTraffic
  <1>12. Early'
    <2>1. Before' => Before
      BY <1>8 DEF Before
    <2>2. N("S", "init")' <= N("S", "init") /\ N("S", "init") \in Nat /\ N("S", "init")' \in Nat
      BY <1>1, <1>7 DEF Nums
    <2> QED
      BY <1>5, <1>11, <2>1, <2>2, LaterStep
  <1>13. Kept'
    <2>1. \A x \in Assoc!Endpoints : DOMAIN streams[x] \subseteq DOMAIN (streams'[x])
      BY <1>6 DEF Changes
    <2> QED
      BY <1>1, <1>5, <2>1 DEF Kept
  <1>14. Once'
    <2>1. Token' <= Token /\ Token \in {0, 1} /\ Token' \in {0, 1} /\ Once
      BY <1>5, <1>8 DEF Token, Before, AssocInv
    <2>2. N("C", "init_ack")' = N("C", "init_ack") /\ N("S", "cookie_echo")' = N("S", "cookie_echo") - 0
      BY <1>1, <1>5 DEF Zero, Types, Nums
    <2>3. HandshakeS' <= HandshakeS /\ HandshakeS \in Nat /\ HandshakeS' \in Int
      BY <1>1, <1>7, <1>8, <1>9, <2>1, <2>2 DEF HandshakeS, Nums
    <2>4. HandshakeC' <= HandshakeC /\ HandshakeC \in Nat /\ HandshakeC' \in Int
      BY <1>1, <1>7, <1>8, <1>9, <2>1, <2>2 DEF HandshakeC, Nums
    <2> QED
      BY <1>5, <2>1, <2>3, <2>4 DEF Once
  <1> QED
    BY <1>9, <1>10, <1>12, <1>13, <1>14 DEF AssocInv

\* on_operational_error() reports the streams it drops.
LEMMA OnErrorStep ==
    ASSUME AssocInv, NEW e \in Assoc!Endpoints, Assoc!OnOperationalError(e)
    PROVE  AssocInv'
  <1>1. Shape /\ Nums("C") /\ Nums("S") /\ Early /\ Kept
        /\ (Starting => NoTraffic /\ (Before => N("S", "init") = 0))
    BY InvFacts
  <1>2. net[e] # <<>> /\ live[e] /\ Assoc!Reply(e, Assoc!CloseChunks(e))
    BY DEF Assoc!OnOperationalError, Assoc!Got
  <1>3. DataOnly(Assoc!CloseChunks(e)) /\ (DOMAIN streams[e] = {} => Count(Assoc!CloseChunks(e), "data") = 0)
    <2>1. IsFiniteSet(DOMAIN streams[e])
      BY <1>1 DEF Shape
    <2> QED
      BY <2>1, CountClose DEF DataOnly, Types
  <1>4. /\ DOMAIN net' = Assoc!Endpoints /\ \A x \in Assoc!Endpoints : IsSeq(net'[x])
        /\ NoHandshake("C") /\ NoHandshake("S")
        /\ DOMAIN streams[e] = {} =>
             N("C", "data")' <= N("C", "data") /\ N("S", "data")' <= N("S", "data")
    BY <1>1, <1>2, <1>3, DataNet
  <1>5. Changes(e, {})
    BY <1>1, Emptied DEF Assoc!OnOperationalError
  <1>6. /\ DOMAIN state' = Assoc!Endpoints /\ DOMAIN opened' = Assoc!Endpoints
        /\ state'[e] = "closed" /\ opened'[e] = opened[e] \ DOMAIN streams[e]
        /\ \A x \in Assoc!Endpoints : x # e => state'[x] = state[x] /\ opened'[x] = opened[x]
        /\ UNCHANGED <<live, ups, inits, beating>>
    BY <1>1 DEF Assoc!OnOperationalError, Shape
  <1>7. Shape' /\ Nums("C")' /\ Nums("S")'
    BY <1>1, <1>4, <1>5, <1>6, NextShape DEF Shape
  <1>8. Sides' /\ EchoesAcked' /\ N("S", "init")' <= N("S", "init") /\ N("S", "init") \in Nat
    BY <1>4, <1>6, <1>7, Settled
  <1>9. Early'
    <2>1. Before' => Before
      BY <1>6 DEF Before, Assoc!Endpoints
    <2>2. ASSUME NoTraffic PROVE NoTraffic'
      <3>1. \A x \in Assoc!Endpoints : opened'[x] = {} /\ DOMAIN (streams'[x]) = {} /\ state'[x] # "connected"
        BY <1>5, <1>6, <2>2 DEF NoTraffic, Changes
      <3>2. DOMAIN streams[e] = {}
        BY <2>2 DEF NoTraffic
      <3>3. N("C", "data")' = 0 /\ N("S", "data")' = 0
        BY <1>1, <1>4, <1>7, <2>2, <3>2 DEF NoTraffic, Assoc!Endpoints, Nums
      <3>4. /\ N("C", "init_ack")' = 0 /\ N("C", "cookie_ack")' = 0 /\ N("S", "cookie_echo")' = 0
            /\ N("S", "init")' <= 1
        BY <1>1, <1>4, <1>7, <2>2 DEF NoTraffic, Nums, NoHandshake
      <3>5. \A x \in Assoc!Endpoints : N(x, "data")' = 0
        BY <3>3 DEF Assoc!Endpoints, N
      <3> QED
        BY <1>6, <2>2, <3>1, <3>4, <3>5 DEF NoTraffic, N
    <2>3. N("S", "init")' \in Nat
      BY <1>7 DEF Nums
    <2> QED
      BY <1>1, <1>6, <1>8, <2>1, <2>2, <2>3 DEF Early
  <1>10. Kept'
    BY <1>1, <1>2, <1>5, <1>6 DEF Kept, Changes
  <1>11. Before' => Before
    BY <1>2, <1>6 DEF Before, Assoc!Endpoints
  <1>12. Once'
    BY <1>2, <1>4, <1>6, <1>7, <1>11, OnceKept
  <1> QED
    BY <1>7, <1>8, <1>9, <1>10, <1>12 DEF AssocInv

\* A DATA chunk is none of the handshake,
LEMMA DataIsData ==
    ASSUME NEW sid, NEW ssn, NEW kind
    PROVE  DataOnly(<<Assoc!Data(sid, ssn, kind)>>)
  <1>1. Assoc!Data(sid, ssn, kind).type = "data"
    BY DEF Assoc!Data
  <1> HIDE DEF Assoc!Data
  <1> QED
    BY <1>1, CountOne DEF DataOnly

\* nor is no packet.
LEMMA NothingIsData == DataOnly(<<>>) /\ Count(<<>>, "data") = 0
  BY CountNone DEF DataOnly

\* Once there are streams the handshake is past its INIT.  What is left to show of such a
\* step is that it keeps the streams of what is open.
LEMMA StreamStep ==
    ASSUME AssocInv, NEW e \in Assoc!Endpoints, NEW out, DataOnly(out),
           Assoc!Send(e, out) \/ (net[e] # <<>> /\ Assoc!Reply(e, out)),
           NEW S, Changes(e, S), ~Starting,
           DOMAIN live' = Assoc!Endpoints, \A x \in Assoc!Endpoints : live'[x] => live[x],
           DOMAIN opened' = Assoc!Endpoints, \A x \in Assoc!Endpoints : x # e => opened'[x] = opened[x],
           opened[e] \subseteq DOMAIN streams[e] => opened'[e] \subseteq S,
           UNCHANGED <<state, ups, inits>>
    PROVE  AssocInv'
  <1>1. Shape /\ Kept
    BY InvFacts
  <1>2. /\ DOMAIN net' = Assoc!Endpoints /\ \A x \in Assoc!Endpoints : IsSeq(net'[x])
        /\ NoHandshake("C") /\ NoHandshake("S")
    BY <1>1, DataNet
  <1>3. Shape' /\ Nums("C")' /\ Nums("S")'
    BY <1>1, <1>2, NextShape DEF Shape
  <1>4. Sides' /\ EchoesAcked' /\ N("S", "init")' <= N("S", "init") /\ N("S", "init") \in Nat
    BY <1>2, <1>3, Settled
  <1>5. Before' => Before
    BY DEF Before, Assoc!Endpoints
  <1>6. Early'
    <2>1. N("S", "init")' \in Nat
      BY <1>3 DEF Nums
    <2> QED
      BY <1>4, <1>5, <2>1, LaterStep
  <1>7. Kept'
    BY <1>1 DEF Kept, Changes
  <1>8. Once'
    BY <1>2, <1>3, <1>5, OnceKept
  <1> QED
    BY <1>3, <1>4, <1>6, <1>7, <1>8 DEF AssocInv

\* insert_data_chunk(), with an open, an ack or a close, or out of turn
LEMMA OnDataStep ==
    ASSUME AssocInv, NEW e \in Assoc!Endpoints, Assoc!OnData(e)
    PROVE  AssocInv'
  <1>1. Shape /\ (Starting => NoTraffic)
    BY InvFacts
  <1>2. N(e, "data") > 0 /\ net[e] # <<>> /\ live[e]
    BY <1>1, GotCount DEF Assoc!OnData
  <1>3. ~Starting
    BY <1>1, <1>2 DEF NoTraffic
  <1> DEFINE c == Head(net[e])
             sid == c.sid
             s == Assoc!Stream(e, sid)
  <1>4. UNCHANGED <<state, ups, inits>>
    BY DEF Assoc!OnData
  <1>5. DOMAIN live = Assoc!Endpoints /\ DOMAIN opened = Assoc!Endpoints
    BY <1>1 DEF Shape
  <1>6. \/ Assoc!Reply(e, <<>>) /\ streams' = Assoc!With(e, sid, s) /\ UNCHANGED <<live, opened>>
        \/ Assoc!OnOpen(e, sid, s) \/ Assoc!OnAck(e, sid, s) \/ Assoc!OnStreamClose(e, sid, s)
    BY DEF Assoc!OnData
  <1> HIDE DEF c, sid, s
  <1>7. CASE Assoc!Reply(e, <<>>) /\ streams' = Assoc!With(e, sid, s) /\ UNCHANGED <<live, opened>>
    <2>1. Changes(e, DOMAIN streams[e] \union {sid})
      BY <1>1, <1>7, Grown
    <2> QED
      BY <1>2, <1>3, <1>4, <1>5, <1>7, <2>1, NothingIsData, StreamStep
  <1>8. CASE Assoc!OnOpen(e, sid, s)
    <2>1. /\ Assoc!Reply(e, <<Assoc!Data(sid, s.send, "ack")>>)
          /\ opened' = [opened EXCEPT ![e] = @ \union {sid}]
          /\ streams' = Assoc!With(e, sid, [send |-> s.send + 1, recv |-> s.recv + 1])
          /\ UNCHANGED live
      BY <1>8 DEF Assoc!OnOpen, Assoc!ReportOpened
    <2>2. Changes(e, DOMAIN streams[e] \union {sid})
      BY <1>1, <2>1, Grown
    <2>3. DataOnly(<<Assoc!Data(sid, s.send, "ack")>>)
      BY DataIsData
    <2>4. /\ DOMAIN opened' = Assoc!Endpoints /\ \A x \in Assoc!Endpoints : x # e => opened'[x] = opened[x]
          /\ opened[e] \subseteq DOMAIN streams[e] => opened'[e] \subseteq (DOMAIN streams[e] \union {sid})
      BY <1>5, <2>1
    <2> QED
      BY <1>2, <1>3, <1>4, <1>5, <2>1, <2>2, <2>3, <2>4, StreamStep
  <1>9. CASE Assoc!OnAck(e, sid, s)
    <2>1. /\ Assoc!Reply(e, <<>>)
          /\ opened' = [opened EXCEPT ![e] = @ \union {sid}]
          /\ streams' = Assoc!With(e, sid, [s EXCEPT !.recv = @ + 1])
          /\ UNCHANGED live
      BY <1>9 DEF Assoc!OnAck, Assoc!ReportOpened
    <2>2. Changes(e, DOMAIN streams[e] \union {sid})
      BY <1>1, <2>1, Grown
    <2>3. /\ DOMAIN opened' = Assoc!Endpoints /\ \A x \in Assoc!Endpoints : x # e => opened'[x] = opened[x]
          /\ opened[e] \subseteq DOMAIN streams[e] => opened'[e] \subseteq (DOMAIN streams[e] \union {sid})
      BY <1>5, <2>1
    <2> QED
      BY <1>2, <1>3, <1>4, <1>5, <2>1, <2>2, <2>3, NothingIsData, StreamStep
  <1>10. CASE Assoc!OnStreamClose(e, sid, s)
    <2>1. /\ Assoc!Reply(e, <<Assoc!Data(sid, s.send, "close")>>)
          /\ opened' = [opened EXCEPT ![e] = @ \ {sid}]
          /\ streams' = [streams EXCEPT ![e] = Assoc!RestrictDomain(@, LAMBDA t : t # sid)]
      BY <1>10 DEF Assoc!OnStreamClose
    <2>2. PICK survives \in BOOLEAN : live' = [live EXCEPT ![e] = survives]
      BY <1>10 DEF Assoc!OnStreamClose
    <2>3. Changes(e, DOMAIN streams[e] \ {sid})
      BY <1>1, <2>1, Shrunk
    <2>4. DataOnly(<<Assoc!Data(sid, s.send, "close")>>)
      BY DataIsData
    <2>5. /\ DOMAIN opened' = Assoc!Endpoints /\ \A x \in Assoc!Endpoints : x # e => opened'[x] = opened[x]
          /\ opened[e] \subseteq DOMAIN streams[e] => opened'[e] \subseteq (DOMAIN streams[e] \ {sid})
      BY <1>5, <2>1
    <2>6. DOMAIN live' = Assoc!Endpoints /\ \A x \in Assoc!Endpoints : live'[x] => live[x]
      BY <1>2, <1>5, <2>2
    <2> QED
      BY <1>2, <1>3, <1>4, <2>1, <2>3, <2>4, <2>5, <2>6, StreamStep
  <1> QED
    BY <1>6, <1>7, <1>8, <1>9, <1>10

\* close_stream()
LEMMA CloseStreamStep ==
    ASSUME AssocInv, NEW e \in Assoc!Endpoints, Assoc!CloseStream(e)
    PROVE  AssocInv'
  <1>1. Shape /\ (Starting => NoTraffic)
    BY InvFacts
  <1> DEFINE sid == channel[e].sid
  <1>2. /\ sid \in DOMAIN streams[e]
        /\ Assoc!Send(e, <<Assoc!Data(sid, streams[e][sid].send, "close")>>)
        /\ opened' = [opened EXCEPT ![e] = @ \ {sid}]
        /\ streams' = [streams EXCEPT ![e] = Assoc!RestrictDomain(@, LAMBDA t : t # sid)]
        /\ UNCHANGED <<state, live, ups, inits>>
    BY DEF Assoc!CloseStream
  <1> HIDE DEF sid
  <1>3. ~Starting
    BY <1>1, <1>2 DEF NoTraffic
  <1>4. Changes(e, DOMAIN streams[e] \ {sid})
    BY <1>1, <1>2, Shrunk
  <1>5. DataOnly(<<Assoc!Data(sid, streams[e][sid].send, "close")>>)
    BY DataIsData
  <1>6. /\ DOMAIN opened' = Assoc!Endpoints /\ \A x \in Assoc!Endpoints : x # e => opened'[x] = opened[x]
        /\ opened[e] \subseteq DOMAIN streams[e] => opened'[e] \subseteq (DOMAIN streams[e] \ {sid})
    BY <1>1, <1>2 DEF Shape
  <1>7. DOMAIN live' = Assoc!Endpoints /\ \A x \in Assoc!Endpoints : live'[x] => live[x]
    BY <1>1, <1>2 DEF Shape
  <1> QED
    BY <1>2, <1>3, <1>4, <1>5, <1>6, <1>7, StreamStep

\* on_state_timer() while connected: both halves are past the handshake's beginning.
LEMMA HeartbeatTestStep ==
    ASSUME AssocInv, NEW e \in Assoc!Endpoints, Assoc!HeartbeatTest(e)
    PROVE  AssocInv'
  <1>1. Shape /\ Sides /\ EchoesAcked /\ Kept /\ (Starting => NoTraffic)
    BY InvFacts
  <1>2. state[e] = "connected" /\ UNCHANGED <<state, live, streams, opened, ups, net, inits>>
    BY DEF Assoc!HeartbeatTest
  <1>3. ~Starting
    BY <1>1, <1>2 DEF NoTraffic
  <1>4. ~Starting'
    BY <1>2, <1>3 DEF Starting, Before, N
  <1>5. Shape'
    BY <1>1, <1>2 DEF Shape
  <1>6. Sides' /\ EchoesAcked' /\ Kept'
    BY <1>1, <1>2 DEF Sides, EchoesAcked, Kept, N
  <1>7. Once'
    BY <1>2 DEF AssocInv, Once, HandshakeS, HandshakeC, Token, Before, N
  <1> QED
    BY <1>4, <1>5, <1>6, <1>7 DEF AssocInv, Early, Starting

\* A heartbeat, and being connected again, after on_state_timer() found it
\* connected: the handshake is past its INIT by then.
LEMMA HeartbeatStep ==
    ASSUME AssocInv, NEW e \in Assoc!Endpoints, Assoc!Heartbeat(e)
    PROVE  AssocInv'
  <1>1. Shape /\ Nums("C") /\ Nums("S") /\ Sides /\ EchoesAcked /\ Kept /\ (Starting => NoTraffic)
    BY InvFacts
  <1>2. /\ beating # {} /\ state' = [state EXCEPT ![e] = "connected"]
        /\ Assoc!Send(e, <<Assoc!Chunk("heartbeat")>>) \/ UNCHANGED net
        /\ UNCHANGED <<live, streams, opened, ups, inits>>
    BY DEF Assoc!Heartbeat
  <1>3. ~Starting
    BY <1>1, <1>2 DEF NoTraffic
  <1>4. DataOnly(<<Assoc!Chunk("heartbeat")>>)
    BY CountOne, TypeOfChunk DEF DataOnly, Types
  <1>5. /\ DOMAIN net' = Assoc!Endpoints /\ \A x \in Assoc!Endpoints : IsSeq(net'[x])
        /\ NoHandshake("C") /\ NoHandshake("S")
    <2>1. CASE Assoc!Send(e, <<Assoc!Chunk("heartbeat")>>)
      BY <1>1, <1>4, <2>1, DataNet
    <2>2. CASE UNCHANGED net
      BY <1>1, <2>2 DEF Shape, NoHandshake, N, Nums
    <2> QED
      BY <1>2, <2>1, <2>2
  <1>6. DOMAIN state' = Assoc!Endpoints /\ (state'["C"] = "none" => state["C"] = "none")
    BY <1>1, <1>2 DEF Shape, Assoc!Endpoints
  <1>7. Shape' /\ Nums("C")' /\ Nums("S")'
    BY <1>1, <1>2, <1>5, <1>6, NextShape DEF Shape
  <1>8. Sides' /\ EchoesAcked' /\ N("S", "init")' <= N("S", "init") /\ N("S", "init") \in Nat
    BY <1>2, <1>5, <1>7, Settled
  <1>9. Early'
    <2>1. N("S", "init")' \in Nat
      BY <1>7 DEF Nums
    <2>2. Before' => Before
      BY <1>2, <1>6 DEF Before
    <2> QED
      BY <1>2, <1>3, <1>8, <2>1, <2>2, LaterStep
  <1>10. Kept'
    BY <1>1, <1>2 DEF Kept
  <1>11. Before' => Before
    BY <1>2, <1>6 DEF Before
  <1>12. Once'
    BY <1>2, <1>5, <1>7, <1>11, OnceKept
  <1> QED
    BY <1>7, <1>8, <1>9, <1>10, <1>12 DEF AssocInv

\* connect() and the INIT that the state timer sends again
LEMMA InitNums ==
    ASSUME Shape, Assoc!Send("C", <<Assoc!Chunk("init")>>)
    PROVE  /\ DOMAIN net' = Assoc!Endpoints /\ \A x \in Assoc!Endpoints : IsSeq(net'[x])
           /\ Delta("S", 1, 0, 0, 0, 0) /\ Delta("C", 0, 0, 0, 0, 0)
  <1>1. Brings(<<Assoc!Chunk("init")>>, Only("init"))
    BY BringsOne, TypeOfChunk
  <1>2. "C" \in Assoc!Endpoints /\ Assoc!Peer("C") = "S"
    BY DEF Assoc!Endpoints, Assoc!Peer
  <1>3. /\ DOMAIN net' = Assoc!Endpoints /\ \A x \in Assoc!Endpoints : IsSeq(net'[x])
        /\ \A ty \in Types : N("C", ty)' = N("C", ty) /\ N("S", ty)' = N("S", ty) + Only("init")[ty]
    BY <1>1, <1>2, SendNet DEF N
  <1>4. Nums("C") /\ Nums("S")
    BY NumsAreNat
  <1> QED
    BY <1>3, <1>4 DEF Delta, Only, Types, Nums

\* connect() is the first step of the handshake: what it clears is empty.
LEMMA ConnectStep ==
    ASSUME AssocInv, Assoc!Connect
    PROVE  AssocInv'
  <1>1. Shape /\ Nums("C") /\ Nums("S") /\ ups["C"] \in Nat /\ ups["S"] \in Nat /\ Sides /\ EchoesAcked /\ Kept
        /\ (Starting => NoTraffic /\ (Before => N("S", "init") = 0))
    BY InvFacts
  <1>2. /\ Before /\ state' = [state EXCEPT !["C"] = "connecting"]
        /\ streams' = [streams EXCEPT !["C"] = <<>>]
        /\ Assoc!Send("C", <<Assoc!Chunk("init")>>)
        /\ UNCHANGED <<live, opened, ups, inits, beating>>
    BY DEF Assoc!Connect, Before
  <1>3. /\ DOMAIN net' = Assoc!Endpoints /\ \A x \in Assoc!Endpoints : IsSeq(net'[x])
        /\ Delta("S", 1, 0, 0, 0, 0) /\ Delta("C", 0, 0, 0, 0, 0)
    BY <1>1, <1>2, InitNums
  <1>4. "C" \in Assoc!Endpoints
    BY DEF Assoc!Endpoints
  <1>5. Changes("C", {})
    BY <1>1, <1>2, <1>4, Emptied
  <1>6. /\ DOMAIN state' = Assoc!Endpoints /\ state'["C"] = "connecting"
        /\ \A x \in Assoc!Endpoints : x # "C" => state'[x] = state[x]
    BY <1>1, <1>2 DEF Shape, Assoc!Endpoints
  <1>7. Shape' /\ Nums("C")' /\ Nums("S")'
    BY <1>1, <1>2, <1>3, <1>4, <1>5, <1>6, NextShape DEF Shape
  <1>8. Sides' /\ EchoesAcked'
    <2>1. Sides'
      BY <1>1, <1>3 DEF Sides, Delta, Nums
    <2>2. N("C", "cookie_ack")' = N("C", "cookie_ack") /\ N("C", "cookie_ack") \in Nat
      BY <1>1, <1>3 DEF Delta, Nums
    <2>3. EchoesAcked'
      BY <1>1, <1>2, <2>2 DEF EchoesAcked
    <2> QED
      BY <2>1, <2>3
  <1>9. ASSUME inits = 0 PROVE NoTraffic /\ N("S", "init") = 0
    BY <1>1, <1>2, <1>9 DEF Starting
  <1>10. Early'
    <2> SUFFICES ASSUME inits = 0 PROVE NoTraffic' /\ ~Before'
      BY <1>2 DEF Early
    <2>1. NoTraffic /\ N("S", "init") = 0
      BY <1>9
    <2>2. /\ N("C", "init_ack")' = 0 /\ N("C", "cookie_ack")' = 0 /\ N("S", "cookie_echo")' = 0
          /\ N("S", "init")' <= 1 /\ N("C", "data")' = 0 /\ N("S", "data")' = 0
      BY <1>1, <1>3, <2>1, <1>4 DEF NoTraffic, Delta, Nums, Assoc!Endpoints
    <2>3. \A x \in Assoc!Endpoints : N(x, "data")' = 0
      BY <2>2 DEF Assoc!Endpoints, N
    <2>4. \A x \in Assoc!Endpoints : opened'[x] = {} /\ DOMAIN (streams'[x]) = {} /\ state'[x] # "connected"
      BY <1>2, <1>5, <1>6, <2>1 DEF NoTraffic, Changes
    <2>5. NoTraffic'
      BY <1>2, <2>1, <2>2, <2>3, <2>4 DEF NoTraffic, N
    <2> QED
      BY <1>6, <2>5 DEF Before
  <1>11. Kept'
    <2> SUFFICES ASSUME inits = 0, NEW x \in Assoc!Endpoints PROVE opened'[x] \subseteq DOMAIN (streams'[x])
      BY <1>2 DEF Kept
    <2> QED
      BY <1>2, <1>9 DEF NoTraffic
  <1>12. Once'
    <2>1. Token' = 0 /\ Token = 1 /\ Once
      BY <1>2, <1>6 DEF Token, Before, AssocInv
    <2>2. /\ N("S", "init")' = N("S", "init") + 1 /\ N("C", "init_ack")' = N("C", "init_ack")
          /\ N("S", "cookie_echo")' = N("S", "cookie_echo") /\ N("C", "cookie_ack")' = N("C", "cookie_ack")
          /\ ups' = ups
      BY <1>1, <1>2, <1>3 DEF Delta, Nums
    <2>3. HandshakeS' = HandshakeS
      BY <1>1, <2>1, <2>2 DEF HandshakeS, Nums
    <2>4. HandshakeC' = HandshakeC
      BY <1>1, <2>1, <2>2 DEF HandshakeC, Nums
    <2> QED
      BY <1>2, <2>1, <2>3, <2>4 DEF Once
  <1> QED
    BY <1>7, <1>8, <1>10, <1>11, <1>12 DEF AssocInv

\* The state timer sends the INIT again: from here on nothing is claimed of the streams.
LEMMA ResendInitStep ==
    ASSUME AssocInv, Assoc!ResendInit
    PROVE  AssocInv'
  <1>1. Shape /\ Nums("C") /\ Nums("S") /\ ups["C"] \in Nat /\ ups["S"] \in Nat /\ Sides /\ EchoesAcked
    BY InvFacts
  <1>2. /\ inits' = inits + 1 /\ Assoc!Send("C", <<Assoc!Chunk("init")>>)
        /\ UNCHANGED <<state, live, streams, opened, ups>>
    BY DEF Assoc!ResendInit
  <1>3. /\ DOMAIN net' = Assoc!Endpoints /\ \A x \in Assoc!Endpoints : IsSeq(net'[x])
        /\ Delta("S", 1, 0, 0, 0, 0) /\ Delta("C", 0, 0, 0, 0, 0)
    BY <1>1, <1>2, InitNums
  <1>4. Shape' /\ inits' # 0
    BY <1>1, <1>2, <1>3 DEF Shape
  <1>5. Sides' /\ EchoesAcked'
    <2>1. Sides'
      BY <1>1, <1>3 DEF Sides, Delta, Nums
    <2>2. N("C", "cookie_ack")' = N("C", "cookie_ack") /\ N("C", "cookie_ack") \in Nat
      BY <1>1, <1>3 DEF Delta, Nums
    <2>3. EchoesAcked'
      BY <1>1, <1>2, <2>2 DEF EchoesAcked
    <2> QED
      BY <2>1, <2>3
  <1> QED
    BY <1>4, <1>5 DEF AssocInv, Early, Kept, Once

\* close(): the object is gone, and its streams with it.
LEMMA CloseStep ==
    ASSUME AssocInv, NEW e \in Assoc!Endpoints, Assoc!Close(e)
    PROVE  AssocInv'
  <1>1. Shape /\ Nums("C") /\ Nums("S") /\ Early /\ Kept
    BY InvFacts
  <1> DEFINE out == <<Assoc!Chunk("shutdown_as_init")>> \o Assoc!CloseChunks(e)
  <1>2. Assoc!Send(e, out) /\ UNCHANGED <<opened, ups, inits, beating>>
    BY DEF Assoc!Close
  <1>3. DataOnly(out) /\ (DOMAIN streams[e] = {} => Count(out, "data") = 0)
    <2> DEFINE a == <<Assoc!Chunk("shutdown_as_init")>>
               b == Assoc!CloseChunks(e)
    <2>1. IsSeq(a) /\ \A ty \in Types : Count(a, ty) = 0
      BY CountOne, TypeOfChunk DEF Types
    <2>2. IsFiniteSet(DOMAIN streams[e])
      BY <1>1 DEF Shape
    <2>3. IsSeq(b) /\ (\A ty \in Types \ {"data"} : Count(b, ty) = 0)
          /\ (DOMAIN streams[e] = {} => Count(b, "data") = 0)
      <3>1. Count(b, "init") = 0 /\ IsSeq(b)
        BY <2>2, CountClose
      <3>2. \A ty \in Types \ {"data"} : Count(b, ty) = 0
        BY <2>2, CountClose
      <3>3. DOMAIN streams[e] = {} => Count(b, "data") = 0
        BY <2>2, CountClose
      <3> QED
        BY <3>1, <3>2, <3>3
    <2> HIDE DEF a, b
    <2>4. IsSeq(a \o b) /\ \A ty : Count(a \o b, ty) = Count(a, ty) + Count(b, ty)
      BY <2>1, <2>3, JoinIs, CountJoin
    <2>5. out = a \o b
      BY DEF a, b
    <2> HIDE DEF out
    <2>6. "data" \in Types
      BY DEF Types
    <2> QED
      BY <2>1, <2>3, <2>4, <2>5, <2>6 DEF DataOnly
  <1> HIDE DEF out
  <1>4. /\ DOMAIN net' = Assoc!Endpoints /\ \A x \in Assoc!Endpoints : IsSeq(net'[x])
        /\ NoHandshake("C") /\ NoHandshake("S")
        /\ DOMAIN streams[e] = {} =>
             N("C", "data")' <= N("C", "data") /\ N("S", "data")' <= N("S", "data")
    BY <1>1, <1>2, <1>3, DataNet
  <1>5. Changes(e, {})
    BY <1>1, Emptied DEF Assoc!Close
  <1>6. /\ DOMAIN state' = Assoc!Endpoints /\ DOMAIN live' = Assoc!Endpoints
        /\ state'[e] = "none" /\ ~live'[e]
        /\ \A x \in Assoc!Endpoints : x # e => state'[x] = state[x] /\ live'[x] = live[x]
    BY <1>1 DEF Assoc!Close, Shape
  <1>7. Shape' /\ Nums("C")' /\ Nums("S")'
    BY <1>1, <1>2, <1>4, <1>5, <1>6, NextShape DEF Shape
  <1>8. Sides' /\ EchoesAcked' /\ N("S", "init")' <= N("S", "init") /\ N("S", "init") \in Nat
    BY <1>2, <1>4, <1>7, Settled
  <1>9. Early'
    <2>1. Before' => Before
      BY <1>6 DEF Before, Assoc!Endpoints
    <2>2. ASSUME NoTraffic PROVE NoTraffic'
      <3>1. \A x \in Assoc!Endpoints : opened'[x] = {} /\ DOMAIN (streams'[x]) = {} /\ state'[x] # "connected"
        BY <1>2, <1>5, <1>6, <2>2 DEF NoTraffic, Changes
      <3>2. DOMAIN streams[e] = {}
        BY <2>2 DEF NoTraffic
      <3>3. N("C", "data")' = 0 /\ N("S", "data")' = 0
        BY <1>1, <1>4, <1>7, <2>2, <3>2 DEF NoTraffic, Assoc!Endpoints, Nums
      <3>4. /\ N("C", "init_ack")' = 0 /\ N("C", "cookie_ack")' = 0 /\ N("S", "cookie_echo")' = 0
            /\ N("S", "init")' <= 1
        BY <1>1, <1>4, <1>7, <2>2 DEF NoTraffic, Nums, NoHandshake
      <3>5. \A x \in Assoc!Endpoints : N(x, "data")' = 0
        BY <3>3 DEF Assoc!Endpoints, N
      <3> QED
        BY <1>2, <2>2, <3>1, <3>4, <3>5 DEF NoTraffic, N
    <2>3. N("S", "init")' \in Nat
      BY <1>7 DEF Nums
    <2> QED
      BY <1>1, <1>2, <1>8, <2>1, <2>2, <2>3 DEF Early
  <1>10. Kept'
    BY <1>1, <1>2, <1>5, <1>6 DEF Kept, Changes
  <1>11. Before' => Before
    BY <1>2, <1>6 DEF Before, Assoc!Endpoints
  <1>12. Once'
    BY <1>2, <1>4, <1>6, <1>7, <1>11, OnceKept
  <1> QED
    BY <1>7, <1>8, <1>9, <1>10, <1>12 DEF AssocInv

\* The invariant holds when both associations have just been made,
LEMMA InitAssocInv ==
    ASSUME Assoc!Init
    PROVE  AssocInv
  <1>1. \A e \in Assoc!Endpoints : net[e] = <<>> /\ opened[e] = {} /\ DOMAIN streams[e] = {}
                             /\ state[e] = "none" /\ ups[e] = 0
    BY DEF Assoc!Init
  <1>2. \A e \in Assoc!Endpoints, ty \in Types : N(e, ty) = 0 /\ IsSeq(net[e])
    BY <1>1, CountNone DEF N
  <1>3. Shape
    <2>1. IsFiniteSet({})
      BY FS_EmptySet
    <2>2. \A e \in Assoc!Endpoints : IsSeq(net[e])
      BY <1>2 DEF Types
    <2> QED
      BY <1>1, <2>1, <2>2 DEF Shape, Assoc!Init
  <1>4. /\ N("C", "init") = 0 /\ N("C", "init_ack") = 0 /\ N("C", "cookie_echo") = 0
        /\ N("C", "cookie_ack") = 0 /\ N("S", "init") = 0 /\ N("S", "init_ack") = 0
        /\ N("S", "cookie_echo") = 0 /\ N("S", "cookie_ack") = 0
        /\ \A e \in Assoc!Endpoints : N(e, "data") = 0
    BY <1>2 DEF Types, Assoc!Endpoints
  <1>5. Sides
    BY <1>4 DEF Sides
  <1>6. EchoesAcked
    BY <1>1, <1>4 DEF EchoesAcked, Assoc!Endpoints
  <1>7. NoTraffic
    BY <1>1, <1>4 DEF NoTraffic, Assoc!Init
  <1>8. Kept
    BY <1>1 DEF Kept
  <1>9. Once
    <2>1. Token \in {0, 1} /\ ups["C"] = 0 /\ ups["S"] = 0
      BY <1>1 DEF Token, Assoc!Endpoints
    <2> QED
      BY <1>4, <2>1 DEF Once, HandshakeS, HandshakeC
  <1> QED
    BY <1>3, <1>4, <1>5, <1>6, <1>7, <1>8, <1>9 DEF AssocInv, Early

\* and every step preserves it.
LEMMA NextAssocInv ==
    ASSUME AssocInv, [Assoc!Next]_Assoc!vars
    PROVE  AssocInv'
  <1>1. CASE Assoc!Connect
    BY <1>1, ConnectStep
  <1>2. CASE Assoc!ResendInit
    BY <1>2, ResendInitStep
  <1>3. ASSUME NEW e \in Assoc!Endpoints, Assoc!Receive(e)
        PROVE  AssocInv'
    BY <1>3, OnInitStep, PlainSteps, OnInitAckStep, OnCookieEchoStep, OnCookieAckStep,
       OnErrorStep, OnDataStep DEF Assoc!Receive
  <1>4. ASSUME NEW e \in Assoc!Endpoints, Assoc!HeartbeatTest(e) \/ Assoc!Heartbeat(e)
        PROVE  AssocInv'
    BY <1>4, HeartbeatTestStep, HeartbeatStep
  <1>5. ASSUME NEW e \in Assoc!Endpoints, Assoc!Close(e) \/ Assoc!CloseStream(e) \/ Assoc!Lose(e)
        PROVE  AssocInv'
    BY <1>5, CloseStep, CloseStreamStep, PlainSteps
  <1>6. CASE UNCHANGED Assoc!vars
    BY <1>6 DEF AssocInv, Shape, Sides, EchoesAcked, Early, Kept, NoTraffic, Before, N, Once, HandshakeS, HandshakeC, Token, Assoc!vars
  <1> QED
    BY <1>1, <1>2, <1>3, <1>4, <1>5, <1>6 DEF Assoc!Next

\* The client is never told more often than the server that the association is up:
\* on_cookie_ack() answers a COOKIE ACK that the server's on_cookie_echo() sent after it had
\* reported the association itself, whatever was lost, sent again or closed.
THEOREM ClientAlwaysFollows == Assoc!Spec => []ClientFollowsServer
  <1>1. AssocInv => ClientFollowsServer
    <2> SUFFICES ASSUME AssocInv PROVE ups["C"] <= ups["S"]
      BY DEF ClientFollowsServer
    <2>1. ups["C"] \in Nat /\ ups["S"] \in Nat /\ EchoesAcked /\ Nums("C")
      BY InvFacts
    <2> QED
      BY <2>1 DEF EchoesAcked, Nums
  <1> QED
    BY <1>1, InitAssocInv, NextAssocInv, PTL DEF Assoc!Spec

\* Until the state timer sends an INIT again, on_init() and connect() clear no stream of a
\* channel that was reported open and not reported closed, and neither do heartbeats,
\* operational errors, data, losses and closes.
THEOREM NothingDroppedAlways == Assoc!Spec => []NothingDropped
  <1>1. AssocInv => NothingDropped
    BY DEF AssocInv, Kept, NothingDropped, OpenChannelHasStream, Endpoints, Assoc!Endpoints
  <1> QED
    BY <1>1, InitAssocInv, NextAssocInv, PTL DEF Assoc!Spec

-----------------------------------------------------------------------------
(* The messages of the data channel that are on their way.                  *)

\* The id that make_next_stream_id() gives the offerer's first stream, and the endpoint that
\* answers it.
FirstSid == IF Offerer = "C" THEN 1 ELSE 2
Answerer == Assoc!Peer(Offerer)

\* The DCEP messages and the closes of that stream.
OpenIt == Assoc!Data(FirstSid, 0, "open")
AckIt == Assoc!Data(FirstSid, 0, "ack")
CloseIt == Assoc!Data(FirstSid, 1, "close")
IsClose(c) == c.type = "data" /\ c.sid = FirstSid /\ c.kind = "close"

\* The DATA chunks of s are those of the sequence d, in its order, and, if more, closes after them.
DataPlaces(s, d, more, f) ==
    /\ \A a, b \in 1..Len(d) : a < b => f[a] < f[b]
    /\ \A a \in 1..Len(d) : f[a] \in 1..Len(s) /\ s[f[a]] = d[a] /\ d[a].type = "data"
    /\ \A i \in 1..Len(s) : s[i].type = "data" =>
         \/ \E a \in 1..Len(d) : i = f[a]
         \/ more /\ IsClose(s[i]) /\ \A a \in 1..Len(d) : f[a] < i
Carries(s, d, more) == IsSeq(d) /\ \E f : DataPlaces(s, d, more, f)

\* Taking a packet that is no DATA chunk leaves them,
LEMMA CarriesPass ==
    ASSUME NEW s, IsSeq(s), s # <<>>, Head(s).type # "data", NEW d, NEW more, Carries(s, d, more)
    PROVE  Carries(Tail(s), d, more)
  <1> DEFINE n == Len(d)
             l == Len(s)
             u == Tail(s)
  <1>1. PICK f : DataPlaces(s, d, more, f)
    BY DEF Carries
  <1> DEFINE g == [a \in 1..n |-> f[a] - 1]
  <1>2. /\ l \in Nat \ {0} /\ IsSeq(u) /\ Len(u) = l - 1
        /\ Head(s) = s[1] /\ \A i \in 1..(l - 1) : u[i] = s[i + 1]
    BY TailIs
  <1>3. n \in Nat
    BY DEF Carries, IsSeq
  <1>4. /\ \A a, b \in 1..n : a < b => f[a] < f[b]
        /\ \A a \in 1..n : f[a] \in 1..l /\ s[f[a]] = d[a] /\ d[a].type = "data"
        /\ \A i \in 1..l : s[i].type = "data" =>
             \/ \E a \in 1..n : i = f[a]
             \/ more /\ IsClose(s[i]) /\ \A a \in 1..n : f[a] < i
    BY <1>1 DEF DataPlaces
  <1> HIDE DEF n, l, u
  <1>5. \A a \in 1..n : f[a] \in 2..l /\ g[a] = f[a] - 1 /\ g[a] \in 1..(l - 1) /\ g[a] + 1 = f[a]
    <2> SUFFICES ASSUME NEW a \in 1..n
                 PROVE  f[a] \in 2..l /\ g[a] = f[a] - 1 /\ g[a] \in 1..(l - 1) /\ g[a] + 1 = f[a]
      OBVIOUS
    <2>1. f[a] # 1 /\ f[a] \in 1..l
      BY <1>2, <1>4
    <2> QED
      BY <1>2, <2>1
  <1> HIDE DEF g
  <1>6. \A a, b \in 1..n : a < b => g[a] < g[b]
    BY <1>4, <1>5
  <1>7. \A a \in 1..n : g[a] \in 1..(l - 1) /\ u[g[a]] = d[a] /\ d[a].type = "data"
    <2> SUFFICES ASSUME NEW a \in 1..n
                 PROVE  g[a] \in 1..(l - 1) /\ u[g[a]] = d[a] /\ d[a].type = "data"
      OBVIOUS
    <2>1. g[a] \in 1..(l - 1) /\ g[a] + 1 = f[a]
      BY <1>5
    <2>2. u[g[a]] = s[f[a]]
      BY <1>2, <2>1
    <2> QED
      BY <1>4, <2>1, <2>2
  <1>8. ASSUME NEW i \in 1..(l - 1), u[i].type = "data"
        PROVE  \/ \E a \in 1..n : i = g[a]
               \/ more /\ IsClose(u[i]) /\ \A a \in 1..n : g[a] < i
    <2>1. i + 1 \in 1..l /\ u[i] = s[i + 1] /\ (i + 1) - 1 = i
      BY <1>2
    <2>2. CASE \E a \in 1..n : i + 1 = f[a]
      <3>1. PICK a \in 1..n : i + 1 = f[a]
        BY <2>2
      <3>2. g[a] = i
        BY <1>5, <2>1, <3>1
      <3> QED
        BY <3>2
    <2>3. CASE more /\ IsClose(s[i + 1]) /\ \A a \in 1..n : f[a] < i + 1
      <3>1. \A a \in 1..n : g[a] < i
        BY <1>5, <2>3
      <3> QED
        BY <2>1, <2>3, <3>1
    <2> QED
      BY <1>4, <1>8, <2>1, <2>2, <2>3
  <1>9. DataPlaces(u, d, more, g)
    BY <1>2, <1>6, <1>7, <1>8 DEF DataPlaces, n
  <1> QED
    BY <1>9 DEF Carries, u

\* a DATA chunk that is taken is the first of them,
LEMMA CarriesTake ==
    ASSUME NEW s, IsSeq(s), s # <<>>, Head(s).type = "data", NEW d, d # <<>>,
           NEW more, Carries(s, d, more)
    PROVE  Head(s) = Head(d) /\ Carries(Tail(s), Tail(d), more)
  <1> DEFINE n == Len(d)
             l == Len(s)
             u == Tail(s)
             e == Tail(d)
  <1>1. PICK f : DataPlaces(s, d, more, f)
    BY DEF Carries
  <1> DEFINE g == [a \in 1..(n - 1) |-> f[a + 1] - 1]
  <1>2. /\ l \in Nat \ {0} /\ IsSeq(u) /\ Len(u) = l - 1
        /\ Head(s) = s[1] /\ \A i \in 1..(l - 1) : u[i] = s[i + 1]
    BY TailIs
  <1>3. /\ n \in Nat \ {0} /\ IsSeq(e) /\ Len(e) = n - 1
        /\ Head(d) = d[1] /\ \A i \in 1..(n - 1) : e[i] = d[i + 1]
    <2>1. IsSeq(d)
      BY DEF Carries
    <2> QED
      BY <2>1, TailIs
  <1>4. /\ \A a, b \in 1..n : a < b => f[a] < f[b]
        /\ \A a \in 1..n : f[a] \in 1..l /\ s[f[a]] = d[a] /\ d[a].type = "data"
        /\ \A i \in 1..l : s[i].type = "data" =>
             \/ \E a \in 1..n : i = f[a]
             \/ more /\ IsClose(s[i]) /\ \A a \in 1..n : f[a] < i
    BY <1>1 DEF DataPlaces
  <1>5. \A a \in 1..(n - 1) : g[a] = f[a + 1] - 1
    OBVIOUS
  <1> HIDE DEF n, l, u, e, g
  <1>6. 1 \in 1..n /\ 1 \in 1..l /\ s[1].type = "data"
    BY <1>2, <1>3
  <1>7. f[1] = 1
    <2>1. ~(f[1] < 1) /\ f[1] \in 1..l
      BY <1>4, <1>6
    <2>2. PICK a \in 1..n : 1 = f[a]
      BY <1>4, <1>6, <2>1
    <2>3. CASE a = 1
      BY <2>2, <2>3
    <2>4. CASE a # 1
      <3>1. 1 < a
        BY <2>4, <1>3
      <3>2. f[1] < f[a]
        BY <1>4, <1>6, <3>1
      <3> QED
        BY <2>1, <2>2, <3>2
    <2> QED
      BY <2>3, <2>4
  <1>8. Head(s) = Head(d)
    BY <1>2, <1>3, <1>4, <1>6, <1>7
  <1>9. \A a \in 1..(n - 1) : a + 1 \in 1..n /\ 1 < a + 1
    BY <1>3
  <1>10. \A a \in 1..(n - 1) : f[a + 1] \in 2..l /\ g[a] = f[a + 1] - 1 /\ g[a] \in 1..(l - 1) /\ g[a] + 1 = f[a + 1]
    <2> SUFFICES ASSUME NEW a \in 1..(n - 1)
                 PROVE  f[a + 1] \in 2..l /\ g[a] = f[a + 1] - 1 /\ g[a] \in 1..(l - 1) /\ g[a] + 1 = f[a + 1]
      OBVIOUS
    <2>1. f[a + 1] \in 1..l /\ 1 < f[a + 1]
      BY <1>4, <1>6, <1>7, <1>9
    <2>2. g[a] = f[a + 1] - 1
      BY <1>5
    <2> QED
      BY <1>2, <2>1, <2>2
  <1>11. \A a, b \in 1..(n - 1) : a < b => g[a] < g[b]
    <2> SUFFICES ASSUME NEW a \in 1..(n - 1), NEW b \in 1..(n - 1), a < b PROVE g[a] < g[b]
      OBVIOUS
    <2>1. a + 1 < b + 1 /\ a + 1 \in 1..n /\ b + 1 \in 1..n
      BY <1>3
    <2>2. f[a + 1] < f[b + 1]
      BY <1>4, <2>1
    <2> QED
      BY <1>2, <1>10, <2>2
  <1>12. \A a \in 1..(n - 1) : g[a] \in 1..(l - 1) /\ u[g[a]] = e[a] /\ e[a].type = "data"
    <2> SUFFICES ASSUME NEW a \in 1..(n - 1) PROVE g[a] \in 1..(l - 1) /\ u[g[a]] = e[a] /\ e[a].type = "data"
      OBVIOUS
    <2>1. g[a] \in 1..(l - 1) /\ g[a] + 1 = f[a + 1]
      BY <1>10
    <2>2. u[g[a]] = s[f[a + 1]]
      BY <1>2, <2>1
    <2>3. s[f[a + 1]] = d[a + 1] /\ d[a + 1].type = "data"
      BY <1>4, <1>9
    <2> QED
      BY <1>3, <2>1, <2>2, <2>3
  <1>13. ASSUME NEW i \in 1..(l - 1), u[i].type = "data"
         PROVE  \/ \E a \in 1..(n - 1) : i = g[a]
                \/ more /\ IsClose(u[i]) /\ \A a \in 1..(n - 1) : g[a] < i
    <2>1. i + 1 \in 1..l /\ u[i] = s[i + 1] /\ (i + 1) - 1 = i /\ i + 1 # 1
      BY <1>2
    <2>2. CASE \E a \in 1..n : i + 1 = f[a]
      <3>1. PICK a \in 1..n : i + 1 = f[a]
        BY <2>2
      <3>2. a # 1
        BY <1>7, <2>1, <3>1
      <3>3. a - 1 \in 1..(n - 1) /\ (a - 1) + 1 = a
        BY <1>3, <3>2
      <3>4. g[a - 1] = i
        BY <1>5, <2>1, <3>1, <3>3
      <3> QED
        BY <3>3, <3>4
    <2>3. CASE more /\ IsClose(s[i + 1]) /\ \A a \in 1..n : f[a] < i + 1
      <3>1. \A a \in 1..(n - 1) : g[a] < i
        <4> SUFFICES ASSUME NEW a \in 1..(n - 1) PROVE g[a] < i
          OBVIOUS
        <4>1. f[a + 1] < i + 1
          BY <1>9, <2>3
        <4> QED
          BY <1>10, <4>1
      <3> QED
        BY <2>1, <2>3, <3>1
    <2> QED
      BY <1>4, <1>13, <2>1, <2>2, <2>3
  <1>14. DataPlaces(u, e, more, g)
    BY <1>2, <1>3, <1>11, <1>12, <1>13 DEF DataPlaces
  <1> QED
    BY <1>3, <1>8, <1>14 DEF Carries, u, e

\* and if there is none it is one of the closes.
LEMMA CarriesClose ==
    ASSUME NEW s, IsSeq(s), s # <<>>, Head(s).type = "data", NEW more, Carries(s, <<>>, more)
    PROVE  more /\ IsClose(Head(s)) /\ Carries(Tail(s), <<>>, more)
  <1> DEFINE l == Len(s)
             u == Tail(s)
  <1>1. PICK f : DataPlaces(s, <<>>, more, f)
    BY DEF Carries
  <1>2. /\ l \in Nat \ {0} /\ IsSeq(u) /\ Len(u) = l - 1
        /\ Head(s) = s[1] /\ \A i \in 1..(l - 1) : u[i] = s[i + 1]
    BY TailIs
  <1>3. Len(<<>>) = 0 /\ 1..0 = {}
    OBVIOUS
  <1>4. \A i \in 1..l : s[i].type = "data" => more /\ IsClose(s[i])
    BY <1>1, <1>3 DEF DataPlaces
  <1> HIDE DEF l, u
  <1>5. 1 \in 1..l /\ \A i \in 1..(l - 1) : i + 1 \in 1..l
    BY <1>2
  <1>6. DataPlaces(u, <<>>, more, f)
    BY <1>2, <1>3, <1>4, <1>5 DEF DataPlaces
  <1> QED
    BY <1>2, <1>4, <1>5, <1>6 DEF Carries, u

\* Packets without DATA chunks add none.
NoData(t) == IsSeq(t) /\ \A i \in 1..Len(t) : t[i].type # "data"

\* such a sequence may follow,
LEMMA CarriesJoin ==
    ASSUME NEW s, IsSeq(s), NEW t, NoData(t), NEW d, NEW more, Carries(s, d, more)
    PROVE  Carries(s \o t, d, more)
  <1> DEFINE n == Len(d)
             l == Len(s)
             k == Len(t)
             w == s \o t
  <1>1. PICK f : DataPlaces(s, d, more, f)
    BY DEF Carries
  <1>2. /\ l \in Nat /\ k \in Nat /\ Len(w) = l + k
        /\ \A i \in 1..(l + k) : w[i] = IF i <= l THEN s[i] ELSE t[i - l]
    BY JoinIs DEF NoData
  <1>3. /\ \A a, b \in 1..n : a < b => f[a] < f[b]
        /\ \A a \in 1..n : f[a] \in 1..l /\ s[f[a]] = d[a] /\ d[a].type = "data"
        /\ \A i \in 1..l : s[i].type = "data" =>
             \/ \E a \in 1..n : i = f[a]
             \/ more /\ IsClose(s[i]) /\ \A a \in 1..n : f[a] < i
    BY <1>1 DEF DataPlaces
  <1>4. \A i \in 1..k : t[i].type # "data"
    BY DEF NoData
  <1> HIDE DEF n, l, k, w
  <1>5. \A i \in 1..l : i \in 1..(l + k) /\ w[i] = s[i]
    BY <1>2
  <1>6. \A i \in 1..(l + k) : w[i].type = "data" => i \in 1..l
    <2> SUFFICES ASSUME NEW i \in 1..(l + k), w[i].type = "data", ~(i <= l) PROVE FALSE
      BY <1>2
    <2>1. i - l \in 1..k /\ w[i] = t[i - l]
      BY <1>2
    <2> QED
      BY <1>4, <2>1
  <1>7. DataPlaces(w, d, more, f)
    BY <1>2, <1>3, <1>5, <1>6 DEF DataPlaces, n
  <1> QED
    BY <1>7 DEF Carries, w

\* What sending one packet gives.
LEMMA JoinOne ==
    ASSUME NEW s, IsSeq(s), NEW c
    PROVE  /\ Len(s) \in Nat /\ Len(s \o <<c>>) = Len(s) + 1 /\ IsSeq(s \o <<c>>)
           /\ \A i \in 1..(Len(s) + 1) : (s \o <<c>>)[i] = IF i <= Len(s) THEN s[i] ELSE c
  <1> DEFINE t == <<c>>
             l == Len(s)
             w == s \o t
  <1>1. IsSeq(t) /\ Len(t) = 1 /\ t[1] = c
    BY CountOne
  <1> HIDE DEF t
  <1>2. /\ IsSeq(w) /\ l \in Nat /\ Len(w) = l + 1
        /\ \A i \in 1..(l + 1) : w[i] = IF i <= l THEN s[i] ELSE t[i - l]
    BY <1>1, JoinIs
  <1> HIDE DEF w, l
  <1>3. ASSUME NEW i \in 1..(l + 1), ~(i <= l) PROVE w[i] = c
    <2>1. i - l = 1
      BY <1>2, <1>3
    <2> QED
      BY <1>1, <1>2, <1>3, <2>1
  <1>4. \A i \in 1..(l + 1) : w[i] = IF i <= l THEN s[i] ELSE c
    BY <1>2, <1>3
  <1> QED
    BY <1>2, <1>4 DEF w, l, t

\* A close comes after them,
LEMMA CarriesMore ==
    ASSUME NEW s, IsSeq(s), NEW c, IsClose(c), NEW d, Carries(s, d, TRUE)
    PROVE  Carries(s \o <<c>>, d, TRUE)
  <1> DEFINE n == Len(d)
             l == Len(s)
             w == s \o <<c>>
  <1>1. PICK f : DataPlaces(s, d, TRUE, f)
    BY DEF Carries
  <1>2. /\ l \in Nat /\ Len(w) = l + 1
        /\ \A i \in 1..(l + 1) : w[i] = IF i <= l THEN s[i] ELSE c
    BY JoinOne
  <1>3. /\ \A a, b \in 1..n : a < b => f[a] < f[b]
        /\ \A a \in 1..n : f[a] \in 1..l /\ s[f[a]] = d[a] /\ d[a].type = "data"
        /\ \A i \in 1..l : s[i].type = "data" =>
             \/ \E a \in 1..n : i = f[a]
             \/ IsClose(s[i]) /\ \A a \in 1..n : f[a] < i
    BY <1>1 DEF DataPlaces
  <1> HIDE DEF n, l, w
  <1>5. \A i \in 1..l : i \in 1..(l + 1) /\ w[i] = s[i]
    BY <1>2
  <1>6. w[l + 1] = c /\ \A a \in 1..n : f[a] < l + 1
    BY <1>2, <1>3
  <1>7. \A i \in 1..(l + 1) : i \in 1..l \/ i = l + 1
    BY <1>2
  <1>8. DataPlaces(w, d, TRUE, f)
    BY <1>2, <1>3, <1>5, <1>6, <1>7 DEF DataPlaces, n
  <1> QED
    BY <1>8 DEF Carries, w

\* and so does another DATA chunk if nothing does yet.
LEMMA CarriesPut ==
    ASSUME NEW s, IsSeq(s), NEW c, c.type = "data", NEW d, Carries(s, d, FALSE)
    PROVE  Carries(s \o <<c>>, Append(d, c), FALSE)
  <1> DEFINE n == Len(d)
             l == Len(s)
             w == s \o <<c>>
             e == Append(d, c)
  <1>1. PICK f : DataPlaces(s, d, FALSE, f)
    BY DEF Carries
  <1> DEFINE g == [a \in 1..(n + 1) |-> IF a = n + 1 THEN l + 1 ELSE f[a]]
  <1>2. /\ l \in Nat /\ Len(w) = l + 1
        /\ \A i \in 1..(l + 1) : w[i] = IF i <= l THEN s[i] ELSE c
    BY JoinOne
  <1>3. /\ \A a, b \in 1..n : a < b => f[a] < f[b]
        /\ \A a \in 1..n : f[a] \in 1..l /\ s[f[a]] = d[a] /\ d[a].type = "data"
        /\ \A i \in 1..l : s[i].type = "data" => \E a \in 1..n : i = f[a]
    BY <1>1 DEF DataPlaces
  <1>4. n \in Nat /\ Len(e) = n + 1 /\ IsSeq(e) /\ \A a \in 1..(n + 1) : e[a] = IF a = n + 1 THEN c ELSE d[a]
    <2>1. PICK S : d \in Seq(S)
      BY DEF Carries, IsSeq
    <2>2. d \in Seq(S \union {c})
      BY <2>1
    <2>3. n \in Nat /\ Len(e) = n + 1 /\ (\A a \in 1..n : e[a] = d[a]) /\ e[n + 1] = c
      BY <2>2, AppendProperties
    <2>4. IsSeq(e)
      <3>1. e \in Seq(S \union {c})
        BY <2>2
      <3> QED
        BY <3>1 DEF IsSeq
    <2> QED
      BY <2>3, <2>4
  <1> HIDE DEF n, l, w, e
  <1>5. g[n + 1] = l + 1 /\ \A a \in 1..n : a \in 1..(n + 1) /\ g[a] = f[a] /\ e[a] = d[a]
    BY <1>4
  <1>6. \A a \in 1..(n + 1) : a \in 1..n \/ a = n + 1
    BY <1>4
  <1> HIDE DEF g
  <1>7. \A i \in 1..l : i \in 1..(l + 1) /\ w[i] = s[i]
    BY <1>2
  <1>8. w[l + 1] = c /\ \A a \in 1..n : f[a] < l + 1
    BY <1>2, <1>3
  <1>9. \A i \in 1..(l + 1) : i \in 1..l \/ i = l + 1
    BY <1>2
  <1>10. \A a, b \in 1..(n + 1) : a < b => g[a] < g[b]
    <2> SUFFICES ASSUME NEW a \in 1..(n + 1), NEW b \in 1..(n + 1), a < b PROVE g[a] < g[b]
      OBVIOUS
    <2>1. a \in 1..n
      BY <1>4, <1>6
    <2>2. CASE b \in 1..n
      BY <1>3, <1>5, <2>1, <2>2
    <2>3. CASE b = n + 1
      BY <1>5, <1>8, <2>1, <2>3
    <2> QED
      BY <1>6, <2>2, <2>3
  <1>11. \A a \in 1..(n + 1) : g[a] \in 1..(l + 1) /\ w[g[a]] = e[a] /\ e[a].type = "data"
    <2> SUFFICES ASSUME NEW a \in 1..(n + 1) PROVE g[a] \in 1..(l + 1) /\ w[g[a]] = e[a] /\ e[a].type = "data"
      OBVIOUS
    <2>1. CASE a \in 1..n
      BY <1>3, <1>5, <1>7, <2>1
    <2>2. CASE a = n + 1
      BY <1>2, <1>4, <1>5, <1>8, <2>2
    <2> QED
      BY <1>6, <2>1, <2>2
  <1>12. \A i \in 1..(l + 1) : w[i].type = "data" => \E a \in 1..(n + 1) : i = g[a]
    <2> SUFFICES ASSUME NEW i \in 1..(l + 1), w[i].type = "data" PROVE \E a \in 1..(n + 1) : i = g[a]
      OBVIOUS
    <2>1. CASE i \in 1..l
      <3>1. PICK a \in 1..n : i = f[a]
        BY <1>3, <1>7, <2>1
      <3> QED
        BY <1>5, <3>1
    <2>2. CASE i = l + 1
      BY <1>4, <1>5, <2>2
    <2> QED
      BY <1>9, <2>1, <2>2
  <1>13. DataPlaces(w, e, FALSE, g)
    BY <1>2, <1>4, <1>10, <1>11, <1>12 DEF DataPlaces
  <1> QED
    BY <1>4, <1>13 DEF Carries, w, e

\* That closes may follow is no claim.
LEMMA CarriesWeak ==
    ASSUME NEW s, NEW d, NEW more, Carries(s, d, more)
    PROVE  Carries(s, d, TRUE)
  <1>1. PICK f : DataPlaces(s, d, more, f)
    BY DEF Carries
  <1>2. DataPlaces(s, d, TRUE, f)
    BY <1>1 DEF DataPlaces
  <1> QED
    BY <1>2 DEF Carries

\* A close that comes first is a close like any other.
LEMMA CarriesOnly ==
    ASSUME NEW s, NEW c, IsClose(c), NEW more, Carries(s, <<c>>, more)
    PROVE  Carries(s, <<>>, TRUE)
  <1>1. PICK f : DataPlaces(s, <<c>>, more, f)
    BY DEF Carries
  <1>2. Len(<<c>>) = 1 /\ <<c>>[1] = c /\ Len(<<>>) = 0 /\ 1..0 = {} /\ 1..1 = {1}
    OBVIOUS
  <1>3. \A i \in 1..Len(s) : s[i].type = "data" => IsClose(s[i])
    BY <1>1, <1>2 DEF DataPlaces
  <1>4. DataPlaces(s, <<>>, TRUE, f)
    BY <1>2, <1>3 DEF DataPlaces
  <1> QED
    BY <1>4, CountNone DEF Carries

\* No packets carry nothing.
LEMMA CarriesNone == Carries(<<>>, <<>>, FALSE)
  <1>1. DataPlaces(<<>>, <<>>, FALSE, <<>>)
    BY DEF DataPlaces
  <1> QED
    BY <1>1, CountNone DEF Carries

\* It is the elements of d that matter.
LEMMA CarriesSame ==
    ASSUME NEW s, NEW d, NEW e, IsSeq(e), NEW more, Len(d) = Len(e), \A a \in 1..Len(d) : d[a] = e[a], Carries(s, d, more)
    PROVE  Carries(s, e, more)
  <1>1. PICK f : DataPlaces(s, d, more, f)
    BY DEF Carries
  <1>2. DataPlaces(s, e, more, f)
    BY <1>1 DEF DataPlaces
  <1> QED
    BY <1>2 DEF Carries

\* These lemmas for a d of one or two chunks: taking the first of one,
LEMMA CarriesTakeOne ==
    ASSUME NEW s, IsSeq(s), s # <<>>, Head(s).type = "data", NEW c, NEW more, Carries(s, <<c>>, more)
    PROVE  Head(s) = c /\ Carries(Tail(s), <<>>, more)
  <1> DEFINE d == <<c>>
  <1>1. IsSeq(d) /\ d # <<>> /\ Head(d) = c /\ Tail(d) = <<>>
    BY CountOne
  <1> HIDE DEF d
  <1>2. Carries(s, d, more)
    BY DEF d
  <1>3. Head(s) = Head(d) /\ Carries(Tail(s), Tail(d), more)
    BY <1>1, <1>2, CarriesTake
  <1> QED
    BY <1>1, <1>3

\* and of two,
LEMMA CarriesTakeTwo ==
    ASSUME NEW s, IsSeq(s), s # <<>>, Head(s).type = "data", NEW b, NEW c, NEW more,
           Carries(s, <<b, c>>, more)
    PROVE  Head(s) = b /\ Carries(Tail(s), <<c>>, more)
  <1> DEFINE d == <<b, c>>
  <1>1. d \in Seq({b, c}) /\ Len(d) = 2 /\ d[1] = b /\ d[2] = c
    OBVIOUS
  <1>2. Carries(s, d, more)
    OBVIOUS
  <1> HIDE DEF d
  <1>3. IsSeq(d) /\ d # <<>>
    BY <1>1 DEF IsSeq
  <1>4. Head(s) = Head(d) /\ Carries(Tail(s), Tail(d), more)
    BY <1>2, <1>3, CarriesTake
  <1> DEFINE u == Tail(d)
  <1>5. Len(u) = Len(d) - 1 /\ Head(d) = d[1] /\ \A i \in 1..(Len(d) - 1) : u[i] = d[i + 1]
    BY <1>3, TailIs
  <1> HIDE DEF u
  <1>6. Len(u) = 1 /\ Head(d) = b /\ u[1] = c
    <2>1. Len(d) - 1 = 1 /\ 1 \in 1..(Len(d) - 1)
      BY <1>1
    <2>2. u[1] = d[1 + 1] /\ 1 + 1 = 2
      BY <1>5, <2>1
    <2> QED
      BY <1>1, <1>5, <2>1, <2>2
  <1>8. Len(u) = Len(<<c>>) /\ \A a \in 1..Len(u) : u[a] = <<c>>[a]
    <2>1. Len(<<c>>) = 1 /\ <<c>>[1] = c /\ 1..1 = {1}
      OBVIOUS
    <2> QED
      BY <1>6, <2>1
  <1>7. Carries(Tail(s), <<c>>, more)
    BY <1>4, <1>8, CountOne, CarriesSame DEF u
  <1> QED
    BY <1>4, <1>6, <1>7

\* putting the first
LEMMA CarriesPutOne ==
    ASSUME NEW s, IsSeq(s), NEW c, c.type = "data", Carries(s, <<>>, FALSE)
    PROVE  Carries(s \o <<c>>, <<c>>, FALSE)
  <1>1. IsSeq(<<>>) /\ Append(<<>>, c) = <<c>>
    BY CountNone
  <1>2. Carries(s \o <<c>>, Append(<<>>, c), FALSE)
    BY <1>1, CarriesPut
  <1> QED
    BY <1>1, <1>2

\* and the second.
LEMMA CarriesPutTwo ==
    ASSUME NEW s, IsSeq(s), NEW b, NEW c, c.type = "data", Carries(s, <<b>>, FALSE)
    PROVE  Carries(s \o <<c>>, <<b, c>>, FALSE)
  <1> DEFINE d == <<b>>
             e == Append(d, c)
  <1>1. IsSeq(d) /\ Len(d) = 1 /\ d[1] = b
    BY CountOne
  <1>2. d \in Seq({b, c})
    OBVIOUS
  <1>3. Carries(s, d, FALSE)
    OBVIOUS
  <1> HIDE DEF d
  <1>4. Len(e) = 2 /\ e[1] = b /\ e[2] = c
    <2>1. /\ Len(e) = Len(d) + 1 /\ (\A i \in 1..Len(d) : e[i] = d[i]) /\ e[Len(d) + 1] = c
      <3>1. c \in {b, c}
        OBVIOUS
      <3> QED
        BY <1>2, <3>1, AppendProperties
    <2> HIDE DEF e
    <2> QED
      BY <1>1, <2>1
  <1>5. Carries(s \o <<c>>, e, FALSE)
    BY <1>1, <1>3, CarriesPut
  <1> HIDE DEF e
  <1>6. Len(e) = Len(<<b, c>>) /\ \A a \in 1..Len(e) : e[a] = <<b, c>>[a]
    <2>1. Len(<<b, c>>) = 2 /\ <<b, c>>[1] = b /\ <<b, c>>[2] = c /\ 1..2 = {1, 2}
      OBVIOUS
    <2> QED
      BY <1>4, <2>1
  <1>7. IsSeq(<<b, c>>)
    <2>1. <<b, c>> \in Seq({b, c})
      OBVIOUS
    <2> QED
      BY <2>1 DEF IsSeq
  <1> QED
    BY <1>5, <1>6, <1>7, CarriesSame

-----------------------------------------------------------------------------
\* What is on its way to e; the stream at e, and its sequence numbers.
On(e, d, more) == Carries(net[e], d, more)
Channel(e) == Assoc!Stream(e, FirstSid)
Sent(e) == Channel(e).send
Recv(e) == Channel(e).recv
NoChannel == [sid |-> 0, has |-> FALSE]

\* Nothing is lost, closed or sent again.
Good == lost = 0 /\ inits = 0 /\ \A e \in Assoc!Endpoints : live[e] /\ downs[e] = 0

\* What else is needed of the types of the variables.
Frame ==
    /\ DOMAIN channel = Assoc!Endpoints /\ DOMAIN nextSid = Assoc!Endpoints /\ DOMAIN downs = Assoc!Endpoints
    /\ lost \in Nat
    /\ \A e \in Assoc!Endpoints :
         downs[e] \in Nat /\ \A s \in DOMAIN streams[e] : streams[e][s] \in Assoc!StreamType

\* The offerer has not been connected and there is no stream.
Unopened ==
    /\ nextSid[Offerer] = FirstSid
    /\ \A e \in Assoc!Endpoints :
         On(e, <<>>, FALSE) /\ DOMAIN streams[e] = {} /\ opened[e] = {} /\ channel[e] = NoChannel

\* The open is on its way, and perhaps a close after it.
Offered ==
    /\ channel[Offerer].sid = FirstSid /\ channel[Answerer] = NoChannel
    /\ DOMAIN streams[Answerer] = {} /\ opened[Answerer] = {} /\ opened[Offerer] = {}
    /\ On(Offerer, <<>>, FALSE) /\ Recv(Offerer) = 0
    /\ \/ Sent(Offerer) = 1 /\ On(Answerer, <<OpenIt>>, FALSE)
       \/ On(Answerer, <<OpenIt, CloseIt>>, TRUE)

\* The answerer has opened the channel: its ack is on its way, or has arrived, or the offerer
\* has closed the channel.
AckComes ==
    /\ Sent(Offerer) = 1 /\ Recv(Offerer) = 0 /\ opened[Offerer] = {}
    /\ On(Offerer, <<AckIt>>, FALSE) /\ On(Answerer, <<>>, FALSE)
BothOpen ==
    /\ Sent(Offerer) = 1 /\ Recv(Offerer) = 1 /\ opened[Offerer] = {FirstSid}
    /\ On(Offerer, <<>>, FALSE) /\ On(Answerer, <<>>, FALSE)
OffererCloses ==
    /\ On(Answerer, <<CloseIt>>, TRUE)
    /\ \/ On(Offerer, <<AckIt>>, FALSE) /\ Recv(Offerer) = 0 /\ opened[Offerer] = {}
       \/ On(Offerer, <<>>, FALSE) /\ opened[Offerer] = {}
       \/ On(Offerer, <<>>, FALSE) /\ opened[Offerer] = {FirstSid} /\ Recv(Offerer) = 1
Accepted ==
    /\ channel[Offerer].sid = FirstSid /\ channel[Answerer].sid = FirstSid
    /\ opened[Answerer] = {FirstSid} /\ Sent(Answerer) = 1 /\ Recv(Answerer) = 1
    /\ AckComes \/ BothOpen \/ OffererCloses

\* The answerer has closed it again: the offerer is still to hear of the ack, of the close, of
\* nothing but further closes.
Ended ==
    /\ channel[Offerer].sid = FirstSid /\ channel[Answerer].sid = FirstSid
    /\ opened[Answerer] = {} /\ On(Answerer, <<>>, TRUE)
    /\ \/ On(Offerer, <<AckIt, CloseIt>>, TRUE) /\ Recv(Offerer) = 0 /\ opened[Offerer] = {}
       \/ On(Offerer, <<CloseIt>>, TRUE) /\ Recv(Offerer) = 1 /\ opened[Offerer] = {FirstSid}
       \/ On(Offerer, <<>>, TRUE) /\ opened[Offerer] = {}

Talking == Offered \/ Accepted \/ Ended
Talk == Good => IF ups[Offerer] = 0 THEN Unopened ELSE Talking

\* The invariant behind ChannelInStep.
TalkInv == AssocInv /\ Frame /\ Talk

\* The offerer and the answerer are the two endpoints.
LEMMA TwoEnds ==
    /\ Offerer \in Assoc!Endpoints /\ Answerer \in Assoc!Endpoints /\ Offerer # Answerer
    /\ Assoc!Peer(Offerer) = Answerer /\ Assoc!Peer(Answerer) = Offerer
    /\ \A e \in Assoc!Endpoints : e = Offerer \/ e = Answerer
    /\ FirstSid \in {1, 2}
  BY OffererAssumption DEF Endpoints, Assoc!Endpoints, Assoc!Peer, Answerer, FirstSid

\* The messages and their fields.
LEMMA MessageFields ==
    /\ OpenIt.type = "data" /\ OpenIt.sid = FirstSid /\ OpenIt.ssn = 0 /\ OpenIt.kind = "open"
    /\ AckIt.type = "data" /\ AckIt.sid = FirstSid /\ AckIt.ssn = 0 /\ AckIt.kind = "ack"
    /\ CloseIt.type = "data" /\ CloseIt.sid = FirstSid /\ CloseIt.ssn = 1 /\ CloseIt.kind = "close"
    /\ \A n : IsClose(Assoc!Data(FirstSid, n, "close"))
  BY DEF OpenIt, AckIt, CloseIt, Assoc!Data, IsClose

\* What Send and Reply do to the two queues.
Sends(e, out) ==
    /\ net'[e] = net[e] /\ net'[Assoc!Peer(e)] = net[Assoc!Peer(e)] \o out /\ DOMAIN net' = Assoc!Endpoints
Replies(e, out) ==
    /\ net'[e] = Tail(net[e]) /\ net'[Assoc!Peer(e)] = net[Assoc!Peer(e)] \o out /\ DOMAIN net' = Assoc!Endpoints

\* A send adds to the peer's queue,
LEMMA SendIs ==
    ASSUME Shape, NEW e \in Assoc!Endpoints, NEW out, Assoc!Send(e, out)
    PROVE  Sends(e, out)
  <1>1. Assoc!Peer(e) \in Assoc!Endpoints /\ Assoc!Peer(e) # e /\ DOMAIN net = Assoc!Endpoints
    BY PeerIs DEF Shape
  <1> DEFINE new == net[Assoc!Peer(e)] \o out
  <1>2. net' = [net EXCEPT ![Assoc!Peer(e)] = new]
    BY DEF Assoc!Send
  <1> HIDE DEF new
  <1>3. DOMAIN net' = Assoc!Endpoints /\ net'[e] = net[e] /\ net'[Assoc!Peer(e)] = new
    BY <1>1, <1>2
  <1> QED
    BY <1>3 DEF Sends, new

\* and a reply takes the first packet of its own as well.
LEMMA ReplyIs ==
    ASSUME Shape, NEW e \in Assoc!Endpoints, NEW out, Assoc!Reply(e, out)
    PROVE  Replies(e, out)
  <1>1. Assoc!Peer(e) \in Assoc!Endpoints /\ Assoc!Peer(e) # e /\ DOMAIN net = Assoc!Endpoints
    BY PeerIs DEF Shape
  <1> DEFINE new == net[Assoc!Peer(e)] \o out
             rest == Tail(net[e])
  <1>2. net' = [net EXCEPT ![e] = rest, ![Assoc!Peer(e)] = new]
    BY <1>1 DEF Assoc!Reply
  <1> HIDE DEF new, rest
  <1>3. DOMAIN net' = Assoc!Endpoints /\ net'[e] = rest /\ net'[Assoc!Peer(e)] = new
    BY <1>1, <1>2
  <1> QED
    BY <1>3 DEF Replies, new, rest

\* A reply without data leaves queues that are joined with nothing as they are.
LEMMA JoinNothing ==
    ASSUME Shape, NEW e \in Assoc!Endpoints
    PROVE  net[e] \o <<>> = net[e] /\ IsSeq(net[e])
  <1>1. IsSeq(net[e])
    BY DEF Shape
  <1>2. PICK S : net[e] \in Seq(S)
    BY <1>1 DEF IsSeq
  <1> QED
    BY <1>1, <1>2

-----------------------------------------------------------------------------
\* What a step leaves alone at x.
Alone(x) == Channel(x)' = Channel(x) /\ opened'[x] = opened[x] /\ channel'[x] = channel[x]

\* A write to the channel's stream is what it says it is,
LEMMA ChannelWritten ==
    ASSUME Shape, NEW e \in Assoc!Endpoints, NEW v, streams' = Assoc!With(e, FirstSid, v)
    PROVE  Channel(e)' = v /\ Channel(Assoc!Peer(e))' = Channel(Assoc!Peer(e))
  <1>1. Assoc!Peer(e) \in Assoc!Endpoints /\ Assoc!Peer(e) # e /\ DOMAIN streams = Assoc!Endpoints
    BY PeerIs DEF Shape
  <1> DEFINE f == [t \in DOMAIN streams[e] \union {FirstSid} |-> IF t = FirstSid THEN v ELSE streams[e][t]]
  <1>2. FirstSid \in DOMAIN f /\ f[FirstSid] = v
    OBVIOUS
  <1>3. streams' = [streams EXCEPT ![e] = f]
    BY DEF Assoc!With
  <1> HIDE DEF f
  <1>4. streams'[e] = f /\ streams'[Assoc!Peer(e)] = streams[Assoc!Peer(e)]
    BY <1>1, <1>3
  <1> QED
    BY <1>2, <1>4 DEF Channel, Assoc!Stream

\* and an erased stream is as good as a new one.
LEMMA ChannelErased ==
    ASSUME Shape, NEW e \in Assoc!Endpoints,
           streams' = [streams EXCEPT ![e] = Assoc!RestrictDomain(@, LAMBDA t : t # FirstSid)]
    PROVE  Channel(e)' = Assoc!Fresh /\ Channel(Assoc!Peer(e))' = Channel(Assoc!Peer(e))
  <1>1. Assoc!Peer(e) \in Assoc!Endpoints /\ Assoc!Peer(e) # e /\ DOMAIN streams = Assoc!Endpoints
    BY PeerIs DEF Shape
  <1> DEFINE f == Assoc!RestrictDomain(streams[e], LAMBDA t : t # FirstSid)
  <1>2. FirstSid \notin DOMAIN f
    BY DEF Assoc!RestrictDomain, Assoc!Restrict
  <1>3. streams' = [streams EXCEPT ![e] = f]
    OBVIOUS
  <1> HIDE DEF f
  <1>4. streams'[e] = f /\ streams'[Assoc!Peer(e)] = streams[Assoc!Peer(e)]
    BY <1>1, <1>3
  <1> QED
    BY <1>2, <1>4 DEF Channel, Assoc!Stream

\* The sequence numbers of the channel are natural numbers.
LEMMA ChannelType ==
    ASSUME Frame, NEW e \in Assoc!Endpoints
    PROVE  Channel(e) \in Assoc!StreamType /\ Sent(e) \in Nat /\ Recv(e) \in Nat
  <1>1. Channel(e) \in Assoc!StreamType
    BY DEF Channel, Assoc!Stream, Frame, Assoc!Fresh, Assoc!StreamType
  <1> QED
    BY <1>1 DEF Sent, Recv, Assoc!StreamType

\* The four ways in which insert_data_chunk() handles a chunk of the channel: it is out of turn,
\* or it is an open, an ack or a close.
Skips(e) == Replies(e, <<>>) /\ opened'[e] = opened[e] /\ channel'[e] = channel[e]
Opens(e) ==
    /\ Replies(e, <<Assoc!Data(FirstSid, Sent(e), "ack")>>)
    /\ opened'[e] = opened[e] \union {FirstSid}
    /\ channel'[e] = IF channel[e].has THEN channel[e] ELSE [sid |-> FirstSid, has |-> TRUE]
    /\ Sent(e)' = Sent(e) + 1 /\ Recv(e)' = Recv(e) + 1
Acks(e) ==
    /\ Replies(e, <<>>)
    /\ opened'[e] = opened[e] \union {FirstSid}
    /\ channel'[e] = IF channel[e].has THEN channel[e] ELSE [sid |-> FirstSid, has |-> TRUE]
    /\ Sent(e)' = Sent(e) /\ Recv(e)' = Recv(e) + 1
Closes(e) ==
    /\ Replies(e, <<Assoc!Data(FirstSid, Sent(e), "close")>>)
    /\ opened'[e] = opened[e] \ {FirstSid} /\ channel'[e] = channel[e]
Handles(e, c) ==
    /\ Alone(Assoc!Peer(e))
    /\ \/ c.ssn # Recv(e) /\ Skips(e)
       \/ c.ssn = Recv(e) /\ \/ c.kind = "open" /\ Opens(e)
                             \/ c.kind = "ack" /\ Acks(e)
                             \/ c.kind = "close" /\ Closes(e)

\* There is no fifth.
LEMMA OnDataDoes ==
    ASSUME Shape, Frame, NEW e \in Assoc!Endpoints, Assoc!OnData(e), Head(net[e]).sid = FirstSid
    PROVE  Handles(e, Head(net[e]))
  <1> DEFINE c == Head(net[e])
             s == Channel(e)
             p == Assoc!Peer(e)
  <1>1. p \in Assoc!Endpoints /\ p # e /\ DOMAIN opened = Assoc!Endpoints /\ DOMAIN channel = Assoc!Endpoints
    BY PeerIs DEF Shape, Frame
  <1>2. s \in Assoc!StreamType
    BY ChannelType
  <1>3. \/ c.ssn # s.recv /\ Assoc!Reply(e, <<>>) /\ streams' = Assoc!With(e, FirstSid, s) /\ UNCHANGED <<opened, channel>>
        \/ c.ssn = s.recv /\ c.kind = "open" /\ Assoc!OnOpen(e, FirstSid, s)
        \/ c.ssn = s.recv /\ c.kind = "ack" /\ Assoc!OnAck(e, FirstSid, s)
        \/ c.ssn = s.recv /\ c.kind = "close" /\ Assoc!OnStreamClose(e, FirstSid, s)
    BY DEF Assoc!OnData, Channel
  <1>4. s.recv = Recv(e) /\ s.send = Sent(e)
    BY DEF Recv, Sent
  <1> HIDE DEF c, s
  <1> SUFFICES Handles(e, c)
    BY DEF c
  <1>5. CASE c.ssn # s.recv /\ Assoc!Reply(e, <<>>) /\ streams' = Assoc!With(e, FirstSid, s) /\ UNCHANGED <<opened, channel>>
    <2>1. Replies(e, <<>>)
      BY <1>5, ReplyIs
    <2>2. Channel(p)' = Channel(p)
      BY <1>5, ChannelWritten
    <2> QED
      BY <1>4, <1>5, <2>1, <2>2 DEF Handles, Skips, Alone
  <1>6. CASE c.ssn = s.recv /\ c.kind = "open" /\ Assoc!OnOpen(e, FirstSid, s)
    <2>1. Replies(e, <<Assoc!Data(FirstSid, s.send, "ack")>>)
      BY <1>6, ReplyIs DEF Assoc!OnOpen
    <2>2. Channel(p)' = Channel(p) /\ Channel(e)' = [send |-> s.send + 1, recv |-> s.recv + 1]
      BY <1>6, ChannelWritten DEF Assoc!OnOpen
    <2>3. Sent(e)' = Sent(e) + 1 /\ Recv(e)' = Recv(e) + 1
      BY <1>4, <2>2 DEF Sent, Recv
    <2>4. /\ opened'[e] = opened[e] \union {FirstSid} /\ opened'[p] = opened[p] /\ channel'[p] = channel[p]
          /\ channel'[e] = IF channel[e].has THEN channel[e] ELSE [sid |-> FirstSid, has |-> TRUE]
      BY <1>1, <1>6 DEF Assoc!OnOpen, Assoc!ReportOpened
    <2> QED
      BY <1>4, <1>6, <2>1, <2>2, <2>3, <2>4 DEF Handles, Opens, Alone
  <1>7. CASE c.ssn = s.recv /\ c.kind = "ack" /\ Assoc!OnAck(e, FirstSid, s)
    <2>1. Replies(e, <<>>)
      BY <1>7, ReplyIs DEF Assoc!OnAck
    <2>2. Channel(p)' = Channel(p) /\ Channel(e)' = [s EXCEPT !.recv = @ + 1]
      BY <1>7, ChannelWritten DEF Assoc!OnAck
    <2>3. Sent(e)' = Sent(e) /\ Recv(e)' = Recv(e) + 1
      BY <1>2, <1>4, <2>2 DEF Sent, Recv, Assoc!StreamType
    <2>4. /\ opened'[e] = opened[e] \union {FirstSid} /\ opened'[p] = opened[p] /\ channel'[p] = channel[p]
          /\ channel'[e] = IF channel[e].has THEN channel[e] ELSE [sid |-> FirstSid, has |-> TRUE]
      BY <1>1, <1>7 DEF Assoc!OnAck, Assoc!ReportOpened
    <2> QED
      BY <1>4, <1>7, <2>1, <2>2, <2>3, <2>4 DEF Handles, Acks, Alone
  <1>8. CASE c.ssn = s.recv /\ c.kind = "close" /\ Assoc!OnStreamClose(e, FirstSid, s)
    <2>1. Replies(e, <<Assoc!Data(FirstSid, s.send, "close")>>)
      BY <1>8, ReplyIs DEF Assoc!OnStreamClose
    <2>2. Channel(p)' = Channel(p)
      BY <1>8, ChannelErased DEF Assoc!OnStreamClose
    <2>3. /\ opened'[e] = opened[e] \ {FirstSid} /\ opened'[p] = opened[p] /\ UNCHANGED channel
      BY <1>1, <1>8 DEF Assoc!OnStreamClose
    <2> QED
      BY <1>4, <1>8, <2>1, <2>2, <2>3 DEF Handles, Closes, Alone
  <1> QED
    BY <1>3, <1>5, <1>6, <1>7, <1>8

\* The next packet for e, when it is a DATA chunk of the channel.
LEMMA TakenIs ==
    ASSUME Shape, NEW e \in Assoc!Endpoints, Assoc!OnData(e)
    PROVE  /\ net[e] # <<>> /\ IsSeq(net[e]) /\ Head(net[e]).type = "data"
           /\ \A more : On(e, <<>>, more) =>
                more /\ IsClose(Head(net[e])) /\ Carries(Tail(net[e]), <<>>, more)
           /\ \A c, more : On(e, <<c>>, more) =>
                Head(net[e]) = c /\ Carries(Tail(net[e]), <<>>, more)
           /\ \A b, c, more : On(e, <<b, c>>, more) =>
                Head(net[e]) = b /\ Carries(Tail(net[e]), <<c>>, more)
  <1>1. net[e] # <<>> /\ IsSeq(net[e]) /\ Head(net[e]).type = "data"
    BY DEF Assoc!OnData, Assoc!Got, Shape
  <1>2. \A more : On(e, <<>>, more) =>
          more /\ IsClose(Head(net[e])) /\ Carries(Tail(net[e]), <<>>, more)
    BY <1>1, CarriesClose, Zenon DEF On
  <1>3. \A c, more : On(e, <<c>>, more) => Head(net[e]) = c /\ Carries(Tail(net[e]), <<>>, more)
    BY <1>1, CarriesTakeOne, Zenon DEF On
  <1>4. \A b, c, more : On(e, <<b, c>>, more) => Head(net[e]) = b /\ Carries(Tail(net[e]), <<c>>, more)
    BY <1>1, CarriesTakeTwo, Zenon DEF On
  <1> QED
    BY <1>1, <1>2, <1>3, <1>4

\* A close that is sent to x
LEMMA CloseGiven ==
    ASSUME Shape, NEW x \in Assoc!Endpoints, NEW c, IsClose(c), net'[x] = net[x] \o <<c>>
    PROVE  /\ \A d : On(x, d, TRUE) => On(x, d, TRUE)'
           /\ \A d : On(x, d, FALSE) => On(x, d, TRUE)'
           /\ On(x, <<>>, FALSE) => On(x, <<c>>, TRUE)'
           /\ \A b : On(x, <<b>>, FALSE) => On(x, <<b, c>>, TRUE)'
  <1>1. IsSeq(net[x]) /\ c.type = "data"
    BY DEF Shape, IsClose
  <1>2. \A d : On(x, d, TRUE) => On(x, d, TRUE)'
    BY <1>1, CarriesMore, Zenon DEF On
  <1>3. \A d : On(x, d, FALSE) => On(x, d, TRUE)'
    BY <1>2, CarriesWeak, Zenon DEF On
  <1>4. On(x, <<>>, FALSE) => On(x, <<c>>, TRUE)'
    BY <1>1, CarriesPutOne, CarriesWeak, Zenon DEF On
  <1>5. \A b : On(x, <<b>>, FALSE) => On(x, <<b, c>>, TRUE)'
    BY <1>1, CarriesPutTwo, CarriesWeak, Zenon DEF On
  <1> QED
    BY <1>2, <1>3, <1>4, <1>5

\* The offerer takes a DATA chunk.
LEMMA OffererTakes ==
    ASSUME Shape, Frame, Talking, Assoc!OnData(Offerer)
    PROVE  Talking'
  <1> DEFINE q == net[Offerer]
             c == Head(q)
             O == Offerer
             A == Answerer
  <1>1. /\ O \in Assoc!Endpoints /\ A \in Assoc!Endpoints /\ O # A /\ Assoc!Peer(O) = A
        /\ FirstSid \in {1, 2} /\ {FirstSid} # {}
    BY TwoEnds
  <1>2. /\ \A more : On(O, <<>>, more) => more /\ IsClose(c) /\ Carries(Tail(q), <<>>, more)
        /\ \A x, more : On(O, <<x>>, more) => c = x /\ Carries(Tail(q), <<>>, more)
        /\ \A x, y, more : On(O, <<x, y>>, more) => c = x /\ Carries(Tail(q), <<y>>, more)
    BY <1>1, TakenIs, Zenon
  <1>3. ~On(O, <<>>, FALSE)
    BY <1>2
  <1>4. c.sid = FirstSid
    <2>1. c = AckIt \/ c = CloseIt \/ IsClose(c)
      BY <1>2, <1>3 DEF Talking, Offered, Accepted, Ended, AckComes, BothOpen, OffererCloses
    <2> QED
      BY <2>1, MessageFields DEF IsClose
  <1>5. Handles(O, c)
    BY <1>1, <1>4, OnDataDoes
  <1>6. Alone(A)
    BY <1>1, <1>5 DEF Handles
  <1>7. net'[A] = net[A] \/ \E x : IsClose(x) /\ net'[A] = net[A] \o <<x>>
    <2>1. c.kind # "open"
      <3>1. c = AckIt \/ c = CloseIt \/ IsClose(c)
        BY <1>2, <1>3 DEF Talking, Offered, Accepted, Ended, AckComes, BothOpen, OffererCloses
      <3> QED
        BY <3>1, MessageFields DEF IsClose
    <2>2. net[A] \o <<>> = net[A]
      BY <1>1, JoinNothing
    <2>3. Skips(O) \/ Acks(O) \/ Closes(O)
      BY <1>5, <2>1 DEF Handles
    <2>4. Skips(O) \/ Acks(O) => net'[A] = net[A]
      BY <1>1, <2>2 DEF Skips, Acks, Replies
    <2>5. Closes(O) => net'[A] = net[A] \o <<Assoc!Data(FirstSid, Sent(O), "close")>>
      BY <1>1 DEF Closes, Replies
    <2>6. IsClose(Assoc!Data(FirstSid, Sent(O), "close"))
      BY MessageFields
    <2> QED
      BY <2>3, <2>4, <2>5, <2>6
  <1>8. \A d : On(A, d, TRUE) => On(A, d, TRUE)'
    BY <1>1, <1>7, CloseGiven DEF On
  <1>9. net'[O] = Tail(q)
    BY <1>5 DEF Handles, Skips, Opens, Acks, Closes, Replies
  <1>10. channel[O].sid = FirstSid => channel'[O].sid = FirstSid
    BY <1>5 DEF Handles, Skips, Opens, Acks, Closes
  <1>11. Sent(A)' = Sent(A) /\ Recv(A)' = Recv(A) /\ opened'[A] = opened[A] /\ channel'[A] = channel[A]
    BY <1>6 DEF Alone, Sent, Recv
  \* It is the ack.
  <1>12. ASSUME c = AckIt, Recv(O) = 0, opened[O] = {}
         PROVE  Recv(O)' = 1 /\ Sent(O)' = Sent(O) /\ opened'[O] = {FirstSid} /\ net'[A] = net[A]
    <2>1. c.ssn = 0 /\ c.kind = "ack"
      BY <1>12, MessageFields
    <2>2. Acks(O)
      BY <1>5, <1>12, <2>1 DEF Handles
    <2>3. net[A] \o <<>> = net[A]
      BY <1>1, JoinNothing
    <2> QED
      BY <1>1, <1>12, <2>2, <2>3 DEF Acks, Replies
  <1> HIDE DEF q, c
  <1>13. CASE Accepted /\ AckComes
    <2>1. c = AckIt /\ Recv(O) = 0 /\ opened[O] = {} /\ Carries(Tail(q), <<>>, FALSE)
      BY <1>2, <1>13 DEF AckComes
    <2>2. BothOpen'
      BY <1>9, <1>12, <1>13, <2>1 DEF AckComes, BothOpen, On
    <2> QED
      BY <1>10, <1>11, <1>13, <2>2 DEF Accepted, Talking
  <1>14. CASE Accepted /\ OffererCloses
    <2>1. On(O, <<AckIt>>, FALSE) /\ Recv(O) = 0 /\ opened[O] = {} /\ On(A, <<CloseIt>>, TRUE)
      BY <1>3, <1>14 DEF OffererCloses
    <2>2. c = AckIt /\ Carries(Tail(q), <<>>, FALSE)
      BY <1>2, <2>1
    <2>3. OffererCloses'
      BY <1>8, <1>9, <1>12, <2>1, <2>2 DEF OffererCloses, On
    <2> QED
      BY <1>10, <1>11, <1>14, <2>3 DEF Accepted, Talking
  <1>15. CASE Ended /\ On(O, <<AckIt, CloseIt>>, TRUE) /\ Recv(O) = 0 /\ opened[O] = {}
    <2>1. c = AckIt /\ Carries(Tail(q), <<CloseIt>>, TRUE)
      BY <1>2, <1>15
    <2>2. On(O, <<CloseIt>>, TRUE)' /\ Recv(O)' = 1 /\ opened'[O] = {FirstSid}
      BY <1>9, <1>12, <1>15, <2>1 DEF On
    <2> QED
      BY <1>8, <1>10, <1>11, <1>15, <2>2 DEF Ended, Talking
  <1>16. CASE Ended /\ On(O, <<CloseIt>>, TRUE) /\ Recv(O) = 1 /\ opened[O] = {FirstSid}
    <2>1. c = CloseIt /\ Carries(Tail(q), <<>>, TRUE)
      BY <1>2, <1>16
    <2>2. c.ssn = 1 /\ c.kind = "close"
      BY <2>1, MessageFields
    <2>3. Closes(O)
      BY <1>5, <1>16, <2>2 DEF Handles
    <2>4. On(O, <<>>, TRUE)' /\ opened'[O] = {}
      BY <1>9, <1>16, <2>1, <2>3 DEF On, Closes
    <2> QED
      BY <1>8, <1>10, <1>11, <1>16, <2>4 DEF Ended, Talking
  <1>17. CASE Ended /\ On(O, <<>>, TRUE) /\ opened[O] = {}
    <2>1. IsClose(c) /\ Carries(Tail(q), <<>>, TRUE)
      BY <1>2, <1>17
    <2>2. Skips(O) \/ Closes(O)
      BY <1>5, <2>1 DEF Handles, IsClose
    <2>3. On(O, <<>>, TRUE)' /\ opened'[O] = {}
      BY <1>9, <1>17, <2>1, <2>2 DEF On, Closes, Skips
    <2> QED
      BY <1>8, <1>10, <1>11, <1>17, <2>3 DEF Ended, Talking
  <1>18. \/ Accepted /\ (AckComes \/ OffererCloses)
         \/ Ended /\ \/ On(O, <<AckIt, CloseIt>>, TRUE) /\ Recv(O) = 0 /\ opened[O] = {}
                     \/ On(O, <<CloseIt>>, TRUE) /\ Recv(O) = 1 /\ opened[O] = {FirstSid}
                     \/ On(O, <<>>, TRUE) /\ opened[O] = {}
    BY <1>3 DEF Talking, Offered, Accepted, BothOpen, Ended
  <1> QED
    BY <1>13, <1>14, <1>15, <1>16, <1>17, <1>18

\* A close of the channel that the answerer sends: it ends an accepted channel.
LEMMA AnswererEnds ==
    ASSUME Shape, Accepted, IsClose(CloseIt), net'[Offerer] = net[Offerer] \o <<CloseIt>>,
           opened'[Answerer] = {}, channel'[Answerer] = channel[Answerer], Alone(Offerer),
           On(Answerer, <<>>, TRUE)'
    PROVE  Ended'
  <1> DEFINE O == Offerer
             A == Answerer
  <1>1. O \in Assoc!Endpoints
    BY TwoEnds
  <1>2. /\ On(O, <<>>, FALSE) => On(O, <<CloseIt>>, TRUE)'
        /\ On(O, <<AckIt>>, FALSE) => On(O, <<AckIt, CloseIt>>, TRUE)'
    BY <1>1, CloseGiven
  <1>3. On(O, <<CloseIt>>, TRUE)' => On(O, <<>>, TRUE)'
    BY CarriesOnly DEF On
  <1>4. /\ Sent(O)' = Sent(O) /\ Recv(O)' = Recv(O) /\ opened'[O] = opened[O]
        /\ channel'[O] = channel[O]
    BY DEF Alone, Sent, Recv
  <1>5. \/ On(O, <<AckIt>>, FALSE) /\ Recv(O) = 0 /\ opened[O] = {}
        \/ On(O, <<>>, FALSE) /\ Recv(O) = 1 /\ opened[O] = {FirstSid}
        \/ On(O, <<>>, FALSE) /\ opened[O] = {}
    BY DEF Accepted, AckComes, BothOpen, OffererCloses
  <1>6. \/ On(O, <<AckIt, CloseIt>>, TRUE)' /\ Recv(O)' = 0 /\ opened'[O] = {}
        \/ On(O, <<CloseIt>>, TRUE)' /\ Recv(O)' = 1 /\ opened'[O] = {FirstSid}
        \/ On(O, <<>>, TRUE)' /\ opened'[O] = {}
    BY <1>2, <1>3, <1>4, <1>5
  <1>7. channel'[O].sid = FirstSid /\ channel'[A].sid = FirstSid
    BY <1>4 DEF Accepted
  <1> QED
    BY <1>6, <1>7 DEF Ended

\* The answerer takes a DATA chunk.
LEMMA AnswererTakes ==
    ASSUME Shape, Frame, Talking, Assoc!OnData(Answerer)
    PROVE  Talking'
  <1> DEFINE q == net[Answerer]
             c == Head(q)
             O == Offerer
             A == Answerer
  <1>1. /\ O \in Assoc!Endpoints /\ A \in Assoc!Endpoints /\ O # A /\ Assoc!Peer(A) = O
        /\ FirstSid \in {1, 2}
    BY TwoEnds
  <1>2. /\ \A more : On(A, <<>>, more) => more /\ IsClose(c) /\ Carries(Tail(q), <<>>, more)
        /\ \A x, more : On(A, <<x>>, more) => c = x /\ Carries(Tail(q), <<>>, more)
        /\ \A x, y, more : On(A, <<x, y>>, more) => c = x /\ Carries(Tail(q), <<y>>, more)
    BY <1>1, TakenIs, Zenon
  <1>3. ~On(A, <<>>, FALSE)
    BY <1>2
  <1>4. c.sid = FirstSid
    <2>1. c = OpenIt \/ c = CloseIt \/ IsClose(c)
      BY <1>2, <1>3 DEF Talking, Offered, Accepted, Ended, AckComes, BothOpen, OffererCloses
    <2> QED
      BY <2>1, MessageFields DEF IsClose
  <1>5. Handles(A, c)
    BY <1>1, <1>4, OnDataDoes
  <1>6. Alone(O)
    BY <1>1, <1>5 DEF Handles
  <1>7. net'[A] = Tail(q)
    BY <1>5 DEF Handles, Skips, Opens, Acks, Closes, Replies
  <1>8. net[O] \o <<>> = net[O]
    BY <1>1, JoinNothing
  <1>9. Sent(O)' = Sent(O) /\ Recv(O)' = Recv(O) /\ opened'[O] = opened[O] /\ channel'[O] = channel[O]
    BY <1>6 DEF Alone, Sent, Recv
  <1> HIDE DEF q, c
  <1>10. CASE Offered
    <2>1. c = OpenIt
      BY <1>2, <1>10 DEF Offered
    <2>2. Channel(A) = Assoc!Fresh
      BY <1>10 DEF Offered, Channel, Assoc!Stream
    <2>3. Sent(A) = 0 /\ Recv(A) = 0
      BY <2>2 DEF Sent, Recv, Assoc!Fresh
    <2>4. c.ssn = 0 /\ c.kind = "open"
      BY <2>1, MessageFields
    <2>5. Opens(A)
      BY <1>5, <2>3, <2>4 DEF Handles
    <2>6. net'[O] = net[O] \o <<AckIt>>
      BY <1>1, <2>3, <2>5 DEF Opens, Replies, AckIt
    <2>7. On(O, <<AckIt>>, FALSE)'
      <3>1. On(O, <<>>, FALSE) /\ IsSeq(net[O])
        BY <1>1, <1>10 DEF Offered, Shape
      <3> QED
        BY <2>6, <3>1, CarriesPutOne, MessageFields DEF On
    <2>8. Sent(A)' = 1 /\ Recv(A)' = 1 /\ opened'[A] = {FirstSid} /\ channel'[A].sid = FirstSid
      BY <1>10, <2>3, <2>5 DEF Opens, Offered, NoChannel
    <2>9. channel'[O].sid = FirstSid /\ Recv(O)' = 0 /\ opened'[O] = {}
      BY <1>9, <1>10 DEF Offered
    <2>10. CASE Sent(O) = 1 /\ On(A, <<OpenIt>>, FALSE)
      <3>1. On(A, <<>>, FALSE)' /\ Sent(O)' = 1
        BY <1>2, <1>7, <1>9, <2>10 DEF On
      <3>2. AckComes'
        BY <2>7, <2>9, <3>1 DEF AckComes
      <3> QED
        BY <2>8, <2>9, <3>2 DEF Accepted, Talking
    <2>11. CASE On(A, <<OpenIt, CloseIt>>, TRUE)
      <3>1. On(A, <<CloseIt>>, TRUE)'
        BY <1>2, <1>7, <2>11 DEF On
      <3>2. OffererCloses'
        BY <2>7, <2>9, <3>1 DEF OffererCloses
      <3> QED
        BY <2>8, <2>9, <3>2 DEF Accepted, Talking
    <2> QED
      BY <1>10, <2>10, <2>11 DEF Offered
  <1>11. CASE Accepted
    <2>1. On(A, <<CloseIt>>, TRUE) /\ Sent(A) = 1 /\ Recv(A) = 1 /\ opened[A] = {FirstSid}
      BY <1>3, <1>11 DEF Accepted, AckComes, BothOpen, OffererCloses
    <2>2. c = CloseIt /\ Carries(Tail(q), <<>>, TRUE)
      BY <1>2, <2>1
    <2>3. c.ssn = 1 /\ c.kind = "close"
      BY <2>2, MessageFields
    <2>4. Closes(A)
      BY <1>5, <2>1, <2>3 DEF Handles
    <2>5. net'[O] = net[O] \o <<CloseIt>> /\ opened'[A] = {} /\ channel'[A] = channel[A]
      BY <1>1, <2>1, <2>4 DEF Closes, Replies, CloseIt
    <2>6. On(A, <<>>, TRUE)'
      BY <1>7, <2>2 DEF On
    <2>7. IsClose(CloseIt)
      BY MessageFields DEF IsClose
    <2>8. Ended'
      BY <1>6, <1>11, <2>5, <2>6, <2>7, AnswererEnds
    <2> QED
      BY <2>8 DEF Talking
  <1>12. CASE Ended
    <2>1. On(A, <<>>, TRUE) /\ opened[A] = {}
      BY <1>12 DEF Ended
    <2>2. IsClose(c) /\ Carries(Tail(q), <<>>, TRUE)
      BY <1>2, <2>1
    <2>3. Skips(A) \/ Closes(A)
      BY <1>5, <2>2 DEF Handles, IsClose
    <2>4. opened'[A] = {} /\ channel'[A] = channel[A] /\ On(A, <<>>, TRUE)'
      BY <1>7, <2>1, <2>2, <2>3 DEF Skips, Closes, On
    <2>5. \A d : On(O, d, TRUE) => On(O, d, TRUE)'
      <3>1. CASE Skips(A)
        <4>1. net'[O] = net[O]
          BY <1>1, <1>8, <3>1 DEF Skips, Replies
        <4> QED
          BY <4>1 DEF On
      <3>2. CASE Closes(A)
        <4>1. net'[O] = net[O] \o <<Assoc!Data(FirstSid, Sent(A), "close")>>
          BY <1>1, <3>2 DEF Closes, Replies
        <4>2. IsClose(Assoc!Data(FirstSid, Sent(A), "close"))
          BY MessageFields
        <4> QED
          BY <1>1, <4>1, <4>2, CloseGiven
      <3> QED
        BY <2>3, <3>1, <3>2
    <2>6. \/ On(O, <<AckIt, CloseIt>>, TRUE)' /\ Recv(O)' = 0 /\ opened'[O] = {}
          \/ On(O, <<CloseIt>>, TRUE)' /\ Recv(O)' = 1 /\ opened'[O] = {FirstSid}
          \/ On(O, <<>>, TRUE)' /\ opened'[O] = {}
      BY <1>9, <1>12, <2>5 DEF Ended
    <2> QED
      BY <1>9, <1>12, <2>4, <2>6 DEF Ended, Talking
  <1> QED
    BY <1>10, <1>11, <1>12 DEF Talking

\* close_stream() on the channel
LEMMA CloseStreamDoes ==
    ASSUME Shape, Frame, NEW e \in Assoc!Endpoints, Assoc!CloseStream(e), channel[e].sid = FirstSid
    PROVE  /\ Sends(e, <<Assoc!Data(FirstSid, Sent(e), "close")>>)
           /\ opened'[e] = opened[e] \ {FirstSid} /\ channel' = channel
           /\ Recv(e)' = 0 /\ Alone(Assoc!Peer(e))
  <1>1. FirstSid \in DOMAIN streams[e] /\ Sent(e) = streams[e][FirstSid].send
    BY DEF Assoc!CloseStream, Sent, Channel, Assoc!Stream
  <1>2. Sends(e, <<Assoc!Data(FirstSid, Sent(e), "close")>>)
    BY <1>1, SendIs DEF Assoc!CloseStream
  <1>3. streams' = [streams EXCEPT ![e] = Assoc!RestrictDomain(@, LAMBDA t : t # FirstSid)]
    BY DEF Assoc!CloseStream
  <1>4. Channel(e)' = Assoc!Fresh /\ Channel(Assoc!Peer(e))' = Channel(Assoc!Peer(e))
    BY <1>3, ChannelErased
  <1>5. Assoc!Peer(e) \in Assoc!Endpoints /\ Assoc!Peer(e) # e /\ DOMAIN opened = Assoc!Endpoints
    BY PeerIs DEF Shape
  <1>6. opened'[e] = opened[e] \ {FirstSid} /\ opened'[Assoc!Peer(e)] = opened[Assoc!Peer(e)] /\ channel' = channel
    BY <1>5 DEF Assoc!CloseStream
  <1>7. Recv(e)' = 0
    BY <1>4 DEF Recv, Assoc!Fresh
  <1> QED
    BY <1>2, <1>4, <1>6, <1>7 DEF Alone

\* by the offerer
LEMMA OffererClosesStream ==
    ASSUME Shape, Frame, Talking, Assoc!CloseStream(Offerer)
    PROVE  Talking'
  <1> DEFINE O == Offerer
             A == Answerer
  <1>0. PICK x : x = Assoc!Data(FirstSid, Sent(Offerer), "close")
    OBVIOUS
  <1>1. /\ O \in Assoc!Endpoints /\ A \in Assoc!Endpoints /\ O # A /\ Assoc!Peer(O) = A
        /\ FirstSid \in {1, 2}
    BY TwoEnds
  <1>2. channel[O].sid = FirstSid
    BY DEF Talking, Offered, Accepted, Ended
  <1>3. /\ Sends(O, <<x>>) /\ opened'[O] = opened[O] \ {FirstSid} /\ channel' = channel
        /\ Recv(O)' = 0 /\ Alone(A)
    BY <1>0, <1>1, <1>2, CloseStreamDoes
  <1>4. IsClose(x) /\ (Sent(O) = 1 => x = CloseIt)
    BY <1>0, MessageFields DEF CloseIt
  <1>5. net'[O] = net[O] /\ net'[A] = net[A] \o <<x>>
    BY <1>1, <1>3 DEF Sends
  <1>6. /\ \A d : On(A, d, TRUE) => On(A, d, TRUE)'
        /\ On(A, <<>>, FALSE) => On(A, <<x>>, TRUE)'
        /\ \A b : On(A, <<b>>, FALSE) => On(A, <<b, x>>, TRUE)'
    BY <1>1, <1>4, <1>5, CloseGiven
  <1>7. \A d, more : On(O, d, more) => On(O, d, more)' /\ On(O, d, TRUE)'
    BY <1>5, CarriesWeak, Zenon DEF On
  <1>8. Sent(A)' = Sent(A) /\ Recv(A)' = Recv(A) /\ opened'[A] = opened[A] /\ Channel(A)' = Channel(A)
    BY <1>3 DEF Alone, Sent, Recv
  <1>9. CASE Offered
    <2>1. On(A, <<OpenIt, CloseIt>>, TRUE)'
      BY <1>4, <1>6, <1>9 DEF Offered
    <2>2. opened'[O] = {} /\ On(O, <<>>, FALSE)'
      BY <1>3, <1>7, <1>9 DEF Offered
    <2>3. DOMAIN (streams'[A]) = {}
      <3>1. streams'[A] = streams[A]
        BY <1>1 DEF Assoc!CloseStream, Shape
      <3> QED
        BY <1>9, <3>1 DEF Offered
    <2> QED
      BY <1>3, <1>8, <1>9, <2>1, <2>2, <2>3 DEF Offered, Talking
  <1>10. CASE Accepted
    <2>1. On(A, <<CloseIt>>, TRUE)'
      BY <1>4, <1>6, <1>10 DEF Accepted, AckComes, BothOpen, OffererCloses
    <2>2. opened'[O] = {}
      BY <1>3, <1>10 DEF Accepted, AckComes, BothOpen, OffererCloses
    <2>3. On(O, <<AckIt>>, FALSE)' \/ On(O, <<>>, FALSE)'
      BY <1>7, <1>10 DEF Accepted, AckComes, BothOpen, OffererCloses
    <2>4. OffererCloses'
      BY <1>3, <2>1, <2>2, <2>3 DEF OffererCloses
    <2> QED
      BY <1>3, <1>8, <1>10, <2>4 DEF Accepted, Talking
  <1>11. CASE Ended
    <2>1. opened'[O] = {}
      BY <1>3, <1>11 DEF Ended
    <2>2. On(O, <<CloseIt>>, TRUE)' => On(O, <<>>, TRUE)'
      <3>1. IsClose(CloseIt)
        BY MessageFields DEF IsClose
      <3> QED
        BY <3>1, CarriesOnly DEF On
    <2>3. On(O, <<AckIt, CloseIt>>, TRUE)' \/ On(O, <<>>, TRUE)'
      BY <1>7, <1>11, <2>2 DEF Ended
    <2> QED
      BY <1>3, <1>6, <1>8, <1>11, <2>1, <2>3 DEF Ended, Talking
  <1> QED
    BY <1>9, <1>10, <1>11 DEF Talking

\* and by the answerer.
LEMMA AnswererClosesStream ==
    ASSUME Shape, Frame, Talking, Assoc!CloseStream(Answerer)
    PROVE  Talking'
  <1> DEFINE O == Offerer
             A == Answerer
  <1>0. PICK x : x = Assoc!Data(FirstSid, Sent(Answerer), "close")
    OBVIOUS
  <1>1. /\ O \in Assoc!Endpoints /\ A \in Assoc!Endpoints /\ O # A /\ Assoc!Peer(A) = O
        /\ FirstSid \in {1, 2}
    BY TwoEnds
  <1>2. ~Offered /\ channel[A].sid = FirstSid
    BY DEF Talking, Offered, Accepted, Ended, Assoc!CloseStream
  <1>3. /\ Sends(A, <<x>>) /\ opened'[A] = opened[A] \ {FirstSid} /\ channel' = channel
        /\ Recv(A)' = 0 /\ Alone(O)
    BY <1>0, <1>1, <1>2, CloseStreamDoes
  <1>4. IsClose(x) /\ (Sent(A) = 1 => x = CloseIt)
    BY <1>0, MessageFields DEF CloseIt
  <1>5. net'[A] = net[A] /\ net'[O] = net[O] \o <<x>>
    BY <1>1, <1>3 DEF Sends
  <1>6. CASE Accepted
    <2>1. x = CloseIt /\ opened'[A] = {}
      BY <1>3, <1>4, <1>6 DEF Accepted
    <2>2. On(A, <<>>, FALSE) \/ On(A, <<CloseIt>>, TRUE)
      BY <1>6 DEF Accepted, AckComes, BothOpen, OffererCloses
    <2>3. On(A, <<>>, TRUE)'
      BY <1>4, <1>5, <2>1, <2>2, CarriesWeak, CarriesOnly DEF On
    <2>4. Ended'
      BY <1>3, <1>4, <1>5, <1>6, <2>1, <2>3, AnswererEnds
    <2> QED
      BY <2>4 DEF Talking
  <1>7. CASE Ended
    <2>1. \A d : On(O, d, TRUE) => On(O, d, TRUE)'
      BY <1>1, <1>4, <1>5, CloseGiven
    <2>2. Recv(O)' = Recv(O) /\ opened'[O] = opened[O]
      BY <1>3 DEF Alone, Recv
    <2>3. opened'[A] = {} /\ On(A, <<>>, TRUE)'
      BY <1>3, <1>5, <1>7 DEF Ended, On
    <2> QED
      BY <1>3, <1>7, <2>1, <2>2, <2>3 DEF Ended, Talking
  <1> QED
    BY <1>2, <1>6, <1>7 DEF Talking

\* A step that takes and sends no DATA chunk.
NoTalk == \A x \in Assoc!Endpoints : \A d, more : On(x, d, more) => On(x, d, more)'

\* Such a step takes one packet
LEMMA ReplyNoTalk ==
    ASSUME Shape, NEW e \in Assoc!Endpoints, net[e] # <<>>, Head(net[e]).type # "data",
           NEW out, NoData(out), Assoc!Reply(e, out)
    PROVE  NoTalk
  <1>1. Replies(e, out) /\ Assoc!Peer(e) \in Assoc!Endpoints /\ IsSeq(net[e]) /\ IsSeq(net[Assoc!Peer(e)])
    BY ReplyIs, PeerIs DEF Shape
  <1>2. net'[e] = Tail(net[e]) /\ net'[Assoc!Peer(e)] = net[Assoc!Peer(e)] \o out
    BY <1>1 DEF Replies
  <1>3. \A d, more : On(e, d, more) => On(e, d, more)'
    BY <1>1, <1>2, CarriesPass, Zenon DEF On
  <1>4. \A d, more : On(Assoc!Peer(e), d, more) => On(Assoc!Peer(e), d, more)'
    BY <1>1, <1>2, CarriesJoin, Zenon DEF On
  <1>5. \A x \in Assoc!Endpoints : x = e \/ x = Assoc!Peer(e)
    BY DEF Assoc!Endpoints, Assoc!Peer
  <1> QED
    BY <1>3, <1>4, <1>5 DEF NoTalk, On

\* or none.
LEMMA SendNoTalk ==
    ASSUME Shape, NEW e \in Assoc!Endpoints, NEW out, NoData(out), Assoc!Send(e, out)
    PROVE  NoTalk
  <1>1. Sends(e, out) /\ Assoc!Peer(e) \in Assoc!Endpoints /\ IsSeq(net[Assoc!Peer(e)])
    BY SendIs, PeerIs DEF Shape
  <1>2. net'[e] = net[e] /\ net'[Assoc!Peer(e)] = net[Assoc!Peer(e)] \o out
    BY <1>1 DEF Sends
  <1>3. \A d, more : On(e, d, more) => On(e, d, more)'
    BY <1>2 DEF On
  <1>4. \A d, more : On(Assoc!Peer(e), d, more) => On(Assoc!Peer(e), d, more)'
    BY <1>1, <1>2, CarriesJoin, Zenon DEF On
  <1>5. \A x \in Assoc!Endpoints : x = e \/ x = Assoc!Peer(e)
    BY DEF Assoc!Endpoints, Assoc!Peer
  <1> QED
    BY <1>3, <1>4, <1>5 DEF NoTalk, On

\* The chunks of the handshake are no DATA chunks.
LEMMA ChunkNoData ==
    ASSUME NEW ty, ty # "data"
    PROVE  NoData(<<Assoc!Chunk(ty)>>) /\ NoData(<<>>)
  <1>1. NoData(<<>>)
    BY CountNone DEF NoData
  <1> DEFINE c == Assoc!Chunk(ty)
  <1>2. c.type # "data"
    BY DEF Assoc!Chunk
  <1> HIDE DEF c
  <1>3. NoData(<<c>>)
    BY <1>2, CountOne DEF NoData
  <1> QED
    BY <1>1, <1>3 DEF c

\* It leaves the channel in the state it is in.
LEMMA StillTalking ==
    ASSUME Talking, NoTalk, UNCHANGED <<streams, opened, channel>>
    PROVE  Talking'
  <1>1. /\ \A d, more : On(Offerer, d, more) => On(Offerer, d, more)'
        /\ \A d, more : On(Answerer, d, more) => On(Answerer, d, more)'
    BY TwoEnds DEF NoTalk
  <1>2. /\ Sent(Offerer)' = Sent(Offerer) /\ Recv(Offerer)' = Recv(Offerer)
        /\ Sent(Answerer)' = Sent(Answerer) /\ Recv(Answerer)' = Recv(Answerer)
    BY DEF Sent, Recv, Channel, Assoc!Stream
  <1>3. CASE Offered
    <2>1. Offered'
      BY <1>1, <1>2, <1>3 DEF Offered
    <2> QED
      BY <2>1 DEF Talking
  <1>4. CASE Accepted
    <2>1. AckComes => AckComes'
      BY <1>1, <1>2 DEF AckComes
    <2>2. BothOpen => BothOpen'
      BY <1>1, <1>2 DEF BothOpen
    <2>3. OffererCloses => OffererCloses'
      BY <1>1, <1>2 DEF OffererCloses
    <2>4. Accepted'
      BY <1>2, <1>4, <2>1, <2>2, <2>3 DEF Accepted
    <2> QED
      BY <2>4 DEF Talking
  <1>5. CASE Ended
    <2>1. Ended'
      BY <1>1, <1>2, <1>5 DEF Ended
    <2> QED
      BY <2>1 DEF Talking
  <1> QED
    BY <1>3, <1>4, <1>5 DEF Talking

\* Where there is no channel it makes none.
LEMMA StillUnopened ==
    ASSUME Unopened, NoTalk, \A e \in Assoc!Endpoints : DOMAIN (streams'[e]) = {},
           UNCHANGED <<opened, channel, nextSid>>
    PROVE  Unopened'
  BY DEF Unopened, NoTalk

\* What Talk says of the states before and after.
Says == IF ups[Offerer] = 0 THEN Unopened ELSE Talking

\* Nothing at all happens to the streams.
LEMMA StillSays ==
    ASSUME Says, NoTalk, UNCHANGED <<streams, opened, channel, nextSid>>, ups'[Offerer] = ups[Offerer]
    PROVE  Says'
  <1>1. CASE ups[Offerer] = 0
    <2>1. Unopened
      BY <1>1 DEF Says
    <2>2. \A e \in Assoc!Endpoints : DOMAIN (streams'[e]) = {}
      BY <2>1 DEF Unopened
    <2>3. Unopened'
      BY <2>1, <2>2, StillUnopened
    <2> QED
      BY <1>1, <2>3 DEF Says
  <1>2. CASE ups[Offerer] # 0
    <2>1. Talking'
      BY <1>2, StillTalking DEF Says
    <2> QED
      BY <1>2, <2>1 DEF Says
  <1> QED
    BY <1>1, <1>2

\* While the handshake is not over, nobody has been told of it.
LEMMA NotYet ==
    ASSUME AssocInv, inits = 0
    PROVE  /\ Before \/ N("S", "init") > 0 => ups[Offerer] = 0
           /\ N("S", "cookie_echo") > 0 => ups["S"] = 0
           /\ N("C", "cookie_ack") > 0 => ups["C"] = 0
  <1>1. Nums("C") /\ Nums("S") /\ ups["C"] \in Nat /\ ups["S"] \in Nat
    BY InvFacts
  <1>2. HandshakeS <= 1 /\ HandshakeC <= 1 /\ Token \in {0, 1} /\ (Before => Token = 1)
    BY DEF AssocInv, Once, Token
  <1>3. \A a, b, c, d, t \in Nat :
          a + b + c + d + t <= 1 /\ (t = 1 \/ a > 0 \/ c > 0) => d = 0
    OBVIOUS
  <1>4. \A a, b, c, d, u, t \in Nat :
          a + b + c + d + u + t <= 1 /\ (t = 1 \/ a > 0 \/ d > 0) => u = 0
    OBVIOUS
  <1>5. Token \in Nat
    BY <1>2
  <1> DEFINE a == N("S", "init")
             b == N("C", "init_ack")
             c == N("S", "cookie_echo")
             d == N("C", "cookie_ack")
             t == Token
  <1>8. /\ a \in Nat /\ b \in Nat /\ c \in Nat /\ d \in Nat /\ t \in Nat
        /\ a + b + c + ups["S"] + t <= 1 /\ a + b + c + d + ups["C"] + t <= 1
        /\ Before => t = 1
    BY <1>1, <1>2, <1>5 DEF HandshakeS, HandshakeC, Nums
  <1> HIDE DEF a, b, c, d, t
  <1>6. Before \/ a > 0 \/ c > 0 => ups["S"] = 0
    BY <1>1, <1>3, <1>8
  <1>7. Before \/ a > 0 \/ d > 0 => ups["C"] = 0
    BY <1>1, <1>4, <1>8
  <1> QED
    BY <1>6, <1>7, TwoEnds DEF Assoc!Endpoints, a, c, d

\* connect() and on_init() clear what is empty.
LEMMA ClearingSays ==
    ASSUME Shape, Says, ups[Offerer] = 0, NoTalk, NEW e \in Assoc!Endpoints, streams' = [streams EXCEPT ![e] = <<>>],
           UNCHANGED <<opened, channel, nextSid, ups>>
    PROVE  Says'
  <1>1. Unopened
    BY DEF Says
  <1>2. \A x \in Assoc!Endpoints : DOMAIN (streams'[x]) = {}
    BY <1>1, Emptied DEF Unopened, Changes
  <1>3. Unopened'
    BY <1>1, <1>2, StillUnopened
  <1> QED
    BY <1>3 DEF Says

\* make_next_stream_id() of the offerer, with no stream yet.
LEMMA FirstIsFree ==
    ASSUME Unopened
    PROVE  Assoc!NextFree(Offerer) = FirstSid
  <1>1. nextSid[Offerer] = FirstSid /\ DOMAIN streams[Offerer] = {} /\ FirstSid \in {1, 2}
    BY TwoEnds DEF Unopened
  <1>2. Assoc!Cardinality({}) = 0
    BY SameCardinality, FS_EmptySet
  <1> DEFINE F == {i \in FirstSid..(FirstSid + 2 * (0 + 1)) : i % 2 = FirstSid % 2 /\ i \notin {}}
  <1>3. Assoc!NextFree(Offerer) = Assoc!Min(F)
    BY <1>1, <1>2 DEF Assoc!NextFree
  <1>4. FirstSid \in F /\ \A i \in F : FirstSid <= i /\ i \in Int
    BY <1>1
  <1> HIDE DEF F
  <1>5. \A x \in F : (\A y \in F : x <= y) => x = FirstSid
    BY <1>1, <1>4
  <1>6. Assoc!Min(F) = FirstSid
    BY <1>4, <1>5 DEF Assoc!Min
  <1> QED
    BY <1>3, <1>6

\* Joining sequences is associative.
LEMMA JoinAssociative ==
    ASSUME NEW s, IsSeq(s), NEW t, IsSeq(t), NEW u, IsSeq(u)
    PROVE  (s \o t) \o u = s \o (t \o u)
  <1>1. PICK S : s \in Seq(S)
    BY DEF IsSeq
  <1>2. PICK T : t \in Seq(T)
    BY DEF IsSeq
  <1>3. PICK U : u \in Seq(U)
    BY DEF IsSeq
  <1> DEFINE V == S \union T \union U
  <1>4. s \in Seq(V) /\ t \in Seq(V) /\ u \in Seq(V)
    BY <1>1, <1>2, <1>3
  <1> HIDE DEF V
  <1> QED
    BY <1>4

\* The connected handler of the offerer opens the channel, the first time it is called;
LEMMA OffererConnected ==
    ASSUME Shape, Frame, Unopened, ups[Offerer] = 0, net[Offerer] # <<>>, Head(net[Offerer]).type # "data",
           NEW first, NoData(first), Assoc!Connected(Offerer, first)
    PROVE  Says'
  <1> DEFINE O == Offerer
             A == Answerer
  <1>1. O \in Assoc!Endpoints /\ A \in Assoc!Endpoints /\ O # A /\ Assoc!Peer(O) = A
    BY TwoEnds
  <1>2. /\ Assoc!Reply(O, first \o <<OpenIt>>)
        /\ streams' = Assoc!With(O, FirstSid, [send |-> 1, recv |-> 0])
        /\ channel' = [channel EXCEPT ![O].sid = FirstSid]
        /\ ups' = [ups EXCEPT ![O] = @ + 1] /\ UNCHANGED opened
    BY FirstIsFree DEF Assoc!Connected, OpenIt
  <1>3. net'[O] = Tail(net[O]) /\ net'[A] = net[A] \o (first \o <<OpenIt>>)
    BY <1>1, <1>2, ReplyIs DEF Replies
  <1>4. /\ On(O, <<>>, FALSE) /\ On(A, <<>>, FALSE) /\ IsSeq(net[O]) /\ IsSeq(net[A])
        /\ DOMAIN streams[A] = {} /\ opened[A] = {} /\ opened[O] = {}
        /\ channel[O] = NoChannel /\ channel[A] = NoChannel
    BY <1>1 DEF Unopened, Shape
  <1>5. On(O, <<>>, FALSE)'
    BY <1>3, <1>4, CarriesPass DEF On
  <1>6. On(A, <<OpenIt>>, FALSE)'
    <2>1. IsSeq(net[A] \o first) /\ Carries(net[A] \o first, <<>>, FALSE)
      BY <1>4, CarriesJoin, JoinIs DEF On, NoData
    <2>2. Carries((net[A] \o first) \o <<OpenIt>>, <<OpenIt>>, FALSE)
      BY <2>1, CarriesPutOne, MessageFields
    <2>3. (net[A] \o first) \o <<OpenIt>> = net[A] \o (first \o <<OpenIt>>)
      <3>1. PICK q, one : q = net[A] /\ one = <<OpenIt>>
        OBVIOUS
      <3>2. IsSeq(q) /\ IsSeq(first) /\ IsSeq(one)
        BY <1>4, <3>1, CountOne DEF NoData
      <3>3. (q \o first) \o one = q \o (first \o one)
        BY <3>2, JoinAssociative
      <3> QED
        BY <3>1, <3>3
    <2> QED
      BY <1>3, <2>2, <2>3 DEF On
  <1>7. Sent(O)' = 1 /\ Recv(O)' = 0
    BY <1>1, <1>2, ChannelWritten DEF Sent, Recv
  <1>8. streams'[A] = streams[A]
    BY <1>1, <1>2 DEF Assoc!With, Shape
  <1>9. channel'[O].sid = FirstSid /\ channel'[A] = NoChannel
    BY <1>1, <1>2, <1>4 DEF Frame, NoChannel
  <1>10. Offered'
    BY <1>2, <1>4, <1>5, <1>6, <1>7, <1>8, <1>9 DEF Offered
  <1>11. ups'[O] = 1
    BY <1>1, <1>2 DEF Shape
  <1> QED
    BY <1>10, <1>11 DEF Says, Talking

\* that of the answerer only counts.
LEMMA AnswererConnected ==
    ASSUME Shape, Says, net[Answerer] # <<>>, Head(net[Answerer]).type # "data",
           NEW first, NoData(first), Assoc!Connected(Answerer, first)
    PROVE  Says'
  <1>1. Offerer \in Assoc!Endpoints /\ Answerer \in Assoc!Endpoints /\ Offerer # Answerer
    BY TwoEnds
  <1>2. /\ Assoc!Reply(Answerer, first) /\ UNCHANGED <<nextSid, streams, channel, opened>>
        /\ ups' = [ups EXCEPT ![Answerer] = @ + 1]
    BY <1>1 DEF Assoc!Connected
  <1>3. ups'[Offerer] = ups[Offerer]
    BY <1>1, <1>2 DEF Shape
  <1>4. NoTalk
    BY <1>1, <1>2, ReplyNoTalk
  <1> QED
    BY <1>2, <1>3, <1>4, StillSays

-----------------------------------------------------------------------------
(* What every step does to the frame.                                       *)

\* Both sequence numbers of every stream are naturals.
Typed == \A e \in Assoc!Endpoints : \A s \in DOMAIN streams[e] : streams[e][s] \in Assoc!StreamType

\* streams_.clear() keeps that,
LEMMA TypedEmptied ==
    ASSUME Shape, Typed, NEW e \in Assoc!Endpoints, streams' = [streams EXCEPT ![e] = <<>>]
    PROVE  Typed'
  <1>1. Changes(e, {})
    BY Emptied
  <1> QED
    BY <1>1 DEF Changes, Typed

\* a write to streams_ does,
LEMMA TypedWith ==
    ASSUME Shape, Typed, NEW e \in Assoc!Endpoints, NEW sid, NEW v \in Assoc!StreamType, streams' = Assoc!With(e, sid, v)
    PROVE  Typed'
  <1> DEFINE f == [t \in DOMAIN streams[e] \union {sid} |-> IF t = sid THEN v ELSE streams[e][t]]
  <1>1. \A t \in DOMAIN f : f[t] \in Assoc!StreamType
    BY DEF Typed
  <1>2. streams' = [streams EXCEPT ![e] = f]
    BY DEF Assoc!With
  <1> HIDE DEF f
  <1>3. streams'[e] = f /\ \A x \in Assoc!Endpoints : x # e => streams'[x] = streams[x]
    BY <1>2 DEF Shape
  <1> QED
    BY <1>1, <1>3 DEF Typed

\* streams_.erase()
Erases(e, sid) == streams' = [streams EXCEPT ![e] = Assoc!RestrictDomain(@, LAMBDA t : t # sid)]

\* does so too.
LEMMA TypedErased ==
    ASSUME Shape, Typed, NEW e \in Assoc!Endpoints, NEW sid, Erases(e, sid)
    PROVE  Typed'
  <1> DEFINE f == Assoc!RestrictDomain(streams[e], LAMBDA t : t # sid)
  <1>1. \A t \in DOMAIN f : f[t] \in Assoc!StreamType
    BY DEF Typed, Assoc!RestrictDomain, Assoc!Restrict
  <1>2. streams' = [streams EXCEPT ![e] = f]
    BY DEF Erases
  <1> HIDE DEF f
  <1>3. streams'[e] = f /\ \A x \in Assoc!Endpoints : x # e => streams'[x] = streams[x]
    BY <1>2 DEF Shape
  <1> QED
    BY <1>1, <1>3 DEF Typed

\* The rest of the frame.
Margin ==
    /\ DOMAIN channel = Assoc!Endpoints /\ DOMAIN nextSid = Assoc!Endpoints /\ DOMAIN downs = Assoc!Endpoints
    /\ lost \in Nat /\ \A e \in Assoc!Endpoints : downs[e] \in Nat

\* A connected handler keeps the frame,
LEMMA FrameConnected ==
    ASSUME Shape, Frame, NEW e \in Assoc!Endpoints, NEW first, Assoc!Connected(e, first)
    PROVE  Frame'
  <1>1. Typed /\ Margin
    BY DEF Frame, Typed, Margin
  <1>2. Typed'
    <2>1. CASE e = Offerer
      <3>1. [send |-> 1, recv |-> 0] \in Assoc!StreamType
        BY DEF Assoc!StreamType
      <3> QED
        BY <1>1, <2>1, <3>1, TypedWith DEF Assoc!Connected
    <2>2. CASE e # Offerer
      BY <1>1, <2>2 DEF Assoc!Connected, Typed
    <2> QED
      BY <2>1, <2>2
  <1>3. Margin'
    BY <1>1 DEF Assoc!Connected, Margin
  <1> QED
    BY <1>2, <1>3 DEF Frame, Typed, Margin

\* and so does a DATA chunk.
LEMMA FrameData ==
    ASSUME Shape, Frame, NEW e \in Assoc!Endpoints, Assoc!OnData(e)
    PROVE  Frame'
  <1>1. Typed /\ Margin
    BY DEF Frame, Typed, Margin
  <1> DEFINE c == Head(net[e])
             s == Assoc!Stream(e, c.sid)
  <1>2. s \in Assoc!StreamType
    BY <1>1 DEF Assoc!Stream, Typed, Assoc!Fresh, Assoc!StreamType
  <1>3. /\ [send |-> s.send + 1, recv |-> s.recv + 1] \in Assoc!StreamType
        /\ [s EXCEPT !.recv = @ + 1] \in Assoc!StreamType
    BY <1>2 DEF Assoc!StreamType
  <1>4. /\ \/ UNCHANGED channel
           \/ Assoc!ReportOpened(e, c.sid)
        /\ UNCHANGED <<nextSid, downs, lost>>
        /\ \/ streams' = Assoc!With(e, c.sid, s)
           \/ streams' = Assoc!With(e, c.sid, [send |-> s.send + 1, recv |-> s.recv + 1])
           \/ streams' = Assoc!With(e, c.sid, [s EXCEPT !.recv = @ + 1])
           \/ Erases(e, c.sid)
    BY DEF Assoc!OnData, Assoc!OnOpen, Assoc!OnAck, Assoc!OnStreamClose, Erases
  <1> HIDE DEF c, s
  <1>5. Typed'
    BY <1>1, <1>2, <1>3, <1>4, TypedWith, TypedErased
  <1>6. Margin'
    BY <1>1, <1>4 DEF Margin, Assoc!ReportOpened
  <1> QED
    BY <1>5, <1>6 DEF Frame, Typed, Margin

\* The other steps clear streams_, erase a stream or leave them alone.
LEMMA FrameOther ==
    ASSUME Shape, Frame, NEW e \in Assoc!Endpoints,
           \/ streams' = [streams EXCEPT ![e] = <<>>]
           \/ \E sid : Erases(e, sid)
           \/ UNCHANGED streams,
           UNCHANGED <<channel, nextSid>>,
           \/ UNCHANGED lost
           \/ lost' = lost + 1,
           \/ UNCHANGED downs
           \/ downs' = [downs EXCEPT ![e] = @ + 1]
    PROVE  Frame'
  <1>1. Typed /\ Margin
    BY DEF Frame, Typed, Margin
  <1>2. Typed'
    <2>1. CASE UNCHANGED streams
      BY <1>1, <2>1 DEF Typed
    <2> QED
      BY <1>1, <2>1, TypedEmptied, TypedErased
  <1>3. Margin'
    BY <1>1 DEF Margin
  <1> QED
    BY <1>2, <1>3 DEF Frame, Typed, Margin

\* Every step keeps the frame.
LEMMA NextFrame ==
    ASSUME Shape, Frame, [Assoc!Next]_Assoc!vars
    PROVE  Frame'
  <1>1. CASE Assoc!Connect
    <2>1. "C" \in Assoc!Endpoints
      BY DEF Assoc!Endpoints
    <2> QED
      BY <1>1, <2>1, FrameOther DEF Assoc!Connect
  <1>2. CASE Assoc!ResendInit
    <2>1. "C" \in Assoc!Endpoints
      BY DEF Assoc!Endpoints
    <2> QED
      BY <1>2, <2>1, FrameOther DEF Assoc!ResendInit
  <1>3. ASSUME NEW e \in Assoc!Endpoints, Assoc!OnInit(e) \/ Assoc!OnBadInit(e) \/ Assoc!OnHeartbeat(e) \/ Assoc!OnInitAck(e)
        PROVE  Frame'
    BY <1>3, FrameOther DEF Assoc!OnInit, Assoc!OnBadInit, Assoc!OnHeartbeat, Assoc!OnInitAck
  <1>4. ASSUME NEW e \in Assoc!Endpoints, Assoc!OnCookieEcho(e) \/ Assoc!OnCookieAck(e) \/ Assoc!OnData(e)
        PROVE  Frame'
    BY <1>4, FrameConnected, FrameData DEF Assoc!OnCookieEcho, Assoc!OnCookieAck
  <1>5. ASSUME NEW e \in Assoc!Endpoints, Assoc!OnOperationalError(e) \/ Assoc!Discard(e)
        PROVE  Frame'
    BY <1>5, FrameOther DEF Assoc!OnOperationalError, Assoc!Discard
  <1>6. ASSUME NEW e \in Assoc!Endpoints, Assoc!HeartbeatTest(e) \/ Assoc!Heartbeat(e) \/ Assoc!Close(e) \/ Assoc!Lose(e)
        PROVE  Frame'
    BY <1>6, FrameOther DEF Assoc!HeartbeatTest, Assoc!Heartbeat, Assoc!Close, Assoc!Lose
  <1>7. ASSUME NEW e \in Assoc!Endpoints, Assoc!CloseStream(e)
        PROVE  Frame'
    <2>1. Erases(e, channel[e].sid)
      BY <1>7 DEF Assoc!CloseStream, Erases
    <2> QED
      BY <1>7, <2>1, FrameOther DEF Assoc!CloseStream
  <1>8. CASE UNCHANGED Assoc!vars
    BY <1>8 DEF Frame, Assoc!vars
  <1> QED
    BY <1>1, <1>2, <1>3, <1>4, <1>5, <1>6, <1>7, <1>8 DEF Assoc!Next, Assoc!Receive

-----------------------------------------------------------------------------
(* The channel at both ends, step by step.                                  *)

\* What has been lost, sent again or closed stays so.
LEMMA GoodBefore ==
    ASSUME Shape, Frame, Assoc!Next, Good'
    PROVE  /\ Good /\ ~Assoc!ResendInit
           /\ \A e \in Assoc!Endpoints : ~Assoc!OnOperationalError(e) /\ ~Assoc!Discard(e) /\ ~Assoc!Close(e) /\ ~Assoc!Lose(e)
  <1>1. /\ lost' = 0 /\ inits' = 0 /\ lost \in Nat /\ inits \in Nat
        /\ \A x \in Assoc!Endpoints : live'[x] /\ downs'[x] = 0 /\ downs[x] \in Nat
        /\ DOMAIN live = Assoc!Endpoints /\ DOMAIN downs = Assoc!Endpoints
    BY DEF Good, Shape, Frame
  <1>2. ~Assoc!ResendInit
    BY <1>1 DEF Assoc!ResendInit
  <1>3. \A e \in Assoc!Endpoints : ~Assoc!OnOperationalError(e) /\ ~Assoc!Discard(e) /\ ~Assoc!Close(e) /\ ~Assoc!Lose(e)
    <2> SUFFICES ASSUME NEW e \in Assoc!Endpoints
                 PROVE  ~Assoc!OnOperationalError(e) /\ ~Assoc!Discard(e) /\ ~Assoc!Close(e) /\ ~Assoc!Lose(e)
      OBVIOUS
    <2>1. ~Assoc!OnOperationalError(e)
      BY <1>1 DEF Assoc!OnOperationalError
    <2>2. ~Assoc!Discard(e) /\ ~Assoc!Close(e) /\ ~Assoc!Lose(e)
      BY <1>1 DEF Assoc!Discard, Assoc!Close, Assoc!Lose
    <2> QED
      BY <2>1, <2>2
  <1>4. UNCHANGED <<lost, inits, downs>>
    BY <1>2, <1>3 DEF Assoc!Next, Assoc!Receive, Assoc!Connect, Assoc!OnInit, Assoc!OnBadInit, Assoc!OnHeartbeat, Assoc!OnInitAck, Assoc!OnCookieEcho,
       Assoc!OnCookieAck, Assoc!Connected, Assoc!OnData, Assoc!HeartbeatTest, Assoc!Heartbeat, Assoc!CloseStream
  <1>5. \A x \in Assoc!Endpoints : live[x]
    <2>1. \/ UNCHANGED live
          \/ \E e \in Assoc!Endpoints : Assoc!OnData(e)
      BY <1>2, <1>3 DEF Assoc!Next, Assoc!Receive, Assoc!Connect, Assoc!OnInit, Assoc!OnBadInit, Assoc!OnHeartbeat, Assoc!OnInitAck, Assoc!OnCookieEcho,
         Assoc!OnCookieAck, Assoc!Connected, Assoc!HeartbeatTest, Assoc!Heartbeat, Assoc!CloseStream
    <2>2. ASSUME NEW e \in Assoc!Endpoints, Assoc!OnData(e)
          PROVE  \A x \in Assoc!Endpoints : live[x]
      <3>1. live[e] /\ (UNCHANGED live \/ \E b \in BOOLEAN : live' = [live EXCEPT ![e] = b])
        BY <2>2 DEF Assoc!OnData, Assoc!Got, Assoc!OnOpen, Assoc!OnAck, Assoc!OnStreamClose
      <3> QED
        BY <1>1, <3>1
    <2> QED
      BY <1>1, <2>1, <2>2
  <1> QED
    BY <1>1, <1>2, <1>3, <1>4, <1>5 DEF Good

\* INIT and COOKIE ECHO are handled by the server only, COOKIE ACK by the client.
LEMMA WhoHandles ==
    ASSUME AssocInv, NEW e \in Assoc!Endpoints
    PROVE  /\ Assoc!Got(e, "init") => e = "S" /\ N("S", "init") > 0
           /\ Assoc!Got(e, "cookie_echo") => e = "S" /\ N("S", "cookie_echo") > 0
           /\ Assoc!Got(e, "cookie_ack") => e = "C" /\ N("C", "cookie_ack") > 0
  <1>1. Shape /\ Sides
    BY DEF AssocInv
  <1>2. \A ty : Assoc!Got(e, ty) => N(e, ty) > 0
    BY <1>1, GotCount
  <1>3. e = "C" \/ e = "S"
    BY DEF Assoc!Endpoints
  <1> QED
    BY <1>1, <1>2, <1>3 DEF Sides

\* A DATA chunk is one of those that Talking allows.
LEMMA DataSays ==
    ASSUME Shape, Frame, Says, NEW e \in Assoc!Endpoints, Assoc!OnData(e)
    PROVE  Says'
  <1>1. ups[Offerer] # 0
    <2> SUFFICES ASSUME Unopened PROVE FALSE
      BY DEF Says
    <2>1. On(e, <<>>, FALSE)
      BY DEF Unopened
    <2> QED
      BY <2>1, TakenIs
  <1>2. Talking /\ UNCHANGED ups
    BY <1>1 DEF Says, Assoc!OnData
  <1>3. Talking'
    BY <1>2, OffererTakes, AnswererTakes, TwoEnds
  <1> QED
    BY <1>1, <1>2, <1>3 DEF Says

\* The application closes a channel that has been opened.
LEMMA CloseStreamSays ==
    ASSUME Shape, Frame, Says, NEW e \in Assoc!Endpoints, Assoc!CloseStream(e)
    PROVE  Says'
  <1>1. ups[Offerer] # 0
    <2> SUFFICES ASSUME Unopened PROVE FALSE
      BY DEF Says
    <2> QED
      BY DEF Unopened, Assoc!CloseStream
  <1>2. Talking /\ UNCHANGED ups
    BY <1>1 DEF Says, Assoc!CloseStream
  <1>3. Talking'
    BY <1>2, OffererClosesStream, AnswererClosesStream, TwoEnds
  <1> QED
    BY <1>1, <1>2, <1>3 DEF Says

\* Either side is told that the association is up.
LEMMA ConnectedSays ==
    ASSUME AssocInv, Frame, Says, inits = 0, NEW e \in Assoc!Endpoints, Assoc!OnCookieEcho(e) \/ Assoc!OnCookieAck(e)
    PROVE  Says'
  <1>1. Shape
    BY DEF AssocInv
  <1>2. PICK first : /\ first \in {<<Assoc!Chunk("cookie_ack")>>, <<>>} /\ Assoc!Connected(e, first)
                     /\ net[e] # <<>> /\ Head(net[e]).type # "data"
    BY DEF Assoc!OnCookieEcho, Assoc!OnCookieAck, Assoc!Got
  <1>3. NoData(first)
    BY <1>2, ChunkNoData
  <1>4. ups[e] = 0
    BY WhoHandles, NotYet DEF Assoc!OnCookieEcho, Assoc!OnCookieAck
  <1>5. CASE e = Offerer
    <2>1. Unopened
      BY <1>4, <1>5 DEF Says
    <2> QED
      BY <1>1, <1>2, <1>3, <1>4, <1>5, <2>1, OffererConnected
  <1>6. CASE e = Answerer
    BY <1>1, <1>2, <1>3, <1>6, AnswererConnected
  <1> QED
    BY <1>5, <1>6, TwoEnds

\* An INIT is sent or handled: no channel has been opened yet.
LEMMA InitSays ==
    ASSUME AssocInv, Says, inits = 0, NEW e \in Assoc!Endpoints, Assoc!OnInit(e) \/ (e = "C" /\ Assoc!Connect)
    PROVE  Says'
  <1>1. Shape
    BY DEF AssocInv
  <1>2. ups[Offerer] = 0
    BY WhoHandles, NotYet DEF Assoc!OnInit, Assoc!Connect, Before
  <1>3. NoData(<<Assoc!Chunk("init")>>) /\ NoData(<<Assoc!Chunk("init_ack")>>)
    BY ChunkNoData
  <1>4. NoTalk
    <2>1. CASE Assoc!OnInit(e)
      <3>1. net[e] # <<>> /\ Head(net[e]).type # "data" /\ Assoc!Reply(e, <<Assoc!Chunk("init_ack")>>)
        BY <2>1 DEF Assoc!OnInit, Assoc!Got
      <3> QED
        BY <1>1, <1>3, <3>1, ReplyNoTalk
    <2>2. CASE e = "C" /\ Assoc!Connect
      BY <1>1, <1>3, <2>2, SendNoTalk DEF Assoc!Connect
    <2> QED
      BY <2>1, <2>2
  <1>5. streams' = [streams EXCEPT ![e] = <<>>] /\ UNCHANGED <<opened, channel, nextSid, ups>>
    BY DEF Assoc!OnInit, Assoc!Connect
  <1> QED
    BY <1>1, <1>2, <1>4, <1>5, ClearingSays

\* The other steps change no stream.
LEMMA PlainSays ==
    ASSUME Shape, Says, NEW e \in Assoc!Endpoints, live[e],
           Assoc!OnBadInit(e) \/ Assoc!OnHeartbeat(e) \/ Assoc!OnInitAck(e) \/ Assoc!HeartbeatTest(e) \/ Assoc!Heartbeat(e)
    PROVE  Says'
  <1>1. /\ NoData(<<Assoc!Chunk("operational_error")>>) /\ NoData(<<Assoc!Chunk("cookie_echo")>>)
        /\ NoData(<<Assoc!Chunk("heartbeat")>>)
    BY ChunkNoData
  <1>2. UNCHANGED <<streams, opened, channel, nextSid, ups>>
    BY DEF Assoc!OnBadInit, Assoc!OnHeartbeat, Assoc!OnInitAck, Assoc!HeartbeatTest, Assoc!Heartbeat
  <1>3. CASE Assoc!OnBadInit(e) \/ Assoc!OnHeartbeat(e) \/ Assoc!OnInitAck(e)
    <2>1. /\ net[e] # <<>> /\ Head(net[e]).type # "data"
          /\ Assoc!Reply(e, <<Assoc!Chunk("operational_error")>>) \/ Assoc!Reply(e, <<Assoc!Chunk("cookie_echo")>>)
      BY <1>3 DEF Assoc!OnBadInit, Assoc!OnHeartbeat, Assoc!OnInitAck, Assoc!Got
    <2>2. NoTalk
      BY <1>1, <2>1, ReplyNoTalk
    <2> QED
      BY <1>2, <2>2, StillSays
  <1>4. CASE Assoc!HeartbeatTest(e)
    <2>1. NoTalk
      BY <1>4 DEF Assoc!HeartbeatTest, NoTalk, On
    <2> QED
      BY <1>2, <2>1, StillSays
  <1>5. CASE Assoc!Heartbeat(e)
    <2>1. Assoc!Send(e, <<Assoc!Chunk("heartbeat")>>)
      BY <1>5 DEF Assoc!Heartbeat
    <2>2. NoTalk
      BY <1>1, <2>1, SendNoTalk
    <2> QED
      BY <1>2, <2>2, StillSays
  <1> QED
    BY <1>3, <1>4, <1>5

\* The invariant holds at the start
LEMMA InitTalk ==
    ASSUME Assoc!Init
    PROVE  TalkInv
  <1>1. AssocInv
    BY InitAssocInv
  <1>2. Frame
    BY DEF Assoc!Init, Frame
  <1>3. \A e \in Assoc!Endpoints : On(e, <<>>, FALSE)
    BY CarriesNone, CountNone DEF Assoc!Init, On
  <1>4. Unopened
    <2>1. \A e \in Assoc!Endpoints : DOMAIN streams[e] = {} /\ opened[e] = {} /\ channel[e] = NoChannel
      BY DEF Assoc!Init, NoChannel
    <2>2. nextSid[Offerer] = FirstSid
      BY TwoEnds DEF Assoc!Init, FirstSid
    <2> QED
      BY <1>3, <2>1, <2>2 DEF Unopened
  <1>5. ups[Offerer] = 0
    BY TwoEnds DEF Assoc!Init
  <1> QED
    BY <1>1, <1>2, <1>4, <1>5 DEF TalkInv, Talk

\* and every step preserves it.
LEMMA NextTalk ==
    ASSUME TalkInv, [Assoc!Next]_Assoc!vars
    PROVE  TalkInv'
  <1>1. AssocInv /\ Frame /\ Shape /\ (Good => Says)
    BY DEF TalkInv, Talk, Says, AssocInv
  <1>2. AssocInv' /\ Frame'
    BY <1>1, NextAssocInv, NextFrame
  <1>3. ASSUME Good', Assoc!Next
        PROVE  Says'
    <2>1. /\ Good /\ ~Assoc!ResendInit /\ Says /\ inits = 0 /\ \A e \in Assoc!Endpoints : live[e]
          /\ \A e \in Assoc!Endpoints : ~Assoc!OnOperationalError(e) /\ ~Assoc!Discard(e) /\ ~Assoc!Close(e) /\ ~Assoc!Lose(e)
      BY <1>1, <1>3, GoodBefore DEF Good
    <2>2. CASE Assoc!Connect
      <3>1. "C" \in Assoc!Endpoints
        BY DEF Assoc!Endpoints
      <3> QED
        BY <1>1, <2>1, <2>2, <3>1, InitSays
    <2>3. ASSUME NEW e \in Assoc!Endpoints, Assoc!Receive(e)
          PROVE  Says'
      BY <1>1, <2>1, <2>3, InitSays, PlainSays, ConnectedSays, DataSays DEF Assoc!Receive
    <2>4. ASSUME NEW e \in Assoc!Endpoints, Assoc!HeartbeatTest(e) \/ Assoc!Heartbeat(e) \/ Assoc!CloseStream(e)
          PROVE  Says'
      BY <1>1, <2>1, <2>4, PlainSays, CloseStreamSays
    <2> QED
      BY <1>3, <2>1, <2>2, <2>3, <2>4 DEF Assoc!Next
  <1>4. ASSUME Good', UNCHANGED Assoc!vars
        PROVE  Says'
    <2>1. Good
      BY <1>4 DEF Good, Assoc!vars
    <2>2. NoTalk
      BY <1>4 DEF NoTalk, On, Assoc!vars
    <2> QED
      BY <1>1, <1>4, <2>1, <2>2, StillSays DEF Assoc!vars
  <1>5. Talk'
    BY <1>3, <1>4 DEF Talk, Says
  <1> QED
    BY <1>2, <1>5 DEF TalkInv

\* What it says of a state in which nothing is on its way.
LEMMA TalkMeans ==
    ASSUME TalkInv
    PROVE  ChannelInStep
  <1> SUFFICES ASSUME lost = 0, inits = 0,
                      \A e \in Assoc!Endpoints : net[e] = <<>> /\ live[e] /\ ups[e] > 0 /\ downs[e] = 0,
                      NEW e \in Assoc!Endpoints
               PROVE  LET sid == channel[e].sid
                          there == streams[Assoc!Peer(e)]
                      IN /\ channel[Assoc!Peer(e)].sid = sid
                         /\ sid \in opened[e] =>
                              sid \in DOMAIN there /\ streams[e][sid].recv = there[sid].send
    BY DEF ChannelInStep, Endpoints, Assoc!Endpoints, Peer, Assoc!Peer
  <1> DEFINE O == Offerer
             A == Answerer
  <1>1. /\ O \in Assoc!Endpoints /\ A \in Assoc!Endpoints /\ O # A /\ Assoc!Peer(O) = A /\ Assoc!Peer(A) = O
        /\ e = O \/ e = A
    BY TwoEnds
  <1>2. AssocInv /\ Talking
    <2>1. ~(ups[O] = 0)
      BY <1>1
    <2> QED
      BY <2>1 DEF TalkInv, Talk, Good
  <1>3. \A x \in Assoc!Endpoints : \A c, more : ~On(x, <<c>>, more)
    <2> SUFFICES ASSUME NEW x \in Assoc!Endpoints, NEW c, NEW more, Carries(<<>>, <<c>>, more)
                 PROVE  FALSE
      BY DEF On
    <2>1. PICK f : DataPlaces(<<>>, <<c>>, more, f)
      BY DEF Carries
    <2> QED
      BY <2>1 DEF DataPlaces
  <1>4. \A x \in Assoc!Endpoints : \A b, c, more : ~On(x, <<b, c>>, more)
    <2> SUFFICES ASSUME NEW x \in Assoc!Endpoints, NEW b, NEW c, NEW more, Carries(<<>>, <<b, c>>, more)
                 PROVE  FALSE
      BY DEF On
    <2>1. PICK f : DataPlaces(<<>>, <<b, c>>, more, f)
      BY DEF Carries
    <2> QED
      BY <2>1 DEF DataPlaces
  <1>5. ~Offered /\ ~AckComes /\ ~OffererCloses
    BY <1>1, <1>3, <1>4 DEF Offered, AckComes, OffererCloses
  <1>6. CASE Ended
    <2>1. opened[O] = {} /\ opened[A] = {} /\ channel[O].sid = channel[A].sid
      BY <1>1, <1>3, <1>4, <1>6 DEF Ended
    <2> QED
      BY <1>1, <2>1
  <1>7. CASE Accepted
    <2>1. /\ opened[O] = {FirstSid} /\ opened[A] = {FirstSid}
          /\ channel[O].sid = FirstSid /\ channel[A].sid = FirstSid
          /\ Sent(O) = 1 /\ Recv(O) = 1 /\ Sent(A) = 1 /\ Recv(A) = 1
      BY <1>5, <1>7 DEF Accepted, BothOpen
    <2>2. ASSUME NEW x \in {O, A}
          PROVE  /\ FirstSid \in DOMAIN streams[x]
                 /\ streams[x][FirstSid].recv = 1 /\ streams[x][FirstSid].send = 1
      <3>1. Channel(x).send = 1 /\ Channel(x).recv = 1 /\ Assoc!Fresh.send = 0
        BY <2>1 DEF Sent, Recv, Assoc!Fresh
      <3> QED
        BY <3>1 DEF Channel, Assoc!Stream
    <2> QED
      BY <1>1, <2>1, <2>2
  <1> QED
    BY <1>2, <1>5, <1>6, <1>7 DEF Talking

\* Both media streams use the id that the offerer chose, and an open channel's two ends agree on
\* the next message in either direction, once everything sent has arrived: whatever the order in
\* which opens, acks and the closes of either application crossed.
THEOREM ChannelInStepAlways == Assoc!Spec => []ChannelInStep
  <1> QED
    BY InitTalk, NextTalk, TalkMeans, PTL DEF Assoc!Spec
=============================================================================
