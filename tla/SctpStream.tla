----------------------------- MODULE SctpStream -----------------------------
(***************************************************************************)
(* Data transfer of rtpx's SCTP (src/rtpx/sctp/sctp_stream.cpp and the     *)
(* data paths of sctp.cpp), in one direction: endpoint A sends user        *)
(* messages on its streams, endpoint B receives them.  The network         *)
(* reorders; a "lossy" one loses packets and delivers the others within a  *)
(* second, a "wild" one may deliver a packet at any time and any number of *)
(* times, or never.                                                        *)
(*                                                                         *)
(* A message is cut into chunks that share a stream sequence number (SSN)  *)
(* and have consecutive transmission sequence numbers (TSN).  A keeps sent *)
(* chunks and resends them once a second, three times at most, until a     *)
(* SACK covers them.  B collects chunks by SSN, hands complete messages up *)
(* in SSN order and answers with a SACK computed from ONE message.         *)
(*                                                                         *)
(* Payloads are abstract: fragment i of the k-th message of stream s is    *)
(* <<s, k, i>>.  SSNs and TSNs do not wrap here: local_tsn_ starts below   *)
(* 0xFF000000 and both counters are bounded by MaxMessages.                *)
(***************************************************************************)
EXTENDS Integers, Sequences, FiniteSets, FiniteSetsExt, Functions

CONSTANTS
    Streams,        \* the stream ids in use
    FragmentCounts, \* the numbers of chunks split_data cuts a message into
    MaxMessages,    \* bound: messages sent on a stream
    MaxSent,        \* 10000: send() refuses when sent_messages_ is larger
    MaxResends,     \* 3: sent_times at which a chunk is given up
    MsgTimeout,     \* msg_timeout_ in seconds (3)
    MaxChunks,      \* MAX_CHUNKS_PER_MESSAGE (256)
    MaxLoss,        \* bound: packets the network loses
    Networks        \* the networks to consider

ASSUME StreamsAssumption == IsFiniteSet(Streams)
ASSUME CountsAssumption ==
    /\ FragmentCounts \subseteq Nat \ {0}
    /\ MaxMessages \in Nat /\ MaxSent \in Nat /\ MaxResends \in Nat \ {0}
    /\ MsgTimeout \in Nat \ {0} /\ MaxChunks \in Nat \ {0} /\ MaxLoss \in Nat
    /\ Networks \subseteq {"lossy", "wild"}

\* The TSN that A's INIT announced, and B's remote_init_tsn_.
InitTsn == 1

VARIABLES
    network,    \* the kind of network; it does not change
    localTsn,   \* A: local_tsn_
    accepted,   \* A: accepted[s]: the messages send() took on s (history)
    unacked,    \* A: the blocks of sent_messages_ of all streams
    exhausted,  \* A: TSNs given up after MaxResends (history)
    inbox,      \* B: inbox[s]: messages_ of stream s, by SSN
    nextRecv,   \* B: next_recv_ssn_
    got,        \* B: TSNs received (history)
    delivered,  \* B: delivered[s]: payloads handed up (history)
    down,       \* B: an operational error closed the association
    data,       \* network: chunks from A to B
    sacks,      \* network: SACKs from B to A
    opError,    \* network: an OPERATIONAL ERROR from A to B
    losses,     \* packets lost so far
    ticked      \* the endpoints whose ack timer has fired this second

sendVars == <<localTsn, accepted, unacked, exhausted>>
recvVars == <<inbox, nextRecv, got, delivered, down>>
netVars == <<data, sacks, opError, losses>>
vars == <<network, sendVars, recvVars, netVars, ticked>>

Init ==
    /\ network \in Networks
    /\ localTsn = InitTsn
    /\ accepted = [s \in Streams |-> <<>>]
    /\ unacked = <<>>
    /\ exhausted = {}
    /\ inbox = [s \in Streams |-> <<>>]
    /\ nextRecv = [s \in Streams |-> 0]
    /\ got = {}
    /\ delivered = [s \in Streams |-> <<>>]
    /\ down = FALSE
    /\ data = {}
    /\ sacks = {}
    /\ opError = FALSE
    /\ losses = 0
    /\ ticked = {}

-----------------------------------------------------------------------------
(* sctp_message                                                            *)

Message(s, k, n) == [i \in 1..n |-> <<s, k, i>>]

Chunk(s, k, i, n, tsn) ==
    [tsn |-> tsn, sid |-> s, ssn |-> k - 1, begin |-> i = 1, end |-> i = n,
     payload |-> <<s, k, i>>]

\* The constructor: begin_tsn is init_tsn - 1 until the first chunk is there.
EmptyMessage == [begin_tsn |-> InitTsn - 1, blocks |-> {}, age |-> 0]

\* The begin chunk does not move begin_tsn.
Insert_M(m, c) == [m EXCEPT !.blocks = @ \union {c}, !.age = 0]

\* sctp_message::insert(); a chunk that is already there is kept as it is.
Insert(m, c) ==
    [begin_tsn |-> IF c.begin THEN c.tsn ELSE m.begin_tsn,
     blocks |-> IF \E b \in m.blocks : b.tsn = c.tsn THEN m.blocks ELSE m.blocks \union {c},
     age |-> 0]

Block(m, tsn) == CHOOSE b \in m.blocks : b.tsn = tsn
Has(m, tsn) == \E b \in m.blocks : b.tsn = tsn

\* The TSNs that the loops of is_completed(), calc_gaps() and serialize() look
\* at: from begin_tsn to the first present chunk with the end flag, no more than
\* MAX_CHUNKS_PER_MESSAGE of them.
Scan(m) ==
    LET limit == m.begin_tsn + MaxChunks - 1
        ends == {b.tsn : b \in {c \in m.blocks : c.end /\ c.tsn >= m.begin_tsn}}
    IN m.begin_tsn..Min(ends \union {limit})

\* is_completed()
IsCompleted(m) ==
    /\ \A t \in Scan(m) : Has(m, t)
    /\ \E t \in Scan(m) : Block(m, t).begin
    /\ \E t \in Scan(m) : Block(m, t).end

\* The loop is left at the end chunk before its payload is copied.
Serialize_M(m) ==
    LET first == Min(Scan(m))
    IN [i \in 1..(Cardinality(Scan(m)) - 1) |-> Block(m, first + i - 1).payload]

\* serialize()
Serialize(m) ==
    LET first == Min(Scan(m))
    IN [i \in 1..Cardinality(Scan(m)) |-> Block(m, first + i - 1).payload]

\* calc_gaps(): the maximal runs of present TSNs; the first is acknowledged
\* cumulatively if the begin chunk is there, the others become gap blocks.
Runs(m) ==
    LET present == {t \in Scan(m) : Has(m, t)}
    IN {r \in present \X present :
          /\ r[1] <= r[2]
          /\ r[1]..r[2] \subseteq present
          /\ r[1] - 1 \notin present
          /\ r[2] + 1 \notin present}

Sack(m) ==
    LET runs == Runs(m)
        started == \E t \in Scan(m) : Has(m, t) /\ Block(m, t).begin
        first == CHOOSE r \in runs : \A q \in runs : r[1] <= q[1]
        cumulative == IF started THEN first[2] ELSE InitTsn - 1
        rest == IF started THEN runs \ {first} ELSE runs
    IN [tsn |-> cumulative, gaps |-> {<<r[1] - cumulative, r[2] - cumulative>> : r \in rest}]

-----------------------------------------------------------------------------
(* Endpoint A                                                              *)

SentSsns(s) == {c.ssn : c \in {b \in DOMAIN unacked : b.sid = s}}

\* send_user_message() and sctp_stream::send(): all chunks are sent at once and
\* kept in sent_messages_.
Send(s, n) ==
    /\ Len(accepted[s]) < MaxMessages
    /\ Cardinality(SentSsns(s)) <= MaxSent
    /\ LET k == Len(accepted[s]) + 1
           chunks == {Chunk(s, k, i, n, localTsn + i - 1) : i \in 1..n}
       IN /\ accepted' = [accepted EXCEPT ![s] = Append(@, Message(s, k, n))]
          /\ data' = data \union chunks
          /\ unacked' = [c \in DOMAIN unacked \union chunks |->
                           IF c \in chunks THEN 0 ELSE unacked[c]]
    /\ localTsn' = localTsn + n
    /\ UNCHANGED <<network, exhausted, recvVars, sacks, opError, losses, ticked>>

\* sctp_sack_chunk::deserialize(): it asks for 8 bytes for every gap block, of
\* which serialize() wrote 4, so a SACK with a gap block is refused.
Parses(sack) ==
    LET g == Cardinality(sack.gaps) IN 12 + 4 * g >= 12 + 8 * g

\* One TSN too many.
Acked_M1(sack) == (sack.tsn - MaxChunks)..(sack.tsn + 1)

\* The TSNs that process_sack() takes as acknowledged.
Acked(sack) ==
    (sack.tsn - MaxChunks)..sack.tsn
      \union UNION {{sack.tsn + r[1], sack.tsn + r[2]} : r \in sack.gaps}

\* on_sack(): process_sack() on every stream, or an OPERATIONAL ERROR.
ReceiveSack(sack) ==
    /\ sacks' = IF network = "wild" THEN sacks ELSE sacks \ {sack}
    /\ IF Parses(sack)
         THEN /\ unacked' = RestrictDomain(unacked, LAMBDA c : c.tsn \notin Acked(sack))
              /\ UNCHANGED opError
         ELSE opError' = TRUE /\ UNCHANGED unacked
    /\ UNCHANGED <<network, localTsn, accepted, exhausted, recvVars, data, losses, ticked>>

\* on_ack_timer() at A: resend_messages() sends every kept chunk once more and
\* gives up those that have now been resent MaxResends times.
Exhausted(c) == unacked[c] + 1 >= MaxResends

SenderTimer ==
    /\ "A" \notin ticked
    /\ ticked' = ticked \union {"A"}
    /\ data' = data \union DOMAIN unacked
    /\ unacked' = [c \in {b \in DOMAIN unacked : ~Exhausted(b)} |-> unacked[c] + 1]
    /\ exhausted' = exhausted \union {c.tsn : c \in {b \in DOMAIN unacked : Exhausted(b)}}
    /\ UNCHANGED <<network, localTsn, accepted, recvVars, sacks, opError, losses>>

-----------------------------------------------------------------------------
(* Endpoint B                                                              *)

\* sctp_stream::insert()
Filed(box, c) ==
    LET m == IF c.ssn \in DOMAIN box THEN box[c.ssn] ELSE EmptyMessage
    IN [n \in DOMAIN box \union {c.ssn} |-> IF n = c.ssn THEN Insert(m, c) ELSE box[n]]

\* The SSNs that the next_message() loop takes out of the box, from next on.
Ready(box, next) ==
    {n \in DOMAIN box : n >= next /\ \A i \in next..n : i \in DOMAIN box /\ IsCompleted(box[i])}

\* on_data() and insert_data_chunk(): every message that is complete and next in
\* order is acknowledged and handed up.
ReceiveData(c) ==
    /\ ~down
    /\ data' = IF network = "wild" THEN data ELSE data \ {c}
    /\ got' = got \union {c.tsn}
    /\ LET box == Filed(inbox[c.sid], c)
           ready == Ready(box, nextRecv[c.sid])
           count == Cardinality(ready)
           next == nextRecv[c.sid]
       IN /\ inbox' = [inbox EXCEPT ![c.sid] = RestrictDomain(box, LAMBDA n : n \notin ready)]
          /\ nextRecv' = [nextRecv EXCEPT ![c.sid] = @ + count]
          /\ delivered' = [delivered EXCEPT ![c.sid] =
                             @ \o [i \in 1..count |-> Serialize(box[next + i - 1])]]
          /\ sacks' = sacks \union {Sack(box[n]) : n \in ready}
    /\ UNCHANGED <<network, sendVars, down, opError, losses, ticked>>

\* on_ack_timer() at B: clear_timeout_recv_messages(), then a SACK for the
\* message that is next in order, if any chunk of it is there.
ReceiverTimer ==
    /\ "B" \notin ticked
    /\ ~down
    /\ ticked' = ticked \union {"B"}
    /\ inbox' = [s \in Streams |-> RestrictValues(inbox[s], LAMBDA m : m.age < MsgTimeout)]
    /\ sacks' = sacks \union
         {Sack(inbox'[s][nextRecv[s]]) : s \in {t \in Streams : nextRecv[t] \in DOMAIN inbox'[t]}}
    /\ UNCHANGED <<network, sendVars, nextRecv, got, delivered, down, data, opError, losses>>

\* on_operational_error(): the streams are dropped and the application is told
\* that the association is gone; what B does after that is not modelled.
ReceiveError ==
    /\ opError
    /\ ~down
    /\ opError' = FALSE
    /\ down' = TRUE
    /\ inbox' = [s \in Streams |-> <<>>]
    /\ UNCHANGED <<network, sendVars, nextRecv, got, delivered, data, sacks, losses, ticked>>

-----------------------------------------------------------------------------
(* The network and the clock                                               *)

Lose ==
    /\ network = "lossy"
    /\ losses < MaxLoss
    /\ losses' = losses + 1
    /\ \/ \E c \in data : data' = data \ {c} /\ UNCHANGED <<sacks, opError>>
       \/ \E k \in sacks : sacks' = sacks \ {k} /\ UNCHANGED <<data, opError>>
       \/ opError /\ opError' = FALSE /\ UNCHANGED <<data, sacks>>
    /\ UNCHANGED <<network, sendVars, recvVars, ticked>>

\* Both timers fire once a second.
NextSecond ==
    /\ ticked = {"A", "B"} \/ (down /\ ticked = {"A"})
    /\ network = "wild" \/ (data = {} /\ sacks = {} /\ ~opError)
    /\ ticked' = {}
    /\ inbox' = [s \in Streams |->
                   [n \in DOMAIN inbox[s] |->
                      [inbox[s][n] EXCEPT !.age = Min({@ + 1, MsgTimeout})]]]
    /\ UNCHANGED <<network, sendVars, nextRecv, got, delivered, down, netVars>>

DeliverData == \E c \in data : ReceiveData(c)
DeliverSack == \E k \in sacks : ReceiveSack(k)

Next ==
    \/ \E s \in Streams, n \in FragmentCounts : Send(s, n)
    \/ DeliverData \/ DeliverSack \/ ReceiveError
    \/ SenderTimer \/ ReceiverTimer
    \/ Lose \/ NextSecond

Spec == Init /\ [][Next]_vars

\* The lossy network delivers what it does not lose, and the timers keep firing.  In
\* a second each of this happens a bounded number of times, so it is enough that one
\* of them goes on while any can.  The wild network promises nothing.
Progress == DeliverData \/ DeliverSack \/ ReceiveError \/ SenderTimer \/ ReceiverTimer \/ NextSecond
FairSpec == Spec /\ WF_vars(network = "lossy" /\ Progress)

-----------------------------------------------------------------------------
ChunkType ==
    [tsn : Nat, sid : Streams, ssn : Nat, begin : BOOLEAN, end : BOOLEAN,
     payload : Streams \X Nat \X Nat]

\* The members of sctp_stream keep their types; a chunk is never resent more often than
\* resend_messages() allows.
TypeOK ==
    /\ network \in Networks
    /\ localTsn \in Nat
    /\ DOMAIN unacked \subseteq ChunkType
    /\ \A c \in DOMAIN unacked : unacked[c] \in 0..(MaxResends - 1)
    /\ exhausted \subseteq Nat
    /\ \A s \in Streams : \A n \in DOMAIN inbox[s] :
          /\ n \in Nat
          /\ inbox[s][n].blocks \subseteq ChunkType
          /\ inbox[s][n].age \in 0..MsgTimeout
    /\ nextRecv \in [Streams -> Nat]
    /\ got \subseteq Nat
    /\ down \in BOOLEAN
    /\ data \subseteq ChunkType
    /\ \A k \in sacks : k.tsn \in Int /\ k.gaps \subseteq Nat \X Nat
    /\ opError \in BOOLEAN
    /\ losses \in 0..MaxLoss
    /\ ticked \subseteq {"A", "B"}

\* On each stream B hands up a prefix of what A sent: no message is skipped,
\* repeated, reordered, truncated or mixed with another, whatever the network
\* and the resends and timeouts do.
DeliveredIsPrefix ==
    \A s \in Streams :
      /\ Len(delivered[s]) <= Len(accepted[s])
      /\ \A i \in DOMAIN delivered[s] : delivered[s][i] = accepted[s][i]

\* A chunk leaves A's sent_messages_ only when B has it or when it was resent as
\* often as the code allows: a SACK never acknowledges what B has not received.
NoSilentLoss ==
    \A t \in InitTsn..(localTsn - 1) :
      \/ t \in got
      \/ t \in exhausted
      \/ \E c \in DOMAIN unacked : c.tsn = t

\* The SACK format of sctp_chunk.h, which send_sack() writes, is one on_sack()
\* accepts: exchanging data never makes A report a protocol violation.
SacksAreAccepted == ~opError

\* With few enough losses B catches up with what A has accepted, unless the
\* association is torn down.
EventuallyDelivered ==
    \A s \in Streams :
      (network = "lossy" /\ Len(delivered[s]) < Len(accepted[s]))
        ~> (Len(delivered[s]) = Len(accepted[s]) \/ down)
=============================================================================
