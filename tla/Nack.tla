-------------------------------- MODULE Nack --------------------------------
(***************************************************************************)
(* Which sequence numbers are put on the NACK list (receiver::add_nack),   *)
(* how a set of them becomes RTCP NACK messages (receiver::process_nack    *)
(* with nack_pid_bid) and which packets the other side then looks up       *)
(* (media_stream::on_rtcp_fb_nack).                                        *)
(*                                                                         *)
(* A message has a packet id and a set of bits, the mask of 16 bits.       *)
(***************************************************************************)
EXTENDS SeqNum, Sequences, SequencesExt, FiniteSets

CONSTANT MaskBits  \* 16

ASSUME MaskAssumption == MaskBits \in Nat \ {0}

\* add_nack(): the sequence numbers from first to last, both included.
NackRange(first, last) ==
    {(first + i) % T : i \in 0..ForwardDiff(first, last)}

\* nack_list(): sorted, the highest number first.
NackList(missing) ==
    [i \in 1..Cardinality(missing) |->
       CHOOSE x \in missing : Cardinality({y \in missing : y > x}) = i - 1]

\* nack_pid_bid::add() and the loop of process_nack().
Fits_M(msg, seq) == (msg.pid - seq) % T < MaskBits
Fits(msg, seq) == (seq - msg.pid) % T < MaskBits
AddTo(msgs, seq) ==
    LET last == msgs[Len(msgs)] IN
    IF msgs # <<>> /\ Fits(last, seq)
      THEN [msgs EXCEPT ![Len(msgs)].bid = @ \union {(seq - last.pid) % T}]
      ELSE Append(msgs, [pid |-> seq, bid |-> {}])
Messages(missing) == FoldLeft(AddTo, <<>>, NackList(missing))

\* on_rtcp_fb_nack(): the mask is shifted by i in step i = 0, 1, ...,
\* on top of the steps before, so that step i looks at bit 0 + 1 + ... + i.
Lookups(msg) ==
    LET Set(i) == (i * (i - 1)) \div 2 \in msg.bid
        steps == SelectSeq([i \in 1..MaskBits |-> i], Set)
    IN <<msg.pid>> \o [j \in DOMAIN steps |-> (msg.pid + steps[j]) % T]

Requested(missing) ==
    UNION {ToSet(Lookups(Messages(missing)[i])) : i \in DOMAIN Messages(missing)}
=============================================================================
