---------------------------- MODULE ReceiverState ----------------------------
(***************************************************************************)
(* What the receivers of every kind of media have: the buffer and the NACK *)
(* list of rtpx::receiver (src/rtpx/receivers/receiver.h) and the network  *)
(* before it.  Modules RtpReceiver and VideoReceiver say how they change.  *)
(***************************************************************************)
EXTENDS SeqNum

CONSTANT
    BufferSize  \* PACKET_BUFFER_SIZE (512)

ASSUME BufferAssumption == BufferSize \in Nat \ {0} /\ T % BufferSize = 0

VARIABLES
    network,    \* the network this behaviour runs on
    net,        \* packets in flight, the oldest first
    reset,      \* reset_
    begin, end, \* begin_seq_ and end_seq_
    packs,      \* recv_packs_
    nacks,      \* the keys of nack_packs_
    rtcp        \* NACK messages in flight, the oldest first
==============================================================================
