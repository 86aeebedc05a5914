----------------------------- MODULE RtpReceiver -----------------------------
(***************************************************************************)
(* An RTP audio stream: the sender with its history of sent packets        *)
(* (src/rtpx/senders/sender.cpp), the receiver with its reordering buffer  *)
(* and NACK list (src/rtpx/receivers/receiver.cpp, receiver_audio.cpp) and *)
(* the RTCP NACKs between them (src/rtpx/media_stream.cpp).                *)
(*                                                                         *)
(* The k-th packet sent, k = 0, 1, ..., has sequence number (first + k)    *)
(* modulo T and stands for its own payload.  insert_packet() runs under    *)
(* the receiver's mutex_ and is one step.                                  *)
(***************************************************************************)
EXTENDS Nack, ReceiverState, FiniteSets, FiniteSetsExt

CONSTANT
    Networks    \* the networks a behaviour may run on, see Network

\* first: the number of the first packet; packets: how many are sent; window: a packet
\* is overtaken by fewer than window later ones; losses: packets that may be lost;
\* limit: 1000, the size from which on the NACK list is thrown away; silences: a second
\* may pass between two packets; answers: the sender gets the NACKs and answers them.
Network == [first : Numbers, packets : Nat, window : Nat \ {0}, losses : Nat, limit : Nat,
            silences : BOOLEAN, answers : BOOLEAN]
ASSUME StreamAssumption == Networks \subseteq Network

VARIABLES
    sent,       \* packets sent so far
    history,    \* sender: history_packets_
    losses,     \* packets lost so far
    received,   \* packets inserted so far (history)
    asked,      \* sequence numbers the NACKs sent so far ask for (history)
    delivered   \* the frames handed up (history)

vars == <<network, sent, history, net, losses, rtcp, reset, begin, end, packs, nacks,
          received, asked, delivered>>

None == -1
Slots == 0..(BufferSize - 1)
EmptyBuffer == [i \in Slots |-> None]
First == network.first
Seq16(k) == (First + k) % T

Init ==
    /\ network \in Networks
    /\ sent = 0
    /\ history = EmptyBuffer
    /\ net = <<>>
    /\ losses = 0
    /\ rtcp = <<>>
    /\ reset = TRUE
    /\ begin = -1
    /\ end = -1
    /\ packs = EmptyBuffer
    /\ nacks = {}
    /\ received = {}
    /\ asked = {}
    /\ delivered = <<>>

-----------------------------------------------------------------------------
(* The sender                                                              *)

\* sender::send_packet(), set_history() included.
Send_M ==
    /\ sent < network.packets
    /\ sent' = sent + 1
    /\ net' = Append(net, sent)
    /\ UNCHANGED <<network, history, losses, rtcp, reset, begin, end, packs, nacks, received,
                   asked, delivered>>
Send ==
    /\ sent < network.packets
    /\ sent' = sent + 1
    /\ net' = Append(net, sent)
    /\ history' = [history EXCEPT ![Seq16(sent) % BufferSize] = sent]
    /\ UNCHANGED <<network, losses, rtcp, reset, begin, end, packs, nacks, received, asked,
                   delivered>>

\* on_rtcp_fb_nack(): what is in the slots is sent again.
OnNack ==
    /\ rtcp # <<>>
    /\ LET slots == [i \in DOMAIN Lookups(Head(rtcp)) |-> Lookups(Head(rtcp))[i] % BufferSize]
           packets == [i \in DOMAIN slots |-> history[slots[i]]]
       IN net' = net \o SelectSeq(packets, LAMBDA k : k # None)
    /\ rtcp' = Tail(rtcp)
    /\ UNCHANGED <<network, sent, history, losses, reset, begin, end, packs, nacks, received, asked, delivered>>

-----------------------------------------------------------------------------
(* The receiver                                                            *)

\* The buffer is full: a long wait for a lost packet is given up.
Overflows_M(b, e) == FALSE
Overflows(b, e) == AheadOfMod(b, e, BufferSize)

\* find_a_frame(): how many numbers from b on the loop passes over.  It stops at
\* the first empty slot, unless a second has passed; slots it has emptied stay so.
Filled(buffer, b, o) == o < BufferSize /\ buffer[((b + o) % T) % BufferSize] # None
Passed_M(buffer, b, e, late) ==
    IF AheadOf(b, e) THEN 0 ELSE ForwardDiff(b, e) + 1
Passed(buffer, b, e, late) ==
    LET n == ForwardDiff(b, e)
        gaps == {o \in 0..n : ~Filled(buffer, b, o)}
    IN IF AheadOf(b, e) THEN 0
       ELSE IF late \/ gaps = {} THEN n + 1 ELSE Min(gaps)

Frames(buffer, b, n) ==
    LET offsets == {o \in 0..(n - 1) : Filled(buffer, b, o)}
        nth(i) == CHOOSE o \in offsets : Cardinality({x \in offsets : x < o}) = i - 1
    IN [i \in 1..Cardinality(offsets) |-> buffer[((b + nth(i)) % T) % BufferSize]]

\* receiver::insert_packet() and receiver_audio::find_a_frame() on packet k.
\* late: a second has passed since frames were last looked for.
Insert(k, late) ==
    LET seq == Seq16(k)
        restart == reset \/ AheadOf(begin % T, seq)
        b0 == IF restart THEN seq ELSE begin
        e0 == IF restart THEN seq ELSE end
        buffer == [(IF restart THEN EmptyBuffer ELSE packs) EXCEPT ![seq % BufferSize] = k]
        behind == AheadOf(e0, seq)
        e1 == IF behind THEN e0 ELSE seq
        lost == ~behind /\ ForwardDiff(e0, seq) > 1
        b1 == IF Overflows(b0, e1) THEN e1 ELSE b0
        n == Passed(buffer, b1, e1, late /\ ~restart)
        passed == {((b1 + o) % T) % BufferSize : o \in 0..(n - 1)}
    IN /\ reset' = FALSE
       /\ end' = e1
       /\ begin' = (b1 + n) % T
       /\ packs' = [i \in Slots |-> IF i \in passed THEN None ELSE buffer[i]]
       /\ nacks' = nacks \union (IF lost THEN NackRange((e0 + 1) % T, seq) ELSE {})
       /\ delivered' = delivered \o Frames(buffer, b1, n)
       /\ received' = received \union {k}

\* A packet is overtaken only by the window - 1 that follow it; the first packet of
\* the stream is not overtaken.
Deliver ==
    /\ \E i \in 1..Len(net), late \in (IF network.silences THEN BOOLEAN ELSE {FALSE}) :
         /\ i <= (IF received = {} THEN 1 ELSE network.window)
         /\ \A j \in 1..i : net[i] - net[j] < network.window
         /\ net' = RemoveAt(net, i)
         /\ Insert(net[i], late)
    /\ UNCHANGED <<network, sent, history, losses, rtcp, asked>>

\* process_nack(), posted by add_nack() and run by the timer: every number is
\* asked for once, because its count starts at nack_max_count_.  A number that
\* add_nack() adds again meanwhile is on the list already, so the snapshot that
\* nack_list() takes makes no difference.
ProcessNack ==
    /\ nacks # {}
    /\ nacks' = {}
    /\ \/ /\ Cardinality(nacks) >= network.limit
          /\ reset' = TRUE
          /\ UNCHANGED <<rtcp, asked>>
       \/ /\ Cardinality(nacks) < network.limit
          /\ asked' = asked \union Requested(nacks)
          /\ rtcp' = IF network.answers THEN rtcp \o Messages(nacks) ELSE rtcp
          /\ UNCHANGED reset
    /\ UNCHANGED <<network, sent, history, net, losses, begin, end, packs, received, delivered>>

Lose ==
    /\ losses < network.losses
    /\ net # <<>>
    /\ losses' = losses + 1
    /\ net' = Tail(net)
    /\ UNCHANGED <<network, sent, history, rtcp, reset, begin, end, packs, nacks, received, asked, delivered>>

Next == Send \/ OnNack \/ Deliver \/ ProcessNack \/ Lose

Spec == Init /\ [][Next]_vars

\* The application keeps sending, the network delivers what it does not lose, and
\* the io_context runs what is posted to it.  All this comes to an end, so it is
\* enough that one of them goes on while any can.
FairSpec == Spec /\ WF_vars(Send \/ OnNack \/ ProcessNack \/ Deliver)

-----------------------------------------------------------------------------
\* The members of receiver and sender keep their types: every sequence number that is
\* stored or asked for is within the range of uint16_t.
TypeOK ==
    /\ network \in Networks
    /\ sent \in 0..network.packets
    /\ history \in [Slots -> {None} \union 0..(network.packets - 1)]
    /\ ToSet(net) \subseteq 0..(network.packets - 1)
    /\ losses \in 0..network.losses
    /\ reset \in BOOLEAN
    /\ begin \in {-1} \union Numbers
    /\ end \in {-1} \union Numbers
    /\ packs \in [Slots -> {None} \union 0..(network.packets - 1)]
    /\ nacks \subseteq Numbers
    /\ asked \subseteq Numbers

\* ahead_of() tells from 16-bit sequence numbers alone which of two packets was sent
\* later, across the wrap, as long as fewer than half the numbers lie between them.
OrderRecovered ==
    \A i, j \in 0..(sent - 1) :
      (i - j < T \div 2 /\ j - i < T \div 2) => (AheadOf(Seq16(i), Seq16(j)) <=> i > j)

\* Frames come out in the order they were sent in and none comes out twice.
DeliveredInOrder ==
    \A i \in 1..(Len(delivered) - 1) : delivered[i] < delivered[i + 1]

\* Nothing is skipped or repeated: each frame follows the one before, however the
\* network reorders within the buffer's reach, or when lost packets come again.  (Only
\* a second of silence, or a wait beyond half the buffer, makes the receiver skip one.)
NothingSkipped ==
    ~network.silences =>
        \A i \in 1..(Len(delivered) - 1) : delivered[i + 1] = delivered[i] + 1

\* The test "packet buffer is empty or full" keeps the numbers that the receiver
\* waits for within the buffer, so that no slot stands for two of them.
WithinBuffer ==
    (end # -1 /\ ~AheadOf(begin, end)) => ForwardDiff(begin, end) < BufferSize

\* k was lost, and the receiver can tell: it has packets from before and after.
Noticed(k) ==
    /\ k < sent /\ k \notin received /\ k \notin ToSet(net)
    /\ \E i, j \in received : i < k /\ k < j

\* Every loss that add_nack() can notice is on the NACK list or was asked for in
\* a NACK that process_nack() sent, unless the list was thrown away because of its size.
LossIsRequested ==
    network.packets < network.limit =>
        \A k \in 0..(network.packets - 1) : Noticed(k) => Seq16(k) \in nacks \union asked

\* The receiver asks only for packets that it has not received.
NackOnlyMissing == \A k \in received : Seq16(k) \notin nacks

\* In the end every packet between the first and the last that arrived has been played:
\* when none is lost, and also when one is and the sender answers NACKs, so that
\* receiver, NACK, on_rtcp_fb_nack() and the sender's history work together.  (A number
\* is asked for once, so the loss of what is sent again is not repaired.)
EverythingPlayed ==
    <>[](\/ losses > (IF network.answers THEN 1 ELSE 0)
         \/ /\ sent = network.packets /\ received # {}
            /\ Min(received)..Max(received) \subseteq ToSet(delivered))
=============================================================================
