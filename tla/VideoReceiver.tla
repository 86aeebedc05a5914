---------------------------- MODULE VideoReceiver ----------------------------
(***************************************************************************)
(* An H.264 stream over RTP: the packetiser                                *)
(* (src/rtpx/senders/sender_video_h264.cpp), the receiver that puts access *)
(* units together and drops broken ones                                    *)
(* (src/rtpx/receivers/receiver_video_h264.cpp, receiver.cpp), its NACKs   *)
(* and the packets that answer them, over RTX (media_stream.cpp,           *)
(* sender_rtx.cpp, receiver_rtx.cpp) or as they were.                      *)
(*                                                                         *)
(* A NAL unit is its type and the number of packets it takes; its place in *)
(* the stream stands for its bytes.  insert_packet() runs under mutex_ and *)
(* is one step, process_nack() runs without it on another thread.          *)
(***************************************************************************)
EXTENDS VideoState, Nack, FiniteSetsExt

CONSTANT
    Networks    \* the networks a behaviour may run on

\* "par" is a parameter set (7, 8), "idr" a keyframe (5), "p" a NAL unit that others
\* refer to (nri > 0) and "b" one that none does.
Types == {"par", "idr", "p", "b"}

\* What the encoder makes: the NAL units of an access unit with the number n of packets
\* each takes, and whether they all fit into one packet.
IsFrame(f) ==
    /\ f.nals # <<>> /\ f.nals \in Seq([t : Types, n : Nat \ {0}])
    /\ f.fits => \A i \in DOMAIN f.nals : f.nals[i].n = 1

\* first: the number of the first packet; frames: what the encoder may make, units of
\* them; window: a packet is overtaken by fewer than window later ones; losses: packets
\* that may be lost; limit: 1000, the size of the NACK list that starts the receiver
\* anew; answers: what the sender answers NACKs with, nothing when none arrives;
\* silences: a second may pass.
StreamsOK ==
    \A w \in Networks :
        /\ w.first \in Numbers /\ w.units \in Nat /\ w.window \in Nat \ {0} /\ w.losses \in Nat
        /\ w.limit \in Nat /\ w.answers \in {"none", "rtp", "rtx"} /\ w.silences \in BOOLEAN
        /\ \A f \in w.frames : IsFrame(f)

ASSUME StreamAssumption == StreamsOK

VARIABLES
    units,      \* access units sent so far
    wait,       \* waiting_for_keyframe_
    late,       \* is_timeout(): frame_begin_ts_ is more than a second ago
    losses,     \* packets lost so far
    resetting   \* process_nack(): "no", or what it does next: "clear" the list, "reset"

vars == <<network, units, nals, stream, net, lost, resent, losses, rtcp, reset, begin, end, packs,
          nacks, wait, late, resetting, restarted, jumped, handed>>
source == <<units, nals, stream>>
losing == <<lost, resent, losses>>
receiver == <<begin, end, packs, wait, handed>>

None == [k |-> 0, m |-> FALSE]
Slots == 0..(BufferSize - 1)
EmptyBuffer == [i \in Slots |-> None]
Number(k) == (network.first + k - 1) % T

Init ==
    /\ network \in Networks
    /\ units = 0 /\ nals = <<>> /\ stream = <<>>
    /\ net = <<>> /\ lost = {} /\ resent = {} /\ losses = 0
    /\ nacks = {} /\ rtcp = <<>>
    /\ reset = TRUE /\ begin = -1 /\ end = -1
    /\ packs = EmptyBuffer
    /\ wait = TRUE /\ late = FALSE
    /\ resetting = "no" /\ restarted = FALSE /\ jumped = FALSE
    /\ handed = <<>>

-----------------------------------------------------------------------------
(* The sender                                                              *)

\* send_nal(): one packet, or FU-A fragments; the last one of the unit is marked.
SendNal(id, n, islast) ==
    [j \in 1..n |-> [kind |-> IF n = 1 THEN "single" ELSE "fu", ids |-> <<id>>, part |-> j,
                     m |-> islast /\ j = n]]

\* send_frame(): several NAL units that fit into one packet are sent as a STAP-A, whose
\* marker is not set when a parameter set comes first.
Packets(frame) ==
    LET n == Len(frame.nals)
        id(i) == Len(nals) + i
    IN IF frame.fits /\ n > 1
       THEN << [kind |-> "stap", ids |-> [i \in 1..n |-> id(i)], part |-> 1,
                m |-> frame.nals[1].t # "par"] >>
       ELSE FlattenSeq([i \in 1..n |-> SendNal(id(i), frame.nals[i].n, i = n)])

\* send_frame(), send_packet() included.  Bound: with window packets in flight the next
\* frame waits; to send it earlier would make no other order of arrival possible.
SendFrame ==
    /\ units < network.units /\ Len(net) < network.window
    /\ \E frame \in network.frames :
         LET packets == Packets(frame)
         IN /\ nals' = nals \o frame.nals
            /\ stream' = stream \o packets
            /\ net' = net \o [i \in DOMAIN packets |->
                                [k |-> Len(stream) + i, m |-> packets[i].m]]
    /\ units' = units + 1
    /\ UNCHANGED <<network, losing, rtcp, reset, receiver, nacks, late, resetting, restarted, jumped>>

\* get_history(): the packet in the slot of the number, whatever its own number, or 0.
History(seq) ==
    Max({0} \union {k \in DOMAIN stream : Number(k) % BufferSize = seq % BufferSize})

\* sender_rtx::send_packet() takes the payload along, from which
\* receiver_rtx::insert_packet() makes a packet without marker.
FromRtx(k) == [k |-> k, m |-> FALSE]

\* The packet as it was, when no RTX sender was negotiated
Again(k) == IF network.answers = "rtx" THEN FromRtx(k) ELSE [k |-> k, m |-> stream[k].m]

\* on_rtcp_fb_nack(): what is in the slots is sent again.
OnNack ==
    /\ rtcp # <<>>
    /\ LET slots == Lookups(Head(rtcp))
           found == SelectSeq([i \in DOMAIN slots |-> History(slots[i])], LAMBDA k : k # 0)
       IN /\ net' = net \o [i \in DOMAIN found |-> Again(found[i])]
          /\ lost' = lost \ ToSet(found)
          /\ resent' = resent \union ToSet(found)
    /\ rtcp' = Tail(rtcp)
    /\ UNCHANGED <<network, source, losses, reset, receiver, nacks, late, resetting, restarted, jumped>>

Lose ==
    /\ losses < network.losses /\ net # <<>>
    /\ losses' = losses + 1
    /\ lost' = lost \union {Head(net).k}
    /\ net' = Tail(net)
    /\ UNCHANGED <<network, source, resent, rtcp, reset, receiver, nacks, late, resetting, restarted,
                   jumped>>

-----------------------------------------------------------------------------
(* The receiver                                                            *)

IsReference_M(pkt) == IsKey(Type(pkt))
IsReference(pkt) == Type(pkt) # "b"

\* What invoke_rtp_frame() gets: the fragments put together.
HandUp(st, frames) == IF st.wait THEN st ELSE [st EXCEPT !.out = @ \o frames]

\* combin_frame(): fragments are collected from a first one on.
AddFragment_M(fu, id, part) ==
    IF part = 1 THEN << <<id, part>> >> ELSE Append(fu, <<id, part>>)
AddFragment(fu, id, part) ==
    IF part = 1 THEN << <<id, part>> >>
    ELSE IF fu = <<>> THEN <<>> ELSE Append(fu, <<id, part>>)

\* combin_frame(): what a packet adds.  NAL units are handed up at once.  A STAP-A is
\* tested for a keyframe by its own type.
AddPacket(st, pkt) ==
    LET whole == [i \in DOMAIN pkt.ids |-> << <<pkt.ids[i], 1>> >>]
    IN CASE pkt.kind = "single" ->
              HandUp([st EXCEPT !.wait = @ /\ ~IsKey(Type(pkt))], whole)
         [] pkt.kind = "stap" -> HandUp(st, whole)
         [] pkt.kind = "fu" -> [st EXCEPT !.fu = AddFragment(@, pkt.ids[1], pkt.part)]

\* The fragments stay for the next access unit.
EndUnit_M(st) ==
    IF st.fu = <<>> THEN st
    ELSE LET key == IsKey(nals[st.fu[1][1]].t)
         IN HandUp([st EXCEPT !.wait = @ /\ ~key], <<st.fu>>)

\* combin_frame(): its end, at the marked packet.
EndUnit(st) ==
    IF st.fu = <<>> THEN st
    ELSE LET key == IsKey(nals[st.fu[1][1]].t)
         IN HandUp([st EXCEPT !.wait = @ /\ ~key, !.fu = <<>>], <<st.fu>>)

At(buffer, b, o) == buffer[((b + o) % T) % BufferSize]

\* combin_frame() on the access units that the first n packets from b on make up.
Combine(buffer, b, n) ==
    LET after[i \in 0..n] ==
          IF i = 0 THEN [wait |-> wait, fu |-> <<>>, out |-> <<>>]
          ELSE LET p == At(buffer, b, i - 1)
                   added == AddPacket(after[i - 1], stream[p.k])
               IN IF p.m THEN EndUnit(added) ELSE added
    IN after[n]

Filled(buffer, b, o) == o < BufferSize /\ At(buffer, b, o) # None

\* Only the first complete access unit is looked for.
Complete_M(buffer, b, e) ==
    LET n == ForwardDiff(b, e)
        ends == {o \in 0..n : At(buffer, b, o).m /\ \A i \in 0..o : Filled(buffer, b, i)}
    IN IF AheadOf(b, e) \/ ends = {} THEN 0 ELSE Min(ends) + 1

\* find_a_frame(): how many packets from b on belong to complete access units.
Complete(buffer, b, e) ==
    LET n == ForwardDiff(b, e)
        ends == {o \in 0..n : At(buffer, b, o).m /\ \A i \in 0..o : Filled(buffer, b, i)}
    IN IF AheadOf(b, e) \/ ends = {} THEN 0 ELSE Max(ends) + 1

\* check_for_drop(): the offsets from b on up to the first marked packet.
Dropped(buffer, b, e) ==
    LET n == ForwardDiff(b, e)
        ends == {o \in 0..n : Filled(buffer, b, o) /\ At(buffer, b, o).m}
    IN IF AheadOf(b, e) THEN {} ELSE 0..(IF ends = {} THEN n ELSE Min(ends))

\* Without those at the offsets
Without(buffer, b, offsets) ==
    [i \in Slots |-> IF \E o \in offsets : i = ((b + o) % T) % BufferSize THEN None ELSE buffer[i]]

\* receiver::insert_packet() and receiver_video_h264::insert_packet() on packet p.
Insert(p) ==
    LET seq == Number(p.k)
        restart == reset \/ AheadOf(begin % T, seq)
        b0 == IF restart THEN seq ELSE begin
        e0 == IF restart THEN seq ELSE end
        buffer == [(IF restart THEN EmptyBuffer ELSE packs) EXCEPT ![seq % BufferSize] = p]
        e1 == IF AheadOf(e0, seq) THEN e0 ELSE seq
        missing == ~AheadOf(e0, seq) /\ ForwardDiff(e0, seq) > 1
        full == AheadOfMod(b0, e1, BufferSize)
        b1 == IF full THEN e1 ELSE b0
        n == Complete(buffer, b1, e1)
        frames == Combine(buffer, b1, n)
        rest == Without(buffer, b1, 0..(n - 1))
        b2 == (b1 + n) % T
        timeout == late /\ ~restart /\ n = 0
        drop == IF timeout THEN Dropped(rest, b2, e1) ELSE {}
        gone == {At(rest, b2, o) : o \in {x \in drop : Filled(rest, b2, x)}}
    IN /\ reset' = FALSE
       /\ end' = e1
       /\ begin' = (b2 + Cardinality(drop)) % T
       /\ packs' = Without(rest, b2, drop)
       /\ nacks' = nacks \union (IF missing THEN NackRange((e0 + 1) % T, seq) ELSE {})
       /\ wait' = (frames.wait \/ \E g \in gone : IsReference(stream[g.k]))
       /\ late' = (timeout /\ \A g \in gone : ~g.m)
       /\ jumped' = (jumped \/ (~wait /\ (restart \/ full)))
       /\ handed' = handed \o frames.out

\* The first packets of a stream are not overtaken.
Deliver ==
    /\ \E i \in 1..Len(net) :
         /\ i <= (IF wait THEN 1 ELSE network.window)
         /\ \A j \in 1..i : net[i].k - net[j].k < network.window
         /\ net' = RemoveAt(net, i)
         /\ Insert(net[i])
    /\ UNCHANGED <<network, source, losing, rtcp, resetting, restarted>>

\* A second passes.
Elapse ==
    /\ network.silences /\ ~late /\ end # -1
    /\ late' = TRUE
    /\ UNCHANGED <<network, source, net, losing, rtcp, reset, receiver, nacks, resetting, restarted,
                   jumped>>

\* process_nack(), run by the timer and posted for every loss: it looks at the list and
\* at waiting_for_keyframe_.  When it finds too much missing it throws the list away,
\* starts the receiver anew and asks for a keyframe, which the peer's application sends
\* when it likes.
GivesUp == wait \/ Cardinality(nacks) >= network.limit
GiveUp ==
    /\ resetting = "no" /\ GivesUp
    /\ resetting' = "clear"
    /\ UNCHANGED <<network, source, net, losing, rtcp, reset, receiver, nacks, late, restarted, jumped>>

Clear ==
    /\ resetting = "clear"
    /\ nacks' = {}
    /\ resetting' = "reset"
    /\ UNCHANGED <<network, source, net, losing, rtcp, reset, receiver, late, restarted, jumped>>

Restart ==
    /\ resetting = "reset"
    /\ resetting' = "no"
    /\ reset' = TRUE
    /\ restarted' = TRUE
    /\ UNCHANGED <<network, source, net, losing, rtcp, receiver, nacks, late, jumped>>

\* Otherwise it asks for every number once, because its count starts at nack_max_count_.
Ask ==
    /\ resetting = "no" /\ ~GivesUp /\ nacks # {}
    /\ nacks' = {}
    /\ rtcp' = IF network.answers = "none" THEN rtcp ELSE rtcp \o Messages(nacks)
    /\ UNCHANGED <<network, source, net, losing, reset, receiver, late, resetting, restarted, jumped>>

ProcessNack == GiveUp \/ Clear \/ Restart \/ Ask

Next == SendFrame \/ OnNack \/ Lose \/ Deliver \/ Elapse \/ ProcessNack

Spec == Init /\ [][Next]_vars

-----------------------------------------------------------------------------
(* Properties                                                              *)

\* The members of the receiver keep their types, and a slot holds a packet whose number
\* belongs there.
TypeOK ==
    /\ network \in Networks /\ units \in 0..network.units
    /\ begin \in {-1} \union Numbers /\ end \in {-1} \union Numbers
    /\ lost \union resent \subseteq DOMAIN stream
    /\ \A i \in Slots : packs[i] # None =>
         packs[i].k \in DOMAIN stream /\ Number(packs[i].k) % BufferSize = i
    /\ losses \in 0..network.losses /\ nacks \subseteq Numbers
    /\ \A v \in {reset, wait, late, restarted, jumped} : v \in BOOLEAN
    /\ resetting \in {"no", "clear", "reset"}

\* What is handed up can be decoded: before a NAL unit all those it may refer to were
\* handed up, back to a keyframe.  (Not when the buffer was full, the NACK list was too
\* long, process_nack() set reset_ late or a packet came again too late: then packets
\* are given up without waiting for a keyframe.)
NoBrokenReference ==
    ~jumped /\ Unended = {} =>
        \A id \in HandedIds : nals[id].t \in {"p", "b"} =>
            \E key \in HandedIds :
                /\ key < id /\ nals[key].t = "idr"
                /\ \A ref \in key..id : nals[ref].t # "b" => ref \in HandedIds
=============================================================================
