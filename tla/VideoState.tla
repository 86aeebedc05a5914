------------------------------ MODULE VideoState ------------------------------
(***************************************************************************)
(* What the H.264 sender was given and what the receiver has made of it,   *)
(* and what is claimed of the two at any time.  Module VideoReceiver says  *)
(* how they change.                                                        *)
(***************************************************************************)
EXTENDS ReceiverState, SequencesExt, FiniteSetsExt

VARIABLES
    nals,       \* NAL units sent so far
    stream,     \* packets sent so far; net: [k |-> place in stream, m |-> marker]
    lost,       \* packets lost and not sent again
    resent,     \* packets sent again
    restarted,  \* process_nack() has started the receiver anew (history)
    jumped,     \* the receiver went on elsewhere while not waiting for a keyframe (history)
    handed      \* what invoke_rtp_frame() was called with (history)

IsKey(t) == t \in {"par", "idr"}
Type(pkt) == nals[pkt.ids[1]].t

\* The places in the stream of the NAL units handed up
HandedIds == {handed[i][1][1] : i \in DOMAIN handed}

\* What is handed up is a NAL unit that was sent, with all its fragments and no others.
NalsWhole ==
    \A i \in DOMAIN handed :
        LET id == handed[i][1][1]
        IN handed[i] = [p \in 1..nals[id].n |-> <<id, p>>]

\* The last fragments of access units that came over RTX: with their marker they lost the
\* end of their NAL unit, which is put together later or not at all.
Unended == {k \in resent : network.answers = "rtx" /\ stream[k].kind = "fu" /\ stream[k].m}

\* NAL units are handed up in the order they were sent in and none twice, whatever is
\* lost and however often the receiver starts anew.  (A packet that comes, or comes
\* again, after the receiver went on without it starts it anew in the past, which
\* nothing but the order of a network that sends nothing again rules out.)
HandedInOrder ==
    (network.window = 1 /\ network.answers = "none") \/ (~jumped /\ Unended = {}) =>
        \A i \in 1..(Len(handed) - 1) : handed[i][1][1] < handed[i + 1][1][1]

\* The NAL units that should be handed up: from the first keyframe that comes in packets
\* of its own, which is what the receiver waits for, to the last packet with a marker,
\* which a packet that came over RTX, asked for without need or not, has lost.
Expected ==
    LET keys == {k \in DOMAIN stream : stream[k].kind # "stap" /\ IsKey(Type(stream[k]))}
        bare == IF network.answers = "rtx" THEN resent ELSE {}
        ends == {k \in DOMAIN stream \ bare : stream[k].m}
    IN IF keys = {} \/ ends = {} THEN {}
       ELSE UNION {ToSet(stream[k].ids) : k \in Min(keys)..Max(ends)}

\* They are handed up as soon as all that was sent has arrived, when nothing is lost or
\* all that was lost has been sent again, unless a second passed within an access unit
\* or the receiver had to start anew.
EverythingShown ==
    net = <<>> /\ lost = {} /\ ~network.silences /\ ~restarted /\ ~jumped /\ Unended = {} =>
        Expected \subseteq HandedIds
===============================================================================
