----------------------------- MODULE TcpStream -----------------------------
(***************************************************************************)
(* What asio::tcp_socket promises its user: a byte stream each way.        *)
(* Accepted messages are put on the wire one after the other, every byte   *)
(* once and in order: `gone` messages are done with, and of the one after  *)
(* them `done` bytes are on the wire.  The rest may be dropped only once   *)
(* the socket is no longer up.  The chunks that arrive are numbered from   *)
(* 1; the data handler is shown each of them at most once, in order and    *)
(* without gaps.                                                           *)
(***************************************************************************)
EXTENDS Naturals, Sequences

VARIABLES up, accepted, gone, done, wire, incoming, delivered

CONSTANT Bytes(_)       \* the bytes of a message

sending == <<accepted, gone, done, wire>>
vars == <<up, sending, incoming, delivered>>

Init ==
    /\ up = TRUE
    /\ accepted = <<>> /\ gone = 0 /\ done = 0 /\ wire = <<>>
    /\ incoming = 0 /\ delivered = <<>>

Accept ==
    /\ Len(accepted') = Len(accepted) + 1
    /\ \A i \in 1..Len(accepted) : accepted'[i] = accepted[i]
    /\ UNCHANGED <<up, gone, done, wire, incoming, delivered>>

Front == Bytes(accepted[gone + 1])

Transmit ==
    /\ gone < Len(accepted)
    /\ done <= done' /\ done' <= Len(Front)
    /\ wire' = wire \o SubSeq(Front, done + 1, done')
    /\ UNCHANGED <<up, accepted, gone, incoming, delivered>>

Finish ==
    /\ gone < Len(accepted)
    /\ done = Len(Front)
    /\ gone' = gone + 1 /\ done' = 0
    /\ UNCHANGED <<up, accepted, wire, incoming, delivered>>

Arrive == incoming' = incoming + 1 /\ UNCHANGED <<up, sending, delivered>>

Deliver ==
    /\ Len(delivered) < incoming
    /\ delivered' = Append(delivered, Len(delivered) + 1)
    /\ UNCHANGED <<up, sending, incoming>>

GoDown == up = TRUE /\ up' = FALSE /\ UNCHANGED <<sending, incoming, delivered>>

Abandon ==
    /\ up = FALSE
    /\ gone' = Len(accepted) /\ done' = 0
    /\ UNCHANGED <<up, accepted, wire, incoming, delivered>>

Next == Accept \/ Transmit \/ Finish \/ Arrive \/ Deliver \/ GoDown \/ Abandon

Spec == Init /\ [][Next]_vars
=============================================================================
