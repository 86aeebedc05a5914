---------------------------- MODULE MCRtpReceiver ----------------------------
(* RtpReceiver for TLC: the networks of its run.                           *)
EXTENDS RtpReceiver

\* One loss that nobody repairs, silences, and a buffer and a NACK list that fill up.
Silent == [first |-> 0, packets |-> 24, window |-> 1, losses |-> 1, limit |-> 2,
           silences |-> TRUE, answers |-> FALSE]

\* Reordering across the wrap.
Reordering == [first |-> T - 3, packets |-> 7, window |-> 3, losses |-> 0, limit |-> 100,
               silences |-> FALSE, answers |-> FALSE]

\* Losses that the sender is asked to repair, within half the buffer.
Losing == [first |-> 0, packets |-> 5, window |-> 1, losses |-> 2, limit |-> 100,
           silences |-> FALSE, answers |-> TRUE]

AllNetworks == {Silent, Reordering, Losing}
=============================================================================
