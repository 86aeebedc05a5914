------------------------------ MODULE SctpState ------------------------------
(***************************************************************************)
(* The state of two rtpx SCTP endpoints, "C" the DTLS client and "S" the   *)
(* server, the packets between them, and what is claimed of that state at  *)
(* any time.  Module Sctp says how it changes.                             *)
(***************************************************************************)
EXTENDS Naturals

CONSTANT
    Offerer     \* the endpoint with sdp_type_offer

VARIABLES
    state,      \* state_
    live,       \* active_, and the transport still holds the object
    streams,    \* streams_: sid -> [send |-> next_send_ssn_, recv |-> next_recv_ssn_]
    nextSid,    \* init_stream_id_
    channel,    \* media_stream: sctp_stream_id_ and has_sctp_stream_id_
    opened,     \* the sids reported opened and not since reported closed (history)
    ups,        \* calls of on_connected_ (history)
    downs,      \* calls of on_disconnected_ (history)
    net,        \* net[e]: the packets on their way to e
    inits,      \* INITs resent
    beating,    \* the endpoints whose state timer is between its test and the send
    beats,      \* HEARTBEATs sent
    lost        \* packets lost

Endpoints == {"C", "S"}
Peer(e) == IF e = "C" THEN "S" ELSE "C"

ASSUME OffererAssumption == Offerer \in Endpoints

\* No COOKIE ACK without a COOKIE ECHO: the client is never told more often than
\* the server that the association is up.
ClientFollowsServer == ups["C"] <= ups["S"]

\* A data channel that was reported opened and not reported closed still has its
\* stream: the association never drops a stream behind the application's back.
OpenChannelHasStream ==
    \A e \in Endpoints : live[e] => opened[e] \subseteq DOMAIN streams[e]

\* The same, as long as no INIT was sent again: whatever losses, heartbeats,
\* operational errors and closes do, no stream goes unreported.
NothingDropped == inits = 0 => OpenChannelHasStream

\* Once everything sent has arrived, with no loss and no resent INIT, both media
\* streams use the same channel, and if it is open the two ends of it agree on the
\* next message in either direction.
ChannelInStep ==
    (lost = 0 /\ inits = 0 /\ \A e \in Endpoints : net[e] = <<>> /\ live[e] /\ ups[e] > 0 /\ downs[e] = 0)
    => \A e \in Endpoints :
         LET sid == channel[e].sid
             there == streams[Peer(e)]
         IN /\ channel[Peer(e)].sid = sid
            /\ sid \in opened[e] =>
                 sid \in DOMAIN there /\ streams[e][sid].recv = there[sid].send
==============================================================================
