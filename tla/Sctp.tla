-------------------------------- MODULE Sctp --------------------------------
(***************************************************************************)
(* An SCTP association between two rtpx endpoints (src/rtpx/sctp/sctp.cpp) *)
(* and its use by rtp_session for the data channel of a media stream.      *)
(*                                                                         *)
(* "C" is the DTLS client, which calls connect() when the handshake is     *)
(* done, "S" the DTLS server.  The endpoint that made the offer opens a    *)
(* stream whenever its connected handler is called.  DTLS records are      *)
(* delivered at most once and, here, in order; they may be lost.           *)
(*                                                                         *)
(* Handlers hold the recursive mutex_ for what they change, so each is one *)
(* step.  Data chunks stand for whole messages: fragmentation, SACKs and   *)
(* resending are the subject of SctpStream.  A chunk that is not next in   *)
(* its stream is kept by the code until it times out; here it is dropped.  *)
(***************************************************************************)
EXTENDS SctpState, Integers, Sequences, FiniteSets, FiniteSetsExt, Functions

CONSTANTS
    MaxInits,       \* bound: INITs sent by the state timer
    MaxHeartbeats,  \* bound: HEARTBEATs sent by the state timers
    MaxLoss,        \* bound: packets lost
    MayClose,       \* the application may close() the association
    MayCloseStream  \* the application may close its data channel

ASSUME BoundsAssumption ==
    /\ MaxInits \in Nat /\ MaxHeartbeats \in Nat /\ MaxLoss \in Nat
    /\ MayClose \in BOOLEAN /\ MayCloseStream \in BOOLEAN

vars == <<state, live, streams, nextSid, channel, opened, ups, downs, net, inits, beating, beats, lost>>

\* A stream that has seen no message yet.
Fresh == [send |-> 0, recv |-> 0]

Init ==
    /\ state = [e \in Endpoints |-> "none"]
    /\ live = [e \in Endpoints |-> TRUE]
    /\ streams = [e \in Endpoints |-> <<>>]
    /\ nextSid = [e \in Endpoints |-> IF e = "C" THEN 1 ELSE 2]
    /\ channel = [e \in Endpoints |-> [sid |-> 0, has |-> FALSE]]
    /\ opened = [e \in Endpoints |-> {}]
    /\ ups = [e \in Endpoints |-> 0]
    /\ downs = [e \in Endpoints |-> 0]
    /\ net = [e \in Endpoints |-> <<>>]
    /\ inits = 0
    /\ beating = {}
    /\ beats = 0
    /\ lost = 0

Chunk(type) == [type |-> type]
Data(sid, ssn, kind) == [type |-> "data", sid |-> sid, ssn |-> ssn, kind |-> kind]

\* e sends chunks; Reply: it does so while handling the first packet for it.
Send(e, out) == net' = [net EXCEPT ![Peer(e)] = @ \o out]
Reply(e, out) == net' = [net EXCEPT ![e] = Tail(@), ![Peer(e)] = @ \o out]

Got(e, type) == net[e] # <<>> /\ live[e] /\ Head(net[e]).type = type

\* streams_[sid] = s at e
With(e, sid, s) ==
    [streams EXCEPT ![e] = [t \in DOMAIN @ \union {sid} |-> IF t = sid THEN s ELSE @[t]]]

-----------------------------------------------------------------------------
(* The application's side: rtp_session and media_stream                    *)

\* make_next_stream_id(): the next id of this side's parity that is free.
NextFree(e) ==
    Min({i \in nextSid[e]..(nextSid[e] + 2 * (Cardinality(DOMAIN streams[e]) + 1)) :
           i % 2 = nextSid[e] % 2 /\ i \notin DOMAIN streams[e]})

\* on_connected_: the offerer's media stream opens a stream: create_stream()
\* sends a DCEP open as message 0.  first: what is sent before it.
Connected(e, first) ==
    /\ state' = [state EXCEPT ![e] = "connected"]
    /\ ups' = [ups EXCEPT ![e] = @ + 1]
    /\ IF e = Offerer
         THEN LET sid == NextFree(e) IN
              /\ Reply(e, first \o <<Data(sid, 0, "open")>>)
              /\ nextSid' = [nextSid EXCEPT ![e] = sid + 2]
              /\ streams' = With(e, sid, [send |-> 1, recv |-> 0])
              /\ channel' = [channel EXCEPT ![e].sid = sid]
         ELSE /\ Reply(e, first)
              /\ UNCHANGED <<nextSid, streams, channel>>
    /\ UNCHANGED <<live, opened, downs, inits, beating, beats, lost>>

\* on_stream_opened_: set_sctp_stream_id() keeps the first id it is given.
ReportOpened(e, sid) ==
    /\ opened' = [opened EXCEPT ![e] = @ \union {sid}]
    /\ channel' = [channel EXCEPT ![e] = IF @.has THEN @ ELSE [sid |-> sid, has |-> TRUE]]

-----------------------------------------------------------------------------
(* Operations                                                              *)

\* handle_dtls_completed() and connect()
Connect ==
    /\ live["C"]
    /\ state["C"] = "none"
    /\ state' = [state EXCEPT !["C"] = "connecting"]
    /\ streams' = [streams EXCEPT !["C"] = <<>>]
    /\ Send("C", <<Chunk("init")>>)
    /\ UNCHANGED <<live, nextSid, channel, opened, ups, downs, inits, beating, beats, lost>>

\* The close chunks that close() sends on all streams, in the order of the map.
CloseChunks(e) ==
    LET sids == DOMAIN streams[e]
        nth(i) == CHOOSE s \in sids : Cardinality({t \in sids : t <= s}) = i
    IN [i \in 1..Cardinality(sids) |-> Data(nth(i), streams[e][nth(i)].send, "close")]

\* transport::close() and sctp::close(): the shutdown chunk's payload goes out
\* under the chunk type init; then the transport drops the object.
Close(e) ==
    /\ MayClose
    /\ live[e]
    /\ live' = [live EXCEPT ![e] = FALSE]
    /\ state' = [state EXCEPT ![e] = "none"]
    /\ Send(e, <<Chunk("shutdown_as_init")>> \o CloseChunks(e))
    /\ streams' = [streams EXCEPT ![e] = <<>>]
    /\ UNCHANGED <<nextSid, channel, opened, ups, downs, inits, beating, beats, lost>>

\* close_stream() on the media stream's own channel.
CloseStream(e) ==
    /\ MayCloseStream
    /\ live[e]
    /\ channel[e].sid \in DOMAIN streams[e]
    /\ LET sid == channel[e].sid IN
       /\ Send(e, <<Data(sid, streams[e][sid].send, "close")>>)
       /\ opened' = [opened EXCEPT ![e] = @ \ {sid}]
       /\ streams' = [streams EXCEPT ![e] = RestrictDomain(@, LAMBDA s : s # sid)]
    /\ UNCHANGED <<state, live, nextSid, channel, ups, downs, inits, beating, beats, lost>>

\* on_state_timer() while connecting: INIT once more, if 3 s have passed.
ResendInit ==
    /\ live["C"]
    /\ state["C"] = "connecting"
    /\ inits < MaxInits
    /\ inits' = inits + 1
    /\ Send("C", <<Chunk("init")>>)
    /\ UNCHANGED <<state, live, streams, nextSid, channel, opened, ups, downs, beating, beats, lost>>

\* on_state_timer() while connected, every 5 s.  It does not hold mutex_: the
\* state may change between its test and what it does then.
HeartbeatTest(e) ==
    /\ live[e]
    /\ state[e] = "connected"
    /\ e \notin beating
    /\ beats < MaxHeartbeats
    /\ beats' = beats + 1
    /\ beating' = beating \union {e}
    /\ UNCHANGED <<state, live, streams, nextSid, channel, opened, ups, downs, net, inits, lost>>

Heartbeat(e) ==
    /\ e \in beating
    /\ beating' = beating \ {e}
    /\ state' = [state EXCEPT ![e] = "connected"]
    /\ IF live[e] THEN Send(e, <<Chunk("heartbeat")>>) ELSE UNCHANGED net
    /\ UNCHANGED <<live, streams, nextSid, channel, opened, ups, downs, inits, beats, lost>>

-----------------------------------------------------------------------------
(* Chunk handlers                                                          *)

\* on_init(): streams_ is cleared whatever the state is.
OnInit(e) ==
    /\ Got(e, "init")
    /\ Reply(e, <<Chunk("init_ack")>>)
    /\ streams' = [streams EXCEPT ![e] = <<>>]
    /\ UNCHANGED <<state, live, nextSid, channel, opened, ups, downs, inits, beating, beats, lost>>

\* on_init() on the 4 bytes of a shutdown chunk, which are no INIT.
OnBadInit(e) ==
    /\ Got(e, "shutdown_as_init")
    /\ Reply(e, <<Chunk("operational_error")>>)
    /\ UNCHANGED <<state, live, streams, nextSid, channel, opened, ups, downs, inits, beating, beats, lost>>

\* on_heartbeat() sends its answer as an operational error.
OnHeartbeat(e) ==
    /\ Got(e, "heartbeat")
    /\ Reply(e, <<Chunk("operational_error")>>)
    /\ UNCHANGED <<state, live, streams, nextSid, channel, opened, ups, downs, inits, beating, beats, lost>>

\* The client takes INIT ACK for the end of the handshake.
OnInitAck_M(e) == Got(e, "init_ack") /\ Connected(e, <<Chunk("cookie_echo")>>)

\* on_init_ack() echoes the cookie; the cookie of the only other endpoint is
\* the one on_cookie_echo() compares it with.
OnInitAck(e) ==
    /\ Got(e, "init_ack")
    /\ Reply(e, <<Chunk("cookie_echo")>>)
    /\ UNCHANGED <<state, live, streams, nextSid, channel, opened, ups, downs, inits, beating, beats, lost>>

\* on_cookie_echo(); the mutant does not acknowledge.
OnCookieEcho_M(e) == Got(e, "cookie_echo") /\ Connected(e, <<>>)
OnCookieEcho(e) == Got(e, "cookie_echo") /\ Connected(e, <<Chunk("cookie_ack")>>)

\* on_cookie_ack(), in every state.
OnCookieAck(e) == Got(e, "cookie_ack") /\ Connected(e, <<>>)

\* The streams are dropped and not reported closed.
OnOperationalError_M(e) ==
    /\ Got(e, "operational_error")
    /\ Reply(e, CloseChunks(e))
    /\ streams' = [streams EXCEPT ![e] = <<>>]
    /\ state' = [state EXCEPT ![e] = "closed"]
    /\ downs' = [downs EXCEPT ![e] = @ + 1]
    /\ UNCHANGED <<live, nextSid, channel, opened, ups, inits, beating, beats, lost>>

\* on_operational_error()
OnOperationalError(e) ==
    /\ Got(e, "operational_error")
    /\ Reply(e, CloseChunks(e))
    /\ opened' = [opened EXCEPT ![e] = @ \ DOMAIN streams[e]]
    /\ streams' = [streams EXCEPT ![e] = <<>>]
    /\ state' = [state EXCEPT ![e] = "closed"]
    /\ downs' = [downs EXCEPT ![e] = @ + 1]
    /\ UNCHANGED <<live, nextSid, channel, ups, inits, beating, beats, lost>>

\* insert_data_chunk() and on_user_message(), in every state of the association.
Stream(e, sid) == IF sid \in DOMAIN streams[e] THEN streams[e][sid] ELSE Fresh

\* The DCEP ack does not take a stream sequence number.
OnOpen_M(e, sid, s) ==
    /\ Reply(e, <<Data(sid, s.send, "ack")>>)
    /\ ReportOpened(e, sid)
    /\ streams' = With(e, sid, [s EXCEPT !.recv = @ + 1])
    /\ UNCHANGED live

\* A DCEP open is answered with an ack on the same stream.
OnOpen(e, sid, s) ==
    /\ Reply(e, <<Data(sid, s.send, "ack")>>)
    /\ ReportOpened(e, sid)
    /\ streams' = With(e, sid, [send |-> s.send + 1, recv |-> s.recv + 1])
    /\ UNCHANGED live

OnAck(e, sid, s) ==
    /\ Reply(e, <<>>)
    /\ ReportOpened(e, sid)
    /\ streams' = With(e, sid, [s EXCEPT !.recv = @ + 1])
    /\ UNCHANGED live

\* The stream is erased while insert_data_chunk() still uses its iterator: the
\* call goes on as if it were there or crashes the process.
OnStreamClose(e, sid, s) ==
    /\ Reply(e, <<Data(sid, s.send, "close")>>)
    /\ opened' = [opened EXCEPT ![e] = @ \ {sid}]
    /\ streams' = [streams EXCEPT ![e] = RestrictDomain(@, LAMBDA t : t # sid)]
    /\ \E survives \in BOOLEAN : live' = [live EXCEPT ![e] = survives]
    /\ UNCHANGED channel

OnData(e) ==
    /\ Got(e, "data")
    /\ LET c == Head(net[e])
           s == Stream(e, c.sid)
       IN \/ /\ c.ssn # s.recv
             /\ Reply(e, <<>>)
             /\ streams' = With(e, c.sid, s)
             /\ UNCHANGED <<live, opened, channel>>
          \/ /\ c.ssn = s.recv
             /\ \/ c.kind = "open" /\ OnOpen(e, c.sid, s)
                \/ c.kind = "ack" /\ OnAck(e, c.sid, s)
                \/ c.kind = "close" /\ OnStreamClose(e, c.sid, s)
    /\ UNCHANGED <<state, nextSid, ups, downs, inits, beating, beats, lost>>

\* Packets for an endpoint that is gone.
Discard(e) ==
    /\ ~live[e]
    /\ net[e] # <<>>
    /\ Reply(e, <<>>)
    /\ UNCHANGED <<state, live, streams, nextSid, channel, opened, ups, downs, inits, beating, beats, lost>>

Lose(e) ==
    /\ lost < MaxLoss
    /\ net[e] # <<>>
    /\ lost' = lost + 1
    /\ Reply(e, <<>>)
    /\ UNCHANGED <<state, live, streams, nextSid, channel, opened, ups, downs, inits, beating, beats>>

Receive(e) ==
    \/ OnInit(e) \/ OnBadInit(e) \/ OnHeartbeat(e) \/ OnInitAck(e) \/ OnCookieEcho(e) \/ OnCookieAck(e)
    \/ OnOperationalError(e) \/ OnData(e) \/ Discard(e)

Next ==
    \/ Connect \/ ResendInit
    \/ \E e \in Endpoints :
         \/ Receive(e) \/ HeartbeatTest(e) \/ Heartbeat(e)
         \/ Close(e) \/ CloseStream(e) \/ Lose(e)

Spec == Init /\ [][Next]_vars

\* The network delivers what it does not lose and the timers keep firing.
FairSpec ==
    /\ Spec
    /\ WF_vars(Connect)
    /\ WF_vars(ResendInit)
    /\ \A e \in Endpoints :
         WF_vars(Receive(e)) /\ WF_vars(HeartbeatTest(e)) /\ WF_vars(Heartbeat(e))

-----------------------------------------------------------------------------
Sids == Nat \ {0}
StreamType == [send : Nat, recv : Nat]

\* The members of sctp keep their types: both sequence numbers of a stream are naturals.
TypeOK ==
    /\ state \in [Endpoints -> {"none", "connecting", "connected", "closed"}]
    /\ live \in [Endpoints -> BOOLEAN]
    /\ \A e \in Endpoints :
         /\ DOMAIN streams[e] \subseteq Sids
         /\ \A s \in DOMAIN streams[e] : streams[e][s] \in StreamType
         /\ opened[e] \subseteq Sids
         /\ channel[e] \in [sid : Nat, has : BOOLEAN]
    /\ nextSid \in [Endpoints -> Nat]
    /\ ups \in [Endpoints -> Nat]
    /\ downs \in [Endpoints -> Nat]
    /\ beating \subseteq Endpoints
    /\ inits \in 0..MaxInits /\ beats \in 0..MaxHeartbeats /\ lost \in 0..MaxLoss

\* connect() leads to an association, as long as losses are few and the application
\* closes neither end.
ConnectSucceeds ==
    state["C"] = "connecting" ~> (ups["C"] > 0 \/ \E e \in Endpoints : ~live[e])

\* When one side closes a connected association the other is told.
CloseIsNoticed ==
    \A e \in Endpoints :
      (~live[e] /\ state[Peer(e)] = "connected") ~> (downs[Peer(e)] > 0 \/ ~live[Peer(e)])

\* Between two endpoints that follow the protocol nothing is refused.
NoProtocolError ==
    \A e \in Endpoints : \A i \in DOMAIN net[e] : net[e][i].type # "operational_error"
=============================================================================
