------------------------------- MODULE Session -------------------------------
(***************************************************************************)
(* Two rtp_sessions (src/rtpx/rtp_session.cpp), each with one secure media *)
(* stream on one multiplexed transport (src/rtpx/transports/transport.cpp): *)
(* offer and answer, STUN checks driven by the session's timer, the DTLS   *)
(* handshake that the checks start, and the SRTP keys it yields.           *)
(*                                                                         *)
(* Offers and answers are carried by the application, in order and without *)
(* loss, one exchange at a time.  Datagrams may be lost, duplicated and    *)
(* reordered; equal datagrams in flight are one.  OpenSSL (src/rtpx/dtls/  *)
(* dtls.cpp) is modelled by its flights:                                   *)
(*                                                                         *)
(*     client --- hello ---> server --- certificate ---> client            *)
(*     client --- key -----> server --- finished ------> client            *)
(*                                                                         *)
(* It fixes the side of the connection in the first SSL_connect() or       *)
(* SSL_accept(), and sends its last flight again when it is entered later. *)
(* ICE roles are left out: they only select an attribute of the requests.  *)
(***************************************************************************)
EXTENDS Naturals, Sequences, FiniteSets

CONSTANTS
    Ends,      \* the two endpoints
    Offerers,  \* the endpoints that make offers; the first offer is any of theirs
    MaxOffers, \* bound: offers
    MaxLoss,   \* bound: datagrams lost
    MaxDup     \* bound: datagrams delivered once more

ASSUME EndsAssumption == IsFiniteSet(Ends) /\ Cardinality(Ends) = 2 /\ Offerers \subseteq Ends
ASSUME BoundAssumption == MaxOffers \in Nat /\ MaxLoss \in Nat /\ MaxDup \in Nat

VARIABLES
    sdpRole,   \* sdp_role_
    setup,     \* setup_, and local_setup_ of the stream
    dtlsRole,  \* dtls_role_ of the transport
    active,    \* active_: the timer runs
    side,      \* OpenSSL: "none" until connect() or accept()
    stage,     \* OpenSSL: how far the handshake is
    keys,      \* the role that srtp_in_ and srtp_out_ were made for; "none": no handshake_
    connected, \* how often on_connected was called
    signal,    \* the offer or answer on its way
    net,       \* datagrams in flight
    offers, losses, dups

ends == <<sdpRole, setup, dtlsRole, active>>
tls == <<side, stage, keys, connected>>
bounds == <<offers, losses, dups>>
vars == <<ends, tls, signal, net, bounds>>

Peer(e) == CHOOSE p \in Ends : p # e
To(e, types) == {[to |-> e, type |-> t] : t \in types}

Init ==
    /\ sdpRole = [e \in Ends |-> "unknown"]
    /\ setup = [e \in Ends |-> "none"]
    /\ dtlsRole = [e \in Ends |-> "server"]
    /\ active = [e \in Ends |-> FALSE]
    /\ side = [e \in Ends |-> "none"]
    /\ stage = [e \in Ends |-> "none"]
    /\ keys = [e \in Ends |-> "none"]
    /\ connected = [e \in Ends |-> 0]
    /\ signal = <<>>
    /\ net = {}
    /\ offers = 0 /\ losses = 0 /\ dups = 0

-----------------------------------------------------------------------------
(* Offer and answer                                                        *)

\* rtp_session::dtls_role()
DtlsRole_M2(local, remote) ==
    CASE local = "active" /\ remote \in {"actpass", "passive"} -> "client"
      [] local = "passive" /\ remote \in {"actpass", "active"} -> "server"
      [] OTHER -> "client"
DtlsRole(local, remote) ==
    CASE local = "active" /\ remote \in {"actpass", "passive"} -> "client"
      [] local = "passive" /\ remote \in {"actpass", "active"} -> "server"
      [] local = "actpass" /\ remote = "active" -> "server"
      [] OTHER -> "client"

\* No exchange is under way: the last offer was answered.
Settled == signal = <<>> /\ \A e \in Ends : sdpRole[e] = "answer" => active[e]

CreateOffer(e) ==
    /\ e \in Offerers /\ offers < MaxOffers
    /\ Settled /\ (offers > 0 => \E x \in Ends : sdpRole[x] = "answer")
    /\ offers' = offers + 1
    /\ sdpRole' = [sdpRole EXCEPT ![e] = "offer"]
    /\ setup' = [setup EXCEPT ![e] = "actpass"]
    /\ signal' = <<[to |-> Peer(e), type |-> "offer", setup |-> "actpass"]>>
    /\ UNCHANGED <<dtlsRole, active, tls, net, losses, dups>>

\* The setup that media_stream::set_remote_sdp() chooses for an offer.
LocalSetup(remote) == IF remote = "active" THEN "passive" ELSE "active"

\* set_remote_sdp() with an offer.  The streams are made anew, the transport and
\* its DTLS connection are the same.
SetRemoteOffer(e) ==
    /\ signal # <<>> /\ Head(signal).to = e /\ Head(signal).type = "offer"
    /\ LET remote == Head(signal).setup IN
       /\ setup' = [setup EXCEPT ![e] = LocalSetup(remote)]
       /\ dtlsRole' = [dtlsRole EXCEPT ![e] = DtlsRole(LocalSetup(remote), remote)]
    /\ sdpRole' = [sdpRole EXCEPT ![e] = "answer"]
    /\ signal' = <<[to |-> e, type |-> "create_answer", setup |-> "none"]>>
    /\ UNCHANGED <<active, tls, net, bounds>>

\* create_answer(), which the application calls next; it starts the timer.
CreateAnswer(e) ==
    /\ signal # <<>> /\ Head(signal).to = e /\ Head(signal).type = "create_answer"
    /\ sdpRole[e] = "answer"
    /\ active' = [active EXCEPT ![e] = TRUE]
    /\ signal' = <<[to |-> Peer(e), type |-> "answer", setup |-> setup[e]]>>
    /\ UNCHANGED <<sdpRole, setup, dtlsRole, tls, net, bounds>>

\* set_remote_sdp() with an answer
SetRemoteAnswer(e) ==
    /\ signal # <<>> /\ Head(signal).to = e /\ Head(signal).type = "answer"
    /\ sdpRole[e] = "offer" /\ Head(signal).setup # setup[e]
    /\ active' = [active EXCEPT ![e] = TRUE]
    /\ dtlsRole' = [dtlsRole EXCEPT ![e] = DtlsRole(setup[e], Head(signal).setup)]
    /\ signal' = <<>>
    /\ UNCHANGED <<sdpRole, setup, tls, net, bounds>>

-----------------------------------------------------------------------------
(* The transport                                                           *)

\* handle_timer(): a binding request, to the known endpoint or to the candidates.
Timer(e) ==
    /\ active[e]
    /\ net' = net \union To(Peer(e), {"request"})
    /\ net' # net
    /\ UNCHANGED <<ends, tls, signal, bounds>>

\* handle_stun_message() on a request
OnRequest(e, rest) ==
    /\ net' = rest \union To(Peer(e), {"response"})
    /\ UNCHANGED <<ends, tls, signal>>

\* What dtls::connect() puts on the wire when it is entered with this state.
Again(s, g) ==
    CASE s = "none" -> {"hello"}
      [] s = "client" /\ g = "hello" -> {"hello"}
      [] s = "client" /\ g = "key" -> {"key"}
      [] s = "server" /\ g = "hello" -> {"certificate"}
      [] OTHER -> {}

\* handle_stun_completed(): the client starts or continues the handshake.
OnResponse_M(e, rest) ==
    /\ IF keys[e] = "none" /\ dtlsRole[e] = "client" /\ side[e] = "none"
         THEN /\ side' = [side EXCEPT ![e] = "client"]
              /\ stage' = [stage EXCEPT ![e] = "hello"]
              /\ net' = rest \union To(Peer(e), Again(side[e], stage[e]))
         ELSE net' = rest /\ UNCHANGED <<side, stage>>
    /\ UNCHANGED <<ends, keys, connected, signal>>

OnResponse(e, rest) ==
    /\ IF keys[e] = "none" /\ dtlsRole[e] = "client"
         THEN /\ side' = [side EXCEPT ![e] = IF @ = "none" THEN "client" ELSE @]
              /\ stage' = [stage EXCEPT ![e] = IF @ = "none" THEN "hello" ELSE @]
              /\ net' = rest \union To(Peer(e), Again(side[e], stage[e]))
         ELSE net' = rest /\ UNCHANGED <<side, stage>>
    /\ UNCHANGED <<ends, keys, connected, signal>>

\* OpenSSL on a flight: the stage it reaches, and what it answers.
Reached(s, g, flight) ==
    CASE s = "client" /\ g = "hello" /\ flight = "certificate" -> "key"
      [] s = "client" /\ g = "key" /\ flight = "finished" -> "done"
      [] s = "client" /\ g = "hello" /\ flight = "hello" -> "failed"
      [] s = "server" /\ g = "none" /\ flight = "hello" -> "hello"
      [] s = "server" /\ g = "hello" /\ flight = "key" -> "done"
      [] OTHER -> g
Answer(s, g, flight) ==
    CASE s = "client" /\ g = "hello" /\ flight = "certificate" -> {"key"}
      [] s = "server" /\ g \in {"none", "hello"} /\ flight = "hello" -> {"certificate"}
      [] s = "server" /\ g \in {"hello", "done"} /\ flight = "key" -> {"finished"}
      [] OTHER -> {}

OnDtls_M1(e, flight, rest) ==
    LET s == IF side[e] = "none" THEN "server" ELSE side[e]
        g == Reached(s, stage[e], flight)
    IN /\ side' = [side EXCEPT ![e] = s]
       /\ stage' = [stage EXCEPT ![e] = g]
       /\ net' = rest \union To(Peer(e), Answer(s, stage[e], flight))
       /\ IF side[e] # "none" /\ g = "done"
            THEN /\ keys' = [keys EXCEPT ![e] = "client"]
                 /\ connected' = [connected EXCEPT ![e] = IF @ < 2 THEN @ + 1 ELSE @]
            ELSE UNCHANGED <<keys, connected>>
       /\ UNCHANGED <<ends, signal>>

OnDtls_M2(e, flight, rest) ==
    LET s == IF side[e] = "none" THEN "server" ELSE side[e]
        g == Reached(s, stage[e], flight)
    IN /\ side' = [side EXCEPT ![e] = s]
       /\ stage' = [stage EXCEPT ![e] = g]
       /\ net' = rest \union To(Peer(e), Answer(s, stage[e], flight))
       /\ IF side[e] # "none" /\ g = "done"
            THEN /\ keys' = [keys EXCEPT ![e] = IF @ = "none" THEN dtlsRole[e] ELSE "none"]
                 /\ connected' = [connected EXCEPT ![e] = IF @ < 2 THEN @ + 1 ELSE @]
            ELSE UNCHANGED <<keys, connected>>
       /\ UNCHANGED <<ends, signal>>

\* handle_dtls_message(): the first message is given to accept(); after any later
\* one the keys are exported if the handshake is over.
OnDtls(e, flight, rest) ==
    LET s == IF side[e] = "none" THEN "server" ELSE side[e]
        g == Reached(s, stage[e], flight)
    IN /\ side' = [side EXCEPT ![e] = s]
       /\ stage' = [stage EXCEPT ![e] = g]
       /\ net' = rest \union To(Peer(e), Answer(s, stage[e], flight))
       /\ IF side[e] # "none" /\ g = "done"
            THEN /\ keys' = [keys EXCEPT ![e] = dtlsRole[e]]
                 /\ connected' = [connected EXCEPT ![e] = IF @ < 2 THEN @ + 1 ELSE @]
            ELSE UNCHANGED <<keys, connected>>
       /\ UNCHANGED <<ends, signal>>

\* received_message(): the first byte tells the protocol.
Receive(m, rest) ==
    \/ m.type = "request" /\ OnRequest(m.to, rest)
    \/ m.type = "response" /\ OnResponse(m.to, rest)
    \/ m.type \in {"hello", "certificate", "key", "finished"} /\ OnDtls(m.to, m.type, rest)

Deliver(m) == m \in net /\ Receive(m, net \ {m}) /\ UNCHANGED bounds

Duplicate(m) ==
    /\ m \in net /\ dups < MaxDup
    /\ dups' = dups + 1
    /\ Receive(m, net)
    /\ UNCHANGED <<offers, losses>>

Lose ==
    /\ losses < MaxLoss
    /\ losses' = losses + 1
    /\ \E m \in net : net' = net \ {m}
    /\ UNCHANGED <<ends, tls, signal, offers, dups>>

Messages == UNION {To(e, {"request", "response", "hello", "certificate", "key", "finished"}) : e \in Ends}

Next ==
    \/ \E e \in Ends : \/ CreateOffer(e) \/ SetRemoteOffer(e)
                       \/ CreateAnswer(e) \/ SetRemoteAnswer(e) \/ Timer(e)
    \/ \E m \in net : Deliver(m) \/ Duplicate(m)
    \/ Lose

Spec == Init /\ [][Next]_vars

\* The application completes an exchange that it has begun, timers fire, and a
\* datagram that is not lost arrives.
FairSpec ==
    /\ Spec
    /\ \A e \in Ends : /\ WF_vars(SetRemoteOffer(e)) /\ WF_vars(CreateAnswer(e))
                       /\ WF_vars(SetRemoteAnswer(e)) /\ WF_vars(Timer(e))
    /\ \A m \in Messages : WF_vars(Deliver(m))

-----------------------------------------------------------------------------
\* The members of rtp_session and transport keep their types: dtls_role() always
\* chooses one of the two roles.
TypeOK ==
    /\ sdpRole \in [Ends -> {"unknown", "offer", "answer"}]
    /\ setup \in [Ends -> {"none", "actpass", "active", "passive"}]
    /\ dtlsRole \in [Ends -> {"client", "server"}]
    /\ active \in [Ends -> BOOLEAN]
    /\ side \in [Ends -> {"none", "client", "server"}]
    /\ stage \in [Ends -> {"none", "hello", "key", "done", "failed"}]
    /\ keys \in [Ends -> {"none", "client", "server"}]
    /\ connected \in [Ends -> 0..2]
    /\ net \subseteq Messages

\* Once an exchange is over, exactly one endpoint takes itself for the DTLS
\* client: set_remote_sdp() on an offer and on its answer choose opposite roles.
RolesAgree ==
    (offers > 0 /\ Settled /\ \E e \in Ends : sdpRole[e] = "answer") =>
      Cardinality({e \in Ends : dtlsRole[e] = "client"}) = 1

\* What one endpoint protects the other can unprotect: their SRTP contexts were
\* made for opposite roles, whenever handle_dtls_message() exports the keys.
KeysMatch ==
    \A e \in Ends : keys[e] # "none" /\ keys[Peer(e)] # "none" => keys[e] # keys[Peer(e)]

\* An endpoint that has keys keeps the same ones: a repeated flight and a new offer
\* of the same side change nothing.
KeysStay == [][\A e \in Ends : keys[e] # "none" => keys'[e] = keys[e]]_vars

\* After an answer the handshake ends on both sides, in spite of losses: the timer
\* and the responses to its requests repeat what was lost.
EventuallyConnected ==
    (\E e \in Ends : sdpRole[e] = "answer") ~> (\A e \in Ends : keys[e] # "none")
=============================================================================
