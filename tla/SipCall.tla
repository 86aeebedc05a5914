------------------------------- MODULE SipCall -------------------------------
(***************************************************************************)
(* One SIP call between two endpoints of this library: the call object     *)
(* (src/voip/sip/sip_call.cpp, src/voip/call.cpp), the list of calls and   *)
(* the dispatch of messages (src/voip/sip/endpoint.cpp), and the           *)
(* connection below them (src/sip).                                        *)
(*                                                                         *)
(* A calls B.  The read handler of a connection takes one message at a     *)
(* time and is one step, up to the rtp_.start() at its end.  The           *)
(* applications call start, answer, refuse and stop from their threads.    *)
(* stop() is several steps: it sends up to three BYEs a second apart.      *)
(* Messages are their method, responses their status and method.           *)
(***************************************************************************)
EXTENDS Naturals, Sequences, SequencesExt

CONSTANTS
    Transports,  \* "tcp", "udp", or "shared": the TCP connection of a registration
    MaxByes,     \* 3: BYEs that stop() sends
    MaxLoss      \* bound: datagrams lost

ASSUME TransportAssumption == Transports \subseteq {"tcp", "udp", "shared"}
ASSUME BoundAssumption ==
    MaxByes \in Nat /\ MaxLoss \in Nat

Sides == {"A", "B"}
Peer(e) == IF e = "A" THEN "B" ELSE "A"

\* Requests, responses with their status, and "eof": the peer has closed the TCP
\* connection.  100, 180, OPTIONS and its response are left out: no handler changes
\* anything but the times of the last activity, which Beats below stands for.
Messages == {"INVITE", "ACK", "BYE", "200 INVITE", "200 BYE", "603", "eof"}

VARIABLES
    transport,  \* what the call runs over
    link,       \* the TCP connection is up
    net,        \* messages on their way to each side
    lost,       \* datagrams lost so far
    listed,     \* the call is in the endpoint's calls_
    active,     \* active_
    con,        \* con_ is set
    gotAck,     \* got_ack
    gotBye,     \* got_bye
    connected,  \* triggered_connected_: on_connected has been called
    media,      \* rtp_ runs
    starting,   \* a thread is about to call rtp_.start()
    stopping,   \* where stop() is: "no", "bye", "end", "done"
    byes,       \* BYEs that stop() has sent
    answer,     \* what B's application has decided: "none", "yes", "no"
    told        \* what made on_hangup() be called so far

vars == <<transport, link, net, lost, listed, active, con, gotAck, gotBye, connected,
          media, starting, stopping, byes, answer, told>>
network == <<transport, link, lost>>
signals == <<gotAck, gotBye, connected>>
stopper == <<stopping, byes>>

All(v) == [e \in Sides |-> v]

Init ==
    /\ transport \in Transports
    /\ link = FALSE
    /\ net = All(<<>>)
    /\ lost = 0
    /\ listed = All(FALSE) /\ active = All(FALSE) /\ con = All(FALSE)
    /\ gotAck = All(FALSE) /\ gotBye = All(FALSE) /\ connected = All(FALSE)
    /\ media = All(FALSE) /\ starting = All(FALSE)
    /\ stopping = All("no") /\ byes = All(0)
    /\ answer = "none"
    /\ told = All({})

-----------------------------------------------------------------------------
(* The connection                                                          *)

\* send_message(): nobody notices that the TCP connection is gone.
Sent(e, msgs) ==
    [net EXCEPT ![Peer(e)] = @ \o (IF link THEN msgs ELSE <<>>)]

\* Side e has taken its i-th message and answers with msgs.
Taken(e, i, msgs) == [Sent(e, msgs) EXCEPT ![e] = RemoveAt(@, i)]

\* con->stop() of a TCP connection: what was being written may not leave any more, what
\* is on its way to e is not read.
Closed(e) ==
    IF transport = "tcp" /\ link
    THEN /\ link' = FALSE
         /\ \E n \in 0..Len(net[Peer(e)]) :
              net' = [net EXCEPT ![e] = <<>>, ![Peer(e)] = Append(SubSeq(@, 1, n), "eof")]
    ELSE UNCHANGED <<link, net>>

Lose ==
    /\ transport = "udp" /\ lost < MaxLoss
    /\ lost' = lost + 1
    /\ \E e \in Sides : \E i \in DOMAIN net[e] : net' = [net EXCEPT ![e] = RemoveAt(@, i)]
    /\ UNCHANGED <<transport, link, listed, active, con, signals, media, starting,
                   stopper, answer, told>>

-----------------------------------------------------------------------------
(* What the applications do                                                *)

\* make_call() and start() of an outgoing call.
Call ==
    /\ ~listed["A"] /\ stopping["A"] = "no"
    /\ listed' = [listed EXCEPT !["A"] = TRUE]
    /\ active' = [active EXCEPT !["A"] = TRUE]
    /\ \/ /\ con' = [con EXCEPT !["A"] = TRUE]
          /\ link' = TRUE
          /\ net' = [net EXCEPT !["B"] = Append(@, "INVITE")]
          /\ UNCHANGED stopping
       \/ /\ stopping' = [stopping EXCEPT !["A"] = "end"]   \* no connection, no port
          /\ UNCHANGED <<con, link, net>>
    /\ UNCHANGED <<transport, lost, signals, media, starting, byes, answer, told>>

\* answer(): rtp_.start() follows once invite_rsp() has sent the answer.
Answer ==
    /\ active["B"] /\ con["B"] /\ answer = "none"
    /\ answer' = "yes"
    /\ net' = Sent("B", <<"200 INVITE">>)
    /\ starting' = [starting EXCEPT !["B"] = TRUE]
    /\ UNCHANGED <<network, listed, active, con, signals, media, stopper, told>>

\* refuse()
Refuse ==
    /\ active["B"] /\ con["B"] /\ answer = "none"
    /\ answer' = "no"
    /\ net' = Sent("B", <<"603">>)
    /\ UNCHANGED <<network, listed, active, con, signals, media, starting, stopper, told>>

StartMedia(e) ==
    /\ starting[e]
    /\ starting' = [starting EXCEPT ![e] = FALSE]
    /\ media' = [media EXCEPT ![e] = TRUE]
    /\ UNCHANGED <<network, net, listed, active, con, signals, stopper, answer, told>>

\* stop() up to the first BYE.  Only the first caller gets past active_.
Stop(e) ==
    /\ active[e] /\ stopping[e] = "no"
    /\ active' = [active EXCEPT ![e] = FALSE]
    /\ media' = [media EXCEPT ![e] = FALSE]
    /\ stopping' = [stopping EXCEPT ![e] = IF con[e] /\ gotAck[e] THEN "bye" ELSE "end"]
    /\ UNCHANGED <<network, net, listed, con, signals, starting, byes, answer, told>>

\* One round of the loop in stop(); the second it sleeps is the time to the next step.
Bye(e) ==
    /\ stopping[e] = "bye" /\ ~gotBye[e] /\ byes[e] < MaxByes
    /\ byes' = [byes EXCEPT ![e] = @ + 1]
    /\ net' = Sent(e, <<"BYE">>)
    /\ UNCHANGED <<network, listed, active, con, signals, media, starting, stopping,
                   answer, told>>

\* The end of stop(): clear_con(), con->stop() and on_destroy(), which takes the call
\* off the endpoint's list.
Destroy(e) ==
    /\ \/ stopping[e] = "end"
       \/ stopping[e] = "bye" /\ (gotBye[e] \/ byes[e] = MaxByes)
    /\ stopping' = [stopping EXCEPT ![e] = "done"]
    /\ active' = [active EXCEPT ![e] = FALSE]
    /\ con' = [con EXCEPT ![e] = FALSE]
    /\ listed' = [listed EXCEPT ![e] = FALSE]
    /\ IF con[e] THEN Closed(e) ELSE UNCHANGED <<link, net>>
    /\ UNCHANGED <<transport, lost, signals, media, starting, byes, answer, told>>

-----------------------------------------------------------------------------
(* What the read handler does with a message.  UDP may reorder.            *)

\* The i-th message on its way to e is m and is read next; only listed calls react.
Reads(e, i, m) ==
    /\ i \in DOMAIN net[e] /\ net[e][i] = m
    /\ transport # "udp" => i = 1

\* ringing() forgets to set the status: create_response() makes a 200.
OnInvite_M(i) ==
    /\ Reads("B", i, "INVITE")
    /\ net' = Taken("B", i, <<"200 INVITE">>)
    /\ listed' = [listed EXCEPT !["B"] = TRUE]
    /\ active' = [active EXCEPT !["B"] = TRUE]
    /\ con' = [con EXCEPT !["B"] = TRUE]
    /\ UNCHANGED <<network, signals, media, starting, stopper, answer, told>>

\* on_invite(): the call is listed and started, which fails when there is no port for
\* its media.
OnInvite(i) ==
    /\ Reads("B", i, "INVITE")
    /\ net' = Taken("B", i, <<>>)
    /\ listed' = [listed EXCEPT !["B"] = TRUE]
    /\ active' = [active EXCEPT !["B"] = TRUE]
    /\ con' = [con EXCEPT !["B"] = TRUE]
    /\ \/ UNCHANGED stopping
       \/ stopping' = [stopping EXCEPT !["B"] = "end"]
    /\ UNCHANGED <<network, signals, media, starting, byes, answer, told>>

\* A message for a call that is not listed any more
OnUnknown(e, i) ==
    /\ ~listed[e] /\ \E m \in Messages \ {"INVITE", "eof"} : Reads(e, i, m)
    /\ net' = Taken(e, i, <<>>)
    /\ UNCHANGED <<network, listed, active, con, signals, media, starting, stopper,
                   answer, told>>

\* ack(), which also calls on_connected; it does nothing once the connection is gone.
Ack(e) ==
    /\ gotAck' = [gotAck EXCEPT ![e] = @ \/ con[e]]
    /\ connected' = [connected EXCEPT ![e] = @ \/ con[e]]

OnAnswer_M(e, i) ==
    /\ listed[e] /\ Reads(e, i, "200 INVITE")
    /\ net' = Taken(e, i, IF con[e] THEN <<"ACK">> ELSE <<>>)
    /\ gotAck' = [gotAck EXCEPT ![e] = @ \/ con[e]]
    /\ starting' = [starting EXCEPT ![e] = TRUE]
    /\ UNCHANGED <<network, listed, active, con, gotBye, connected, media, stopper, answer, told>>

\* on_response() to INVITE: ack(), and then rtp_.start() whatever became of the call.
OnAnswer(e, i) ==
    /\ listed[e] /\ Reads(e, i, "200 INVITE")
    /\ net' = Taken(e, i, IF con[e] THEN <<"ACK">> ELSE <<>>)
    /\ Ack(e)
    /\ starting' = [starting EXCEPT ![e] = TRUE]
    /\ UNCHANGED <<network, listed, active, con, gotBye, media, stopper, answer, told>>

\* on_ack()
OnAck(e, i) ==
    /\ listed[e] /\ Reads(e, i, "ACK")
    /\ net' = Taken(e, i, <<>>)
    /\ gotAck' = [gotAck EXCEPT ![e] = TRUE]
    /\ connected' = [connected EXCEPT ![e] = TRUE]
    /\ UNCHANGED <<network, listed, active, con, gotBye, media, starting, stopper,
                   answer, told>>

\* on_decline(): the 603 is answered like a request, and acknowledged like an answer.
OnDecline(e, i) ==
    /\ listed[e] /\ Reads(e, i, "603")
    /\ net' = Taken(e, i, IF con[e] THEN <<"200 INVITE", "ACK">> ELSE <<>>)
    /\ gotBye' = [gotBye EXCEPT ![e] = TRUE]
    /\ Ack(e)
    /\ told' = [told EXCEPT ![e] = @ \union {"declined"}]
    /\ UNCHANGED <<network, listed, active, con, media, starting, stopper, answer>>

\* on_bye()
OnBye(e, i) ==
    /\ listed[e] /\ Reads(e, i, "BYE")
    /\ net' = Taken(e, i, IF con[e] THEN <<"200 BYE">> ELSE <<>>)
    /\ gotBye' = [gotBye EXCEPT ![e] = TRUE]
    /\ told' = [told EXCEPT ![e] = @ \union {"bye"}]
    /\ UNCHANGED <<network, listed, active, con, gotAck, connected, media, starting, stopper, answer>>

OnByeAnswer_M(e, i) ==
    /\ listed[e] /\ Reads(e, i, "200 BYE")
    /\ net' = Taken(e, i, <<>>)
    /\ gotBye' = [gotBye EXCEPT ![e] = TRUE]
    /\ told' = [told EXCEPT ![e] = @ \union {"bye"}]
    /\ UNCHANGED <<network, listed, active, con, gotAck, connected, media, starting, stopper,
                   answer>>

\* on_response() to BYE
OnByeAnswer(e, i) ==
    /\ listed[e] /\ Reads(e, i, "200 BYE")
    /\ net' = Taken(e, i, <<>>)
    /\ gotBye' = [gotBye EXCEPT ![e] = TRUE]
    /\ UNCHANGED <<network, listed, active, con, gotAck, connected, media, starting, stopper, answer, told>>

\* handle_read() with an error: invoke_close(), handle_sipcon_close().
OnClose(e) ==
    /\ Reads(e, 1, "eof")
    /\ net' = Taken(e, 1, <<>>)
    /\ told' = [told EXCEPT ![e] = IF con[e] THEN @ \union {"closed"} ELSE @]
    /\ UNCHANGED <<network, listed, active, con, signals, media, starting, stopper, answer>>

Deliver(e) ==
    \/ OnClose(e)
    \/ \E i \in DOMAIN net[e] :
         \/ OnUnknown(e, i) \/ OnAnswer(e, i) \/ OnAck(e, i)
         \/ OnDecline(e, i) \/ OnBye(e, i) \/ OnByeAnswer(e, i)

-----------------------------------------------------------------------------
(* Timers                                                                  *)

\* The call's timer sends OPTIONS every 15 seconds for as long as this holds, which
\* keeps this call active; a listed peer answers, which keeps both connections alive.
Beats(e) == active[e] /\ gotAck[e] /\ con[e]

\* The endpoint's timer finds a call that neither sent OPTIONS nor received a frame for
\* 90 seconds.
Inactive(e) ==
    /\ listed[e] /\ told[e] = {}
    /\ ~Beats(e) /\ ~(media[e] /\ media[Peer(e)])
    /\ told' = [told EXCEPT ![e] = {"inactive"}]
    /\ UNCHANGED <<network, net, listed, active, con, signals, media, starting, stopper,
                   answer>>

\* The timer only looks at TCP connections.
Silent_M(e) ==
    /\ transport = "tcp"
    /\ con[e] /\ told[e] = {} /\ net[e] = <<>>
    /\ ~Beats(Peer(e)) /\ ~(Beats(e) /\ listed[Peer(e)])
    /\ told' = [told EXCEPT ![e] = {"silent"}]
    /\ UNCHANGED <<network, net, listed, active, con, signals, media, starting, stopper, answer>>

\* The server's timer finds a connection that received nothing for 180 seconds; the
\* shared one carries the registration's messages.
Silent(e) ==
    /\ transport # "shared"
    /\ con[e] /\ told[e] = {} /\ net[e] = <<>>
    /\ ~Beats(Peer(e)) /\ ~(Beats(e) /\ listed[Peer(e)])
    /\ told' = [told EXCEPT ![e] = {"silent"}]
    /\ UNCHANGED <<network, net, listed, active, con, signals, media, starting, stopper,
                   answer>>

-----------------------------------------------------------------------------
Next ==
    \/ Lose
    \/ Call \/ Answer \/ Refuse
    \/ \E i \in DOMAIN net["B"] : OnInvite(i)
    \/ \E e \in Sides :
         \/ StartMedia(e) \/ Stop(e) \/ Bye(e) \/ Destroy(e)
         \/ Deliver(e) \/ Inactive(e) \/ Silent(e)

\* What happens by itself: messages arrive, timers fire, threads go on, and an
\* application that was told that the call is over stops it.
Progress ==
    \/ \E i \in DOMAIN net["B"] : OnInvite(i)
    \/ \E e \in Sides :
         \/ StartMedia(e) \/ Bye(e) \/ Destroy(e)
         \/ told[e] # {} /\ Stop(e)
         \/ Deliver(e) \/ Inactive(e) \/ Silent(e)

Spec == Init /\ [][Next]_vars

FairSpec == Spec /\ WF_vars(Progress)

-----------------------------------------------------------------------------
(* Properties                                                              *)

\* The members of the two call objects keep their types, and stop() sends at most
\* MaxByes BYEs.
TypeOK ==
    /\ transport \in Transports /\ link \in BOOLEAN
    /\ net \in [Sides -> Seq(Messages)]
    /\ lost \in 0..MaxLoss
    /\ listed \in [Sides -> BOOLEAN] /\ active \in [Sides -> BOOLEAN] /\ con \in [Sides -> BOOLEAN]
    /\ gotAck \in [Sides -> BOOLEAN] /\ gotBye \in [Sides -> BOOLEAN]
    /\ connected \in [Sides -> BOOLEAN]
    /\ media \in [Sides -> BOOLEAN] /\ starting \in [Sides -> BOOLEAN]
    /\ stopping \in [Sides -> {"no", "bye", "end", "done"}]
    /\ byes \in [Sides -> 0..MaxByes]
    /\ answer \in {"none", "yes", "no"}
    /\ told \in [Sides -> SUBSET {"bye", "declined", "closed", "inactive", "silent"}]

\* Once either side has hung up, both endpoints forget the call for good: by the BYEs,
\* by the closed connection or by a timer, whatever was lost.  (On a shared connection,
\* which stays up, a call that is stopped before its ACK leaves the peer waiting.)
HangupEndsCall ==
    (transport # "shared" /\ \E e \in Sides : stopping[e] # "no") ~> [](\A e \in Sides : ~listed[e])

\* The callee's on_connected never comes before the caller's: only ack() of the caller
\* makes an ACK.
CallerConnectsFirst == connected["B"] => connected["A"]

\* A call is connected only after the callee's application has decided.
ConnectedIsDecided == (\E e \in Sides : connected[e]) => answer # "none"

\* on_hangup has a cause: when a BYE or the end of the connection is reported the peer
\* has stopped, when a refusal is the callee has refused.
HangupHasCause ==
    \A e \in Sides :
        /\ told[e] \intersect {"bye", "closed"} # {} => stopping[Peer(e)] # "no"
        /\ "declined" \in told[e] => e = "A" /\ answer = "no"
=============================================================================
