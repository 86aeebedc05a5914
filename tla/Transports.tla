------------------------------ MODULE Transports ------------------------------
(***************************************************************************)
(* The UDP transports of rtp_session (src/rtpx/rtp_session.cpp): several   *)
(* threads create streams in several sessions, which take their ports from *)
(* one port_range, while the application removes streams and stops         *)
(* sessions.                                                               *)
(*                                                                         *)
(* create_media_stream() takes ports_' mutex, transports_mutex_ and        *)
(* media_streams_mutex_ one after the other: each is a step.               *)
(***************************************************************************)
EXTENDS PortRange, FiniteSets

CONSTANTS
    Sessions, Threads, Mids,
    Modes,       \* of a session: "mux", "rtcp-mux" or "pair"
    ForeignSets, \* possible sets of ports that another process has bound
    MaxCreates   \* bound: streams that are asked for

ASSUME ModeAssumption == Modes \subseteq {"mux", "rtcp-mux", "pair"}
ASSUME CreatesAssumption == MaxCreates \in Nat
ASSUME FiniteAssumption == IsFiniteSet(Mids) /\ IsFiniteSet(Threads)

Nobody == "nobody"
Foreign == "foreign"
ASSUME OwnerAssumption == Nobody \notin Sessions /\ Foreign \notin Sessions

VARIABLES
    mode,        \* is_port_mux_ and the rtcp_mux argument of each session's streams
    pos,         \* pos_ of the port range
    owner,       \* who has bound each port
    transports,  \* transports_, by port
    streams,     \* media_streams_: the transports of the stream with each mid
    muxPort,     \* mux_port_
    stopping,    \* stop() has cleared the streams and not yet the transports
    thread,      \* what each thread does
    creates,     \* streams asked for so far
    untried,     \* pairs that were free all the time since a thread began to look
    raced        \* stop() and create_media_stream() have run at the same time

vars == <<mode, pos, owner, transports, streams, muxPort, stopping, thread, creates, untried, raced>>

NoStream == [rtp |-> -1, rtcp |-> -1]
Idle == [pc |-> "idle"]
Work(pc, s, mid, i, port) == [pc |-> pc, session |-> s, mid |-> mid, i |-> i, port |-> port]

\* Thread t goes on with step pc of its loop.
GoOn(t, pc) ==
    thread' = [thread EXCEPT ![t] = Work(pc, @.session, @.mid, @.i, @.port)]

\* The even ports whose pair nobody uses, when the ports are bound as in own
FreePairs(own) == {p \in Ports : p % 2 = 0 /\ own[p] = Nobody /\ own[p + 1] = Nobody}

Init ==
    /\ mode \in [Sessions -> Modes]
    /\ pos = MinPort
    /\ \E f \in ForeignSets : owner = [p \in Ports |-> IF p \in f THEN Foreign ELSE Nobody]
    /\ transports = [s \in Sessions |-> {}]
    /\ streams = [s \in Sessions |-> [m \in Mids |-> NoStream]]
    /\ muxPort = [s \in Sessions |-> 0]
    /\ stopping = [s \in Sessions |-> FALSE]
    /\ thread = [t \in Threads |-> Idle]
    /\ creates = 0
    /\ untried = [t \in Threads |-> {}]
    /\ raced = [s \in Sessions |-> FALSE]

-----------------------------------------------------------------------------
(* create_media_stream()                                                   *)

\* create_transport_pair(): a session on one port has no choice after the first stream.
Begin(t, s, mid) ==
    /\ thread[t] = Idle /\ creates < MaxCreates
    /\ creates' = creates + 1
    /\ thread' = [thread EXCEPT ![t] =
         IF mode[s] = "mux" /\ muxPort[s] # 0
         THEN Work("open", s, mid, Count, muxPort[s])
         ELSE Work("take", s, mid, 0, 0)]
    /\ untried' = [untried EXCEPT ![t] = FreePairs(owner)]
    /\ raced' = [raced EXCEPT ![s] = @ \/ stopping[s]]
    /\ UNCHANGED <<mode, pos, owner, transports, streams, muxPort, stopping>>

\* The next port of the range, or the end of the loop
Take(t) ==
    /\ thread[t].pc = "take"
    /\ IF thread[t].i < Count
       THEN LET r == IF mode[thread[t].session] = "pair" THEN GetNextEvenPort(pos) ELSE GetNextPort(pos)
            IN /\ pos' = r.pos
               /\ thread' = [thread EXCEPT ![t] = Work("open", @.session, @.mid, @.i + 1, r.port)]
       ELSE /\ thread' = [thread EXCEPT ![t] = Idle]
            /\ UNCHANGED pos
    /\ UNCHANGED <<mode, owner, transports, streams, muxPort, stopping, creates, untried, raced>>

\* create_transport() finds the session's own transport of that port or binds the port.
CanOpen(s, p) == p \in transports[s] \/ owner[p] = Nobody

Opened(s, p) ==
    /\ transports' = [transports EXCEPT ![s] = @ \union {p}]
    /\ owner' = [owner EXCEPT ![p] = s]
    /\ untried' = [t \in Threads |-> untried[t] \intersect FreePairs(owner')]

\* The first transport, of which a failure means the next port
Open(t) ==
    /\ thread[t].pc = "open"
    /\ LET s == thread[t].session
           p == thread[t].port
       IN IF CanOpen(s, p)
          THEN /\ Opened(s, p)
               /\ muxPort' = [muxPort EXCEPT ![s] = IF mode[s] = "mux" THEN p ELSE @]
               /\ GoOn(t, IF mode[s] = "pair" THEN "second" ELSE "add")
          ELSE /\ GoOn(t, "take")
               /\ UNCHANGED <<transports, owner, untried, muxPort>>
    /\ UNCHANGED <<mode, pos, streams, stopping, creates, raced>>

\* References to a transport of session s: the one in transports_, the one that the
\* handler of its socket holds, those of streams and those of other threads.
UseCount(s, p, others) ==
    2 + Cardinality({m \in Mids : p \in {streams[s][m].rtp, streams[s][m].rtcp}})
      + Cardinality({t \in others : /\ thread[t].pc \in {"second", "add"}
                                    /\ thread[t].session = s /\ thread[t].port = p})

TryRemove_M(s, ports, others) ==
    /\ transports' = [transports EXCEPT ![s] = @ \ ports]
    /\ owner' = [p \in Ports |-> IF p \in ports /\ owner[p] = s THEN Nobody ELSE owner[p]]

\* try_remove_transport(): only what nobody uses any more
TryRemove(s, ports, others) ==
    LET gone == {p \in ports \intersect transports[s] : UseCount(s, p, others) <= 1}
    IN /\ transports' = [transports EXCEPT ![s] = @ \ gone]
       /\ owner' = [p \in Ports |-> IF p \in gone THEN Nobody ELSE owner[p]]

\* The second transport of a pair
Second(t) ==
    /\ thread[t].pc = "second"
    /\ LET s == thread[t].session
           p == thread[t].port
       IN IF CanOpen(s, p + 1)
          THEN /\ Opened(s, p + 1)
               /\ GoOn(t, "add")
          ELSE /\ TryRemove(s, {p}, Threads \ {t})
               /\ GoOn(t, "take")
               /\ UNCHANGED untried
    /\ UNCHANGED <<mode, pos, streams, muxPort, stopping, creates, raced>>

\* The stream is listed, unless its mid is taken: then its transports stay without it.
Add(t) ==
    /\ thread[t].pc = "add"
    /\ LET s == thread[t].session
           m == thread[t].mid
           p == thread[t].port
       IN streams' = [streams EXCEPT ![s][m] =
            IF @ # NoStream THEN @
            ELSE [rtp |-> p, rtcp |-> IF mode[s] = "pair" THEN p + 1 ELSE p]]
    /\ thread' = [thread EXCEPT ![t] = Idle]
    /\ UNCHANGED <<mode, pos, owner, transports, muxPort, stopping, creates, untried, raced>>

-----------------------------------------------------------------------------
(* The application                                                         *)

\* remove_media_stream_by_mid(): the stream itself still holds its transports.
Remove(s, mid) ==
    /\ streams[s][mid] # NoStream
    /\ streams' = [streams EXCEPT ![s][mid] = NoStream]
    /\ TryRemove(s, {streams[s][mid].rtp, streams[s][mid].rtcp}, Threads)
    /\ UNCHANGED <<mode, pos, muxPort, stopping, thread, creates, untried, raced>>

Creating(s) == \E t \in Threads : thread[t] # Idle /\ thread[t].session = s

\* stop(): clear_media_streams() takes the streams first ...
StopStreams(s) ==
    /\ ~stopping[s]
    /\ stopping' = [stopping EXCEPT ![s] = TRUE]
    /\ streams' = [streams EXCEPT ![s] = [m \in Mids |-> NoStream]]
    /\ raced' = [raced EXCEPT ![s] = @ \/ Creating(s)]
    /\ UNCHANGED <<mode, pos, owner, transports, muxPort, thread, creates, untried>>

StopTransports_M(s) ==
    /\ stopping[s]
    /\ stopping' = [stopping EXCEPT ![s] = FALSE]
    /\ transports' = [transports EXCEPT ![s] = {}]
    /\ raced' = [raced EXCEPT ![s] = @ \/ Creating(s)]
    /\ UNCHANGED <<mode, pos, owner, streams, muxPort, thread, creates, untried>>

\* ... and then closes the transports.
StopTransports(s) ==
    /\ stopping[s]
    /\ stopping' = [stopping EXCEPT ![s] = FALSE]
    /\ transports' = [transports EXCEPT ![s] = {}]
    /\ owner' = [p \in Ports |-> IF p \in transports[s] THEN Nobody ELSE owner[p]]
    /\ raced' = [raced EXCEPT ![s] = @ \/ Creating(s)]
    /\ UNCHANGED <<mode, pos, streams, muxPort, thread, creates, untried>>

Next ==
    \/ \E t \in Threads :
         \/ \E s \in Sessions, m \in Mids : Begin(t, s, m)
         \/ Take(t) \/ Open(t) \/ Second(t) \/ Add(t)
    \/ \E s \in Sessions :
         \/ \E m \in Mids : Remove(s, m)
         \/ StopStreams(s) \/ StopTransports(s)

Spec == Init /\ [][Next]_vars

-----------------------------------------------------------------------------
(* Properties                                                              *)

Jobs == {Idle} \union
    [pc : {"take", "open", "second", "add"}, session : Sessions, mid : Mids,
     i : 0..Count, port : {0} \union Ports]

\* The members of the sessions keep their types; pos_ stays within the range.
TypeOK ==
    /\ mode \in [Sessions -> Modes]
    /\ pos \in Ports
    /\ owner \in [Ports -> Sessions \union {Nobody, Foreign}]
    /\ transports \in [Sessions -> SUBSET Ports]
    /\ streams \in [Sessions -> [Mids -> [rtp : Ports, rtcp : Ports] \union {NoStream}]]
    /\ muxPort \in [Sessions -> {0} \union Ports]
    /\ stopping \in [Sessions -> BOOLEAN]
    /\ thread \in [Threads -> Jobs]
    /\ creates \in 0..MaxCreates
    /\ untried \in [Threads -> SUBSET Ports]
    /\ raced \in [Sessions -> BOOLEAN]

\* A session's open transports are the ports that it has bound: no port stays bound when
\* its transport is forgotten, and none is given to two sessions.
BoundIsListed ==
    \A s \in Sessions, p \in Ports : owner[p] = s <=> p \in transports[s]

\* RTP of a session without multiplexing is on an even port and RTCP on the next, within
\* the range, whatever the other sessions take from the range in between.
PairIsEven ==
    \A s \in Sessions, m \in Mids :
        (streams[s][m] # NoStream /\ mode[s] = "pair") =>
            /\ streams[s][m].rtp % 2 = 0
            /\ streams[s][m].rtcp = streams[s][m].rtp + 1
            /\ streams[s][m].rtcp \in Ports

\* The transports of a stream are open: removing a stream closes none that another one
\* shares.  (When stop() overtakes create_media_stream(), a stream is left without.)
StreamHasTransport ==
    \A s \in Sessions, m \in Mids :
        (streams[s][m] # NoStream /\ ~raced[s]) =>
            {streams[s][m].rtp, streams[s][m].rtcp} \subseteq transports[s]

\* Some thread has taken port p from the range and is about to open its transport.
Claimed(p) == \E u \in Threads : thread[u].pc = "open" /\ thread[u].port = p

\* create_transport_pair() gives up only when every pair was in use at some time since it
\* began, or is the one that another thread is just opening: the threads that take ports
\* in between leave out none.
GivesUpWhenFull ==
    \A t \in Threads :
        (/\ thread[t].pc = "take" /\ thread[t].i = Count
         /\ mode[thread[t].session] = "pair") => \A p \in untried[t] : Claimed(p)
===============================================================================
