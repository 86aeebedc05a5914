--------------------------- MODULE TransportsProofs ---------------------------
(***************************************************************************)
(* For any number of sessions, threads and streams, any range that         *)
(* RangeAssumption allows and any ports bound by other processes: the      *)
(* types and every invariant that is listed in Transports.                 *)
(***************************************************************************)
EXTENDS Transports, FiniteSetTheorems, TLAPS

\* pos_ stays in the range, and a step of one or two is exact while it lasts.
LEMMA AdvanceInRange ==
    ASSUME NEW p \in Ports, NEW n \in {1, 2}
    PROVE  Advance(p, n) \in Ports
<1>1. p + n \in Nat /\ p + n < PortValues
  BY RangeAssumption DEF Ports
<1>2. (p + n) % PortValues = p + n
  BY <1>1, RangeAssumption
<1> QED
  BY <1>1, <1>2, RangeAssumption DEF Ports, Advance

\* An odd port of the range is followed by an even one: the next, or the first.
LEMMA EvenFollowsOdd ==
    ASSUME NEW p \in Ports, p % 2 # 0
    PROVE  Advance(p, 1) % 2 = 0
<1>1. p + 1 \in Nat /\ p + 1 < PortValues
  BY RangeAssumption DEF Ports
<1>2. (p + 1) % PortValues = p + 1
  BY <1>1, RangeAssumption
<1>3. (p + 1) % 2 = 0
  BY RangeAssumption DEF Ports
<1> QED
  BY <1>2, <1>3, RangeAssumption DEF Advance

\* get_next_port() returns a port of the range and leaves pos_ in it.
LEMMA NextPort ==
    ASSUME NEW p \in Ports
    PROVE  GetNextPort(p).port \in Ports /\ GetNextPort(p).pos \in Ports
BY AdvanceInRange DEF GetNextPort

\* get_next_even_port() does too, and after looking at two ports it has an even one.
LEMMA NextEvenPort ==
    ASSUME NEW p \in Ports
    PROVE  /\ GetNextEvenPort(p).port \in Ports
           /\ GetNextEvenPort(p).port % 2 = 0
           /\ GetNextEvenPort(p).pos \in Ports
<1>1. CASE p % 2 = 0
  BY <1>1, AdvanceInRange DEF GetNextEvenPort
<1>2. CASE p % 2 # 0
  <2> DEFINE q == Advance(p, 1)
  <2>1. q \in Ports /\ q % 2 = 0
    BY <1>2, AdvanceInRange, EvenFollowsOdd
  <2>2. Advance(q, 2) \in Ports
    BY <2>1, AdvanceInRange
  <2>3. GetNextEvenPort(p) = [port |-> q, pos |-> Advance(q, 2)]
    BY <1>2, <2>1 DEF GetNextEvenPort
  <2> QED
    BY <2>1, <2>2, <2>3
<1> QED
  BY <1>1, <1>2

\* The port after an even port is in the range as well.
LEMMA PairInRange ==
    ASSUME NEW p \in Ports, p % 2 = 0
    PROVE  p + 1 \in Ports
BY RangeAssumption DEF Ports

\* try_remove_transport() removes nothing: a transport's own socket keeps it.
LEMMA NothingRemoved ==
    ASSUME TypeOK, NEW s \in Sessions, NEW ports, NEW others \in SUBSET Threads,
           TryRemove(s, ports, others)
    PROVE  transports' = transports /\ owner' = owner
<1>1. ASSUME NEW p PROVE UseCount(s, p, others) \in Nat /\ UseCount(s, p, others) >= 2
  <2> DEFINE users == {m \in Mids : p \in {streams[s][m].rtp, streams[s][m].rtcp}}
             holders == {t \in others : /\ thread[t].pc \in {"second", "add"}
                                        /\ thread[t].session = s /\ thread[t].port = p}
  <2>1. IsFiniteSet(users)
    BY FiniteAssumption, FS_Subset, users \subseteq Mids
  <2>2. IsFiniteSet(holders)
    BY FiniteAssumption, FS_Subset, holders \subseteq Threads
  <2>3. Cardinality(users) \in Nat /\ Cardinality(holders) \in Nat
    BY <2>1, <2>2, FS_CardinalityType
  <2>4. UseCount(s, p, others) = 2 + Cardinality(users) + Cardinality(holders)
    BY DEF UseCount
  <2> HIDE DEF users, holders
  <2> QED
    BY <2>3, <2>4
<1>2. {p \in ports \intersect transports[s] : UseCount(s, p, others) <= 1} = {}
  BY <1>1
<1>3. /\ transports' = [transports EXCEPT ![s] = @ \ {}]
      /\ owner' = [p \in Ports |-> owner[p]]
  BY <1>2 DEF TryRemove
<1> QED
  BY <1>3 DEF TypeOK

-----------------------------------------------------------------------------
(* The inductive invariant.  A thread between two steps holds transports   *)
(* that are in no stream yet; StreamHasTransport depends on their being    *)
(* listed when the stream is, and on stop() finding nobody at work.        *)

\* The port that a thread works on is one of the range, and the first of a pair is even;
\* only a pair has a second.
ThreadPorts ==
    \A t \in Threads : thread[t].pc \in {"open", "second", "add"} =>
        /\ thread[t].port \in Ports
        /\ mode[thread[t].session] = "pair" => thread[t].port % 2 = 0
        /\ thread[t].pc = "second" => mode[thread[t].session] = "pair"

\* The transports that a thread has opened stay until its stream is listed.
ThreadHolds ==
    \A t \in Threads : (thread[t].pc \in {"second", "add"} /\ ~raced[thread[t].session]) =>
        /\ thread[t].port \in transports[thread[t].session]
        /\ (thread[t].pc = "add" /\ mode[thread[t].session] = "pair") =>
             thread[t].port + 1 \in transports[thread[t].session]

\* stop() without a race has the session for itself.
StopAlone ==
    \A s \in Sessions : (stopping[s] /\ ~raced[s]) =>
        /\ ~Creating(s)
        /\ \A m \in Mids : streams[s][m] = NoStream

IInv ==
    /\ TypeOK /\ ThreadPorts /\ BoundIsListed /\ PairIsEven
    /\ ThreadHolds /\ StopAlone /\ StreamHasTransport

Jobs1 == [pc : {"take", "open", "second", "add"}, session : Sessions, mid : Mids,
          i : 0..Count, port : {0} \union Ports]

\* A thread that is not idle has a session, a mid, a count and a port.
LEMMA Working ==
    ASSUME TypeOK, NEW t \in Threads, thread[t].pc # "idle"
    PROVE  thread[t] \in Jobs1 /\ thread[t] # Idle
BY DEF TypeOK, Jobs, Jobs1, Idle

\* The loop has a number of turns, and the range a first port.
LEMMA CountNat == Count \in Nat /\ MinPort \in Ports /\ Ports \subseteq Nat
BY RangeAssumption DEF Count, Ports

\* Nothing is bound by a session initially.
LEMMA InitIInv == Init => IInv
<1> SUFFICES ASSUME Init PROVE IInv
  OBVIOUS
<1>1. TypeOK
  BY CountNat, CreatesAssumption DEF Init, TypeOK, Jobs, Ports
<1>2. ThreadPorts /\ ThreadHolds /\ StopAlone
  BY DEF Init, ThreadPorts, ThreadHolds, StopAlone, Idle
<1>3. BoundIsListed
  BY OwnerAssumption DEF Init, BoundIsListed
<1>4. PairIsEven /\ StreamHasTransport
  BY DEF Init, PairIsEven, StreamHasTransport
<1> QED
  BY <1>1, <1>2, <1>3, <1>4 DEF IInv

\* create_media_stream() begins.
LEMMA BeginIInv ==
    ASSUME IInv, NEW t \in Threads, NEW s \in Sessions, NEW mid \in Mids, Begin(t, s, mid)
    PROVE  IInv'
<1> USE DEF IInv
<1> DEFINE job == IF mode[s] = "mux" /\ muxPort[s] # 0
                  THEN Work("open", s, mid, Count, muxPort[s])
                  ELSE Work("take", s, mid, 0, 0)
<1>1. job \in Jobs1
  BY CountNat DEF TypeOK, Work, Jobs1
<1>2. /\ thread' = [thread EXCEPT ![t] = job]
      /\ raced' = [raced EXCEPT ![s] = @ \/ stopping[s]]
      /\ UNCHANGED <<mode, pos, owner, transports, streams, muxPort, stopping>>
  BY DEF Begin
<1>3. job.session = s /\ job.pc \in {"take", "open"} /\ job # Idle
      /\ (job.pc = "open" => job.port \in Ports /\ mode[s] # "pair")
  BY DEF TypeOK, Work, Idle
<1>4. TypeOK'
  <2>1. FreePairs(owner) \in SUBSET Ports
    BY DEF FreePairs
  <2>2. thread' \in [Threads -> Jobs]
    BY <1>1, <1>2 DEF TypeOK, Jobs, Jobs1
  <2>3. creates' \in 0..MaxCreates
    BY CreatesAssumption DEF TypeOK, Begin
  <2>4. untried' \in [Threads -> SUBSET Ports]
    BY <2>1 DEF TypeOK, Begin
  <2> QED
    BY <1>2, <2>2, <2>3, <2>4 DEF TypeOK
<1>5. ThreadPorts' /\ ThreadHolds'
  BY <1>2, <1>3 DEF TypeOK, ThreadPorts, ThreadHolds
<1>6. StopAlone'
  BY <1>2, <1>3 DEF TypeOK, StopAlone, Creating
<1>7. BoundIsListed' /\ PairIsEven' /\ StreamHasTransport'
  BY <1>2 DEF TypeOK, BoundIsListed, PairIsEven, StreamHasTransport
<1> QED
  BY <1>4, <1>5, <1>6, <1>7

\* It takes the next port, or gives up.
LEMMA TakeIInv ==
    ASSUME IInv, NEW t \in Threads, Take(t)
    PROVE  IInv'
<1> USE DEF IInv
<1> DEFINE r == IF mode[thread[t].session] = "pair" THEN GetNextEvenPort(pos) ELSE GetNextPort(pos)
           job == Work("open", thread[t].session, thread[t].mid, thread[t].i + 1, r.port)
<1>1. thread[t] \in Jobs1 /\ thread[t].pc = "take"
  BY Working DEF Take
<1>2. r.port \in Ports /\ r.pos \in Ports /\ (mode[thread[t].session] = "pair" => r.port % 2 = 0)
  BY NextPort, NextEvenPort DEF TypeOK
<1>3. UNCHANGED <<mode, owner, transports, streams, muxPort, stopping, creates, untried, raced>>
  BY DEF Take
<1>4. CASE thread[t].i < Count
  <2>1. pos' = r.pos /\ thread' = [thread EXCEPT ![t] = job]
    BY <1>4 DEF Take
  <2> HIDE DEF r
  <2>2. job \in Jobs1 /\ job.session = thread[t].session /\ job.pc = "open" /\ job.port = r.port
        /\ job # Idle
    BY <1>1, <1>2, <1>4, CountNat DEF Jobs1, Work, Idle
  <2>3. TypeOK'
    BY <1>2, <1>3, <2>1, <2>2 DEF TypeOK, Jobs, Jobs1
  <2>4. ThreadPorts' /\ ThreadHolds'
    BY <1>2, <1>3, <2>1, <2>2 DEF TypeOK, ThreadPorts, ThreadHolds
  <2>5. thread[t] # Idle
    BY <1>1 DEF Idle
  <2>6. StopAlone'
    BY <1>3, <2>1, <2>2, <2>5 DEF TypeOK, StopAlone, Creating
  <2> QED
    BY <1>3, <2>3, <2>4, <2>6 DEF BoundIsListed, PairIsEven, StreamHasTransport
<1>5. CASE ~(thread[t].i < Count)
  <2>1. pos' = pos /\ thread' = [thread EXCEPT ![t] = Idle]
    BY <1>5 DEF Take
  <2>2. TypeOK' /\ ThreadPorts' /\ ThreadHolds'
    BY <1>3, <2>1 DEF TypeOK, ThreadPorts, ThreadHolds, Jobs, Idle
  <2>3. StopAlone'
    BY <1>3, <2>1 DEF TypeOK, StopAlone, Creating
  <2> QED
    BY <1>3, <2>2, <2>3 DEF BoundIsListed, PairIsEven, StreamHasTransport
<1> QED
  BY <1>4, <1>5

\* create_transport() of a port that is the session's own or nobody's
LEMMA OpenedOK ==
    ASSUME IInv, NEW s \in Sessions, NEW p \in Ports, CanOpen(s, p), Opened(s, p)
    PROVE  /\ transports' \in [Sessions -> SUBSET Ports]
           /\ owner' \in [Ports -> Sessions \union {Nobody, Foreign}]
           /\ untried' \in [Threads -> SUBSET Ports]
           /\ \A x \in Sessions, q \in Ports : owner'[q] = x <=> q \in transports'[x]
           /\ \A x \in Sessions : transports[x] \subseteq transports'[x]
           /\ p \in transports'[s]
<1> USE DEF IInv
<1>1. owner[p] \in {Nobody, s}
  BY DEF CanOpen, BoundIsListed
<1>2. /\ transports' = [transports EXCEPT ![s] = @ \union {p}]
      /\ owner' = [owner EXCEPT ![p] = s]
      /\ untried' = [t \in Threads |-> untried[t] \intersect FreePairs(owner')]
  BY DEF Opened
<1>3. /\ transports' \in [Sessions -> SUBSET Ports]
      /\ owner' \in [Ports -> Sessions \union {Nobody, Foreign}]
      /\ untried' \in [Threads -> SUBSET Ports]
  BY <1>2 DEF TypeOK
<1>4. ASSUME NEW x \in Sessions, NEW q \in Ports
      PROVE  owner'[q] = x <=> q \in transports'[x]
  <2>1. owner[q] = x <=> q \in transports[x]
    BY DEF BoundIsListed
  <2>2. p \notin transports[x] \/ x = s
    BY <1>1, OwnerAssumption DEF BoundIsListed
  <2>3. CASE q = p
    BY <1>2, <2>2, <2>3 DEF TypeOK
  <2>4. CASE q # p
    BY <1>2, <2>1, <2>4 DEF TypeOK
  <2> QED
    BY <2>3, <2>4
<1>5. (\A x \in Sessions : transports[x] \subseteq transports'[x]) /\ p \in transports'[s]
  BY <1>2 DEF TypeOK
<1> QED
  BY <1>3, <1>4, <1>5

\* It opens the transport of that port.
LEMMA OpenIInv ==
    ASSUME IInv, NEW t \in Threads, Open(t)
    PROVE  IInv'
<1> USE DEF IInv
<1> DEFINE s == thread[t].session
           p == thread[t].port
<1>1. thread[t] \in Jobs1 /\ thread[t].pc = "open" /\ thread[t] # Idle
  BY Working DEF Open
<1>2. s \in Sessions /\ p \in Ports /\ (mode[s] = "pair" => p % 2 = 0)
  BY <1>1 DEF Jobs1, ThreadPorts
<1>3. UNCHANGED <<mode, pos, streams, stopping, creates, raced>>
  BY DEF Open
<1>4. CASE CanOpen(s, p)
  <2> DEFINE job == Work(IF mode[s] = "pair" THEN "second" ELSE "add", s, thread[t].mid, thread[t].i, p)
  <2>1. /\ Opened(s, p)
        /\ muxPort' = [muxPort EXCEPT ![s] = IF mode[s] = "mux" THEN p ELSE @]
        /\ thread' = [thread EXCEPT ![t] = job]
    BY <1>4 DEF Open, GoOn
  <2>2. /\ job \in Jobs1 /\ job # Idle /\ job.session = s /\ job.port = p
        /\ \/ job.pc = "second" /\ mode[s] = "pair"
           \/ job.pc = "add" /\ mode[s] # "pair"
    BY <1>1, <1>2 DEF Jobs1, Work, Idle
  <2> HIDE DEF job
  <2>3. /\ transports' \in [Sessions -> SUBSET Ports]
        /\ owner' \in [Ports -> Sessions \union {Nobody, Foreign}]
        /\ untried' \in [Threads -> SUBSET Ports]
        /\ BoundIsListed'
        /\ \A x \in Sessions : transports[x] \subseteq transports'[x]
        /\ p \in transports'[s]
    BY <1>2, <1>4, <2>1, OpenedOK DEF BoundIsListed
  <2>4. TypeOK'
    <3>1. thread' \in [Threads -> Jobs]
      BY <2>1, <2>2 DEF TypeOK, Jobs, Jobs1
    <3>2. muxPort' \in [Sessions -> {0} \union Ports]
      BY <1>2, <2>1 DEF TypeOK
    <3> QED
      BY <1>3, <2>3, <3>1, <3>2 DEF TypeOK
  <2>5. ThreadPorts'
    BY <1>2, <1>3, <2>1, <2>2 DEF TypeOK, ThreadPorts
  <2>6. ThreadHolds'
    <3> SUFFICES ASSUME NEW u \in Threads, thread'[u].pc \in {"second", "add"},
                        ~raced[thread'[u].session]
                 PROVE  /\ thread'[u].port \in transports'[thread'[u].session]
                        /\ (thread'[u].pc = "add" /\ mode[thread'[u].session] = "pair") =>
                             thread'[u].port + 1 \in transports'[thread'[u].session]
      BY <1>3 DEF ThreadHolds
    <3>1. CASE u = t
      BY <2>1, <2>2, <2>3, <3>1 DEF TypeOK
    <3>2. CASE u # t
      <4>1. thread'[u] = thread[u] /\ thread[u].session \in Sessions
        BY <2>1, <3>2, Working DEF TypeOK, Jobs1
      <4> QED
        BY <2>3, <4>1 DEF ThreadHolds
    <3> QED
      BY <3>1, <3>2
  <2>7. StopAlone'
    BY <1>1, <1>3, <2>1, <2>2 DEF TypeOK, StopAlone, Creating
  <2>8. StreamHasTransport'
    BY <1>3, <2>3 DEF StreamHasTransport
  <2> QED
    BY <1>3, <2>3, <2>4, <2>5, <2>6, <2>7, <2>8 DEF PairIsEven
<1>5. CASE ~CanOpen(s, p)
  <2> DEFINE job == Work("take", s, thread[t].mid, thread[t].i, p)
  <2>1. /\ UNCHANGED <<transports, owner, untried, muxPort>>
        /\ thread' = [thread EXCEPT ![t] = job]
    BY <1>5 DEF Open, GoOn
  <2>2. job \in Jobs1 /\ job # Idle /\ job.session = s /\ job.pc = "take"
    BY <1>1, <1>2 DEF Jobs1, Work, Idle
  <2> HIDE DEF job
  <2>3. TypeOK'
    BY <1>3, <2>1, <2>2 DEF TypeOK, Jobs, Jobs1
  <2>4. ThreadPorts' /\ ThreadHolds'
    BY <1>3, <2>1, <2>2 DEF TypeOK, ThreadPorts, ThreadHolds
  <2>5. StopAlone'
    BY <1>1, <1>3, <2>1, <2>2 DEF TypeOK, StopAlone, Creating
  <2> QED
    BY <1>3, <2>1, <2>3, <2>4, <2>5 DEF BoundIsListed, PairIsEven, StreamHasTransport
<1> QED
  BY <1>4, <1>5

\* It opens the second transport of a pair.
LEMMA SecondIInv ==
    ASSUME IInv, NEW t \in Threads, Second(t)
    PROVE  IInv'
<1> USE DEF IInv
<1> DEFINE s == thread[t].session
           p == thread[t].port
<1>1. thread[t] \in Jobs1 /\ thread[t].pc = "second" /\ thread[t] # Idle
  BY Working DEF Second
<1>2. s \in Sessions /\ p \in Ports /\ mode[s] = "pair" /\ p % 2 = 0
  BY <1>1 DEF Jobs1, ThreadPorts
<1>3. UNCHANGED <<mode, pos, streams, muxPort, stopping, creates, raced>>
  BY DEF Second
<1>4. CASE CanOpen(s, p + 1)
  <2> DEFINE job == Work("add", s, thread[t].mid, thread[t].i, p)
  <2>1. Opened(s, p + 1) /\ thread' = [thread EXCEPT ![t] = job]
    BY <1>4 DEF Second, GoOn
  <2>2. job \in Jobs1 /\ job # Idle /\ job.session = s /\ job.port = p /\ job.pc = "add"
    BY <1>1, <1>2 DEF Jobs1, Work, Idle
  <2> HIDE DEF job
  <2>3. /\ transports' \in [Sessions -> SUBSET Ports]
        /\ owner' \in [Ports -> Sessions \union {Nobody, Foreign}]
        /\ untried' \in [Threads -> SUBSET Ports]
        /\ BoundIsListed'
        /\ \A x \in Sessions : transports[x] \subseteq transports'[x]
        /\ p + 1 \in transports'[s]
    BY <1>2, <1>4, <2>1, OpenedOK, PairInRange DEF BoundIsListed
  <2>4. TypeOK'
    BY <1>3, <2>1, <2>2, <2>3 DEF TypeOK, Jobs, Jobs1
  <2>5. ThreadPorts'
    BY <1>2, <1>3, <2>1, <2>2 DEF TypeOK, ThreadPorts
  <2>6. ThreadHolds'
    <3> SUFFICES ASSUME NEW u \in Threads, thread'[u].pc \in {"second", "add"},
                        ~raced[thread'[u].session]
                 PROVE  /\ thread'[u].port \in transports'[thread'[u].session]
                        /\ (thread'[u].pc = "add" /\ mode[thread'[u].session] = "pair") =>
                             thread'[u].port + 1 \in transports'[thread'[u].session]
      BY <1>3 DEF ThreadHolds
    <3>1. CASE u = t
      <4>1. thread'[u] = job
        BY <2>1, <3>1 DEF TypeOK
      <4>2. p \in transports[s]
        BY <1>1, <2>2, <4>1 DEF ThreadHolds
      <4> QED
        BY <1>2, <2>2, <2>3, <4>1, <4>2
    <3>2. CASE u # t
      <4>1. thread'[u] = thread[u] /\ thread[u].session \in Sessions
        BY <2>1, <3>2, Working DEF TypeOK, Jobs1
      <4> QED
        BY <2>3, <4>1 DEF ThreadHolds
    <3> QED
      BY <3>1, <3>2
  <2>7. StopAlone'
    BY <1>1, <1>3, <2>1, <2>2 DEF TypeOK, StopAlone, Creating
  <2>8. StreamHasTransport'
    BY <1>3, <2>3 DEF StreamHasTransport
  <2> QED
    BY <1>3, <2>3, <2>4, <2>5, <2>6, <2>7, <2>8 DEF PairIsEven
<1>5. CASE ~CanOpen(s, p + 1)
  <2> DEFINE job == Work("take", s, thread[t].mid, thread[t].i, p)
  <2>1. /\ transports' = transports /\ owner' = owner /\ untried' = untried
        /\ thread' = [thread EXCEPT ![t] = job]
    BY <1>2, <1>5, NothingRemoved DEF Second, GoOn
  <2>2. job \in Jobs1 /\ job # Idle /\ job.session = s /\ job.pc = "take"
    BY <1>1, <1>2 DEF Jobs1, Work, Idle
  <2> HIDE DEF job
  <2>3. TypeOK'
    BY <1>3, <2>1, <2>2 DEF TypeOK, Jobs, Jobs1
  <2>4. ThreadPorts' /\ ThreadHolds'
    BY <1>3, <2>1, <2>2 DEF TypeOK, ThreadPorts, ThreadHolds
  <2>5. StopAlone'
    BY <1>1, <1>3, <2>1, <2>2 DEF TypeOK, StopAlone, Creating
  <2> QED
    BY <1>3, <2>1, <2>3, <2>4, <2>5 DEF BoundIsListed, PairIsEven, StreamHasTransport
<1> QED
  BY <1>4, <1>5

\* It lists the stream, whose transports it has opened.
LEMMA AddIInv ==
    ASSUME IInv, NEW t \in Threads, Add(t)
    PROVE  IInv'
<1> USE DEF IInv
<1> DEFINE s == thread[t].session
           m == thread[t].mid
           p == thread[t].port
           new == IF streams[s][m] # NoStream THEN streams[s][m]
                  ELSE [rtp |-> p, rtcp |-> IF mode[s] = "pair" THEN p + 1 ELSE p]
<1>1. thread[t] \in Jobs1 /\ thread[t].pc = "add" /\ thread[t] # Idle
  BY Working DEF Add
<1>2. s \in Sessions /\ m \in Mids /\ p \in Ports /\ (mode[s] = "pair" => p % 2 = 0)
  BY <1>1 DEF Jobs1, ThreadPorts
<1>3. /\ streams' = [streams EXCEPT ![s][m] = new]
      /\ thread' = [thread EXCEPT ![t] = Idle]
      /\ UNCHANGED <<mode, pos, owner, transports, muxPort, stopping, creates, untried, raced>>
  BY DEF Add
<1>4. mode[s] = "pair" => p + 1 \in Ports
  BY <1>2, PairInRange
<1>5. new \in [rtp : Ports, rtcp : Ports]
  BY <1>2, <1>4 DEF TypeOK
<1>6. mode[s] = "pair" => new.rtp % 2 = 0 /\ new.rtcp = new.rtp + 1
  BY <1>2 DEF PairIsEven
<1>7. ~raced[s] => {new.rtp, new.rtcp} \subseteq transports[s]
  BY <1>1, <1>2 DEF StreamHasTransport, ThreadHolds
<1>8. \A x \in Sessions, y \in Mids :
        streams'[x][y] = IF x = s /\ y = m THEN new ELSE streams[x][y]
  BY <1>2, <1>3 DEF TypeOK
<1>9. stopping[s] => raced[s]
  BY <1>1, <1>2 DEF StopAlone, Creating
<1>10. TypeOK'
  <2>1. streams' \in [Sessions -> [Mids -> [rtp : Ports, rtcp : Ports] \union {NoStream}]]
    <3> HIDE DEF new
    <3> QED BY <1>2, <1>3, <1>5 DEF TypeOK
  <2> QED
    BY <1>3, <2>1 DEF TypeOK, Jobs
<1> HIDE DEF new
<1>11. ThreadPorts' /\ ThreadHolds'
  BY <1>3 DEF TypeOK, ThreadPorts, ThreadHolds, Idle
<1>12. StopAlone'
  <2> SUFFICES ASSUME NEW x \in Sessions, stopping[x], ~raced[x]
               PROVE  ~Creating(x)' /\ \A y \in Mids : streams'[x][y] = NoStream
    BY <1>3 DEF StopAlone
  <2>1. x # s /\ ~Creating(x) /\ \A y \in Mids : streams[x][y] = NoStream
    BY <1>9 DEF StopAlone
  <2>2. ~Creating(x)'
    BY <1>3, <2>1 DEF TypeOK, Creating
  <2> QED
    BY <1>8, <2>1, <2>2
<1>13. PairIsEven'
  BY <1>3, <1>5, <1>6, <1>8 DEF PairIsEven
<1>14. StreamHasTransport'
  BY <1>3, <1>7, <1>8 DEF StreamHasTransport
<1> QED
  BY <1>3, <1>10, <1>11, <1>12, <1>13, <1>14 DEF BoundIsListed

\* remove_media_stream_by_mid() leaves all transports open.
LEMMA RemoveIInv ==
    ASSUME IInv, NEW s \in Sessions, NEW m \in Mids, Remove(s, m)
    PROVE  IInv'
<1> USE DEF IInv
<1>1. transports' = transports /\ owner' = owner
  BY NothingRemoved DEF Remove
<1>2. /\ streams' = [streams EXCEPT ![s][m] = NoStream]
      /\ UNCHANGED <<mode, pos, muxPort, stopping, thread, creates, untried, raced>>
  BY DEF Remove
<1>3. \A x \in Sessions, y \in Mids :
        streams'[x][y] = IF x = s /\ y = m THEN NoStream ELSE streams[x][y]
  BY <1>2 DEF TypeOK
<1>4. TypeOK'
  BY <1>1, <1>2 DEF TypeOK
<1>5. ThreadPorts' /\ ThreadHolds' /\ BoundIsListed'
  BY <1>1, <1>2 DEF ThreadPorts, ThreadHolds, BoundIsListed
<1>6. StopAlone' /\ PairIsEven' /\ StreamHasTransport'
  BY <1>1, <1>2, <1>3 DEF StopAlone, Creating, PairIsEven, StreamHasTransport
<1> QED
  BY <1>4, <1>5, <1>6

\* stop() clears the streams,
LEMMA StopStreamsIInv ==
    ASSUME IInv, NEW s \in Sessions, StopStreams(s)
    PROVE  IInv'
<1> USE DEF IInv
<1>1. /\ stopping' = [stopping EXCEPT ![s] = TRUE]
      /\ streams' = [streams EXCEPT ![s] = [m \in Mids |-> NoStream]]
      /\ raced' = [raced EXCEPT ![s] = @ \/ Creating(s)]
      /\ UNCHANGED <<mode, pos, owner, transports, muxPort, thread, creates, untried>>
  BY DEF StopStreams
<1>2. \A x \in Sessions : (raced[x] => raced'[x]) /\ (~raced'[s] => ~Creating(s))
  BY <1>1 DEF TypeOK
<1>3. \A x \in Sessions, y \in Mids :
        streams'[x][y] = IF x = s THEN NoStream ELSE streams[x][y]
  BY <1>1 DEF TypeOK
<1>4. TypeOK'
  BY <1>1 DEF TypeOK, Creating
<1>5. ThreadPorts' /\ BoundIsListed'
  BY <1>1 DEF ThreadPorts, BoundIsListed
<1>6. ThreadHolds'
  <2>1. \A t \in Threads : thread[t].pc \in {"second", "add"} => thread[t].session \in Sessions
    BY Working DEF Jobs1
  <2> QED
    BY <1>1, <1>2, <2>1 DEF ThreadHolds
<1>7. StopAlone'
  BY <1>1, <1>2, <1>3 DEF TypeOK, StopAlone, Creating
<1>8. PairIsEven' /\ StreamHasTransport'
  BY <1>1, <1>2, <1>3 DEF PairIsEven, StreamHasTransport
<1> QED
  BY <1>4, <1>5, <1>6, <1>7, <1>8

\* and then closes the transports.
LEMMA StopTransportsIInv ==
    ASSUME IInv, NEW s \in Sessions, StopTransports(s)
    PROVE  IInv'
<1> USE DEF IInv
<1>1. /\ stopping' = [stopping EXCEPT ![s] = FALSE]
      /\ transports' = [transports EXCEPT ![s] = {}]
      /\ owner' = [p \in Ports |-> IF p \in transports[s] THEN Nobody ELSE owner[p]]
      /\ raced' = [raced EXCEPT ![s] = @ \/ Creating(s)]
      /\ UNCHANGED <<mode, pos, streams, muxPort, thread, creates, untried>>
  BY DEF StopTransports
<1>2. \A x \in Sessions : (raced[x] => raced'[x]) /\ (~raced'[s] => ~Creating(s))
  BY <1>1 DEF TypeOK
<1>3. \A x \in Sessions : transports'[x] = IF x = s THEN {} ELSE transports[x]
  BY <1>1 DEF TypeOK
<1>4. TypeOK'
  BY <1>1 DEF TypeOK, Creating
<1>5. ThreadPorts'
  BY <1>1 DEF ThreadPorts
<1>6. BoundIsListed'
  BY <1>1, <1>3, OwnerAssumption DEF TypeOK, BoundIsListed
<1>7. ThreadHolds'
  <2>1. \A t \in Threads : thread[t].pc \in {"second", "add"} =>
          thread[t].session \in Sessions /\ thread[t] # Idle
    BY Working DEF Jobs1
  <2>2. \A t \in Threads : (thread[t].pc \in {"second", "add"} /\ ~raced'[thread[t].session]) =>
          ~raced[thread[t].session] /\ thread[t].session # s
    BY <1>2, <2>1 DEF Creating
  <2> QED
    BY <1>1, <1>3, <2>1, <2>2 DEF ThreadHolds
<1>8. StopAlone'
  BY <1>1, <1>2 DEF TypeOK, StopAlone, Creating
<1>9. PairIsEven' /\ StreamHasTransport'
  <2>1. ~raced'[s] => \A m \in Mids : streams[s][m] = NoStream
    BY <1>2 DEF StopTransports, StopAlone
  <2> QED
    BY <1>1, <1>2, <1>3, <2>1 DEF PairIsEven, StreamHasTransport
<1> QED
  BY <1>4, <1>5, <1>6, <1>7, <1>8, <1>9

\* Every step preserves the invariant,
LEMMA NextIInv == IInv /\ [Next]_vars => IInv'
<1> SUFFICES ASSUME IInv, [Next]_vars PROVE IInv'
  OBVIOUS
<1>1. ASSUME NEW t \in Threads, NEW s \in Sessions, NEW m \in Mids, Begin(t, s, m) PROVE IInv'
  BY <1>1, BeginIInv
<1>2. ASSUME NEW t \in Threads, Take(t) PROVE IInv'
  BY <1>2, TakeIInv
<1>3. ASSUME NEW t \in Threads, Open(t) PROVE IInv'
  BY <1>3, OpenIInv
<1>4. ASSUME NEW t \in Threads, Second(t) PROVE IInv'
  BY <1>4, SecondIInv
<1>5. ASSUME NEW t \in Threads, Add(t) PROVE IInv'
  BY <1>5, AddIInv
<1>6. ASSUME NEW s \in Sessions, NEW m \in Mids, Remove(s, m) PROVE IInv'
  BY <1>6, RemoveIInv
<1>7. ASSUME NEW s \in Sessions, StopStreams(s) PROVE IInv'
  BY <1>7, StopStreamsIInv
<1>8. ASSUME NEW s \in Sessions, StopTransports(s) PROVE IInv'
  BY <1>8, StopTransportsIInv
<1>9. CASE UNCHANGED vars
  BY <1>9 DEF vars, IInv, TypeOK, ThreadPorts, BoundIsListed, PairIsEven, ThreadHolds,
              StopAlone, Creating, StreamHasTransport
<1> QED
  BY <1>1, <1>2, <1>3, <1>4, <1>5, <1>6, <1>7, <1>8, <1>9 DEF Next

\* so it always holds.
LEMMA AlwaysIInv == Spec => []IInv
BY InitIInv, NextIInv, PTL DEF Spec

\* The members of the sessions and of the port range keep their types; pos_ never
\* leaves the range.
THEOREM TypeCorrect == Spec => []TypeOK
<1>1. IInv => TypeOK
  BY DEF IInv
<1> QED
  BY <1>1, AlwaysIInv, PTL

\* A port is bound by a session exactly while the session lists its transport.
THEOREM BoundAlwaysListed == Spec => []BoundIsListed
<1>1. IInv => BoundIsListed
  BY DEF IInv
<1> QED
  BY <1>1, AlwaysIInv, PTL

\* get_next_even_port() gives every session without multiplexing an even port and the
\* one after it, from any range that the assumption allows.
THEOREM PairsAlwaysEven == Spec => []PairIsEven
<1>1. IInv => PairIsEven
  BY DEF IInv
<1> QED
  BY <1>1, AlwaysIInv, PTL

\* Removing streams and stopping sessions leaves every listed stream its transports,
\* unless stop() runs while a stream is being created.
THEOREM StreamsAlwaysHaveTransports == Spec => []StreamHasTransport
<1>1. IInv => StreamHasTransport
  BY DEF IInv
<1> QED
  BY <1>1, AlwaysIInv, PTL

-----------------------------------------------------------------------------
(* GivesUpWhenFull.  A pair that a thread has not tried, and that nobody   *)
(* is opening, is one that pos_ has not passed since the thread began: so  *)
(* the pairs that the thread has taken and those between pos_ and that one *)
(* are different, and together fewer than there are.                       *)

\* Ports of the pairs from pos_ to the even port p, going round
Ahead(q, p) ==
    LET up == q + (q % 2)
    IN  IF p >= q THEN p - up ELSE (p - up) + (MaxPort + 1 - MinPort)

\* The pairs that a thread has not tried are free.
UntriedFree == \A t \in Threads : untried[t] \subseteq FreePairs(owner)

\* Thread t is looking for a pair.
Looking(t) == thread[t].pc \in {"take", "open", "second"} /\ mode[thread[t].session] = "pair"

\* The pairs taken by t and those before p are fewer than all.
Before(t, p) == (2 * thread[t].i) + Ahead(pos, p) <= MaxPort - MinPort - 1

NotPassed ==
    \A t \in Threads : Looking(t) =>
        \A p \in untried[t] : Claimed(p) \/ Before(t, p)

FullInv == IInv /\ UntriedFree /\ NotPassed

\* pos_ after one or two ports
LEMMA AdvanceIs ==
    ASSUME NEW q \in Ports, NEW n \in {1, 2}
    PROVE  Advance(q, n) = IF q + n > MaxPort THEN MinPort ELSE q + n
<1>1. q + n \in Nat /\ q + n < PortValues
  BY RangeAssumption DEF Ports
<1>2. (q + n) % PortValues = q + n
  BY <1>1, RangeAssumption
<1> QED
  BY <1>2 DEF Advance

\* No even port is further away than all pairs but one.
LEMMA AheadBound ==
    ASSUME NEW q \in Ports, NEW p \in Ports, p % 2 = 0
    PROVE  Ahead(q, p) \in Int /\ 0 <= Ahead(q, p) /\ Ahead(q, p) <= MaxPort - MinPort - 1
<1>1. /\ MinPort \in Int /\ MaxPort \in Int /\ q \in Int /\ p \in Int
      /\ MinPort <= q /\ q <= MaxPort /\ MinPort <= p /\ p <= MaxPort
      /\ MinPort % 2 = 0 /\ MaxPort % 2 = 1
  BY RangeAssumption DEF Ports
<1>2. CASE q % 2 = 0
  BY <1>1, <1>2 DEF Ahead
<1>3. CASE q % 2 = 1
  BY <1>1, <1>3 DEF Ahead
<1>4. q % 2 \in {0, 1}
  BY <1>1
<1> QED
  BY <1>2, <1>3, <1>4

\* get_next_even_port() takes the pair p itself or comes one pair nearer.
LEMMA EvenNearer ==
    ASSUME NEW q \in Ports, NEW p \in Ports, p % 2 = 0
    PROVE  \/ GetNextEvenPort(q).port = p
           \/ Ahead(GetNextEvenPort(q).pos, p) = Ahead(q, p) - 2
<1>1. /\ MinPort \in Int /\ MaxPort \in Int /\ q \in Int /\ p \in Int
      /\ MinPort <= q /\ q <= MaxPort /\ MinPort <= p /\ p <= MaxPort
      /\ MinPort % 2 = 0 /\ MaxPort % 2 = 1
  BY RangeAssumption DEF Ports
<1>2. ASSUME NEW e \in Ports, e % 2 = 0, e # p
      PROVE  Ahead(Advance(e, 2), p) = Ahead(e, p) - 2
  <2>1. Advance(e, 2) = IF e + 2 > MaxPort THEN MinPort ELSE e + 2
    BY AdvanceIs
  <2>2. e \in Int /\ MinPort <= e /\ e <= MaxPort
    BY <1>1 DEF Ports
  <2>3. CASE e + 2 > MaxPort
    <3>1. Advance(e, 2) = MinPort /\ e = MaxPort - 1
      BY <1>1, <1>2, <2>1, <2>2, <2>3
    <3>2. Ahead(MinPort, p) = p - MinPort
      BY <1>1 DEF Ahead
    <3>3. p < e
      BY <1>1, <1>2, <2>2, <3>1
    <3>4. Ahead(e, p) = (p - e) + (MaxPort + 1 - MinPort)
      BY <1>1, <1>2, <2>2, <3>3 DEF Ahead
    <3> QED
      BY <1>1, <2>2, <3>1, <3>2, <3>4
  <2>4. CASE ~(e + 2 > MaxPort)
    <3>1. Advance(e, 2) = e + 2 /\ (e + 2) % 2 = 0
      BY <1>2, <2>1, <2>2, <2>4
    <3>2. p >= e + 2 <=> p >= e
      BY <1>1, <1>2, <2>2
    <3>3. Ahead(e + 2, p) = IF p >= e + 2 THEN p - (e + 2) ELSE (p - (e + 2)) + (MaxPort + 1 - MinPort)
      BY <2>2, <3>1 DEF Ahead
    <3>4. Ahead(e, p) = IF p >= e THEN p - e ELSE (p - e) + (MaxPort + 1 - MinPort)
      BY <1>2, <2>2 DEF Ahead
    <3> QED
      BY <1>1, <2>2, <3>1, <3>2, <3>3, <3>4
  <2> QED
    BY <2>3, <2>4
<1>3. CASE q % 2 = 0
  <2>1. GetNextEvenPort(q) = [port |-> q, pos |-> Advance(q, 2)]
    BY <1>3 DEF GetNextEvenPort
  <2> QED
    BY <1>2, <1>3, <2>1
<1>4. CASE q % 2 # 0
  <2> DEFINE e == Advance(q, 1)
  <2>1. e \in Ports /\ e % 2 = 0
    BY <1>4, AdvanceInRange, EvenFollowsOdd
  <2>2. GetNextEvenPort(q) = [port |-> e, pos |-> Advance(e, 2)]
    BY <1>4, <2>1 DEF GetNextEvenPort
  <2>3. Ahead(e, p) = Ahead(q, p)
    <3>1. e = IF q + 1 > MaxPort THEN MinPort ELSE q + 1
      BY AdvanceIs
    <3>2. Ahead(q, p) = IF p >= q THEN p - (q + 1) ELSE (p - (q + 1)) + (MaxPort + 1 - MinPort)
      <4>1. q % 2 = 1
        BY <1>1, <1>4
      <4> QED
        BY <1>1, <4>1 DEF Ahead
    <3>3. Ahead(e, p) = IF p >= e THEN p - e ELSE (p - e) + (MaxPort + 1 - MinPort)
      BY <1>1, <2>1 DEF Ahead, Ports
    <3> QED
      BY <1>1, <1>4, <3>1, <3>2, <3>3
  <2> QED
    BY <1>2, <2>1, <2>2, <2>3
<1> QED
  BY <1>3, <1>4

\* get_next_port() takes the first port of the pair p or comes no further away from it.
LEMMA OddNearer ==
    ASSUME NEW q \in Ports, NEW p \in Ports, p % 2 = 0
    PROVE  \/ GetNextPort(q).port = p
           \/ Ahead(GetNextPort(q).pos, p) <= Ahead(q, p)
<1>1. /\ MinPort \in Int /\ MaxPort \in Int /\ q \in Int /\ p \in Int
      /\ MinPort <= q /\ q <= MaxPort /\ MinPort <= p /\ p <= MaxPort
      /\ MinPort % 2 = 0 /\ MaxPort % 2 = 1
  BY RangeAssumption DEF Ports
<1>2. GetNextPort(q) = [port |-> q, pos |-> Advance(q, 1)]
  BY DEF GetNextPort
<1>3. Advance(q, 1) = IF q + 1 > MaxPort THEN MinPort ELSE q + 1
  BY AdvanceIs
<1>4. SUFFICES ASSUME q # p PROVE Ahead(Advance(q, 1), p) <= Ahead(q, p)
  BY <1>2
<1>5. CASE q % 2 = 0
  <2>1. Advance(q, 1) = q + 1 /\ (q + 1) % 2 = 1
    BY <1>1, <1>3, <1>5
  <2>2. Ahead(q + 1, p) = IF p >= q + 1 THEN p - (q + 2) ELSE (p - (q + 2)) + (MaxPort + 1 - MinPort)
    BY <1>1, <2>1 DEF Ahead
  <2>3. Ahead(q, p) = IF p >= q THEN p - q ELSE (p - q) + (MaxPort + 1 - MinPort)
    BY <1>1, <1>5 DEF Ahead
  <2> QED
    BY <1>1, <1>4, <2>1, <2>2, <2>3
<1>6. CASE q % 2 # 0
  <2>1. q % 2 = 1 /\ Advance(q, 1) % 2 = 0
    BY <1>1, <1>6, EvenFollowsOdd
  <2>2. Ahead(q, p) = IF p >= q THEN p - (q + 1) ELSE (p - (q + 1)) + (MaxPort + 1 - MinPort)
    BY <1>1, <2>1 DEF Ahead
  <2> DEFINE e == Advance(q, 1)
  <2>3. Ahead(e, p) = IF p >= e THEN p - e ELSE (p - e) + (MaxPort + 1 - MinPort)
    BY <1>1, <1>3, <2>1 DEF Ahead
  <2> QED
    BY <1>1, <1>3, <1>6, <2>1, <2>2, <2>3
<1> QED
  BY <1>5, <1>6

\* A pair that has not been tried is an even port of the range.
LEMMA UntriedEven ==
    ASSUME UntriedFree, NEW t \in Threads, NEW p \in untried[t]
    PROVE  p \in Ports /\ p % 2 = 0 /\ owner[p] = Nobody
BY DEF UntriedFree, FreePairs

\* A step of thread t that takes no port keeps NotPassed, when the port that t has opened
\* or failed to open is no longer one of those that are free all the time.
LEMMA StepNotPassed ==
    ASSUME TypeOK, NotPassed, NEW t \in Threads, NEW job,
           mode' = mode, pos' = pos, thread' = [thread EXCEPT ![t] = job],
           \A u \in Threads : untried'[u] \subseteq untried[u],
           job.pc \in {"take", "open", "second"} =>
               /\ thread[t].pc \in {"take", "open", "second"}
               /\ job.session = thread[t].session /\ job.i = thread[t].i,
           thread[t].pc = "open" => \A u \in Threads : thread[t].port \notin untried'[u]
    PROVE  NotPassed'
<1> SUFFICES ASSUME NEW u \in Threads, Looking(u)', NEW p \in untried'[u]
             PROVE  Claimed(p)' \/ Before(u, p)'
  BY DEF NotPassed
<1>1. p \in untried[u]
  OBVIOUS
<1>2. \A v \in Threads : thread'[v] = IF v = t THEN job ELSE thread[v]
  BY DEF TypeOK
<1>3. Looking(u) /\ thread'[u].i = thread[u].i
  BY <1>2 DEF Looking
<1>4. CASE Claimed(p)
  <2>1. PICK v \in Threads : thread[v].pc = "open" /\ thread[v].port = p
    BY <1>4 DEF Claimed
  <2>2. v # t
    BY <2>1
  <2>3. thread'[v] = thread[v]
    BY <1>2, <2>2
  <2> QED
    BY <2>1, <2>3 DEF Claimed
<1>5. CASE Before(u, p)
  BY <1>3, <1>5 DEF Before
<1> QED
  BY <1>1, <1>3, <1>4, <1>5 DEF NotPassed

\* No pair is before pos_ when the loop begins.
LEMMA BeginFull ==
    ASSUME FullInv, NEW t \in Threads, NEW s \in Sessions, NEW mid \in Mids, Begin(t, s, mid)
    PROVE  UntriedFree' /\ NotPassed'
<1> USE DEF FullInv, IInv
<1> DEFINE job == IF mode[s] = "mux" /\ muxPort[s] # 0
                  THEN Work("open", s, mid, Count, muxPort[s])
                  ELSE Work("take", s, mid, 0, 0)
<1>1. /\ thread' = [thread EXCEPT ![t] = job] /\ thread[t] = Idle
      /\ untried' = [untried EXCEPT ![t] = FreePairs(owner)]
      /\ UNCHANGED <<mode, pos, owner>>
  BY DEF Begin
<1>2. \A v \in Threads : /\ thread'[v] = IF v = t THEN job ELSE thread[v]
                         /\ untried'[v] = IF v = t THEN FreePairs(owner) ELSE untried[v]
  BY <1>1 DEF TypeOK
<1>3. mode[s] = "pair" => job.i = 0
  BY DEF Work
<1>4. job.session = s
  BY DEF Work
<1> HIDE DEF job
<1>5. UntriedFree'
  BY <1>1, <1>2 DEF UntriedFree
<1>6. NotPassed'
  <2> SUFFICES ASSUME NEW u \in Threads, Looking(u)', NEW p \in untried'[u]
               PROVE  Claimed(p)' \/ Before(u, p)'
    BY DEF NotPassed
  <2>1. CASE u = t
    <3>1. mode[s] = "pair" /\ thread'[u].i = 0
      BY <1>1, <1>2, <1>3, <1>4, <2>1 DEF Looking
    <3>2. Ahead(pos, p) \in Int /\ Ahead(pos, p) <= MaxPort - MinPort - 1
      BY <1>2, <2>1, AheadBound DEF TypeOK, FreePairs
    <3> QED
      BY <1>1, <3>1, <3>2 DEF Before
  <2>2. CASE u # t
    <3>1. thread'[u] = thread[u] /\ p \in untried[u] /\ Looking(u)
      BY <1>1, <1>2, <2>2 DEF Looking
    <3>2. CASE Claimed(p)
      <4>1. PICK v \in Threads : thread[v].pc = "open" /\ thread[v].port = p
        BY <3>2 DEF Claimed
      <4>2. v # t
        BY <1>1, <4>1 DEF Idle
      <4> QED
        BY <1>2, <4>1, <4>2 DEF Claimed
    <3>3. CASE Before(u, p)
      BY <1>1, <3>1, <3>3 DEF Before
    <3> QED
      BY <3>1, <3>2, <3>3 DEF NotPassed
  <2> QED
    BY <2>1, <2>2
<1> QED
  BY <1>5, <1>6

\* A turn of the loop uses up a pair, and pos_ goes past no other.
LEMMA TakeFull ==
    ASSUME FullInv, NEW t \in Threads, Take(t)
    PROVE  UntriedFree' /\ NotPassed'
<1> USE DEF FullInv, IInv
<1> DEFINE r == IF mode[thread[t].session] = "pair" THEN GetNextEvenPort(pos) ELSE GetNextPort(pos)
           job == Work("open", thread[t].session, thread[t].mid, thread[t].i + 1, r.port)
<1>1. thread[t] \in Jobs1 /\ thread[t].pc = "take"
  BY Working DEF Take
<1>2. mode' = mode /\ owner' = owner /\ untried' = untried
  BY DEF Take
<1>3. UntriedFree'
  BY <1>2 DEF UntriedFree
<1>4. CASE thread[t].i < Count
  <2>1. pos' = r.pos /\ thread' = [thread EXCEPT ![t] = job]
    BY <1>4 DEF Take
  <2>2. job.pc = "open" /\ job.port = r.port /\ job.i = thread[t].i + 1 /\ job.session = thread[t].session
    BY DEF Work
  <2>3. \A v \in Threads : thread'[v] = IF v = t THEN job ELSE thread[v]
    BY <2>1 DEF TypeOK
  <2>4. ASSUME NEW p \in Ports, p % 2 = 0, r.port # p
        PROVE  /\ Ahead(r.pos, p) <= Ahead(pos, p)
               /\ mode[thread[t].session] = "pair" => Ahead(r.pos, p) = Ahead(pos, p) - 2
    <3>1. pos \in Ports /\ Ahead(pos, p) \in Int
      BY <2>4, AheadBound DEF TypeOK
    <3>2. CASE mode[thread[t].session] = "pair"
      BY <2>4, <3>1, <3>2, EvenNearer
    <3>3. CASE mode[thread[t].session] # "pair"
      BY <2>4, <3>1, <3>3, OddNearer
    <3> QED
      BY <3>2, <3>3
  <2>r. r.pos \in Ports
    BY NextPort, NextEvenPort DEF TypeOK
  <2> HIDE DEF job, r
  <2>5. NotPassed'
    <3> SUFFICES ASSUME NEW u \in Threads, Looking(u)', NEW p \in untried'[u]
                 PROVE  Claimed(p)' \/ Before(u, p)'
      BY DEF NotPassed
    <3>1. p \in untried[u] /\ p \in Ports /\ p % 2 = 0
      BY <1>2, UntriedEven
    <3>2. CASE r.port = p
      BY <2>2, <2>3, <3>2 DEF Claimed
    <3>3. CASE r.port # p /\ Claimed(p)
      <4>1. PICK v \in Threads : thread[v].pc = "open" /\ thread[v].port = p
        BY <3>3 DEF Claimed
      <4>2. v # t
        BY <1>1, <4>1
      <4> QED
        BY <2>3, <4>1, <4>2 DEF Claimed
    <3>4. CASE r.port # p /\ ~Claimed(p)
      <4>1. Looking(u)
        BY <1>1, <1>2, <2>2, <2>3 DEF Looking
      <4>2. (2 * thread[u].i) + Ahead(pos, p) <= MaxPort - MinPort - 1
        BY <3>1, <3>4, <4>1 DEF NotPassed, Before
      <4>3. /\ Ahead(r.pos, p) <= Ahead(pos, p)
            /\ mode[thread[t].session] = "pair" => Ahead(r.pos, p) = Ahead(pos, p) - 2
        BY <2>4, <3>1, <3>4
      <4>4. Ahead(pos, p) \in Int /\ Ahead(r.pos, p) \in Int /\ thread[u].i \in Int
            /\ MinPort \in Int /\ MaxPort \in Int
        <5>1. thread[u] \in Jobs1
          BY <4>1, Working DEF Looking
        <5>2. pos \in Ports
          BY DEF TypeOK
        <5> QED
          BY <2>r, <3>1, <5>1, <5>2, AheadBound, RangeAssumption DEF Jobs1
      <4>5. CASE u = t
        <5>1. mode[thread[t].session] = "pair" /\ thread'[u].i = thread[u].i + 1
          BY <2>2, <2>3, <4>1, <4>5 DEF Looking
        <5> QED
          BY <2>1, <4>2, <4>3, <4>4, <5>1 DEF Before
      <4>6. CASE u # t
        <5>1. thread'[u] = thread[u]
          BY <2>3, <4>6
        <5> QED
          BY <2>1, <4>2, <4>3, <4>4, <5>1 DEF Before
      <4> QED
        BY <4>5, <4>6
    <3> QED
      BY <3>2, <3>3, <3>4
  <2> QED
    BY <1>3, <2>5
<1>5. CASE ~(thread[t].i < Count)
  <2>1. pos' = pos /\ thread' = [thread EXCEPT ![t] = Idle]
    BY <1>5 DEF Take
  <2> QED
    BY <1>1, <1>2, <1>3, <2>1, StepNotPassed DEF Idle
<1> QED
  BY <1>4, <1>5

\* A port that has just been bound, or that another one has, is in no free pair.
LEMMA OpenedFree ==
    ASSUME FullInv, NEW s \in Sessions, NEW p \in Ports, Opened(s, p)
    PROVE  /\ UntriedFree'
           /\ \A u \in Threads : untried'[u] \subseteq untried[u] /\ p \notin untried'[u]
<1>1. /\ owner' = [owner EXCEPT ![p] = s]
      /\ untried' = [t \in Threads |-> untried[t] \intersect FreePairs(owner')]
  BY DEF Opened
<1>2. owner'[p] # Nobody
  BY <1>1, OwnerAssumption DEF FullInv, IInv, TypeOK
<1>3. p \notin FreePairs(owner')
  BY <1>2 DEF FreePairs
<1>4. UntriedFree'
  BY <1>1 DEF UntriedFree
<1> QED
  BY <1>1, <1>3, <1>4

\* The pair that was taken is tried.
LEMMA OpenFull ==
    ASSUME FullInv, NEW t \in Threads, Open(t)
    PROVE  UntriedFree' /\ NotPassed'
<1> USE DEF FullInv, IInv
<1> DEFINE s == thread[t].session
           p == thread[t].port
<1>1. thread[t] \in Jobs1 /\ thread[t].pc = "open"
  BY Working DEF Open
<1>2. s \in Sessions /\ p \in Ports
  BY <1>1 DEF Jobs1, ThreadPorts
<1>3. mode' = mode /\ pos' = pos
  BY DEF Open
<1>4. CASE CanOpen(s, p)
  <2> DEFINE job == Work(IF mode[s] = "pair" THEN "second" ELSE "add", s, thread[t].mid, thread[t].i, p)
  <2>1. Opened(s, p) /\ thread' = [thread EXCEPT ![t] = job]
    BY <1>4 DEF Open, GoOn
  <2>2. job.session = s /\ job.i = thread[t].i
    BY DEF Work
  <2> HIDE DEF job
  <2>3. /\ UntriedFree'
        /\ \A u \in Threads : untried'[u] \subseteq untried[u] /\ p \notin untried'[u]
    BY <1>2, <2>1, OpenedFree
  <2> QED
    BY <1>1, <1>3, <2>1, <2>2, <2>3, StepNotPassed
<1>5. CASE ~CanOpen(s, p)
  <2> DEFINE job == Work("take", s, thread[t].mid, thread[t].i, p)
  <2>1. owner' = owner /\ untried' = untried /\ thread' = [thread EXCEPT ![t] = job]
    BY <1>5 DEF Open, GoOn
  <2>2. job.session = s /\ job.i = thread[t].i
    BY DEF Work
  <2> HIDE DEF job
  <2>3. \A u \in Threads : p \notin untried'[u]
    BY <1>5, <2>1, UntriedEven DEF CanOpen
  <2>4. UntriedFree'
    BY <2>1 DEF UntriedFree
  <2> QED
    BY <1>1, <1>3, <2>1, <2>2, <2>3, <2>4, StepNotPassed
<1> QED
  BY <1>4, <1>5

\* So is its second port.
LEMMA SecondFull ==
    ASSUME FullInv, NEW t \in Threads, Second(t)
    PROVE  UntriedFree' /\ NotPassed'
<1> USE DEF FullInv, IInv
<1> DEFINE s == thread[t].session
           p == thread[t].port
           job(pc) == Work(pc, s, thread[t].mid, thread[t].i, p)
<1>1. thread[t] \in Jobs1 /\ thread[t].pc = "second"
  BY Working DEF Second
<1>2. s \in Sessions /\ p \in Ports /\ p % 2 = 0
  BY <1>1 DEF Jobs1, ThreadPorts
<1>3. mode' = mode /\ pos' = pos
  BY DEF Second
<1>4. \A pc : job(pc).session = s /\ job(pc).i = thread[t].i
  BY DEF Work
<1>5. CASE CanOpen(s, p + 1)
  <2>1. Opened(s, p + 1) /\ thread' = [thread EXCEPT ![t] = job("add")]
    BY <1>5 DEF Second, GoOn
  <2>2. UntriedFree' /\ \A u \in Threads : untried'[u] \subseteq untried[u]
    BY <1>2, <2>1, OpenedFree, PairInRange
  <2> HIDE DEF job
  <2> QED
    BY <1>1, <1>3, <1>4, <2>1, <2>2, StepNotPassed
<1>6. CASE ~CanOpen(s, p + 1)
  <2>1. owner' = owner /\ untried' = untried /\ thread' = [thread EXCEPT ![t] = job("take")]
    BY <1>2, <1>6, NothingRemoved DEF Second, GoOn
  <2>2. UntriedFree'
    BY <2>1 DEF UntriedFree
  <2> HIDE DEF job
  <2> QED
    BY <1>1, <1>3, <1>4, <2>1, <2>2, StepNotPassed
<1> QED
  BY <1>5, <1>6

\* A thread that has found a pair is no longer looking.
LEMMA AddFull ==
    ASSUME FullInv, NEW t \in Threads, Add(t)
    PROVE  UntriedFree' /\ NotPassed'
<1>1. /\ thread[t].pc = "add" /\ thread' = [thread EXCEPT ![t] = Idle]
      /\ UNCHANGED <<mode, pos, owner, untried>>
  BY DEF Add
<1>2. UntriedFree'
  BY <1>1 DEF FullInv, UntriedFree
<1> QED
  BY <1>1, <1>2, StepNotPassed DEF FullInv, IInv, Idle

\* The application's calls free ports and take none.
LEMMA ReleaseFull ==
    ASSUME FullInv, UNCHANGED <<mode, pos, thread, untried>>,
           \A p \in Ports : owner[p] = Nobody => owner'[p] = Nobody
    PROVE  UntriedFree' /\ NotPassed'
<1>1. NotPassed'
  BY DEF FullInv, NotPassed, Looking, Claimed, Before
<1>2. FreePairs(owner) \subseteq FreePairs(owner')
  BY PairInRange DEF FreePairs
<1>3. UntriedFree'
  BY <1>2 DEF FullInv, UntriedFree
<1> QED
  BY <1>1, <1>3

\* No thread is looking initially.
LEMMA InitFull == Init => FullInv
<1> SUFFICES ASSUME Init PROVE FullInv
  OBVIOUS
<1>1. UntriedFree /\ NotPassed
  BY DEF Init, UntriedFree, NotPassed
<1> QED
  BY <1>1, InitIInv DEF FullInv

\* Every step preserves it.
LEMMA NextFull == FullInv /\ [Next]_vars => FullInv'
<1> SUFFICES ASSUME FullInv, [Next]_vars PROVE UntriedFree' /\ NotPassed'
  BY NextIInv DEF FullInv
<1>1. ASSUME NEW t \in Threads, NEW s \in Sessions, NEW m \in Mids, Begin(t, s, m)
      PROVE UntriedFree' /\ NotPassed'
  BY <1>1, BeginFull
<1>2. ASSUME NEW t \in Threads, Take(t) PROVE UntriedFree' /\ NotPassed'
  BY <1>2, TakeFull
<1>3. ASSUME NEW t \in Threads, Open(t) PROVE UntriedFree' /\ NotPassed'
  BY <1>3, OpenFull
<1>4. ASSUME NEW t \in Threads, Second(t) PROVE UntriedFree' /\ NotPassed'
  BY <1>4, SecondFull
<1>5. ASSUME NEW t \in Threads, Add(t) PROVE UntriedFree' /\ NotPassed'
  BY <1>5, AddFull
<1>6. ASSUME NEW s \in Sessions, NEW m \in Mids, Remove(s, m) PROVE UntriedFree' /\ NotPassed'
  <2>1. owner' = owner
    BY <1>6, NothingRemoved DEF Remove, FullInv, IInv
  <2> QED
    BY <1>6, <2>1, ReleaseFull DEF Remove
<1>7. ASSUME NEW s \in Sessions, StopStreams(s) PROVE UntriedFree' /\ NotPassed'
  BY <1>7, ReleaseFull DEF StopStreams
<1>8. ASSUME NEW s \in Sessions, StopTransports(s) PROVE UntriedFree' /\ NotPassed'
  BY <1>8, ReleaseFull DEF StopTransports
<1>9. CASE UNCHANGED vars
  BY <1>9, ReleaseFull DEF vars
<1> QED
  BY <1>1, <1>2, <1>3, <1>4, <1>5, <1>6, <1>7, <1>8, <1>9 DEF Next

\* The loop of create_transport_pair() misses no pair of the range, however many threads
\* and sessions take ports from it between its turns and whatever they take.
THEOREM GivesUpOnlyWhenFull == Spec => []GivesUpWhenFull
<1>1. FullInv => GivesUpWhenFull
  <2> SUFFICES ASSUME FullInv, NEW t \in Threads, thread[t].pc = "take", thread[t].i = Count,
                      mode[thread[t].session] = "pair", NEW p \in untried[t]
               PROVE  Claimed(p)
    BY DEF GivesUpWhenFull
  <2>1. p \in Ports /\ p % 2 = 0 /\ pos \in Ports
    BY UntriedEven DEF FullInv, IInv, TypeOK
  <2>2. Ahead(pos, p) \in Int /\ 0 <= Ahead(pos, p)
    BY <2>1, AheadBound
  <2>3. ~Before(t, p)
    BY <2>2, RangeAssumption DEF Before, Count
  <2> QED
    BY <2>3 DEF FullInv, NotPassed, Looking
<1>2. Spec => []FullInv
  BY InitFull, NextFull, PTL DEF Spec
<1> QED
  BY <1>1, <1>2, PTL
===============================================================================
