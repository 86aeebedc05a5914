-------------------------- MODULE UdpSocketProofs --------------------------
(***************************************************************************)
(* For any limits: handle_write of asio::udp_socket never pops an empty    *)
(* queue, a send is in flight exactly while something is queued, and both  *)
(* directions keep the order of the datagrams.                             *)
(***************************************************************************)
EXTENDS UdpSocket, TLAPS

Inv == TypeOK /\ PopsOwnDatagram /\ OneSendInFlight

\* The steps of the receive loop.
ReadStep ==
    \/ PostRead \/ KernelReceives \/ KernelFailsReceive
    \/ HandleReadCheck \/ HandleReadCopy \/ HandleReadDeliver

\* Nothing is queued or in flight initially.
LEMMA InitInv == Init => Inv
<1> SUFFICES ASSUME Init PROVE Inv
  OBVIOUS
<1>1. TypeOK
  BY DEF Init, TypeOK, ReadPhases
<1>2. PopsOwnDatagram /\ OneSendInFlight
  BY DEF Init, PopsOwnDatagram, OneSendInFlight
<1>3. QED
  BY <1>1, <1>2 DEF Inv

\* The operation in flight, moved to its next phase, is still on the front.
LEMMA AdvanceInv ==
    ASSUME Inv, NEW op \in ops, NEW phase \in OpPhases,
           ops' = Advance(op, phase), UNCHANGED queue
    PROVE  ops' \subseteq Op /\ PopsOwnDatagram' /\ OneSendInFlight'
<1> DEFINE op2 == [op EXCEPT !.phase = phase]
<1>1. op2 \in Op /\ op2.msg = op.msg
  BY DEF Inv, TypeOK, Op
<1>2. ops' = {op2}
  BY DEF Inv, OneSendInFlight, Advance
<1> HIDE DEF op2
<1>3. QED
  BY <1>1, <1>2 DEF Inv, PopsOwnDatagram, OneSendInFlight

\* A queue whose front has the only send in flight is in order.
LEMMA FreshSend ==
    ASSUME queue' # <<>>, ops' = {SendTo(Head(queue'))}
    PROVE  PopsOwnDatagram' /\ OneSendInFlight'
<1> DEFINE w == SendTo(Head(queue'))
<1>1. w.msg = Head(queue')
  BY DEF SendTo
<1> HIDE DEF w
<1>2. PopsOwnDatagram'
  BY <1>1 DEF PopsOwnDatagram, w
<1>3. OneSendInFlight'
  BY DEF OneSendInFlight
<1>4. QED
  BY <1>2, <1>3

\* Every step of the socket preserves the invariant.
LEMMA NextInv == Inv /\ [Next]_vars => Inv'
<1> SUFFICES ASSUME Inv, [Next]_vars PROVE Inv'
  OBVIOUS
<1>1. ASSUME Send PROVE Inv'
  <2>1. accepted' \in Nat /\ queue' = Append(queue, accepted') /\ queue' \in Seq(Nat)
    BY <1>1 DEF Send, Inv, TypeOK
  <2>2. SendTo(accepted') \in Op
    BY <2>1 DEF SendTo, Op, OpPhases
  <2>3. TypeOK'
    BY <1>1, <2>1, <2>2 DEF Send, Inv, TypeOK, readVars
  <2>4. CASE queue = <<>>
    <3>1. ops = {}
      BY <2>4 DEF Inv, PopsOwnDatagram
    <3>2. ops' = {SendTo(accepted')}
      BY <1>1, <2>4, <3>1 DEF Send, QueueIdle
    <3>3. queue' # <<>> /\ Head(queue') = accepted'
      BY <2>1, <2>4
    <3>4. QED
      BY <2>3, <3>2, <3>3, FreshSend DEF Inv
  <2>5. CASE queue # <<>>
    <3>1. queue' # <<>> /\ Head(queue') = Head(queue)
      BY <2>1, <2>5 DEF Inv, TypeOK
    <3>2. ops' = ops
      BY <1>1, <2>5 DEF Send, QueueIdle
    <3>3. QED
      BY <2>3, <2>5, <3>1, <3>2 DEF Inv, PopsOwnDatagram, OneSendInFlight
  <2>6. QED
    BY <2>4, <2>5
<1>2. ASSUME NEW op \in ops, KernelStep(op) PROVE Inv'
  <2>1. PICK ok \in BOOLEAN : KernelSends(op, ok)
    BY <1>2 DEF KernelStep
  <2>2. sent' \in Seq(Nat)
    BY <2>1 DEF KernelSends, Inv, TypeOK, Op
  <2>3. ops' \subseteq Op /\ PopsOwnDatagram' /\ OneSendInFlight'
    BY <2>1, AdvanceInv DEF KernelSends, OpPhases
  <2>4. QED
    BY <2>1, <2>2, <2>3 DEF KernelSends, Inv, TypeOK, readVars
<1>3. ASSUME NEW op \in ops, HandleWriteCheck(op) PROVE Inv'
  <2>1. PICK phase \in OpPhases : ops' = Advance(op, phase)
    BY <1>3 DEF HandleWriteCheck, OpPhases
  <2>2. ops' \subseteq Op /\ PopsOwnDatagram' /\ OneSendInFlight'
    BY <1>3, <2>1, AdvanceInv DEF HandleWriteCheck
  <2>3. QED
    BY <1>3, <2>2 DEF HandleWriteCheck, Inv, TypeOK, readVars
<1>4. ASSUME NEW op \in ops, Clear(op) PROVE Inv'
  <2>1. ops' = {} /\ queue' = <<>>
    BY <1>4 DEF Clear, Cleared, Inv, OneSendInFlight
  <2>2. TypeOK'
    BY <1>4, <2>1 DEF Clear, Inv, TypeOK, readVars
  <2>3. QED
    BY <2>1, <2>2 DEF Inv, PopsOwnDatagram, OneSendInFlight
<1>5. ASSUME NEW op \in ops, HandleWrite(op) PROVE Inv'
  <2>1. queue # <<>> /\ ops \ {op} = {}
    BY DEF Inv, PopsOwnDatagram, OneSendInFlight
  <2>2. queue' = Tail(queue) /\ queue' \in Seq(Nat)
    BY <1>5, <2>1 DEF HandleWrite, Popped, Inv, TypeOK
  <2>3. ops' = IF queue' = <<>> THEN {} ELSE {SendTo(Head(queue'))}
    BY <1>5, <2>1 DEF HandleWrite
  <2>4. queue' # <<>> => SendTo(Head(queue')) \in Op
    BY <2>2 DEF SendTo, Op, OpPhases
  <2>5. TypeOK'
    BY <1>5, <2>2, <2>3, <2>4 DEF HandleWrite, Inv, TypeOK, readVars
  <2>6. CASE queue' = <<>>
    BY <2>3, <2>5, <2>6 DEF Inv, PopsOwnDatagram, OneSendInFlight
  <2>7. CASE queue' # <<>>
    BY <2>3, <2>5, <2>7, FreshSend DEF Inv
  <2>8. QED
    BY <2>6, <2>7
<1>6. ASSUME ReadStep PROVE Inv'
  <2>1. UNCHANGED sendVars /\ UNCHANGED active
    BY <1>6 DEF ReadStep, PostRead, KernelReceives, KernelFailsReceive,
                HandleReadCheck, HandleReadCopy, HandleReadDeliver
  <2>2. TypeOK'
    <3> USE DEF Inv, TypeOK, ReadPhases, sendVars
    <3>1. CASE PostRead
      BY <2>1, <3>1 DEF PostRead
    <3>2. CASE KernelReceives
      BY <2>1, <3>2 DEF KernelReceives
    <3>3. CASE KernelFailsReceive
      BY <2>1, <3>3 DEF KernelFailsReceive
    <3>4. CASE HandleReadCheck
      BY <2>1, <3>4 DEF HandleReadCheck
    <3>5. CASE HandleReadCopy
      BY <2>1, <3>5 DEF HandleReadCopy
    <3>6. CASE HandleReadDeliver
      BY <2>1, <3>6 DEF HandleReadDeliver, Shown
    <3>7. QED
      BY <1>6, <3>1, <3>2, <3>3, <3>4, <3>5, <3>6 DEF ReadStep
  <2>3. QED
    BY <2>1, <2>2 DEF Inv, sendVars, PopsOwnDatagram, OneSendInFlight
<1>7. ASSUME Close PROVE Inv'
  <2> DEFINE f(op) == IF op.phase = "started" THEN [op EXCEPT !.phase = "completed"] ELSE op
  <2>1. ASSUME NEW op \in ops PROVE f(op) \in Op /\ f(op).msg = op.msg
    BY DEF Inv, TypeOK, Op, OpPhases
  <2>2. ops' = {f(op) : op \in ops} /\ UNCHANGED queue
    BY <1>7 DEF Close
  <2>3. TypeOK'
    BY <1>7, <2>1, <2>2 DEF Close, Inv, TypeOK, ReadPhases
  <2>4. PopsOwnDatagram' /\ OneSendInFlight'
    BY <2>1, <2>2 DEF Inv, PopsOwnDatagram, OneSendInFlight
  <2>5. QED
    BY <2>3, <2>4 DEF Inv
<1>8. CASE UNCHANGED vars
  BY <1>8 DEF vars, sendVars, readVars, Inv, TypeOK, PopsOwnDatagram, OneSendInFlight
<1>9. QED
  BY <1>1, <1>2, <1>3, <1>4, <1>5, <1>6, <1>7, <1>8 DEF Next, HandlerStep, ReadStep

\* The unguarded pop of handle_write() is always defined and removes the
\* datagram whose send has just ended.
THEOREM PopsOwnDatagramAlways == Spec => []PopsOwnDatagram
BY InitInv, NextInv, PTL DEF Spec, Inv

\* A send is in flight exactly while something is queued, and never two.
THEOREM OneSendAlways == Spec => []OneSendInFlight
BY InitInv, NextInv, PTL DEF Spec, Inv

\* Type correctness of the socket's state.
THEOREM TypeCorrect == Spec => []TypeOK
BY InitInv, NextInv, PTL DEF Spec, Inv
-----------------------------------------------------------------------------
(* The order of what is sent                                               *)

\* Nothing in flight is still to be handed to the kernel.
NoneStarted == \A op \in ops : op.phase # "started"

\* The queue is in the order of acceptance.
QueueSorted == \A i, j \in DOMAIN queue : i < j => queue[i] < queue[j]
\* No datagram is queued or sent before it is accepted.
OnlyAccepted ==
    /\ \A i \in DOMAIN queue : queue[i] <= accepted
    /\ \A i \in DOMAIN sent : sent[i] <= accepted
\* What was sent came before what is queued; only the front may be out already, and
\* then its operation has ended.
SentBeforeQueued ==
    \A i \in DOMAIN sent, j \in DOMAIN queue :
      sent[i] < queue[j] \/ (j = 1 /\ sent[i] = queue[1] /\ NoneStarted)

SendInv == QueueSorted /\ OnlyAccepted /\ SentBeforeQueued /\ SentInOrder

\* A step that changes neither queue and sends nothing, and starts no operation.
LEMMA SendInvKept ==
    ASSUME SendInv, UNCHANGED <<queue, accepted, sent>>, NoneStarted => NoneStarted'
    PROVE  SendInv'
  <1>1. QueueSorted' /\ OnlyAccepted' /\ SentInOrder'
    BY DEF SendInv, QueueSorted, OnlyAccepted, SentInOrder
  <1>2. SentBeforeQueued'
    <2> SUFFICES ASSUME NEW i \in DOMAIN sent, NEW j \in DOMAIN queue
                 PROVE  sent[i] < queue[j] \/ (j = 1 /\ sent[i] = queue[1] /\ NoneStarted')
      BY DEF SentBeforeQueued
    <2> QED
      BY DEF SendInv, SentBeforeQueued
  <1>3. QED
    BY <1>1, <1>2 DEF SendInv

\* The order is preserved by every step.
LEMMA NextSendInv == Inv /\ SendInv /\ [Next]_vars => SendInv'
<1> SUFFICES ASSUME Inv, SendInv, [Next]_vars PROVE SendInv'
  OBVIOUS
<1>0. queue \in Seq(Nat) /\ sent \in Seq(Nat) /\ accepted \in Nat /\ ops \subseteq Op
  BY DEF Inv, TypeOK
<1>1. ASSUME Send PROVE SendInv'
  <2>1. accepted' = accepted + 1 /\ queue' = Append(queue, accepted + 1) /\ sent' = sent
    BY <1>1 DEF Send
  <2>2. /\ Len(queue') = Len(queue) + 1 /\ queue' \in Seq(Nat)
        /\ \A i \in DOMAIN queue : queue'[i] = queue[i]
        /\ queue'[Len(queue) + 1] = accepted + 1
    BY <1>0, <2>1
  <2>3. DOMAIN queue = 1..Len(queue) /\ DOMAIN queue' = 1..(Len(queue) + 1) /\ Len(queue) \in Nat
    BY <1>0, <2>2
  <2>4. QueueSorted'
    <3> SUFFICES ASSUME NEW i \in DOMAIN queue', NEW j \in DOMAIN queue', i < j
                 PROVE  queue'[i] < queue'[j]
      BY DEF QueueSorted
    <3>1. i \in DOMAIN queue /\ queue'[i] = queue[i] /\ queue[i] \in Nat
      BY <1>0, <2>2, <2>3
    <3>2. CASE j = Len(queue) + 1
      BY <1>0, <2>2, <3>1, <3>2 DEF OnlyAccepted, SendInv
    <3>3. CASE j \in DOMAIN queue
      BY <2>2, <3>1, <3>3 DEF QueueSorted, SendInv
    <3>4. QED
      BY <2>3, <3>2, <3>3
  <2>5. OnlyAccepted'
    BY <1>0, <2>1, <2>2, <2>3 DEF OnlyAccepted, SendInv
  <2>6. SentBeforeQueued'
    <3> SUFFICES ASSUME NEW i \in DOMAIN sent, NEW j \in DOMAIN queue'
                 PROVE  sent[i] < queue'[j] \/ (j = 1 /\ sent[i] = queue'[1] /\ NoneStarted')
      BY <2>1 DEF SentBeforeQueued
    <3>1. CASE j = Len(queue) + 1
      BY <1>0, <2>2, <3>1 DEF SendInv, OnlyAccepted
    <3>2. CASE j \in DOMAIN queue
      <4>1. 1 \in DOMAIN queue /\ queue # <<>>
        BY <1>0, <2>3, <3>2
      <4>2. ops' = ops
        BY <1>1, <4>1 DEF Send, QueueIdle
      <4>3. NoneStarted => NoneStarted'
        BY <4>2 DEF NoneStarted
      <4>4. QED
        BY <2>2, <3>2, <4>1, <4>3 DEF SendInv, SentBeforeQueued
    <3>3. QED
      BY <2>3, <3>1, <3>2
  <2>7. SentInOrder'
    BY <2>1 DEF SendInv, SentInOrder
  <2>8. QED
    BY <2>4, <2>5, <2>6, <2>7 DEF SendInv
<1>2. ASSUME NEW op \in ops, NEW ok \in BOOLEAN, KernelSends(op, ok) PROVE SendInv'
  <2>1. op.phase = "started" /\ queue' = queue /\ accepted' = accepted /\ op.msg \in Nat
    BY <1>0, <1>2 DEF KernelSends, Op
  <2>2. NoneStarted'
    <3>1. ops = {op}
      BY DEF Inv, OneSendInFlight
    <3>2. ops' = {[op EXCEPT !.phase = "completed"]}
      BY <1>2, <3>1 DEF KernelSends, Advance
    <3>3. [op EXCEPT !.phase = "completed"].phase = "completed"
      BY <1>0 DEF Op
    <3>4. QED
      BY <3>2, <3>3 DEF NoneStarted
  <2>3. CASE ~ok
    <3>1. sent' = sent
      BY <1>2, <2>3 DEF KernelSends
    <3>2. QED
      BY <2>1, <2>2, <3>1, SendInvKept
  <2>4. CASE ok
    <3>1. sent' = Append(sent, op.msg)
      BY <1>2, <2>4 DEF KernelSends
    <3>2. /\ DOMAIN sent = 1..Len(sent) /\ DOMAIN sent' = 1..(Len(sent) + 1) /\ Len(sent) \in Nat
          /\ \A i \in DOMAIN sent : sent'[i] = sent[i]
          /\ sent'[Len(sent) + 1] = op.msg
      BY <1>0, <2>1, <3>1
    <3>3. 1 \in DOMAIN queue /\ op.msg = queue[1]
      BY <1>0 DEF Inv, PopsOwnDatagram
    <3>4. \A i \in DOMAIN sent : sent[i] < op.msg
      BY <2>1, <3>3 DEF SendInv, SentBeforeQueued, NoneStarted
    <3>5. QueueSorted'
      BY <2>1 DEF SendInv, QueueSorted
    <3>6. OnlyAccepted'
      BY <2>1, <3>2, <3>3 DEF SendInv, OnlyAccepted
    <3>7. SentBeforeQueued'
      <4> SUFFICES ASSUME NEW i \in DOMAIN sent', NEW j \in DOMAIN queue
                   PROVE  sent'[i] < queue[j] \/ (j = 1 /\ sent'[i] = queue[1])
        BY <2>1, <2>2 DEF SentBeforeQueued
      <4>1. j = 1 \/ op.msg < queue[j]
        BY <1>0, <3>3 DEF SendInv, QueueSorted
      <4>2. CASE i = Len(sent) + 1
        BY <3>2, <3>3, <4>1, <4>2
      <4>3. CASE i \in DOMAIN sent
        BY <3>2, <4>3 DEF SendInv, SentBeforeQueued
      <4>4. QED
        BY <3>2, <4>2, <4>3
    <3>8. SentInOrder'
      BY <3>2, <3>4, <2>1, <1>0 DEF SendInv, SentInOrder
    <3>9. QED
      BY <3>5, <3>6, <3>7, <3>8 DEF SendInv
  <2>5. QED
    BY <2>3, <2>4
<1>3. ASSUME NEW op \in ops, HandleWriteCheck(op) PROVE SendInv'
  <2>1. PICK phase \in {"proceed", "clear"} : ops' = Advance(op, phase)
    BY <1>3 DEF HandleWriteCheck
  <2>2. [op EXCEPT !.phase = phase].phase = phase
    BY <1>0 DEF Op
  <2>3. NoneStarted => NoneStarted'
    BY <2>1, <2>2 DEF NoneStarted, Advance
  <2>4. QED
    BY <1>3, <2>3, SendInvKept DEF HandleWriteCheck
<1>4. ASSUME NEW op \in ops, Clear(op) PROVE SendInv'
  <2>1. queue' = <<>> /\ accepted' = accepted /\ sent' = sent
    BY <1>4 DEF Clear, Cleared
  <2>2. QED
    BY <2>1 DEF SendInv, QueueSorted, OnlyAccepted, SentBeforeQueued, SentInOrder
<1>5. ASSUME NEW op \in ops, HandleWrite(op) PROVE SendInv'
  <2>1. queue # <<>> /\ queue' = Tail(queue) /\ accepted' = accepted /\ sent' = sent
    BY <1>5 DEF HandleWrite, Popped, Inv, PopsOwnDatagram
  <2>2. /\ DOMAIN queue = 1..Len(queue) /\ DOMAIN queue' = 1..(Len(queue) - 1)
        /\ Len(queue) \in Nat /\ Len(queue) > 0
        /\ \A i \in DOMAIN queue' : queue'[i] = queue[i + 1]
    BY <1>0, <2>1
  <2>3. \A i \in DOMAIN queue' : i \in Nat /\ i + 1 \in DOMAIN queue /\ i + 1 # 1
    BY <2>2
  <2>4. QueueSorted'
    BY <2>2, <2>3 DEF SendInv, QueueSorted
  <2>5. OnlyAccepted'
    BY <2>1, <2>2, <2>3 DEF SendInv, OnlyAccepted
  <2>6. SentBeforeQueued'
    BY <2>1, <2>2, <2>3 DEF SendInv, SentBeforeQueued
  <2>7. SentInOrder'
    BY <2>1 DEF SendInv, SentInOrder
  <2>8. QED
    BY <2>4, <2>5, <2>6, <2>7 DEF SendInv
<1>6. ASSUME ReadStep PROVE SendInv'
  <2>1. UNCHANGED sendVars
    BY <1>6 DEF ReadStep, PostRead, KernelReceives, KernelFailsReceive,
                HandleReadCheck, HandleReadCopy, HandleReadDeliver
  <2>2. QED
    BY <2>1, SendInvKept DEF sendVars, NoneStarted
<1>7. ASSUME Close PROVE SendInv'
  <2> DEFINE f(op) == IF op.phase = "started" THEN [op EXCEPT !.phase = "completed"] ELSE op
  <2>1. ASSUME NEW op \in ops PROVE f(op).phase # "started"
    BY <1>0 DEF Op
  <2>2. ops' = {f(op) : op \in ops}
    BY <1>7 DEF Close
  <2>3. NoneStarted'
    <3> HIDE DEF f
    <3> QED
      BY <2>1, <2>2 DEF NoneStarted
  <2>4. QED
    BY <1>7, <2>3, SendInvKept DEF Close
<1>8. CASE UNCHANGED vars
  BY <1>8, SendInvKept DEF vars, sendVars, NoneStarted
<1>9. QED
  BY <1>1, <1>2, <1>3, <1>4, <1>5, <1>6, <1>7, <1>8 DEF Next, KernelStep, HandlerStep, ReadStep

\* Datagrams leave in the order send_to() accepted them, each at most once, through
\* failed sends, close() and use after close().
THEOREM SentInOrderAlways == Spec => []SentInOrder
<1>1. Init => SendInv
  BY DEF Init, SendInv, QueueSorted, OnlyAccepted, SentBeforeQueued, SentInOrder
<1>2. QED
  BY <1>1, InitInv, NextInv, NextSendInv, PTL DEF Spec, SendInv
-----------------------------------------------------------------------------
(* The order of what is received                                           *)

\* A datagram is in buffer_ that the handler has not been shown.
Pending == read \in {"completed", "proceed", "deliver"} /\ bytes = 1

\* buffer_ holds the last datagram; close() clears active_ and the handler together,
\* and a receive ends the loop only on a closed socket.
ReadState ==
    /\ buffer = received
    /\ active = handler
    /\ read = "return" => ~active
\* Nothing the handler saw is newer than what is pending.
ShownBefore ==
    \A i \in DOMAIN delivered :
      delivered[i] <= received /\ (Pending => delivered[i] < received)
\* While the socket is open, and in a handler that close() has overtaken, all datagrams
\* but the pending one were shown.
AllShown ==
    (active \/ read = "deliver") =>
      \A n \in 1..received : (n = received /\ Pending) \/ \E i \in DOMAIN delivered : delivered[i] = n

ReadInv == ReadState /\ ShownBefore /\ AllShown /\ DeliveredInOrder

\* The receive loop preserves its invariant; the sending half does not touch it.
LEMMA NextReadInv == Inv /\ ReadInv /\ [Next]_vars => ReadInv'
<1> SUFFICES ASSUME Inv, ReadInv, [Next]_vars PROVE ReadInv'
  OBVIOUS
<1>0. /\ delivered \in Seq(Nat) /\ received \in Nat /\ buffer \in Nat /\ bytes \in {0, 1}
      /\ active \in BOOLEAN /\ handler \in BOOLEAN /\ read \in ReadPhases
  BY DEF Inv, TypeOK
<1>1. ASSUME UNCHANGED <<active, readVars>> PROVE ReadInv'
  BY <1>1 DEF readVars, ReadInv, ReadState, ShownBefore, AllShown, Pending, DeliveredInOrder
<1>2. ASSUME UNCHANGED <<active, handler, buffer, bytes, received, delivered>>,
             Pending' <=> Pending, read' # "return" \/ ~active, read' = "deliver" => handler
      PROVE  ReadInv'
  BY <1>0, <1>2 DEF ReadInv, ReadState, ShownBefore, AllShown, DeliveredInOrder
<1>3. CASE PostRead
  BY <1>0, <1>2, <1>3 DEF PostRead, Pending
<1>4. CASE HandleReadCheck
  <2>1. Pending' <=> bytes = 1 /\ active
    BY <1>4 DEF HandleReadCheck, Pending
  <2>2. CASE active
    BY <1>0, <1>2, <1>4, <2>1, <2>2 DEF HandleReadCheck, Pending
  <2>3. CASE ~active
    <3>1. read' = "return" /\ ~active' /\ UNCHANGED <<active, handler, buffer, received, delivered>>
      BY <1>4, <2>3 DEF HandleReadCheck
    <3>2. ~Pending'
      BY <3>1 DEF Pending
    <3>3. QED
      BY <1>0, <3>1, <3>2 DEF ReadInv, ReadState, ShownBefore, AllShown, DeliveredInOrder
  <2>4. QED
    BY <2>2, <2>3
<1>5. CASE HandleReadCopy
  <2>1. CASE handler
    BY <1>0, <1>2, <1>5, <2>1 DEF HandleReadCopy, Pending
  <2>2. CASE ~handler
    <3>1. read' = "started" /\ ~active' /\ UNCHANGED <<active, handler, buffer, received, delivered>>
      BY <1>5, <2>2 DEF HandleReadCopy, ReadInv, ReadState
    <3>2. ~Pending'
      BY <3>1 DEF Pending
    <3>3. QED
      BY <1>0, <3>1, <3>2 DEF ReadInv, ReadState, ShownBefore, AllShown, DeliveredInOrder
  <2>3. QED
    BY <2>1, <2>2
<1>6. CASE KernelReceives
  <2>1. /\ received' = received + 1 /\ buffer' = received + 1 /\ read' = "completed" /\ bytes' = 1
        /\ UNCHANGED <<active, handler, delivered>>
    BY <1>6 DEF KernelReceives
  <2>2. Pending' /\ ~Pending
    BY <1>6, <2>1 DEF Pending, KernelReceives
  <2>3. ReadState'
    BY <2>1 DEF ReadState, ReadInv
  <2>4. ShownBefore'
    BY <1>0, <2>1 DEF ShownBefore, ReadInv
  <2>5. AllShown'
    BY <1>0, <2>1, <2>2 DEF AllShown, ReadInv
  <2>6. QED
    BY <2>1, <2>3, <2>4, <2>5 DEF ReadInv, DeliveredInOrder
<1>7. CASE KernelFailsReceive
  <2>1. Pending' <=> Pending
    BY <1>7 DEF KernelFailsReceive, Pending
  <2>2. QED
    BY <1>0, <1>7, <2>1 DEF KernelFailsReceive, ReadInv, ReadState, ShownBefore, AllShown, DeliveredInOrder
<1>8. CASE HandleReadDeliver
  <2>1. /\ read' = "started" /\ ~Pending' /\ UNCHANGED <<active, handler, buffer, received, bytes>>
        /\ delivered' = Append(delivered, Shown) /\ read = "deliver"
    BY <1>8 DEF HandleReadDeliver, Pending
  <2>2. Shown \in Nat /\ Shown = (IF Pending THEN received ELSE 0)
    BY <1>0, <2>1 DEF Shown, Pending, ReadInv, ReadState
  <2>3. /\ DOMAIN delivered = 1..Len(delivered) /\ DOMAIN delivered' = 1..(Len(delivered) + 1)
        /\ Len(delivered) \in Nat
        /\ \A i \in DOMAIN delivered : delivered'[i] = delivered[i] /\ delivered[i] \in Nat
        /\ delivered'[Len(delivered) + 1] = Shown
    BY <1>0, <2>1, <2>2
  <2>4. ReadState'
    BY <2>1 DEF ReadInv, ReadState
  <2>5. ShownBefore'
    BY <1>0, <2>1, <2>2, <2>3 DEF ReadInv, ShownBefore
  <2>6. AllShown'
    <3> SUFFICES ASSUME NEW n \in 1..received
                 PROVE  \E i \in DOMAIN delivered' : delivered'[i] = n
      BY <2>1 DEF AllShown
    <3>1. CASE n = received /\ Pending
      BY <2>2, <2>3, <3>1
    <3>2. CASE \E i \in DOMAIN delivered : delivered[i] = n
      BY <2>3, <3>2
    <3>3. QED
      BY <2>1, <3>1, <3>2 DEF ReadInv, AllShown
  <2>7. DeliveredInOrder'
    <3> SUFFICES ASSUME NEW i \in DOMAIN delivered', delivered'[i] # 0
                 PROVE  /\ delivered'[i] = 1 \/ \E j \in 1..(i - 1) : delivered'[j] = delivered'[i] - 1
                        /\ \A j \in 1..(i - 1) : delivered'[j] < delivered'[i]
      BY DEF DeliveredInOrder
    <3>1. CASE i \in DOMAIN delivered
      <4>1. \A j \in 1..(i - 1) : j \in DOMAIN delivered /\ delivered'[j] = delivered[j]
        BY <2>3, <3>1
      <4>2. QED
        BY <2>3, <3>1, <4>1 DEF ReadInv, DeliveredInOrder
    <3>2. CASE i = Len(delivered) + 1
      <4>1. Pending /\ delivered'[i] = received /\ 1..(i - 1) = DOMAIN delivered
        BY <2>2, <2>3, <3>2
      <4>2. \A j \in DOMAIN delivered : delivered'[j] < received
        BY <2>3, <4>1 DEF ReadInv, ShownBefore
      <4>3. received = 1 \/ \E j \in DOMAIN delivered : delivered'[j] = received - 1
        <5>1. received \in 1..received /\ received > 0
          BY <1>0, <4>1
        <5>2. CASE received > 1
          <6>1. received - 1 \in 1..received /\ received - 1 # received
            BY <1>0, <5>2
          <6>2. PICK j \in DOMAIN delivered : delivered[j] = received - 1
            BY <2>1, <6>1 DEF ReadInv, AllShown
          <6>3. QED
            BY <2>3, <6>2
        <5>3. QED
          BY <1>0, <5>1, <5>2
      <4>4. QED
        BY <4>1, <4>2, <4>3
    <3>3. QED
      BY <2>3, <3>1, <3>2
  <2>8. QED
    BY <2>4, <2>5, <2>6, <2>7 DEF ReadInv
<1>9. CASE Close
  <2>1. /\ active' = FALSE /\ handler' = FALSE /\ UNCHANGED <<buffer, received, delivered>>
        /\ IF read = "started" THEN read' = "completed" /\ bytes' = 0 ELSE UNCHANGED <<read, bytes>>
    BY <1>9 DEF Close
  <2>2. Pending' <=> Pending
    BY <2>1 DEF Pending
  <2>3. read' = "deliver" => read = "deliver"
    BY <2>1
  <2>4. QED
    BY <2>1, <2>2, <2>3 DEF ReadInv, ReadState, ShownBefore, AllShown, DeliveredInOrder
<1>10. ASSUME NEW op \in ops, KernelStep(op) \/ HandlerStep(op) PROVE ReadInv'
  BY <1>1, <1>10 DEF KernelStep, HandlerStep, KernelSends, HandleWriteCheck, Clear, HandleWrite
<1>11. CASE Send
  BY <1>1, <1>11 DEF Send
<1>12. CASE UNCHANGED vars
  BY <1>1, <1>12 DEF vars
<1>13. QED
  BY <1>3, <1>4, <1>5, <1>6, <1>7, <1>8, <1>9, <1>10, <1>11, <1>12 DEF Next

\* The handler is shown every datagram once and in order, whichever receives fail and
\* wherever close() falls between the halves of handle_read().
THEOREM DeliveredInOrderAlways == Spec => []DeliveredInOrder
<1>1. Init => ReadInv
  BY DEF Init, ReadInv, ReadState, ShownBefore, AllShown, Pending, DeliveredInOrder
<1>2. QED
  BY <1>1, InitInv, NextInv, NextReadInv, PTL DEF Spec, ReadInv
=============================================================================
