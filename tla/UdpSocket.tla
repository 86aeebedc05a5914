----------------------------- MODULE UdpSocket -----------------------------
(***************************************************************************)
(* asio::udp_socket (src/asio/asio_udp_socket.{h,cpp}), which carries all  *)
(* RTP, RTCP, STUN, DTLS and SCTP traffic of rtpx (transports/             *)
(* udp_transport.cpp).  As in TcpSocket, a completion handler reads        *)
(* active_ before it takes mutex_, so a handler is two steps.  Unlike      *)
(* TcpSocket, handle_write and handle_read ignore the error code, and      *)
(* handle_write pops without looking whether the queue is empty.           *)
(***************************************************************************)
EXTENDS Integers, Sequences

CONSTANTS
    MaxQueue,      \* max_sending_queue_size_: always 5000, the constructor drops its argument
    MaxDatagrams,  \* bound: datagrams send_to() accepts in a behaviour
    MaxReceived    \* bound: completions, good or bad, of the receive loop

ASSUME MaxQueueAssumption == MaxQueue \in Nat \ {0}
ASSUME BoundsAssumption == MaxDatagrams \in Nat /\ MaxReceived \in Nat

VARIABLES
    active,     \* active_
    queue,      \* queue_: datagrams, named by their order of acceptance
    ops,        \* async_send_to operations whose handler has not returned
    accepted,   \* datagrams accepted so far
    sent,       \* history: the datagrams that left, in order
    read,       \* the phase of the receive loop's only operation
    bytes,      \* what the last receive reported: 1, or 0 for an error
    handler,    \* data_received_handler_ is bound
    buffer,     \* buffer_: the last datagram received into it (0: none)
    received,   \* datagrams the kernel handed to the socket
    errors,     \* receives that ended in an error
    delivered   \* history: what the handler saw, 0 for an empty buffer

sendVars == <<queue, ops, accepted, sent>>
readVars == <<read, bytes, handler, buffer, received, errors, delivered>>
vars == <<active, sendVars, readVars>>

OpPhases == {"started", "completed", "clear", "proceed"}
Op == [msg : Nat, phase : OpPhases]
SendTo(d) == [msg |-> d, phase |-> "started"]

ReadPhases == {"idle", "started", "completed", "return", "proceed", "deliver"}

Init ==
    /\ active = TRUE
    /\ queue = <<>>
    /\ ops = {}
    /\ accepted = 0
    /\ sent = <<>>
    /\ read = "idle"
    /\ bytes = 0
    /\ handler = TRUE
    /\ buffer = 0
    /\ received = 0
    /\ errors = 0
    /\ delivered = <<>>

-----------------------------------------------------------------------------
\* Wrong variants (_M) are for the mutation runs only.
QueueIdle_M1 == TRUE
QueueIdle_M2 == Len(queue) = 1
QueueIdle == queue = <<>>

\* send_to(): does not look at active_; a full queue refuses and changes nothing.
Send ==
    /\ accepted < MaxDatagrams
    /\ Len(queue) < MaxQueue
    /\ accepted' = accepted + 1
    /\ queue' = Append(queue, accepted')
    /\ ops' = IF QueueIdle THEN ops \union {SendTo(accepted')} ELSE ops
    /\ UNCHANGED <<active, sent, readVars>>

Advance(op, phase) == (ops \ {op}) \union {[op EXCEPT !.phase = phase]}

\* The kernel sends the datagram, or refuses it with an error.
KernelSends(op, ok) ==
    /\ op.phase = "started"
    /\ sent' = IF ok THEN Append(sent, op.msg) ELSE sent
    /\ ops' = Advance(op, "completed")
    /\ UNCHANGED <<active, queue, accepted, readVars>>

HandleWriteCheck(op) ==
    /\ op.phase = "completed"
    /\ ops' = Advance(op, IF active THEN "proceed" ELSE "clear")
    /\ UNCHANGED <<active, queue, accepted, sent, readVars>>

Cleared_M == IF queue = <<>> THEN queue ELSE Tail(queue)
Cleared == <<>>

\* clear(), as handle_write() calls it.
Clear(op) ==
    /\ op.phase = "clear"
    /\ queue' = Cleared
    /\ ops' = ops \ {op}
    /\ UNCHANGED <<active, accepted, sent, readVars>>

\* What is left after queue_.pop(), which is undefined on an empty queue.
Popped_M == IF queue = <<>> \/ Len(queue) > 1 THEN queue ELSE Tail(queue)
Popped == Tail(queue)

\* The rest of handle_write(): the datagram is done, sent or not.
HandleWrite(op) ==
    /\ op.phase = "proceed"
    /\ queue' = Popped
    /\ ops' = (ops \ {op}) \union (IF queue' = <<>> THEN {} ELSE {SendTo(Head(queue'))})
    /\ UNCHANGED <<active, accepted, sent, readVars>>

-----------------------------------------------------------------------------
\* post_read(), which udp_transport::open calls once.
PostRead ==
    /\ read = "idle"
    /\ read' = "started"
    /\ UNCHANGED <<active, sendVars, bytes, handler, buffer, received, errors, delivered>>

KernelReceives ==
    /\ read = "started"
    /\ received < MaxReceived
    /\ received' = received + 1
    /\ buffer' = received'
    /\ bytes' = 1
    /\ read' = "completed"
    /\ UNCHANGED <<active, sendVars, handler, errors, delivered>>

\* For example an ICMP error reported on the socket: buffer_ keeps what it had.
KernelFailsReceive ==
    /\ read = "started"
    /\ errors < MaxReceived
    /\ errors' = errors + 1
    /\ bytes' = 0
    /\ read' = "completed"
    /\ UNCHANGED <<active, sendVars, handler, buffer, received, delivered>>

HandleReadCheck ==
    /\ read = "completed"
    /\ read' = IF active THEN "proceed" ELSE "return"
    /\ UNCHANGED <<active, sendVars, bytes, handler, buffer, received, errors, delivered>>

HandleReadCopy ==
    /\ read = "proceed"
    /\ read' = IF handler THEN "deliver" ELSE "started"
    /\ UNCHANGED <<active, sendVars, bytes, handler, buffer, received, errors, delivered>>

\* handler(buffer_, bytes): an error completion shows it an empty buffer.
Shown_M1 == buffer
Shown == IF bytes = 0 THEN 0 ELSE buffer

HandleReadDeliver ==
    /\ read = "deliver"
    /\ delivered' = Append(delivered, Shown)
    /\ read' = "started"
    /\ UNCHANGED <<active, sendVars, bytes, handler, buffer, received, errors>>

-----------------------------------------------------------------------------
\* close(): the pending operations complete with operation_aborted.
Close ==
    /\ active' = FALSE
    /\ handler' = FALSE
    /\ ops' = {IF op.phase = "started" THEN [op EXCEPT !.phase = "completed"] ELSE op : op \in ops}
    /\ IF read = "started"
         THEN read' = "completed" /\ bytes' = 0
         ELSE UNCHANGED <<read, bytes>>
    /\ UNCHANGED <<queue, accepted, sent, buffer, received, errors, delivered>>

HandlerStep(op) == HandleWriteCheck(op) \/ Clear(op) \/ HandleWrite(op)
KernelStep(op) == \E ok \in BOOLEAN : KernelSends(op, ok)

Next ==
    \/ Send
    \/ \E op \in ops : KernelStep(op) \/ HandlerStep(op)
    \/ PostRead \/ KernelReceives \/ KernelFailsReceive
    \/ HandleReadCheck \/ HandleReadCopy \/ HandleReadDeliver
    \/ Close

Spec == Init /\ [][Next]_vars

\* A datagram handed to the kernel completes, and the io_context runs handlers.
FairSpec == Spec /\ WF_vars(\E op \in ops : KernelStep(op) \/ HandlerStep(op))

-----------------------------------------------------------------------------
\* The members of udp_socket keep their types; a receive that failed shows its handler
\* no datagram.
TypeOK ==
    /\ active \in BOOLEAN
    /\ queue \in Seq(Nat)
    /\ ops \subseteq Op
    /\ accepted \in Nat
    /\ sent \in Seq(Nat)
    /\ read \in ReadPhases
    /\ bytes \in {0, 1}
    /\ handler \in BOOLEAN
    /\ buffer \in Nat
    /\ received \in Nat
    /\ errors \in Nat
    /\ delivered \in Seq(Nat)

\* handle_write() calls queue_.pop() unconditionally, which is undefined on an
\* empty queue.  No order of send_to(), close() and the halves of the handlers
\* lets a handler reach it with nothing queued, and what it pops is the datagram
\* whose send has just ended.
PopsOwnDatagram ==
    \A op \in ops : queue # <<>> /\ op.msg = Head(queue)

\* There is one send in flight while something is queued, and never two.
OneSendInFlight ==
    /\ \A op1, op2 \in ops : op1 = op2
    /\ queue # <<>> => ops # {}

\* Datagrams leave in the order they were accepted, each at most once, also when
\* sends fail and when the socket is closed and used again.
SentInOrder == \A i, j \in DOMAIN sent : i < j => sent[i] < sent[j]

\* The handler gets every datagram once and in order: each follows its predecessor and
\* nothing that came before is repeated; the stale contents of buffer_ never reach it
\* when a receive ends in an error.
DeliveredInOrder ==
    \A i \in DOMAIN delivered : delivered[i] # 0 =>
      /\ delivered[i] = 1 \/ \E j \in 1..(i - 1) : delivered[j] = delivered[i] - 1
      /\ \A j \in 1..(i - 1) : delivered[j] < delivered[i]

\* A failed send does not stop the ones queued behind it.
QueueDrains == queue # <<>> ~> queue = <<>>
=============================================================================
