----------------------------- MODULE TcpSocket -----------------------------
(***************************************************************************)
(* asio::tcp_socket (src/asio/asio_tcp_socket.{h,cpp}): the sending queue  *)
(* and the read loop of a TCP connection.                                  *)
(*                                                                         *)
(* Any thread may call send() and close(); the completion handlers run on  *)
(* the threads of the io_context.  A handler reads active_ BEFORE it takes *)
(* mutex_, so each handler is two steps, and other calls fall in between.  *)
(* The kernel and the peer are external: a write takes any number of bytes *)
(* it likes, and any operation may fail.                                   *)
(***************************************************************************)
EXTENDS Integers, Sequences

CONSTANTS
    MaxQueue,   \* max_sending_queue_size_ (5000 in the code)
    Sizes,      \* the sizes send() is called with; 0 is a legal size
    MaxSends,   \* bound: messages accepted in a behaviour
    MaxChunks,  \* bound: pieces of data the peer sends
    Loops       \* calls of post_read(); every caller makes exactly one

ASSUME MaxQueueAssumption == MaxQueue \in Nat \ {0}
ASSUME SizesAssumption == Sizes \subseteq Nat
ASSUME BoundsAssumption == MaxSends \in Nat /\ MaxChunks \in Nat

VARIABLES
    active,     \* active_
    broken,     \* the connection failed: every later operation reports ec
    queue,      \* queue_: accepted messages not yet completely written
    offset,     \* offset_: bytes of the front message reported as written
    ops,        \* asynchronous writes whose handler has not returned
    accepted,   \* history: the messages send() returned true for
    wire,       \* history: the bytes the kernel took, in order
    reads,      \* reads[l]: where read loop l is
    handler,    \* data_received_handler_ is bound
    buffer,     \* buffer_: the chunk last read into it (0: none)
    incoming,   \* chunks the kernel has handed to a read so far
    delivered   \* history: the chunks the handler saw

writeVars == <<queue, offset, ops, accepted, wire>>
readVars == <<reads, handler, buffer, incoming, delivered>>
vars == <<active, broken, writeVars, readVars>>

\* A message is its place in the order of acceptance and its size; a byte of
\* the stream is its message and its position in it.
Message == [id : Nat, size : Nat]
Byte == Nat \X Nat
Bytes(m) == [i \in 1..m.size |-> <<m.id, i>>]

\* The life of an asynchronous operation: with the kernel; its handler posted;
\* and then what the handler decided when it read active_.
WritePhases == {"started", "completed", "clear", "proceed"}
ReadPhases == {"idle", "started", "completed", "return", "proceed", "deliver"}

Op == [msg : Message, from : Nat, phase : WritePhases, bytes : Nat, ec : BOOLEAN]

\* async_write_some on the bytes of m after the first `from`.
WriteSome(m, from) ==
    [msg |-> m, from |-> from, phase |-> "started", bytes |-> 0, ec |-> FALSE]

Idle == [phase |-> "idle", ec |-> FALSE]
ReadSome == [phase |-> "started", ec |-> FALSE]

Init ==
    /\ active = TRUE
    /\ broken = FALSE
    /\ queue = <<>>
    /\ offset = 0
    /\ ops = {}
    /\ accepted = <<>>
    /\ wire = <<>>
    /\ reads = [l \in Loops |-> Idle]
    /\ handler = TRUE
    /\ buffer = 0
    /\ incoming = 0
    /\ delivered = <<>>

-----------------------------------------------------------------------------
(* The sending side.                                                       *)

\* The tests and the arithmetic of the code, one operator each.  An operator
\* whose name ends in _M is a wrong variant that no behaviour uses: the checks
\* substitute it to see that the properties notice.
QueueIdle_M == Len(queue) <= 1
QueueIdle == queue = <<>>

WriteRefused(op) == ~active \/ op.ec

Advanced(op) == offset + op.bytes

FrontDone_M1(op) == Advanced(op) > Head(queue).size
FrontDone_M2(op) == TRUE
FrontDone(op) == Advanced(op) >= Head(queue).size

\* send(): note that it does not look at active_.  A call that finds the queue
\* full returns false and changes nothing.
Send(size) ==
    /\ Len(accepted) < MaxSends
    /\ Len(queue) < MaxQueue
    /\ LET m == [id |-> Len(accepted) + 1, size |-> size] IN
         /\ queue' = Append(queue, m)
         /\ accepted' = Append(accepted, m)
         /\ IF QueueIdle
              THEN /\ offset' = 0
                   /\ ops' = ops \union {WriteSome(m, 0)}
              ELSE UNCHANGED <<offset, ops>>
    /\ UNCHANGED <<active, broken, wire, readVars>>

Completed(op, bytes, ec) ==
    [op EXCEPT !.phase = "completed", !.bytes = bytes, !.ec = ec]

\* The kernel takes the next n bytes of the span it was given: at least one,
\* unless the span is empty.
KernelWrites(op, n) ==
    /\ op.phase = "started"
    /\ ~broken
    /\ n > 0 \/ op.from = op.msg.size
    /\ wire' = wire \o SubSeq(Bytes(op.msg), op.from + 1, op.from + n)
    /\ ops' = (ops \ {op}) \union {Completed(op, n, FALSE)}
    /\ UNCHANGED <<active, broken, queue, offset, accepted, readVars>>

\* The connection is lost under a write.
KernelFailsWrite(op) ==
    /\ op.phase = "started"
    /\ broken' = TRUE
    /\ ops' = (ops \ {op}) \union {Completed(op, 0, TRUE)}
    /\ UNCHANGED <<active, queue, offset, accepted, wire, readVars>>

\* handle_write(), up to the point where clear() or handle_write takes mutex_.
HandleWriteCheck(op) ==
    /\ op.phase = "completed"
    /\ LET phase == IF WriteRefused(op) THEN "clear" ELSE "proceed"
       IN ops' = (ops \ {op}) \union {[op EXCEPT !.phase = phase]}
    /\ UNCHANGED <<active, broken, queue, offset, accepted, wire, readVars>>

Clear_M(op) ==
    /\ op.phase = "clear"
    /\ queue' = IF op.ec THEN <<>> ELSE queue
    /\ ops' = ops \ {op}
    /\ UNCHANGED <<active, broken, offset, accepted, wire, readVars>>

\* clear(), as handle_write() calls it.
Clear(op) ==
    /\ op.phase = "clear"
    /\ queue' = <<>>
    /\ ops' = ops \ {op}
    /\ UNCHANGED <<active, broken, offset, accepted, wire, readVars>>

\* The rest of handle_write(), under mutex_: the front message is finished, or
\* what is left of it is written next.
HandleWrite(op) ==
    /\ op.phase = "proceed"
    /\ \/ /\ queue = <<>>
          /\ ops' = ops \ {op}
          /\ UNCHANGED <<queue, offset>>
       \/ /\ queue # <<>>
          /\ FrontDone(op)
          /\ offset' = 0
          /\ queue' = Tail(queue)
          /\ ops' = (ops \ {op}) \union
                      (IF Tail(queue) = <<>> THEN {}
                       ELSE {WriteSome(Head(Tail(queue)), 0)})
       \/ /\ queue # <<>>
          /\ ~FrontDone(op)
          /\ offset' = Advanced(op)
          /\ ops' = (ops \ {op}) \union {WriteSome(Head(queue), offset')}
          /\ UNCHANGED queue
    /\ UNCHANGED <<active, broken, accepted, wire, readVars>>

-----------------------------------------------------------------------------
(* The receiving side.                                                     *)

\* post_read(): called once per loop, since no step makes a loop idle again.
PostRead(l) ==
    /\ reads[l].phase = "idle"
    /\ reads' = [reads EXCEPT ![l] = ReadSome]
    /\ UNCHANGED <<active, broken, writeVars, handler, buffer, incoming, delivered>>

\* The peer's next chunk arrives and is read into buffer_.
KernelReads(l) ==
    /\ reads[l].phase = "started"
    /\ ~broken
    /\ incoming < MaxChunks
    /\ incoming' = incoming + 1
    /\ buffer' = incoming + 1
    /\ reads' = [reads EXCEPT ![l] = [phase |-> "completed", ec |-> FALSE]]
    /\ UNCHANGED <<active, broken, writeVars, handler, delivered>>

\* The connection is lost, or the peer closed it, under a read.
KernelFailsRead(l) ==
    /\ reads[l].phase = "started"
    /\ broken' = TRUE
    /\ reads' = [reads EXCEPT ![l] = [phase |-> "completed", ec |-> TRUE]]
    /\ UNCHANGED <<active, writeVars, handler, buffer, incoming, delivered>>

ReadRefused(l) == ~active \/ reads[l].ec

\* handle_read(): the unlocked test of active_.
HandleReadCheck(l) ==
    /\ reads[l].phase = "completed"
    /\ reads' = [reads EXCEPT ![l].phase =
                   IF ReadRefused(l) THEN "return" ELSE "proceed"]
    /\ UNCHANGED <<active, broken, writeVars, handler, buffer, incoming, delivered>>

\* handle_read() copies the handler under handler_mutex_; without one it goes
\* straight on to the next read.
HandleReadCopy(l) ==
    /\ reads[l].phase = "proceed"
    /\ reads' = [reads EXCEPT ![l] =
                   IF handler THEN [phase |-> "deliver", ec |-> FALSE] ELSE ReadSome]
    /\ UNCHANGED <<active, broken, writeVars, handler, buffer, incoming, delivered>>

\* The handler reads buffer_, returns, and the next read is started.
HandleReadDeliver(l) ==
    /\ reads[l].phase = "deliver"
    /\ delivered' = Append(delivered, buffer)
    /\ reads' = [reads EXCEPT ![l] = ReadSome]
    /\ UNCHANGED <<active, broken, writeVars, handler, buffer, incoming>>

-----------------------------------------------------------------------------
\* close(), also run by the destructor: pending operations are cancelled and
\* complete with operation_aborted; one already completed keeps its result.
Close ==
    /\ active' = FALSE
    /\ handler' = FALSE
    /\ ops' = {IF op.phase = "started" THEN Completed(op, 0, TRUE) ELSE op : op \in ops}
    /\ reads' = [l \in Loops |-> IF reads[l].phase = "started"
                                 THEN [phase |-> "completed", ec |-> TRUE]
                                 ELSE reads[l]]
    /\ UNCHANGED <<broken, queue, offset, accepted, wire, buffer, incoming, delivered>>

KernelWrite(op) == \E n \in 0..(op.msg.size - op.from) : KernelWrites(op, n)

Next ==
    \/ \E size \in Sizes : Send(size)
    \/ \E op \in ops : \/ KernelWrite(op)
                       \/ KernelFailsWrite(op)
                       \/ HandleWriteCheck(op)
                       \/ Clear(op)
                       \/ HandleWrite(op)
    \/ \E l \in Loops : \/ PostRead(l)
                        \/ KernelReads(l)
                        \/ KernelFailsRead(l)
                        \/ HandleReadCheck(l)
                        \/ HandleReadCopy(l)
                        \/ HandleReadDeliver(l)
    \/ Close

\* The io_context runs every posted handler, and a write to the kernel ends
\* some time: in success, when the peer reads, or in an error.
Fairness ==
    WF_vars(\E op \in ops : \/ KernelWrite(op)
                            \/ KernelFailsWrite(op)
                            \/ HandleWriteCheck(op)
                            \/ Clear(op)
                            \/ HandleWrite(op))

Spec == Init /\ [][Next]_vars
FairSpec == Spec /\ Fairness

-----------------------------------------------------------------------------
\* The members of tcp_socket keep their types: offset_ never becomes negative, and a
\* write or read is in one of the phases of its handler.
TypeOK ==
    /\ active \in BOOLEAN
    /\ broken \in BOOLEAN
    /\ queue \in Seq(Message)
    /\ offset \in Nat
    /\ ops \subseteq Op
    /\ accepted \in Seq(Message)
    /\ wire \in Seq(Byte)
    /\ reads \in [Loops -> [phase : ReadPhases, ec : BOOLEAN]]
    /\ handler \in BOOLEAN
    /\ buffer \in Nat
    /\ incoming \in Nat
    /\ delivered \in Seq(Nat)

\* The queue is the only thing that keeps a message's bytes alive while the
\* kernel reads them, and offset_ is only meaningful for the write in flight:
\* whatever send(), close() and the two halves of handle_write() interleave to,
\* an unfinished write works on the front of the queue, at offset_.
WriteOwnsFront ==
    \A op \in ops : /\ queue # <<>>
                    /\ op.msg = Head(queue)
                    /\ op.phase # "clear" => op.from = offset

\* send() starts a write only on an empty queue and handle_write() only when its
\* own write has ended: there are never two at once, and a queued message is
\* never left without the write that will get it out.
OneWriteInFlight ==
    /\ \A op1, op2 \in ops : op1 = op2
    /\ queue # <<>> => ops # {}

\* An accepted message does not stay queued for ever.
QueueDrains == queue # <<>> ~> queue = <<>>

\* The bytes of the front message that the kernel has taken.
Done == IF queue = <<>> THEN 0
        ELSE LET op == CHOOSE x \in ops : TRUE IN op.from + op.bytes

Stream == INSTANCE TcpStream
            WITH up <- active /\ ~broken, gone <- Len(accepted) - Len(queue), done <- Done

\* tcp_socket implements the byte stream: handle_write() pops a message exactly when its
\* bytes are on the wire, an unfinished queue is dropped only after close() or an error,
\* and handle_read() shows its handler what arrived, in order.
ImplementsStream == Stream!Spec
=============================================================================
