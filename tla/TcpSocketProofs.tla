-------------------------- MODULE TcpSocketProofs --------------------------
(***************************************************************************)
(* For any queue limit, message sizes and number of sends: the sending     *)
(* queue of asio::tcp_socket has exactly one write in flight while it      *)
(* holds a message, that write works on the front message at offset_, and  *)
(* the socket implements TcpStream.                                        *)
(***************************************************************************)
EXTENDS TcpSocket, TLAPS

\* The parts of the inductive invariant support each other: two writes could
\* pop each other's message, and a write on another message could pop an
\* unwritten one, so neither part is inductive alone.
Inv == TypeOK /\ WriteOwnsFront /\ OneWriteInFlight

\* The bytes of a message are a sequence of bytes.
LEMMA BytesType ==
    ASSUME NEW m \in Message
    PROVE  /\ Bytes(m) \in Seq(Byte)
           /\ Len(Bytes(m)) = m.size
BY DEF Bytes, Message, Byte

\* Initially nothing is queued and nothing is in flight.
LEMMA InitInv == Init => Inv
<1> SUFFICES ASSUME Init PROVE Inv
  OBVIOUS
<1>1. Idle \in [phase : ReadPhases, ec : BOOLEAN]
  BY DEF Idle, ReadPhases
<1>2. TypeOK
  <2>1. reads \in [Loops -> [phase : ReadPhases, ec : BOOLEAN]]
    BY <1>1 DEF Init
  <2>2. /\ queue \in Seq(Message) /\ accepted \in Seq(Message)
        /\ wire \in Seq(Byte) /\ delivered \in Seq(Nat)
    BY DEF Init
  <2>3. QED
    BY <2>1, <2>2 DEF Init, TypeOK
<1>3. WriteOwnsFront /\ OneWriteInFlight
  BY DEF Init, WriteOwnsFront, OneWriteInFlight
<1>4. QED
  BY <1>2, <1>3 DEF Inv

\* A write that has just been started on the front of the queue, alone, puts the
\* queue in order whatever came before.
LEMMA FreshWrite ==
    ASSUME queue' # <<>>, ops' = {WriteSome(Head(queue'), offset')}
    PROVE  WriteOwnsFront' /\ OneWriteInFlight'
<1> DEFINE w == WriteSome(Head(queue'), offset')
<1>1. w.msg = Head(queue') /\ w.from = offset'
  BY DEF WriteSome
<1> HIDE DEF w
<1>2. WriteOwnsFront'
  BY <1>1 DEF WriteOwnsFront, w
<1>3. OneWriteInFlight'
  BY DEF OneWriteInFlight
<1>4. QED
  BY <1>2, <1>3

\* Replacing the write in flight by a later phase of itself keeps it in order.
LEMMA SameWrite ==
    ASSUME Inv, NEW op \in ops, NEW op2 \in Op, op2.msg = op.msg, op2.from = op.from,
           op2.phase = "clear" \/ op.phase # "clear",
           ops' = (ops \ {op}) \union {op2}, UNCHANGED <<queue, offset>>
    PROVE  WriteOwnsFront' /\ OneWriteInFlight'
<1>1. ops' = {op2}
  BY DEF Inv, OneWriteInFlight
<1>2. QED
  BY <1>1 DEF Inv, WriteOwnsFront, OneWriteInFlight

\* A step of the receiving side leaves the sending queue alone.
LEMMA ReadKeepsInv ==
    ASSUME Inv, NEW l \in Loops,
           \/ PostRead(l) \/ KernelReads(l) \/ KernelFailsRead(l)
           \/ HandleReadCheck(l) \/ HandleReadCopy(l) \/ HandleReadDeliver(l)
    PROVE  Inv'
<1>1. UNCHANGED writeVars
  BY DEF PostRead, KernelReads, KernelFailsRead, HandleReadCheck, HandleReadCopy,
         HandleReadDeliver
<1>2. ReadSome \in [phase : ReadPhases, ec : BOOLEAN]
  BY DEF ReadSome, ReadPhases
<1>3. TypeOK'
  <2> USE DEF Inv, TypeOK, writeVars
  <2>1. CASE PostRead(l)
    BY <1>1, <1>2, <2>1 DEF PostRead
  <2>2. CASE KernelReads(l)
    BY <1>1, <2>2 DEF KernelReads, ReadPhases
  <2>3. CASE KernelFailsRead(l)
    BY <1>1, <2>3 DEF KernelFailsRead, ReadPhases
  <2>4. CASE HandleReadCheck(l)
    BY <1>1, <2>4 DEF HandleReadCheck, ReadPhases
  <2>5. CASE HandleReadCopy(l)
    BY <1>1, <1>2, <2>5 DEF HandleReadCopy, ReadPhases
  <2>6. CASE HandleReadDeliver(l)
    BY <1>1, <1>2, <2>6 DEF HandleReadDeliver
  <2>7. QED
    BY <2>1, <2>2, <2>3, <2>4, <2>5, <2>6
<1>4. QED
  BY <1>1, <1>3 DEF Inv, writeVars, WriteOwnsFront, OneWriteInFlight

\* A message that is added behind others leaves the front where it is.
LEMMA AppendKeepsHead ==
    ASSUME NEW S, NEW q \in Seq(S), q # <<>>, NEW x \in S
    PROVE  Append(q, x) # <<>> /\ Head(Append(q, x)) = Head(q)
OBVIOUS

\* Every step of the socket preserves the invariant.
LEMMA NextInv == Inv /\ [Next]_vars => Inv'
<1> SUFFICES ASSUME Inv, [Next]_vars PROVE Inv'
  OBVIOUS
<1> USE DEF Inv
<1>1. ASSUME NEW size \in Sizes, Send(size) PROVE Inv'
  <2> DEFINE m == [id |-> Len(accepted) + 1, size |-> size]
  <2>1. m \in Message /\ WriteSome(m, 0) \in Op
    BY SizesAssumption DEF Message, TypeOK, WriteSome, Op, WritePhases
  <2>2. TypeOK'
    BY <1>1, <2>1 DEF Send, TypeOK, readVars
  <2>3. CASE queue = <<>>
    <3>1. ops = {}
      BY <2>3 DEF WriteOwnsFront
    <3>2. queue' = Append(queue, m) /\ offset' = 0 /\ ops' = {WriteSome(m, 0)}
      BY <1>1, <2>3, <3>1 DEF Send, QueueIdle
    <3>3. queue' # <<>> /\ Head(queue') = m
      BY <2>1, <2>3, <3>2
    <3>4. QED
      BY <2>2, <3>2, <3>3, FreshWrite
  <2>4. CASE queue # <<>>
    <3>1. queue' = Append(queue, m) /\ UNCHANGED <<offset, ops>>
      BY <1>1, <2>4 DEF Send, QueueIdle
    <3> HIDE DEF m
    <3>2. queue' # <<>> /\ Head(queue') = Head(queue)
      BY <2>1, <2>4, <3>1, AppendKeepsHead DEF TypeOK
    <3>3. QED
      BY <2>2, <2>4, <3>1, <3>2 DEF WriteOwnsFront, OneWriteInFlight
  <2>5. QED
    BY <2>3, <2>4
<1>2. ASSUME NEW op \in ops, KernelWrite(op) PROVE Inv'
  <2>1. PICK n \in 0..(op.msg.size - op.from) : KernelWrites(op, n)
    BY <1>2 DEF KernelWrite
  <2>2. op \in Op /\ op.msg \in Message /\ op.msg.size \in Nat /\ op.from \in Nat
    BY DEF TypeOK, Op, Message
  <2>3. n \in Nat /\ op.from + n <= op.msg.size
    BY <2>2
  <2>4. /\ Completed(op, n, FALSE) \in Op
        /\ Completed(op, n, FALSE).msg = op.msg
        /\ Completed(op, n, FALSE).from = op.from
    BY <2>2, <2>3 DEF Completed, Op, WritePhases
  <2>5. SubSeq(Bytes(op.msg), op.from + 1, op.from + n) \in Seq(Byte)
    BY <2>2, <2>3, BytesType
  <2> DEFINE taken == SubSeq(Bytes(op.msg), op.from + 1, op.from + n)
  <2>6. wire' = wire \o taken /\ ops' \subseteq Op
    BY <2>1, <2>4 DEF KernelWrites, TypeOK
  <2> HIDE DEF taken
  <2>7. wire' \in Seq(Byte)
    BY <2>5, <2>6 DEF taken, TypeOK
  <2>8. TypeOK'
    BY <2>1, <2>6, <2>7 DEF KernelWrites, TypeOK, readVars
  <2>9. QED
    BY <2>1, <2>4, <2>8, SameWrite DEF KernelWrites
<1>3. ASSUME NEW op \in ops, KernelFailsWrite(op) PROVE Inv'
  <2>1. /\ Completed(op, 0, TRUE) \in Op
        /\ Completed(op, 0, TRUE).msg = op.msg
        /\ Completed(op, 0, TRUE).from = op.from
    BY DEF TypeOK, Completed, Op, WritePhases
  <2>2. TypeOK'
    BY <1>3, <2>1 DEF KernelFailsWrite, TypeOK, readVars
  <2>3. QED
    BY <1>3, <2>1, <2>2, SameWrite DEF KernelFailsWrite
<1>4. ASSUME NEW op \in ops, HandleWriteCheck(op) PROVE Inv'
  <2>1. PICK phase \in {"clear", "proceed"} :
          ops' = (ops \ {op}) \union {[op EXCEPT !.phase = phase]}
    BY <1>4 DEF HandleWriteCheck
  <2> DEFINE op2 == [op EXCEPT !.phase = phase]
  <2>2. op2 \in Op /\ op2.msg = op.msg /\ op2.from = op.from
    BY DEF TypeOK, Op, WritePhases
  <2>3. TypeOK'
    BY <1>4, <2>1, <2>2 DEF HandleWriteCheck, TypeOK, readVars
  <2>4. QED
    BY <1>4, <2>1, <2>2, <2>3, SameWrite DEF HandleWriteCheck
<1>5. ASSUME NEW op \in ops, Clear(op) PROVE Inv'
  <2>1. TypeOK'
    BY <1>5 DEF Clear, TypeOK, readVars
  <2>2. ops' = {} /\ queue' = <<>>
    BY <1>5 DEF Clear, OneWriteInFlight
  <2>3. QED
    BY <2>1, <2>2 DEF WriteOwnsFront, OneWriteInFlight
<1>6. ASSUME NEW op \in ops, HandleWrite(op) PROVE Inv'
  <2>1. /\ op \in Op /\ op.bytes \in Nat /\ ops \ {op} = {}
        /\ queue # <<>> /\ Head(queue) \in Message
    BY DEF TypeOK, Op, OneWriteInFlight, WriteOwnsFront
  <2>2. CASE /\ FrontDone(op)
             /\ offset' = 0
             /\ queue' = Tail(queue)
             /\ ops' = (ops \ {op}) \union
                         (IF Tail(queue) = <<>> THEN {}
                          ELSE {WriteSome(Head(Tail(queue)), 0)})
    <3>1. queue' \in Seq(Message)
      BY <2>1, <2>2 DEF TypeOK
    <3>2. queue' # <<>> => WriteSome(Head(queue'), 0) \in Op
      BY <3>1 DEF WriteSome, Op, WritePhases
    <3>3. ops' = IF queue' = <<>> THEN {} ELSE {WriteSome(Head(queue'), 0)}
      BY <2>1, <2>2
    <3>4. TypeOK'
      BY <1>6, <2>2, <3>1, <3>2, <3>3 DEF HandleWrite, TypeOK, readVars
    <3>5. CASE queue' = <<>>
      BY <3>3, <3>4, <3>5 DEF WriteOwnsFront, OneWriteInFlight
    <3>6. CASE queue' # <<>>
      BY <2>2, <3>3, <3>4, <3>6, FreshWrite
    <3>7. QED
      BY <3>5, <3>6
  <2>3. CASE /\ ~FrontDone(op)
             /\ offset' = Advanced(op)
             /\ ops' = (ops \ {op}) \union {WriteSome(Head(queue), offset')}
             /\ UNCHANGED queue
    <3>1. offset' \in Nat /\ WriteSome(Head(queue), offset') \in Op
      BY <2>1, <2>3 DEF TypeOK, Advanced, WriteSome, Op, WritePhases
    <3>2. TypeOK'
      BY <1>6, <2>1, <2>3, <3>1 DEF HandleWrite, TypeOK, readVars
    <3>3. queue' # <<>> /\ ops' = {WriteSome(Head(queue'), offset')}
      BY <2>1, <2>3
    <3>4. QED
      BY <3>2, <3>3, FreshWrite
  <2>4. QED
    BY <1>6, <2>1, <2>2, <2>3 DEF HandleWrite
<1>7. ASSUME Close PROVE Inv'
  <2> DEFINE f(op) == IF op.phase = "started" THEN Completed(op, 0, TRUE) ELSE op
  <2>1. ASSUME NEW op \in ops
        PROVE f(op) \in Op /\ f(op).msg = op.msg /\ f(op).from = op.from
                /\ (f(op).phase = "clear" => op.phase = "clear")
    BY DEF TypeOK, Completed, Op, WritePhases
  <2>2. ops' = {f(op) : op \in ops} /\ UNCHANGED <<queue, offset>>
    BY <1>7 DEF Close
  <2>3. TypeOK'
    BY <1>7, <2>1, <2>2 DEF Close, TypeOK, ReadPhases
  <2>4. WriteOwnsFront'
    BY <2>1, <2>2 DEF WriteOwnsFront
  <2>5. OneWriteInFlight'
    BY <2>2 DEF OneWriteInFlight
  <2>6. QED
    BY <2>3, <2>4, <2>5
<1>8. CASE UNCHANGED vars
  BY <1>8 DEF vars, writeVars, readVars, TypeOK, WriteOwnsFront, OneWriteInFlight
<1>9. QED
  BY <1>1, <1>2, <1>3, <1>4, <1>5, <1>6, <1>7, <1>8, ReadKeepsInv DEF Next

\* Type correctness of the socket's state, for every value of the constants.
THEOREM TypeCorrect == Spec => []TypeOK
BY InitInv, NextInv, PTL DEF Spec, Inv

\* The unfinished write always works on the front message, at offset_.
THEOREM WriteOwnsFrontAlways == Spec => []WriteOwnsFront
BY InitInv, NextInv, PTL DEF Spec, Inv

\* Never two writes at once, and never a queued message without one.
THEOREM OneWriteAlways == Spec => []OneWriteInFlight
BY InitInv, NextInv, PTL DEF Spec, Inv

-----------------------------------------------------------------------------
(* The byte stream                                                         *)

Up == active /\ ~broken

\* The queue is the end of what was accepted.
QueueOfAccepted ==
    /\ Len(queue) <= Len(accepted)
    /\ \A i \in 1..Len(queue) : queue[i] = accepted[(Len(accepted) - Len(queue)) + i]

\* A write stays within its message; it fails, and its handler clears the queue, only
\* when the connection is gone.
WriteInv ==
    \A op \in ops : /\ op.from + op.bytes <= op.msg.size
                    /\ op.phase = "started" => op.bytes = 0
                    /\ op.ec \/ op.phase = "clear" => ~Up

\* Where the read loop is, and how much of what arrived was shown to the handler.
ReadInv(l) ==
    LET phase == reads[l].phase
        fresh == buffer = incoming /\ incoming = Len(delivered) + 1
    IN /\ Len(delivered) <= incoming
       /\ phase = "proceed" => ~reads[l].ec
       /\ phase = "deliver" => fresh
       /\ handler /\ phase \in {"completed", "proceed"} /\ ~reads[l].ec => fresh
       /\ handler /\ phase \in {"idle", "started"} => incoming = Len(delivered)

\* The write in flight says how far the front message is.
LEMMA DoneIs ==
    ASSUME Inv
    PROVE  /\ Done \in Nat
           /\ \A op \in ops : queue # <<>> /\ Done = op.from + op.bytes
           /\ queue = <<>> => Done = 0
  <1>1. ASSUME NEW op \in ops PROVE queue # <<>> /\ Done = op.from + op.bytes
    BY DEF Inv, WriteOwnsFront, OneWriteInFlight, Done
  <1>2. queue = <<>> => Done = 0
    BY DEF Done
  <1>3. Done \in Nat
    <2>1. CASE queue = <<>>
      BY <1>2, <2>1
    <2>2. CASE queue # <<>>
      <3>1. PICK op \in ops : TRUE
        BY <2>2 DEF Inv, OneWriteInFlight
      <3>2. op.from \in Nat /\ op.bytes \in Nat
        BY DEF Inv, TypeOK, Op
      <3>3. QED
        BY <1>1, <3>2
    <2>3. QED
      BY <2>1, <2>2
  <1>4. QED
    BY <1>1, <1>2, <1>3

\* The same in the next state.
LEMMA DoneIsNext ==
    ASSUME Inv'
    PROVE  /\ Done' \in Nat
           /\ \A op \in ops' : queue' # <<>> /\ Done' = op.from + op.bytes
           /\ queue' = <<>> => Done' = 0
  <1>1. ASSUME NEW op \in ops' PROVE queue' # <<>> /\ Done' = op.from + op.bytes
    BY DEF Inv, WriteOwnsFront, OneWriteInFlight, Done
  <1>2. queue' = <<>> => Done' = 0
    BY DEF Done
  <1>3. Done' \in Nat
    <2>1. CASE queue' = <<>>
      BY <1>2, <2>1
    <2>2. CASE queue' # <<>>
      <3>1. PICK op \in ops' : TRUE
        BY <2>2 DEF Inv, OneWriteInFlight
      <3>2. op.from \in Nat /\ op.bytes \in Nat
        BY DEF Inv, TypeOK, Op
      <3>3. QED
        BY <1>1, <3>2
    <2>3. QED
      BY <2>1, <2>2
  <1>4. QED
    BY <1>1, <1>2, <1>3

\* The front of the queue is the message after those that are gone.
LEMMA FrontIs ==
    ASSUME Inv, QueueOfAccepted, queue # <<>>
    PROVE  LET gone == Len(accepted) - Len(queue)
           IN /\ gone \in Nat /\ gone < Len(accepted)
              /\ Head(queue) = accepted[gone + 1] /\ Head(queue) \in Message
              /\ Bytes(accepted[gone + 1]) \in Seq(Byte)
              /\ Len(Bytes(accepted[gone + 1])) = Head(queue).size
  <1>1. queue \in Seq(Message) /\ accepted \in Seq(Message)
    BY DEF Inv, TypeOK
  <1>2. Len(queue) \in Nat /\ Len(queue) > 0 /\ Len(accepted) \in Nat /\ Head(queue) = queue[1] /\ queue[1] \in Message
    BY <1>1
  <1>3. queue[1] = accepted[(Len(accepted) - Len(queue)) + 1]
    BY <1>2 DEF QueueOfAccepted
  <1>4. QED
    BY <1>2, <1>3, BytesType DEF QueueOfAccepted

\* send() accepts a message.
LEMMA SendRefines ==
    ASSUME Inv, Inv', QueueOfAccepted, WriteInv, NEW size \in Sizes, Send(size)
    PROVE  Stream!Accept /\ QueueOfAccepted' /\ WriteInv'
  <1> DEFINE m == [id |-> Len(accepted) + 1, size |-> size]
  <1>1. /\ queue' = Append(queue, m) /\ accepted' = Append(accepted, m)
        /\ UNCHANGED <<active, broken, wire, incoming, delivered>>
        /\ IF queue = <<>> THEN ops' = ops \union {WriteSome(m, 0)} ELSE ops' = ops
    BY DEF Send, QueueIdle, readVars
  <1>2. m \in Message /\ m.size \in Nat
    BY SizesAssumption DEF Inv, TypeOK, Message
  <1>3. queue \in Seq(Message) /\ accepted \in Seq(Message)
    BY DEF Inv, TypeOK
  <1>4. /\ WriteSome(m, 0).from = 0 /\ WriteSome(m, 0).bytes = 0 /\ WriteSome(m, 0).msg = m
        /\ WriteSome(m, 0).phase = "started" /\ WriteSome(m, 0).ec = FALSE
    BY DEF WriteSome
  <1>5. WriteInv'
    BY <1>1, <1>2, <1>4 DEF WriteInv, Up
  <1> HIDE DEF m
  <1>6. /\ Len(queue') = Len(queue) + 1 /\ Len(accepted') = Len(accepted) + 1
        /\ Len(queue) \in Nat /\ Len(accepted) \in Nat
        /\ \A i \in 1..Len(accepted) : accepted'[i] = accepted[i]
        /\ \A i \in 1..Len(queue) : queue'[i] = queue[i]
        /\ queue'[Len(queue) + 1] = m /\ accepted'[Len(accepted) + 1] = m
        /\ queue' # <<>>
    BY <1>1, <1>2, <1>3
  <1>7. (Len(accepted) - Len(queue))' = Len(accepted) - Len(queue)
    BY <1>6
  <1>8. QueueOfAccepted'
    <2>1. Len(queue') <= Len(accepted')
      BY <1>6 DEF QueueOfAccepted
    <2>2. ASSUME NEW i \in 1..Len(queue') PROVE queue'[i] = accepted'[(Len(accepted') - Len(queue')) + i]
      <3>1. CASE i = Len(queue) + 1
        <4>1. (Len(accepted') - Len(queue')) + i = Len(accepted) + 1
          BY <1>6, <3>1
        <4>2. QED
          BY <1>6, <3>1, <4>1
      <3>2. CASE i # Len(queue) + 1
        <4>1. i \in 1..Len(queue)
          BY <1>6, <3>2
        <4>2. (Len(accepted) - Len(queue)) + i \in 1..Len(accepted)
          BY <1>6, <4>1 DEF QueueOfAccepted
        <4>3. queue[i] = accepted[(Len(accepted) - Len(queue)) + i]
          BY <4>1 DEF QueueOfAccepted
        <4>4. QED
          BY <1>6, <1>7, <4>1, <4>2, <4>3
      <3>3. QED
        BY <3>1, <3>2
    <2>3. QED
      BY <2>1, <2>2 DEF QueueOfAccepted
  <1>9. Done' = Done
    <2>1. CASE queue = <<>>
      <3>1. WriteSome(m, 0) \in ops' /\ Done = 0
        BY <1>1, <2>1, DoneIs
      <3>2. Done' = WriteSome(m, 0).from + WriteSome(m, 0).bytes
        BY <3>1, DoneIsNext
      <3>3. QED
        BY <1>4, <3>1, <3>2
    <2>2. CASE queue # <<>>
      BY <1>1, <1>6, <2>2 DEF Done
    <2>3. QED
      BY <2>1, <2>2
  <1>10. QED
    BY <1>1, <1>5, <1>6, <1>7, <1>8, <1>9 DEF Stream!Accept

\* The kernel transmits bytes of the front message.
LEMMA KernelWriteRefines ==
    ASSUME Inv, Inv', QueueOfAccepted, WriteInv, NEW op \in ops, KernelWrite(op)
    PROVE  Stream!Transmit /\ QueueOfAccepted' /\ WriteInv'
  <1>1. PICK n \in 0..(op.msg.size - op.from) : KernelWrites(op, n)
    BY DEF KernelWrite
  <1> DEFINE c == Completed(op, n, FALSE)
             gone == Len(accepted) - Len(queue)
             front == Bytes(accepted[gone + 1])
  <1>2. /\ op \in Op /\ op.msg.size \in Nat /\ op.from \in Nat /\ op.phase = "started" /\ op.bytes = 0
        /\ op.msg = Head(queue) /\ queue # <<>>
    BY <1>1 DEF KernelWrites, Inv, TypeOK, Op, Message, WriteInv, WriteOwnsFront
  <1>3. n \in Nat /\ op.from + n <= op.msg.size
    BY <1>2
  <1>4. /\ UNCHANGED <<active, broken, queue, accepted, incoming, delivered>>
        /\ wire' = wire \o SubSeq(Bytes(op.msg), op.from + 1, op.from + n)
        /\ ops' = (ops \ {op}) \union {c}
    BY <1>1 DEF KernelWrites, readVars
  <1>5. c.msg = op.msg /\ c.from = op.from /\ c.bytes = n /\ ~c.ec /\ c.phase = "completed"
    BY <1>2 DEF Completed, Op
  <1> HIDE DEF c
  <1>6. Done = op.from /\ Done' = op.from + n
    <2>1. c \in ops'
      BY <1>4
    <2>2. Done = op.from + op.bytes /\ Done' = c.from + c.bytes
      BY <2>1, DoneIs, DoneIsNext
    <2>3. QED
      BY <1>2, <1>5, <2>2
  <1>7. gone < Len(accepted) /\ front = Bytes(op.msg) /\ Len(front) = op.msg.size
    BY <1>2, FrontIs
  <1>8. WriteInv'
    BY <1>3, <1>4, <1>5 DEF WriteInv, Up
  <1>9. QueueOfAccepted'
    BY <1>4 DEF QueueOfAccepted
  <1>10. Stream!Transmit
    <2>1. Done <= Done' /\ Done' <= Len(front)
      BY <1>2, <1>3, <1>6, <1>7
    <2>2. wire' = wire \o SubSeq(front, Done + 1, Done')
      BY <1>4, <1>6, <1>7
    <2>3. QED
      BY <1>4, <1>7, <2>1, <2>2 DEF Stream!Transmit, Stream!Front
  <1>11. QED
    BY <1>8, <1>9, <1>10

\* A connection that breaks or is closed goes down, once.
LEMMA DownRefines ==
    ASSUME Up' => Up, UNCHANGED <<queue, accepted, wire, incoming, delivered>>, Done' = Done
    PROVE  Stream!GoDown \/ UNCHANGED Stream!vars
  BY DEF Stream!GoDown, Stream!vars, Stream!sending, Up

\* A write ends in an error when the connection breaks.
LEMMA KernelFailsWriteRefines ==
    ASSUME Inv, Inv', QueueOfAccepted, WriteInv, NEW op \in ops, KernelFailsWrite(op)
    PROVE  [Stream!Next]_Stream!vars /\ QueueOfAccepted' /\ WriteInv'
  <1> DEFINE c == Completed(op, 0, TRUE)
  <1>1. /\ UNCHANGED <<active, queue, accepted, wire, incoming, delivered>> /\ broken' = TRUE
        /\ ops' = (ops \ {op}) \union {c} /\ op.phase = "started"
    BY DEF KernelFailsWrite, readVars
  <1>2. op \in Op /\ op.from \in Nat /\ op.bytes = 0 /\ op.from + op.bytes <= op.msg.size
    BY <1>1 DEF Inv, TypeOK, Op, WriteInv
  <1>3. c.msg = op.msg /\ c.from = op.from /\ c.bytes = 0 /\ c.phase = "completed"
    BY <1>2 DEF Completed, Op
  <1> HIDE DEF c
  <1>4. Done' = Done
    <2>1. c \in ops'
      BY <1>1
    <2>2. QED
      BY <1>2, <1>3, <2>1, DoneIs, DoneIsNext
  <1>5. ~Up'
    BY <1>1 DEF Up
  <1>6. WriteInv'
    BY <1>1, <1>2, <1>3, <1>5 DEF WriteInv
  <1>7. QueueOfAccepted'
    BY <1>1 DEF QueueOfAccepted
  <1>8. QED
    BY <1>1, <1>4, <1>5, <1>6, <1>7, DownRefines DEF Stream!Next

\* The unlocked test of active_ changes nothing that the user sees.
LEMMA HandleWriteCheckRefines ==
    ASSUME Inv, Inv', QueueOfAccepted, WriteInv, NEW op \in ops, HandleWriteCheck(op)
    PROVE  UNCHANGED Stream!vars /\ QueueOfAccepted' /\ WriteInv'
  <1> DEFINE phase == IF WriteRefused(op) THEN "clear" ELSE "proceed"
             c == [op EXCEPT !.phase = phase]
  <1>1. /\ UNCHANGED <<active, broken, queue, accepted, wire, incoming, delivered>>
        /\ ops' = (ops \ {op}) \union {c}
    BY DEF HandleWriteCheck, readVars
  <1>2. op \in Op
    BY DEF Inv, TypeOK
  <1>3. c.msg = op.msg /\ c.from = op.from /\ c.bytes = op.bytes /\ c.ec = op.ec /\ c.phase = phase
    BY <1>2 DEF Op
  <1>4. phase # "started" /\ (phase = "clear" => ~Up)
    BY DEF WriteRefused, WriteInv, Up
  <1> HIDE DEF c, phase
  <1>5. Done' = Done
    <2>1. c \in ops'
      BY <1>1
    <2>2. QED
      BY <1>3, <2>1, DoneIs, DoneIsNext
  <1>6. WriteInv'
    BY <1>1, <1>3, <1>4 DEF WriteInv, Up
  <1>7. QueueOfAccepted'
    BY <1>1 DEF QueueOfAccepted
  <1>8. QED
    BY <1>1, <1>5, <1>6, <1>7 DEF Stream!vars, Stream!sending

\* clear() abandons what is queued; the connection is gone by then.
LEMMA ClearRefines ==
    ASSUME Inv, Inv', QueueOfAccepted, WriteInv, NEW op \in ops, Clear(op)
    PROVE  Stream!Abandon /\ QueueOfAccepted' /\ WriteInv'
  <1>1. /\ UNCHANGED <<active, broken, accepted, wire, incoming, delivered>>
        /\ queue' = <<>> /\ op.phase = "clear" /\ ops' = ops \ {op}
    BY DEF Clear, readVars
  <1>2. ~Up /\ WriteInv'
    BY <1>1 DEF WriteInv, Up
  <1>3. Len(queue') = 0 /\ Len(accepted) \in Nat
    BY <1>1 DEF Inv, TypeOK
  <1>4. QueueOfAccepted'
    BY <1>1, <1>3 DEF QueueOfAccepted
  <1>5. (Len(accepted) - Len(queue))' = Len(accepted)
    BY <1>1, <1>3
  <1>6. Done' = 0
    BY <1>1, DoneIsNext
  <1>7. (active /\ ~broken) = FALSE /\ (active /\ ~broken)' = (active /\ ~broken)
    BY <1>1, <1>2 DEF Up
  <1>8. Stream!Abandon
    BY <1>1, <1>5, <1>6, <1>7 DEF Stream!Abandon
  <1>9. QED
    BY <1>2, <1>4, <1>8

\* handle_write() finishes the front message when all of it is on the wire, and starts
\* the next write where the last one ended.
LEMMA HandleWriteRefines ==
    ASSUME Inv, Inv', QueueOfAccepted, WriteInv, NEW op \in ops, HandleWrite(op)
    PROVE  [Stream!Next]_Stream!vars /\ QueueOfAccepted' /\ WriteInv'
  <1> DEFINE gone == Len(accepted) - Len(queue)
             front == Bytes(accepted[gone + 1])
  <1>1. /\ UNCHANGED <<active, broken, accepted, wire, incoming, delivered>> /\ op.phase = "proceed"
    BY DEF HandleWrite, readVars
  <1>2. /\ op \in Op /\ op.from \in Nat /\ op.bytes \in Nat /\ ops \ {op} = {}
        /\ op.msg = Head(queue) /\ queue # <<>> /\ Head(queue).size \in Nat
        /\ op.from = offset /\ op.from + op.bytes <= Head(queue).size
    BY <1>1 DEF Inv, TypeOK, Op, Message, WriteInv, WriteOwnsFront, OneWriteInFlight
  <1>3. gone \in Nat /\ gone < Len(accepted) /\ Len(front) = Head(queue).size
    BY <1>2, FrontIs
  <1>4. Done = op.from + op.bytes /\ Advanced(op) = op.from + op.bytes
    BY <1>2, DoneIs DEF Advanced
  <1>5. queue \in Seq(Message) /\ accepted \in Seq(Message) /\ queue' \in Seq(Message)
    BY DEF Inv, TypeOK
  <1>6. CASE /\ FrontDone(op)
             /\ queue' = Tail(queue)
             /\ ops' = (ops \ {op}) \union
                         (IF Tail(queue) = <<>> THEN {}
                          ELSE {WriteSome(Head(Tail(queue)), 0)})
    <2>1. Done = Len(front)
      BY <1>2, <1>3, <1>4, <1>6 DEF FrontDone
    <2>2. /\ Len(queue) \in Nat /\ Len(queue) > 0 /\ Len(accepted) \in Nat /\ Len(queue') = Len(queue) - 1
          /\ \A i \in 1..Len(queue') : queue'[i] = queue[i + 1]
      BY <1>2, <1>5, <1>6
    <2>3. (Len(accepted) - Len(queue))' = gone + 1
      BY <1>1, <2>2
    <2>4. QueueOfAccepted'
      <3>1. Len(queue') <= Len(accepted')
        BY <1>1, <2>2 DEF QueueOfAccepted
      <3>2. ASSUME NEW i \in 1..Len(queue') PROVE queue'[i] = accepted'[(Len(accepted') - Len(queue')) + i]
        <4>1. i + 1 \in 1..Len(queue) /\ (Len(accepted') - Len(queue')) + i = gone + (i + 1)
          BY <1>1, <2>2
        <4>2. QED
          BY <1>1, <2>2, <4>1 DEF QueueOfAccepted
      <3>3. QED
        BY <3>1, <3>2 DEF QueueOfAccepted
    <2>5. ASSUME NEW w \in ops'
          PROVE  w.from = 0 /\ w.bytes = 0 /\ w.phase = "started" /\ ~w.ec /\ w.msg.size \in Nat
      <3>1. queue' # <<>> /\ w = WriteSome(Head(queue'), 0)
        BY <1>2, <1>6
      <3>2. Head(queue').size \in Nat
        <4>1. Head(queue') \in Message
          BY <1>5, <3>1
        <4>2. QED
          BY <4>1 DEF Message
      <3>3. QED
        BY <3>1, <3>2 DEF WriteSome
    <2>6. WriteInv'
      <3> SUFFICES ASSUME NEW w \in ops'
                   PROVE  /\ w.from + w.bytes <= w.msg.size /\ w.bytes = 0
                          /\ ~(w.ec \/ w.phase = "clear")
        BY DEF WriteInv
      <3>1. w.from = 0 /\ w.bytes = 0 /\ w.msg.size \in Nat
        BY <2>5
      <3>2. w.phase = "started" /\ ~w.ec
        BY <2>5
      <3>3. w.from + w.bytes <= w.msg.size
        BY <3>1
      <3>4. QED
        BY <3>1, <3>2, <3>3
    <2>7. Done' = 0
      <3>1. CASE queue' = <<>>
        BY <3>1, DoneIsNext
      <3>2. CASE queue' # <<>>
        <4>1. PICK w \in ops' : TRUE
          BY <3>2 DEF Inv, OneWriteInFlight
        <4>2. Done' = w.from + w.bytes /\ w.from = 0 /\ w.bytes = 0
          BY <2>5, DoneIsNext
        <4>3. QED
          BY <4>2
      <3>3. QED
        BY <3>1, <3>2
    <2>8. Stream!Finish
      BY <1>1, <1>3, <2>1, <2>3, <2>7 DEF Stream!Finish, Stream!Front
    <2>9. QED
      BY <2>4, <2>6, <2>8 DEF Stream!Next
  <1>7. CASE /\ ~FrontDone(op)
             /\ offset' = Advanced(op)
             /\ ops' = (ops \ {op}) \union {WriteSome(Head(queue), offset')}
             /\ UNCHANGED queue
    <2> DEFINE w == WriteSome(Head(queue), offset')
    <2>1. w.from = offset' /\ w.bytes = 0 /\ w.phase = "started" /\ ~w.ec /\ w.msg = Head(queue)
      BY DEF WriteSome
    <2> HIDE DEF w
    <2>2. ops' = {w}
      BY <1>2, <1>7 DEF w
    <2>3. offset' = op.from + op.bytes
      BY <1>4, <1>7
    <2>4. Done' = Done
      <3>1. Done' = w.from + w.bytes
        BY <2>2, DoneIsNext
      <3>2. QED
        BY <1>2, <1>4, <2>1, <2>3, <3>1
    <2>5. WriteInv'
      BY <1>2, <2>1, <2>2, <2>3 DEF WriteInv
    <2>6. QueueOfAccepted'
      BY <1>1, <1>7 DEF QueueOfAccepted
    <2>7. UNCHANGED Stream!vars
      BY <1>1, <1>7, <2>4 DEF Stream!vars, Stream!sending
    <2>8. QED
      BY <2>5, <2>6, <2>7
  <1>8. QED
    BY <1>2, <1>6, <1>7 DEF HandleWrite

\* close() takes the socket down and leaves the queue to the handlers.
LEMMA CloseRefines ==
    ASSUME Inv, Inv', QueueOfAccepted, WriteInv, Close
    PROVE  [Stream!Next]_Stream!vars /\ QueueOfAccepted' /\ WriteInv'
  <1> DEFINE f(op) == IF op.phase = "started" THEN Completed(op, 0, TRUE) ELSE op
  <1>1. /\ UNCHANGED <<queue, accepted, wire, incoming, delivered>> /\ ~active'
        /\ ops' = {f(op) : op \in ops}
    BY DEF Close
  <1>2. ASSUME NEW op \in ops
        PROVE  /\ f(op).msg = op.msg /\ f(op).from = op.from /\ f(op).bytes = op.bytes
               /\ f(op).phase # "started"
    BY DEF Inv, TypeOK, WriteInv, Completed, Op
  <1> HIDE DEF f
  <1>3. ~Up'
    BY <1>1 DEF Up
  <1>4. WriteInv'
    BY <1>1, <1>2, <1>3 DEF WriteInv
  <1>5. QueueOfAccepted'
    BY <1>1 DEF QueueOfAccepted
  <1>6. Done' = Done
    <2>1. CASE queue = <<>>
      BY <1>1, <2>1, DoneIs, DoneIsNext
    <2>2. CASE queue # <<>>
      <3>1. PICK op \in ops : TRUE
        BY <2>2 DEF Inv, OneWriteInFlight
      <3>2. f(op) \in ops'
        BY <1>1
      <3>3. Done = op.from + op.bytes /\ Done' = f(op).from + f(op).bytes
        BY <3>2, DoneIs, DoneIsNext
      <3>4. QED
        BY <1>2, <3>3
    <2>3. QED
      BY <2>1, <2>2
  <1>7. QED
    BY <1>1, <1>3, <1>4, <1>5, <1>6, DownRefines DEF Stream!Next

\* The receiving side leaves the sending queue alone.
LEMMA ReadLeavesQueue ==
    ASSUME QueueOfAccepted, WriteInv, UNCHANGED writeVars, Up' => Up
    PROVE  QueueOfAccepted' /\ WriteInv' /\ Done' = Done
  BY DEF QueueOfAccepted, WriteInv, Done, writeVars

\* A chunk arrives, or the handler is shown the one that did.
LEMMA ReadRefines ==
    ASSUME NEW l, Loops = {l}, Inv, Inv', QueueOfAccepted, WriteInv, ReadInv(l),
           \/ PostRead(l) \/ KernelReads(l) \/ KernelFailsRead(l)
           \/ HandleReadCheck(l) \/ HandleReadCopy(l) \/ HandleReadDeliver(l)
    PROVE  [Stream!Next]_Stream!vars /\ QueueOfAccepted' /\ WriteInv' /\ ReadInv(l)'
  <1>1. UNCHANGED writeVars /\ (Up' => Up)
    BY DEF PostRead, KernelReads, KernelFailsRead, HandleReadCheck, HandleReadCopy,
           HandleReadDeliver, Up
  <1>2. QueueOfAccepted' /\ WriteInv' /\ Done' = Done
    BY <1>1, ReadLeavesQueue
  <1>3. UNCHANGED <<queue, accepted, wire>>
    BY <1>1 DEF writeVars
  <1>4. incoming \in Nat /\ Len(delivered) \in Nat /\ delivered \in Seq(Nat) /\ buffer \in Nat
    BY DEF Inv, TypeOK
  <1>5. /\ reads \in [{l} -> [phase : ReadPhases, ec : BOOLEAN]] /\ reads' \in [{l} -> [phase : ReadPhases, ec : BOOLEAN]]
    BY DEF Inv, TypeOK
  <1>6. CASE PostRead(l)
    <2>1. /\ UNCHANGED <<active, broken, handler, buffer, incoming, delivered>>
          /\ reads[l].phase = "idle" /\ reads'[l].phase = "started"
      BY <1>5, <1>6 DEF PostRead, ReadSome
    <2>2. ReadInv(l)'
      BY <2>1 DEF ReadInv
    <2>3. QED
      BY <1>2, <1>3, <2>1, <2>2 DEF Stream!vars, Stream!sending
  <1>7. CASE KernelReads(l)
    <2>1. /\ UNCHANGED <<active, broken, handler, delivered>>
          /\ reads[l].phase = "started" /\ reads'[l].phase = "completed" /\ ~reads'[l].ec
          /\ incoming' = incoming + 1 /\ buffer' = incoming + 1
      BY <1>5, <1>7 DEF KernelReads
    <2>2. ReadInv(l)'
      BY <1>4, <2>1 DEF ReadInv
    <2>3. Stream!Arrive
      BY <1>2, <1>3, <2>1 DEF Stream!Arrive, Stream!sending
    <2>4. QED
      BY <1>2, <2>2, <2>3 DEF Stream!Next
  <1>8. CASE KernelFailsRead(l)
    <2>1. /\ UNCHANGED <<handler, buffer, incoming, delivered>>
          /\ reads'[l].phase = "completed" /\ reads'[l].ec
      BY <1>5, <1>8 DEF KernelFailsRead
    <2>2. ReadInv(l)'
      BY <2>1 DEF ReadInv
    <2>3. Stream!GoDown \/ UNCHANGED Stream!vars
      BY <1>1, <1>2, <1>3, <2>1, DownRefines
    <2>4. QED
      BY <1>2, <2>2, <2>3 DEF Stream!Next
  <1>9. CASE HandleReadCheck(l)
    <2>1. /\ UNCHANGED <<active, broken, handler, buffer, incoming, delivered>>
          /\ reads[l].phase = "completed" /\ reads'[l].ec = reads[l].ec
          /\ reads'[l].phase = IF ReadRefused(l) THEN "return" ELSE "proceed"
      BY <1>5, <1>9 DEF HandleReadCheck
    <2>2. ReadInv(l)'
      BY <2>1 DEF ReadInv, ReadRefused
    <2>3. QED
      BY <1>2, <1>3, <2>1, <2>2 DEF Stream!vars, Stream!sending
  <1>10. CASE HandleReadCopy(l)
    <2>1. /\ UNCHANGED <<active, broken, handler, buffer, incoming, delivered>>
          /\ reads[l].phase = "proceed"
          /\ reads'[l] = IF handler THEN [phase |-> "deliver", ec |-> FALSE] ELSE ReadSome
      BY <1>5, <1>10 DEF HandleReadCopy
    <2>2. reads'[l].phase = IF handler THEN "deliver" ELSE "started"
      BY <2>1 DEF ReadSome
    <2>3. ReadInv(l)'
      BY <2>1, <2>2 DEF ReadInv
    <2>4. QED
      BY <1>2, <1>3, <2>1, <2>3 DEF Stream!vars, Stream!sending
  <1>11. CASE HandleReadDeliver(l)
    <2>1. /\ UNCHANGED <<active, broken, handler, buffer, incoming>>
          /\ reads[l].phase = "deliver" /\ reads'[l].phase = "started"
          /\ delivered' = Append(delivered, buffer)
      BY <1>5, <1>11 DEF HandleReadDeliver, ReadSome
    <2>2. buffer = incoming /\ incoming = Len(delivered) + 1
      BY <2>1 DEF ReadInv
    <2>3. Len(delivered') = Len(delivered) + 1
      BY <1>4, <2>1
    <2>4. ReadInv(l)'
      BY <1>4, <2>1, <2>2, <2>3 DEF ReadInv
    <2>5. Stream!Deliver
      BY <1>2, <1>3, <1>4, <2>1, <2>2 DEF Stream!Deliver, Stream!sending
    <2>6. QED
      BY <1>2, <2>4, <2>5 DEF Stream!Next
  <1>12. QED
    BY <1>6, <1>7, <1>8, <1>9, <1>10, <1>11

\* A step of the sending side leaves the read loop alone.
LEMMA WriteLeavesRead ==
    ASSUME NEW l, ReadInv(l), UNCHANGED readVars
    PROVE  ReadInv(l)'
  BY DEF ReadInv, readVars

\* close() ends a read that waits and takes the handler away.
LEMMA CloseLeavesRead ==
    ASSUME NEW l, Loops = {l}, ReadInv(l), Close
    PROVE  ReadInv(l)'
  <1>1. /\ UNCHANGED <<buffer, incoming, delivered>> /\ ~handler'
        /\ reads'[l] = reads[l] \/ reads'[l].phase = "completed"
    BY DEF Close
  <1>2. QED
    BY <1>1 DEF ReadInv

RefInv(l) == Inv /\ QueueOfAccepted /\ WriteInv /\ ReadInv(l)

\* The initial state of the socket is that of the stream.
LEMMA InitRefines ==
    ASSUME NEW l, Loops = {l}
    PROVE  Init => RefInv(l) /\ Stream!Init
<1> SUFFICES ASSUME Init PROVE RefInv(l) /\ Stream!Init
  OBVIOUS
<1>1. Inv /\ reads[l].phase = "idle"
  BY InitInv DEF Init, Idle
<1>2. queue = <<>> /\ accepted = <<>> /\ delivered = <<>> /\ incoming = 0 /\ ops = {}
  BY DEF Init
<1>3. Len(queue) = 0 /\ Len(accepted) = 0 /\ Len(delivered) = 0
  BY <1>2
<1>4. QueueOfAccepted /\ WriteInv
  BY <1>2, <1>3 DEF QueueOfAccepted, WriteInv
<1>5. ReadInv(l)
  BY <1>1, <1>2, <1>3 DEF ReadInv
<1>6. Stream!Init
  BY <1>2, <1>3 DEF Stream!Init, Init, Done
<1>7. QED
  BY <1>1, <1>4, <1>5, <1>6 DEF RefInv

\* Every step of the socket is a step of the stream, or none.
LEMMA NextRefines ==
    ASSUME NEW l, Loops = {l}
    PROVE  RefInv(l) /\ [Next]_vars => RefInv(l)' /\ [Stream!Next]_Stream!vars
<1> SUFFICES ASSUME RefInv(l), [Next]_vars PROVE RefInv(l)' /\ [Stream!Next]_Stream!vars
  OBVIOUS
<1>1. Inv /\ Inv' /\ QueueOfAccepted /\ WriteInv /\ ReadInv(l)
  BY NextInv DEF RefInv
<1>2. ASSUME NEW size \in Sizes, Send(size) PROVE RefInv(l)' /\ [Stream!Next]_Stream!vars
  <2>1. UNCHANGED readVars
    BY <1>2 DEF Send
  <2>2. QED
    BY <1>1, <1>2, <2>1, SendRefines, WriteLeavesRead DEF RefInv, Stream!Next
<1>3. ASSUME NEW op \in ops,
             \/ KernelWrite(op) \/ KernelFailsWrite(op) \/ HandleWriteCheck(op)
             \/ Clear(op) \/ HandleWrite(op)
      PROVE  RefInv(l)' /\ [Stream!Next]_Stream!vars
  <2>1. UNCHANGED readVars
    BY <1>3 DEF KernelWrite, KernelWrites, KernelFailsWrite, HandleWriteCheck, Clear, HandleWrite
  <2>2. ReadInv(l)'
    BY <1>1, <2>1, WriteLeavesRead
  <2>3. QueueOfAccepted' /\ WriteInv' /\ [Stream!Next]_Stream!vars
    BY <1>1, <1>3, KernelWriteRefines, KernelFailsWriteRefines, HandleWriteCheckRefines,
       ClearRefines, HandleWriteRefines DEF Stream!Next
  <2>4. QED
    BY <1>1, <2>2, <2>3 DEF RefInv
<1>4. ASSUME NEW k \in Loops,
             \/ PostRead(k) \/ KernelReads(k) \/ KernelFailsRead(k)
             \/ HandleReadCheck(k) \/ HandleReadCopy(k) \/ HandleReadDeliver(k)
      PROVE  RefInv(l)' /\ [Stream!Next]_Stream!vars
  BY <1>1, <1>4, ReadRefines DEF RefInv
<1>5. CASE Close
  BY <1>1, <1>5, CloseRefines, CloseLeavesRead DEF RefInv
<1>6. CASE UNCHANGED vars
  <2>1. UNCHANGED <<active, broken>> /\ UNCHANGED writeVars /\ UNCHANGED readVars
    BY <1>6 DEF vars
  <2>2. QueueOfAccepted' /\ WriteInv' /\ Done' = Done
    BY <1>1, <2>1, ReadLeavesQueue DEF Up
  <2>3. UNCHANGED Stream!vars
    BY <2>1, <2>2 DEF Stream!vars, Stream!sending, writeVars, readVars
  <2>4. QED
    BY <1>1, <2>1, <2>2, <2>3, WriteLeavesRead DEF RefInv
<1>7. QED
  BY <1>2, <1>3, <1>4, <1>5, <1>6 DEF Next

\* A socket on which post_read() was called once, as all its users do, is the byte stream
\* that TcpStream describes: what send() accepted is on the wire in order, each byte once,
\* until close() or an error, and the data handler sees what arrived, in order.
THEOREM ImplementsStreamAlways ==
    ASSUME NEW l, Loops = {l}
    PROVE  Spec => ImplementsStream
<1>1. Init => RefInv(l) /\ Stream!Init
  BY InitRefines
<1>2. RefInv(l) /\ [Next]_vars => RefInv(l)' /\ [Stream!Next]_Stream!vars
  BY NextRefines
<1>3. Spec => Stream!Spec
  BY <1>1, <1>2, PTL DEF Spec, Stream!Spec
<1>4. QED
  BY <1>3 DEF ImplementsStream
=============================================================================
