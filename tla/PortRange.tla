------------------------------ MODULE PortRange ------------------------------
(***************************************************************************)
(* port_range (src/rtpx/util/port_range.cpp): the ports that all sessions  *)
(* of the process take their transports from, round and round.  Each       *)
(* operator is what a call under mutex_ makes of pos_: the port it returns *)
(* and the new pos_.                                                       *)
(***************************************************************************)
EXTENDS Integers

CONSTANTS
    MinPort, MaxPort,  \* 40000, 49999
    PortValues         \* 65536: values of uint16_t

\* The range starts with an even port, ends with an odd one, and ends before the
\* largest numbers, where pos_ would overflow: so does the default range.
ASSUME RangeAssumption ==
    /\ MinPort \in Nat /\ MaxPort \in Nat /\ PortValues \in Nat
    /\ MinPort % 2 = 0 /\ MaxPort % 2 = 1
    /\ MinPort < MaxPort /\ MaxPort + 2 < PortValues

Ports == MinPort..MaxPort

Count_M == (MaxPort - MinPort) \div 2

\* count(): one less than there are
Count == MaxPort - MinPort

\* pos_ moved on by n, back to the start when it is past the end
Advance(pos, n) ==
    LET p == (pos + n) % PortValues IN IF p > MaxPort THEN MinPort ELSE p

GetNextPort(pos) == [port |-> pos, pos |-> Advance(pos, 1)]

GetNextEvenPort_M(pos) ==
    IF pos % 2 = 0
    THEN [port |-> pos, pos |-> Advance(pos, 2)]
    ELSE [port |-> pos, pos |-> Advance(pos, 1)]

\* At most two ports are looked at.
GetNextEvenPort(pos) ==
    IF pos % 2 = 0
    THEN [port |-> pos, pos |-> Advance(pos, 2)]
    ELSE LET second == Advance(pos, 1) IN
         [port |-> second, pos |-> Advance(second, IF second % 2 = 0 THEN 2 ELSE 1)]
=============================================================================
