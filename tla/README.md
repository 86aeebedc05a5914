# A TLA+ model of cxx-deps

cxx-deps is one developer's collection of C++ libraries. Its own core logic is network
code: sockets with sending queues (`src/asio`), a thread pool (`src/sys2`), and `src/rtpx`,
an RTP/WebRTC stack with offer/answer, STUN, DTLS-SRTP, SCTP data channels, reordering
buffers and NACK retransmission, and on top of it `src/sip` and `src/voip`, SIP
connections and calls. There are no tests in the repository; its documents are
the per-module README files and the comments. This project models the parts in which
concurrency, lost messages and wrapping counters decide whether the code is right.

## 1. Inventory

| part | state it keeps | operations | what is hard | what makes it correct | module |
|---|---|---|---|---|---|
| `asio::tcp_socket` | `queue_`, `offset_`, `active_`, `buffer_`, the handler | `send`, `close`, `post_read`, `handle_write`, `handle_read` | handlers read `active_` before they lock; partial writes | the wire carries the accepted messages back to back; a write is in flight exactly while something is queued | `TcpSocket`, `TcpStream` |
| `asio::udp_socket` | `queue_`, `active_`, `buffer_` | `send_to`, `close`, `post_read`, `handle_write`, `handle_read` | a `pop()` without a test; errors are ignored | the pop removes the datagram just sent; order; no datagram is shown twice | `UdpSocket` |
| `thread_pool` | `m_queue`, `m_shutdown`, the condition variable | `submit`, `shutdown`, the worker loop | notifications without the mutex, spurious wakeups | each task runs once, in order, and none after `shutdown` | `ThreadPool` |
| SCTP data transfer | `sent_messages_`, `messages_`, SSN and TSN counters | `send`, `insert`, `process_sack`, timers | loss, duplication, reordering, resends, receive timeouts | a prefix of what was sent is delivered; nothing unreceived counts as acknowledged | `SctpStream` |
| SCTP association and data channel | `state_`, `streams_`, `init_stream_id_`, the media stream's channel id | `connect`, `close`, `close_stream`, one handler per chunk type, the state timer | lost handshake chunks, resent INITs, timer races, repeated `on_connected` | both ends agree on the association and on the channel | `SctpState`, `Sctp` |
| sequence numbers | none | `forward_diff`, `ahead_of`, ... | wrapping at 2^16, ties at half the range | the relation the comments describe; totality | `SeqNum` |
| NACK encoding | none | `nack_pid_bid::add`, `process_nack`, `on_rtcp_fb_nack` | the mask across the wrap | what is asked for is what is missing | `Nack` |
| audio receiver, sender history | `recv_packs_`, `begin_seq_`, `end_seq_`, `reset_`, `nack_packs_`, `history_packets_` | `insert_packet`, `find_a_frame`, `process_nack`, `send_packet`, `on_rtcp_fb_nack` | reordering, loss, full buffer, late answers | frames in order, once; losses are asked for and repaired | `RtpReceiver` |
| session negotiation, DTLS-SRTP | `sdp_role_`, `setup_`, `dtls_role_`, `handshake_`, SRTP contexts | `create_offer`, `create_answer`, `set_remote_sdp`, the timer, STUN and DTLS handlers | a new offer during the handshake; lost and repeated flights | opposite DTLS roles, matching keys, an end to the handshake | `Session` |
| ports and transports of a session | `port_range::pos_`, `transports_`, `media_streams_`, `mux_port_` | `get_next_port`, `get_next_even_port`, `create_media_stream`, `remove_media_stream_by_mid`, `stop` | several sessions and threads on one range, shared transports, half-opened pairs, `stop` at any time | bound ports are listed ones; pairs are even and odd; a stream's transport is open; no free pair is missed | `PortRange`, `Transports` |
| H.264 packetiser and receiver, RTX | `recv_packs_`, `begin_seq_`, `end_seq_`, `waiting_for_keyframe_`, `frame_begin_ts_`, fragments | `send_frame`, `send_nal`, `insert_packet`, `find_a_frame`, `check_for_drop`, `combin_frame`, `process_nack`, `on_rtcp_fb_nack`, RTX in both directions | access units of several packets with losses inside; a restart from another thread; packets sent again late, without need or without their marker | a NAL unit handed up is whole, in order, and has its references | `VideoReceiver` |
| SIP calls (`voip/sip`, `voip/call`), connections (`sip`) | `calls_`, `active_`, `con_`, `got_ack`, `got_bye`, `triggered_connected_` | `start`, `answer`, `refuse`, `stop`, one handler per request and response, three timers | both sides hang up at once, lost BYEs and ACKs, a connection that closes or is shared | `on_connected` and `on_hangup` have their causes; a call that one side ends disappears at both | `SipCall` |
| H.265, VP8, AAC and PS receivers and packetisers | as H.264 | as H.264 | as H.264 | as H.264 | the same buffer and search with other payload formats |
| reception statistics | extended sequence numbers, loss, jitter | `rtp_source_*` | wrap, probation | RFC 3550's counts | not modelled: counters nothing in the receivers reads back |
| `blocking_queue`, `asio_queue` | a queue under a mutex | push, pop | condition variable, limit | bounded FIFO | not modelled: no code of the repository uses them |
| `ring_buffer`, callback lists | bytes; functions under a mutex | read, write; add, remove | | | not modelled: one operation per lock, or no lock at all |
| SIP registration, `rtsp`, `http`, `hypertext` | connection state | one request and response at a time | | | not modelled: text over the sockets that `TcpSocket` models |
| wire formats, codecs' bit streams, SDP text | none | parse, serialise | bit-level detail | round trips | data abstracted by the models that use it |
| `litertp` | as rtpx | as rtpx | | | superseded by rtpx, as its README says |
| H.323, `any`, ffmpeg, mqtt, redis, ssl, helpers of the operating system | none of their own | wrappers | | | not modelled: thin layers over libraries that are not in the repository |
| asio, spdlog, pugixml, stb_image | | | | | third party |

How they interact. `rtpx_core` runs one `io_context` on several threads; socket handlers,
timers and posted functions of all sessions run there, while the application calls into
sessions, streams and sockets from its own threads. A `udp_socket` hands datagrams to
`transport::received_message`, which tells STUN, DTLS and SRTP apart by the first byte.
STUN responses drive `dtls::connect`; the end of the handshake creates the SRTP contexts
and, on the client's side, calls `sctp::connect`; SCTP runs over DTLS records. RTP packets
go through `media_stream` to a receiver, whose NACKs go back as RTCP and are answered from
the sender's history. Handlers call up through callbacks (`on_connected`, `on_frame`,
`on_data_channel_opened`), often with a lock held. A SIP call owns an `rtp_session` and a
connection of `src/sip`; its endpoint keeps the list of calls, dispatches messages to them
from the connections' read handlers and runs the timers.

What is hard to test is listed in PROJECT.json under "hazards", each at its line.

## 2. The modules

Names follow the code without the trailing underscore (`begin_seq_` is `begin`). An action
is named after the function it models. A variable marked "history" does not exist in the
code and is only read by properties. An operator whose name ends in `_M` (or `_M1`, ...)
is a wrong variant of the operator after it: no behaviour uses it, and the mutation checks
put it in the place of the right one to see that a property notices.

**TcpSocket.** `Send`, `Close` and `PostRead` are calls of any thread. A completion handler
is two steps (`HandleWriteCheck`, then `Clear` or `HandleWrite`; `HandleReadCheck`,
`HandleReadCopy`, `HandleReadDeliver`), because `handle_write` and `handle_read` read
`active_` before they lock: every other call can fall in between. The kernel takes any
part of a write and may fail any operation (external). A message is a number and a size,
a byte of the stream is its message and position. **TcpStream** is the abstract byte
stream: of the accepted messages the first `gone` are done with, of the next one `done` bytes
are on the wire, the rest may be given up only once the socket is down; in the other direction
chunks are shown to the data handler at most once, in order and without gaps. `TcpSocket` gives
the refinement mapping (`Stream`): the messages that are gone are those no longer in the queue,
and `done` is how far the write in flight has come.

**UdpSocket.** The same queue with whole datagrams. `handle_write` does not look at the
error code, pops without a test, and `handle_read` shows its handler the shared buffer
with a byte count of zero after an error; all of that is in the model.

**ThreadPool.** Worker, submitter and `shutdown` statement by statement, since the mutex
protects only the worker's block. The set of workers with `pc = "asleep"` is the condition
variable's wait set; it may wake anyone spuriously.

**SctpStream.** One direction of data transfer between endpoints A and B. `sctp_message`'s
`insert`, `is_completed`, `serialize` and `calc_gaps` are operators on the set of chunks of
a message; `ReceiveData` is the whole of `insert_data_chunk` with the SACKs it sends. A
SACK refused by `deserialize` (`Parses`) leads to the operational error of `on_sack` and to
`ReceiveError` at the other end. The clock advances when both timers have fired. On the
"lossy" network packets are lost or arrive within the second; on the "wild" one they may
arrive at any time, any number of times or never. DCEP and close chunks are in `Sctp`.

**SctpState, Sctp.** `SctpState` has the members of both endpoints and what is claimed of them at
any time, `Sctp` the steps: the handshake INIT, INIT ACK, COOKIE ECHO, COOKIE ACK between the DTLS
client and server, the state timer (resent INITs; heartbeats, whose test and send are two steps as the
code holds no lock between them), operational errors, `close`, `close_stream`, DCEP open and
ack, and the data channel that `rtp_session` builds on it. The chunk types are those the
code really puts on the wire: a heartbeat is answered with an operational error and
`close()` sends its shutdown chunk as an INIT. After the erased iterator of
`insert_data_chunk` is used the endpoint either goes on or is gone. Data chunks are whole
messages, and one that is not next is dropped instead of kept for its timeout: the resends
that would fill the gap are `SctpStream`'s subject.

**SeqNum, Nack, ReceiverState, RtpReceiver.** `T` stands for 2^16, `BufferSize` for 512, `MaskBits` for
16; `T` is a multiple of `BufferSize`, as in the code. `SeqNum` has the comparisons of
`sn.hpp` with their unsigned reductions, `Nack` has the numbers that
`add_nack` lists, packs them into NACK messages and unpacks them the way each side does.
`ReceiverState` has the members of the base class `receiver`, which the audio and the video
receiver share, its NACK list included, and the packets and NACKs on their way. `Insert` is the whole of `receiver::insert_packet` and
`receiver_audio::find_a_frame` under the receiver's mutex: restart, store, gap detection,
the full-buffer test, the loop over the slots. Packet k stands for its payload, so a
property can tell a packet played in the place of another. `late` says that a second has
passed since frames were last looked for. The constant `Networks` is a set of networks, each
with its first sequence number, length, losses, reordering and so on; a behaviour runs on one
of them. **MCRtpReceiver** names the three of the run.

**PortRange, Transports.** `PortRange` has the operators of `port_range` with the overflow of
`uint16_t` (`PortValues` for 2^16). In `Transports` threads run `create_media_stream`, one step
per critical section: `Begin`, then `Take` a port, `Open` its transport and, for a pair, the
`Second`, round the loop as often as the code does, then `Add` the stream. Meanwhile streams
are removed (`Remove`, with `try_remove_transport` and its use count) and sessions stopped
(`StopStreams`, `StopTransports`: two locks). A session multiplexes everything on one port,
RTP and RTCP of a stream on one port, or uses pairs. Another process may have a port. `untried`
and `raced` are history. **MCTransports** adds the symmetry of sessions, threads and mids.

**VideoState, VideoReceiver.** `VideoState` has what is sent and handed up and what is claimed of
the two, apart from the steps, so that the theorems can name it. `SendFrame` is `send_frame`: single packets, FU-A fragments, a STAP-A when
the unit fits into one packet, with the marker as the code sets it. `Insert` is the whole of
`insert_packet` under the receiver's mutex: the base class's part as in `RtpReceiver`, then
access units are looked for (`Complete`), put together (`Combine`, `AddPacket`, `AddFragment`,
`EndUnit`), and dropped after a second (`Dropped`). A gap is put on the NACK list together with
the packet that reveals it. `ProcessNack` is `process_nack` on another thread, without the mutex:
it asks for what is on the list (`Ask`), or finds the receiver waiting for a keyframe or the list
too long (`GiveUp`), clears the list (`Clear`) and sets `reset_` (`Restart`), and packets arrive
between these. `OnNack` is `on_rtcp_fb_nack`: it sends again what the history holds for the
numbers it reads from the message (`Lookups`, `History`), wherever the receiver is meanwhile, and
whether or not it has the packets. Over RTX a packet loses its marker (`FromRtx`), otherwise it
comes as it was (`Again`). It overwrites what is in its slot, or starts the receiver anew when it
lies behind `begin_seq_`. **MCVideoReceiver** names the six networks and the access units that
are sent on each.

**SipCall.** One call from A to B over TCP, UDP or the shared connection of a registration. The
applications start, answer, refuse and stop; `stop()` is `Stop`, up to `MaxByes` times `Bye`,
`Destroy`. A message is handled in one step by the call or the endpoint (`OnInvite`, `OnAnswer`,
`OnAck`, `OnDecline`, `OnBye`, `OnByeAnswer`, `OnUnknown`), except that `rtp_.start()` at the
end of `answer()` and of the response's handler is a step of its own (`StartMedia`), since
nothing keeps `stop()` from coming first. Provisional responses and OPTIONS change only the
time of the last activity; `Beats` says who still sends them, and guards the timers `Inactive`
(no sign of the peer) and `Silent` (nothing on the connection).

**Session.** Two sessions with one secure stream on one multiplexed transport. Signalling
is reliable and one exchange at a time; datagrams are lost, duplicated and reordered.
OpenSSL is external and modelled by its four flights: which side it is on is fixed by the
first `SSL_connect` or `SSL_accept`, and it repeats its last flight when it is entered
again. `OnDtls` exports the keys for the transport's *current* `dtls_role_` after every
message that finds the handshake over, as `handle_dtls_message` does.

## 3. What the runs check

| run | instance | shows |
|---|---|---|
| `tcp_socket` | queue of 2, 3 messages of 0, 1 or 2 bytes, 2 received chunks | `WriteOwnsFront`, `OneWriteInFlight`; `QueueDrains`; the socket implements `TcpStream` (`ImplementsStream`) |
| `udp_socket` | queue of 2, 4 datagrams out, 2 in | `PopsOwnDatagram`, `OneSendInFlight`, `SentInOrder`, `DeliveredInOrder`; `QueueDrains` |
| `thread_pool` | 2 workers, 3 tasks, `shutdown` at any time | `TaskInOnePlace`, `QueueIsRestOfEnqueued`, `NothingRunsAfterShutdown` |
| `thread_pool_submit` | 1 worker, 1 task | violated: `SubmittedTaskRuns`, the lost wakeup |
| `sctp_stream` | 1 stream, 2 messages of 1 or 2 chunks, 2 sends per chunk, both networks | `DeliveredIsPrefix`, `NoSilentLoss`; `EventuallyDelivered` with one loss |
| `sctp_stream_two` | 2 streams, 2 messages each | violated: `NoSilentLoss`, a SACK of one stream acknowledges the other's chunk |
| `sctp` | one loss, one resent INIT, one heartbeat, `close` and `close_stream` at any time | `ClientFollowsServer`, `NothingDropped`, `ChannelInStep`; `ConnectSucceeds` |
| `rtp_receiver` | 5-bit numbers, buffer of 8; "silent": 24 packets, 1 loss, silences, NACK limit 2; "reordering": 7 packets across the wrap, overtaken by 2; "losing": 5 packets, 2 losses, NACKs answered | `DeliveredInOrder` through full buffers, timeouts and restarts; `NothingSkipped`, `OrderRecovered`; `LossIsRequested`; `EverythingPlayed`, also when a lost packet is sent again |
| `video_receiver` | 6-bit numbers, buffer of 16, 6 networks: 3 access units, 2 losses, silences and a NACK limit of 3; 4 units with overtaking by 2 across the wrap; 4 units across the wrap and 1 loss that RTX repairs; 3 units across the wrap and 1 loss repaired with the packet as it was; 3 units with overtaking by 1, where RTX repairs what is only late; 4 units that fill the buffer and 1 loss; restarts at any time | `NalsWhole`, `HandedInOrder`, `NoBrokenReference`, `EverythingShown` |
| `transports` | ports 4 to 9, 2 sessions of any mode, 2 threads, 3 streams, a foreign port 5 or none | `BoundIsListed`, `PairIsEven`, `StreamHasTransport`, `GivesUpWhenFull` |
| `sip_call` | TCP, UDP with 2 losses, shared connection; 2 BYEs; both sides stop at any time | `CallerConnectsFirst`, `ConnectedIsDecided`, `HangupHasCause`; `HangupEndsCall` |
| `session` | 2 offers of one side, 2 lost and 1 duplicated datagram | `RolesAgree`, `KeysMatch`, `KeysStay`; `EventuallyConnected` |

Each module with state has a type invariant `TypeOK`. It holds in all of these instances; as it
says little, no run lists it. It is proved for `TcpSocket`, `UdpSocket`, `ThreadPool`,
`Session`, `Transports` and `SipCall`.

**Bounds.** They are the smallest with which the cases of interest happen. A queue of two
has a front, a successor and the limit; sizes 0, 1 and 2 give an empty message, one written
at once and one written in parts. Three tasks and two workers let one worker take a task
another was woken for. Two messages of up to two chunks give out-of-order chunks and
messages, a late chunk of a delivered message, and a SACK with a gap, whose refusal ends the
association. With a buffer of 8 and 24 packets each slot is used several times, and the full
test, which fires at half the buffer, fires; 24 packets stay below one wrap, since what happens
at the wrap of a full buffer is one of the disagreements of section 6. On "losing" the wait for
an answer stays below half the buffer for the same reason. A unit of the video stream takes up
to six packets, so that two of them reach half its buffer of 16; three units are a keyframe, a
broken picture and one that refers to it, or a broken keyframe, a picture that has to wait and
the keyframe that ends the wait. Two packets lost in a row and the one that reveals them are
three numbers on the NACK list, the limit of that network. Where losses are repaired three or four
units let a packet that reveals a loss come again before or behind `begin_seq_`, with and without the
marker of its unit, and the wrap lets the mask be misread. The mask has 4 bits; RTCP is not lost,
as a NACK that never arrives leaves the loss unrepaired. Six ports are three
pairs for three streams, fewer when one is foreign or single ports have made `pos_` odd, and the
range goes round. Two sessions and two threads are two takers of a port between any two steps of
a third party; three streams let one be removed while another shares its transport. Two BYEs
and two losses: all BYEs may be lost, or the ACK and one of them. One loss and one duplicate is what the recovery
mechanisms are built for: SCTP resends and NACKs are bounded, so more losses may legitimately
end in loss. Deadlock is checked where the system should always be able to go on
(`tcp_socket`, `udp_socket`, `session`); the others end when the bounded input is used up or
the association is closed.

**Fairness.** TcpSocket and UdpSocket: a kernel operation ends and the io_context runs its
handler; nobody has to call `send`. ThreadPool: weak fairness for each worker's own steps and
strong fairness for acquiring the mutex, for the operating system's scheduler; no spurious
wakeup is promised. SctpStream: on the lossy network one of delivering a packet, the timers
and the next second goes on while it can, each a bounded number of times a second; the wild
network promises nothing. Sctp: packets that are not lost arrive, and timers fire.
RtpReceiver: one of sending, delivering, and processing NACKs goes on while it can; all are
bounded, so each gets its turn. SipCall: one of delivering a message, the rest of a begun
`stop()` or `rtp_.start()`, the `stop()` that an application calls in `on_hangup`, and a timer
that is due goes on while it can; nobody has to answer or to hang up. VideoReceiver and
Transports state no liveness: `EverythingShown` and `GivesUpWhenFull` are about the states in
which all has arrived or an attempt ends. Session: a begun exchange is completed, the timer fires,
each datagram that is not lost arrives. Losing, duplicating, closing and failing are never
fair.

## 4. What is proved

The theorems hold for every value of the constants that the named assumptions allow; the runs
above are instances of them. A bound such as `MaxLoss` may be any natural number.

**TcpSocketProofs**, for every queue limit and every set of sizes: `TypeCorrect`,
`WriteOwnsFrontAlways`, `OneWriteAlways`, for any number of read loops. None of the properties is
inductive by itself. The invariant is `TypeOK /\ WriteOwnsFront /\ OneWriteInFlight`: that a write
is on the front message needs that there is no second write whose handler could pop it; that a
second write never starts needs that a non-empty queue has one in flight, since `send` tests the
queue and not the write; and that `clear()` does not strand a message needs that the clearing
handler's write was the only one. `ImplementsStreamAlways`: a socket with one read loop, which is
how all its users call `post_read()`, implements `TcpStream`. The invariant `RefInv` adds that the
queue is the end of what was accepted, that a write stays within its message and fails only when
the connection is gone, and how far the read loop is behind what arrived; then every step is one
of the byte stream or leaves it alone. With two read loops it is false: they share `buffer_`.
Assumptions: `MaxQueueAssumption`, `SizesAssumption`, `BoundsAssumption`.

**UdpSocketProofs**: `TypeCorrect`; `PopsOwnDatagramAlways`, the unguarded `queue_.pop()` never
meets an empty queue and removes the datagram whose send has ended; `OneSendAlways`;
`SentInOrderAlways`, from `SendInv`: the queue is sorted and what was sent is before it, except for
the front itself between its send and its pop; `DeliveredInOrderAlways`, from `ReadInv`, which says
for each place of the receive loop whether the last datagram has been shown. Assumptions:
`MaxQueueAssumption`, `BoundsAssumption`.

**ThreadPoolProofs**, for any sets of workers and tasks: `TypeCorrect`;
`NothingRunsAfterShutdownAlways`, as `join()` has seen every worker leave and a worker that holds a
task has not left; `TaskInOnePlaceAlways` and `QueueOrderAlways`, from `PlaceInv`: no task is twice
in the queue or with two workers, the three places exclude each other, what was submitted is in one
of them, and the queue is the end of what was enqueued. Assumption: `NoneAssumption`.

**SctpProofs**, data transfer, for any streams, message sizes, limits and losses, on both
networks: `DeliveredIsPrefixAlways`. The invariant `Inv` says that every chunk in flight, kept for
a resend or in the inbox is one that `split_data` made of an accepted message (`Genuine`), and
that chunks filed under one SSN belong to one message (`FiledOK`): so a message that
`is_completed()` is the message that was sent. `NoSilentLossAlways`, with a single stream (with
two it is false, run `sctp_stream_two`), from `OneInv`: consecutive messages have consecutive
TSNs, and all that comes before the message next in order has been received, hence the cumulative
TSN of a SACK covers only what was received. The inductions in it (how far a run without holes
reaches) use the least-number principle of the library's well-founded relations. Assumption:
`CountsAssumption`.

**SctpProofs**, the association, for any number of losses, resends, heartbeats and closes (`Assoc`
is the instance of `Sctp`): `ClientAlwaysFollows` and `NothingDroppedAlways`. Both rest on
counting the packets of each type that are on their way (`Count`, `CountTail`, `CountJoin`). Only
the server is sent INIT and COOKIE ECHO and only the client INIT ACK and COOKIE ACK (`Sides`); the
client's reports and the COOKIE ACKs on their way together are no more than the server's reports
(`EchoesAcked`); until the one INIT has been handled there is no other traffic and no stream
(`Early`), so that the clearing of `streams_` in `on_init()`, whatever the state, meets no open
channel (`Kept`). The proof showed that losses do not matter for `NothingDropped`: only an INIT
that is sent again does, and the property now says so. Assumption: `OffererAssumption`.

`ChannelInStepAlways`, from `TalkInv`, for either offerer and any heartbeats and closes of the
channel: what both media streams know of the channel is tied to the DATA chunks on their way. A
handshake is one packet that goes back and forth and ends as a call of each connected handler
(`Once`), so the offerer opens one stream. `Carries` says which DATA chunks a queue holds, in which
order, between packets of other types, and whether further closes may follow them. `Talking` lists
the stages: the open is on its way (`Offered`), the answerer has the channel and its ack is coming
or has come or the offerer has closed (`Accepted`), the answerer has closed again (`Ended`), each
with the sequence numbers of both ends. Closes cross: a close that finds no stream is answered with
a close as well, in vain, and an end that erased its stream may be sent the ack of an open that it
no longer knows. One lemma per stage and step (`OffererTakes`, `AnswererTakes`,
`OffererClosesStream`, `AnswererClosesStream`) shows what is left. Once nothing is on its way only
two stages are possible, and in both the ends agree.

**RtpReceiverProofs**, for every even `T`, hence for `uint16_t`: `AheadIsReferenceAlways`, that
`ahead_of<T>` is the relation its comment describes, although `a - b` is computed without
wrapping; `ExactlyOneAheadAlways`, totality for `ahead_of<T>` and, for every M up to T, for
`ahead_of<T, M>` on numbers below M; `OrderRecoveredAlways`, that `ahead_of()` tells from the
wrapped numbers which of two packets was sent later, as long as less than half the numbers lie
between the two. The proofs first remove the modulus (`ForwardDiffIs`, `NumbersApart`) and then
compare linear distances. `ReorderingIsUndone` and `ReorderedInOrder`: on a network that loses
nothing and lets a packet be overtaken by fewer others than half the buffer has slots (`Calm`),
every packet is played, each after the one before, across every wrap of numbers and slots, as long
as the list of packets to ask for stays below the limit at which `process_nack()` restarts the
receiver (`ListBelowLimit`). The invariant `OrderInv` says that every packet sent is on its way or
has come, once (`FlightInv`), and that the packets before some number have been played, that one is
missing, and those after it that have come lie in their slots, none more than the window ahead
(`PlayInv`); so no slot is taken twice, the full-buffer test does not fire and no packet is taken
for a restart. The loop of `find_a_frame` is a recursive function, of which the proof uses that it
stops at the first slot that does not fit. Assumptions: `TAssumption`, `BufferAssumption`,
`StreamAssumption`.

`HandedUpWhole`, the video receiver (`Video` is the instance of `VideoReceiver`), for any frames,
any number of access units, losses, silences and restarts at any time: a NAL unit that is handed
up has all its fragments and no others. Hypotheses: `Near`, the losses and the window are few,
measured by the numbers there are (`BufferSize + 2 * (losses + 2 * window) + 4 <= T`; with 512
slots and 16-bit numbers, losses and twice the window may come to 32510), and nothing is sent
again, so that no marker is lost and no packet comes from behind; `Roomy`, a packet that may come next lies less than half the
buffer after `begin_seq_`, as a buffer that was full keeps packets of an earlier round (section
6). `Unrepaired` says that no
NACK is on its way and that every lost packet was counted. The stream is a `Piece`: every fragment stands between those before and after it and only the
last one may be marked (`FrameIsPiece`, over the fold that puts the packets of a unit one after
the other). The invariant `ViewInv` says that what is on the way are packets of the stream in
order (`OnWay`), that between the latest packet that has come and one that may come there are no
more than the lost ones and the window (`ReachIs`), and that from `begin_seq_` on every slot is
empty or has the packet of this round whose number belongs there (`Keeps`), which `check_for_drop`
leaves true too. So the packets that `find_a_frame` counts are neighbours in the stream
(`CompleteIs`), and while `combin_frame` goes through them what it has collected is the beginning
of one NAL unit, up to the packet it is at (`Begun`, `CombineIs`).

`HandedUpInOrder`, the same receiver, losses and restarts: NAL units are handed up in the order they
were sent in and none twice. Besides `Near` and `Roomy` it needs `InSequence`: an access unit has one
fragmented NAL unit at most, as its last, and packets overtake each other or are given up after a
silence, but not both; without these it is false (section 6). It follows from the same `ViewInv`,
which also says that the NAL units of the stream are in turn (`Turn`; `FrameInTurn`, again over the
fold), that no packet on its way has the number of the latest that has come, and that all
that was handed up lies in the stream before the packet that `begin_seq_` waits for (`Shown`, `Past`).
The step is `CombineTurned`: what a run of neighbours from there adds is in order and lies before
the next packet, and a fragmented unit, which `combin_frame` hands up after all single ones, was
sent after them. A restart at another packet keeps that (`StartsAnew`): where no packet overtakes
another it is at the latest one, and where packets do, without silences, the receiver waits for a
keyframe only until it first hands something up.

`EverythingIsShown`, the same receiver: while nothing is lost, no second passes within an access
unit and nothing starts the receiver anew, every NAL unit from the first keyframe to the last marked
packet has been handed up once all that was sent has arrived, whatever order it came in. Besides
`Near` and `Roomy` it needs that only the last NAL unit of an access unit is fragmented (section 6).
The invariant `ShowInv`, on top of `ViewInv`, has two cases. Either nothing has come, or the packets
from `begin_seq_` to `end_seq_` that are not on their way are in the buffer (`Matches`), no marked one
has all those before it (`NoneWhole`), `begin_seq_` is the first packet of an access unit, and what
lies before it is handed up from the first keyframe on (`Waiting`). The step is `CombineShows`: what
`combin_frame` adds for the packets of complete access units covers them, as a fragmented unit is
collected from its first packet (`Collecting`) and ends with a marked one; together with `CompleteIs`
(the search stops at the last marked packet without a gap before it, so nothing complete stays) and
`StoredMatches`. When nothing is on the way, no packet from `begin_seq_` on is marked (`AllShown`).

**SessionProofs**, for any number of offers, lost and repeated datagrams: `TypeCorrect`;
`RolesAgreeAlways`, from `Exchange`, which lists the stages of an exchange with the roles and
the message of each; and, when one side makes all the offers, `KeysMatchAlways` and
`KeysStayAlways`, from `KeyInv`: nothing is sent before the answerer has its role, and from then on
the offerer is the server and every export of keys is for that role. When both sides offer, keys
may not match (section 6). Assumptions: `EndsAssumption`, `BoundAssumption`.

**TransportsProofs**, for every range that starts even and ends odd, any number of sessions,
threads and mids and every set of foreign ports: `TypeCorrect`, `BoundAlwaysListed`,
`PairsAlwaysEven`, `StreamsAlwaysHaveTransports`, `GivesUpOnlyWhenFull`. `PairsAlwaysEven` rests on
two facts about `get_next_even_port` (`EvenFollowsOdd`, `NextEvenPort`): looking at two ports is
enough for an even one when the range ends odd, wherever other sessions have moved `pos_`, and the
port after it is in the range. The invariant adds what threads hold between their steps: the port of
a thread is in the range and even when it will be a pair (`ThreadPorts`); the transports it has
opened are still listed when it lists its stream (`ThreadHolds`), for which it is needed that
`try_remove_transport` removes nothing (`NothingRemoved`, as the count includes the socket's own
handler); and a `stop()` that met no thread at work has no streams left (`StopAlone`).
`GivesUpOnlyWhenFull` adds `FullInv`: the turns that a thread has made and the pairs between `pos_`
and one it has not tried are together fewer than all pairs, unless another thread has just taken
that one. Assumptions: `RangeAssumption`, `ModeAssumption`, `CreatesAssumption`, `FiniteAssumption`,
`OwnerAssumption`.

**SipCallProofs**, for every transport, number of BYEs and number of lost datagrams:
`TypeCorrect`, `CallerAlwaysFirst`, `ConnectedAlwaysDecided`, `HangupAlwaysHasCause`. The
properties are about what has happened at the other side, which a handler knows only from the
message it reads; the invariant therefore says of every message on its way what must have
happened for it to be sent (`MessagesHaveCause`: an ACK to B means A is connected, a BYE that
its sender is stopping, a 603 that B has refused, ...). One lemma per action, each from
`CauseStep` and facts about what `Sent` and `Taken` leave in a queue. Assumptions:
`TransportAssumption`, `BoundAssumption`.

Only model-checked:

- all liveness (`QueueDrains`, `EventuallyDelivered`, `ConnectSucceeds`, `EverythingPlayed`,
  `HangupEndsCall`, `EventuallyConnected`), since the proof system handles neither fairness nor
  ENABLED;
- `RtpReceiver!DeliveredInOrder` on networks with losses, silences or answers, where it is false
  beyond the bounds of the run (section 6), so that no theorem for all constants exists;
- `LossIsRequested`, whose `Requested` folds over a sequence: what a fold computes for every input
  is an induction over data, which is out of the prover's reach;
- `NoBrokenReference` of `VideoReceiver`, which is false for other frames and networks in part
  (section 6), and `NalsWhole`, `HandedInOrder` and `EverythingShown` where NACKs are answered or
  the buffer fills up.

## 5. Disagreements that runs show, and hazards without a run

1. `thread_pool_submit`: `submit()` notifies without the mutex and the worker waits without a
   predicate, so a wakeup can fall between test and wait, although the comment says the
   function will "be executed asynchronously by the pool".
2. `sctp_stream_two`: `process_sack()` treats a TSN computed from one message as cumulative
   for all streams.

Some of what can go wrong is plain from the code, and no text says otherwise; a run would only
repeat it.

- `media_stream::set_remote_sdp` locks `remote_mutex_`, then `local_mutex_`; `create_answer` the
  other way round; `send_rtcp_keyframe(ssrc)` takes `remote_mutex_` shared twice with room for a
  writer in between (media_stream.cpp:274, 291, 761). Two threads can wait for each other.
- sctp.cpp:773 goes on using the iterator of a stream that `on_user_message` has erased; both
  outcomes are in `Sctp`. Two endpoints that close a stream at the same moment can answer each
  other's close chunks for ever (:565). `on_state_timer` may set `state_` to connected after an
  operational error has ended the association (:685; the race is in `Sctp`).
- `handle_dtls_completed`, and with it `on_connected` and `sctp::connect`, runs for every
  handshake message after the end of the handshake (transport.cpp:538).
- The receive timeout drops a message whose first chunks were acknowledged and will not come
  again; the stream then waits for its SSN for ever (sctp_stream.cpp:483).

## 6. Other disagreements met while modelling

These properties are defined in the modules and violated by the code as it is; the runs
above keep to the cases where the property holds or state the condition. The constants
reproduce the counterexample; for `RtpReceiver` they are T, BufferSize and the fields of one
network, where a field that is not given is first = 0, window = 1, limit = 100, FALSE.

| property | what happens | constants |
|---|---|---|
| `ThreadPool!ShutdownReturns` (FairSpec) | `shutdown()` hangs in `join()` after a worker misses `notify_all` (thread_pool.hpp:121) | 1 worker, 1 task |
| `SctpStream!SacksAreAccepted` | a SACK with a gap is refused: `deserialize` demands 8 bytes a block, `serialize` writes 4 (sctp_chunk.cpp:207) | 1 stream, messages of 3 chunks, MaxMessages = 1, MaxChunks = 3, wild |
| `Sctp!OpenChannelHasStream` | after a lost COOKIE ACK the resent INIT clears an open channel's stream unreported (sctp.cpp:287) | MaxInits = 1, MaxLoss = 1 |
| `Sctp!NoProtocolError` | a HEARTBEAT is answered with an OPERATIONAL ERROR (sctp.cpp:441) | MaxHeartbeats = 1 |
| `Sctp!CloseIsNoticed` (FairSpec) | `close()` sends its shutdown chunk as an INIT, the peer stays connected (sctp.cpp:136) | MayClose = TRUE |
| `RtpReceiver!DeliveredInOrder` | packets given up on when the buffer is full stay in their slots and are played later (receiver.cpp:150) | T = 16, BufferSize = 4, packets = 8, losses = 2 |
| `RtpReceiver!DeliveredInOrder` | the full test does not see a wait across the wrap (receiver.cpp:148) | T = 16, BufferSize = 4, first = 13, packets = 8, losses = 1 |
| `RtpReceiver!WithinBuffer` | the full test does not see a burst of losses longer than the buffer | T = 32, BufferSize = 4, packets = 7, losses = 5 |
| `RtpReceiver!DeliveredInOrder` | a resent packet that was played already restarts the receiver there (receiver.cpp:84) | T = 16, BufferSize = 8, packets = 6, window = 2, losses = 1, answers |
| `RtpReceiver!NackOnlyMissing` | the packet that reveals a gap is put on the NACK list itself (receiver.cpp:141) | T = 16, BufferSize = 8, packets = 4, losses = 1 |
| `RtpReceiver!LossIsRequested` | the list is sorted downwards, so the mask is used only across the wrap, and there `nack_pid_bid::add` sets bit n for pid + n, while `on_rtcp_fb_nack` reads bit 0 as pid + 1 and shifts cumulatively (receiver.cpp:247, media_stream.cpp:1803; rtcp_fb.h says "bit for the next 16 lost packets") | T = 32, BufferSize = 8, first = 29, packets = 6, losses = 3 |
| `Session!KeysMatch` | an offer of the other side during the handshake: both ends export keys for the same role (rtp_session.cpp:237) | Offerers = {a, b} |
| `VideoReceiver!NalsWhole` | packets left in the buffer after it was full are mixed into a later unit when a second packet is lost | network `Filling` with losses = 2, BufferSize = 8 |
| `VideoReceiver!HandedInOrder` | a keyframe that was overtaken, given up on after a silence and comes while the receiver waits for one restarts it in the past (receiver.cpp:84) | silences, window = 5, units = 6, losses = 0, frames `Between`, `Picture` and a keyframe of one packet |
| `VideoReceiver!NoBrokenReference` | a lost reference picture whose drop ends with a packet nobody refers to does not set `waiting_for_keyframe_` (receiver_video_h264.cpp:134) | network `Silent` with units = 4 and `Between` among its frames |

Also seen, and kept out of the runs by the conditions of the properties or the choice of frames:

- H.264 (receiver_video_h264.cpp): a keyframe in a STAP-A never ends the wait for one (:230),
  and a STAP-A that starts with a parameter set has no marker (sender_video_h264.cpp:65). Of two
  fragmented NAL units of one access unit only the last is handed up, and a fragmented one comes
  after a single one that followed it. A full buffer, a NACK list that is too long, or `reset_` set
  late, gives up packets without waiting for a keyframe (`jumped`).
- RTX (receiver.cpp:141, media_stream.cpp:1790, receiver_rtx.cpp:43): the packet that reveals a
  loss is asked for and sent again as well, and its copy without marker takes its place. So an access
  unit that was complete but for the loss before it waits for the next marker: keyframe 1 and 2,
  picture 3, picture 4 lost and picture 5 with first = T - 3, 5 and 4 come again, and neither is handed
  up until a sixth packet ends the unit (`Expected` leaves out what came over RTX). If the unit
  ended with a fragment (`Unended`), its NAL unit is handed up after the single ones of the next
  unit, or never, when that starts with a fragmented one, and what refers to it is handed up
  nevertheless. A packet sent again after `begin_seq_` has passed it starts the receiver anew in
  the past and is handed up twice, without any wait for a keyframe (`jumped`): keyframe 1 and 2,
  picture 3 lost, keyframe 4 and 5, picture 6 with first = T - 3, where the misread mask asks for 3
  and 5; 3 completes them all, 5 comes again behind, and 6 hands it up once more. This happens without
  RTX too, with the packet as it was. `HandedInOrder`, `NoBrokenReference` and `EverythingShown`
  name these cases as conditions; `NalsWhole` holds in all of them.
- After a second without packets the first packet of the next
  unit is dropped at once, because `frame_begin_ts_` is old. `send_rtcp_keyframe(ssrc, pt)` has
  its tests inverted and sends the request that was not negotiated (media_stream.cpp:790).
- Ports (rtp_session.cpp, port_range.cpp): no transport is released before `stop()`, because the
  use count includes its socket's handler (:547); half a pair stays bound until then as well
  (:632). With single ports the loop makes one attempt too few, as `count()` is max - min. A range
  that starts or ends at another parity gives odd ports, and one that ends at 65535 never goes
  round; `RangeAssumption` excludes both. Once the range has gone round, streams of one session
  share a transport although other ports are free (:447). A `stop()` during
  `create_media_stream` leaves a stream without transport or a port bound (`raced`). Two threads that create the first
  streams of a multiplexed session each open a port, since `mux_port_` is read without a lock.
  Of three threads one may give up although a pair is still free, which the others have
  taken from the range and not yet opened (`Claimed`; ports 4 to 7, one session with pairs,
  foreign port 5, three threads, MaxCreates = 3). A second stream with the same mid leaves the
  transports of the refused one open, and `remove_media_stream_by_mid` dereferences null for an
  unknown mid.
- SIP: a refused call is acknowledged with a 200 and an ACK, after which both sides have called
  `on_connected` (sip_call.cpp:418). An INVITE that arrives twice is answered with 488, for which
  the caller hangs up (endpoint.cpp:697). `stop()` of a call without ACK sends nothing, neither CANCEL nor a
  final response, so on a shared connection the peer waits for ever. `rtp_.start()` after `stop()` leaves
  the media of a dead call running (sip_call.cpp:489).

## 7. Not modelled

Of the 295,000 lines under `src/` most are third-party code (asio, spdlog, pugixml, stb_image),
H.323 over a library that is not in the repository, bit-level formats, and `litertp`, the older
copy of `rtpx`. The modules cover the parts of `asio`, `sys2`, `rtpx`, `sip` and `voip/sip` that
have state shared by several actors.

Left out of the modelled parts: SCTP's SHUTDOWN, SHUTDOWN ACK, ABORT and HEARTBEAT ACK
handlers, for chunks this code never sends; wrap-around of TSN and SSN; messages of more than
`MAX_CHUNKS_PER_MESSAGE` fragments, which `send()` accepts and the receiver never completes;
two `process_nack()` of one receiver at once on two threads, which may ask for
a number twice; statistics,
jitter and in-band FEC frames; STAP-B and MTAP, which the sender never makes; ICE roles,
candidates, formats; `stop()` of a session under negotiation; an application that sends from
within `on_connected`, which is called with `srtp_mutex_` held; SIP INFO and MESSAGE,
registration, and several calls on one connection.

Worth doing next is `NalsWhole` of `VideoReceiver` for losses that are repaired: `Near` excludes
answers to NACKs, because a packet sent again may come any number of packets late.
