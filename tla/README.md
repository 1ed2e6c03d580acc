# A verification of RTP

RTP is a small reliable transport over UDP: the program `sender` connects to the
program `receiver`, transfers one file and closes the connection. All protocol
code is the class `Rtp` (`src/rtp.h`, `src/rtp.cpp`); `src/sender.cpp` and
`src/receiver.cpp` call it. This directory holds TLA+ modules that model this
code, TLC configurations that check them on small instances, and proofs that
TLAPS checks for every value of the constants. Paths below are relative to the
root of the repository.

## Inventory

Both programs are single threads. They share nothing but the datagrams between
their sockets, which may be lost, duplicated and reordered. Nothing is persisted
except the received file.

| component | code | state | operations |
|---|---|---|---|
| sequence numbers | `rtp.cpp:19-39` | `seq_base`, `seq_num` | `seq32to64`, `seq64to32`, `inc_seq32`, `dec_seq32` |
| datagram layer | `rtp.cpp:44-267` | `dest_addr`, `addrlen`, `last_recv_time`, `fin_received`, `fin_seq` | `send_packet`, `recv_packet`, `waitfor` |
| connecting | `rtp.cpp:271-493` | `seq_base`, `seq_num`, the retry counter, two deadlines | `connect`, `wait_connect` |
| sender data phase | `rtp.cpp:691-739`, `803-971` | `base`, `next_seq_num`, `data_map`, the timer of `base` | `send_file`, `send_file_gbn` |
| congestion control | `rtp.cpp:852-959`, `rtp.h:58-62` | `cwnd`, `ssthresh`, `dup_ack_count`, `in_fast_recovery` | timeout, new ACK, duplicate ACK |
| receiver data phase | `rtp.cpp:745-796`, `978-1050` | `recv_base`, `data_map`, the written file | `recv_file`, `recv_file_gbn` |
| closing | `rtp.cpp:496-665` | `seq_num`, `addrlen`, a deadline | `close`, `wait_close` |
| programs | `sender.cpp`, `receiver.cpp` | exit status | call order, reaction to failures |
| checksum, layout | `util.c`, `rtp.h:20-48` | none | `compute_checksum` and the wrappers |
| test harness | `test.cpp` | the two children, a clock | `wait_or_timeout`, `run_tests` |

How they interact: every operation of a connection goes through `waitfor`, which
polls the socket, lets `recv_packet` throw away what is damaged or comes from
elsewhere, and returns the first datagram with the flags asked for. Any other
datagram is consumed on the way, with two effects that the callers rely on:
`recv_packet` refreshes `last_recv_time`, and it records the first FIN, which is
how `recv_file_gbn` learns that no more data will come. `send_file` and
`recv_file` hand over to `close` and `wait_close` only through `seq_num`,
`fin_received` and `fin_seq`.

What is hard:

* order: packets, ACKs and the FIN overtake each other and come twice; the FIN
  has no number check when it is recorded and must come after the data;
* loss: both directions have their own recovery (the 200 ms timer of `base`, three
  duplicate ACKs, the FIN resent every 100 ms), and wait_close answers once only;
* wrap-around: headers carry numbers modulo 2^30, both sides convert them with
  one comparison against `seq_base`, and `wait_connect` reads `seq_base` before it
  is set;
* two ways to one number: the FIN number is computed from the packets the sender
  cut, the FIN&ACK number from the packets in the receiver's map;
* half-open states: `connect` returns after 2 s of silence, whatever `wait_connect`
  has seen, and the two programs may be in different phases from then on;
* giving up: 5 s at the sender, 10 s at the receiver, 5 s in `close`, whose failure
  `sender.cpp` ignores, 5 s and 2 s in `wait_close`;
* what an earlier run has left behind: datagrams from the right address that only
  their numbers give away.

What makes the parts correct: an acknowledged packet is in the receiver's buffer;
the FIN is seen only when nothing is missing; the written file is the sender's;
a confirmed close means a stored file; a waiting sender has a running timer; both
programs come to an end. `PROJECT.json` lists the hazards line by line with the
properties that cover them.

## Modules

| module | what it is |
|---|---|
| `SeqNum` | number conversion; `SeqMod` stands for 2^30 |
| `CongestionControl` | the four congestion members as a record, one operator per event |
| `ReliableTransfer` | abstract specification: what the programs are promised |
| `AgreedConnection` | abstract specification: what `connect` and `wait_connect` promise |
| `RtpHandshake` | `connect` and `wait_connect`, with senders started one after the other |
| `Packetize` | how `send_file` cuts a file into packets, in 32-bit arithmetic |
| `RtpTransfer` | data phase and closing of one connection, both programs, the network; its properties and its fairness |
| `RtpClose` | `close` and both ways through `wait_close`, with their deadlines |
| `RtpSession` | the two programs from the first SYN to their exit: `RtpHandshake` and `RtpTransfer` on one pair of objects |
| `RtpTransferInv` | the inductive invariant of `RtpTransfer` |
| `RtpLateFin` | `RtpTransfer` with FINs of an earlier run |
| `SeqNumProofs`, `RtpTransferLemmas` | lemmas about the operators: numbers, congestion control, buffer |
| `RtpTransferProofs` | the invariant is inductive; the safety theorems, with and without late FINs |
| `RtpRefinementProofs` | `RtpTransfer` implements `ReliableTransfer` |
| `RtpHandshakeProofs`, `RtpCloseProofs`, `PacketizeProofs` | the theorems about the handshake, the closing and the packets |
| `RtpSessionProofs` | `RtpSession` implements `RtpTransfer`, and what follows for the programs |

`RtpTransfer` EXTENDS `SeqNum` and `CongestionControl`, `RtpLateFin` EXTENDS both of
`RtpTransfer` and its invariant; `RtpSession` EXTENDS
`RtpTransfer` and takes `RtpHandshake` by INSTANCE. `RtpTransfer` is shown to
implement `ReliableTransfer`, `RtpHandshake` to implement `AgreedConnection`, and
`RtpSession` to implement both of the detailed specifications and by that both of the
abstract ones.

### How `RtpTransfer` corresponds to the code

The variables are the members and locals of the same names, `s_` and `r_` telling
the two `Rtp` objects apart. `s_pc` and `r_pc` say where the two threads are:

* `fill`: inside the inner loop that sends the window; `wait`: from the window
  to the next ACK, with the two timer tests on the way; `sent`: `send_file` has
  returned 0; `finwait`: in the loop of `close`; `closed` and `unclosed`: exited
  with status 0 after `close` has returned 0 or -1; `timedout`: exited by
  `LOG_FATAL` after a timeout; `killed`: any other end.
* `recv`: in the loop of `recv_file_gbn`; `writing`: the loop has ended with
  success; `recvd`: `recv_file` has returned 0; `closed`, `timedout`, `killed` as
  above.

A step is what a thread does between two looks at its socket or timers. A
received DAT packet is one step: buffer it, move `recv_base` over everything that
is there, send the cumulative ACK, test for the end. `NewAck` and `DuplicateAck`
contain the congestion control of their branch. A FIN that arrives while
`waitfor` asks for data is the step `RecvFin`.

Abstractions:

* A payload is the number of its chunk; the file is the sequence 1 .. `total_packets`.
* The network is a set of datagrams per direction. A datagram stays until `Lose`
  drops it, so that it may arrive any number of times and in any order. A damaged
  datagram, one of a wrong size or one whose source address `recvfrom` did not
  fill in because of the uninitialized `addrlen` (`rtp.cpp:106`) is a lost one.
* Timers have no duration. Each may expire whenever the code tests it, because
  the network can be silent for any time before the test.
* `cwnd` and `ssthresh` are doubles; here they are multiples of 1/`Unit`, quotients
  rounded down. The window test only compares them with whole numbers.
* A process may be killed or fail in a system call at any moment (`SenderDies`,
  `ReceiverDies`).
* The connection starts where `connect` and `wait_connect` have both returned 0.
  Left-over handshake datagrams need no place in the model: no loop of these two
  phases asks for their flags at the side they go to.
* The uninitialized `seq_base` of `wait_connect` is a choice from `GarbageBases`.

### How `RtpLateFin` corresponds to the code

It has one action more than `RtpTransfer`, `LateFin`: `recv_packet` records a FIN of an
earlier run between the same two ports, with any number in its header, as the first FIN
(`rtp.cpp:147-155`). One that comes while `wait_connect` is answering is one that comes
as the first step of `recv_file`. `FileIntact`, `FinMeansComplete` and `FinAckAnswersFin`
do not hold there, and cannot: the receiver stops short of the FIN, or writes a file with
a gap after 10 s of silence, and exits with status 0. `CutOffIsNoticed` says what is
left. The file has no packet twice or out of order; and if it is not whole, or is closed
under another number than that of the FIN, then `send_file` does not return 0.

### How `RtpHandshake` corresponds to the code

`c_pc` is where `connect` stands: `calling` in its first loop, `lingering` in the
2 s wait after the ACK, then `connected` (it has returned 0), `refused` (too many
timeouts) or `failed` (any other end). `w_pc` is where `wait_connect` stands:
`listening` for the SYN, `answering` until the ACK comes. A sender that has ended
may be followed by another one on the same port; it draws a number that none before
it has drawn (two draws out of 2^30 are taken to differ), and `drawn` keeps these
numbers, which also bounds the restarts. A sender on another port needs no model:
the receiver throws its datagrams away once it has a peer, and answers to the port
of a dead sender are lost.

A datagram with the right flags and a wrong number is consumed without an answer:
`RecvWrongSynAck` restarts the 100 ms of `connect`. As the network may repeat what it
still holds, the action stands for the reading of the last copy.
`seq_num` stays `x` on both sides, as the code and its comments at `rtp.cpp:341` and `433`
have it; those at `270` and `395` say that it ends at `x` + 1. `Agreement` compares header
numbers, as the two calls do: a receiver that counts 2^30 higher agrees.

The uninitialized `addrlen` that `recv_packet` passes to `recvfrom` has three
outcomes: large enough, and the source address is filled in; too small, and the
local address keeps what was on the stack; negative, and `recvfrom` fails. At the
SYN the second one makes the receiver record an `unknown` peer, to which its answers
are then lost; the third is part of `ConnectFails` and `WaitConnectFails`.
The reset of `fin_received` at the beginning of both calls is the initial value of
that variable in `RtpTransfer`.

`AgreedConnection` leaves out datagrams, retries and the arithmetic. Its `listener` has
`heard` somebody where `wait_connect` is answering, its `caller` is `answered` where
`connect` lingers, and `accepted` is the number of the recorded SYN. What is left is the
order of knowledge: `Answer` only after `Hear` of the same number, `Establish` not while
the accepted caller still waits for its answer.

### How `RtpSession` corresponds to the code

The sender object and the receiver object have one `seq_base` and one `seq_num` each,
which the handshake writes and the transfer reads. `Connecting` is a step of `connect`
or `wait_connect`; `Accept` is the one that ends `wait_connect` and begins `recv_file`,
where `recv_base` is computed (`rtp.cpp:980`). `BySender` and `ByReceiver` are the
steps of the later calls, each possible once the first call of the same process has
returned 0; the two processes do not wait for each other. `EarlyFin` is the FIN that
`recv_packet` records while `wait_connect` is answering. Data that arrives there is
consumed and ignored, which is a loss. A failed `connect` or `wait_connect` ends the
process (`SenderExited`, `ReceiverExited`).

The mapping to `RtpTransfer` lets the receiver's numbers exist from the start:
`CountsFrom` is what the first SYN is going to make of the `seq_base` that nothing has
set. A process that ends while it connects appears as killed before its first step.
In the other direction `Greeting` is the session seen as a handshake alone, with what
`wait_connect` has recorded (`RecordedSeqNum`) as the number of the receiver, since
`recv_file` and `wait_close` count `seq_num` up afterwards.

### How `RtpClose` corresponds to the code

Here time matters. It passes in rounds, the 100 ms after which `close` repeats its
FIN; what is sent in a round arrives in it or is lost, which `losses` counts, and
`NextRound` happens when whoever waits has read everything. `c_left` and `r_left` are
the rounds left of the deadline `end` of either call; `c_addrlen` and `r_addrlen`
say whether `addrlen` is set. `AnswerAtOnce` is the short way of `wait_close`,
taken when a FIN has been recorded before; `WaitForFin`, `RecvFin`, `RecvFinAgain` and
`LingerEnds` are the long one. The programs of this repository take the long way never
(`recv_file` returns 0 only with a FIN recorded), a caller of `Rtp` that ends its
transfer in another way does. `LateNumbers` are the header numbers of FINs and FIN&ACKs
of an earlier run on the same two ports, which may arrive at any time. A late FIN&ACK
costs the FIN of its round, since `close` starts another 100 ms without it
(`RecvWrongFinAck`, `rtp.cpp:524-529`): `c_anew` says so for the present round, `skipped`
counts those that have passed, and `LossesExplainTimeout` books them beside the losses. `owed` is a
history variable: in how many rounds the receiver is going to answer while `close`
still waits. `CloseTimeLeft` and `WaitTimeLeft` are the rounds that a call can last at
most from where it stands, the wait for the FIN and the 2 s after it together.

### How `Packetize` corresponds to the code

`bytes` is the size of the file on disk, `i` the loop variable, `packed` the number of
bytes in the packets made so far. `FileSize`, `TotalPackets`, `Length` and `Offset` are
the expressions of lines 699-717 with their wrap-around at `SizeMod` = 2^32.

## Runs

| run | instance | shows |
|---|---|---|
| `transfer_safety` | `SeqMod` 8, `x` in {1, 6}, garbage in {0, 7}, files of 0, 1, 3 packets, `Unit` 4 | type correctness, nine safety properties, the inductive invariant and the refinement; about 330,000 states |
| `transfer_liveness` | `SeqMod` 8, `x` = 6, files of 0 and 2 packets, a late FIN of any number | `CutOffIsNoticed`, and `Termination` under `FairLateSpec`; about 110,000 states |
| `garbage_seq_base` | as above, garbage 7 above `x` = 6, numbers wrap | `Termination` fails |
| `fast_recovery` | 4 packets | `RecoveryInflatesWindow` fails |
| `close_failure` | 1 packet | `SenderSuccessMeansFile` fails |
| `handshake_safety` | `SeqMod` 4, three senders with `x` in {0, 1, 3}, 2 retries, garbage in {0, 2} | type correctness, agreement of the two sides, the inductive invariant, `Termination`, the refinement of `AgreedConnection`; about 26,000 states |
| `handshake_silence` | one sender | `SilenceMeansArrived` fails |
| `session` | `SeqMod` 8, `x` = 6, garbage 5, files of 0, 1, 2 packets, one retry | the two programs together: the refinements of `RtpTransfer` and of `RtpHandshake`, half-open connections, early FINs, exit status, `SessionTermination`; about 163,000 states |
| `close` | deadlines of 6, 4 and 3 rounds, four losses, a late number, `seq_num` in {0, 3} with `SeqMod` 4 | who may believe that the connection is closed, how many losses and skipped FINs it takes for the sides to disagree, that no deadline moves (`TimeRunsOut`), `Termination` |
| `close_peer` | short deadlines | `ClosedForgetsPeer` fails |
| `packetize` | payload 3, `SizeMod` 64, thirteen sizes around multiples of the payload up to the largest that fits | packets are seamless and hold the file |
| `packetize_wrap` | sizes 30 and 62 | `WholeFile` fails |

Why the bounds are enough: with three packets a window larger than one, packets
that overtake each other, three duplicate ACKs (the network repeats datagrams), a
new ACK that ends fast recovery and a retransmission of several packets all
happen; with `x` = 6 and `SeqMod` = 8 packet 2 and the FIN after it wrap; `x` = 1
with garbage 7 is the skewed receiver that still works, `x` = 6 with garbage 7 the one
whose file of three packets stalls at packet 2; the empty file takes the early return of `send_file_gbn`. There is no state constraint: all counters are
bounded by the file except `cwnd` and `ssthresh`, which a finite number of packets
keeps finite. The termination run is smaller because its graph is searched
for fair cycles; two packets suffice for a retransmission of several packets, and
for a late FIN that cuts off both, one or none of them or hides the real one.
Three senders give a receiver that hears a SYN, a SYN&ACK or an ACK of two others;
`x` = 3 is the last number before the wrap of `inc_seq32`. Two retries are as good as
fifty: a retry differs from the one before only in the counter. In `session` the file of
two packets wraps inside the data and the one of one packet at the FIN; the empty one
lets a FIN overtake the ACK of the handshake. The
deadlines of `close` keep the order of those in the code, 5 s, 5 s and 2 s: `close` may
begin before, during and after the wait of `wait_close` and may time out while
`wait_close` lingers and after it. Four losses are one more than `wait_close` has
rounds to linger, so that `LossesExplainTimeout` is met with equality and with a spare;
three rounds of lingering are enough for a late FIN&ACK that would silence `close` for
good to show.

### Fairness

`FairSpec` of `RtpTransfer` assumes weak fairness of what a thread does on its own
(sending the window, the FIN and its repetitions, writing the file, `wait_close`), and
strong fairness of the reception of a datagram that is sent again and again, kind by
kind: the packet at `base`, a FIN, an ACK of new data, a FIN&ACK. Retransmission is
strongly fair as a whole, not its timer alone: duplicate ACKs restart the timer of
`base` (`rtp.cpp:944`), but then they send that packet themselves. `close` lasts 5 s at
most, hence `CloseFails` is weakly fair. The two long timeouts are fair only when the
other process is gone, because a network that merely loses much does not make them
expire for certain. In the handshake the 2 s of `connect` and the 5 s of
`wait_connect` are weakly fair, receptions are not: both calls return even if nothing
ever arrives. The timeout that counts the retries of `connect` is not fair by itself. A
SYN&ACK with a wrong number makes `connect` begin another 100 ms without counting
(`rtp.cpp:306-310`), so that a receiver that keeps answering an earlier sender on this
port can hold the timeout up; fair is only `CallGoesOn`, that the wait ends by the one or
by the other, where the network delivers each datagram finitely often. What ends `connect`
then is `wait_connect`, whose 5 s run whatever arrives: without the fairness of
`WaitConnectFails` TLC finds `connect` held up for ever.
`FairSession` makes the same assumptions of each part while its calls run;
the long timeouts are fair when the other process has exited, in whatever phase. In
`RtpClose` time goes on (`NextRound`), the calls are made, and what has arrived is read.
`FairLateSpec` adds nothing to `FairSpec`: no late FIN has to arrive. Nothing is assumed of `Lose`, the failures or the
other timeouts.

### What the failing runs say

* `garbage_seq_base`: with a garbage value above `x` the receiver counts 2^30 higher than
  the sender. It decodes header numbers above `x` accordingly, buffers these packets and
  acknowledges them; the numbers after the wrap are below `x`, get nothing added and look
  old. So it acknowledges the last number before the wrap for ever: with `x` = 6 of 8,
  header 7 is accepted, header 0 never is. The sender hears these ACKs, its 5 s timer never
  expires, and the transfer does not end (`rtp.cpp:430` against the comment at `799`).
  Where the numbers do not wrap, the same garbage shifts all numbers of the receiver by 2^30 and does no
  harm; `SkewedRoundTrip` proves it.
* `fast_recovery`: the branch that inflates the window (`rtp.cpp:953-958`) is dead,
  because the count stays at 3 and the test before it holds again: instead `base` is sent
  again, `ssthresh` becomes half of the inflated window and the window three packets more.
* `close_failure`: the sender exits with status 0 after a failed `close`, which
  `sender.cpp:40` calls harmless; the receiver may have written nothing. In the shortest trace
  the sending of the first FIN fails; that all FINs are lost has the same effect.
* `handshake_silence`: `connect` takes 2 s of silence for the arrival of its ACK
  (`rtp.cpp:354`); if the ACK and the repeated SYN&ACKs are lost, the receiver still
  waits, ignores the data that now comes and gives up after 5 s.
* `close_peer`: the short way of `wait_close` returns 0 with `addrlen` set
  (`rtp.cpp:576`), which `rtp.h:56` asks to be cleared; the same object would throw
  away the SYN of another peer.
* `packetize_wrap`: rounding the size up wraps around for files of more than
  2^32 - 1461 bytes, `send_file` sends nothing and reports success.

## Proofs

The constants are arbitrary within their named assumptions: `SeqMod` > 1, every file has
fewer than `SeqMod` - 1 packets, `Unit` is positive. Nothing is assumed of the garbage in
`seq_base`: the safety of the transfer does not depend on it, although its termination
does (`garbage_seq_base`).

The safety properties are not inductive by themselves. `IndInv` is `CoreInv`, which has
all parts but the last one, and `FinInv`:

* `BaseInv`, `SeqNumInv`: from where both sides count, and where `seq_num` stands. A
  receiver that counts from `x` + `SeqMod` recognises only the packets before the wrap
  (`Recognised`), and takes the others for packets from before the connection
  (`ReceiverMistakes`), so that they never get into its buffer or under `recv_base`;
* `WindowInv`: acknowledged <= received in order <= sent <= total, and what each
  place in the sender's loop says of them;
* `CcSane`: the window never falls below one packet, which is why a sender with
  nothing outstanding may always send (`EmptyWindowAdmits`), and in fast recovery not
  below `ssthresh`;
* `BufferInv`: the buffer holds recognised packets that were sent, and all below
  `recv_base`;
* `PlaceInv`, `FileInv`: what each place of the two programs says of the other one, and
  what is in the written file: the buffer in order, whatever it held at that moment;
* `NetworkInv`: every ACK on its way carries a number the receiver has reached, every
  packet one that was sent, a FIN exists only when all is acknowledged. This is the
  part that makes lost, old and repeated datagrams harmless;
* `FinInv`: what the receiver may conclude from a FIN. Its number may look old to a
  skewed receiver, but is never taken for a larger one.

`RtpTransferProofs` has one lemma per action (`SendNextKeeps`, `NewAckKeeps`,
`RecvDatKeeps`, ...), `NextKeeps` joins them, `Invariance` is the theorem and the
other theorems follow from it: `TypeCorrect`, `NothingAckedIsLost`,
`FinComesLast`, `FileArrivesIntact`, `CloseConfirmed`, `FinAckNumbered`,
`WaitingIsArmed`, `RecoveryCounts`, and `SkewIsHarmless`: where the garbage keeps the
transfer from its end, no file is written either. `WindowEarned` is inductive relative to
`CoreInv`: slow start adds a packet for each new ACK, and the three packets that fast
retransmit adds again for every further duplicate come after `ssthresh` has been set to
half the window, so that `cwnd` stays within six packets of what is acknowledged; so
does what is in flight, because the window only admits what it holds.

Late FINs break `FinInv` and nothing else. No action needs `FinInv` to keep `CoreInv`,
not even the two that end `recv_file`, because `CoreInv` speaks of the file that is
written and not of the whole one: `LateInvariance`. `LateFinsHurtNothingElse` draws from
it that a close which returns 0 still means a whole file at the receiver, and
`CutOffNoticed` that a `send_file` which returns 0 does: it has all packets
acknowledged, so they are in the buffer, and a buffer that holds all numbers is written
as the file (`AckedFileIsWhole`, by `FileOfBuffer`, which counts the numbers below each
place). The number lemmas (`RoundTrip`, `SkewedRoundTrip`, `SkewedWrap`) say what both
sides make of a header; `FirstMissingIsFirst` and `FileOfRange` say what the loops over
`data_map` compute. `RtpRefinementProofs` maps every step to a step or a stutter of
`ReliableTransfer`.

The theorems about `RtpHandshake` hold for all constants within their assumptions, for
every garbage `seq_base` too: the conversion at the SYN loses at most a multiple of
`SeqMod` (`AcceptsItsSyn`). `HandshakeInv` says in addition to the properties what each
datagram tells: a SYN of a sender that was started, a SYN&ACK of the one SYN that
was accepted, an ACK of a sender that was answered. That `inc_seq32` maps
different numbers to different ones (`NextNumber`) then gives `Agreement`.
`HandshakeRefines` uses the same invariant: under the mapping every action is an action of
`AgreedConnection` or a stutter, and the guard of `Establish` is what the ACK tells.

`RtpSessionProofs` proves `SessionInvariance`, the inductive invariant `SessionInv` that
says what has not happened yet while either side still connects, and with it
`SessionRefines`: every step of the session is a step or a stutter of `RtpTransfer`.
The key is that the conversion at the first SYN yields what `RtpTransfer` chooses at the
start (`CountsFrom`). `Invariance` of `RtpTransferProofs` then holds of every session
through INSTANCE, and `EarlyFinIsHarmless`, `HalfOpenNoticed`, `ReceiverSuccess` and
`SessionTypeCorrect` follow: a FIN that was sent means that all is acknowledged, and
nothing can be acknowledged before the receiver is connected. A FIN recorded that early
may look old to a skewed receiver, which ends `recv_file` as well.

`SessionHandshakes` is the other half: every step of the session is a step or a stutter of
`RtpHandshake`. The steps of the transfer leave its variables alone, all but `seq_num`
of the receiver, which `RecordRests` shows to stay what was recorded. It says no more than
that: the datagrams of the two phases live in variables of their own, because no call asks
for the flags of the other phase. The two
refinements compose with those of the parts: `SessionConnects` and `SessionKeepsPromise`
say that a run of the two programs, from the first SYN to both exits, is a behaviour of
`AgreedConnection` and of `ReliableTransfer`, and `SessionAgrees` that the three
properties of the handshake hold in it throughout. A session has one sender, so that no SYN&ACK with a
wrong number reaches it; `RtpHandshake` by itself has three.

`RtpCloseProofs` holds for all deadlines, numbers and losses, under the assumption that no
earlier run has used the number of this FIN (`LateNumbersAssumption`). `CloseInv` says
that both calls name the same number (`NumberInv`), what a place of one side tells of the
other (`PlaceInv`), and counts what was lost or not sent (`LossInv`): while `wait_close`
lingers and `close` waits, every past round has cost a lost datagram or a skipped FIN, and
so has the present one as soon as nothing is under way. From this follows `TimeoutIsExplained`. `CloseHeard` also
covers a `wait_close` that has failed: a `close` that returns 0 was answered before that.
`TimeRuns` is the part of `Termination` that is a safety property: no step gives either
call back any of its time and every round takes some, so that only a clock that stands
still could keep them from returning.

The theorems about `Packetize` assume `SizesFit`, no file larger than `SizeMod` -
`PayloadMax`; `packetize_wrap` shows that it is needed. The invariant `PackInv` is that
all packets but the last one are full (`PackInvariance`); `RoundingUp` is the arithmetic
behind it.

What the instances do not reach and only the theorems say: three packets in
flight are always within the bound of `WindowIsEarned`, so that only its half about `cwnd`
can fail there; and an early FIN meets a skewed receiver only with a garbage value above `x`, which `session` leaves
out. It and `transfer_liveness` have garbage below `x` only, because above it a connection
that wraps does not end: that is what `garbage_seq_base` shows.

Only model-checked: the three `Termination` properties and `SessionTermination`, since
liveness and ENABLED are out of the prover's reach, and the failing runs. The loops
over `data_map` are operators on sets (`FirstMissing`, `FileOf`) and not recursion, so
that their lemmas can be proved without induction over data.

## Not modelled

* The tests of `recv_packet` (`rtp.cpp:114-145`) on checksum, size and source address are
  losses. That they reject the right datagrams is a matter of bytes: CRC and layout
  (`util.c`, `rtp.h:20-48`) are pure functions without protocol state.
* FINs of an earlier run in `RtpSession` and in what `RtpTransfer` promises. The sender's
  port is chosen by the system, so that two runs seldom share both ports. What such FINs
  do to the transfer is the subject of `RtpLateFin`, what they do to the closing of
  `RtpClose`.
* A second connection on the same `Rtp` object. The programs make one; `close_peer` shows
  that the object of the receiver would not accept another.
* Durations in the transfer and in the handshake: every timer may expire whenever it is
  tested. Only `RtpClose` has rounds, because its claims are about deadlines.
* What the programs do before their first datagram (arguments, `socket`, `bind`, a file
  that cannot be read): it ends the process and nothing depends on it.
* `test.cpp`. It passes five arguments to `sender` and four to `receiver` (a window size
  and a mode), while the mains accept three and two (`sender.cpp:48`, `receiver.cpp:58`)
  and exit at once, and `CMakeLists.txt` does not build it. Its waiting for children and
  its comparison of files cannot happen with these programs.
* `dec_seq32` (never called), `last_ack_seq` (never read), log output, the mininet
  topologies (they do not run this code), the build files.
