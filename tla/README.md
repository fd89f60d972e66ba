# mcoap in TLA+

mcoap is a small implementation of CoAP (RFC 7252) over UDP in C. This directory holds
TLA+ modules of its core, the TLC configurations that check them on small instances,
and proofs, checked by TLAPS, of the properties that matter most.

## The system

| Component | State | Operations | Interacts with |
|---|---|---|---|
| UDP endpoint (`mcoap/mc_endpt_udp.c`) | `running`, `nextid`, socket timeout, read and write buffer, confirm queue | get/post/put/delete, send, ack, recv, check_queues, loop, start, stop | calls the queue, the codec, the URI parser and the socket; calls back the application's read function and result functions |
| Confirm queue (`mcoap/mc_buffer_queue.c`) | doubly linked list of entries: id, destination, datagram, result function, transmission counter, timeout | add, get, remove, remove_entry, timeout, count, free | walked by check_queues while callbacks change it |
| Retransmission timing (`mc_buffer_queue.c`, `mc_endpt_udp.c`) | total and start of an entry's timeout, counter | mk_timeout, doubling, give-up | wall clock (`mnet/mn_timeout.c`) |
| Socket wrapper (`mnet/mn_socket_unix.c`, `mnet/mn_socket_win32.c`, `mnet/mn_timeout.c`) | the socket and its blocking mode, start of the call, blocking limit | create, bind, listen, shutdown, setblocking, destroy; connect, accept, send, sendto, recv, recvfrom, waitfd | kernel: EAGAIN, EINTR, select; Winsock |
| Message codec (`mc_message.c`, `mc_header.c`, `mc_options_list.c`, `mc_option.c`, `mc_buffer.c`) | none, but buffers | to_buffer, from_buffer, buffer_size; merge, copy and look up options, their values | endpoint's buffers |
| URI parser (`mc_uri.c`) | position in the string, option array | to_options, to_address | options of a request |
| Tokens (`mc_token.c`) | | create2 | message |
| Thread, mutex, log, memory, byte order (`msys`) | | wrappers | platform |
| Applications (`mcget`, `examples/tmclient`, `examples/tmserver`, `testbase`) | the message received, what the result function stored | parse arguments, request, receive, report | an endpoint each; they call recv and check_queues themselves |
| Unit tests (`testmc`, `cutest`) | | | endpoint |

One thread does everything: `mc_endpt_udp_loop` receives with a timeout, hands what it
got to the read function, and walks the confirm queue. The application acts before the
loop and in its callbacks, or calls recv and check_queues itself, as the clients do. What makes this hard:

* result functions are called in the middle of send, recv and check_queues, with the
  entry still linked, and may send; a send that fails calls a result function in turn;
* the walk holds a pointer into a list that those calls change;
* the network loses, duplicates, delays and garbles, ids wrap and can be chosen by the
  application, and acknowledgements are matched by id alone;
* a request must be reported once, whichever of acknowledgement, time-out and failing
  socket comes first; nothing but the loop makes that happen;
* the blocking mode of a socket is changed back and forth, and a call in the wrong mode
  knows no timeout;
* programs leave sockets and requests behind, and take any datagram for their answer;
* the bytes of options change hands between the URI parser, the application, a merged
  list and the message;
* encodings have boundaries (13, 269, 65536) that two separate pieces of code must agree on.

`PROJECT.json` lists these hazards at their lines, with the properties that watch them.

## The modules

| Module | What it is |
|---|---|
| `Endpoint` | the endpoint, its loop, callbacks, peer and network |
| `Confirmable` | what the endpoint promises its sender; `Endpoint` implements it |
| `EndpointProofs` | theorems about `Endpoint` |
| `ConfirmQueue` | the queue as heap cells with pointers, and the walk over it |
| `MsgQueue` | a FIFO queue; `ConfirmQueue` implements it |
| `ConfirmQueueProofs` | theorems about `ConfirmQueue` |
| `NatFacts` | lemmas on numbers, on functions defined by recursion over them, and on joined sequences; used by the other proofs |
| `RetransmitTimer`, `RetransmitTimerProofs` | one entry's timeout against the clock, and theorems |
| `SocketIO`, `MCSocketIO`, `SocketIOProofs` | a socket and the calls that wait on it, on both platforms, its instance, and theorems |
| `OptionInts` | the variable-length integers of an option header |
| `Codec`, `MCCodec`, `CodecProofs` | a message to bytes and back, its instance, and theorems |
| `Uri`, `MCUri`, `UriProofs` | a URI to the address and the options of a request, its instance, and theorems (about `Request` too) |
| `Request`, `MCRequest` | a request from the URI to the options the server looks up: composes `Uri` and `Codec` |
| `Programs`, `MCPrograms`, `ProgramsProofs` | mcget, tmclient with tmserver, and testbase, the instance, and theorems |

`Endpoint`, `Codec` and `Uri` model one path of the code at three levels: `Uri` makes the
address and the options of a request, `Codec` its bytes, `Endpoint` takes it as a numbered
request. `Request` EXTENDS `Uri` and INSTANCEs `Codec` to follow a request through both, with
the application's own options merged in between. `Programs` stands on top: an endpoint is a
socket, a queue of one request at most, and calls of recv and check_queues in turn.
`ConfirmQueue` justifies the queue of `Endpoint`, a set of numbers read in increasing
order; `RetransmitTimer` says when the `Expire` of `Endpoint` happens; `SocketIO` is
what happens within one recvfrom or sendto.

Definitions whose comment begins *Faulty variant* are no part of a specification: each is
a definition with a mistake one could make in the code, and some property fails with it.

### Endpoint

| State or action | Code |
|---|---|
| `pc`, `running`, `cursor`, `loopcb`, `sendcb` | where the thread is: stage of `endpt_udp_loop`, `current` of check_queues, the callbacks on the stack |
| `confirmq`, `msgid`, `hasfn`, `xmitcounter`, `expired` | the entries; a request is the number of its send |
| `net`, `acks`, `received` | datagrams on their way, and what the peer has got |
| `sent`, `sendFailed`, `outcome`, `notified` | history, for the properties |
| `Request`, `RequestNon`, `Echo` | `send_msg` with and without a result function; `mc_endpt_udp_send` with an id from elsewhere, as `tmserver` does |
| `RecvNothing`, `RecvOther`, `RecvMalformed`, `RecvAck`, `RecvUnknownAck` | the ways through `mc_endpt_udp_recv` |
| `SkipEntry`, `Retransmit`, `RetransmitFails`, `GiveUp` | a turn of check_queues |
| `SendCallbackReturns`, `LoopCallbackReturns` | a result function returns and its caller removes the entry |
| `ReadfnReturns`, `EndCheck`, `StartLoop`, `ClearRunning` | the loop |
| `Expire`, `PeerReceives`, `Lose` | time, peer, network |

A step is what the thread does between two points at which something else can happen:
a call of a callback or a socket call. A null dereference leads to `pc = "crashed"`.
`acks` is a set of ids and `net` a set of requests: with duplication a datagram stays
after it was delivered, without it two acknowledgements of a request still occur when two
copies were received.

### SocketIO

`pc` is where the thread is in a call: before the system call (`try`), asleep in it because
the socket is blocking (`blocked`), in `mn_socket_waitfd` (`wait`), or in `select`. `sock` is
the mode; `timed` says that bind went well and nobody asked for blocking mode since. The
tables `PosixSend` to `Win32Connect` are the error handling of the twelve functions: what each
makes of an outcome of its system call. `MayTake` bounds what is begun, so that the clock sees
the end of every call that keeps to its timeout. The platforms differ more than the names suggest:

* Winsock has no EINTR, so only POSIX waits again after a signal, and takes the time left from
  `mn_timeout_getretry`. Win32 takes it from `mn_timeout_get`: its `block` begins again with
  each wait, and `WaitsKeepToTimeout` can be stated there for overall timeouts only;
* on Win32 a failed bind sets the socket back to non-blocking, on POSIX not: there every later
  call blocks whatever its timeout (`CallReturns` asks for a bind that went well);
* on Win32 `accept` waits for the socket that it is to return, so it fails where it should wait;
* a message of no bytes is `MN_CLOSED` on POSIX; on Win32 the code reads the error of an
  earlier call, and any result may come.

### Codec and Uri

`Codec!Next` is one exchange: a message is made (`Init`, which sorts its options), written, cut to
the receiver's buffer, and read. `FromBuffer` is the set of messages it may be taken for, because
`mc_options_list_from_buffer` sorts what it has read once more (`ReadOptions`, `OptionsFrom`), by
qsort, which may leave options of equal number in any order. `stable` says whether the C library's
does keep it; it is a choice made once, and both values are checked. In `Uri` the variable `options`
is the array as the loops of `mc_uri_to_options` fill it: `OptionsAreBeginning` and `PlainIsParsed` are
about these loops, and the sort in `mc_options_list_init` that follows is in `Request`, which makes
its list by `OptionsSort`.

### Request

`Merge`, `CopyList`, `GetIndex`, `ListAt`, `InitUint32` and `AsUint32` are the functions of
`mc_options_list.c` and `mc_option.c`; `MkOptions`, `MkOptionsMerged` and `SendMsg` are
`mk_options` and `send_msg`. `held` and `freed` say whose bytes the message points to and whose
have been freed: sending freed bytes is sending `Garbage`. The comment at
`mc_endpt_udp.c:401` says that post frees the options given to it; they are copied, and stay
the caller's. `MkOptionsCrashes` is what the code does with a URI it refuses when there are
options to merge: it frees the list that it does not have. `LookUp` is what a server does to get
all options of a number: `mc_options_list_get_index` from behind the last one found.

`SentAssumption` and `ExtrasAssumption` keep names shorter than 269 and option numbers at most
268, because a length or a distance of option numbers from 269 on is not read back as it was
written (`Codec_long`); numbers are what the code has them in, 32 bits for the value of an
option and 16 for an id.

### Programs

`line` is a command line; `pc` the stage of the program; `turn` counts its requests. A
datagram is known by the request it belongs to and the port it came from, which is all that
matters to clients that look at neither id nor token. `sock = "blocking"` is a socket whose
bind failed, `"invalid"` one that was not made: the programs go on with both. `Acks` to
`CorePrintsBare` are the loop of the two tests of testbase, one after the other on the same port,
with the retransmissions of `check_queues`. Their server is one elsewhere, of which the code says
nothing: it answers in the acknowledgement or after it, with what the test expects or something
else, with options or without, or with bytes that are no message. Three things in the code take
testbase down then, and `CrashesExplained` says that there is no fourth: `recv` stores the sender in
a message it does not have (`mc_endpt_udp.c:186`); the test prints the options of a message that
has none, and so no list (`mc_options_list.c:411`, `print.c:28`; the assertion on the format option at
`core01_get_con.c:87` would be next), which any empty acknowledgement does; and an acknowledgement
left over from the first test finds no entry in the queue of the second. The first would take the
clients down too, but tmserver, which they are run with, sends only messages it has parsed; they
do not look at the options of what they get.

## The runs

Runs that pass:

| Run | Instance and why it is enough | Result |
|---|---|---|
| `Endpoint_core` | 2 requests, ids 1 to 2 (they wrap after two), limit 2, an id chosen by the application, duplication and garbling: nested callbacks, equal ids in the queue, a send in a callback of a failing send; the refinement to `Confirmable` too | 853,822 states |
| `Endpoint_live` | 2 requests that share the only id, fairness | 55,468 states |
| `ConfirmQueue_list` | 3 cells (a first, a middle and a last entry) and 2 ids (equal and different ones), every order of operations; the refinement to `MsgQueue` too | 6,678 states |
| `RetransmitTimer_times` | the code's ACK_TIMEOUT 2, 3 with the random factor, MAX_RETRANSMIT 4, in seconds, passes up to 2 s apart | 2,582 states |
| `SocketIO_calls` | both platforms, all six calls, five kinds of timeout (block only, poll, none, overall, both), two signals or disappointments, clock to 6, which leaves room for waits of Win32 that begin again in full, and for a wait that ends too late | 453,618 states |
| `Codec_short` | up to two options with numbers and lengths at 0, 11 to 13, 24, 268, 280; tokens, payloads with the marker byte; buffers that are too small; qsort stable and not | 246,920 states |
| `Uri_parse` | schemes, hosts (one in brackets, one of an unclosed and one of an empty bracket among them), ports, up to 3 segments and 2 queries, empty ones included; requests for some of them, with six lists of options of the application before, between and behind those of the URI, and integers at 0, 255, 256, 65535, 65536 and 2^31 - 1; qsort stable and not | 413,520 states |
| `Programs` | 58 command lines: flags in every place, wrong ones, none; up to three requests; a server on the port asked, on another, or none; every kind of reply to testbase; one duplicated datagram; MAX_RETRANSMIT 2 (the code has 4: the third and fourth copy differ in nothing) | 907,061 states |

Runs that show a disagreement between the code and what is said about it
(`PROJECT.json`, findings):

| Run | What it shows |
|---|---|
| `Endpoint_loop_ends` | a second acknowledgement of the same request dereferences a null entry |
| `Endpoint_stop` | `running = 0` from a callback is overwritten by the read function's result |
| `Codec_long` | two-byte extended integers are not read (memcpy arguments swapped) |
| `Uri_all` | a URI without a port loses its path and query |

A disagreement that no run of its own shows: MAX_RETRANSMIT, among the "transmission
parameters" of `mc_endpt_udp.h:21`, is a number of retransmissions, but `xmitcounter` counts
the first copy too. `TimeoutMeansExhausted`, which holds, says that a request times out after
MAX_RETRANSMIT copies in all. Another depends on the C library: `mc_uri_test.c:139-145` and
`174-183` assert that path segments and queries come out in order, which the code leaves to qsort.
`OptionsArrive` says what holds of every qsort (each option, as often as asked for, and no other),
and that the order holds too if qsort is stable; without that condition it is violated.

Deadlock is not checked in `SocketIO`, `Codec`, `Request` and `Programs`: the clock ends at its
bound, the function returns, or the program ends. `RetransmitTimer` stops when the entry is gone.

### Fairness

* `Endpoint!FairSpec`: the thread goes on executing once it is in the loop (callbacks
  return), and time passes. Nothing is assumed of the application or the network.
* `ConfirmQueue!FairSpec`: a call of `mc_buffer_queue_free` runs on.
* `RetransmitTimer!FairSpec`: time passes and passes are made, which the endpoint's
  socket timeout of 50 ms sees to.
* `SocketIO!FairSpec`: the thread runs, and select returns when something is ready or its time
  is over (`Proceeds`). No error and no signal is owed to it, so that a select without a limit,
  or with a wrong one, may go on for ever. The number of
  signals in one behaviour is bounded (`Troubles`): a program that is interrupted
  for ever does not return from a call, and the code cannot help it.
* `Programs!FairSpec`: the program runs, and a timeout is over in the end. Nothing is assumed
  of servers and network: `ProgramEnds` holds without any answer.

### Bounds

`MaxReq` (requests), `MaxId` (ids; 65535 in the code), `Node` (cells alive at a time),
`MaxClock` (with `MayTake` in `SocketIO`), `MaxReady`, `Troubles`, `Pass`, `Duplicates`; `Messages`, `Parts`, `Sent`, `Extras`
and `Lines` are finite sets. The theorems hold for every value of these bounds; those about
`Codec` for messages with any number of options, of any number, length and content that fit a
message.

## The proofs

`tlapm` checks every theorem for all values of the constants, under the named assumptions
of the modules: bounds are positive, ids chosen by the application are ids, the cells alive at a
time are finitely many and `Null` is none of them, arguments are words, the components of a URI
hold no delimiter that would end them (`PartsAssumption`; brackets are for hosts), the fields of
a message fit its header, the read buffer holds a header and a token, and a request is made of
names and option numbers that the codec reads back (the assumptions of `Request`).

**Endpoint.** The invariant has layers, each inductive with those before it:

1. `Types`, the ranges of the variables;
2. `Frames`, the shape of the call stack: which entry each frame reports, that it is
   queued, and that frames of failing sends are younger than what they interrupt. Without
   it `NoDanglingEntry` is not inductive: a callback could return into a frame whose entry
   another callback removed;
3. `Ledger`, what is true of a request by its status: `notified`, `sent`,
   `xmitcounter`, membership in the queue;
4. `Evidence`, that an acknowledgement in flight has a received request behind it.

To keep layers 3 and 4 from going through all actions, `StepEvent` first maps every step
to one of a few *events* (a request is sent, transmitted again, ends, is removed, ...), and
each layer is proved for the events. The same events give the refinement:
`EndpointImplementsConfirmable`. `PendingIffQueued`, `OneResult`, `TimeoutMeansExhausted`
(with `XmitCountsCopies`, on which it rests), `DoneMeansReceived` and `SilentAfterResult` follow from the layers.
`DistinctIdsMeanReceived` adds what `DoneMeansReceived` cannot say: with distinct ids the
acknowledged request itself was received.

**ConfirmQueue.** That `prev` and `next` agree is not inductive by itself: a list in two
parts, or with a cycle, satisfies it. The invariant `Shape` says that there is a
sequence without repetitions that spells the list out, and where in it the walk
stands; adding and unlinking append to and cut that sequence (`AddSpells`,
`UnlinkSpells`). Type correctness, `LinksAgree`, `DetachedIsAlone` and
`WalkMissesNothing` follow. The queue that others see is what the walk over `next` finds; that
walk is recursive, and `ChainIs` shows that it finds the sequence that `Shape` speaks of. With it
no entry is out of reach (`AllReachable`), and each step is shown to be the step of `MsgQueue` that
its comment names, or none: add appends, removing an entry cuts it out of the middle
(`ImplementsMsgQueueHolds`).

**RetransmitTimer.** The invariant relates the start of the running wait to the timeout:
the waits 1, 2, 4, ... times the first timeout add up to the running one less the first
(`SpanFollowsTimeout`). `BackoffRespected` and `GivesUpInTime` need the powers of two: the
invariant `Doubled` says that the timeout is the first one times 2^(copies - 1), and it is kept
because 2^(n + 1) is twice 2^n. The provers do not know that; `PowerDoubles` gets it from the
library's theorem that a set of n elements has 2^n subsets, by pairing the subsets of 1..n+1
with and without n + 1.

**SocketIO.** The steps of the code are of four kinds: it returns, it moves on, it does one of
these by the outcome of a system call, or it blocks in select. A lemma for each kind
(`ReturnKeeps`, `GoToKeeps`, `MeetsKeeps`, `SelectKeeps`) shows that it keeps the invariant, and
the steps are led back to them. `WaitsKeepToTimeout` is not inductive alone: `Waits` adds that
select ends neither before the timeout (which makes MN_TIMEOUT honest) nor without limit where
there is one; `Types`, that a socket that is `timed` does not block, and that a call under way has
moved nothing. `ReactionsReturn` is about the tables: no failure is taken for MN_DONE or
MN_TIMEOUT, except by Win32 for a message of no bytes.

**Uri.** `OptionsFit` needs to know what is still ahead: the invariant `RoomLeft` says that the
array has room for an option at every delimiter from the position on. An option is taken at a
delimiter and the position moves past it, so that the estimate falls by one at least
(`EstimateFalls`), with any mixture of slashes, question marks and ampersands. That strcspn ends
within the string (`SpanType`) rests on the least element of a set of numbers (`NatFacts`), that
the port lies within it on the closing bracket that getip6host insists on (`HostType`).
`AuthorityRead` keeps what the two functions read of the authority for `AddressAgrees`.
`ParseAdvances` follows from the same lemmas. `OptionsAreBeginning` and `PlainIsParsed` compare
with the components a URI was made of. `TextIsLaid` says where in the URI each of them lies; it
rests on `FlattenIsJoined`, which gives the elements of a concatenation of any number of pieces.
What the parser reads at each of these places is the component there (`PieceRead`,
`AuthorityReads`). The invariant `Found` says that the options made so far are the first of
`Expected`, and that the parser stands at the piece that comes next, or at the end of the URI
because a piece was empty or the port missing (which are the two ways in which the code loses
options). The proof showed that a host of an empty pair of brackets, which the code refuses, had
been called well-formed: the run had no such host, and has one now.

**Programs.** `NothingLeftBehind` rests on `AcksEndRequest`: in the loop of a test an
acknowledgement is one of its own request, and has taken that from the queue.
`OnlyCoreReports` shows that no other step of a test reports. The datagrams under way are a bag;
three lemmas say what sending, receiving and answering make of it (`SendAdds`, `ReceiveTakes`,
`ExchangeReplaces`). `Types` relates them to the turn the program is in. For `AnswersShownOnce`
the invariant `ClientBook` adds that, as long as nothing was duplicated, a request, its answer,
the message in mcget's hand and the number shown are one thing in one place (`EachOnce`), and that
every answer comes from where something listens. For `CrashesExplained`, `TestBook` says the same
of the request of the first test alone, as long as it went out once (`Alone`): its
acknowledgement cannot be left for the second test if the first has had it. That a message which
is printed without options is no acknowledgement of another test is in `AcksEndRequest`. `OneReportPerUri`
is about the words that packargs keeps, which are folded from the arguments: `FoldExists` (in
`NatFacts`) gives the function that a fold stands for, and `PackArgsKeepsUris` shows, argument by
argument, that the words kept are those that are no option, whose places `IsUri` tells by
the parity of the run of `-p` before them. The invariant `Asked` says where mcget is among these.

**Codec.** `IsLayout` says where each option of a message lies in its bytes and what the parser
knows of the number before it; `MessageLaidOut` shows that `mc_message_to_buffer` writes such
bytes, and that their number is the size computed before (`SizeIsExact`). The receiver goes over
them twice, to count the options and to read them. Both walks are functions defined by recursion
over the position; `RecursionsAgree` (in `NatFacts`) gives their values along the layout, so that
the first ends with the number of options, the second with the options themselves, and the walk
over a message that was cut with those that are whole, none of them with a value from behind the
cut (`CutKeepsBeginning`). What is read is then sorted again: options that are in order already
can only change places with others of their number, and with none if qsort is stable. The
invariant `Exchanged` relates the stages of the exchange to these. All but `SizeIsExact` are about
deltas and lengths below 269: longer ones are not read back, which the run `Codec_long` shows.
`IntegerRead` says why: the reader returns a shorter integer as it was written, and for a longer
one something that depends on an uninitialised variable and on nothing that was written.

**Request.** `OptionsArrive` joins what is proved about the two modules that `Request`
composes, and what is between them: that all of the URI is in its options (`PlainIsParsed`), that
sorting and merging lose and add nothing, that the message fits the codec (`MessageMade`), and
that the server reads what was written (`WholeIsRead`). Lists are compared by how often an option
is in them (`Times`), which is what sorting keeps (`SortedOptions`), joining adds (`TimesJoined`)
and a bag of them counts. The invariant `Carried` says at each stage of a request that the message
asks for exactly what was `Asked`, that its bytes are not freed before they are sent, and that the
datagram is all of the message or none of it; TLC had checked it before. The server's look-up
goes by recursion over the position; `LookUpFinds` shows that it finds the options of the number,
each as often as the list has it, and in the order of the list (`LookUpPicks`, by the function
`Picked`). A stable sort leaves what is found under a number unchanged (`LookUpSorted`), so that
nothing on the way from the lists that are joined (`LookUpJoined`) to the server can change it.
`NumbersArrive` adds that a number is read as it was stored, in one,
two or four bytes (`NumberStored`).

Only model-checked: liveness (`EveryRequestEnds`, `StopBeforeTestEndsLoop`, `FreeEmpties`,
`EntryEnds`, `CallReturns`, `ProgramEnds`), which the prover does not do under fairness. Every
other property of a passing run is a theorem.

## Not modelled, and the plan

* The background thread (`mc_endpt_udp_start`): it passes the address of a function where a
  pointer to a function pointer is expected, so that the thread does not get to the loop.
* `mn_select`, `mn_sleep` and `mn_socket_open`, which nothing calls; the variant of waitfd with
  poll; error texts (among them `mn_strerror` of `mn_socket_win32.c:480`, which calls itself for
  every error that is not above 0).
* Name resolution (`mn_sockaddr.c`) and random numbers: libraries. The mutex: nothing uses it.
* Log, memory, copying and printing: wrappers, and nothing a property is about. What is leaked
  (the structures of the option lists, the host of a URI) is left out for the same reason;
  bytes that are used after they were freed are not (`Request`).
* CuTest and the unit tests: test code, the framework vendored.
* A clock that is set: no property of a wait survives it, and the code reads no other clock.

Left to do:

1. `TwoEndpoints`: a client and an echo server, each with the full endpoint of `Endpoint`, over
   one network (`Programs` has the server as one step).
2. Properties of `mc_buffer_queue_free` during a walk, if the endpoint should come to free its
   queue in deinit.
