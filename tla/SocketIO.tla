------------------------------ MODULE SocketIO ------------------------------
(***************************************************************************)
(* The socket wrapper on both platforms (mnet/mn_socket_unix.c,            *)
(* mn_socket_win32.c): the life of one socket, and the calls that wait.    *)
(* Such a call tries the system call, waits with mn_socket_waitfd for what *)
(* is left of the timeout (mnet/mn_timeout.c), and tries again.  The       *)
(* endpoint makes a call of "recvfrom" in every turn of its loop and one   *)
(* of "sendto" for every copy of a message.                                *)
(*                                                                         *)
(* Code takes no time; the clock moves while the system blocks and between *)
(* calls, and is not set back.                                             *)
(***************************************************************************)
EXTENDS Integers

CONSTANTS
  Platforms,  \* where the program may run
  Calls,      \* the calls made, among the six of the wrapper that wait
  Timeouts,   \* the timeouts they are given: records of block and total
  MaxClock,   \* bound on the clock
  MaxReady,   \* bound on the datagrams, connections or free buffers queued
  Troubles    \* bound on signals, spurious wake-ups and aborted connections

Sends == {"sendto", "send"}
Receives == {"recvfrom", "recv"}

ASSUME PlatformsAssumption == Platforms \subseteq {"posix", "win32"}
ASSUME CallsAssumption == Calls \subseteq Sends \cup Receives \cup {"accept", "connect"}
ASSUME TimeoutsAssumption == \A t \in Timeouts : t.block \in Int /\ t.total \in Int
ASSUME BoundsAssumption == MaxClock \in Nat /\ MaxReady \in Nat /\ Troubles \in Nat

VARIABLES
  platform, \* where the program runs
  sock,     \* "invalid" (MN_SOCKET_INVALID), "blocking" or "nonblocking"
  timed,    \* history: bind or setnonblocking went well, and since then neither has a
            \* bind failed nor the application called setblocking
  pc,       \* "idle", "try" (before the system call), "blocked" (in it), "wait" (in
            \* waitfd), "select"
  call,     \* which call it is
  empty,    \* it sends a message without bytes
  tout,     \* its timeout
  start,    \* tout->start
  until,    \* when select times out, Never without a limit
  clock,    \* mn_gettime
  ready,    \* what the kernel has queued for the call
  result,   \* what the last call returned
  moved,    \* history: what the call has taken from the kernel or put into it
  troubles  \* how many of Troubles have happened

setup == <<platform, sock, timed>>
args == <<call, empty, tout, start>>
vars == <<setup, pc, args, until, clock, ready, result, moved, troubles>>

Never == -1

Init ==
  /\ platform \in Platforms /\ sock = "invalid" /\ timed = FALSE
  /\ pc = "idle" /\ call \in Calls /\ empty = FALSE /\ tout \in Timeouts
  /\ start = 0 /\ until = Never /\ clock = 0
  /\ ready = 0 /\ result = "CLOSED" /\ moved = 0 /\ troubles = 0

-----------------------------------------------------------------------------
(* The life of the socket, between the calls that wait.                    *)

SetUp(mode, isTimed) ==
  /\ pc = "idle"
  /\ sock' = mode /\ timed' = isTimed
  /\ UNCHANGED <<platform, pc, args, until, clock, ready, result, moved, troubles>>

\* Sockets are born blocking.
Create == sock = "invalid" /\ SetUp("blocking", FALSE)

\* bind is called in blocking mode; on POSIX the mode is set back only if it goes well ...
BindPosix ==
  /\ platform = "posix" /\ sock # "invalid"
  /\ SetUp("nonblocking", TRUE) \/ SetUp("blocking", FALSE)

\* ... on Win32 always.
BindWin32 ==
  /\ platform = "win32" /\ sock # "invalid"
  /\ \E bound \in BOOLEAN : SetUp("nonblocking", bound)

\* Faulty variant: the mode is not set back.
ListenStaysBlocking == sock # "invalid" /\ SetUp("blocking", timed)

\* listen and shutdown are called in blocking mode, too, which is set back in any case.
Listen == sock # "invalid" /\ SetUp("nonblocking", timed)
Shutdown == sock # "invalid" /\ SetUp("nonblocking", timed)

SetBlocking == sock # "invalid" /\ SetUp("blocking", FALSE)
SetNonblocking == sock # "invalid" /\ SetUp("nonblocking", TRUE)

Destroy == sock # "invalid" /\ SetUp("invalid", FALSE)

LifeCycle ==
  Create \/ BindPosix \/ BindWin32 \/ Listen \/ Shutdown \/ SetBlocking \/ SetNonblocking \/ Destroy

-----------------------------------------------------------------------------
(* What a call makes of an outcome of its system call other than success:  *)
(* "retry" at once, "wait" in waitfd, or return a result.  "zero" is a     *)
(* system call that returns 0.                                             *)

PosixSend(outcome) ==
  IF outcome \in {"zero", "broken pipe"} THEN {"CLOSED"}
  ELSE IF outcome = "interrupted" THEN {"retry"}
  ELSE IF outcome = "would block" THEN {"wait"} ELSE {"ERROR"}

PosixReceive(outcome) ==
  IF outcome = "zero" THEN {"CLOSED"}
  ELSE IF outcome = "interrupted" THEN {"retry"}
  ELSE IF outcome = "would block" THEN {"wait"} ELSE {"ERROR"}

PosixAccept(outcome) ==
  IF outcome = "interrupted" THEN {"retry"}
  ELSE IF outcome \in {"would block", "aborted"} THEN {"wait"} ELSE {"ERROR"}

PosixConnect(outcome) ==
  IF outcome = "interrupted" THEN {"retry"}
  ELSE IF outcome = "would block" THEN {"wait"} ELSE {"ERROR"}

\* A send of nothing is no failure to Winsock: the code finds the error of an earlier call.
Win32Send(outcome) ==
  IF outcome = "zero" THEN {"DONE", "ERROR", "wait"}
  ELSE IF outcome = "would block" THEN {"wait"} ELSE {"ERROR"}

Win32Receive(outcome) ==
  IF outcome = "zero" THEN {"CLOSED"}
  ELSE IF outcome = "would block" THEN {"wait"} ELSE {"ERROR"}

Win32Accept(outcome) == IF outcome \in {"would block", "aborted"} THEN {"wait"} ELSE {"ERROR"}
Win32Connect(outcome) == IF outcome = "would block" THEN {"wait"} ELSE {"ERROR"}

PosixReactions(outcome) ==
  IF call \in Sends THEN PosixSend(outcome)
  ELSE IF call \in Receives THEN PosixReceive(outcome)
  ELSE IF call = "accept" THEN PosixAccept(outcome) ELSE PosixConnect(outcome)

Win32Reactions(outcome) ==
  IF call \in Sends THEN Win32Send(outcome)
  ELSE IF call \in Receives THEN Win32Receive(outcome)
  ELSE IF call = "accept" THEN Win32Accept(outcome) ELSE Win32Connect(outcome)

Reactions(outcome) ==
  IF platform = "posix" THEN PosixReactions(outcome) ELSE Win32Reactions(outcome)

Return(r) ==
  /\ pc' = "idle" /\ result' = r /\ until' = Never
  /\ UNCHANGED <<setup, args, clock>>

GoTo(where) ==
  /\ pc' = where /\ until' = Never
  /\ UNCHANGED <<setup, args, clock, result>>

Meets(outcome) ==
  \E reaction \in Reactions(outcome) :
    IF reaction = "retry" THEN GoTo("try")
    ELSE IF reaction = "wait" THEN GoTo("wait") ELSE Return(reaction)

-----------------------------------------------------------------------------
(* The system call.                                                        *)

\* A bound: no call is begun that the clock might not see the end of.  On Win32 each of the
\* troubles left may cost the whole of block again.
MayTake(t) ==
  IF t.total >= 0 THEN t.total
  ELSE IF platform = "win32" THEN (Troubles - troubles + 1) * t.block
  ELSE t.block

\* The caller marks the start and calls.
Begin ==
  /\ pc = "idle"
  /\ pc' = "try"
  /\ call' \in Calls /\ empty' \in {FALSE, call' \in Sends} /\ tout' \in Timeouts
  /\ clock + MayTake(tout') <= MaxClock
  /\ start' = clock /\ moved' = 0
  /\ UNCHANGED <<setup, until, clock, ready, result, troubles>>

\* Calls are not made on closed sockets.
TryClosed ==
  /\ pc = "try" /\ sock = "invalid"
  /\ Return("CLOSED")
  /\ UNCHANGED <<ready, moved, troubles>>

Trying == pc = "try" /\ sock # "invalid"

\* Faulty variant: the call that went through is made again.
TryDoneAgain ==
  /\ Trying /\ ready > 0 /\ ~empty
  /\ ready' = ready - 1 /\ moved' = moved + 1
  /\ Return("DONE") \/ GoTo("try")
  /\ UNCHANGED troubles

\* The system call goes through.
TryDone ==
  /\ Trying /\ ready > 0 /\ ~empty
  /\ ready' = ready - 1 /\ moved' = moved + 1
  /\ Return("DONE")
  /\ UNCHANGED troubles

\* A datagram without bytes, or the end of a stream: taken, or sent, but it does not count.
TryZero ==
  /\ Trying /\ ready > 0
  /\ call \in Receives \/ empty
  /\ ready' = ready - 1
  /\ Meets("zero")
  /\ UNCHANGED <<moved, troubles>>

\* It fails for good.
TryFails ==
  /\ Trying
  /\ \E outcome \in {"other"} \cup (IF call \in Sends THEN {"broken pipe"} ELSE {}) : Meets(outcome)
  /\ UNCHANGED <<ready, moved, troubles>>

TryInterrupted ==
  /\ Trying /\ troubles < Troubles
  /\ troubles' = troubles + 1
  /\ Meets("interrupted")
  /\ UNCHANGED <<ready, moved>>

\* The connection to accept is gone again.
TryAborted ==
  /\ Trying /\ call = "accept" /\ ready > 0 /\ troubles < Troubles
  /\ ready' = ready - 1 /\ troubles' = troubles + 1
  /\ Meets("aborted")
  /\ UNCHANGED moved

\* There is nothing yet: a non-blocking socket says so ...
TryWouldBlock ==
  /\ Trying /\ ready = 0 /\ sock = "nonblocking"
  /\ Meets("would block")
  /\ UNCHANGED <<ready, moved, troubles>>

\* ... and in a blocking one the thread sleeps, whatever the timeout.
TryBlocks ==
  /\ Trying /\ ready = 0 /\ sock = "blocking"
  /\ GoTo("blocked")
  /\ UNCHANGED <<ready, moved, troubles>>

Wakes ==
  /\ pc = "blocked" /\ ready > 0
  /\ GoTo("try")
  /\ UNCHANGED <<ready, moved, troubles>>

-----------------------------------------------------------------------------
(* mn_socket_waitfd.                                                       *)

Pos(x) == IF x > 0 THEN x ELSE 0
Less(x, y) == IF x < y THEN x ELSE y

\* mn_timeout_get: the seconds left after a success, Never if there is no limit.
TimeoutGet(t) ==
  IF t.block < 0 /\ t.total < 0 THEN Never
  ELSE IF t.block < 0 THEN Pos(t.total - clock + start)
  ELSE IF t.total < 0 THEN t.block
  ELSE Less(t.block, Pos(t.total - clock + start))

\* Faulty variant: the time already spent is not taken off.
GetRetryFull(t) ==
  IF t.block < 0 /\ t.total < 0 THEN Never
  ELSE IF t.block < 0 THEN t.total
  ELSE IF t.total < 0 THEN t.block
  ELSE Less(t.block, t.total)

\* mn_timeout_getretry: the same after a failure.
GetRetry(t) ==
  IF t.block < 0 /\ t.total < 0 THEN Never
  ELSE IF t.block < 0 THEN Pos(t.total - clock + start)
  ELSE IF t.total < 0 THEN Pos(t.block - clock + start)
  ELSE Less(t.block, Pos(t.total - clock + start))

\* Without time to wait it returns before it looks at the socket ...
WaitZero ==
  /\ pc = "wait" /\ tout.block = 0
  /\ Return("TIMEOUT")
  /\ UNCHANGED <<ready, moved, troubles>>

\* ... else it blocks in select for the time left.
SelectFor(left) ==
  /\ pc = "wait" /\ tout.block # 0
  /\ pc' = "select"
  /\ until' = IF left = Never THEN Never ELSE clock + left
  /\ UNCHANGED <<setup, args, clock, ready, result, moved, troubles>>

WaitPosix == platform = "posix" /\ SelectFor(GetRetry(tout))

\* On Win32 a call that found nothing after all gets the whole of block again.
WaitWin32 == platform = "win32" /\ call # "accept" /\ SelectFor(TimeoutGet(tout))

\* accept waits for the socket it does not have yet, not for the one that listens.
WaitAcceptWin32 ==
  /\ platform = "win32" /\ call = "accept"
  /\ pc = "wait" /\ tout.block # 0
  /\ Return("ERROR")
  /\ UNCHANGED <<ready, moved, troubles>>

\* The socket is ready: try again.
SelectReady ==
  /\ pc = "select" /\ ready > 0 /\ call # "connect"
  /\ GoTo("try")
  /\ UNCHANGED <<ready, moved, troubles>>

\* connect ends here, well ...
SelectConnects ==
  /\ pc = "select" /\ ready > 0 /\ call = "connect"
  /\ ready' = ready - 1 /\ moved' = moved + 1
  /\ Return("DONE")
  /\ UNCHANGED troubles

\* ... or not: on POSIX with the errno of a recv of nothing, ...
RefusedPosix ==
  /\ platform = "posix" /\ pc = "select" /\ ready > 0 /\ call = "connect"
  /\ Return("ERROR")
  /\ UNCHANGED <<ready, moved, troubles>>

\* ... on Win32 with SO_ERROR, if that is set by now.
RefusedWin32 ==
  /\ platform = "win32" /\ pc = "select" /\ ready > 0 /\ call = "connect"
  /\ \E r \in {"ERROR", "UNKNOWN"} : Return(r)
  /\ UNCHANGED <<ready, moved, troubles>>

SelectTimesOut ==
  /\ pc = "select" /\ ready = 0 /\ clock = until
  /\ Return("TIMEOUT")
  /\ UNCHANGED <<ready, moved, troubles>>

\* Faulty variant: an interrupted wait counts as one that is over.
SelectInterruptedEnds ==
  /\ platform = "posix" /\ pc = "select" /\ troubles < Troubles
  /\ troubles' = troubles + 1
  /\ Return("TIMEOUT")
  /\ UNCHANGED <<ready, moved>>

\* EINTR: wait again, for what is left by now.
SelectInterrupted ==
  /\ platform = "posix" /\ pc = "select" /\ troubles < Troubles
  /\ troubles' = troubles + 1
  /\ GoTo("wait")
  /\ UNCHANGED <<ready, moved>>

SelectFails ==
  /\ pc = "select"
  /\ Return("ERROR")
  /\ UNCHANGED <<ready, moved, troubles>>

-----------------------------------------------------------------------------
(* The kernel and time.                                                    *)

Arrive ==
  /\ ready < MaxReady
  /\ ready' = ready + 1
  /\ UNCHANGED <<setup, pc, args, until, clock, result, moved, troubles>>

\* What was ready is gone: a bad checksum, another reader, a buffer filled up.
Vanish ==
  /\ ready > 0 /\ troubles < Troubles
  /\ ready' = ready - 1 /\ troubles' = troubles + 1
  /\ UNCHANGED <<setup, pc, args, until, clock, result, moved>>

Tick ==
  /\ clock < MaxClock
  /\ \/ pc = "idle"
     \/ pc \in {"blocked", "select"} /\ ready = 0 /\ clock # until
  /\ clock' = clock + 1
  /\ UNCHANGED <<setup, pc, args, until, ready, result, moved, troubles>>

\* What the thread goes on with as long as nothing fails and no signal comes.
Proceeds ==
  \/ TryClosed \/ TryDone \/ TryZero \/ TryWouldBlock \/ TryBlocks \/ Wakes
  \/ WaitZero \/ WaitPosix \/ WaitWin32 \/ WaitAcceptWin32
  \/ SelectReady \/ SelectConnects \/ SelectTimesOut

Code ==
  \/ Proceeds
  \/ TryFails \/ TryInterrupted \/ TryAborted
  \/ RefusedPosix \/ RefusedWin32 \/ SelectInterrupted \/ SelectFails

Next == LifeCycle \/ Begin \/ Code \/ Arrive \/ Vanish \/ Tick

Spec == Init /\ [][Next]_vars

\* The thread runs, select returns when something is ready or its time is over, and time passes.
\* No error is owed: a select without a limit, or with a wrong one, may go on for ever.
FairSpec == Spec /\ WF_vars(Proceeds) /\ WF_vars(Tick)

-----------------------------------------------------------------------------
\* How long the call may take altogether, Never for any time.
Longest == IF tout.total >= 0 THEN tout.total ELSE tout.block

\* Every variable stays in its range.
TypeOK ==
  /\ platform \in Platforms /\ sock \in {"invalid", "blocking", "nonblocking"}
  /\ timed \in BOOLEAN /\ empty \in BOOLEAN
  /\ pc \in {"idle", "try", "blocked", "wait", "select"}
  /\ call \in Calls /\ tout \in Timeouts
  /\ start \in 0..clock /\ clock \in 0..MaxClock /\ until \in {Never} \cup Nat
  /\ ready \in 0..MaxReady /\ troubles \in 0..Troubles /\ moved \in 0..1
  /\ result \in {"DONE", "TIMEOUT", "CLOSED", "ERROR", "UNKNOWN"}

\* "Determines how much time we have left" (mn_timeout.c:69): whatever was done to a
\* socket after its bind went well, and however often a call on it is interrupted or finds
\* nothing after all, its waits together keep to the timeout.  (On Win32 only to an
\* overall one: WaitWin32.)
WaitsKeepToTimeout ==
  timed /\ pc # "idle" /\ Longest >= 0 /\ (platform = "posix" \/ tout.total >= 0) =>
    /\ clock - start <= Longest
    /\ pc = "select" => until - start <= Longest

\* MN_TIMEOUT means that the time is over, and without a time to wait for that the
\* socket had nothing: a datagram that came in time is never passed over.
TimeoutIsHonest ==
  [][pc # "idle" /\ pc' = "idle" /\ result' = "TIMEOUT" =>
       \/ tout.block = 0
       \/ /\ ready = 0
          /\ \/ tout.block > 0 /\ clock - start >= tout.block
             \/ tout.total >= 0 /\ clock - start >= tout.total]_vars

\* A call moves one item with bytes when it returns MN_DONE and none when it returns
\* anything else: a message of no bytes (one that did not fit the write buffer) is not
\* reported as sent.  (On Win32 that is left to chance: Win32Send.)
DoneMeansMoved ==
  pc = "idle" /\ (platform = "posix" \/ ~empty) => ((result = "DONE") <=> (moved = 1))

\* A call with a timeout returns, whatever was done to the socket after its bind went well.
\* (On Win32 a message of no bytes may be sent again for as long as the error of an earlier
\* call is WSAEWOULDBLOCK: Win32Send.)
CallReturns ==
  (timed /\ pc # "idle" /\ Longest >= 0 /\ (platform = "posix" \/ ~empty)) ~> pc = "idle"
=============================================================================
