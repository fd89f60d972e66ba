--------------------------- MODULE SocketIOProofs ---------------------------
(***************************************************************************)
(* Theorems about SocketIO, for all timeouts, calls and bounds: what a     *)
(* call returns says what it did, and the waits of a call together take no *)
(* longer than its timeout.                                                *)
(***************************************************************************)
EXTENDS SocketIO, TLAPS

USE PlatformsAssumption, CallsAssumption, TimeoutsAssumption, BoundsAssumption

\* The ranges that the arguments below need.
Types ==
  /\ platform \in Platforms /\ call \in Calls /\ tout \in Timeouts /\ empty \in BOOLEAN
  /\ clock \in Nat /\ start \in Nat /\ start <= clock /\ until \in Int
  /\ sock \in {"invalid", "blocking", "nonblocking"}
  /\ pc \in {"idle", "try", "blocked", "wait", "select"}
  /\ pc # "idle" => moved = 0
  /\ pc = "blocked" => sock = "blocking"
  /\ timed \in BOOLEAN /\ (timed => sock = "nonblocking")

\* The end of a wait is neither before its timeout nor, where one holds, after it.
Waits ==
  /\ pc = "select" =>
       /\ until # Never => clock <= until
       /\ \/ until = Never
          \/ tout.block > 0 /\ until - start >= tout.block
          \/ tout.total >= 0 /\ until - start >= tout.total
       /\ Longest >= 0 /\ (platform = "posix" \/ tout.total >= 0) => until # Never
  /\ WaitsKeepToTimeout

\* No outcome of a system call is taken for MN_DONE or MN_TIMEOUT, except by chance when a
\* message of no bytes is sent on Win32.
LEMMA ReactionsReturn ==
  ASSUME NEW outcome, NEW r \in Reactions(outcome)
  PROVE  /\ r \in {"retry", "wait", "CLOSED", "ERROR", "DONE"}
         /\ r = "DONE" => outcome = "zero" /\ platform # "posix" /\ call \in Sends
  <1>1. CASE platform = "posix"
    BY <1>1 DEF Reactions, PosixReactions, PosixSend, PosixReceive, PosixAccept, PosixConnect
  <1>2. CASE platform # "posix"
    BY <1>2 DEF Reactions, Win32Reactions, Win32Send, Win32Receive, Win32Accept, Win32Connect
  <1>. QED  BY <1>1, <1>2

\* What is left of the timeout ends at it, counted from the start of the call.
LEMMA GetRetryLeft ==
  ASSUME Types, tout.block # 0
  PROVE  /\ GetRetry(tout) = Never \/ GetRetry(tout) \in Nat
         /\ GetRetry(tout) = Never <=> tout.block < 0 /\ tout.total < 0
         /\ GetRetry(tout) # Never =>
              \/ tout.block > 0 /\ clock + GetRetry(tout) - start >= tout.block
              \/ tout.total >= 0 /\ clock + GetRetry(tout) - start >= tout.total
         /\ Longest >= 0 /\ clock - start <= Longest => clock + GetRetry(tout) - start <= Longest
  <1>1. tout.block \in Int /\ tout.total \in Int /\ clock \in Int /\ start \in Int /\ start <= clock
    BY DEF Types
  <1>2. CASE tout.total < 0
    BY <1>1, <1>2 DEF GetRetry, Pos, Less, Longest, Never
  <1>3. CASE tout.total >= 0 /\ tout.block < 0
    BY <1>1, <1>3 DEF GetRetry, Pos, Less, Longest, Never
  <1>4. CASE tout.total >= 0 /\ tout.block > 0
    BY <1>1, <1>4 DEF GetRetry, Pos, Less, Longest, Never
  <1>. QED  BY <1>1, <1>2, <1>3, <1>4

\* On Win32 only the overall timeout bounds it.
LEMMA TimeoutGetLeft ==
  ASSUME Types, tout.block # 0
  PROVE  /\ TimeoutGet(tout) = Never \/ TimeoutGet(tout) \in Nat
         /\ TimeoutGet(tout) = Never <=> tout.block < 0 /\ tout.total < 0
         /\ TimeoutGet(tout) # Never =>
              \/ tout.block > 0 /\ clock + TimeoutGet(tout) - start >= tout.block
              \/ tout.total >= 0 /\ clock + TimeoutGet(tout) - start >= tout.total
         /\ tout.total >= 0 /\ clock - start <= tout.total =>
              clock + TimeoutGet(tout) - start <= tout.total
  <1>1. tout.block \in Int /\ tout.total \in Int /\ clock \in Int /\ start \in Int /\ start <= clock
    BY DEF Types
  <1>2. CASE tout.total < 0
    BY <1>1, <1>2 DEF TimeoutGet, Pos, Less, Never
  <1>3. CASE tout.total >= 0 /\ tout.block < 0
    BY <1>1, <1>3 DEF TimeoutGet, Pos, Less, Never
  <1>4. CASE tout.total >= 0 /\ tout.block > 0
    BY <1>1, <1>4 DEF TimeoutGet, Pos, Less, Never
  <1>. QED  BY <1>1, <1>2, <1>3, <1>4

-----------------------------------------------------------------------------
(* The kinds of step.                                                      *)

Inv == Types /\ Waits /\ DoneMeansMoved

\* Between the calls nothing waits.
LEMMA ReturnKeeps ==
  ASSUME Types, NEW r, Return(r), moved' \in Nat,
         platform = "posix" \/ ~empty => ((r = "DONE") <=> (moved' = 1))
  PROVE  Inv'
  BY DEF Inv, Types, Waits, WaitsKeepToTimeout, DoneMeansMoved, Return, setup, args, Longest, Never

\* Moving on within a call costs no time.
LEMMA GoToKeeps ==
  ASSUME Types, Waits, pc # "idle", moved' = moved,
         NEW where \in {"try", "blocked", "wait"}, GoTo(where), where = "blocked" => sock = "blocking"
  PROVE  Inv'
  <1>1. Types'
    BY DEF Types, GoTo, setup, args, Never
  <1>2. Waits'
    BY DEF Types, Waits, WaitsKeepToTimeout, GoTo, setup, args, Longest
  <1>3. DoneMeansMoved'
    BY DEF DoneMeansMoved, GoTo
  <1>. QED  BY <1>1, <1>2, <1>3 DEF Inv

\* A system call that moved nothing is not reported as done, nor as a timeout.
LEMMA MeetsKeeps ==
  ASSUME Types, Waits, pc # "idle", moved' = moved,
         NEW outcome, Meets(outcome), outcome = "zero" => call \in Receives \/ empty
  PROVE  Inv' /\ (pc' = "idle" => result' # "TIMEOUT")
  <1>1. PICK r \in Reactions(outcome) :
           IF r = "retry" THEN GoTo("try") ELSE IF r = "wait" THEN GoTo("wait") ELSE Return(r)
    BY DEF Meets
  <1>2. /\ r \in {"retry", "wait", "CLOSED", "ERROR", "DONE"}
        /\ r = "DONE" => outcome = "zero" /\ platform # "posix" /\ call \in Sends
    BY ReactionsReturn
  <1>3. moved = 0
    BY DEF Types
  <1>4. CASE r \in {"retry", "wait"}
    <2>1. PICK where \in {"try", "blocked", "wait"} : GoTo(where) /\ where # "blocked"
      BY <1>1, <1>4
    <2>2. Inv'
      BY <2>1, GoToKeeps
    <2>3. pc' # "idle"
      BY <2>1 DEF GoTo
    <2>. QED  BY <2>2, <2>3
  <1>5. CASE r \notin {"retry", "wait"}
    <2>1. Return(r)
      BY <1>1, <1>5
    <2>2. r = "DONE" => platform # "posix" /\ empty
      BY <1>2 DEF Sends, Receives
    <2>3. Inv'
      BY <1>3, <2>1, <2>2, ReturnKeeps
    <2>4. result' # "TIMEOUT"
      BY <1>2, <2>1 DEF Return
    <2>. QED  BY <2>3, <2>4
  <1>. QED  BY <1>4, <1>5

\* Blocking in select does not stretch the call.
LEMMA SelectKeeps ==
  ASSUME Types, Waits, NEW left, SelectFor(left), left = Never \/ left \in Nat,
         left = Never <=> tout.block < 0 /\ tout.total < 0,
         left # Never => \/ tout.block > 0 /\ clock + left - start >= tout.block
                         \/ tout.total >= 0 /\ clock + left - start >= tout.total,
         /\ Longest >= 0 /\ clock - start <= Longest
         /\ platform = "posix" \/ tout.total >= 0
         => clock + left - start <= Longest
  PROVE  Inv' /\ pc' # "idle"
  <1>1. tout.block \in Int /\ tout.total \in Int /\ clock \in Nat /\ start \in Nat /\ start <= clock
    BY DEF Types
  <1>2. /\ pc = "wait" /\ pc' = "select" /\ clock' = clock /\ start' = start /\ tout' = tout
        /\ platform' = platform /\ timed' = timed /\ sock' = sock /\ moved' = moved
        /\ empty' = empty /\ call' = call
        /\ until' = IF left = Never THEN Never ELSE clock + left
    BY DEF SelectFor, setup, args
  <1>3. until' \in Int /\ (until' = Never <=> left = Never) /\ (left # Never => until' = clock + left)
    BY <1>1, <1>2 DEF Never
  <1>4. Types'
    BY <1>2, <1>3 DEF Types
  <1>5. Longest' = Longest /\ (Longest >= 0 => left # Never)
    BY <1>1, <1>2 DEF Longest
  <1>6. WaitsKeepToTimeout'
    BY <1>1, <1>2, <1>3, <1>5 DEF Waits, WaitsKeepToTimeout
  <1>7. Waits'
    BY <1>1, <1>2, <1>3, <1>5, <1>6 DEF Waits
  <1>8. DoneMeansMoved'
    BY <1>2 DEF DoneMeansMoved
  <1>. QED  BY <1>2, <1>4, <1>7, <1>8 DEF Inv

-----------------------------------------------------------------------------
(* The steps of the code.                                                  *)

\* What a step of the code owes: the invariant, and a timeout that is over.
Step ==
  /\ Inv'
  /\ pc' = "idle" /\ result' = "TIMEOUT" =>
       \/ tout.block = 0
       \/ /\ ready = 0
          /\ \/ tout.block > 0 /\ clock - start >= tout.block
             \/ tout.total >= 0 /\ clock - start >= tout.total

LEMMA SystemCallSteps ==
  ASSUME Inv,
         \/ TryClosed \/ TryDone \/ TryZero \/ TryFails \/ TryInterrupted \/ TryAborted
         \/ TryWouldBlock \/ TryBlocks \/ Wakes
  PROVE  Step
  <1>1. Types /\ Waits
    BY DEF Inv
  <1>2. CASE TryClosed
    <2>1. Return("CLOSED") /\ moved' = moved /\ pc = "try"
      BY <1>2 DEF TryClosed
    <2>2. moved' = 0
      BY <1>1, <2>1 DEF Types
    <2>3. Inv'
      BY <1>1, <2>1, <2>2, ReturnKeeps
    <2>. QED  BY <2>1, <2>3 DEF Step, Return
  <1>3. CASE TryDone
    <2>1. Return("DONE") /\ moved' = moved + 1 /\ pc = "try"
      BY <1>3 DEF TryDone, Trying
    <2>2. moved' = 1
      BY <1>1, <2>1 DEF Types
    <2>3. Inv'
      BY <1>1, <2>1, <2>2, ReturnKeeps
    <2>. QED  BY <2>1, <2>3 DEF Step, Return
  <1>4. CASE TryZero \/ TryFails \/ TryInterrupted \/ TryAborted \/ TryWouldBlock
    <2>1. pc # "idle" /\ moved' = moved
      BY <1>4 DEF TryZero, TryFails, TryInterrupted, TryAborted, TryWouldBlock, Trying
    <2>2. ASSUME NEW outcome, Meets(outcome), outcome = "zero" => call \in Receives \/ empty
          PROVE  Step
      <3>1. Inv' /\ (pc' = "idle" => result' # "TIMEOUT")
        BY <1>1, <2>1, <2>2, MeetsKeeps
      <3>. QED  BY <3>1 DEF Step
    <2>3. CASE TryZero
      <3>1. Meets("zero") /\ (call \in Receives \/ empty)
        BY <2>3 DEF TryZero
      <3>. QED  BY <2>2, <3>1
    <2>4. CASE TryFails
      <3>1. PICK outcome \in {"other", "broken pipe"} : Meets(outcome)
        BY <2>4 DEF TryFails
      <3>. QED  BY <2>2, <3>1
    <2>5. CASE TryInterrupted
      <3>1. Meets("interrupted")
        BY <2>5 DEF TryInterrupted
      <3>. QED  BY <2>2, <3>1
    <2>6. CASE TryAborted
      <3>1. Meets("aborted")
        BY <2>6 DEF TryAborted
      <3>. QED  BY <2>2, <3>1
    <2>7. CASE TryWouldBlock
      <3>1. Meets("would block")
        BY <2>7 DEF TryWouldBlock
      <3>. QED  BY <2>2, <3>1
    <2>. QED  BY <1>4, <2>3, <2>4, <2>5, <2>6, <2>7
  <1>5. CASE TryBlocks \/ Wakes
    <2>1. PICK where \in {"try", "blocked", "wait"} :
             GoTo(where) /\ (where = "blocked" => sock = "blocking")
      BY <1>5 DEF TryBlocks, Wakes
    <2>2. pc # "idle" /\ moved' = moved
      BY <1>5 DEF TryBlocks, Wakes, Trying
    <2>3. Inv'
      BY <1>1, <2>1, <2>2, GoToKeeps
    <2>. QED  BY <2>1, <2>3 DEF Step, GoTo
  <1>. QED  BY <1>2, <1>3, <1>4, <1>5

LEMMA WaitSteps ==
  ASSUME Inv, WaitZero \/ WaitPosix \/ WaitWin32 \/ WaitAcceptWin32
  PROVE  Step
  <1>1. Types /\ Waits
    BY DEF Inv
  <1>2. CASE WaitZero
    <2>1. Return("TIMEOUT") /\ moved' = moved /\ pc = "wait" /\ tout.block = 0
      BY <1>2 DEF WaitZero
    <2>2. moved' = 0
      BY <1>1, <2>1 DEF Types
    <2>3. Inv'
      BY <1>1, <2>1, <2>2, ReturnKeeps
    <2>. QED  BY <2>1, <2>3 DEF Step
  <1>3. CASE WaitPosix
    <2>1. SelectFor(GetRetry(tout)) /\ tout.block # 0
      BY <1>3 DEF WaitPosix, SelectFor
    <2>2. Inv' /\ pc' # "idle"
      BY <1>1, <2>1, GetRetryLeft, SelectKeeps
    <2>. QED  BY <2>2 DEF Step
  <1>4. CASE WaitWin32
    <2>1. SelectFor(TimeoutGet(tout)) /\ tout.block # 0 /\ platform # "posix"
      BY <1>4 DEF WaitWin32, SelectFor
    <2>2. tout.total >= 0 => Longest = tout.total
      BY DEF Longest
    <2>3. Inv' /\ pc' # "idle"
      BY <1>1, <2>1, <2>2, TimeoutGetLeft, SelectKeeps
    <2>. QED  BY <2>3 DEF Step
  <1>5. CASE WaitAcceptWin32
    <2>1. Return("ERROR") /\ moved' = moved /\ pc = "wait"
      BY <1>5 DEF WaitAcceptWin32
    <2>2. moved' = 0
      BY <1>1, <2>1 DEF Types
    <2>3. Inv'
      BY <1>1, <2>1, <2>2, ReturnKeeps
    <2>. QED  BY <2>1, <2>3 DEF Step, Return
  <1>. QED  BY <1>2, <1>3, <1>4, <1>5

LEMMA SelectSteps ==
  ASSUME Inv,
         \/ SelectReady \/ SelectConnects \/ RefusedPosix \/ RefusedWin32
         \/ SelectTimesOut \/ SelectInterrupted \/ SelectFails
  PROVE  Step
  <1>1. Types /\ Waits
    BY DEF Inv
  <1>2. CASE SelectReady \/ SelectInterrupted
    <2>1. PICK where \in {"try", "blocked", "wait"} : GoTo(where) /\ where # "blocked"
      BY <1>2 DEF SelectReady, SelectInterrupted
    <2>2. pc # "idle" /\ moved' = moved
      BY <1>2 DEF SelectReady, SelectInterrupted
    <2>3. Inv'
      BY <1>1, <2>1, <2>2, GoToKeeps
    <2>. QED  BY <2>1, <2>3 DEF Step, GoTo
  <1>3. CASE SelectConnects
    <2>1. Return("DONE") /\ moved' = moved + 1 /\ pc = "select"
      BY <1>3 DEF SelectConnects
    <2>2. moved' = 1
      BY <1>1, <2>1 DEF Types
    <2>3. Inv'
      BY <1>1, <2>1, <2>2, ReturnKeeps
    <2>. QED  BY <2>1, <2>3 DEF Step, Return
  <1>4. CASE RefusedPosix \/ RefusedWin32 \/ SelectFails
    <2>1. PICK r \in {"ERROR", "UNKNOWN"} : Return(r)
      BY <1>4 DEF RefusedPosix, RefusedWin32, SelectFails
    <2>2. moved' = 0
      BY <1>1, <1>4 DEF Types, RefusedPosix, RefusedWin32, SelectFails
    <2>3. Inv'
      BY <1>1, <2>1, <2>2, ReturnKeeps
    <2>. QED  BY <2>1, <2>3 DEF Step, Return
  <1>5. CASE SelectTimesOut
    <2>1. /\ Return("TIMEOUT") /\ moved' = moved /\ pc = "select" /\ ready = 0
          /\ clock = until
      BY <1>5 DEF SelectTimesOut
    <2>2. moved' = 0
      BY <1>1, <2>1 DEF Types
    <2>3. Inv'
      BY <1>1, <2>1, <2>2, ReturnKeeps
    <2>4. until # Never
      BY <1>1, <2>1 DEF Types, Never
    <2>. QED  BY <1>1, <2>1, <2>3, <2>4 DEF Step, Waits
  <1>. QED  BY <1>2, <1>3, <1>4, <1>5

LEMMA CodeSteps == ASSUME Inv, Code PROVE Step
  BY SystemCallSteps, WaitSteps, SelectSteps DEF Code, Proceeds

-----------------------------------------------------------------------------
(* The invariant.                                                          *)

LEMMA InitInv == Init => Inv
  <1>. SUFFICES ASSUME Init PROVE Inv
    OBVIOUS
  <1>0. empty \in BOOLEAN /\ timed \in BOOLEAN /\ ~timed
    BY Zenon DEF Init
  <1>1. Types
    BY <1>0 DEF Init, Types, Never
  <1>2. Waits /\ DoneMeansMoved
    BY DEF Init, Waits, WaitsKeepToTimeout, DoneMeansMoved
  <1>. QED  BY <1>1, <1>2 DEF Inv

LEMMA NextInv == ASSUME Inv, [Next]_vars PROVE Inv'
  <1>1. Types /\ Waits /\ DoneMeansMoved
    BY DEF Inv
  <1>2. CASE LifeCycle
    <2>1. PICK mode \in {"invalid", "blocking", "nonblocking"}, isTimed \in BOOLEAN :
             SetUp(mode, isTimed) /\ (isTimed => mode = "nonblocking")
      <3>1. timed \in BOOLEAN
        BY <1>1 DEF Types
      <3>. QED
        BY <1>2, <3>1
           DEF LifeCycle, Create, BindPosix, BindWin32, Listen, Shutdown, SetBlocking,
               SetNonblocking, Destroy
    <2>. QED
      BY <1>1, <2>1 DEF SetUp, args, Inv, Types, Waits, WaitsKeepToTimeout, DoneMeansMoved, Longest
  <1>3. CASE Begin
    <2>0. empty' \in BOOLEAN
      <3>1. empty' \in {FALSE, call' \in Sends}
        BY <1>3 DEF Begin
      <3>2. (call' \in Sends) \in BOOLEAN
        OBVIOUS
      <3>. QED  BY <3>1, <3>2
    <2>1. /\ pc' = "try" /\ call' \in Calls /\ tout' \in Timeouts
          /\ start' = clock /\ clock' = clock /\ moved' = 0 /\ until' = until
          /\ platform' = platform /\ sock' = sock /\ timed' = timed
      BY <1>3 DEF Begin, setup
    <2>2. Longest' \in Int
      BY <2>1 DEF Longest
    <2>3. Types' /\ DoneMeansMoved'
      BY <1>1, <2>0, <2>1 DEF Types, DoneMeansMoved
    <2>4. Waits'
      BY <1>1, <2>1, <2>2 DEF Types, Waits, WaitsKeepToTimeout
    <2>. QED  BY <2>3, <2>4 DEF Inv
  <1>4. CASE Code
    BY <1>4, CodeSteps DEF Step
  <1>5. CASE Arrive \/ Vanish
    BY <1>1, <1>5
       DEF Arrive, Vanish, setup, args, Inv, Types, Waits, WaitsKeepToTimeout, DoneMeansMoved, Longest
  <1>6. CASE Tick
    <2>1. /\ clock' = clock + 1 /\ pc' = pc /\ call' = call /\ empty' = empty /\ tout' = tout
          /\ start' = start /\ until' = until /\ moved' = moved /\ result' = result
          /\ platform' = platform /\ sock' = sock /\ timed' = timed
          /\ pc \in {"idle", "blocked", "select"} /\ (pc # "idle" => clock # until)
      BY <1>6 DEF Tick, setup, args
    <2>2. Longest' = Longest /\ Longest \in Int
      BY <1>1, <2>1 DEF Longest, Types
    <2>3. Types' /\ DoneMeansMoved'
      BY <1>1, <2>1 DEF Types, DoneMeansMoved
    <2>4. pc = "select" /\ until # Never => clock + 1 <= until
      BY <1>1, <2>1 DEF Types, Waits
    <2>5. WaitsKeepToTimeout'
      BY <1>1, <2>1, <2>2, <2>4 DEF Types, Waits, WaitsKeepToTimeout
    <2>6. Waits'
      BY <1>1, <2>1, <2>2, <2>4, <2>5 DEF Waits
    <2>. QED  BY <2>3, <2>6 DEF Inv
  <1>7. CASE UNCHANGED vars
    BY <1>1, <1>7
       DEF vars, setup, args, Inv, Types, Waits, WaitsKeepToTimeout, DoneMeansMoved, Longest
  <1>. QED  BY <1>2, <1>3, <1>4, <1>5, <1>6, <1>7 DEF Next

THEOREM InvHolds == Spec => []Inv
  BY InitInv, NextInv, PTL DEF Spec

-----------------------------------------------------------------------------
(* Types.                                                                  *)

Results == {"DONE", "TIMEOUT", "CLOSED", "ERROR", "UNKNOWN"}

\* The ranges that the invariant does not give.
Ranges ==
  /\ clock \in 0..MaxClock /\ until \in {Never} \cup Nat
  /\ ready \in 0..MaxReady /\ troubles \in 0..Troubles /\ moved \in 0..1
  /\ result \in Results

\* What the steps do to the kernel's side.
Counts == ready' \in 0..MaxReady /\ troubles' \in 0..Troubles /\ moved' \in 0..1

LEMMA ReturnRanges == ASSUME Ranges, NEW r \in Results, Return(r), Counts PROVE Ranges'
  BY DEF Ranges, Return, Counts

LEMMA GoToRanges == ASSUME Ranges, NEW where, GoTo(where), Counts PROVE Ranges'
  BY DEF Ranges, GoTo, Counts

LEMMA MeetsRanges == ASSUME Ranges, NEW outcome, Meets(outcome), Counts PROVE Ranges'
  <1>1. PICK r \in Reactions(outcome) :
           IF r = "retry" THEN GoTo("try") ELSE IF r = "wait" THEN GoTo("wait") ELSE Return(r)
    BY DEF Meets
  <1>2. r \in {"retry", "wait"} \cup Results
    BY ReactionsReturn DEF Results
  <1>3. CASE r \in {"retry", "wait"}
    BY <1>1, <1>3, GoToRanges
  <1>4. CASE r \notin {"retry", "wait"}
    BY <1>1, <1>2, <1>4, ReturnRanges
  <1>. QED  BY <1>3, <1>4

LEMMA CodeCounts == ASSUME Inv, Ranges, Code PROVE Counts
  <1>1. /\ ready \in 0..MaxReady /\ troubles \in 0..Troubles /\ moved \in 0..1
        /\ MaxReady \in Nat /\ Troubles \in Nat
    BY DEF Ranges
  <1>2. pc # "idle" => moved = 0
    BY DEF Inv, Types
  <1>3. CASE TryClosed \/ TryFails \/ TryWouldBlock \/ TryBlocks \/ Wakes
    BY <1>1, <1>3 DEF TryClosed, TryFails, TryWouldBlock, TryBlocks, Wakes, Counts
  <1>4. CASE TryDone \/ TryZero \/ TryInterrupted \/ TryAborted
    BY <1>1, <1>2, <1>4 DEF TryDone, TryZero, TryInterrupted, TryAborted, Trying, Counts
  <1>5. CASE WaitZero \/ WaitPosix \/ WaitWin32 \/ WaitAcceptWin32
    BY <1>1, <1>5 DEF WaitZero, WaitPosix, WaitWin32, WaitAcceptWin32, SelectFor, Counts
  <1>6. CASE SelectConnects \/ SelectInterrupted
    BY <1>1, <1>2, <1>6 DEF SelectConnects, SelectInterrupted, Counts
  <1>7. CASE SelectReady \/ RefusedPosix \/ RefusedWin32 \/ SelectTimesOut \/ SelectFails
    BY <1>1, <1>7 DEF SelectReady, RefusedPosix, RefusedWin32, SelectTimesOut, SelectFails, Counts
  <1>. QED  BY <1>3, <1>4, <1>5, <1>6, <1>7 DEF Code, Proceeds

LEMMA CodeRanges == ASSUME Inv, Ranges, Code PROVE Ranges'
  <1>1. Counts
    BY CodeCounts
  <1>2. CASE TryClosed \/ TryDone
    <2>1. PICK r \in Results : Return(r)
      BY <1>2 DEF TryClosed, TryDone, Results
    <2>. QED  BY <1>1, <2>1, ReturnRanges
  <1>3. CASE TryZero \/ TryFails \/ TryInterrupted \/ TryAborted \/ TryWouldBlock
    <2>1. PICK outcome \in {"zero", "other", "broken pipe", "interrupted", "aborted", "would block"} :
             Meets(outcome)
      BY <1>3 DEF TryZero, TryFails, TryInterrupted, TryAborted, TryWouldBlock
    <2>. QED  BY <1>1, <2>1, MeetsRanges
  <1>4. CASE TryBlocks \/ Wakes \/ SelectReady \/ SelectInterrupted
    <2>1. PICK where \in {"blocked", "try", "wait"} : GoTo(where)
      BY <1>4 DEF TryBlocks, Wakes, SelectReady, SelectInterrupted
    <2>. QED  BY <1>1, <2>1, GoToRanges
  <1>5. CASE WaitZero \/ WaitAcceptWin32 \/ SelectConnects \/ RefusedPosix \/ RefusedWin32
             \/ SelectTimesOut \/ SelectFails
    <2>1. PICK r \in Results : Return(r)
      BY <1>5 DEF WaitZero, WaitAcceptWin32, SelectConnects, RefusedPosix, RefusedWin32,
                  SelectTimesOut, SelectFails, Results
    <2>. QED  BY <1>1, <2>1, ReturnRanges
  <1>6. CASE WaitPosix \/ WaitWin32
    <2>1. PICK left \in {GetRetry(tout), TimeoutGet(tout)} : SelectFor(left)
      BY <1>6 DEF WaitPosix, WaitWin32
    <2>2. left = Never \/ left \in Nat
      BY <2>1, GetRetryLeft, TimeoutGetLeft DEF Inv, SelectFor
    <2>3. /\ clock' = clock /\ result' = result
          /\ until' = IF left = Never THEN Never ELSE clock + left
      BY <2>1 DEF SelectFor
    <2>. QED  BY <1>1, <2>2, <2>3 DEF Ranges, Counts
  <1>. QED  BY <1>2, <1>3, <1>4, <1>5, <1>6 DEF Code, Proceeds

LEMMA NextRanges == ASSUME Inv, Ranges, [Next]_vars PROVE Ranges'
  <1>1. CASE LifeCycle
    BY <1>1
       DEF LifeCycle, Create, BindPosix, BindWin32, Listen, Shutdown, SetBlocking, SetNonblocking,
           Destroy, SetUp, Ranges
  <1>2. CASE Begin
    BY <1>2 DEF Begin, Ranges
  <1>3. CASE Code
    BY <1>3, CodeRanges
  <1>4. CASE Arrive \/ Vanish \/ Tick
    BY <1>4 DEF Arrive, Vanish, Tick, Ranges
  <1>5. CASE UNCHANGED vars
    BY <1>5 DEF vars, Ranges
  <1>. QED  BY <1>1, <1>2, <1>3, <1>4, <1>5 DEF Next

\* Every variable stays in its range: in particular a call moves no more than one item,
\* and returns one of the wrapper's results, for all timeouts and bounds.
THEOREM TypeCorrect == Spec => []TypeOK
  <1>1. Init => Ranges
    BY DEF Init, Ranges, Results
  <1>2. Inv /\ Ranges /\ [Next]_vars => Ranges'
    BY NextRanges
  <1>3. Inv /\ Ranges => TypeOK
    BY DEF Inv, Types, Ranges, Results, TypeOK
  <1>. QED  BY <1>1, <1>2, <1>3, InvHolds, PTL DEF Spec

-----------------------------------------------------------------------------
\* A call moves one item with bytes exactly when it returns MN_DONE, whatever the timeouts,
\* signals and platforms.
THEOREM DoneMeansMovedHolds == Spec => []DoneMeansMoved
  <1>1. Inv => DoneMeansMoved
    BY DEF Inv
  <1>. QED  BY <1>1, InvHolds, PTL

\* The waits of a call together keep to its timeout, for every block and total.
THEOREM WaitsKeepToTimeoutHolds == Spec => []WaitsKeepToTimeout
  <1>1. Inv => WaitsKeepToTimeout
    BY DEF Inv, Waits
  <1>. QED  BY <1>1, InvHolds, PTL

\* MN_TIMEOUT is returned only when the time is over and nothing has come, for every block
\* and total.
THEOREM TimeoutIsHonestHolds == Spec => TimeoutIsHonest
  <1>. DEFINE Honest ==
         pc # "idle" /\ pc' = "idle" /\ result' = "TIMEOUT" =>
           \/ tout.block = 0
           \/ /\ ready = 0
              /\ \/ tout.block > 0 /\ clock - start >= tout.block
                 \/ tout.total >= 0 /\ clock - start >= tout.total
  <1>1. ASSUME Inv, [Next]_vars PROVE [Honest]_vars
    <2>1. CASE Code
      BY <1>1, <2>1, CodeSteps DEF Step
    <2>2. CASE LifeCycle
      BY <2>2
         DEF LifeCycle, Create, BindPosix, BindWin32, Listen, Shutdown, SetBlocking,
             SetNonblocking, Destroy, SetUp
    <2>3. CASE Begin \/ Arrive \/ Vanish \/ Tick
      BY <2>3 DEF Begin, Arrive, Vanish, Tick
    <2>. QED  BY <1>1, <2>1, <2>2, <2>3 DEF Next
  <1>. HIDE DEF Honest
  <1>2. Spec => [][Honest]_vars
    BY <1>1, InvHolds, PTL DEF Spec
  <1>. QED  BY <1>2 DEF Honest, TimeoutIsHonest
=============================================================================
