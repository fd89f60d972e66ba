------------------------------ MODULE Endpoint ------------------------------
(***************************************************************************)
(* A UDP CoAP endpoint driven by one thread (mcoap/mc_endpt_udp.c):        *)
(* the application sends confirmable and non-confirmable messages, the     *)
(* read/dispatch loop receives, matches acknowledgements against the       *)
(* confirm queue, hands messages to the read function and walks the queue  *)
(* to retransmit or give up.                                               *)
(*                                                                         *)
(* Confirmable sends are numbered 1, 2, ... in the order in which          *)
(* send_con_msg appends their entries, so the FIFO queue is the set of the *)
(* numbers queued, read in increasing order (ConfirmQueue shows that the   *)
(* linked list keeps that order).                                          *)
(*                                                                         *)
(* Result functions run inside send, recv and check_queues, before the     *)
(* entry is unlinked, and may send in their turn.  A send made by a result *)
(* function has a higher number than the one being reported, so the call   *)
(* stack of failing sends is a set too: the highest number returns first.  *)
(***************************************************************************)
EXTENDS Integers

CONSTANTS
  MaxReq,          \* bound: confirmable messages sent in a behaviour
  MaxId,           \* greatest message id (2^16 - 1 in the code)
  MAX_RETRANSMIT,  \* mc_endpt_udp.h:21
  EchoIds,         \* message ids the application gives to mc_endpt_udp_send itself
  Faults           \* what the network may do besides delay, loss and reordering

ASSUME MaxReqAssumption == MaxReq \in Nat \ {0}
ASSUME MaxIdAssumption == MaxId \in Nat \ {0}
ASSUME MaxRetransmitAssumption == MAX_RETRANSMIT \in Nat \ {0}
ASSUME EchoIdsAssumption == EchoIds \subseteq 0..MaxId
ASSUME FaultsAssumption == Faults \subseteq {"duplicate", "malformed"}

Req == 1..MaxReq
MsgId == 0..MaxId
SendError == {"timeout", "closed"}
Outcome == {"none", "done"} \cup SendError

VARIABLES
  pc,          \* where the thread is: "main" (application code outside the loop),
               \* "recv", "readfn", "check" (stages of the loop), "crashed"
  running,     \* endpt->running
  nextid,      \* endpt->nextid
  confirmq,    \* requests whose entry is linked in endpt->confirmq
  cursor,      \* check_queues' `current`, 0 for a null pointer
  loopcb,      \* request whose result function recv or check_queues is calling, or 0
  sendcb,      \* requests whose result function send_con_msg is calling
  nsent,       \* confirmable sends so far
  msgid,       \* entry->msgid
  hasfn,       \* requests with a result function (resultfn > 1)
  xmitcounter, \* entry->xmitcounter
  expired,     \* queued requests whose timeout has run out
  net,         \* requests with a copy on its way to the peer
  acks,        \* message ids of the acknowledgements on their way back
  received,    \* history: requests of which the peer has received a copy
  sent,        \* history: copies of a request that the socket accepted
  sendFailed,  \* history: requests for which a sendto has failed
  outcome,     \* history: how a request ended
  notified     \* history: calls of the result function of a request

loop == <<pc, running, cursor, loopcb>>
entries == <<nsent, msgid, hasfn, xmitcounter>>
peer == <<net, acks, received>>
history == <<sent, sendFailed, outcome, notified>>
vars == <<loop, nextid, confirmq, sendcb, entries, expired, peer, history>>

Init ==
  /\ pc = "main" /\ running = FALSE
  /\ nextid \in 1..MaxId            \* random_id, 0 replaced by 1
  /\ confirmq = {} /\ expired = {}
  /\ cursor = 0 /\ loopcb = 0 /\ sendcb = {}
  /\ nsent = 0
  /\ msgid = [r \in Req |-> 0]
  /\ hasfn = {}
  /\ xmitcounter = [r \in Req |-> 0]
  /\ net = {} /\ acks = {} /\ received = {}
  /\ sent = [r \in Req |-> 0]
  /\ sendFailed = {}
  /\ outcome = [r \in Req |-> "none"]
  /\ notified = [r \in Req |-> 0]

-----------------------------------------------------------------------------
(* Message ids, the queue and the steps the handlers share.                *)

\* Faulty variant: 0 is not skipped when the counter wraps.
NextIdZero(id) == (id + 1) % (MaxId + 1)

NextId(id) == LET n == (id + 1) % (MaxId + 1) IN IF n = 0 THEN 1 ELSE n

\* c is the entry after r in queue q, or 0: the order in which entry->next leads on.
IsNext(c, r, q) ==
  \/ c = 0 /\ \A x \in q : x <= r
  \/ c \in q /\ c > r /\ \A x \in q : x > r => c <= x

\* Faulty variant: the queue is not searched for the id.
IsMatchAny(r, id) == r \in confirmq /\ \A x \in confirmq : r <= x

\* mc_buffer_queue_get: the first entry with that id.
IsMatch(r, id) ==
  /\ r \in confirmq /\ msgid[r] = id
  /\ \A x \in confirmq : msgid[x] = id => r <= x

\* mc_buffer_queue_remove_entry: unlink and free.
RemoveEntry(r) ==
  /\ confirmq' = confirmq \ {r}
  /\ expired' = expired \ {r}

\* call_result_fn, for the requests in fns that do have a result function.
CallResultFn(r, err, fns) ==
  /\ outcome' = [outcome EXCEPT ![r] = err]
  /\ notified' = IF r \in fns THEN [notified EXCEPT ![r] = @ + 1] ELSE notified

\* A sendto that the socket accepts puts a copy on the network.
Transmit(r) ==
  /\ net' = net \cup {r}
  /\ sent' = [sent EXCEPT ![r] = @ + 1]
  /\ UNCHANGED <<acks, received, sendFailed>>

TransmitFails(r) ==
  /\ sendFailed' = sendFailed \cup {r}
  /\ UNCHANGED <<peer, sent>>

-----------------------------------------------------------------------------
(* What the application may call while it has control: before and after    *)
(* the loop, in the read function and in a result function.                *)

AppRuns == pc \in {"main", "readfn"} \/ loopcb # 0 \/ sendcb # {}

\* send_con_msg: the entry is queued before the first copy is sent.
SendCon(id, fn, err) ==
  LET r == nsent + 1
      fns == IF fn THEN hasfn \cup {r} ELSE hasfn
  IN  /\ nsent < MaxReq
      /\ nsent' = r
      /\ msgid' = [msgid EXCEPT ![r] = id]
      /\ hasfn' = fns
      /\ \/ /\ err = "done"
            /\ confirmq' = confirmq \cup {r}
            /\ xmitcounter' = [xmitcounter EXCEPT ![r] = @ + 1]
            /\ Transmit(r)
            /\ UNCHANGED <<sendcb, outcome, notified>>
         \/ /\ err # "done"
            /\ TransmitFails(r)
            /\ CallResultFn(r, err, fns)
            /\ IF fn THEN confirmq' = confirmq \cup {r} /\ sendcb' = sendcb \cup {r}
                     ELSE UNCHANGED <<confirmq, sendcb>>
            /\ UNCHANGED xmitcounter
      /\ UNCHANGED <<loop, expired>>

\* mc_endpt_udp_get, post, put, delete with a result function (or with 1 for none).
Request ==
  /\ AppRuns
  /\ nextid' = NextId(nextid)
  /\ \E fn \in BOOLEAN, err \in {"done"} \cup SendError : SendCon(nextid, fn, err)

\* The same calls without a result function: the message is not queued.
RequestNon ==
  /\ AppRuns
  /\ nextid' = NextId(nextid)
  /\ UNCHANGED <<loop, confirmq, sendcb, entries, expired, peer, history>>

\* mc_endpt_udp_send of a confirmable message with an id of the application's choice.
Echo ==
  /\ AppRuns
  /\ \E id \in EchoIds, err \in {"done"} \cup SendError : SendCon(id, FALSE, err)
  /\ UNCHANGED nextid

\* mc_endpt_udp_loop is entered.
StartLoop ==
  /\ pc = "main" /\ sendcb = {}
  /\ pc' = "recv" /\ running' = TRUE
  /\ UNCHANGED <<cursor, loopcb, nextid, confirmq, sendcb, entries, expired, peer, history>>

\* The program ends the loop from one of its callbacks: endpt->running = 0.
ClearRunning ==
  /\ AppRuns /\ running
  /\ running' = FALSE
  /\ UNCHANGED <<pc, cursor, loopcb, nextid, confirmq, sendcb, entries, expired, peer, history>>

-----------------------------------------------------------------------------
(* The loop: mc_endpt_udp_recv, the read function, mc_endpt_udp_check_queues. *)

LoopAt(stage) == pc = stage /\ loopcb = 0 /\ sendcb = {}

\* check_queues begins at confirmq.first.
EnterCheck == pc' = "check" /\ \E c \in 0..MaxReq : IsNext(c, 0, confirmq) /\ cursor' = c

\* recvfrom ends without a datagram (timeout, error, empty datagram).
RecvNothing ==
  /\ LoopAt("recv")
  /\ EnterCheck
  /\ UNCHANGED <<running, loopcb, nextid, confirmq, sendcb, entries, expired, peer, history>>

\* A request, a response or a reset: nothing but the read function sees it.
RecvOther ==
  /\ LoopAt("recv")
  /\ pc' = "readfn"
  /\ UNCHANGED <<running, cursor, loopcb, nextid, confirmq, sendcb, entries, expired, peer, history>>

\* A datagram that mc_message_from_buffer refuses: msg is 0 when msg->from is written.
RecvMalformed ==
  /\ LoopAt("recv") /\ "malformed" \in Faults
  /\ pc' = "crashed"
  /\ UNCHANGED <<running, cursor, loopcb, nextid, confirmq, sendcb, entries, expired, peer, history>>

\* The copies a receiver leaves in flight: a duplicating network may deliver again.
Left(inflight, x) ==
  {inflight \ {x}} \cup (IF "duplicate" \in Faults THEN {inflight} ELSE {})

\* An acknowledgement of a queued entry: report, then unlink (at once without a
\* result function, else when the function has returned).
RecvAck(id) ==
  /\ LoopAt("recv") /\ id \in acks
  /\ acks' \in Left(acks, id)
  /\ \E r \in Req :
       /\ IsMatch(r, id)
       /\ CallResultFn(r, "done", hasfn)
       /\ IF r \in hasfn
            THEN loopcb' = r /\ UNCHANGED <<pc, confirmq, expired>>
            ELSE RemoveEntry(r) /\ pc' = "readfn" /\ UNCHANGED loopcb
  /\ UNCHANGED <<running, cursor, nextid, sendcb, entries, net, received, sent, sendFailed>>

\* An acknowledgement that matches no entry: entry is 0 when entry->resultfn is read.
RecvUnknownAck(id) ==
  /\ LoopAt("recv") /\ id \in acks
  /\ acks' \in Left(acks, id)
  /\ \A r \in confirmq : msgid[r] # id
  /\ pc' = "crashed"
  /\ UNCHANGED <<running, cursor, loopcb, nextid, confirmq, sendcb, entries, expired,
                 net, received, history>>

\* endpt->running = readfn(endpt, msg).
ReadfnReturns ==
  /\ LoopAt("readfn")
  /\ running' \in BOOLEAN
  /\ EnterCheck
  /\ UNCHANGED <<loopcb, nextid, confirmq, sendcb, entries, expired, peer, history>>

Advance(q) == \E c \in 0..MaxReq : IsNext(c, cursor, q) /\ cursor' = c

\* An entry that is not due.
SkipEntry ==
  /\ LoopAt("check") /\ cursor # 0 /\ cursor \notin expired
  /\ Advance(confirmq)
  /\ UNCHANGED <<pc, running, loopcb, nextid, confirmq, sendcb, entries, expired, peer, history>>

\* A due entry is sent again and its (doubled) timeout restarted.
Retransmit ==
  /\ LoopAt("check") /\ cursor \in expired
  /\ xmitcounter[cursor] < MAX_RETRANSMIT
  /\ xmitcounter' = [xmitcounter EXCEPT ![cursor] = @ + 1]
  /\ expired' = expired \ {cursor}
  /\ Transmit(cursor)
  /\ Advance(confirmq)
  /\ UNCHANGED <<pc, running, loopcb, nextid, confirmq, sendcb, nsent, msgid, hasfn,
                 outcome, notified>>

\* Faulty variant: the entry is freed before its result function is called.
FailUnlinksFirst(err) ==
  /\ CallResultFn(cursor, err, hasfn)
  /\ RemoveEntry(cursor)
  /\ IF cursor \in hasfn THEN loopcb' = cursor /\ UNCHANGED cursor
                         ELSE Advance(confirmq') /\ UNCHANGED loopcb
  /\ UNCHANGED <<pc, running, nextid, sendcb, nsent, msgid, hasfn>>

\* Faulty variant: an entry without a result function is not removed.
FailKeepsEntry(err) ==
  /\ CallResultFn(cursor, err, hasfn)
  /\ expired' = expired \ {cursor}
  /\ IF cursor \in hasfn THEN loopcb' = cursor /\ UNCHANGED cursor
                         ELSE Advance(confirmq) /\ UNCHANGED loopcb
  /\ UNCHANGED <<pc, running, nextid, confirmq, sendcb, nsent, msgid, hasfn>>

\* A due entry ends in err: report, then unlink and go on with the entry behind it.
Fail(err) ==
  /\ CallResultFn(cursor, err, hasfn)
  /\ IF cursor \in hasfn
       THEN /\ expired' = expired \ {cursor}
            /\ loopcb' = cursor
            /\ UNCHANGED <<confirmq, cursor>>
       ELSE RemoveEntry(cursor) /\ Advance(confirmq') /\ UNCHANGED loopcb
  /\ UNCHANGED <<pc, running, nextid, sendcb, nsent, msgid, hasfn>>

RetransmitFails ==
  /\ LoopAt("check") /\ cursor \in expired
  /\ xmitcounter[cursor] < MAX_RETRANSMIT
  /\ xmitcounter' = [xmitcounter EXCEPT ![cursor] = @ + 1]
  /\ TransmitFails(cursor)
  /\ \E err \in SendError : Fail(err)

\* Faulty variant: gives up one transmission early.
GiveUpEarly ==
  /\ LoopAt("check") /\ cursor \in expired
  /\ xmitcounter[cursor] + 1 >= MAX_RETRANSMIT
  /\ Fail("timeout")
  /\ UNCHANGED <<xmitcounter, peer, sent, sendFailed>>

GiveUp ==
  /\ LoopAt("check") /\ cursor \in expired
  /\ xmitcounter[cursor] >= MAX_RETRANSMIT
  /\ Fail("timeout")
  /\ UNCHANGED <<xmitcounter, peer, sent, sendFailed>>

\* Faulty variant: the loop goes on without testing running.
EndCheckUntested ==
  /\ LoopAt("check") /\ cursor = 0
  /\ pc' = "recv"
  /\ UNCHANGED <<running, cursor, loopcb, nextid, confirmq, sendcb, entries, expired, peer, history>>

\* The end of the queue; the loop tests running again.
EndCheck ==
  /\ LoopAt("check") /\ cursor = 0
  /\ pc' = IF running THEN "recv" ELSE "main"
  /\ UNCHANGED <<running, cursor, loopcb, nextid, confirmq, sendcb, entries, expired, peer, history>>

\* Faulty variant: the entry of a failed send stays in the queue.
SendCallbackKeepsEntry ==
  /\ \E r \in sendcb : (\A x \in sendcb : x <= r) /\ sendcb' = sendcb \ {r}
  /\ UNCHANGED <<loop, nextid, confirmq, expired, entries, peer, history>>

\* A result function returns to send_con_msg, which removes the entry.
SendCallbackReturns ==
  /\ \E r \in sendcb :
       /\ \A x \in sendcb : x <= r
       /\ sendcb' = sendcb \ {r}
       /\ RemoveEntry(r)
  /\ UNCHANGED <<loop, nextid, entries, peer, history>>

\* Faulty variant: the entry that was reported stays in the queue.
LoopCallbackKeepsEntry ==
  /\ loopcb # 0 /\ sendcb = {}
  /\ loopcb' = 0
  /\ \/ pc = "recv" /\ pc' = "readfn" /\ UNCHANGED cursor
     \/ pc = "check" /\ Advance(confirmq) /\ UNCHANGED pc
  /\ UNCHANGED <<running, nextid, confirmq, expired, sendcb, entries, peer, history>>

\* A result function returns to recv or check_queues, which removes the entry and goes on.
LoopCallbackReturns ==
  /\ loopcb # 0 /\ sendcb = {}
  /\ RemoveEntry(loopcb)
  /\ loopcb' = 0
  /\ \/ pc = "recv" /\ pc' = "readfn" /\ UNCHANGED cursor
     \/ pc = "check" /\ Advance(confirmq') /\ UNCHANGED pc
  /\ UNCHANGED <<running, nextid, sendcb, entries, peer, history>>

-----------------------------------------------------------------------------
(* Time, the peer and the network.                                         *)

\* mn_timeout_get of a queued entry reaches 0.
Expire(r) ==
  /\ pc # "crashed"
  /\ r \in confirmq \ expired
  /\ expired' = expired \cup {r}
  /\ UNCHANGED <<loop, nextid, confirmq, sendcb, entries, peer, history>>

\* The peer receives a copy and acknowledges it, or does not.
PeerReceives(r) ==
  /\ pc # "crashed"
  /\ r \in net
  /\ net' \in Left(net, r)
  /\ received' = received \cup {r}
  /\ acks' \in {acks, acks \cup {msgid[r]}}
  /\ UNCHANGED <<loop, nextid, confirmq, sendcb, entries, expired, history>>

\* Loss, of a request or of an acknowledgement.
Lose ==
  /\ pc # "crashed"
  /\ \/ \E r \in net : net' = net \ {r} /\ UNCHANGED acks
     \/ \E id \in acks : acks' = acks \ {id} /\ UNCHANGED net
  /\ UNCHANGED <<loop, nextid, confirmq, sendcb, entries, expired, received, history>>

\* A crashed program takes no further step.
Crashed == pc = "crashed" /\ UNCHANGED vars

-----------------------------------------------------------------------------
App == Request \/ RequestNon \/ Echo \/ StartLoop \/ ClearRunning

Loop ==
  \/ RecvNothing \/ RecvOther \/ RecvMalformed
  \/ \E id \in MsgId : RecvAck(id) \/ RecvUnknownAck(id)
  \/ ReadfnReturns
  \/ SkipEntry \/ Retransmit \/ RetransmitFails \/ GiveUp \/ EndCheck
  \/ SendCallbackReturns \/ LoopCallbackReturns

Environment == Lose \/ \E r \in Req : Expire(r) \/ PeerReceives(r)

Next == App \/ Loop \/ Environment \/ Crashed

Spec == Init /\ [][Next]_vars

\* The thread keeps executing once it is in the loop, and time passes.  Nothing is
\* assumed of the application (it need not send or start the loop) or the network.
FairSpec == Spec /\ WF_vars(Loop) /\ \A r \in Req : WF_vars(Expire(r))

-----------------------------------------------------------------------------
(* Properties.                                                             *)

\* Every variable stays in its range.
TypeOK ==
  /\ pc \in {"main", "recv", "readfn", "check", "crashed"}
  /\ running \in BOOLEAN
  /\ nextid \in 1..MaxId
  /\ confirmq \subseteq Req /\ expired \subseteq confirmq
  /\ cursor \in 0..MaxReq /\ loopcb \in 0..MaxReq /\ sendcb \subseteq Req
  /\ nsent \in 0..MaxReq
  /\ msgid \in [Req -> MsgId]
  /\ hasfn \subseteq Req
  /\ xmitcounter \in [Req -> 0..MAX_RETRANSMIT]
  /\ net \subseteq Req /\ acks \subseteq MsgId /\ received \subseteq Req
  /\ sent \in [Req -> 0..MAX_RETRANSMIT]
  /\ sendFailed \subseteq Req
  /\ outcome \in [Req -> Outcome]
  /\ notified \in [Req -> 0..1]

\* The requests whose result function is running.
Reporting == sendcb \cup ({loopcb} \ {0})

\* While a result function runs its entry is still linked ("The entry is *NOT*
\* removed until after the result function is called", mc_endpt_udp.c:277), the
\* entry check_queues stands on is never one that has been freed, and the frames
\* of the two kinds of callback never report the same entry.
NoDanglingEntry ==
  /\ Reporting \subseteq confirmq
  /\ pc = "check" => cursor \in confirmq \cup {0}
  /\ loopcb \notin sendcb
  /\ (pc = "check" /\ loopcb # 0) => loopcb = cursor

\* A request that was sent is waiting in the queue without an outcome, or its
\* outcome is known and its entry is gone or about to go: none is ever dropped
\* without a result, and none stays behind after it.
PendingIffQueued ==
  \A r \in Req : (r \in confirmq \ Reporting) <=> (r <= nsent /\ outcome[r] = "none")

\* The result function of a request is called once, when the request ends.
OneResult ==
  \A r \in Req : notified[r] = IF r \in hasfn /\ outcome[r] # "none" THEN 1 ELSE 0

\* MN_DONE is reported only when the peer has received a message with that id:
\* this one, unless the ids have wrapped or the application reused one.
DoneMeansReceived ==
  \A r \in Req : outcome[r] = "done" => \E q \in received : msgid[q] = msgid[r]

\* MN_TIMEOUT is reported only when MAX_RETRANSMIT copies went out without an
\* answer, or when a sendto has itself timed out.
TimeoutMeansExhausted ==
  \A r \in Req : outcome[r] = "timeout" => sent[r] = MAX_RETRANSMIT \/ r \in sendFailed

\* xmitcounter is the number of copies the socket accepted while the entry waits,
\* whatever callbacks and failing sends come in between.
XmitCountsCopies ==
  \A r \in confirmq \ Reporting : xmitcounter[r] = sent[r] /\ sent[r] > 0 /\ r \notin sendFailed

\* Once a request has ended, no copy of it is sent and its outcome stays.
SilentAfterResult ==
  [][\A r \in Req : outcome[r] # "none" => sent'[r] = sent[r] /\ outcome'[r] = outcome[r]]_vars

\* While the loop runs, every queued request ends.
EveryRequestEnds ==
  \A r \in Req : (r \in confirmq /\ running) ~> (r \notin confirmq \/ ~running \/ pc = "crashed")

\* When check_queues runs with running = 0 the walk ends, whatever its callbacks add to
\* the queue and however their sends fail, and the loop with it.
StopBeforeTestEndsLoop == (pc = "check" /\ ~running) ~> pc = "main"

\* "Run the read dispatch loop until either the readfn returns false or the calling
\* program sets endpt->running to 0" (mc_endpt_udp.c:119-120): it ends in no other way.
LoopRuns == pc # "crashed"

\* The same sentence as for LoopRuns, read the other way: once running is 0 the loop
\* ends, wherever the callback that cleared it was called from.
StopEndsLoop == (pc \notin {"main", "crashed"} /\ ~running) ~> pc \in {"main", "crashed"}

\* How a request stands for its sender.
Status(r) ==
  IF r > nsent THEN "idle"
  ELSE IF outcome[r] = "none" THEN "pending"
  ELSE IF outcome[r] = "done" THEN "acked"
  ELSE IF r \in sendFailed THEN "aborted"
  ELSE "exhausted"

Promise == INSTANCE Confirmable WITH
  status <- [r \in Req |-> Status(r)], id <- msgid, copies <- sent

\* The queue, the loop and the callbacks implement Confirmable: a message is pending
\* until it is acknowledged, exhausted or refused by the socket, in one step, once.
ImplementsConfirmable == Promise!Spec
=============================================================================
