--------------------------- MODULE EndpointProofs ---------------------------
(***************************************************************************)
(* Proofs about Endpoint for every number of requests, every message id    *)
(* space and every retransmission limit.  The inductive invariant comes in *)
(* layers, each proved with the ones before it:                            *)
(*                                                                         *)
(*   Types      the ranges of the variables (counters in Nat);             *)
(*   Frames     what the callbacks being executed stand on;                *)
(*   Ledger     what the queue says about a request, and the counters;     *)
(*   Evidence   where acknowledgements come from.                          *)
(***************************************************************************)
EXTENDS Endpoint, TLAPS

Types ==
  /\ pc \in {"main", "recv", "readfn", "check", "crashed"}
  /\ running \in BOOLEAN
  /\ nextid \in 1..MaxId
  /\ confirmq \subseteq Req /\ expired \subseteq confirmq
  /\ cursor \in 0..MaxReq /\ loopcb \in 0..MaxReq /\ sendcb \subseteq Req
  /\ nsent \in 0..MaxReq
  /\ msgid \in [Req -> MsgId]
  /\ hasfn \subseteq Req
  /\ xmitcounter \in [Req -> Nat]
  /\ net \subseteq Req /\ acks \subseteq MsgId /\ received \subseteq Req
  /\ sent \in [Req -> Nat]
  /\ sendFailed \subseteq Req
  /\ outcome \in [Req -> Outcome]
  /\ notified \in [Req -> Nat]

\* The callbacks in progress: a send that fails in the loop does so under a callback
\* of the loop, and no callback is in progress elsewhere in recv and check_queues.
Frames ==
  /\ \A r \in confirmq : r <= nsent
  /\ sendcb \subseteq confirmq
  /\ loopcb # 0 => /\ loopcb \in confirmq \ sendcb
                   /\ pc \in {"recv", "check"}
  /\ sendcb # {} => pc \in {"main", "readfn"} \/ loopcb # 0
  /\ pc = "check" => cursor \in confirmq \cup {0}
  /\ (pc = "check" /\ loopcb # 0) => loopcb = cursor

\* A request not yet sent has left no trace.
Unsent ==
  \A r \in Req : r > nsent =>
    /\ r \notin confirmq /\ r \notin hasfn /\ r \notin net /\ r \notin received
    /\ r \notin sendFailed
    /\ xmitcounter[r] = 0 /\ sent[r] = 0 /\ notified[r] = 0 /\ outcome[r] = "none"

\* A request waiting in the queue, against one that is not.
Waiting ==
  /\ \A r \in confirmq \ Reporting : outcome[r] = "none"
  /\ \A r \in Req : r <= nsent /\ outcome[r] = "none" => r \in confirmq \ Reporting

Counters ==
  /\ \A r \in confirmq \ Reporting :
       xmitcounter[r] = sent[r] /\ sent[r] > 0 /\ r \notin sendFailed
  /\ \A r \in Req : xmitcounter[r] <= MAX_RETRANSMIT /\ sent[r] <= MAX_RETRANSMIT

Ledger ==
  /\ Unsent /\ Waiting /\ Counters
  /\ OneResult
  /\ TimeoutMeansExhausted

\* Whatever is on the wire was sent, and an id acknowledged was received.
Evidence ==
  /\ \A r \in net : sent[r] > 0
  /\ \A id \in acks : \E q \in received : msgid[q] = id
  /\ DoneMeansReceived

-----------------------------------------------------------------------------
LEMMA NextIdRange == ASSUME NEW id \in 1..MaxId PROVE NextId(id) \in 1..MaxId
  BY MaxIdAssumption DEF NextId

LEMMA TypesInit == Init => Types
  <1>. SUFFICES ASSUME Init PROVE Types
    OBVIOUS
  <1>1. 0 \in 0..MaxReq /\ 0 \in MsgId /\ "none" \in Outcome
    BY MaxReqAssumption, MaxIdAssumption DEF MsgId, Outcome
  <1>. QED  BY <1>1 DEF Init, Types

LEMMA LeftSubset ==
  ASSUME NEW S, NEW x, NEW T \in Left(S, x)
  PROVE  T \subseteq S
  BY DEF Left

LEMMA SendConTypes ==
  ASSUME Types, NEW id \in MsgId, NEW fn \in BOOLEAN, NEW err \in {"done"} \cup SendError,
         SendCon(id, fn, err), nextid' \in 1..MaxId
  PROVE  Types'
  <1>. DEFINE r == nsent + 1
  <1>1. r \in Req
    BY MaxReqAssumption DEF SendCon, Types, Req
  <1>2. /\ nsent' \in 0..MaxReq /\ msgid' \in [Req -> MsgId] /\ hasfn' \subseteq Req
        /\ UNCHANGED <<pc, running, cursor, loopcb, expired>>
    BY <1>1, MaxReqAssumption DEF SendCon, Types, Req, loop
  <1>3. CASE err = "done"
    BY <1>1, <1>2, <1>3 DEF SendCon, Types, Transmit
  <1>4. CASE err # "done"
    <2>1. err \in Outcome
      BY <1>4 DEF Outcome
    <2>2. outcome' \in [Req -> Outcome] /\ notified' \in [Req -> Nat]
      BY <1>1, <1>4, <2>1 DEF SendCon, CallResultFn, Types
    <2>. QED  BY <1>1, <1>2, <1>4, <2>2 DEF SendCon, Types, TransmitFails, peer
  <1>. QED  BY <1>3, <1>4

LEMMA FailTypes ==
  ASSUME Types, LoopAt("check"), cursor \in expired, NEW err \in SendError, Fail(err),
         xmitcounter' \in [Req -> Nat], UNCHANGED <<peer, sent>>, sendFailed' \subseteq Req
  PROVE  Types'
  <1>1. cursor \in Req
    BY DEF Types
  <1>2. outcome' \in [Req -> Outcome] /\ notified' \in [Req -> Nat]
    BY <1>1 DEF Fail, CallResultFn, Types, Outcome
  <1>3. UNCHANGED <<pc, running, nextid, sendcb, nsent, msgid, hasfn>>
    BY DEF Fail
  <1>4. /\ confirmq' \subseteq Req /\ expired' \subseteq confirmq'
        /\ cursor' \in 0..MaxReq /\ loopcb' \in 0..MaxReq
    BY DEF Fail, RemoveEntry, Advance, Types
  <1>. QED  BY <1>2, <1>3, <1>4 DEF Types, peer

LEMMA TypesNext == Types /\ [Next]_vars => Types'
  <1>. SUFFICES ASSUME Types, [Next]_vars PROVE Types'
    OBVIOUS
  <1>. USE DEF loop, entries, peer, history
  <1>1. CASE Request
    BY <1>1, NextIdRange, SendConTypes DEF Request, Types, MsgId
  <1>2. CASE RequestNon
    BY <1>2, NextIdRange DEF RequestNon, Types
  <1>3. CASE Echo
    BY <1>3, EchoIdsAssumption, SendConTypes DEF Echo, Types, MsgId
  <1>4. CASE StartLoop \/ ClearRunning
    BY <1>4 DEF StartLoop, ClearRunning, Types
  <1>5. CASE RecvNothing \/ RecvOther \/ RecvMalformed
    BY <1>5 DEF RecvNothing, RecvOther, RecvMalformed, EnterCheck, Types
  <1>6. ASSUME NEW id \in MsgId, RecvAck(id) PROVE Types'
    <2>1. acks' \subseteq MsgId
      BY <1>6, LeftSubset DEF RecvAck, Types
    <2>2. PICK r \in Req :
            /\ CallResultFn(r, "done", hasfn)
            /\ IF r \in hasfn
                 THEN loopcb' = r /\ UNCHANGED <<pc, confirmq, expired>>
                 ELSE RemoveEntry(r) /\ pc' = "readfn" /\ UNCHANGED loopcb
      BY <1>6 DEF RecvAck
    <2>3. outcome' \in [Req -> Outcome] /\ notified' \in [Req -> Nat]
      BY <2>2 DEF CallResultFn, Types, Outcome
    <2>4. UNCHANGED <<running, cursor, nextid, sendcb, entries, net, received, sent, sendFailed>>
      BY <1>6 DEF RecvAck
    <2>5. /\ pc' \in {"main", "recv", "readfn", "check", "crashed"}
          /\ loopcb' \in 0..MaxReq /\ confirmq' \subseteq Req /\ expired' \subseteq confirmq'
      <3>1. CASE r \in hasfn
        <4>1. loopcb' = r
          BY <2>2, <3>1
        <4>2. UNCHANGED <<pc, confirmq, expired>>
          BY <2>2, <3>1
        <4>3. r \in 0..MaxReq
          BY MaxReqAssumption DEF Req
        <4>. QED  BY <4>1, <4>2, <4>3 DEF Types
      <3>2. CASE r \notin hasfn
        BY <2>2, <3>2 DEF RemoveEntry, Types
      <3>. QED  BY <3>1, <3>2
    <2>. QED  BY <2>1, <2>3, <2>4, <2>5 DEF Types
  <1>7. ASSUME NEW id \in MsgId, RecvUnknownAck(id) PROVE Types'
    BY <1>7, LeftSubset DEF RecvUnknownAck, Types
  <1>8. CASE ReadfnReturns
    BY <1>8 DEF ReadfnReturns, EnterCheck, Types
  <1>9. CASE SkipEntry
    BY <1>9 DEF SkipEntry, Advance, Types
  <1>10. CASE Retransmit
    BY <1>10 DEF Retransmit, Advance, Transmit, Types
  <1>11. CASE RetransmitFails
    <2>1. LoopAt("check") /\ cursor \in expired
      BY <1>11 DEF RetransmitFails
    <2>2. xmitcounter' \in [Req -> Nat] /\ UNCHANGED <<peer, sent>> /\ sendFailed' \subseteq Req
      BY <1>11 DEF RetransmitFails, TransmitFails, Types
    <2>3. PICK err \in SendError : Fail(err)
      BY <1>11 DEF RetransmitFails
    <2>. QED  BY <2>1, <2>2, <2>3, FailTypes
  <1>12. CASE GiveUp
    <2>1. LoopAt("check") /\ cursor \in expired /\ Fail("timeout")
      BY <1>12 DEF GiveUp
    <2>2. xmitcounter' \in [Req -> Nat] /\ UNCHANGED <<peer, sent>> /\ sendFailed' \subseteq Req
      BY <1>12 DEF GiveUp, Types
    <2>3. "timeout" \in SendError
      BY DEF SendError
    <2>. QED  BY <2>1, <2>2, <2>3, FailTypes
  <1>13. CASE EndCheck
    BY <1>13 DEF EndCheck, Types
  <1>14. CASE SendCallbackReturns
    BY <1>14 DEF SendCallbackReturns, RemoveEntry, Types
  <1>15. CASE LoopCallbackReturns
    BY <1>15, MaxReqAssumption DEF LoopCallbackReturns, RemoveEntry, Advance, Types
  <1>16. ASSUME NEW r \in Req, Expire(r) PROVE Types'
    BY <1>16 DEF Expire, Types
  <1>17. ASSUME NEW r \in Req, PeerReceives(r) PROVE Types'
    BY <1>17, LeftSubset DEF PeerReceives, Types
  <1>18. CASE Lose
    BY <1>18 DEF Lose, Types
  <1>19. CASE UNCHANGED vars
    BY <1>19 DEF vars, Types
  <1>. QED
    BY <1>1, <1>2, <1>3, <1>4, <1>5, <1>6, <1>7, <1>8, <1>9, <1>10, <1>11, <1>12, <1>13,
       <1>14, <1>15, <1>16, <1>17, <1>18, <1>19
    DEF Next, App, Loop, Environment, Crashed

\* The variables stay in their ranges (counters in Nat).
THEOREM TypesHold == Spec => []Types
  BY TypesInit, TypesNext, PTL DEF Spec

-----------------------------------------------------------------------------
LEMMA FramesInit == Init => Frames
  BY DEF Init, Frames

\* The cursor check_queues starts or goes on with is an entry of the queue, or 0.
LEMMA CursorInQueue ==
  ASSUME NEW c, NEW r, NEW q, IsNext(c, r, q)
  PROVE  c \in q \cup {0}
  BY DEF IsNext

LEMMA SendConFrames ==
  ASSUME Types, Frames, AppRuns, NEW id, NEW fn \in BOOLEAN, NEW err, SendCon(id, fn, err)
  PROVE  Frames'
  <1>. DEFINE r == nsent + 1
  <1>1. UNCHANGED <<pc, cursor, loopcb>>
    BY DEF SendCon, loop
  <1>2. \/ confirmq' = confirmq \cup {r} /\ sendcb' = sendcb
        \/ confirmq' = confirmq \cup {r} /\ sendcb' = sendcb \cup {r}
        \/ confirmq' = confirmq /\ sendcb' = sendcb
    BY DEF SendCon
  <1>3. nsent' = r /\ nsent \in Int
    BY MaxReqAssumption DEF SendCon, Types
  <1>4. \A x \in confirmq : x \in Int /\ x <= nsent
    <2>1. confirmq \subseteq Req /\ \A x \in confirmq : x <= nsent
      BY DEF Types, Frames
    <2>. QED  BY <2>1 DEF Req
  <1>5. \A x \in confirmq' : x <= nsent'
    BY <1>2, <1>3, <1>4
  <1>6. loopcb # 0 => loopcb # r
    BY <1>3, <1>4 DEF Frames
  <1>. QED  BY <1>1, <1>2, <1>5, <1>6 DEF Frames, AppRuns

\* An entry that recv or check_queues removes at once was in no callback.
LEMMA FailFrames ==
  ASSUME Types, Frames, LoopAt("check"), cursor \in expired, NEW err, Fail(err)
  PROVE  Frames'
  <1>1. cursor \in confirmq /\ sendcb = {} /\ cursor # 0
    BY DEF Types, LoopAt, Req
  <1>2. UNCHANGED <<pc, sendcb, nsent>>
    BY DEF Fail
  <1>3. CASE cursor \in hasfn
    BY <1>1, <1>2, <1>3 DEF Fail, Frames, LoopAt
  <1>4. CASE cursor \notin hasfn
    <2>1. cursor' \in confirmq' \cup {0}
      BY <1>4, CursorInQueue DEF Fail, Advance
    <2>. QED  BY <1>1, <1>2, <1>4, <2>1 DEF Fail, RemoveEntry, Frames, LoopAt
  <1>. QED  BY <1>3, <1>4

LEMMA FramesNext == Types /\ Frames /\ [Next]_vars => Frames'
  <1>. SUFFICES ASSUME Types, Frames, [Next]_vars PROVE Frames'
    OBVIOUS
  <1>. USE DEF loop, entries
  <1>1. CASE Request \/ Echo
    BY <1>1, SendConFrames DEF Request, Echo
  <1>2. CASE RequestNon
    BY <1>2 DEF RequestNon, Frames
  <1>3. CASE StartLoop \/ ClearRunning
    BY <1>3 DEF StartLoop, ClearRunning, Frames
  <1>4. CASE RecvNothing \/ ReadfnReturns
    <2>1. pc' = "check" /\ cursor' \in confirmq' \cup {0}
      BY <1>4, CursorInQueue DEF RecvNothing, ReadfnReturns, EnterCheck
    <2>2. UNCHANGED <<nsent, confirmq, sendcb, loopcb>> /\ loopcb = 0 /\ sendcb = {}
      BY <1>4 DEF RecvNothing, ReadfnReturns, LoopAt
    <2>. QED  BY <2>1, <2>2 DEF Frames
  <1>5. CASE RecvOther \/ RecvMalformed
    BY <1>5 DEF RecvOther, RecvMalformed, LoopAt, Frames
  <1>6. ASSUME NEW id \in MsgId, RecvAck(id) PROVE Frames'
    <2>1. pc = "recv" /\ loopcb = 0 /\ sendcb = {} /\ UNCHANGED <<nsent, sendcb, cursor>>
      BY <1>6 DEF RecvAck, LoopAt
    <2>2. PICK r \in confirmq :
            IF r \in hasfn THEN loopcb' = r /\ UNCHANGED <<pc, confirmq, expired>>
                           ELSE RemoveEntry(r) /\ pc' = "readfn" /\ UNCHANGED loopcb
      BY <1>6 DEF RecvAck, IsMatch
    <2>3. CASE r \in hasfn
      BY <2>1, <2>2, <2>3 DEF Frames
    <2>4. CASE r \notin hasfn
      BY <2>1, <2>2, <2>4 DEF Frames, RemoveEntry
    <2>. QED  BY <2>3, <2>4
  <1>7. ASSUME NEW id \in MsgId, RecvUnknownAck(id) PROVE Frames'
    BY <1>7 DEF RecvUnknownAck, LoopAt, Frames
  <1>8. CASE SkipEntry \/ Retransmit
    <2>1. cursor' \in confirmq' \cup {0}
      BY <1>8, CursorInQueue DEF SkipEntry, Retransmit, Advance
    <2>2. UNCHANGED <<pc, nsent, confirmq, sendcb, loopcb>> /\ loopcb = 0 /\ sendcb = {}
      BY <1>8 DEF SkipEntry, Retransmit, LoopAt
    <2>. QED  BY <2>1, <2>2 DEF Frames
  <1>9. CASE RetransmitFails \/ GiveUp
    BY <1>9, FailFrames DEF RetransmitFails, GiveUp
  <1>10. CASE EndCheck
    BY <1>10 DEF EndCheck, LoopAt, Frames
  <1>11. CASE SendCallbackReturns
    <2>1. PICK r \in sendcb : sendcb' = sendcb \ {r} /\ confirmq' = confirmq \ {r}
      BY <1>11 DEF SendCallbackReturns, RemoveEntry
    <2>2. UNCHANGED <<pc, cursor, loopcb, nsent>>
      BY <1>11 DEF SendCallbackReturns
    <2>3. 0 \notin sendcb /\ (pc = "check" => loopcb # 0)
      BY <2>1 DEF Types, Frames, Req
    <2>. QED  BY <2>1, <2>2, <2>3 DEF Frames
  <1>12. CASE LoopCallbackReturns
    <2>1. confirmq' = confirmq \ {loopcb} /\ loopcb' = 0 /\ sendcb = {} /\ UNCHANGED <<nsent, sendcb>>
      BY <1>12 DEF LoopCallbackReturns, RemoveEntry
    <2>2. pc' = "readfn" \/ cursor' \in confirmq' \cup {0}
      BY <1>12, CursorInQueue DEF LoopCallbackReturns, Advance
    <2>. QED  BY <2>1, <2>2 DEF Frames
  <1>13. ASSUME NEW r \in Req, Expire(r) \/ PeerReceives(r) PROVE Frames'
    BY <1>13 DEF Expire, PeerReceives, Frames
  <1>14. CASE Lose \/ UNCHANGED vars
    BY <1>14 DEF Lose, vars, Frames
  <1>. QED
    BY <1>1, <1>2, <1>3, <1>4, <1>5, <1>6, <1>7, <1>8, <1>9, <1>10, <1>11, <1>12, <1>13, <1>14
    DEF Next, App, Loop, Environment, Crashed

\* While a result function runs, its entry is still linked; check_queues never
\* stands on an entry that has been freed (mc_endpt_udp.c:277, 281-310).
THEOREM NoDanglingEntryHolds == Spec => []NoDanglingEntry
  <1>1. Init => Types /\ Frames
    BY TypesInit, FramesInit
  <1>2. Types /\ Frames /\ [Next]_vars => (Types /\ Frames)'
    BY TypesNext, FramesNext
  <1>3. Types /\ Frames => NoDanglingEntry
    BY DEF Types, Frames, NoDanglingEntry, Reporting, Req
  <1>. QED  BY <1>1, <1>2, <1>3, PTL DEF Spec

-----------------------------------------------------------------------------
(***************************************************************************)
(* What a step does to the requests, whichever handler takes it: nothing,  *)
(* or the submission of a new request, or a further copy or the end of one *)
(* that waits in the queue.  The later layers only use this.               *)
(***************************************************************************)
WaitSet == confirmq \ Reporting

Quiet ==
  /\ WaitSet' = WaitSet /\ confirmq' \subseteq confirmq
  /\ UNCHANGED <<entries, history>>
  /\ net' \subseteq net
  /\ \/ acks' \subseteq acks /\ received' = received
     \/ \E r \in net : /\ received' = received \cup {r}
                       /\ acks' \subseteq acks \cup {msgid[r]}

Submitted(r) ==
  /\ r = nsent + 1 /\ nsent' = r
  /\ \E id \in MsgId : msgid' = [msgid EXCEPT ![r] = id]
  /\ hasfn' = hasfn \/ hasfn' = hasfn \cup {r}
  /\ confirmq' \subseteq confirmq \cup {r}
  /\ UNCHANGED <<acks, received>>
  /\ \/ /\ WaitSet' = WaitSet \cup {r}
        /\ xmitcounter' = [xmitcounter EXCEPT ![r] = @ + 1]
        /\ sent' = [sent EXCEPT ![r] = @ + 1]
        /\ net' = net \cup {r}
        /\ UNCHANGED <<sendFailed, outcome, notified>>
     \/ /\ WaitSet' = WaitSet
        /\ \E err \in SendError : CallResultFn(r, err, hasfn')
        /\ sendFailed' = sendFailed \cup {r}
        /\ UNCHANGED <<xmitcounter, sent, net>>

Copied(r) ==
  /\ xmitcounter[r] < MAX_RETRANSMIT
  /\ WaitSet' = WaitSet /\ confirmq' = confirmq
  /\ xmitcounter' = [xmitcounter EXCEPT ![r] = @ + 1]
  /\ sent' = [sent EXCEPT ![r] = @ + 1]
  /\ net' = net \cup {r}
  /\ UNCHANGED <<nsent, msgid, hasfn, acks, received, sendFailed, outcome, notified>>

Ended(r, err) ==
  /\ WaitSet' = WaitSet \ {r} /\ confirmq' \subseteq confirmq
  /\ CallResultFn(r, err, hasfn)
  /\ \/ err = "done" /\ msgid[r] \in acks /\ UNCHANGED <<xmitcounter, sendFailed>>
     \/ err = "timeout" /\ xmitcounter[r] >= MAX_RETRANSMIT /\ UNCHANGED <<xmitcounter, sendFailed>>
     \/ /\ err \in SendError /\ xmitcounter[r] < MAX_RETRANSMIT
        /\ xmitcounter' = [xmitcounter EXCEPT ![r] = @ + 1]
        /\ sendFailed' = sendFailed \cup {r}
  /\ acks' \subseteq acks
  /\ UNCHANGED <<nsent, msgid, hasfn, sent, net, received>>

Event ==
  \/ Quiet
  \/ \E r \in Req : Submitted(r)
  \/ \E r \in WaitSet : Copied(r)
  \/ \E r \in WaitSet : \E err \in Outcome \ {"none"} : Ended(r, err)

LEMMA SendConEvent ==
  ASSUME Types, Frames, NEW id \in MsgId, NEW fn \in BOOLEAN,
         NEW err \in {"done"} \cup SendError, SendCon(id, fn, err)
  PROVE  Event
  <1>. DEFINE r == nsent + 1
  <1>1. r \in Req
    BY MaxReqAssumption DEF SendCon, Types, Req
  <1>2. /\ nsent' = r /\ msgid' = [msgid EXCEPT ![r] = id]
        /\ hasfn' = IF fn THEN hasfn \cup {r} ELSE hasfn
        /\ loopcb' = loopcb
    BY DEF SendCon, loop
  <1>3. r # loopcb /\ r \notin sendcb
    BY <1>1 DEF Frames, Types, Req
  <1>4. CASE err = "done"
    <2>1. /\ WaitSet' = WaitSet \cup {r} /\ confirmq' \subseteq confirmq \cup {r}
      BY <1>2, <1>3, <1>4 DEF SendCon, WaitSet, Reporting, SendError
    <2>2. /\ xmitcounter' = [xmitcounter EXCEPT ![r] = @ + 1]
          /\ sent' = [sent EXCEPT ![r] = @ + 1]
          /\ net' = net \cup {r}
          /\ UNCHANGED <<acks, received, sendFailed, outcome, notified>>
      BY <1>4 DEF SendCon, Transmit
    <2>3. Submitted(r)
      BY <1>2, <2>1, <2>2 DEF Submitted
    <2>. QED  BY <1>1, <2>3 DEF Event
  <1>5. CASE err # "done"
    <2>1. \/ confirmq' = confirmq \cup {r} /\ sendcb' = sendcb \cup {r}
          \/ confirmq' = confirmq /\ sendcb' = sendcb
      BY <1>5 DEF SendCon
    <2>2. r \notin confirmq
      BY <1>1 DEF Frames, Types, Req
    <2>3. WaitSet' = WaitSet /\ confirmq' \subseteq confirmq \cup {r}
      BY <1>2, <2>1, <2>2 DEF WaitSet, Reporting
    <2>4. /\ CallResultFn(r, err, hasfn')
          /\ sendFailed' = sendFailed \cup {r}
          /\ UNCHANGED <<xmitcounter, sent, net, acks, received>>
      BY <1>2, <1>5 DEF SendCon, TransmitFails, peer
    <2>5. Submitted(r)
      BY <1>2, <1>5, <2>3, <2>4 DEF Submitted
    <2>. QED  BY <1>1, <2>5 DEF Event
  <1>. QED  BY <1>4, <1>5

LEMMA FailEnds ==
  ASSUME Types, Frames, LoopAt("check"), cursor \in expired, NEW err, Fail(err)
  PROVE  /\ cursor \in WaitSet
         /\ WaitSet' = WaitSet \ {cursor} /\ confirmq' \subseteq confirmq
         /\ CallResultFn(cursor, err, hasfn)
         /\ UNCHANGED <<nsent, msgid, hasfn>>
  <1>1. cursor \in confirmq /\ cursor # 0 /\ loopcb = 0 /\ sendcb = {} /\ sendcb' = {}
    BY DEF Types, LoopAt, Req, Fail
  <1>2. CASE cursor \in hasfn
    BY <1>1, <1>2 DEF Fail, WaitSet, Reporting
  <1>3. CASE cursor \notin hasfn
    BY <1>1, <1>3 DEF Fail, WaitSet, Reporting, RemoveEntry
  <1>. QED  BY <1>2, <1>3

LEMMA QuietUnlessPeer ==
  ASSUME WaitSet' = WaitSet, confirmq' \subseteq confirmq,
         UNCHANGED <<entries, history, received>>, net' \subseteq net, acks' \subseteq acks
  PROVE  Event
  BY DEF Event, Quiet

LEMMA StepEvent == Types /\ Frames /\ [Next]_vars => Event
  <1>. SUFFICES ASSUME Types, Frames, [Next]_vars PROVE Event
    OBVIOUS
  <1>1. CASE Request \/ Echo
    <2>1. nextid \in MsgId /\ EchoIds \subseteq MsgId
      BY EchoIdsAssumption DEF Types, MsgId
    <2>2. CASE Request
      BY <2>1, <2>2, SendConEvent DEF Request
    <2>3. CASE Echo
      BY <2>1, <2>3, SendConEvent DEF Echo
    <2>. QED  BY <1>1, <2>2, <2>3
  <1>2. CASE RequestNon
    BY <1>2, QuietUnlessPeer DEF RequestNon, WaitSet, Reporting, loop, peer
  <1>3. CASE StartLoop \/ ClearRunning
    BY <1>3, QuietUnlessPeer DEF StartLoop, ClearRunning, WaitSet, Reporting, peer
  <1>4. CASE RecvNothing \/ ReadfnReturns \/ RecvOther \/ RecvMalformed
    BY <1>4, QuietUnlessPeer
    DEF RecvNothing, ReadfnReturns, RecvOther, RecvMalformed, WaitSet, Reporting, peer
  <1>5. ASSUME NEW id \in MsgId, RecvAck(id) PROVE Event
    <2>1. /\ LoopAt("recv") /\ id \in acks /\ acks' \subseteq acks
          /\ UNCHANGED <<sendcb, entries, net, received, sent, sendFailed>>
      BY <1>5, LeftSubset DEF RecvAck
    <2>2. PICK r \in Req :
            /\ IsMatch(r, id)
            /\ CallResultFn(r, "done", hasfn)
            /\ IF r \in hasfn THEN loopcb' = r /\ UNCHANGED <<pc, confirmq, expired>>
                              ELSE RemoveEntry(r) /\ pc' = "readfn" /\ UNCHANGED loopcb
      BY <1>5 DEF RecvAck
    <2>3. r \in confirmq /\ msgid[r] = id /\ r # 0
      BY <2>2 DEF IsMatch, Req
    <2>4. r \in WaitSet /\ WaitSet' = WaitSet \ {r} /\ confirmq' \subseteq confirmq
      <3>1. CASE r \in hasfn
        BY <2>1, <2>2, <2>3, <3>1 DEF WaitSet, Reporting, LoopAt
      <3>2. CASE r \notin hasfn
        BY <2>1, <2>2, <2>3, <3>2 DEF WaitSet, Reporting, LoopAt, RemoveEntry
      <3>. QED  BY <3>1, <3>2
    <2>5. Ended(r, "done")
      BY <2>1, <2>2, <2>3, <2>4 DEF Ended, entries
    <2>. QED  BY <2>4, <2>5 DEF Event, Outcome
  <1>6. ASSUME NEW id \in MsgId, RecvUnknownAck(id) PROVE Event
    BY <1>6, QuietUnlessPeer, LeftSubset DEF RecvUnknownAck, WaitSet, Reporting
  <1>7. CASE SkipEntry \/ EndCheck
    BY <1>7, QuietUnlessPeer DEF SkipEntry, EndCheck, WaitSet, Reporting, peer
  <1>8. CASE Retransmit
    <2>1. cursor \in WaitSet
      BY <1>8 DEF Retransmit, LoopAt, Types, WaitSet, Reporting
    <2>2. Copied(cursor)
      BY <1>8 DEF Retransmit, Transmit, Copied, WaitSet, Reporting
    <2>. QED  BY <2>1, <2>2 DEF Event
  <1>9. CASE RetransmitFails
    <2>1. PICK err \in SendError : Fail(err)
      BY <1>9 DEF RetransmitFails
    <2>2. LoopAt("check") /\ cursor \in expired
      BY <1>9 DEF RetransmitFails
    <2>3. Ended(cursor, err)
      BY <1>9, <2>1, <2>2, FailEnds DEF RetransmitFails, TransmitFails, Ended, peer
    <2>. QED  BY <2>1, <2>2, <2>3, FailEnds DEF Event, Outcome, SendError
  <1>10. CASE GiveUp
    <2>1. LoopAt("check") /\ cursor \in expired /\ Fail("timeout")
      BY <1>10 DEF GiveUp
    <2>2. Ended(cursor, "timeout")
      BY <1>10, <2>1, FailEnds DEF GiveUp, Ended, peer
    <2>. QED  BY <2>1, <2>2, FailEnds DEF Event, Outcome, SendError
  <1>11. CASE SendCallbackReturns
    BY <1>11, QuietUnlessPeer DEF SendCallbackReturns, RemoveEntry, WaitSet, Reporting, loop, peer
  <1>12. CASE LoopCallbackReturns
    BY <1>12, QuietUnlessPeer DEF LoopCallbackReturns, RemoveEntry, WaitSet, Reporting, peer
  <1>13. ASSUME NEW r \in Req, Expire(r) PROVE Event
    BY <1>13, QuietUnlessPeer DEF Expire, WaitSet, Reporting, loop, peer
  <1>14. ASSUME NEW r \in Req, PeerReceives(r) PROVE Event
    <2>1. r \in net /\ net' \subseteq net /\ received' = received \cup {r}
          /\ acks' \subseteq acks \cup {msgid[r]}
      BY <1>14, LeftSubset DEF PeerReceives
    <2>2. Quiet
      BY <1>14, <2>1 DEF PeerReceives, Quiet, WaitSet, Reporting, loop
    <2>. QED  BY <2>2 DEF Event
  <1>15. CASE Lose
    BY <1>15, QuietUnlessPeer DEF Lose, WaitSet, Reporting, loop
  <1>16. CASE UNCHANGED vars
    BY <1>16, QuietUnlessPeer DEF vars, WaitSet, Reporting, loop, peer
  <1>. QED
    BY <1>1, <1>2, <1>3, <1>4, <1>5, <1>6, <1>7, <1>8, <1>9, <1>10, <1>11, <1>12, <1>13,
       <1>14, <1>15, <1>16
    DEF Next, App, Loop, Environment, Crashed

-----------------------------------------------------------------------------
LEMMA LedgerInit == Init => Ledger
  <1>. SUFFICES ASSUME Init PROVE Ledger
    OBVIOUS
  <1>1. \A r \in Req : r \in Int /\ ~(r <= 0)
    BY DEF Req
  <1>2. Unsent
    BY DEF Init, Unsent
  <1>3. Waiting
    BY <1>1 DEF Init, Waiting
  <1>4. Counters
    BY MaxRetransmitAssumption DEF Init, Counters
  <1>5. OneResult /\ TimeoutMeansExhausted
    BY DEF Init, OneResult, TimeoutMeansExhausted
  <1>. QED  BY <1>2, <1>3, <1>4, <1>5 DEF Ledger

\* Where the ledger disagrees with nothing, an event leaves it so.
LEMMA LedgerNext == Types /\ Types' /\ Ledger /\ Event => Ledger'
  <1>. SUFFICES ASSUME Types, Types', Ledger, Event PROVE Ledger'
    OBVIOUS
  <1>. USE MaxRetransmitAssumption
  <1>1. /\ nsent \in Int /\ nsent' \in Int
        /\ \A r \in Req : r \in Int
        /\ confirmq \subseteq Req /\ WaitSet \subseteq confirmq
    <2>1. nsent \in 0..MaxReq /\ nsent' \in 0..MaxReq /\ confirmq \subseteq Req
      BY DEF Types
    <2>2. \A r \in Req : r \in Int
      BY DEF Req
    <2>. QED  BY <2>1, <2>2, MaxReqAssumption DEF WaitSet
  <1>2. /\ xmitcounter \in [Req -> Nat] /\ sent \in [Req -> Nat]
        /\ outcome \in [Req -> Outcome] /\ notified \in [Req -> Nat]
        /\ net \subseteq Req
    BY DEF Types
  <1>3. CASE Quiet
    BY <1>1, <1>2, <1>3
    DEF Quiet, Ledger, Unsent, Waiting, Counters, OneResult, TimeoutMeansExhausted, WaitSet,
        entries, history
  <1>4. ASSUME NEW r \in Req, Submitted(r) PROVE Ledger'
    <2>1. /\ r = nsent + 1 /\ nsent' = r
          /\ hasfn' = hasfn \/ hasfn' = hasfn \cup {r}
          /\ confirmq' \subseteq confirmq \cup {r}
          /\ UNCHANGED received
      BY <1>4 DEF Submitted
    <2>2. /\ r \notin confirmq /\ r \notin hasfn /\ r \notin net /\ r \notin received
          /\ r \notin sendFailed /\ xmitcounter[r] = 0 /\ sent[r] = 0
          /\ notified[r] = 0 /\ outcome[r] = "none"
      BY <1>1, <2>1 DEF Ledger, Unsent
    <2>3. CASE /\ WaitSet' = WaitSet \cup {r}
               /\ xmitcounter' = [xmitcounter EXCEPT ![r] = @ + 1]
               /\ sent' = [sent EXCEPT ![r] = @ + 1]
               /\ net' = net \cup {r}
               /\ UNCHANGED <<sendFailed, outcome, notified>>
      <3>1. Unsent'
        BY <1>1, <1>2, <2>1, <2>3 DEF Ledger, Unsent
      <3>2. Waiting'
        BY <1>1, <1>2, <2>1, <2>2, <2>3 DEF Ledger, Waiting, WaitSet
      <3>3. Counters'
        BY <1>1, <1>2, <2>2, <2>3 DEF Ledger, Counters, WaitSet
      <3>4. OneResult' /\ TimeoutMeansExhausted'
        BY <1>1, <1>2, <2>1, <2>2, <2>3 DEF Ledger, OneResult, TimeoutMeansExhausted
      <3>. QED  BY <3>1, <3>2, <3>3, <3>4 DEF Ledger
    <2>4. ASSUME NEW err \in SendError, CallResultFn(r, err, hasfn'), WaitSet' = WaitSet,
                 sendFailed' = sendFailed \cup {r}, UNCHANGED <<xmitcounter, sent, net>>
          PROVE  Ledger'
      <3>1. err # "none" /\ outcome' = [outcome EXCEPT ![r] = err]
        BY <2>4 DEF SendError, CallResultFn
      <3>2. notified' = IF r \in hasfn' THEN [notified EXCEPT ![r] = @ + 1] ELSE notified
        BY <2>4 DEF CallResultFn
      <3>3. Unsent'
        BY <1>1, <1>2, <2>1, <2>4, <3>1, <3>2 DEF Ledger, Unsent
      <3>4. Waiting'
        BY <1>1, <1>2, <2>1, <2>2, <2>4, <3>1 DEF Ledger, Waiting, WaitSet
      <3>5. Counters'
        BY <1>1, <2>2, <2>4 DEF Ledger, Counters, WaitSet
      <3>6. OneResult'
        BY <1>1, <1>2, <2>1, <2>2, <3>1, <3>2 DEF Ledger, OneResult
      <3>7. TimeoutMeansExhausted'
        BY <1>2, <2>4, <3>1 DEF Ledger, TimeoutMeansExhausted
      <3>. QED  BY <3>3, <3>4, <3>5, <3>6, <3>7 DEF Ledger
    <2>. QED  BY <1>4, <2>3, <2>4 DEF Submitted
  <1>5. ASSUME NEW r \in WaitSet, Copied(r) PROVE Ledger'
    <2>1. /\ xmitcounter[r] < MAX_RETRANSMIT /\ WaitSet' = WaitSet /\ confirmq' = confirmq
          /\ xmitcounter' = [xmitcounter EXCEPT ![r] = @ + 1]
          /\ sent' = [sent EXCEPT ![r] = @ + 1]
          /\ net' = net \cup {r}
          /\ UNCHANGED <<nsent, hasfn, received, sendFailed, outcome, notified>>
      BY <1>5 DEF Copied
    <2>2. /\ r \in Req /\ r <= nsent /\ outcome[r] = "none"
          /\ xmitcounter[r] = sent[r] /\ r \notin sendFailed
      BY <1>1, <1>5 DEF Ledger, Unsent, Waiting, Counters, WaitSet
    <2>3. Unsent'
      BY <1>1, <1>2, <2>1, <2>2 DEF Ledger, Unsent
    <2>4. Waiting'
      BY <2>1 DEF Ledger, Waiting, WaitSet
    <2>5. Counters'
      BY <1>1, <1>2, <2>1, <2>2 DEF Ledger, Counters, WaitSet
    <2>6. OneResult' /\ TimeoutMeansExhausted'
      BY <1>2, <2>1, <2>2 DEF Ledger, OneResult, TimeoutMeansExhausted
    <2>. QED  BY <2>3, <2>4, <2>5, <2>6 DEF Ledger
  <1>6. ASSUME NEW r \in WaitSet, NEW err \in Outcome \ {"none"}, Ended(r, err) PROVE Ledger'
    <2>1. /\ r \in Req /\ r <= nsent /\ outcome[r] = "none"
          /\ xmitcounter[r] = sent[r] /\ r \notin sendFailed
      BY <1>1, <1>6 DEF Ledger, Unsent, Waiting, Counters, WaitSet
    <2>2. /\ WaitSet' = WaitSet \ {r} /\ confirmq' \subseteq confirmq
          /\ UNCHANGED <<nsent, hasfn, sent, net, received>>
          /\ outcome' = [outcome EXCEPT ![r] = err]
          /\ notified' = IF r \in hasfn THEN [notified EXCEPT ![r] = @ + 1] ELSE notified
      BY <1>6 DEF Ended, CallResultFn
    <2>3. \/ err = "done" /\ UNCHANGED <<xmitcounter, sendFailed>>
          \/ /\ err = "timeout" /\ xmitcounter[r] >= MAX_RETRANSMIT
             /\ UNCHANGED <<xmitcounter, sendFailed>>
          \/ /\ xmitcounter[r] < MAX_RETRANSMIT
             /\ xmitcounter' = [xmitcounter EXCEPT ![r] = @ + 1]
             /\ sendFailed' = sendFailed \cup {r}
      BY <1>6 DEF Ended
    <2>4. Unsent'
      BY <1>1, <1>2, <2>1, <2>2, <2>3 DEF Ledger, Unsent
    <2>5. Waiting'
      BY <1>1, <1>2, <1>6, <2>1, <2>2 DEF Ledger, Waiting, WaitSet
    <2>6. Counters'
      BY <1>1, <1>2, <2>1, <2>2, <2>3 DEF Ledger, Counters, WaitSet
    <2>7. OneResult'
      BY <1>2, <1>6, <2>1, <2>2 DEF Ledger, OneResult
    <2>8. TimeoutMeansExhausted'
      BY <1>1, <1>2, <2>1, <2>2, <2>3 DEF Ledger, Counters, TimeoutMeansExhausted
    <2>. QED  BY <2>4, <2>5, <2>6, <2>7, <2>8 DEF Ledger
  <1>. QED  BY <1>3, <1>4, <1>5, <1>6 DEF Event

-----------------------------------------------------------------------------
LEMMA EvidenceInit == Init => Evidence
  BY DEF Init, Evidence, DoneMeansReceived

LEMMA EvidenceNext == Types /\ Ledger /\ Evidence /\ Event => Evidence'
  <1>. SUFFICES ASSUME Types, Ledger, Evidence, Event PROVE Evidence'
    OBVIOUS
  <1>1. /\ net \subseteq Req /\ received \subseteq Req
        /\ sent \in [Req -> Nat] /\ msgid \in [Req -> MsgId] /\ outcome \in [Req -> Outcome]
    BY DEF Types
  <1>2. CASE Quiet
    <2>1. /\ UNCHANGED <<sent, msgid, outcome>> /\ net' \subseteq net /\ received \subseteq received'
          /\ \A id \in acks' : id \in acks \/ \E r \in received' : id = msgid[r]
      BY <1>2 DEF Quiet, entries, history
    <2>. QED  BY <2>1 DEF Evidence, DoneMeansReceived
  <1>3. ASSUME NEW r \in Req, Submitted(r) PROVE Evidence'
    <2>1. r \notin net /\ r \notin received
      <3>1. r > nsent
        BY <1>3, MaxReqAssumption DEF Submitted, Types
      <3>. QED  BY <3>1 DEF Ledger, Unsent
    <2>2. \A q \in received : msgid'[q] = msgid[q]
      BY <1>1, <1>3, <2>1 DEF Submitted
    <2>3. \A q \in Req : msgid'[q] = msgid[q] \/ q = r
      BY <1>1, <1>3 DEF Submitted
    <2>4. \A q \in Req : outcome'[q] = "done" => outcome[q] = "done" /\ q # r
      <3>1. outcome[r] = "none"
        <4>1. r > nsent
          BY <1>3, MaxReqAssumption DEF Submitted, Types
        <4>. QED  BY <4>1 DEF Ledger, Unsent
      <3>2. \/ outcome' = outcome
            \/ \E err \in SendError : outcome' = [outcome EXCEPT ![r] = err]
        BY <1>3 DEF Submitted, CallResultFn
      <3>. QED  BY <1>1, <3>1, <3>2 DEF SendError
    <2>5. \A q \in net' : sent'[q] > 0
      <3>1. \/ sent' = [sent EXCEPT ![r] = @ + 1] /\ net' = net \cup {r}
            \/ sent' = sent /\ net' = net
        BY <1>3 DEF Submitted
      <3>. QED  BY <1>1, <3>1 DEF Evidence
    <2>6. received' = received /\ acks' = acks
      BY <1>3 DEF Submitted
    <2>7. \A id \in acks' : \E q \in received' : msgid'[q] = id
      BY <2>2, <2>6 DEF Evidence
    <2>8. DoneMeansReceived'
      BY <2>2, <2>3, <2>4, <2>6 DEF Evidence, DoneMeansReceived
    <2>. QED  BY <2>5, <2>7, <2>8 DEF Evidence
  <1>4. ASSUME NEW r \in WaitSet, Copied(r) PROVE Evidence'
    <2>1. r \in Req
      BY DEF WaitSet, Types
    <2>. QED  BY <1>1, <1>4, <2>1 DEF Copied, Evidence, DoneMeansReceived
  <1>5. ASSUME NEW r \in WaitSet, NEW err \in Outcome \ {"none"}, Ended(r, err) PROVE Evidence'
    <2>1. UNCHANGED <<msgid, received, net, sent>> /\ acks' \subseteq acks
      BY <1>5 DEF Ended
    <2>2. outcome' = [outcome EXCEPT ![r] = err] /\ (err = "done" => msgid[r] \in acks)
      BY <1>5 DEF Ended, CallResultFn, SendError
    <2>3. \A q \in Req : outcome'[q] = "done" => outcome[q] = "done" \/ msgid[q] \in acks
      BY <1>1, <2>2
    <2>. QED  BY <2>1, <2>3 DEF Evidence, DoneMeansReceived
  <1>. QED  BY <1>2, <1>3, <1>4, <1>5 DEF Event

-----------------------------------------------------------------------------
(* The theorems.                                                           *)

Layers == Types /\ Frames /\ Ledger /\ Evidence

LEMMA LayersHold == Spec => []Layers
  <1>1. Init => Layers
    BY TypesInit, FramesInit, LedgerInit, EvidenceInit DEF Layers
  <1>2. Layers /\ [Next]_vars => Layers'
    BY TypesNext, FramesNext, StepEvent, LedgerNext, EvidenceNext DEF Layers
  <1>. QED  BY <1>1, <1>2, PTL DEF Spec

\* Type correctness, with the bounds on the counters: no request is transmitted more
\* than MAX_RETRANSMIT times and no result function is called twice.
THEOREM TypeCorrect == Spec => []TypeOK
  <1>1. Types /\ Ledger => TypeOK
    <2>1. ASSUME Types, Ledger PROVE
            /\ xmitcounter \in [Req -> 0..MAX_RETRANSMIT]
            /\ sent \in [Req -> 0..MAX_RETRANSMIT]
      BY <2>1, MaxRetransmitAssumption DEF Types, Ledger, Counters
    <2>2. ASSUME Types, Ledger PROVE notified \in [Req -> 0..1]
      BY <2>2 DEF Types, Ledger, OneResult
    <2>. QED  BY <2>1, <2>2 DEF Types, TypeOK
  <1>. QED  BY <1>1, LayersHold, PTL DEF Layers

\* A request that was sent waits in the queue without an outcome or has one and has
\* left it: check_queues, recv and send_con_msg never lose a request and never keep one.
THEOREM PendingIffQueuedHolds == Spec => []PendingIffQueued
  <1>1. Types /\ Ledger => PendingIffQueued
    <2>. SUFFICES ASSUME Types, Ledger, NEW r \in Req
                  PROVE  (r \in confirmq \ Reporting) <=> (r <= nsent /\ outcome[r] = "none")
      BY DEF PendingIffQueued
    <2>1. nsent \in Int /\ r \in Int
      BY MaxReqAssumption DEF Types, Req
    <2>. QED  BY <2>1 DEF Ledger, Waiting, Unsent
  <1>. QED  BY <1>1, LayersHold, PTL DEF Layers

\* The result function of a request is called once, when the request ends.
THEOREM OneResultHolds == Spec => []OneResult
  <1>1. Ledger => OneResult
    BY DEF Ledger
  <1>. QED  BY <1>1, LayersHold, PTL DEF Layers

\* MN_TIMEOUT comes after MAX_RETRANSMIT copies or a failed sendto, and xmitcounter
\* counts the copies of a waiting entry.
THEOREM TransmissionsCounted == Spec => [](TimeoutMeansExhausted /\ XmitCountsCopies)
  <1>1. Ledger => TimeoutMeansExhausted /\ XmitCountsCopies
    BY DEF Ledger, Counters, XmitCountsCopies
  <1>. QED  BY <1>1, LayersHold, PTL DEF Layers

\* MN_DONE is reported only when the peer received a message with the request's id.
THEOREM DoneMeansReceivedHolds == Spec => []DoneMeansReceived
  <1>1. Evidence => DoneMeansReceived
    BY DEF Evidence
  <1>. QED  BY <1>1, LayersHold, PTL DEF Layers

\* As long as the ids in use are distinct, MN_DONE means that this request arrived.
THEOREM DistinctIdsMeanReceived ==
  Spec => []((\A r, q \in 1..nsent : msgid[r] = msgid[q] => r = q)
               => \A r \in Req : outcome[r] = "done" => r \in received)
  <1>1. Types /\ Ledger /\ Evidence =>
          ((\A r, q \in 1..nsent : msgid[r] = msgid[q] => r = q)
             => \A r \in Req : outcome[r] = "done" => r \in received)
    <2>. SUFFICES ASSUME Types, Ledger, Evidence,
                         \A r, q \in 1..nsent : msgid[r] = msgid[q] => r = q,
                         NEW r \in Req, outcome[r] = "done"
                  PROVE  r \in received
      OBVIOUS
    <2>1. PICK q \in received : msgid[q] = msgid[r]
      BY DEF Evidence, DoneMeansReceived
    <2>2. q \in Req /\ nsent \in Int
      BY MaxReqAssumption DEF Types
    <2>3. ~(q > nsent) /\ ~(r > nsent)
      BY <2>2 DEF Ledger, Unsent
    <2>4. q \in 1..nsent /\ r \in 1..nsent
      BY <2>2, <2>3 DEF Req
    <2>. QED  BY <2>1, <2>4
  <1>. QED  BY <1>1, LayersHold, PTL DEF Layers

\* After its end a request is neither transmitted again nor given another outcome.
THEOREM SilentAfterResultHolds == Spec => SilentAfterResult
  <1>1. Layers /\ [Next]_vars =>
          [\A r \in Req : outcome[r] # "none" => sent'[r] = sent[r] /\ outcome'[r] = outcome[r]]_vars
    <2>. SUFFICES ASSUME Types, Ledger, Event, NEW r \in Req, outcome[r] # "none"
                  PROVE  sent'[r] = sent[r] /\ outcome'[r] = outcome[r]
      BY StepEvent DEF Layers
    <2>1. /\ sent \in [Req -> Nat] /\ outcome \in [Req -> Outcome]
      BY DEF Types
    <2>2. CASE Quiet
      BY <2>2 DEF Quiet, history
    <2>3. ASSUME NEW q \in Req, Submitted(q) PROVE sent'[r] = sent[r] /\ outcome'[r] = outcome[r]
      <3>1. q # r
        <4>1. q > nsent
          BY <2>3, MaxReqAssumption DEF Submitted, Types
        <4>. QED  BY <4>1 DEF Ledger, Unsent
      <3>. QED  BY <2>1, <2>3, <3>1 DEF Submitted, CallResultFn
    <2>4. ASSUME NEW q \in WaitSet, Copied(q) \/ \E err \in Outcome : Ended(q, err)
          PROVE  sent'[r] = sent[r] /\ outcome'[r] = outcome[r]
      <3>1. q # r /\ q \in Req
        BY DEF Ledger, Waiting, WaitSet, Types
      <3>. QED  BY <2>1, <2>4, <3>1 DEF Copied, Ended, CallResultFn
    <2>. QED  BY <2>2, <2>3, <2>4 DEF Event
  <1>. QED  BY <1>1, LayersHold, PTL DEF Spec, SilentAfterResult

-----------------------------------------------------------------------------
(* The endpoint implements Confirmable.                                    *)

status == [r \in Req |-> Status(r)]

LEMMA StatusInit == Init => Promise!Init
  <1>. SUFFICES ASSUME Init PROVE Promise!Init
    OBVIOUS
  <1>1. \A r \in Req : r > nsent
    BY DEF Init, Req
  <1>2. [r \in Req |-> Status(r)] = [r \in Req |-> "idle"]
    BY <1>1 DEF Status
  <1>. QED  BY <1>2 DEF Init, Promise!Init

\* A change of one request's status is a change of the function at that request.
LEMMA StatusChange ==
  ASSUME NEW r \in Req, \A q \in Req \ {r} : Status(q)' = Status(q)
  PROVE  status' = [status EXCEPT ![r] = Status(r)']
  <1>1. \A q \in Req : status'[q] = IF q = r THEN Status(r)' ELSE Status(q)
    BY DEF status
  <1>. QED  BY <1>1 DEF status

LEMMA EventImplements ==
  Types /\ Types' /\ Ledger /\ Evidence /\ Event => [Promise!Next]_(Promise!vars)
  <1>. SUFFICES ASSUME Types, Types', Ledger, Evidence, Event
                PROVE  [Promise!Next]_(Promise!vars)
    OBVIOUS
  <1>1. /\ nsent \in Int /\ \A r \in Req : r \in Int
        /\ sent \in [Req -> Nat] /\ outcome \in [Req -> Outcome] /\ WaitSet \subseteq Req
    <2>1. nsent \in 0..MaxReq /\ confirmq \subseteq Req
      BY DEF Types
    <2>2. sent \in [Req -> Nat] /\ outcome \in [Req -> Outcome] /\ \A r \in Req : r \in Int
      BY DEF Types, Req
    <2>. QED  BY <2>1, <2>2, MaxReqAssumption DEF WaitSet
  <1>2. CASE Quiet
    <2>1. UNCHANGED <<nsent, msgid, sent, sendFailed, outcome>>
      BY <1>2 DEF Quiet, entries, history
    <2>2. status' = status
      BY <2>1 DEF status, Status
    <2>3. ASSUME NEW r \in net, received' = received \cup {r} PROVE Promise!Receive(r)
      BY <2>1, <2>2, <2>3 DEF Promise!Receive, Evidence, status
    <2>4. ASSUME received' = received PROVE UNCHANGED Promise!vars
      BY <2>1, <2>2, <2>4 DEF Promise!vars, status
    <2>. QED  BY <1>2, <2>3, <2>4 DEF Quiet, Promise!Next, Types
  <1>3. ASSUME NEW r \in Req, Submitted(r) PROVE Promise!Submit(r)
    <2>1. r > nsent /\ nsent' = r /\ r = nsent + 1
      BY <1>1, <1>3 DEF Submitted
    <2>2. Status(r) = "idle" /\ r \notin sendFailed /\ sent[r] = 0 /\ outcome[r] = "none"
      BY <2>1 DEF Status, Ledger, Unsent
    <2>3. \/ /\ sent' = [sent EXCEPT ![r] = @ + 1]
             /\ UNCHANGED <<sendFailed, outcome>>
          \/ /\ sendFailed' = sendFailed \cup {r}
             /\ UNCHANGED sent
             /\ \E err \in SendError : outcome' = [outcome EXCEPT ![r] = err]
      BY <1>3 DEF Submitted, CallResultFn
    <2>4. \A q \in Req \ {r} : Status(q)' = Status(q)
      BY <1>1, <2>1, <2>3 DEF Status
    <2>5. status' = [status EXCEPT ![r] = Status(r)']
      BY <2>4, StatusChange
    <2>6. received' = received /\ \E i \in MsgId : msgid' = [msgid EXCEPT ![r] = i]
      BY <1>3 DEF Submitted
    <2>7. CASE sent' = [sent EXCEPT ![r] = @ + 1] /\ UNCHANGED <<sendFailed, outcome>>
      <3>1. Status(r)' = "pending" /\ sent' = [sent EXCEPT ![r] = 1]
        BY <1>1, <2>1, <2>2, <2>7 DEF Status
      <3>. QED  BY <2>2, <2>5, <2>6, <3>1 DEF Promise!Submit, Promise!Ends, status
    <2>8. ASSUME NEW err \in SendError, outcome' = [outcome EXCEPT ![r] = err],
                 sendFailed' = sendFailed \cup {r}, UNCHANGED sent
          PROVE  Promise!Submit(r)
      <3>1. Status(r)' = "aborted"
        BY <1>1, <2>1, <2>8 DEF Status, SendError
      <3>. QED  BY <2>2, <2>5, <2>6, <2>8, <3>1 DEF Promise!Submit, Promise!Ends, status
    <2>. QED  BY <2>3, <2>7, <2>8
  <1>4. ASSUME NEW r \in WaitSet
        PROVE  /\ r \in Req /\ r <= nsent /\ outcome[r] = "none" /\ Status(r) = "pending"
               /\ xmitcounter[r] = sent[r] /\ r \notin sendFailed
               /\ sent[r] <= MAX_RETRANSMIT
    BY <1>1 DEF Ledger, Unsent, Waiting, Counters, WaitSet, Status
  <1>5. ASSUME NEW r \in WaitSet, Copied(r) PROVE Promise!Transmit(r)
    <2>1. UNCHANGED <<nsent, msgid, sendFailed, outcome, received>>
      BY <1>5 DEF Copied
    <2>2. status' = status
      BY <2>1 DEF status, Status
    <2>. QED  BY <1>4, <1>5, <2>1, <2>2 DEF Copied, Promise!Transmit, status
  <1>6. ASSUME NEW r \in WaitSet, NEW err \in Outcome \ {"none"}, Ended(r, err)
        PROVE  Promise!Acknowledge(r) \/ Promise!Exhaust(r) \/ Promise!Abort(r)
    <2>1. /\ UNCHANGED <<nsent, msgid, sent, received>>
          /\ outcome' = [outcome EXCEPT ![r] = err]
      BY <1>6 DEF Ended, CallResultFn
    <2>2. \A q \in Req \ {r} : Status(q)' = Status(q)
      BY <1>1, <1>6, <2>1 DEF Ended, Status
    <2>3. status' = [status EXCEPT ![r] = Status(r)']
      BY <1>4, <2>2, StatusChange
    <2>4. outcome'[r] = err /\ ~(r > nsent')
      BY <1>1, <1>4, <2>1
    <2>5. CASE err = "done" /\ msgid[r] \in acks
      <3>1. Status(r)' = "acked"
        BY <2>4, <2>5 DEF Status
      <3>. QED  BY <1>4, <2>1, <2>3, <2>5, <3>1
                DEF Evidence, Promise!Acknowledge, Promise!Ends, status
    <2>6. CASE err = "timeout" /\ xmitcounter[r] >= MAX_RETRANSMIT /\ UNCHANGED sendFailed
      <3>1. Status(r)' = "exhausted"
        BY <1>4, <2>4, <2>6 DEF Status
      <3>2. sent[r] = MAX_RETRANSMIT
        BY <1>1, <1>4, <2>6, MaxRetransmitAssumption
      <3>. QED  BY <1>4, <2>1, <2>3, <3>1, <3>2 DEF Promise!Exhaust, Promise!Ends, status
    <2>7. CASE /\ err \in SendError /\ xmitcounter[r] < MAX_RETRANSMIT
               /\ sendFailed' = sendFailed \cup {r}
      <3>1. Status(r)' = "aborted"
        BY <2>4, <2>7 DEF Status, SendError
      <3>. QED  BY <1>4, <2>1, <2>3, <2>7, <3>1 DEF Promise!Abort, Promise!Ends, status
    <2>. QED  BY <1>6, <2>5, <2>6, <2>7 DEF Ended
  <1>. QED  BY <1>1, <1>2, <1>3, <1>5, <1>6 DEF Event, Promise!Next

\* The queue, the loop, the timers and the callbacks together keep the promise stated
\* by Confirmable.
THEOREM EndpointImplementsConfirmable == Spec => ImplementsConfirmable
  <1>1. Layers /\ Layers' /\ [Next]_vars => [Promise!Next]_(Promise!vars)
    BY StepEvent, EventImplements DEF Layers
  <1>. QED  BY <1>1, LayersHold, StatusInit, PTL DEF Spec, ImplementsConfirmable, Promise!Spec
=============================================================================
