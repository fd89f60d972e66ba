----------------------------- MODULE Confirmable -----------------------------
(***************************************************************************)
(* What an endpoint promises of confirmable messages, without its queue,   *)
(* its loop or its timers: each message that is submitted is transmitted   *)
(* at most MAX_RETRANSMIT times while it is pending, and it leaves the     *)
(* pending state once and for good: acknowledged, when the peer has got a  *)
(* message with its id; exhausted, when all transmissions were made; or    *)
(* aborted, when the socket refused one.                                   *)
(***************************************************************************)
EXTENDS Integers

CONSTANTS Req, MsgId, MAX_RETRANSMIT

VARIABLES status, id, copies, received

vars == <<status, id, copies, received>>

Init ==
  /\ status = [r \in Req |-> "idle"]
  /\ id = [r \in Req |-> 0]
  /\ copies = [r \in Req |-> 0]
  /\ received = {}

Ends(r, how) == status' = [status EXCEPT ![r] = how]

Submit(r) ==
  /\ status[r] = "idle"
  /\ \E i \in MsgId : id' = [id EXCEPT ![r] = i]
  /\ \/ Ends(r, "pending") /\ copies' = [copies EXCEPT ![r] = 1]
     \/ Ends(r, "aborted") /\ UNCHANGED copies
  /\ UNCHANGED received

Transmit(r) ==
  /\ status[r] = "pending" /\ copies[r] < MAX_RETRANSMIT
  /\ copies' = [copies EXCEPT ![r] = @ + 1]
  /\ UNCHANGED <<status, id, received>>

Receive(r) ==
  /\ copies[r] > 0
  /\ received' = received \cup {r}
  /\ UNCHANGED <<status, id, copies>>

Acknowledge(r) ==
  /\ status[r] = "pending"
  /\ \E q \in received : id[q] = id[r]
  /\ Ends(r, "acked")
  /\ UNCHANGED <<id, copies, received>>

Exhaust(r) ==
  /\ status[r] = "pending" /\ copies[r] = MAX_RETRANSMIT
  /\ Ends(r, "exhausted")
  /\ UNCHANGED <<id, copies, received>>

Abort(r) ==
  /\ status[r] = "pending" /\ copies[r] < MAX_RETRANSMIT
  /\ Ends(r, "aborted")
  /\ UNCHANGED <<id, copies, received>>

Next ==
  \E r \in Req :
    Submit(r) \/ Transmit(r) \/ Receive(r) \/ Acknowledge(r) \/ Exhaust(r) \/ Abort(r)

Spec == Init /\ [][Next]_vars
=============================================================================
