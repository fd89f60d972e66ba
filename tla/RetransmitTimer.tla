--------------------------- MODULE RetransmitTimer ---------------------------
(***************************************************************************)
(* The clock of one entry of the confirm queue: its timeout, drawn by      *)
(* mk_timeout and doubled by mc_endpt_udp_check_queues, against the passes *)
(* of the loop that look at it.  Endpoint keeps only the order of events;  *)
(* this module says when they happen.  Time is counted in ticks, sendto    *)
(* accepts every copy, and the wall clock the code reads is not set back   *)
(* or forward.                                                             *)
(***************************************************************************)
EXTENDS Integers, Sequences

CONSTANTS
  AckMin, AckMax,   \* ACK_TIMEOUT and ACK_TIMEOUT * ACK_RANDOM_FACTOR in ticks
  MAX_RETRANSMIT,
  Pass              \* a pass over the queue begins at most this long after the last one

ASSUME AckAssumption == AckMin \in Nat \ {0} /\ AckMax \in Nat /\ AckMin <= AckMax
ASSUME MaxRetransmitAssumption == MAX_RETRANSMIT \in Nat \ {0}
ASSUME PassAssumption == Pass \in Nat \ {0}

VARIABLES
  now,           \* mn_gettime, 0 when the entry is made
  total, start,  \* entry->timeout
  xmitcounter,   \* entry->xmitcounter
  state,         \* "queued", "acked" or "timeout": what became of the entry
  ack,           \* history: the timeout that mk_timeout drew
  copies,        \* history: when the copies went out
  lastPass       \* history: when check_queues last looked at the entry

entry == <<total, start, xmitcounter, state>>
vars == <<now, entry, ack, copies, lastPass>>

\* mk_timeout, queue_entry_init and the first copy, sent by send_con_msg.
Init ==
  /\ now = 0 /\ start = 0
  /\ ack \in AckMin..AckMax /\ total = ack
  /\ xmitcounter = 1 /\ copies = <<0>>
  /\ state = "queued" /\ lastPass = 0

-----------------------------------------------------------------------------
\* Faulty variant: the time left is not cut off at 0, so that a pass has to hit it.
TimeoutGetSigned == total - now + start

\* mn_timeout_get of a timeout with block < 0.
TimeoutGet == IF total - now + start > 0 THEN total - now + start ELSE 0

\* Time.
Tick ==
  /\ state = "queued" /\ now < lastPass + Pass
  /\ now' = now + 1
  /\ UNCHANGED <<entry, ack, copies, lastPass>>

\* A pass of check_queues that finds the entry not yet due.
NotDue ==
  /\ state = "queued" /\ TimeoutGet # 0
  /\ lastPass' = now
  /\ UNCHANGED <<now, entry, ack, copies>>

\* Faulty variant: the timeout is not marked again.
RestartUnmarked ==
  /\ total' = 2 * total
  /\ lastPass' = now
  /\ UNCHANGED <<now, ack, start>>

\* Faulty variant: the timeout is marked but not doubled.
RestartSame ==
  /\ start' = now
  /\ lastPass' = now
  /\ UNCHANGED <<now, ack, total>>

\* check_queues doubles the timeout and marks its start before it looks at the counter.
Restart ==
  /\ total' = 2 * total
  /\ start' = now
  /\ lastPass' = now
  /\ UNCHANGED <<now, ack>>

\* A pass that finds the entry due sends it again ...
Retransmit ==
  /\ state = "queued" /\ TimeoutGet = 0 /\ xmitcounter < MAX_RETRANSMIT
  /\ Restart
  /\ xmitcounter' = xmitcounter + 1
  /\ copies' = Append(copies, now)
  /\ UNCHANGED state

\* Faulty variant: gives up with the last copy just out.
GiveUpAtOnce ==
  /\ state = "queued" /\ xmitcounter >= MAX_RETRANSMIT
  /\ Restart
  /\ state' = "timeout"
  /\ UNCHANGED <<xmitcounter, copies>>

\* Faulty variant: the limit is off by one, so that an entry at it is left alone.
GiveUpBeyond ==
  /\ state = "queued" /\ TimeoutGet = 0 /\ xmitcounter > MAX_RETRANSMIT
  /\ Restart
  /\ state' = "timeout"
  /\ UNCHANGED <<xmitcounter, copies>>

\* ... or reports MN_TIMEOUT and drops it.
GiveUp ==
  /\ state = "queued" /\ TimeoutGet = 0 /\ xmitcounter >= MAX_RETRANSMIT
  /\ Restart
  /\ state' = "timeout"
  /\ UNCHANGED <<xmitcounter, copies>>

\* recv finds an acknowledgement of the entry.
Acknowledged ==
  /\ state = "queued"
  /\ state' = "acked"
  /\ UNCHANGED <<now, total, start, xmitcounter, ack, copies, lastPass>>

CheckPass == NotDue \/ Retransmit \/ GiveUp
Next == Tick \/ CheckPass \/ Acknowledged

Spec == Init /\ [][Next]_vars

\* The loop runs, so passes are made and time goes on between them.
FairSpec == Spec /\ WF_vars(Tick) /\ WF_vars(CheckPass)

-----------------------------------------------------------------------------
TypeOK ==
  /\ now \in Nat /\ start \in 0..now /\ lastPass \in 0..now
  /\ total \in Nat \ {0} /\ ack \in AckMin..AckMax
  /\ xmitcounter \in 1..MAX_RETRANSMIT
  /\ state \in {"queued", "acked", "timeout"}
  /\ copies \in Seq(0..now) /\ Len(copies) = xmitcounter

\* "Implements the exponential back off algorithm" (mc_endpt_udp.c:290): the wait before
\* the next copy doubles from a start between ACK_TIMEOUT and ACK_TIMEOUT *
\* ACK_RANDOM_FACTOR, and a copy is late by no more than a pass of the loop.
BackoffRespected ==
  \A k \in 2..Len(copies) :
    copies[k] - copies[k - 1] \in (ack * 2^(k - 2))..(ack * 2^(k - 2) + Pass)

\* MN_TIMEOUT comes after all the waits, the one after the last copy included, and not
\* much later: the time allowed is the header's MAX_TRANSMIT_SPAN, ACK_TIMEOUT *
\* (2^MAX_RETRANSMIT - 1) * ACK_RANDOM_FACTOR, and what the passes were late.
GivesUpInTime ==
  state = "timeout" =>
    now \in (AckMin * (2^MAX_RETRANSMIT - 1))..(AckMax * (2^MAX_RETRANSMIT - 1) + MAX_RETRANSMIT * Pass)

\* While the entry waits, the copies so far took the waits so far, which add up to the
\* running timeout less the first one; each pass was late by Pass at most.
SpanFollowsTimeout ==
  state = "queued" => start \in (total - ack)..(total - ack + (xmitcounter - 1) * Pass)

\* No wait is overrun by more than a pass.
NeverOverdue == state = "queued" => now <= start + total + Pass

\* An entry leaves the queue: with an answer or with MN_TIMEOUT.
EntryEnds == <>(state # "queued")
=============================================================================
