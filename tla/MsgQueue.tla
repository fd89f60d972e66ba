------------------------------ MODULE MsgQueue ------------------------------
(***************************************************************************)
(* What the confirm queue promises: entries stay in the order in which     *)
(* they were added, a message id finds the oldest entry that has it, and a *)
(* walk goes through the entries in that order whatever is added or        *)
(* removed behind it.                                                      *)
(***************************************************************************)
EXTENDS Integers, Sequences

CONSTANTS Node, Null, MsgId

VARIABLES
  q,        \* the entries, oldest first
  id,       \* message id of an entry
  due,      \* entries whose timeout has run out
  taken,    \* entries handed to the caller of mc_buffer_queue_timeout
  at,       \* where a walk stands, or Null
  freeing   \* the queue is being emptied

vars == <<q, id, due, taken, at, freeing>>

Init ==
  /\ q = << >>
  /\ id = [n \in Node |-> 0]
  /\ due = {} /\ taken = {}
  /\ at = Null
  /\ freeing = FALSE

Has(n) == \E k \in 1..Len(q) : q[k] = n
Oldest(n, S) == n \in S /\ \E k \in 1..Len(q) : q[k] = n /\ \A j \in 1..(k - 1) : q[j] \notin S
Follows(n, m) == \E k \in 1..Len(q) :
                   q[k] = n /\ m = IF k = Len(q) THEN Null ELSE q[k + 1]
Cut(n) == \E k \in 1..Len(q) : q[k] = n /\ q' = SubSeq(q, 1, k - 1) \o SubSeq(q, k + 1, Len(q))

Add(n) ==
  /\ ~freeing /\ ~Has(n) /\ n \notin taken
  /\ q' = Append(q, n)
  /\ \E i \in MsgId : id' = [id EXCEPT ![n] = i]
  /\ UNCHANGED <<due, taken, at, freeing>>

Delete(n) ==
  /\ Cut(n) /\ due' = due \ {n} /\ id' = [id EXCEPT ![n] = 0]
  /\ UNCHANGED taken

Remove(n) ==
  /\ ~freeing /\ n # at
  /\ \E i \in MsgId : Oldest(n, {m \in Node : id[m] = i})
  /\ Delete(n) /\ UNCHANGED <<at, freeing>>

Take(n) ==
  /\ ~freeing /\ at = Null
  /\ Oldest(n, due)
  /\ Cut(n) /\ due' = due \ {n} /\ taken' = taken \cup {n}
  /\ UNCHANGED <<id, at, freeing>>

Walk ==
  /\ ~freeing /\ UNCHANGED <<q, id, due, taken, freeing>>
  /\ \/ at = Null /\ q # << >> /\ at' = Head(q)
     \/ Follows(at, at')

RemoveAt == ~freeing /\ Follows(at, at') /\ Delete(at) /\ UNCHANGED freeing

Expire(n) == Has(n) /\ due' = due \cup {n} /\ UNCHANGED <<q, id, taken, at, freeing>>

Empty ==
  \/ ~freeing /\ at = Null /\ freeing' = TRUE /\ UNCHANGED <<q, id, due, taken, at>>
  \/ freeing /\ q # << >> /\ Delete(Head(q)) /\ UNCHANGED <<at, freeing>>
  \/ freeing /\ q = << >> /\ freeing' = FALSE /\ UNCHANGED <<q, id, due, taken, at>>

Next ==
  \/ \E n \in Node : Add(n) \/ Remove(n) \/ Take(n) \/ Expire(n)
  \/ Walk \/ RemoveAt \/ Empty

Spec == Init /\ [][Next]_vars
=============================================================================
