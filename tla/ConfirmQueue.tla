---------------------------- MODULE ConfirmQueue ----------------------------
(***************************************************************************)
(* The confirm queue of an endpoint (mcoap/mc_buffer_queue.c) at the level *)
(* of its heap cells: a doubly linked list of entries with a first and a   *)
(* last pointer, and the walk that mc_endpt_udp_check_queues makes over it *)
(* while its callbacks add and remove other entries.                       *)
(***************************************************************************)
EXTENDS Naturals, Sequences, FiniteSets

CONSTANTS
  Node,    \* heap cells: bound on the entries allocated at the same time
  Null,
  MsgId

ASSUME NodeAssumption == IsFiniteSet(Node)
ASSUME NullAssumption == Null \notin Node
ASSUME MsgIdAssumption == MsgId \subseteq Nat \ {0}

VARIABLES
  first, last,   \* queue->first, queue->last
  next, prev,    \* entry->next, entry->prev
  msgid,         \* entry->msgid
  live,          \* cells that are allocated
  detached,      \* entries mc_buffer_queue_timeout has handed to its caller
  expired,       \* linked entries with mn_timeout_get = 0
  current,       \* the walk's `current`, Null before and after
  freeing,       \* mc_buffer_queue_free is at work
  todo           \* history: entries linked since the walk began that it has not left

list == <<first, last, next, prev>>
vars == <<list, msgid, live, detached, expired, current, freeing, todo>>

Pointer == Node \cup {Null}

Init ==
  /\ first = Null /\ last = Null
  /\ next = [n \in Node |-> Null] /\ prev = [n \in Node |-> Null]
  /\ msgid = [n \in Node |-> 0]
  /\ live = {} /\ detached = {} /\ expired = {}
  /\ current = Null /\ freeing = FALSE /\ todo = {}

Linked == live \ detached

-----------------------------------------------------------------------------
\* mc_buffer_queue_add: a new cell, behind the last one.
Add(n, id) ==
  /\ ~freeing
  /\ n \notin live /\ live' = live \cup {n}
  /\ msgid' = [msgid EXCEPT ![n] = id]
  /\ last' = n
  /\ \/ /\ first = Null
        /\ first' = n
        /\ next' = [next EXCEPT ![n] = Null]
        /\ prev' = [prev EXCEPT ![n] = Null]
     \/ /\ first # Null
        /\ prev' = [prev EXCEPT ![n] = last]
        /\ next' = [next EXCEPT ![n] = Null, ![last] = n]
        /\ UNCHANGED first
  /\ UNCHANGED <<detached, expired, current, freeing, todo>>

\* Faulty variant: the entry behind keeps its pointer to the one removed.
UnlinkForward(n) ==
  /\ first' = IF prev[n] = Null THEN next[n] ELSE first
  /\ last' = IF next[n] = Null THEN prev[n] ELSE last
  /\ next' = [m \in Node |-> IF m = n THEN Null ELSE IF m = prev[n] THEN next[n] ELSE next[m]]
  /\ prev' = [prev EXCEPT ![n] = Null]
  /\ expired' = expired \ {n} /\ todo' = todo \ {n}

\* Faulty variant: last is not moved back.
UnlinkKeepsLast(n) ==
  /\ first' = IF prev[n] = Null THEN next[n] ELSE first
  /\ next' = [m \in Node |-> IF m = n THEN Null ELSE IF m = prev[n] THEN next[n] ELSE next[m]]
  /\ prev' = [m \in Node |-> IF m = n THEN Null ELSE IF m = next[n] THEN prev[n] ELSE prev[m]]
  /\ expired' = expired \ {n} /\ todo' = todo \ {n}
  /\ UNCHANGED last

\* remove_entry: close the gap and clear the entry's own pointers.
Unlink(n) ==
  /\ first' = IF prev[n] = Null THEN next[n] ELSE first
  /\ last' = IF next[n] = Null THEN prev[n] ELSE last
  /\ next' = [m \in Node |-> IF m = n THEN Null ELSE IF m = prev[n] THEN next[n] ELSE next[m]]
  /\ prev' = [m \in Node |-> IF m = n THEN Null ELSE IF m = next[n] THEN prev[n] ELSE prev[m]]
  /\ expired' = expired \ {n} /\ todo' = todo \ {n}

\* Faulty variant: the cell is released while it is still linked.
RemoveEntryLinked(n) ==
  /\ live' = live \ {n}
  /\ msgid' = [msgid EXCEPT ![n] = 0]
  /\ UNCHANGED <<list, expired, todo, detached, freeing>>

\* mc_buffer_queue_remove_entry, but for its result (the entry behind n): unlink,
\* clear the fields (queue_entry_deinit) and free.
RemoveEntry(n) ==
  /\ Unlink(n)
  /\ live' = live \ {n}
  /\ msgid' = [msgid EXCEPT ![n] = 0]
  /\ UNCHANGED <<detached, freeing>>

\* The entries in the order in which link leads from one to the next: at most one more
\* than there are cells, so that a cycle shows.
ChainFrom(start, link) ==
  LET size == Cardinality(Node)
      step[k \in 0..size] ==
        IF k = 0 THEN start ELSE IF step[k - 1] = Null THEN Null ELSE link[step[k - 1]]
  IN  [k \in 1..Cardinality({j \in 0..size : step[j] # Null}) |-> step[k - 1]]

Chain == ChainFrom(first, next)

\* Faulty variant: the search does not stop at the first entry that matches.
IsSome(n, S) ==
  /\ n \in S
  /\ \E k \in 1..Cardinality(Node) : \E way \in [1..k -> Node] :
       /\ way[1] = first /\ way[k] = n
       /\ \A i \in 1..(k - 1) : next[way[i]] = way[i + 1]

\* The search loops: n is the first entry in S on the way from first along next.
IsFirst(n, S) ==
  /\ n \in S
  /\ \E k \in 1..Cardinality(Node) : \E way \in [1..k -> Node] :
       /\ way[1] = first /\ way[k] = n
       /\ \A i \in 1..(k - 1) : way[i] \notin S /\ next[way[i]] = way[i + 1]

\* mc_buffer_queue_remove, and recv's removal of an acknowledged entry.  Nobody removes
\* the entry a walk stands on but the walk itself (NoDanglingEntry of Endpoint).
Remove(id) ==
  /\ ~freeing
  /\ \E n \in Node \ {current} : IsFirst(n, {m \in Node : msgid[m] = id}) /\ RemoveEntry(n)
  /\ UNCHANGED current

\* mc_buffer_queue_timeout: unlink the first due entry and give it to the caller.
Timeout ==
  /\ ~freeing /\ current = Null
  /\ \E n \in Node : IsFirst(n, expired) /\ Unlink(n) /\ detached' = detached \cup {n}
  /\ UNCHANGED <<msgid, live, current, freeing>>

-----------------------------------------------------------------------------
\* check_queues: start at the first entry ...
StartWalk ==
  /\ ~freeing /\ current = Null /\ first # Null
  /\ current' = first
  /\ todo' = Linked
  /\ UNCHANGED <<list, msgid, live, detached, expired, freeing>>

\* ... leave an entry for the next one ...
StepWalk ==
  /\ current # Null
  /\ current' = next[current]
  /\ todo' = todo \ {current}
  /\ UNCHANGED <<list, msgid, live, detached, expired, freeing>>

\* Faulty variant: the next entry is read after the pointers have been cleared.
RemoveCurrentLate ==
  /\ current # Null
  /\ RemoveEntry(current)
  /\ current' = next'[current]

\* ... or remove it and go on with what mc_buffer_queue_remove_entry returns.
RemoveCurrent ==
  /\ current # Null
  /\ RemoveEntry(current)
  /\ current' = next[current]

\* Time.
Expire(n) ==
  /\ n \in Linked
  /\ expired' = expired \cup {n}
  /\ UNCHANGED <<list, msgid, live, detached, current, freeing, todo>>

\* mc_buffer_queue_free: while there is a first entry, remove it.
StartFree ==
  /\ ~freeing /\ current = Null
  /\ freeing' = TRUE
  /\ UNCHANGED <<list, msgid, live, detached, expired, current, todo>>

\* Faulty variant: the entry is unlinked but its cell is not released.
FreeFirstLeaks ==
  /\ freeing /\ first # Null
  /\ Unlink(first)
  /\ UNCHANGED <<current, msgid, live, detached, freeing>>

FreeFirst ==
  /\ freeing /\ first # Null
  /\ RemoveEntry(first)
  /\ UNCHANGED current

EndFree ==
  /\ freeing /\ first = Null
  /\ freeing' = FALSE
  /\ UNCHANGED <<list, msgid, live, detached, expired, current, todo>>

Walk == StartWalk \/ StepWalk \/ RemoveCurrent
Free == FreeFirst \/ EndFree

Next ==
  \/ \E n \in Node, id \in MsgId : Add(n, id)
  \/ \E id \in MsgId : Remove(id)
  \/ Timeout \/ Walk \/ StartFree \/ Free
  \/ \E n \in Node : Expire(n)

Spec == Init /\ [][Next]_vars

\* A call of mc_buffer_queue_free runs to its end.
FairSpec == Spec /\ WF_vars(Free)

-----------------------------------------------------------------------------
TypeOK ==
  /\ first \in Pointer /\ last \in Pointer
  /\ next \in [Node -> Pointer] /\ prev \in [Node -> Pointer]
  /\ msgid \in [Node -> MsgId \cup {0}]
  /\ live \subseteq Node /\ detached \subseteq live /\ expired \subseteq Linked
  /\ current \in Pointer /\ freeing \in BOOLEAN /\ todo \subseteq Linked

\* The two directions agree, neighbours are linked entries (never a freed or detached
\* cell), and first and last are the ends.
LinksAgree ==
  /\ first = Null <=> Linked = {}
  /\ last = Null <=> Linked = {}
  /\ \A n \in Linked :
       /\ IF next[n] = Null THEN last = n ELSE next[n] \in Linked /\ prev[next[n]] = n
       /\ IF prev[n] = Null THEN first = n ELSE prev[n] \in Linked /\ next[prev[n]] = n
  /\ first # Null => first \in Linked /\ prev[first] = Null
  /\ last # Null => last \in Linked /\ next[last] = Null

\* Every allocated entry that was not handed out is reached from first, once: none
\* leaks, none is counted twice by mc_buffer_queue_count, the list has no cycle.
AllReachable == Len(Chain) = Cardinality(Linked) /\ {Chain[k] : k \in 1..Len(Chain)} = Linked

\* An entry handed to the caller leads nowhere ("Clear prev, next pointers so the
\* caller can't use them", mc_buffer_queue.c:157).
DetachedIsAlone == \A n \in detached : next[n] = Null /\ prev[n] = Null

\* The walk stands on an entry of the queue, and when it is over it has visited every
\* entry that was there when it began and has not been removed since.
WalkMissesNothing ==
  /\ current # Null => current \in Linked
  /\ current = Null => todo = {}

\* mc_buffer_queue_free empties the queue.
FreeEmpties == freeing ~> (first = Null /\ Linked = {})

\* The list implements the queue.
Queue == INSTANCE MsgQueue WITH
  q <- Chain, id <- msgid, due <- expired, taken <- detached, at <- current

ImplementsMsgQueue == Queue!Spec
=============================================================================
