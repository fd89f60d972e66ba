------------------------- MODULE ConfirmQueueProofs -------------------------
(***************************************************************************)
(* The pointers of ConfirmQueue always spell one sequence of entries, for  *)
(* any number of heap cells.  The inductive invariant names that sequence  *)
(* (f, of length len) and the place k where the walk stands in it.         *)
(***************************************************************************)
EXTENDS ConfirmQueue, NatFacts, FiniteSetTheorems, SequenceTheorems

Types ==
  /\ first \in Pointer /\ last \in Pointer
  /\ next \in [Node -> Pointer] /\ prev \in [Node -> Pointer]
  /\ live \subseteq Node /\ detached \subseteq live /\ expired \subseteq Linked
  /\ current \in Pointer /\ freeing \in BOOLEAN
  /\ msgid \in [Node -> MsgId \cup {0}]

\* The list that first, last, next and prev spell.
Spells(f, len) ==
  /\ len \in Nat /\ f \in [1..len -> Node]
  /\ \A i, j \in 1..len : f[i] = f[j] => i = j
  /\ \A n \in Node : n \in Linked <=> \E i \in 1..len : f[i] = n
  /\ first = IF len = 0 THEN Null ELSE f[1]
  /\ last = IF len = 0 THEN Null ELSE f[len]
  /\ \A i \in 1..len : next[f[i]] = IF i = len THEN Null ELSE f[i + 1]
  /\ \A i \in 1..len : prev[f[i]] = IF i = 1 THEN Null ELSE f[i - 1]

\* The walk stands on the k-th entry, or behind the last one.
Stands(f, len, k) ==
  /\ k \in 1..(len + 1)
  /\ current = IF k = len + 1 THEN Null ELSE f[k]
  /\ \A n \in todo : \E i \in k..len : f[i] = n

Alone == \A n \in detached : next[n] = Null /\ prev[n] = Null

Shape == \E len \in Nat : \E f \in [1..len -> Node] :
           Spells(f, len) /\ \E k \in 1..(len + 1) : Stands(f, len, k)

IInv == Types /\ Alone /\ Shape /\ (freeing => current = Null)

-----------------------------------------------------------------------------
\* The list without its p-th entry.
Cut(f, len, p) == [i \in 1..(len - 1) |-> IF i < p THEN f[i] ELSE f[i + 1]]

LEMMA CutProperties ==
  ASSUME NEW len \in Nat, NEW f \in [1..len -> Node], NEW p \in 1..len,
         \A i, j \in 1..len : f[i] = f[j] => i = j
  PROVE  /\ Cut(f, len, p) \in [1..(len - 1) -> Node]
         /\ \A i, j \in 1..(len - 1) : Cut(f, len, p)[i] = Cut(f, len, p)[j] => i = j
         /\ \A i \in 1..(len - 1) : i < p => Cut(f, len, p)[i] = f[i]
         /\ \A i \in 1..(len - 1) : ~(i < p) => Cut(f, len, p)[i] = f[i + 1]
  <1>1. \A i \in 1..(len - 1) : i \in 1..len /\ i + 1 \in 1..len
    OBVIOUS
  <1>2. \A i \in 1..(len - 1) : Cut(f, len, p)[i] = IF i < p THEN f[i] ELSE f[i + 1]
    BY DEF Cut
  <1>3. Cut(f, len, p) \in [1..(len - 1) -> Node]
    BY <1>1 DEF Cut
  <1>4. ASSUME NEW i \in 1..(len - 1), NEW j \in 1..(len - 1),
               Cut(f, len, p)[i] = Cut(f, len, p)[j]
        PROVE  i = j
    BY <1>1, <1>2, <1>4
  <1>. QED  BY <1>2, <1>3, <1>4

\* remove_entry on the p-th entry spells the list without it.
LEMMA UnlinkSpells ==
  ASSUME Types, NEW len \in Nat, NEW f \in [1..len -> Node], NEW p \in 1..len,
         Spells(f, len), Unlink(f[p]), Linked' = Linked \ {f[p]}
  PROVE  Spells(Cut(f, len, p), len - 1)'
  <1>. DEFINE g == Cut(f, len, p)
  <1>. USE NullAssumption
  <1>1. /\ f \in [1..len -> Node] /\ \A i, j \in 1..len : f[i] = f[j] => i = j
        /\ \A n \in Node : n \in Linked <=> \E i \in 1..len : f[i] = n
        /\ \A i \in 1..len : next[f[i]] = IF i = len THEN Null ELSE f[i + 1]
        /\ \A i \in 1..len : prev[f[i]] = IF i = 1 THEN Null ELSE f[i - 1]
        /\ first = f[1] /\ last = f[len]
    BY DEF Spells
  <1>2. /\ g \in [1..(len - 1) -> Node]
        /\ \A i, j \in 1..(len - 1) : g[i] = g[j] => i = j
        /\ \A i \in 1..(len - 1) : i < p => g[i] = f[i]
        /\ \A i \in 1..(len - 1) : ~(i < p) => g[i] = f[i + 1]
    <2>1. \A i, j \in 1..len : f[i] = f[j] => i = j
      BY <1>1
    <2>. HIDE DEF g
    <2>2. g = Cut(f, len, p)
      BY DEF g
    <2>. QED  BY ONLY <2>1, <2>2, CutProperties, len \in Nat, f \in [1..len -> Node], p \in 1..len
  <1>3. len - 1 \in Nat
    OBVIOUS
  <1>4. \A n \in Node : n \in Linked' <=> \E i \in 1..(len - 1) : g[i] = n
    <2>1. ASSUME NEW n \in Node, n \in Linked' PROVE \E i \in 1..(len - 1) : g[i] = n
      <3>1. PICK i \in 1..len : f[i] = n /\ i # p
        BY <1>1, <2>1
      <3>2. CASE i < p
        BY <1>2, <3>1, <3>2
      <3>3. CASE i > p
        <4>1. i - 1 \in 1..(len - 1) /\ ~(i - 1 < p) /\ (i - 1) + 1 = i
          BY <3>3
        <4>. QED  BY <1>2, <3>1, <4>1
      <3>. QED  BY <3>1, <3>2, <3>3
    <2>2. ASSUME NEW n \in Node, NEW i \in 1..(len - 1), g[i] = n PROVE n \in Linked'
      <3>1. \E j \in 1..len : j # p /\ f[j] = n
        <4>1. CASE i < p
          BY <1>2, <2>2, <4>1
        <4>2. CASE ~(i < p)
          <5>1. i + 1 \in 1..len /\ i + 1 # p
            BY <4>2
          <5>. QED  BY <1>2, <2>2, <4>2, <5>1
        <4>. QED  BY <4>1, <4>2
      <3>. QED  BY <1>1, <3>1
    <2>. QED  BY <2>1, <2>2
  <1>5. /\ first' = IF p = 1 THEN next[f[p]] ELSE first
        /\ last' = IF p = len THEN prev[f[p]] ELSE last
    <2>1. (prev[f[p]] = Null <=> p = 1) /\ (next[f[p]] = Null <=> p = len)
      BY <1>1
    <2>. QED  BY <2>1 DEF Unlink
  <1>6. first' = IF len - 1 = 0 THEN Null ELSE g[1]
    BY <1>1, <1>2, <1>5
  <1>7. last' = IF len - 1 = 0 THEN Null ELSE g[len - 1]
    BY <1>1, <1>2, <1>5
  <1>8. /\ \A m \in Node : m # f[p] /\ (p = 1 \/ m # f[p - 1]) => next'[m] = next[m]
        /\ p > 1 => next'[f[p - 1]] = next[f[p]]
        /\ \A m \in Node : m # f[p] /\ (p = len \/ m # f[p + 1]) => prev'[m] = prev[m]
        /\ p < len => prev'[f[p + 1]] = prev[f[p]]
    BY <1>1 DEF Unlink
  <1>9. ASSUME NEW i \in 1..(len - 1)
        PROVE  next'[g[i]] = IF i = len - 1 THEN Null ELSE g[i + 1]
    <2>1. CASE i < p - 1
      BY <1>1, <1>2, <1>8, <2>1
    <2>2. CASE i = p - 1
      BY <1>1, <1>2, <1>8, <2>2
    <2>3. CASE ~(i < p)
      <3>1. i + 1 \in 1..len /\ f[i + 1] # f[p] /\ (p = 1 \/ f[i + 1] # f[p - 1])
        BY <1>1, <2>3
      <3>. QED  BY <1>1, <1>2, <1>8, <2>3, <3>1
    <2>. QED  BY <2>1, <2>2, <2>3
  <1>10. ASSUME NEW i \in 1..(len - 1)
         PROVE  prev'[g[i]] = IF i = 1 THEN Null ELSE g[i - 1]
    <2>1. CASE i < p
      <3>1. f[i] # f[p] /\ (p = len \/ f[i] # f[p + 1])
        BY <1>1, <2>1
      <3>. QED  BY <1>1, <1>2, <1>8, <2>1, <3>1
    <2>2. CASE i = p
      BY <1>1, <1>2, <1>8, <2>2
    <2>3. CASE i > p
      <3>1. i + 1 \in 1..len /\ f[i + 1] # f[p] /\ (p = len \/ f[i + 1] # f[p + 1])
        BY <1>1, <2>3
      <3>. QED  BY <1>1, <1>2, <1>8, <2>3, <3>1
    <2>. QED  BY <2>1, <2>2, <2>3
  <1>. QED  BY <1>2, <1>3, <1>4, <1>6, <1>7, <1>9, <1>10 DEF Spells

\* mc_buffer_queue_add spells the list with the new entry behind.
LEMMA AddSpells ==
  ASSUME Types, NEW len \in Nat, NEW f \in [1..len -> Node], Spells(f, len),
         NEW n \in Node, NEW id \in MsgId, Add(n, id)
  PROVE  Spells([i \in 1..(len + 1) |-> IF i = len + 1 THEN n ELSE f[i]], len + 1)'
  <1>. DEFINE g == [i \in 1..(len + 1) |-> IF i = len + 1 THEN n ELSE f[i]]
  <1>. USE NullAssumption
  <1>1. /\ \A i, j \in 1..len : f[i] = f[j] => i = j
        /\ \A m \in Node : m \in Linked <=> \E i \in 1..len : f[i] = m
        /\ \A i \in 1..len : next[f[i]] = IF i = len THEN Null ELSE f[i + 1]
        /\ \A i \in 1..len : prev[f[i]] = IF i = 1 THEN Null ELSE f[i - 1]
        /\ first = IF len = 0 THEN Null ELSE f[1]
        /\ last = IF len = 0 THEN Null ELSE f[len]
    BY DEF Spells
  <1>2. /\ len + 1 \in Nat /\ g \in [1..(len + 1) -> Node] /\ g[len + 1] = n
        /\ \A i \in 1..len : i \in 1..(len + 1) /\ g[i] = f[i]
    OBVIOUS
  <1>3. \A i \in 1..len : f[i] # n
    BY <1>1 DEF Add, Linked
  <1>4. \A i, j \in 1..(len + 1) : g[i] = g[j] => i = j
    <2>1. \A i \in 1..(len + 1) : i \in 1..len \/ i = len + 1
      OBVIOUS
    <2>. QED  BY <1>1, <1>2, <1>3, <2>1
  <1>5. \A m \in Node : m \in Linked' <=> \E i \in 1..(len + 1) : g[i] = m
    <2>1. Linked' = Linked \cup {n}
      BY DEF Add, Linked, Types
    <2>2. \A i \in 1..(len + 1) : i \in 1..len \/ i = len + 1
      OBVIOUS
    <2>3. len + 1 \in 1..(len + 1)
      OBVIOUS
    <2>. HIDE DEF g
    <2>4. ASSUME NEW m \in Node, m \in Linked' PROVE \E i \in 1..(len + 1) : g[i] = m
      BY <1>1, <1>2, <2>1, <2>3, <2>4
    <2>5. ASSUME NEW m \in Node, NEW i \in 1..(len + 1), g[i] = m PROVE m \in Linked'
      BY <1>1, <1>2, <2>1, <2>2, <2>5
    <2>. QED  BY <2>4, <2>5
  <1>6. CASE len = 0
    <2>1. first' = n /\ last' = n /\ next'[n] = Null /\ prev'[n] = Null
      BY <1>1, <1>6 DEF Add, Types
    <2>. QED  BY <1>2, <1>4, <1>5, <1>6, <2>1 DEF Spells
  <1>7. CASE len # 0
    <2>1. /\ last = f[len] /\ last # n /\ last \in Node
          /\ first' = first /\ last' = n
          /\ prev' = [prev EXCEPT ![n] = last]
          /\ next' = [next EXCEPT ![n] = Null, ![last] = n]
      BY <1>1, <1>3, <1>7 DEF Add
    <2>2. /\ next'[n] = Null /\ next'[f[len]] = n /\ prev'[n] = f[len]
          /\ \A i \in 1..len : i # len => next'[f[i]] = next[f[i]]
          /\ \A i \in 1..len : prev'[f[i]] = prev[f[i]]
      BY <1>1, <1>3, <2>1 DEF Types
    <2>3. ASSUME NEW i \in 1..(len + 1)
          PROVE  next'[g[i]] = IF i = len + 1 THEN Null ELSE g[i + 1]
      BY <1>1, <1>2, <2>2
    <2>4. ASSUME NEW i \in 1..(len + 1)
          PROVE  prev'[g[i]] = IF i = 1 THEN Null ELSE g[i - 1]
      BY <1>1, <1>2, <1>7, <2>2
    <2>5. /\ first' = IF len + 1 = 0 THEN Null ELSE g[1]
          /\ last' = IF len + 1 = 0 THEN Null ELSE g[len + 1]
      BY <1>1, <1>2, <1>7, <2>1
    <2>. HIDE DEF g
    <2>6. Spells(g, len + 1)'
      BY ONLY <1>2, <1>4, <1>5, <2>3, <2>4, <2>5 DEF Spells
    <2>. QED  BY <2>6 DEF g
  <1>. QED  BY <1>6, <1>7

-----------------------------------------------------------------------------
\* The way a search goes from first along next is the list, as far as it goes.
LEMMA WayIsPrefix ==
  ASSUME NEW len \in Nat, NEW f \in [1..len -> Node], Spells(f, len),
         NEW k \in Nat \ {0}, NEW way \in [1..k -> Node],
         way[1] = first, \A i \in 1..(k - 1) : next[way[i]] = way[i + 1]
  PROVE  \A i \in 1..k : i <= len /\ way[i] = f[i]
  <1>. USE NullAssumption
  <1>. DEFINE S == {m \in Nat : m + 1 \in 1..k => (m + 1 <= len /\ way[m + 1] = f[m + 1])}
  <1>1. 0 \in S
    BY DEF Spells
  <1>2. ASSUME NEW m \in Nat, m \in S PROVE m + 1 \in S
    <2>. SUFFICES ASSUME (m + 1) + 1 \in 1..k
                  PROVE  (m + 1) + 1 <= len /\ way[(m + 1) + 1] = f[(m + 1) + 1]
      OBVIOUS
    <2>1. m + 1 \in 1..(k - 1) /\ m + 1 \in 1..k
      OBVIOUS
    <2>2. m + 1 <= len /\ way[m + 1] = f[m + 1] /\ m + 1 \in 1..len
      BY <1>2, <2>1
    <2>3. next[f[m + 1]] = way[(m + 1) + 1] /\ way[(m + 1) + 1] # Null
      BY <2>1, <2>2
    <2>4. next[f[m + 1]] = IF m + 1 = len THEN Null ELSE f[(m + 1) + 1]
      BY <2>2 DEF Spells
    <2>. QED  BY <2>2, <2>3, <2>4
  <1>3. Nat \subseteq S
    <2>. HIDE DEF S
    <2>. QED  BY <1>1, <1>2, SetInduction
  <1>4. ASSUME NEW i \in 1..k PROVE i <= len /\ way[i] = f[i]
    <2>1. i - 1 \in Nat /\ (i - 1) + 1 = i
      OBVIOUS
    <2>2. i - 1 \in S
      BY <1>3, <2>1
    <2>. QED  BY <2>1, <2>2
  <1>. QED  BY <1>4

\* A search only finds entries of the queue, and the first that matches.
LEMMA SearchFinds ==
  ASSUME NEW len \in Nat, NEW f \in [1..len -> Node], Spells(f, len),
         NEW n, NEW S, IsFirst(n, S)
  PROVE  \E p \in 1..len : f[p] = n /\ \A i \in 1..(p - 1) : f[i] \notin S
  <1>1. PICK k \in 1..Cardinality(Node) : \E way \in [1..k -> Node] :
          /\ way[1] = first /\ way[k] = n
          /\ \A i \in 1..(k - 1) : way[i] \notin S /\ next[way[i]] = way[i + 1]
    BY DEF IsFirst
  <1>2. k \in Nat \ {0}
    BY <1>1
  <1>3. PICK way \in [1..k -> Node] :
          /\ way[1] = first /\ way[k] = n
          /\ \A i \in 1..(k - 1) : way[i] \notin S /\ next[way[i]] = way[i + 1]
    BY <1>1
  <1>4. \A i \in 1..k : i <= len /\ way[i] = f[i]
    <2>1. \A i \in 1..(k - 1) : next[way[i]] = way[i + 1]
      BY <1>3
    <2>. QED  BY <1>2, <1>3, <2>1, WayIsPrefix
  <1>5. k \in 1..len /\ f[k] = n
    BY <1>2, <1>3, <1>4
  <1>6. ASSUME NEW i \in 1..(k - 1) PROVE f[i] \notin S
    BY <1>2, <1>3, <1>4
  <1>. QED  BY <1>5, <1>6

LEMMA FoundIsLinked ==
  ASSUME NEW len \in Nat, NEW f \in [1..len -> Node], Spells(f, len),
         NEW n \in Node, NEW S, IsFirst(n, S)
  PROVE  n \in Linked
  <1>1. \E p \in 1..len : f[p] = n
    BY SearchFinds
  <1>. QED  BY <1>1 DEF Spells

-----------------------------------------------------------------------------
LEMMA TypesInit == Init => IInv
  <1>. SUFFICES ASSUME Init PROVE IInv
    OBVIOUS
  <1>. DEFINE e == [i \in 1..0 |-> Null]
  <1>1. Types /\ Alone /\ current = Null
    BY DEF Init, Types, Alone, Linked, Pointer
  <1>2. 1..0 = {} /\ 1 \in 1..(0 + 1)
    OBVIOUS
  <1>3. e \in [1..0 -> Node]
    BY <1>2
  <1>4. Spells(e, 0)
    BY <1>2, <1>3 DEF Init, Spells, Linked
  <1>5. Stands(e, 0, 1)
    BY <1>2 DEF Init, Stands
  <1>6. Shape
    <2>. HIDE DEF e
    <2>. QED  BY <1>2, <1>3, <1>4, <1>5 DEF Shape
  <1>. QED  BY <1>1, <1>6 DEF IInv, Init

LEMMA TypesNext == Types /\ Shape /\ [Next]_vars => Types'
  <1>. SUFFICES ASSUME Types, Shape, [Next]_vars PROVE Types'
    OBVIOUS
  <1>. USE DEF Pointer, Linked, list
  <1>1. PICK len \in Nat : \E f \in [1..len -> Node] :
          Spells(f, len) /\ \E k \in 1..(len + 1) : Stands(f, len, k)
    BY DEF Shape
  <1>2. PICK f \in [1..len -> Node] :
          Spells(f, len) /\ \E k \in 1..(len + 1) : Stands(f, len, k)
    BY <1>1
  <1>3. current \in Linked \cup {Null} /\ first \in Linked \cup {Null}
    <2>1. \A i \in 1..len : f[i] \in Linked
      BY <1>2 DEF Spells
    <2>. QED  BY <1>2, <2>1 DEF Spells, Stands
  <1>4. ASSUME NEW n \in Node, Unlink(n), live' \subseteq live,
               \/ live' = live \ {n} /\ detached' = detached /\ n \notin detached
               \/ live' = live /\ detached' = detached \cup {n} /\ n \in live
        PROVE  /\ first' \in Pointer /\ last' \in Pointer
               /\ next' \in [Node -> Pointer] /\ prev' \in [Node -> Pointer]
               /\ live' \subseteq Node /\ detached' \subseteq live' /\ expired' \subseteq Linked'
    BY <1>4 DEF Unlink, Types
  <1>5. ASSUME NEW n \in Linked, RemoveEntry(n), current' \in Pointer PROVE Types'
    <2>1. n \in Node /\ n \notin detached
      BY DEF Types
    <2>2. msgid' \in [Node -> MsgId \cup {0}] /\ freeing' \in BOOLEAN
      BY <1>5 DEF RemoveEntry, Types
    <2>. QED  BY <1>4, <1>5, <2>1, <2>2 DEF RemoveEntry, Types
  <1>6. ASSUME NEW n \in Node, NEW id \in MsgId, Add(n, id) PROVE Types'
    BY <1>6 DEF Add, Types
  <1>7. ASSUME NEW id \in MsgId, Remove(id) PROVE Types'
    <2>1. PICK n \in Node : IsFirst(n, {m \in Node : msgid[m] = id}) /\ RemoveEntry(n)
      BY <1>7 DEF Remove
    <2>2. n \in Linked
      BY <1>2, <2>1, FoundIsLinked
    <2>. QED  BY <1>5, <1>7, <2>1, <2>2 DEF Remove, Types
  <1>8. CASE Timeout
    <2>1. PICK n \in Node : IsFirst(n, expired) /\ Unlink(n) /\ detached' = detached \cup {n}
      BY <1>8 DEF Timeout
    <2>2. n \in Linked
      BY <1>2, <2>1, FoundIsLinked
    <2>. QED  BY <1>4, <1>8, <2>1, <2>2 DEF Timeout, Types
  <1>9. CASE StartWalk \/ StepWalk
    BY <1>3, <1>9 DEF StartWalk, StepWalk, Types
  <1>10. CASE RemoveCurrent
    <2>1. current \in Linked /\ current' \in Pointer
      BY <1>3, <1>10 DEF RemoveCurrent, Types
    <2>. QED  BY <1>5, <1>10, <2>1 DEF RemoveCurrent
  <1>11. CASE StartFree \/ EndFree
    BY <1>11 DEF StartFree, EndFree, Types
  <1>12. CASE FreeFirst
    BY <1>3, <1>5, <1>12 DEF FreeFirst, Types
  <1>13. ASSUME NEW n \in Node, Expire(n) PROVE Types'
    BY <1>13 DEF Expire, Types
  <1>14. CASE UNCHANGED vars
    BY <1>14 DEF vars, Types
  <1>. QED
    BY <1>6, <1>7, <1>8, <1>9, <1>10, <1>11, <1>12, <1>13, <1>14 DEF Next, Walk, Free

-----------------------------------------------------------------------------
\* Entries are linked to entries of the queue, never to a freed or detached cell.
LEMMA Neighbours ==
  ASSUME NEW len \in Nat, NEW f \in [1..len -> Node], Spells(f, len)
  PROVE  /\ first \in Linked \cup {Null} /\ last \in Linked \cup {Null}
         /\ \A n \in Linked \cap Node : next[n] \in Linked \cup {Null} /\ prev[n] \in Linked \cup {Null}
  <1>1. \A i \in 1..len : f[i] \in Linked
    BY DEF Spells
  <1>2. first \in Linked \cup {Null} /\ last \in Linked \cup {Null}
    BY <1>1 DEF Spells
  <1>3. ASSUME NEW n \in Linked \cap Node
        PROVE  next[n] \in Linked \cup {Null} /\ prev[n] \in Linked \cup {Null}
    <2>1. PICK i \in 1..len : f[i] = n
      BY DEF Spells
    <2>2. /\ next[n] = IF i = len THEN Null ELSE f[i + 1]
          /\ prev[n] = IF i = 1 THEN Null ELSE f[i - 1]
      BY <2>1 DEF Spells
    <2>. QED  BY <1>1, <2>2
  <1>. QED  BY <1>2, <1>3

\* The walk stands on an entry of the queue.
LEMMA WalkInQueue == Shape => current \in Linked \cup {Null} /\ todo \subseteq Linked
  <1>. SUFFICES ASSUME Shape PROVE current \in Linked \cup {Null} /\ todo \subseteq Linked
    OBVIOUS
  <1>1. PICK len \in Nat : \E f \in [1..len -> Node] :
          Spells(f, len) /\ \E k \in 1..(len + 1) : Stands(f, len, k)
    BY DEF Shape
  <1>2. PICK f \in [1..len -> Node] :
          Spells(f, len) /\ \E k \in 1..(len + 1) : Stands(f, len, k)
    BY <1>1
  <1>3. \A i \in 1..len : f[i] \in Linked
    BY <1>2 DEF Spells
  <1>. QED  BY <1>2, <1>3 DEF Stands

LEMMA AloneNext == Types /\ Alone /\ Shape /\ [Next]_vars => Alone'
  <1>. SUFFICES ASSUME Types, Alone, Shape, [Next]_vars PROVE Alone'
    OBVIOUS
  <1>. USE NullAssumption DEF list
  <1>1. PICK len \in Nat : \E f \in [1..len -> Node] : Spells(f, len)
    BY DEF Shape
  <1>2. PICK f \in [1..len -> Node] : Spells(f, len)
    BY <1>1
  <1>3. /\ first \in Linked \cup {Null} /\ last \in Linked \cup {Null}
        /\ \A n \in Linked \cap Node : next[n] \in Linked \cup {Null} /\ prev[n] \in Linked \cup {Null}
    BY <1>2, Neighbours
  <1>4. detached \subseteq Node /\ detached \cap Linked = {} /\ Null \notin detached
    BY DEF Types, Linked
  <1>5. ASSUME NEW n \in Linked, Unlink(n), detached' = detached \/ detached' = detached \cup {n}
        PROVE  Alone'
    <2>1. n \in Node
      BY DEF Linked, Types
    <2>2. /\ \A m \in detached : m # n /\ m # next[n] /\ m # prev[n]
          /\ \A m \in detached : next'[m] = next[m] /\ prev'[m] = prev[m]
          /\ next'[n] = Null /\ prev'[n] = Null
      BY <1>3, <1>4, <1>5, <2>1 DEF Unlink
    <2>. QED  BY <1>5, <2>2 DEF Alone
  <1>6. ASSUME NEW n \in Node, NEW id \in MsgId, Add(n, id) PROVE Alone'
    <2>1. detached' = detached /\ n \notin detached /\ last \notin detached
      BY <1>3, <1>4, <1>6 DEF Add, Types
    <2>2. \A m \in detached : next'[m] = next[m] /\ prev'[m] = prev[m]
      BY <1>4, <1>6, <2>1 DEF Add, Types
    <2>. QED  BY <2>1, <2>2 DEF Alone
  <1>7. ASSUME NEW id \in MsgId, Remove(id) PROVE Alone'
    <2>1. PICK n \in Node : IsFirst(n, {m \in Node : msgid[m] = id}) /\ RemoveEntry(n)
      BY <1>7 DEF Remove
    <2>2. n \in Linked
      BY <1>2, <2>1, FoundIsLinked
    <2>. QED  BY <1>5, <2>1, <2>2 DEF RemoveEntry
  <1>8. CASE Timeout
    <2>1. PICK n \in Node : IsFirst(n, expired) /\ Unlink(n) /\ detached' = detached \cup {n}
      BY <1>8 DEF Timeout
    <2>2. n \in Linked
      BY <1>2, <2>1, FoundIsLinked
    <2>. QED  BY <1>5, <2>1, <2>2
  <1>9. CASE RemoveCurrent
    <2>1. current \in Linked
      BY <1>9, WalkInQueue DEF RemoveCurrent
    <2>. QED  BY <1>5, <1>9, <2>1 DEF RemoveCurrent, RemoveEntry
  <1>10. CASE FreeFirst
    BY <1>3, <1>5, <1>10 DEF FreeFirst, RemoveEntry
  <1>11. CASE StartWalk \/ StepWalk \/ StartFree \/ EndFree \/ (\E n \in Node : Expire(n)) \/ UNCHANGED vars
    BY <1>11 DEF StartWalk, StepWalk, StartFree, EndFree, Expire, vars, Alone
  <1>. QED
    BY <1>6, <1>7, <1>8, <1>9, <1>10, <1>11 DEF Next, Walk, Free

-----------------------------------------------------------------------------
\* Removing an entry the walk does not stand on leaves the walk where it stands.
LEMMA CutStands ==
  ASSUME NEW len \in Nat, NEW f \in [1..len -> Node], Spells(f, len),
         NEW k \in 1..(len + 1), Stands(f, len, k),
         NEW p \in 1..len, p # k, current' = current, todo' \subseteq todo \ {f[p]}
  PROVE  \E j \in 1..len : Stands(Cut(f, len, p), len - 1, j)'
  <1>. DEFINE g == Cut(f, len, p)
              j == IF p < k THEN k - 1 ELSE k
  <1>1. \A a, b \in 1..len : f[a] = f[b] => a = b
    BY DEF Spells
  <1>2. /\ \A i \in 1..(len - 1) : i < p => g[i] = f[i]
        /\ \A i \in 1..(len - 1) : ~(i < p) => g[i] = f[i + 1]
    BY <1>1, CutProperties
  <1>. HIDE DEF g
  <1>3. j \in 1..((len - 1) + 1) /\ j \in 1..len
    OBVIOUS
  <1>4. current' = IF j = (len - 1) + 1 THEN Null ELSE g[j]
    <2>1. current = IF k = len + 1 THEN Null ELSE f[k]
      BY DEF Stands
    <2>2. CASE p < k
      BY <1>2, <2>1, <2>2
    <2>3. CASE p > k
      BY <1>2, <2>1, <2>3
    <2>. QED  BY <2>2, <2>3
  <1>5. ASSUME NEW n \in todo' PROVE \E i \in j..(len - 1) : g[i] = n
    <2>1. PICK i \in k..len : f[i] = n
      BY DEF Stands
    <2>2. i # p /\ i \in 1..len
      BY <2>1
    <2>3. CASE i < p
      BY <1>2, <2>1, <2>3
    <2>4. CASE i > p
      <3>1. i - 1 \in j..(len - 1) /\ i - 1 \in 1..(len - 1) /\ ~(i - 1 < p) /\ (i - 1) + 1 = i
        BY <2>4
      <3>. QED  BY <1>2, <2>1, <3>1
    <2>. QED  BY <2>2, <2>3, <2>4
  <1>6. Stands(g, len - 1, j)'
    <2>. HIDE DEF j
    <2>. QED  BY <1>3, <1>4, <1>5 DEF Stands
  <1>. QED  BY <1>3, <1>6 DEF g

\* Removing the entry the walk stands on puts it on the entry behind.
LEMMA CutCurrentStands ==
  ASSUME NEW len \in Nat, NEW f \in [1..len -> Node], Spells(f, len),
         NEW k \in 1..len, Stands(f, len, k),
         current' = next[f[k]], todo' \subseteq todo \ {f[k]}
  PROVE  Stands(Cut(f, len, k), len - 1, k)'
  <1>. DEFINE g == Cut(f, len, k)
  <1>1. \A a, b \in 1..len : f[a] = f[b] => a = b
    BY DEF Spells
  <1>2. /\ \A i \in 1..(len - 1) : i < k => g[i] = f[i]
        /\ \A i \in 1..(len - 1) : ~(i < k) => g[i] = f[i + 1]
    BY <1>1, CutProperties
  <1>. HIDE DEF g
  <1>3. k \in 1..((len - 1) + 1)
    OBVIOUS
  <1>4. current' = IF k = (len - 1) + 1 THEN Null ELSE g[k]
    <2>1. next[f[k]] = IF k = len THEN Null ELSE f[k + 1]
      BY DEF Spells
    <2>. QED  BY <1>2, <2>1
  <1>5. ASSUME NEW n \in todo' PROVE \E i \in k..(len - 1) : g[i] = n
    <2>1. PICK i \in k..len : f[i] = n /\ i # k
      BY DEF Stands
    <2>2. i - 1 \in k..(len - 1) /\ i - 1 \in 1..(len - 1) /\ ~(i - 1 < k) /\ (i - 1) + 1 = i
      BY <2>1
    <2>. QED  BY <1>2, <2>1, <2>2
  <1>6. Stands(g, len - 1, k)'
    BY <1>3, <1>4, <1>5 DEF Stands
  <1>. QED  BY <1>6 DEF g

-----------------------------------------------------------------------------
LEMMA ShapeNext ==
  Types /\ Shape /\ (freeing => current = Null) /\ [Next]_vars => Shape'
  <1>. SUFFICES ASSUME Types, Shape, freeing => current = Null, [Next]_vars PROVE Shape'
    OBVIOUS
  <1>. USE NullAssumption
  <1>1. PICK len \in Nat : \E f \in [1..len -> Node] :
          Spells(f, len) /\ \E k \in 1..(len + 1) : Stands(f, len, k)
    BY DEF Shape
  <1>2. PICK f \in [1..len -> Node] :
          Spells(f, len) /\ \E k \in 1..(len + 1) : Stands(f, len, k)
    BY <1>1
  <1>3. PICK k \in 1..(len + 1) : Stands(f, len, k)
    BY <1>2
  <1>4. Spells(f, len)
    BY <1>2
  <1>5. ASSUME NEW g, NEW m \in Nat, Spells(g, m)', NEW j \in 1..(m + 1), Stands(g, m, j)'
        PROVE  Shape'
    <2>1. g \in [1..m -> Node]
      BY <1>5 DEF Spells
    <2>. QED  BY <1>5, <2>1 DEF Shape
  <1>6. /\ \A i \in 1..len : f[i] \in Linked /\ f[i] \in Node
        /\ \A a, b \in 1..len : f[a] = f[b] => a = b
        /\ \A n \in Node : n \in Linked <=> \E i \in 1..len : f[i] = n
    BY <1>4 DEF Spells
  <1>7. current = IF k = len + 1 THEN Null ELSE f[k]
    BY <1>3 DEF Stands
  \* An entry other than the walk's leaves the list.
  <1>8. ASSUME NEW n \in Linked, Unlink(n), Linked' = Linked \ {n}, n # current, current' = current
        PROVE  Shape'
    <2>1. n \in Node
      BY DEF Linked, Types
    <2>2. PICK p \in 1..len : f[p] = n
      BY <1>6, <2>1
    <2>3. p # k
      BY <1>7, <1>8, <2>2
    <2>4. Spells(Cut(f, len, p), len - 1)'
      BY <1>4, <1>8, <2>2, UnlinkSpells
    <2>5. todo' \subseteq todo \ {f[p]}
      BY <1>8, <2>2 DEF Unlink
    <2>6. PICK j \in 1..len : Stands(Cut(f, len, p), len - 1, j)'
      BY <1>3, <1>4, <1>8, <2>3, <2>5, CutStands
    <2>7. len - 1 \in Nat /\ j \in 1..((len - 1) + 1)
      OBVIOUS
    <2>. QED  BY <1>5, <2>4, <2>6, <2>7
  <1>9. ASSUME NEW n \in Linked, RemoveEntry(n), n # current, current' = current
        PROVE  Shape'
    <2>1. Unlink(n) /\ Linked' = Linked \ {n}
      BY <1>9 DEF RemoveEntry, Linked, Types
    <2>. QED  BY <1>8, <1>9, <2>1
  <1>10. ASSUME NEW n \in Node, NEW id \in MsgId, Add(n, id) PROVE Shape'
    <2>. DEFINE g == [i \in 1..(len + 1) |-> IF i = len + 1 THEN n ELSE f[i]]
                j == IF k = len + 1 THEN (len + 1) + 1 ELSE k
    <2>1. Spells(g, len + 1)'
      BY <1>4, <1>10, AddSpells
    <2>2. \A i \in 1..len : g[i] = f[i] /\ i \in 1..(len + 1)
      OBVIOUS
    <2>3. current' = current /\ todo' = todo
      BY <1>10 DEF Add
    <2>. HIDE DEF g
    <2>4. j \in 1..((len + 1) + 1) /\ len + 1 \in Nat
      OBVIOUS
    <2>5. current' = IF j = (len + 1) + 1 THEN Null ELSE g[j]
      BY <1>7, <2>2, <2>3
    <2>6. ASSUME NEW m \in todo' PROVE \E i \in j..(len + 1) : g[i] = m
      <3>1. PICK i \in k..len : f[i] = m
        BY <1>3, <2>3 DEF Stands
      <3>2. i \in j..(len + 1) /\ i \in 1..len
        BY <3>1
      <3>. QED  BY <2>2, <3>1, <3>2
    <2>7. Stands(g, len + 1, j)'
      <3>. HIDE DEF j
      <3>. QED  BY <2>4, <2>5, <2>6 DEF Stands
    <2>. HIDE DEF j
    <2>. QED  BY <1>5, <2>1, <2>4, <2>7
  <1>11. ASSUME NEW id \in MsgId, Remove(id) PROVE Shape'
    <2>1. PICK n \in Node \ {current} : IsFirst(n, {m \in Node : msgid[m] = id}) /\ RemoveEntry(n)
      BY <1>11 DEF Remove
    <2>2. n \in Linked
      BY <1>4, <2>1, FoundIsLinked
    <2>. QED  BY <1>9, <1>11, <2>1, <2>2 DEF Remove
  <1>12. CASE Timeout
    <2>1. PICK n \in Node : IsFirst(n, expired) /\ Unlink(n) /\ detached' = detached \cup {n}
      BY <1>12 DEF Timeout
    <2>2. n \in Linked
      BY <1>4, <2>1, FoundIsLinked
    <2>3. Linked' = Linked \ {n} /\ current' = current /\ n # current
      BY <1>12, <2>1 DEF Timeout, Linked
    <2>. QED  BY <1>8, <2>1, <2>2, <2>3
  <1>13. CASE RemoveCurrent
    <2>1. k \in 1..len /\ current = f[k] /\ current \in Linked /\ RemoveEntry(f[k])
      BY <1>6, <1>7, <1>13 DEF RemoveCurrent
    <2>2. /\ Unlink(f[k]) /\ Linked' = Linked \ {f[k]}
          /\ todo' \subseteq todo \ {f[k]} /\ current' = next[f[k]]
      BY <1>13, <2>1 DEF RemoveCurrent, RemoveEntry, Linked, Types, Unlink
    <2>3. Spells(Cut(f, len, k), len - 1)'
      BY <1>4, <2>1, <2>2, UnlinkSpells
    <2>4. Stands(Cut(f, len, k), len - 1, k)'
      BY <1>3, <1>4, <2>1, <2>2, CutCurrentStands
    <2>5. len - 1 \in Nat /\ k \in 1..((len - 1) + 1)
      BY <2>1
    <2>. QED  BY <1>5, <2>3, <2>4, <2>5
  <1>14. CASE FreeFirst
    <2>1. len # 0 /\ first = f[1]
      BY <1>4, <1>14 DEF Spells, FreeFirst
    <2>2. first \in Linked /\ RemoveEntry(first) /\ current' = current /\ current = Null
      BY <1>6, <1>14, <2>1 DEF FreeFirst
    <2>3. first # current
      BY <1>6, <2>1, <2>2
    <2>. QED  BY <1>9, <2>2, <2>3
  \* The list stays, and only the walk moves.
  <1>15. ASSUME UNCHANGED <<first, last, next, prev, live, detached>> PROVE Spells(f, len)'
    BY <1>4, <1>15 DEF Spells, Linked
  <1>16. CASE StartWalk
    <2>1. Spells(f, len)'
      BY <1>15, <1>16 DEF StartWalk, list
    <2>2. len # 0 /\ first = f[1]
      BY <1>4, <1>16 DEF Spells, StartWalk
    <2>3. current' = f[1] /\ todo' = Linked
      BY <1>16, <2>2 DEF StartWalk
    <2>4. \A n \in todo' : \E i \in 1..len : f[i] = n
      BY <1>6, <2>3 DEF Linked, Types
    <2>5. Stands(f, len, 1)'
      BY <2>2, <2>3, <2>4 DEF Stands
    <2>6. 1 \in 1..(len + 1)
      OBVIOUS
    <2>. QED  BY <1>5, <2>1, <2>5, <2>6
  <1>17. CASE StepWalk
    <2>1. Spells(f, len)'
      BY <1>15, <1>17 DEF StepWalk, list
    <2>2. k \in 1..len /\ current = f[k]
      BY <1>7, <1>17 DEF StepWalk
    <2>3. current' = (IF k = len THEN Null ELSE f[k + 1]) /\ todo' = todo \ {f[k]}
      BY <1>4, <1>17, <2>2 DEF StepWalk, Spells
    <2>4. ASSUME NEW n \in todo' PROVE \E i \in (k + 1)..len : f[i] = n
      BY <1>3, <2>3 DEF Stands
    <2>5. k + 1 \in 1..(len + 1) /\ (k + 1 = len + 1 <=> k = len)
      BY <2>2
    <2>6. Stands(f, len, k + 1)'
      BY <2>3, <2>4, <2>5 DEF Stands
    <2>. QED  BY <1>5, <2>1, <2>5, <2>6
  <1>18. CASE StartFree \/ EndFree \/ (\E n \in Node : Expire(n)) \/ UNCHANGED vars
    <2>1. Spells(f, len)' /\ current' = current /\ todo' = todo
      BY <1>15, <1>18 DEF StartFree, EndFree, Expire, vars, list
    <2>2. Stands(f, len, k)'
      BY <1>3, <2>1 DEF Stands
    <2>. QED  BY <1>5, <2>1, <2>2
  <1>. QED
    BY <1>10, <1>11, <1>12, <1>13, <1>14, <1>16, <1>17, <1>18 DEF Next, Walk, Free

-----------------------------------------------------------------------------
LEMMA IInvHolds == Spec => []IInv
  <1>1. Init => IInv
    BY TypesInit
  <1>2. IInv /\ [Next]_vars => IInv'
    <2>. SUFFICES ASSUME IInv, [Next]_vars PROVE IInv'
      OBVIOUS
    <2>1. Types' /\ Alone' /\ Shape'
      BY TypesNext, AloneNext, ShapeNext DEF IInv
    <2>2. (freeing => current = Null)'
      BY DEF IInv, Next, vars, Add, Remove, Timeout, Walk, StartWalk, StepWalk, RemoveCurrent,
             StartFree, Free, FreeFirst, EndFree, Expire, RemoveEntry
    <2>. QED  BY <2>1, <2>2 DEF IInv
  <1>. QED  BY <1>1, <1>2, PTL DEF Spec

\* Every pointer leads to an allocated cell or nowhere: no operation of the queue, in any
\* order and whatever a callback adds or removes during a walk, leaves a freed cell behind.
THEOREM TypeCorrect == Spec => []TypeOK
  <1>1. IInv => TypeOK
    BY WalkInQueue DEF IInv, Types, TypeOK
  <1>. QED  BY <1>1, IInvHolds, PTL

\* The two directions of the list agree for any number of entries.
THEOREM LinksAgreeHolds == Spec => []LinksAgree
  <1>1. ASSUME IInv PROVE LinksAgree
    <2>. USE NullAssumption
    <2>1. PICK len \in Nat : \E f \in [1..len -> Node] : Spells(f, len)
      BY <1>1 DEF IInv, Shape
    <2>2. PICK f \in [1..len -> Node] : Spells(f, len)
      BY <2>1
    <2>3. Linked \subseteq Node
      BY <1>1 DEF IInv, Types, Linked
    <2>4. \A i \in 1..len : f[i] \in Linked /\ f[i] # Null
      BY <2>2, <2>3 DEF Spells
    <2>5. /\ first = Null <=> len = 0
          /\ last = Null <=> len = 0
          /\ Linked = {} <=> len = 0
      BY <2>2, <2>3, <2>4 DEF Spells
    <2>6. ASSUME NEW n \in Linked
          PROVE  /\ IF next[n] = Null THEN last = n ELSE next[n] \in Linked /\ prev[next[n]] = n
                 /\ IF prev[n] = Null THEN first = n ELSE prev[n] \in Linked /\ next[prev[n]] = n
      <3>1. PICK i \in 1..len : f[i] = n
        BY <2>2, <2>3 DEF Spells
      <3>2. /\ next[n] = IF i = len THEN Null ELSE f[i + 1]
            /\ prev[n] = IF i = 1 THEN Null ELSE f[i - 1]
        BY <2>2, <3>1 DEF Spells
      <3>3. i # len => i + 1 \in 1..len /\ prev[f[i + 1]] = f[i]
        BY <2>2 DEF Spells
      <3>4. i # 1 => i - 1 \in 1..len /\ next[f[i - 1]] = f[i]
        BY <2>2 DEF Spells
      <3>5. (i = len => last = n) /\ (i = 1 => first = n)
        BY <2>2, <3>1 DEF Spells
      <3>. QED  BY <2>4, <3>1, <3>2, <3>3, <3>4, <3>5
    <2>7. first # Null => first \in Linked /\ prev[first] = Null
      BY <2>2, <2>4, <2>5 DEF Spells
    <2>8. last # Null => last \in Linked /\ next[last] = Null
      BY <2>2, <2>4, <2>5 DEF Spells
    <2>. QED  BY <2>5, <2>6, <2>7, <2>8 DEF LinksAgree
  <1>. QED  BY <1>1, IInvHolds, PTL

\* An entry mc_buffer_queue_timeout has handed out leads nowhere.
THEOREM DetachedIsAloneHolds == Spec => []DetachedIsAlone
  <1>1. IInv => DetachedIsAlone
    BY DEF IInv, Alone, DetachedIsAlone
  <1>. QED  BY <1>1, IInvHolds, PTL

\* The walk of check_queues never stands on a freed entry and misses none, whatever its
\* callbacks add to the queue or remove from it.
THEOREM WalkMissesNothingHolds == Spec => []WalkMissesNothing
  <1>1. ASSUME IInv PROVE WalkMissesNothing
    <2>1. current # Null => current \in Linked
      BY <1>1, WalkInQueue DEF IInv
    <2>2. PICK len \in Nat : \E f \in [1..len -> Node] :
            Spells(f, len) /\ \E k \in 1..(len + 1) : Stands(f, len, k)
      BY <1>1 DEF IInv, Shape
    <2>3. PICK f \in [1..len -> Node] :
            Spells(f, len) /\ \E k \in 1..(len + 1) : Stands(f, len, k)
      BY <2>2
    <2>4. PICK k \in 1..(len + 1) : Stands(f, len, k)
      BY <2>3
    <2>5. current = Null => k = len + 1
      BY <2>4, NullAssumption DEF Stands
    <2>6. k = len + 1 => todo = {}
      BY <2>4 DEF Stands
    <2>. QED  BY <2>1, <2>5, <2>6 DEF WalkMissesNothing
  <1>. QED  BY <1>1, IInvHolds, PTL

-----------------------------------------------------------------------------
(* The refinement: Chain is the sequence that the pointers spell.          *)

Leads(start, link, f, len) ==
  /\ \A i, j \in 1..len : f[i] = f[j] => i = j
  /\ start = IF len = 0 THEN Null ELSE f[1]
  /\ \A i \in 1..len : link[f[i]] = IF i = len THEN Null ELSE f[i + 1]

LEMMA ChainIs ==
  ASSUME NEW len \in Nat, NEW f \in [1..len -> Node], NEW start, NEW link,
         Leads(start, link, f, len)
  PROVE  ChainFrom(start, link) = f
  <1>0. /\ \A i, j \in 1..len : f[i] = f[j] => i = j
        /\ start = IF len = 0 THEN Null ELSE f[1]
        /\ \A i \in 1..len : link[f[i]] = IF i = len THEN Null ELSE f[i + 1]
    BY DEF Leads
  <1>. USE <1>0
  <1>. DEFINE size == Cardinality(Node)
              P(h) == h = [k \in 0..size |->
                             IF k = 0 THEN start
                             ELSE IF h[k - 1] = Null THEN Null ELSE link[h[k - 1]]]
              g == [k \in 0..size |-> IF k < len THEN f[k + 1] ELSE Null]
              step == CHOOSE h : P(h)
  <1>1. size \in Nat /\ len <= size
    <2>1. f \in Injection(1..len, Node)
      BY DEF Injection, IsInjective
    <2>2. Cardinality(1..len) = len /\ len <= Cardinality(Node)
      BY <2>1, NodeAssumption, FS_Injection, FS_Interval
    <2>. QED  BY <2>2, NodeAssumption, FS_CardinalityType
  <1>2. ChainFrom(start, link) = [k \in 1..Cardinality({j \in 0..size : step[j] # Null}) |-> step[k - 1]]
    BY DEF ChainFrom
  <1>. HIDE DEF size
  <1>3. \A i \in 1..len : f[i] # Null
    BY NullAssumption
  <1>4. P(g)
    <2>1. ASSUME NEW k \in 0..size
          PROVE  g[k] = IF k = 0 THEN start
                        ELSE IF g[k - 1] = Null THEN Null ELSE link[g[k - 1]]
      <3>1. CASE k = 0
        BY <1>1, <3>1
      <3>2. CASE k # 0 /\ k - 1 < len
        <4>1. k \in 1..len /\ k - 1 \in 0..size /\ g[k - 1] = f[k]
          BY <1>1, <3>2
        <4>. QED  BY <1>1, <1>3, <3>2, <4>1
      <3>3. CASE k # 0 /\ ~(k - 1 < len)
        BY <1>1, <3>3
      <3>. QED  BY <3>1, <3>2, <3>3
    <2>. QED  BY <2>1
  <1>5. P(step)
    <2>. HIDE DEF P, g
    <2>. QED  BY <1>4
  <1>. HIDE DEF step
  <1>. DEFINE Unfolds(h) == \A k \in 0..size :
                h[k] = IF k = 0 THEN start
                       ELSE IF h[k - 1] = Null THEN Null ELSE link[h[k - 1]]
  <1>6. Unfolds(step) /\ Unfolds(g)
    <2>. HIDE DEF g
    <2>. QED  BY <1>4, <1>5
  <1>. HIDE DEF P
  <1>7. \A k \in 0..size : step[k] = g[k]
    <2>. DEFINE T == {k \in Nat : k <= size => step[k] = g[k]}
    <2>1. 0 \in T
      <3>1. 0 \in 0..size
        BY <1>1
      <3>. HIDE DEF g
      <3>. QED  BY <1>6, <3>1
    <2>2. ASSUME NEW k \in Nat, k \in T PROVE k + 1 \in T
      <3>1. SUFFICES ASSUME k + 1 <= size PROVE step[k + 1] = g[k + 1]
        OBVIOUS
      <3>2. k + 1 \in 0..size /\ k + 1 # 0 /\ (k + 1) - 1 = k /\ k <= size
        BY <1>1, <2>2, <3>1
      <3>3. step[k] = g[k]
        BY <2>2, <3>2
      <3>. HIDE DEF g, T
      <3>. QED  BY <1>6, <3>2, <3>3
    <2>. HIDE DEF T
    <2>3. Nat \subseteq T
      BY <2>1, <2>2, SetInduction
    <2>4. ASSUME NEW k \in 0..size PROVE step[k] = g[k]
      <3>1. k \in Nat /\ k <= size
        BY <1>1
      <3>2. k \in T
        BY <2>3, <3>1
      <3>. QED  BY <3>1, <3>2 DEF T
    <2>. QED  BY <2>4
  <1>8. {j \in 0..size : step[j] # Null} = 0..(len - 1)
    BY <1>1, <1>3, <1>7
  <1>9. Cardinality(0..(len - 1)) = len
    BY FS_Interval
  <1>10. \A k \in 1..len : step[k - 1] = f[k]
    BY <1>1, <1>7
  <1>11. ChainFrom(start, link) = [k \in 1..len |-> step[k - 1]]
    BY <1>2, <1>8, <1>9
  <1>12. [k \in 1..len |-> step[k - 1]] = [k \in 1..len |-> f[k]]
    BY <1>10
  <1>13. f = [k \in 1..len |-> f[k]]
    OBVIOUS
  <1>. QED  BY <1>11, <1>12, <1>13

LEMMA ChainSpells ==
  ASSUME NEW len \in Nat, NEW f \in [1..len -> Node], Spells(f, len)
  PROVE  Chain = f
  <1>1. Leads(first, next, f, len)
    BY DEF Spells, Leads
  <1>2. ChainFrom(first, next) = f
    BY <1>1, ChainIs
  <1>. QED  BY <1>2 DEF Chain

LEMMA ChainSpellsNext ==
  ASSUME NEW len \in Nat, NEW f \in [1..len -> Node], Spells(f, len)'
  PROVE  Chain' = f
  <1>1. Leads(first', next', f, len)
    BY DEF Spells, Leads
  <1>2. ChainFrom(first', next') = f
    BY <1>1, ChainIs
  <1>. QED  BY <1>2 DEF Chain

LEMMA CutIsSubSeq ==
  ASSUME NEW len \in Nat, NEW f \in [1..len -> Node], NEW p \in 1..len
  PROVE  /\ f \in Seq(Node) /\ Len(f) = len
         /\ Cut(f, len, p) = SubSeq(f, 1, p - 1) \o SubSeq(f, p + 1, Len(f))
  <1>1. f \in Seq(Node) /\ Len(f) = len
    OBVIOUS
  <1>. DEFINE a == SubSeq(f, 1, p - 1)
              b == SubSeq(f, p + 1, Len(f))
  <1>2. a \in Seq(Node) /\ Len(a) = p - 1 /\ \A i \in 1..(p - 1) : a[i] = f[i]
    BY <1>1
  <1>3. b \in Seq(Node) /\ Len(b) = len - p /\ \A i \in 1..(len - p) : b[i] = f[p + i]
    BY <1>1
  <1>. HIDE DEF a, b
  <1>4. a \o b \in Seq(Node) /\ Len(a \o b) = len - 1
    <2>1. a \o b \in Seq(Node) /\ Len(a \o b) = Len(a) + Len(b)
      BY <1>2, <1>3, ConcatProperties
    <2>2. (p - 1) + (len - p) = len - 1
      OBVIOUS
    <2>. QED  BY <1>2, <1>3, <2>1, <2>2
  <1>5. \A i \in 1..(len - 1) : (a \o b)[i] = Cut(f, len, p)[i]
    <2>. TAKE i \in 1..(len - 1)
    <2>1. (a \o b)[i] = IF i <= p - 1 THEN a[i] ELSE b[i - (p - 1)]
      BY <1>2, <1>3
    <2>2. CASE i < p
      BY <1>2, <2>1, <2>2 DEF Cut
    <2>3. CASE ~(i < p)
      <3>1. i - (p - 1) \in 1..(len - p) /\ p + (i - (p - 1)) = i + 1
        BY <2>3
      <3>. QED  BY <1>3, <2>1, <2>3, <3>1 DEF Cut
    <2>. QED  BY <2>2, <2>3
  <1>6. Cut(f, len, p) \in Seq(Node) /\ Len(Cut(f, len, p)) = len - 1
    <2>1. Cut(f, len, p) \in [1..(len - 1) -> Node]
      BY DEF Cut
    <2>. QED  BY <2>1
  <1>7. a \o b = Cut(f, len, p)
    BY <1>4, <1>5, <1>6, SeqEqual
  <1>. QED  BY <1>1, <1>7 DEF a, b

\* mc_buffer_queue_count counts every entry once, for any number of cells: the pointers
\* lead from first through all that is allocated and not handed out.
THEOREM AllReachableHolds == Spec => []AllReachable
  <1>1. ASSUME IInv PROVE AllReachable
    <2>1. PICK len \in Nat : \E f \in [1..len -> Node] : Spells(f, len)
      BY <1>1 DEF IInv, Shape
    <2>2. PICK f \in [1..len -> Node] : Spells(f, len)
      BY <2>1
    <2>3. Chain = f
      BY <2>2, ChainSpells
    <2>4. Linked \subseteq Node
      BY <1>1 DEF IInv, Types, Linked
    <2>5. Len(f) = len /\ {f[k] : k \in 1..len} = Linked
      BY <2>2, <2>4 DEF Spells
    <2>6. f \in Bijection(1..len, Linked)
      BY <2>2, <2>5 DEF Bijection, Injection, Surjection, IsInjective, Spells
    <2>7. Cardinality(Linked) = len
      BY <2>6, FS_CountingElements DEF ExistsBijection
    <2>. QED  BY <2>3, <2>5, <2>7 DEF AllReachable
  <1>. QED  BY <1>1, IInvHolds, PTL

-----------------------------------------------------------------------------
LEMMA CutChain ==
  ASSUME Types, NEW len \in Nat, NEW f \in [1..len -> Node], Spells(f, len), NEW p \in 1..len,
         Unlink(f[p]), Linked' = Linked \ {f[p]}
  PROVE  Chain' = SubSeq(f, 1, p - 1) \o SubSeq(f, p + 1, Len(f))
  <1>1. Spells(Cut(f, len, p), len - 1)'
    BY UnlinkSpells
  <1>2. len - 1 \in Nat /\ Cut(f, len, p) \in [1..(len - 1) -> Node]
    BY DEF Cut
  <1>3. Chain' = Cut(f, len, p)
    BY <1>1, <1>2, ChainSpellsNext
  <1>. QED  BY <1>3, CutIsSubSeq

LEMMA InitImplements == Init => Queue!Init
  <1>. SUFFICES ASSUME Init PROVE Queue!Init
    OBVIOUS
  <1>. DEFINE e == [i \in 1..0 |-> Null]
  <1>1. e \in [1..0 -> Node] /\ e = << >>
    OBVIOUS
  <1>2. Spells(e, 0)
    BY <1>1 DEF Init, Spells, Linked
  <1>. HIDE DEF e
  <1>3. Chain = << >>
    BY <1>1, <1>2, ChainSpells
  <1>. QED  BY <1>3 DEF Init, Queue!Init

\* Removing the entry at p from the pointers cuts it out of the queue.
LEMMA DeletesAt ==
  ASSUME IInv, NEW len \in Nat, NEW f \in [1..len -> Node], Spells(f, len), Chain = f,
         NEW p \in 1..len, RemoveEntry(f[p])
  PROVE  Queue!Delete(f[p])
  <1>1. Types /\ Unlink(f[p])
    BY DEF IInv, RemoveEntry
  <1>2. f[p] \in Node /\ f[p] \in Linked
    BY DEF Spells
  <1>3. Linked' = Linked \ {f[p]}
    BY <1>2 DEF RemoveEntry, Linked
  <1>4. Chain' = SubSeq(f, 1, p - 1) \o SubSeq(f, p + 1, Len(f))
    BY <1>1, <1>3, CutChain
  <1>5. p \in 1..Len(f)
    BY CutIsSubSeq
  <1>6. Queue!Cut(f[p])
    BY <1>4, <1>5 DEF Queue!Cut
  <1>. QED  BY <1>1, <1>6 DEF Queue!Delete, RemoveEntry, Unlink

LEMMA OldestFound ==
  ASSUME NEW len \in Nat, NEW f \in [1..len -> Node], Spells(f, len), Chain = f,
         NEW n \in Node, NEW S, IsFirst(n, S)
  PROVE  Queue!Oldest(n, S) /\ \E p \in 1..len : f[p] = n
  <1>1. PICK p \in 1..len : f[p] = n /\ \A i \in 1..(p - 1) : f[i] \notin S
    BY SearchFinds
  <1>2. n \in S /\ Len(f) = len
    BY DEF IsFirst
  <1>. QED  BY <1>1, <1>2 DEF Queue!Oldest

\* The place of the walk in the chain.
LEMMA WalkFollows ==
  ASSUME NEW len \in Nat, NEW f \in [1..len -> Node], Spells(f, len), Chain = f,
         NEW k \in 1..len, current = f[k], current' = next[current]
  PROVE  Queue!Follows(current, current')
  <1>1. Len(f) = len /\ next[f[k]] = IF k = len THEN Null ELSE f[k + 1]
    BY DEF Spells
  <1>. QED  BY <1>1 DEF Queue!Follows

LEMMA ChainStays ==
  ASSUME NEW len \in Nat, NEW f \in [1..len -> Node], Spells(f, len), Chain = f,
         UNCHANGED <<list, live, detached>>
  PROVE  Chain' = Chain
  <1>1. Spells(f, len)'
    BY DEF Spells, Linked, list
  <1>. QED  BY <1>1, ChainSpellsNext

LEMMA StepImplements == ASSUME IInv, [Next]_vars PROVE [Queue!Next]_(Queue!vars)
  <1>. USE NullAssumption
  <1>1. PICK len \in Nat : \E f \in [1..len -> Node] :
          Spells(f, len) /\ \E k \in 1..(len + 1) : Stands(f, len, k)
    BY DEF IInv, Shape
  <1>2. PICK f \in [1..len -> Node] :
          Spells(f, len) /\ \E k \in 1..(len + 1) : Stands(f, len, k)
    BY <1>1
  <1>3. PICK k \in 1..(len + 1) : Stands(f, len, k)
    BY <1>2
  <1>4. Spells(f, len) /\ Chain = f
    BY <1>2, ChainSpells
  <1>5. /\ f \in Seq(Node) /\ Len(f) = len
        /\ current = IF k = len + 1 THEN Null ELSE f[k]
        /\ len = 0 <=> first = Null
        /\ len # 0 => first = f[1]
    BY <1>3, <1>4 DEF Stands, Spells
  <1>6. UNCHANGED <<list, live, detached>> => Chain' = Chain
    BY <1>4, ChainStays
  <1>7. Types /\ (freeing => current = Null)
    BY DEF IInv
  <1>8. ASSUME NEW n \in Node, NEW id \in MsgId, Add(n, id) PROVE Queue!Add(n)
    <2>. DEFINE g == [i \in 1..(len + 1) |-> IF i = len + 1 THEN n ELSE f[i]]
    <2>1. Spells(g, len + 1)'
      BY <1>4, <1>7, <1>8, AddSpells
    <2>2. len + 1 \in Nat /\ g \in [1..(len + 1) -> Node] /\ g = Append(f, n)
      <3>1. g \in [1..(len + 1) -> Node]
        OBVIOUS
      <3>2. g \in Seq(Node) /\ Len(g) = len + 1
        BY <3>1
      <3>3. Append(f, n) \in Seq(Node) /\ Len(Append(f, n)) = len + 1
        BY <1>5
      <3>4. \A i \in 1..(len + 1) : g[i] = Append(f, n)[i]
        BY <1>5
      <3>. HIDE DEF g
      <3>. QED  BY <3>1, <3>2, <3>3, <3>4, SeqEqual
    <2>. HIDE DEF g
    <2>3. Chain' = Append(f, n)
      BY <2>1, <2>2, ChainSpellsNext
    <2>4. ~Queue!Has(n) /\ n \notin detached
      BY <1>4, <1>5, <1>7, <1>8 DEF Queue!Has, Add, Spells, Linked, Types
    <2>. QED  BY <1>4, <1>8, <2>3, <2>4 DEF Queue!Add, Add
  <1>9. ASSUME NEW id \in MsgId, Remove(id) PROVE \E n \in Node : Queue!Remove(n)
    <2>1. PICK n \in Node \ {current} : IsFirst(n, {m \in Node : msgid[m] = id}) /\ RemoveEntry(n)
      BY <1>9 DEF Remove
    <2>2. Queue!Oldest(n, {m \in Node : msgid[m] = id})
      BY <1>4, <2>1, OldestFound
    <2>3. PICK p \in 1..len : f[p] = n
      BY <1>4, <2>1, OldestFound
    <2>4. Queue!Delete(n)
      BY <1>4, <2>1, <2>3, DeletesAt
    <2>5. UNCHANGED <<current, freeing>> /\ ~freeing
      BY <1>9, <2>1 DEF Remove, RemoveEntry
    <2>. QED  BY <2>1, <2>2, <2>4, <2>5 DEF Queue!Remove
  <1>10. ASSUME Timeout PROVE \E n \in Node : Queue!Take(n)
    <2>1. PICK n \in Node : IsFirst(n, expired) /\ Unlink(n) /\ detached' = detached \cup {n}
      BY <1>10 DEF Timeout
    <2>2. Queue!Oldest(n, expired)
      BY <1>4, <2>1, OldestFound
    <2>3. PICK p \in 1..len : f[p] = n
      BY <1>4, <2>1, OldestFound
    <2>4. Linked' = Linked \ {f[p]}
      BY <1>10, <2>1, <2>3 DEF Timeout, Linked
    <2>5. Queue!Cut(n)
      BY <1>4, <1>5, <1>7, <2>1, <2>3, <2>4, CutChain DEF Queue!Cut
    <2>. QED  BY <1>10, <2>1, <2>2, <2>5 DEF Queue!Take, Timeout, Unlink
  <1>11. ASSUME StartWalk PROVE Queue!Walk
    BY <1>4, <1>5, <1>6, <1>11 DEF StartWalk, Queue!Walk
  <1>12. ASSUME StepWalk PROVE Queue!Walk
    <2>1. k \in 1..len /\ current = f[k]
      BY <1>5, <1>12 DEF StepWalk
    <2>2. Queue!Follows(current, current')
      BY <1>4, <1>12, <2>1, WalkFollows DEF StepWalk
    <2>. QED  BY <1>6, <1>7, <1>12, <2>2 DEF StepWalk, Queue!Walk
  <1>13. ASSUME RemoveCurrent PROVE Queue!RemoveAt
    <2>1. k \in 1..len /\ current = f[k]
      BY <1>5, <1>13 DEF RemoveCurrent
    <2>2. Queue!Follows(current, current')
      BY <1>4, <1>13, <2>1, WalkFollows DEF RemoveCurrent
    <2>3. Queue!Delete(current)
      BY <1>4, <1>13, <2>1, DeletesAt DEF RemoveCurrent
    <2>4. ~freeing /\ freeing' = freeing
      BY <1>7, <1>13 DEF RemoveCurrent, RemoveEntry
    <2>. QED  BY <2>2, <2>3, <2>4 DEF Queue!RemoveAt
  <1>14. ASSUME FreeFirst PROVE Queue!Empty
    <2>1. 1 \in 1..len /\ first = f[1] /\ Head(f) = f[1] /\ f # << >>
      BY <1>5, <1>14 DEF FreeFirst
    <2>2. Queue!Delete(Head(Chain))
      BY <1>4, <1>14, <2>1, DeletesAt DEF FreeFirst
    <2>3. freeing /\ UNCHANGED <<current, freeing>>
      BY <1>14 DEF FreeFirst, RemoveEntry
    <2>. QED  BY <1>4, <2>1, <2>2, <2>3 DEF Queue!Empty
  <1>15. ASSUME StartFree \/ EndFree PROVE Queue!Empty
    <2>1. first = Null => f = << >>
      BY <1>5
    <2>. QED  BY <1>4, <1>6, <1>15, <2>1 DEF StartFree, EndFree, Queue!Empty
  <1>16. ASSUME NEW n \in Node, Expire(n) PROVE Queue!Expire(n)
    <2>1. Queue!Has(n)
      BY <1>4, <1>5, <1>16 DEF Expire, Spells, Queue!Has
    <2>. QED  BY <1>6, <1>16, <2>1 DEF Expire, Queue!Expire
  <1>17. ASSUME UNCHANGED vars PROVE UNCHANGED Queue!vars
    BY <1>6, <1>17 DEF vars, list, Queue!vars
  <1>. QED
    BY <1>8, <1>9, <1>10, <1>11, <1>12, <1>13, <1>14, <1>15, <1>16, <1>17
       DEF Next, Walk, Free, Queue!Next

\* The doubly linked list is the queue of MsgQueue, for any number of cells: entries keep
\* their order, an id finds its oldest entry, and the walk takes the entries in turn whatever
\* is added or removed behind it.
THEOREM ImplementsMsgQueueHolds == Spec => ImplementsMsgQueue
  BY InitImplements, StepImplements, IInvHolds, PTL DEF Spec, ImplementsMsgQueue, Queue!Spec
=============================================================================
