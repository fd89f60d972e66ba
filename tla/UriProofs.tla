------------------------------ MODULE UriProofs ------------------------------
(***************************************************************************)
(* Theorems about Uri and Request, for every URI: the options found fit    *)
(* the array that an estimate made for them, each turn of the parser moves *)
(* on, the two functions that read the authority read it alike, the        *)
(* options are those that the components of the URI stand for, and the     *)
(* server finds them, and the application's own, in the message it gets.   *)
(***************************************************************************)
EXTENDS Request, NatFacts, FiniteSetTheorems, SequenceTheorems

\* No string holds its terminating 0, and only hosts hold brackets.
Word == (STRING \cup {":", "/", "?", "&"}) \ {"end"}
Open == Word \ {"]"}

-----------------------------------------------------------------------------
(* Where the components are in the URI made of them.                       *)

\* FlattenSeq joins the sequences one by one.
LEMMA FlattenIsJoined ==
  ASSUME NEW S, NEW s \in Seq(Seq(S)), NEW joined \in [0..Len(s) -> Seq(S)], Joins(s, joined)
  PROVE  FlattenSeq(s) = joined[Len(s)]
  <1>1. CASE Len(s) = 0
    BY <1>1 DEF FlattenSeq, Joins
  <1>2. CASE Len(s) # 0
    BY <1>2, JoinedByFunction DEF FlattenSeq
  <1>. QED  BY <1>1, <1>2

\* The lists joined, a mark before each.
Pieces(lists, marks) == FlattenSeq([i \in DOMAIN lists |-> Prefixed(marks[i], lists[i])])

\* The i-th of the lists in f, a mark before each, stands behind ends[i - 1].
ArePieces(lists, marks, f, ends) ==
  /\ ends \in [0..Len(lists) -> Nat] /\ ends[0] = 0 /\ ends[Len(lists)] = Len(f)
  /\ \A i \in 1..Len(lists) :
       /\ ends[i] = ends[i - 1] + 1 + Len(lists[i]) /\ ends[i] <= Len(f)
       /\ f[ends[i - 1] + 1] = marks[i]
       /\ \A j \in 1..Len(lists[i]) : f[ends[i - 1] + 1 + j] = lists[i][j]

LEMMA PiecesInOrder ==
  ASSUME NEW S, NEW lists \in Seq(Seq(S)), NEW marks \in [1..Len(lists) -> S]
  PROVE  /\ Pieces(lists, marks) \in Seq(S)
         /\ \E ends : ArePieces(lists, marks, Pieces(lists, marks), ends)
  <1>. DEFINE n == Len(lists)
              s == [i \in 1..n |-> Prefixed(marks[i], lists[i])]
  <1>1. n \in Nat /\ \A i \in 1..n : lists[i] \in Seq(S) /\ marks[i] \in S
    <2>1. Len(lists) \in Nat /\ \A i \in 1..Len(lists) : lists[i] \in Seq(S)
      OBVIOUS
    <2>2. \A i \in 1..Len(lists) : marks[i] \in S
      OBVIOUS
    <2>. QED  BY <2>1, <2>2
  <1>2. ASSUME NEW i \in 1..n
        PROVE  /\ s[i] \in Seq(S) /\ Len(s[i]) = 1 + Len(lists[i]) /\ s[i][1] = marks[i]
               /\ \A j \in 1..Len(lists[i]) : s[i][1 + j] = lists[i][j]
    <2>. DEFINE w == lists[i]
                m == marks[i]
    <2>1. s[i] = <<m>> \o w /\ w \in Seq(S) /\ m \in S
      BY <1>1 DEF Prefixed
    <2>. HIDE DEF w, m
    <2>2. <<m>> \in Seq(S) /\ Len(<<m>>) = 1 /\ <<m>>[1] = m
      BY <2>1
    <2>3. <<m>> \o w \in Seq(S) /\ Follows(<<m>>, w, <<m>> \o w)
      BY <2>1, <2>2, JoinedTwo
    <2>4. 1 \in 1..1
      OBVIOUS
    <2>. QED  BY <2>1, <2>2, <2>3, <2>4 DEF Follows, w, m
  <1>3. s \in Seq(Seq(S)) /\ Len(s) = n
    <2>. HIDE DEF n
    <2>1. s \in [1..n -> Seq(S)]
      BY <1>2
    <2>. HIDE DEF s
    <2>. QED  BY <1>1, <2>1
  <1>a. Pieces(lists, marks) = FlattenSeq(s)
    <2>1. DOMAIN lists = 1..n
      OBVIOUS
    <2>. QED  BY <2>1 DEF Pieces
  <1>4. PICK joined : IsJoining(s, joined, S)
    <2>. HIDE DEF s
    <2>. QED  BY <1>3, JoinedSequences
  <1>5. joined \in [0..n -> Seq(S)] /\ joined[0] = <<>> /\ FlattenSeq(s) = joined[n]
    <2>. HIDE DEF s, n
    <2>1. joined \in [0..Len(s) -> Seq(S)] /\ Joins(s, joined)
      BY <1>4 DEF IsJoining
    <2>. QED  BY <1>3, <2>1, FlattenIsJoined DEF Joins
  <1>. DEFINE f == joined[n]
              ends == [i \in 0..n |-> Len(joined[i])]
  <1>. HIDE DEF n, s
  <1>6. \A i \in 0..n : joined[i] \in Seq(S) /\ ends[i] = Len(joined[i]) /\ ends[i] \in Nat
    <2>1. \A q \in Seq(S) : Len(q) \in Nat
      OBVIOUS
    <2>. QED  BY <1>5, <2>1
  <1>7. ends \in [0..n -> Nat] /\ ends[0] = 0 /\ ends[n] = Len(f) /\ f \in Seq(S)
    <2>1. 0 \in 0..n /\ n \in 0..n
      BY <1>1
    <2>2. ends[0] = 0
      BY <1>5, <2>1
    <2>. QED  BY <1>6, <2>1, <2>2
  <1>8. ASSUME NEW i \in 1..n
        PROVE  /\ ends[i] = ends[i - 1] + 1 + Len(lists[i]) /\ ends[i] <= Len(f)
               /\ f[ends[i - 1] + 1] = marks[i]
               /\ \A j \in 1..Len(lists[i]) : f[ends[i - 1] + 1 + j] = lists[i][j]
    <2>1. n \in 0..Len(s) /\ i \in 0..n /\ i - 1 \in 0..n /\ i \in 1..n
      BY <1>1, <1>3
    <2>2. /\ Len(joined[i]) = Len(joined[i - 1]) + Len(s[i])
          /\ Len(joined[i]) <= Len(joined[n])
          /\ \A j \in 1..Len(s[i]) : joined[n][Len(joined[i - 1]) + j] = s[i][j]
      BY <1>4, <2>1 DEF IsJoining
    <2>3. ends[i] = Len(joined[i]) /\ ends[i - 1] = Len(joined[i - 1]) /\ ends[i - 1] \in Nat
      BY <1>6, <2>1
    <2>4. Len(lists[i]) \in Nat
      BY <1>1
    <2>. DEFINE e == ends[i - 1]
                l == Len(lists[i])
    <2>. HIDE DEF ends, e, l, f
    <2>5. e \in Nat /\ l \in Nat /\ Len(s[i]) = 1 + l
      BY <1>2, <2>3, <2>4 DEF e, l
    <2>6. \A j \in 1..(1 + l) : f[e + j] = s[i][j]
      BY <2>2, <2>3, <2>5 DEF f, e
    <2>7. f[e + 1] = marks[i]
      <3>1. 1 \in 1..(1 + l) /\ s[i][1] = marks[i]
        BY <1>2, <2>5
      <3>. QED  BY <2>6, <3>1
    <2>8. ASSUME NEW j \in 1..l PROVE f[e + 1 + j] = lists[i][j]
      <3>1. 1 + j \in 1..(1 + l) /\ e + (1 + j) = e + 1 + j
        BY <2>5
      <3>2. s[i][1 + j] = lists[i][j]
        BY <1>2 DEF l
      <3>. QED  BY <2>6, <3>1, <3>2
    <2>9. ends[i] = e + 1 + l /\ ends[i] <= Len(f)
      <3>1. ends[i] = Len(joined[i]) /\ Len(joined[i - 1]) = e
        BY <2>3 DEF e
      <3>2. ends[i] = e + (1 + l) /\ ends[i] <= Len(f)
        BY <2>2, <2>5, <3>1 DEF f
      <3>. QED  BY <2>5, <3>2
    <2>. QED  BY <2>7, <2>8, <2>9 DEF e, l
  <1>9. ArePieces(lists, marks, f, ends)
    <2>. HIDE DEF ends, f
    <2>. QED  BY <1>7, <1>8 DEF ArePieces, n
  <1>. QED  BY <1>5, <1>7, <1>9, <1>a

PathMarks(p) == [i \in 1..Len(p.path) |-> "/"]
QueryMarks(p) == [i \in 1..Len(p.query) |-> IF i = 1 THEN "?" ELSE "&"]
PathText(p) == Pieces(p.path, PathMarks(p))
QueryText(p) == Pieces(p.query, QueryMarks(p))
PortText(p) == IF p.port = NoPort THEN <<>> ELSE <<":", p.port>>
Head3 == <<":", "/", "/">>

\* Where the path begins.
Base(p) == Len(p.scheme) + 3 + Len(p.host) + Len(PortText(p))

LEMMA SeqOfMore == \A S, T, s : S \subseteq T /\ s \in Seq(S) => s \in Seq(T)
  OBVIOUS

LEMMA SeqOfThose == \A S, T, s : s \in Seq(T) /\ (\A i \in 1..Len(s) : s[i] \in S) => s \in Seq(S)
  OBVIOUS

LEMMA FreeType ==
  \A words, marks : Free(words, marks) => words \in Seq(STRING \ (marks \cup {"end"}))
  <1>. SUFFICES ASSUME NEW words, NEW marks, Free(words, marks)
                PROVE  words \in Seq(STRING \ (marks \cup {"end"}))
    OBVIOUS
  <1>1. words \in Seq(STRING) /\ \A i \in 1..Len(words) : words[i] \notin marks \cup {"end"}
    BY DEF Free
  <1>. QED  BY <1>1

\* The texts that a URI is joined from.
LEMMA PartTypes ==
  ASSUME NEW p \in Parts
  PROVE  /\ p.scheme \in Seq(Word) /\ p.host \in Seq(Word)
         /\ PortText(p) \in Seq(Open)
         /\ p.path \in Seq(Seq(Open)) /\ p.query \in Seq(Seq(Open))
  <1>1. /\ Free(p.scheme, {":"}) /\ HostIsFree(p.host)
        /\ p.port \in STRING \ {"end", "/", "?", "]"}
        /\ p.path \in Seq(Seq(STRING)) /\ p.query \in Seq(Seq(STRING))
        /\ \A i \in DOMAIN p.path : Free(p.path[i], {"/", "?", "]"})
        /\ \A i \in DOMAIN p.query : Free(p.query[i], {"&", "]"})
    BY PartsAssumption
  <1>2. \A words, marks : Free(words, marks) => words \in Seq(Word)
    <2>1. \A marks : STRING \ (marks \cup {"end"}) \subseteq Word
      BY DEF Word
    <2>. QED  BY <2>1, FreeType, SeqOfMore
  <1>3. \A words, marks : Free(words, marks) /\ "]" \in marks => words \in Seq(Open)
    <2>1. \A marks : "]" \in marks => STRING \ (marks \cup {"end"}) \subseteq Open
      BY DEF Open, Word
    <2>. QED  BY <2>1, FreeType, SeqOfMore
  <1>4. p.scheme \in Seq(Word) /\ p.host \in Seq(Word)
    BY <1>1, <1>2 DEF HostIsFree
  <1>5. PortText(p) \in Seq(Open)
    <2>1. ":" \in Open /\ p.port \in Open
      BY <1>1 DEF Open, Word
    <2>. QED  BY <2>1 DEF PortText
  <1>6. p.path \in Seq(Seq(Open))
    <2>1. \A i \in 1..Len(p.path) : p.path[i] \in Seq(Open)
      BY <1>1, <1>3
    <2>. QED  BY <1>1, <2>1, SeqOfThose
  <1>7. p.query \in Seq(Seq(Open))
    <2>1. \A i \in 1..Len(p.query) : p.query[i] \in Seq(Open)
      BY <1>1, <1>3
    <2>. QED  BY <1>1, <2>1, SeqOfThose
  <1>. QED  BY <1>4, <1>5, <1>6, <1>7

LEMMA TextJoined ==
  ASSUME NEW p \in Parts
  PROVE  /\ Text(p) = p.scheme \o Head3 \o p.host \o PortText(p) \o PathText(p) \o QueryText(p)
         /\ PathText(p) \in Seq(Open) /\ QueryText(p) \in Seq(Open)
         /\ \E ends : ArePieces(p.path, PathMarks(p), PathText(p), ends)
         /\ \E ends : ArePieces(p.query, QueryMarks(p), QueryText(p), ends)
  <1>1. p.path \in Seq(Seq(Open)) /\ p.query \in Seq(Seq(Open))
    BY PartTypes
  <1>2. DOMAIN p.path = 1..Len(p.path) /\ DOMAIN p.query = 1..Len(p.query)
    BY <1>1
  <1>3. [i \in DOMAIN p.path |-> Prefixed("/", p.path[i])]
          = [i \in DOMAIN p.path |-> Prefixed(PathMarks(p)[i], p.path[i])]
    BY <1>2 DEF PathMarks
  <1>4. [i \in DOMAIN p.query |-> Prefixed(IF i = 1 THEN "?" ELSE "&", p.query[i])]
          = [i \in DOMAIN p.query |-> Prefixed(QueryMarks(p)[i], p.query[i])]
    BY <1>2 DEF QueryMarks
  <1>5. Text(p) = p.scheme \o Head3 \o p.host \o PortText(p) \o PathText(p) \o QueryText(p)
    BY Zenon, <1>3, <1>4 DEF Text, Head3, PortText, PathText, QueryText, Pieces
  <1>6. /\ PathMarks(p) \in [1..Len(p.path) -> Open]
        /\ QueryMarks(p) \in [1..Len(p.query) -> Open]
    BY DEF PathMarks, QueryMarks, Open, Word
  <1>. QED  BY <1>1, <1>5, <1>6, PiecesInOrder DEF PathText, QueryText

\* t reads s from behind place n on.
ReadsAt(t, n, s) ==
  /\ n \in Nat /\ Len(s) \in Nat /\ n + Len(s) <= Len(t)
  /\ \A j \in 1..Len(s) : t[n + j] = s[j]

LEMMA JoinedBehind ==
  \A S, r, s : r \in Seq(S) /\ s \in Seq(S) =>
    r \o s \in Seq(S) /\ Len(r \o s) = Len(r) + Len(s) /\ ReadsAt(r \o s, Len(r), s)
  BY JoinedTwo DEF Follows, ReadsAt

LEMMA JoinedKeeps ==
  \A S, r, s, n, t : r \in Seq(S) /\ s \in Seq(S) /\ ReadsAt(r, n, t) => ReadsAt(r \o s, n, t)
  <1>. SUFFICES ASSUME NEW S, NEW r \in Seq(S), NEW s \in Seq(S), NEW n, NEW t, ReadsAt(r, n, t)
                PROVE  ReadsAt(r \o s, n, t)
    OBVIOUS
  <1>. DEFINE u == r \o s
  <1>1. Follows(r, s, u)
    BY JoinedTwo
  <1>. HIDE DEF u
  <1>2. n \in Nat /\ Len(t) \in Nat /\ n + Len(t) <= Len(r) /\ Len(r) \in Nat
    BY <1>1 DEF ReadsAt, Follows
  <1>3. ASSUME NEW j \in 1..Len(t) PROVE u[n + j] = t[j]
    <2>1. n + j \in 1..Len(r) /\ r[n + j] = t[j]
      BY <1>2 DEF ReadsAt
    <2>. QED  BY <1>1, <2>1 DEF Follows
  <1>4. n + Len(t) <= Len(u)
    BY <1>1, <1>2 DEF Follows
  <1>. QED  BY <1>2, <1>3, <1>4 DEF ReadsAt, u

\* Where the components before the path are, and that no bracket is closed behind the host.
Begins(p, u) ==
  /\ u \in Seq(Word) /\ Base(p) + Len(PathText(p)) + Len(QueryText(p)) = Len(u)
  /\ ReadsAt(u, 0, p.scheme) /\ ReadsAt(u, Len(p.scheme), Head3)
  /\ ReadsAt(u, Len(p.scheme) + 3, p.host)
  /\ ReadsAt(u, Len(p.scheme) + 3 + Len(p.host), PortText(p))
  /\ ReadsAt(u, Base(p), PathText(p))
  /\ ReadsAt(u, Base(p) + Len(PathText(p)), QueryText(p))

LEMMA TextBegins == ASSUME NEW p \in Parts PROVE Begins(p, Text(p))
  <1>. DEFINE a == p.scheme
              c == p.host
              d == PortText(p)
              e == PathText(p)
              f == QueryText(p)
              n1 == Len(a)
              n2 == n1 + 3
              n3 == n2 + Len(c)
              n4 == n3 + Len(d)
              n5 == n4 + Len(e)
              t2 == a \o Head3
              t3 == t2 \o c
              t4 == t3 \o d
              t5 == t4 \o e
              t6 == t5 \o f
  <1>1. \A s : s \in Seq(Open) => s \in Seq(Word)
    BY SeqOfMore DEF Open
  <1>2. /\ a \in Seq(Word) /\ c \in Seq(Word) /\ d \in Seq(Word) /\ e \in Seq(Word) /\ f \in Seq(Word)
        /\ Head3 \in Seq(Word) /\ Len(Head3) = 3
    <2>1. Head3 \in Seq(Word) /\ Len(Head3) = 3
      BY DEF Head3, Word
    <2>. QED  BY <1>1, <2>1, PartTypes, TextJoined
  <1>3. /\ Len(a) \in Nat /\ Len(c) \in Nat /\ Len(d) \in Nat /\ Len(e) \in Nat /\ Len(f) \in Nat
        /\ n1 \in Nat /\ n2 \in Nat /\ n3 \in Nat /\ n4 \in Nat /\ n5 \in Nat
    <2>1. \A s : s \in Seq(Word) => Len(s) \in Nat
      OBVIOUS
    <2>2. Len(a) \in Nat /\ Len(c) \in Nat /\ Len(d) \in Nat /\ Len(e) \in Nat /\ Len(f) \in Nat
      BY <1>2, <2>1
    <2>. HIDE DEF a, c, d, e, f
    <2>. QED  BY <2>2
  <1>4. Text(p) = t6
    BY TextJoined
  <1>5. Base(p) = n4
    BY DEF Base
  <1>. HIDE DEF a, c, d, e, f, n1, n2, n3, n4, n5, t2, t3, t4, t5, t6
  <1>a. n1 = Len(a) /\ n2 = n1 + 3 /\ n3 = n2 + Len(c) /\ n4 = n3 + Len(d) /\ n5 = n4 + Len(e)
    BY DEF n1, n2, n3, n4, n5
  <1>6. ReadsAt(a, 0, a)
    BY <1>3 DEF ReadsAt
  <1>7. t2 \in Seq(Word) /\ Len(t2) = n2 /\ ReadsAt(t2, n1, Head3)
    <2>1. a \in Seq(Word) /\ Head3 \in Seq(Word) /\ Len(a) = n1
      BY <1>2, <1>6, <1>a
    <2>2. t2 \in Seq(Word) /\ Len(t2) = Len(a) + Len(Head3) /\ ReadsAt(t2, Len(a), Head3)
      BY <2>1, JoinedBehind DEF t2
    <2>. QED  BY <1>2, <1>a, <2>1, <2>2
  <1>8. ReadsAt(t2, 0, a)
    BY <1>2, <1>7, <1>6, JoinedKeeps DEF t2
  <1>9. t3 \in Seq(Word) /\ Len(t3) = n3 /\ ReadsAt(t3, n2, c)
    <2>1. t2 \in Seq(Word) /\ c \in Seq(Word) /\ Len(t2) = n2
      BY <1>2, <1>7, <1>a
    <2>2. t3 \in Seq(Word) /\ Len(t3) = Len(t2) + Len(c) /\ ReadsAt(t3, Len(t2), c)
      BY <2>1, JoinedBehind DEF t3
    <2>. QED  BY <1>2, <1>a, <2>1, <2>2
  <1>10. ReadsAt(t3, 0, a) /\ ReadsAt(t3, n1, Head3)
    BY <1>2, <1>9, <1>8, <1>7, JoinedKeeps DEF t3
  <1>11. t4 \in Seq(Word) /\ Len(t4) = n4 /\ ReadsAt(t4, n3, d)
    <2>1. t3 \in Seq(Word) /\ d \in Seq(Word) /\ Len(t3) = n3
      BY <1>2, <1>9, <1>a
    <2>2. t4 \in Seq(Word) /\ Len(t4) = Len(t3) + Len(d) /\ ReadsAt(t4, Len(t3), d)
      BY <2>1, JoinedBehind DEF t4
    <2>. QED  BY <1>2, <1>a, <2>1, <2>2
  <1>12. ReadsAt(t4, 0, a) /\ ReadsAt(t4, n1, Head3) /\ ReadsAt(t4, n2, c)
    BY <1>2, <1>11, <1>10, <1>9, JoinedKeeps DEF t4
  <1>13. t5 \in Seq(Word) /\ Len(t5) = n5 /\ ReadsAt(t5, n4, e)
    <2>1. t4 \in Seq(Word) /\ e \in Seq(Word) /\ Len(t4) = n4
      BY <1>2, <1>11, <1>a
    <2>2. t5 \in Seq(Word) /\ Len(t5) = Len(t4) + Len(e) /\ ReadsAt(t5, Len(t4), e)
      BY <2>1, JoinedBehind DEF t5
    <2>. QED  BY <1>2, <1>a, <2>1, <2>2
  <1>14. ReadsAt(t5, 0, a) /\ ReadsAt(t5, n1, Head3) /\ ReadsAt(t5, n2, c) /\ ReadsAt(t5, n3, d)
    BY <1>2, <1>13, <1>12, <1>11, JoinedKeeps DEF t5
  <1>15. t6 \in Seq(Word) /\ Len(t6) = n5 + Len(f) /\ ReadsAt(t6, n5, f)
    <2>1. t5 \in Seq(Word) /\ f \in Seq(Word) /\ Len(t5) = n5
      BY <1>2, <1>13, <1>a
    <2>2. t6 \in Seq(Word) /\ Len(t6) = Len(t5) + Len(f) /\ ReadsAt(t6, Len(t5), f)
      BY <2>1, JoinedBehind DEF t6
    <2>. QED  BY <1>2, <1>a, <2>1, <2>2
  <1>16. /\ ReadsAt(t6, 0, a) /\ ReadsAt(t6, n1, Head3) /\ ReadsAt(t6, n2, c) /\ ReadsAt(t6, n3, d)
         /\ ReadsAt(t6, n4, e)
    BY <1>2, <1>15, <1>14, <1>13, JoinedKeeps DEF t6
  <1>. QED  BY <1>4, <1>5, <1>15, <1>16, <1>a, Zenon DEF Begins, a, c, d, e, f

PieceCount(p) == Len(p.path) + Len(p.query)
Mark(p, k) == IF k <= Len(p.path) THEN "/" ELSE IF k = Len(p.path) + 1 THEN "?" ELSE "&"
Piece(p, k) == IF k <= Len(p.path) THEN p.path[k] ELSE p.query[k - Len(p.path)]

\* The k-th piece, a segment of the path or a part of the query, begins at start[k].
Laid(p, u, start) ==
  /\ start \in [1..(PieceCount(p) + 1) -> 0..Len(u)]
  /\ start[1] = Base(p) /\ start[PieceCount(p) + 1] = Len(u)
  /\ \A k \in 1..PieceCount(p) :
       /\ u[start[k] + 1] = Mark(p, k) /\ start[k + 1] = start[k] + 1 + Len(Piece(p, k))
       /\ ReadsAt(u, start[k] + 1, Piece(p, k))

LEMMA TextIsLaid == ASSUME NEW p \in Parts PROVE \E start : Laid(p, Text(p), start)
  <1>. DEFINE u == Text(p)
              m == Len(p.path)
              n == Len(p.query)
              e == PathText(p)
              f == QueryText(p)
              b == Base(p)
  <1>1. Begins(p, u)
    BY TextBegins
  <1>2. /\ ReadsAt(u, b, e) /\ ReadsAt(u, b + Len(e), f)
        /\ b \in Nat /\ Len(e) \in Nat /\ Len(f) \in Nat /\ b + Len(e) + Len(f) = Len(u)
    BY <1>1 DEF Begins, ReadsAt
  <1>3. /\ m \in Nat /\ n \in Nat /\ \A i \in 1..m : Len(p.path[i]) \in Nat
        /\ \A i \in 1..n : Len(p.query[i]) \in Nat
    <2>1. p.path \in Seq(Seq(Open)) /\ p.query \in Seq(Seq(Open))
      BY PartTypes
    <2>2. \A q \in Seq(Open) : Len(q) \in Nat
      OBVIOUS
    <2>. QED  BY <2>1, <2>2
  <1>4. PICK x : ArePieces(p.path, PathMarks(p), e, x)
    BY TextJoined
  <1>5. PICK y : ArePieces(p.query, QueryMarks(p), f, y)
    BY TextJoined
  <1>. DEFINE start == [k \in 1..(m + n + 1) |->
                          IF k <= m THEN b + x[k - 1] ELSE b + Len(e) + y[k - m - 1]]
  <1>. HIDE DEF u, m, n, e, f, b
  <1>6. /\ x \in [0..m -> Nat] /\ x[0] = 0 /\ x[m] = Len(e)
        /\ \A i \in 1..m : /\ x[i] = x[i - 1] + 1 + Len(p.path[i]) /\ x[i] <= Len(e)
                           /\ e[x[i - 1] + 1] = "/"
                           /\ \A j \in 1..Len(p.path[i]) : e[x[i - 1] + 1 + j] = p.path[i][j]
    BY <1>4 DEF ArePieces, PathMarks, m
  <1>7. /\ y \in [0..n -> Nat] /\ y[0] = 0 /\ y[n] = Len(f)
        /\ \A i \in 1..n : /\ y[i] = y[i - 1] + 1 + Len(p.query[i]) /\ y[i] <= Len(f)
                           /\ f[y[i - 1] + 1] = IF i = 1 THEN "?" ELSE "&"
                           /\ \A j \in 1..Len(p.query[i]) : f[y[i - 1] + 1 + j] = p.query[i][j]
    BY <1>5 DEF ArePieces, QueryMarks, n
  <1>8. PieceCount(p) = m + n
    BY DEF PieceCount, m, n
  <1>a. \A k \in 1..m : start[k] = b + x[k - 1]
    <2>1. \A k \in 1..m : k \in 1..(m + n + 1) /\ k <= m
      BY <1>3
    <2>. QED  BY <2>1
  <1>b. ASSUME NEW i \in 0..n, NEW k, k = m + 1 + i PROVE start[k] = b + Len(e) + y[i]
    <2>1. k \in 1..(m + n + 1) /\ ~(k <= m) /\ k - m - 1 = i
      BY <1>3, <1>b
    <2>. QED  BY <2>1
  <1>. HIDE DEF start
  \* The pieces of the path.
  <1>10. ASSUME NEW k \in 1..m
         PROVE  /\ k \in 1..(m + n) /\ start[k] \in 0..Len(u)
                /\ u[start[k] + 1] = Mark(p, k) /\ start[k + 1] = start[k] + 1 + Len(Piece(p, k))
                /\ ReadsAt(u, start[k] + 1, Piece(p, k))
    <2>. DEFINE w == p.path[k]
                l == Len(w)
                at == x[k - 1]
    <2>1. k - 1 \in 0..m /\ k \in 0..m /\ k <= m /\ k \in 1..(m + n + 1) /\ k + 1 \in 1..(m + n + 1)
      BY <1>3
    <2>2. at \in Nat /\ l \in Nat /\ x[k] = at + 1 + l /\ x[k] <= Len(e)
      BY <1>3, <1>6, <2>1
    <2>3. e[at + 1] = "/" /\ \A j \in 1..l : e[at + 1 + j] = w[j]
      BY <1>6
    <2>4. Piece(p, k) = w /\ Mark(p, k) = "/"
      BY <2>1 DEF Piece, Mark, m
    <2>. HIDE DEF w, l, at
    <2>5. start[k] = b + at
      BY <1>a DEF at
    <2>6. start[k + 1] = b + x[k]
      <3>1. CASE k = m
        <4>1. k + 1 = m + 1 + 0 /\ 0 \in 0..n
          BY <1>3, <3>1
        <4>2. start[k + 1] = b + Len(e) + y[0]
          BY <1>b, <4>1
        <4>3. y[0] = 0 /\ x[k] = Len(e)
          BY <1>6, <1>7, <3>1
        <4>. QED  BY <1>2, <4>2, <4>3
      <3>2. CASE k # m
        <4>1. k + 1 \in 1..m /\ k + 1 - 1 = k
          BY <1>3, <3>2
        <4>. QED  BY <1>a, <4>1
      <3>. QED  BY <3>1, <3>2
    <2>7. \A j \in 1..Len(e) : u[b + j] = e[j]
      BY <1>2 DEF ReadsAt
    <2>8. u[b + at + 1] = "/"
      <3>1. at + 1 \in 1..Len(e) /\ b + (at + 1) = b + at + 1
        BY <1>2, <2>2
      <3>. QED  BY <2>3, <2>7, <3>1
    <2>9. ASSUME NEW j \in 1..l PROVE u[b + at + 1 + j] = w[j]
      <3>1. at + 1 + j \in 1..Len(e) /\ b + (at + 1 + j) = b + at + 1 + j
        BY <1>2, <2>2
      <3>. QED  BY <2>3, <2>7, <3>1
    <2>10. b + at + 1 \in Nat /\ b + at + 1 + l <= Len(u) /\ b + at \in 0..Len(u)
      BY <1>2, <2>2
    <2>11. ReadsAt(u, b + at + 1, w)
      BY <2>2, <2>9, <2>10 DEF ReadsAt, l
    <2>12. start[k + 1] = b + at + 1 + l
      BY <1>2, <2>2, <2>6
    <2>. QED  BY <1>3, <2>1, <2>4, <2>5, <2>8, <2>10, <2>11, <2>12 DEF l
  \* The parts of the query.
  <1>11. ASSUME NEW i \in 1..n
         PROVE  /\ m + i \in 1..(m + n) /\ start[m + i] \in 0..Len(u)
                /\ u[start[m + i] + 1] = Mark(p, m + i)
                /\ start[m + i + 1] = start[m + i] + 1 + Len(Piece(p, m + i))
                /\ ReadsAt(u, start[m + i] + 1, Piece(p, m + i))
    <2>. DEFINE w == p.query[i]
                l == Len(w)
                at == y[i - 1]
                c == b + Len(e)
                k == m + i
    <2>1. /\ i - 1 \in 0..n /\ i \in 0..n /\ k \in 1..(m + n) /\ k + 1 \in 1..(m + n + 1)
          /\ k \in 1..(m + n + 1) /\ ~(k <= m) /\ k - m = i /\ (k = m + 1 <=> i = 1)
          /\ k = m + 1 + (i - 1) /\ k + 1 = m + 1 + i
      BY <1>3
    <2>2. at \in Nat /\ l \in Nat /\ y[i] = at + 1 + l /\ y[i] <= Len(f)
      BY <1>3, <1>7, <2>1
    <2>3. f[at + 1] = (IF i = 1 THEN "?" ELSE "&") /\ \A j \in 1..l : f[at + 1 + j] = w[j]
      BY <1>7
    <2>. HIDE DEF k
    <2>4. Piece(p, k) = w /\ Mark(p, k) = IF i = 1 THEN "?" ELSE "&"
      BY <2>1 DEF Piece, Mark, m
    <2>. HIDE DEF w, l, at, c
    <2>5. start[k] = c + at /\ start[k + 1] = c + y[i]
      BY <1>b, <2>1 DEF at, c
    <2>6. c \in Nat /\ c + Len(f) = Len(u) /\ \A j \in 1..Len(f) : u[c + j] = f[j]
      BY <1>2 DEF ReadsAt, c
    <2>7. u[c + at + 1] = IF i = 1 THEN "?" ELSE "&"
      <3>1. at + 1 \in 1..Len(f) /\ c + (at + 1) = c + at + 1
        BY <1>2, <2>2, <2>6
      <3>. QED  BY <2>3, <2>6, <3>1
    <2>8. ASSUME NEW j \in 1..l PROVE u[c + at + 1 + j] = w[j]
      <3>1. at + 1 + j \in 1..Len(f) /\ c + (at + 1 + j) = c + at + 1 + j
        BY <1>2, <2>2, <2>6
      <3>. QED  BY <2>3, <2>6, <3>1
    <2>9. c + at + 1 \in Nat /\ c + at + 1 + l <= Len(u) /\ c + at \in 0..Len(u)
      BY <1>2, <2>2, <2>6
    <2>10. ReadsAt(u, c + at + 1, w)
      BY <2>2, <2>8, <2>9 DEF ReadsAt, l
    <2>11. start[k + 1] = c + at + 1 + l
      BY <2>2, <2>5, <2>6
    <2>12. /\ k \in 1..(m + n) /\ start[k] \in 0..Len(u) /\ u[start[k] + 1] = Mark(p, k)
           /\ start[k + 1] = start[k] + 1 + Len(Piece(p, k))
           /\ ReadsAt(u, start[k] + 1, Piece(p, k))
      BY <2>1, <2>4, <2>5, <2>7, <2>9, <2>10, <2>11 DEF l
    <2>. QED  BY <2>12 DEF k
  <1>12. start[m + n + 1] = Len(u) /\ m + n + 1 \in 1..(m + n + 1)
    <2>1. m + n + 1 = m + 1 + n /\ n \in 0..n /\ m + n + 1 \in 1..(m + n + 1)
      BY <1>3
    <2>2. start[m + n + 1] = b + Len(e) + y[n]
      BY <1>b, <2>1
    <2>. QED  BY <1>2, <1>7, <2>1, <2>2
  <1>13. start[1] = b
    <2>1. CASE m = 0
      <3>1. 1 = m + 1 + 0 /\ 0 \in 0..n
        BY <1>3, <2>1
      <3>2. start[1] = b + Len(e) + y[0]
        BY <1>b, <3>1
      <3>. QED  BY <1>2, <1>6, <1>7, <2>1, <3>2
    <2>2. CASE m # 0
      <3>1. 1 \in 1..m /\ 1 - 1 = 0
        BY <1>3, <2>2
      <3>2. start[1] = b + x[0]
        BY <1>a, <3>1
      <3>. QED  BY <1>2, <1>6, <3>2
    <2>. QED  BY <2>1, <2>2
  <1>14. \A k \in 1..(m + n) : k \in 1..m \/ \E i \in 1..n : k = m + i
    <2>1. ASSUME NEW k \in 1..(m + n), ~(k \in 1..m) PROVE k - m \in 1..n /\ k = m + (k - m)
      BY <1>3, <2>1
    <2>. QED  BY <2>1
  <1>15. ASSUME NEW k \in 1..(m + n)
         PROVE  /\ start[k] \in 0..Len(u)
                /\ u[start[k] + 1] = Mark(p, k) /\ start[k + 1] = start[k] + 1 + Len(Piece(p, k))
                /\ ReadsAt(u, start[k] + 1, Piece(p, k))
    BY <1>10, <1>11, <1>14
  <1>16. start \in [1..(m + n + 1) -> 0..Len(u)]
    <2>1. ASSUME NEW k \in 1..(m + n + 1) PROVE start[k] \in 0..Len(u)
      <3>1. CASE k = m + n + 1
        BY <1>2, <1>12, <3>1
      <3>2. CASE k # m + n + 1
        <4>1. k \in 1..(m + n)
          BY <1>3, <3>2
        <4>. QED  BY <1>15, <4>1
      <3>. QED  BY <3>1, <3>2
    <2>. QED  BY <2>1 DEF start
  <1>17. Laid(p, u, start)
    BY <1>8, <1>12, <1>13, <1>15, <1>16 DEF Laid, b
  <1>. QED  BY <1>17 DEF u

\* Behind the host no bracket is closed.
LEMMA NoneClosedBehind ==
  ASSUME NEW p \in Parts, NEW i \in (Len(p.scheme) + 3 + Len(p.host) + 1)..Len(Text(p))
  PROVE  Text(p)[i] # "]"
  <1>. DEFINE u == Text(p)
              a == Len(p.scheme) + 3 + Len(p.host)
              d == PortText(p)
              e == PathText(p)
              f == QueryText(p)
  <1>1. Begins(p, u)
    BY TextBegins
  <1>2. d \in Seq(Open) /\ e \in Seq(Open) /\ f \in Seq(Open)
    BY PartTypes, TextJoined
  <1>3. /\ a \in Nat /\ ReadsAt(u, a, d) /\ ReadsAt(u, a + Len(d), e)
        /\ ReadsAt(u, a + Len(d) + Len(e), f) /\ a + Len(d) + Len(e) + Len(f) = Len(u)
    BY <1>1 DEF Begins, ReadsAt, Base
  <1>. HIDE DEF u, a, d, e, f
  <1>4. Len(d) \in Nat /\ Len(e) \in Nat /\ Len(f) \in Nat
    BY <1>3 DEF ReadsAt
  <1>5. i \in (a + 1)..Len(u)
    BY DEF a, u
  <1>6. CASE i <= a + Len(d)
    <2>1. i - a \in 1..Len(d) /\ a + (i - a) = i
      BY <1>3, <1>4, <1>5, <1>6
    <2>2. u[i] = d[i - a]
      BY <1>3, <2>1 DEF ReadsAt
    <2>. QED  BY <1>2, <2>1, <2>2 DEF Open, u
  <1>7. CASE a + Len(d) < i /\ i <= a + Len(d) + Len(e)
    <2>. DEFINE j == i - (a + Len(d))
    <2>1. j \in 1..Len(e) /\ a + Len(d) + j = i
      BY <1>3, <1>4, <1>5, <1>7
    <2>2. u[i] = e[j]
      BY <1>3, <2>1 DEF ReadsAt
    <2>. QED  BY <1>2, <2>1, <2>2 DEF Open, u
  <1>8. CASE a + Len(d) + Len(e) < i
    <2>. DEFINE j == i - (a + Len(d) + Len(e))
    <2>1. j \in 1..Len(f) /\ a + Len(d) + Len(e) + j = i
      BY <1>3, <1>4, <1>5, <1>8
    <2>2. u[i] = f[j]
      BY <1>3, <2>1 DEF ReadsAt
    <2>. QED  BY <1>2, <2>1, <2>2 DEF Open, u
  <1>. QED  BY <1>3, <1>4, <1>5, <1>6, <1>7, <1>8

-----------------------------------------------------------------------------
(* The functions that read a URI.                                          *)

Words == Word \cup {"end", "5683"}
Delimiters(pos) == {i \in pos..(Len(uri) - 1) : At(i) \in {"/", "?", "&"}}

LEMMA AtType ==
  ASSUME uri \in Seq(Words), NEW pos \in Nat
  PROVE  At(pos) \in Words \cup {"end"} /\ (At(pos) # "end" => pos < Len(uri))
  BY DEF At

LEMMA SpanType ==
  ASSUME uri \in Seq(Words), NEW pos \in 0..Len(uri), NEW chars
  PROVE  /\ Span(pos, chars) \in 0..(Len(uri) - pos)
         /\ At(pos + Span(pos, chars)) \in chars \cup {"end"}
  <1>. DEFINE T == {n \in 0..(Len(uri) - pos) : At(pos + n) \in chars \cup {"end"}}
  <1>1. Len(uri) \in Nat /\ pos \in Nat /\ pos <= Len(uri)
    OBVIOUS
  <1>2. Len(uri) - pos \in T
    <2>1. Len(uri) - pos \in 0..(Len(uri) - pos) /\ pos + (Len(uri) - pos) = Len(uri)
      BY <1>1
    <2>2. At(Len(uri)) = "end"
      BY <1>1 DEF At
    <2>. QED  BY <2>1, <2>2
  <1>3. T \subseteq Nat /\ T # {}
    BY <1>1, <1>2
  <1>. HIDE DEF T
  <1>4. \E x \in T : \A y \in T : x <= y
    BY <1>3, LeastElement
  <1>5. Min(T) \in T
    BY <1>4 DEF Min
  <1>. QED  BY <1>5 DEF T, Span

LEMMA AdvanceToType ==
  ASSUME uri \in Seq(Words), NEW pos \in 0..Len(uri), NEW chars
  PROVE  AdvanceTo(pos, chars) \in pos..Len(uri)
  BY SpanType DEF AdvanceTo

LEMMA CopyType ==
  ASSUME uri \in Seq(Words), NEW pos \in 0..Len(uri), NEW n \in Nat
  PROVE  /\ Copy(pos, n) \in Seq(Words)
         /\ Len(Copy(pos, n)) = IF pos + n <= Len(uri) THEN n ELSE Len(uri) - pos
  BY DEF Copy

LEMMA CopySpan ==
  ASSUME uri \in Seq(Words), NEW pos \in 0..Len(uri), NEW chars
  PROVE  /\ Copy(pos, Span(pos, chars)) \in Seq(Words)
         /\ Len(Copy(pos, Span(pos, chars))) = Span(pos, chars)
  <1>1. Span(pos, chars) \in Nat /\ pos + Span(pos, chars) <= Len(uri)
    BY SpanType
  <1>. QED  BY <1>1, CopyType

LEMMA HostType ==
  ASSUME uri \in Seq(Words), NEW pos \in 0..Len(uri)
  PROVE  /\ Host(pos) \in Seq(Words)
         /\ HasHost(pos) => pos + Bracketed(pos) + Len(Host(pos)) \in 0..Len(uri)
  <1>1. CASE At(pos) = "["
    <2>1. pos + 1 \in 0..Len(uri)
      BY <1>1, AtType
    <2>2. Span(pos + 1, {"]"}) \in 0..(Len(uri) - (pos + 1))
      BY <2>1, SpanType
    <2>3. Host(pos) \in Seq(Words) /\ Len(Host(pos)) = Span(pos + 1, {"]"})
      BY <1>1, <2>1, <2>2, CopySpan DEF Host
    <2>4. HasHost(pos) => pos + 1 + Len(Host(pos)) < Len(uri)
      BY <1>1, <2>1, <2>2, <2>3, AtType DEF HasHost
    <2>. QED  BY <1>1, <2>2, <2>3, <2>4 DEF Bracketed
  <1>2. CASE At(pos) # "["
    <2>1. Span(pos, {":", "/"}) \in 0..(Len(uri) - pos)
      BY SpanType
    <2>2. Host(pos) \in Seq(Words) /\ Len(Host(pos)) = Span(pos, {":", "/"})
      BY <1>2, CopySpan DEF Host
    <2>. QED  BY <1>2, <2>1, <2>2 DEF Bracketed
  <1>. QED  BY <1>1, <1>2

LEMMA PortType ==
  ASSUME uri \in Seq(Words), NEW pos \in Nat
  PROVE  Port(pos) \in Words
  <1>1. "end" \in Words /\ "5683" \in Words
    BY DEF Words
  <1>2. At(pos + 1) \in Words
    BY <1>1, AtType
  <1>. QED  BY <1>1, <1>2 DEF Port, MC_DEFAULT_PORT

LEMMA DelimitersCounted ==
  ASSUME uri \in Seq(Words), NEW pos \in Nat
  PROVE  /\ IsFiniteSet(Delimiters(pos))
         /\ EstimateNopts(pos) = Cardinality(Delimiters(pos)) /\ EstimateNopts(pos) \in Nat
  <1>1. IsFiniteSet(pos..(Len(uri) - 1))
    BY FS_Interval
  <1>2. IsFiniteSet(Delimiters(pos))
    BY <1>1, FS_Subset DEF Delimiters
  <1>. QED  BY <1>2, FS_CardinalityType DEF EstimateNopts, Delimiters

\* Behind a delimiter there is at least one less to come.
LEMMA EstimateFalls ==
  ASSUME uri \in Seq(Words), NEW pos \in Nat, At(pos) \in {"/", "?", "&"},
         NEW next \in (pos + 1)..Len(uri)
  PROVE  EstimateNopts(next) + 1 <= EstimateNopts(pos)
  <1>1. pos < Len(uri)
    BY AtType
  <1>2. pos \in Delimiters(pos)
    BY <1>1 DEF Delimiters
  <1>3. Delimiters(next) \subseteq Delimiters(pos) \ {pos}
    BY DEF Delimiters
  <1>4. IsFiniteSet(Delimiters(pos) \ {pos})
        /\ Cardinality(Delimiters(pos) \ {pos}) = Cardinality(Delimiters(pos)) - 1
    BY <1>2, DelimitersCounted, FS_RemoveElement
  <1>5. Cardinality(Delimiters(next)) <= Cardinality(Delimiters(pos) \ {pos})
    BY <1>3, <1>4, FS_Subset
  <1>6. EstimateNopts(next) = Cardinality(Delimiters(next)) /\ EstimateNopts(next) \in Nat
    BY DelimitersCounted
  <1>7. EstimateNopts(pos) = Cardinality(Delimiters(pos)) /\ EstimateNopts(pos) \in Nat
    BY DelimitersCounted
  <1>. QED  BY <1>4, <1>5, <1>6, <1>7

-----------------------------------------------------------------------------
Opts == [num : {"host", "port", "path", "query"}, value : Seq(Words)]

AuthorityPos == AdvanceTo(0, {":"})
HasAuthority == Copy(AuthorityPos, 3) = <<":", "/", "/">> /\ HasHost(AuthorityPos + 3)
PortPos == AuthorityPos + 3 + Bracketed(AuthorityPos + 3) + Len(Host(AuthorityPos + 3))
HostRead == Host(AuthorityPos + 3)
PortRead == Port(PortPos)

\* Room is left for an option at every delimiter still ahead.
RoomLeft ==
  /\ current \in 0..Len(uri) /\ nopts \in Nat /\ Len(options) <= nopts
  /\ stage \in {"path", "query"} => Len(options) + EstimateNopts(current) <= nopts

\* What mc_uri_to_address and mc_uri_to_options have made of the authority.
AuthorityRead ==
  /\ stage \in {"authority", "refused"} /\ address # NoAddress => HasAuthority
  /\ stage \in {"authority", "path", "query", "done"} /\ HasAuthority =>
       address = [host |-> HostRead, port |-> PortRead]
  /\ stage = "refused" => ~(ValidScheme /\ HasAuthority)
  /\ stage \in {"path", "query", "done"} =>
       /\ HasAuthority
       /\ ~matches => /\ Len(options) >= 2
                      /\ options[1] = Option("host", HostRead)
                      /\ options[2] = Option("port", <<PortRead>>)

IInv == uri \in Seq(Words) /\ options \in Seq(Opts) /\ RoomLeft /\ AuthorityRead

LEMMA AuthorityType ==
  ASSUME uri \in Seq(Words), HasAuthority
  PROVE  PortPos \in 0..Len(uri) /\ HostRead \in Seq(Words) /\ PortRead \in Words
  <1>1. AuthorityPos \in 0..Len(uri)
    BY AdvanceToType DEF AuthorityPos
  <1>2. Len(Copy(AuthorityPos, 3)) = 3
    BY DEF HasAuthority
  <1>3. Len(Copy(AuthorityPos, 3)) =
          IF AuthorityPos + 3 <= Len(uri) THEN 3 ELSE Len(uri) - AuthorityPos
    <2>. DEFINE n == 3
    <2>1. n \in Nat
      OBVIOUS
    <2>. HIDE DEF n
    <2>2. Len(Copy(AuthorityPos, n)) =
            IF AuthorityPos + n <= Len(uri) THEN n ELSE Len(uri) - AuthorityPos
      BY <1>1, <2>1, CopyType
    <2>. QED  BY <2>2 DEF n
  <1>4. AuthorityPos + 3 \in 0..Len(uri)
    <2>1. Len(uri) \in Nat /\ AuthorityPos \in Nat /\ AuthorityPos <= Len(uri)
      BY <1>1
    <2>2. 3 = IF AuthorityPos + 3 <= Len(uri) THEN 3 ELSE Len(uri) - AuthorityPos
      BY <1>2, <1>3, Zenon
    <2>3. AuthorityPos + 3 <= Len(uri)
      BY <2>1, <2>2
    <2>. QED  BY <2>1, <2>3
  <1>5. HasHost(AuthorityPos + 3)
    BY DEF HasAuthority
  <1>6. PortPos \in 0..Len(uri) /\ HostRead \in Seq(Words)
    BY <1>4, <1>5, HostType DEF PortPos, HostRead
  <1>. QED  BY <1>6, PortType DEF PortRead

LEMMA ParserInit == Init => IInv
  <1>. SUFFICES ASSUME Init PROVE IInv
    OBVIOUS
  <1>1. uri \in Seq(Words)
    <2>1. uri \in Seq(Word)
      BY TextBegins DEF Init, Begins
    <2>. QED  BY <2>1, SeqOfMore DEF Words
  <1>. QED  BY <1>1 DEF Init, IInv, RoomLeft, AuthorityRead

LEMMA UriStays ==
  ASSUME [Next]_vars
  PROVE  uri' = uri /\ matches' = matches
  BY DEF Next, vars, ToAddress, ParseAuthority, TakePath, EndPath, TakeQuery, EndQuery

\* What is read depends on the URI and the position only.
LEMMA ReadStays ==
  ASSUME uri' = uri
  PROVE  /\ HasAuthority' = HasAuthority /\ ValidScheme' = ValidScheme
         /\ HostRead' = HostRead /\ PortRead' = PortRead
         /\ \A pos : EstimateNopts(pos)' = EstimateNopts(pos)
  <1>1. \A pos : At(pos)' = At(pos)
    BY DEF At
  <1>2. \A pos, n : Copy(pos, n)' = Copy(pos, n)
    BY DEF Copy
  <1>3. \A pos, chars : Span(pos, chars)' = Span(pos, chars)
    <2>. TAKE pos, chars
    <2>1. {n \in 0..(Len(uri') - pos) : At(pos + n)' \in chars \cup {"end"}}
            = {n \in 0..(Len(uri) - pos) : At(pos + n) \in chars \cup {"end"}}
      BY <1>1
    <2>. QED  BY <2>1 DEF Span
  <1>4. \A pos, chars : AdvanceTo(pos, chars)' = AdvanceTo(pos, chars)
    BY <1>3 DEF AdvanceTo
  <1>5. \A pos : Host(pos)' = Host(pos)
    BY <1>1, <1>2, <1>3 DEF Host
  <1>6. \A pos : HasHost(pos)' = HasHost(pos) /\ Bracketed(pos)' = Bracketed(pos)
    BY <1>1, <1>5 DEF HasHost, Bracketed
  <1>7. \A pos : Port(pos)' = Port(pos)
    BY <1>1 DEF Port
  <1>8. AuthorityPos' = AuthorityPos
    BY <1>4 DEF AuthorityPos
  <1>9. HasAuthority' = HasAuthority /\ HostRead' = HostRead /\ PortPos' = PortPos
    BY <1>2, <1>5, <1>6, <1>8 DEF HasAuthority, HostRead, PortPos
  <1>10. PortRead' = PortRead
    BY <1>7, <1>9 DEF PortRead
  <1>11. ValidScheme' = ValidScheme
    BY <1>2, <1>3 DEF ValidScheme
  <1>12. \A pos : EstimateNopts(pos)' = EstimateNopts(pos)
    <2>. TAKE pos
    <2>1. {i \in pos..(Len(uri') - 1) : At(i)' \in {"/", "?", "&"}}
            = {i \in pos..(Len(uri) - 1) : At(i) \in {"/", "?", "&"}}
      BY <1>1
    <2>. QED  BY <2>1 DEF EstimateNopts
  <1>. QED  BY <1>9, <1>10, <1>11, <1>12

LEMMA ReadAlike ==
  ASSUME uri' = uri, NEW pos, current' = pos
  PROVE  EstimateNopts(current)' = EstimateNopts(pos)
  <1>1. \A p : At(p)' = At(p)
    BY DEF At
  <1>2. {i \in current'..(Len(uri') - 1) : At(i)' \in {"/", "?", "&"}}
          = {i \in pos..(Len(uri) - 1) : At(i) \in {"/", "?", "&"}}
    BY <1>1
  <1>. QED  BY <1>2 DEF EstimateNopts

\* An option taken at the delimiter that current is at leaves room for the others.
LEMMA OptionTaken ==
  ASSUME IInv, stage \in {"path", "query"}, At(current) \in {"/", "?", "&"},
         NEW next \in (current + 1)..Len(uri), NEW option \in Opts
  PROVE  /\ Append(options, option) \in Seq(Opts)
         /\ Len(Append(options, option)) = Len(options) + 1
         /\ Len(options) + 1 + EstimateNopts(next) <= nopts
         /\ EstimateNopts(next) \in Nat
         /\ \A i \in 1..Len(options) : Append(options, option)[i] = options[i]
  <1>1. current \in Nat /\ next \in Nat /\ Len(options) \in Nat /\ nopts \in Nat
    BY DEF IInv, RoomLeft
  <1>2. EstimateNopts(next) \in Nat /\ EstimateNopts(current) \in Nat
    BY <1>1, DelimitersCounted DEF IInv
  <1>3. EstimateNopts(next) + 1 <= EstimateNopts(current)
    BY <1>1, EstimateFalls DEF IInv
  <1>. QED  BY <1>1, <1>2, <1>3 DEF IInv, RoomLeft

LEMMA TakesAreMoves ==
  ASSUME IInv, TakePath \/ TakeQuery
  PROVE  /\ stage \in {"path", "query"} /\ At(current) \in {"/", "?", "&"}
         /\ current' \in (current + 1)..Len(uri)
         /\ \E option \in Opts : options' = Append(options, option)
  <1>1. stage \in {"path", "query"} /\ At(current) \in {"/", "?", "&"}
    BY DEF TakePath, TakeQuery
  <1>2. current + 1 \in 0..Len(uri)
    BY <1>1, AtType DEF IInv, RoomLeft
  <1>3. \A chars : AdvanceTo(current + 1, chars) \in (current + 1)..Len(uri)
    BY <1>2, AdvanceToType DEF IInv
  <1>4. GetPath(current) \in Seq(Words) /\ GetQuery(current) \in Seq(Words)
    BY <1>2, CopySpan DEF IInv, GetPath, GetQuery
  <1>5. /\ Option("path", GetPath(current)) \in Opts
        /\ Option("query", GetQuery(current)) \in Opts
    BY <1>4 DEF Option, Opts
  <1>. QED  BY <1>1, <1>3, <1>5 DEF TakePath, TakeQuery

LEMMA TakeKeepsIInv == ASSUME IInv, [Next]_vars, TakePath \/ TakeQuery PROVE IInv'
  <1>1. uri' = uri /\ matches' = matches
    BY UriStays
  <1>2. nopts' = nopts /\ address' = address /\ stage' = stage
    BY DEF TakePath, TakeQuery
  <1>3. PICK option \in Opts : options' = Append(options, option)
    BY TakesAreMoves
  <1>4. stage \in {"path", "query"} /\ At(current) \in {"/", "?", "&"}
        /\ current' \in (current + 1)..Len(uri)
    BY TakesAreMoves
  <1>5. /\ options' \in Seq(Opts) /\ Len(options') = Len(options) + 1
        /\ Len(options) + 1 + EstimateNopts(current') <= nopts
        /\ EstimateNopts(current') \in Nat
        /\ \A i \in 1..Len(options) : options'[i] = options[i]
    BY <1>3, <1>4, OptionTaken
  <1>6. RoomLeft'
    <2>1. EstimateNopts(current)' = EstimateNopts(current')
      BY <1>1, ReadAlike
    <2>2. current' \in 0..Len(uri') /\ nopts' \in Nat
      BY <1>1, <1>2, <1>4 DEF IInv, RoomLeft
    <2>3. Len(options) \in Nat
      BY DEF IInv
    <2>. QED  BY <1>2, <1>5, <2>1, <2>2, <2>3 DEF RoomLeft
  <1>7. AuthorityRead'
    <2>1. Len(options) \in Nat
      BY DEF IInv
    <2>. QED  BY <1>1, <1>2, <1>4, <1>5, <2>1, ReadStays DEF IInv, AuthorityRead
  <1>. QED  BY <1>1, <1>5, <1>6, <1>7 DEF IInv

LEMMA AuthorityKeepsIInv == ASSUME IInv, [Next]_vars, ParseAuthority PROVE IInv'
  <1>1. uri' = uri /\ matches' = matches /\ address' = address /\ stage = "authority"
    BY UriStays DEF ParseAuthority
  <1>2. CASE ~(ValidScheme /\ HasAuthority)
    <2>1. stage' = "refused" /\ UNCHANGED <<current, nopts, options>>
      BY <1>2 DEF ParseAuthority, HasAuthority, AuthorityPos
    <2>2. RoomLeft'
      BY <1>1, <2>1 DEF IInv, RoomLeft
    <2>3. AuthorityRead'
      BY <1>1, <1>2, <2>1, ReadStays DEF IInv, AuthorityRead
    <2>. QED  BY <1>1, <2>1, <2>2, <2>3 DEF IInv
  <1>3. CASE ValidScheme /\ HasAuthority
    <2>. DEFINE pathpos == AdvanceTo(PortPos, {"/", "?"})
    <2>1. /\ stage' = "path" /\ current' = pathpos
          /\ nopts' = EstimateNopts(pathpos) + (IF matches THEN 0 ELSE 2)
          /\ options' = IF matches THEN <<>>
                        ELSE <<Option("host", HostRead), Option("port", <<PortRead>>)>>
      BY <1>3 DEF ParseAuthority, HasAuthority, AuthorityPos, PortPos, HostRead, PortRead
    <2>2. PortPos \in 0..Len(uri) /\ HostRead \in Seq(Words) /\ PortRead \in Words
      BY <1>3, AuthorityType DEF IInv
    <2>3. pathpos \in 0..Len(uri)
      BY <2>2, AdvanceToType DEF IInv
    <2>4. EstimateNopts(pathpos) \in Nat
      BY <2>3, DelimitersCounted DEF IInv
    <2>5. Option("host", HostRead) \in Opts /\ Option("port", <<PortRead>>) \in Opts
      BY <2>2 DEF Option, Opts
    <2>. HIDE DEF pathpos
    <2>6. /\ options' \in Seq(Opts) /\ Len(options') = IF matches THEN 0 ELSE 2
          /\ ~matches => /\ options'[1] = Option("host", HostRead)
                         /\ options'[2] = Option("port", <<PortRead>>)
      BY <2>1, <2>5
    <2>7. RoomLeft'
      <3>1. EstimateNopts(current)' = EstimateNopts(pathpos)
        BY <1>1, <2>1, ReadAlike
      <3>. QED  BY <1>1, <2>1, <2>3, <2>4, <2>6, <3>1 DEF RoomLeft
    <2>8. AuthorityRead'
      BY <1>1, <1>3, <2>1, <2>6, ReadStays DEF IInv, AuthorityRead
    <2>. QED  BY <1>1, <2>6, <2>7, <2>8 DEF IInv
  <1>. QED  BY <1>2, <1>3

LEMMA OthersKeepIInv ==
  ASSUME IInv, [Next]_vars, ToAddress \/ EndPath \/ EndQuery \/ UNCHANGED vars
  PROVE  IInv'
  <1>1. uri' = uri /\ matches' = matches
    BY UriStays
  <1>2. options' = options /\ current' = current /\ nopts' = nopts
    BY DEF ToAddress, EndPath, EndQuery, vars
  <1>3. stage' \in {"path", "query"} => stage \in {"path", "query"}
    BY DEF ToAddress, EndPath, EndQuery, vars
  <1>4. RoomLeft'
    <2>1. EstimateNopts(current)' = EstimateNopts(current)
      BY <1>1, <1>2, ReadAlike
    <2>. QED  BY <1>1, <1>2, <1>3, <2>1 DEF IInv, RoomLeft
  <1>5. AuthorityRead'
    <2>1. CASE ToAddress
      <3>1. stage' = "authority"
            /\ address' = IF HasAuthority THEN [host |-> HostRead, port |-> PortRead] ELSE NoAddress
        BY <2>1 DEF ToAddress, HasAuthority, AuthorityPos, HostRead, PortRead, PortPos
      <3>. QED  BY <1>1, <3>1, ReadStays DEF AuthorityRead
    <2>2. CASE EndPath \/ EndQuery \/ UNCHANGED vars
      BY <1>1, <1>2, <2>2, ReadStays DEF EndPath, EndQuery, vars, IInv, AuthorityRead
    <2>. QED  BY <2>1, <2>2
  <1>. QED  BY <1>1, <1>2, <1>4, <1>5 DEF IInv

LEMMA ParserNext == ASSUME IInv, [Next]_vars PROVE IInv'
  BY TakeKeepsIInv, AuthorityKeepsIInv, OthersKeepIInv DEF Next

LEMMA ParserInvariant == Spec => []IInv
  BY ParserInit, ParserNext, PTL DEF Spec

-----------------------------------------------------------------------------
\* mc_uri_to_options writes behind the end of its array for no URI, matching address or not:
\* estimatenopts has counted a delimiter for each option that getpath and getquery find.
THEOREM OptionsFitHolds == Spec => []OptionsFit
  <1>1. IInv => OptionsFit
    BY DEF IInv, RoomLeft, OptionsFit
  <1>. QED  BY <1>1, ParserInvariant, PTL

\* For every URI, the options name the host and port of the address, and a URI that has an
\* address is refused for its scheme only.
THEOREM AddressAgreesHolds == Spec => []AddressAgrees
  <1>1. ASSUME IInv PROVE AddressAgrees
    <2>1. ASSUME stage \in {"path", "query", "done"} PROVE address # NoAddress
      <3>1. address = [host |-> HostRead, port |-> PortRead]
        BY <1>1, <2>1 DEF IInv, AuthorityRead
      <3>2. DOMAIN address = {"host", "port"} /\ DOMAIN NoAddress = {"none"}
        BY <3>1 DEF NoAddress
      <3>. QED  BY <3>2
    <2>2. ASSUME stage \in {"path", "query", "done"}, ~matches
          PROVE  SubSeq(options, 1, 2) =
                   <<Option("host", address.host), Option("port", <<address.port>>)>>
      <3>1. address.host = HostRead /\ address.port = PortRead
        BY <1>1, <2>2 DEF IInv, AuthorityRead
      <3>2. /\ options \in Seq(Opts) /\ Len(options) >= 2
            /\ options[1] = Option("host", HostRead)
            /\ options[2] = Option("port", <<PortRead>>)
        BY <1>1, <2>2 DEF IInv, AuthorityRead
      <3>3. SubSeq(options, 1, 2) = <<options[1], options[2]>>
        <4>1. 2 \in 1..Len(options) /\ options[1] \in Opts /\ options[2] \in Opts
          BY <3>2
        <4>2. SubSeq(options, 1, 2) \in Seq(Opts) /\ Len(SubSeq(options, 1, 2)) = 2
          BY <3>2
        <4>3. SubSeq(options, 1, 2)[1] = options[1] /\ SubSeq(options, 1, 2)[2] = options[2]
          BY <3>2
        <4>4. <<options[1], options[2]>> \in Seq(Opts)
              /\ Len(<<options[1], options[2]>>) = 2
          BY <4>1
        <4>5. \A i \in 1..2 : SubSeq(options, 1, 2)[i] = <<options[1], options[2]>>[i]
          BY <4>3
        <4>. QED  BY <4>2, <4>4, <4>5, SeqEqual
      <3>. QED  BY <3>1, <3>2, <3>3
    <2>3. stage = "refused" /\ address # NoAddress => ~ValidScheme
      BY <1>1 DEF IInv, AuthorityRead
    <2>. QED  BY <2>1, <2>2, <2>3 DEF AddressAgrees
  <1>. QED  BY <1>1, ParserInvariant, PTL

\* Every turn of the loops over getpath and getquery moves on in the URI, whatever it is:
\* a URI of finite length is parsed in finitely many steps.
THEOREM ParseAdvancesHolds == Spec => ParseAdvances
  <1>. DEFINE Onward == stage' = stage => current' > current
  <1>1. ASSUME IInv, [Next]_vars PROVE [Onward]_vars
    <2>1. CASE TakePath \/ TakeQuery
      <3>1. current' \in (current + 1)..Len(uri) /\ current \in Nat
        BY <1>1, <2>1, TakesAreMoves DEF IInv, RoomLeft
      <3>. QED  BY <3>1
    <2>2. CASE ToAddress \/ ParseAuthority \/ EndPath \/ EndQuery
      BY <2>2 DEF ToAddress, ParseAuthority, EndPath, EndQuery
    <2>. QED  BY <1>1, <2>1, <2>2 DEF Next
  <1>. HIDE DEF Onward
  <1>2. Spec => [][Onward]_vars
    BY <1>1, ParserInvariant, PTL DEF Spec
  <1>. QED  BY <1>2 DEF Onward, ParseAdvances
-----------------------------------------------------------------------------
(* What the parser reads of the components.                                *)

LEMMA AtInside ==
  ASSUME uri \in Seq(Word), NEW pos \in Nat
  PROVE  /\ pos < Len(uri) => At(pos) = uri[pos + 1] /\ At(pos) # "end"
         /\ At(pos) = "end" <=> ~(pos < Len(uri))
  BY DEF At, Word

LEMMA SpanIs ==
  ASSUME uri \in Seq(Word), NEW pos \in Nat, NEW n \in Nat, pos + n <= Len(uri), NEW chars,
         At(pos + n) \in chars \cup {"end"},
         \A j \in 0..(n - 1) : At(pos + j) \notin chars
  PROVE  Span(pos, chars) = n
  <1>. DEFINE T == {i \in 0..(Len(uri) - pos) : At(pos + i) \in chars \cup {"end"}}
  <1>1. Len(uri) \in Nat /\ n \in 0..(Len(uri) - pos)
    BY DEF Word
  <1>2. n \in T
    BY <1>1
  <1>3. ASSUME NEW i \in T PROVE n <= i
    <2>1. i \in Nat /\ pos + i \in Nat /\ At(pos + i) \in chars \cup {"end"}
      BY <1>1
    <2>2. SUFFICES ASSUME i < n PROVE FALSE
      BY <2>1
    <2>3. pos + i < Len(uri) /\ i \in 0..(n - 1)
      BY <1>1, <2>1, <2>2
    <2>4. At(pos + i) # "end"
      BY <2>1, <2>3, AtInside
    <2>. QED  BY <2>1, <2>3, <2>4
  <1>4. T \subseteq Nat
    BY <1>1
  <1>. HIDE DEF T
  <1>5. \A x \in T : (\A y \in T : x <= y) => x = n
    <2>1. ASSUME NEW x \in T, \A y \in T : x <= y PROVE x = n
      <3>1. x <= n /\ n <= x /\ x \in Nat
        BY <1>2, <1>3, <1>4, <2>1
      <3>. QED  BY <3>1
    <2>. QED  BY <2>1
  <1>6. Min(T) = n
    BY <1>2, <1>3, <1>5 DEF Min
  <1>. QED  BY <1>6 DEF T, Span

LEMMA WordRead ==
  ASSUME uri \in Seq(Word), NEW pos, NEW w \in Seq(Word), ReadsAt(uri, pos, w), NEW chars,
         \A j \in 1..Len(w) : w[j] \notin chars, At(pos + Len(w)) \in chars \cup {"end"}
  PROVE  /\ Span(pos, chars) = Len(w) /\ Copy(pos, Span(pos, chars)) = w
         /\ AdvanceTo(pos, chars) = IF w = <<>> THEN Len(uri) ELSE pos + Len(w)
  <1>. DEFINE n == Len(w)
  <1>1. pos \in Nat /\ n \in Nat /\ pos + n <= Len(uri) /\ \A j \in 1..n : uri[pos + j] = w[j]
    BY DEF ReadsAt
  <1>2. ASSUME NEW j \in 0..(n - 1) PROVE At(pos + j) \notin chars
    <2>1. pos + j \in Nat /\ pos + j < Len(uri) /\ j + 1 \in 1..n /\ pos + (j + 1) = (pos + j) + 1
      BY <1>1
    <2>2. At(pos + j) = uri[pos + (j + 1)]
      BY <2>1, AtInside
    <2>. QED  BY <1>1, <2>1, <2>2
  <1>3. Span(pos, chars) = n
    BY <1>1, <1>2, SpanIs
  <1>4. Copy(pos, n) = w
    <2>1. Copy(pos, n) = SubSeq(uri, pos + 1, pos + n)
      BY <1>1 DEF Copy
    <2>2. SubSeq(uri, pos + 1, pos + n) \in Seq(Word) /\ Len(SubSeq(uri, pos + 1, pos + n)) = n
      BY <1>1
    <2>3. \A j \in 1..n : SubSeq(uri, pos + 1, pos + n)[j] = w[j]
      BY <1>1
    <2>. QED  BY <2>1, <2>2, <2>3, SeqEqual
  <1>5. w = <<>> <=> n = 0
    OBVIOUS
  <1>. QED  BY <1>1, <1>3, <1>4, <1>5 DEF AdvanceTo

LEMMA FreeOf ==
  ASSUME NEW words, NEW marks, Free(words, marks)
  PROVE  \A j \in 1..Len(words) : words[j] \notin marks
  BY DEF Free

\* At its k-th piece, getpath or getquery returns the piece, and the parser moves on to the
\* next one unless this one is empty.
LEMMA PieceRead ==
  ASSUME NEW p \in Parts, uri = Text(p), NEW start, Laid(p, uri, start), NEW k \in 1..PieceCount(p)
  PROVE  /\ At(start[k]) = Mark(p, k)
         /\ k <= Len(p.path) =>
              /\ GetPath(start[k]) = p.path[k]
              /\ AdvanceTo(start[k] + 1, {"/", "?"})
                   = IF p.path[k] = <<>> THEN Len(uri) ELSE start[k + 1]
         /\ ~(k <= Len(p.path)) =>
              /\ GetQuery(start[k]) = p.query[k - Len(p.path)]
              /\ AdvanceTo(start[k] + 1, {"&"})
                   = IF p.query[k - Len(p.path)] = <<>> THEN Len(uri) ELSE start[k + 1]
  <1>. DEFINE m == Len(p.path)
              n == Len(p.query)
              w == Piece(p, k)
              at == start[k]
              next == start[k + 1]
  <1>1. uri \in Seq(Word) /\ Len(uri) \in Nat
    <2>1. uri \in Seq(Word)
      BY TextBegins DEF Begins
    <2>. QED  BY <2>1
  <1>2. /\ p.path \in Seq(Seq(Open)) /\ p.query \in Seq(Seq(Open)) /\ m \in Nat /\ n \in Nat
        /\ DOMAIN p.path = 1..m /\ DOMAIN p.query = 1..n
    <2>1. p.path \in Seq(Seq(Open)) /\ p.query \in Seq(Seq(Open))
      BY PartTypes
    <2>. QED  BY <2>1
  <1>a. PieceCount(p) = m + n
    BY DEF PieceCount
  <1>. HIDE DEF m, n
  <1>b. k \in 1..(m + n) /\ k \in Nat /\ (~(k <= m) => k - m \in 1..n) /\ (k <= m => k \in 1..m)
    BY <1>2, <1>a
  <1>3. w \in Seq(Word)
    <2>1. w \in Seq(Open)
      <3>1. \A i \in 1..m : p.path[i] \in Seq(Open)
        BY <1>2 DEF m
      <3>2. \A i \in 1..n : p.query[i] \in Seq(Open)
        BY <1>2 DEF n
      <3>. QED  BY <1>b, <3>1, <3>2 DEF Piece, m
    <2>. QED  BY <2>1, SeqOfMore DEF Open
  <1>4. /\ at \in 0..Len(uri) /\ next \in 0..Len(uri) /\ uri[at + 1] = Mark(p, k)
        /\ next = at + 1 + Len(w) /\ ReadsAt(uri, at + 1, w)
    <2>1. k \in 1..(PieceCount(p) + 1) /\ k + 1 \in 1..(PieceCount(p) + 1)
      BY <1>2, <1>a, <1>b
    <2>. QED  BY <2>1 DEF Laid
  <1>5. Len(w) \in Nat /\ at \in Nat /\ at < Len(uri)
    BY <1>1, <1>4 DEF ReadsAt
  <1>6. At(at) = Mark(p, k)
    BY <1>1, <1>4, <1>5, AtInside
  <1>7. At(next) = IF k = m + n THEN "end" ELSE Mark(p, k + 1)
    <2>1. CASE k = m + n
      <3>1. next = Len(uri)
        BY <1>a, <2>1 DEF Laid
      <3>. QED  BY <1>1, <2>1, <3>1, AtInside
    <2>2. CASE k # m + n
      <3>1. k + 1 \in 1..PieceCount(p) /\ k + 1 + 1 \in 1..(PieceCount(p) + 1)
        BY <1>2, <1>a, <1>b, <2>2
      <3>2. /\ uri[next + 1] = Mark(p, k + 1) /\ ReadsAt(uri, next + 1, Piece(p, k + 1))
        BY <3>1 DEF Laid
      <3>3. next \in Nat /\ next < Len(uri)
        <4>. HIDE DEF next
        <4>1. Len(Piece(p, k + 1)) \in Nat /\ next + 1 + Len(Piece(p, k + 1)) <= Len(uri)
          BY <3>2 DEF ReadsAt
        <4>. QED  BY <1>1, <1>4, <4>1
      <3>. QED  BY <1>1, <2>2, <3>2, <3>3, AtInside
    <2>. QED  BY <2>1, <2>2
  <1>8. /\ \A i \in DOMAIN p.path : Free(p.path[i], {"/", "?", "]"})
        /\ \A i \in DOMAIN p.query : Free(p.query[i], {"&", "]"})
    BY PartsAssumption
  <1>. HIDE DEF w, at, next
  <1>9. /\ at + 1 \in Nat /\ (at + 1) + Len(w) = next
    BY <1>4, <1>5
  <1>10. ASSUME k <= m
         PROVE  /\ GetPath(at) = p.path[k]
                /\ AdvanceTo(at + 1, {"/", "?"}) = IF p.path[k] = <<>> THEN Len(uri) ELSE next
    <2>1. w = p.path[k] /\ k \in DOMAIN p.path
      BY <1>2, <1>b, <1>10 DEF Piece, m, w
    <2>2. \A j \in 1..Len(w) : w[j] \notin {"/", "?"}
      BY <1>8, <2>1, FreeOf
    <2>3. At((at + 1) + Len(w)) \in {"/", "?"} \cup {"end"}
      <3>1. k + 1 <= m \/ k + 1 = m + 1
        BY <1>2, <1>b, <1>10
      <3>2. Mark(p, k + 1) \in {"/", "?"}
        BY <3>1 DEF Mark, m
      <3>. QED  BY <1>7, <1>9, <3>2
    <2>4. /\ Copy(at + 1, Span(at + 1, {"/", "?"})) = w
          /\ AdvanceTo(at + 1, {"/", "?"}) = IF w = <<>> THEN Len(uri) ELSE (at + 1) + Len(w)
      BY <1>1, <1>3, <1>4, <2>2, <2>3, WordRead
    <2>. QED  BY <1>9, <2>1, <2>4 DEF GetPath
  <1>11. ASSUME ~(k <= m)
         PROVE  /\ GetQuery(at) = p.query[k - m]
                /\ AdvanceTo(at + 1, {"&"}) = IF p.query[k - m] = <<>> THEN Len(uri) ELSE next
    <2>1. w = p.query[k - m] /\ k - m \in DOMAIN p.query
      BY <1>2, <1>b, <1>11 DEF Piece, m, w
    <2>2. \A j \in 1..Len(w) : w[j] \notin {"&"}
      BY <1>8, <2>1, FreeOf
    <2>3. At((at + 1) + Len(w)) \in {"&"} \cup {"end"}
      <3>1. ~(k + 1 <= m) /\ k + 1 # m + 1
        BY <1>2, <1>b, <1>11
      <3>2. Mark(p, k + 1) = "&"
        BY <3>1 DEF Mark, m
      <3>. QED  BY <1>7, <1>9, <3>2
    <2>4. /\ Copy(at + 1, Span(at + 1, {"&"})) = w
          /\ AdvanceTo(at + 1, {"&"}) = IF w = <<>> THEN Len(uri) ELSE (at + 1) + Len(w)
      BY <1>1, <1>3, <1>4, <2>2, <2>3, WordRead
    <2>. QED  BY <1>9, <2>1, <2>4 DEF GetQuery
  <1>. QED  BY <1>6, <1>10, <1>11 DEF m, at, next

LEMMA SchemeRead ==
  ASSUME NEW p \in Parts, uri = Text(p)
  PROVE  /\ ValidScheme <=> p.scheme \in {<<"coap">>, <<"coaps">>}
         /\ ValidScheme => /\ AuthorityPos = Len(p.scheme)
                           /\ Copy(Len(p.scheme), 3) = <<":", "/", "/">>
  <1>. DEFINE w == p.scheme
              c == Len(w)
  <1>1. /\ uri \in Seq(Word) /\ ReadsAt(uri, 0, w) /\ ReadsAt(uri, c, Head3)
    BY TextBegins DEF Begins
  <1>2. w \in Seq(Word) /\ c \in Nat /\ \A j \in 1..Len(w) : w[j] \notin {":"}
    <2>1. Free(w, {":"})
      BY PartsAssumption
    <2>. QED  BY <1>1, <2>1, FreeOf, PartTypes DEF ReadsAt
  <1>3. Head3 \in Seq(Word) /\ Len(Head3) = 3
    BY DEF Head3, Word
  <1>4. /\ Len(uri) \in Nat /\ c + 3 <= Len(uri)
        /\ uri[c + 1] = ":" /\ uri[c + 2] = "/" /\ uri[c + 3] = "/"
    <2>1. /\ Len(uri) \in Nat /\ c + 3 <= Len(uri)
          /\ \A j \in 1..3 : uri[c + j] = Head3[j]
      BY <1>1, <1>3 DEF ReadsAt
    <2>2. 1 \in 1..3 /\ 2 \in 1..3 /\ 3 \in 1..3
      OBVIOUS
    <2>3. Head3[1] = ":" /\ Head3[2] = "/" /\ Head3[3] = "/"
      BY DEF Head3
    <2>. QED  BY <2>1, <2>2, <2>3
  <1>. HIDE DEF w, c
  <1>5. At(0 + c) = ":"
    BY <1>1, <1>2, <1>4, AtInside
  <1>6. /\ Span(0, {":"}) = c /\ Copy(0, Span(0, {":"})) = w
        /\ AdvanceTo(0, {":"}) = IF w = <<>> THEN Len(uri) ELSE 0 + c
    BY <1>1, <1>2, <1>5, WordRead DEF c
  <1>7. ":" \in Range(uri)
    <2>1. c + 1 \in DOMAIN uri
      BY <1>1, <1>2, <1>4
    <2>. QED  BY <1>4, <2>1 DEF Range
  <1>8. ValidScheme <=> w \in {<<"coap">>, <<"coaps">>}
    BY <1>6, <1>7 DEF ValidScheme
  <1>9. Copy(c, 3) = <<":", "/", "/">>
    <2>1. Copy(c, 3) = SubSeq(uri, c + 1, c + 3)
      BY <1>4 DEF Copy
    <2>2. SubSeq(uri, c + 1, c + 3) \in Seq(Word) /\ Len(SubSeq(uri, c + 1, c + 3)) = 3
      BY <1>1, <1>2, <1>4
    <2>3. \A j \in 1..3 : SubSeq(uri, c + 1, c + 3)[j] = uri[c + j]
      BY <1>1, <1>2, <1>4
    <2>4. \A j \in 1..3 : uri[c + j] = Head3[j]
      BY <1>1, <1>3 DEF ReadsAt
    <2>5. Copy(c, 3) = Head3
      <3>. DEFINE t == SubSeq(uri, c + 1, c + 3)
      <3>1. \A j \in 1..3 : t[j] = Head3[j]
        BY <2>3, <2>4
      <3>. HIDE DEF t
      <3>2. t = Head3
        BY <1>3, <2>2, <3>1, SeqEqual DEF t
      <3>. QED  BY <2>1, <3>2 DEF t
    <2>. QED  BY <2>5 DEF Head3
  <1>10. ValidScheme => w # <<>>
    BY <1>8
  <1>. QED  BY <1>2, <1>6, <1>8, <1>9, <1>10 DEF w, c, AuthorityPos

HostFits(p) == p.host # <<>> /\ (p.host[1] = "[" => Len(p.host) > 2 /\ Last(p.host) = "]")
MeetsQuery(p) == p.port = NoPort /\ p.path = <<>> /\ p.query # <<>>
BareHost(p) == IF p.host[1] = "[" THEN SubSeq(p.host, 2, Len(p.host) - 1) ELSE p.host
PortOf(p) == IF p.port \in PortWords THEN p.port ELSE MC_DEFAULT_PORT
HostPos(p) == Len(p.scheme) + 3
HostEnd(p) == Len(p.scheme) + 3 + Len(p.host)

\* Behind the host there is the port, or what follows it.
LEMMA BehindHost ==
  ASSUME NEW p \in Parts, uri = Text(p), NEW start, Laid(p, uri, start)
  PROVE  /\ HostEnd(p) \in 0..Len(uri) /\ ReadsAt(uri, HostEnd(p), PortText(p))
         /\ start[1] = HostEnd(p) + Len(PortText(p)) /\ start[1] \in 0..Len(uri)
         /\ At(start[1]) \in {"/", "?", "end"}
         /\ p.port # NoPort => At(HostEnd(p)) = ":" /\ At(HostEnd(p) + 1) = p.port
         /\ p.port = NoPort => start[1] = HostEnd(p)
         /\ p.port = NoPort /\ ~MeetsQuery(p) => At(HostEnd(p)) \in {"/", "end"}
  <1>. DEFINE a == HostEnd(p)
              d == PortText(p)
              m == Len(p.path)
              n == Len(p.query)
  <1>1. uri \in Seq(Word) /\ Len(uri) \in Nat /\ ReadsAt(uri, a, d)
    <2>1. uri \in Seq(Word) /\ ReadsAt(uri, a, d)
      BY TextBegins DEF Begins, HostEnd
    <2>. QED  BY <2>1
  <1>2. /\ m \in Nat /\ n \in Nat /\ (m = 0 <=> p.path = <<>>) /\ (n = 0 <=> p.query = <<>>)
    <2>1. p.path \in Seq(Seq(Open)) /\ p.query \in Seq(Seq(Open))
      BY PartTypes
    <2>. QED  BY <2>1
  <1>3. PieceCount(p) = m + n
    BY DEF PieceCount
  <1>. HIDE DEF m, n
  <1>4. start[1] = a + Len(d) /\ start[1] \in 0..Len(uri)
    <2>1. 1 \in 1..(PieceCount(p) + 1)
      BY <1>2, <1>3
    <2>. QED  BY <2>1 DEF Laid, Base, HostEnd
  <1>5. At(start[1]) = IF m + n = 0 THEN "end" ELSE Mark(p, 1)
    <2>1. CASE m + n = 0
      <3>1. start[1] = Len(uri)
        <4>1. start[PieceCount(p) + 1] = Len(uri) /\ PieceCount(p) + 1 = 1
          BY <1>3, <2>1 DEF Laid
        <4>. QED  BY <4>1
      <3>. QED  BY <1>1, <2>1, <3>1, AtInside
    <2>2. CASE m + n # 0
      <3>1. 1 \in 1..PieceCount(p)
        BY <1>2, <1>3, <2>2
      <3>. QED  BY <2>2, <3>1, PieceRead
    <2>. QED  BY <2>1, <2>2
  <1>6. Mark(p, 1) = IF m = 0 THEN "?" ELSE "/"
    <2>1. CASE m = 0
      <3>1. ~(1 <= m) /\ 1 = m + 1
        BY <2>1
      <3>. QED  BY <2>1, <3>1 DEF Mark, m
    <2>2. CASE m # 0
      <3>1. 1 <= m
        BY <1>2, <2>2
      <3>. QED  BY <2>2, <3>1 DEF Mark, m
    <2>. QED  BY <2>1, <2>2
  <1>7. ASSUME p.port # NoPort PROVE At(a) = ":" /\ At(a + 1) = p.port
    <2>1. d = <<":", p.port>> /\ Len(d) = 2 /\ d[1] = ":" /\ d[2] = p.port
      BY <1>7 DEF PortText
    <2>. HIDE DEF a, d
    <2>2. a \in Nat /\ a + 2 <= Len(uri) /\ uri[a + 1] = d[1] /\ uri[a + 2] = d[2]
      BY <1>1, <2>1 DEF ReadsAt
    <2>. QED  BY <1>1, <2>1, <2>2, AtInside
  <1>8. ASSUME p.port = NoPort PROVE d = <<>> /\ Len(d) = 0
    BY <1>8 DEF PortText
  <1>. HIDE DEF a, d
  <1>9. p.port = NoPort => start[1] = a
    BY <1>1, <1>4, <1>8 DEF ReadsAt
  <1>10. a \in 0..Len(uri)
    BY <1>1 DEF ReadsAt
  <1>11. ASSUME p.port = NoPort, ~MeetsQuery(p) PROVE At(a) \in {"/", "end"}
    <2>1. m = 0 => n = 0
      BY <1>2, <1>11 DEF MeetsQuery
    <2>. QED  BY <1>2, <1>5, <1>6, <1>9, <1>11, <2>1
  <1>12. At(start[1]) \in {"/", "?", "end"}
    BY <1>5, <1>6
  <1>. QED  BY <1>1, <1>4, <1>7, <1>9, <1>10, <1>11, <1>12 DEF a, d

\* What getport finds behind the host, and where the parser goes from there.
LEMMA PortReads ==
  ASSUME NEW p \in Parts, uri = Text(p), NEW start, Laid(p, uri, start), ~MeetsQuery(p)
  PROVE  /\ Port(HostEnd(p)) = PortOf(p)
         /\ AdvanceTo(HostEnd(p), {"/", "?"}) = IF p.port = NoPort THEN Len(uri) ELSE start[1]
  <1>. DEFINE a == HostEnd(p)
              d == PortText(p)
  <1>1. /\ a \in 0..Len(uri) /\ ReadsAt(uri, a, d)
        /\ start[1] = a + Len(d) /\ At(start[1]) \in {"/", "?", "end"}
        /\ p.port # NoPort => At(a) = ":" /\ At(a + 1) = p.port
        /\ p.port = NoPort => At(a) \in {"/", "end"}
    BY BehindHost
  <1>2. Port(a) = PortOf(p)
    <2>1. NoPort \notin PortWords
      BY PartsAssumption
    <2>. QED  BY <1>1, <2>1 DEF Port, PortOf
  <1>3. uri \in Seq(Word)
    BY TextBegins DEF Begins
  <1>4. CASE p.port = NoPort
    <2>1. a \in Nat /\ 0 \in Nat /\ a + 0 <= Len(uri) /\ a + 0 = a
      BY <1>1, <1>3
    <2>2. \A j \in 0..(0 - 1) : FALSE
      OBVIOUS
    <2>3. At(a + 0) \in {"/", "?"} \cup {"end"}
      BY <1>1, <1>4, <2>1
    <2>. HIDE DEF a
    <2>4. Span(a, {"/", "?"}) = 0
      BY <1>3, <2>1, <2>2, <2>3, SpanIs
    <2>. QED  BY <1>2, <1>4, <2>4 DEF AdvanceTo, a
  <1>5. CASE p.port # NoPort
    <2>1. d \in Seq(Word)
      <3>1. d \in Seq(Open)
        BY PartTypes
      <3>. QED  BY <3>1, SeqOfMore DEF Open
    <2>2. d = <<":", p.port>> /\ Len(d) = 2 /\ d[1] = ":" /\ d[2] = p.port /\ d # <<>>
      BY <1>5 DEF PortText
    <2>3. p.port \notin {"/", "?"}
      BY PartsAssumption
    <2>4. \A j \in 1..Len(d) : d[j] \notin {"/", "?"}
      <3>1. \A j \in 1..2 : j = 1 \/ j = 2
        OBVIOUS
      <3>. QED  BY <2>2, <2>3, <3>1
    <2>5. At(a + Len(d)) \in {"/", "?"} \cup {"end"}
      BY <1>1
    <2>. HIDE DEF a, d
    <2>6. AdvanceTo(a, {"/", "?"}) = IF d = <<>> THEN Len(uri) ELSE a + Len(d)
      BY <1>1, <1>3, <2>1, <2>4, <2>5, WordRead
    <2>. QED  BY <1>1, <1>2, <1>5, <2>2, <2>6 DEF a
  <1>. QED  BY <1>4, <1>5

\* What getaddress finds: the host of a well-formed authority, and none in another, unless
\* a query follows the host at once.
LEMMA HostReads ==
  ASSUME NEW p \in Parts, uri = Text(p)
  PROVE  /\ HostFits(p) => HasHost(HostPos(p))
         /\ HasHost(HostPos(p)) /\ ~MeetsQuery(p) =>
              /\ HostFits(p) /\ Host(HostPos(p)) = BareHost(p)
              /\ HostPos(p) + Bracketed(HostPos(p)) + Len(Host(HostPos(p))) = HostEnd(p)
  <1>. DEFINE pos == HostPos(p)
              w == p.host
              h == Len(w)
  <1>1. uri \in Seq(Word) /\ Len(uri) \in Nat /\ ReadsAt(uri, pos, w)
    <2>1. uri \in Seq(Word) /\ ReadsAt(uri, pos, w)
      BY TextBegins DEF Begins, HostPos
    <2>. QED  BY <2>1
  <1>2. /\ w \in Seq(Word) /\ pos \in Nat /\ h \in Nat /\ pos + h <= Len(uri)
        /\ \A j \in 1..h : uri[pos + j] = w[j]
    BY <1>1, PartTypes DEF ReadsAt
  <1>3. HostIsFree(w)
    BY PartsAssumption
  <1>4. HostEnd(p) = pos + h
    BY DEF HostEnd, HostPos
  <1>5. \A i \in (pos + h + 1)..Len(uri) : uri[i] # "]"
    BY NoneClosedBehind DEF HostPos
  <1>6. PICK start : Laid(p, uri, start)
    BY TextIsLaid
  <1>7. At(pos + h) # "[" /\ (~MeetsQuery(p) => At(pos + h) \in {":", "/", "end"})
    BY <1>4, <1>6, BehindHost
  <1>8. Last(w) = w[h]
    BY DEF Last
  <1>9. w = <<>> <=> h = 0
    BY <1>2
  <1>. HIDE DEF pos, w, h
  <1>10. ASSUME NEW j \in 0..(h - 1) PROVE At(pos + j) = w[j + 1]
    <2>1. pos + j \in Nat /\ pos + j < Len(uri) /\ j + 1 \in 1..h /\ pos + (j + 1) = (pos + j) + 1
      BY <1>1, <1>2
    <2>2. At(pos + j) = uri[pos + (j + 1)]
      BY <1>1, <2>1, AtInside
    <2>. QED  BY <1>2, <2>1, <2>2
  <1>11. ASSUME w # <<>> PROVE At(pos) = w[1]
    <2>1. 0 \in 0..(h - 1) /\ pos + 0 = pos /\ 0 + 1 = 1
      BY <1>2, <1>9, <1>11
    <2>. QED  BY <1>10, <2>1
  \* Between brackets.
  <1>12. CASE w # <<>> /\ w[1] = "[" /\ h > 1 /\ Last(w) = "]"
    <2>. DEFINE v == SubSeq(w, 2, h - 1)
    <2>1. v \in Seq(Word) /\ Len(v) = h - 2 /\ \A j \in 1..(h - 2) : v[j] = w[j + 1]
      <3>1. h = Len(w) /\ h \in Nat /\ h > 1 /\ w \in Seq(Word)
        BY <1>2, <1>12 DEF h
      <3>2. 2 \in Int /\ h - 1 \in Int /\ \A i \in 2..(h - 1) : w[i] \in Word
        BY <3>1
      <3>3. /\ v \in Seq(Word) /\ Len(v) = IF 2 <= h - 1 THEN (h - 1) - 2 + 1 ELSE 0
            /\ \A i \in 1..((h - 1) - 2 + 1) : v[i] = w[2 + i - 1]
        BY <3>2, SubSeqProperties
      <3>. HIDE DEF v
      <3>4. (h - 1) - 2 + 1 = h - 2 /\ (~(2 <= h - 1) => h - 2 = 0)
        BY <3>1
      <3>5. ASSUME NEW j \in 1..(h - 2) PROVE v[j] = w[j + 1]
        <4>1. 2 + j - 1 = j + 1 /\ j \in 1..((h - 1) - 2 + 1)
          BY <3>1, <3>4
        <4>2. v[j] = w[2 + j - 1]
          BY <3>3, <4>1
        <4>. QED  BY <4>1, <4>2
      <3>6. Len(v) = h - 2
        BY <3>3, <3>4
      <3>. QED  BY <3>3, <3>5, <3>6
    <2>. HIDE DEF v
    <2>2. \A j \in 1..Len(v) : v[j] \notin {"]"}
      <3>1. \A i \in 2..(h - 1) : w[i] # "]"
        <4>1. ~Free(w, {":", "/", "["})
          <5>1. 1 \in 1..Len(w)
            BY <1>2, <1>12 DEF h
          <5>. QED  BY <1>12, <5>1, FreeOf
        <4>. QED  BY <1>3, <4>1 DEF HostIsFree, h
      <3>2. \A j \in 1..(h - 2) : j + 1 \in 2..(h - 1)
        BY <1>2
      <3>. QED  BY <1>2, <1>12, <2>1, <3>1, <3>2
    <2>3. ReadsAt(uri, pos + 1, v)
      <3>1. pos + 1 \in Nat /\ Len(v) \in Nat /\ pos + 1 + Len(v) <= Len(uri)
        BY <1>1, <1>2, <1>12, <2>1
      <3>2. ASSUME NEW j \in 1..Len(v) PROVE uri[pos + 1 + j] = v[j]
        <4>1. j + 1 \in 1..h /\ pos + (j + 1) = pos + 1 + j /\ j \in 1..(h - 2)
          BY <1>2, <1>12, <2>1
        <4>. QED  BY <1>2, <2>1, <4>1
      <3>. QED  BY <3>1, <3>2 DEF ReadsAt
    <2>4. At((pos + 1) + Len(v)) = "]"
      <3>1. h - 1 \in 0..(h - 1) /\ pos + (h - 1) = (pos + 1) + Len(v) /\ (h - 1) + 1 = h
        BY <1>2, <1>12, <2>1
      <3>. QED  BY <1>8, <1>10, <1>12, <3>1
    <2>5. Copy(pos + 1, Span(pos + 1, {"]"})) = v
      <3>1. At((pos + 1) + Len(v)) \in {"]"} \cup {"end"}
        BY <2>4
      <3>. QED  BY <1>1, <2>1, <2>2, <2>3, <3>1, WordRead
    <2>6. At(pos) = "["
      BY <1>11, <1>12
    <2>7. Host(pos) = v /\ Bracketed(pos) = 2
      BY <2>5, <2>6 DEF Host, Bracketed
    <2>8. HasHost(pos) <=> v # <<>>
      BY <2>4, <2>6, <2>7 DEF HasHost
    <2>9. v # <<>> <=> h > 2
      BY <1>2, <1>12, <2>1
    <2>10. pos + Bracketed(pos) + Len(Host(pos)) = pos + h
      BY <1>2, <2>1, <2>7
    <2>11. HostFits(p) <=> h > 2
      BY <1>12 DEF HostFits, w, h
    <2>12. BareHost(p) = v
      BY <1>12 DEF BareHost, v, w, h
    <2>. QED  BY <1>4, <2>7, <2>8, <2>9, <2>10, <2>11, <2>12 DEF pos
  \* With the closing bracket forgotten.
  <1>13. CASE w # <<>> /\ w[1] = "[" /\ ~(h > 1 /\ Last(w) = "]")
    <2>1. ~HostFits(p)
      BY <1>2, <1>13 DEF HostFits, w, h
    <2>2. \A i \in 2..h : w[i] # "]"
      <3>1. ~Free(w, {":", "/", "["})
        <4>1. 1 \in 1..Len(w)
          BY <1>2, <1>9, <1>13 DEF h
        <4>. QED  BY <1>13, <4>1, FreeOf
      <3>2. \A i \in 2..(h - 1) : w[i] # "]"
        BY <1>3, <3>1 DEF HostIsFree, h
      <3>3. \A i \in 2..h : i \in 2..(h - 1) \/ (i = h /\ h > 1)
        BY <1>2
      <3>. QED  BY <1>8, <1>13, <3>2, <3>3
    <2>3. At(pos) = "["
      BY <1>11, <1>13
    <2>4. ASSUME HasHost(pos) PROVE FALSE
      <3>. DEFINE l == Span(pos + 1, {"]"})
      <3>1. pos + 1 \in 0..Len(uri)
        BY <1>1, <1>2, <1>9, <1>13
      <3>2. l \in 0..(Len(uri) - (pos + 1)) /\ Len(Host(pos)) = l
        <4>1. uri \in Seq(Words)
          BY <1>1, SeqOfMore DEF Words
        <4>. QED  BY <2>3, <3>1, <4>1, SpanType, CopySpan DEF Host
      <3>. HIDE DEF l
      <3>3. At(pos + 1 + l) = "]"
        BY <2>3, <2>4, <3>2 DEF HasHost
      <3>4. pos + 1 + l \in Nat /\ pos + 1 + l < Len(uri)
        <4>1. pos + 1 + l \in Nat
          BY <1>1, <3>1, <3>2
        <4>. QED  BY <1>1, <3>3, <4>1, AtInside
      <3>5. CASE l < h - 1
        <4>1. l + 1 \in 0..(h - 1) /\ pos + (l + 1) = pos + 1 + l /\ (l + 1) + 1 \in 2..h
          BY <1>1, <1>2, <3>1, <3>2, <3>5
        <4>. QED  BY <1>10, <2>2, <3>3, <4>1
      <3>6. CASE ~(l < h - 1)
        <4>1. (pos + 1 + l) + 1 \in (pos + h + 1)..Len(uri)
          BY <1>1, <1>2, <3>1, <3>2, <3>4, <3>6
        <4>2. At(pos + 1 + l) = uri[(pos + 1 + l) + 1]
          BY <1>1, <3>4, AtInside
        <4>. QED  BY <1>5, <3>3, <4>1, <4>2
      <3>. QED  BY <3>5, <3>6
    <2>. QED  BY <2>1, <2>4 DEF pos
  \* Without brackets.
  <1>14. CASE w = <<>> \/ w[1] # "["
    <2>1. At(pos) # "["
      <3>1. CASE w = <<>>
        <4>1. pos + h = pos
          BY <1>2, <1>9, <3>1
        <4>. QED  BY <1>7, <4>1
      <3>2. CASE w # <<>>
        BY <1>11, <1>14, <3>2
      <3>. QED  BY <3>1, <3>2
    <2>2. Host(pos) = Copy(pos, Span(pos, {":", "/"})) /\ Bracketed(pos) = 0
      BY <2>1 DEF Host, Bracketed
    <2>3. HasHost(pos) <=> Host(pos) # <<>>
      BY <2>1 DEF HasHost
    <2>4. \A j \in 1..Len(w) : w[j] \notin {":", "/"}
      <3>1. Free(w, {":", "/", "["}) \/ w[1] = "["
        BY <1>3 DEF HostIsFree
      <3>2. CASE Free(w, {":", "/", "["})
        BY <3>2, FreeOf
      <3>3. CASE w = <<>>
        BY <1>2, <1>9, <3>3 DEF h
      <3>. QED  BY <1>14, <3>1, <3>2, <3>3
    <2>5. HostFits(p) <=> w # <<>>
      BY <1>14 DEF HostFits, w
    <2>6. ASSUME HostFits(p) PROVE HasHost(pos)
      <3>1. pos \in 0..Len(uri) /\ uri \in Seq(Words)
        <4>1. uri \in Seq(Words)
          BY <1>1, SeqOfMore DEF Words
        <4>. QED  BY <1>1, <1>2, <4>1
      <3>. DEFINE l == Span(pos, {":", "/"})
      <3>2. /\ l \in 0..(Len(uri) - pos) /\ At(pos + l) \in {":", "/"} \cup {"end"}
            /\ Len(Host(pos)) = l
        BY <2>2, <3>1, SpanType, CopySpan
      <3>. HIDE DEF l
      <3>3. ASSUME l = 0 PROVE FALSE
        <4>1. pos + l = pos /\ 1 \in 1..Len(w)
          BY <1>2, <1>9, <2>5, <2>6, <3>3 DEF h
        <4>2. At(pos) = w[1] /\ w[1] \in Word
          BY <1>2, <1>11, <2>5, <2>6, <4>1
        <4>. QED  BY <2>4, <3>2, <4>1, <4>2 DEF Word
      <3>4. Len(Host(pos)) # 0
        BY <3>2, <3>3
      <3>. QED  BY <2>3, <3>4
    <2>7. ASSUME ~MeetsQuery(p) PROVE Host(pos) = w
      <3>1. At(pos + Len(w)) \in {":", "/"} \cup {"end"}
        BY <1>7, <2>7 DEF h
      <3>. QED  BY <1>1, <1>2, <2>2, <2>4, <3>1, WordRead
    <2>8. w # <<>> => BareHost(p) = w
      BY <1>14 DEF BareHost, w
    <2>9. ASSUME ~MeetsQuery(p) PROVE pos + Bracketed(pos) + Len(Host(pos)) = pos + h
      BY <1>2, <2>2, <2>7, <2>9 DEF h
    <2>. QED  BY <1>4, <2>3, <2>5, <2>6, <2>7, <2>8, <2>9 DEF pos
  <1>. QED  BY <1>12, <1>13, <1>14

\* The authority of a well-formed URI is read, and nothing else is.
LEMMA AuthorityReads ==
  ASSUME parts \in Parts, uri = Text(parts), NEW start, Laid(parts, uri, start)
  PROVE  /\ WellFormed => ValidScheme /\ HasAuthority
         /\ ValidScheme /\ HasAuthority /\ ~HostMeetsQuery =>
              /\ WellFormed /\ HostRead = BareHost(parts) /\ PortRead = PortOf(parts)
              /\ AdvanceTo(PortPos, {"/", "?"})
                   = IF parts.port = NoPort THEN Len(uri) ELSE start[1]
  <1>1. /\ ValidScheme <=> parts.scheme \in {<<"coap">>, <<"coaps">>}
        /\ ValidScheme => /\ AuthorityPos = Len(parts.scheme)
                          /\ Copy(AuthorityPos, 3) = <<":", "/", "/">>
    BY SchemeRead
  <1>2. WellFormed <=> ValidScheme /\ HostFits(parts)
    BY <1>1, Zenon DEF WellFormed, HostFits
  <1>3. HostMeetsQuery <=> MeetsQuery(parts)
    BY DEF HostMeetsQuery, MeetsQuery
  <1>4. ASSUME ValidScheme PROVE AuthorityPos + 3 = HostPos(parts)
    BY <1>1, <1>4 DEF HostPos
  <1>5. ASSUME WellFormed PROVE ValidScheme /\ HasAuthority
    <2>1. ValidScheme /\ HasHost(HostPos(parts))
      BY <1>2, <1>5, HostReads
    <2>. QED  BY <1>1, <1>4, <2>1 DEF HasAuthority
  <1>6. ASSUME ValidScheme, HasAuthority, ~HostMeetsQuery
        PROVE  /\ WellFormed /\ HostRead = BareHost(parts) /\ PortRead = PortOf(parts)
               /\ AdvanceTo(PortPos, {"/", "?"})
                    = IF parts.port = NoPort THEN Len(uri) ELSE start[1]
    <2>1. HasHost(HostPos(parts)) /\ ~MeetsQuery(parts)
      BY <1>3, <1>4, <1>6 DEF HasAuthority
    <2>2. /\ HostFits(parts) /\ Host(HostPos(parts)) = BareHost(parts)
          /\ HostPos(parts) + Bracketed(HostPos(parts)) + Len(Host(HostPos(parts))) = HostEnd(parts)
      BY <2>1, HostReads
    <2>3. HostRead = BareHost(parts) /\ PortPos = HostEnd(parts)
      BY <1>4, <1>6, <2>2 DEF HostRead, PortPos
    <2>4. /\ Port(HostEnd(parts)) = PortOf(parts)
          /\ AdvanceTo(HostEnd(parts), {"/", "?"})
               = IF parts.port = NoPort THEN Len(uri) ELSE start[1]
      BY <2>1, PortReads
    <2>. QED  BY <1>2, <1>6, <2>2, <2>3, <2>4 DEF PortRead
  <1>. QED  BY <1>5, <1>6

-----------------------------------------------------------------------------
(* The options made so far, and what is ahead.                             *)

First == IF matches THEN 0 ELSE 2
Begin(s, t) == Len(s) <= Len(t) /\ \A i \in 1..Len(s) : s[i] = t[i]

LEMMA ExpectedIs ==
  ASSUME parts \in Parts, WellFormed
  PROVE  /\ Expected \in Seq(Opts) /\ Len(Expected) = First + PieceCount(parts)
         /\ ~matches => /\ Expected[1] = Option("host", BareHost(parts))
                        /\ Expected[2] = Option("port", <<PortOf(parts)>>)
         /\ \A k \in 1..PieceCount(parts) :
              Expected[First + k] = IF k <= Len(parts.path)
                                      THEN Option("path", parts.path[k])
                                      ELSE Option("query", parts.query[k - Len(parts.path)])
  <1>. DEFINE m == Len(parts.path)
              n == Len(parts.query)
              a == IF matches THEN <<>>
                   ELSE <<Option("host", BareHost(parts)), Option("port", <<PortOf(parts)>>)>>
              b == [i \in DOMAIN parts.path |-> Option("path", parts.path[i])]
              c == [i \in DOMAIN parts.query |-> Option("query", parts.query[i])]
  <1>1. Expected = a \o b \o c
    BY DEF Expected, BareHost, PortOf
  <1>2. /\ parts.path \in Seq(Seq(Open)) /\ parts.query \in Seq(Seq(Open)) /\ m \in Nat /\ n \in Nat
        /\ DOMAIN parts.path = 1..m /\ DOMAIN parts.query = 1..n
        /\ \A i \in 1..m : parts.path[i] \in Seq(Open)
        /\ \A i \in 1..n : parts.query[i] \in Seq(Open)
    <2>1. parts.path \in Seq(Seq(Open)) /\ parts.query \in Seq(Seq(Open))
      BY PartTypes
    <2>. QED  BY <2>1
  <1>3. \A w : w \in Seq(Open) \/ w \in Seq(Word) => w \in Seq(Words)
    <2>1. Open \subseteq Words /\ Word \subseteq Words
      BY DEF Open, Words
    <2>. QED  BY <2>1, SeqOfMore
  <1>4. \A num, w : num \in {"host", "port", "path", "query"} /\ w \in Seq(Words)
                   => Option(num, w) \in Opts
    BY DEF Option, Opts
  <1>5. BareHost(parts) \in Seq(Words)
    <2>1. parts.host \in Seq(Word)
      BY PartTypes
    <2>2. SubSeq(parts.host, 2, Len(parts.host) - 1) \in Seq(Word)
      <3>1. 2 \in Int /\ Len(parts.host) - 1 \in Int
            /\ \A i \in 2..(Len(parts.host) - 1) : parts.host[i] \in Word
        BY <2>1
      <3>. QED  BY <3>1, SubSeqProperties
    <2>. QED  BY <1>3, <2>1, <2>2 DEF BareHost
  <1>6. <<PortOf(parts)>> \in Seq(Words)
    <2>1. parts.port \in STRING \ {"end"}
      BY PartsAssumption
    <2>2. PortOf(parts) \in Words
      BY <2>1 DEF PortOf, Words, Word, MC_DEFAULT_PORT
    <2>. QED  BY <2>2
  <1>7. /\ a \in Seq(Opts) /\ Len(a) = First
        /\ ~matches => /\ a[1] = Option("host", BareHost(parts))
                       /\ a[2] = Option("port", <<PortOf(parts)>>)
    <2>1. Option("host", BareHost(parts)) \in Opts /\ Option("port", <<PortOf(parts)>>) \in Opts
      BY <1>4, <1>5, <1>6
    <2>. QED  BY <2>1 DEF First
  <1>. HIDE DEF m, n
  <1>8. /\ b \in Seq(Opts) /\ Len(b) = m /\ \A i \in 1..m : b[i] = Option("path", parts.path[i])
    <2>1. b = [i \in 1..m |-> Option("path", parts.path[i])]
      BY <1>2
    <2>2. \A i \in 1..m : Option("path", parts.path[i]) \in Opts
      BY <1>2, <1>3, <1>4
    <2>. HIDE DEF b
    <2>3. b \in [1..m -> Opts]
      BY <2>1, <2>2
    <2>. QED  BY <1>2, <2>1, <2>3
  <1>9. /\ c \in Seq(Opts) /\ Len(c) = n /\ \A i \in 1..n : c[i] = Option("query", parts.query[i])
    <2>1. c = [i \in 1..n |-> Option("query", parts.query[i])]
      BY <1>2
    <2>2. \A i \in 1..n : Option("query", parts.query[i]) \in Opts
      BY <1>2, <1>3, <1>4
    <2>. HIDE DEF c
    <2>3. c \in [1..n -> Opts]
      BY <2>1, <2>2
    <2>. QED  BY <1>2, <2>1, <2>3
  <1>. HIDE DEF a, b, c
  <1>. DEFINE ab == a \o b
  <1>10. First \in Nat /\ PieceCount(parts) = m + n
    BY DEF First, PieceCount, m, n
  <1>11. ab \in Seq(Opts) /\ Follows(a, b, ab)
    BY <1>7, <1>8, JoinedTwo
  <1>. HIDE DEF ab
  <1>12. Expected \in Seq(Opts) /\ Follows(ab, c, Expected)
    <2>1. Expected = ab \o c
      BY <1>1 DEF ab
    <2>. QED  BY <1>9, <1>11, <2>1, JoinedTwo
  <1>13. /\ Len(ab) = First + m /\ Len(Expected) = First + m + n
         /\ \A j \in 1..(First + m) : Expected[j] = ab[j]
         /\ \A j \in 1..n : Expected[First + m + j] = c[j]
         /\ \A j \in 1..First : ab[j] = a[j]
         /\ \A j \in 1..m : ab[First + j] = b[j]
    BY <1>7, <1>8, <1>9, <1>11, <1>12 DEF Follows
  <1>14. ~matches => Expected[1] = a[1] /\ Expected[2] = a[2]
    <2>1. ~matches => /\ First = 2 /\ 1 \in 1..First /\ 2 \in 1..First
                      /\ 1 \in 1..(First + m) /\ 2 \in 1..(First + m)
      BY <1>2 DEF First
    <2>. QED  BY <1>13, <2>1
  <1>15. ASSUME NEW k \in 1..(m + n)
         PROVE  Expected[First + k] = IF k <= m THEN Option("path", parts.path[k])
                                      ELSE Option("query", parts.query[k - m])
    <2>1. CASE k <= m
      <3>1. k \in 1..m /\ First + k \in 1..(First + m)
        BY <1>2, <1>10, <2>1
      <3>. QED  BY <1>8, <1>13, <2>1, <3>1
    <2>2. CASE ~(k <= m)
      <3>1. k - m \in 1..n /\ First + m + (k - m) = First + k
        BY <1>2, <1>10, <2>2
      <3>2. Expected[First + k] = c[k - m]
        BY <1>13, <3>1
      <3>. QED  BY <1>9, <2>2, <3>1, <3>2
    <2>. QED  BY <2>1, <2>2
  <1>16. Len(Expected) = First + (m + n)
    BY <1>2, <1>10, <1>13
  <1>. QED  BY <1>7, <1>10, <1>12, <1>14, <1>15, <1>16 DEF m

Starts == CHOOSE start : Laid(parts, uri, start)

\* The parser is at its k-th piece, or it has gone to the end past an empty one or for want
\* of a port.
AtPiece(k) ==
  /\ Len(options) = First + (k - 1)
  /\ \/ /\ current = Starts[k]
        /\ stage # "path" => k > Len(parts.path)
        /\ stage = "done" => k = PieceCount(parts) + 1
     \/ current = Len(uri) /\ (parts.port = NoPort \/ ~NoneEmpty)

Found ==
  /\ parts \in Parts /\ uri = Text(parts)
  /\ \/ stage \in {"address", "authority", "refused"} /\ options = <<>>
     \/ stage \in {"path", "query", "done"}
  /\ stage = "refused" => ~WellFormed
  /\ stage \in {"path", "query", "done"} /\ ~HostMeetsQuery =>
       /\ WellFormed /\ Begin(options, Expected)
       /\ \E k \in 1..(PieceCount(parts) + 1) : AtPiece(k)

LEMMA FoundStays ==
  ASSUME [Next]_vars
  PROVE  /\ parts' = parts /\ uri' = uri /\ First' = First /\ Starts' = Starts
         /\ WellFormed' = WellFormed /\ NoneEmpty' = NoneEmpty
         /\ HostMeetsQuery' = HostMeetsQuery /\ Expected' = Expected
  <1>1. parts' = parts /\ uri' = uri /\ matches' = matches
    BY DEF Next, vars, ToAddress, ParseAuthority, TakePath, EndPath, TakeQuery, EndQuery
  <1>. QED  BY <1>1 DEF First, Starts, WellFormed, NoneEmpty, HostMeetsQuery, Expected

LEMMA StartsAreLaid ==
  ASSUME parts \in Parts, uri = Text(parts)
  PROVE  /\ Laid(parts, uri, Starts) /\ PieceCount(parts) \in Nat /\ Len(parts.path) \in Nat
         /\ Len(parts.path) <= PieceCount(parts) /\ First \in Nat
         /\ uri \in Seq(Word) /\ Len(uri) \in Nat
  <1>1. Laid(parts, uri, Starts)
    BY TextIsLaid DEF Starts
  <1>2. Len(parts.path) \in Nat /\ Len(parts.query) \in Nat
    <2>1. parts.path \in Seq(Seq(Open)) /\ parts.query \in Seq(Seq(Open))
      BY PartTypes
    <2>. QED  BY <2>1
  <1>3. uri \in Seq(Word)
    BY TextBegins DEF Begins
  <1>4. \A i, j \in Nat : i + j \in Nat /\ i <= i + j
    OBVIOUS
  <1>5. PieceCount(parts) \in Nat /\ Len(parts.path) <= PieceCount(parts)
    BY <1>2, <1>4 DEF PieceCount
  <1>6. First \in Nat /\ Len(uri) \in Nat
    BY <1>3 DEF First
  <1>. QED  BY <1>1, <1>2, <1>3, <1>5, <1>6

\* The k-th piece is where the parser stands, as long as it has not come to the end.
LEMMA PieceAhead ==
  ASSUME Found, NEW k \in 1..(PieceCount(parts) + 1), AtPiece(k), At(current) # "end"
  PROVE  /\ current = Starts[k] /\ k \in 1..PieceCount(parts) /\ At(current) = Mark(parts, k)
         /\ stage # "path" => k > Len(parts.path)
         /\ stage # "done"
  <1>1. parts \in Parts /\ uri = Text(parts)
    BY DEF Found
  <1>2. /\ Laid(parts, uri, Starts) /\ PieceCount(parts) \in Nat
        /\ uri \in Seq(Word) /\ Len(uri) \in Nat
    BY <1>1, StartsAreLaid
  <1>3. At(Len(uri)) = "end"
    BY <1>2, AtInside
  <1>4. current = Starts[k] /\ (stage # "path" => k > Len(parts.path))
        /\ (stage = "done" => k = PieceCount(parts) + 1)
    BY <1>3 DEF AtPiece
  <1>5. Starts[PieceCount(parts) + 1] = Len(uri)
    BY <1>2 DEF Laid
  <1>6. k # PieceCount(parts) + 1
    BY <1>3, <1>4, <1>5
  <1>7. k \in 1..PieceCount(parts)
    BY <1>2, <1>6
  <1>. QED  BY <1>1, <1>2, <1>4, <1>6, <1>7, PieceRead

\* A piece taken is the next of those expected.
LEMMA PieceTaken ==
  ASSUME Found, options \in Seq(Opts), WellFormed, Begin(options, Expected),
         NEW k \in 1..PieceCount(parts), Len(options) = First + (k - 1),
         NEW option, option = Expected[First + k]
  PROVE  /\ Begin(Append(options, option), Expected)
         /\ Len(Append(options, option)) = First + ((k + 1) - 1)
         /\ k + 1 \in 1..(PieceCount(parts) + 1)
  <1>1. /\ parts \in Parts /\ PieceCount(parts) \in Nat /\ First \in Nat
    BY StartsAreLaid DEF Found
  <1>2. Expected \in Seq(Opts) /\ Len(Expected) = First + PieceCount(parts)
    BY <1>1, ExpectedIs
  <1>. DEFINE n == Len(options)
              s == Append(options, option)
  <1>3. n \in Nat /\ n + 1 = First + k /\ n + 1 <= Len(Expected) /\ k + 1 \in 1..(PieceCount(parts) + 1)
    BY <1>1, <1>2
  <1>4. Len(s) = n + 1 /\ s[n + 1] = option /\ \A i \in 1..n : s[i] = options[i]
    <2>1. option \in Opts
      <3>1. First + k \in 1..Len(Expected)
        BY <1>1, <1>2
      <3>. QED  BY <1>2, <3>1
    <2>. QED  BY <2>1
  <1>. HIDE DEF n, s
  <1>5. ASSUME NEW i \in 1..(n + 1) PROVE s[i] = Expected[i]
    <2>1. CASE i = n + 1
      BY <1>3, <1>4, <2>1
    <2>2. CASE i # n + 1
      <3>1. i \in 1..n
        BY <1>3, <2>2
      <3>. QED  BY <1>4, <3>1 DEF Begin, n
    <2>. QED  BY <2>1, <2>2
  <1>6. Begin(s, Expected)
    BY <1>3, <1>4, <1>5 DEF Begin
  <1>7. Len(s) = First + ((k + 1) - 1)
    BY <1>1, <1>3, <1>4
  <1>. QED  BY <1>3, <1>6, <1>7 DEF s

LEMMA TakeKeepsFound ==
  ASSUME IInv, Found, [Next]_vars, TakePath \/ TakeQuery
  PROVE  Found'
  <1>1. /\ parts' = parts /\ uri' = uri /\ First' = First /\ Starts' = Starts
        /\ WellFormed' = WellFormed /\ NoneEmpty' = NoneEmpty
        /\ HostMeetsQuery' = HostMeetsQuery /\ Expected' = Expected
    BY FoundStays
  <1>2. stage' = stage /\ stage \in {"path", "query"} /\ At(current) # "end"
    BY DEF TakePath, TakeQuery
  <1>3. parts \in Parts /\ uri = Text(parts)
    BY DEF Found
  <1>4. ASSUME ~HostMeetsQuery
        PROVE  /\ WellFormed /\ Begin(options', Expected)
               /\ \E k \in 1..(PieceCount(parts) + 1) : AtPiece(k)'
    <2>1. WellFormed /\ Begin(options, Expected)
      BY <1>2, <1>4 DEF Found
    <2>2. PICK k \in 1..(PieceCount(parts) + 1) : AtPiece(k)
      BY <1>2, <1>4 DEF Found
    <2>3. /\ current = Starts[k] /\ k \in 1..PieceCount(parts) /\ At(current) = Mark(parts, k)
          /\ stage # "path" => k > Len(parts.path)
      BY <1>2, <2>2, PieceAhead
    <2>4. Len(options) = First + (k - 1)
      BY <2>2 DEF AtPiece
    <2>5. /\ Laid(parts, uri, Starts) /\ PieceCount(parts) \in Nat /\ Len(parts.path) \in Nat
          /\ First \in Nat
      BY <1>3, StartsAreLaid
    <2>. DEFINE option == IF k <= Len(parts.path) THEN Option("path", parts.path[k])
                          ELSE Option("query", parts.query[k - Len(parts.path)])
                w == IF k <= Len(parts.path) THEN parts.path[k] ELSE parts.query[k - Len(parts.path)]
    <2>6. option = Expected[First + k]
      BY <1>3, <2>1, <2>3, ExpectedIs
    <2>7. /\ options' = Append(options, option)
          /\ current' = IF w = <<>> THEN Len(uri) ELSE Starts[k + 1]
      <3>1. CASE TakePath
        <4>1. k <= Len(parts.path)
          <5>1. Mark(parts, k) = "/"
            BY <2>3, <3>1 DEF TakePath
          <5>. QED  BY <5>1 DEF Mark
        <4>2. /\ GetPath(Starts[k]) = parts.path[k]
              /\ AdvanceTo(Starts[k] + 1, {"/", "?"})
                   = IF parts.path[k] = <<>> THEN Len(uri) ELSE Starts[k + 1]
          BY <1>3, <2>3, <2>5, <4>1, PieceRead
        <4>. QED  BY <2>3, <3>1, <4>1, <4>2 DEF TakePath
      <3>2. CASE TakeQuery
        <4>1. ~(k <= Len(parts.path))
          <5>1. stage # "path"
            BY <3>2 DEF TakeQuery
          <5>. QED  BY <2>3, <2>5, <5>1
        <4>2. /\ GetQuery(Starts[k]) = parts.query[k - Len(parts.path)]
              /\ AdvanceTo(Starts[k] + 1, {"&"})
                   = IF parts.query[k - Len(parts.path)] = <<>> THEN Len(uri) ELSE Starts[k + 1]
          BY <1>3, <2>3, <2>5, <4>1, PieceRead
        <4>. QED  BY <2>3, <3>2, <4>1, <4>2 DEF TakeQuery
      <3>. QED  BY <3>1, <3>2
    <2>8. w = <<>> => ~NoneEmpty
      <3>1. CASE k <= Len(parts.path)
        <4>1. k \in DOMAIN parts.path
          <5>1. parts.path \in Seq(Seq(Open))
            BY <1>3, PartTypes
          <5>2. DOMAIN parts.path = 1..Len(parts.path)
            BY <5>1
          <5>. QED  BY <2>3, <2>5, <3>1, <5>2
        <4>. QED  BY <3>1, <4>1 DEF NoneEmpty
      <3>2. CASE ~(k <= Len(parts.path))
        <4>1. k - Len(parts.path) \in DOMAIN parts.query
          <5>1. parts.query \in Seq(Seq(Open))
            BY <1>3, PartTypes
          <5>2. DOMAIN parts.query = 1..Len(parts.query) /\ Len(parts.query) \in Nat
            BY <5>1
          <5>3. PieceCount(parts) = Len(parts.path) + Len(parts.query)
            BY DEF PieceCount
          <5>4. \A i, j \in Nat : k \in 1..(i + j) /\ ~(k <= i) => k - i \in 1..j
            OBVIOUS
          <5>5. k - Len(parts.path) \in 1..Len(parts.query)
            BY <2>3, <2>5, <3>2, <5>2, <5>3, <5>4
          <5>. QED  BY <5>2, <5>5
        <4>. QED  BY <3>2, <4>1 DEF NoneEmpty
      <3>. QED  BY <3>1, <3>2
    <2>. HIDE DEF option, w
    <2>9. /\ Begin(options', Expected) /\ Len(options') = First + ((k + 1) - 1)
          /\ k + 1 \in 1..(PieceCount(parts) + 1)
      BY <2>1, <2>3, <2>4, <2>6, <2>7, PieceTaken DEF IInv
    <2>10. AtPiece(k + 1)'
      <3>1. stage' # "path" => k + 1 > Len(parts.path)
        BY <1>2, <2>3, <2>5
      <3>2. stage' # "done"
        BY <1>2
      <3>. QED  BY <1>1, <2>7, <2>8, <2>9, <3>1, <3>2 DEF AtPiece
    <2>. QED  BY <2>1, <2>9, <2>10
  <1>. QED  BY <1>1, <1>2, <1>3, <1>4 DEF Found

LEMMA AuthorityKeepsFound ==
  ASSUME IInv, Found, [Next]_vars, ParseAuthority
  PROVE  Found'
  <1>1. /\ parts' = parts /\ uri' = uri /\ First' = First /\ Starts' = Starts
        /\ WellFormed' = WellFormed /\ NoneEmpty' = NoneEmpty
        /\ HostMeetsQuery' = HostMeetsQuery /\ Expected' = Expected
    BY FoundStays
  <1>2. parts \in Parts /\ uri = Text(parts) /\ stage = "authority" /\ options = <<>>
    BY DEF Found, ParseAuthority
  <1>3. /\ Laid(parts, uri, Starts) /\ PieceCount(parts) \in Nat
        /\ First \in Nat
    BY <1>2, StartsAreLaid
  <1>4. /\ WellFormed => ValidScheme /\ HasAuthority
        /\ ValidScheme /\ HasAuthority /\ ~HostMeetsQuery =>
             /\ WellFormed /\ HostRead = BareHost(parts) /\ PortRead = PortOf(parts)
             /\ AdvanceTo(PortPos, {"/", "?"})
                  = IF parts.port = NoPort THEN Len(uri) ELSE Starts[1]
    BY <1>2, <1>3, AuthorityReads
  <1>5. CASE ~(ValidScheme /\ HasAuthority)
    <2>1. stage' = "refused" /\ options' = options
      BY <1>5 DEF ParseAuthority, HasAuthority, AuthorityPos
    <2>. QED  BY <1>1, <1>2, <1>4, <1>5, <2>1 DEF Found
  <1>6. CASE ValidScheme /\ HasAuthority
    <2>1. /\ stage' = "path" /\ current' = AdvanceTo(PortPos, {"/", "?"})
          /\ options' = IF matches THEN <<>>
                        ELSE <<Option("host", HostRead), Option("port", <<PortRead>>)>>
      BY <1>6 DEF ParseAuthority, HasAuthority, AuthorityPos, PortPos, HostRead, PortRead
    <2>2. ASSUME ~HostMeetsQuery
          PROVE  WellFormed /\ Begin(options', Expected) /\ AtPiece(1)'
      <3>1. /\ WellFormed /\ HostRead = BareHost(parts) /\ PortRead = PortOf(parts)
            /\ current' = IF parts.port = NoPort THEN Len(uri) ELSE Starts[1]
        BY <1>4, <1>6, <2>1, <2>2
      <3>2. /\ Len(Expected) = First + PieceCount(parts)
            /\ ~matches => /\ Expected[1] = Option("host", BareHost(parts))
                           /\ Expected[2] = Option("port", <<PortOf(parts)>>)
        BY <1>2, <3>1, ExpectedIs
      <3>3. Len(options') = First
        BY <2>1 DEF First
      <3>4. \A i \in 1..First : options'[i] = Expected[i]
        <4>1. CASE matches
          <5>1. \A i \in 1..First : FALSE
            BY <4>1 DEF First
          <5>. QED  BY <5>1
        <4>2. CASE ~matches
          <5>1. \A i \in 1..First : i = 1 \/ i = 2
            BY <4>2 DEF First
          <5>. QED  BY <2>1, <3>1, <3>2, <4>2, <5>1
        <4>. QED  BY <4>1, <4>2
      <3>5. Begin(options', Expected)
        BY <1>3, <3>2, <3>3, <3>4 DEF Begin
      <3>6. Len(options') = First + (1 - 1)
        BY <1>3, <3>3
      <3>7. AtPiece(1)'
        BY <1>1, <2>1, <3>1, <3>6 DEF AtPiece
      <3>. QED  BY <3>1, <3>5, <3>7
    <2>3. 1 \in 1..(PieceCount(parts) + 1)
      BY <1>3
    <2>. QED  BY <1>1, <1>2, <2>1, <2>2, <2>3 DEF Found
  <1>. QED  BY <1>5, <1>6

LEMMA EndKeepsFound ==
  ASSUME IInv, Found, [Next]_vars, EndPath \/ EndQuery
  PROVE  Found'
  <1>1. /\ parts' = parts /\ uri' = uri /\ First' = First /\ Starts' = Starts
        /\ WellFormed' = WellFormed /\ NoneEmpty' = NoneEmpty
        /\ HostMeetsQuery' = HostMeetsQuery /\ Expected' = Expected
    BY FoundStays
  <1>2. /\ options' = options /\ current' = current
        /\ \/ stage = "path" /\ stage' = "query" /\ At(current) # "/"
           \/ stage = "query" /\ stage' = "done" /\ At(current) \notin {"?", "&"}
    BY DEF EndPath, EndQuery
  <1>3. ASSUME NEW k \in 1..(PieceCount(parts) + 1), AtPiece(k) PROVE AtPiece(k)'
    <2>1. CASE current = Len(uri) /\ (parts.port = NoPort \/ ~NoneEmpty)
      BY <1>1, <1>2, <1>3, <2>1 DEF AtPiece
    <2>2. CASE current = Starts[k] /\ (stage # "path" => k > Len(parts.path))
      <3>1. /\ parts \in Parts /\ uri = Text(parts) /\ Laid(parts, uri, Starts)
            /\ PieceCount(parts) \in Nat /\ Len(parts.path) \in Nat
            /\ Len(parts.path) <= PieceCount(parts)
        BY StartsAreLaid DEF Found
      <3>2. k \in 1..PieceCount(parts) => At(current) = Mark(parts, k)
        BY <2>2, <3>1, PieceRead
      <3>3. CASE stage = "path"
        <4>1. k > Len(parts.path)
          <5>1. SUFFICES ASSUME k <= Len(parts.path) PROVE FALSE
            BY <3>1
          <5>2. k \in 1..PieceCount(parts) /\ Mark(parts, k) = "/"
            BY <3>1, <5>1 DEF Mark
          <5>. QED  BY <1>2, <3>2, <3>3, <5>2
        <4>. QED  BY <1>1, <1>2, <1>3, <2>2, <3>3, <4>1 DEF AtPiece
      <3>4. CASE stage = "query"
        <4>1. k = PieceCount(parts) + 1
          <5>1. SUFFICES ASSUME k \in 1..PieceCount(parts) PROVE FALSE
            BY <3>1
          <5>2. ~(k <= Len(parts.path))
            BY <2>2, <3>1, <3>4
          <5>3. Mark(parts, k) \in {"?", "&"}
            BY <5>2 DEF Mark
          <5>. QED  BY <1>2, <3>2, <3>4, <5>1, <5>3
        <4>. QED  BY <1>1, <1>2, <1>3, <2>2, <3>4, <4>1 DEF AtPiece
      <3>. QED  BY <1>2, <3>3, <3>4
    <2>. QED  BY <1>3, <2>1, <2>2 DEF AtPiece
  <1>. QED  BY <1>1, <1>2, <1>3 DEF Found

LEMMA FoundInvariant == Spec => []Found
  <1>1. Init => Found
    BY DEF Init, Found
  <1>2. ASSUME IInv, Found, [Next]_vars PROVE Found'
    <2>1. CASE TakePath \/ TakeQuery
      BY <1>2, <2>1, TakeKeepsFound
    <2>2. CASE ParseAuthority
      BY <1>2, <2>2, AuthorityKeepsFound
    <2>3. CASE EndPath \/ EndQuery
      BY <1>2, <2>3, EndKeepsFound
    <2>4. CASE ToAddress
      BY <1>2, <2>4, FoundStays DEF ToAddress, Found
    <2>5. CASE UNCHANGED vars
      <3>1. /\ parts' = parts /\ uri' = uri /\ options' = options /\ stage' = stage
            /\ current' = current
        BY <2>5 DEF vars
      <3>2. \A k : AtPiece(k)' = AtPiece(k)
        BY <1>2, <3>1, FoundStays DEF AtPiece
      <3>. QED  BY <1>2, <3>1, <3>2, FoundStays DEF Found
    <2>. QED  BY <1>2, <2>1, <2>2, <2>3, <2>4, <2>5 DEF Next
  <1>. QED  BY <1>1, <1>2, ParserInvariant, PTL DEF Spec

\* Two sequences that are alike up to n begin with the same n elements.
LEMMA BeginIsPrefix ==
  ASSUME NEW S, NEW s \in Seq(S), NEW t \in Seq(S), Begin(s, t)
  PROVE  IsPrefix(s, t) /\ (Len(s) = Len(t) => s = t)
  <1>1. Len(s) \in Nat /\ Len(t) \in Nat /\ Len(s) <= Len(t) /\ \A i \in 1..Len(s) : s[i] = t[i]
    BY DEF Begin
  <1>2. /\ SubSeq(s, 1, Len(s)) \in Seq(S) /\ SubSeq(t, 1, Len(s)) \in Seq(S)
        /\ Len(SubSeq(s, 1, Len(s))) = Len(s) /\ Len(SubSeq(t, 1, Len(s))) = Len(s)
        /\ \A i \in 1..Len(s) : SubSeq(s, 1, Len(s))[i] = s[i] /\ SubSeq(t, 1, Len(s))[i] = t[i]
    BY <1>1
  <1>3. SubSeq(s, 1, Len(s)) = SubSeq(t, 1, Len(s))
    BY <1>1, <1>2, SeqEqual
  <1>4. Len(s) = Len(t) => s = t
    BY <1>1, SeqEqual
  <1>. QED  BY <1>1, <1>3, <1>4 DEF IsPrefix

\* For every URI made of components in which no delimiter is hidden, whatever they are and
\* however many: the options that mc_uri_to_options makes are the first of those that the
\* components stand for, and it makes none from a malformed URI.
THEOREM OptionsAreBeginningHolds == Spec => []OptionsAreBeginning
  <1>1. ASSUME IInv, Found PROVE OptionsAreBeginning
    <2>1. ASSUME options # <<>>, ~HostMeetsQuery PROVE WellFormed /\ IsPrefix(options, Expected)
      <3>1. WellFormed /\ Begin(options, Expected) /\ parts \in Parts
        BY <1>1, <2>1 DEF Found
      <3>2. options \in Seq(Opts) /\ Expected \in Seq(Opts)
        BY <1>1, <3>1, ExpectedIs DEF IInv
      <3>. QED  BY <3>1, <3>2, BeginIsPrefix
    <2>. QED  BY <2>1 DEF OptionsAreBeginning
  <1>. QED  BY <1>1, ParserInvariant, FoundInvariant, PTL

\* For every such URI: a well-formed one is not refused, and one that gives a port and has
\* no empty component yields an option for each, in order.
THEOREM PlainIsParsedHolds == Spec => []PlainIsParsed
  <1>1. ASSUME IInv, Found PROVE PlainIsParsed
    <2>1. stage = "refused" => ~WellFormed
      BY <1>1 DEF Found
    <2>2. ASSUME stage = "done", WellFormed, parts.port # NoPort, NoneEmpty PROVE options = Expected
      <3>1. ~HostMeetsQuery
        BY <2>2 DEF HostMeetsQuery
      <3>2. /\ Begin(options, Expected) /\ parts \in Parts
            /\ \E k \in 1..(PieceCount(parts) + 1) : AtPiece(k)
        BY <1>1, <2>2, <3>1 DEF Found
      <3>3. Len(options) = First + ((PieceCount(parts) + 1) - 1)
        BY <2>2, <3>2 DEF AtPiece
      <3>4. /\ PieceCount(parts) \in Nat /\ First \in Nat
        BY <1>1, StartsAreLaid DEF Found
      <3>5. Expected \in Seq(Opts) /\ Len(Expected) = First + PieceCount(parts)
        BY <2>2, <3>2, ExpectedIs
      <3>6. options \in Seq(Opts) /\ Len(options) = Len(Expected)
        BY <1>1, <3>3, <3>4, <3>5 DEF IInv
      <3>. QED  BY <3>2, <3>5, <3>6, BeginIsPrefix
    <2>. QED  BY <2>1, <2>2 DEF PlainIsParsed
  <1>. QED  BY <1>1, ParserInvariant, FoundInvariant, PTL

-----------------------------------------------------------------------------
(* The codec that Request instantiates is the one that the theorems of     *)
(* CodecProofs are about.                                                  *)

CP == INSTANCE CodecProofs WITH
        Messages <- {}, WriteSizes <- {1024}, ReadSizes <- {1024}, Junk <- {0},
        stage <- phase, wrsize <- 1024, rdsize <- 1024

\* What CodecProofs assumes of the constants is true of those given here.
LEMMA InstanceAssumptions == CP!JunkAssumption /\ CP!SizeAssumption /\ CP!MessageAssumption
  BY DEF CP!JunkAssumption, CP!SizeAssumption, CP!MessageAssumption, CP!UInt16, CP!UINT16_MAX

\* Definition by definition, from the numbers of an option's header to a whole message.
LEMMA SameNumbers ==
  /\ \A v : C!HeadNibble(v) = CP!HeadNibble(v) /\ C!Extended(v) = CP!Extended(v)
  /\ \A x : C!ExtendedSize(x) = CP!ExtendedSize(x)
  /\ \A v : C!ExtendedIntSize(v) = CP!ExtendedIntSize(v)
  /\ \A v, e : C!EncodedIntToValue(v, e) = CP!EncodedIntToValue(v, e)
  /\ \A buffer, p : C!At(buffer, p) = CP!At(buffer, p)
  BY DEF C!HeadNibble, CP!HeadNibble, C!Extended, CP!Extended, C!ExtendedSize, CP!ExtendedSize,
         C!ExtendedIntSize, CP!ExtendedIntSize, C!EncodedIntToValue, CP!EncodedIntToValue,
         C!At, CP!At

LEMMA SameOptionBytes == \A os, i : C!OptionBytes(os, i) = CP!OptionBytes(os, i)
  <1>1. \A v : C!ExtendedBytes(v) = CP!ExtendedBytes(v)
    BY SameNumbers DEF C!ExtendedBytes, CP!ExtendedBytes
  <1>2. \A os, i : C!PrevNum(os, i) = CP!PrevNum(os, i)
    BY DEF C!PrevNum, CP!PrevNum
  <1>3. \A v : C!HeadNibble(v) = CP!HeadNibble(v)
    BY SameNumbers
  <1>4. ASSUME NEW os, NEW i PROVE C!OptionBytes(os, i) = CP!OptionBytes(os, i)
    <2>. DEFINE c == (os[i].num - C!PrevNum(os, i)) % 65536
                d == (os[i].num - CP!PrevNum(os, i)) % 65536
                v == os[i].value
                n == Len(v)
    <2>1. CP!OptionBytes(os, i) = <<CP!HeadNibble(d) * 16 + CP!HeadNibble(n)>>
                                    \o CP!ExtendedBytes(d) \o CP!ExtendedBytes(n) \o v
      BY DEF CP!OptionBytes
    <2>2. C!OptionBytes(os, i) = <<C!HeadNibble(c) * 16 + C!HeadNibble(n)>>
                                   \o C!ExtendedBytes(c) \o C!ExtendedBytes(n) \o v
      BY DEF C!OptionBytes
    <2>3. c = d
      BY <1>2
    <2>. HIDE DEF c, d, n, v
    <2>4. /\ C!ExtendedBytes(c) = CP!ExtendedBytes(d) /\ C!ExtendedBytes(n) = CP!ExtendedBytes(n)
          /\ C!HeadNibble(c) = CP!HeadNibble(d) /\ C!HeadNibble(n) = CP!HeadNibble(n)
      BY <1>1, <1>3, <2>3
    <2>. QED  BY <2>1, <2>2, <2>4
  <1>. QED  BY <1>4

LEMMA SameFlattened == \A s : C!FlattenSeq(s) = CP!FlattenSeq(s)
  BY DEF C!FlattenSeq, CP!FlattenSeq

LEMMA SameHeader == \A m : C!Header(m) = CP!Header(m)
  BY DEF C!Header, CP!Header

LEMMA SameOptionsBytes == \A os : C!OptionsBytes(os) = CP!OptionsBytes(os)
  <1>. SUFFICES ASSUME NEW os PROVE C!OptionsBytes(os) = CP!OptionsBytes(os)
    OBVIOUS
  <1>. DEFINE s == [i \in DOMAIN os |-> C!OptionBytes(os, i)]
              t == [i \in DOMAIN os |-> CP!OptionBytes(os, i)]
  <1>1. s = t
    BY SameOptionBytes
  <1>2. C!OptionsBytes(os) = C!FlattenSeq(s) /\ CP!OptionsBytes(os) = CP!FlattenSeq(t)
    BY DEF C!OptionsBytes, CP!OptionsBytes
  <1>. HIDE DEF s, t
  <1>. QED  BY <1>1, <1>2, SameFlattened

LEMMA SameMessageBytes == \A m : C!MessageBytes(m) = CP!MessageBytes(m)
  BY SameHeader, SameOptionsBytes DEF C!MessageBytes, CP!MessageBytes

LEMMA SameOptionSize == \A os, i : C!OptionSize(os, i) = CP!OptionSize(os, i)
  BY SameNumbers DEF C!OptionSize, CP!OptionSize, C!PrevNum, CP!PrevNum

LEMMA SameBufferSize == \A m : C!BufferSize(m) = CP!BufferSize(m)
  <1>. SUFFICES ASSUME NEW m PROVE C!BufferSize(m) = CP!BufferSize(m)
    OBVIOUS
  <1>. DEFINE P(sum) == sum = [i \in 0..Len(m.options) |->
                IF i = 0 THEN 0 ELSE sum[i - 1] + C!OptionSize(m.options, i)]
              Q(sum) == sum = [i \in 0..Len(m.options) |->
                IF i = 0 THEN 0 ELSE sum[i - 1] + CP!OptionSize(m.options, i)]
              s == CHOOSE sum : P(sum)
              t == CHOOSE sum : Q(sum)
              rest == IF m.payload = <<>> THEN 0 ELSE 1 + Len(m.payload)
  <1>1. \A sum : P(sum) <=> Q(sum)
    BY SameOptionSize
  <1>2. C!BufferSize(m) = 4 + Len(m.token) + s[Len(m.options)] + rest
    BY DEF C!BufferSize
  <1>3. CP!BufferSize(m) = 4 + Len(m.token) + t[Len(m.options)] + rest
    BY DEF CP!BufferSize
  <1>4. s = t
    <2>. HIDE DEF P, Q
    <2>. QED  BY <1>1
  <1>. HIDE DEF s, t, rest
  <1>. QED  BY <1>2, <1>3, <1>4

LEMMA SameSort == \A os : C!OptionsSort(os) = CP!OptionsSort(os)
  <1>1. \A S, T : C!Bijection(S, T) = CP!Bijection(S, T)
    <2>1. \A S, T : C!Injection(S, T) = CP!Injection(S, T)
      BY DEF C!Injection, CP!Injection, C!IsInjective, CP!IsInjective
    <2>2. \A S, T : C!Surjection(S, T) = CP!Surjection(S, T)
      BY DEF C!Surjection, CP!Surjection
    <2>. QED  BY <2>1, <2>2 DEF C!Bijection, CP!Bijection
  <1>. QED  BY <1>1 DEF C!OptionsSort, CP!OptionsSort

LEMMA SameOptionNum == \A b, x, p, j : C!OptionNum(b, x, p, j) = CP!OptionNum(b, x, p, j)
  BY SameNumbers DEF C!OptionNum, CP!OptionNum, C!SwapU16, CP!SwapU16, C!NextUint16, CP!NextUint16

LEMMA SameCountEnds == \A w, n : C!CountEnds(w, n) = CP!CountEnds(w, n)
  BY SameNumbers DEF C!CountEnds, CP!CountEnds

LEMMA SameCountOption == \A w, n, j : C!CountOption(w, n, j) = CP!CountOption(w, n, j)
  BY SameNumbers, SameOptionNum, SameCountEnds DEF C!CountOption, CP!CountOption

LEMMA SameCountOptions ==
  \A b, n, p, j : C!CountOptions(b, n, p, j) = CP!CountOptions(b, n, p, j)
  <1>. SUFFICES ASSUME NEW b, NEW n, NEW p, NEW j
                PROVE  C!CountOptions(b, n, p, j) = CP!CountOptions(b, n, p, j)
    OBVIOUS
  <1>. DEFINE P(walk) == walk = [k \in 0..n |->
                IF k = 0 THEN [bpos |-> p, count |-> 0, buffer |-> b]
                ELSE C!CountOption(walk[k - 1], n, j)]
              Q(walk) == walk = [k \in 0..n |->
                IF k = 0 THEN [bpos |-> p, count |-> 0, buffer |-> b]
                ELSE CP!CountOption(walk[k - 1], n, j)]
              s == CHOOSE walk : P(walk)
              t == CHOOSE walk : Q(walk)
  <1>1. \A walk : P(walk) <=> Q(walk)
    BY SameCountOption
  <1>2. C!CountOptions(b, n, p, j) = s[CHOOSE k \in 0..n : C!CountEnds(s[k], n)]
    BY DEF C!CountOptions
  <1>3. CP!CountOptions(b, n, p, j) = t[CHOOSE k \in 0..n : CP!CountEnds(t[k], n)]
    BY DEF CP!CountOptions
  <1>4. s = t
    <2>. HIDE DEF P, Q
    <2>. QED  BY <1>1
  <1>. HIDE DEF s, t
  <1>5. (CHOOSE k \in 0..n : C!CountEnds(s[k], n)) = CHOOSE k \in 0..n : CP!CountEnds(t[k], n)
    BY <1>4, SameCountEnds
  <1>. QED  BY <1>2, <1>3, <1>4, <1>5

LEMMA SameReadOption == \A r, n, j : C!ReadOption(r, n, j) = CP!ReadOption(r, n, j)
  <1>1. \A r, num, len : C!Behind(r, num, len) = CP!Behind(r, num, len)
    BY DEF C!Behind, CP!Behind, C!Bytes, CP!Bytes
  <1>2. \A b, p : C!At(b, p) = CP!At(b, p)
    BY SameNumbers
  <1>. QED  BY <1>1, <1>2, SameOptionNum DEF C!ReadOption, CP!ReadOption

LEMMA SameReadOptions ==
  \A b, n, p, j : C!ReadOptions(b, n, p, j) = CP!ReadOptions(b, n, p, j)
  <1>. SUFFICES ASSUME NEW b, NEW n, NEW p, NEW j
                PROVE  C!ReadOptions(b, n, p, j) = CP!ReadOptions(b, n, p, j)
    OBVIOUS
  <1>. DEFINE c == IF n < 4 THEN [count |-> 0, buffer |-> b] ELSE C!CountOptions(b, n, p, j)
              d == IF n < 4 THEN [count |-> 0, buffer |-> b] ELSE CP!CountOptions(b, n, p, j)
              P(read, e) == read = [k \in 0..e.count |->
                IF k = 0 THEN [bpos |-> p, prevnum |-> 0, buffer |-> e.buffer, options |-> <<>>]
                ELSE C!ReadOption(read[k - 1], n, j)]
              Q(read, e) == read = [k \in 0..e.count |->
                IF k = 0 THEN [bpos |-> p, prevnum |-> 0, buffer |-> e.buffer, options |-> <<>>]
                ELSE CP!ReadOption(read[k - 1], n, j)]
              s(e) == CHOOSE read : P(read, e)
              t(e) == CHOOSE read : Q(read, e)
  <1>1. \A read, e : P(read, e) <=> Q(read, e)
    BY SameReadOption
  <1>2. C!ReadOptions(b, n, p, j) = s(c)[c.count]
    BY DEF C!ReadOptions
  <1>3. CP!ReadOptions(b, n, p, j) = t(d)[d.count]
    BY DEF CP!ReadOptions
  <1>4. c = d
    BY SameCountOptions
  <1>. HIDE DEF c, d
  <1>5. s(d) = t(d)
    <2>. HIDE DEF P, Q
    <2>. QED  BY <1>1
  <1>. HIDE DEF s, t
  <1>. QED  BY <1>2, <1>3, <1>4, <1>5

LEMMA SameOptionsFrom ==
  \A b, n, p, j : C!OptionsFrom(b, n, p, j) = CP!OptionsFrom(b, n, p, j)
  BY SameReadOptions, SameSort DEF C!OptionsFrom, CP!OptionsFrom

LEMMA SameFromBuffer == \A b, j : C!FromBuffer(b, j) = CP!FromBuffer(b, j)
  <1>1. \A x : C!HeaderFields(x) = CP!HeaderFields(x)
    BY DEF C!HeaderFields, CP!HeaderFields
  <1>2. \A x, p : C!PayloadFrom(x, p) = CP!PayloadFrom(x, p)
    BY DEF C!PayloadFrom, CP!PayloadFrom, C!Bytes, CP!Bytes
  <1>3. C!Undefined = CP!Undefined /\ C!Refused = CP!Refused
    BY DEF C!Undefined, CP!Undefined, C!Refused, CP!Refused
  <1>4. \A x, p, n : C!Bytes(x, p, n) = CP!Bytes(x, p, n)
    BY DEF C!Bytes, CP!Bytes
  <1>. QED  BY <1>1, <1>2, <1>3, <1>4, SameOptionsFrom, SameNumbers DEF C!FromBuffer, CP!FromBuffer

-----------------------------------------------------------------------------
(* How often an option is in a list: joining lists adds up, sorting keeps  *)
(* it, and looking a number up leaves it as it is for that number.         *)

\* How often o is in s.
Times(s, o) == Cardinality({i \in DOMAIN s : s[i] = o})

\* Two finite sets between which there is a bijection have the same size.
LEMMA SameSize ==
  ASSUME NEW A, NEW B, IsFiniteSet(A), NEW f \in [A -> B],
         \A x, y \in A : f[x] = f[y] => x = y,
         \A y \in B : \E x \in A : f[x] = y
  PROVE  IsFiniteSet(B) /\ Cardinality(A) = Cardinality(B)
  <1>1. f \in Bijection(A, B)
    BY DEF Bijection, Injection, Surjection, IsInjective
  <1>2. ExistsBijection(A, B)
    BY <1>1 DEF ExistsBijection
  <1>. QED  BY <1>2, FS_Bijection

LEMMA TimesType ==
  ASSUME NEW S, NEW s \in Seq(S), NEW o
  PROVE  /\ IsFiniteSet({i \in DOMAIN s : s[i] = o}) /\ Times(s, o) \in Nat
         /\ Times(s, o) = 0 <=> o \notin Range(s)
  <1>. DEFINE A == {i \in DOMAIN s : s[i] = o}
  <1>1. Len(s) \in Nat /\ DOMAIN s = 1..Len(s)
    OBVIOUS
  <1>2. IsFiniteSet(1..Len(s)) /\ A \in SUBSET (1..Len(s))
    BY <1>1, FS_Interval
  <1>3. IsFiniteSet(A)
    BY <1>2, FS_Subset
  <1>4. A = {} <=> o \notin Range(s)
    BY DEF Range
  <1>. QED  BY <1>3, <1>4, FS_CardinalityType, FS_EmptySet DEF Times

LEMMA TimesJoined ==
  ASSUME NEW S, NEW s \in Seq(S), NEW t \in Seq(S), NEW o
  PROVE  Times(s \o t, o) = Times(s, o) + Times(t, o)
  <1>. DEFINE u == s \o t
              m == Len(s)
              n == Len(t)
              A == {i \in DOMAIN s : s[i] = o}
              B == {i \in DOMAIN t : t[i] = o}
              D == {i \in (m + 1)..(m + n) : u[i] = o}
              f == [i \in B |-> m + i]
  <1>1. /\ m \in Nat /\ n \in Nat /\ DOMAIN s = 1..m /\ DOMAIN t = 1..n /\ DOMAIN u = 1..(m + n)
        /\ \A i \in 1..m : u[i] = s[i]
        /\ \A i \in 1..n : u[m + i] = t[i]
    OBVIOUS
  <1>. HIDE DEF u, m, n
  <1>2. f \in [B -> D]
    BY <1>1
  <1>3. \A x, y \in B : f[x] = f[y] => x = y
    BY <1>1
  <1>4. ASSUME NEW y \in D PROVE \E x \in B : f[x] = y
    <2>1. y - m \in 1..n /\ m + (y - m) = y
      BY <1>1
    <2>2. y - m \in B
      BY <1>1, <2>1
    <2>. QED  BY <2>1, <2>2
  <1>5. IsFiniteSet(A) /\ IsFiniteSet(B)
    BY TimesType
  <1>6. IsFiniteSet(D) /\ Cardinality(D) = Cardinality(B)
    <2>. HIDE DEF B, D, f
    <2>. QED  BY <1>2, <1>3, <1>4, <1>5, SameSize
  <1>7. {i \in DOMAIN u : u[i] = o} = A \cup D /\ A \cap D = {}
    BY <1>1
  <1>8. Cardinality(A \cup D) = Cardinality(A) + Cardinality(D) - Cardinality(A \cap D)
    BY <1>5, <1>6, FS_Union
  <1>9. Cardinality(A) \in Nat /\ Cardinality(D) \in Nat
    BY <1>5, <1>6, FS_CardinalityType
  <1>10. Cardinality(A \cap D) = 0
    BY <1>7, FS_EmptySet
  <1>. HIDE DEF A, B, D
  <1>11. Cardinality(A \cup D) = Cardinality(A) + Cardinality(B)
    BY <1>6, <1>8, <1>9, <1>10
  <1>. QED  BY <1>7, <1>11 DEF Times, A, B, u

LEMMA TimesArranged ==
  ASSUME NEW S, NEW s \in Seq(S), NEW t, NEW p \in Bijection(1..Len(s), 1..Len(s)),
         t = [i \in 1..Len(s) |-> s[p[i]]], NEW o
  PROVE  Times(t, o) = Times(s, o)
  <1>. DEFINE n == Len(s)
              A == {i \in DOMAIN t : t[i] = o}
              B == {i \in DOMAIN s : s[i] = o}
              f == [i \in A |-> p[i]]
  <1>1. /\ p \in [1..n -> 1..n] /\ \A i, j \in 1..n : p[i] = p[j] => i = j
        /\ \A j \in 1..n : \E i \in 1..n : p[i] = j
    BY DEF Bijection, Injection, Surjection, IsInjective
  <1>2. n \in Nat /\ DOMAIN s = 1..n /\ DOMAIN t = 1..n /\ \A i \in 1..n : t[i] = s[p[i]]
    OBVIOUS
  <1>. HIDE DEF n
  <1>3. f \in [A -> B]
    BY <1>1, <1>2
  <1>4. \A x, y \in A : f[x] = f[y] => x = y
    BY <1>1, <1>2
  <1>5. \A y \in B : \E x \in A : f[x] = y
    BY <1>1, <1>2
  <1>6. IsFiniteSet(A)
    <2>1. IsFiniteSet(1..n) /\ A \in SUBSET (1..n)
      BY <1>2, FS_Interval
    <2>. QED  BY <2>1, FS_Subset
  <1>. HIDE DEF A, B, f
  <1>7. Cardinality(A) = Cardinality(B)
    BY <1>3, <1>4, <1>5, <1>6, SameSize
  <1>. QED  BY <1>7 DEF Times, A, B

\* mc_options_list_get_index.
LEMMA IndexIs ==
  ASSUME NEW S, NEW list \in Seq(S), NEW start \in 0..Len(list), NEW num
  PROVE  LET index == GetIndex(list, start, num)
         IN  \/ index = -1 /\ \A i \in (start + 1)..Len(list) : list[i].num # num
             \/ /\ index \in start..(Len(list) - 1) /\ list[index + 1].num = num
                /\ \A i \in (start + 1)..index : list[i].num # num
  <1>. DEFINE I == {i \in (start + 1)..Len(list) : list[i].num = num}
  <1>1. GetIndex(list, start, num) = (IF I # {} THEN Min(I) ELSE 0) - 1
    BY DEF GetIndex, SelectInSubSeq
  <1>2. CASE I = {}
    BY <1>1, <1>2
  <1>3. CASE I # {}
    <2>1. I \subseteq Nat /\ Len(list) \in Nat /\ start \in Nat
      OBVIOUS
    <2>2. \E x \in I : \A y \in I : x <= y
      BY <1>3, <2>1, LeastElement
    <2>3. Min(I) \in I /\ \A y \in I : Min(I) <= y
      BY <2>2 DEF Min
    <2>. DEFINE x == Min(I)
    <2>4. GetIndex(list, start, num) = x - 1
      BY <1>1, <1>3
    <2>5. x \in (start + 1)..Len(list) /\ list[x].num = num
      BY <2>3
    <2>. HIDE DEF x
    <2>6. x - 1 \in start..(Len(list) - 1) /\ (x - 1) + 1 = x
      BY <2>1, <2>5
    <2>7. \A i \in (start + 1)..(x - 1) : list[i].num # num
      <3>. SUFFICES ASSUME NEW i \in (start + 1)..(x - 1), list[i].num = num PROVE FALSE
        OBVIOUS
      <3>1. i \in I /\ ~(x <= i)
        BY <2>1, <2>5
      <3>. QED  BY <2>3, <3>1 DEF x
    <2>. QED  BY <2>4, <2>5, <2>6, <2>7
  <1>. QED  BY <1>2, <1>3

\* What the server finds behind start.
IsFinding(from, list, num, low) ==
  /\ DOMAIN from = low..Len(list)
  /\ \A start \in low..Len(list) :
       from[start] = LET index == GetIndex(list, start, num)
                     IN  IF index < 0 THEN <<>>
                         ELSE <<ListAt(list, index)>> \o from[index + 1]

LEMMA FindingExists ==
  ASSUME NEW S, NEW list \in Seq(S), NEW num
  PROVE  \E from : IsFinding(from, list, num, 0)
  <1>. DEFINE n == Len(list)
              T == {k \in Nat : k <= n => \E from : IsFinding(from, list, num, n - k)}
  <1>1. n \in Nat
    OBVIOUS
  <1>2. 0 \in T
    <2>. DEFINE from == [start \in n..n |-> <<>>]
    <2>1. n \in 0..Len(list) /\ (n + 1)..n = {}
      BY <1>1
    <2>2. GetIndex(list, n, num) < 0
      BY <2>1, IndexIs
    <2>3. ASSUME NEW start \in n..n
          PROVE  from[start] = LET index == GetIndex(list, start, num)
                     IN  IF index < 0 THEN <<>>
                         ELSE <<ListAt(list, index)>> \o from[index + 1]
      BY <2>2, <1>1
    <2>4. IsFinding(from, list, num, n)
      <3>1. DOMAIN from = n..Len(list)
        OBVIOUS
      <3>. HIDE DEF from
      <3>. QED  BY <2>3, <3>1 DEF IsFinding
    <2>5. n - 0 = n
      BY <1>1
    <2>. QED  BY <2>4, <2>5
  <1>3. ASSUME NEW k \in Nat, k \in T PROVE k + 1 \in T
    <2>. SUFFICES ASSUME k + 1 <= n PROVE \E from : IsFinding(from, list, num, n - (k + 1))
      OBVIOUS
    <2>. DEFINE l == n - k
                a == n - (k + 1)
    <2>1. l \in 1..n /\ a \in 0..n /\ a + 1 = l /\ a < l
      BY <1>1
    <2>2. PICK f : IsFinding(f, list, num, l)
      BY <1>1, <1>3
    <2>. DEFINE g == GetIndex(list, a, num)
                h == [start \in a..n |->
                        IF start = a THEN IF g < 0 THEN <<>> ELSE <<ListAt(list, g)>> \o f[g + 1]
                        ELSE f[start]]
    <2>3. ASSUME NEW start \in a..n
          PROVE  LET index == GetIndex(list, start, num)
                 IN  ~(index < 0) => index + 1 \in l..n /\ h[index + 1] = f[index + 1]
      <3>. DEFINE index == GetIndex(list, start, num)
      <3>1. start \in 0..Len(list)
        BY <1>1, <2>1
      <3>2. index = -1 \/ index \in start..(Len(list) - 1)
        BY <3>1, IndexIs
      <3>. HIDE DEF index, a, l
      <3>3. ~(index < 0) => index + 1 \in l..n /\ index + 1 \in a..n /\ index + 1 # a
        BY <1>1, <2>1, <3>1, <3>2
      <3>. QED  BY <3>3 DEF index
    <2>4. ASSUME NEW start \in a..n
          PROVE  h[start] = LET index == GetIndex(list, start, num)
                            IN  IF index < 0 THEN <<>>
                                ELSE <<ListAt(list, index)>> \o h[index + 1]
      <3>1. CASE start = a
        BY <2>3, <3>1
      <3>2. CASE start # a
        <4>1. start \in l..n
          <5>. HIDE DEF a, l, n
          <5>. QED  BY <1>1, <2>1, <2>4, <3>2
        <4>2. h[start] = f[start]
          BY <3>2
        <4>3. f[start] = LET index == GetIndex(list, start, num)
                         IN  IF index < 0 THEN <<>> ELSE <<ListAt(list, index)>> \o f[index + 1]
          BY <2>2, <4>1 DEF IsFinding
        <4>. QED  BY <2>3, <4>2, <4>3
      <3>. QED  BY <3>1, <3>2
    <2>5. IsFinding(h, list, num, a)
      <3>1. DOMAIN h = a..Len(list)
        OBVIOUS
      <3>. HIDE DEF h
      <3>. QED  BY <2>4, <3>1 DEF IsFinding
    <2>. QED  BY <2>5
  <1>. HIDE DEF T
  <1>4. Nat \subseteq T
    BY <1>2, <1>3, SetInduction
  <1>5. n - n = 0 /\ n <= n
    BY <1>1
  <1>. QED  BY <1>1, <1>4, <1>5 DEF T

LEMMA LookUpIsFinding ==
  ASSUME NEW S, NEW list \in Seq(S), NEW num
  PROVE  \E from : IsFinding(from, list, num, 0) /\ LookUp(list, num) = from[0]
  <1>. DEFINE P(from) == from = [start \in 0..Len(list) |->
                LET index == GetIndex(list, start, num)
                IN  IF index < 0 THEN <<>> ELSE <<ListAt(list, index)>> \o from[index + 1]]
              f == CHOOSE from : P(from)
  <1>1. LookUp(list, num) = f[0]
    BY DEF LookUp
  <1>2. PICK from : IsFinding(from, list, num, 0)
    BY FindingExists
  <1>. DEFINE h == [start \in 0..Len(list) |-> from[start]]
  <1>3. P(h)
    <2>. DEFINE Step(e, start) == LET index == GetIndex(list, start, num)
                                  IN  IF index < 0 THEN <<>>
                                      ELSE <<ListAt(list, index)>> \o e[index + 1]
    <2>1. ASSUME NEW start \in 0..Len(list) PROVE h[start] = Step(h, start)
      <3>. DEFINE index == GetIndex(list, start, num)
      <3>1. index = -1 \/ index \in start..(Len(list) - 1)
        BY IndexIs
      <3>2. ~(index < 0) => index + 1 \in 0..Len(list)
        <4>1. Len(list) \in Nat
          OBVIOUS
        <4>. HIDE DEF index
        <4>. QED  BY <3>1, <4>1
      <3>3. from[start] = Step(from, start)
        BY <1>2 DEF IsFinding
      <3>. QED  BY <3>2, <3>3
    <2>2. h = [start \in 0..Len(list) |-> h[start]]
      OBVIOUS
    <2>. HIDE DEF h
    <2>3. [start \in 0..Len(list) |-> h[start]] = [start \in 0..Len(list) |-> Step(h, start)]
      BY <2>1
    <2>. QED  BY <2>2, <2>3
  <1>4. P(f)
    <2>. HIDE DEF P
    <2>. QED  BY <1>3
  <1>5. IsFinding(f, list, num, 0)
    <2>. HIDE DEF f
    <2>. QED  BY <1>4 DEF IsFinding
  <1>. QED  BY <1>1, <1>5

\* found is what is at the places behind start that hold num, q these places, in ascending order.
Picked(list, num, start, found, q) ==
  LET m == Len(found)
      n == Len(list)
  IN  /\ m \in Nat
      /\ \A k \in 1..m : q[k] \in (start + 1)..n /\ list[q[k]].num = num /\ found[k] = list[q[k]]
      /\ \A x \in (start + 1)..n : list[x].num = num => \E k \in 1..m : q[k] = x
      /\ \A k, l \in 1..m : k < l => q[k] < q[l]

IsPicked(list, num, start, found) == \E q : Picked(list, num, start, found, q)

\* One more place in front of those found.
LEMMA PickedInFront ==
  ASSUME NEW S, NEW list \in Seq(S), NEW num, NEW start \in 0..Len(list),
         NEW p \in (start + 1)..Len(list), list[p].num = num,
         \A i \in (start + 1)..(p - 1) : list[i].num # num,
         NEW found \in Seq(S), IsPicked(list, num, p, found)
  PROVE  IsPicked(list, num, start, <<list[p]>> \o found)
  <1>. DEFINE m == Len(found)
              all == <<list[p]>> \o found
              Places(from) == {i \in (from + 1)..Len(list) : list[i].num = num}
  <1>1. PICK q : Picked(list, num, p, found, q)
    BY DEF IsPicked
  <1>. DEFINE h == [k \in 1..(m + 1) |-> IF k = 1 THEN p ELSE q[k - 1]]
  <1>2. /\ m \in Nat /\ Len(list) \in Nat /\ start \in Nat /\ p \in Nat
        /\ start < p /\ p <= Len(list)
    OBVIOUS
  <1>3. /\ Len(all) = m + 1 /\ all[1] = list[p]
        /\ \A k \in 1..m : all[k + 1] = found[k]
    <2>1. list[p] \in S
      BY <1>2
    <2>. QED  BY <1>2, <2>1
  <1>4. /\ \A k \in 1..m : q[k] \in Places(p) /\ found[k] = list[q[k]]
        /\ \A x \in Places(p) : \E k \in 1..m : q[k] = x
        /\ \A k, l \in 1..m : k < l => q[k] < q[l]
    BY <1>1 DEF Picked
  <1>. HIDE DEF m, all
  <1>5. \A x : x \in Places(start) <=> x = p \/ x \in Places(p)
    <2>1. ASSUME NEW x \in Places(start), x # p PROVE x \in Places(p)
      <3>1. x \in Nat /\ start + 1 <= x /\ x <= Len(list) /\ list[x].num = num
        BY <1>2
      <3>2. ~(x <= p - 1)
        BY <1>2, <3>1
      <3>. QED  BY <1>2, <2>1, <3>1, <3>2
    <2>2. p \in Places(start)
      BY <1>2
    <2>3. \A x \in Places(p) : x \in Places(start)
      BY <1>2
    <2>. HIDE DEF Places
    <2>. QED  BY <2>1, <2>2, <2>3
  <1>6. \A x \in Places(p) : x \in Int /\ p < x
    BY <1>2
  <1>. HIDE DEF Places
  <1>7. ASSUME NEW k \in 1..(m + 1)
        PROVE  /\ k = 1 => h[k] = p
               /\ k # 1 => k - 1 \in 1..m /\ (k - 1) + 1 = k /\ h[k] = q[k - 1]
    BY <1>2
  <1>8. \A k \in 1..m : k + 1 \in 1..(m + 1) /\ k + 1 # 1 /\ (k + 1) - 1 = k
    BY <1>2
  <1>9. 1 \in 1..(m + 1)
    BY <1>2
  <1>. HIDE DEF h
  <1>10. \A k \in 1..(m + 1) : h[k] \in Places(start) /\ all[k] = list[h[k]]
    <2>. SUFFICES ASSUME NEW k \in 1..(m + 1) PROVE h[k] \in Places(start) /\ all[k] = list[h[k]]
      OBVIOUS
    <2>1. CASE k = 1
      BY <1>3, <1>5, <1>7, <2>1
    <2>2. CASE k # 1
      <3>1. k - 1 \in 1..m /\ (k - 1) + 1 = k /\ h[k] = q[k - 1]
        BY <1>7, <2>2
      <3>2. all[k] = found[k - 1]
        BY <1>3, <3>1
      <3>. QED  BY <1>4, <1>5, <3>1, <3>2
    <2>. QED  BY <2>1, <2>2
  <1>11. \A x \in Places(start) : \E k \in 1..(m + 1) : h[k] = x
    <2>. SUFFICES ASSUME NEW x \in Places(start) PROVE \E k \in 1..(m + 1) : h[k] = x
      OBVIOUS
    <2>1. CASE x = p
      BY <1>7, <1>9, <2>1
    <2>2. CASE x \in Places(p)
      <3>1. PICK k \in 1..m : q[k] = x
        BY <1>4, <2>2
      <3>2. k + 1 \in 1..(m + 1) /\ h[k + 1] = x
        BY <1>7, <1>8, <3>1
      <3>. QED  BY <3>2
    <2>. QED  BY <1>5, <2>1, <2>2
  <1>12. \A k, l \in 1..(m + 1) : k < l => h[k] < h[l]
    <2>. SUFFICES ASSUME NEW k \in 1..(m + 1), NEW l \in 1..(m + 1), k < l PROVE h[k] < h[l]
      OBVIOUS
    <2>1. l # 1 /\ l - 1 \in 1..m /\ h[l] = q[l - 1]
      BY <1>2, <1>7
    <2>2. CASE k = 1
      BY <1>4, <1>6, <1>7, <2>1, <2>2
    <2>3. CASE k # 1
      <3>1. k - 1 \in 1..m /\ h[k] = q[k - 1]
        BY <1>7, <2>3
      <3>2. k - 1 < l - 1
        BY <1>2
      <3>. QED  BY <1>4, <2>1, <3>1, <3>2
    <2>. QED  BY <2>2, <2>3
  <1>13. Picked(list, num, start, all, h)
    <2>1. m + 1 \in Nat
      BY <1>2
    <2>2. \A x : x \in Places(start) <=> x \in (start + 1)..Len(list) /\ list[x].num = num
      BY DEF Places
    <2>. QED  BY <1>3, <1>10, <1>11, <1>12, <2>1, <2>2 DEF Picked
  <1>. QED  BY <1>13 DEF IsPicked, all

\* Looking a number up finds every option of that number, in the order of the list, and
\* nothing else.
LEMMA LookUpPicks ==
  ASSUME NEW S, NEW list \in Seq(S), NEW num
  PROVE  LookUp(list, num) \in Seq(S) /\ IsPicked(list, num, 0, LookUp(list, num))
  <1>. DEFINE n == Len(list)
              Finds(found, start) == found \in Seq(S) /\ IsPicked(list, num, start, found)
  <1>1. n \in Nat /\ DOMAIN list = 1..n /\ \A i \in 1..n : list[i] \in S
    OBVIOUS
  <1>2. PICK from : IsFinding(from, list, num, 0) /\ LookUp(list, num) = from[0]
    BY LookUpIsFinding
  <1>. DEFINE T == {k \in Nat : \A start \in 0..n : n - start <= k => Finds(from[start], start)}
  <1>3. ASSUME NEW start \in 0..n, GetIndex(list, start, num) < 0
        PROVE  Finds(from[start], start)
    <2>1. from[start] = <<>>
      BY <1>2, <1>3 DEF IsFinding
    <2>2. \A i \in (start + 1)..n : list[i].num # num
      BY <1>3, IndexIs
    <2>3. Len(<<>>) = 0 /\ \A k \in 1..0 : FALSE
      OBVIOUS
    <2>6. Picked(list, num, start, <<>>, <<>>)
      BY <2>2, <2>3 DEF Picked
    <2>7. <<>> \in Seq(S)
      OBVIOUS
    <2>. QED  BY <2>1, <2>6, <2>7 DEF IsPicked
  <1>4. ASSUME NEW start \in 0..n, NEW p \in (start + 1)..n, GetIndex(list, start, num) = p - 1,
               Finds(from[p], p)
        PROVE  Finds(from[start], start)
    <2>1. p \in 1..n /\ p - 1 \in Int /\ ~(p - 1 < 0) /\ (p - 1) + 1 = p
      BY <1>1
    <2>2. from[start] = <<list[p]>> \o from[p]
      BY <1>2, <1>4, <2>1 DEF IsFinding, ListAt
    <2>3. list[p].num = num /\ \A i \in (start + 1)..(p - 1) : list[i].num # num
      <3>1. start \in 0..Len(list)
        OBVIOUS
      <3>. QED  BY <1>4, <2>1, <3>1, IndexIs
    <2>4. list[p] \in S /\ <<list[p]>> \in Seq(S)
      BY <1>1, <2>1
    <2>5. from[start] \in Seq(S)
      BY <1>4, <2>2, <2>4
    <2>. DEFINE found == from[p]
    <2>6. found \in Seq(S) /\ IsPicked(list, num, p, found)
      BY <1>4
    <2>. HIDE DEF found
    <2>7. IsPicked(list, num, start, <<list[p]>> \o found)
      BY <2>3, <2>6, PickedInFront
    <2>. QED  BY <2>2, <2>5, <2>7 DEF found
  <1>. HIDE DEF Finds
  <1>5. ASSUME NEW start \in 0..n
        PROVE  \/ GetIndex(list, start, num) < 0
               \/ \E p \in (start + 1)..n : GetIndex(list, start, num) = p - 1
    <2>. DEFINE index == GetIndex(list, start, num)
    <2>1. index = -1 \/ index \in start..(n - 1)
      BY IndexIs
    <2>. HIDE DEF index, n
    <2>2. CASE index \in start..(n - 1)
      <3>1. index + 1 \in (start + 1)..n /\ index = (index + 1) - 1
        BY <1>1, <2>2
      <3>. QED  BY <3>1 DEF index
    <2>. QED  BY <2>1, <2>2 DEF index
  <1>. HIDE DEF n
  <1>6. 0 \in T
    <2>. SUFFICES ASSUME NEW start \in 0..n, n - start <= 0 PROVE Finds(from[start], start)
      OBVIOUS
    <2>1. (start + 1)..n = {}
      BY <1>1
    <2>. QED  BY <1>3, <1>5, <2>1
  <1>7. ASSUME NEW k \in Nat, k \in T PROVE k + 1 \in T
    <2>. SUFFICES ASSUME NEW start \in 0..n, n - start <= k + 1 PROVE Finds(from[start], start)
      OBVIOUS
    <2>1. CASE GetIndex(list, start, num) < 0
      BY <1>3, <2>1
    <2>2. CASE \E p \in (start + 1)..n : GetIndex(list, start, num) = p - 1
      <3>1. PICK p \in (start + 1)..n : GetIndex(list, start, num) = p - 1
        BY <2>2
      <3>2. p \in 0..n /\ n - p <= k
        BY <1>1
      <3>3. Finds(from[p], p)
        BY <1>7, <3>2
      <3>. QED  BY <1>4, <3>1, <3>3
    <2>. QED  BY <1>5, <2>1, <2>2
  <1>. HIDE DEF T
  <1>8. Nat \subseteq T
    BY <1>6, <1>7, SetInduction
  <1>9. Finds(from[0], 0)
    <2>1. n \in T /\ 0 \in 0..n /\ n - 0 <= n
      BY <1>1, <1>8
    <2>. QED  BY <2>1 DEF T
  <1>. QED  BY <1>2, <1>9 DEF Finds

\* There is one such list only.
LEMMA PickedOnce ==
  ASSUME NEW list, Len(list) \in Nat, NEW num,
         NEW S, NEW found \in Seq(S), IsPicked(list, num, 0, found),
         NEW other \in Seq(S), IsPicked(list, num, 0, other)
  PROVE  found = other
  <1>. DEFINE T == {i \in 1..Len(list) : list[i].num = num}
              m == Len(found)
              n == Len(other)
  <1>1. PICK q : Picked(list, num, 0, found, q)
    BY DEF IsPicked
  <1>2. PICK r : Picked(list, num, 0, other, r)
    BY DEF IsPicked
  <1>3. Enumerates(q, m, T) /\ Enumerates(r, n, T)
    <2>1. 0 + 1 = 1
      OBVIOUS
    <2>. QED  BY <1>1, <1>2, <2>1 DEF Picked, Enumerates
  <1>4. T \in SUBSET Int
    OBVIOUS
  <1>5. SameCount(q, m, r, n)
    <2>. HIDE DEF T, m, n
    <2>. QED  BY <1>3, <1>4, EnumeratedOnce
  <1>6. m = n /\ \A k \in 1..n : q[k] = r[k]
    BY <1>5 DEF SameCount
  <1>7. ASSUME NEW k \in 1..n PROVE found[k] = other[k]
    <2>1. \A i \in 1..m : found[i] = list[q[i]]
      BY <1>1 DEF Picked
    <2>2. \A i \in 1..n : other[i] = list[r[i]]
      BY <1>2 DEF Picked
    <2>3. k \in 1..m /\ q[k] = r[k]
      BY <1>6
    <2>. HIDE DEF m, n
    <2>. QED  BY <2>1, <2>2, <2>3
  <1>. QED  BY <1>6, <1>7

\* What the server finds when it looks a number up: every option of that number, as often as
\* it is in the list, and nothing else.
LEMMA LookUpFinds ==
  ASSUME NEW S, NEW list \in Seq(S), NEW num
  PROVE  /\ LookUp(list, num) \in Seq(S)
         /\ \A o : Times(LookUp(list, num), o) = IF o.num = num THEN Times(list, o) ELSE 0
  <1>. DEFINE found == LookUp(list, num)
              m == Len(found)
              n == Len(list)
  <1>1. found \in Seq(S) /\ IsPicked(list, num, 0, found)
    BY LookUpPicks
  <1>. HIDE DEF found
  <1>2. PICK q : Picked(list, num, 0, found, q)
    BY <1>1 DEF IsPicked
  <1>3. m \in Nat /\ DOMAIN found = 1..m /\ n \in Nat /\ DOMAIN list = 1..n
    BY <1>1
  <1>. HIDE DEF m, n
  <1>4. /\ \A k \in 1..m : q[k] \in 1..n /\ list[q[k]].num = num /\ found[k] = list[q[k]]
        /\ \A x \in 1..n : list[x].num = num => \E k \in 1..m : q[k] = x
        /\ \A k, l \in 1..m : k < l => q[k] < q[l]
    BY <1>2 DEF Picked, m, n
  <1>5. ASSUME NEW o PROVE Times(found, o) = IF o.num = num THEN Times(list, o) ELSE 0
    <2>. DEFINE A == {k \in DOMAIN found : found[k] = o}
                B == {x \in DOMAIN list : list[x] = o}
                f == [k \in A |-> q[k]]
    <2>1. IsFiniteSet(A)
      BY <1>1, TimesType
    <2>2. CASE o.num = num
      <3>1. f \in [A -> B]
        BY <1>3, <1>4
      <3>2. \A x, y \in A : f[x] = f[y] => x = y
        <4>. SUFFICES ASSUME NEW x \in A, NEW y \in A, f[x] = f[y] PROVE x = y
          OBVIOUS
        <4>1. x \in 1..m /\ y \in 1..m /\ q[x] = q[y] /\ q[x] \in Int
          BY <1>3, <1>4
        <4>2. ~(x < y) /\ ~(y < x)
          BY <1>4, <4>1
        <4>. QED  BY <1>3, <4>1, <4>2
      <3>3. \A y \in B : \E x \in A : f[x] = y
        <4>. SUFFICES ASSUME NEW y \in B PROVE \E x \in A : f[x] = y
          OBVIOUS
        <4>1. y \in 1..n /\ list[y] = o
          BY <1>3
        <4>2. PICK k \in 1..m : q[k] = y
          BY <1>4, <2>2, <4>1
        <4>3. k \in A
          BY <1>3, <1>4, <4>1, <4>2
        <4>. QED  BY <4>2, <4>3
      <3>. HIDE DEF A, B, f
      <3>4. Cardinality(A) = Cardinality(B)
        BY <2>1, <3>1, <3>2, <3>3, SameSize
      <3>. QED  BY <2>2, <3>4 DEF Times, A, B
    <2>3. CASE o.num # num
      <3>1. A = {}
        BY <1>3, <1>4, <2>3
      <3>. QED  BY <2>3, <3>1, FS_EmptySet DEF Times
    <2>. QED  BY <2>2, <2>3
  <1>. QED  BY <1>1, <1>5 DEF found

\* What is looked up in two lists joined is what is looked up in each, joined.
LEMMA LookUpJoined ==
  ASSUME NEW S, NEW s \in Seq(S), NEW t \in Seq(S), NEW num
  PROVE  LookUp(s \o t, num) = LookUp(s, num) \o LookUp(t, num)
  <1>. DEFINE u == s \o t
              a == LookUp(s, num)
              b == LookUp(t, num)
              c == a \o b
              n1 == Len(s)
              n2 == Len(t)
              m1 == Len(a)
              m2 == Len(b)
  <1>1. /\ a \in Seq(S) /\ IsPicked(s, num, 0, a)
        /\ b \in Seq(S) /\ IsPicked(t, num, 0, b)
        /\ u \in Seq(S)
    BY LookUpPicks
  <1>2. LookUp(u, num) \in Seq(S) /\ IsPicked(u, num, 0, LookUp(u, num))
    <2>. HIDE DEF u
    <2>. QED  BY <1>1, LookUpPicks
  <1>3. PICK q : Picked(s, num, 0, a, q)
    BY <1>1 DEF IsPicked
  <1>4. PICK r : Picked(t, num, 0, b, r)
    BY <1>1 DEF IsPicked
  <1>. DEFINE h == [k \in 1..(m1 + m2) |-> IF k <= m1 THEN q[k] ELSE n1 + r[k - m1]]
  <1>5. /\ n1 \in Nat /\ n2 \in Nat /\ Len(u) = n1 + n2
        /\ \A i \in 1..n1 : u[i] = s[i]
        /\ \A i \in 1..n2 : u[n1 + i] = t[i]
    OBVIOUS
  <1>. HIDE DEF a, b
  <1>6. /\ c \in Seq(S) /\ m1 \in Nat /\ m2 \in Nat /\ Len(c) = m1 + m2
        /\ \A i \in 1..m1 : c[i] = a[i]
        /\ \A i \in 1..m2 : c[m1 + i] = b[i]
    BY <1>1
  <1>. HIDE DEF u, c, n1, n2, m1, m2
  <1>7. /\ \A k \in 1..m1 : q[k] \in 1..n1 /\ s[q[k]].num = num /\ a[k] = s[q[k]]
        /\ \A x \in 1..n1 : s[x].num = num => \E k \in 1..m1 : q[k] = x
        /\ \A k, l \in 1..m1 : k < l => q[k] < q[l]
    BY <1>3 DEF Picked, m1, n1
  <1>8. /\ \A k \in 1..m2 : r[k] \in 1..n2 /\ t[r[k]].num = num /\ b[k] = t[r[k]]
        /\ \A x \in 1..n2 : t[x].num = num => \E k \in 1..m2 : r[k] = x
        /\ \A k, l \in 1..m2 : k < l => r[k] < r[l]
    BY <1>4 DEF Picked, m2, n2
  <1>9. ASSUME NEW k \in 1..(m1 + m2)
        PROVE  \/ k \in 1..m1 /\ h[k] = q[k]
               \/ k - m1 \in 1..m2 /\ m1 + (k - m1) = k /\ h[k] = n1 + r[k - m1] /\ k > m1
    BY <1>6
  <1>10. /\ \A k \in 1..m1 : k \in 1..(m1 + m2) /\ h[k] = q[k]
         /\ \A k \in 1..m2 : m1 + k \in 1..(m1 + m2) /\ h[m1 + k] = n1 + r[k]
    <2>1. \A k \in 1..m2 : m1 + k \in 1..(m1 + m2) /\ ~(m1 + k <= m1) /\ (m1 + k) - m1 = k
      BY <1>6
    <2>2. \A k \in 1..m1 : k \in 1..(m1 + m2) /\ k <= m1
      BY <1>6
    <2>. QED  BY <2>1, <2>2
  <1>. HIDE DEF h
  <1>11. ASSUME NEW k \in 1..(m1 + m2)
         PROVE  h[k] \in 1..(n1 + n2) /\ u[h[k]].num = num /\ c[k] = u[h[k]]
    <2>1. CASE k \in 1..m1 /\ h[k] = q[k]
      <3>1. q[k] \in 1..(n1 + n2)
        BY <1>5, <1>7, <2>1
      <3>. QED  BY <1>5, <1>6, <1>7, <2>1, <3>1
    <2>2. CASE k - m1 \in 1..m2 /\ m1 + (k - m1) = k /\ h[k] = n1 + r[k - m1]
      <3>. DEFINE l == k - m1
      <3>1. l \in 1..m2 /\ m1 + l = k /\ h[k] = n1 + r[l]
        BY <2>2
      <3>. HIDE DEF l
      <3>2. r[l] \in 1..n2 /\ t[r[l]].num = num /\ b[l] = t[r[l]]
        BY <1>8, <3>1
      <3>3. n1 + r[l] \in 1..(n1 + n2) /\ u[n1 + r[l]] = t[r[l]]
        BY <1>5, <3>2
      <3>4. c[m1 + l] = b[l]
        BY <1>6, <3>1
      <3>. QED  BY <3>1, <3>2, <3>3, <3>4
    <2>. QED  BY <1>9, <2>1, <2>2
  <1>12. ASSUME NEW x \in 1..(n1 + n2), u[x].num = num PROVE \E k \in 1..(m1 + m2) : h[k] = x
    <2>1. CASE x <= n1
      <3>1. x \in 1..n1 /\ s[x].num = num
        BY <1>5, <1>12, <2>1
      <3>2. PICK k \in 1..m1 : q[k] = x
        BY <1>7, <3>1
      <3>. QED  BY <1>10, <3>2
    <2>2. CASE ~(x <= n1)
      <3>1. x - n1 \in 1..n2 /\ n1 + (x - n1) = x
        BY <1>5, <2>2
      <3>2. t[x - n1].num = num
        BY <1>5, <1>12, <3>1
      <3>3. PICK k \in 1..m2 : r[k] = x - n1
        BY <1>8, <3>1, <3>2
      <3>. QED  BY <1>10, <3>1, <3>3
    <2>. QED  BY <2>1, <2>2
  <1>13. ASSUME NEW k \in 1..(m1 + m2), NEW l \in 1..(m1 + m2), k < l PROVE h[k] < h[l]
    <2>1. CASE l \in 1..m1
      <3>1. k \in 1..m1
        BY <1>6, <1>13, <2>1
      <3>. QED  BY <1>7, <1>10, <1>13, <2>1, <3>1
    <2>2. CASE k \in 1..m1 /\ ~(l \in 1..m1)
      <3>1. h[k] \in 1..n1
        BY <1>7, <1>10, <2>2
      <3>2. l - m1 \in 1..m2 /\ h[l] = n1 + r[l - m1]
        BY <1>9, <2>2
      <3>3. r[l - m1] \in 1..n2
        BY <1>8, <3>2
      <3>. QED  BY <1>5, <3>1, <3>2, <3>3
    <2>3. CASE ~(k \in 1..m1) /\ ~(l \in 1..m1)
      <3>1. /\ k - m1 \in 1..m2 /\ h[k] = n1 + r[k - m1]
            /\ l - m1 \in 1..m2 /\ h[l] = n1 + r[l - m1]
        BY <1>9, <2>3
      <3>2. k - m1 < l - m1
        BY <1>6, <1>13
      <3>3. r[k - m1] < r[l - m1] /\ r[k - m1] \in 1..n2 /\ r[l - m1] \in 1..n2
        BY <1>8, <3>1, <3>2
      <3>. QED  BY <1>5, <3>1, <3>3
    <2>. QED  BY <2>1, <2>2, <2>3
  <1>14. Picked(u, num, 0, c, h)
    <2>1. m1 + m2 \in Nat /\ 0 + 1 = 1
      BY <1>6
    <2>. QED  BY <1>5, <1>6, <1>11, <1>12, <1>13, <2>1 DEF Picked
  <1>15. IsPicked(u, num, 0, c)
    BY <1>14 DEF IsPicked
  <1>16. LookUp(u, num) = c
    <2>1. Len(u) \in Nat
      BY <1>5
    <2>. QED  BY <1>2, <1>6, <1>15, <2>1, PickedOnce
  <1>. QED  BY <1>16 DEF u, c, a, b

\* Sorting leaves what is looked up as it is, if it leaves options of equal number as they are.
SortsStably(p, os, list) ==
  LET n == Len(os)
  IN  /\ p \in [1..n -> 1..n] /\ \A k \in 1..n : \E i \in 1..n : p[i] = k
      /\ list = [i \in 1..n |-> os[p[i]]]
      /\ \A i, j \in 1..n : i < j => (list[i].num = list[j].num => p[i] < p[j])

LEMMA LookUpSorted ==
  ASSUME NEW S, NEW os \in Seq(S), NEW list \in Seq(S), NEW p, SortsStably(p, os, list), NEW num
  PROVE  LookUp(list, num) = LookUp(os, num)
  <1>. DEFINE n == Len(os)
              found == LookUp(list, num)
              m == Len(found)
  <1>1. /\ found \in Seq(S) /\ IsPicked(list, num, 0, found)
        /\ LookUp(os, num) \in Seq(S) /\ IsPicked(os, num, 0, LookUp(os, num))
    BY LookUpPicks
  <1>. HIDE DEF found
  <1>2. PICK q : Picked(list, num, 0, found, q)
    BY <1>1 DEF IsPicked
  <1>3. /\ n \in Nat /\ \A i \in 1..n : p[i] \in 1..n /\ list[i] = os[p[i]]
        /\ \A k \in 1..n : \E i \in 1..n : p[i] = k
        /\ \A i, j \in 1..n : i < j => (list[i].num = list[j].num => p[i] < p[j])
        /\ m \in Nat
    BY <1>1 DEF SortsStably
  <1>4. Len(list) = n
    BY DEF SortsStably
  <1>. HIDE DEF n, m
  <1>5. /\ \A k \in 1..m : q[k] \in 1..n /\ list[q[k]].num = num /\ found[k] = list[q[k]]
        /\ \A x \in 1..n : list[x].num = num => \E k \in 1..m : q[k] = x
        /\ \A k, l \in 1..m : k < l => q[k] < q[l]
    <2>1. 0 + 1 = 1
      OBVIOUS
    <2>. QED  BY <1>2, <1>4, <2>1 DEF Picked, m
  <1>. DEFINE h == [k \in 1..m |-> p[q[k]]]
  <1>7. \A k \in 1..m : h[k] = p[q[k]]
    OBVIOUS
  <1>. HIDE DEF h
  <1>8. ASSUME NEW k \in 1..m PROVE h[k] \in 1..n /\ os[h[k]].num = num /\ found[k] = os[h[k]]
    <2>1. q[k] \in 1..n /\ list[q[k]].num = num /\ found[k] = list[q[k]]
      BY <1>5
    <2>2. p[q[k]] \in 1..n /\ list[q[k]] = os[p[q[k]]]
      BY <1>3, <2>1
    <2>. QED  BY <1>7, <2>1, <2>2
  <1>9. \A x \in 1..n : os[x].num = num => \E k \in 1..m : h[k] = x
    <2>. SUFFICES ASSUME NEW x \in 1..n, os[x].num = num PROVE \E k \in 1..m : h[k] = x
      OBVIOUS
    <2>1. PICK i \in 1..n : p[i] = x
      BY <1>3
    <2>2. list[i].num = num
      BY <1>3, <2>1
    <2>3. PICK k \in 1..m : q[k] = i
      BY <1>5, <2>2
    <2>. QED  BY <1>7, <2>1, <2>3
  <1>10. ASSUME NEW k \in 1..m, NEW l \in 1..m, k < l PROVE h[k] < h[l]
    <2>1. /\ q[k] \in 1..n /\ q[l] \in 1..n /\ q[k] < q[l]
          /\ list[q[k]].num = num /\ list[q[l]].num = num
      BY <1>5, <1>10
    <2>2. p[q[k]] < p[q[l]]
      BY <1>3, <2>1
    <2>. QED  BY <1>7, <2>2
  <1>11. Picked(os, num, 0, found, h)
    <2>1. 0 + 1 = 1
      OBVIOUS
    <2>. QED  BY <1>3, <1>8, <1>9, <1>10, <2>1 DEF Picked, m, n
  <1>12. IsPicked(os, num, 0, found)
    BY <1>11 DEF IsPicked
  <1>13. Len(os) \in Nat
    OBVIOUS
  <1>. QED  BY <1>1, <1>12, <1>13, PickedOnce DEF found


-----------------------------------------------------------------------------
(* Options that the codec carries: the number and the length of each take  *)
(* one extended byte at most.                                              *)

ShortNums == 0..268
ShortBytes == {b \in Seq(0..255) : Len(b) < 269}
SmallOption == [num : ShortNums, value : ShortBytes]

\* mc_option_init_str.
LEMMA NameOption ==
  ASSUME NEW num \in ShortNums, NEW words \in Name
  PROVE  InitStr(num, words) \in SmallOption
  <1>. DEFINE value == [i \in DOMAIN words |-> CharByte[words[i]]]
              n == Len(words)
  <1>1. words \in Seq(DOMAIN CharByte) /\ n < 269
    BY DEF Name
  <1>2. DOMAIN words = 1..n /\ n \in Nat /\ \A i \in 1..n : words[i] \in DOMAIN CharByte
    BY <1>1
  <1>3. value \in [1..n -> 0..255]
    <2>1. \A c \in DOMAIN CharByte : CharByte[c] \in 0..255
      BY CharAssumption
    <2>. QED  BY <1>2, <2>1
  <1>. HIDE DEF value, n
  <1>4. value \in Seq(0..255) /\ Len(value) = n
    BY <1>2, <1>3
  <1>5. value \in ShortBytes
    BY <1>1, <1>4 DEF ShortBytes
  <1>6. InitStr(num, words) = [num |-> num, value |-> value]
    BY DEF InitStr, value
  <1>. QED  BY <1>5, <1>6 DEF SmallOption

\* The low byte of a number, and what is above it.
Octet == 0..255
Low(v) == v % 256
Join(high, low) == high * 256 + low

LEMMA LowByte ==
  ASSUME NEW v \in Nat
  PROVE  Above(v) \in Nat /\ Low(v) \in Octet /\ v = Join(Above(v), Low(v))
  <1>. DEFINE h == v \div 256
              l == v % 256
  <1>1. h \in Nat /\ l \in 0..255 /\ h = v \div 256 /\ l = v % 256
    OBVIOUS
  <1>2. Above(v) = h /\ Low(v) = l
    BY DEF Above, Low
  <1>. HIDE DEF h, l
  <1>3. v = h * 256 + l
    BY <1>1
  <1>. QED  BY <1>1, <1>2, <1>3 DEF Octet, Join

\* The four bytes of a number make it up again.
LEMMA BytesOfFour ==
  ASSUME NEW v \in Uint32
  PROVE  \E w, x, y, z \in Octet :
           FourBytes(v) = <<w, x, y, z>> /\ v = Join(Join(Join(w, x), y), z)
  <1>. DEFINE a == Above(v)
              b == Above(a)
              c == Above(b)
  <1>1. v \in Nat /\ c < 256
    BY DEF Uint32
  <1>2. FourBytes(v) = <<c, Low(b), Low(a), Low(v)>>
    BY DEF FourBytes, Low
  <1>3. a \in Nat /\ Low(v) \in Octet /\ v = Join(a, Low(v))
    BY <1>1, LowByte
  <1>4. b \in Nat /\ Low(a) \in Octet /\ a = Join(b, Low(a))
    BY <1>3, LowByte
  <1>5. c \in Nat /\ Low(b) \in Octet /\ b = Join(c, Low(b))
    BY <1>4, LowByte
  <1>. HIDE DEF a, b, c
  <1>6. c \in Octet
    BY <1>1, <1>5 DEF Octet
  <1>7. v = Join(Join(Join(c, Low(b)), Low(a)), Low(v))
    BY <1>3, <1>4, <1>5
  <1>. QED  BY <1>2, <1>3, <1>4, <1>5, <1>6, <1>7

\* One, two or four bytes are a value, and what it is read as.
OptionOf(num, b) == [num |-> num, value |-> b]
IsNumber(o, v) == o \in SmallOption /\ AsUint32(o) = v

LEMMA ShortValue ==
  ASSUME NEW num \in ShortNums, NEW b \in Seq(Octet), Len(b) \in {1, 2, 4}
  PROVE  /\ OptionOf(num, b) \in SmallOption
         /\ Len(b) = 1 => AsUint32(OptionOf(num, b)) = b[1]
         /\ Len(b) = 2 => AsUint32(OptionOf(num, b)) = Join(b[1], b[2])
         /\ Len(b) = 4 => AsUint32(OptionOf(num, b)) = Join(Join(Join(b[1], b[2]), b[3]), b[4])
  <1>1. b \in ShortBytes
    <2>. DEFINE n == Len(b)
    <2>1. n \in {1, 2, 4}
      OBVIOUS
    <2>. HIDE DEF n
    <2>2. n < 269
      BY <2>1
    <2>. QED  BY <2>2 DEF ShortBytes, Octet, n
  <1>2. OptionOf(num, b) \in SmallOption
    BY <1>1 DEF OptionOf, SmallOption
  <1>3. OptionOf(num, b).value = b
    BY DEF OptionOf
  <1>. QED  BY <1>2, <1>3 DEF AsUint32, Join

LEMMA OneRead ==
  ASSUME NEW num \in ShortNums, NEW w \in Octet
  PROVE  IsNumber(OptionOf(num, <<w>>), w)
  <1>1. <<w>> \in Seq(Octet) /\ Len(<<w>>) = 1 /\ <<w>>[1] = w
    OBVIOUS
  <1>. QED  BY <1>1, ShortValue DEF IsNumber

LEMMA TwoRead ==
  ASSUME NEW num \in ShortNums, NEW w \in Octet, NEW x \in Octet
  PROVE  IsNumber(OptionOf(num, <<w, x>>), Join(w, x))
  <1>1. <<w, x>> \in Seq(Octet) /\ Len(<<w, x>>) = 2 /\ <<w, x>>[1] = w /\ <<w, x>>[2] = x
    OBVIOUS
  <1>. QED  BY <1>1, ShortValue DEF IsNumber

LEMMA FourRead ==
  ASSUME NEW num \in ShortNums, NEW w \in Octet, NEW x \in Octet, NEW y \in Octet, NEW z \in Octet
  PROVE  IsNumber(OptionOf(num, <<w, x, y, z>>), Join(Join(Join(w, x), y), z))
  <1>1. /\ <<w, x, y, z>> \in Seq(Octet) /\ Len(<<w, x, y, z>>) = 4
        /\ <<w, x, y, z>>[1] = w /\ <<w, x, y, z>>[2] = x
        /\ <<w, x, y, z>>[3] = y /\ <<w, x, y, z>>[4] = z
    OBVIOUS
  <1>. QED  BY <1>1, ShortValue DEF IsNumber

\* A number stored is the number read.
LEMMA NumberStored ==
  ASSUME NEW num \in ShortNums, NEW v \in Uint32
  PROVE  IsNumber(InitUint32(num, v), v)
  <1>1. v \in Nat
    BY DEF Uint32
  <1>2. CASE v < 256
    <2>1. InitUint32(num, v) = OptionOf(num, <<v>>)
      BY <1>2 DEF InitUint32, OptionOf
    <2>2. v \in Octet
      BY <1>1, <1>2 DEF Octet
    <2>. QED  BY <2>1, <2>2, OneRead
  <1>3. CASE ~(v < 256) /\ Above(v) < 256
    <2>1. InitUint32(num, v) = OptionOf(num, <<Above(v), Low(v)>>)
      BY <1>3 DEF InitUint32, OptionOf, Low
    <2>2. Above(v) \in Nat /\ Low(v) \in Octet /\ v = Join(Above(v), Low(v))
      BY <1>1, LowByte
    <2>3. Above(v) \in Octet
      BY <1>3, <2>2 DEF Octet
    <2>4. IsNumber(OptionOf(num, <<Above(v), Low(v)>>), Join(Above(v), Low(v)))
      BY <2>2, <2>3, TwoRead
    <2>. QED  BY <2>1, <2>2, <2>4
  <1>4. CASE ~(v < 256) /\ ~(Above(v) < 256)
    <2>1. PICK w, x, y, z \in Octet :
            FourBytes(v) = <<w, x, y, z>> /\ v = Join(Join(Join(w, x), y), z)
      BY BytesOfFour
    <2>2. InitUint32(num, v) = OptionOf(num, <<w, x, y, z>>)
      BY <1>4, <2>1 DEF InitUint32, OptionOf
    <2>3. IsNumber(OptionOf(num, <<w, x, y, z>>), Join(Join(Join(w, x), y), z))
      BY FourRead
    <2>. QED  BY <2>1, <2>2, <2>3
  <1>. QED  BY <1>2, <1>3, <1>4

\* What the server reads of an option list of the application.
LEMMA ExtrasAre ==
  ASSUME extra \in Extras
  PROVE  /\ extra # NoExtra /\ ExtraOptions \in Seq(SmallOption)
         /\ DOMAIN ExtraOptions = DOMAIN extra
         /\ \A i \in DOMAIN extra : "number" \in DOMAIN extra[i] =>
              /\ ExtraOptions[i] = InitUint32(extra[i].num, extra[i].number)
              /\ extra[i].num \in ShortNums /\ extra[i].number \in Uint32
  <1>1. extra \in Seq(Extra)
    BY ExtrasAssumption
  <1>2. /\ Len(extra) \in Nat /\ DOMAIN extra = 1..Len(extra)
        /\ \A i \in 1..Len(extra) : extra[i] \in Extra
    BY <1>1
  <1>3. ASSUME NEW e \in Extra
        PROVE  /\ "number" \in DOMAIN e => e.num \in ShortNums /\ e.number \in Uint32
               /\ ~("number" \in DOMAIN e) => e.num \in ShortNums /\ e.name \in Name
               /\ e # [none |-> TRUE]
    <2>1. CASE e \in [num : 0..268, number : Uint32]
      <3>1. DOMAIN e = {"num", "number"} /\ e.num \in ShortNums /\ e.number \in Uint32
        BY <2>1 DEF ShortNums
      <3>. QED  BY <3>1
    <2>2. CASE e \in [num : 0..268, name : Name]
      <3>1. DOMAIN e = {"num", "name"} /\ e.num \in ShortNums /\ e.name \in Name
        BY <2>2 DEF ShortNums
      <3>. QED  BY <3>1
    <2>. QED  BY <2>1, <2>2 DEF Extra
  <1>4. extra # NoExtra
    <2>1. SUFFICES ASSUME extra = NoExtra PROVE FALSE
      OBVIOUS
    <2>2. Len(extra) = 1 /\ extra[1] = [none |-> TRUE]
      BY <2>1 DEF NoExtra
    <2>3. 1 \in 1..Len(extra)
      BY <2>2
    <2>. QED  BY <1>2, <1>3, <2>2, <2>3
  <1>5. ASSUME NEW i \in 1..Len(extra)
        PROVE  (IF "number" \in DOMAIN extra[i] THEN InitUint32(extra[i].num, extra[i].number)
                                     ELSE InitStr(extra[i].num, extra[i].name)) \in SmallOption
    <2>1. extra[i] \in Extra
      BY <1>2
    <2>. QED  BY <2>1, <1>3, NameOption, NumberStored DEF IsNumber
  <1>6. ExtraOptions \in [1..Len(extra) -> SmallOption]
    BY <1>2, <1>5 DEF ExtraOptions
  <1>7. ExtraOptions \in Seq(SmallOption) /\ DOMAIN ExtraOptions = DOMAIN extra
    BY <1>2, <1>6
  <1>8. ASSUME NEW i \in DOMAIN extra, "number" \in DOMAIN extra[i]
        PROVE  /\ ExtraOptions[i] = InitUint32(extra[i].num, extra[i].number)
               /\ extra[i].num \in ShortNums /\ extra[i].number \in Uint32
    <2>1. extra[i] \in Extra
      BY <1>2
    <2>2. ExtraOptions[i] = InitUint32(extra[i].num, extra[i].number)
      BY <1>8 DEF ExtraOptions
    <2>. QED  BY <1>3, <1>8, <2>1, <2>2
  <1>. QED  BY <1>4, <1>7, <1>8

-----------------------------------------------------------------------------
(* The options asked for.                                                  *)

LEMMA UriOptionIs ==
  ASSUME NEW w
  PROVE  /\ UriOption(Option("host", w)) = InitStr(3, w)
         /\ UriOption(Option("port", w)) = InitUint32(7, PortNumber[w[1]])
         /\ UriOption(Option("path", w)) = InitStr(11, w)
         /\ UriOption(Option("query", w)) = InitStr(15, w)
  <1>1. ASSUME NEW k
        PROVE  Option(k, w).num = k /\ Option(k, w).value = w
    BY DEF Option
  <1>2. ASSUME NEW o, o.num = "host", o.value = w PROVE UriOption(o) = InitStr(3, w)
    BY <1>2 DEF UriOption, OPTION_URI_HOST
  <1>3. ASSUME NEW o, o.num = "port", o.value = w 
        PROVE  UriOption(o) = InitUint32(7, PortNumber[w[1]])
    BY <1>3 DEF UriOption, OPTION_URI_PORT
  <1>4. ASSUME NEW o, o.num = "path", o.value = w PROVE UriOption(o) = InitStr(11, w)
    BY <1>4 DEF UriOption, OPTION_URI_PATH
  <1>5. ASSUME NEW o, o.num = "query", o.value = w PROVE UriOption(o) = InitStr(15, w)
    BY <1>5 DEF UriOption, OPTION_URI_QUERY
  <1>. QED  BY <1>1, <1>2, <1>3, <1>4, <1>5

\* The host that the URI names, without its brackets, is no longer than with them.
LEMMA HostIsName ==
  ASSUME parts \in Sent, WellFormed
  PROVE  BareHost(parts) \in Name
  <1>. DEFINE h == parts.host
              n == Len(h)
  <1>1. h \in Seq(DOMAIN CharByte) /\ n \in Nat /\ n < 269
    <2>1. h \in Name
      BY SentAssumption
    <2>. HIDE DEF h
    <2>2. h \in Seq(DOMAIN CharByte) /\ n < 269
      BY <2>1 DEF Name
    <2>. QED  BY <2>2
  <1>2. CASE h[1] = "["
    <2>1. n > 2
      BY <1>2 DEF WellFormed
    <2>. HIDE DEF h, n
    <2>2. SubSeq(h, 2, n - 1) \in Seq(DOMAIN CharByte) /\ Len(SubSeq(h, 2, n - 1)) < 269
      BY <1>1, <2>1 DEF n
    <2>3. BareHost(parts) = SubSeq(h, 2, n - 1)
      BY <1>2 DEF BareHost, h, n
    <2>. QED  BY <2>2, <2>3 DEF Name
  <1>3. CASE h[1] # "["
    BY <1>1, <1>3 DEF BareHost, Name
  <1>. QED  BY <1>2, <1>3

\* The options of a URI are short, and its port is among them.
LEMMA UriOptionsAre ==
  ASSUME parts \in Parts, parts \in Sent, WellFormed
  PROVE  /\ UriOptions(Expected) \in Seq(SmallOption)
         /\ ~matches => InitUint32(7, PortNumber[PortOf(parts)]) \in Range(UriOptions(Expected))
         /\ PortNumber[PortOf(parts)] \in Uint32
  <1>. DEFINE n == Len(Expected)
              m == PieceCount(parts)
              path == parts.path
              query == parts.query
              a == Len(path)
              b == Len(query)
  <1>1. /\ Expected \in Seq(Opts) /\ n = First + m
        /\ ~matches => /\ Expected[1] = Option("host", BareHost(parts))
                       /\ Expected[2] = Option("port", <<PortOf(parts)>>)
        /\ \A k \in 1..m :
             Expected[First + k] = IF k <= a THEN Option("path", path[k])
                                          ELSE Option("query", query[k - a])
    BY ExpectedIs
  <1>2. path \in Seq(Name) /\ query \in Seq(Name)
    BY SentAssumption
  <1>3. m = a + b
    BY DEF PieceCount
  <1>. HIDE DEF n, m, path, query
  <1>4. a \in Nat /\ b \in Nat /\ DOMAIN path = 1..a /\ DOMAIN query = 1..b
    BY <1>2
  <1>5. m \in Nat
    <2>. HIDE DEF a, b
    <2>. QED  BY <1>4, <1>3
  <1>6. First \in {0, 2} /\ (matches => First = 0) /\ (~matches => First = 2)
    BY DEF First
  <1>7. PortNumber[PortOf(parts)] \in Uint32
    BY PortAssumption DEF PortOf
  <1>8. UriOption(Option("host", BareHost(parts))) \in SmallOption
    BY HostIsName, NameOption, UriOptionIs DEF ShortNums
  <1>9. UriOption(Option("port", <<PortOf(parts)>>)) = InitUint32(7, PortNumber[PortOf(parts)])
    BY UriOptionIs
  <1>10. InitUint32(7, PortNumber[PortOf(parts)]) \in SmallOption
    BY <1>7, NumberStored DEF IsNumber, ShortNums
  <1>11. ASSUME NEW k \in 1..m PROVE UriOption(Expected[First + k]) \in SmallOption
    <2>1. CASE k <= a
      <3>1. path[k] \in Name
        BY <1>2, <1>4, <2>1
      <3>2. Expected[First + k] = Option("path", path[k])
        BY <1>1, <2>1
      <3>. QED  BY <3>1, <3>2, NameOption, UriOptionIs DEF ShortNums
    <2>2. CASE ~(k <= a)
      <3>1. k - a \in 1..b
        <4>. HIDE DEF a, b
        <4>. QED  BY <1>4, <1>3, <1>5, <2>2
      <3>2. query[k - a] \in Name
        BY <1>2, <3>1
      <3>3. Expected[First + k] = Option("query", query[k - a])
        BY <1>1, <2>2
      <3>. QED  BY <3>2, <3>3, NameOption, UriOptionIs DEF ShortNums
    <2>. QED  BY <2>1, <2>2
  <1>12. n \in Nat /\ DOMAIN Expected = 1..n
    BY <1>1 DEF n
  <1>13. n = First + m
    BY <1>1
  <1>14. ASSUME NEW i \in 1..n PROVE UriOption(Expected[i]) \in SmallOption
    <2>1. CASE ~matches /\ i = 1
      BY <1>1, <1>8, <2>1
    <2>2. CASE ~matches /\ i = 2
      BY <1>1, <1>9, <1>10, <2>2
    <2>3. CASE matches \/ i > 2
      <3>1. i - First \in 1..m /\ First + (i - First) = i
        BY <1>12, <1>6, <1>5, <1>13, <2>3
      <3>. QED  BY <1>11, <3>1
    <2>. QED  BY <2>1, <2>2, <2>3, <1>12
  <1>15. UriOptions(Expected) \in [1..n -> SmallOption]
    BY <1>12, <1>14 DEF UriOptions
  <1>16. UriOptions(Expected) \in Seq(SmallOption)
    BY <1>12, <1>15
  <1>17. ASSUME ~matches
         PROVE  InitUint32(7, PortNumber[PortOf(parts)]) \in Range(UriOptions(Expected))
    <2>1. 2 \in 1..n
      BY <1>12, <1>17, <1>6, <1>5, <1>13
    <2>2. UriOptions(Expected)[2] = InitUint32(7, PortNumber[PortOf(parts)])
      BY <1>1, <1>9, <1>12, <1>17, <2>1 DEF UriOptions
    <2>. QED  BY <1>15, <2>1, <2>2 DEF Range
  <1>. QED  BY <1>7, <1>16, <1>17

\* Everything that was asked for fits an option.
LEMMA AskedIs ==
  ASSUME parts \in Parts, parts \in Sent, WellFormed, extra \in Extras \cup {NoExtra}
  PROVE  /\ Asked \in Seq(SmallOption)
         /\ extra # NoExtra => ExtraOptions \in Seq(SmallOption)
         /\ \A o : Times(Asked, o) = Times(UriOptions(Expected), o)
                                       + (IF extra = NoExtra THEN 0 ELSE Times(ExtraOptions, o))
  <1>1. UriOptions(Expected) \in Seq(SmallOption)
    BY UriOptionsAre
  <1>2. CASE extra = NoExtra
    <2>1. Asked = UriOptions(Expected)
      BY <1>1, <1>2 DEF Asked
    <2>2. \A o : Times(UriOptions(Expected), o) \in Nat
      BY <1>1, TimesType
    <2>. QED  BY <1>1, <1>2, <2>1, <2>2
  <1>3. CASE extra # NoExtra
    <2>1. ExtraOptions \in Seq(SmallOption)
      BY <1>3, ExtrasAre
    <2>2. Asked = UriOptions(Expected) \o ExtraOptions
      BY <1>3 DEF Asked
    <2>3. \A o : Times(Asked, o) = Times(UriOptions(Expected), o) + Times(ExtraOptions, o)
      BY <1>1, <2>1, <2>2, TimesJoined
    <2>. QED  BY <1>1, <1>3, <2>1, <2>2, <2>3
  <1>. QED  BY <1>2, <1>3

-----------------------------------------------------------------------------
(* The message made of them, and what the server reads.                    *)

LEMMA SmallFits ==
  ASSUME NEW o \in SmallOption
  PROVE  /\ o \in CP!OptionSet /\ o.num \in ShortNums
         /\ Len(o.value) \in ShortNums /\ Len(o.value) \in CP!UInt16
  <1>1. \A v \in ShortNums : v \in CP!UInt16
    <2>1. \A v \in ShortNums : v \in Int /\ 0 <= v /\ v <= 65535
      BY DEF ShortNums
    <2>. QED  BY <2>1, InstanceAssumptions, CP!Bounds
  <1>2. \A b \in ShortBytes : b \in Seq(0..255) /\ Len(b) \in ShortNums
    <2>1. \A n \in Nat : n < 269 => n \in ShortNums
      BY DEF ShortNums
    <2>2. ASSUME NEW b \in Seq(0..255) PROVE Len(b) \in Nat
      BY <2>2
    <2>. QED  BY <2>1, <2>2 DEF ShortBytes
  <1>3. o = [num |-> o.num, value |-> o.value] /\ o.num \in ShortNums /\ o.value \in ShortBytes
    BY DEF SmallOption
  <1>4. o.num \in CP!UInt16 /\ o.value \in Seq(CP!Byte)
    BY <1>1, <1>2, <1>3 DEF CP!Byte
  <1>5. o \in CP!OptionSet
    BY <1>3, <1>4 DEF CP!OptionSet
  <1>. QED  BY <1>1, <1>2, <1>3, <1>5

LEMMA ShortDistance ==
  ASSUME NEW v \in ShortNums, NEW w \in ShortNums
  PROVE  v - w < 269 /\ v < 269 /\ 0 \in ShortNums
  BY DEF ShortNums

\* options_sort keeps the options, and puts them where the codec needs them.
LEMMA SortedOptions ==
  ASSUME NEW os \in Seq(SmallOption), NEW sorted \in C!OptionsSort(os)
  PROVE  /\ sorted \in Seq(SmallOption)
         /\ \A o : Times(sorted, o) = Times(os, o)
         /\ CP!IsOptions(sorted) /\ CP!ShortOptions(sorted)
         /\ stable => \A num : LookUp(sorted, num) = LookUp(os, num)
  <1>. DEFINE n == Len(os)
  <1>1. n \in Nat /\ DOMAIN os = 1..n /\ \A i \in 1..n : os[i] \in SmallOption
    OBVIOUS
  <1>2. PICK p : CP!Sorts(p, os, sorted)
    <2>1. sorted \in CP!OptionsSort(os)
      BY SameSort
    <2>. HIDE DEF n
    <2>. QED  BY <1>1, <2>1, InstanceAssumptions, CP!SortedBy DEF n
  <1>3. /\ p \in Bijection(1..n, 1..n) /\ p \in [1..n -> 1..n]
        /\ sorted = [i \in 1..n |-> os[p[i]]]
        /\ stable => SortsStably(p, os, sorted)
    <2>1. p \in Bijection(1..n, 1..n)
      BY <1>2 DEF CP!Sorts, CP!Bijection, Bijection, CP!Injection, Injection, CP!Surjection,
                  Surjection, CP!IsInjective, IsInjective
    <2>. HIDE DEF n
    <2>2. stable => SortsStably(p, os, sorted)
      BY <1>2 DEF CP!Sorts, SortsStably, n
    <2>3. p \in [1..n -> 1..n] /\ sorted = [i \in 1..n |-> os[p[i]]]
      BY <1>2 DEF CP!Sorts, n
    <2>. QED  BY <2>1, <2>2, <2>3
  <1>4. \A o : Times(sorted, o) = Times(os, o)
    BY <1>3, TimesArranged
  <1>5. os \in Seq(CP!OptionSet) /\ \A i \in DOMAIN os : Len(os[i].value) \in CP!UInt16
    <2>1. \A i \in 1..n : os[i] \in CP!OptionSet /\ Len(os[i].value) \in CP!UInt16
      BY <1>1, SmallFits
    <2>2. os \in Seq(CP!OptionSet)
      BY <2>1, SeqOfThose
    <2>. QED  BY <1>1, <2>1, <2>2
  <1>6. CP!IsOptions(sorted)
    <2>1. sorted \in CP!OptionsSort(os)
      BY SameSort
    <2>. QED  BY <1>5, <2>1, InstanceAssumptions, CP!SortedAreOptions
  <1>. HIDE DEF n
  <1>7. sorted \in [1..n -> SmallOption]
    BY <1>1, <1>3
  <1>8. sorted \in Seq(SmallOption) /\ DOMAIN sorted = 1..n
    BY <1>1, <1>7
  <1>9. ASSUME NEW i \in 1..n
        PROVE  sorted[i].num \in ShortNums /\ Len(sorted[i].value) \in ShortNums
    <2>1. sorted[i] \in SmallOption
      BY <1>7
    <2>. QED  BY <2>1, SmallFits
  <1>10. CP!ShortOptions(sorted)
    <2>1. ASSUME NEW i \in 1..n PROVE CP!PrevNum(sorted, i) \in ShortNums
      <3>1. i # 1 => i - 1 \in 1..n
        BY <1>1
      <3>. QED  BY <1>9, <3>1, ShortDistance DEF CP!PrevNum
    <2>2. ASSUME NEW i \in 1..n
          PROVE  sorted[i].num - CP!PrevNum(sorted, i) < 269 /\ Len(sorted[i].value) < 269
      BY <1>9, <2>1, ShortDistance
    <2>. QED  BY <1>8, <2>2 DEF CP!ShortOptions
  <1>11. ASSUME stable, NEW num PROVE LookUp(sorted, num) = LookUp(os, num)
    BY <1>3, <1>8, <1>11, LookUpSorted
  <1>. QED  BY <1>4, <1>6, <1>8, <1>10, <1>11

\* A message made of such options is one that the codec carries.
LEMMA MessageMade ==
  ASSUME NEW os, CP!IsOptions(os), NEW id \in Ids, NEW con \in BOOLEAN
  PROVE  CP!IsMessage(MkMessage(os, id, con)) /\ MkMessage(os, id, con).options = os
  <1>. DEFINE m == MkMessage(os, id, con)
              hi == id \div 256
              lo == id % 256
              type == IF con THEN 0 ELSE 1
              token == Token(id)
  <1>1. id \in Nat /\ Above(id) < 256
    BY IdsAssumption DEF Uint16
  <1>2. lo \in Octet /\ hi \in Octet /\ id = Join(hi, lo)
    <2>1. Above(id) \in Nat /\ Low(id) \in Octet /\ id = Join(Above(id), Low(id))
      BY <1>1, LowByte
    <2>2. Above(id) \in Octet
      BY <1>1, <2>1 DEF Octet
    <2>3. hi = Above(id) /\ lo = Low(id)
      BY DEF Above, Low
    <2>. QED  BY <2>1, <2>2, <2>3
  <1>3. token = <<lo, hi, 7, 255, 0, 13>>
    BY DEF Token
  <1>4. m = [version |-> 1, type |-> type, code |-> 1, id |-> id, token |-> token, options |-> os,
             payload |-> <<>>]
    BY DEF MkMessage
  <1>. HIDE DEF hi, lo, token, m
  <1>5. token \in Seq(0..255) /\ Len(token) = 6
    BY <1>2, <1>3 DEF Octet
  <1>6. type \in 0..3
    OBVIOUS
  <1>. HIDE DEF type
  <1>7. CP!Byte = 0..255 /\ os \in Seq(CP!OptionSet)
    BY DEF CP!Byte, CP!IsOptions
  <1>8. id \in CP!UInt16
    <2>1. id \in Int /\ 0 <= id /\ id <= 65535
      BY <1>2 DEF Octet, Join
    <2>. QED  BY <2>1, InstanceAssumptions, CP!Bounds
  <1>9. m.token = token /\ m.options = os
    BY <1>4
  <1>10. m \in CP!MessageSet
    BY <1>4, <1>5, <1>6, <1>7, <1>8 DEF CP!MessageSet
  <1>11. Len(m.token) <= 15
    <2>1. Len(m.token) = 6
      BY <1>5, <1>9, Zenon
    <2>. QED  BY ONLY <2>1
  <1>12. CP!IsMessage(m)
    BY <1>9, <1>10, <1>11 DEF CP!IsMessage
  <1>. QED  BY <1>9, <1>12 DEF m

\* The message with its options sorted once more.
IsResorted(r, m) == \E list \in C!OptionsSort(m.options) : r = [m EXCEPT !.options = list]

\* The server reads the message that was written, as long as it fits the buffer, but for another
\* sort.
LEMMA MessageRead ==
  ASSUME NEW m, CP!IsMessage(m), CP!ShortOptions(m.options), NEW W, W = C!MessageBytes(m)
  PROVE  /\ \A junk : \A r \in C!FromBuffer(SubSeq(W, 1, Len(W)), junk) : IsResorted(r, m)
         /\ W # Garbage /\ Len(W) \in Nat
  <1>1. W = CP!MessageBytes(m)
    BY SameMessageBytes
  <1>2. PICK ends : CP!IsLayout(m, ends, CP!MessageBytes(m))
    BY InstanceAssumptions, CP!MessageLaidOut
  <1>3. /\ W \in Seq(CP!Byte) /\ Len(W) \in Nat /\ Len(m.options) \in Nat
        /\ \A i \in 0..Len(m.options) : ends[i] \in Nat /\ ends[i] <= Len(W)
    BY <1>1, <1>2, InstanceAssumptions, CP!EndsInside
  <1>4. ends[0] = 4 + Len(m.token) /\ Len(m.token) \in Nat
    BY <1>2, InstanceAssumptions, CP!MessageFields DEF CP!IsLayout
  <1>5. Len(W) >= 4
    BY <1>3, <1>4
  <1>6. W # Garbage
    <2>. DEFINE n == Len(W)
    <2>1. W = Garbage => n = 1
      BY DEF Garbage
    <2>2. n >= 4
      BY <1>5
    <2>. HIDE DEF n
    <2>. QED  BY <2>1, <2>2
  <1>7. SubSeq(W, 1, Len(W)) = W
    BY <1>3
  <1>8. ASSUME NEW junk, NEW r \in C!FromBuffer(W, junk) PROVE IsResorted(r, m)
    <2>1. r \in CP!FromBuffer(CP!MessageBytes(m), junk)
      BY <1>1, SameFromBuffer
    <2>2. \E list \in CP!OptionsSort(m.options) : r = [m EXCEPT !.options = list]
      BY <2>1, InstanceAssumptions, CP!WholeIsRead
    <2>. QED  BY <2>2, SameSort DEF IsResorted
  <1>. QED  BY <1>3, <1>6, <1>7, <1>8

-----------------------------------------------------------------------------
(* The URIs that the parser reads in full.  Their options, and those of    *)
(* the application, are what the message carries from mk_options on.       *)

Proper == WellFormed /\ parts.port # NoPort /\ NoneEmpty

\* Exactly the options asked for, those of each number in their order if that matters.
SameOptions(list, asked, inorder) ==
  /\ list \in Seq(SmallOption)
  /\ \A o : Times(list, o) = Times(asked, o)
  /\ inorder => \A num : LookUp(list, num) = LookUp(asked, num)

\* A message that the codec carries, with the options asked for.
AsksFor(m, asked, inorder) ==
  /\ CP!IsMessage(m) /\ CP!ShortOptions(m.options)
  /\ SameOptions(m.options, asked, inorder)

\* All of a message, if the send buffer has room for it.
IsWritten(bytes, m) == bytes = <<>> \/ (bytes = C!MessageBytes(m) /\ C!BufferSize(m) <= 1024)

\* Once mk_options is through, the message asks for what the application asked for, on the
\* wire and at the server too, and what it points to is not freed before it is written.
Carried ==
  /\ parts \in Parts /\ extra \in Extras \cup {NoExtra}
  /\ phase = "uri" => held = {} /\ freed = {}
  /\ Proper =>
       /\ phase \in {"uri", "made", "written", "read"}
       /\ phase # "uri" => parts \in Sent /\ AsksFor(msg, Asked, stable)
       /\ phase = "made" => held \cap freed = {}
       /\ phase = "written" => IsWritten(wire, msg)
       /\ phase = "read" => SameOptions(got.options, Asked, stable)

LEMMA CarriedAtFirst == ReqInit => Init /\ Carried
  BY DEF ReqInit, Init, Carried

\* What was asked for stays.
LEMMA AskedStays ==
  ASSUME [ReqNext]_<<vars, reqvars>>
  PROVE  /\ parts' = parts /\ extra' = extra /\ Proper' = Proper /\ Asked' = Asked
         /\ [Next]_vars /\ stable' = stable
  <1>1. [Next]_vars /\ extra' = extra /\ stable' = stable
    BY DEF C!Write, C!Read, ReqNext, ReadUri, MkOptions, MkOptionsMerged, MkOptionsCrashes, SendMsg, Receive, Made,
           vars, reqvars
  <1>2. parts' = parts /\ WellFormed' = WellFormed /\ NoneEmpty' = NoneEmpty /\ Expected' = Expected
    BY <1>1, FoundStays
  <1>3. Proper' = Proper
    BY <1>2 DEF Proper
  <1>4. Asked' = Asked
    <2>1. UriOptions(Expected)' = UriOptions(Expected)
      BY <1>2 DEF UriOptions, UriOption
    <2>2. ExtraOptions' = ExtraOptions
      BY <1>1 DEF ExtraOptions
    <2>. QED  BY <1>1, <2>1, <2>2 DEF Asked
  <1>. QED  BY <1>1, <1>2, <1>3, <1>4

\* Sorting keeps what was asked for.
LEMMA SortedIsSame ==
  ASSUME NEW os, SameOptions(os, Asked, stable), NEW sorted \in C!OptionsSort(os)
  PROVE  SameOptions(sorted, Asked, stable) /\ CP!IsOptions(sorted) /\ CP!ShortOptions(sorted)
  <1>1. os \in Seq(SmallOption)
    BY DEF SameOptions
  <1>2. /\ sorted \in Seq(SmallOption)
        /\ \A o : Times(sorted, o) = Times(os, o)
        /\ CP!IsOptions(sorted) /\ CP!ShortOptions(sorted)
        /\ stable => \A num : LookUp(sorted, num) = LookUp(os, num)
    BY <1>1, SortedOptions
  <1>. QED  BY <1>2 DEF SameOptions

\* mk_options and mk_message, without options of the application and with them.
LEMMA MadeAsksFor ==
  ASSUME NEW os, SameOptions(os, Asked, stable),
         NEW sorted \in C!OptionsSort(os), NEW id \in Ids, NEW con \in BOOLEAN
  PROVE  AsksFor(MkMessage(sorted, id, con), Asked, stable)
  <1>1. SameOptions(sorted, Asked, stable) /\ CP!IsOptions(sorted) /\ CP!ShortOptions(sorted)
    BY SortedIsSame
  <1>2. /\ CP!IsMessage(MkMessage(sorted, id, con))
        /\ MkMessage(sorted, id, con).options = sorted
    BY <1>1, MessageMade
  <1>. QED  BY <1>1, <1>2 DEF AsksFor

LEMMA PlainCarried ==
  ASSUME Carried, PlainIsParsed, Proper, MkOptions
  PROVE  /\ phase' = "made" /\ held' \cap freed' = {} /\ parts \in Sent
         /\ AsksFor(msg', Asked, stable)
  <1>1. /\ parts \in Parts /\ parts \in Sent /\ extra = NoExtra /\ options = Expected /\ WellFormed
    BY DEF Carried, PlainIsParsed, Proper, MkOptions
  <1>2. /\ phase' = "made" /\ held' = {"uri"} /\ freed' = {}
        /\ \E sorted \in C!OptionsSort(UriOptions(options)), id \in Ids, con \in BOOLEAN :
             msg' = MkMessage(sorted, id, con)
    BY DEF MkOptions, Made
  <1>3. UriOptions(Expected) \in Seq(SmallOption)
    BY <1>1, UriOptionsAre
  <1>4. Asked = UriOptions(Expected)
    BY <1>1, <1>3 DEF Asked
  <1>5. PICK sorted \in C!OptionsSort(UriOptions(Expected)), id \in Ids, con \in BOOLEAN :
          msg' = MkMessage(sorted, id, con)
    BY <1>1, <1>2
  <1>6. AsksFor(msg', Asked, stable)
    <2>1. SameOptions(UriOptions(Expected), Asked, stable)
      BY <1>3, <1>4 DEF SameOptions
    <2>. QED  BY <1>5, <2>1, MadeAsksFor
  <1>. QED  BY <1>1, <1>2, <1>6

LEMMA MergedCarried ==
  ASSUME Carried, PlainIsParsed, Proper, MkOptionsMerged
  PROVE  /\ phase' = "made" /\ held' \cap freed' = {} /\ parts \in Sent
         /\ AsksFor(msg', Asked, stable)
  <1>1. /\ parts \in Parts /\ parts \in Sent /\ extra # NoExtra /\ options = Expected /\ WellFormed
        /\ extra \in Extras \cup {NoExtra}
    BY DEF Carried, PlainIsParsed, Proper, MkOptionsMerged
  <1>2. PICK list1 \in C!OptionsSort(UriOptions(Expected)), list2 \in C!OptionsSort(ExtraOptions) :
          Made(Merge(list1, list2), {"uri"})
    BY <1>1 DEF MkOptionsMerged
  <1>3. /\ phase' = "made" /\ held' = {"copy"} /\ freed' = {"uri"}
        /\ \E sorted \in C!OptionsSort(list1 \o list2), id \in Ids, con \in BOOLEAN :
             msg' = MkMessage(sorted, id, con)
    BY <1>2 DEF Made, Merge
  <1>4. PICK sorted \in C!OptionsSort(list1 \o list2), id \in Ids, con \in BOOLEAN :
          msg' = MkMessage(sorted, id, con)
    BY <1>3
  <1>5. /\ UriOptions(Expected) \in Seq(SmallOption) /\ ExtraOptions \in Seq(SmallOption)
        /\ \A o : Times(Asked, o) = Times(UriOptions(Expected), o) + Times(ExtraOptions, o)
    BY <1>1, UriOptionsAre, AskedIs
  <1>6. /\ list1 \in Seq(SmallOption) /\ \A o : Times(list1, o) = Times(UriOptions(Expected), o)
        /\ list2 \in Seq(SmallOption) /\ \A o : Times(list2, o) = Times(ExtraOptions, o)
        /\ stable => \A num : /\ LookUp(list1, num) = LookUp(UriOptions(Expected), num)
                              /\ LookUp(list2, num) = LookUp(ExtraOptions, num)
    BY <1>2, <1>5, SortedOptions
  <1>7. list1 \o list2 \in Seq(SmallOption)
    BY <1>6
  <1>8. \A o : Times(list1 \o list2, o) = Times(list1, o) + Times(list2, o)
    BY <1>6, TimesJoined
  <1>9. \A o : Times(list1 \o list2, o) = Times(Asked, o)
    BY <1>5, <1>6, <1>8
  <1>10. AsksFor(msg', Asked, stable)
    <2>1. Asked = UriOptions(Expected) \o ExtraOptions
      BY <1>1 DEF Asked
    <2>2. ASSUME stable, NEW num PROVE LookUp(list1 \o list2, num) = LookUp(Asked, num)
      <3>1. LookUp(list1 \o list2, num) = LookUp(list1, num) \o LookUp(list2, num)
        BY <1>6, LookUpJoined
      <3>2. LookUp(Asked, num) = LookUp(UriOptions(Expected), num) \o LookUp(ExtraOptions, num)
        BY <1>5, <2>1, LookUpJoined
      <3>. QED  BY <1>6, <2>2, <3>1, <3>2
    <2>3. SameOptions(list1 \o list2, Asked, stable)
      BY <1>7, <1>9, <2>2 DEF SameOptions
    <2>. QED  BY <1>4, <2>3, MadeAsksFor
  <1>11. held' \cap freed' = {}
    BY <1>3
  <1>. QED  BY <1>1, <1>3, <1>10, <1>11

LEMMA SendCarried ==
  ASSUME Carried, Proper, SendMsg
  PROVE  /\ phase = "made" /\ phase' = "written" /\ msg' = msg /\ IsWritten(wire', msg')
  <1>1. CASE held \cap freed = {}
    <2>1. C!Write
      BY <1>1 DEF SendMsg
    <2>2. /\ phase = "made" /\ phase' = "written" /\ msg' = msg
          /\ wire' = IF C!BufferSize(msg) > 1024 THEN <<>> ELSE C!MessageBytes(msg)
      BY <2>1 DEF C!Write
    <2>3. AsksFor(msg, Asked, stable)
      BY <2>2 DEF Carried
    <2>4. C!BufferSize(msg) \in Nat
      <3>1. CP!BufferSize(msg) = Len(CP!MessageBytes(msg)) /\ Len(CP!MessageBytes(msg)) \in Nat
        BY <2>3, InstanceAssumptions, CP!SizeIsLength DEF AsksFor
      <3>. QED  BY <3>1, SameBufferSize
    <2>5. C!BufferSize(msg) <= 1024 \/ C!BufferSize(msg) > 1024
      BY <2>4
    <2>. QED  BY <2>2, <2>5 DEF IsWritten
  <1>2. CASE held \cap freed # {}
    BY <1>2 DEF SendMsg, Carried
  <1>. QED  BY <1>1, <1>2

LEMMA ReceiveCarried ==
  ASSUME Carried, Proper, Receive
  PROVE  /\ phase = "written" /\ phase' = "read" /\ msg' = msg
         /\ SameOptions(got'.options, Asked, stable)
  <1>1. phase = "written"
    BY DEF Receive, C!Read
  <1>2. AsksFor(msg, Asked, stable) /\ IsWritten(wire, msg)
    BY <1>1 DEF Carried
  <1>3. CASE wire = <<>>
    <2>1. wire # Garbage
      BY <1>3 DEF Garbage
    <2>. QED  BY <1>3, <2>1 DEF Receive, C!Read
  <1>4. CASE wire # <<>>
    <2>1. wire = C!MessageBytes(msg) /\ C!BufferSize(msg) <= 1024
      BY <1>2, <1>4 DEF IsWritten
    <2>2. CP!IsMessage(msg) /\ CP!ShortOptions(msg.options)
      BY <1>2 DEF AsksFor
    <2>3. /\ \A junk : \A r \in C!FromBuffer(SubSeq(wire, 1, Len(wire)), junk) : IsResorted(r, msg)
          /\ wire # Garbage /\ Len(wire) \in Nat
      BY <2>1, <2>2, MessageRead
    <2>4. C!BufferSize(msg) = Len(wire)
      BY <2>1, <2>2, SameBufferSize, SameMessageBytes, InstanceAssumptions, CP!SizeIsLength
    <2>5. ~(1024 < Len(wire))
      <3>. DEFINE n == Len(wire)
      <3>1. n \in Nat /\ n <= 1024
        BY <2>1, <2>3, <2>4
      <3>. HIDE DEF n
      <3>2. ~(1024 < n)
        BY <3>1
      <3>. QED  BY <3>2 DEF n
    <2>6. C!Read
      BY <2>3 DEF Receive
    <2>7. /\ phase' = "read" /\ msg' = msg
          /\ \E junk \in {0} :
               got' \in C!FromBuffer(SubSeq(wire, 1, IF 1024 < Len(wire) THEN 1024
                                                    ELSE Len(wire)), junk)
      BY <2>6 DEF C!Read
    <2>8. \E junk : got' \in C!FromBuffer(SubSeq(wire, 1, Len(wire)), junk)
      BY <2>5, <2>7
    <2>9. IsResorted(got', msg)
      BY <2>3, <2>8
    <2>10. got'.options \in C!OptionsSort(msg.options)
      <3>1. PICK list \in C!OptionsSort(msg.options) : got' = [msg EXCEPT !.options = list]
        BY <2>9 DEF IsResorted
      <3>2. got'.options = list
        BY <2>2, <3>1 DEF CP!IsMessage, CP!MessageSet
      <3>. QED  BY <3>2
    <2>11. SameOptions(msg.options, Asked, stable)
      BY <1>2 DEF AsksFor
    <2>. QED  BY <1>1, <2>7, <2>10, <2>11, SortedIsSame
  <1>. QED  BY <1>3, <1>4

LEMMA CarriedNext ==
  ASSUME Carried, PlainIsParsed, [ReqNext]_<<vars, reqvars>>
  PROVE  Carried'
  <1>1. parts' = parts /\ extra' = extra /\ Proper' = Proper /\ Asked' = Asked /\ stable' = stable
    BY AskedStays
  <1>2. \A m : AsksFor(m, Asked', stable') = AsksFor(m, Asked, stable)
    BY <1>1
  <1>3. (parts \in Parts /\ extra \in Extras \cup {NoExtra})'
    BY <1>1 DEF Carried
  <1>4. ASSUME UNCHANGED reqvars PROVE Carried'
    <2>1. /\ phase' = phase /\ msg' = msg /\ held' = held
          /\ freed' = freed /\ wire' = wire /\ got' = got
      BY <1>4 DEF reqvars
    <2>. QED  BY <1>1, <1>3, <2>1 DEF Carried
  <1>5. CASE MkOptions
    <2>1. phase' = "made"
      BY <1>5 DEF MkOptions, Made
    <2>2. Proper => held' \cap freed' = {} /\ parts \in Sent /\ AsksFor(msg', Asked, stable)
      BY <1>5, PlainCarried
    <2>. QED  BY <1>1, <1>3, <2>1, <2>2 DEF Carried
  <1>6. CASE MkOptionsMerged
    <2>1. phase' = "made"
      BY <1>6 DEF MkOptionsMerged, Made
    <2>2. Proper => held' \cap freed' = {} /\ parts \in Sent /\ AsksFor(msg', Asked, stable)
      BY <1>6, MergedCarried
    <2>. QED  BY <1>1, <1>3, <2>1, <2>2 DEF Carried
  <1>7. CASE MkOptionsCrashes
    <2>1. phase' = "crashed" /\ ~Proper
      BY <1>7 DEF MkOptionsCrashes, PlainIsParsed, Proper
    <2>. QED  BY <1>1, <1>3, <2>1 DEF Carried
  <1>8. CASE SendMsg
    <2>1. phase' = "written" /\ phase = "made"
      BY <1>8 DEF SendMsg, C!Write
    <2>2. Proper => /\ msg' = msg /\ IsWritten(wire', msg')
                    /\ parts \in Sent /\ AsksFor(msg, Asked, stable)
      BY <1>8, <2>1, SendCarried DEF Carried
    <2>. QED  BY <1>1, <1>3, <2>1, <2>2 DEF Carried
  <1>9. CASE Receive
    <2>1. phase' = "read" /\ phase = "written"
      BY <1>9 DEF Receive, C!Read
    <2>2. Proper => /\ msg' = msg /\ SameOptions(got'.options, Asked, stable)
                    /\ parts \in Sent /\ AsksFor(msg, Asked, stable)
      BY <1>9, <2>1, ReceiveCarried DEF Carried
    <2>. QED  BY <1>1, <1>3, <2>1, <2>2 DEF Carried
  <1>10. CASE ReadUri
    BY <1>4, <1>10 DEF ReadUri
  <1>11. CASE UNCHANGED <<vars, reqvars>>
    BY <1>4, <1>11
  <1>. QED  BY <1>5, <1>6, <1>7, <1>8, <1>9, <1>10, <1>11 DEF ReqNext

LEMMA CarriedInvariant == ReqSpec => [](Carried /\ PlainIsParsed)
  <1>1. ReqSpec => Spec
    <2>1. [ReqNext]_<<vars, reqvars>> => [Next]_vars
      BY AskedStays
    <2>. QED  BY <2>1, CarriedAtFirst, PTL DEF ReqSpec, Spec
  <1>. QED  BY <1>1, PlainIsParsedHolds, CarriedAtFirst, CarriedNext, PTL DEF ReqSpec

\* What the server finds under a number is what was asked for under that number.
LEMMA LookedUp ==
  ASSUME Carried, Arrived, NEW num
  PROVE  /\ LookUp(got.options, num) \in Seq(SmallOption) /\ Asked \in Seq(SmallOption)
         /\ \A o : Times(LookUp(got.options, num), o) = IF o.num = num THEN Times(Asked, o) ELSE 0
         /\ Range(LookUp(got.options, num)) = {o \in Range(Asked) : o.num = num}
         /\ stable => LookUp(got.options, num) = LookUp(Asked, num)
  <1>1. Proper /\ phase = "read"
    BY DEF Arrived, Proper
  <1>2. SameOptions(got.options, Asked, stable) /\ parts \in Parts /\ parts \in Sent
        /\ extra \in Extras \cup {NoExtra} /\ WellFormed
    BY <1>1 DEF Carried, Proper
  <1>. DEFINE list == got.options
              found == LookUp(list, num)
  <1>3. /\ list \in Seq(SmallOption) /\ \A o : Times(list, o) = Times(Asked, o)
        /\ stable => found = LookUp(Asked, num)
    BY <1>2 DEF SameOptions
  <1>4. Asked \in Seq(SmallOption)
    BY <1>2, AskedIs
  <1>5. /\ found \in Seq(SmallOption)
        /\ \A o : Times(found, o) = IF o.num = num THEN Times(list, o) ELSE 0
    BY <1>3, LookUpFinds
  <1>. HIDE DEF list, found
  <1>6. \A o : Times(found, o) = IF o.num = num THEN Times(Asked, o) ELSE 0
    BY <1>3, <1>5
  <1>7. \A o : o \in Range(found) <=> o \in Range(Asked) /\ o.num = num
    <2>1. \A o : Times(found, o) = 0 <=> o \notin Range(found)
      BY <1>5, TimesType
    <2>2. \A o : Times(Asked, o) = 0 <=> o \notin Range(Asked)
      BY <1>4, TimesType
    <2>. QED  BY <1>6, <2>1, <2>2
  <1>. QED  BY <1>3, <1>4, <1>5, <1>6, <1>7 DEF found, list

\* For every well-formed URI with a port and without empty components, every list of options
\* of the application and every id: the server finds under every number of a name the
\* options that were asked for, each as often, and no others; and in the order in which they
\* were asked for, through the four sorts on the way, if each leaves options of equal number as
\* they are.
THEOREM OptionsArriveHolds == ReqSpec => []OptionsArrive
  <1>1. ASSUME Carried, Arrived, NEW num
        PROVE  ToBag(LookUp(got.options, num))
                 = Restrict(ToBag(Asked), {o \in Range(Asked) : o.num = num})
    <2>. DEFINE found == LookUp(got.options, num)
                those == {o \in Range(Asked) : o.num = num}
    <2>1. /\ found \in Seq(SmallOption) /\ Asked \in Seq(SmallOption)
          /\ \A o : Times(found, o) = IF o.num = num THEN Times(Asked, o) ELSE 0
          /\ Range(found) = those
      BY <1>1, LookedUp
    <2>2. /\ ToBag(found) = [o \in Range(found) |-> Times(found, o)]
          /\ ToBag(Asked) = [o \in Range(Asked) |-> Times(Asked, o)]
      BY DEF ToBag, Times
    <2>3. Restrict(ToBag(Asked), those) = [o \in those |-> ToBag(Asked)[o]]
      BY DEF Restrict
    <2>. HIDE DEF found
    <2>4. \A o \in those : ToBag(Asked)[o] = Times(found, o)
      BY <2>1, <2>2
    <2>. HIDE DEF those
    <2>5. ToBag(found) = Restrict(ToBag(Asked), those)
      BY <2>1, <2>2, <2>3, <2>4
    <2>. QED  BY <2>5 DEF found, those
  <1>2. Carried => OptionsArrive
    <2>1. ASSUME Carried, Arrived, stable, NEW num
          PROVE  LookUp(got.options, num) = LookUp(Asked, num)
      BY <2>1, LookedUp
    <2>. QED  BY <1>1, <2>1 DEF OptionsArrive
  <1>. QED  BY <1>2, CarriedInvariant, PTL

\* For every such request, the port and the numbers among the application's options are read
\* by the server as they were given.
THEOREM NumbersArriveHolds == ReqSpec => []NumbersArrive
  <1>1. ASSUME Carried, Arrived
        PROVE  /\ parts \in Parts /\ parts \in Sent /\ WellFormed
               /\ extra \in Extras \cup {NoExtra}
    BY <1>1 DEF Carried, Arrived, Proper
  <1>2. ASSUME Carried, Arrived, NEW num \in ShortNums, NEW v \in Uint32,
               InitUint32(num, v) \in Range(Asked)
        PROVE  \E o \in Range(LookUp(got.options, num)) : AsUint32(o) = v
    <2>1. InitUint32(num, v).num = num
      BY DEF InitUint32
    <2>2. InitUint32(num, v) \in Range(LookUp(got.options, num))
      BY <1>2, <2>1, LookedUp
    <2>. QED  BY <2>2, NumberStored DEF IsNumber
  <1>3. ASSUME Carried, Arrived
        PROVE  \A o : /\ o \in Range(UriOptions(Expected)) => o \in Range(Asked)
                      /\ extra # NoExtra /\ o \in Range(ExtraOptions) => o \in Range(Asked)
    <2>1. UriOptions(Expected) \in Seq(SmallOption)
      BY <1>1, <1>3, UriOptionsAre
    <2>2. /\ Asked \in Seq(SmallOption)
          /\ extra # NoExtra => ExtraOptions \in Seq(SmallOption)
          /\ \A o : Times(Asked, o) = Times(UriOptions(Expected), o)
                                        + (IF extra = NoExtra THEN 0 ELSE Times(ExtraOptions, o))
      BY <1>1, <1>3, AskedIs
    <2>3. \A o : (Times(Asked, o) = 0 <=> o \notin Range(Asked))
      BY <2>2, TimesType
    <2>4. \A o : /\ Times(UriOptions(Expected), o) \in Nat
                 /\ Times(UriOptions(Expected), o) = 0 <=> o \notin Range(UriOptions(Expected))
      BY <2>1, TimesType
    <2>5. extra # NoExtra =>
            \A o : /\ Times(ExtraOptions, o) \in Nat
                   /\ Times(ExtraOptions, o) = 0 <=> o \notin Range(ExtraOptions)
      BY <2>2, TimesType
    <2>. QED  BY <2>2, <2>3, <2>4, <2>5
  <1>4. ASSUME Carried, Arrived, ~matches
        PROVE  \E o \in Range(LookUp(got.options, OPTION_URI_PORT)) :
                 AsUint32(o) = PortNumber[IF parts.port \in PortWords THEN parts.port
                                          ELSE MC_DEFAULT_PORT]
    <2>1. /\ InitUint32(7, PortNumber[PortOf(parts)]) \in Range(UriOptions(Expected))
          /\ PortNumber[PortOf(parts)] \in Uint32 /\ 7 \in ShortNums
      BY <1>1, <1>4, UriOptionsAre DEF ShortNums
    <2>2. InitUint32(7, PortNumber[PortOf(parts)]) \in Range(Asked)
      BY <1>3, <1>4, <2>1
    <2>3. \E o \in Range(LookUp(got.options, 7)) : AsUint32(o) = PortNumber[PortOf(parts)]
      BY <1>2, <1>4, <2>1, <2>2
    <2>. QED  BY <2>3 DEF OPTION_URI_PORT, PortOf
  <1>5. ASSUME Carried, Arrived, extra # NoExtra,
               NEW i \in DOMAIN extra, "number" \in DOMAIN extra[i]
        PROVE  \E o \in Range(LookUp(got.options, extra[i].num)) : AsUint32(o) = extra[i].number
    <2>1. extra \in Extras
      BY <1>1, <1>5
    <2>2. /\ ExtraOptions[i] = InitUint32(extra[i].num, extra[i].number)
          /\ i \in DOMAIN ExtraOptions
          /\ extra[i].num \in ShortNums /\ extra[i].number \in Uint32
      BY <1>5, <2>1, ExtrasAre
    <2>3. ExtraOptions[i] \in Range(ExtraOptions)
      BY <2>2 DEF Range
    <2>4. InitUint32(extra[i].num, extra[i].number) \in Range(Asked)
      BY <1>3, <1>5, <2>2, <2>3
    <2>. QED  BY <1>2, <1>5, <2>2, <2>4
  <1>6. Carried => NumbersArrive
    BY <1>4, <1>5 DEF NumbersArrive
  <1>. QED  BY <1>6, CarriedInvariant, PTL
=============================================================================
