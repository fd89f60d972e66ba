------------------------------- MODULE MCCodec -------------------------------
(***************************************************************************)
(* Codec for messages of up to two options whose numbers and lengths lie   *)
(* at the bounds of the encoding.                                          *)
(***************************************************************************)
EXTENDS Codec

\* 255 is also the payload marker.
Value(n) == [i \in 1..n |-> IF i = 1 THEN 255 ELSE 7]

Option(nums, lens) == {[num |-> k, value |-> Value(n)] : k \in nums, n \in lens}

OptionLists(options) ==
  {<<>>} \cup {<<o>> : o \in options} \cup {<<o, p>> : o, p \in options}

Fields == {[version |-> 1, type |-> 0, code |-> 1, id |-> 1],
           [version |-> 1, type |-> 2, code |-> 69, id |-> 65280]}

Message(lists) ==
  {[version |-> f.version, type |-> f.type, code |-> f.code, id |-> f.id,
    token |-> t, options |-> o, payload |-> p] :
   f \in Fields, t \in {<<>>, <<255, 2, 3, 4, 5, 6>>}, o \in lists,
   p \in {<<>>, <<65>>, <<255, 255, 0>>}}

ShortMessages ==
  Message(OptionLists(Option({0, 11, 12, 13, 24, 268, 280}, {0, 1, 12, 13}))
            \cup {<<o>> : o \in Option({1, 268}, {268})})

LongMessages == Message({<<o>> : o \in Option({1, 13, 268, 269, 525}, {0, 1, 13, 268, 269})})
=============================================================================
