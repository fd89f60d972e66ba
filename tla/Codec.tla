-------------------------------- MODULE Codec --------------------------------
(***************************************************************************)
(* A message from its fields to the bytes of a datagram and back           *)
(* (mcoap/mc_message.c, mc_header.c, mc_options_list.c, mc_option.c,       *)
(* mc_buffer.c): one endpoint serialises it into its write buffer, the     *)
(* other reads as much of the datagram as its read buffer holds.           *)
(*                                                                         *)
(* Bytes are numbers; a buffer is a sequence of them and a buffer position *)
(* counts from 0.  What an option value or a payload means is left out.    *)
(***************************************************************************)
EXTENDS OptionInts, SequencesExt

CONSTANTS
  Messages,    \* the messages sent, their options in the order given by the sender
  WriteSizes,  \* sizes of the write buffer
  ReadSizes,   \* sizes of the read buffer
  Junk         \* what an uninitialised uint16_t may hold

Refused == [refused |-> TRUE]      \* a null pointer for a message
Undefined == [undefined |-> TRUE]  \* the value bytes lie behind the buffer

Byte == 0..255
OptionSet == [num : UInt16, value : Seq(Byte)]
MessageSet ==
  [version : 0..3, type : 0..3, code : Byte, id : UInt16, token : Seq(Byte),
   options : Seq(OptionSet), payload : Seq(Byte)]

\* The fields fit the header and the lengths an extended integer.
ASSUME MessageAssumption ==
  \A m \in Messages :
    /\ m \in MessageSet /\ Len(m.token) <= 15
    /\ \A i \in DOMAIN m.options : Len(m.options[i].value) \in UInt16

\* The read buffer holds the header and the token at least.
ASSUME SizeAssumption ==
  /\ WriteSizes \subseteq Nat /\ ReadSizes \subseteq Nat
  /\ \A m \in Messages, r \in ReadSizes : 4 + Len(m.token) <= r

ASSUME JunkAssumption == Junk \subseteq UInt16

VARIABLES
  stage,   \* "made", "written", "read"
  msg,     \* the message
  wrsize,  \* size of the write buffer
  wire,    \* the bytes written, <<>> if the message was not written
  rdsize,  \* size of the read buffer
  got,     \* what the receiver makes of them
  stable   \* whether the C library's qsort leaves options of equal number as they are

vars == <<stage, msg, wrsize, wire, rdsize, got, stable>>

At(buffer, bpos) == buffer[bpos + 1]
Bytes(buffer, bpos, n) == SubSeq(buffer, bpos + 1, bpos + n)

-----------------------------------------------------------------------------
(* Writing.                                                                *)

\* Faulty variant: the list is taken as the sender gave it.
OptionsSortNot(options) == {options}

\* options_sort: qsort by number; what becomes of equal numbers is up to the C library.  (A prover
\* does not know what Permutations are but for the bijections named with them.)
OptionsSort(options) ==
  LET n == Len(options)
      Sorts(p) ==
        \A i, j \in 1..n : i < j =>
          /\ options[p[i]].num <= options[p[j]].num
          /\ stable /\ options[p[i]].num = options[p[j]].num => p[i] < p[j]
  IN  {[i \in 1..n |-> options[p[i]]] :
         p \in {q \in Permutations(1..n) \cap Bijection(1..n, 1..n) : Sorts(q)}}

\* mc_header_create, in network byte order.
Header(m) ==
  << (m.version % 4) * 64 + (m.type % 4) * 16 + (Len(m.token) % 16),
     m.code, m.id \div 256, m.id % 256 >>

ExtendedBytes(v) ==
  IF ExtendedSize(HeadNibble(v)) = 1 THEN <<Extended(v)>>
  ELSE IF ExtendedSize(HeadNibble(v)) = 2 THEN <<Extended(v) \div 256, Extended(v) % 256>>
  ELSE <<>>

PrevNum(options, i) == IF i = 1 THEN 0 ELSE options[i - 1].num

\* option_to_buffer of the i-th option.
OptionBytes(options, i) ==
  LET delta == (options[i].num - PrevNum(options, i)) % 65536
      value == options[i].value
  IN  <<HeadNibble(delta) * 16 + HeadNibble(Len(value))>>
        \o ExtendedBytes(delta) \o ExtendedBytes(Len(value)) \o value

\* mc_options_list_to_buffer.
OptionsBytes(options) == FlattenSeq([i \in DOMAIN options |-> OptionBytes(options, i)])

\* Faulty variant: each option's number is measured from 0.
OptionSizeAbsolute(options, i) ==
  ExtendedIntSize(options[i].num) + ExtendedIntSize(Len(options[i].value))
    + Len(options[i].value) - 1

\* mc_option_buffer_size of the i-th option.
OptionSize(options, i) ==
  ExtendedIntSize(options[i].num - PrevNum(options, i)) + ExtendedIntSize(Len(options[i].value))
    + Len(options[i].value) - 1

\* mc_message_buffer_size.
BufferSize(m) ==
  LET sum[i \in 0..Len(m.options)] ==
        IF i = 0 THEN 0 ELSE sum[i - 1] + OptionSize(m.options, i)
  IN  4 + Len(m.token) + sum[Len(m.options)]
        + (IF m.payload = <<>> THEN 0 ELSE 1 + Len(m.payload))

\* mc_message_to_buffer, once the size has been found to fit.
MessageBytes(m) ==
  Header(m) \o m.token \o OptionsBytes(m.options)
    \o (IF m.payload = <<>> THEN <<>> ELSE <<255>> \o m.payload)

-----------------------------------------------------------------------------
(* Reading.  Two bytes are read with the arguments of memcpy swapped: the  *)
(* result is what its variable held (junk), and that overwrites the buffer. *)
(* All such reads of a message find the same junk: the stack slot is one.  *)

\* mc_buffer_next_uint16 at bpos, on a machine with the low byte first: what it returns
\* and the buffer it leaves.
NextUint16(buffer, bpos, junk) ==
  [v |-> junk,
   buffer |-> [buffer EXCEPT ![bpos + 1] = junk % 256, ![bpos + 2] = junk \div 256]]

\* ms_swap_u16.
SwapU16(v) == (v % 256) * 256 + v \div 256

\* option_num_from_buffer: the value, the position behind it and the buffer.
OptionNum(buffer, prefix, bpos, junk) ==
  IF prefix = 13 THEN
    [v |-> EncodedIntToValue(13, At(buffer, bpos)), bpos |-> bpos + 1, buffer |-> buffer]
  ELSE IF prefix = 14 THEN
    LET next == NextUint16(buffer, bpos, junk)
    IN  [v |-> EncodedIntToValue(14, SwapU16(next.v)), bpos |-> bpos + 2, buffer |-> next.buffer]
  ELSE [v |-> prefix, bpos |-> bpos, buffer |-> buffer]

\* The loop of count_options, and a turn of it.  Bytes behind the datagram are what the read buffer
\* held before, here 0: the walk is past the end after them anyway.
CountEnds(w, n) == w.bpos >= n \/ At(w.buffer, w.bpos) = 255

\* Faulty variant: an option that the datagram ends in is counted too.
CountOptionCutOff(w, n, junk) ==
  IF CountEnds(w, n) THEN w
  ELSE LET delta == At(w.buffer, w.bpos) \div 16
           len == At(w.buffer, w.bpos) % 16
           num == OptionNum(w.buffer, len, w.bpos + 1 + ExtendedSize(delta), junk)
       IN  [bpos |-> num.bpos + num.v, count |-> w.count + 1, buffer |-> num.buffer]

CountOption(w, n, junk) ==
  IF CountEnds(w, n) THEN w
  ELSE LET delta == At(w.buffer, w.bpos) \div 16
           len == At(w.buffer, w.bpos) % 16
           num == OptionNum(w.buffer, len, w.bpos + 1 + ExtendedSize(delta), junk)
       IN  [bpos |-> num.bpos + num.v,
            count |-> IF num.bpos + num.v > n THEN 0 ELSE w.count + 1,
            buffer |-> num.buffer]

\* count_options from bpos on: every turn takes a byte at least, so that n are enough.
CountOptions(buffer, n, bpos, junk) ==
  LET walk[k \in 0..n] ==
        IF k = 0 THEN [bpos |-> bpos, count |-> 0, buffer |-> buffer]
        ELSE CountOption(walk[k - 1], n, junk)
  IN  walk[CHOOSE k \in 0..n : CountEnds(walk[k], n)]

\* option_from_buffer, once its two numbers were read, behind the options read before.
Behind(r, num, len) ==
  LET optnum == (num.v + r.prevnum) % 65536
  IN  [bpos |-> len.bpos + len.v, prevnum |-> optnum, buffer |-> len.buffer,
       options |-> Append(r.options, [num |-> optnum,
                                      value |-> Bytes(len.buffer, len.bpos, len.v)])]

\* The loop of mc_options_list_from_buffer; past the end of the buffer nothing is known.
ReadOption(r, n, junk) ==
  IF r.bpos > n THEN r
  ELSE LET num == OptionNum(r.buffer, At(r.buffer, r.bpos) \div 16, r.bpos + 1, junk)
           len == OptionNum(num.buffer, At(r.buffer, r.bpos) % 16, num.bpos, junk)
       IN  Behind(r, num, len)

\* mc_options_list_from_buffer as far as its loops go; no list is an empty list.
ReadOptions(buffer, n, bpos, junk) ==
  LET c == IF n < 4 THEN [count |-> 0, buffer |-> buffer]
                    ELSE CountOptions(buffer, n, bpos, junk)
      read[k \in 0..c.count] ==
        IF k = 0 THEN [bpos |-> bpos, prevnum |-> 0, buffer |-> c.buffer, options |-> <<>>]
        ELSE ReadOption(read[k - 1], n, junk)
  IN  read[c.count]

\* mc_options_list_from_buffer: what was read is sorted once more.
OptionsFrom(buffer, n, bpos, junk) ==
  LET read == ReadOptions(buffer, n, bpos, junk)
  IN  {[bpos |-> read.bpos, options |-> list] :
         list \in IF read.bpos > n THEN {<<>>} ELSE OptionsSort(read.options)}

\* The payload behind its marker; a single byte left is ignored.
PayloadFrom(bytes, bpos) ==
  IF Len(bytes) - bpos > 1 THEN Bytes(bytes, bpos + 1, Len(bytes) - bpos - 1) ELSE <<>>

\* mc_header_get_version and the like, for the fields in the four bytes of the header.
HeaderFields(bytes) ==
  [version |-> bytes[1] \div 64, type |-> (bytes[1] \div 16) % 4, tklen |-> bytes[1] % 16,
   code |-> bytes[2], id |-> bytes[3] * 256 + bytes[4]]

\* mc_message_from_buffer, of a datagram that holds the header and the token: the messages it
\* may be taken for.
FromBuffer(bytes, junk) ==
  LET n == Len(bytes)
      h == HeaderFields(bytes)
      \* extended bytes at the very end are looked for behind it
      padded == bytes \o <<0, 0, 0, 0>>
  IN  {IF read.bpos > n THEN Undefined
       ELSE IF n - read.bpos > 1 /\ At(bytes, read.bpos) # 255 THEN Refused
       ELSE [version |-> h.version, type |-> h.type, code |-> h.code, id |-> h.id,
             token |-> Bytes(bytes, 4, h.tklen),
             options |-> read.options, payload |-> PayloadFrom(bytes, read.bpos)] :
       read \in OptionsFrom(padded, n, 4 + h.tklen, junk)}

-----------------------------------------------------------------------------
Init ==
  /\ stage = "made" /\ stable \in BOOLEAN
  /\ \E m \in Messages : \E sorted \in OptionsSort(m.options) :
       msg = [m EXCEPT !.options = sorted]
  /\ wrsize \in WriteSizes /\ rdsize \in ReadSizes
  /\ wire = <<>> /\ got = Refused

\* mc_message_to_buffer: all of the message, or nothing.
Write ==
  /\ stage = "made"
  /\ stage' = "written"
  /\ wire' = IF BufferSize(msg) > wrsize THEN <<>> ELSE MessageBytes(msg)
  /\ UNCHANGED <<msg, wrsize, rdsize, got, stable>>

\* recvfrom cuts the datagram to the read buffer; mc_message_from_buffer reads it.  (An
\* empty one is not passed on.)
Read ==
  /\ stage = "written" /\ wire # <<>>
  /\ stage' = "read"
  /\ \E junk \in Junk :
       got' \in FromBuffer(SubSeq(wire, 1, IF rdsize < Len(wire) THEN rdsize ELSE Len(wire)), junk)
  /\ UNCHANGED <<msg, wrsize, wire, rdsize, stable>>

Next == Write \/ Read

Spec == Init /\ [][Next]_vars

-----------------------------------------------------------------------------
\* Every option delta and length takes at most one extended byte.
Short ==
  \A i \in DOMAIN msg.options :
    msg.options[i].num - PrevNum(msg.options, i) < 269 /\ Len(msg.options[i].value) < 269

\* The size computed beforehand is the size written: neither does a message that was
\* found to fit overrun the buffer, nor is one that fits turned away.
SizeIsExact ==
  stage # "made" =>
    IF Len(MessageBytes(msg)) <= wrsize THEN wire = MessageBytes(msg) ELSE wire = <<>>

\* The same options in the same places, but for those of equal number.
SameButForTies(list1, list2) ==
  \E p \in Bijection(DOMAIN list2, DOMAIN list2) :
    /\ list1 = [i \in DOMAIN list2 |-> list2[p[i]]]
    /\ \A i \in DOMAIN list2 : list1[i].num = list2[i].num

\* A message with short options that was received whole is the message that was sent, but for
\* the order of options of equal number: they are sorted at both ends, and stay as they were
\* written if qsort leaves them alone.
ShortRoundTrip ==
  stage = "read" /\ Short /\ Len(wire) <= rdsize =>
    /\ got \notin {Refused, Undefined}
    /\ got = [msg EXCEPT !.options = got.options]
    /\ SameButForTies(got.options, msg.options)
    /\ stable => got = msg

\* Of a datagram cut off by the read buffer the receiver reads no option whose value lies
\* behind the bytes received, since count_options has left it out, and takes no option and no
\* payload byte for another: what it accepts is the beginning of what was sent, its options of
\* equal number in any order unless qsort leaves them alone.
CutKeepsBeginning ==
  stage = "read" /\ got # Refused /\ Short =>
    /\ got # Undefined
    /\ got.token = msg.token /\ got.id = msg.id /\ got.code = msg.code
    /\ \E c \in 0..Len(msg.options) :
         /\ SameButForTies(got.options, SubSeq(msg.options, 1, c))
         /\ stable => got.options = SubSeq(msg.options, 1, c)
         /\ got.payload # <<>> => c = Len(msg.options)
    /\ IsPrefix(got.payload, msg.payload)

\* "Given a message, when we serialize it, then deserialize it, then we get two identical
\* messages" (mc_message_test.c:165-167).
RoundTrip == stage = "read" /\ Len(wire) <= rdsize => got = msg
=============================================================================
