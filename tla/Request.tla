------------------------------- MODULE Request -------------------------------
(***************************************************************************)
(* A request from the URI the application asks for to the options the      *)
(* server looks up.  Uri makes the first list of options; mk_options adds  *)
(* the application's own, mk_message the rest of the message               *)
(* (mcoap/mc_endpt_udp.c), Codec takes it to the server, which finds its   *)
(* way in it with the functions of mc_options_list.c and mc_option.c.      *)
(*                                                                         *)
(* Who owns the bytes of an option matters here: "uri" stands for the      *)
(* bytes allocated by mc_uri_to_options, "extra" for those of the          *)
(* application's options, "copy" for those made by merging.                *)
(***************************************************************************)
EXTENDS Uri

CONSTANTS
  Sent,      \* the components, among Parts, of the URIs that requests are made for
  Extras,    \* the lists of options that the application adds
  Ids,       \* message ids
  CharByte,  \* the byte of every word that is part of a name
  PortNumber \* the number in every port

NoExtra == <<[none |-> TRUE]>>

\* What is above the low byte of a number.
Above(v) == v \div 256

\* Names and numbers that reach the server whole: an option length or a distance of two option
\* numbers from 269 on is not read back as it was written (Codec).
Name == {words \in Seq(DOMAIN CharByte) : Len(words) < 269}
Uint16 == {v \in Nat : Above(v) < 256}
Uint32 == {v \in Nat : Above(Above(Above(v))) < 256}
Extra == [num : 0..268, number : Uint32] \cup [num : 0..268, name : Name]

ASSUME SentAssumption ==
  \A p \in Sent :
    /\ p.host \in Name
    /\ p.path \in Seq(Name) /\ p.query \in Seq(Name)

ASSUME ExtrasAssumption == Extras \subseteq Seq(Extra)
ASSUME IdsAssumption == Ids \subseteq Uint16
ASSUME CharAssumption == \A c \in DOMAIN CharByte : CharByte[c] \in 0..255
ASSUME PortAssumption == \A w \in PortWords \cup {MC_DEFAULT_PORT} : PortNumber[w] \in Uint32

VARIABLES
  extra,  \* the application's options, in its order
  phase,  \* "uri", "made", "written", "read"; "crashed"
  msg,    \* the message
  held,   \* whose bytes the message's options point to
  freed,  \* whose bytes have been freed
  wire,   \* the datagram
  got,    \* the message that the server makes of it
  stable  \* whether the C library's qsort leaves options of equal number as they are

reqvars == <<extra, phase, msg, held, freed, wire, got, stable>>

C == INSTANCE Codec WITH
       Messages <- {}, WriteSizes <- {1024}, ReadSizes <- {1024}, Junk <- {0},
       stage <- phase, wrsize <- 1024, rdsize <- 1024

-----------------------------------------------------------------------------
(* Options and their values.                                               *)

OPTION_URI_HOST == 3
OPTION_URI_PORT == 7
OPTION_URI_PATH == 11
OPTION_URI_QUERY == 15

\* mc_option_init_str, of the words of a name.
InitStr(num, words) == [num |-> num, value |-> [i \in DOMAIN words |-> CharByte[words[i]]]]

\* The four bytes of a number, the high one first.
FourBytes(v) ==
  <<Above(Above(Above(v))), Above(Above(v)) % 256, Above(v) % 256, v % 256>>

\* Faulty variant: two bytes are stored as the machine has them.
InitUint32Unswapped(num, v) ==
  [num |-> num,
   value |-> IF v < 256 THEN <<v>>
             ELSE IF Above(v) < 256 THEN <<v % 256, Above(v)>>
             ELSE FourBytes(v)]

\* mc_option_init_uint32: one, two or four bytes, the high one first.
InitUint32(num, v) ==
  [num |-> num,
   value |-> IF v < 256 THEN <<v>>
             ELSE IF Above(v) < 256 THEN <<Above(v), v % 256>>
             ELSE FourBytes(v)]

\* mc_option_as_uint32, of as many bytes as mc_option_init_uint32 stores.
AsUint32(option) ==
  LET b == option.value
  IN  IF Len(b) = 1 THEN b[1]
      ELSE IF Len(b) = 2 THEN b[1] * 256 + b[2]
      ELSE ((b[1] * 256 + b[2]) * 256 + b[3]) * 256 + b[4]

\* What mc_uri_to_options stores for the parts of a URI.
UriOption(o) ==
  CASE o.num = "host"  -> InitStr(OPTION_URI_HOST, o.value)
    [] o.num = "port"  -> InitUint32(OPTION_URI_PORT, PortNumber[o.value[1]])
    [] o.num = "path"  -> InitStr(OPTION_URI_PATH, o.value)
    [] o.num = "query" -> InitStr(OPTION_URI_QUERY, o.value)

UriOptions(os) == [i \in DOMAIN os |-> UriOption(os[i])]

\* mc_options_list_vinit: the application's options, numbers and names.
ExtraOptions ==
  [i \in DOMAIN extra |->
     IF "number" \in DOMAIN extra[i] THEN InitUint32(extra[i].num, extra[i].number)
                                     ELSE InitStr(extra[i].num, extra[i].name)]

\* Faulty variant: the merged options point to the bytes of both lists.
MergeShallow(list1, list2) == [list |-> list1 \o list2, held |-> {"uri", "extra"}]

\* mc_options_list_merge: copies of both.
Merge(list1, list2) == [list |-> list1 \o list2, held |-> {"copy"}]

\* mc_options_list_copy.
CopyList(list) == [list |-> list, held |-> {"copy"}]

\* mc_options_list_get_index: the index, from 0, of the first option of that number from
\* start on, -1 if there is none.
GetIndex(list, start, num) ==
  SelectInSubSeq(list, start + 1, Len(list), LAMBDA o : o.num = num) - 1

\* mc_options_list_at, of an index that get_index returned.
ListAt(list, index) == list[index + 1]

\* A server gets all options of a number by looking for each behind the one before.
LookUp(list, num) ==
  LET from[start \in 0..Len(list)] ==
        LET index == GetIndex(list, start, num)
        IN  IF index < 0 THEN <<>> ELSE <<ListAt(list, index)>> \o from[index + 1]
  IN  from[0]

-----------------------------------------------------------------------------
ReqInit ==
  /\ Init
  /\ extra \in IF parts \in Sent THEN Extras \cup {NoExtra} ELSE {NoExtra}
  /\ phase = "uri" /\ msg = <<>> /\ held = {} /\ freed = {} /\ wire = <<>> /\ got = <<>>
  /\ stable \in BOOLEAN

\* Uri's steps.
ReadUri == phase = "uri" /\ Next /\ UNCHANGED reqvars

\* mc_token_create2: the id as it is in memory, and four random bytes.
Token(id) == <<id % 256, id \div 256, 7, 255, 0, 13>>

\* mk_message: confirmable if there is a result function.
MkMessage(opts, id, con) ==
  [version |-> 1, type |-> IF con THEN 0 ELSE 1, code |-> 1, id |-> id, token |-> Token(id),
   options |-> opts, payload |-> <<>>]

Made(merged, toFree) ==
  /\ phase' = "made"
  /\ held' = merged.held /\ freed' = toFree
  /\ \E sorted \in C!OptionsSort(merged.list), id \in Ids, con \in BOOLEAN :
       msg' = MkMessage(sorted, id, con)
  /\ UNCHANGED <<vars, extra, wire, got, stable>>

\* mk_options without options of the application; a URI that was refused has none either,
\* and the request is made all the same.
MkOptions ==
  /\ phase = "uri" /\ stage \in {"done", "refused"} /\ parts \in Sent
  /\ extra = NoExtra
  /\ Made([list |-> UriOptions(options), held |-> {"uri"}], {})

\* mk_options with some: the list of the URI is freed after merging ...
MkOptionsMerged ==
  /\ phase = "uri" /\ stage = "done" /\ parts \in Sent
  /\ extra # NoExtra
  /\ \E list1 \in C!OptionsSort(UriOptions(options)), list2 \in C!OptionsSort(ExtraOptions) :
       Made(Merge(list1, list2), {"uri"})

\* ... which reads through the null pointer that a refused URI leaves.
MkOptionsCrashes ==
  /\ phase = "uri" /\ stage = "refused" /\ parts \in Sent
  /\ extra # NoExtra
  /\ phase' = "crashed"
  /\ held' = CopyList(ExtraOptions).held
  /\ UNCHANGED <<vars, extra, msg, freed, wire, got, stable>>

Garbage == <<0>>
NoMessage == [options |-> <<>>]

\* send_msg: the message is serialised, and its parts are freed.
SendMsg ==
  /\ IF held \cap freed = {} THEN C!Write
     ELSE phase = "made" /\ phase' = "written" /\ wire' = Garbage /\ UNCHANGED <<msg, got, stable>>
  /\ freed' = freed \cup held
  /\ UNCHANGED <<vars, extra, held>>

\* The server's mc_endpt_udp_recv.
Receive ==
  /\ IF wire # Garbage THEN C!Read
     ELSE phase = "written" /\ phase' = "read" /\ got' = NoMessage /\ UNCHANGED <<msg, wire, stable>>
  /\ UNCHANGED <<vars, extra, held, freed>>

ReqNext ==
  ReadUri \/ MkOptions \/ MkOptionsMerged \/ MkOptionsCrashes \/ SendMsg \/ Receive

ReqSpec == ReqInit /\ [][ReqNext]_<<vars, reqvars>>

-----------------------------------------------------------------------------
\* What the application asked for: the components of its URI, and its own options.
Asked == UriOptions(Expected) \o (IF extra = NoExtra THEN <<>> ELSE ExtraOptions)

NameNumbers == {OPTION_URI_HOST, 8, OPTION_URI_PATH, OPTION_URI_QUERY, 35}

Arrived == phase = "read" /\ WellFormed /\ parts.port # NoPort /\ NoneEmpty

\* Every path segment, query and name of the application's options is found by the server as
\* often as it was asked for, and no other is, whatever is merged with them and freed on the way.
\* The order, which tells /a/b from /b/a, is left to four calls of qsort: it arrives if the C
\* library's leaves options of equal number as they are, which the C standard does not promise.
OptionsArrive ==
  Arrived =>
    \A num \in NameNumbers :
      LET found == LookUp(got.options, num)
      IN  /\ ToBag(found) = Restrict(ToBag(Asked), {o \in Range(Asked) : o.num = num})
          /\ stable => found = LookUp(Asked, num)

\* The numbers among the options, the port and the application's own, are read as they were
\* given, whichever of the lengths they take.
NumbersArrive ==
  Arrived =>
    /\ ~matches => \E o \in Range(LookUp(got.options, OPTION_URI_PORT)) :
                     AsUint32(o) = PortNumber[IF parts.port \in PortWords THEN parts.port
                                              ELSE MC_DEFAULT_PORT]
    /\ extra # NoExtra =>
         \A i \in DOMAIN extra : "number" \in DOMAIN extra[i] =>
           \E o \in Range(LookUp(got.options, extra[i].num)) : AsUint32(o) = extra[i].number
=============================================================================
