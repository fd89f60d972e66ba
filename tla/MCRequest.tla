------------------------------ MODULE MCRequest ------------------------------
(***************************************************************************)
(* Request: every URI of MCUri is read, and requests are made for some of  *)
(* them, with options of the application before, between and behind those  *)
(* of the URI.                                                             *)
(***************************************************************************)
EXTENDS Request, MCUri

MCSent ==
  {p \in MCParts :
     /\ p.scheme = <<"coap">> /\ p.host # <<"[", "f">>
     /\ p.port \in {"1000", "x"}
     /\ Len(p.path) <= 2 /\ Len(p.query) <= 1
     /\ <<>> \notin Range(p.path) \cup Range(p.query)}

MCExtras ==
  {<<>>,
   << [num |-> 60, number |-> 2147483647], [num |-> 12, number |-> 0] >>,
   << [num |-> 14, number |-> 65535], [num |-> 15, name |-> <<"q">>] >>,
   << [num |-> 14, number |-> 65536] >>,
   << [num |-> 60, number |-> 256], [num |-> 8, name |-> <<"b">>] >>,
   << [num |-> 12, number |-> 255], [num |-> 35, name |-> <<"r", "r">>] >>}

MCCharByte ==
  [c \in {"h", "f", ":", "1", "a", "b", "c", "&", "q", "r", "s", "/", "?", "[", "]"} |->
     CASE c = "h" -> 104 [] c = "f" -> 102 [] c = ":" -> 58 [] c = "1" -> 49 [] c = "a" -> 97
       [] c = "b" -> 98 [] c = "c" -> 99 [] c = "&" -> 38 [] c = "q" -> 113 [] c = "r" -> 114
       [] c = "s" -> 115 [] c = "/" -> 47 [] c = "?" -> 63
       [] c = "[" -> 91 [] c = "]" -> 93]

MCPortNumber == [w \in {"1000", "5683"} |-> IF w = "1000" THEN 1000 ELSE 5683]
=============================================================================
