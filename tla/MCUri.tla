-------------------------------- MODULE MCUri --------------------------------
(***************************************************************************)
(* Uri for every combination of a few schemes, hosts and ports with up to  *)
(* three path segments and two query parts, empty ones among them.         *)
(***************************************************************************)
EXTENDS Uri

UpTo(n, S) == UNION {[1..k -> S] : k \in 0..n}

MCParts ==
  [scheme : {<<"coap">>, <<"coaps">>, <<"http">>},
   host   : {<<>>, <<"h">>, <<"[", "f", ":", "1", "]">>, <<"[", "f">>, <<"[", "]">>},
   port   : {NoPort, "1000", "x"},
   path   : UpTo(3, {<<>>, <<"a">>, <<"b", "&", "c">>}),
   query  : UpTo(2, {<<>>, <<"q">>, <<"r", "/", "?", "s">>})]

MCPortWords == {"1000"}
=============================================================================
