----------------------------- MODULE MCPrograms -----------------------------
(***************************************************************************)
(* Programs for command lines with the options in every place, right and   *)
(* wrong, up to three requests, and servers that listen on the port asked, *)
(* on another one, or not at all.                                          *)
(***************************************************************************)
EXTENDS Programs

Words == {"u", "v", "-p", "-s", "-c", "-t", "0", "1", "2", "3", "4000", "65536", "65537", "x"}

\* atoi; a word that is no number is 0.
MCNumber ==
  [w \in Words |->
     CASE w = "1" -> 1 [] w = "2" -> 2 [] w = "3" -> 3 [] w = "4000" -> 4000
       [] w = "65536" -> 65536 [] w = "65537" -> 65537 [] OTHER -> 0]

\* u has no port, v has one.
MCUriPort == [w \in Words |-> IF w = "v" THEN 4000 ELSE MC_DEFAULT_PORT]

Mcget ==
  {<<>>, <<"-p", "1">>, <<"-p", "0", "u">>, <<"-p", "65536", "u">>, <<"-p", "x", "u">>,
   <<"u", "-p">>, <<"u">>, <<"u", "-p", "1", "v">>, <<"-p", "65537", "u", "u">>,
   <<"v", "-p", "4000">>, <<"u", "v", "u">>, <<"-p", "1", "u", "-p", "2", "v">>,
   <<"-p", "1", "-p", "-p", "u">>}

Tmclient ==
  {<<"-t", "1">>, <<"-t", "2", "-c", "4000">>, <<"-c", "1", "-s", "4000", "-t", "3">>,
   <<"-s", "4000", "-c", "4000", "-t", "2">>, <<"-t", "0">>, <<"-t">>}

Tmserver == {<<>>, <<"-s", "4000">>, <<"-s">>}

MCLines ==
  [program : {"mcget"}, args : Mcget, server : Tmserver]
    \cup [program : {"tmclient"}, args : Tmclient, server : Tmserver]
    \cup [program : {"testbase"}, args : {<<>>}, server : {<<"-s">>}]
=============================================================================
