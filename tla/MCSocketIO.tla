----------------------------- MODULE MCSocketIO -----------------------------
(***************************************************************************)
(* SocketIO on a small instance: the timeout of an endpoint (block only),  *)
(* a poll, no limit, an overall limit and both.                            *)
(***************************************************************************)
EXTENDS SocketIO

MCTimeouts == {[block |-> 2, total |-> -1], [block |-> 0, total |-> -1],
               [block |-> -1, total |-> -1], [block |-> -1, total |-> 2],
               [block |-> 1, total |-> 3]}
=============================================================================
