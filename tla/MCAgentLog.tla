------------------------------ MODULE MCAgentLog ------------------------------
EXTENDS AgentLog

CONSTANTS X, t1, t2, n1, n2

(* A header of two characters and a buffer of six: texts below the bound   *)
(* without and with a newline, one that ends in a newline at the bound,    *)
(* one that fills the buffer and one that is cut.                          *)
MCHeader == <<X, X>>
MCContents ==
  {<< >>, <<NewLine>>, <<X, NewLine>>, <<X, X, X>>, <<X, X, X, X>>}
MCShort == {<<X, NewLine>>}
=============================================================================
