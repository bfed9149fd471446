---------------------------- MODULE MCIfaceProgram ----------------------------
(* IfaceProgram for TLC: outputs of up to three lines with two interfaces  *)
(* or one that appears twice, and two runs.                                *)
EXTENDS IfaceProgram

CONSTANTS A, B, X

MCLines == {[kind |-> "link", name |-> A, mac |-> X],
            [kind |-> "link", name |-> B, mac |-> NoText],
            [kind |-> "inet6", ipv6 |-> X]}
=============================================================================
