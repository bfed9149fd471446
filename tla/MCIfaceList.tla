----------------------------- MODULE MCIfaceList -----------------------------
(* IfaceList for TLC: two interfaces, a line of each kind, and two values  *)
(* of an address, where the order of lines counts.                         *)
EXTENDS IfaceList

CONSTANTS A, B, X, Y

Address(addr, bcast) == [addr |-> addr, bcast |-> bcast, mask |-> X]

MCLines ==
  {[kind |-> "link", name |-> A, mac |-> X],
   [kind |-> "link", name |-> B, mac |-> NoText],
   [kind |-> "inet", ipv4 |-> Address(X, X)],
   [kind |-> "inet", ipv4 |-> Address(Y, NoText)],
   [kind |-> "inet6", ipv6 |-> X],
   [kind |-> "mtu", status |-> "UP"],
   [kind |-> "other"]}
=============================================================================
