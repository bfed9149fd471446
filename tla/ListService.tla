----------------------------- MODULE ListService -----------------------------
(***************************************************************************)
(* What link_list.h promises: a list of data, one end of which is its      *)
(* head.  push adds to the head, pop removes and returns the head, and     *)
(* add_inorder puts data where a sorted list stays sorted.  There are no   *)
(* cells and there is no empty cell here.  LinkedList is shown to          *)
(* implement this module.                                                  *)
(***************************************************************************)
EXTENDS Integers, Sequences, SequencesExt

CONSTANTS Keys, NoData, MaxAdds

VARIABLES contents, result, added

vars == <<contents, result, added>>

Item == [key: Keys, id: 1..MaxAdds]

Init == contents = << >> /\ result = NoData /\ added = 0

(* A list is made, empty or with its first item. *)
Create ==
  \/ added < MaxAdds /\ added' = added + 1 /\ result' = NoData
     /\ \E k \in Keys : contents' = <<[key |-> k, id |-> added + 1]>>
  \/ contents' = << >> /\ result' = NoData /\ UNCHANGED added

Push ==
  /\ added < MaxAdds
  /\ added' = added + 1
  /\ \E k \in Keys : contents' = <<[key |-> k, id |-> added + 1]>> \o contents
  /\ result' = NoData

(* Behind everything smaller that the list starts with. *)
Add ==
  /\ added < MaxAdds
  /\ added' = added + 1
  /\ \E k \in Keys, p \in 1..(Len(contents) + 1) :
       /\ \A i \in 1..(p - 1) : contents[i].key < k
       /\ p <= Len(contents) => contents[p].key >= k
       /\ contents' = InsertAt(contents, p, [key |-> k, id |-> added + 1])
  /\ result' = NoData

Pop ==
  /\ result' = IF contents = << >> THEN NoData ELSE Head(contents)
  /\ contents' = IF contents = << >> THEN << >> ELSE Tail(contents)
  /\ UNCHANGED added

Dispose ==
  /\ contents' = << >>
  /\ result' = NoData
  /\ UNCHANGED added

(* A call that adds nothing, because it reports a failure or never returns.*)
Refuse == UNCHANGED <<contents, added>> /\ result' = NoData

Next == Create \/ Push \/ Add \/ Pop \/ Dispose \/ Refuse

Spec == Init /\ [][Next]_vars
=============================================================================
