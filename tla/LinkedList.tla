------------------------------ MODULE LinkedList ------------------------------
(***************************************************************************)
(* The generic list of link_list_lb.  A list is a handle that points to    *)
(* the first cell of a chain; a cell holds a pointer to the caller's data. *)
(* An empty list is one cell without data, the empty cell, and not a       *)
(* handle without a chain; but pop takes the last cell away, too.          *)
(*                                                                         *)
(* One thread uses a list.  The data of an item are a key, which "comp"    *)
(* compares, and a number that says when it was added.  The results of     *)
(* malloc are not looked at: a failure, like a NULL list that is followed, *)
(* ends the program.  Left out: llist_print, which changes nothing, data   *)
(* that are NULL in push and add_inorder, and calls after llist_free.      *)
(***************************************************************************)
EXTENDS Integers, Sequences, SequencesExt

CONSTANTS
  Keys,     (* What comp compares.                                         *)
  NoData,   (* A data pointer that is NULL.                                *)
  MaxAdds   (* Bound: items.                                               *)

Item == [key: Keys, id: 1..MaxAdds]

ASSUME ListAssumption ==
  Keys \subseteq Int /\ MaxAdds \in Nat /\ NoData \notin Item

VARIABLES
  life,    (* "none", "live", or how it ended: "freed", "nomem" (malloc    *)
           (* failed), "null" (a NULL chain was followed).                 *)
  chain,   (* The data of the cells; << >>: *list is NULL.                 *)
  blocks,  (* History: blocks allocated and not yet freed.                 *)
  result,  (* What the last llist_pop returned.                            *)
  added,   (* Items so far.                                                *)
  taken,   (* History: the items that were popped, in order.               *)
  pushed   (* History: whether llist_push was called.                      *)

vars == <<life, chain, blocks, result, added, taken, pushed>>

NewItem(k) == [key |-> k, id |-> added + 1]

EmptyCell == <<NoData>>

Init ==
  /\ life = "none" /\ chain = << >> /\ blocks = 0
  /\ result = NoData /\ added = 0 /\ taken = << >> /\ pushed = FALSE

(* The program ends within the call. *)
Dies(how) ==
  /\ life' = how
  /\ result' = NoData
  /\ UNCHANGED <<chain, blocks, added, taken, pushed>>

Create ==
  /\ life = "none"
  /\ life' = "live"
  /\ blocks' = blocks + 2
  /\ result' = NoData
  /\ \/ chain' = EmptyCell /\ UNCHANGED added
     \/ /\ added < MaxAdds /\ added' = added + 1
        /\ \E k \in Keys : chain' = <<NewItem(k)>>
  /\ UNCHANGED <<taken, pushed>>

Free ==
  /\ life = "live"
  /\ life' = "freed"
  /\ blocks' = blocks - (Len(chain) + 1)
  /\ chain' = << >>
  /\ result' = NoData
  /\ UNCHANGED <<added, taken, pushed>>

Adds == life = "live" /\ added < MaxAdds /\ added' = added + 1

(* The head cell is empty: it takes the item. *)
FillEmptyCell ==
  /\ Adds /\ chain = EmptyCell
  /\ \E k \in Keys : chain' = <<NewItem(k)>>
  /\ result' = NoData
  /\ pushed' \in {pushed, TRUE}
  /\ UNCHANGED <<life, blocks, taken>>

(* Mutant of Spot: the walk goes on behind equal items. *)
SpotBehindEqual(k, p) ==
  /\ \A i \in 1..(p - 1) : chain[i].key <= k
  /\ p <= Len(chain) => chain[p].key > k

(* Mutant of Spot: the comparison is the wrong way round. *)
SpotDescending(k, p) ==
  /\ \A i \in 1..(p - 1) : chain[i].key > k
  /\ p <= Len(chain) => chain[p].key <= k

(* Where llist_add_inorder stops: at the first item that is not smaller. *)
Spot(k, p) ==
  /\ \A i \in 1..(p - 1) : chain[i].key < k
  /\ p <= Len(chain) => chain[p].key >= k

Insert ==
  /\ Adds /\ chain \notin {<< >>, EmptyCell}
  /\ \E k \in Keys, p \in 1..(Len(chain) + 1) :
       Spot(k, p) /\ chain' = InsertAt(chain, p, NewItem(k))
  /\ blocks' = blocks + 1
  /\ result' = NoData
  /\ UNCHANGED <<life, taken, pushed>>

(* llist_add_inorder reports that the list is null, and returns 0. *)
Refuse ==
  /\ life = "live" /\ chain = << >>
  /\ result' = NoData
  /\ UNCHANGED <<life, chain, blocks, added, taken, pushed>>

Push ==
  /\ Adds /\ chain \notin {<< >>, EmptyCell}
  /\ \E k \in Keys : chain' = <<NewItem(k)>> \o chain
  /\ blocks' = blocks + 1
  /\ result' = NoData /\ pushed' = TRUE
  /\ UNCHANGED <<life, taken>>

(* llist_push reports a NULL chain but goes on; llist_pop follows it       *)
(* before it looks.                                                        *)
FollowNull == life = "live" /\ chain = << >> /\ Dies("null")

(* A malloc that fails: in llist_create, add_inorder or push. *)
OutOfMemory ==
  /\ life = "none" \/ (life = "live" /\ chain \notin {<< >>, EmptyCell})
  /\ Dies("nomem")

(* Mutant of Pop: the cell is not freed. *)
PopLeak ==
  /\ life = "live" /\ chain # << >>
  /\ result' = Head(chain)
  /\ IF chain = EmptyCell THEN UNCHANGED <<chain, blocks, taken>>
     ELSE /\ chain' = Tail(chain) /\ UNCHANGED blocks
          /\ taken' = Append(taken, Head(chain))
  /\ UNCHANGED <<life, added, pushed>>

(* An empty cell stays, and NULL is returned. *)
Pop ==
  /\ life = "live" /\ chain # << >>
  /\ result' = Head(chain)
  /\ IF chain = EmptyCell THEN UNCHANGED <<chain, blocks, taken>>
     ELSE /\ chain' = Tail(chain) /\ blocks' = blocks - 1
          /\ taken' = Append(taken, Head(chain))
  /\ UNCHANGED <<life, added, pushed>>

Next ==
  \/ Create \/ Free \/ FillEmptyCell \/ Insert \/ Refuse \/ Push \/ Pop
  \/ FollowNull \/ OutOfMemory

Spec == Init /\ [][Next]_vars

-----------------------------------------------------------------------------
TypeOK ==
  /\ life \in {"none", "live", "freed", "nomem", "null"}
  /\ chain \in Seq(Item \cup {NoData})
  /\ blocks \in Nat
  /\ result \in Item \cup {NoData}
  /\ added \in 0..MaxAdds
  /\ taken \in Seq(Item)
  /\ pushed \in BOOLEAN

(* An empty cell is alone: no item is ever behind it, where a walk that    *)
(* stops at it (link_list.c:59) or a pop (101) would not find it.          *)
EmptyCellAlone ==
  \A i \in DOMAIN chain : chain[i] = NoData => chain = EmptyCell

(* The cells and the handle are all there is, and freeing the list frees   *)
(* them all (link_list.c:22-34 and 107).                                   *)
CellsAccounted ==
  /\ life = "live" => blocks = Len(chain) + 1
  /\ life = "freed" => blocks = 0

Items == IF chain = EmptyCell THEN << >> ELSE chain

(* As long as nothing is pushed, the list is sorted; of equal items the    *)
(* last one added comes first (link_list.c:58-63).                         *)
SortedNewestFirst ==
  ~ pushed => \A i, j \in DOMAIN Items : i < j =>
    \/ Items[i].key < Items[j].key
    \/ Items[i].key = Items[j].key /\ Items[i].id > Items[j].id

Ids(s) == {s[i].id : i \in DOMAIN s}

(* Every item that was added is in the list or was popped, until the list  *)
(* is freed, and none is there twice: there are no more places than items  *)
(* (link_list.c:50-70, 84-93 and 104-109).                                 *)
EachItemOnce ==
  life # "freed" => /\ Ids(Items) \cup Ids(taken) = 1..added
                    /\ Len(Items) + Len(taken) = added

(* A list has no cell, where llist_push and llist_pop follow NULL          *)
(* (link_list.c:77-84 and 99-101), only when all of its items were popped, *)
(* and there was one: a list that never held an item is safe.              *)
NullOnlyWhenEmptied ==
  life \in {"live", "null"} /\ chain = << >> => added > 0 /\ Len(taken) = added

(* Neither an item nor a cell gets lost, in any order of calls; the list   *)
(* is only ever without a cell when all it held was handed out             *)
(* (link_list.c:22-110).                                                   *)
NothingLost == EachItemOnce /\ CellsAccounted /\ NullOnlyWhenEmptied

(* LinkedList implements the list of link_list.h: an empty cell and a NULL *)
(* chain both stand for the empty list.                                    *)
Service == INSTANCE ListService WITH contents <- Items

ImplementsService == Service!Spec

(* "llist_push: Add to head of list", "llist_pop: remove and return head   *)
(* of linked list" (link_list.h:22 and 25).  But a list from which the     *)
(* last item was popped has no cell any more, and the next push or pop     *)
(* follows NULL (link_list.c:77-84 and 99-101).                            *)
NullNotFollowed == life # "null"
=============================================================================
