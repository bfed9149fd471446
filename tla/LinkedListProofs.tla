--------------------------- MODULE LinkedListProofs ---------------------------
(***************************************************************************)
(* The generic list for every set of keys and any number of items: proofs  *)
(* of the invariants of LinkedList, and that it implements ListService.    *)
(* The invariants need each other: that an empty cell is alone makes every *)
(* other chain a sequence of items, and that the items are numbered up to  *)
(* "added" makes a new item the newest of its equals.                      *)
(***************************************************************************)
EXTENDS LinkedList, SequenceTheorems, TLAPS

-----------------------------------------------------------------------------
(* Putting an element in front. *)
LEMMA PrependProperties ==
  ASSUME NEW S, NEW s \in Seq(S), NEW e \in S
  PROVE  /\ <<e>> \o s \in Seq(S)
         /\ Len(<<e>> \o s) = Len(s) + 1
         /\ (<<e>> \o s)[1] = e
         /\ \A i \in 1..Len(s) : (<<e>> \o s)[i + 1] = s[i]
<1>1. <<e>> \in Seq(S) /\ Len(<<e>>) = 1 /\ <<e>>[1] = e
  OBVIOUS
<1>2. Len(s) \in Nat
  BY LenProperties
<1>3. /\ <<e>> \o s \in Seq(S)
      /\ Len(<<e>> \o s) = 1 + Len(s)
      /\ \A i \in 1 .. 1 + Len(s) :
           (<<e>> \o s)[i] = IF i <= 1 THEN <<e>>[i] ELSE s[i - 1]
  <2>1. \A i \in 1 .. Len(<<e>>) + Len(s) :
           (<<e>> \o s)[i] = IF i <= Len(<<e>>) THEN <<e>>[i] ELSE s[i - Len(<<e>>)]
    BY <1>1, ConcatProperties
  <2> QED
    BY <1>1, <2>1, ConcatProperties
<1> QED
  BY <1>1, <1>2, <1>3

(* Putting e in at position i. *)
LEMMA InsertAtProperties ==
  ASSUME NEW S, NEW s \in Seq(S), NEW i \in 1..(Len(s) + 1), NEW e \in S
  PROVE  /\ InsertAt(s, i, e) \in Seq(S)
         /\ Len(InsertAt(s, i, e)) = Len(s) + 1
         /\ InsertAt(s, i, e)[i] = e
         /\ \A j \in 1..Len(s) :
              InsertAt(s, i, e)[IF j < i THEN j ELSE j + 1] = s[j]
<1> DEFINE a == SubSeq(s, 1, i - 1)
           b == SubSeq(s, i, Len(s))
           m == a \o <<e>>
<1>1. Len(s) \in Nat /\ i \in Nat /\ \A j \in 1..Len(s) : s[j] \in S
  BY LenProperties, ElementOfSeq
<1>2. /\ a \in Seq(S)
      /\ Len(a) = i - 1
      /\ \A j \in 1..i - 1 : a[j] = s[j]
  BY <1>1, SubSeqProperties
<1>3. /\ b \in Seq(S)
      /\ Len(b) = Len(s) - i + 1
      /\ \A j \in 1..(Len(s) - i + 1) : b[j] = s[i + j - 1]
  BY <1>1, SubSeqProperties
<1> HIDE DEF a, b
<1>4. /\ m \in Seq(S) /\ Len(m) = i /\ m[i] = e
      /\ \A j \in 1..i - 1 : m[j] = s[j]
  <2>1. <<e>> \in Seq(S) /\ Len(<<e>>) = 1 /\ <<e>>[1] = e
    OBVIOUS
  <2>2. /\ m \in Seq(S) /\ Len(m) = Len(a) + 1
        /\ \A j \in 1 .. Len(a) + 1 :
             m[j] = IF j <= Len(a) THEN a[j] ELSE <<e>>[j - Len(a)]
    BY <1>2, <2>1, ConcatProperties
  <2>3. m[i] = <<e>>[1]
    BY <1>1, <1>2, <2>2
  <2>4. \A j \in 1..i - 1 : m[j] = s[j]
    BY <1>1, <1>2, <2>2
  <2> QED
    BY <1>1, <1>2, <2>1, <2>2, <2>3, <2>4
<1> HIDE DEF m
<1>5. /\ m \o b \in Seq(S)
      /\ Len(m \o b) = Len(m) + Len(b)
      /\ \A j \in 1 .. Len(m) + Len(b) :
           (m \o b)[j] = IF j <= Len(m) THEN m[j] ELSE b[j - Len(m)]
  BY <1>3, <1>4, ConcatProperties
<1>6. InsertAt(s, i, e) = m \o b
  BY DEF InsertAt, a, b, m
<1>7. Len(m \o b) = Len(s) + 1 /\ (m \o b)[i] = e
  BY <1>1, <1>3, <1>4, <1>5
<1>8. \A j \in 1..Len(s) : (m \o b)[IF j < i THEN j ELSE j + 1] = s[j]
  <2> TAKE j \in 1..Len(s)
  <2>1. CASE j < i
    BY <1>1, <1>3, <1>4, <1>5, <2>1
  <2>2. CASE ~ (j < i)
    <3>1. (m \o b)[j + 1] = b[j + 1 - i]
      BY <1>1, <1>3, <1>4, <1>5, <2>2
    <3>2. b[j + 1 - i] = s[j]
      BY <1>1, <1>3, <2>2
    <3> QED
      BY <2>2, <3>1, <3>2
  <2> QED
    BY <2>1, <2>2
<1> QED
  BY <1>5, <1>6, <1>7, <1>8

(* Before it is made and after it is freed a list has no chain. *)
Ends ==
  /\ life = "none" => chain = << >> /\ blocks = 0 /\ added = 0 /\ taken = << >>
  /\ life = "freed" => chain = << >>

(* A list without a chain has had an item. *)
HadAnItem == life \in {"live", "null"} /\ chain = << >> => added > 0

(* The inductive invariant. *)
IInv ==
  /\ TypeOK
  /\ Ends
  /\ EmptyCellAlone
  /\ CellsAccounted
  /\ SortedNewestFirst
  /\ EachItemOnce
  /\ HadAnItem

-----------------------------------------------------------------------------
LEMMA NewItemType ==
  ASSUME TypeOK, added < MaxAdds, NEW k \in Keys
  PROVE  /\ NewItem(k) \in Item /\ NewItem(k) # NoData
         /\ NewItem(k).key = k /\ NewItem(k).id = added + 1
         /\ added + 1 \in 1..MaxAdds
<1>1. added + 1 \in 1..MaxAdds
  BY ListAssumption DEF TypeOK
<1>2. NewItem(k) \in Item
  BY <1>1 DEF NewItem, Item
<1> QED
  BY <1>1, <1>2, ListAssumption DEF NewItem, Item

LEMMA ItemType ==
  ASSUME NEW x \in Item
  PROVE  x # NoData /\ x.key \in Int /\ x.id \in Int
<1>1. x # NoData
  BY ListAssumption
<1>2. x.key \in Keys /\ x.id \in 1..MaxAdds
  BY DEF Item
<1>3. x.key \in Int
  BY <1>2, ListAssumption
<1>4. x.id \in Int
  BY <1>2, ListAssumption
<1> QED
  BY <1>1, <1>3, <1>4

(* A chain that is not the empty cell consists of items.                   *)
LEMMA ChainOfItems ==
  ASSUME IInv, chain # EmptyCell
  PROVE  chain \in Seq(Item) /\ Items = chain
<1>1. /\ chain \in Seq(Item \cup {NoData}) /\ Len(chain) \in Nat
      /\ DOMAIN chain = 1..Len(chain)
      /\ \A i \in 1..Len(chain) : chain[i] \in Item \cup {NoData}
  BY LenProperties, ElementOfSeq DEF IInv, TypeOK
<1>2. \A i \in 1..Len(chain) : chain[i] \in Item
  BY <1>1 DEF IInv, EmptyCellAlone
<1>3. chain = [i \in 1..Len(chain) |-> chain[i]]
  BY <1>1
<1>4. chain \in Seq(Item)
  BY <1>1, <1>2, <1>3, SeqDef
<1> QED
  BY <1>4 DEF Items

LEMMA NotEmptyCell ==
  ASSUME NEW s \in Seq(Item)
  PROVE  s # EmptyCell
<1>1. SUFFICES ASSUME s = EmptyCell PROVE FALSE
  OBVIOUS
<1>2. Len(s) = 1 /\ s[1] = NoData
  BY <1>1 DEF EmptyCell
<1>3. s[1] \in Item
  BY <1>2, ElementOfSeq
<1> QED
  BY <1>2, <1>3, ItemType

LEMMA EmptyCellFacts ==
  /\ EmptyCell \in Seq(Item \cup {NoData}) /\ Len(EmptyCell) = 1
  /\ DOMAIN EmptyCell = {1} /\ EmptyCell[1] = NoData
BY DEF EmptyCell

(* A chain of items has no empty cell. *)
LEMMA NoEmptyCell ==
  ASSUME chain' \in Seq(Item)
  PROVE  /\ chain' \in Seq(Item \cup {NoData})
         /\ Items' = chain'
         /\ EmptyCellAlone'
<1>1. /\ Len(chain') \in Nat /\ DOMAIN chain' = 1..Len(chain')
      /\ \A i \in 1..Len(chain') : chain'[i] \in Item
  BY LenProperties, ElementOfSeq
<1>2. chain' \in Seq(Item \cup {NoData})
  BY SeqMonotonic
<1>3. Items' = chain'
  BY NotEmptyCell DEF Items, EmptyCell
<1>4. EmptyCellAlone'
  BY <1>1, ItemType DEF EmptyCellAlone
<1> QED
  BY <1>2, <1>3, <1>4

(* An item is put at position p of a chain of items. *)
LEMMA Grows ==
  ASSUME IInv, chain \in Seq(Item), Items = chain, life # "freed",
         added < MaxAdds, added' = added + 1, taken' = taken,
         NEW k \in Keys, NEW p \in 1..(Len(chain) + 1),
         chain' \in Seq(Item), Len(chain') = Len(chain) + 1,
         chain'[p] = NewItem(k),
         \A j \in 1..Len(chain) : chain'[IF j < p THEN j ELSE j + 1] = chain[j]
  PROVE  EachItemOnce'
<1>1. /\ Len(chain) \in Nat /\ Len(taken) \in Nat /\ added \in Nat
      /\ DOMAIN chain = 1..Len(chain) /\ DOMAIN chain' = 1..(Len(chain) + 1)
  BY LenProperties DEF IInv, TypeOK
<1>2. Items' = chain'
  BY NoEmptyCell
<1>3. Ids(chain') = Ids(chain) \cup {added + 1}
  <2>1. \A i \in 1..(Len(chain) + 1) : i # p =>
          \E j \in 1..Len(chain) : chain'[i] = chain[j]
    <3> TAKE i \in 1..(Len(chain) + 1)
    <3>1. CASE i < p
      BY <1>1, <3>1
    <3>2. CASE i > p
      <4>1. i - 1 \in 1..Len(chain) /\ ~ (i - 1 < p) /\ (i - 1) + 1 = i
        BY <1>1, <3>2
      <4> QED
        BY <4>1
    <3> QED
      BY <1>1, <3>1, <3>2
  <2>2. \A j \in 1..Len(chain) :
          \E i \in 1..(Len(chain) + 1) : chain'[i] = chain[j]
    BY <1>1
  <2>3. chain'[p].id = added + 1
    BY NewItemType DEF IInv
  <2>4. ASSUME NEW x \in Ids(chain') PROVE x \in Ids(chain) \cup {added + 1}
    <3>1. PICK i \in 1..(Len(chain) + 1) : x = chain'[i].id
      BY <1>1, <2>4 DEF Ids
    <3> QED
      BY <1>1, <2>1, <2>3, <3>1 DEF Ids
  <2>5. ASSUME NEW x \in Ids(chain) PROVE x \in Ids(chain')
    <3>1. PICK j \in 1..Len(chain) : x = chain[j].id
      BY <1>1, <2>5 DEF Ids
    <3> QED
      BY <1>1, <2>2, <3>1 DEF Ids
  <2>6. added + 1 \in Ids(chain')
    BY <1>1, <2>3 DEF Ids
  <2> QED
    BY <2>4, <2>5, <2>6
<1>4. /\ Ids(chain) \cup Ids(taken) = 1..added
      /\ Len(chain) + Len(taken) = added
  BY DEF IInv, EachItemOnce
<1>5. Ids(taken)' = Ids(taken) /\ Ids(Items)' = Ids(chain')
  BY <1>2 DEF Ids
<1>6. Ids(chain') \cup Ids(taken) = 1..(added + 1)
  BY <1>1, <1>3, <1>4
<1>7. Len(chain') + Len(taken) = added + 1
  <2>1. Len(chain) + Len(taken) = added
    BY <1>4
  <2>2. /\ Len(chain') = Len(chain) + 1
        /\ Len(chain) \in Nat /\ Len(taken) \in Nat
    BY <1>1
  <2> QED
    BY <2>1, <2>2
<1> QED
  BY <1>2, <1>5, <1>6, <1>7 DEF EachItemOnce

-----------------------------------------------------------------------------
(***************************************************************************)
(* One lemma per action.                                                   *)
(***************************************************************************)
LEMMA CreateStep == ASSUME IInv, Create PROVE IInv'
<1>1. /\ life = "none" /\ life' = "live" /\ chain = << >> /\ blocks = 0
      /\ added = 0 /\ taken = << >> /\ taken' = << >> /\ pushed' = pushed
      /\ blocks' = 2 /\ result' = NoData
  BY DEF Create, IInv, Ends
<1>2. CASE chain' = EmptyCell /\ UNCHANGED added
  <2>1. Items' = << >>
    BY <1>2 DEF Items, EmptyCell
  <2>2. TypeOK'
    BY <1>1, <1>2, EmptyCellFacts DEF IInv, TypeOK
  <2>3. Ends' /\ EmptyCellAlone' /\ CellsAccounted' /\ HadAnItem'
    BY <1>1, <1>2, EmptyCellFacts
       DEF Ends, EmptyCellAlone, CellsAccounted, EmptyCell, HadAnItem
  <2>4. SortedNewestFirst' /\ EachItemOnce'
    BY <1>1, <1>2, <2>1 DEF SortedNewestFirst, EachItemOnce, Ids
  <2> QED
    BY <2>2, <2>3, <2>4 DEF IInv
<1>3. ASSUME NEW k \in Keys, added < MaxAdds, added' = added + 1,
             chain' = <<NewItem(k)>>
      PROVE  IInv'
  <2>1. NewItem(k) \in Item /\ NewItem(k).id = 1 /\ added' = 1 /\ added' \in 0..MaxAdds
    BY <1>1, <1>3, NewItemType DEF IInv, TypeOK
  <2>2. /\ chain' \in Seq(Item) /\ Len(chain') = 1 /\ DOMAIN chain' = {1}
        /\ chain'[1] = NewItem(k)
    BY <1>3, <2>1
  <2>3. chain' \in Seq(Item \cup {NoData}) /\ Items' = chain' /\ EmptyCellAlone'
    BY <2>2, NoEmptyCell
  <2>4. TypeOK'
    BY <1>1, <2>1, <2>3 DEF IInv, TypeOK
  <2>5. Ends' /\ CellsAccounted' /\ HadAnItem'
    BY <1>1, <2>1, <2>2 DEF Ends, CellsAccounted, HadAnItem
  <2>6. SortedNewestFirst'
    BY <2>2, <2>3 DEF SortedNewestFirst
  <2>7. EachItemOnce'
    <3>1. Ids(Items)' = {1} /\ Ids(taken)' = {}
      BY <1>1, <2>1, <2>2, <2>3 DEF Ids
    <3> QED
      BY <1>1, <2>1, <2>2, <2>3, <3>1 DEF EachItemOnce
  <2> QED
    BY <2>3, <2>4, <2>5, <2>6, <2>7 DEF IInv
<1> QED
  BY <1>2, <1>3 DEF Create

LEMMA FreeStep == ASSUME IInv, Free PROVE IInv'
<1>1. /\ life' = "freed" /\ chain' = << >> /\ blocks' = 0 /\ result' = NoData
      /\ UNCHANGED <<added, taken, pushed>>
  BY LenProperties DEF Free, IInv, TypeOK, CellsAccounted
<1>2. TypeOK' /\ Ends' /\ CellsAccounted' /\ EachItemOnce' /\ HadAnItem'
  BY <1>1 DEF IInv, TypeOK, Ends, CellsAccounted, EachItemOnce, HadAnItem
<1>3. EmptyCellAlone' /\ SortedNewestFirst'
  BY <1>1 DEF EmptyCellAlone, SortedNewestFirst, Items, EmptyCell
<1> QED
  BY <1>2, <1>3 DEF IInv

LEMMA FillStep == ASSUME IInv, FillEmptyCell PROVE IInv'
<1>1. /\ life = "live" /\ life' = "live" /\ chain = EmptyCell
      /\ added < MaxAdds /\ added' = added + 1
      /\ UNCHANGED <<blocks, taken>> /\ result' = NoData /\ pushed' \in BOOLEAN
  BY DEF FillEmptyCell, Adds, IInv, TypeOK
<1>2. PICK k \in Keys : chain' = <<NewItem(k)>>
  BY DEF FillEmptyCell
<1>3. /\ NewItem(k) \in Item /\ NewItem(k).id = added + 1
      /\ added' \in 0..MaxAdds /\ added \in Nat
  BY <1>1, NewItemType DEF IInv, TypeOK
<1>4. /\ chain' \in Seq(Item) /\ Len(chain') = 1 /\ DOMAIN chain' = {1}
      /\ chain'[1] = NewItem(k)
  BY <1>2, <1>3
<1>5. chain' \in Seq(Item \cup {NoData}) /\ Items' = chain' /\ EmptyCellAlone'
  BY <1>4, NoEmptyCell
<1>6. TypeOK'
  BY <1>1, <1>3, <1>5 DEF IInv, TypeOK
<1>7. Ends' /\ CellsAccounted' /\ HadAnItem'
  <2>1. added' > 0
    BY <1>1, <1>3
  <2> QED
    BY <1>1, <1>4, <2>1, EmptyCellFacts DEF IInv, Ends, CellsAccounted, HadAnItem
<1>8. SortedNewestFirst'
  BY <1>4, <1>5 DEF SortedNewestFirst
<1>9. EachItemOnce'
  <2>1. Ids(Items)' = {added + 1} /\ Ids(taken)' = Ids(taken)
    BY <1>1, <1>3, <1>4, <1>5 DEF Ids
  <2>2. Items = << >>
    BY <1>1 DEF Items
  <2>3. Ids(Items) = {} /\ Len(Items) = 0
    BY <2>2 DEF Ids
  <2>4. Ids(taken) = 1..added
    BY <1>1, <2>3 DEF IInv, EachItemOnce
  <2>5. Len(taken) = added
    <3>1. Len(Items) + Len(taken) = added /\ Len(taken) \in Nat
      BY <1>1, LenProperties DEF IInv, EachItemOnce, TypeOK
    <3> QED
      BY <2>3, <3>1
  <2> QED
    <3>1. Ids(Items)' \cup Ids(taken)' = 1..(added + 1)
      BY <1>3, <2>1, <2>4
    <3>2. Len(Items') + Len(taken') = added + 1
      <4>1. Len(Items') = 1 /\ Len(taken') = added
        BY <1>1, <1>4, <1>5, <2>5
      <4> QED
        BY <1>3, <4>1
    <3> QED
      BY <1>1, <3>1, <3>2 DEF EachItemOnce
<1> QED
  BY <1>5, <1>6, <1>7, <1>8, <1>9 DEF IInv

(* Nothing but "life" and "result" changes. *)
LEMMA NothingAddedStep ==
  ASSUME IInv, UNCHANGED <<chain, blocks, added, taken, pushed>>,
         result' \in Item \cup {NoData},
         \/ life' = life
         \/ life # "freed" /\ life' = "nomem"
         \/ life = "live" /\ life' = "null"
  PROVE  IInv'
<1>1. TypeOK' /\ EmptyCellAlone' /\ CellsAccounted' /\ HadAnItem'
  BY DEF IInv, TypeOK, EmptyCellAlone, CellsAccounted, HadAnItem
<1>2. Items' = Items
  BY DEF Items
<1>3. Ends' /\ SortedNewestFirst'
  BY <1>2 DEF IInv, Ends, SortedNewestFirst
<1>4. EachItemOnce'
  <2>1. life' # "freed" => life # "freed"
    OBVIOUS
  <2> QED
    BY <1>2, <2>1 DEF IInv, EachItemOnce, Ids
<1> QED
  BY <1>1, <1>3, <1>4 DEF IInv

(* The cell that is linked in is one more, and the rest stays in order.    *)
LEMMA LinkStep ==
  ASSUME IInv, Adds, chain \in Seq(Item), Items = chain,
         life' = life, taken' = taken, blocks' = blocks + 1, result' = NoData,
         pushed' \in BOOLEAN,
         NEW k \in Keys, NEW p \in 1..(Len(chain) + 1),
         chain' \in Seq(Item), Len(chain') = Len(chain) + 1,
         chain'[p] = NewItem(k),
         \A j \in 1..Len(chain) : chain'[IF j < p THEN j ELSE j + 1] = chain[j],
         pushed' \/ (~ pushed /\ Spot(k, p))
  PROVE  IInv'
<1>1. /\ life = "live" /\ added < MaxAdds /\ added' = added + 1
      /\ Len(chain) \in Nat /\ DOMAIN chain = 1..Len(chain)
      /\ DOMAIN chain' = 1..(Len(chain) + 1) /\ added \in Nat
  BY LenProperties DEF Adds, IInv, TypeOK
<1>2. chain' \in Seq(Item \cup {NoData}) /\ Items' = chain' /\ EmptyCellAlone'
  BY NoEmptyCell
<1>3. EachItemOnce'
  BY <1>1, Grows
<1>4. TypeOK' /\ Ends' /\ CellsAccounted' /\ HadAnItem'
  <2>1. added' \in 0..MaxAdds /\ blocks' \in Nat /\ added' > 0
    BY <1>1, NewItemType DEF IInv, TypeOK
  <2>2. blocks = Len(chain) + 1
    BY <1>1 DEF IInv, CellsAccounted
  <2> QED
    BY <1>1, <1>2, <2>1, <2>2 DEF IInv, TypeOK, Ends, CellsAccounted, HadAnItem
<1>5. SortedNewestFirst'
  <2> SUFFICES ASSUME ~ pushed, Spot(k, p),
                      NEW i \in 1..(Len(chain) + 1), NEW j \in 1..(Len(chain) + 1),
                      i < j
               PROVE  \/ chain'[i].key < chain'[j].key
                      \/ chain'[i].key = chain'[j].key /\ chain'[i].id > chain'[j].id
    BY <1>1, <1>2 DEF SortedNewestFirst
  <2> DEFINE old(m) == IF m < p THEN m ELSE m - 1
  <2>1. \A m \in 1..(Len(chain) + 1) : m # p =>
          old(m) \in 1..Len(chain) /\ chain'[m] = chain[old(m)]
    <3> TAKE m \in 1..(Len(chain) + 1)
    <3>1. CASE m < p
      BY <1>1, <3>1
    <3>2. CASE m > p
      <4>1. m - 1 \in 1..Len(chain) /\ ~ (m - 1 < p) /\ (m - 1) + 1 = m
        BY <1>1, <3>2
      <4>2. chain'[IF m - 1 < p THEN m - 1 ELSE (m - 1) + 1] = chain[m - 1]
        BY <4>1
      <4>3. old(m) = m - 1
        BY <1>1, <3>2
      <4> QED
        BY <4>1, <4>2, <4>3
    <3> QED
      BY <1>1, <3>1, <3>2
  <2>2. \A m \in 1..Len(chain) : /\ chain[m] \in Item /\ chain[m].key \in Int
                                 /\ chain[m].id \in Int /\ chain[m].id <= added
    <3> TAKE m \in 1..Len(chain)
    <3>1. chain[m] \in Item /\ chain[m].key \in Int /\ chain[m].id \in Int
      BY ElementOfSeq, ItemType
    <3>2. chain[m].id \in Ids(chain)
      BY <1>1 DEF Ids
    <3>3. chain[m].id \in 1..added
      BY <1>1, <3>2 DEF IInv, EachItemOnce
    <3> QED
      BY <1>1, <3>1, <3>3
  <2>3. \A l, m \in 1..Len(chain) : l < m =>
          \/ chain[l].key < chain[m].key
          \/ chain[l].key = chain[m].key /\ chain[l].id > chain[m].id
    BY <1>1 DEF IInv, SortedNewestFirst
  <2>4. /\ \A m \in 1..(p - 1) : chain[m].key < k
        /\ p <= Len(chain) => chain[p].key >= k
    BY DEF Spot
  <2>5. chain'[p].key = k /\ chain'[p].id = added + 1 /\ k \in Int
    BY <1>1, NewItemType, ListAssumption DEF IInv
  <2>6. CASE i = p
    <3>1. j - 1 \in 1..Len(chain) /\ p <= Len(chain) /\ p <= j - 1
      BY <1>1, <2>6
    <3>2. chain'[j] = chain[j - 1]
      BY <1>1, <2>1, <2>6
    <3>3. chain[j - 1].key >= k
      <4>1. CASE p = j - 1
        BY <2>4, <3>1, <4>1
      <4>2. CASE p # j - 1
        <5>1. p \in 1..Len(chain) /\ p < j - 1
          BY <1>1, <3>1, <4>2
        <5>2. chain[p].key >= k /\ chain[p].key \in Int /\ chain[j - 1].key \in Int
          <6>1. chain[p].key >= k
            BY <2>4, <3>1
          <6>2. chain[p].key \in Int
            BY <2>2, <5>1
          <6>3. chain[j - 1].key \in Int
            BY <2>2, <3>1
          <6> QED
            BY <6>1, <6>2, <6>3
        <5>3. chain[p].key <= chain[j - 1].key
          BY <2>3, <3>1, <5>1, <5>2
        <5> QED
          BY <2>5, <5>2, <5>3
      <4> QED
        BY <4>1, <4>2
    <3>4. chain[j - 1].id < added + 1
      BY <1>1, <2>2, <3>1
    <3>5. chain[j - 1].key \in Int /\ k \in Int
      BY <2>2, <2>5, <3>1
    <3> QED
      BY <2>5, <2>6, <3>2, <3>3, <3>4, <3>5
  <2>7. CASE j = p
    <3>1. chain'[i] = chain[i] /\ chain[i].key < k
      BY <1>1, <2>1, <2>4, <2>7
    <3> QED
      BY <2>5, <2>7, <3>1
  <2>8. CASE i # p /\ j # p
    <3>1. /\ old(i) \in 1..Len(chain) /\ old(j) \in 1..Len(chain)
          /\ chain'[i] = chain[old(i)] /\ chain'[j] = chain[old(j)]
      BY <2>1, <2>8
    <3>2. old(i) < old(j)
      BY <1>1, <2>8
    <3> HIDE DEF old
    <3> QED
      BY <2>3, <3>1, <3>2
  <2> QED
    BY <2>6, <2>7, <2>8
<1> QED
  BY <1>2, <1>3, <1>4, <1>5 DEF IInv

LEMMA InsertStep == ASSUME IInv, Insert PROVE IInv'
<1>1. chain \in Seq(Item) /\ Items = chain
  BY ChainOfItems DEF Insert
<1>2. PICK k \in Keys, p \in 1..(Len(chain) + 1) :
        Spot(k, p) /\ chain' = InsertAt(chain, p, NewItem(k))
  BY DEF Insert
<1>3. NewItem(k) \in Item
  BY NewItemType DEF Insert, Adds, IInv
<1>4. /\ chain' \in Seq(Item) /\ Len(chain') = Len(chain) + 1
      /\ chain'[p] = NewItem(k)
      /\ \A j \in 1..Len(chain) : chain'[IF j < p THEN j ELSE j + 1] = chain[j]
  <2> DEFINE e == NewItem(k)
             c == InsertAt(chain, p, e)
  <2>1. e \in Item
    BY <1>3
  <2> HIDE DEF e
  <2>2. /\ c \in Seq(Item) /\ Len(c) = Len(chain) + 1 /\ c[p] = e
        /\ \A j \in 1..Len(chain) : c[IF j < p THEN j ELSE j + 1] = chain[j]
    BY <1>1, <2>1, InsertAtProperties
  <2>3. chain' = c
    BY <1>2 DEF e
  <2> HIDE DEF c
  <2> QED
    BY <2>2, <2>3 DEF e
<1>5. /\ Adds /\ life' = life /\ taken' = taken /\ blocks' = blocks + 1
      /\ result' = NoData /\ pushed' = pushed /\ pushed \in BOOLEAN
  BY DEF Insert, IInv, TypeOK
<1>6. pushed' \/ (~ pushed /\ Spot(k, p))
  BY <1>2, <1>5
<1> QED
  BY <1>1, <1>2, <1>4, <1>5, <1>6, LinkStep

LEMMA PushStep == ASSUME IInv, Push PROVE IInv'
<1>1. chain \in Seq(Item) /\ Items = chain /\ Len(chain) \in Nat
  BY ChainOfItems, LenProperties DEF Push
<1>2. PICK k \in Keys : chain' = <<NewItem(k)>> \o chain
  BY DEF Push
<1>3. NewItem(k) \in Item
  BY NewItemType DEF Push, Adds, IInv
<1>4. /\ chain' \in Seq(Item) /\ Len(chain') = Len(chain) + 1
      /\ chain'[1] = NewItem(k)
      /\ \A j \in 1..Len(chain) : chain'[j + 1] = chain[j]
  BY <1>1, <1>2, <1>3, PrependProperties
<1>5. /\ 1 \in 1..(Len(chain) + 1)
      /\ \A j \in 1..Len(chain) : chain'[IF j < 1 THEN j ELSE j + 1] = chain[j]
  BY <1>1, <1>4
<1>6. /\ Adds /\ life' = life /\ taken' = taken /\ blocks' = blocks + 1
      /\ result' = NoData /\ pushed' = TRUE
  BY DEF Push
<1> QED
  BY <1>1, <1>4, <1>5, <1>6, LinkStep

LEMMA PopStep == ASSUME IInv, Pop PROVE IInv'
<1>1. CASE chain = EmptyCell
  <2>1. result' = NoData
    BY <1>1, EmptyCellFacts DEF Pop, EmptyCell
  <2> QED
    BY <1>1, <2>1, NothingAddedStep DEF Pop
<1>2. CASE chain # EmptyCell
  <2>1. /\ chain \in Seq(Item) /\ Items = chain /\ chain # << >>
        /\ life = "live" /\ life' = "live" /\ UNCHANGED <<added, pushed>>
        /\ chain' = Tail(chain) /\ taken' = Append(taken, Head(chain))
        /\ result' = Head(chain) /\ blocks' = blocks - 1
    BY <1>2, ChainOfItems DEF Pop
  <2>2. /\ Len(chain) \in Nat \ {0} /\ DOMAIN chain = 1..Len(chain)
        /\ taken \in Seq(Item) /\ Len(taken) \in Nat /\ DOMAIN taken = 1..Len(taken)
        /\ added \in Nat
    BY <2>1, EmptySeq, LenProperties DEF IInv, TypeOK
  <2>3. /\ chain' \in Seq(Item) /\ Len(chain') = Len(chain) - 1
        /\ \A i \in 1..(Len(chain) - 1) : chain'[i] = chain[i + 1]
        /\ DOMAIN chain' = 1..(Len(chain) - 1)
    <3>1. chain' \in Seq(Item) /\ Len(chain') = Len(chain) - 1
          /\ \A i \in 1..(Len(chain) - 1) : chain'[i] = chain[i + 1]
      BY <2>1, <2>2, HeadTailProperties
    <3> QED
      BY <3>1, LenProperties
  <2>4. Head(chain) = chain[1] /\ chain[1] \in Item
    BY <2>1, <2>2, ElementOfSeq
  <2>5. /\ taken' \in Seq(Item) /\ Len(taken') = Len(taken) + 1
        /\ taken'[Len(taken) + 1] = chain[1]
        /\ \A i \in 1..Len(taken) : taken'[i] = taken[i]
        /\ DOMAIN taken' = 1..(Len(taken) + 1)
    <3>1. /\ taken' \in Seq(Item) /\ Len(taken') = Len(taken) + 1
          /\ taken'[Len(taken) + 1] = chain[1]
          /\ \A i \in 1..Len(taken) : taken'[i] = taken[i]
      BY <2>1, <2>2, <2>4, AppendProperties
    <3> QED
      BY <3>1, LenProperties
  <2>6. /\ chain' \in Seq(Item \cup {NoData}) /\ Items' = chain' /\ EmptyCellAlone'
    BY <2>3, NoEmptyCell
  <2>7. blocks = Len(chain) + 1
    BY <2>1 DEF IInv, CellsAccounted
  <2>8. TypeOK' /\ Ends' /\ CellsAccounted'
    <3>1. blocks' \in Nat /\ blocks' = Len(chain') + 1
      BY <2>1, <2>2, <2>3, <2>7
    <3> QED
      BY <2>1, <2>4, <2>5, <2>6, <3>1 DEF IInv, TypeOK, Ends, CellsAccounted
  <2>9. SortedNewestFirst'
    <3>3. /\ Items' = chain' /\ pushed' = pushed
          /\ DOMAIN chain' = 1..(Len(chain) - 1)
      BY <2>1, <2>3, <2>6
    <3> SUFFICES ASSUME ~ pushed, NEW i \in 1..(Len(chain) - 1),
                        NEW j \in 1..(Len(chain) - 1), i < j
                 PROVE  \/ chain'[i].key < chain'[j].key
                        \/ chain'[i].key = chain'[j].key /\ chain'[i].id > chain'[j].id
      BY <3>3 DEF SortedNewestFirst
    <3>1. i + 1 \in 1..Len(chain) /\ j + 1 \in 1..Len(chain) /\ i + 1 < j + 1
      BY <2>2
    <3>2. \/ chain[i + 1].key < chain[j + 1].key
          \/ chain[i + 1].key = chain[j + 1].key /\ chain[i + 1].id > chain[j + 1].id
      BY <2>1, <2>2, <3>1 DEF IInv, SortedNewestFirst
    <3> QED
      BY <2>3, <3>2
  <2>10. EachItemOnce'
    <3>1. Ids(chain') \cup {chain[1].id} = Ids(chain)
      <4>1. \A i \in 1..Len(chain) :
              i # 1 => i - 1 \in 1..(Len(chain) - 1) /\ chain'[i - 1] = chain[i]
        BY <2>2, <2>3
      <4>2. ASSUME NEW x \in Ids(chain) PROVE x \in Ids(chain') \cup {chain[1].id}
        <5>1. PICK i \in 1..Len(chain) : x = chain[i].id
          BY <2>2, <4>2 DEF Ids
        <5> QED
          BY <2>3, <4>1, <5>1 DEF Ids
      <4>3. ASSUME NEW x \in Ids(chain') PROVE x \in Ids(chain)
        <5>1. PICK i \in 1..(Len(chain) - 1) : x = chain'[i].id
          BY <2>3, <4>3 DEF Ids
        <5>2. i + 1 \in 1..Len(chain) /\ x = chain[i + 1].id
          BY <2>2, <2>3, <5>1
        <5> QED
          BY <2>2, <5>2 DEF Ids
      <4>4. chain[1].id \in Ids(chain)
        BY <2>2 DEF Ids
      <4> QED
        BY <4>2, <4>3, <4>4
    <3>2. Ids(taken') = Ids(taken) \cup {chain[1].id}
      <4>1. ASSUME NEW x \in Ids(taken') PROVE x \in Ids(taken) \cup {chain[1].id}
        <5>1. PICK i \in 1..(Len(taken) + 1) : x = taken'[i].id
          BY <2>5, <4>1 DEF Ids
        <5>2. i \in 1..Len(taken) \/ i = Len(taken) + 1
          BY <2>2
        <5> QED
          BY <2>2, <2>5, <5>1, <5>2 DEF Ids
      <4>2. ASSUME NEW x \in Ids(taken) PROVE x \in Ids(taken')
        <5>1. PICK i \in 1..Len(taken) : x = taken[i].id
          BY <2>2, <4>2 DEF Ids
        <5>2. i \in 1..(Len(taken) + 1)
          BY <2>2, <5>1
        <5>3. x = taken'[i].id
          BY <2>5, <5>1
        <5>4. i \in DOMAIN taken'
          BY <2>5, <5>2
        <5> QED
          BY <5>3, <5>4 DEF Ids
      <4>3. chain[1].id \in Ids(taken')
        BY <2>2, <2>5 DEF Ids
      <4> QED
        BY <4>1, <4>2, <4>3
    <3>3. Ids(chain) \cup Ids(taken) = 1..added /\ Len(chain) + Len(taken) = added
      BY <2>1 DEF IInv, EachItemOnce
    <3>4. Ids(chain') \cup Ids(taken') = 1..added
      BY <3>1, <3>2, <3>3
    <3>5. Len(chain') + Len(taken') = added
      <4>1. Len(chain) + Len(taken) = added
        BY <3>3
      <4>2. Len(chain') = Len(chain) - 1 /\ Len(taken') = Len(taken) + 1
        BY <2>3, <2>5
      <4>3. Len(chain) \in Int /\ Len(taken) \in Int
        BY <2>2
      <4> QED
        BY <4>1, <4>2, <4>3
    <3>6. Ids(Items)' = Ids(chain') /\ Ids(taken)' = Ids(taken')
      BY <2>6 DEF Ids
    <3> QED
      BY <2>1, <2>6, <3>4, <3>5, <3>6 DEF EachItemOnce
  <2>11. HadAnItem'
    <3>1. Len(Items') + Len(taken') = added'
      BY <2>1, <2>10 DEF EachItemOnce
    <3>2. added' > 0
      BY <2>1, <2>2, <2>3, <2>5, <2>6, <3>1
    <3> QED
      BY <3>2 DEF HadAnItem
  <2> QED
    BY <2>6, <2>8, <2>9, <2>10, <2>11 DEF IInv
<1> QED
  BY <1>1, <1>2

-----------------------------------------------------------------------------
LEMMA InitEstablishes == Init => IInv
<1> SUFFICES ASSUME Init PROVE IInv
  OBVIOUS
<1>1. TypeOK
  <2>1. chain \in Seq(Item \cup {NoData}) /\ taken \in Seq(Item)
    <3>1. chain = << >> /\ taken = << >>
      BY DEF Init
    <3> QED
      BY <3>1
  <2>2. blocks \in Nat /\ added \in 0..MaxAdds /\ life = "none" /\ pushed \in BOOLEAN
    <3>1. MaxAdds \in Nat
      BY ListAssumption
    <3>2. blocks \in Nat /\ added \in 0..MaxAdds
      BY <3>1 DEF Init
    <3>3. life = "none" /\ pushed \in BOOLEAN
      BY Zenon DEF Init
    <3> QED
      BY <3>2, <3>3
  <2>3. result \in Item \cup {NoData}
    BY DEF Init
  <2> QED
    BY <2>1, <2>2, <2>3 DEF TypeOK
<1>2. Ends /\ EmptyCellAlone /\ CellsAccounted /\ HadAnItem
  BY DEF Init, Ends, EmptyCellAlone, CellsAccounted, HadAnItem
<1>3. Items = << >>
  BY DEF Init, Items
<1>4. SortedNewestFirst /\ EachItemOnce
  BY <1>3 DEF Init, SortedNewestFirst, EachItemOnce, Ids
<1> QED
  BY <1>1, <1>2, <1>4 DEF IInv

LEMMA StepPreserves == IInv /\ [Next]_vars => IInv'
<1> SUFFICES ASSUME IInv, [Next]_vars PROVE IInv'
  OBVIOUS
<1>1. CASE UNCHANGED vars
  <2>1. UNCHANGED <<chain, blocks, added, taken, pushed>> /\ life' = life
    BY <1>1 DEF vars
  <2>2. result' \in Item \cup {NoData}
    BY <1>1 DEF vars, IInv, TypeOK
  <2> QED
    BY <2>1, <2>2, NothingAddedStep
<1>2. CASE Refuse
  BY <1>2, NothingAddedStep DEF Refuse
<1>3. CASE FollowNull
  BY <1>3, NothingAddedStep DEF FollowNull, Dies
<1>4. CASE OutOfMemory
  BY <1>4, NothingAddedStep DEF OutOfMemory, Dies
<1> QED
  BY <1>1, <1>2, <1>3, <1>4, CreateStep, FreeStep, FillStep, InsertStep,
     PushStep, PopStep DEF Next

(* The inductive invariant holds of every behaviour of a list.             *)
THEOREM Invariance == Spec => []IInv
BY InitEstablishes, StepPreserves, PTL DEF Spec

(* Every variable of the list keeps its type; what is popped is an item    *)
(* (link_list.c:96-110).                                                   *)
THEOREM TypeCorrect == Spec => []TypeOK
BY Invariance, PTL DEF IInv

(* No item is ever behind an empty cell (link_list.c:50-53 and 83-85).     *)
THEOREM EmptyCellStaysAlone == Spec => []EmptyCellAlone
BY Invariance, PTL DEF IInv

(* Without a push the list is sorted, equal items newest first             *)
(* (link_list.c:58-68).                                                    *)
THEOREM ListIsSorted == Spec => []SortedNewestFirst
BY Invariance, PTL DEF IInv

(* Neither an item nor a cell gets lost, and a list is only ever without   *)
(* a cell when every item it held was popped (link_list.c:22-110).         *)
THEOREM ItemsAndCellsAreKept == Spec => []NothingLost
<1>1. IInv => NullOnlyWhenEmptied
  <2> SUFFICES ASSUME IInv, life \in {"live", "null"}, chain = << >>
               PROVE  added > 0 /\ Len(taken) = added
    BY DEF NullOnlyWhenEmptied
  <2>1. added > 0
    BY DEF IInv, HadAnItem
  <2>2. Items = << >> /\ Len(Items) = 0
    BY DEF Items
  <2>3. Len(Items) + Len(taken) = added /\ Len(taken) \in Nat
    BY LenProperties DEF IInv, EachItemOnce, TypeOK
  <2> QED
    BY <2>1, <2>2, <2>3
<1>2. IInv => NothingLost
  BY <1>1 DEF IInv, NothingLost
<1> QED
  BY <1>2, Invariance, PTL

-----------------------------------------------------------------------------
(***************************************************************************)
(* The refinement: an empty cell and a NULL chain are the empty list.      *)
(***************************************************************************)
LEMMA InitRefines == Init => Service!Init
BY DEF Init, Service!Init, Items

LEMMA StepRefines == IInv /\ [Next]_vars => [Service!Next]_(Service!vars)
<1> SUFFICES ASSUME IInv, [Next]_vars PROVE [Service!Next]_(Service!vars)
  OBVIOUS
<1> USE DEF Service!vars
<1>1. CASE UNCHANGED vars
  BY <1>1 DEF vars, Items
<1>2. CASE Create
  <2>1. CASE chain' = EmptyCell /\ UNCHANGED added
    BY <1>2, <2>1 DEF Create, Service!Next, Service!Create, Items, EmptyCell
  <2>2. ASSUME NEW k \in Keys, added < MaxAdds, added' = added + 1,
               chain' = <<NewItem(k)>>
        PROVE  Service!Create
    <3>1. NewItem(k) \in Item
      BY <2>2, NewItemType DEF IInv
    <3>2. chain' \in Seq(Item)
      BY <2>2, <3>1
    <3>3. Items' = <<[key |-> k, id |-> added + 1]>>
      BY <2>2, <3>2, NoEmptyCell DEF NewItem
    <3> QED
      BY <1>2, <2>2, <3>3 DEF Create, Service!Create
  <2> QED
    BY <1>2, <2>1, <2>2 DEF Create, Service!Next
<1>3. CASE Free
  BY <1>3 DEF Free, Service!Next, Service!Dispose, Items, EmptyCell
<1>4. CASE FillEmptyCell
  <2>1. PICK k \in Keys : chain' = <<NewItem(k)>>
    BY <1>4 DEF FillEmptyCell
  <2>2. NewItem(k) \in Item
    BY <1>4, NewItemType DEF IInv, FillEmptyCell, Adds
  <2>3. chain' \in Seq(Item) /\ Items = << >>
    BY <1>4, <2>1, <2>2 DEF FillEmptyCell, Items
  <2>4. Items' = <<[key |-> k, id |-> added + 1]>> \o Items
    BY <2>1, <2>3, NoEmptyCell DEF NewItem
  <2> QED
    BY <1>4, <2>4 DEF FillEmptyCell, Adds, Service!Next, Service!Push
<1>5. CASE Insert
  <2>1. chain \in Seq(Item) /\ Items = chain
    BY <1>5, ChainOfItems DEF Insert
  <2>2. PICK k \in Keys, p \in 1..(Len(chain) + 1) :
          Spot(k, p) /\ chain' = InsertAt(chain, p, NewItem(k))
    BY <1>5 DEF Insert
  <2>3. NewItem(k) \in Item
    BY <1>5, NewItemType DEF IInv, Insert, Adds
  <2>4. chain' \in Seq(Item)
    <3> DEFINE e == NewItem(k)
               c == InsertAt(chain, p, e)
    <3>1. e \in Item /\ chain' = c
      BY <2>2, <2>3
    <3>2. p \in 1..(Len(chain) + 1)
      BY <2>2
    <3> HIDE DEF e
    <3>3. c \in Seq(Item)
      BY <2>1, <3>1, <3>2, InsertAtProperties
    <3> QED
      BY <3>1, <3>3
  <2>5. Items' = chain'
    BY <2>4, NoEmptyCell
  <2>6. Items' = Service!InsertAt(Items, p, NewItem(k))
    BY <2>1, <2>2, <2>5 DEF InsertAt, Service!InsertAt
  <2>7. /\ \A i \in 1..(p - 1) : Items[i].key < k
        /\ p <= Len(Items) => Items[p].key >= k
        /\ p \in 1..(Len(Items) + 1)
    BY <2>1, <2>2 DEF Spot
  <2>8. Service!Add
    BY <1>5, <2>6, <2>7 DEF Insert, Adds, NewItem, Service!Add
  <2> QED
    BY <2>8 DEF Service!Next
<1>6. CASE Refuse
  BY <1>6 DEF Refuse, Service!Next, Service!Refuse, Items
<1>7. CASE Push
  <2>1. chain \in Seq(Item) /\ Items = chain
    BY <1>7, ChainOfItems DEF Push
  <2>2. PICK k \in Keys : chain' = <<NewItem(k)>> \o chain
    BY <1>7 DEF Push
  <2>3. NewItem(k) \in Item
    BY <1>7, NewItemType DEF IInv, Push, Adds
  <2>4. chain' \in Seq(Item)
    BY <2>1, <2>2, <2>3, PrependProperties
  <2>5. Items' = <<[key |-> k, id |-> added + 1]>> \o Items
    BY <2>1, <2>2, <2>4, NoEmptyCell DEF NewItem
  <2> QED
    BY <1>7, <2>5 DEF Push, Adds, Service!Next, Service!Push
<1>8. CASE Pop
  <2>1. CASE chain = EmptyCell
    <3>1. Items = << >> /\ Items' = << >> /\ result' = NoData /\ added' = added
      BY <1>8, <2>1 DEF Pop, Items, EmptyCell
    <3> QED
      BY <3>1 DEF Service!Next, Service!Pop
  <2>2. CASE chain # EmptyCell
    <3>1. /\ chain \in Seq(Item) /\ Items = chain /\ chain # << >>
          /\ chain' = Tail(chain) /\ result' = Head(chain) /\ added' = added
      BY <1>8, <2>2, ChainOfItems DEF Pop
    <3>2. chain' \in Seq(Item)
      BY <3>1, HeadTailProperties
    <3>3. Items' = chain'
      BY <3>2, NoEmptyCell
    <3> QED
      BY <3>1, <3>3 DEF Service!Next, Service!Pop
  <2> QED
    BY <2>1, <2>2
<1>9. CASE FollowNull \/ OutOfMemory
  BY <1>9 DEF FollowNull, OutOfMemory, Dies, Service!Next, Service!Refuse, Items
<1> QED
  BY <1>1, <1>2, <1>3, <1>4, <1>5, <1>6, <1>7, <1>8, <1>9 DEF Next

(* The list of cells implements the list of link_list.h, for every set of  *)
(* keys and any number of items (link_list.h:12-26).                       *)
THEOREM Refinement == Spec => ImplementsService
<1>1. Service!Spec <=> Service!Init /\ [][Service!Next]_(Service!vars)
  BY DEF Service!Spec
<1> QED
  BY <1>1, InitRefines, StepRefines, Invariance, PTL DEF Spec, ImplementsService
=============================================================================
