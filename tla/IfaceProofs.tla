------------------------------ MODULE IfaceProofs ------------------------------
(***************************************************************************)
(* The interface list for every set of names, texts and lines, and buffers *)
(* of any length, and the program of link_list around it for outputs of    *)
(* any length and any number of runs.                                      *)
(***************************************************************************)
EXTENDS IfaceProgram, SequenceTheorems, TLAPS

-----------------------------------------------------------------------------
(* Taking the element at position i out. *)
LEMMA RemoveAtProperties ==
  ASSUME NEW S, NEW s \in Seq(S), NEW i \in 1..Len(s)
  PROVE  /\ RemoveAt(s, i) \in Seq(S)
         /\ Len(RemoveAt(s, i)) = Len(s) - 1
         /\ \A j \in 1..Len(s) - 1 :
              RemoveAt(s, i)[j] = s[IF j < i THEN j ELSE j + 1]
<1> DEFINE a == SubSeq(s, 1, i - 1)
           b == SubSeq(s, i + 1, Len(s))
<1>1. Len(s) \in Nat /\ i \in Nat /\ \A j \in 1..Len(s) : s[j] \in S
  BY LenProperties, ElementOfSeq
<1>2. /\ a \in Seq(S)
      /\ Len(a) = i - 1
      /\ \A j \in 1..i - 1 : a[j] = s[j]
  BY <1>1, SubSeqProperties
<1>3. /\ b \in Seq(S)
      /\ Len(b) = Len(s) - i
      /\ \A j \in 1..Len(s) - i : b[j] = s[i + j]
  BY <1>1, SubSeqProperties
<1>4. /\ a \o b \in Seq(S)
      /\ Len(a \o b) = Len(a) + Len(b)
      /\ \A j \in 1 .. Len(a) + Len(b) :
           (a \o b)[j] = IF j <= Len(a) THEN a[j] ELSE b[j - Len(a)]
  BY <1>2, <1>3, ConcatProperties
<1> HIDE DEF a, b
<1>5. \A j \in 1..Len(s) - 1 : (a \o b)[j] = s[IF j < i THEN j ELSE j + 1]
  BY <1>1, <1>2, <1>3, <1>4
<1>6. RemoveAt(s, i) = a \o b
  BY DEF RemoveAt, a, b
<1>7. Len(a \o b) = Len(s) - 1
  BY <1>1, <1>2, <1>3, <1>4
<1> QED
  BY <1>4, <1>5, <1>6, <1>7

(* Moving the first element of one list to the end of another. *)
LEMMA MoveElement ==
  ASSUME NEW S, NEW a \in Seq(S), NEW b \in Seq(S), b # << >>
  PROVE  /\ Append(a, Head(b)) \in Seq(S) /\ Tail(b) \in Seq(S)
         /\ Append(a, Head(b)) \o Tail(b) = a \o b
<1> DEFINE x == Head(b)
           c == Append(a, x)
           d == Tail(b)
<1>1. /\ x \in S /\ d \in Seq(S) /\ Len(d) = Len(b) - 1
      /\ \A i \in 1..(Len(b) - 1) : d[i] = b[i + 1]
      /\ Len(b) \in Nat \ {0} /\ x = b[1]
  BY HeadTailProperties, EmptySeq
<1>2. Len(a) \in Nat /\ Len(b) \in Nat
  BY LenProperties
<1> HIDE DEF x, d
<1>3. /\ c \in Seq(S) /\ Len(c) = Len(a) + 1 /\ c[Len(a) + 1] = x
      /\ \A i \in 1..Len(a) : c[i] = a[i]
  BY <1>1, AppendProperties
<1> HIDE DEF c
<1>4. /\ c \o d \in Seq(S) /\ Len(c \o d) = Len(c) + Len(d)
      /\ \A i \in 1..(Len(c) + Len(d)) :
           (c \o d)[i] = IF i <= Len(c) THEN c[i] ELSE d[i - Len(c)]
  BY <1>1, <1>3, ConcatProperties
<1>5. /\ a \o b \in Seq(S) /\ Len(a \o b) = Len(a) + Len(b)
      /\ \A i \in 1..(Len(a) + Len(b)) :
           (a \o b)[i] = IF i <= Len(a) THEN a[i] ELSE b[i - Len(a)]
  BY ConcatProperties
<1>6. \A i \in 1..Len(c \o d) : (c \o d)[i] = (a \o b)[i]
  <2> TAKE i \in 1..Len(c \o d)
  <2>0. i \in 1..(Len(c) + Len(d)) /\ i \in 1..(Len(a) + Len(b))
    BY <1>1, <1>2, <1>3, <1>4
  <2>1. CASE i <= Len(a)
    BY <1>2, <1>3, <1>4, <1>5, <2>0, <2>1
  <2>2. CASE i = Len(a) + 1
    <3>1. (c \o d)[i] = x /\ (a \o b)[i] = b[1]
      <4>1. i - Len(a) = 1 /\ i <= Len(c) /\ ~ (i <= Len(a))
        BY <1>2, <1>3, <2>2
      <4> QED
        BY <1>3, <1>4, <1>5, <2>0, <2>2, <4>1
    <3> QED
      BY <1>1, <3>1
  <2>3. CASE i > Len(a) + 1
    <3>1. /\ i - Len(c) \in 1..(Len(b) - 1) /\ ~ (i <= Len(c)) /\ ~ (i <= Len(a))
          /\ (i - Len(c)) + 1 = i - Len(a)
      BY <1>1, <1>2, <1>3, <2>0, <2>3
    <3>2. (c \o d)[i] = d[i - Len(c)] /\ (a \o b)[i] = b[i - Len(a)]
      BY <1>4, <1>5, <2>0, <3>1
    <3> QED
      BY <1>1, <3>1, <3>2
  <2> QED
    BY <1>2, <2>0, <2>1, <2>2, <2>3
<1>7. c \o d = a \o b
  <2> DEFINE u == c \o d
             v == a \o b
  <2>1. u \in Seq(S) /\ v \in Seq(S) /\ Len(u) = Len(v)
    BY <1>1, <1>2, <1>3, <1>4, <1>5
  <2>2. \A i \in 1..Len(u) : u[i] = v[i]
    BY <1>6
  <2> HIDE DEF u, v
  <2>3. u = v
    BY <2>1, <2>2, SeqEqual
  <2> QED
    BY <2>3 DEF u, v
<1> QED
  BY <1>1, <1>3, <1>7 DEF c, d, x

-----------------------------------------------------------------------------
(***************************************************************************)
(* The list.  What a node says once it is in the list is decided while its *)
(* block is read, so that the inductive invariant states of the block in   *)
(* hand what the properties state of the nodes (BlockInHand), and which    *)
(* headers have been dealt with at each moment of the walk (Handled).      *)
(***************************************************************************)

(* Where the call is, and what that says of its locals. *)
Control ==
  /\ pc = "idle" => line = 0 /\ built = 0
  /\ pc = "scan" => line # 0 /\ built = 0
  /\ pc = "create" =>
       /\ Held
       /\ IF line = 0 THEN header = 0
          ELSE (AtEnd \/ AtHeader) /\ ~ ListContains(buffers.name)

(* The buffers hold the block from its header to the last line read. *)
BlockInHand ==
  line # 0 =>
    IF Held
    THEN /\ header \in 1..(line - 1) /\ data[header].kind = "link"
         /\ Lacks("link", header, line - 1)
         /\ Describes(buffers, header, line - 1)
    ELSE buffers = Empty

(* The headers before this line have been dealt with. *)
Reached == IF Held THEN header ELSE line

Handled ==
  line # 0 =>
    /\ \A i \in DOMAIN list : origin[i] < Reached
    /\ \A h \in 1..(Reached - 1) : data[h].kind = "link" =>
         \/ h \in lost
         \/ \E i \in DOMAIN list : list[i].name = data[h].name /\ origin[i] <= h

(* The inductive invariant. *)
IInv ==
  /\ TypeOK
  /\ Accounted
  /\ Control
  /\ BlockInHand
  /\ Handled
  /\ OwnBlock
  /\ OrderKept
  /\ NoNewDuplicate

-----------------------------------------------------------------------------
(***************************************************************************)
(* Lines and blocks.                                                       *)
(***************************************************************************)
(* What a line carries. *)
LEMMA LineFields ==
  ASSUME NEW l \in Line
  PROVE  /\ l.kind \in {"link", "inet", "inet6", "mtu", "other"}
         /\ l.kind = "link" => l.name \in Names /\ l.mac \in Text
         /\ l.kind = "inet" => l.ipv4 \in IPv4
         /\ l.kind = "inet6" => l.ipv6 \in Text
         /\ l.kind = "mtu" => l.status \in {"UP", "DOWN"}
BY DEF Line

LEMMA EmptyType == Empty \in Node /\ Empty.name = NoText
BY DEF Empty, Node, NoIPv4, IPv4, Text

(* A line inside a block changes its own field only. *)
LEMMA ParsedFields ==
  ASSUME NEW b \in Node, NEW l \in Line, l.kind # "link"
  PROVE  /\ Parsed(b, l) \in Node
         /\ Parsed(b, l).name = b.name /\ Parsed(b, l).mac = b.mac
         /\ Parsed(b, l).ipv4 = IF l.kind = "inet" THEN l.ipv4 ELSE b.ipv4
         /\ Parsed(b, l).ipv6 = IF l.kind = "inet6" THEN l.ipv6 ELSE b.ipv6
         /\ Parsed(b, l).status = IF l.kind = "mtu" THEN l.status ELSE b.status
<1>1. CASE l.kind = "inet"
  BY <1>1, LineFields DEF Parsed, Node
<1>2. CASE l.kind = "inet6"
  BY <1>2, LineFields DEF Parsed, Node
<1>3. CASE l.kind = "mtu"
  BY <1>3, LineFields DEF Parsed, Node
<1>4. CASE l.kind = "other"
  BY <1>4 DEF Parsed
<1> QED
  BY <1>1, <1>2, <1>3, <1>4, LineFields

(* One more line: it is the last of its kind, and the last of another kind *)
(* stays the last.                                                         *)
LEMMA LastGrows ==
  ASSUME NEW k, NEW h \in Nat, NEW e \in Nat, h <= e
  PROVE  /\ data[e + 1].kind = k => IsLast(k, e + 1, h, e + 1)
         /\ data[e + 1].kind # k =>
              /\ Lacks(k, h, e) => Lacks(k, h, e + 1)
              /\ \A l \in (h + 1)..e : IsLast(k, l, h, e) => IsLast(k, l, h, e + 1)
BY DEF IsLast, Lacks

LEMMA DescribesGrows ==
  ASSUME NEW b \in Node, NEW h \in Nat, NEW e \in Nat, h <= e,
         data[e + 1] \in Line, data[e + 1].kind # "link",
         Describes(b, h, e)
  PROVE  Describes(Parsed(b, data[e + 1]), h, e + 1)
<1> DEFINE n == Parsed(b, data[e + 1])
           l == data[e + 1]
<1>1. /\ n.name = b.name /\ n.mac = b.mac
      /\ n.ipv4 = IF l.kind = "inet" THEN l.ipv4 ELSE b.ipv4
      /\ n.ipv6 = IF l.kind = "inet6" THEN l.ipv6 ELSE b.ipv6
      /\ n.status = IF l.kind = "mtu" THEN l.status ELSE b.status
  BY ParsedFields
<1> HIDE DEF n
<1>2. n.name = data[h].name /\ n.mac = data[h].mac
  BY <1>1 DEF Describes
<1>3. \/ Lacks("inet", h, e + 1) /\ n.ipv4 = NoIPv4
      \/ \E m \in (h + 1)..(e + 1) :
           IsLast("inet", m, h, e + 1) /\ n.ipv4 = data[m].ipv4
  <2>1. CASE l.kind = "inet"
    BY <1>1, <2>1, LastGrows
  <2>2. CASE l.kind # "inet"
    BY <1>1, <2>2, LastGrows DEF Describes
  <2> QED
    BY <2>1, <2>2
<1>4. \/ Lacks("inet6", h, e + 1) /\ n.ipv6 = NoText
      \/ \E m \in (h + 1)..(e + 1) :
           IsLast("inet6", m, h, e + 1) /\ n.ipv6 = data[m].ipv6
  <2>1. CASE l.kind = "inet6"
    BY <1>1, <2>1, LastGrows
  <2>2. CASE l.kind # "inet6"
    BY <1>1, <2>2, LastGrows DEF Describes
  <2> QED
    BY <2>1, <2>2
<1>5. \/ Lacks("mtu", h, e + 1) /\ n.status = "DOWN"
      \/ \E m \in (h + 1)..(e + 1) :
           IsLast("mtu", m, h, e + 1) /\ n.status = data[m].status
  <2>1. CASE l.kind = "mtu"
    BY <1>1, <2>1, LastGrows
  <2>2. CASE l.kind # "mtu"
    BY <1>1, <2>2, LastGrows DEF Describes
  <2> QED
    BY <2>1, <2>2
<1> QED
  BY <1>2, <1>3, <1>4, <1>5 DEF Describes, n

-----------------------------------------------------------------------------
(***************************************************************************)
(* One lemma per action, with a step for each conjunct.                    *)
(***************************************************************************)
(* What a node says does not change with what is added behind it. *)
LEMMA NodeUnchanged ==
  ASSUME data' = data, NEW j, list'[j] = list[j], origin'[j] = origin[j],
         NEW e, IsBlock(origin[j], e), Describes(list[j], origin[j], e)
  PROVE  IsBlock(origin[j], e)' /\ Describes(list[j], origin[j], e)'
<1>1. IsBlock(origin[j], e)'
  BY DEF IsBlock, Lacks
<1>2. Describes(list[j], origin[j], e)'
  BY DEF Describes, IsLast, Lacks
<1> QED
  BY <1>1, <1>2

(* The facts about the nodes depend on the list and on the buffer only.    *)
LEMMA NodesUnchanged ==
  ASSUME IInv, UNCHANGED <<list, origin, data>>
  PROVE  OwnBlock' /\ OrderKept' /\ NoNewDuplicate'
<1>1. OwnBlock'
  <2> SUFFICES ASSUME NEW i \in DOMAIN list, origin[i] # 0
               PROVE  \E e \in origin[i]..Len(data) :
                        IsBlock(origin[i], e)' /\ Describes(list[i], origin[i], e)'
    BY DEF OwnBlock
  <2>1. PICK e \in origin[i]..Len(data) :
          IsBlock(origin[i], e) /\ Describes(list[i], origin[i], e)
    BY DEF IInv, OwnBlock
  <2> QED
    BY <2>1, NodeUnchanged
<1>2. OrderKept' /\ NoNewDuplicate'
  BY DEF IInv, OrderKept, NoNewDuplicate
<1> QED
  BY <1>1, <1>2

LEMMA Stutter == ASSUME IInv, UNCHANGED vars PROVE IInv'
<1>1. UNCHANGED <<list, origin, data, allocated, pc, line, buffers, built,
                  header, lost, calls>>
  BY DEF vars
<1>2. TypeOK' /\ Accounted'
  BY <1>1 DEF IInv, TypeOK, Accounted
<1>3. Control'
  BY <1>1 DEF IInv, Control, Held, AtEnd, AtHeader, ListContains
<1>4. BlockInHand' /\ Handled'
  BY <1>1 DEF IInv, BlockInHand, Handled, Held, Reached, Lacks, Describes, IsLast
<1> QED
  BY <1>1, <1>2, <1>3, <1>4, NodesUnchanged DEF IInv

LEMMA ListAddStep == ASSUME IInv, ListAdd PROVE IInv'
<1>1. line = 0 /\ built = 0
  BY DEF IInv, Control, ListAdd, Call
<1>2. PICK name \in Names :
        buffers' = [Empty EXCEPT !.name = name, !.status = "UNKNOWN"]
  BY DEF ListAdd
<1>3. buffers' \in Node /\ buffers'.name # NoText
  BY <1>2, EmptyType, IfaceAssumption DEF Node, Empty
<1>4. TypeOK'
  BY <1>3 DEF IInv, TypeOK, ListAdd, Call
<1>5. Accounted' /\ Control' /\ BlockInHand' /\ Handled'
  BY <1>1, <1>3 DEF IInv, Accounted, Control, BlockInHand, Handled, Held, ListAdd
<1> QED
  BY <1>4, <1>5, NodesUnchanged DEF IInv, ListAdd

LEMMA ListDeleteStep == ASSUME IInv, ListDelete PROVE IInv'
<1>1. line = 0 /\ built = 0 /\ pc = "idle"
  BY DEF IInv, Control, ListDelete, Call
<1>2. PICK i \in DOMAIN list :
        list' = RemoveAt(list, i) /\ origin' = RemoveAt(origin, i)
  BY DEF ListDelete
<1>3. /\ list \in Seq(Node) /\ origin \in Seq(Nat) /\ Len(list) \in Nat
      /\ Len(origin) = Len(list)
      /\ DOMAIN list = 1..Len(list) /\ i \in 1..Len(list)
  BY <1>2, LenProperties DEF IInv, TypeOK
<1> DEFINE old(j) == IF j < i THEN j ELSE j + 1
<1>4. /\ list' \in Seq(Node) /\ origin' \in Seq(Nat)
      /\ Len(list') = Len(list) - 1 /\ Len(origin') = Len(list')
      /\ \A j \in 1..(Len(list) - 1) : /\ list'[j] = list[old(j)]
                                       /\ origin'[j] = origin[old(j)]
  <2>1. /\ list' \in Seq(Node) /\ Len(list') = Len(list) - 1
        /\ \A j \in 1..(Len(list) - 1) : list'[j] = list[old(j)]
    BY <1>2, <1>3, RemoveAtProperties
  <2>2. /\ origin' \in Seq(Nat) /\ Len(origin') = Len(list) - 1
        /\ \A j \in 1..(Len(list) - 1) : origin'[j] = origin[old(j)]
    <3>1. origin \in Seq(Nat) /\ i \in 1..Len(origin) /\ origin' = RemoveAt(origin, i)
      BY <1>2, <1>3
    <3>2. /\ origin' \in Seq(Nat) /\ Len(origin') = Len(origin) - 1
          /\ \A j \in 1..(Len(origin) - 1) : origin'[j] = origin[old(j)]
      BY <3>1, RemoveAtProperties
    <3> QED
      BY <1>3, <3>2
  <2> QED
    BY <2>1, <2>2
<1>5. DOMAIN list' = 1..(Len(list) - 1)
  BY <1>3, <1>4, LenProperties
<1>6. /\ \A j \in DOMAIN list' : /\ old(j) \in DOMAIN list
                                 /\ list'[j] = list[old(j)]
                                 /\ origin'[j] = origin[old(j)]
      /\ \A j, k \in DOMAIN list' : j < k => old(j) < old(k)
  <2>1. \A j \in 1..(Len(list) - 1) : old(j) \in 1..Len(list)
    BY <1>3
  <2>2. \A j, k \in 1..(Len(list) - 1) : j < k => old(j) < old(k)
    BY <1>3
  <2> QED
    BY <1>3, <1>4, <1>5, <2>1, <2>2
<1> HIDE DEF old
<1>7. Accounted'
  BY <1>1, <1>3, <1>4 DEF IInv, TypeOK, Accounted, ListDelete, NodeBlocks
<1>8. TypeOK'
  <2>1. allocated' \in Nat
    BY <1>1, <1>3, <1>7, <1>4 DEF Accounted, NodeBlocks, ListDelete
  <2> QED
    BY <2>1, <1>4 DEF IInv, TypeOK, ListDelete, Call
<1>9. Control' /\ BlockInHand' /\ Handled'
  BY <1>1 DEF ListDelete, Control, BlockInHand, Handled, Held
<1>10. data' = data
  BY DEF ListDelete
<1>11. OwnBlock'
  <2> SUFFICES ASSUME NEW j \in DOMAIN list', origin'[j] # 0
               PROVE  \E e \in origin'[j]..Len(data') :
                        IsBlock(origin[j], e)' /\ Describes(list[j], origin[j], e)'
    BY <1>10 DEF OwnBlock
  <2>1. list'[j] = list[old(j)] /\ origin'[j] = origin[old(j)]
    BY <1>6
  <2>2. PICK e \in origin[old(j)]..Len(data) :
          IsBlock(origin[old(j)], e) /\ Describes(list[old(j)], origin[old(j)], e)
    BY <1>6, <2>1 DEF IInv, OwnBlock
  <2>3. IsBlock(origin[j], e)'
    BY <1>10, <2>1, <2>2 DEF IsBlock, Lacks
  <2>4. Describes(list[j], origin[j], e)'
    BY <1>10, <2>1, <2>2 DEF Describes, IsLast, Lacks
  <2> QED
    BY <1>10, <2>1, <2>2, <2>3, <2>4
<1>12. OrderKept' /\ NoNewDuplicate'
  BY <1>6 DEF IInv, OrderKept, NoNewDuplicate
<1> QED
  BY <1>7, <1>8, <1>9, <1>11, <1>12 DEF IInv

LEMMA ListDestroyStep == ASSUME IInv, ListDestroy PROVE IInv'
<1>1. line = 0 /\ built = 0 /\ pc = "idle" /\ allocated = NodeBlocks * Len(list)
  <2>1. line = 0 /\ built = 0 /\ pc = "idle"
    BY DEF IInv, Control, ListDestroy, Call
  <2> QED
    BY <2>1, LenProperties DEF IInv, TypeOK, Accounted, NodeBlocks
<1>2. /\ list' = << >> /\ origin' = << >> /\ allocated' = 0
      /\ UNCHANGED <<pc, data, line, buffers, built, header, lost>>
  BY <1>1, LenProperties DEF ListDestroy, DestroyList, NodeBlocks, IInv, TypeOK
<1>3. TypeOK' /\ Accounted'
  BY <1>1, <1>2 DEF IInv, TypeOK, Accounted, ListDestroy, Call, NodeBlocks
<1>4. Control' /\ BlockInHand' /\ Handled'
  BY <1>1, <1>2 DEF Control, BlockInHand, Handled, Held
<1>5. OwnBlock' /\ OrderKept' /\ NoNewDuplicate'
  BY <1>2 DEF OwnBlock, OrderKept, NoNewDuplicate
<1> QED
  BY <1>3, <1>4, <1>5 DEF IInv

(* Parsing starts in the program as well, without a call being counted.    *)
LEMMA ParseStartStep ==
  ASSUME IInv, pc = "idle", NEW d \in Seq(Lines), ParseDataBuffer(d),
         calls' \in Nat
  PROVE  IInv'
<1>1. line = 0 /\ built = 0
  BY DEF IInv, Control
<1>2. d \in Seq(Line) /\ Len(d) \in Nat
  BY IfaceAssumption, LenProperties
<1>3. /\ DOMAIN list = 1..Len(list) /\ Len(list) \in Nat
      /\ origin' \in Seq(Nat) /\ Len(origin') = Len(list)
      /\ \A i \in DOMAIN list : origin'[i] = 0
  <2>1. DOMAIN list = 1..Len(list) /\ Len(list) \in Nat
    BY LenProperties DEF IInv, TypeOK
  <2>2. origin' = [i \in 1..Len(list) |-> 0]
    BY <2>1 DEF ParseDataBuffer
  <2> QED
    BY <2>1, <2>2
<1>4. /\ list' = list /\ allocated' = allocated + 1 /\ pc' = "scan"
      /\ line' = 1 /\ buffers' = Empty /\ built' = 0 /\ header' = 0
      /\ lost' = {} /\ data' = d
  BY <1>1 DEF ParseDataBuffer
<1>5. TypeOK'
  BY <1>2, <1>3, <1>4, EmptyType DEF IInv, TypeOK, NodeBlocks
<1>6. Accounted'
  BY <1>1, <1>3, <1>4 DEF IInv, Accounted, NodeBlocks, TypeOK
<1>7. Control' /\ BlockInHand'
  BY <1>4, EmptyType DEF Control, BlockInHand, Held
<1>8. Handled'
  BY <1>3, <1>4, EmptyType DEF Handled, Reached, Held
<1>9. OwnBlock' /\ OrderKept' /\ NoNewDuplicate'
  BY <1>3, <1>4 DEF OwnBlock, OrderKept, NoNewDuplicate
<1> QED
  BY <1>5, <1>6, <1>7, <1>8, <1>9 DEF IInv

LEMMA CallParseStep == ASSUME IInv, CallParse PROVE IInv'
<1>1. PICK d \in BoundedSeq(Lines, MaxLines) : ParseDataBuffer(d)
  BY DEF CallParse
<1>2. d \in Seq(Lines)
  BY <1>1, IfaceAssumption, SeqDef DEF BoundedSeq, SeqOf
<1>3. pc = "idle" /\ calls' \in Nat
  BY DEF CallParse, Call, IInv, TypeOK
<1> QED
  BY <1>1, <1>2, <1>3, ParseStartStep

LEMMA AddBlockStep == ASSUME IInv, AddBlock PROVE IInv'
<1>1. /\ UNCHANGED <<list, origin, data, allocated, line, buffers, built,
                     header, lost, calls>>
      /\ pc = "scan" /\ pc' = "create" /\ line # 0
  BY DEF AddBlock, IInv, Control
<1>2. TypeOK' /\ Accounted'
  BY <1>1 DEF IInv, TypeOK, Accounted
<1>3. Control'
  BY <1>1 DEF AddBlock, Control, Held, AtEnd, AtHeader, ListContains
<1>4. BlockInHand' /\ Handled'
  BY <1>1 DEF IInv, BlockInHand, Handled, Held, Reached, Lacks, Describes, IsLast
<1> QED
  BY <1>1, <1>2, <1>3, <1>4, NodesUnchanged DEF IInv

(* A complete block reaches to the line before the one that is read next.  *)
LEMMA BlockComplete ==
  ASSUME IInv, line # 0, Held, AtEnd \/ AtHeader
  PROVE  /\ header \in 1..(line - 1) /\ line - 1 \in header..Len(data)
         /\ IsBlock(header, line - 1)
         /\ Describes(buffers, header, line - 1)
         /\ buffers.name = data[header].name
         /\ \A h \in 1..(line - 1) : data[h].kind = "link" => h <= header
<1>1. /\ line \in 1..(Len(data) + 1) /\ Len(data) \in Nat
      /\ header \in 1..(line - 1) /\ data[header].kind = "link"
      /\ Lacks("link", header, line - 1)
      /\ Describes(buffers, header, line - 1)
  BY LenProperties DEF IInv, TypeOK, BlockInHand
<1>2. line <= Len(data) => data[line].kind = "link"
  BY <1>1 DEF AtEnd, AtHeader
<1>3. IsBlock(header, line - 1)
  BY <1>1, <1>2 DEF IsBlock
<1>4. \A h \in 1..(line - 1) : data[h].kind = "link" => h <= header
  BY <1>1 DEF Lacks
<1> QED
  BY <1>1, <1>3, <1>4 DEF Describes

(* When a complete block has been dealt with, all headers before the next  *)
(* line have been.                                                         *)
LEMMA HandledAfter ==
  ASSUME IInv, line # 0, Held, AtEnd \/ AtHeader,
         UNCHANGED <<line, data>>, ~ Held', lost \subseteq lost',
         DOMAIN list \subseteq DOMAIN list',
         \A i \in DOMAIN list : list'[i] = list[i] /\ origin'[i] = origin[i],
         \A i \in DOMAIN list' \ DOMAIN list : origin'[i] = header,
         \/ header \in lost'
         \/ \E i \in DOMAIN list' : list'[i].name = buffers.name /\ origin'[i] <= header
  PROVE  Handled'
<1>1. Reached' = line /\ Reached = header
  BY DEF Reached
<1>2. /\ header \in 1..(line - 1) /\ line \in Nat
      /\ buffers.name = data[header].name
      /\ \A h \in 1..(line - 1) : data[h].kind = "link" => h <= header
  BY BlockComplete DEF IInv, TypeOK
<1>3. /\ \A i \in DOMAIN list : origin[i] < header
      /\ \A h \in 1..(header - 1) : data[h].kind = "link" =>
           \/ h \in lost
           \/ \E i \in DOMAIN list : list[i].name = data[h].name /\ origin[i] <= h
  BY <1>1 DEF IInv, Handled
<1>4. \A i \in DOMAIN list : origin[i] \in Nat
  BY LenProperties, ElementOfSeq DEF IInv, TypeOK
<1>5. \A i \in DOMAIN list' : origin'[i] < line
  BY <1>2, <1>3, <1>4
<1>6. ASSUME NEW h \in 1..(line - 1), data[h].kind = "link"
      PROVE  \/ h \in lost'
             \/ \E i \in DOMAIN list' : list'[i].name = data[h].name /\ origin'[i] <= h
  <2>1. CASE h = header
    BY <1>2, <2>1
  <2>2. CASE h # header
    <3>1. h \in 1..(header - 1)
      BY <1>2, <1>6, <2>2
    <3>2. CASE h \in lost
      BY <3>2
    <3>3. CASE \E i \in DOMAIN list : list[i].name = data[h].name /\ origin[i] <= h
      BY <3>3
    <3> QED
      BY <1>3, <1>6, <3>1, <3>2, <3>3
  <2> QED
    BY <2>1, <2>2
<1> QED
  BY <1>1, <1>5, <1>6 DEF Handled

LEMMA SkipBlockStep == ASSUME IInv, SkipBlock PROVE IInv'
<1>1. /\ UNCHANGED <<list, origin, data, allocated, pc, line, built, header,
                     lost, calls>>
      /\ buffers' = Empty /\ pc = "scan" /\ line # 0 /\ Held
      /\ AtEnd \/ AtHeader
  BY DEF SkipBlock, IInv, Control
<1>2. TypeOK' /\ Accounted'
  BY <1>1, EmptyType DEF IInv, TypeOK, Accounted
<1>3. Control' /\ BlockInHand' /\ ~ Held'
  BY <1>1, EmptyType DEF IInv, Control, BlockInHand, Held
<1>4. Handled'
  <2>1. PICK i \in DOMAIN list : list[i].name = buffers.name
    BY DEF SkipBlock, ListContains
  <2>2. origin[i] < header
    BY <1>1 DEF IInv, Handled, Reached
  <2>3. origin[i] \in Nat /\ header \in Nat
    BY LenProperties, ElementOfSeq DEF IInv, TypeOK
  <2> QED
    BY <1>1, <1>3, <2>1, <2>2, <2>3, HandledAfter
<1> QED
  BY <1>1, <1>2, <1>3, <1>4, NodesUnchanged DEF IInv

LEMMA HeaderLineStep == ASSUME IInv, HeaderLine PROVE IInv'
<1>1. /\ UNCHANGED <<list, origin, data, allocated, pc, built, lost, calls>>
      /\ header' = line /\ line' = line + 1 /\ pc = "scan" /\ built = 0
      /\ line \in 1..Len(data) /\ Len(data) \in Nat /\ data[line].kind = "link"
      /\ buffers = Empty
      /\ buffers' = [Empty EXCEPT !.name = data[line].name, !.mac = data[line].mac]
  BY LenProperties
     DEF HeaderLine, IInv, TypeOK, Control, BlockInHand, AtHeader, AtEnd
<1>2. data[line] \in Line
  BY <1>1, ElementOfSeq DEF IInv, TypeOK
<1>3. data[line].name \in Names /\ data[line].mac \in Text
  BY <1>1, <1>2, LineFields
<1>4. /\ buffers' \in Node
      /\ buffers'.name = data[line].name /\ buffers'.mac = data[line].mac
      /\ buffers'.ipv4 = NoIPv4 /\ buffers'.ipv6 = NoText
      /\ buffers'.status = "DOWN"
  BY <1>1, <1>3, EmptyType DEF Node, Empty
<1>5. TypeOK' /\ Accounted'
  BY <1>1, <1>4 DEF IInv, TypeOK, Accounted
<1>6. Held' /\ Control'
  BY <1>1, <1>3, <1>4, IfaceAssumption DEF Control, Held
<1>7. BlockInHand'
  <2>1. line' - 1 = line /\ header' = line
    BY <1>1
  <2>2. /\ Lacks("link", header, line - 1)'
        /\ Describes(buffers, header, line - 1)'
    BY <1>1, <1>4, <2>1 DEF Lacks, Describes
  <2> QED
    BY <1>1, <1>6, <2>2 DEF BlockInHand
<1>8. Handled'
  BY <1>1, <1>6 DEF IInv, Handled, Reached, HeaderLine
<1> QED
  BY <1>1, <1>5, <1>6, <1>7, <1>8, NodesUnchanged DEF IInv

LEMMA DetailLineStep == ASSUME IInv, DetailLine PROVE IInv'
<1>1. /\ UNCHANGED <<list, origin, data, allocated, pc, built, header, lost, calls>>
      /\ line' = line + 1 /\ pc = "scan" /\ built = 0
      /\ line \in 1..Len(data) /\ Len(data) \in Nat /\ data[line].kind # "link"
      /\ buffers' = IF Held THEN Parsed(buffers, data[line]) ELSE buffers
  BY LenProperties DEF DetailLine, IInv, TypeOK, Control, AtHeader, AtEnd
<1>2. data[line] \in Line /\ buffers \in Node
  BY <1>1, ElementOfSeq DEF IInv, TypeOK
<1>3. buffers' \in Node /\ buffers'.name = buffers.name
  BY <1>1, <1>2, ParsedFields
<1>4. Held' = Held
  BY <1>3 DEF Held
<1>5. TypeOK' /\ Accounted' /\ Control'
  BY <1>1, <1>3 DEF IInv, TypeOK, Accounted, Control
<1>6. BlockInHand'
  <2>1. CASE ~ Held
    BY <1>1, <1>4, <2>1 DEF IInv, BlockInHand
  <2>2. CASE Held
    <3>1. /\ header \in 1..(line - 1) /\ data[header].kind = "link"
          /\ Lacks("link", header, line - 1)
          /\ Describes(buffers, header, line - 1)
      BY <1>1, <2>2 DEF IInv, BlockInHand
    <3>2. line - 1 \in Nat /\ header \in Nat /\ header <= line - 1
          /\ (line - 1) + 1 = line /\ line' - 1 = line
      BY <1>1, <3>1
    <3>3. Describes(Parsed(buffers, data[line]), header, line)
      BY <1>1, <1>2, <3>1, <3>2, DescribesGrows
    <3>4. Describes(buffers, header, line - 1)'
      BY <1>1, <2>2, <3>2, <3>3 DEF Describes, IsLast, Lacks
    <3>5. Lacks("link", header, line - 1)'
      <4>1. ASSUME NEW l \in header + 1..line  PROVE data[l].kind # "link"
        <5>1. l \in header + 1..(line - 1) \/ l = line
          BY <3>2, <4>1
        <5>2. \A k \in header + 1..(line - 1) : data[k].kind # "link"
          BY <3>1 DEF Lacks
        <5> QED
          BY <1>1, <5>1, <5>2
      <4>2. line' - 1 = line /\ header' = header /\ data' = data
        BY <1>1, <3>2
      <4> QED
        BY <4>1, <4>2 DEF Lacks
    <3> QED
      BY <1>1, <1>4, <2>2, <3>1, <3>2, <3>4, <3>5 DEF BlockInHand
  <2> QED
    BY <2>1, <2>2
<1>7. Handled'
  <2>1. CASE Held
    BY <1>1, <1>4, <2>1 DEF IInv, Handled, Reached
  <2>2. CASE ~ Held
    <3>1. Reached = line /\ Reached' = line + 1
      BY <1>1, <1>4, <2>2 DEF Reached
    <3>2. /\ \A i \in DOMAIN list : origin[i] < line
          /\ \A h \in 1..(line - 1) : data[h].kind = "link" =>
               \/ h \in lost
               \/ \E i \in DOMAIN list : list[i].name = data[h].name /\ origin[i] <= h
      BY <1>1, <3>1 DEF IInv, Handled
    <3>3. \A i \in DOMAIN list : origin[i] \in Nat
      BY LenProperties, ElementOfSeq DEF IInv, TypeOK
    <3> QED
      BY <1>1, <3>1, <3>2, <3>3 DEF Handled
  <2> QED
    BY <2>1, <2>2
<1> QED
  BY <1>1, <1>5, <1>6, <1>7, NodesUnchanged DEF IInv

LEMMA ParseDoneStep == ASSUME IInv, ParseDone PROVE IInv'
<1>1. /\ UNCHANGED <<list, origin, data, buffers, built, header, lost, calls>>
      /\ line' = 0 /\ pc' = "idle" /\ built = 0 /\ line # 0
      /\ allocated' = allocated - 1
  BY DEF ParseDone, IInv, Control
<1>2. Accounted'
  BY <1>1, LenProperties DEF IInv, TypeOK, Accounted, NodeBlocks
<1>3. TypeOK'
  <2>1. allocated' \in Nat
    BY <1>1, LenProperties DEF IInv, TypeOK, Accounted, NodeBlocks
  <2> QED
    BY <1>1, <2>1, LenProperties DEF IInv, TypeOK
<1>4. Control' /\ BlockInHand' /\ Handled'
  BY <1>1 DEF Control, BlockInHand, Handled
<1> QED
  BY <1>1, <1>2, <1>3, <1>4, NodesUnchanged DEF IInv

LEMMA AllocateStep == ASSUME IInv, Allocate PROVE IInv'
<1>1. /\ UNCHANGED <<list, origin, data, pc, line, buffers, header, lost, calls>>
      /\ pc = "create" /\ built < NodeBlocks /\ built' = built + 1
      /\ allocated' = allocated + 1
  BY DEF Allocate
<1>2. TypeOK' /\ Accounted'
  BY <1>1, LenProperties DEF IInv, TypeOK, Accounted, NodeBlocks
<1>3. Control'
  BY <1>1 DEF IInv, Control, Held, AtEnd, AtHeader, ListContains
<1>4. BlockInHand' /\ Handled'
  BY <1>1 DEF IInv, BlockInHand, Handled, Held, Reached, Lacks, Describes, IsLast
<1> QED
  BY <1>1, <1>2, <1>3, <1>4, NodesUnchanged DEF IInv

LEMMA AllocationFailsStep == ASSUME IInv, AllocationFails PROVE IInv'
<1>1. /\ UNCHANGED <<list, origin, data, line, header, calls>>
      /\ pc = "create" /\ pc' = IF line = 0 THEN "idle" ELSE "scan"
      /\ buffers' = Empty /\ built' = 0 /\ allocated' = allocated - built
      /\ lost' = lost \cup {header}
  BY DEF AllocationFails, ReturnFromAdd
<1>2. Accounted'
  BY <1>1, LenProperties DEF IInv, TypeOK, Accounted, NodeBlocks
<1>3. TypeOK'
  <2>1. allocated' \in Nat
    BY <1>1, LenProperties DEF IInv, TypeOK, Accounted, NodeBlocks
  <2> QED
    BY <1>1, <2>1, EmptyType DEF IInv, TypeOK, NodeBlocks
<1>4. Control' /\ BlockInHand' /\ ~ Held'
  BY <1>1, EmptyType DEF Control, BlockInHand, Held
<1>5. Handled'
  <2>1. CASE line = 0
    BY <1>1, <2>1 DEF Handled
  <2>2. CASE line # 0
    <3>1. Held /\ (AtEnd \/ AtHeader)
      BY <1>1, <2>2 DEF IInv, Control
    <3> QED
      BY <1>1, <1>4, <2>2, <3>1, HandledAfter
  <2> QED
    BY <2>1, <2>2
<1> QED
  BY <1>1, <1>2, <1>3, <1>4, <1>5, NodesUnchanged DEF IInv

LEMMA AppendNodeStep == ASSUME IInv, AppendNode PROVE IInv'
<1> DEFINE n == Len(list)
<1>1. /\ UNCHANGED <<data, line, header, calls, allocated, lost>>
      /\ pc = "create" /\ pc' = IF line = 0 THEN "idle" ELSE "scan"
      /\ buffers' = Empty /\ built' = 0 /\ built = NodeBlocks
      /\ list' = Append(list, buffers) /\ origin' = Append(origin, header)
  BY DEF AppendNode, ReturnFromAdd
<1>2. /\ list \in Seq(Node) /\ origin \in Seq(Nat) /\ n \in Nat
      /\ Len(origin) = n /\ DOMAIN list = 1..n
      /\ buffers \in Node /\ header \in Nat
      /\ \A i \in 1..n : origin[i] \in Nat
  BY LenProperties, ElementOfSeq DEF IInv, TypeOK
<1>3. /\ list' \in Seq(Node) /\ origin' \in Seq(Nat)
      /\ Len(list') = n + 1 /\ Len(origin') = n + 1
      /\ list'[n + 1] = buffers /\ origin'[n + 1] = header
      /\ \A i \in 1..n : list'[i] = list[i] /\ origin'[i] = origin[i]
  <2>1. /\ list' \in Seq(Node) /\ Len(list') = n + 1 /\ list'[n + 1] = buffers
        /\ \A i \in 1..n : list'[i] = list[i]
    BY <1>1, <1>2, AppendProperties
  <2>2. /\ origin' \in Seq(Nat) /\ Len(origin') = n + 1 /\ origin'[n + 1] = header
        /\ \A i \in 1..n : origin'[i] = origin[i]
    BY <1>1, <1>2, AppendProperties
  <2> QED
    BY <2>1, <2>2
<1>4. DOMAIN list' = 1..(n + 1)
  BY <1>2, <1>3, LenProperties
<1> HIDE DEF n
<1>5. Accounted'
  BY <1>1, <1>2, <1>3 DEF IInv, Accounted, NodeBlocks, n
<1>6. TypeOK'
  BY <1>1, <1>3, EmptyType DEF IInv, TypeOK, NodeBlocks
<1>7. Control' /\ BlockInHand' /\ ~ Held'
  BY <1>1, EmptyType DEF Control, BlockInHand, Held
<1>8. CASE line = 0
  <2>1. header = 0
    BY <1>1, <1>8 DEF IInv, Control
  <2>2. Handled'
    BY <1>1, <1>8 DEF Handled
  <2>3. OwnBlock'
    <3> SUFFICES ASSUME NEW j \in DOMAIN list', origin'[j] # 0
                 PROVE  \E e \in origin'[j]..Len(data') :
                          IsBlock(origin[j], e)' /\ Describes(list[j], origin[j], e)'
      BY DEF OwnBlock
    <3>1. j \in 1..n /\ list'[j] = list[j] /\ origin'[j] = origin[j]
      BY <1>2, <1>3, <1>4, <2>1
    <3>2. PICK e \in origin[j]..Len(data) :
            IsBlock(origin[j], e) /\ Describes(list[j], origin[j], e)
      BY <1>2, <3>1 DEF IInv, OwnBlock
    <3> QED
      BY <1>1, <3>1, <3>2, NodeUnchanged
  <2>4. OrderKept' /\ NoNewDuplicate'
    <3> SUFFICES ASSUME NEW i \in 1..(n + 1), NEW j \in 1..(n + 1), i < j,
                        origin'[j] # 0
                 PROVE  origin'[i] < origin'[j] /\ list'[i].name # list'[j].name
      BY <1>4 DEF OrderKept, NoNewDuplicate
    <3>1. i \in 1..n /\ list'[i] = list[i] /\ origin'[i] = origin[i]
      BY <1>2, <1>3
    <3>2. CASE j = n + 1
      BY <1>3, <2>1, <3>1, <3>2
    <3>3. CASE j \in 1..n
      <4>1. list'[j] = list[j] /\ origin'[j] = origin[j] /\ origin[j] # 0
        BY <1>3, <3>3
      <4>2. origin[i] < origin[j] /\ list[i].name # list[j].name
        BY <1>2, <3>1, <3>3, <4>1 DEF IInv, OrderKept, NoNewDuplicate
      <4> QED
        BY <3>1, <4>1, <4>2
    <3> QED
      BY <1>2, <3>2, <3>3
  <2> QED
    BY <1>5, <1>6, <1>7, <2>2, <2>3, <2>4 DEF IInv
<1>9. CASE line # 0
  <2>1. Held /\ (AtEnd \/ AtHeader) /\ ~ ListContains(buffers.name)
    BY <1>1, <1>9 DEF IInv, Control
  <2>2. \A i \in 1..n : origin[i] < header /\ list[i].name # buffers.name
    BY <1>2, <1>9, <2>1 DEF IInv, Handled, Reached, ListContains
  <2>3. Handled'
    <3>1. DOMAIN list \subseteq DOMAIN list' /\ DOMAIN list' \ DOMAIN list = {n + 1}
      BY <1>2, <1>4
    <3> QED
      BY <1>1, <1>2, <1>3, <1>4, <1>7, <1>9, <2>1, <3>1, HandledAfter
  <2>4. /\ IsBlock(header, line - 1) /\ Describes(buffers, header, line - 1)
        /\ line - 1 \in header..Len(data)
    BY <1>9, <2>1, BlockComplete
  <2>5. OwnBlock'
    <3> SUFFICES ASSUME NEW j \in DOMAIN list', origin'[j] # 0
                 PROVE  \E e \in origin'[j]..Len(data') :
                          IsBlock(origin[j], e)' /\ Describes(list[j], origin[j], e)'
      BY DEF OwnBlock
    <3>1. CASE j = n + 1
      <4>1. list'[j] = buffers /\ origin'[j] = header /\ data' = data
        BY <1>1, <1>3, <3>1
      <4>2. IsBlock(origin[j], line - 1)' /\ Describes(list[j], origin[j], line - 1)'
        BY <1>1, <2>4, <4>1 DEF IsBlock, Describes, IsLast, Lacks
      <4> QED
        BY <1>1, <2>4, <4>1, <4>2
    <3>2. CASE j \in 1..n
      <4>1. list'[j] = list[j] /\ origin'[j] = origin[j]
        BY <1>3, <3>2
      <4>2. PICK e \in origin[j]..Len(data) :
              IsBlock(origin[j], e) /\ Describes(list[j], origin[j], e)
        BY <1>2, <3>2, <4>1 DEF IInv, OwnBlock
      <4> QED
        BY <1>1, <4>1, <4>2, NodeUnchanged
    <3> QED
      BY <1>2, <1>4, <3>1, <3>2
  <2>6. OrderKept' /\ NoNewDuplicate'
    <3> SUFFICES ASSUME NEW i \in 1..(n + 1), NEW j \in 1..(n + 1), i < j,
                        origin'[j] # 0
                 PROVE  origin'[i] < origin'[j] /\ list'[i].name # list'[j].name
      BY <1>4 DEF OrderKept, NoNewDuplicate
    <3>1. i \in 1..n /\ list'[i] = list[i] /\ origin'[i] = origin[i]
      BY <1>2, <1>3
    <3>2. CASE j = n + 1
      BY <1>3, <2>2, <3>1, <3>2
    <3>3. CASE j \in 1..n
      <4>1. list'[j] = list[j] /\ origin'[j] = origin[j] /\ origin[j] # 0
        BY <1>3, <3>3
      <4>2. origin[i] < origin[j] /\ list[i].name # list[j].name
        BY <1>2, <3>1, <3>3, <4>1 DEF IInv, OrderKept, NoNewDuplicate
      <4> QED
        BY <3>1, <4>1, <4>2
    <3> QED
      BY <1>2, <3>2, <3>3
  <2> QED
    BY <1>5, <1>6, <1>7, <2>3, <2>5, <2>6 DEF IInv
<1> QED
  BY <1>8, <1>9

-----------------------------------------------------------------------------
LEMMA InitEstablishes == Init => IInv
<1> SUFFICES ASSUME Init PROVE IInv
  OBVIOUS
<1>1. TypeOK /\ Accounted
  BY EmptyType DEF Init, TypeOK, Accounted, NodeBlocks
<1>2. Control /\ BlockInHand /\ Handled
  BY DEF Init, Control, BlockInHand, Handled
<1>3. OwnBlock /\ OrderKept /\ NoNewDuplicate
  BY DEF Init, OwnBlock, OrderKept, NoNewDuplicate
<1> QED
  BY <1>1, <1>2, <1>3 DEF IInv

LEMMA StepPreserves == IInv /\ [Next]_vars => IInv'
BY Stutter, ListAddStep, ListDeleteStep, ListDestroyStep, CallParseStep,
   AddBlockStep, SkipBlockStep, HeaderLineStep, DetailLineStep, ParseDoneStep,
   AllocateStep, AllocationFailsStep, AppendNodeStep
   DEF Next, ParseStep

(* The inductive invariant holds of every behaviour of the interface list. *)
THEOREM Invariance == Spec => []IInv
BY InitEstablishes, StepPreserves, PTL DEF Spec

(* Every variable of the interface list keeps its type, so that the number *)
(* of blocks never drops below zero (iface_list.c:76-98).                  *)
THEOREM TypeCorrect == Spec => []TypeOK
BY Invariance, PTL DEF IInv

(* No block leaks and none is freed twice, whatever allocation fails       *)
(* (iface_list.c:62-99 and 186-250).                                       *)
THEOREM NothingLeaks == Spec => []Accounted
BY Invariance, PTL DEF IInv

(* A node says what its own block says (iface_list.c:393-422).             *)
THEOREM NodesAreTheirBlocks == Spec => []OwnBlock
BY Invariance, PTL DEF IInv

(* A buffer only adds at the end, block by block, and brings no name that  *)
(* the list has already (iface_list.c:106-117, 396 and 426).               *)
THEOREM NewNodesBehind == Spec => []AddedBehind
<1>1. IInv => AddedBehind
  BY DEF IInv, AddedBehind
<1> QED
  BY <1>1, Invariance, PTL

(* No header is passed over without its name being in the list, or its     *)
(* allocation having failed (iface_list.c:394-432).                        *)
THEOREM AllHeadersHandled == Spec => []NothingMissed
<1>1. IInv => NothingMissed
  <2> SUFFICES ASSUME IInv, pc = "scan", AtEnd, ~ Held,
                      NEW h \in 1..Len(data), data[h].kind = "link"
               PROVE  \/ h \in lost
                      \/ \E i \in DOMAIN list : list[i].name = data[h].name /\ origin[i] <= h
    BY DEF NothingMissed
  <2>1. line # 0 /\ Reached = Len(data) + 1
    BY DEF IInv, Control, Reached, AtEnd
  <2>2. h \in 1..(Reached - 1)
    BY <2>1, LenProperties DEF IInv, TypeOK
  <2> QED
    BY <2>1, <2>2 DEF IInv, Handled
<1> QED
  BY <1>1, Invariance, PTL

-----------------------------------------------------------------------------
(***************************************************************************)
(* The program.  The inductive invariant IInv of the list holds of the     *)
(* list inside the program.  On top of it ProgInv follows the text from    *)
(* the pipe to data.txt, into the buffer and into the parser, and the      *)
(* nodes from the list to the file they are saved in.                      *)
(***************************************************************************)

(* The steps before the list is filled. *)
Reading == {"popen", "truncate", "copy", "load", "read", "parse"}

(* The list inside the program. *)
ListInside ==
  /\ step \notin {"parsing", "down"} => pc = "idle"
  /\ step = "parsing" /\ pc # "idle" => line # 0
  /\ step \in Reading \cup {"exited"} => list = << >>
  /\ step \in {"parsing", "open", "save", "saved"} => \A i \in DOMAIN list : origin[i] # 0

(* Where the text of ifconfig is. *)
TextKept ==
  /\ step = "truncate" => output = printed
  /\ step = "copy" => dataFile \o output = printed
  /\ step \in {"load", "read", "parse"} => dataFile = printed
  /\ step = "parse" => loaded = printed
  /\ /\ step \in {"parsing", "open", "save", "saved"} \/ (step = "exited" /\ code = 0)
     /\ ~ fault
     => data = printed /\ dataFile = printed

(* Every header has its node, or one that was there before. *)
AllHandled ==
  \A h \in 1..Len(data) : data[h].kind = "link" =>
    \/ h \in lost
    \/ \E i \in DOMAIN list : list[i].name = data[h].name /\ origin[i] <= h

(* Where the nodes are. *)
NodesKept ==
  /\ step = "parsing" /\ ~ fault => lost = {}
  /\ step = "parsing" /\ pc = "idle" => AllHandled
  /\ step \in {"open", "save", "saved"} /\ ~ fault => OneNodePerName(list)
  /\ step = "save" /\ ~ fault => listFile \o unsaved = list
  /\ step = "saved" /\ ~ fault => listFile = list
  /\ step = "exited" /\ code = 0 /\ ~ fault => OneNodePerName(listFile)

(* Until it is overwritten the old list is there. *)
OldListThere ==
  step \in Reading \cup {"parsing", "open"} \/ (step = "exited" /\ code = 1) =>
    listFile = before

(* file_buffer has its block from the call that fills it to the return of  *)
(* the parser; a process that was killed takes its memory with it.         *)
BufferHeld ==
  step # "down" => fileBuffer = IF step \in {"read", "parse", "parsing"} THEN 1 ELSE 0

(* The inductive invariant, next to BufferHeld. *)
ProgInv ==
  /\ IInv /\ ProgramTypeOK
  /\ ListInside
  /\ TextKept
  /\ NodesKept
  /\ OldListThere

-----------------------------------------------------------------------------
(***************************************************************************)
(* From the invariant of the list to the list that is saved.               *)
(***************************************************************************)
LEMMA ParsedListIsRight ==
  ASSUME IInv, AllHandled, lost = {}, \A i \in DOMAIN list : origin[i] # 0
  PROVE  OneNodePerName(list)
<1>1. /\ DOMAIN list = 1..Len(list) /\ Len(list) \in Nat
      /\ DOMAIN data = 1..Len(data) /\ Len(data) \in Nat
      /\ \A i \in DOMAIN list : origin[i] \in Nat
  BY LenProperties, ElementOfSeq DEF IInv, TypeOK
<1>2. \A i, j \in DOMAIN list : i # j => list[i].name # list[j].name
  <2> SUFFICES ASSUME NEW i \in DOMAIN list, NEW j \in DOMAIN list, i # j
               PROVE  list[i].name # list[j].name
    OBVIOUS
  <2>1. CASE i < j
    BY <2>1 DEF IInv, NoNewDuplicate
  <2>2. CASE j < i
    BY <2>2 DEF IInv, NoNewDuplicate
  <2> QED
    BY <1>1, <2>1, <2>2
<1>3. \A h \in 1..Len(data) : data[h].kind = "link" =>
        \E i \in DOMAIN list : list[i].name = data[h].name /\ origin[i] <= h
  BY DEF AllHandled
<1>4. ASSUME NEW i \in DOMAIN list
      PROVE  \E h \in DOMAIN data : \E e \in h..Len(data) :
               /\ IsBlock(h, e) /\ Describes(list[i], h, e)
               /\ \A g \in 1..(h - 1) :
                    data[g].kind = "link" => data[g].name # data[h].name
  <2> DEFINE h == origin[i]
  <2>1. PICK e \in h..Len(data) : IsBlock(h, e) /\ Describes(list[i], h, e)
    BY DEF IInv, OwnBlock
  <2>2. h \in 1..Len(data) /\ list[i].name = data[h].name
    BY <2>1 DEF IsBlock, Describes
  <2>3. ASSUME NEW g \in 1..(h - 1), data[g].kind = "link", data[g].name = data[h].name
        PROVE  FALSE
    <3>1. g \in 1..Len(data) /\ g < h
      BY <1>1, <2>2
    <3>2. PICK j \in DOMAIN list : list[j].name = data[g].name /\ origin[j] <= g
      BY <1>3, <2>3, <3>1
    <3>3. j # i
      BY <1>1, <3>1, <3>2
    <3> QED
      BY <1>2, <2>2, <2>3, <3>2, <3>3
  <2> HIDE DEF h
  <2> QED
    BY <1>1, <2>1, <2>2, <2>3
<1>5. ASSUME NEW h \in DOMAIN data, data[h].kind = "link"
      PROVE  \E i \in DOMAIN list :
               /\ list[i].name = data[h].name
               /\ \A j \in DOMAIN list \ {i} : list[j].name # data[h].name
  <2>1. PICK i \in DOMAIN list : list[i].name = data[h].name
    BY <1>1, <1>3, <1>5
  <2>2. \A j \in DOMAIN list \ {i} : list[j].name # data[h].name
    BY <1>2, <2>1
  <2> QED
    BY <2>1, <2>2
<1> QED
  BY <1>4, <1>5 DEF OneNodePerName

(* What a list says of the buffer depends on nothing else.                 *)
LEMMA NodesStayRight ==
  ASSUME data' = data
  PROVE  /\ list' = list /\ OneNodePerName(list) => OneNodePerName(list)'
         /\ listFile' = list /\ OneNodePerName(list) => OneNodePerName(listFile)'
         /\ listFile' = listFile /\ OneNodePerName(listFile) => OneNodePerName(listFile)'
<1>1. \A h, e : IsBlock(h, e)' = IsBlock(h, e)
  BY DEF IsBlock, Lacks
<1>2. \A n, h, e : Describes(n, h, e)' = Describes(n, h, e)
  BY DEF Describes, IsLast, Lacks
<1>3. ASSUME list' = list, OneNodePerName(list) PROVE OneNodePerName(list)'
  BY <1>1, <1>2, <1>3 DEF OneNodePerName
<1>4. ASSUME listFile' = list, OneNodePerName(list) PROVE OneNodePerName(listFile)'
  BY <1>1, <1>2, <1>4 DEF OneNodePerName
<1>5. ASSUME listFile' = listFile, OneNodePerName(listFile)
      PROVE  OneNodePerName(listFile)'
  BY <1>1, <1>2, <1>5 DEF OneNodePerName
<1> QED
  BY <1>3, <1>4, <1>5

(* A step of the parser in a call of parse_data_buffer. *)
LEMMA ParserStep ==
  ASSUME IInv, ParseStep, line # 0, \A i \in DOMAIN list : origin[i] # 0
  PROVE  /\ IInv' /\ data' = data
         /\ pc' # "idle" => line' # 0
         /\ pc' = "idle" => AllHandled'
         /\ \A i \in DOMAIN list' : origin'[i] # 0
<1>1. IInv'
  BY StepPreserves DEF Next
<1>2. data' = data
  BY DEF ParseStep, AddBlock, SkipBlock, HeaderLine, DetailLine, ParseDone,
         Allocate, AllocationFails, AppendNode, ReturnFromAdd
<1>3. CASE AppendNode
  <2>1. /\ list' = Append(list, buffers) /\ origin' = Append(origin, header)
        /\ pc' = "scan" /\ line' = line
    BY <1>3 DEF AppendNode, ReturnFromAdd
  <2>2. header # 0
    BY <1>3 DEF AppendNode, IInv, Control, BlockInHand
  <2>3. /\ list \in Seq(Node) /\ buffers \in Node
        /\ origin \in Seq(Nat) /\ header \in Nat /\ Len(origin) = Len(list)
        /\ Len(list) \in Nat /\ DOMAIN list = 1..Len(list)
    BY LenProperties DEF IInv, TypeOK
  <2>4. /\ DOMAIN list' = 1..(Len(list) + 1)
        /\ origin'[Len(list) + 1] = header
        /\ \A i \in 1..Len(list) : origin'[i] = origin[i]
    <3>1. Len(list') = Len(list) + 1 /\ list' \in Seq(Node)
      BY <2>1, <2>3, AppendProperties
    <3>2. /\ origin'[Len(list) + 1] = header
          /\ \A i \in 1..Len(list) : origin'[i] = origin[i]
      BY <2>1, <2>3, AppendProperties
    <3> QED
      BY <3>1, <3>2, LenProperties
  <2> QED
    BY <1>1, <1>2, <2>1, <2>2, <2>3, <2>4
<1>4. CASE ParseDone
  <2>1. UNCHANGED <<list, origin, data, lost>> /\ pc' = "idle"
    BY <1>4 DEF ParseDone
  <2>2. AllHandled
    <3>1. Reached = Len(data) + 1 /\ Len(data) \in Nat
      BY <1>4, LenProperties DEF ParseDone, AtEnd, Reached, IInv, TypeOK
    <3> QED
      BY <3>1 DEF IInv, Handled, AllHandled
  <2> QED
    BY <1>1, <2>1, <2>2 DEF AllHandled
<1>5. CASE ~ AppendNode /\ ~ ParseDone
  <2>1. UNCHANGED <<list, origin>> /\ pc' # "idle" /\ line' # 0
    <3>1. line \in Nat
      BY LenProperties DEF IInv, TypeOK
    <3> QED
      BY <1>5, <3>1
         DEF ParseStep, AddBlock, SkipBlock, HeaderLine, DetailLine, Allocate,
             AllocationFails, ReturnFromAdd
  <2> QED
    BY <1>1, <1>2, <2>1
<1> QED
  BY <1>3, <1>4, <1>5

-----------------------------------------------------------------------------
(***************************************************************************)
(* One lemma per action.                                                   *)
(***************************************************************************)
(* The types of the variables that are not those of the list. *)
Types ==
  /\ step \in {"down", "popen", "truncate", "copy", "load", "read", "parse", "parsing",
               "open", "save", "saved", "exited"}
  /\ code \in {0, 1}
  /\ output \in Seq(Lines) /\ dataFile \in Seq(Lines)
  /\ loaded \in Seq(Lines) /\ printed \in Seq(Lines)
  /\ listFile \in Seq(Node) /\ unsaved \in Seq(Node) /\ before \in Seq(Node)
  /\ fileBuffer \in 0..1
  /\ succeeds \in BOOLEAN /\ fault \in BOOLEAN
  /\ runs \in 0..MaxRuns

LEMMA TypesAre == IInv => (ProgramTypeOK <=> Types)
BY DEF IInv, ProgramTypeOK, Types

LEMMA ListStays ==
  ASSUME IInv, UNCHANGED vars
  PROVE  /\ IInv'
         /\ UNCHANGED <<list, origin, allocated, pc, data, line, lost>>
         /\ AllHandled' = AllHandled
<1>1. UNCHANGED <<list, origin, allocated, pc, data, line, lost>>
  BY DEF vars
<1>2. AllHandled' = AllHandled
  BY <1>1 DEF AllHandled
<1> QED
  BY <1>1, <1>2, Stutter

LEMMA StartStep == ASSUME ProgInv, Start PROVE ProgInv'
<1>1. /\ list' = << >> /\ pc' = "idle" /\ step' = "popen" /\ listFile' = listFile
      /\ before' = listFile
  BY DEF Start, Fresh, files
<1>2. IInv'
  <2>1. Init'
    BY DEF Start, Fresh, Init
  <2>2. TypeOK' /\ Accounted'
    BY <2>1, EmptyType DEF Init, TypeOK, Accounted, NodeBlocks
  <2>3. Control' /\ BlockInHand' /\ Handled'
    BY <2>1 DEF Init, Control, BlockInHand, Handled
  <2>4. OwnBlock' /\ OrderKept' /\ NoNewDuplicate'
    BY <2>1 DEF Init, OwnBlock, OrderKept, NoNewDuplicate
  <2> QED
    BY <2>2, <2>3, <2>4 DEF IInv
<1>3. Types'
  <2>1. runs' \in 0..MaxRuns
    BY ProgramAssumption DEF Start, ProgInv, ProgramTypeOK
  <2>2. fault' \in BOOLEAN /\ succeeds' \in BOOLEAN
    BY Zenon DEF Start
  <2> QED
    BY <2>1, <2>2, TypesAre DEF Start, Types, ProgInv, files
<1>4. ListInside' /\ TextKept' /\ NodesKept' /\ OldListThere'
  BY <1>1 DEF ListInside, TextKept, NodesKept, OldListThere, Reading
<1> QED
  BY <1>2, <1>3, <1>4, TypesAre DEF ProgInv, ProgramTypeOK, IInv, Types

(* main ends with an error before the list is touched. *)
LEMMA ExitStep ==
  ASSUME ProgInv, step \in Reading, Exit(1), UNCHANGED <<vars, listFile, before>>, Types'
  PROVE  ProgInv'
<1>1. /\ step' = "exited" /\ code' = 1 /\ list = << >> /\ pc = "idle"
      /\ listFile = before
  BY DEF Exit, ProgInv, ListInside, OldListThere, Reading
<1>2. IInv' /\ list' = << >> /\ pc' = "idle" /\ listFile' = before'
  BY <1>1, ListStays DEF ProgInv
<1>3. ListInside' /\ TextKept' /\ NodesKept' /\ OldListThere'
  BY <1>1, <1>2 DEF ListInside, TextKept, NodesKept, OldListThere, Reading
<1> QED
  BY <1>2, <1>3, TypesAre DEF ProgInv, ProgramTypeOK, IInv, Types

(* main goes on, and the list is still empty. *)
LEMMA ReadingStep ==
  ASSUME ProgInv, step \in Reading, step' \in Reading,
         UNCHANGED <<vars, listFile, before>>, Types', TextKept'
  PROVE  ProgInv'
<1>1. list = << >> /\ pc = "idle" /\ listFile = before
  BY DEF ProgInv, ListInside, OldListThere, Reading
<1>2. IInv' /\ list' = << >> /\ pc' = "idle" /\ listFile' = before'
  BY <1>1, ListStays DEF ProgInv
<1>3. ListInside' /\ NodesKept' /\ OldListThere'
  BY <1>1, <1>2 DEF ListInside, NodesKept, OldListThere, Reading
<1> QED
  BY <1>2, <1>3, TypesAre DEF ProgInv, ProgramTypeOK, IInv, Types

LEMMA PopenStep == ASSUME ProgInv, Popen PROVE ProgInv'
<1>1. /\ step = "popen" /\ UNCHANGED <<vars, dataFile, listFile, loaded,
                                       fileBuffer, unsaved, before, fault, runs>>
      /\ Types
  BY TypesAre DEF Popen, files, ProgInv
<1>2. CASE Exit(1) /\ UNCHANGED <<output, printed, succeeds>>
  <2>1. Types'
    BY <1>1, <1>2 DEF Types, Exit
  <2> QED
    BY <1>1, <1>2, <2>1, ExitStep DEF Reading
<1>3. ASSUME NEW d \in BoundedSeq(Lines, MaxLines), NEW ok \in BOOLEAN,
             output' = d, printed' = d, succeeds' = ok, Goto("truncate")
      PROVE  ProgInv'
  <2>1. d \in Seq(Lines)
    BY IfaceAssumption, SeqDef DEF BoundedSeq, SeqOf
  <2>2. step' = "truncate" /\ code' = code
    BY <1>3 DEF Goto
  <2>3. Types'
    BY <1>1, <1>3, <2>1, <2>2 DEF Types
  <2>4. TextKept'
    BY <1>3, <2>2 DEF TextKept
  <2> QED
    BY <1>1, <2>2, <2>3, <2>4, ReadingStep DEF Reading
<1> QED
  BY <1>2, <1>3 DEF Popen

LEMMA OpenDataStep == ASSUME ProgInv, OpenData PROVE ProgInv'
<1>1. /\ step = "truncate" /\ Types
      /\ UNCHANGED <<vars, listFile, output, succeeds, loaded, fileBuffer,
                     unsaved, printed, before, fault, runs>>
  BY TypesAre DEF OpenData, locals, ProgInv
<1>2. CASE UNCHANGED dataFile /\ Exit(1)
  <2>1. Types'
    BY <1>1, <1>2 DEF Types, Exit
  <2> QED
    BY <1>1, <1>2, <2>1, ExitStep DEF Reading
<1>3. CASE dataFile' = << >> /\ Goto("copy")
  <2>1. Types'
    BY <1>1, <1>3 DEF Types, Goto
  <2>2. TextKept'
    <3>1. output = printed /\ << >> \o output = output
      BY <1>1, ConcatEmptySeq DEF ProgInv, TextKept, Types
    <3> QED
      BY <1>1, <1>3, <3>1 DEF TextKept, Goto
  <2> QED
    BY <1>1, <1>3, <2>1, <2>2, ReadingStep DEF Reading, Goto
<1> QED
  BY <1>2, <1>3 DEF OpenData

LEMMA CopyLineStep == ASSUME ProgInv, CopyLine PROVE ProgInv'
<1>1. /\ step = "copy" /\ step' = "copy" /\ code' = code /\ Types
      /\ output # << >>
      /\ dataFile' = Append(dataFile, Head(output)) /\ output' = Tail(output)
      /\ UNCHANGED <<vars, listFile, succeeds, loaded, fileBuffer, unsaved,
                     printed, before, fault, runs>>
  BY TypesAre DEF CopyLine, Goto, ProgInv
<1>2. /\ dataFile' \in Seq(Lines) /\ output' \in Seq(Lines)
      /\ dataFile' \o output' = dataFile \o output
  <2>1. dataFile \in Seq(Lines) /\ output \in Seq(Lines) /\ output # << >>
    BY <1>1 DEF Types
  <2>2. dataFile' = Append(dataFile, Head(output)) /\ output' = Tail(output)
    BY <1>1
  <2> QED
    BY <2>1, <2>2, MoveElement
<1>3. Types'
  BY <1>1, <1>2 DEF Types
<1>4. TextKept'
  BY <1>1, <1>2 DEF ProgInv, TextKept
<1> QED
  BY <1>1, <1>3, <1>4, ReadingStep DEF Reading

LEMMA CopyEndsStep == ASSUME ProgInv, CopyFails \/ CopyDone PROVE ProgInv'
<1>1. /\ step = "copy" /\ Types
      /\ UNCHANGED <<vars, dataFile, listFile, output, succeeds, loaded,
                     fileBuffer, unsaved, printed,
                     before, fault, runs>>
  BY TypesAre DEF CopyFails, CopyDone, files, locals, ProgInv
<1>2. CASE CopyFails
  <2>1. Exit(1) /\ Types'
    BY <1>1, <1>2 DEF CopyFails, Types, Exit
  <2> QED
    BY <1>1, <2>1, ExitStep DEF Reading
<1>3. CASE CopyDone
  <2>1. output = << >> /\ step' = "load" /\ code' = code
    BY <1>3 DEF CopyDone, Goto
  <2>2. dataFile = printed
    BY <1>1, <2>1, ConcatEmptySeq DEF ProgInv, TextKept, Types
  <2>3. Types' /\ TextKept'
    BY <1>1, <2>1, <2>2 DEF Types, TextKept
  <2> QED
    BY <1>1, <2>1, <2>3, ReadingStep DEF Reading
<1> QED
  BY <1>2, <1>3

LEMMA LoadStep == ASSUME ProgInv, Load PROVE ProgInv'
<1>1. /\ step = "load" /\ Types /\ dataFile = printed
      /\ UNCHANGED <<vars, dataFile, listFile, output, succeeds, loaded, unsaved, printed,
                     before, fault, runs>>
  BY TypesAre DEF Load, files, ProgInv, TextKept
<1>2. CASE UNCHANGED fileBuffer /\ Exit(1)
  <2>1. Types'
    BY <1>1, <1>2 DEF Types, Exit
  <2> QED
    BY <1>1, <1>2, <2>1, ExitStep DEF Reading
<1>3. CASE fileBuffer' = 1 /\ Goto("read")
  <2>1. Types' /\ TextKept' /\ step' = "read"
    BY <1>1, <1>3 DEF Types, TextKept, Goto
  <2> QED
    BY <1>1, <2>1, ReadingStep DEF Reading
<1> QED
  BY <1>2, <1>3 DEF Load

LEMMA ReadDataStep == ASSUME ProgInv, BufferHeld, ReadData PROVE ProgInv'
<1>1. /\ step = "read" /\ Types /\ dataFile = printed /\ fileBuffer = 1
      /\ UNCHANGED <<vars, dataFile, listFile, output, succeeds, unsaved, printed,
                     before, fault, runs>>
  BY TypesAre DEF ReadData, files, ProgInv, TextKept, BufferHeld
<1>2. CASE UNCHANGED loaded /\ Exit(1) /\ FreeBuffer
  <2>1. Types'
    BY <1>1, <1>2 DEF Types, Exit, FreeBuffer
  <2> QED
    BY <1>1, <1>2, <2>1, ExitStep DEF Reading
<1>3. CASE loaded' = dataFile /\ Goto("parse") /\ UNCHANGED fileBuffer
  <2>1. Types' /\ TextKept' /\ step' = "parse"
    BY <1>1, <1>3 DEF Types, TextKept, Goto
  <2> QED
    BY <1>1, <2>1, ReadingStep DEF Reading
<1> QED
  BY <1>2, <1>3 DEF ReadData

LEMMA ParseStepStep == ASSUME ProgInv, BufferHeld, Parse PROVE ProgInv'
<1>1. /\ step = "parse" /\ Types /\ fileBuffer = 1 /\ loaded = printed /\ dataFile = printed
      /\ pc = "idle" /\ list = << >> /\ listFile = before
      /\ UNCHANGED <<dataFile, listFile, output, succeeds, loaded, unsaved, printed,
                     before, runs>>
  BY TypesAre
     DEF Parse, files, BufferHeld, ProgInv, TextKept, ListInside, OldListThere, Reading
<1>2. CASE ParseDataBuffer(loaded) /\ Goto("parsing") /\ UNCHANGED <<calls,
                                                                     fault, fileBuffer>>
  <2>1. IInv'
    BY <1>1, <1>2, ParseStartStep DEF ProgInv, IInv, TypeOK, Types
  <2>2. /\ step' = "parsing" /\ code' = code /\ pc' = "scan" /\ line' = 1
        /\ list' = << >> /\ lost' = {} /\ data' = loaded /\ fault' = fault
    BY <1>1, <1>2 DEF ParseDataBuffer, Goto
  <2>3. Types'
    BY <1>1, <1>2, <2>2 DEF Types
  <2>4. ListInside' /\ TextKept' /\ NodesKept' /\ OldListThere'
    BY <1>1, <2>2 DEF ListInside, TextKept, NodesKept, OldListThere, Reading
  <2> QED
    BY <2>1, <2>3, <2>4, TypesAre DEF ProgInv, ProgramTypeOK, IInv, Types
<1>3. CASE UNCHANGED vars /\ FreeBuffer /\ Goto("open") /\ fault' = TRUE
  <2>1. IInv' /\ list' = << >> /\ pc' = "idle" /\ step' = "open" /\ code' = code
    BY <1>1, <1>3, ListStays DEF ProgInv, Goto
  <2>2. Types'
    BY <1>1, <1>3, <2>1 DEF Types, FreeBuffer
  <2>3. ListInside' /\ TextKept' /\ NodesKept' /\ OldListThere'
    BY <1>1, <1>3, <2>1 DEF ListInside, TextKept, NodesKept, OldListThere, Reading
  <2> QED
    BY <2>1, <2>2, <2>3, TypesAre DEF ProgInv, ProgramTypeOK, IInv, Types
<1> QED
  BY <1>2, <1>3 DEF Parse

LEMMA ParsingStep == ASSUME ProgInv, Parsing PROVE ProgInv'
<1>1. /\ step = "parsing" /\ step' = "parsing" /\ code' = code /\ Types
      /\ UNCHANGED <<dataFile, listFile, output, succeeds, loaded, fileBuffer,
                     unsaved, printed,
                     before, runs>>
      /\ ParseStep /\ fault' = (fault \/ lost' # {})
      /\ listFile = before /\ IInv
      /\ \A i \in DOMAIN list : origin[i] # 0
      /\ ~ fault => data = printed /\ dataFile = printed
  BY TypesAre
     DEF Parsing, files, locals, ProgInv, ListInside, TextKept, OldListThere, Reading
<1>2. line # 0
  <2>1. pc # "idle"
    BY <1>1 DEF ParseStep, AddBlock, SkipBlock, HeaderLine, DetailLine, ParseDone,
                Allocate, AllocationFails, AppendNode
  <2> QED
    BY <1>1, <2>1 DEF ProgInv, ListInside
<1>3. /\ IInv' /\ data' = data
      /\ pc' # "idle" => line' # 0
      /\ pc' = "idle" => AllHandled'
      /\ \A i \in DOMAIN list' : origin'[i] # 0
  BY <1>1, <1>2, ParserStep
<1>4. Types'
  <2>1. fault' \in BOOLEAN
    BY <1>1, Zenon
  <2> QED
    BY <1>1, <2>1 DEF Types
<1>5. ListInside' /\ OldListThere'
  BY <1>1, <1>3 DEF ListInside, OldListThere, Reading
<1>6. TextKept' /\ NodesKept'
  BY <1>1, <1>3 DEF TextKept, NodesKept, Reading
<1> QED
  BY <1>3, <1>4, <1>5, <1>6, TypesAre DEF ProgInv, ProgramTypeOK, IInv, Types

LEMMA ParseReturnsStep == ASSUME ProgInv, BufferHeld, ParseReturns PROVE ProgInv'
<1>1. /\ step = "parsing" /\ step' = "open" /\ code' = code /\ Types /\ pc = "idle"
      /\ UNCHANGED <<vars, dataFile, listFile, output, succeeds, loaded, unsaved, printed,
                     before, fault, runs>>
      /\ listFile = before /\ fileBuffer = 1 /\ FreeBuffer
  BY TypesAre DEF ParseReturns, Goto, files, BufferHeld, ProgInv, OldListThere, Reading
<1>2. IInv' /\ UNCHANGED <<list, origin, pc, data, lost>>
  BY <1>1, ListStays DEF ProgInv
<1>3. ~ fault => OneNodePerName(list)
  BY <1>1, ParsedListIsRight DEF ProgInv, ListInside, NodesKept
<1>4. Types'
  BY <1>1 DEF Types, FreeBuffer
<1>5. NodesKept'
  <2>1. ~ fault' => OneNodePerName(list)'
    BY <1>1, <1>2, <1>3, NodesStayRight
  <2> QED
    BY <1>1, <2>1 DEF NodesKept
<1>6. ListInside' /\ TextKept' /\ OldListThere'
  BY <1>1, <1>2 DEF ProgInv, ListInside, TextKept, OldListThere, Reading
<1> QED
  BY <1>2, <1>4, <1>5, <1>6, TypesAre DEF ProgInv, ProgramTypeOK, IInv, Types

(* What the last steps, which do not touch the list, have in common.       *)
LEMMA SavingStep ==
  ASSUME ProgInv, step \in {"open", "save", "saved"},
         step' \in {"open", "save", "saved"}, code' = code, UNCHANGED vars,
         UNCHANGED <<dataFile, output, succeeds, loaded, fileBuffer, printed,
                     before, runs>>,
         Types', fault => fault', step' = "open" => listFile' = listFile /\ step = "open",
         step' = "save" /\ ~ fault' => listFile' \o unsaved' = list,
         step' = "saved" /\ ~ fault' => listFile' = list
  PROVE  ProgInv'
<1>1. IInv' /\ UNCHANGED <<list, origin, pc, data, lost>>
  BY ListStays DEF ProgInv
<1>2. pc = "idle" /\ \A i \in DOMAIN list : origin[i] # 0
  BY DEF ProgInv, ListInside
<1>3. ListInside' /\ TextKept'
  BY <1>1, <1>2 DEF ProgInv, ListInside, TextKept, Reading
<1>4. OldListThere'
  BY DEF ProgInv, OldListThere, Reading
<1>5. NodesKept'
  <2>1. ~ fault' => OneNodePerName(list)'
    BY <1>1, NodesStayRight DEF ProgInv, NodesKept
  <2> QED
    BY <1>1, <2>1 DEF NodesKept
<1> QED
  BY <1>1, <1>3, <1>4, <1>5, TypesAre DEF ProgInv, ProgramTypeOK, IInv, Types

LEMMA OpenListStep == ASSUME ProgInv, OpenList PROVE ProgInv'
<1>1. /\ step = "open" /\ Types /\ list \in Seq(Node)
      /\ UNCHANGED <<vars, dataFile, output, succeeds, loaded, fileBuffer,
                     printed, before, runs>>
  BY TypesAre DEF OpenList, ProgInv, IInv, TypeOK
<1>2. CASE listFile' = << >> /\ unsaved' = list /\ Goto("save") /\ UNCHANGED fault
  <2>1. step' = "save" /\ code' = code
    BY <1>2 DEF Goto
  <2>2. Types'
    BY <1>1, <1>2, <2>1 DEF Types
  <2>3. listFile' \o unsaved' = list
    BY <1>1, <1>2, ConcatEmptySeq
  <2> QED
    BY <1>1, <1>2, <2>1, <2>2, <2>3, SavingStep
<1>3. CASE Goto("saved") /\ fault' = TRUE /\ UNCHANGED <<listFile, unsaved>>
  <2>1. step' = "saved" /\ code' = code
    BY <1>3 DEF Goto
  <2>2. Types'
    BY <1>1, <1>3, <2>1 DEF Types
  <2> QED
    BY <1>1, <1>3, <2>1, <2>2, SavingStep
<1> QED
  BY <1>2, <1>3 DEF OpenList

LEMMA SaveNodeStep == ASSUME ProgInv, SaveNode PROVE ProgInv'
<1>1. /\ step = "save" /\ step' = "save" /\ code' = code /\ Types
      /\ unsaved # << >> /\ unsaved' = Tail(unsaved)
      /\ UNCHANGED <<vars, dataFile, output, succeeds, loaded, fileBuffer,
                     printed, before, runs>>
  BY TypesAre DEF SaveNode, ProgInv
<1>2. /\ Append(listFile, Head(unsaved)) \in Seq(Node) /\ Tail(unsaved) \in Seq(Node)
      /\ Append(listFile, Head(unsaved)) \o Tail(unsaved) = listFile \o unsaved
  BY <1>1, MoveElement DEF Types
<1>3. CASE listFile' = Append(listFile, Head(unsaved)) /\ UNCHANGED fault
  <2>1. Types'
    BY <1>1, <1>2, <1>3 DEF Types
  <2>2. ~ fault' => listFile' \o unsaved' = list
    BY <1>1, <1>2, <1>3 DEF ProgInv, NodesKept
  <2> QED
    BY <1>1, <1>3, <2>1, <2>2, SavingStep
<1>4. CASE UNCHANGED listFile /\ fault' = TRUE
  <2>1. Types'
    BY <1>1, <1>2, <1>4 DEF Types
  <2> QED
    BY <1>1, <1>4, <2>1, SavingStep
<1> QED
  BY <1>3, <1>4 DEF SaveNode

LEMMA SaveDoneStep == ASSUME ProgInv, SaveDone PROVE ProgInv'
<1>1. /\ step = "save" /\ step' = "saved" /\ code' = code /\ Types /\ unsaved = << >>
      /\ UNCHANGED <<vars, dataFile, listFile, output, succeeds, loaded,
                     fileBuffer, unsaved, printed,
                     before, fault, runs>>
  BY TypesAre DEF SaveDone, Goto, files, locals, ProgInv
<1>2. Types'
  BY <1>1 DEF Types
<1>3. ~ fault' => listFile' = list
  BY <1>1, ConcatEmptySeq DEF ProgInv, NodesKept, Types
<1> QED
  BY <1>1, <1>2, <1>3, SavingStep

LEMMA FinishStep == ASSUME ProgInv, Finish PROVE ProgInv'
<1>1. /\ step = "saved" /\ step' = "exited" /\ code' = 0 /\ DestroyList /\ pc = "idle"
      /\ Types
      /\ UNCHANGED <<calls, dataFile, listFile, output, succeeds, loaded,
                     fileBuffer, unsaved, printed,
                     before, fault, runs>>
  BY TypesAre DEF Finish, Exit, files, locals, ProgInv, ListInside
<1>2. /\ list' = << >> /\ origin' = << >> /\ pc' = "idle"
      /\ UNCHANGED <<data, line, buffers, built, header, lost>>
  BY <1>1 DEF DestroyList
<1>3. IInv'
  <2>1. line = 0 /\ built = 0
    BY <1>1 DEF ProgInv, IInv, Control
  <2>2. allocated' = 0
    BY <1>1, <2>1, LenProperties
       DEF DestroyList, NodeBlocks, ProgInv, IInv, TypeOK, Accounted
  <2>3. TypeOK' /\ Accounted'
    BY <1>1, <1>2, <2>1, <2>2 DEF ProgInv, IInv, TypeOK, Accounted, NodeBlocks
  <2>4. Control' /\ BlockInHand' /\ Handled'
    BY <1>2, <2>1 DEF Control, BlockInHand, Handled
  <2>5. OwnBlock' /\ OrderKept' /\ NoNewDuplicate'
    BY <1>2 DEF OwnBlock, OrderKept, NoNewDuplicate
  <2> QED
    BY <2>3, <2>4, <2>5 DEF IInv
<1>4. Types'
  BY <1>1 DEF Types
<1>5. ~ fault => OneNodePerName(listFile)'
  <2>1. ~ fault => listFile' = list /\ OneNodePerName(list)
    BY <1>1 DEF ProgInv, NodesKept
  <2> QED
    BY <1>2, <2>1, NodesStayRight
<1>6. ListInside' /\ TextKept' /\ NodesKept' /\ OldListThere'
  BY <1>1, <1>2, <1>5
     DEF ProgInv, ListInside, TextKept, NodesKept, OldListThere, Reading
<1> QED
  BY <1>3, <1>4, <1>6, TypesAre DEF ProgInv, ProgramTypeOK, IInv, Types

LEMMA KillStep == ASSUME ProgInv, Kill PROVE ProgInv'
<1>1. /\ step' = "down" /\ code' = code /\ Types
      /\ UNCHANGED <<vars, dataFile, listFile, output, succeeds, loaded,
                     fileBuffer, unsaved, printed,
                     before, fault, runs>>
  BY TypesAre DEF Kill, Goto, files, locals, ProgInv
<1>2. IInv' /\ Types'
  BY <1>1, ListStays DEF ProgInv, Types
<1>3. ListInside' /\ TextKept' /\ NodesKept' /\ OldListThere'
  BY <1>1 DEF ListInside, TextKept, NodesKept, OldListThere, Reading
<1> QED
  BY <1>2, <1>3, TypesAre DEF ProgInv, ProgramTypeOK, IInv, Types

LEMMA IdleStep == ASSUME ProgInv, UNCHANGED programVars PROVE ProgInv'
<1>1. /\ UNCHANGED <<vars, step, code, dataFile, listFile, output, succeeds,
                     loaded, fileBuffer,
                     unsaved, printed, before, fault, runs>>
      /\ Types
  BY TypesAre DEF programVars, files, locals, ProgInv
<1>2. IInv' /\ Types' /\ UNCHANGED <<list, origin, pc, line, data, lost>>
      /\ AllHandled' = AllHandled
  BY <1>1, ListStays DEF ProgInv, Types
<1>3. ListInside' /\ TextKept' /\ OldListThere'
  BY <1>1, <1>2 DEF ProgInv, ListInside, TextKept, OldListThere, Reading
<1>4. NodesKept'
  <2>1. /\ OneNodePerName(list) => OneNodePerName(list)'
        /\ OneNodePerName(listFile) => OneNodePerName(listFile)'
    BY <1>1, <1>2, NodesStayRight
  <2> QED
    BY <1>1, <1>2, <2>1 DEF ProgInv, NodesKept
<1> QED
  BY <1>2, <1>3, <1>4, TypesAre DEF ProgInv, ProgramTypeOK, IInv, Types

-----------------------------------------------------------------------------
LEMMA BufferStep == BufferHeld /\ [ProgramNext]_programVars => BufferHeld'
<1> SUFFICES ASSUME BufferHeld, [ProgramNext]_programVars PROVE BufferHeld'
  OBVIOUS
<1> USE DEF BufferHeld, Goto, Exit, locals
<1>1. CASE Start \/ Kill
  BY <1>1 DEF Start, Kill
<1>2. CASE Popen \/ OpenData \/ CopyLine \/ CopyFails \/ CopyDone
  BY <1>2 DEF Popen, OpenData, CopyLine, CopyFails, CopyDone
<1>3. CASE Load \/ ReadData \/ Parse
  BY <1>3 DEF Load, ReadData, Parse, FreeBuffer
<1>4. CASE Parsing \/ ParseReturns
  BY <1>4 DEF Parsing, ParseReturns, FreeBuffer
<1>5. CASE OpenList \/ SaveNode \/ SaveDone \/ Finish
  BY <1>5 DEF OpenList, SaveNode, SaveDone, Finish
<1>6. CASE UNCHANGED programVars
  BY <1>6 DEF programVars
<1> QED
  BY <1>1, <1>2, <1>3, <1>4, <1>5, <1>6 DEF ProgramNext, Work

LEMMA ProgramInitEstablishes == ProgramInit => ProgInv /\ BufferHeld
<1> SUFFICES ASSUME ProgramInit PROVE ProgInv /\ BufferHeld
  OBVIOUS
<1>1. IInv /\ list = << >>
  BY InitEstablishes DEF ProgramInit, Init
<1>2. Types
  <2>1. succeeds \in BOOLEAN /\ fault \in BOOLEAN
    BY Zenon DEF ProgramInit
  <2>2. runs \in 0..MaxRuns
    BY ProgramAssumption DEF ProgramInit
  <2> QED
    BY <2>1, <2>2 DEF ProgramInit, Types
<1>3. ListInside /\ TextKept /\ NodesKept /\ OldListThere
  BY <1>1 DEF ProgramInit, ListInside, TextKept, NodesKept, OldListThere, Reading
<1>4. BufferHeld
  BY DEF ProgramInit, BufferHeld
<1> QED
  BY <1>1, <1>2, <1>3, <1>4, TypesAre DEF ProgInv

LEMMA ProgramStepPreserves ==
  ProgInv /\ BufferHeld /\ [ProgramNext]_programVars => (ProgInv /\ BufferHeld)'
BY BufferStep, ReadDataStep, StartStep, PopenStep, OpenDataStep, CopyLineStep, CopyEndsStep, LoadStep,
   ParseStepStep, ParsingStep, ParseReturnsStep, OpenListStep, SaveNodeStep,
   SaveDoneStep, FinishStep, KillStep, IdleStep DEF ProgramNext, Work

(* The inductive invariant holds of every behaviour of the program.        *)
THEOREM ProgramInvariance == ProgramSpec => [](ProgInv /\ BufferHeld)
BY ProgramInitEstablishes, ProgramStepPreserves, PTL DEF ProgramSpec

(* Every variable of the program keeps its type, the list's among them     *)
(* (main.c:20-67).                                                         *)
THEOREM ProgramTypeCorrect == ProgramSpec => []ProgramTypeOK
<1>1. ProgInv => ProgramTypeOK
  BY DEF ProgInv
<1> QED
  BY <1>1, ProgramInvariance, PTL

(* A run that ends well leaves two files that agree, each name once, for   *)
(* outputs of any length and after any number of runs (main.c:28-55).      *)
THEOREM FilesAlwaysAgree == ProgramSpec => []FilesAgree
<1>1. ProgInv => FilesAgree
  BY DEF ProgInv, TextKept, NodesKept, FilesAgree
<1> QED
  BY <1>1, ProgramInvariance, PTL

(* A run that reports an error leaves the list of the run before alone     *)
(* (main.c:32-36 and 67-71).                                               *)
THEOREM ErrorsKeepTheList == ProgramSpec => []OldListKept
<1>1. ProgInv => OldListKept
  BY DEF ProgInv, OldListThere, OldListKept
<1> QED
  BY <1>1, ProgramInvariance, PTL

(* main returns with everything freed, file_buffer among it, whatever      *)
(* failed before (iface_list.c:293 and 434, main.c:49 and 64).             *)
THEOREM EverythingIsFreed == ProgramSpec => []NothingLeft
<1>1. ProgInv /\ BufferHeld => NothingLeft
  <2> SUFFICES ASSUME ProgInv, BufferHeld, step = "exited"
               PROVE  allocated + fileBuffer = 0 /\ list = << >>
    BY DEF NothingLeft
  <2>1. list = << >> /\ Len(list) = 0 /\ line = 0 /\ built = 0
    BY DEF ProgInv, ListInside, IInv, Control, Reading
  <2>2. allocated = 0
    BY <2>1 DEF ProgInv, IInv, Accounted, NodeBlocks
  <2>3. fileBuffer = 0
    BY DEF BufferHeld
  <2> QED
    BY <2>1, <2>2, <2>3
<1> QED
  BY <1>1, ProgramInvariance, PTL

-----------------------------------------------------------------------------
(***************************************************************************)
(* The parser and the program come to their end.                           *)
(***************************************************************************)
(* What parse_data_buffer has before it: the lines from this one on, and   *)
(* at this one the node to be built and the blocks it still lacks.         *)
LinesLeft == Len(data) + 1 - line

Stage ==
  IF pc = "create" THEN NodeBlocks + 1 - built
  ELSE IF Held THEN NodeBlocks + 2
  ELSE 0

ParserLeft == IF line = 0 THEN 0 ELSE (NodeBlocks + 3) * LinesLeft + Stage + 1

(* Every step of the parser leaves it less to do, whatever the lines are   *)
(* and whatever allocation fails (iface_list.c:393-436).                   *)
ParserShortens == line # 0 => ParserLeft' < ParserLeft

LEMMA ParserMeasure ==
  ASSUME IInv
  PROVE  ParserLeft \in Nat /\ LinesLeft \in Nat /\ Stage \in 0..(NodeBlocks + 2)
<1>1. Len(data) \in Nat /\ line \in 0..(Len(data) + 1) /\ built \in 0..NodeBlocks
  BY LenProperties DEF IInv, TypeOK
<1>2. LinesLeft \in Nat /\ Stage \in 0..(NodeBlocks + 2)
  BY <1>1 DEF LinesLeft, Stage, NodeBlocks
<1> HIDE DEF LinesLeft, Stage
<1>3. ParserLeft \in Nat
  BY <1>2 DEF ParserLeft, NodeBlocks
<1> QED
  BY <1>2, <1>3

(* While it stays at a line, the node is what counts. *)
LEMMA SameLine ==
  ASSUME IInv, line # 0, UNCHANGED <<data, line>>, Stage' \in Nat, Stage' < Stage
  PROVE  ParserLeft' < ParserLeft
<1>1. LinesLeft \in Nat /\ Stage \in Nat
  BY ParserMeasure
<1>2. LinesLeft' = LinesLeft /\ line' # 0
  BY DEF LinesLeft
<1>3. /\ ParserLeft = 11 * LinesLeft + Stage + 1
      /\ ParserLeft' = 11 * LinesLeft' + Stage' + 1
  <2>1. NodeBlocks + 3 = 11
    BY DEF NodeBlocks
  <2> QED
    BY <1>2, <2>1 DEF ParserLeft
<1>4. \A a, s, t \in Nat : t < s => 11 * a + t + 1 < 11 * a + s + 1
  OBVIOUS
<1>5. Stage' \in Nat /\ Stage' < Stage
  OBVIOUS
<1>6. 11 * LinesLeft + Stage' + 1 < 11 * LinesLeft + Stage + 1
  BY <1>1, <1>4, <1>5
<1>7. ParserLeft' = 11 * LinesLeft + Stage' + 1
  BY <1>2, <1>3
<1> QED
  BY <1>3, <1>6, <1>7

(* And a new line is worth more than anything about a node. *)
LEMMA NextLine ==
  ASSUME IInv, line # 0, UNCHANGED data, line' = line + 1, Stage' \in 0..(NodeBlocks + 2)
  PROVE  ParserLeft' < ParserLeft
<1>1. LinesLeft \in Nat /\ Stage \in Nat
  BY ParserMeasure
<1>2. line \in Nat /\ Len(data) \in Nat
  BY LenProperties DEF IInv, TypeOK
<1>3. LinesLeft' = LinesLeft - 1 /\ line' # 0
  BY <1>2 DEF LinesLeft
<1>4. /\ ParserLeft = 11 * LinesLeft + Stage + 1
      /\ ParserLeft' = 11 * LinesLeft' + Stage' + 1
  <2>1. NodeBlocks + 3 = 11
    BY DEF NodeBlocks
  <2> QED
    BY <1>3, <2>1 DEF ParserLeft
<1>5. Stage' \in 0..10
  BY DEF NodeBlocks
<1>6. \A a, s \in Nat : \A t \in 0..10 : 11 * (a - 1) + t + 1 < 11 * a + s + 1
  OBVIOUS
<1>7. 11 * (LinesLeft - 1) + Stage' + 1 < 11 * LinesLeft + Stage + 1
  BY <1>1, <1>5, <1>6
<1>8. ParserLeft' = 11 * (LinesLeft - 1) + Stage' + 1
  BY <1>3, <1>4
<1> QED
  BY <1>4, <1>7, <1>8

LEMMA ParserGetsOn ==
  ASSUME IInv, ParseStep, line # 0
  PROVE  ParserLeft' < ParserLeft
<1>1. built \in 0..NodeBlocks
  BY DEF IInv, TypeOK
<1>2. CASE AddBlock
  <2>1. /\ UNCHANGED <<data, line, built>> /\ pc = "scan" /\ pc' = "create" /\ Held /\ built = 0
    BY <1>2 DEF AddBlock, IInv, Control
  <2>2. Stage = NodeBlocks + 2 /\ Stage' = NodeBlocks + 1
    BY <2>1 DEF Stage, NodeBlocks
  <2> QED
    BY <2>1, <2>2, SameLine DEF NodeBlocks
<1>3. CASE SkipBlock
  <2>1. UNCHANGED <<data, line, pc>> /\ pc = "scan" /\ Held /\ buffers' = Empty
    BY <1>3 DEF SkipBlock
  <2>2. Stage = NodeBlocks + 2 /\ Stage' = 0
    BY <2>1, EmptyType DEF Stage, Held
  <2> QED
    BY <2>1, <2>2, SameLine DEF NodeBlocks
<1>4. CASE HeaderLine \/ DetailLine
  <2>1. UNCHANGED <<data, pc>> /\ pc = "scan" /\ line' = line + 1
    BY <1>4 DEF HeaderLine, DetailLine
  <2>2. Stage' \in 0..(NodeBlocks + 2)
    BY <2>1 DEF Stage, NodeBlocks
  <2> QED
    BY <2>1, <2>2, NextLine
<1>5. CASE ParseDone
  <2>1. line' = 0 /\ LinesLeft \in Nat /\ Stage \in Nat
    BY <1>5, ParserMeasure DEF ParseDone
  <2> HIDE DEF LinesLeft, Stage
  <2> QED
    BY <2>1 DEF ParserLeft, NodeBlocks
<1>6. CASE Allocate
  <2>1. UNCHANGED <<data, line, pc>> /\ pc = "create" /\ built < NodeBlocks /\ built' = built + 1
    BY <1>6 DEF Allocate
  <2>2. Stage' = NodeBlocks - built /\ Stage = NodeBlocks + 1 - built
    BY <1>1, <2>1 DEF Stage, NodeBlocks
  <2>3. Stage' \in Nat /\ Stage' < Stage
    BY <1>1, <2>1, <2>2 DEF NodeBlocks
  <2> QED
    BY <2>1, <2>3, SameLine
<1>7. CASE AllocationFails \/ AppendNode
  <2>1. /\ UNCHANGED <<data, line>> /\ pc = "create" /\ pc' = "scan" /\ buffers' = Empty
    BY <1>7 DEF AllocationFails, AppendNode, ReturnFromAdd
  <2>2. Stage = NodeBlocks + 1 - built /\ Stage' = 0
    BY <2>1, EmptyType DEF Stage, Held
  <2>3. Stage' < Stage
    BY <1>1, <2>2 DEF NodeBlocks
  <2> QED
    BY <2>1, <2>2, <2>3, SameLine
<1> QED
  BY <1>2, <1>3, <1>4, <1>5, <1>6, <1>7 DEF ParseStep

(* For all outputs of any number of lines, parse_data_buffer comes to its  *)
(* end if only its process goes on (iface_list.c:393-436).                 *)
THEOREM ParserGetsNearer == Spec => [][ParserShortens]_vars
<1>1. ASSUME IInv, Next, line # 0 PROVE ParserLeft' < ParserLeft
  <2>1. pc # "idle"
    BY <1>1 DEF IInv, Control
  <2>2. ParseStep
    BY <1>1, <2>1 DEF Next, ListAdd, ListDelete, ListDestroy, CallParse, Call
  <2> QED
    BY <1>1, <2>2, ParserGetsOn
<1>2. ASSUME IInv, [Next]_vars PROVE [ParserShortens]_vars
  BY <1>1, <1>2 DEF ParserShortens
<1> QED
  BY <1>2, Invariance, PTL DEF Spec

-----------------------------------------------------------------------------
(* What a run of the program has before it: the functions main calls, and  *)
(* in those with a loop the lines, the blocks or the nodes.                *)
StepsLeft ==
  CASE step = "popen" -> 10 [] step = "truncate" -> 9 [] step = "copy"    -> 8
    [] step = "load"  -> 7  [] step = "read"     -> 6 [] step = "parse"   -> 5
    [] step = "parsing" -> 4 [] step = "open"    -> 3 [] step = "save"    -> 2
    [] step = "saved" -> 1
    [] step \in {"exited", "down"} -> 0

InStep ==
  CASE step = "copy" -> Len(output) [] step = "parsing" -> ParserLeft
    [] step = "save" -> Len(unsaved) [] OTHER -> 0

(* Each step of a run, the failing ones included, brings it nearer to its  *)
(* end (main.c:21-74).                                                     *)
RunShortens ==
  Running => \/ StepsLeft' < StepsLeft
             \/ StepsLeft' = StepsLeft /\ InStep' < InStep

LEMMA RunMeasure ==
  ASSUME ProgInv
  PROVE  StepsLeft \in 0..10 /\ InStep \in Nat
<1>1. Types /\ IInv
  BY TypesAre DEF ProgInv
<1>2. Len(output) \in Nat /\ Len(unsaved) \in Nat /\ ParserLeft \in Nat
  BY <1>1, LenProperties, ParserMeasure DEF Types
<1>3. StepsLeft \in 0..10
  BY <1>1 DEF Types, StepsLeft
<1>4. InStep \in Nat
  BY <1>2 DEF InStep
<1> QED
  BY <1>3, <1>4

LEMMA TailShorter ==
  ASSUME NEW S, NEW s \in Seq(S), s # << >>
  PROVE  Len(Tail(s)) < Len(s)
<1>1. Len(s) \in Nat /\ Len(Tail(s)) = Len(s) - 1
  BY EmptySeq, HeadTailProperties, LenProperties
<1> QED
  BY <1>1

LEMMA WorkGetsOn ==
  ASSUME ProgInv, Work
  PROVE  \/ StepsLeft' < StepsLeft
         \/ StepsLeft' = StepsLeft /\ InStep' < InStep
<1>1. Types /\ IInv
  BY TypesAre DEF ProgInv
<1>2. CASE Popen
  BY <1>2 DEF Popen, Goto, Exit, StepsLeft
<1>3. CASE OpenData
  BY <1>3 DEF OpenData, Goto, Exit, StepsLeft
<1>4. CASE CopyLine
  <2>1. step = "copy" /\ step' = "copy" /\ output # << >> /\ output' = Tail(output)
    BY <1>4 DEF CopyLine, Goto
  <2>2. Len(output') < Len(output)
    BY <1>1, <2>1, TailShorter DEF Types
  <2> QED
    BY <2>1, <2>2 DEF StepsLeft, InStep
<1>5. CASE CopyFails \/ CopyDone
  BY <1>5 DEF CopyFails, CopyDone, Goto, Exit, StepsLeft
<1>6. CASE Load \/ ReadData
  BY <1>6 DEF Load, ReadData, Goto, Exit, StepsLeft
<1>7. CASE Parse
  BY <1>7 DEF Parse, Goto, StepsLeft
<1>8. CASE Parsing
  <2>1. step = "parsing" /\ step' = "parsing" /\ ParseStep
    BY <1>8 DEF Parsing
  <2>2. line # 0
    <3>1. pc # "idle"
      BY <2>1 DEF ParseStep, AddBlock, SkipBlock, HeaderLine, DetailLine, ParseDone,
         Allocate, AllocationFails, AppendNode
    <3> QED
      BY <2>1, <3>1 DEF ProgInv, ListInside
  <2>3. ParserLeft' < ParserLeft
    BY <1>1, <2>1, <2>2, ParserGetsOn
  <2> HIDE DEF ParserLeft
  <2> QED
    BY <2>1, <2>3 DEF StepsLeft, InStep
<1>9. CASE ParseReturns
  BY <1>9 DEF ParseReturns, Goto, StepsLeft
<1>10. CASE OpenList
  BY <1>10 DEF OpenList, Goto, StepsLeft
<1>11. CASE SaveNode
  <2>1. step = "save" /\ step' = "save" /\ unsaved # << >> /\ unsaved' = Tail(unsaved)
    BY <1>11 DEF SaveNode
  <2>2. Len(unsaved') < Len(unsaved)
    BY <1>1, <2>1, TailShorter DEF Types
  <2> QED
    BY <2>1, <2>2 DEF StepsLeft, InStep
<1>12. CASE SaveDone
  BY <1>12 DEF SaveDone, Goto, StepsLeft
<1>13. CASE Finish
  BY <1>13 DEF Finish, Exit, StepsLeft
<1> QED
  BY <1>2, <1>3, <1>4, <1>5, <1>6, <1>7, <1>8, <1>9, <1>10, <1>11, <1>12, <1>13 DEF Work

(* Whatever ifconfig prints and whatever fails, a run of main comes to its *)
(* end if only its process goes on (main.c:21-74).                         *)
THEOREM RunGetsNearer == ProgramSpec => [][RunShortens]_programVars
<1>1. ASSUME ProgInv, ProgramNext, Running
      PROVE  \/ StepsLeft' < StepsLeft
             \/ StepsLeft' = StepsLeft /\ InStep' < InStep
  <2>1. CASE Start
    BY <1>1, <2>1 DEF Start
  <2>2. CASE Work
    BY <1>1, <2>2, WorkGetsOn
  <2>3. CASE Kill
    <3>1. step' = "down" /\ step \notin {"down", "exited"}
      BY <2>3 DEF Kill, Goto, Running
    <3>2. StepsLeft' = 0 /\ StepsLeft \in Nat \ {0}
      BY <1>1, <3>1, TypesAre DEF StepsLeft, ProgInv, Types
    <3> QED
      BY <3>2
  <2> QED
    BY <1>1, <2>1, <2>2, <2>3 DEF ProgramNext
<1>2. ASSUME ProgInv, [ProgramNext]_programVars PROVE [RunShortens]_programVars
  BY <1>1, <1>2 DEF RunShortens
<1> QED
  BY <1>2, ProgramInvariance, PTL DEF ProgramSpec
=============================================================================
