------------------------------ MODULE IfaceList ------------------------------
(***************************************************************************)
(* The interface list of link_list: the list of nodes, the functions that  *)
(* change it, and parse_data_buffer, which reads the output of ifconfig    *)
(* line by line, collects a block of lines in its temporary buffers and    *)
(* adds a node for the block when the next one begins.  A step is one call *)
(* into malloc or strdup, or one line; every allocation may fail.          *)
(*                                                                         *)
(* A text is a value; a line is what the parsers of parser.c read out of   *)
(* it.  Left out: texts longer than a buffer (256 bytes), and arguments    *)
(* that the API would accept but no caller passes (a NULL list).           *)
(***************************************************************************)
EXTENDS Integers, Sequences, SequencesExt

CONSTANTS
  Names,     (* Names of interfaces.                                       *)
  Texts,     (* Values of the other fields.                                *)
  NoText,    (* The empty string.                                          *)
  Lines,     (* The lines a buffer may consist of.                         *)
  MaxLines,  (* Bound: lines of a buffer.                                  *)
  MaxCalls   (* Bound: calls into the library.                             *)

Text == Texts \cup {NoText}
IPv4 == [addr: Text, bcast: Text, mask: Text]

(* "link": a header, not indented; "inet", "inet6" and "mtu": an indented  *)
(* line with "inet addr:", "inet6 addr:" and "MTU:"; "other": any other.   *)
Line == [kind: {"link"}, name: Names, mac: Text]
        \cup [kind: {"inet"}, ipv4: IPv4] \cup [kind: {"inet6"}, ipv6: Text]
        \cup [kind: {"mtu"}, status: {"UP", "DOWN"}] \cup [kind: {"other"}]

ASSUME IfaceAssumption ==
  /\ Lines \subseteq Line
  /\ NoText \notin Names
  /\ MaxLines \in Nat /\ MaxCalls \in Nat

NoIPv4 == [addr |-> NoText, bcast |-> NoText, mask |-> NoText]

(* What a struct Node says, which is also what the temporary buffers hold. *)
Node == [name: Names \cup {NoText}, mac: Text, ipv4: IPv4, ipv6: Text,
         status: {"UP", "DOWN", "UNKNOWN"}]

(* A node is a struct and seven strings. *)
NodeBlocks == 8

VARIABLES
  list,       (* The nodes, head first.                                    *)
  allocated,  (* History: blocks allocated and not yet freed.              *)
  pc,         (* "idle", "scan" (in parse_data_buffer), or "create" (in    *)
              (* _create_node_internal).                                   *)
  data,       (* The lines of the last data_buffer.                        *)
  line,       (* The line that is read next; 0 outside parse_data_buffer.  *)
  buffers,    (* The temporary buffers, or the arguments of list_add.      *)
  built,      (* Blocks allocated for the node in hand.                    *)
  header,     (* History: the line from which the block in hand started.   *)
  origin,     (* History: for each node, the header of "data" that it came *)
              (* from, 0 if it was there before or was added by a caller.  *)
  lost,       (* History: headers whose node could not be allocated.       *)
  calls       (* Bounded counter.                                          *)

vars == <<list, allocated, pc, data, line, buffers, built, header, origin,
          lost, calls>>

(* _reset_temp_buffers. *)
Empty ==
  [name |-> NoText, mac |-> NoText, ipv4 |-> NoIPv4, ipv6 |-> NoText,
   status |-> "DOWN"]

(* Mutant of ListContains: the result of strcmp is taken the wrong way.    *)
ListContainsInverted(name) == \E i \in DOMAIN list : list[i].name # name

ListContains(name) == \E i \in DOMAIN list : list[i].name = name

-----------------------------------------------------------------------------
Init ==
  /\ list = << >> /\ origin = << >> /\ allocated = 0
  /\ pc = "idle" /\ data = << >> /\ line = 0
  /\ buffers = Empty /\ built = 0 /\ header = 0 /\ lost = {}
  /\ calls = 0

Call == pc = "idle" /\ calls < MaxCalls /\ calls' = calls + 1

(* NULL stands for "", and for "UNKNOWN" as the status. *)
ListAdd ==
  /\ Call
  /\ \E name \in Names : buffers' = [Empty EXCEPT !.name = name, !.status = "UNKNOWN"]
  /\ pc' = "create"
  /\ header' = 0
  /\ UNCHANGED <<list, allocated, data, line, built, origin, lost>>

(* The first node with the name goes.  (Without one nothing changes.) *)
ListDelete ==
  /\ Call
  /\ \E i \in DOMAIN list :
       /\ \A j \in 1..(i - 1) : list[j].name # list[i].name
       /\ list' = RemoveAt(list, i)
       /\ origin' = RemoveAt(origin, i)
  /\ allocated' = allocated - NodeBlocks
  /\ UNCHANGED <<pc, data, line, buffers, built, header, lost>>

DestroyList ==
  /\ list' = << >>
  /\ origin' = << >>
  /\ allocated' = allocated - NodeBlocks * Len(list)
  /\ UNCHANGED <<pc, data, line, buffers, built, header, lost>>

ListDestroy == Call /\ DestroyList

(* The copy of the buffer is the first allocation; if it fails the call    *)
(* returns, and nothing changes.                                           *)
ParseDataBuffer(d) ==
  /\ data' = d
  /\ allocated' = allocated + 1
  /\ pc' = "scan"
  /\ line' = 1
  /\ buffers' = Empty
  /\ header' = 0
  /\ origin' = [i \in DOMAIN list |-> 0]
  /\ lost' = {}
  /\ UNCHANGED <<list, built>>

CallParse == Call /\ \E d \in BoundedSeq(Lines, MaxLines) : ParseDataBuffer(d)

AtEnd    == line = Len(data) + 1
AtHeader == ~ AtEnd /\ data[line].kind = "link"
Held     == buffers.name # NoText

(* A block is complete: list_add adds it, unless the name is there already. *)
AddBlock ==
  /\ pc = "scan" /\ (AtEnd \/ AtHeader) /\ Held
  /\ ~ ListContains(buffers.name)
  /\ pc' = "create"
  /\ UNCHANGED <<list, allocated, data, line, buffers, built, header, origin,
                 lost, calls>>

(* Mutant of SkipBlock: only the name is reset. *)
SkipBlockKeep ==
  /\ pc = "scan" /\ (AtEnd \/ AtHeader) /\ Held
  /\ ListContains(buffers.name)
  /\ buffers' = [buffers EXCEPT !.name = NoText]
  /\ UNCHANGED <<list, allocated, pc, data, line, built, header, origin, lost, calls>>

(* Mutant of SkipBlock: the header that ends the block is passed over too. *)
SkipBlockSwallows ==
  /\ pc = "scan" /\ (AtEnd \/ AtHeader) /\ Held
  /\ ListContains(buffers.name)
  /\ buffers' = Empty
  /\ line' = IF AtEnd THEN line ELSE line + 1
  /\ UNCHANGED <<list, allocated, pc, data, built, header, origin, lost, calls>>

(* The buffers are reset all the same. *)
SkipBlock ==
  /\ pc = "scan" /\ (AtEnd \/ AtHeader) /\ Held
  /\ ListContains(buffers.name)
  /\ buffers' = Empty
  /\ UNCHANGED <<list, allocated, pc, data, line, built, header, origin, lost, calls>>

(* The buffers were reset when the last block was dealt with. *)
HeaderLine ==
  /\ pc = "scan" /\ AtHeader /\ ~ Held
  /\ buffers' = [buffers EXCEPT !.name = data[line].name, !.mac = data[line].mac]
  /\ header' = line
  /\ line' = line + 1
  /\ UNCHANGED <<list, allocated, pc, data, built, origin, lost, calls>>

(* What a line inside a block changes: its own field, and the three of an  *)
(* IPv4 address together, because parser_ipv4 resets them.                 *)
Parsed(b, l) ==
  CASE l.kind = "inet"  -> [b EXCEPT !.ipv4 = l.ipv4]
    [] l.kind = "inet6" -> [b EXCEPT !.ipv6 = l.ipv6]
    [] l.kind = "mtu"   -> [b EXCEPT !.status = l.status]
    [] OTHER            -> b

(* Mutant of DetailLine: strtok_r starts again with the same line.         *)
DetailLineStays ==
  /\ pc = "scan" /\ ~ AtEnd /\ ~ AtHeader
  /\ buffers' = IF Held THEN Parsed(buffers, data[line]) ELSE buffers
  /\ UNCHANGED <<list, allocated, pc, data, line, built, header, origin, lost, calls>>

(* Lines in front of the first header are passed over. *)
DetailLine ==
  /\ pc = "scan" /\ ~ AtEnd /\ ~ AtHeader
  /\ buffers' = IF Held THEN Parsed(buffers, data[line]) ELSE buffers
  /\ line' = line + 1
  /\ UNCHANGED <<list, allocated, pc, data, built, header, origin, lost, calls>>

ParseDone ==
  /\ pc = "scan" /\ AtEnd /\ ~ Held
  /\ allocated' = allocated - 1
  /\ pc' = "idle"
  /\ line' = 0
  /\ UNCHANGED <<list, data, buffers, built, header, origin, lost, calls>>

(* list_add returns, to parse_data_buffer or to a caller outside.          *)
ReturnFromAdd ==
  /\ pc' = IF line = 0 THEN "idle" ELSE "scan"
  /\ buffers' = Empty
  /\ built' = 0
  /\ UNCHANGED <<data, line, header, calls>>

Allocate ==
  /\ pc = "create" /\ built < NodeBlocks
  /\ built' = built + 1
  /\ allocated' = allocated + 1
  /\ UNCHANGED <<list, pc, data, line, buffers, header, origin, lost, calls>>

(* Mutant of AllocationFails: one block too few is freed. *)
AllocationFailsLeak ==
  /\ pc = "create" /\ built < NodeBlocks
  /\ allocated' = allocated - (IF built > 0 THEN built - 1 ELSE 0)
  /\ lost' = lost \cup {header}
  /\ ReturnFromAdd
  /\ UNCHANGED <<list, origin>>

(* What the node has so far is freed, and list_add returns without a node. *)
AllocationFails ==
  /\ pc = "create" /\ built < NodeBlocks
  /\ allocated' = allocated - built
  /\ lost' = lost \cup {header}
  /\ ReturnFromAdd
  /\ UNCHANGED <<list, origin>>

AppendNode ==
  /\ pc = "create" /\ built = NodeBlocks
  /\ list' = Append(list, buffers)
  /\ origin' = Append(origin, header)
  /\ ReturnFromAdd
  /\ UNCHANGED <<allocated, lost>>

ParseStep ==
  \/ AddBlock \/ SkipBlock \/ HeaderLine \/ DetailLine \/ ParseDone
  \/ Allocate \/ AllocationFails \/ AppendNode

Next == ListAdd \/ ListDelete \/ ListDestroy \/ CallParse \/ ParseStep

Spec == Init /\ [][Next]_vars

-----------------------------------------------------------------------------
(***************************************************************************)
(* Properties.                                                             *)
(***************************************************************************)
TypeOK ==
  /\ list \in Seq(Node) /\ origin \in Seq(Nat)
  /\ Len(origin) = Len(list)
  /\ allocated \in Nat
  /\ pc \in {"idle", "scan", "create"}
  /\ data \in Seq(Line) /\ line \in 0..(Len(data) + 1)
  /\ buffers \in Node
  /\ built \in 0..NodeBlocks
  /\ header \in 0..Len(data) /\ lost \subseteq 0..Len(data)
  /\ calls \in Nat

(* No block is lost and none is freed twice, wherever an allocation fails: *)
(* a node that cannot be completed gives back all it has                   *)
(* (iface_list.c:76-98), and the copy of the buffer goes with the call.    *)
Accounted ==
  allocated = NodeBlocks * Len(list) + built + (IF line = 0 THEN 0 ELSE 1)

(* The line l is the last one of its kind among the lines h+1 .. e. *)
IsLast(k, l, h, e) ==
  /\ l \in (h + 1)..e /\ data[l].kind = k
  /\ \A m \in (l + 1)..e : data[m].kind # k

Lacks(k, h, e) == \A l \in (h + 1)..e : data[l].kind # k

(* The node n says what the header at line h and the lines up to e say. *)
Describes(n, h, e) ==
  /\ n.name = data[h].name /\ n.mac = data[h].mac
  /\ \/ Lacks("inet", h, e) /\ n.ipv4 = NoIPv4
     \/ \E l \in (h + 1)..e : IsLast("inet", l, h, e) /\ n.ipv4 = data[l].ipv4
  /\ \/ Lacks("inet6", h, e) /\ n.ipv6 = NoText
     \/ \E l \in (h + 1)..e : IsLast("inet6", l, h, e) /\ n.ipv6 = data[l].ipv6
  /\ \/ Lacks("mtu", h, e) /\ n.status = "DOWN"
     \/ \E l \in (h + 1)..e : IsLast("mtu", l, h, e) /\ n.status = data[l].status

(* The block of the header h reaches to the line e. *)
IsBlock(h, e) ==
  /\ h \in 1..Len(data) /\ data[h].kind = "link"
  /\ e \in h..Len(data)
  /\ Lacks("link", h, e)
  /\ e < Len(data) => data[e + 1].kind = "link"

(* A node that the buffer brought describes one block of it: nothing of    *)
(* the block before or after it gets into the node (iface_list.c:403-419). *)
OwnBlock ==
  \A i \in DOMAIN list : origin[i] # 0 =>
    \E e \in origin[i]..Len(data) :
      IsBlock(origin[i], e) /\ Describes(list[i], origin[i], e)

(* The nodes that the buffer brought stand behind the older ones and in    *)
(* the order of their blocks (_append, iface_list.c:106-117).              *)
OrderKept ==
  \A i, j \in DOMAIN list : i < j /\ origin[j] # 0 => origin[i] < origin[j]

(* A buffer never brings a name that the list has already, from an earlier *)
(* buffer, a caller or another block of its own (iface_list.c:396, 426).   *)
NoNewDuplicate ==
  \A i, j \in DOMAIN list : i < j /\ origin[j] # 0 => list[i].name # list[j].name

(* A buffer only adds at the end, block by block, and only new names       *)
(* (iface_list.c:106-117, 396 and 426).                                    *)
AddedBehind == OrderKept /\ NoNewDuplicate

(* When parse_data_buffer is about to return, every header's name is in    *)
(* the list: from this block, or from an earlier block or call, unless the *)
(* node of the block could not be allocated.  The last block is not        *)
(* forgotten (iface_list.c:424-432).                                       *)
NothingMissed ==
  pc = "scan" /\ AtEnd /\ ~ Held =>
    \A h \in 1..Len(data) : data[h].kind = "link" =>
      \/ h \in lost
      \/ \E i \in DOMAIN list : list[i].name = data[h].name /\ origin[i] <= h
=============================================================================
