------------------------- MODULE TimerManagerProofs -------------------------
(***************************************************************************)
(* The safety of timer_lb for every set of threads, names and intervals:   *)
(* proofs of the invariants of TimerManager.  None of them is inductive    *)
(* alone.  UniqueNames needs to know that the name a timer_add looked for  *)
(* is still absent when it links, Accounting that only the thread with the *)
(* mutex holds blocks of its own, SafeUntilFreed that head dangles only    *)
(* while a timer_free is at its end, and all of them that the list does    *)
(* not change under another thread.  IInv is their conjunction with        *)
(* LocalsOK and ManagerThere, which state these facts.                     *)
(* The second part proves on top of it that timers keep their timetable,   *)
(* and the third that the locked list implements TimerService.             *)
(***************************************************************************)
EXTENDS TimerManager, SequenceTheorems, TLAPS

-----------------------------------------------------------------------------
(* Putting an element in front. *)
LEMMA PrependProperties ==
  ASSUME NEW S, NEW s \in Seq(S), NEW e \in S
  PROVE  /\ <<e>> \o s \in Seq(S)
         /\ Len(<<e>> \o s) = Len(s) + 1
         /\ (<<e>> \o s)[1] = e
         /\ \A i \in 1..Len(s) : (<<e>> \o s)[i + 1] = s[i]
<1>1. <<e>> \in Seq(S) /\ Len(<<e>>) = 1 /\ <<e>>[1] = e
  OBVIOUS
<1>2. Len(s) \in Nat
  BY LenProperties
<1>3. /\ <<e>> \o s \in Seq(S)
      /\ Len(<<e>> \o s) = 1 + Len(s)
      /\ \A i \in 1 .. 1 + Len(s) :
           (<<e>> \o s)[i] = IF i <= 1 THEN <<e>>[i] ELSE s[i - 1]
  <2>1. \A i \in 1 .. Len(<<e>>) + Len(s) :
           (<<e>> \o s)[i] = IF i <= Len(<<e>>) THEN <<e>>[i] ELSE s[i - Len(<<e>>)]
    BY <1>1, ConcatProperties
  <2> QED
    BY <1>1, <2>1, ConcatProperties
<1> QED
  BY <1>1, <1>2, <1>3

(* Taking the element at position i out. *)
LEMMA RemoveAtProperties ==
  ASSUME NEW S, NEW s \in Seq(S), NEW i \in 1..Len(s)
  PROVE  /\ RemoveAt(s, i) \in Seq(S)
         /\ Len(RemoveAt(s, i)) = Len(s) - 1
         /\ \A j \in 1..Len(s) - 1 :
              RemoveAt(s, i)[j] = s[IF j < i THEN j ELSE j + 1]
<1> DEFINE a == SubSeq(s, 1, i - 1)
           b == SubSeq(s, i + 1, Len(s))
<1>1. Len(s) \in Nat /\ i \in Nat /\ \A j \in 1..Len(s) : s[j] \in S
  BY LenProperties, ElementOfSeq
<1>2. /\ a \in Seq(S)
      /\ Len(a) = i - 1
      /\ \A j \in 1..i - 1 : a[j] = s[j]
  BY <1>1, SubSeqProperties
<1>3. /\ b \in Seq(S)
      /\ Len(b) = Len(s) - i
      /\ \A j \in 1..Len(s) - i : b[j] = s[i + j]
  BY <1>1, SubSeqProperties
<1>4. /\ a \o b \in Seq(S)
      /\ Len(a \o b) = Len(a) + Len(b)
      /\ \A j \in 1 .. Len(a) + Len(b) :
           (a \o b)[j] = IF j <= Len(a) THEN a[j] ELSE b[j - Len(a)]
  BY <1>2, <1>3, ConcatProperties
<1> HIDE DEF a, b
<1>5. \A j \in 1..Len(s) - 1 : (a \o b)[j] = s[IF j < i THEN j ELSE j + 1]
  BY <1>1, <1>2, <1>3, <1>4
<1>6. RemoveAt(s, i) = a \o b
  BY DEF RemoveAt, a, b
<1>7. Len(a \o b) = Len(s) - 1
  BY <1>1, <1>2, <1>3, <1>4
<1> QED
  BY <1>4, <1>5, <1>6, <1>7

(* Nobody is inside a library whose manager is not there; head dangles     *)
(* only between FreeEntries and the end of timer_free.                     *)
ManagerThere ==
  /\ \A t \in Threads : pc[t] # "idle" => life \notin {"none", "gone"}
  /\ life = "dangling" =>
       /\ list = << >>
       /\ \E t \in Threads : pc[t] \in {"free_unlock", "free_destroy"}
  /\ FreeIsToBlame

(* The inductive invariant. *)
IInv ==
  /\ TypeOK
  /\ MutualExclusion
  /\ UniqueNames
  /\ Accounting
  /\ ManagerThere
  /\ NoneLeftBehind
  /\ LocalsOK

(* The list as a function on its positions. *)
LEMMA ListProperties ==
  ASSUME list \in Seq(Entry)
  PROVE  /\ Indices = 1..Len(list)
         /\ Len(list) \in Nat
         /\ \A i \in Indices : list[i] \in Entry
BY LenProperties, ElementOfSeq DEF Indices

(* Writing one entry, not its name, leaves the rest of the list as it is. *)
LEMMA TouchProperties ==
  ASSUME list \in Seq(Entry), NEW p \in Indices, NEW e \in Entry,
         e.name = list[p].name,
         list' = [list EXCEPT ![p] = e]
  PROVE  /\ list' \in Seq(Entry)
         /\ Len(list') = Len(list)
         /\ Indices' = Indices
         /\ list'[p] = e
         /\ \A i \in Indices : /\ list'[i].name = list[i].name
                               /\ i # p => list'[i] = list[i]
<1>1. /\ list' \in Seq(Entry)
      /\ Len(list') = Len(list)
      /\ \A i \in 1..Len(list) : list'[i] = IF i = p THEN e ELSE list[i]
  BY ListProperties, ExceptSeq
<1>2. Indices = 1..Len(list) /\ Indices' = 1..Len(list')
  BY <1>1, LenProperties DEF Indices
<1> QED
  BY <1>1, <1>2

(* Entering a callback changes no name and no due time. *)
LEMMA FireEffect ==
  ASSUME TypeOK, NEW t \in Threads, UpdateFire(t)
  PROVE  /\ list' \in Seq(Entry)
         /\ Len(list') = Len(list)
         /\ Indices' = Indices
         /\ \A i \in Indices : /\ list'[i].name = list[i].name
                               /\ list'[i].due = list[i].due
<1> DEFINE p == pos[t]
           e == [list[p] EXCEPT !.fired = list[p].fired + 1]
<1>1. p \in Indices /\ list[p] \in Entry
  BY ListProperties DEF TypeOK, UpdateFire, Visiting
<1>2. e \in Entry /\ e.name = list[p].name /\ e.due = list[p].due
  BY <1>1 DEF Entry
<1>3. list' = [list EXCEPT ![p] = e]
  BY DEF UpdateFire
<1> HIDE DEF p, e
<1>4. list \in Seq(Entry)
  BY DEF TypeOK
<1>5. /\ list' \in Seq(Entry)
      /\ Len(list') = Len(list)
      /\ Indices' = Indices
      /\ list'[p] = e
      /\ \A i \in Indices : /\ list'[i].name = list[i].name
                            /\ i # p => list'[i] = list[i]
  BY <1>1, <1>2, <1>3, <1>4, TouchProperties
<1> QED
  BY <1>2, <1>5

(* An iteration of the catch-up loop writes only the entry at the cursor. *)
LEMMA AdvanceEffect ==
  ASSUME TypeOK, LocalsOK, NEW t \in Threads, UpdateAdvance(t)
  PROVE  /\ list' \in Seq(Entry)
         /\ Len(list') = Len(list)
         /\ Indices' = Indices
         /\ \A i \in Indices : /\ list'[i].name = list[i].name
                               /\ i # pos[t] => list'[i] = list[i]
<1> DEFINE p == pos[t]
           e == [list[p] EXCEPT !.due = list[p].due + list[p].interval]
<1>1. p \in Indices /\ list[p] \in Entry
  BY ListProperties DEF TypeOK, LocalsOK, UpdateAdvance, UpdateBody
<1>2. e \in Entry /\ e.name = list[p].name
  BY <1>1, TimerAssumption DEF Entry
<1>3. list' = [list EXCEPT ![p] = e]
  BY DEF UpdateAdvance
<1> HIDE DEF p, e
<1>4. list \in Seq(Entry)
  BY DEF TypeOK
<1>5. /\ list' \in Seq(Entry)
      /\ Len(list') = Len(list)
      /\ Indices' = Indices
      /\ \A i \in Indices : /\ list'[i].name = list[i].name
                            /\ i # p => list'[i] = list[i]
  BY <1>1, <1>2, <1>3, <1>4, TouchProperties
<1> QED
  BY <1>5 DEF p

(* timer_add links its entry in front of all the others. *)
LEMMA LinkEffect ==
  ASSUME TypeOK, LocalsOK, NEW t \in Threads, AddLink(t)
  PROVE  /\ entry[t] \in Entry
         /\ list' \in Seq(Entry)
         /\ Len(list') = Len(list) + 1
         /\ Indices' = 1..Len(list) + 1
         /\ list'[1] = entry[t]
         /\ \A i \in Indices : list'[i + 1] = list[i]
<1>1. entry[t] \in Entry /\ list \in Seq(Entry)
  BY DEF TypeOK, LocalsOK, AddLink, AddBody
<1>2. list' = <<entry[t]>> \o list
  BY DEF AddLink
<1>3. /\ list' \in Seq(Entry)
      /\ Len(list') = Len(list) + 1
      /\ list'[1] = entry[t]
      /\ \A i \in 1..Len(list) : list'[i + 1] = list[i]
  BY <1>1, <1>2, PrependProperties
<1> QED
  BY <1>1, <1>3, LenProperties DEF Indices

(* Unlinking the i-th entry moves those behind it forward, and keeps all. *)
LEMMA UnlinkEffect ==
  ASSUME TypeOK, NEW i \in Indices, list' = RemoveAt(list, i)
  PROVE  /\ list' \in Seq(Entry)
         /\ Len(list') = Len(list) - 1
         /\ Indices' = 1..Len(list) - 1
         /\ \A j \in Indices' : list'[j] = list[IF j < i THEN j ELSE j + 1]
<1>1. list \in Seq(Entry) /\ i \in 1..Len(list)
  BY ListProperties DEF TypeOK
<1>2. /\ list' \in Seq(Entry)
      /\ Len(list') = Len(list) - 1
      /\ \A j \in 1..Len(list) - 1 : list'[j] = list[IF j < i THEN j ELSE j + 1]
  BY <1>1, RemoveAtProperties
<1> QED
  BY <1>2, LenProperties DEF Indices

(* The thread that has the mutex is the only one inside, after every step. *)
LEMMA MutexStep == IInv /\ [Next]_vars => MutualExclusion'
<1> SUFFICES ASSUME IInv, [Next]_vars
             PROVE  MutualExclusion'
  OBVIOUS
<1> USE DEF IInv, TypeOK, MutualExclusion, ManagerThere, LocalsOK, Body, AddBody, UpdateBody, LockSites, FreeSites, HeadSites, Deep, Goto, Return, UnlockReturn, MayCall, Counted
<1>1. CASE Create
  BY <1>1, TimerAssumption DEF Create, manager, locals, vars
<1>2. CASE Tick
  BY <1>2, TimerAssumption DEF Tick, manager, locals, vars
<1>3. CASE Finished
  BY <1>3, TimerAssumption DEF Finished, manager, locals, vars
<1>4. CASE \E t \in Threads : CallAdd(t)
  BY <1>4, TimerAssumption DEF CallAdd, manager, locals
<1>5. CASE \E t \in Threads : CallRemove(t)
  BY <1>5, TimerAssumption DEF CallRemove, manager, locals
<1>6. CASE \E t \in Threads : CallUpdate(t)
  BY <1>6, TimerAssumption DEF CallUpdate, manager, locals
<1>7. CASE \E t \in Threads : CallSize(t)
  BY <1>7, TimerAssumption DEF CallSize, manager, locals
<1>8. CASE \E t \in Threads : CallFree(t)
  BY <1>8, TimerAssumption DEF CallFree, manager, locals
<1>9. CASE \E t \in Threads : Lock(t)
  BY <1>9, TimerAssumption DEF Lock, manager, locals, AfterLock
<1>10. CASE \E t \in Threads : CallbackReenter(t)
  BY <1>10, TimerAssumption DEF CallbackReenter, manager, locals
<1>11. CASE \E t \in Threads : AddFind(t)
  <2> PICK t \in Threads : AddFind(t)
    BY <1>11
  <2>1. pc[t] = "add_find" /\ mutex = t
    BY DEF AddFind
  <2>2. CASE mutex' = Null /\ pc' = [pc EXCEPT ![t] = "idle"]
    BY <2>1, <2>2, TimerAssumption
  <2>3. CASE mutex' = mutex /\ pc' = [pc EXCEPT ![t] = "add_malloc"]
    BY <2>1, <2>3
  <2> QED
    BY <2>2, <2>3 DEF AddFind
<1>12. CASE \E t \in Threads : AddMalloc(t)
  BY <1>12, TimerAssumption DEF AddMalloc, manager, locals
<1>13. CASE \E t \in Threads : AddStrdup(t)
  BY <1>13, TimerAssumption DEF AddStrdup, manager, locals
<1>14. CASE \E t \in Threads : AddClock(t)
  <2> PICK t \in Threads : AddClock(t)
    BY <1>14
  <2>1. pc[t] = "add_clock" /\ mutex = t
    BY DEF AddClock
  <2>2. CASE mutex' = Null /\ pc' = [pc EXCEPT ![t] = "idle"]
    BY <2>1, <2>2, TimerAssumption
  <2>3. CASE mutex' = mutex /\ pc' = [pc EXCEPT ![t] = "add_link"]
    BY <2>1, <2>3
  <2> QED
    BY <2>2, <2>3 DEF AddClock
<1>15. CASE \E t \in Threads : AddLink(t)
  <2> PICK t \in Threads : AddLink(t)
    BY <1>15
  <2>1. /\ pc[t] = "add_link"
        /\ mutex' = Null
        /\ pc' = [pc EXCEPT ![t] = "idle"]
    BY DEF AddLink
  <2> QED
    BY <2>1, TimerAssumption
<1>16. CASE \E t \in Threads : RemoveFind(t)
  BY <1>16, TimerAssumption DEF RemoveFind, manager, locals
<1>17. CASE \E t \in Threads : SizeRead(t)
  BY <1>17, TimerAssumption DEF SizeRead, manager, locals
<1>18. CASE \E t \in Threads : UpdateSkip(t)
  BY <1>18, TimerAssumption DEF UpdateSkip, manager, locals
<1>19. CASE \E t \in Threads : UpdateFire(t)
  <2> PICK t \in Threads : UpdateFire(t)
    BY <1>19
  <2>1. /\ pc[t] = "update_visit"
        /\ mutex' = mutex
        /\ pc' = [pc EXCEPT ![t] = "update_callback"]
    BY DEF UpdateFire, Visiting
  <2> QED
    BY <2>1, TimerAssumption
<1>20. CASE \E t \in Threads : CallbackReturn(t)
  BY <1>20, TimerAssumption DEF CallbackReturn, manager, locals
<1>21. CASE \E t \in Threads : UpdateAdvance(t)
  BY <1>21, TimerAssumption DEF UpdateAdvance, manager, locals
<1>22. CASE \E t \in Threads : UpdateNext(t)
  BY <1>22, TimerAssumption DEF UpdateNext, manager, locals
<1>23. CASE \E t \in Threads : UpdateDone(t)
  BY <1>23, TimerAssumption DEF UpdateDone, manager, locals
<1>24. CASE \E t \in Threads : FreeEntries(t)
  BY <1>24, TimerAssumption DEF FreeEntries, manager, locals
<1>25. CASE \E t \in Threads : FreeUnlock(t)
  BY <1>25, TimerAssumption DEF FreeUnlock, manager, locals
<1>26. CASE \E t \in Threads : FreeDestroy(t)
  BY <1>26, TimerAssumption DEF FreeDestroy, manager, locals
<1>27. CASE UNCHANGED vars
  BY <1>27, TimerAssumption DEF vars
<1>28. CASE \E t \in Threads : Stray(t)
  BY <1>28, TimerAssumption DEF Stray, manager, locals
<1> QED
  BY <1>1, <1>2, <1>3, <1>4, <1>5, <1>6, <1>7, <1>8, <1>9, <1>10, <1>11, <1>12, <1>13, <1>14, <1>15, <1>16, <1>17, <1>18, <1>19, <1>20, <1>21, <1>22, <1>23, <1>24, <1>25, <1>26, <1>27, <1>28 DEF Next, Call, Run

(* A thread that goes on, in a manager that is there, leaves it there. *)
LEMMA MoveThere ==
  ASSUME IInv, NEW t \in Threads, NEW l,
         life' = life, life \in {"live", "dangling"},
         list' = list \/ life = "live",
         pc' = [pc EXCEPT ![t] = l],
         pc[t] \notin {"free_unlock", "free_destroy"}
  PROVE  ManagerThere'
BY DEF IInv, TypeOK, ManagerThere, FreeIsToBlame, Defined

(* The manager is there as long as a thread is inside, its head dangles    *)
(* only while timer_free is not through, and whoever makes another thread  *)
(* use what was freed has given the mutex back.                            *)
LEMMA UseStep == IInv /\ [Next]_vars => ManagerThere'
<1> SUFFICES ASSUME IInv, [Next]_vars
             PROVE  ManagerThere'
  OBVIOUS
<1>1. CASE UNCHANGED vars
  BY <1>1 DEF IInv, ManagerThere, FreeIsToBlame, Defined, Alone, vars
<1>2. CASE Create
  BY <1>2 DEF IInv, ManagerThere, FreeIsToBlame, Defined, Alone, Create
<1>3. CASE Tick
  BY <1>3 DEF IInv, ManagerThere, FreeIsToBlame, Defined, Alone, Tick, manager
<1>4. CASE Finished
  BY <1>1, <1>4 DEF Finished
<1>5. ASSUME NEW t \in Threads, Call(t)
      PROVE  ManagerThere'
  <2>1. /\ life' = life /\ life \in {"live", "dangling"} /\ list' = list
        /\ pc[t] \notin {"free_unlock", "free_destroy"}
        /\ \E l : pc' = [pc EXCEPT ![t] = l]
    BY <1>5 DEF Call, CallAdd, CallRemove, CallUpdate, CallSize, CallFree, MayCall, Goto, manager
  <2> QED
    BY <2>1, MoveThere
<1>6. ASSUME NEW t \in Threads, Lock(t)
      PROVE  ManagerThere'
  <2>1. /\ life' = life /\ life \in {"live", "dangling"} /\ list' = list
        /\ pc[t] \notin {"free_unlock", "free_destroy"}
        /\ pc' = [pc EXCEPT ![t] = AfterLock(pc[t])]
    BY <1>6 DEF IInv, TypeOK, ManagerThere, Defined, Lock, LockSites, Goto, manager
  <2> QED
    BY <2>1, MoveThere
<1>7. ASSUME NEW t \in Threads, CallbackReenter(t)
      PROVE  ManagerThere'
  <2>1. /\ life' = life /\ life \in {"live", "dangling"} /\ list' = list
        /\ pc[t] \notin {"free_unlock", "free_destroy"}
        /\ pc' = [pc EXCEPT ![t] = "update_stuck"]
    BY <1>7 DEF IInv, TypeOK, ManagerThere, Defined, CallbackReenter, Goto, manager
  <2> QED
    BY <2>1, MoveThere
<1>8. ASSUME NEW t \in Threads, Run(t)
      PROVE  ManagerThere'
  <2>1. pc[t] # "idle" => life \in {"live", "dangling"}
    BY <1>8 DEF IInv, TypeOK, ManagerThere, Defined, Run
  <2>2. CASE \/ AddFind(t) \/ AddMalloc(t) \/ AddStrdup(t) \/ RemoveFind(t)
             \/ SizeRead(t) \/ UpdateSkip(t) \/ CallbackReturn(t)
             \/ UpdateNext(t) \/ UpdateDone(t)
    <3>1. /\ life' = life /\ pc[t] # "idle" /\ (list' = list \/ life = "live")
          /\ pc[t] \notin {"free_unlock", "free_destroy"}
          /\ \E l : pc' = [pc EXCEPT ![t] = l]
      <4>1. pc \in [Threads -> {"idle", "free_destroy"} \cup LockSites \cup Body]
        BY DEF IInv, TypeOK
      <4>2. pc = [pc EXCEPT ![t] = pc[t]]
        BY <4>1
      <4> QED
        BY <2>2, <4>2 DEF AddFind, AddMalloc, AddStrdup, RemoveFind, SizeRead, UpdateSkip, Visiting, CallbackReturn, UpdateNext, UpdateDone, Goto, Return, UnlockReturn, manager
    <3> QED
      BY <2>1, <3>1, MoveThere
  <2>3. CASE AddClock(t)
    <3>1. /\ life' = life /\ list' = list /\ pc[t] = "add_clock"
          /\ \/ pc' = [pc EXCEPT ![t] = "idle"]
             \/ pc' = [pc EXCEPT ![t] = "add_link"]
      BY <2>3 DEF AddClock, Goto, Return, UnlockReturn
    <3> QED
      BY <2>1, <3>1, MoveThere
  <2>4. CASE AddLink(t)
    <3>1. life' = life /\ pc[t] = "add_link" /\ pc' = [pc EXCEPT ![t] = "idle"]
      BY <2>4 DEF AddLink, Goto, Return, UnlockReturn
    <3>2. life = "live"
      BY <2>1, <3>1 DEF IInv, LocalsOK, Deep, AddBody, HeadSites
    <3> QED
      BY <3>1, <3>2, MoveThere
  <2>5. CASE UpdateFire(t)
    <3>1. /\ life' = life /\ life = "live" /\ pc[t] = "update_visit"
          /\ pc' = [pc EXCEPT ![t] = "update_callback"]
      BY <2>5 DEF UpdateFire, Visiting, Goto
    <3> QED
      BY <2>1, <3>1, MoveThere
  <2>6. CASE UpdateAdvance(t)
    <3>1. life' = life /\ pc' = pc /\ pc[t] = "update_advance"
      BY <2>6 DEF UpdateAdvance
    <3>2. life = "live"
      BY <2>1, <3>1 DEF IInv, LocalsOK, Deep, UpdateBody, HeadSites
    <3> QED
      BY <3>1, <3>2 DEF IInv, ManagerThere, FreeIsToBlame, Defined, Alone
  <2>7. CASE FreeEntries(t)
    <3>1. /\ pc[t] = "free_entries" /\ life' \in {"live", "dangling"} /\ list' = << >>
          /\ pc' = [pc EXCEPT ![t] = "free_unlock"]
      BY <2>7 DEF FreeEntries, Goto
    <3> QED
      BY <2>1, <3>1 DEF IInv, TypeOK, ManagerThere, FreeIsToBlame, Defined
  <2>8. CASE FreeUnlock(t)
    <3>1. /\ pc[t] = "free_unlock" /\ life' = life /\ list' = list
          /\ pc' = [pc EXCEPT ![t] = "free_destroy"]
      BY <2>8 DEF FreeUnlock, Goto, manager
    <3> QED
      BY <2>1, <3>1 DEF IInv, TypeOK, ManagerThere, FreeIsToBlame, Defined
  <2>9. CASE FreeDestroy(t)
    <3>1. CASE Alone(t) /\ life' = "gone" /\ Return(t)
      BY <3>1 DEF IInv, TypeOK, ManagerThere, FreeIsToBlame, Defined, Alone, Goto, Return
    <3>2. CASE ~ Alone(t) /\ life' = "undefined" /\ pc' = pc
      BY <2>9, <3>2 DEF FreeDestroy, ManagerThere, FreeIsToBlame, Defined, Alone
    <3> QED
      BY <2>9, <3>1, <3>2 DEF FreeDestroy
  <2>10. CASE Stray(t)
    <3>1. /\ pc[t] \in HeadSites /\ life = "dangling"
          /\ life' = "undefined" /\ pc' = pc
      BY <2>10 DEF Stray
    <3>2. PICK u \in Threads : pc[u] \in {"free_unlock", "free_destroy"}
      BY <3>1 DEF IInv, ManagerThere
    <3>3. mutex = t /\ u # t
      BY <3>1, <3>2 DEF IInv, MutualExclusion, HeadSites, Body, AddBody, UpdateBody
    <3>4. pc[u] = "free_destroy" /\ ~ Alone(u)
      BY <3>1, <3>2, <3>3 DEF IInv, MutualExclusion, Body, Alone, HeadSites
    <3> QED
      BY <3>1, <3>4 DEF ManagerThere, FreeIsToBlame, Defined, Alone
  <2> QED
    BY <1>8, <2>2, <2>3, <2>4, <2>5, <2>6, <2>7, <2>8, <2>9, <2>10 DEF Run
<1> QED
  BY <1>1, <1>2, <1>3, <1>4, <1>5, <1>6, <1>7, <1>8 DEF Next

(* The list stays a list of entries. *)
LEMMA ListStep == IInv /\ [Next]_vars => list' \in Seq(Entry)
<1> SUFFICES ASSUME IInv, [Next]_vars
             PROVE  list' \in Seq(Entry)
  OBVIOUS
<1> USE DEF IInv, TypeOK
<1>1. CASE Create
  BY <1>1 DEF Create, manager, locals, vars
<1>2. CASE Tick
  BY <1>2 DEF Tick, manager, locals, vars
<1>3. CASE Finished
  BY <1>3 DEF Finished, manager, locals, vars
<1>4. CASE \E t \in Threads : CallAdd(t)
  BY <1>4 DEF CallAdd, manager, locals
<1>5. CASE \E t \in Threads : CallRemove(t)
  BY <1>5 DEF CallRemove, manager, locals
<1>6. CASE \E t \in Threads : CallUpdate(t)
  BY <1>6 DEF CallUpdate, manager, locals
<1>7. CASE \E t \in Threads : CallSize(t)
  BY <1>7 DEF CallSize, manager, locals
<1>8. CASE \E t \in Threads : CallFree(t)
  BY <1>8 DEF CallFree, manager, locals
<1>9. CASE \E t \in Threads : Lock(t)
  BY <1>9 DEF Lock, manager, locals
<1>10. CASE \E t \in Threads : CallbackReenter(t)
  BY <1>10 DEF CallbackReenter, manager, locals
<1>11. CASE \E t \in Threads : AddFind(t)
  BY <1>11 DEF AddFind, manager, locals
<1>12. CASE \E t \in Threads : AddMalloc(t)
  BY <1>12 DEF AddMalloc, manager, locals
<1>13. CASE \E t \in Threads : AddStrdup(t)
  BY <1>13 DEF AddStrdup, manager, locals
<1>14. CASE \E t \in Threads : AddClock(t)
  BY <1>14 DEF AddClock, manager, locals
<1>15. CASE \E t \in Threads : AddLink(t)
  <2> PICK t \in Threads : AddLink(t)
    BY <1>15
  <2> QED
    BY LinkEffect
<1>16. CASE \E t \in Threads : RemoveFind(t)
  <2> PICK t \in Threads : RemoveFind(t)
    BY <1>16
  <2>1. list' = list \/ \E i \in Indices : list' = RemoveAt(list, i)
    BY DEF RemoveFind
  <2> QED
    BY <2>1, UnlinkEffect
<1>17. CASE \E t \in Threads : SizeRead(t)
  BY <1>17 DEF SizeRead, manager, locals
<1>18. CASE \E t \in Threads : UpdateSkip(t)
  BY <1>18 DEF UpdateSkip, manager, locals
<1>19. CASE \E t \in Threads : UpdateFire(t)
  <2> PICK t \in Threads : UpdateFire(t)
    BY <1>19
  <2> QED
    BY FireEffect
<1>20. CASE \E t \in Threads : CallbackReturn(t)
  BY <1>20 DEF CallbackReturn, manager, locals
<1>21. CASE \E t \in Threads : UpdateAdvance(t)
  <2> PICK t \in Threads : UpdateAdvance(t)
    BY <1>21
  <2> QED
    BY AdvanceEffect
<1>22. CASE \E t \in Threads : UpdateNext(t)
  BY <1>22 DEF UpdateNext, manager, locals
<1>23. CASE \E t \in Threads : UpdateDone(t)
  BY <1>23 DEF UpdateDone, manager, locals
<1>24. CASE \E t \in Threads : FreeEntries(t)
  BY <1>24, EmptySeq DEF FreeEntries
<1>25. CASE \E t \in Threads : FreeUnlock(t)
  BY <1>25 DEF FreeUnlock, manager, locals
<1>26. CASE \E t \in Threads : FreeDestroy(t)
  BY <1>26 DEF FreeDestroy, manager, locals
<1>27. CASE UNCHANGED vars
  BY <1>27 DEF vars
<1>28. CASE \E t \in Threads : Stray(t)
  BY <1>28 DEF Stray, manager, locals
<1> QED
  BY <1>1, <1>2, <1>3, <1>4, <1>5, <1>6, <1>7, <1>8, <1>9, <1>10, <1>11, <1>12, <1>13, <1>14, <1>15, <1>16, <1>17, <1>18, <1>19, <1>20, <1>21, <1>22, <1>23, <1>24, <1>25, <1>26, <1>27, <1>28 DEF Next, Call, Run

(* The parts of TypeOK that need no arithmetic. *)
Scalars ==
  /\ clock \in Nat
  /\ life \in {"none", "live", "dangling", "gone", "undefined"}
  /\ mutex \in Threads \cup {Null}
  /\ calls \in 0..MaxCalls

PerThread ==
  /\ pc \in [Threads -> {"idle", "free_destroy"} \cup LockSites \cup Body]
  /\ entry \in [Threads -> Entry \cup {Null}]
  /\ key \in [Threads -> Names \cup {Null}]
  /\ now \in [Threads -> Nat]
  /\ pos \in [Threads -> Nat]

(* The variables that are not per thread keep their types. *)
LEMMA ScalarStep == IInv /\ [Next]_vars => Scalars'
<1> SUFFICES ASSUME IInv, [Next]_vars
             PROVE  Scalars'
  OBVIOUS
<1> USE DEF IInv, TypeOK, Scalars, Return, UnlockReturn, Counted
<1>1. CASE Create
  BY <1>1, TimerAssumption DEF Create, manager, locals, vars
<1>2. CASE Tick
  BY <1>2, TimerAssumption DEF Tick, manager, locals, vars
<1>3. CASE Finished
  BY <1>3, TimerAssumption DEF Finished, manager, locals, vars
<1>4. CASE \E t \in Threads : CallAdd(t)
  BY <1>4, TimerAssumption DEF CallAdd, manager, locals
<1>5. CASE \E t \in Threads : CallRemove(t)
  BY <1>5, TimerAssumption DEF CallRemove, manager, locals
<1>6. CASE \E t \in Threads : CallUpdate(t)
  BY <1>6, TimerAssumption DEF CallUpdate, manager, locals
<1>7. CASE \E t \in Threads : CallSize(t)
  BY <1>7, TimerAssumption DEF CallSize, manager, locals
<1>8. CASE \E t \in Threads : CallFree(t)
  BY <1>8, TimerAssumption DEF CallFree, manager, locals
<1>9. CASE \E t \in Threads : Lock(t)
  BY <1>9, TimerAssumption DEF Lock, manager, locals
<1>10. CASE \E t \in Threads : CallbackReenter(t)
  BY <1>10, TimerAssumption DEF CallbackReenter, manager, locals
<1>11. CASE \E t \in Threads : AddFind(t)
  BY <1>11, TimerAssumption DEF AddFind, manager, locals
<1>12. CASE \E t \in Threads : AddMalloc(t)
  BY <1>12, TimerAssumption DEF AddMalloc, manager, locals
<1>13. CASE \E t \in Threads : AddStrdup(t)
  BY <1>13, TimerAssumption DEF AddStrdup, manager, locals
<1>14. CASE \E t \in Threads : AddClock(t)
  BY <1>14, TimerAssumption DEF AddClock, manager, locals
<1>15. CASE \E t \in Threads : AddLink(t)
  BY <1>15, TimerAssumption DEF AddLink, manager, locals
<1>16. CASE \E t \in Threads : RemoveFind(t)
  BY <1>16, TimerAssumption DEF RemoveFind, manager, locals
<1>17. CASE \E t \in Threads : SizeRead(t)
  BY <1>17, TimerAssumption DEF SizeRead, manager, locals
<1>18. CASE \E t \in Threads : UpdateSkip(t)
  BY <1>18, TimerAssumption DEF UpdateSkip, manager, locals
<1>19. CASE \E t \in Threads : UpdateFire(t)
  BY <1>19, TimerAssumption DEF UpdateFire, manager, locals
<1>20. CASE \E t \in Threads : CallbackReturn(t)
  BY <1>20, TimerAssumption DEF CallbackReturn, manager, locals
<1>21. CASE \E t \in Threads : UpdateAdvance(t)
  BY <1>21, TimerAssumption DEF UpdateAdvance, manager, locals
<1>22. CASE \E t \in Threads : UpdateNext(t)
  BY <1>22, TimerAssumption DEF UpdateNext, manager, locals
<1>23. CASE \E t \in Threads : UpdateDone(t)
  BY <1>23, TimerAssumption DEF UpdateDone, manager, locals
<1>24. CASE \E t \in Threads : FreeEntries(t)
  BY <1>24, TimerAssumption DEF FreeEntries, manager, locals
<1>25. CASE \E t \in Threads : FreeUnlock(t)
  BY <1>25, TimerAssumption DEF FreeUnlock, manager, locals
<1>26. CASE \E t \in Threads : FreeDestroy(t)
  BY <1>26, TimerAssumption DEF FreeDestroy, manager, locals
<1>27. CASE UNCHANGED vars
  BY <1>27, TimerAssumption DEF vars
<1>28. CASE \E t \in Threads : Stray(t)
  BY <1>28, TimerAssumption DEF Stray, manager, locals
<1> QED
  BY <1>1, <1>2, <1>3, <1>4, <1>5, <1>6, <1>7, <1>8, <1>9, <1>10, <1>11, <1>12, <1>13, <1>14, <1>15, <1>16, <1>17, <1>18, <1>19, <1>20, <1>21, <1>22, <1>23, <1>24, <1>25, <1>26, <1>27, <1>28 DEF Next, Call, Run

(* Returning keeps the types of the per-thread variables. *)
LEMMA ReturnTypes ==
  ASSUME PerThread, NEW t \in Threads, Return(t)
  PROVE  PerThread'
BY DEF PerThread, Return, Goto

(* The per-thread variables keep their types. *)
LEMMA PerThreadStep == IInv /\ [Next]_vars => PerThread'
<1> SUFFICES ASSUME IInv, [Next]_vars
             PROVE  PerThread'
  OBVIOUS
<1> USE DEF IInv, TypeOK, PerThread, LocalsOK, Body, AddBody, UpdateBody, LockSites, FreeSites, HeadSites, Deep, Goto, UnlockReturn, MayCall, Counted
<1>1. CASE Create
  BY <1>1, TimerAssumption DEF Create, manager, locals, vars
<1>2. CASE Tick
  BY <1>2, TimerAssumption DEF Tick, manager, locals, vars
<1>3. CASE Finished
  BY <1>3, TimerAssumption DEF Finished, manager, locals, vars
<1>4. CASE \E t \in Threads : CallAdd(t)
  BY <1>4, TimerAssumption DEF CallAdd, manager, locals, Entry
<1>5. CASE \E t \in Threads : CallRemove(t)
  BY <1>5, TimerAssumption DEF CallRemove, manager, locals
<1>6. CASE \E t \in Threads : CallUpdate(t)
  BY <1>6, TimerAssumption DEF CallUpdate, manager, locals
<1>7. CASE \E t \in Threads : CallSize(t)
  BY <1>7, TimerAssumption DEF CallSize, manager, locals
<1>8. CASE \E t \in Threads : CallFree(t)
  BY <1>8, TimerAssumption DEF CallFree, manager, locals
<1>9. CASE \E t \in Threads : Lock(t)
  BY <1>9, TimerAssumption DEF Lock, manager, locals, AfterLock
<1>10. CASE \E t \in Threads : CallbackReenter(t)
  BY <1>10, TimerAssumption DEF CallbackReenter, manager, locals
<1>11. CASE \E t \in Threads : AddFind(t)
  <2> PICK t \in Threads : AddFind(t)
    BY <1>11
  <2>1. \/ Return(t)
        \/ UNCHANGED locals /\ pc' = [pc EXCEPT ![t] = "add_malloc"]
    BY DEF AddFind
  <2>2. CASE Return(t)
    BY <2>2, ReturnTypes
  <2>3. CASE UNCHANGED locals /\ pc' = [pc EXCEPT ![t] = "add_malloc"]
    BY <2>3 DEF locals
  <2> QED
    BY <2>1, <2>2, <2>3
<1>12. CASE \E t \in Threads : AddMalloc(t)
  <2> PICK t \in Threads : AddMalloc(t)
    BY <1>12
  <2>1. \/ Return(t)
        \/ UNCHANGED locals /\ pc' = [pc EXCEPT ![t] = "add_strdup"]
    BY DEF AddMalloc
  <2>2. CASE Return(t)
    BY <2>2, ReturnTypes
  <2>3. CASE UNCHANGED locals /\ pc' = [pc EXCEPT ![t] = "add_strdup"]
    BY <2>3 DEF locals
  <2> QED
    BY <2>1, <2>2, <2>3
<1>13. CASE \E t \in Threads : AddStrdup(t)
  <2> PICK t \in Threads : AddStrdup(t)
    BY <1>13
  <2>1. \/ Return(t)
        \/ UNCHANGED locals /\ pc' = [pc EXCEPT ![t] = "add_clock"]
    BY DEF AddStrdup
  <2>2. CASE Return(t)
    BY <2>2, ReturnTypes
  <2>3. CASE UNCHANGED locals /\ pc' = [pc EXCEPT ![t] = "add_clock"]
    BY <2>3 DEF locals
  <2> QED
    BY <2>1, <2>2, <2>3
<1>14. CASE \E t \in Threads : AddClock(t)
  <2> PICK t \in Threads : AddClock(t)
    BY <1>14
  <2> DEFINE d == clock + entry[t].interval
             e == [entry[t] EXCEPT !.start = d, !.due = d]
  <2>1. \/ Return(t)
        \/ /\ entry' = [entry EXCEPT ![t] = e]
           /\ pc' = [pc EXCEPT ![t] = "add_link"]
           /\ UNCHANGED <<key, now, pos>>
    BY DEF AddClock
  <2>7. pc[t] = "add_clock"
    BY DEF AddClock
  <2>8. entry[t] \in Entry
    BY <2>7
  <2>9. entry[t].interval \in Nat /\ clock \in Nat
    BY <2>8, TimerAssumption DEF Entry
  <2>2. entry[t] \in Entry /\ d \in Nat
    BY <2>8, <2>9
  <2>3. e \in Entry
    BY <2>2 DEF Entry
  <2> HIDE DEF d, e
  <2>4. CASE Return(t)
    BY <2>4, ReturnTypes
  <2>5. CASE /\ entry' = [entry EXCEPT ![t] = e]
             /\ pc' = [pc EXCEPT ![t] = "add_link"]
             /\ UNCHANGED <<key, now, pos>>
    BY <2>3, <2>5
  <2> QED
    BY <2>1, <2>4, <2>5
<1>15. CASE \E t \in Threads : AddLink(t)
  <2> PICK t \in Threads : AddLink(t)
    BY <1>15
  <2> QED
    BY ReturnTypes DEF AddLink
<1>16. CASE \E t \in Threads : RemoveFind(t)
  <2> PICK t \in Threads : RemoveFind(t)
    BY <1>16
  <2> QED
    BY ReturnTypes DEF RemoveFind
<1>17. CASE \E t \in Threads : SizeRead(t)
  <2> PICK t \in Threads : SizeRead(t)
    BY <1>17
  <2> QED
    BY ReturnTypes DEF SizeRead
<1>18. CASE \E t \in Threads : UpdateSkip(t)
  BY <1>18, TimerAssumption DEF UpdateSkip, manager, locals
<1>19. CASE \E t \in Threads : UpdateFire(t)
  BY <1>19, TimerAssumption DEF UpdateFire, manager, locals
<1>20. CASE \E t \in Threads : CallbackReturn(t)
  BY <1>20, TimerAssumption DEF CallbackReturn, manager, locals
<1>21. CASE \E t \in Threads : UpdateAdvance(t)
  BY <1>21, TimerAssumption DEF UpdateAdvance, manager, locals
<1>22. CASE \E t \in Threads : UpdateNext(t)
  BY <1>22, TimerAssumption DEF UpdateNext, manager, locals
<1>23. CASE \E t \in Threads : UpdateDone(t)
  <2> PICK t \in Threads : UpdateDone(t)
    BY <1>23
  <2> QED
    BY ReturnTypes DEF UpdateDone
<1>24. CASE \E t \in Threads : FreeEntries(t)
  BY <1>24, TimerAssumption DEF FreeEntries, manager, locals
<1>25. CASE \E t \in Threads : FreeUnlock(t)
  BY <1>25, TimerAssumption DEF FreeUnlock, manager, locals
<1>26. CASE \E t \in Threads : FreeDestroy(t)
  <2> PICK t \in Threads : FreeDestroy(t)
    BY <1>26
  <2>1. CASE Return(t)
    BY <2>1, ReturnTypes
  <2>2. CASE UNCHANGED <<pc, locals>>
    BY <2>2 DEF locals
  <2> QED
    BY <2>1, <2>2 DEF FreeDestroy
<1>27. CASE UNCHANGED vars
  BY <1>27, TimerAssumption DEF vars
<1>28. CASE \E t \in Threads : Stray(t)
  BY <1>28, TimerAssumption DEF Stray, manager, locals
<1> QED
  BY <1>1, <1>2, <1>3, <1>4, <1>5, <1>6, <1>7, <1>8, <1>9, <1>10, <1>11, <1>12, <1>13, <1>14, <1>15, <1>16, <1>17, <1>18, <1>19, <1>20, <1>21, <1>22, <1>23, <1>24, <1>25, <1>26, <1>27, <1>28 DEF Next, Call, Run

(* How the blocks in the hands of timer_add follow the program counter. *)
LEMMA InFlightProperties ==
  ASSUME TypeOK, NEW t \in Threads, NEW l, pc' = [pc EXCEPT ![t] = l]
  PROVE  /\ mutex' = Null => InFlight' = 0
         /\ mutex = t => InFlight = Held(pc[t])
         /\ mutex' = t => InFlight' = Held(l)
         /\ mutex' = mutex /\ mutex # t => InFlight' = InFlight
BY TimerAssumption DEF TypeOK, InFlight

(* Every step accounts for the blocks it obtains, links or frees. *)
LEMMA AccountingStep == IInv /\ [Next]_vars => Accounting'
<1> SUFFICES ASSUME IInv, [Next]_vars
             PROVE  Accounting'
  OBVIOUS
<1> USE DEF IInv, TypeOK, MutualExclusion, ManagerThere, LocalsOK, Accounting, Body, AddBody, UpdateBody, LockSites, FreeSites, HeadSites, Deep, Goto, Return, UnlockReturn, MayCall, Counted
<1>1. CASE Create
  BY <1>1, ListProperties, TimerAssumption DEF Create, manager, locals, vars, InFlight, Held
<1>2. CASE Tick
  BY <1>2, ListProperties, TimerAssumption DEF Tick, manager, locals, vars, InFlight, Held
<1>3. CASE Finished
  BY <1>3, ListProperties, TimerAssumption DEF Finished, manager, locals, vars, InFlight, Held
<1>4. CASE \E t \in Threads : CallAdd(t)
  <2> PICK t \in Threads : CallAdd(t)
    BY <1>4
  <2>1. /\ mutex' = mutex /\ mutex # t
        /\ \E l \in LockSites : pc' = [pc EXCEPT ![t] = l]
    BY DEF CallAdd
  <2>2. InFlight' = InFlight
    BY <2>1, InFlightProperties
  <2> QED
    BY <2>2 DEF CallAdd, manager
<1>5. CASE \E t \in Threads : CallRemove(t)
  <2> PICK t \in Threads : CallRemove(t)
    BY <1>5
  <2>1. /\ mutex' = mutex /\ mutex # t
        /\ \E l \in LockSites : pc' = [pc EXCEPT ![t] = l]
    BY DEF CallRemove
  <2>2. InFlight' = InFlight
    BY <2>1, InFlightProperties
  <2> QED
    BY <2>2 DEF CallRemove, manager
<1>6. CASE \E t \in Threads : CallUpdate(t)
  <2> PICK t \in Threads : CallUpdate(t)
    BY <1>6
  <2>1. /\ mutex' = mutex /\ mutex # t
        /\ \E l \in LockSites : pc' = [pc EXCEPT ![t] = l]
    BY DEF CallUpdate
  <2>2. InFlight' = InFlight
    BY <2>1, InFlightProperties
  <2> QED
    BY <2>2 DEF CallUpdate, manager
<1>7. CASE \E t \in Threads : CallSize(t)
  <2> PICK t \in Threads : CallSize(t)
    BY <1>7
  <2>1. /\ mutex' = mutex /\ mutex # t
        /\ \E l \in LockSites : pc' = [pc EXCEPT ![t] = l]
    BY DEF CallSize
  <2>2. InFlight' = InFlight
    BY <2>1, InFlightProperties
  <2> QED
    BY <2>2 DEF CallSize, manager
<1>8. CASE \E t \in Threads : CallFree(t)
  <2> PICK t \in Threads : CallFree(t)
    BY <1>8
  <2>1. /\ mutex' = mutex /\ mutex # t
        /\ \E l \in LockSites : pc' = [pc EXCEPT ![t] = l]
    BY DEF CallFree
  <2>2. InFlight' = InFlight
    BY <2>1, InFlightProperties
  <2> QED
    BY <2>2 DEF CallFree, manager
<1>9. CASE \E t \in Threads : Lock(t)
  BY <1>9, ListProperties, TimerAssumption DEF Lock, AfterLock, manager, locals, InFlight, Held
<1>10. CASE \E t \in Threads : CallbackReenter(t)
  BY <1>10, ListProperties, TimerAssumption DEF CallbackReenter, manager, locals, InFlight, Held
<1>11. CASE \E t \in Threads : AddFind(t)
  BY <1>11, ListProperties, TimerAssumption DEF AddFind, manager, locals, InFlight, Held
<1>12. CASE \E t \in Threads : AddMalloc(t)
  <2> PICK t \in Threads : AddMalloc(t)
    BY <1>12
  <2>1. mutex = t /\ InFlight = 0 /\ life \in {"live", "undefined"}
    BY TimerAssumption DEF AddMalloc, InFlight, Held
  <2>4. UNCHANGED <<life, list, size>>
    BY DEF AddMalloc
  <2>5. blocks \in Nat /\ Len(list) \in Nat
    BY ListProperties
  <2>2. CASE UnlockReturn(t) /\ blocks' = blocks
    <3>1. InFlight' = 0
      BY <2>2 DEF InFlight
    <3> QED
      BY <2>1, <2>2, <3>1 DEF AddMalloc
  <2>3. CASE mutex' = mutex /\ pc' = [pc EXCEPT ![t] = "add_strdup"] /\ blocks' = blocks + 1
    <3>1. InFlight' = 1
      BY <2>1, <2>3, InFlightProperties DEF Held
    <3>2. CASE life = "live"
      <4>1. blocks = 1 + 2 * Len(list) + 0 /\ size = Len(list)
        BY <2>1, <3>2
      <4> QED
        BY <2>3, <2>4, <2>5, <3>1, <3>2, <4>1
    <3> QED
      BY <2>1, <2>4, <3>2
  <2> QED
    BY <2>2, <2>3 DEF AddMalloc
<1>13. CASE \E t \in Threads : AddStrdup(t)
  <2> PICK t \in Threads : AddStrdup(t)
    BY <1>13
  <2>1. mutex = t /\ InFlight = 1 /\ life \in {"live", "undefined"}
    BY TimerAssumption DEF AddStrdup, InFlight, Held
  <2>4. UNCHANGED <<life, list, size>>
    BY DEF AddStrdup
  <2>5. blocks \in Nat /\ Len(list) \in Nat
    BY ListProperties
  <2>2. CASE UnlockReturn(t) /\ blocks' = blocks - 1
    <3>1. InFlight' = 0
      BY <2>2 DEF InFlight
    <3> QED
      BY <2>1, <2>2, <3>1 DEF AddStrdup
  <2>3. CASE mutex' = mutex /\ pc' = [pc EXCEPT ![t] = "add_clock"] /\ blocks' = blocks + 1
    <3>1. InFlight' = 2
      BY <2>1, <2>3, InFlightProperties DEF Held
    <3>2. CASE life = "live"
      <4>1. blocks = 1 + 2 * Len(list) + 1 /\ size = Len(list)
        BY <2>1, <3>2
      <4> QED
        BY <2>3, <2>4, <2>5, <3>1, <3>2, <4>1
    <3> QED
      BY <2>1, <2>4, <3>2
  <2> QED
    BY <2>2, <2>3 DEF AddStrdup
<1>14. CASE \E t \in Threads : AddClock(t)
  <2> PICK t \in Threads : AddClock(t)
    BY <1>14
  <2>1. mutex = t /\ InFlight = 2 /\ life \in {"live", "undefined"}
    BY TimerAssumption DEF AddClock, InFlight, Held
  <2>2. CASE UnlockReturn(t) /\ blocks' = blocks - 2
    <3>1. InFlight' = 0
      BY <2>2 DEF InFlight
    <3> QED
      BY <2>1, <2>2, <3>1 DEF AddClock
  <2>3. CASE mutex' = mutex /\ pc' = [pc EXCEPT ![t] = "add_link"] /\ blocks' = blocks + 0
    <3>1. InFlight' = 2
      BY <2>1, <2>3, InFlightProperties DEF Held
    <3> QED
      BY <2>1, <2>3, <3>1 DEF AddClock
  <2> QED
    BY <2>2, <2>3 DEF AddClock
<1>15. CASE \E t \in Threads : AddLink(t)
  <2> PICK t \in Threads : AddLink(t)
    BY <1>15
  <2>1. mutex = t /\ InFlight = 2 /\ life \in {"live", "undefined"}
    BY InFlightProperties DEF AddLink, Held
  <2>2. InFlight' = 0
    BY InFlightProperties DEF AddLink
  <2>3. Len(list') = Len(list) + 1
    BY LinkEffect
  <2> QED
    BY <2>1, <2>2, <2>3, ListProperties DEF AddLink
<1>16. CASE \E t \in Threads : RemoveFind(t)
  <2> PICK t \in Threads : RemoveFind(t)
    BY <1>16
  <2>1. mutex = t /\ InFlight = 0 /\ life = "live"
    BY InFlightProperties DEF RemoveFind, Held
  <2>2. InFlight' = 0
    BY InFlightProperties DEF RemoveFind
  <2>3. CASE UNCHANGED <<list, size, blocks>>
    BY <2>1, <2>2, <2>3 DEF RemoveFind
  <2>4. CASE \E i \in Indices : /\ list' = RemoveAt(list, i)
                               /\ size' = size - 1
                               /\ blocks' = blocks - 2
    <3>1. Len(list') = Len(list) - 1
      BY <2>4, UnlinkEffect
    <3> QED
      BY <2>1, <2>2, <2>4, <3>1, ListProperties DEF RemoveFind
  <2> QED
    BY <2>3, <2>4 DEF RemoveFind
<1>17. CASE \E t \in Threads : SizeRead(t)
  BY <1>17, ListProperties, TimerAssumption DEF SizeRead, manager, locals, InFlight, Held
<1>18. CASE \E t \in Threads : UpdateSkip(t)
  BY <1>18, ListProperties, TimerAssumption DEF UpdateSkip, manager, locals, InFlight, Held
<1>19. CASE \E t \in Threads : UpdateFire(t)
  <2> PICK t \in Threads : UpdateFire(t)
    BY <1>19
  <2>1. InFlight' = 0 /\ InFlight = 0
    <3>1. /\ pc[t] = "update_visit"
          /\ pc' = [pc EXCEPT ![t] = "update_callback"]
          /\ mutex = t /\ mutex' = t
      BY DEF UpdateFire, Visiting
    <3>2. InFlight = Held("update_visit") /\ InFlight' = Held("update_callback")
      BY <3>1, InFlightProperties
    <3> QED
      BY <3>2 DEF Held
  <2>2. Len(list') = Len(list)
    BY FireEffect
  <2> QED
    BY <2>1, <2>2 DEF UpdateFire
<1>20. CASE \E t \in Threads : CallbackReturn(t)
  BY <1>20, ListProperties, TimerAssumption DEF CallbackReturn, manager, locals, InFlight, Held
<1>21. CASE \E t \in Threads : UpdateAdvance(t)
  BY <1>21, ListProperties, TimerAssumption DEF UpdateAdvance, manager, locals, InFlight, Held
<1>22. CASE \E t \in Threads : UpdateNext(t)
  BY <1>22, ListProperties, TimerAssumption DEF UpdateNext, manager, locals, InFlight, Held
<1>23. CASE \E t \in Threads : UpdateDone(t)
  BY <1>23, ListProperties, TimerAssumption DEF UpdateDone, manager, locals, InFlight, Held
<1>24. CASE \E t \in Threads : FreeEntries(t)
  <2> PICK t \in Threads : FreeEntries(t)
    BY <1>24
  <2>1. mutex = t /\ InFlight = 0 /\ life = "live"
    BY InFlightProperties DEF FreeEntries, Held
  <2>2. InFlight' = 0
    BY <2>1, InFlightProperties DEF FreeEntries, Held
  <2>3. Len(list) \in Nat /\ Len(list') = 0 /\ (list = << >> => Len(list) = 0)
    BY ListProperties, EmptySeq DEF FreeEntries
  <2>4. blocks' = 1 /\ life' \in {"live", "dangling"} /\ size' = size
    BY <2>1, <2>3 DEF FreeEntries
  <2>5. CASE life' = "live"
    BY <2>1, <2>2, <2>3, <2>4, <2>5 DEF FreeEntries
  <2> QED
    BY <2>4, <2>5
<1>25. CASE \E t \in Threads : FreeUnlock(t)
  BY <1>25, ListProperties, TimerAssumption DEF FreeUnlock, manager, locals, InFlight, Held
<1>26. CASE \E t \in Threads : FreeDestroy(t)
  <2> PICK t \in Threads : FreeDestroy(t)
    BY <1>26
  <2>1. CASE ~ Alone(t)
    BY <2>1 DEF FreeDestroy
  <2>2. CASE Alone(t)
    <3>1. mutex = Null
      BY <2>2, TimerAssumption DEF FreeDestroy, Alone
    <3>2. InFlight = 0
      BY <3>1 DEF InFlight
    <3>3. /\ life' = "gone" /\ blocks' = blocks - 1 /\ list' = list
          /\ pc[t] = "free_destroy"
      BY <2>2 DEF FreeDestroy
    <3>4. Len(list) \in Nat
      BY ListProperties
    <3>5. CASE life = "live"
      BY <3>2, <3>3, <3>4, <3>5
    <3>6. CASE life = "dangling"
      <4>1. Len(list) = 0
        BY <3>6, EmptySeq
      <4> QED
        BY <3>3, <3>6, <4>1
    <3>7. life \in {"live", "dangling"}
      BY <2>2, <3>3 DEF FreeIsToBlame, Defined, Alone
    <3> QED
      BY <3>5, <3>6, <3>7
  <2> QED
    BY <2>1, <2>2
<1>27. CASE UNCHANGED vars
  BY <1>27, ListProperties, TimerAssumption DEF vars, InFlight
<1>28. CASE \E t \in Threads : Stray(t)
  BY <1>28, ListProperties, TimerAssumption DEF Stray, manager, locals, InFlight, Held
<1> QED
  BY <1>1, <1>2, <1>3, <1>4, <1>5, <1>6, <1>7, <1>8, <1>9, <1>10, <1>11, <1>12, <1>13, <1>14, <1>15, <1>16, <1>17, <1>18, <1>19, <1>20, <1>21, <1>22, <1>23, <1>24, <1>25, <1>26, <1>27, <1>28 DEF Next, Call, Run

(* No step brings a name into the list twice. *)
LEMMA UniqueStep == IInv /\ [Next]_vars => UniqueNames'
<1> SUFFICES ASSUME IInv, [Next]_vars
             PROVE  UniqueNames'
  OBVIOUS
<1> TypeOK /\ LocalsOK /\ UniqueNames
  BY DEF IInv
<1> list \in Seq(Entry)
  BY DEF TypeOK
<1> USE DEF UniqueNames
<1>1. CASE Create
  BY <1>1 DEF Create, manager, locals, vars, Indices
<1>2. CASE Tick
  BY <1>2 DEF Tick, manager, locals, vars, Indices
<1>3. CASE Finished
  BY <1>3 DEF Finished, manager, locals, vars, Indices
<1>4. CASE \E t \in Threads : CallAdd(t)
  BY <1>4 DEF CallAdd, manager, locals, Indices
<1>5. CASE \E t \in Threads : CallRemove(t)
  BY <1>5 DEF CallRemove, manager, locals, Indices
<1>6. CASE \E t \in Threads : CallUpdate(t)
  BY <1>6 DEF CallUpdate, manager, locals, Indices
<1>7. CASE \E t \in Threads : CallSize(t)
  BY <1>7 DEF CallSize, manager, locals, Indices
<1>8. CASE \E t \in Threads : CallFree(t)
  BY <1>8 DEF CallFree, manager, locals, Indices
<1>9. CASE \E t \in Threads : Lock(t)
  BY <1>9 DEF Lock, manager, locals, Indices
<1>10. CASE \E t \in Threads : CallbackReenter(t)
  BY <1>10 DEF CallbackReenter, manager, locals, Indices
<1>11. CASE \E t \in Threads : AddFind(t)
  BY <1>11 DEF AddFind, manager, locals, Indices
<1>12. CASE \E t \in Threads : AddMalloc(t)
  BY <1>12 DEF AddMalloc, manager, locals, Indices
<1>13. CASE \E t \in Threads : AddStrdup(t)
  BY <1>13 DEF AddStrdup, manager, locals, Indices
<1>14. CASE \E t \in Threads : AddClock(t)
  BY <1>14 DEF AddClock, manager, locals, Indices
<1>15. CASE \E t \in Threads : AddLink(t)
  <2> PICK t \in Threads : AddLink(t)
    BY <1>15
  <2>1. \A i \in Indices : list[i].name # entry[t].name
    BY DEF AddLink, LocalsOK, AddBody, Registered
  <2>2. \A i \in Indices' : i # 1 => i - 1 \in Indices /\ list'[i] = list[i - 1]
    BY LinkEffect, ListProperties
  <2>5. list'[1] = entry[t]
    BY LinkEffect
  <2>3. \A i \in Indices' : i # 1 => list'[i].name # list'[1].name
    BY <2>1, <2>2, <2>5
  <2>4. \A i, j \in Indices' :
          i # 1 /\ j # 1 /\ list'[i].name = list'[j].name => i = j
    <3>1. \A i, j \in Indices' : i - 1 = j - 1 => i = j
      BY LinkEffect, ListProperties
    <3> QED
      BY <2>2, <3>1
  <2> QED
    BY <2>3, <2>4
<1>16. CASE \E t \in Threads : RemoveFind(t)
  <2> PICK t \in Threads : RemoveFind(t)
    BY <1>16
  <2>1. CASE UNCHANGED list
    BY <2>1 DEF Indices
  <2>2. CASE \E i \in Indices : list' = RemoveAt(list, i)
    <3> PICK i \in Indices : list' = RemoveAt(list, i)
      BY <2>2
    <3> DEFINE f(j) == IF j < i THEN j ELSE j + 1
    <3>1. \A j \in Indices' : f(j) \in Indices /\ list'[j] = list[f(j)]
      BY UnlinkEffect, ListProperties
    <3>2. \A j, k \in Indices' : f(j) = f(k) => j = k
      BY UnlinkEffect, ListProperties
    <3> HIDE DEF f
    <3> QED
      BY <3>1, <3>2
  <2> QED
    BY <2>1, <2>2 DEF RemoveFind
<1>17. CASE \E t \in Threads : SizeRead(t)
  BY <1>17 DEF SizeRead, manager, locals, Indices
<1>18. CASE \E t \in Threads : UpdateSkip(t)
  BY <1>18 DEF UpdateSkip, manager, locals, Indices
<1>19. CASE \E t \in Threads : UpdateFire(t)
  <2> PICK t \in Threads : UpdateFire(t)
    BY <1>19
  <2>1. Indices' = Indices /\ \A i \in Indices : list'[i].name = list[i].name
    BY FireEffect
  <2> QED
    BY <2>1
<1>20. CASE \E t \in Threads : CallbackReturn(t)
  BY <1>20 DEF CallbackReturn, manager, locals, Indices
<1>21. CASE \E t \in Threads : UpdateAdvance(t)
  <2> PICK t \in Threads : UpdateAdvance(t)
    BY <1>21
  <2>1. Indices' = Indices /\ \A i \in Indices : list'[i].name = list[i].name
    BY AdvanceEffect
  <2> QED
    BY <2>1
<1>22. CASE \E t \in Threads : UpdateNext(t)
  BY <1>22 DEF UpdateNext, manager, locals, Indices
<1>23. CASE \E t \in Threads : UpdateDone(t)
  BY <1>23 DEF UpdateDone, manager, locals, Indices
<1>24. CASE \E t \in Threads : FreeEntries(t)
  <2>1. Len(list') = 0 /\ list' \in Seq(Entry)
    BY <1>24, EmptySeq DEF FreeEntries
  <2>2. Indices' = {}
    BY <2>1, LenProperties DEF Indices
  <2> QED
    BY <2>2
<1>25. CASE \E t \in Threads : FreeUnlock(t)
  BY <1>25 DEF FreeUnlock, manager, locals, Indices
<1>26. CASE \E t \in Threads : FreeDestroy(t)
  BY <1>26 DEF FreeDestroy, manager, locals, Indices
<1>27. CASE UNCHANGED vars
  BY <1>27 DEF vars, Indices
<1>28. CASE \E t \in Threads : Stray(t)
  BY <1>28 DEF Stray, manager, locals, Indices
<1> QED
  BY <1>1, <1>2, <1>3, <1>4, <1>5, <1>6, <1>7, <1>8, <1>9, <1>10, <1>11, <1>12, <1>13, <1>14, <1>15, <1>16, <1>17, <1>18, <1>19, <1>20, <1>21, <1>22, <1>23, <1>24, <1>25, <1>26, <1>27, <1>28 DEF Next, Call, Run

(* What a thread found under the lock stays true until it unlocks. *)
LEMMA LocalsStep == IInv /\ [Next]_vars => LocalsOK'
<1> SUFFICES ASSUME IInv, [Next]_vars
             PROVE  LocalsOK'
  OBVIOUS
<1> USE DEF IInv, TypeOK, MutualExclusion, ManagerThere, LocalsOK, Body, AddBody, UpdateBody, LockSites, FreeSites, HeadSites, Deep, Goto, Return, UnlockReturn, MayCall, Counted
<1>1. CASE Create
  BY <1>1, TimerAssumption DEF Create, manager, locals, vars, Registered, Indices
<1>2. CASE Tick
  BY <1>2, TimerAssumption DEF Tick, manager, locals, vars, Registered, Indices
<1>3. CASE Finished
  BY <1>3, TimerAssumption DEF Finished, manager, locals, vars, Registered, Indices
<1>4. CASE \E t \in Threads : CallAdd(t)
  <2> PICK t \in Threads : CallAdd(t)
    BY <1>4
  <2>1. /\ pc[t] = "idle"
        /\ pc' = [pc EXCEPT ![t] = "add_lock"]
        /\ UNCHANGED <<life, list, pos>>
        /\ \E e \in Entry : entry' = [entry EXCEPT ![t] = e]
    BY DEF CallAdd, manager, Entry
  <2> QED
    BY <2>1 DEF Registered, Indices
<1>5. CASE \E t \in Threads : CallRemove(t)
  BY <1>5, TimerAssumption DEF CallRemove, manager, locals, Registered, Indices
<1>6. CASE \E t \in Threads : CallUpdate(t)
  BY <1>6, TimerAssumption DEF CallUpdate, manager, locals, Registered, Indices
<1>7. CASE \E t \in Threads : CallSize(t)
  BY <1>7, TimerAssumption DEF CallSize, manager, locals, Registered, Indices
<1>8. CASE \E t \in Threads : CallFree(t)
  BY <1>8, TimerAssumption DEF CallFree, manager, locals, Registered, Indices
<1>9. CASE \E t \in Threads : Lock(t)
  BY <1>9, TimerAssumption DEF Lock, manager, locals, AfterLock, Registered, Indices
<1>10. CASE \E t \in Threads : CallbackReenter(t)
  BY <1>10, TimerAssumption DEF CallbackReenter, manager, locals, Registered, Indices
<1>11. CASE \E t \in Threads : AddFind(t)
  BY <1>11, TimerAssumption DEF AddFind, manager, locals, Registered, Indices
<1>12. CASE \E t \in Threads : AddMalloc(t)
  <2> PICK t \in Threads : AddMalloc(t)
    BY <1>12
  <2>1. UNCHANGED <<life, list>>
    BY DEF AddMalloc
  <2>2. CASE UnlockReturn(t)
    BY <2>1, <2>2 DEF Registered, Indices
  <2>3. CASE UNCHANGED locals /\ pc' = [pc EXCEPT ![t] = "add_strdup"]
    BY <2>1, <2>3 DEF AddMalloc, locals, Registered, Indices
  <2> QED
    BY <2>2, <2>3 DEF AddMalloc
<1>13. CASE \E t \in Threads : AddStrdup(t)
  <2> PICK t \in Threads : AddStrdup(t)
    BY <1>13
  <2>1. UNCHANGED <<life, list>>
    BY DEF AddStrdup
  <2>2. CASE UnlockReturn(t)
    BY <2>1, <2>2 DEF Registered, Indices
  <2>3. CASE UNCHANGED locals /\ pc' = [pc EXCEPT ![t] = "add_clock"]
    BY <2>1, <2>3 DEF AddStrdup, locals, Registered, Indices
  <2> QED
    BY <2>2, <2>3 DEF AddStrdup
<1>14. CASE \E t \in Threads : AddClock(t)
  <2> PICK t \in Threads : AddClock(t)
    BY <1>14
  <2> DEFINE d == clock + entry[t].interval
             e == [entry[t] EXCEPT !.start = d, !.due = d]
  <2>1. UNCHANGED <<life, list>>
    BY DEF AddClock
  <2>6. \/ UnlockReturn(t)
        \/ /\ entry' = [entry EXCEPT ![t] = e]
           /\ pc' = [pc EXCEPT ![t] = "add_link"]
           /\ pos' = pos
    BY DEF AddClock
  <2>7. pc[t] = "add_clock"
    BY DEF AddClock
  <2>8. entry[t] \in Entry
    BY <2>7
  <2>9. entry[t].interval \in Nat /\ clock \in Nat
    BY <2>8, TimerAssumption DEF Entry
  <2>2. entry[t] \in Entry /\ d \in Nat
    BY <2>8, <2>9
  <2>3. e \in Entry /\ e.name = entry[t].name
    BY <2>2 DEF Entry
  <2>4. CASE UnlockReturn(t)
    BY <2>1, <2>4 DEF Registered, Indices
  <2>5. CASE /\ entry' = [entry EXCEPT ![t] = e]
             /\ pc' = [pc EXCEPT ![t] = "add_link"]
             /\ pos' = pos
    <3> HIDE DEF e
    <3>1. pc[t] = "add_clock"
      BY DEF AddClock
    <3> QED
      BY <2>1, <2>3, <2>5, <3>1 DEF Registered, Indices
  <2> QED
    BY <2>6, <2>4, <2>5
<1>15. CASE \E t \in Threads : AddLink(t)
  BY <1>15, TimerAssumption DEF AddLink, manager, locals, Registered, Indices
<1>16. CASE \E t \in Threads : RemoveFind(t)
  BY <1>16, TimerAssumption DEF RemoveFind, manager, locals, Registered, Indices
<1>17. CASE \E t \in Threads : SizeRead(t)
  BY <1>17, TimerAssumption DEF SizeRead, manager, locals, Registered, Indices
<1>18. CASE \E t \in Threads : UpdateSkip(t)
  BY <1>18, TimerAssumption DEF UpdateSkip, manager, locals, Visiting, Registered, Indices
<1>19. CASE \E t \in Threads : UpdateFire(t)
  <2> PICK t \in Threads : UpdateFire(t)
    BY <1>19
  <2>1. /\ pc[t] = "update_visit" /\ pos[t] \in Indices /\ life = "live"
        /\ pc' = [pc EXCEPT ![t] = "update_callback"]
        /\ UNCHANGED <<life, entry, pos>>
    BY DEF UpdateFire, Visiting, locals
  <2>2. Indices' = Indices /\ \A i \in Indices : list'[i].name = list[i].name
    BY FireEffect
  <2> QED
    BY <2>1, <2>2 DEF Registered
<1>20. CASE \E t \in Threads : CallbackReturn(t)
  BY <1>20, TimerAssumption DEF CallbackReturn, manager, locals, Registered, Indices
<1>21. CASE \E t \in Threads : UpdateAdvance(t)
  BY <1>21, TimerAssumption DEF UpdateAdvance, manager, locals, Registered, Indices
<1>22. CASE \E t \in Threads : UpdateNext(t)
  BY <1>22, TimerAssumption DEF UpdateNext, manager, locals, Registered, Indices
<1>23. CASE \E t \in Threads : UpdateDone(t)
  BY <1>23, TimerAssumption DEF UpdateDone, manager, locals, Registered, Indices
<1>24. CASE \E t \in Threads : FreeEntries(t)
  <2> PICK t \in Threads : FreeEntries(t)
    BY <1>24
  <2>1. /\ pc[t] = "free_entries" /\ mutex = t
        /\ pc' = [pc EXCEPT ![t] = "free_unlock"]
        /\ UNCHANGED <<entry, pos>>
    BY DEF FreeEntries, locals
  <2>2. \A u \in Threads : pc'[u] \in Body => u = t
    BY <2>1
  <2>3. \A u \in Threads : pc'[u] = "add_lock" => entry'[u] \in Entry
    BY <2>1
  <2>4. \A u \in Threads : pc'[u] \notin AddBody \cup UpdateBody
    BY <2>1, <2>2
  <2> QED
    BY <2>3, <2>4 DEF Registered
<1>25. CASE \E t \in Threads : FreeUnlock(t)
  BY <1>25, TimerAssumption DEF FreeUnlock, manager, locals, Registered, Indices
<1>26. CASE \E t \in Threads : FreeDestroy(t)
  <2> PICK t \in Threads : FreeDestroy(t)
    BY <1>26
  <2>1. CASE ~ Alone(t)
    <3>1. life' = "undefined" /\ UNCHANGED <<pc, entry, pos, list>>
      BY <2>1 DEF FreeDestroy, locals
    <3> QED
      BY <3>1 DEF Registered, Indices
  <2>2. CASE Alone(t)
    <3>1. pc' = [pc EXCEPT ![t] = "idle"]
      BY <2>2 DEF FreeDestroy
    <3>2. \A u \in Threads : pc'[u] = "idle"
      BY <2>2, <3>1 DEF Alone
    <3> QED
      BY <3>2
  <2> QED
    BY <2>1, <2>2
<1>27. CASE UNCHANGED vars
  BY <1>27, TimerAssumption DEF vars, Registered, Indices
<1>28. CASE \E t \in Threads : Stray(t)
  BY <1>28, TimerAssumption DEF Stray, manager, locals, Registered, Indices
<1> QED
  BY <1>1, <1>2, <1>3, <1>4, <1>5, <1>6, <1>7, <1>8, <1>9, <1>10, <1>11, <1>12, <1>13, <1>14, <1>15, <1>16, <1>17, <1>18, <1>19, <1>20, <1>21, <1>22, <1>23, <1>24, <1>25, <1>26, <1>27, <1>28 DEF Next, Call, Run

(* No step leaves a due timer behind the cursor of an update. *)
LEMMA NoneLeftStep == IInv /\ [Next]_vars => NoneLeftBehind'
<1> SUFFICES ASSUME IInv, [Next]_vars
             PROVE  NoneLeftBehind'
  OBVIOUS
<1> USE DEF IInv, TypeOK, MutualExclusion, LocalsOK, NoneLeftBehind, Body, AddBody, UpdateBody, LockSites, FreeSites, HeadSites, Deep, Goto, Return, UnlockReturn, MayCall, Counted
<1>1. CASE Create
  BY <1>1, ListProperties, TimerAssumption DEF Create, manager, locals, vars, Indices
<1>2. CASE Tick
  BY <1>2, ListProperties, TimerAssumption DEF Tick, manager, locals, vars, Indices
<1>3. CASE Finished
  BY <1>3, ListProperties, TimerAssumption DEF Finished, manager, locals, vars, Indices
<1>4. CASE \E t \in Threads : CallAdd(t)
  BY <1>4, ListProperties, TimerAssumption DEF CallAdd, manager, locals, Indices
<1>5. CASE \E t \in Threads : CallRemove(t)
  BY <1>5, ListProperties, TimerAssumption DEF CallRemove, manager, locals, Indices
<1>6. CASE \E t \in Threads : CallUpdate(t)
  BY <1>6, ListProperties, TimerAssumption DEF CallUpdate, manager, locals, Indices
<1>7. CASE \E t \in Threads : CallSize(t)
  BY <1>7, ListProperties, TimerAssumption DEF CallSize, manager, locals, Indices
<1>8. CASE \E t \in Threads : CallFree(t)
  BY <1>8, ListProperties, TimerAssumption DEF CallFree, manager, locals, Indices
<1>9. CASE \E t \in Threads : Lock(t)
  BY <1>9, ListProperties, TimerAssumption DEF Lock, manager, locals, AfterLock, Indices
<1>10. CASE \E t \in Threads : CallbackReenter(t)
  BY <1>10, ListProperties, TimerAssumption DEF CallbackReenter, manager, locals, Indices
<1>11. CASE \E t \in Threads : AddFind(t)
  <2> PICK t \in Threads : AddFind(t)
    BY <1>11
  <2>1. UNCHANGED list
    BY DEF AddFind, manager
  <2>2. CASE UnlockReturn(t)
    BY <2>1, <2>2 DEF Indices
  <2>3. CASE UNCHANGED <<now, pos>> /\ pc' = [pc EXCEPT ![t] = "add_malloc"]
    BY <2>1, <2>3 DEF Indices
  <2> QED
    BY <2>2, <2>3 DEF AddFind, locals
<1>12. CASE \E t \in Threads : AddMalloc(t)
  <2> PICK t \in Threads : AddMalloc(t)
    BY <1>12
  <2>1. UNCHANGED list
    BY DEF AddMalloc
  <2>2. CASE UnlockReturn(t)
    BY <2>1, <2>2 DEF Indices
  <2>3. CASE UNCHANGED <<now, pos>> /\ pc' = [pc EXCEPT ![t] = "add_strdup"]
    BY <2>1, <2>3 DEF Indices
  <2> QED
    BY <2>2, <2>3 DEF AddMalloc, locals
<1>13. CASE \E t \in Threads : AddStrdup(t)
  <2> PICK t \in Threads : AddStrdup(t)
    BY <1>13
  <2>1. UNCHANGED list
    BY DEF AddStrdup
  <2>2. CASE UnlockReturn(t)
    BY <2>1, <2>2 DEF Indices
  <2>3. CASE UNCHANGED <<now, pos>> /\ pc' = [pc EXCEPT ![t] = "add_clock"]
    BY <2>1, <2>3 DEF Indices
  <2> QED
    BY <2>2, <2>3 DEF AddStrdup, locals
<1>14. CASE \E t \in Threads : AddClock(t)
  <2> PICK t \in Threads : AddClock(t)
    BY <1>14
  <2>1. UNCHANGED list
    BY DEF AddClock
  <2>2. CASE UnlockReturn(t)
    BY <2>1, <2>2 DEF Indices
  <2>3. CASE UNCHANGED <<now, pos>> /\ pc' = [pc EXCEPT ![t] = "add_link"]
    BY <2>1, <2>3 DEF Indices
  <2> QED
    BY <2>2, <2>3 DEF AddClock, locals
<1>15. CASE \E t \in Threads : AddLink(t)
  BY <1>15, ListProperties, TimerAssumption DEF AddLink, manager, locals, Indices
<1>16. CASE \E t \in Threads : RemoveFind(t)
  BY <1>16, ListProperties, TimerAssumption DEF RemoveFind, manager, locals, Indices
<1>17. CASE \E t \in Threads : SizeRead(t)
  BY <1>17, ListProperties, TimerAssumption DEF SizeRead, manager, locals, Indices
<1>18. CASE \E t \in Threads : UpdateSkip(t)
  <2> PICK t \in Threads : UpdateSkip(t)
    BY <1>18
  <2>1. /\ pc[t] = "update_visit" /\ pos[t] \in Indices
        /\ list[pos[t]].due > now[t]
        /\ pos' = [pos EXCEPT ![t] = pos[t] + 1]
        /\ UNCHANGED pc
        /\ UNCHANGED <<list, now>>
    <3>1. pos[t] \in Indices
      BY DEF UpdateSkip, Visiting
    <3>2. list[pos[t]].due \in Nat /\ now[t] \in Nat
      BY <3>1, ListProperties DEF Entry
    <3> QED
      BY <3>1, <3>2 DEF UpdateSkip, Visiting, Due, manager
  <2>2. \A i \in Indices : i < pos[t] + 1 => i < pos[t] \/ i = pos[t]
    BY <2>1, ListProperties
  <2> QED
    BY <2>1, <2>2 DEF Indices
<1>19. CASE \E t \in Threads : UpdateFire(t)
  <2> PICK t \in Threads : UpdateFire(t)
    BY <1>19
  <2>1. /\ pc[t] = "update_visit"
        /\ pc' = [pc EXCEPT ![t] = "update_callback"]
        /\ UNCHANGED <<now, pos>>
    BY DEF UpdateFire, Visiting, locals
  <2>2. Indices' = Indices /\ \A i \in Indices : list'[i].due = list[i].due
    BY FireEffect
  <2> QED
    BY <2>1, <2>2
<1>20. CASE \E t \in Threads : CallbackReturn(t)
  BY <1>20, ListProperties, TimerAssumption DEF CallbackReturn, manager, locals, Indices
<1>21. CASE \E t \in Threads : UpdateAdvance(t)
  <2> PICK t \in Threads : UpdateAdvance(t)
    BY <1>21
  <2>1. /\ pc[t] = "update_advance" /\ mutex = t
        /\ UNCHANGED <<pc, now, pos>>
    BY DEF UpdateAdvance, locals
  <2>2. Indices' = Indices /\ \A i \in Indices : i # pos[t] => list'[i] = list[i]
    BY AdvanceEffect
  <2>3. \A i \in Indices : i < pos[t] => i # pos[t]
    BY ListProperties
  <2> QED
    BY <2>1, <2>2, <2>3
<1>22. CASE \E t \in Threads : UpdateNext(t)
  <2> PICK t \in Threads : UpdateNext(t)
    BY <1>22
  <2>1. /\ pc[t] = "update_advance" /\ pos[t] \in Indices
        /\ list[pos[t]].due > now[t]
        /\ pos' = [pos EXCEPT ![t] = pos[t] + 1]
        /\ pc' = [pc EXCEPT ![t] = "update_visit"]
        /\ UNCHANGED <<list, now>>
    <3>1. pos[t] \in Indices
      BY DEF UpdateNext
    <3>2. list[pos[t]].due \in Nat /\ now[t] \in Nat
      BY <3>1, ListProperties DEF Entry
    <3> QED
      BY <3>1, <3>2 DEF UpdateNext, Due, manager
  <2>2. \A i \in Indices : i < pos[t] + 1 => i < pos[t] \/ i = pos[t]
    BY <2>1, ListProperties
  <2> QED
    BY <2>1, <2>2 DEF Indices
<1>23. CASE \E t \in Threads : UpdateDone(t)
  BY <1>23, ListProperties, TimerAssumption DEF UpdateDone, manager, locals, Indices
<1>24. CASE \E t \in Threads : FreeEntries(t)
  BY <1>24, ListProperties, TimerAssumption DEF FreeEntries, manager, locals, Indices
<1>25. CASE \E t \in Threads : FreeUnlock(t)
  BY <1>25, ListProperties, TimerAssumption DEF FreeUnlock, manager, locals, Indices
<1>26. CASE \E t \in Threads : FreeDestroy(t)
  BY <1>26, ListProperties, TimerAssumption DEF FreeDestroy, manager, locals, Indices
<1>27. CASE UNCHANGED vars
  BY <1>27, ListProperties, TimerAssumption DEF vars, Indices
<1>28. CASE \E t \in Threads : Stray(t)
  BY <1>28, ListProperties, TimerAssumption DEF Stray, manager, locals, Indices
<1> QED
  BY <1>1, <1>2, <1>3, <1>4, <1>5, <1>6, <1>7, <1>8, <1>9, <1>10, <1>11, <1>12, <1>13, <1>14, <1>15, <1>16, <1>17, <1>18, <1>19, <1>20, <1>21, <1>22, <1>23, <1>24, <1>25, <1>26, <1>27, <1>28 DEF Next, Call, Run

(* The inductive invariant holds at the start. *)
LEMMA InitEstablishes == Init => IInv
<1> SUFFICES ASSUME Init
             PROVE  IInv
  OBVIOUS
<1> USE DEF Init
<1>1. list \in Seq(Entry) /\ Len(list) = 0 /\ Indices = {}
  BY EmptySeq, LenProperties DEF Indices
<1>2. TypeOK
  BY <1>1, TimerAssumption DEF TypeOK
<1>3. MutualExclusion
  BY TimerAssumption DEF MutualExclusion, Body, AddBody, UpdateBody
<1>4. UniqueNames
  BY <1>1 DEF UniqueNames
<1>5. Accounting
  BY <1>1 DEF Accounting
<1>6. ManagerThere
  BY DEF ManagerThere, FreeIsToBlame, Defined
<1>7. NoneLeftBehind
  BY DEF NoneLeftBehind, UpdateBody
<1>8. LocalsOK
  BY DEF LocalsOK, AddBody, UpdateBody, Deep
<1> QED
  BY <1>2, <1>3, <1>4, <1>5, <1>6, <1>7, <1>8 DEF IInv

(* The two counters change in a manager that is there, only. *)
LEMMA CountStep ==
  ASSUME IInv, [Next]_vars
  PROVE  /\ life' # "live" => size' = size
         /\ life' = "undefined" => blocks' = blocks
<1>1. CASE UNCHANGED vars
  BY <1>1 DEF vars
<1>2. CASE Create \/ Tick \/ Finished
  BY <1>2 DEF Create, Tick, Finished, manager, vars
<1>3. CASE \E t \in Threads : Call(t) \/ Lock(t) \/ CallbackReenter(t)
  BY <1>3 DEF Call, CallAdd, CallRemove, CallUpdate, CallSize, CallFree, Lock, CallbackReenter, manager
<1>4. CASE \E t \in Threads : Run(t)
  <2> PICK t \in Threads : Run(t)
    BY <1>4
  <2>1. CASE AddMalloc(t) \/ AddStrdup(t) \/ AddClock(t) \/ AddLink(t)
    <3>1. pc[t] \in Deep /\ life' = life
      BY <2>1 DEF AddMalloc, AddStrdup, AddClock, AddLink, Deep, AddBody, HeadSites
    <3>2. life = "live"
      BY <3>1 DEF IInv, LocalsOK, Run, Defined
    <3> QED
      BY <3>1, <3>2
  <2>2. CASE AddFind(t) \/ RemoveFind(t) \/ SizeRead(t) \/ UpdateSkip(t) \/ CallbackReturn(t)
             \/ UpdateNext(t) \/ UpdateDone(t) \/ FreeUnlock(t) \/ Stray(t)
    BY <2>2 DEF AddFind, RemoveFind, SizeRead, UpdateSkip, CallbackReturn, UpdateNext, UpdateDone, FreeUnlock, Stray, manager
  <2>3. CASE UpdateFire(t) \/ UpdateAdvance(t)
    BY <2>3 DEF UpdateFire, UpdateAdvance
  <2>4. CASE FreeEntries(t) \/ FreeDestroy(t)
    BY <2>4 DEF FreeEntries, FreeDestroy
  <2> QED
    BY <2>1, <2>2, <2>3, <2>4 DEF Run
<1> QED
  BY <1>1, <1>2, <1>3, <1>4 DEF Next

(* Every step preserves the inductive invariant. *)
LEMMA StepPreserves == IInv /\ [Next]_vars => IInv'
<1> SUFFICES ASSUME IInv, [Next]_vars
             PROVE  IInv'
  OBVIOUS
<1>1. Scalars
  BY DEF IInv, TypeOK, Scalars
<1>2. PerThread
  BY DEF IInv, TypeOK, PerThread
<1>3. Scalars'
  BY <1>1, ScalarStep
<1>4. PerThread'
  BY <1>2, PerThreadStep
<1>5. list' \in Seq(Entry)
  BY ListStep
<1>6. Accounting'
  BY AccountingStep
<1>7. size' \in Nat /\ blocks' \in Nat
  <2>1. Len(list') \in Nat
    BY <1>5, LenProperties
  <2>2. InFlight' \in 0..2
    BY DEF InFlight, Held
  <2>3. size \in Nat /\ blocks \in Nat
    BY DEF IInv, TypeOK
  <2>4. size' \in Nat
    BY <1>6, <2>1, <2>3, CountStep DEF Accounting
  <2>5. blocks' \in Nat
    BY <1>3, <1>6, <2>1, <2>2, <2>3, CountStep DEF Accounting, Scalars
  <2> QED
    BY <2>4, <2>5
<1>8. TypeOK'
  BY <1>3, <1>4, <1>5, <1>7 DEF TypeOK, Scalars, PerThread
<1> QED
  BY <1>6, <1>8, MutexStep, UniqueStep, UseStep, NoneLeftStep, LocalsStep
  DEF IInv

(* The inductive invariant holds of every reachable state of the library. *)
THEOREM Invariance == Spec => []IInv
<1>1. Init => IInv
  BY InitEstablishes
<1>2. IInv /\ [Next]_vars => IInv'
  BY StepPreserves
<1> QED
  BY <1>1, <1>2, PTL DEF Spec

(* Every variable keeps its type; size and blocks never go below 0. *)
THEOREM TypeCorrect == Spec => []TypeOK
<1>1. IInv => TypeOK
  BY DEF IInv
<1> QED
  BY <1>1, Invariance, PTL

(* Between lock and unlock a thread is alone, on every path of the library. *)
THEOREM LockExcludes == Spec => []MutualExclusion
<1>1. IInv => MutualExclusion
  BY DEF IInv
<1> QED
  BY <1>1, Invariance, PTL

(* Whatever threads interleave, no two timers have the same name
   (timer.c:169-174 and 215-217 are under one lock). *)
THEOREM NamesAreUnique == Spec => []UniqueNames
<1>1. IInv => UniqueNames
  BY DEF IInv
<1> QED
  BY <1>1, Invariance, PTL

(* malloc and free balance on every path, the failing ones of timer_add
   included, and size is the length of the list (timer.c:158-289, 390-431). *)
THEOREM NothingLeaks == Spec => []Accounting
<1>1. IInv => Accounting
  BY DEF IInv
<1> QED
  BY <1>1, Invariance, PTL

(* In every interleaving of every call with every other, timer_free's
   included, nothing that was freed is used, unless a timer_free stands
   between its unlock and its return while another thread is inside
   (timer.c:399-427). *)
THEOREM OnlyTheWindowIsUnsafe == Spec => []SafeUntilFreed
<1>1. IInv => SafeUntilFreed
  BY DEF IInv, ManagerThere, SafeUntilFreed
<1> QED
  BY <1>1, Invariance, PTL

(* An update passes no timer that is due at its moment without calling it
   and moving it to a later due time (timer.c:319-351). *)
THEOREM NobodyLeftBehind == Spec => []NoneLeftBehind
<1>1. IInv => NoneLeftBehind
  BY DEF IInv
<1> QED
  BY <1>1, Invariance, PTL

(* The facts a thread established under the lock hold while it works. *)
THEOREM LocalsHold == Spec => []LocalsOK
<1>1. IInv => LocalsOK
  BY DEF IInv
<1> QED
  BY <1>1, Invariance, PTL

-----------------------------------------------------------------------------
(***************************************************************************)
(* The timetable.  A timer is called when the moment of the update has     *)
(* reached its due time, and the loop that follows moves the due time on:  *)
(* until the loop is through, the due time of the one timer under the      *)
(* cursor lags behind the number of calls.                                 *)
(***************************************************************************)
(* The thread has called the timer under its cursor and is still to move   *)
(* its due time past the moment of the update.                             *)
Lagging(t) ==
  /\ pc[t] \in {"update_callback", "update_advance", "update_stuck"}
  /\ Due(t)

(* The moments of all updates lie in the past. *)
NowPassed == \A t \in Threads : now[t] <= clock

(* An entry that is about to be linked counts from a moment in the past. *)
FreshEntry(e) ==
  /\ e.due = e.start
  /\ e.fired = 0
  /\ \E c \in 0..clock : e.start = c + e.interval

EntriesFresh ==
  \A t \in Threads :
    /\ pc[t] \in AddBody \cup {"add_lock"} => entry[t].fired = 0
    /\ pc[t] = "add_link" => FreshEntry(entry[t])

(* The due time lies behind as many periods as there were calls, but one   *)
(* while the timer is being served.                                        *)
DueKeepsUp ==
  \A i \in Indices :
    LET e == list[i] IN
      \/ e.start + e.fired * e.interval <= e.due
      \/ /\ \E t \in Threads : Lagging(t) /\ pos[t] = i
         /\ e.start + e.fired * e.interval <= e.due + e.interval

TInv ==
  /\ NowPassed
  /\ EntriesFresh
  /\ DueKeepsUp
  /\ NeverEarly
  /\ OnTimetable

(* A step that the timers do not notice. *)
Calm ==
  /\ UNCHANGED <<clock, list>>
  /\ \A u \in Threads : /\ Lagging(u)' <=> Lagging(u)
                        /\ Lagging(u) => UNCHANGED <<pos[u], now[u]>>

Quiet ==
  /\ Calm
  /\ life' = life \/ (life # "live" /\ life' # "live")

(* timer_free takes a manager away whose list was empty when it freed it. *)
Disposal == Calm /\ life = "live" /\ life' # "live"

(* No other step touches the list or a thread in the middle of a call. *)
LEMMA StepKinds ==
  ASSUME IInv, [Next]_vars
  PROVE  \/ Create \/ Tick \/ Quiet \/ Disposal
         \/ \E t \in Threads : /\ Defined
                               /\ \/ AddLink(t) \/ RemoveFind(t) \/ UpdateFire(t)
                                  \/ UpdateAdvance(t) \/ FreeEntries(t)
<1> DOMAIN pc = Threads /\ DOMAIN pos = Threads /\ DOMAIN now = Threads
  BY DEF IInv, TypeOK
<1> USE DEF Goto, Return, UnlockReturn, Counted
<1>1. CASE Create
  BY <1>1
<1>2. CASE Tick
  BY <1>2
<1>3. CASE Finished
  BY <1>3 DEF Finished, vars, Quiet, Calm, Lagging, Due, MayCall, LockSites
<1>4. CASE \E t \in Threads : CallAdd(t)
  BY <1>4 DEF CallAdd, manager, locals, Quiet, Calm, Lagging, Due, MayCall, LockSites
<1>5. CASE \E t \in Threads : CallRemove(t)
  BY <1>5 DEF CallRemove, manager, locals, Quiet, Calm, Lagging, Due, MayCall, LockSites
<1>6. CASE \E t \in Threads : CallUpdate(t)
  BY <1>6 DEF CallUpdate, manager, locals, Quiet, Calm, Lagging, Due, MayCall, LockSites
<1>7. CASE \E t \in Threads : CallSize(t)
  BY <1>7 DEF CallSize, manager, locals, Quiet, Calm, Lagging, Due, MayCall, LockSites
<1>8. CASE \E t \in Threads : CallFree(t)
  BY <1>8 DEF CallFree, manager, locals, Quiet, Calm, Lagging, Due, MayCall, LockSites
<1>9. CASE \E t \in Threads : Lock(t)
  BY <1>9 DEF Lock, manager, locals, AfterLock, Quiet, Calm, Lagging, Due, MayCall, LockSites
<1>10. CASE \E t \in Threads : CallbackReenter(t)
  BY <1>10 DEF CallbackReenter, manager, locals, Quiet, Calm, Lagging, Due, MayCall, LockSites
<1>11. CASE \E t \in Threads : AddFind(t)
  BY <1>11 DEF AddFind, manager, locals, Quiet, Calm, Lagging, Due, MayCall, LockSites
<1>12. CASE \E t \in Threads : AddMalloc(t)
  BY <1>12 DEF AddMalloc, manager, locals, Quiet, Calm, Lagging, Due, MayCall, LockSites
<1>13. CASE \E t \in Threads : AddStrdup(t)
  BY <1>13 DEF AddStrdup, manager, locals, Quiet, Calm, Lagging, Due, MayCall, LockSites
<1>14. CASE \E t \in Threads : AddClock(t)
  BY <1>14 DEF AddClock, manager, locals, Quiet, Calm, Lagging, Due, MayCall, LockSites
<1>15. CASE \E t \in Threads : Defined /\ AddLink(t)
  BY <1>15
<1>16. CASE \E t \in Threads : Defined /\ RemoveFind(t)
  BY <1>16
<1>17. CASE \E t \in Threads : SizeRead(t)
  BY <1>17 DEF SizeRead, manager, locals, Quiet, Calm, Lagging, Due, MayCall, LockSites
<1>18. CASE \E t \in Threads : UpdateSkip(t)
  BY <1>18 DEF UpdateSkip, manager, locals, Visiting, Quiet, Calm, Lagging, Due, MayCall, LockSites
<1>19. CASE \E t \in Threads : Defined /\ UpdateFire(t)
  BY <1>19
<1>20. CASE \E t \in Threads : CallbackReturn(t)
  BY <1>20 DEF CallbackReturn, manager, locals, Quiet, Calm, Lagging, Due, MayCall, LockSites
<1>21. CASE \E t \in Threads : Defined /\ UpdateAdvance(t)
  BY <1>21
<1>22. CASE \E t \in Threads : UpdateNext(t)
  BY <1>22 DEF UpdateNext, manager, locals, Quiet, Calm, Lagging, Due, MayCall, LockSites
<1>23. CASE \E t \in Threads : UpdateDone(t)
  BY <1>23 DEF UpdateDone, manager, locals, Quiet, Calm, Lagging, Due, MayCall, LockSites
<1>24. CASE \E t \in Threads : Defined /\ FreeEntries(t)
  BY <1>24
<1>25. CASE \E t \in Threads : FreeUnlock(t)
  BY <1>25 DEF FreeUnlock, manager, locals, Quiet, Calm, Lagging, Due, MayCall, LockSites
<1>26. CASE \E t \in Threads : FreeDestroy(t)
  <2> PICK t \in Threads : FreeDestroy(t)
    BY <1>26
  <2>1. /\ (pc[t] = "free_destroy" /\ Return(t)) \/ UNCHANGED <<pc, locals>>
        /\ life' # "live"
        /\ UNCHANGED <<clock, list>>
    BY DEF FreeDestroy
  <2>2. Calm
    BY <2>1 DEF FreeDestroy, Calm, Lagging, Due, locals
  <2> QED
    BY <2>1, <2>2 DEF Quiet, Disposal
<1>27. CASE UNCHANGED vars
  BY <1>27 DEF vars, Quiet, Calm, Lagging, Due, MayCall, LockSites
<1>28. CASE \E t \in Threads : Stray(t)
  BY <1>28 DEF Stray, manager, locals, Quiet, Calm, Lagging, Due, MayCall, LockSites
<1> QED
  BY <1>1, <1>2, <1>3, <1>4, <1>5, <1>6, <1>7, <1>8, <1>9, <1>10, <1>11, <1>12, <1>13, <1>14, <1>15, <1>16, <1>17, <1>18, <1>19, <1>20, <1>21, <1>22, <1>23, <1>24, <1>25, <1>26, <1>27, <1>28 DEF Next, Call, Run

(* The clock never goes back behind the moment of an update. *)
LEMMA NowStep == IInv /\ NowPassed /\ [Next]_vars => NowPassed'
<1> SUFFICES ASSUME IInv, NowPassed, [Next]_vars
             PROVE  NowPassed'
  OBVIOUS
<1> clock \in Nat /\ now \in [Threads -> Nat]
  BY DEF IInv, TypeOK
<1> USE DEF Goto, Return, UnlockReturn, MayCall, Counted
<1>1. CASE Create
  BY <1>1 DEF Create, manager, locals, vars, NowPassed
<1>2. CASE Tick
  BY <1>2 DEF Tick, manager, locals, vars, NowPassed
<1>3. CASE Finished
  BY <1>3 DEF Finished, vars, NowPassed
<1>4. CASE \E t \in Threads : CallAdd(t)
  BY <1>4 DEF CallAdd, manager, locals, NowPassed
<1>5. CASE \E t \in Threads : CallRemove(t)
  BY <1>5 DEF CallRemove, manager, locals, NowPassed
<1>6. CASE \E t \in Threads : CallUpdate(t)
  BY <1>6 DEF CallUpdate, manager, locals, NowPassed
<1>7. CASE \E t \in Threads : CallSize(t)
  BY <1>7 DEF CallSize, manager, locals, NowPassed
<1>8. CASE \E t \in Threads : CallFree(t)
  BY <1>8 DEF CallFree, manager, locals, NowPassed
<1>9. CASE \E t \in Threads : Lock(t)
  BY <1>9 DEF Lock, manager, locals, AfterLock, NowPassed
<1>10. CASE \E t \in Threads : CallbackReenter(t)
  BY <1>10 DEF CallbackReenter, manager, locals, NowPassed
<1>11. CASE \E t \in Threads : AddFind(t)
  BY <1>11 DEF AddFind, manager, locals, NowPassed
<1>12. CASE \E t \in Threads : AddMalloc(t)
  BY <1>12 DEF AddMalloc, manager, locals, NowPassed
<1>13. CASE \E t \in Threads : AddStrdup(t)
  BY <1>13 DEF AddStrdup, manager, locals, NowPassed
<1>14. CASE \E t \in Threads : AddClock(t)
  BY <1>14 DEF AddClock, manager, locals, NowPassed
<1>15. CASE \E t \in Threads : AddLink(t)
  BY <1>15 DEF AddLink, manager, locals, NowPassed
<1>16. CASE \E t \in Threads : RemoveFind(t)
  BY <1>16 DEF RemoveFind, manager, locals, NowPassed
<1>17. CASE \E t \in Threads : SizeRead(t)
  BY <1>17 DEF SizeRead, manager, locals, NowPassed
<1>18. CASE \E t \in Threads : UpdateSkip(t)
  BY <1>18 DEF UpdateSkip, manager, locals, Visiting, NowPassed
<1>19. CASE \E t \in Threads : UpdateFire(t)
  BY <1>19 DEF UpdateFire, manager, locals, Visiting, NowPassed
<1>20. CASE \E t \in Threads : CallbackReturn(t)
  BY <1>20 DEF CallbackReturn, manager, locals, NowPassed
<1>21. CASE \E t \in Threads : UpdateAdvance(t)
  BY <1>21 DEF UpdateAdvance, manager, locals, NowPassed
<1>22. CASE \E t \in Threads : UpdateNext(t)
  BY <1>22 DEF UpdateNext, manager, locals, NowPassed
<1>23. CASE \E t \in Threads : UpdateDone(t)
  BY <1>23 DEF UpdateDone, manager, locals, NowPassed
<1>24. CASE \E t \in Threads : FreeEntries(t)
  BY <1>24 DEF FreeEntries, manager, locals, NowPassed
<1>25. CASE \E t \in Threads : FreeUnlock(t)
  BY <1>25 DEF FreeUnlock, manager, locals, NowPassed
<1>26. CASE \E t \in Threads : FreeDestroy(t)
  BY <1>26 DEF FreeDestroy, manager, locals, NowPassed
<1>27. CASE UNCHANGED vars
  BY <1>27 DEF vars, NowPassed
<1>28. CASE \E t \in Threads : Stray(t)
  BY <1>28 DEF Stray, manager, locals, NowPassed
<1> QED
  BY <1>1, <1>2, <1>3, <1>4, <1>5, <1>6, <1>7, <1>8, <1>9, <1>10, <1>11, <1>12, <1>13, <1>14, <1>15, <1>16, <1>17, <1>18, <1>19, <1>20, <1>21, <1>22, <1>23, <1>24, <1>25, <1>26, <1>27, <1>28 DEF Next, Call, Run

(* timer_add does not lose sight of the moment its timer counts from. *)
LEMMA FreshStep == IInv /\ EntriesFresh /\ [Next]_vars => EntriesFresh'
<1> SUFFICES ASSUME IInv, EntriesFresh, [Next]_vars
             PROVE  EntriesFresh'
  OBVIOUS
<1> clock \in Nat /\ DOMAIN pc = Threads /\ DOMAIN entry = Threads
  BY DEF IInv, TypeOK
<1> USE DEF Goto, Return, UnlockReturn, MayCall, Counted
<1>1. CASE Create
  BY <1>1 DEF Create, manager, locals, vars, EntriesFresh, FreshEntry, AddBody, LockSites, FreeSites
<1>2. CASE Tick
  BY <1>2 DEF Tick, manager, locals, vars, EntriesFresh, FreshEntry, AddBody, LockSites, FreeSites
<1>3. CASE Finished
  BY <1>3 DEF Finished, vars, EntriesFresh, FreshEntry, AddBody, LockSites, FreeSites
<1>4. CASE \E t \in Threads : CallAdd(t)
  BY <1>4 DEF CallAdd, manager, locals, EntriesFresh, FreshEntry, AddBody, LockSites, FreeSites
<1>5. CASE \E t \in Threads : CallRemove(t)
  BY <1>5 DEF CallRemove, manager, locals, EntriesFresh, FreshEntry, AddBody, LockSites, FreeSites
<1>6. CASE \E t \in Threads : CallUpdate(t)
  BY <1>6 DEF CallUpdate, manager, locals, EntriesFresh, FreshEntry, AddBody, LockSites, FreeSites
<1>7. CASE \E t \in Threads : CallSize(t)
  BY <1>7 DEF CallSize, manager, locals, EntriesFresh, FreshEntry, AddBody, LockSites, FreeSites
<1>8. CASE \E t \in Threads : CallFree(t)
  BY <1>8 DEF CallFree, manager, locals, EntriesFresh, FreshEntry, AddBody, LockSites, FreeSites
<1>9. CASE \E t \in Threads : Lock(t)
  BY <1>9 DEF Lock, manager, locals, AfterLock, EntriesFresh, FreshEntry, AddBody, LockSites, FreeSites
<1>10. CASE \E t \in Threads : CallbackReenter(t)
  BY <1>10 DEF CallbackReenter, manager, locals, EntriesFresh, FreshEntry, AddBody, LockSites, FreeSites
<1>11. CASE \E t \in Threads : AddFind(t)
  BY <1>11 DEF AddFind, manager, locals, EntriesFresh, FreshEntry, AddBody, LockSites, FreeSites
<1>12. CASE \E t \in Threads : AddMalloc(t)
  BY <1>12 DEF AddMalloc, manager, locals, EntriesFresh, FreshEntry, AddBody, LockSites, FreeSites
<1>13. CASE \E t \in Threads : AddStrdup(t)
  BY <1>13 DEF AddStrdup, manager, locals, EntriesFresh, FreshEntry, AddBody, LockSites, FreeSites
<1>14. CASE \E t \in Threads : AddClock(t)
  <2> PICK t \in Threads : AddClock(t)
    BY <1>14
  <2> DEFINE d == clock + entry[t].interval
             e == [entry[t] EXCEPT !.start = d, !.due = d]
  <2>1. pc[t] = "add_clock" /\ clock' = clock
    BY DEF AddClock
  <2>2. entry[t] \in Entry
    BY <2>1 DEF IInv, LocalsOK, AddBody
  <2>3. CASE Return(t)
    BY <2>1, <2>3 DEF EntriesFresh, FreshEntry, AddBody
  <2>4. CASE entry' = [entry EXCEPT ![t] = e] /\ pc' = [pc EXCEPT ![t] = "add_link"]
    <3>1. /\ e.due = d /\ e.start = d
          /\ e.interval = entry[t].interval /\ e.fired = entry[t].fired
      BY <2>2 DEF Entry
    <3>2. entry[t].fired = 0
      BY <2>1 DEF EntriesFresh, AddBody
    <3> HIDE DEF e
    <3>3. FreshEntry(e)
      BY <3>1, <3>2 DEF FreshEntry
    <3> QED
      BY <2>1, <2>4, <3>1, <3>2, <3>3 DEF EntriesFresh, FreshEntry, AddBody
  <2> QED
    BY <2>3, <2>4 DEF AddClock
<1>15. CASE \E t \in Threads : AddLink(t)
  BY <1>15 DEF AddLink, manager, locals, EntriesFresh, FreshEntry, AddBody, LockSites, FreeSites
<1>16. CASE \E t \in Threads : RemoveFind(t)
  BY <1>16 DEF RemoveFind, manager, locals, EntriesFresh, FreshEntry, AddBody, LockSites, FreeSites
<1>17. CASE \E t \in Threads : SizeRead(t)
  BY <1>17 DEF SizeRead, manager, locals, EntriesFresh, FreshEntry, AddBody, LockSites, FreeSites
<1>18. CASE \E t \in Threads : UpdateSkip(t)
  BY <1>18 DEF UpdateSkip, manager, locals, Visiting, EntriesFresh, FreshEntry, AddBody, LockSites, FreeSites
<1>19. CASE \E t \in Threads : UpdateFire(t)
  BY <1>19 DEF UpdateFire, manager, locals, Visiting, EntriesFresh, FreshEntry, AddBody, LockSites, FreeSites
<1>20. CASE \E t \in Threads : CallbackReturn(t)
  BY <1>20 DEF CallbackReturn, manager, locals, EntriesFresh, FreshEntry, AddBody, LockSites, FreeSites
<1>21. CASE \E t \in Threads : UpdateAdvance(t)
  BY <1>21 DEF UpdateAdvance, manager, locals, EntriesFresh, FreshEntry, AddBody, LockSites, FreeSites
<1>22. CASE \E t \in Threads : UpdateNext(t)
  BY <1>22 DEF UpdateNext, manager, locals, EntriesFresh, FreshEntry, AddBody, LockSites, FreeSites
<1>23. CASE \E t \in Threads : UpdateDone(t)
  BY <1>23 DEF UpdateDone, manager, locals, EntriesFresh, FreshEntry, AddBody, LockSites, FreeSites
<1>24. CASE \E t \in Threads : FreeEntries(t)
  BY <1>24 DEF FreeEntries, manager, locals, EntriesFresh, FreshEntry, AddBody, LockSites, FreeSites
<1>25. CASE \E t \in Threads : FreeUnlock(t)
  BY <1>25 DEF FreeUnlock, manager, locals, EntriesFresh, FreshEntry, AddBody, LockSites, FreeSites
<1>26. CASE \E t \in Threads : FreeDestroy(t)
  BY <1>26 DEF FreeDestroy, manager, locals, EntriesFresh, FreshEntry, AddBody, LockSites, FreeSites
<1>27. CASE UNCHANGED vars
  BY <1>27 DEF vars, EntriesFresh, FreshEntry, AddBody, LockSites, FreeSites
<1>28. CASE \E t \in Threads : Stray(t)
  BY <1>28 DEF Stray, manager, locals, EntriesFresh, FreshEntry, AddBody, LockSites, FreeSites
<1> QED
  BY <1>1, <1>2, <1>3, <1>4, <1>5, <1>6, <1>7, <1>8, <1>9, <1>10, <1>11, <1>12, <1>13, <1>14, <1>15, <1>16, <1>17, <1>18, <1>19, <1>20, <1>21, <1>22, <1>23, <1>24, <1>25, <1>26, <1>27, <1>28 DEF Next, Call, Run

(* Entering a callback counts one call of the timer at the cursor. *)
LEMMA FireWrites ==
  ASSUME TypeOK, NEW t \in Threads, UpdateFire(t)
  PROVE  /\ pos[t] \in Indices
         /\ list[pos[t]] \in Entry
         /\ list'[pos[t]] = [list[pos[t]] EXCEPT !.fired = list[pos[t]].fired + 1]
         /\ \A i \in Indices : i # pos[t] => list'[i] = list[i]
<1> DEFINE p == pos[t]
           e == [list[p] EXCEPT !.fired = list[p].fired + 1]
<1>1. p \in Indices /\ list[p] \in Entry
  BY ListProperties DEF TypeOK, UpdateFire, Visiting
<1>5. list \in Seq(Entry)
  BY DEF TypeOK
<1>2. e \in Entry /\ e.name = list[p].name
  BY <1>1 DEF Entry
<1>3. list' = [list EXCEPT ![p] = e]
  BY DEF UpdateFire
<1> HIDE DEF p, e
<1>4. list'[p] = e /\ \A i \in Indices : i # p => list'[i] = list[i]
  BY <1>1, <1>2, <1>3, <1>5, TouchProperties
<1> QED
  BY <1>1, <1>4 DEF p, e

(* An iteration of the catch-up loop moves the due time of the timer at
   the cursor by one interval. *)
LEMMA AdvanceWrites ==
  ASSUME TypeOK, LocalsOK, NEW t \in Threads, UpdateAdvance(t)
  PROVE  /\ pos[t] \in Indices
         /\ list[pos[t]] \in Entry
         /\ list'[pos[t]] = [list[pos[t]] EXCEPT !.due = list[pos[t]].due + list[pos[t]].interval]
         /\ \A i \in Indices : i # pos[t] => list'[i] = list[i]
<1> DEFINE p == pos[t]
           e == [list[p] EXCEPT !.due = list[p].due + list[p].interval]
<1>1. p \in Indices /\ list[p] \in Entry
  BY ListProperties DEF TypeOK, LocalsOK, UpdateAdvance, UpdateBody
<1>5. list \in Seq(Entry)
  BY DEF TypeOK
<1>2. e \in Entry /\ e.name = list[p].name
  BY <1>1, TimerAssumption DEF Entry
<1>3. list' = [list EXCEPT ![p] = e]
  BY DEF UpdateAdvance
<1> HIDE DEF p, e
<1>4. list'[p] = e /\ \A i \in Indices : i # p => list'[i] = list[i]
  BY <1>1, <1>2, <1>3, <1>5, TouchProperties
<1> QED
  BY <1>1, <1>4 DEF p, e

(* The parts of the timetable for one timer e, at the moment c. *)
KeepsUp(e) == e.start + e.fired * e.interval <= e.due

OneBehind(e) == e.start + e.fired * e.interval <= e.due + e.interval

NotEarly(e, c) == e.fired > 0 => e.start + (e.fired - 1) * e.interval <= c

OnTable(e, c) == \E k \in 0..(c + 1) : e.due = e.start + k * e.interval

LEMMA TimetableParts ==
  /\ NeverEarly <=> \A i \in Indices : NotEarly(list[i], clock)
  /\ OnTimetable <=> \A i \in Indices : OnTable(list[i], clock)
  /\ DueKeepsUp <=> \A i \in Indices :
       \/ KeepsUp(list[i])
       \/ /\ \E t \in Threads : Lagging(t) /\ pos[t] = i
          /\ OneBehind(list[i])
BY Zenon DEF NeverEarly, OnTimetable, DueKeepsUp, NotEarly, OnTable, KeepsUp,
             OneBehind

(* Distributing one more period. *)
LEMMA OnePeriodMore ==
  ASSUME NEW k \in Nat, NEW i \in Nat
  PROVE  /\ (k + 1) * i = k * i + i
         /\ k * i \in Nat
         /\ i > 0 => k <= k * i
OBVIOUS

(* A timer that is called when its due time has come is not called early. *)
LEMMA FireKeepsTable ==
  ASSUME NEW e \in Entry, NEW f, f = [e EXCEPT !.fired = e.fired + 1],
         NEW c \in Nat, e.due <= c, KeepsUp(e), OnTable(e, c)
  PROVE  NotEarly(f, c) /\ OnTable(f, c) /\ OneBehind(f)
<1>1. /\ e.start \in Nat /\ e.due \in Nat /\ e.fired \in Nat /\ e.interval \in Nat
      /\ f.start = e.start /\ f.due = e.due /\ f.interval = e.interval
      /\ f.fired = e.fired + 1
  BY TimerAssumption DEF Entry
<1>2. OnTable(f, c)
  BY <1>1 DEF OnTable
<1> DEFINE x == e.fired * e.interval
<1>3. (e.fired + 1) * e.interval = x + e.interval /\ x \in Nat
  BY <1>1, OnePeriodMore
<1>4. e.start + x <= e.due
  BY DEF KeepsUp
<1>5. (f.fired - 1) * f.interval = x
  BY <1>1
<1>6. f.fired * f.interval = x + e.interval
  BY <1>1, <1>3
<1> HIDE DEF x
<1>7. NotEarly(f, c)
  BY <1>1, <1>3, <1>4, <1>5 DEF NotEarly
<1>8. OneBehind(f)
  BY <1>1, <1>3, <1>4, <1>6 DEF OneBehind
<1> QED
  BY <1>2, <1>7, <1>8

(* Moving a due time that has come keeps it on the timetable. *)
LEMMA AdvanceKeepsTable ==
  ASSUME NEW e \in Entry, NEW f, f = [e EXCEPT !.due = e.due + e.interval],
         NEW c \in Nat, e.due <= c, OnTable(e, c), NotEarly(e, c)
  PROVE  /\ NotEarly(f, c) /\ OnTable(f, c)
         /\ KeepsUp(e) => KeepsUp(f)
         /\ OneBehind(e) => KeepsUp(f)
<1>1. /\ e.start \in Nat /\ e.due \in Nat /\ e.fired \in Nat /\ e.interval \in Nat
      /\ f.start = e.start /\ f.due = e.due + e.interval
      /\ f.interval = e.interval /\ f.fired = e.fired
  BY TimerAssumption DEF Entry
<1>2. NotEarly(f, c)
  BY <1>1 DEF NotEarly
<1>3. e.fired * e.interval \in Nat
  BY <1>1, OnePeriodMore
<1>4. (KeepsUp(e) => KeepsUp(f)) /\ (OneBehind(e) => KeepsUp(f))
  BY <1>1, <1>3 DEF KeepsUp, OneBehind
<1>5. OnTable(f, c)
  <2> PICK k \in 0..(c + 1) : e.due = e.start + k * e.interval
    BY DEF OnTable
  <2>1. CASE e.interval = 0
    <3>1. f.due = f.start + k * f.interval
      BY <1>1, <2>1
    <3> QED
      BY <3>1 DEF OnTable
  <2>2. CASE e.interval > 0
    <3>1. k \in Nat /\ k + 1 \in Nat
      OBVIOUS
    <3>2. /\ (k + 1) * e.interval = k * e.interval + e.interval
          /\ k * e.interval \in Nat
          /\ k <= k * e.interval
      BY <1>1, <2>2, <3>1, OnePeriodMore
    <3> DEFINE y == k * e.interval
    <3> HIDE DEF y
    <3>3. e.due = e.start + y /\ y \in Nat /\ k <= y
      BY <3>2 DEF y
    <3>4. k + 1 \in 0..(c + 1)
      BY <1>1, <3>1, <3>3
    <3>5. f.due = f.start + (k + 1) * f.interval
      <4>1. (k + 1) * f.interval = y + e.interval
        BY <1>1, <3>2 DEF y
      <4> QED
        BY <1>1, <3>3, <4>1
    <3> QED
      BY <3>4, <3>5 DEF OnTable
  <2> QED
    BY <1>1, <2>1, <2>2
<1> QED
  BY <1>2, <1>4, <1>5

(* A timer that was just made is on its timetable. *)
LEMMA FreshKeepsTable ==
  ASSUME NEW e \in Entry, NEW c \in Nat, e.due = e.start, e.fired = 0
  PROVE  NotEarly(e, c) /\ OnTable(e, c) /\ KeepsUp(e)
<1>1. e.start \in Nat /\ e.interval \in Nat
  BY TimerAssumption DEF Entry
<1>2. 0 * e.interval = 0 /\ 0 \in 0..(c + 1)
  BY <1>1
<1>3. e.due = e.start + 0 * e.interval
  BY <1>1, <1>2
<1>4. OnTable(e, c)
  BY <1>2, <1>3 DEF OnTable
<1>5. NotEarly(e, c)
  BY DEF NotEarly
<1>6. KeepsUp(e)
  BY <1>1, <1>2 DEF KeepsUp
<1> QED
  BY <1>4, <1>5, <1>6

(* Time alone makes nobody early. *)
LEMMA TimeKeepsTable ==
  ASSUME NEW e \in Entry, NEW c \in Nat, NotEarly(e, c), OnTable(e, c)
  PROVE  NotEarly(e, c + 1) /\ OnTable(e, c + 1)
<1>1. OnTable(e, c + 1)
  <2>1. \A k \in 0..(c + 1) : k \in 0..((c + 1) + 1)
    OBVIOUS
  <2> QED
    BY <2>1 DEF OnTable
<1>2. NotEarly(e, c + 1)
  <2>1. /\ e.start \in Nat /\ e.fired \in Nat /\ e.interval \in Nat
    BY TimerAssumption DEF Entry
  <2>2. ASSUME e.fired > 0
        PROVE  e.start + (e.fired - 1) * e.interval <= c + 1
    <3>1. e.fired - 1 \in Nat
      BY <2>1, <2>2
    <3>2. (e.fired - 1) * e.interval \in Nat
      BY <2>1, <3>1, OnePeriodMore
    <3>3. e.start + (e.fired - 1) * e.interval <= c
      BY <2>2 DEF NotEarly
    <3> QED
      BY <2>1, <3>2, <3>3
  <2> QED
    BY <2>2 DEF NotEarly
<1> QED
  BY <1>1, <1>2

(* The thread with the mutex is the only one that may be serving a timer. *)
LEMMA OneServes ==
  ASSUME IInv, NEW t \in Threads, pc[t] \in Body, ~ Lagging(t)
  PROVE  \A u \in Threads : ~ Lagging(u)
BY Zenon DEF IInv, MutualExclusion, Lagging, Body, UpdateBody

(* Linking a fresh entry, or taking one out, while nobody serves a timer
   keeps all timers on their timetables. *)
LEMMA ListTimetable ==
  ASSUME TypeOK, TInv, \A u \in Threads : ~ Lagging(u), clock' = clock,
         \A i \in Indices' :
           \/ \E j \in Indices : list'[i] = list[j]
           \/ NotEarly(list'[i], clock) /\ OnTable(list'[i], clock) /\ KeepsUp(list'[i])
  PROVE  DueKeepsUp' /\ NeverEarly' /\ OnTimetable'
<1>1. \A i \in Indices : /\ NotEarly(list[i], clock)
                         /\ OnTable(list[i], clock)
                         /\ KeepsUp(list[i])
  BY TimetableParts DEF TInv
<1>2. \A i \in Indices' : /\ NotEarly(list'[i], clock')
                          /\ OnTable(list'[i], clock')
                          /\ KeepsUp(list'[i])
  BY <1>1
<1>3. NeverEarly' /\ OnTimetable'
  BY <1>2, Zenon DEF NeverEarly, OnTimetable, NotEarly, OnTable
<1>4. DueKeepsUp'
  BY <1>2, Zenon DEF DueKeepsUp, KeepsUp
<1> QED
  BY <1>3, <1>4

(* The step of the timetable. *)
LEMMA TimetableStep ==
  ASSUME IInv, TInv, [Next]_vars
  PROVE  DueKeepsUp' /\ NeverEarly' /\ OnTimetable'
<1> TypeOK /\ LocalsOK /\ list \in Seq(Entry) /\ clock \in Nat
  BY DEF IInv, TypeOK
<1> SUFFICES /\ \A i \in Indices' : NotEarly(list'[i], clock') /\ OnTable(list'[i], clock')
             /\ \A i \in Indices' :
                  \/ KeepsUp(list'[i])
                  \/ /\ \E u \in Threads : Lagging(u)' /\ pos'[u] = i
                     /\ OneBehind(list'[i])
  BY Zenon DEF NeverEarly, OnTimetable, DueKeepsUp, NotEarly, OnTable, KeepsUp,
               OneBehind
<1>a. /\ \A i \in Indices : NotEarly(list[i], clock) /\ OnTable(list[i], clock)
      /\ \A i \in Indices :
           \/ KeepsUp(list[i])
           \/ /\ \E u \in Threads : Lagging(u) /\ pos[u] = i
              /\ OneBehind(list[i])
  BY TimetableParts DEF TInv
<1>b. \A u \in Threads : now[u] \in Nat /\ now[u] <= clock
  BY DEF TInv, NowPassed, TypeOK
<1>1. CASE Create
  <2>1. Indices' = {}
    BY <1>1, EmptySeq, LenProperties DEF Create, Indices
  <2> QED
    BY <2>1
<1>2. CASE Tick
  <2>1. /\ clock' = clock + 1
        /\ UNCHANGED <<list, pc, now, pos>>
    BY <1>2 DEF Tick, manager, locals
  <2>2. /\ \A u \in Threads : Lagging(u)' <=> Lagging(u)
        /\ Indices' = Indices
    BY <2>1 DEF Lagging, Due, Indices
  <2>3. \A i \in Indices : NotEarly(list[i], clock + 1) /\ OnTable(list[i], clock + 1)
    BY <1>a, ListProperties, TimeKeepsTable
  <2> QED
    BY <1>a, <2>1, <2>2, <2>3
<1>3. CASE Calm
  <2>1. UNCHANGED <<clock, list>> /\ Indices' = Indices
    BY <1>3 DEF Calm, Indices
  <2>2. \A u \in Threads : Lagging(u) => Lagging(u)' /\ pos'[u] = pos[u]
    BY <1>3 DEF Calm
  <2> QED
    BY <1>a, <2>1, <2>2
<1>4. ASSUME NEW t \in Threads, AddLink(t)
      PROVE  DueKeepsUp' /\ NeverEarly' /\ OnTimetable'
  <2>1. pc[t] = "add_link" /\ clock' = clock
    BY <1>4 DEF AddLink
  <2>2. \A u \in Threads : ~ Lagging(u)
    BY <2>1, OneServes DEF Body, AddBody, Lagging
  <2>3. /\ entry[t] \in Entry
        /\ Len(list) \in Nat
        /\ Indices = 1..Len(list) /\ Indices' = 1..Len(list) + 1
        /\ list'[1] = entry[t]
        /\ \A i \in Indices : list'[i + 1] = list[i]
    BY <1>4, LinkEffect, ListProperties
  <2>4. NotEarly(list'[1], clock) /\ OnTable(list'[1], clock) /\ KeepsUp(list'[1])
    <3>1. entry[t].due = entry[t].start /\ entry[t].fired = 0
      BY <2>1 DEF TInv, EntriesFresh, FreshEntry
    <3> QED
      BY <2>3, <3>1, FreshKeepsTable
  <2>5. \A i \in Indices' : i = 1 \/ (i - 1 \in Indices /\ list'[i] = list[i - 1])
    BY <2>3
  <2> QED
    BY <2>1, <2>2, <2>4, <2>5, ListTimetable
<1>5. ASSUME NEW t \in Threads, RemoveFind(t)
      PROVE  DueKeepsUp' /\ NeverEarly' /\ OnTimetable'
  <2>1. pc[t] = "remove_find" /\ clock' = clock
    BY <1>5 DEF RemoveFind
  <2>2. \A u \in Threads : ~ Lagging(u)
    BY <2>1, OneServes DEF Body, Lagging
  <2>3. \A i \in Indices' : \E j \in Indices : list'[i] = list[j]
    <3>1. CASE UNCHANGED list
      BY <3>1 DEF Indices
    <3>2. CASE \E i \in Indices : list' = RemoveAt(list, i)
      <4> PICK i \in Indices : list' = RemoveAt(list, i)
        BY <3>2
      <4>1. \A j \in Indices' : /\ (IF j < i THEN j ELSE j + 1) \in Indices
                                /\ list'[j] = list[IF j < i THEN j ELSE j + 1]
        BY UnlinkEffect, ListProperties
      <4> QED
        BY <4>1
    <3> QED
      BY <1>5, <3>1, <3>2 DEF RemoveFind
  <2> QED
    BY <2>1, <2>2, <2>3, ListTimetable
<1>6. ASSUME NEW t \in Threads, UpdateFire(t)
      PROVE  /\ \A i \in Indices' : NotEarly(list'[i], clock') /\ OnTable(list'[i], clock')
             /\ \A i \in Indices' :
                  \/ KeepsUp(list'[i])
                  \/ /\ \E u \in Threads : Lagging(u)' /\ pos'[u] = i
                     /\ OneBehind(list'[i])
  <2> DEFINE p == pos[t]
             e == list[p]
             f == [e EXCEPT !.fired = e.fired + 1]
  <2>1. /\ pc[t] = "update_visit" /\ e.due <= now[t]
        /\ pc' = [pc EXCEPT ![t] = "update_callback"]
        /\ UNCHANGED <<clock, now, pos>>
    BY <1>6 DEF UpdateFire, Visiting, Due, locals, Goto
  <2>2. \A u \in Threads : ~ Lagging(u)
    BY <2>1, OneServes DEF Body, UpdateBody, Lagging
  <2>3. /\ p \in Indices /\ e \in Entry /\ list'[p] = f
        /\ \A i \in Indices : i # p => list'[i] = list[i]
    BY <1>6, FireWrites
  <2>4. Indices' = Indices
    BY <1>6, FireEffect
  <2>5. e.due <= clock
    BY <1>b, <2>1, <2>3 DEF Entry
  <2>6. /\ NotEarly(f, clock) /\ OnTable(f, clock) /\ OneBehind(f)
        /\ f.due = e.due
    BY <1>a, <2>2, <2>3, <2>5, FireKeepsTable DEF Entry
  <2> HIDE DEF f, e, p
  <2>7. Lagging(t)' /\ pos'[t] = p
    <3>1. pc'[t] = "update_callback"
      BY <2>1 DEF IInv, TypeOK
    <3>2. list'[pos'[t]].due <= now'[t]
      BY <2>1, <2>3, <2>6 DEF p
    <3> QED
      BY <2>1, <3>1, <3>2 DEF Lagging, Due, p
  <2> QED
    BY <1>a, <2>1, <2>2, <2>3, <2>4, <2>6, <2>7
<1>7. ASSUME NEW t \in Threads, UpdateAdvance(t)
      PROVE  /\ \A i \in Indices' : NotEarly(list'[i], clock') /\ OnTable(list'[i], clock')
             /\ \A i \in Indices' :
                  \/ KeepsUp(list'[i])
                  \/ /\ \E u \in Threads : Lagging(u)' /\ pos'[u] = i
                     /\ OneBehind(list'[i])
  <2> DEFINE p == pos[t]
             e == list[p]
             f == [e EXCEPT !.due = e.due + e.interval]
  <2>1. pc[t] = "update_advance" /\ e.due <= now[t] /\ clock' = clock
    BY <1>7 DEF UpdateAdvance, Due
  <2>2. \A u \in Threads : Lagging(u) => u = t
    <3>1. mutex = t
      BY <2>1, Zenon DEF IInv, MutualExclusion, Body, UpdateBody
    <3>2. \A u \in Threads : Lagging(u) => mutex = u
      BY Zenon DEF IInv, MutualExclusion, Lagging, Body, UpdateBody
    <3> QED
      BY <3>1, <3>2
  <2>3. /\ p \in Indices /\ e \in Entry /\ list'[p] = f
        /\ \A i \in Indices : i # p => list'[i] = list[i]
    BY <1>7, AdvanceWrites
  <2>4. Indices' = Indices
    BY <1>7, AdvanceEffect
  <2>5. e.due <= clock
    BY <1>b, <2>1, <2>3 DEF Entry
  <2>6. NotEarly(f, clock) /\ OnTable(f, clock) /\ KeepsUp(f)
    BY <1>a, <2>3, <2>5, AdvanceKeepsTable
  <2>7. \A i \in Indices : i # p => KeepsUp(list[i])
    BY <1>a, <2>2
  <2> HIDE DEF f, e, p
  <2> QED
    BY <1>a, <2>1, <2>3, <2>4, <2>6, <2>7
<1>8. ASSUME NEW t \in Threads, FreeEntries(t)
      PROVE  \A i \in Indices' : FALSE
  BY <1>8, EmptySeq, LenProperties DEF FreeEntries, Indices
<1>9. ASSUME DueKeepsUp' /\ NeverEarly' /\ OnTimetable'
      PROVE  /\ \A i \in Indices' : NotEarly(list'[i], clock') /\ OnTable(list'[i], clock')
             /\ \A i \in Indices' :
                  \/ KeepsUp(list'[i])
                  \/ /\ \E u \in Threads : Lagging(u)' /\ pos'[u] = i
                     /\ OneBehind(list'[i])
  BY <1>9, Zenon DEF NeverEarly, OnTimetable, DueKeepsUp, NotEarly, OnTable, KeepsUp,
               OneBehind
<1> QED
  BY <1>1, <1>2, <1>3, <1>4, <1>5, <1>6, <1>7, <1>8, <1>9, StepKinds DEF Quiet, Disposal

(* The timetable is kept in every reachable state. *)
THEOREM TimetableInvariance == Spec => []TInv
<1>1. Init => TInv
  <2> SUFFICES ASSUME Init
               PROVE  TInv
    OBVIOUS
  <2>1. Indices = {}
    BY EmptySeq, LenProperties DEF Init, Indices
  <2> QED
    BY <2>1 DEF Init, TInv, NowPassed, EntriesFresh, AddBody, DueKeepsUp,
                NeverEarly, OnTimetable
<1>2. IInv /\ TInv /\ [Next]_vars => TInv'
  BY NowStep, FreshStep, TimetableStep DEF TInv
<1> QED
  BY <1>1, <1>2, Invariance, PTL DEF Spec

(* No timer is called before its due time, and due times are those of its
   timetable, however late, often or concurrently timer_update runs
   (timer.c:319-348). *)
THEOREM TimersKeepTheirTimetable == Spec => []KeepsTimetable
<1>1. TInv => KeepsTimetable
  BY DEF TInv, KeepsTimetable
<1> QED
  BY <1>1, TimetableInvariance, PTL

-----------------------------------------------------------------------------
(***************************************************************************)
(* The locked list implements the registry of TimerService.                *)
(***************************************************************************)
(* What the loop of timer_update reaches does not depend on how many of its
   iterations are still to come. *)
LEMMA NextDueProperties ==
  ASSUME NEW d \in Nat, NEW i \in Nat \ {0}, NEW n \in Nat, d <= n
  PROVE  /\ d + i > n => NextDue(d, i, n) = d + i
         /\ d + i <= n => NextDue(d + i, i, n) = NextDue(d, i, n)
<1> DEFINE q == (n - d) \div i
<1>1. q \in Int /\ i * q <= n - d /\ n - d < i * q + i
  OBVIOUS
<1>2. ASSUME d + i > n PROVE NextDue(d, i, n) = d + i
  <2>1. (n - d) \div i = 0
    BY <1>2
  <2> QED
    BY <2>1 DEF NextDue
<1>3. ASSUME d + i <= n PROVE NextDue(d + i, i, n) = NextDue(d, i, n)
  <2>1. (n - (d + i)) \div i = q - 1
    BY <1>3
  <2> HIDE DEF q
  <2>2. i * ((q - 1) + 1) = i * q /\ i * (q + 1) = i * q + i
    BY <1>1
  <2>3. NextDue(d + i, i, n) = (d + i) + i * ((q - 1) + 1)
    BY <2>1 DEF NextDue
  <2>4. NextDue(d, i, n) = d + i * (q + 1)
    BY DEF NextDue, q
  <2>5. i * q \in Int
    BY <1>1
  <2> QED
    BY <1>1, <2>2, <2>3, <2>4, <2>5
<1> QED
  BY <1>2, <1>3

(* The due time the registry shows: that of the list, or, while the timer is
   served, the one that the loop will reach. *)
LEMMA PromisedNow ==
  ASSUME MutualExclusion, NEW i
  PROVE  /\ \A t \in Threads : Lagging(t) /\ pos[t] = i =>
              PromisedDue(i) = NextDue(list[i].due, list[i].interval, now[t])
         /\ (\A t \in Threads : ~ (Lagging(t) /\ pos[t] = i)) =>
              PromisedDue(i) = list[i].due
<1>1. ASSUME NEW t \in Threads, Lagging(t), pos[t] = i
      PROVE  PromisedDue(i) = NextDue(list[i].due, list[i].interval, now[t])
  <2>1. t \in Serving(i) /\ Due(t)
    BY <1>1 DEF Serving, Lagging
  <2>2. \A u \in Serving(i) : u = t
    <3>1. mutex = t
      BY <1>1, Zenon DEF MutualExclusion, Lagging, Body, UpdateBody
    <3>2. \A u \in Serving(i) : mutex = u
      BY Zenon DEF MutualExclusion, Serving, Body, UpdateBody
    <3> QED
      BY <3>1, <3>2
  <2>3. (CHOOSE u \in Serving(i) : Due(u)) = t
    BY <2>1, <2>2
  <2> QED
    BY <2>1, <2>3 DEF PromisedDue
<1>2. ASSUME \A t \in Threads : ~ (Lagging(t) /\ pos[t] = i)
      PROVE  PromisedDue(i) = list[i].due
  <2>1. ~ \E t \in Serving(i) : Due(t)
    BY <1>2 DEF Serving, Lagging
  <2> QED
    BY <2>1 DEF PromisedDue
<1> QED
  BY <1>1, <1>2

(* The same of the next state. *)
LEMMA PromisedNext ==
  ASSUME MutualExclusion', NEW i
  PROVE  /\ \A t \in Threads : Lagging(t)' /\ pos'[t] = i =>
              PromisedDue(i)' = NextDue(list'[i].due, list'[i].interval, now'[t])
         /\ (\A t \in Threads : ~ (Lagging(t)' /\ pos'[t] = i)) =>
              PromisedDue(i)' = list'[i].due
<1>1. ASSUME NEW t \in Threads, Lagging(t)', pos'[t] = i
      PROVE  PromisedDue(i)' = NextDue(list'[i].due, list'[i].interval, now'[t])
  <2>1. t \in Serving(i)' /\ Due(t)'
    BY <1>1 DEF Serving, Lagging
  <2>2. \A u \in Serving(i)' : u = t
    <3>1. mutex' = t
      BY <1>1, Zenon DEF MutualExclusion, Lagging, Body, UpdateBody
    <3>2. \A u \in Serving(i)' : mutex' = u
      BY Zenon DEF MutualExclusion, Serving, Body, UpdateBody
    <3> QED
      BY <3>1, <3>2
  <2>3. (CHOOSE u \in Serving(i)' : Due(u)') = t
    BY <2>1, <2>2
  <2> QED
    BY <2>1, <2>3 DEF PromisedDue
<1>2. ASSUME \A t \in Threads : ~ (Lagging(t)' /\ pos'[t] = i)
      PROVE  PromisedDue(i)' = list'[i].due
  <2>1. ~ \E t \in Serving(i)' : Due(t)'
    BY <1>2 DEF Serving, Lagging
  <2> QED
    BY <2>1 DEF PromisedDue
<1> QED
  BY <1>1, <1>2

(* While nobody serves a timer the registry is the set of the entries. *)
LEMMA RegistryNow ==
  ASSUME TypeOK, MutualExclusion, life = "live",
         \A u \in Threads : ~ Lagging(u)
  PROVE  Registry = {list[i] : i \in Indices}
<1>1. \A i \in Indices : [list[i] EXCEPT !.due = PromisedDue(i)] = list[i]
  <2>1. \A i \in Indices : PromisedDue(i) = list[i].due
    BY PromisedNow
  <2>2. \A i \in Indices : list[i] \in Entry
    BY ListProperties DEF TypeOK
  <2> QED
    BY <2>1, <2>2 DEF Entry
<1> QED
  BY <1>1 DEF Registry

(* The same of the next state. *)
LEMMA RegistryNext ==
  ASSUME TypeOK', MutualExclusion', life' = "live",
         \A u \in Threads : ~ Lagging(u)'
  PROVE  Registry' = {list'[i] : i \in Indices'}
<1>1. \A i \in Indices' : [list'[i] EXCEPT !.due = PromisedDue(i)'] = list'[i]
  <2>1. \A i \in Indices' : PromisedDue(i)' = list'[i].due
    BY PromisedNext
  <2>2. \A i \in Indices' : list'[i] \in Entry
    BY LenProperties, ElementOfSeq DEF TypeOK, Indices
  <2> QED
    BY <2>1, <2>2 DEF Entry
<1> QED
  BY <1>1 DEF Registry

(* Linking an entry registers its timer. *)
LEMMA LinkRegisters ==
  ASSUME IInv, IInv', TInv, Defined, NEW t \in Threads, AddLink(t)
  PROVE  Service!Register
<1> TypeOK /\ TypeOK' /\ MutualExclusion /\ MutualExclusion' /\ LocalsOK
  BY DEF IInv
<1>1. pc[t] = "add_link" /\ UNCHANGED <<clock, life>> /\ Goto(t, "idle")
  BY DEF AddLink, UnlockReturn, Return
<1>2. \A u \in Threads : ~ Lagging(u)
  BY <1>1, OneServes DEF Body, AddBody, Lagging
<1>3. \A u \in Threads : ~ Lagging(u)'
  <2>1. \A u \in Threads :
          pc[u] \notin {"update_callback", "update_advance", "update_stuck"}
    BY <1>1, Zenon DEF MutualExclusion, Body, AddBody, UpdateBody
  <2>2. \A u \in Threads : pc'[u] \in {pc[u], "idle"}
    BY <1>1 DEF Goto, TypeOK
  <2> QED
    BY <2>1, <2>2 DEF Lagging
<1>4. life = "live"
  BY <1>1 DEF LocalsOK, Deep, AddBody, HeadSites, Defined
<1>5. Registry = {list[i] : i \in Indices} /\ Registry' = {list'[i] : i \in Indices'}
  BY <1>1, <1>2, <1>3, <1>4, RegistryNow, RegistryNext
<1>6. /\ entry[t] \in Entry
      /\ Len(list) \in Nat
      /\ Indices = 1..Len(list) /\ Indices' = 1..Len(list) + 1
      /\ list'[1] = entry[t]
      /\ \A i \in Indices : list'[i + 1] = list[i]
  <2>1. list \in Seq(Entry)
    BY DEF TypeOK
  <2> QED
    BY <2>1, LinkEffect, ListProperties
<1>7. Registry' = Registry \cup {entry[t]}
  <2>1. \A i \in Indices' : i = 1 \/ (i - 1 \in Indices /\ list'[i] = list[i - 1])
    BY <1>6
  <2>2. \A i \in Indices : i + 1 \in Indices'
    BY <1>6
  <2>3. 1 \in Indices'
    BY <1>6
  <2>4. \A i \in Indices' : list'[i] \in Registry \cup {entry[t]}
    BY <1>5, <1>6, <2>1
  <2>5. entry[t] \in Registry' /\ \A i \in Indices : list[i] \in Registry'
    BY <1>5, <1>6, <2>2, <2>3
  <2> QED
    BY <1>5, <2>4, <2>5
<1>8. \A r \in Registry : r.name # entry[t].name
  <2>1. ~ Registered(entry[t].name)
    BY <1>1 DEF LocalsOK, AddBody
  <2> QED
    BY <1>5, <2>1 DEF Registered
<1>9. PICK c \in 0..clock : entry[t].start = c + entry[t].interval
  BY <1>1 DEF TInv, EntriesFresh, FreshEntry
<1>10. entry[t].due = entry[t].start /\ entry[t].fired = 0
  BY <1>1 DEF TInv, EntriesFresh, FreshEntry
<1> DEFINE n == entry[t].name
           i == entry[t].interval
<1>11. entry[t] = [name |-> n, interval |-> i, start |-> c + i, due |-> c + i,
                   fired |-> 0]
  BY <1>6, <1>9, <1>10 DEF Entry
<1>12. n \in Names /\ i \in Intervals
  BY <1>6 DEF Entry
<1> HIDE DEF n, i
<1>13. \A r \in Registry : r.name # n
  BY <1>8 DEF n
<1> QED
  BY <1>1, <1>7, <1>11, <1>12, <1>13 DEF Service!Register

(* Unlinking an entry unregisters its timer. *)
LEMMA UnlinkUnregisters ==
  ASSUME IInv, IInv', NEW t \in Threads, RemoveFind(t)
  PROVE  Service!Unregister \/ UNCHANGED <<clock, Registry>>
<1> TypeOK /\ TypeOK' /\ MutualExclusion /\ MutualExclusion'
  BY DEF IInv
<1>1. /\ pc[t] = "remove_find" /\ life = "live"
      /\ UNCHANGED <<clock, life>> /\ Goto(t, "idle")
  BY DEF RemoveFind, UnlockReturn, Return
<1>2. \A u \in Threads : ~ Lagging(u)
  BY <1>1, OneServes DEF Body, Lagging
<1>3. \A u \in Threads : ~ Lagging(u)'
  <2>1. \A u \in Threads :
          pc[u] \notin {"update_callback", "update_advance", "update_stuck"}
    BY <1>1, Zenon DEF MutualExclusion, Body, UpdateBody
  <2>2. \A u \in Threads : pc'[u] \in {pc[u], "idle"}
    BY <1>1 DEF Goto, TypeOK
  <2> QED
    BY <2>1, <2>2 DEF Lagging
<1>4. Registry = {list[i] : i \in Indices} /\ Registry' = {list'[i] : i \in Indices'}
  BY <1>1, <1>2, <1>3, RegistryNow, RegistryNext
<1>5. CASE UNCHANGED list
  BY <1>1, <1>4, <1>5 DEF Indices
<1>6. CASE \E i \in Indices : list' = RemoveAt(list, i)
  <2> PICK i \in Indices : list' = RemoveAt(list, i)
    BY <1>6
  <2>1. /\ Indices = 1..Len(list) /\ Len(list) \in Nat
        /\ Indices' = 1..Len(list) - 1
        /\ \A j \in Indices' : list'[j] = list[IF j < i THEN j ELSE j + 1]
    <3>1. list \in Seq(Entry)
      BY DEF TypeOK
    <3> QED
      BY <3>1, UnlinkEffect, ListProperties
  <2>2. \A j \in Indices : j # i => list[j] # list[i]
    BY DEF IInv, UniqueNames
  <2>3. \A j \in Indices' : \E k \in Indices : k # i /\ list'[j] = list[k]
    <3> SUFFICES ASSUME NEW j \in Indices'
                 PROVE  \E k \in Indices : k # i /\ list'[j] = list[k]
      OBVIOUS
    <3>1. CASE j < i
      <4>1. j \in Indices /\ j # i
        BY <2>1, <3>1
      <4> QED
        BY <2>1, <3>1, <4>1
    <3>2. CASE ~ (j < i)
      <4>1. j + 1 \in Indices /\ j + 1 # i
        BY <2>1, <3>2
      <4> QED
        BY <2>1, <3>2, <4>1
    <3> QED
      BY <3>1, <3>2
  <2>4. \A k \in Indices : k # i => \E j \in Indices' : list'[j] = list[k]
    <3> SUFFICES ASSUME NEW k \in Indices, k # i
                 PROVE  \E j \in Indices' : list'[j] = list[k]
      OBVIOUS
    <3>1. CASE k < i
      BY <2>1, <3>1
    <3>2. CASE k > i
      <4>1. k - 1 \in Indices' /\ ~ (k - 1 < i) /\ (k - 1) + 1 = k
        BY <2>1, <3>2
      <4> QED
        BY <2>1, <4>1
    <3> QED
      BY <2>1, <3>1, <3>2
  <2>5. Registry' = Registry \ {list[i]}
    BY <1>4, <2>2, <2>3, <2>4
  <2>6. list[i] \in Registry
    BY <1>4
  <2> QED
    BY <1>1, <2>5, <2>6 DEF Service!Unregister
<1> QED
  BY <1>5, <1>6 DEF RemoveFind

(* Calling a timer is the abstract call, and moves its due time at once. *)
LEMMA FireFires ==
  ASSUME IInv, IInv', TInv, NEW t \in Threads, UpdateFire(t)
  PROVE  Service!Fire
<1> PICK p : p = pos[t]
  OBVIOUS
<1> DEFINE e == list[p]
           n == now[t]
           f == [e EXCEPT !.fired = e.fired + 1]
           g == [e EXCEPT !.due = NextDue(e.due, e.interval, n),
                          !.fired = e.fired + 1]
<1> TypeOK /\ TypeOK' /\ MutualExclusion /\ MutualExclusion'
  BY DEF IInv
<1>1. /\ pc[t] = "update_visit" /\ life = "live" /\ e.due <= n
      /\ pc' = [pc EXCEPT ![t] = "update_callback"]
      /\ UNCHANGED <<clock, life, now, pos>>
  BY DEF UpdateFire, Visiting, Due, locals, Goto
<1>2. \A u \in Threads : ~ Lagging(u)
  BY <1>1, OneServes DEF Body, UpdateBody, Lagging
<1>3. Registry = {list[i] : i \in Indices}
  BY <1>1, <1>2, RegistryNow
<1>4. /\ p \in Indices /\ e \in Entry /\ list'[p] = f
      /\ \A i \in Indices : i # p => list'[i] = list[i]
      /\ Indices' = Indices
  BY FireWrites, FireEffect
<1>5. f.due = e.due /\ f.interval = e.interval
      /\ [f EXCEPT !.due = NextDue(e.due, e.interval, n)] = g
  BY <1>4 DEF Entry
<1>6. Lagging(t)' /\ pos'[t] = p
  <2>1. pc'[t] = "update_callback"
    BY <1>1 DEF TypeOK
  <2>2. list'[pos'[t]].due <= now'[t]
    BY <1>1, <1>4, <1>5
  <2> QED
    BY <1>1, <2>1, <2>2 DEF Lagging, Due
<1>7. PromisedDue(p)' = NextDue(e.due, e.interval, n)
  <2>1. PromisedDue(p)' = NextDue(list'[p].due, list'[p].interval, now'[t])
    BY <1>6, PromisedNext
  <2> QED
    BY <1>1, <1>4, <1>5, <2>1
<1>8. \A u \in Threads : u # t => ~ Lagging(u)'
  <2>1. mutex' = t
    BY <1>6, Zenon DEF MutualExclusion, Lagging, Body, UpdateBody
  <2>2. \A u \in Threads : Lagging(u)' => mutex' = u
    BY Zenon DEF MutualExclusion, Lagging, Body, UpdateBody
  <2> QED
    BY <2>1, <2>2
<1>9. \A i \in Indices : i # p => PromisedDue(i)' = list[i].due
  BY <1>4, <1>6, <1>8, PromisedNext
<1>10. \A i \in Indices :
         [list'[i] EXCEPT !.due = PromisedDue(i)'] = IF i = p THEN g ELSE list[i]
  <2>1. \A i \in Indices : list[i] \in Entry
    BY ListProperties DEF TypeOK
  <2>2. \A i \in Indices : [list[i] EXCEPT !.due = list[i].due] = list[i]
    BY <2>1 DEF Entry
  <2> HIDE DEF f, g, e
  <2>3. [list'[p] EXCEPT !.due = PromisedDue(p)'] = g
    BY <1>4, <1>5, <1>7
  <2>4. \A i \in Indices : i # p =>
          [list'[i] EXCEPT !.due = PromisedDue(i)'] = list[i]
    BY <1>4, <1>9, <2>2
  <2> QED
    BY <2>3, <2>4
<1>11. Registry' = {IF i = p THEN g ELSE list[i] : i \in Indices}
  <2> DEFINE h(i) == [list'[i] EXCEPT !.due = PromisedDue(i)']
  <2>1. Registry' = {h(i) : i \in Indices}
    BY <1>1, <1>4 DEF Registry
  <2>2. \A i \in Indices : h(i) = IF i = p THEN g ELSE list[i]
    BY <1>10
  <2> HIDE DEF g, h
  <2> QED
    BY <2>1, <2>2
<1>12. \A i \in Indices : i # p => list[i] # e
  BY <1>4 DEF IInv, UniqueNames
<1>13. n \in e.due..clock
  BY <1>1, <1>4 DEF TInv, NowPassed, TypeOK, Entry
<1> HIDE DEF e, f, n
<1>14. e \in Registry
  BY <1>3, <1>4 DEF e
<1>15. Registry' = (Registry \ {e}) \cup {g}
  <2> HIDE DEF g
  <2>1. \A i \in Indices : i = p => list[i] = e
    BY DEF e
  <2> QED
    BY <1>3, <1>4, <1>11, <1>12, <2>1
<1> QED
  BY <1>1, <1>13, <1>14, <1>15 DEF Service!Fire, Service!NextDue, NextDue

(* The iterations of the loop are invisible to the registry. *)
LEMMA AdvanceInvisible ==
  ASSUME IInv, IInv', Defined, NEW t \in Threads, UpdateAdvance(t),
         0 \notin Intervals
  PROVE  UNCHANGED <<clock, Registry>>
<1> PICK p : p = pos[t]
  OBVIOUS
<1> DEFINE e == list[p]
           n == now[t]
           f == [e EXCEPT !.due = e.due + e.interval]
<1> TypeOK /\ TypeOK' /\ MutualExclusion /\ MutualExclusion' /\ LocalsOK
  BY DEF IInv
<1>1. /\ pc[t] = "update_advance" /\ e.due <= n
      /\ UNCHANGED <<clock, life, pc, now, pos>>
  BY DEF UpdateAdvance, Due, locals
<1>2. life = "live"
  BY <1>1 DEF LocalsOK, Deep, UpdateBody, HeadSites, Defined
<1>3. /\ p \in Indices /\ e \in Entry /\ list'[p] = f
      /\ \A i \in Indices : i # p => list'[i] = list[i]
      /\ Indices' = Indices
  BY AdvanceWrites, AdvanceEffect
<1>4. /\ e.due \in Nat /\ e.interval \in Nat \ {0} /\ n \in Nat
      /\ f.due = e.due + e.interval /\ f.interval = e.interval
  BY <1>3, TimerAssumption DEF Entry, TypeOK
<1>5. /\ \A u \in Threads : Lagging(u) => u = t
      /\ \A u \in Threads : Lagging(u)' => u = t
  <2>1. mutex = t /\ mutex' = t
    BY <1>1, Zenon DEF MutualExclusion, Body, UpdateBody
  <2>2. \A u \in Threads : Lagging(u) => mutex = u
    BY Zenon DEF MutualExclusion, Lagging, Body, UpdateBody
  <2>3. \A u \in Threads : Lagging(u)' => mutex' = u
    BY Zenon DEF MutualExclusion, Lagging, Body, UpdateBody
  <2> QED
    BY <2>1, <2>2, <2>3
<1>6. Lagging(t) /\ (Lagging(t)' <=> f.due <= n)
  BY <1>1, <1>3 DEF Lagging, Due
<1>7. PromisedDue(p) = NextDue(e.due, e.interval, n)
  BY <1>6, PromisedNow
<1>8. PromisedDue(p)' = PromisedDue(p)
  <2> HIDE DEF e, n, f
  <2>1. CASE f.due <= n
    <3>1. PromisedDue(p)' = NextDue(list'[p].due, list'[p].interval, now'[t])
      BY <1>1, <1>6, <2>1, PromisedNext
    <3>2. PromisedDue(p)' = NextDue(e.due + e.interval, e.interval, n)
      BY <1>1, <1>3, <1>4, <3>1 DEF n
    <3> QED
      BY <1>1, <1>4, <1>7, <2>1, <3>2, NextDueProperties
  <2>2. CASE ~ (f.due <= n)
    <3>3. \A u \in Threads : ~ Lagging(u)'
      BY <1>5, <1>6, <2>2
    <3>1. PromisedDue(p)' = list'[p].due
      BY <3>3, PromisedNext
    <3>2. e.due + e.interval > n
      BY <1>4, <2>2
    <3> QED
      BY <1>1, <1>3, <1>4, <1>7, <3>1, <3>2, NextDueProperties
  <2> QED
    BY <2>1, <2>2
<1>9. \A i \in Indices : i # p => PromisedDue(i)' = PromisedDue(i)
  <2>1. \A i \in Indices : i # p => PromisedDue(i) = list[i].due
    BY <1>5, PromisedNow
  <2>2. \A i \in Indices : i # p => PromisedDue(i)' = list'[i].due
    BY <1>1, <1>5, PromisedNext
  <2> QED
    BY <1>3, <2>1, <2>2
<1>10. \A x : [f EXCEPT !.due = x] = [e EXCEPT !.due = x]
  BY <1>3 DEF Entry
<1>11. \A i \in Indices : [list'[i] EXCEPT !.due = PromisedDue(i)']
                          = [list[i] EXCEPT !.due = PromisedDue(i)]
  <2>1. [list'[p] EXCEPT !.due = PromisedDue(p)'] = [list[p] EXCEPT !.due = PromisedDue(p)]
    <3> HIDE DEF f
    <3> QED
      BY <1>3, <1>8, <1>10
  <2>2. \A i \in Indices : i # p =>
          [list'[i] EXCEPT !.due = PromisedDue(i)']
          = [list[i] EXCEPT !.due = PromisedDue(i)]
    BY <1>3, <1>9
  <2> QED
    BY <2>1, <2>2
<1>12. Registry' = {[list'[i] EXCEPT !.due = PromisedDue(i)'] : i \in Indices}
  BY <1>1, <1>2, <1>3 DEF Registry
<1>13. Registry = {[list[i] EXCEPT !.due = PromisedDue(i)] : i \in Indices}
  BY <1>2 DEF Registry
<1> HIDE DEF e, f, n
<1>14. Registry' = Registry
  BY <1>11, <1>12, <1>13
<1> QED
  BY <1>1, <1>14

(* A step that no timer notices is invisible to the registry. *)
LEMMA QuietInvisible ==
  ASSUME IInv, IInv', UNCHANGED list,
         life' = life \/ (life # "live" /\ life' # "live"),
         \A u \in Threads : /\ Lagging(u)' <=> Lagging(u)
                            /\ Lagging(u) => UNCHANGED <<pos[u], now[u]>>
  PROVE  UNCHANGED Registry
<1> MutualExclusion /\ MutualExclusion'
  BY DEF IInv
<1>1. \A i \in Indices : PromisedDue(i)' = PromisedDue(i)
  <2> SUFFICES ASSUME NEW i \in Indices
               PROVE  PromisedDue(i)' = PromisedDue(i)
    OBVIOUS
  <2>1. CASE \E u \in Threads : Lagging(u) /\ pos[u] = i
    <3> PICK u \in Threads : Lagging(u) /\ pos[u] = i
      BY <2>1
    <3>1. Lagging(u)' /\ pos'[u] = i /\ now'[u] = now[u]
      OBVIOUS
    <3>2. PromisedDue(i) = NextDue(list[i].due, list[i].interval, now[u])
      BY PromisedNow
    <3>3. PromisedDue(i)' = NextDue(list'[i].due, list'[i].interval, now'[u])
      BY <3>1, PromisedNext
    <3> QED
      BY <3>1, <3>2, <3>3
  <2>2. CASE \A u \in Threads : ~ (Lagging(u) /\ pos[u] = i)
    <3>1. \A u \in Threads : ~ (Lagging(u)' /\ pos'[u] = i)
      BY <2>2
    <3>2. PromisedDue(i) = list[i].due
      BY <2>2, PromisedNow
    <3>3. PromisedDue(i)' = list'[i].due
      BY <3>1, PromisedNext
    <3> QED
      BY <3>2, <3>3
  <2> QED
    BY <2>1, <2>2
<1>2. Indices' = Indices
  BY DEF Indices
<1> QED
  BY <1>1, <1>2 DEF Registry

(* Every interleaving of the threads of an application, with their failures
   and callbacks, is a history of the atomic registry of TimerService, when
   no interval is below a nanosecond (timer.c:143-431 against what timer.h
   promises). *)
THEOREM Refinement ==
  ASSUME 0 \notin Intervals
  PROVE  Spec => ImplementsService
<1>1. Init => Service!Init
  BY DEF Init, Service!Init, Registry
<1>2. ASSUME IInv, IInv', TInv, [Next]_vars
      PROVE  [Service!Next]_Service!vars
  <2>1. CASE Create
    <3>1. life = "none" /\ life' = "live" /\ list' = << >> /\ clock' = clock
      BY <2>1 DEF Create
    <3>2. Indices' = {}
      BY <3>1, EmptySeq, LenProperties DEF Indices
    <3>3. Registry = {} /\ Registry' = {}
      BY <3>1, <3>2 DEF Registry
    <3> QED
      BY <3>1, <3>3 DEF Service!vars
  <2>2. CASE Tick
    <3>1. UNCHANGED <<life, list, pc, pos, now>>
      BY <2>2 DEF Tick, manager, locals
    <3>2. \A u \in Threads : Lagging(u)' <=> Lagging(u)
      BY <3>1 DEF Lagging, Due
    <3>3. UNCHANGED Registry
      BY <1>2, <3>1, <3>2, QuietInvisible
    <3> QED
      BY <2>2, <3>3 DEF Tick, Service!Tick, Service!Next
  <2>3. CASE Quiet
    <3>1. UNCHANGED Registry
      BY <1>2, <2>3, QuietInvisible DEF Quiet, Calm
    <3> QED
      BY <2>3, <3>1 DEF Quiet, Calm, Service!vars
  <2>4. ASSUME Defined, NEW t \in Threads, AddLink(t)
        PROVE  Service!Next
    BY <1>2, <2>4, LinkRegisters DEF Service!Next
  <2>5. ASSUME NEW t \in Threads, RemoveFind(t)
        PROVE  [Service!Next]_Service!vars
    BY <1>2, <2>5, UnlinkUnregisters DEF Service!Next, Service!vars
  <2>6. ASSUME NEW t \in Threads, UpdateFire(t)
        PROVE  Service!Next
    BY <1>2, <2>6, FireFires DEF Service!Next
  <2>7. ASSUME Defined, NEW t \in Threads, UpdateAdvance(t)
        PROVE  [Service!Next]_Service!vars
    BY <1>2, <2>7, AdvanceInvisible DEF Service!vars
  <2>8. ASSUME NEW t \in Threads, FreeEntries(t)
        PROVE  Service!Next
    <3>1. list' = << >> /\ clock' = clock
      BY <2>8 DEF FreeEntries
    <3>2. Indices' = {}
      BY <3>1, EmptySeq, LenProperties DEF Indices
    <3>3. Registry' = {}
      BY <3>2 DEF Registry
    <3> QED
      BY <3>1, <3>3 DEF Service!Dispose, Service!Next
  <2>9. CASE Disposal
    BY <2>9 DEF Disposal, Calm, Registry, Service!Dispose, Service!Next
  <2> QED
    BY <1>2, <2>1, <2>2, <2>3, <2>4, <2>5, <2>6, <2>7, <2>8, <2>9, StepKinds
<1> QED
  BY <1>1, <1>2, Invariance, TimetableInvariance, PTL
  DEF Spec, ImplementsService, Service!Spec

-----------------------------------------------------------------------------
(***************************************************************************)
(* The walk of timer_update ends.                                          *)
(***************************************************************************)
(* What is before thread t in its walk: the entries from its cursor on,    *)
(* its stage at the first of them, and in the loop that looks for the next *)
(* due time how far that entry is behind.                                  *)
Ahead(t) == IF pos[t] \in Indices THEN Len(list) - pos[t] + 1 ELSE 0

Stage(t) ==
  CASE pc[t] = "update_visit"    -> 2
    [] pc[t] = "update_callback" -> 1
    [] pc[t] = "update_advance"  -> 0
    [] pc[t] = "update_stuck"    -> 0

Late(t) == IF Due(t) THEN now[t] - list[pos[t]].due + 1 ELSE 0

Nearer(t) ==
  \/ Ahead(t)' < Ahead(t)
  \/ Ahead(t)' = Ahead(t) /\ Stage(t)' < Stage(t)
  \/ Ahead(t)' = Ahead(t) /\ Stage(t)' = Stage(t) /\ Late(t)' < Late(t)

(* Each step of a thread that walks brings it nearer to the end of the     *)
(* list or, there, out of timer_update, unless a timer_free has pulled the *)
(* list from under its feet; no step of another one moves its cursor or    *)
(* alters the list (timer.c:319-353).                                      *)
WalkShortens ==
  \A t \in Threads : pc[t] \in UpdateBody =>
    IF Run(t) \/ CallbackReenter(t)
    THEN \/ pc'[t] \in UpdateBody /\ Nearer(t)
         \/ Ahead(t) = 0 /\ pc'[t] = "idle" /\ UNCHANGED list
         \/ ~ Defined'
    ELSE UNCHANGED <<list, pc[t], pos[t], now[t]>>

(* What is before it are natural numbers, so that Nearer cannot go on for  *)
(* ever.                                                                   *)
LEMMA WalkMeasure ==
  ASSUME TypeOK, LocalsOK, NEW t \in Threads, pc[t] \in UpdateBody
  PROVE  /\ Ahead(t) \in Nat /\ Stage(t) \in 0..2
         /\ pc[t] = "update_advance" => Late(t) \in Nat
<1>1. Indices = 1..Len(list) /\ Len(list) \in Nat /\ pos[t] \in Nat /\ now[t] \in Nat
  BY ListProperties DEF TypeOK
<1>2. Ahead(t) \in Nat
  BY <1>1 DEF Ahead
<1>3. Stage(t) \in 0..2
  BY DEF Stage, UpdateBody
<1>4. ASSUME pc[t] = "update_advance" PROVE Late(t) \in Nat
  <2>1. pos[t] \in Indices
    BY <1>4 DEF LocalsOK, UpdateBody
  <2>2. list[pos[t]].due \in Nat
    BY <2>1, ListProperties DEF TypeOK, Entry
  <2> QED
    BY <1>1, <2>2 DEF Late, Due
<1> QED
  BY <1>2, <1>3, <1>4

(* The mutex keeps the others out. *)
LEMMA OthersStayOut ==
  ASSUME IInv, NEW t \in Threads, pc[t] \in UpdateBody, NEW u \in Threads \ {t},
         Call(u) \/ Lock(u) \/ Run(u) \/ CallbackReenter(u)
  PROVE  UNCHANGED <<list, pc[t], pos[t], now[t]>>
<1>1. pc[u] \notin Body
  BY DEF IInv, MutualExclusion, Body
<1>2. DOMAIN pc = Threads /\ DOMAIN pos = Threads /\ DOMAIN now = Threads
  BY DEF IInv, TypeOK
<1>3. CASE Call(u)
  <2>1. CASE CallAdd(u)
    BY <1>2, <2>1 DEF CallAdd, Goto, manager
  <2>2. CASE CallRemove(u)
    BY <1>2, <2>2 DEF CallRemove, Goto, manager
  <2>3. CASE CallUpdate(u)
    BY <1>2, <2>3 DEF CallUpdate, Goto, manager
  <2>4. CASE CallSize(u) \/ CallFree(u)
    BY <1>2, <2>4 DEF CallSize, CallFree, Goto, manager, locals
  <2> QED
    BY <1>3, <2>1, <2>2, <2>3, <2>4 DEF Call
<1>4. CASE Lock(u)
  BY <1>2, <1>4 DEF Lock, Goto, manager
<1>5. CASE Run(u)
  <2>1. FreeDestroy(u)
    BY <1>1, <1>5 DEF Stray, HeadSites, Run, Body, AddBody, UpdateBody, AddFind, AddMalloc, AddStrdup,
       AddClock, AddLink, RemoveFind, SizeRead, UpdateSkip, UpdateFire, CallbackReturn,
       UpdateAdvance, UpdateNext, UpdateDone, FreeEntries, FreeUnlock, Visiting
  <2>2. CASE Return(u)
    BY <1>2, <2>1, <2>2 DEF FreeDestroy, Return, Goto
  <2>3. CASE UNCHANGED <<pc, locals>>
    BY <2>1, <2>3 DEF FreeDestroy, locals
  <2> QED
    BY <2>1, <2>2, <2>3 DEF FreeDestroy
<1>6. CASE CallbackReenter(u)
  BY <1>1, <1>6 DEF CallbackReenter, Body, UpdateBody
<1> QED
  BY <1>3, <1>4, <1>5, <1>6

(* Passing an entry on. *)
LEMMA CursorMoves ==
  ASSUME TypeOK, NEW t \in Threads, pos[t] \in Indices,
         pos' = [pos EXCEPT ![t] = @ + 1], UNCHANGED list
  PROVE  Ahead(t)' < Ahead(t)
<1>1. /\ Indices = 1..Len(list) /\ Indices' = 1..Len(list) /\ Len(list) \in Nat
      /\ pos[t] \in Nat /\ pos'[t] = pos[t] + 1
  BY ListProperties DEF TypeOK, Indices
<1> QED
  BY <1>1 DEF Ahead

(* One more interval, one nanosecond or more, brings the due time nearer. *)
LEMMA LateShrinks ==
  ASSUME IInv, NEW t \in Threads, UpdateAdvance(t), 0 \notin Intervals
  PROVE  Late(t)' < Late(t)
<1> DEFINE e == list[pos[t]]
<1>1. /\ pos[t] \in Indices /\ e \in Entry
      /\ list'[pos[t]] = [e EXCEPT !.due = e.due + e.interval]
  BY AdvanceWrites DEF IInv
<1>2. e.due \in Nat /\ e.interval \in Nat \ {0} /\ now[t] \in Nat
  BY <1>1, TimerAssumption DEF Entry, IInv, TypeOK
<1>3. pos'[t] = pos[t] /\ now'[t] = now[t] /\ Due(t)
  BY DEF UpdateAdvance, locals
<1>4. list'[pos[t]].due = e.due + e.interval
  BY <1>1 DEF Entry
<1>5. Late(t) = now[t] - e.due + 1 /\ e.due <= now[t]
  BY <1>3 DEF Late, Due
<1>6. Late(t)' = IF e.due + e.interval <= now[t] THEN now[t] - (e.due + e.interval) + 1 ELSE 0
  BY <1>3, <1>4 DEF Late, Due
<1> HIDE DEF e
<1> QED
  BY <1>2, <1>5, <1>6

(* A thread inside timer_update calls nothing and takes no mutex, except   *)
(* from a callback.                                                        *)
LEMMA WalkersWalk ==
  ASSUME NEW t \in Threads, pc[t] \in UpdateBody
  PROVE  ~ Call(t) /\ ~ Lock(t)
BY DEF UpdateBody, Call, CallAdd, CallRemove, CallUpdate, CallSize, CallFree, MayCall, Lock,
   LockSites

(* Every step of the walk itself. *)
LEMMA WalkStep ==
  ASSUME IInv, NEW t \in Threads, pc[t] \in UpdateBody, 0 \notin Intervals,
         Run(t) \/ CallbackReenter(t)
  PROVE  \/ pc'[t] \in UpdateBody /\ Nearer(t)
         \/ Ahead(t) = 0 /\ pc'[t] = "idle" /\ UNCHANGED list
         \/ ~ Defined'
<1> TypeOK /\ LocalsOK
  BY DEF IInv
<1>1. DOMAIN pc = Threads /\ DOMAIN pos = Threads
  BY DEF TypeOK
<1>2. \/ UpdateSkip(t) \/ UpdateFire(t) \/ CallbackReturn(t) \/ CallbackReenter(t)
      \/ UpdateAdvance(t) \/ UpdateNext(t) \/ UpdateDone(t) \/ Stray(t)
  BY DEF UpdateBody, Run, AddFind, AddMalloc, AddStrdup, AddClock, AddLink, RemoveFind,
     SizeRead, FreeEntries, FreeUnlock, FreeDestroy
<1>3. CASE UpdateSkip(t)
  BY <1>1, <1>3, CursorMoves DEF UpdateSkip, Visiting, manager, Nearer
<1>4. CASE UpdateFire(t)
  <2>1. Len(list') = Len(list) /\ Indices' = Indices /\ pos' = pos
    BY <1>4, FireEffect DEF UpdateFire, locals
  <2>2. pc[t] = "update_visit" /\ pc'[t] = "update_callback"
    BY <1>1, <1>4 DEF UpdateFire, Visiting, Goto
  <2>3. Ahead(t)' = Ahead(t)
    BY <2>1 DEF Ahead
  <2>4. Stage(t) = 2 /\ Stage(t)' = 1
    BY <2>2 DEF Stage
  <2> QED
    BY <2>2, <2>3, <2>4 DEF Nearer, UpdateBody
<1>5. CASE CallbackReturn(t) \/ CallbackReenter(t)
  <2>1. /\ list' = list /\ pos' = pos
        /\ pc[t] = "update_callback" /\ pc'[t] \in {"update_advance", "update_stuck"}
    BY <1>1, <1>5 DEF CallbackReturn, CallbackReenter, Goto, manager, locals
  <2>2. Ahead(t)' = Ahead(t)
    BY <2>1 DEF Ahead, Indices
  <2>3. Stage(t) = 1 /\ Stage(t)' = 0
    BY <2>1 DEF Stage
  <2> QED
    BY <2>1, <2>2, <2>3 DEF Nearer, UpdateBody
<1>6. CASE UpdateAdvance(t)
  <2>1. Len(list') = Len(list) /\ Indices' = Indices /\ pos' = pos /\ pc' = pc
    BY <1>6, AdvanceEffect DEF UpdateAdvance, locals
  <2>2. Ahead(t)' = Ahead(t) /\ Stage(t)' = Stage(t)
    BY <2>1 DEF Ahead, Stage
  <2>3. Late(t)' < Late(t)
    BY <1>6, LateShrinks
  <2> QED
    BY <2>1, <2>2, <2>3 DEF Nearer
<1>7. CASE UpdateNext(t)
  <2>1. pos[t] \in Indices
    BY <1>7 DEF UpdateNext, LocalsOK, UpdateBody
  <2>2. Ahead(t)' < Ahead(t)
    BY <1>7, <2>1, CursorMoves DEF UpdateNext, manager
  <2> QED
    BY <1>1, <1>7, <2>2 DEF UpdateNext, Goto, Nearer, UpdateBody
<1>8. CASE UpdateDone(t)
  BY <1>1, <1>8 DEF UpdateDone, UnlockReturn, Return, Goto, manager, Ahead
<1>9. CASE Stray(t)
  BY <1>9 DEF Stray, Defined
<1> QED
  BY <1>2, <1>3, <1>4, <1>5, <1>6, <1>7, <1>8, <1>9

(* With intervals of a nanosecond or more every walk of timer_update comes *)
(* to its end if only its thread goes on and callbacks return: whatever    *)
(* the other threads do meanwhile, they do not lengthen it                 *)
(* (timer.c:319-353).                                                      *)
THEOREM WalkGetsNearer ==
  ASSUME 0 \notin Intervals
  PROVE  Spec => [][WalkShortens]_vars
<1>1. ASSUME IInv, Next PROVE WalkShortens
  <2>1. ASSUME NEW t \in Threads, pc[t] \in UpdateBody, Run(t) \/ CallbackReenter(t)
        PROVE  \/ pc'[t] \in UpdateBody /\ Nearer(t)
               \/ Ahead(t) = 0 /\ pc'[t] = "idle" /\ UNCHANGED list
               \/ ~ Defined'
    BY <1>1, <2>1, WalkStep
  <2>2. ASSUME NEW t \in Threads, pc[t] \in UpdateBody, ~ (Run(t) \/ CallbackReenter(t))
        PROVE  UNCHANGED <<list, pc[t], pos[t], now[t]>>
    <3>1. CASE Create
      <4>1. life # "none"
        BY <1>1, <2>2 DEF IInv, ManagerThere, UpdateBody
      <4> QED
        BY <3>1, <4>1 DEF Create
    <3>2. CASE Tick
      BY <3>2 DEF Tick, manager, locals
    <3>3. CASE Finished
      BY <3>3 DEF Finished, vars, manager, locals
    <3>4. ASSUME NEW u \in Threads, Call(u) \/ Lock(u) \/ Run(u) \/ CallbackReenter(u)
          PROVE  UNCHANGED <<list, pc[t], pos[t], now[t]>>
      <4>1. u # t
        BY <2>2, <3>4, WalkersWalk
      <4> QED
        BY <1>1, <2>2, <3>4, <4>1, OthersStayOut
    <3> QED
      BY <1>1, <3>1, <3>2, <3>3, <3>4 DEF Next
  <2> QED
    BY <2>1, <2>2 DEF WalkShortens
<1>2. ASSUME IInv, [Next]_vars PROVE [WalkShortens]_vars
  BY <1>1, <1>2
<1> QED
  BY <1>2, Invariance, PTL DEF Spec
=============================================================================
