---------------------------- MODULE TimerManager ----------------------------
(***************************************************************************)
(* The timer library of timer_lb: one TimerManager shared by the threads   *)
(* of an application.  Every public function takes the manager's mutex,    *)
(* works on the list of timers and gives the mutex back; timer_update      *)
(* reads the monotonic clock BEFORE it takes the mutex, keeps the mutex    *)
(* while it walks the list, and runs the callbacks of the timers that are  *)
(* due with the mutex held.                                                *)
(*                                                                         *)
(* A step is one lock operation, one call into malloc or the clock, or one *)
(* iteration of a loop.  Time is counted in nanoseconds, the resolution of *)
(* struct timespec; an interval is what timespec_add_double adds to a      *)
(* timespec, so 0 stands for a positive interval below one nanosecond.     *)
(* The list is the sequence of its entries, head first: a pointer to an    *)
(* entry is its position.                                                  *)
(***************************************************************************)
EXTENDS Integers, Sequences, SequencesExt, Timetable

CONSTANTS
  Threads,        (* The application's threads.                            *)
  Driver,         (* The thread whose main loop keeps calling timer_update.*)
  Names,          (* Timer names.                                          *)
  Intervals,      (* Intervals, in nanoseconds.                            *)
  Null,           (* No thread, no name, no entry.                         *)
  Reentrant,      (* TRUE: callbacks may call the library.                 *)
  MaxClock,       (* Bound: the last value of the clock.                   *)
  MaxCalls        (* Bound: calls, the driver's timer_update not counted.  *)

ASSUME TimerAssumption ==
  /\ Driver \in Threads
  /\ Intervals \subseteq Nat
  /\ Null \notin Threads
  /\ Reentrant \in BOOLEAN
  /\ MaxClock \in Nat
  /\ MaxCalls \in Nat

VARIABLES
  clock,     (* CLOCK_MONOTONIC.                                           *)
  life,      (* The manager's memory: "none", "live", "dangling" when head *)
             (* points to freed entries, "gone" when the manager is freed. *)
             (* "undefined": freed memory or a destroyed mutex was used.   *)
  mutex,     (* The thread that holds manager->mutex, or Null.             *)
  list,      (* The list that starts at manager->head.                     *)
  size,      (* manager->size.                                             *)
  blocks,    (* History: blocks obtained from malloc and not yet freed.    *)
  pc,        (* Where each thread is, "idle" when outside the library.     *)
  entry,     (* timer_add's newEntry: its parameters, then its fields.     *)
  key,       (* timer_remove's name.                                       *)
  now,       (* timer_update's current_time.                               *)
  pos,       (* timer_update's cursor, as a position in list.              *)
  calls      (* Calls made so far.                                         *)

manager == <<life, list, size, blocks>>
locals  == <<entry, key, now, pos>>
vars    == <<clock, life, mutex, list, size, blocks, pc, entry, key, now,
             pos, calls>>

(* A TimerEntry.  "start" (the first due time) and "fired" (how often the  *)
(* callback was called) are history: the code keeps only "due".            *)
Entry == [name: Names, interval: Intervals, start: Nat, due: Nat, fired: Nat]

Indices == DOMAIN list

Init ==
  /\ clock  = 0
  /\ life   = "none"
  /\ mutex  = Null
  /\ list   = << >>
  /\ size   = 0
  /\ blocks = 0
  /\ pc     = [t \in Threads |-> "idle"]
  /\ entry  = [t \in Threads |-> Null]
  /\ key    = [t \in Threads |-> Null]
  /\ now    = [t \in Threads |-> 0]
  /\ pos    = [t \in Threads |-> 0]
  /\ calls  = 0

-----------------------------------------------------------------------------
(***************************************************************************)
(* Control.                                                                *)
(***************************************************************************)
LockSites == {"add_lock", "remove_lock", "update_lock", "size_lock",
              "free_lock"}

(* What a thread does once it has the mutex. *)
AfterLock(site) ==
  CASE site = "add_lock"    -> "add_find"
    [] site = "remove_lock" -> "remove_find"
    [] site = "update_lock" -> "update_visit"
    [] site = "size_lock"   -> "size_read"
    [] site = "free_lock"   -> "free_entries"

AddBody    == {"add_find", "add_malloc", "add_strdup", "add_clock", "add_link"}
UpdateBody == {"update_visit", "update_callback", "update_advance",
               "update_stuck"}
Body       == AddBody \cup UpdateBody \cup
              {"remove_find", "size_read", "free_entries", "free_unlock"}

(* timer_free destroys the mutex after it has unlocked it. *)
FreeSites == {"free_lock", "free_entries", "free_unlock", "free_destroy"}

(* The steps that begin to use manager->head, right after the lock ...     *)
HeadSites == {"add_find", "remove_find", "update_visit", "free_entries"}

(* ... and those that go on with what was found.                           *)
Deep == (AddBody \cup UpdateBody) \ HeadSites

Goto(t, l) == pc' = [pc EXCEPT ![t] = l]

(* What the program does once it has used what was freed is anything: the  *)
(* model stops there.                                                      *)
Defined == life # "undefined"

(* Leaving a function ends the life of its locals. *)
Return(t) ==
  /\ Goto(t, "idle")
  /\ entry' = [entry EXCEPT ![t] = Null]
  /\ key'   = [key   EXCEPT ![t] = Null]
  /\ now'   = [now   EXCEPT ![t] = 0]
  /\ pos'   = [pos   EXCEPT ![t] = 0]
  /\ UNCHANGED calls

UnlockReturn(t) == mutex' = Null /\ Return(t)

(* Mutant of Lock: the mutex does not exclude. *)
LockWithoutMutex(t) ==
  /\ pc[t] \in LockSites
  /\ Defined
  /\ mutex' = t
  /\ Goto(t, AfterLock(pc[t]))
  /\ pos' = [pos EXCEPT ![t] = 1]
  /\ UNCHANGED <<clock, manager, entry, key, now, calls>>

(* pthread_mutex_lock, wherever it is called.  The mutex has the default   *)
(* type, so a thread that already holds it waits for itself.               *)
Lock(t) ==
  /\ pc[t] \in LockSites
  /\ Defined
  /\ mutex = Null
  /\ mutex' = t
  /\ Goto(t, AfterLock(pc[t]))
  /\ pos' = [pos EXCEPT ![t] = 1]
  /\ UNCHANGED <<clock, manager, entry, key, now, calls>>

(* Any thread may call at any time, next to a timer_free too; only after   *)
(* timer_free has returned does the application know that its pointer is   *)
(* no longer valid (timer.c:428).                                          *)
MayCall(t) ==
  /\ pc[t] = "idle"
  /\ life \in {"live", "dangling"}

Counted == calls < MaxCalls /\ calls' = calls + 1

-----------------------------------------------------------------------------
(***************************************************************************)
(* timer_manager_create.  When the mutex cannot be initialised the block   *)
(* is freed and nothing has changed.                                       *)
(***************************************************************************)
Create ==
  /\ life = "none"
  /\ life'   = "live"
  /\ list'   = << >>
  /\ size'   = 0
  /\ blocks' = blocks + 1
  /\ UNCHANGED <<clock, mutex, pc, locals, calls>>

(***************************************************************************)
(* timer_add.                                                              *)
(***************************************************************************)
CallAdd(t) ==
  \E n \in Names, i \in Intervals :
    /\ MayCall(t)
    /\ Counted
    /\ Goto(t, "add_lock")
    /\ entry' = [entry EXCEPT ![t] = [name |-> n, interval |-> i,
                                      start |-> 0, due |-> 0, fired |-> 0]]
    /\ UNCHANGED <<clock, manager, mutex, key, now, pos>>

Registered(n) == \E i \in Indices : list[i].name = n

(* Mutant of AddFind: the search for the name is forgotten. *)
AddFindNoSearch(t) ==
  /\ pc[t] = "add_find"
  /\ life = "live"
  /\ Goto(t, "add_malloc")
  /\ UNCHANGED <<clock, manager, mutex, locals, calls>>

(* Mutant of AddFind: returning false for a duplicate forgets to unlock. *)
AddFindKeepsMutex(t) ==
  /\ pc[t] = "add_find"
  /\ life = "live"
  /\ \/ /\ Registered(entry[t].name)
        /\ Return(t) /\ UNCHANGED mutex
     \/ /\ ~ Registered(entry[t].name)
        /\ Goto(t, "add_malloc")
        /\ UNCHANGED <<mutex, locals, calls>>
  /\ UNCHANGED <<clock, manager>>

AddFind(t) ==
  /\ pc[t] = "add_find"
  /\ life = "live"
  /\ \/ /\ Registered(entry[t].name)
        /\ UnlockReturn(t)
     \/ /\ ~ Registered(entry[t].name)
        /\ Goto(t, "add_malloc")
        /\ UNCHANGED <<mutex, locals, calls>>
  /\ UNCHANGED <<clock, manager>>

AddMalloc(t) ==
  /\ pc[t] = "add_malloc"
  /\ \/ UnlockReturn(t) /\ UNCHANGED blocks
     \/ /\ blocks' = blocks + 1
        /\ Goto(t, "add_strdup")
        /\ UNCHANGED <<mutex, locals, calls>>
  /\ UNCHANGED <<clock, life, list, size>>

AddStrdup(t) ==
  /\ pc[t] = "add_strdup"
  /\ \/ UnlockReturn(t) /\ blocks' = blocks - 1
     \/ /\ blocks' = blocks + 1
        /\ Goto(t, "add_clock")
        /\ UNCHANGED <<mutex, locals, calls>>
  /\ UNCHANGED <<clock, life, list, size>>

(* Mutant of AddClock: the copied name is not freed on failure. *)
AddClockLeak(t) ==
  /\ pc[t] = "add_clock"
  /\ \/ UnlockReturn(t) /\ blocks' = blocks - 1
     \/ /\ entry' = [entry EXCEPT ![t].start = clock + entry[t].interval,
                                  ![t].due   = clock + entry[t].interval]
        /\ Goto(t, "add_link")
        /\ UNCHANGED <<blocks, mutex, key, now, pos, calls>>
  /\ UNCHANGED <<clock, life, list, size>>

(* The first due time is one interval after the clock read here. *)
AddClock(t) ==
  /\ pc[t] = "add_clock"
  /\ \/ UnlockReturn(t) /\ blocks' = blocks - 2
     \/ /\ entry' = [entry EXCEPT ![t].start = clock + entry[t].interval,
                                  ![t].due   = clock + entry[t].interval]
        /\ Goto(t, "add_link")
        /\ UNCHANGED <<blocks, mutex, key, now, pos, calls>>
  /\ UNCHANGED <<clock, life, list, size>>

AddLink(t) ==
  /\ pc[t] = "add_link"
  /\ list' = <<entry[t]>> \o list
  /\ size' = size + 1
  /\ UnlockReturn(t)
  /\ UNCHANGED <<clock, life, blocks>>

(***************************************************************************)
(* timer_remove.                                                           *)
(***************************************************************************)
CallRemove(t) ==
  \E n \in Names :
    /\ MayCall(t)
    /\ Counted
    /\ Goto(t, "remove_lock")
    /\ key' = [key EXCEPT ![t] = n]
    /\ UNCHANGED <<clock, manager, mutex, entry, now, pos>>

(* find_timer_entry_with_previous_nolock stops at the first entry of that  *)
(* name; unlinking it, size-- and the two free are not interrupted.        *)
RemoveFind(t) ==
  /\ pc[t] = "remove_find"
  /\ life = "live"
  /\ \/ /\ ~ Registered(key[t])
        /\ UNCHANGED <<list, size, blocks>>
     \/ \E i \in Indices :
          /\ list[i].name = key[t]
          /\ \A j \in 1..(i - 1) : list[j].name # key[t]
          /\ list' = RemoveAt(list, i)
          /\ size' = size - 1
          /\ blocks' = blocks - 2
  /\ UnlockReturn(t)
  /\ UNCHANGED <<clock, life>>

(***************************************************************************)
(* timer_update.                                                           *)
(***************************************************************************)
(* When the clock cannot be read the call returns and nothing has changed. *)
CallUpdate(t) ==
  /\ MayCall(t)
  /\ IF t = Driver THEN UNCHANGED calls ELSE Counted
  /\ Goto(t, "update_lock")
  /\ now' = [now EXCEPT ![t] = clock]
  /\ UNCHANGED <<clock, manager, mutex, entry, key, pos>>

(* Mutant of Due: > 0 instead of >= 0. *)
DueStrictly(t) == list[pos[t]].due < now[t]

(* timespec_compare(&current_time, &current->next_run_time) >= 0 *)
Due(t) == list[pos[t]].due <= now[t]

Visiting(t) == pc[t] = "update_visit" /\ life = "live" /\ pos[t] \in Indices

(* The timer at the cursor is not due: move on. *)
UpdateSkip(t) ==
  /\ Visiting(t)
  /\ ~ Due(t)
  /\ pos' = [pos EXCEPT ![t] = @ + 1]
  /\ UNCHANGED <<clock, manager, mutex, pc, entry, key, now, calls>>

(* The timer at the cursor is due: enter its callback, mutex held. *)
UpdateFire(t) ==
  /\ Visiting(t)
  /\ Due(t)
  /\ list' = [list EXCEPT ![pos[t]].fired = @ + 1]
  /\ Goto(t, "update_callback")
  /\ UNCHANGED <<clock, life, size, blocks, mutex, locals, calls>>

(* The callback returns. *)
CallbackReturn(t) ==
  /\ pc[t] = "update_callback"
  /\ Goto(t, "update_advance")
  /\ UNCHANGED <<clock, manager, mutex, locals, calls>>

(* The callback calls a function of the library on its manager and waits   *)
(* for the mutex its own thread holds: no step of it follows.              *)
CallbackReenter(t) ==
  /\ pc[t] = "update_callback"
  /\ Defined
  /\ Reentrant
  /\ Goto(t, "update_stuck")
  /\ UNCHANGED <<clock, manager, mutex, locals, calls>>

(* Mutant of UpdateAdvance: the interval is added once, not in a loop. *)
UpdateAdvanceOnce(t) ==
  /\ pc[t] = "update_advance"
  /\ Due(t)
  /\ list' = [list EXCEPT ![pos[t]].due = @ + list[pos[t]].interval]
  /\ pos' = [pos EXCEPT ![t] = @ + 1]
  /\ Goto(t, "update_visit")
  /\ UNCHANGED <<clock, life, size, blocks, mutex, entry, key, now, calls>>

(* Mutant of UpdateAdvance: the next period starts at the current time. *)
UpdateAdvanceFromNow(t) ==
  /\ pc[t] = "update_advance"
  /\ Due(t)
  /\ list' = [list EXCEPT ![pos[t]].due = now[t] + list[pos[t]].interval]
  /\ UNCHANGED <<clock, life, size, blocks, mutex, pc, locals, calls>>

(* One iteration of the loop that looks for the next due time. *)
UpdateAdvance(t) ==
  /\ pc[t] = "update_advance"
  /\ Due(t)
  /\ list' = [list EXCEPT ![pos[t]].due = @ + list[pos[t]].interval]
  /\ UNCHANGED <<clock, life, size, blocks, mutex, pc, locals, calls>>

UpdateNext(t) ==
  /\ pc[t] = "update_advance"
  /\ ~ Due(t)
  /\ pos' = [pos EXCEPT ![t] = @ + 1]
  /\ Goto(t, "update_visit")
  /\ UNCHANGED <<clock, manager, mutex, entry, key, now, calls>>

UpdateDone(t) ==
  /\ pc[t] = "update_visit"
  /\ life = "live"
  /\ pos[t] \notin Indices
  /\ UnlockReturn(t)
  /\ UNCHANGED <<clock, manager>>

(***************************************************************************)
(* timer_get_size.                                                         *)
(***************************************************************************)
CallSize(t) ==
  /\ MayCall(t)
  /\ Counted
  /\ Goto(t, "size_lock")
  /\ UNCHANGED <<clock, manager, mutex, locals>>

(* The size is in the manager, not in the entries. *)
SizeRead(t) ==
  /\ pc[t] = "size_read"
  /\ UnlockReturn(t)
  /\ UNCHANGED <<clock, manager>>

(***************************************************************************)
(* timer_free.                                                             *)
(***************************************************************************)
(* Nothing in timer_free asks whether other calls are running or waiting.  *)
CallFree(t) ==
  /\ MayCall(t)
  /\ Counted
  /\ Goto(t, "free_lock")
  /\ UNCHANGED <<clock, manager, mutex, locals>>

(* Mutant of FreeEntries: the entries are freed without the mutex. *)
FreeEntriesUnlocked(t) ==
  /\ pc[t] = "free_entries"
  /\ life = "live"
  /\ life' = IF list = << >> THEN "live" ELSE "dangling"
  /\ list' = << >>
  /\ blocks' = blocks - 2 * Len(list)
  /\ mutex' = Null
  /\ Goto(t, "free_unlock")
  /\ UNCHANGED <<clock, size, locals, calls>>

(* Every entry and its name are freed; manager->head and manager->size     *)
(* keep their values, so head dangles unless it was NULL.                  *)
FreeEntries(t) ==
  /\ pc[t] = "free_entries"
  /\ life = "live"
  /\ life' = IF list = << >> THEN "live" ELSE "dangling"
  /\ list' = << >>
  /\ blocks' = blocks - 2 * Len(list)
  /\ Goto(t, "free_unlock")
  /\ UNCHANGED <<clock, size, mutex, locals, calls>>

FreeUnlock(t) ==
  /\ pc[t] = "free_unlock"
  /\ mutex' = Null
  /\ Goto(t, "free_destroy")
  /\ UNCHANGED <<clock, manager, locals, calls>>

Alone(t) == \A u \in Threads \ {t} : pc[u] = "idle"

(* pthread_mutex_destroy and free(manager).  Whoever else is inside holds  *)
(* the mutex, waits for it, or is about to destroy and free it again.      *)
FreeDestroy(t) ==
  /\ pc[t] = "free_destroy"
  /\ \/ /\ Alone(t)
        /\ life' = "gone"
        /\ blocks' = blocks - 1
        /\ Return(t)
     \/ /\ ~ Alone(t)
        /\ life' = "undefined"
        /\ UNCHANGED <<blocks, pc, locals, calls>>
  /\ UNCHANGED <<clock, mutex, list, size>>

(* A thread that gets the mutex of a manager whose head dangles reads a    *)
(* freed entry.                                                            *)
Stray(t) ==
  /\ pc[t] \in HeadSites
  /\ life = "dangling"
  /\ life' = "undefined"
  /\ UNCHANGED <<clock, list, size, blocks, mutex, pc, locals, calls>>

-----------------------------------------------------------------------------
(***************************************************************************)
(* The system.                                                             *)
(***************************************************************************)
Tick ==
  /\ clock < MaxClock
  /\ clock' = clock + 1
  /\ UNCHANGED <<manager, mutex, pc, locals, calls>>

(* The application is through with its manager, or nothing is known of it. *)
Finished ==
  /\ \/ life = "gone" /\ \A t \in Threads : pc[t] = "idle"
     \/ ~ Defined
  /\ UNCHANGED vars

Call(t) == CallAdd(t) \/ CallRemove(t) \/ CallUpdate(t) \/ CallSize(t)
           \/ CallFree(t)

(* The steps of a function that has the mutex, or has just given it back. *)
Run(t) ==
  /\ Defined
  /\ \/ AddFind(t) \/ AddMalloc(t) \/ AddStrdup(t) \/ AddClock(t) \/ AddLink(t)
     \/ RemoveFind(t) \/ SizeRead(t)
     \/ UpdateSkip(t) \/ UpdateFire(t) \/ CallbackReturn(t)
     \/ UpdateAdvance(t) \/ UpdateNext(t) \/ UpdateDone(t)
     \/ FreeEntries(t) \/ FreeUnlock(t) \/ FreeDestroy(t) \/ Stray(t)

Next ==
  \/ Create
  \/ Tick
  \/ Finished
  \/ \E t \in Threads : Call(t) \/ Lock(t) \/ Run(t) \/ CallbackReenter(t)

Spec == Init /\ [][Next]_vars

(* The scheduler runs a thread that can run, callbacks return, a free      *)
(* mutex nobody else takes is obtained, and the driver keeps updating.     *)
Fairness ==
  /\ \A t \in Threads : WF_vars(Run(t)) /\ WF_vars(Lock(t))
  /\ WF_vars(CallUpdate(Driver))

FairSpec == Spec /\ Fairness

-----------------------------------------------------------------------------
(***************************************************************************)
(* Properties.                                                             *)
(***************************************************************************)
TypeOK ==
  /\ clock \in Nat
  /\ life \in {"none", "live", "dangling", "gone", "undefined"}
  /\ mutex \in Threads \cup {Null}
  /\ list \in Seq(Entry)
  /\ size \in Nat
  /\ blocks \in Nat
  /\ pc \in [Threads -> {"idle", "free_destroy"} \cup LockSites \cup Body]
  /\ entry \in [Threads -> Entry \cup {Null}]
  /\ key \in [Threads -> Names \cup {Null}]
  /\ now \in [Threads -> Nat]
  /\ pos \in [Threads -> Nat]
  /\ calls \in 0..MaxCalls

(* A thread between lock and unlock is the one that holds the mutex, so    *)
(* two of them are never inside at once.  Every early return of timer_add, *)
(* timer_remove and timer_update must keep lock and unlock paired.         *)
MutualExclusion ==
  \A t \in Threads : pc[t] \in Body <=> mutex = t

(* A name is in the list at most once: the search and the insertion of     *)
(* timer_add happen under one lock, whatever other threads do in between.  *)
UniqueNames ==
  \A i, j \in Indices : list[i].name = list[j].name => i = j

(* The blocks that a timer_add at l still owns, to free them or link them. *)
Held(l) ==
  CASE l = "add_strdup"                 -> 1
    [] l \in {"add_clock", "add_link"} -> 2
    [] OTHER                            -> 0

InFlight == IF mutex = Null THEN 0 ELSE Held(pc[mutex])

(* Nothing is lost and nothing is freed twice: what malloc gave is in the  *)
(* manager, in its entries (two blocks each), or in the hands of a running *)
(* timer_add, whose failure paths free exactly what was obtained; and      *)
(* timer_get_size answers the length of the list.  Only an entry that is   *)
(* linked while timer_free runs, behind its back, is lost with the manager *)
(* (timer.c:179-224, 264-276 and 399-427).                                 *)
Accounting ==
  /\ life = "none"     => blocks = 0
  /\ life = "live"     => blocks = 1 + 2 * Len(list) + InFlight /\ size = Len(list)
  /\ life = "dangling" => blocks = 1
  /\ life = "gone"     => blocks = 2 * Len(list)

(* What the comments say of the mutex: that it keeps the other threads     *)
(* away from the list while timer_free frees it (timer.c:397-398), and     *)
(* makes access from several threads safe (timer.h:49-50).  This is false. *)
NoUseAfterFree == Defined

(* And timer_add's success means that a timer is registered: also false    *)
(* when the call slips in between unlock and destroy (timer.c:421-422).    *)
NothingForgotten == life = "gone" => blocks = 0

(* When timer_update has walked past a position, no timer before it is     *)
(* still due at the moment this call measures: each was called and moved   *)
(* on to a due time in the future (timer.c:334-338).                       *)
NoneLeftBehind ==
  \A t \in Threads :
    pc[t] \in UpdateBody =>
      \A i \in Indices : i < pos[t] => list[i].due > now[t]

(* The k-th call of a timer's callback never comes before the k-th due     *)
(* time, however late, often or concurrently timer_update runs             *)
(* (timer.c:323-338).                                                      *)
NeverEarly ==
  \A i \in Indices :
    list[i].fired > 0 =>
      list[i].start + (list[i].fired - 1) * list[i].interval <= clock

(* A timer that fell behind stays on its own timetable: the next due time  *)
(* is a whole number of intervals after the first one, and not "now plus   *)
(* an interval" (the example of timer.c:339-344).                          *)
OnTimetable ==
  \A i \in Indices : \E k \in 0..(clock + 1) :
    list[i].due = list[i].start + k * list[i].interval

(* What the user of a timer counts on: never early, and on its timetable,  *)
(* through every interleaving and delay (timer.c:319-348).                 *)
KeepsTimetable == NeverEarly /\ OnTimetable

(* What a thread relies on while it works, whatever the others do: the     *)
(* name timer_add looked for is still absent when it links its entry, the  *)
(* entry timer_update stands on is still there after the callback, and     *)
(* what it goes on to use has not been freed (timer.c:169-220, 319-348).   *)
LocalsOK ==
  \A t \in Threads :
    /\ pc[t] \in AddBody \cup {"add_lock"} => entry[t] \in Entry
    /\ pc[t] \in AddBody \ {"add_find"} => ~ Registered(entry[t].name)
    /\ pc[t] \in UpdateBody \ {"update_visit"} => pos[t] \in Indices
    /\ pc[t] \in Deep => life \in {"live", "undefined"}

(* Nothing but a timer_free that has given the mutex back, and has not     *)
(* returned yet, makes the others use what was freed.                      *)
FreeIsToBlame ==
  ~ Defined =>
    \E t \in Threads : pc[t] = "free_destroy" /\ ~ Alone(t)

(* The library never uses what it has freed, in any interleaving of its    *)
(* calls, except in the window between the unlock and the end of           *)
(* timer_free (timer.c:421-426).                                           *)
SafeUntilFreed == LocalsOK /\ FreeIsToBlame

-----------------------------------------------------------------------------
(***************************************************************************)
(* The list implements the abstract registry.  A timer is called when      *)
(* UpdateFire enters its callback; the loop that then looks for the next   *)
(* due time is invisible to the registry, which jumps there at once.       *)
(***************************************************************************)
Serving(i) ==
  {t \in Threads : /\ pc[t] \in {"update_callback", "update_advance",
                                  "update_stuck"}
                   /\ pos[t] = i}

PromisedDue(i) ==
  IF \E t \in Serving(i) : Due(t)
  THEN NextDue(list[i].due, list[i].interval,
               now[CHOOSE t \in Serving(i) : Due(t)])
  ELSE list[i].due

Registry ==
  IF life = "live" THEN {[list[i] EXCEPT !.due = PromisedDue(i)] : i \in Indices}
                   ELSE {}

Service == INSTANCE TimerService WITH registry <- Registry

(* Every step of every interleaving is a step of TimerService or invisible *)
(* to it.                                                                  *)
ImplementsService == Service!Spec

(* A thread that got the mutex gives it back: no call keeps it for ever,   *)
(* on any of its return paths.                                             *)
MutexReleased == \A t \in Threads : mutex = t ~> mutex # t \/ ~ Defined

(* A timer that was called is moved to its next due time, past the current *)
(* time, and the walk goes on (timer.c:333-338, timer.h:99-101).           *)
Rescheduled ==
  \A t \in Threads : pc[t] = "update_callback" ~> pc[t] = "update_visit"

(* A due time of a timer does not pass unnoticed: when it is reached the   *)
(* timer is called, unless it is removed or the manager freed first.       *)
Awaits(n, d) ==
  /\ life = "live"
  /\ d <= clock
  /\ \E i \in Indices : list[i].name = n /\ list[i].due = d

DueTimeServed ==
  \A n \in Names, d \in 1..MaxClock : Awaits(n, d) ~> ~ Awaits(n, d)
=============================================================================
