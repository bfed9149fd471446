---------------------------- MODULE TimerService ----------------------------
(***************************************************************************)
(* What timer_lb promises: a registry of periodic timers, each known by    *)
(* its name.  A timer becomes due at start, start + interval, start + 2 *  *)
(* interval, ...; its callback is called at most once for a due time,      *)
(* never before it, and due times that were missed are passed over, not    *)
(* made up for.  Operations are atomic: there is no mutex, no list and no  *)
(* memory here.  TimerManager is shown to implement this module.           *)
(***************************************************************************)
EXTENDS Integers, Timetable

CONSTANTS
  Names,      (* Timer names.                                              *)
  Intervals,  (* Intervals, in nanoseconds.                                *)
  MaxClock    (* Bound: the last value of the clock.                       *)

VARIABLES
  clock,     (* CLOCK_MONOTONIC.                                           *)
  registry   (* The timers.                                                *)

vars == <<clock, registry>>

(* A timer: its first due time, its next one, and how often it was called. *)
Timer == [name: Names, interval: Intervals, start: Nat, due: Nat, fired: Nat]

Init ==
  /\ clock = 0
  /\ registry = {}

Tick ==
  /\ clock < MaxClock
  /\ clock' = clock + 1
  /\ UNCHANGED registry

(* The first due time counts from a moment c of the call.                  *)
Register ==
  \E n \in Names, i \in Intervals, c \in 0..clock :
    /\ \A r \in registry : r.name # n
    /\ registry' = registry \cup {[name |-> n, interval |-> i, start |-> c + i,
                                   due |-> c + i, fired |-> 0]}
    /\ UNCHANGED clock

Unregister ==
  \E r \in registry :
    /\ registry' = registry \ {r}
    /\ UNCHANGED clock

(* A timer that was due at the moment n is called, once. *)
Fire ==
  \E r \in registry : \E n \in r.due..clock :
    /\ registry' = (registry \ {r}) \cup
                   {[r EXCEPT !.due   = NextDue(r.due, r.interval, n),
                              !.fired = r.fired + 1]}
    /\ UNCHANGED clock

Dispose ==
  /\ registry' = {}
  /\ UNCHANGED clock

Next == Tick \/ Register \/ Unregister \/ Fire \/ Dispose

Spec == Init /\ [][Next]_vars
=============================================================================
