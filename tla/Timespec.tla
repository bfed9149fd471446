------------------------------- MODULE Timespec -------------------------------
(***************************************************************************)
(* The arithmetic of timer_lb on struct timespec, followed through the due *)
(* times of one timer: timer_add adds the interval to the clock, and the   *)
(* loop of timer_update adds it to the due time until that lies after the  *)
(* clock.  A timespec is a number of seconds, of the type time_t, and of   *)
(* nanoseconds below one second.  An interval is a double: a number of     *)
(* grains, of which a nanosecond has Grain.                                *)
(*                                                                         *)
(* The whole seconds and the fraction of a double are doubles again; the   *)
(* fraction times 1e9 may not be one, and the product is then rounded.     *)
(* That changes the nanoseconds only where it is rounded up to a whole     *)
(* number of them: 0.3, a little less than 3/10, gives all of 300000000.   *)
(*                                                                         *)
(* Undefined in C: a double that time_t does not hold becomes the smallest *)
(* value (x86-64) or the nearest one (ARM); a sum that overflows wraps.    *)
(***************************************************************************)
EXTENDS Integers

CONSTANTS
  Second,     (* Nanoseconds in a second, 1e9.                             *)
  Grain,      (* Parts of a nanosecond that an interval can have.          *)
  TimeMax,    (* The largest time_t.                                       *)
  Intervals,  (* Intervals of timers, in grains.                           *)
  Rounding,   (* The most a product is rounded by, in grains; for 1e9, and *)
              (* fractions of a double, 2^-24 of a nanosecond.             *)
  RoundsUp,   (* The intervals whose fraction, times 1e9, is rounded up to *)
              (* a whole number of nanoseconds.                            *)
  MaxClock    (* Bound: the last value of the clock, in nanoseconds.       *)

ASSUME TimespecAssumption ==
  /\ Second \in Nat \ {0} /\ Grain \in Nat \ {0} /\ TimeMax \in Nat
  /\ Intervals \subseteq Nat \ {0}
  /\ Rounding \in 0..(Grain - 1)
  /\ RoundsUp \subseteq {q \in Intervals : q % Grain >= Grain - Rounding}
  /\ MaxClock \in Nat /\ MaxClock \div Second <= TimeMax

VARIABLES
  clock,     (* CLOCK_MONOTONIC, when it was last read.                    *)
  due,       (* next_run_time.                                             *)
  interval,  (* interval_seconds.                                          *)
  start,     (* History: the clock when the timer was added.               *)
  periods,   (* History: how often the interval was added.                 *)
  pc         (* "none", "added", or "late" within the loop of timer_update.*)

vars == <<clock, due, interval, start, periods, pc>>

TimeT == (0 - TimeMax - 1)..TimeMax

Timespecs == [sec: TimeT, nsec: 0..(Second - 1)]

Value(ts) == Second * ts.sec + ts.nsec

(* A moment as clock_gettime gives it. *)
Clock(n) == [sec |-> n \div Second, nsec |-> n % Second]

-----------------------------------------------------------------------------
(* A time_t that overflows wraps around. *)
Wrap(n) == ((n + TimeMax + 1) % (2 * (TimeMax + 1))) - TimeMax - 1

(* (time_t)whole_seconds *)
Casts(n) == IF n <= TimeMax THEN {n} ELSE {0 - TimeMax - 1, TimeMax}

WholeSeconds(q) == q \div (Second * Grain)

(* Mutant of Nanoseconds: the fraction is rounded, not cut off. *)
NanosecondsRounded(q) == ((q % (Second * Grain)) + Grain \div 2) \div Grain

RoundedUp(q) == IF q \in RoundsUp THEN 1 ELSE 0

(* (long long)(fractional_seconds * 1e9) *)
Nanoseconds(q) == (q % (Second * Grain)) \div Grain + RoundedUp(q)

(* Mutant of Carry: the seconds carried are lost. *)
CarryLost(ts) ==
  IF ts.nsec >= Second THEN [ts EXCEPT !.nsec = @ % Second] ELSE ts

Carry(ts) ==
  IF ts.nsec >= Second
  THEN [sec |-> Wrap(ts.sec + ts.nsec \div Second), nsec |-> ts.nsec % Second]
  ELSE ts

(* What timespec_add_double may make of ts. *)
Sums(ts, q) ==
  {Carry([sec |-> Wrap(ts.sec + w), nsec |-> ts.nsec + Nanoseconds(q)]) :
     w \in Casts(WholeSeconds(q))}

(* timespec_compare *)
Compare(a, b) ==
  IF a.sec # b.sec THEN IF a.sec > b.sec THEN 1 ELSE -1
  ELSE IF a.nsec > b.nsec THEN 1 ELSE IF a.nsec < b.nsec THEN -1 ELSE 0

-----------------------------------------------------------------------------
Init ==
  /\ clock \in {Clock(n) : n \in 0..MaxClock}
  /\ due = clock /\ start = clock
  /\ interval \in Intervals
  /\ periods = 0 /\ pc = "none"

AddInterval(ts) ==
  /\ due' \in Sums(ts, interval)
  /\ periods' = periods + 1

Add ==
  /\ pc = "none"
  /\ start' = clock
  /\ AddInterval(clock)
  /\ pc' = "added"
  /\ UNCHANGED <<clock, interval>>

(* timer_update reads the clock and finds that the timer is due, or not. *)
Update ==
  /\ pc = "added"
  /\ \E n \in Value(clock)..MaxClock :
       /\ clock' = Clock(n)
       /\ pc' = IF Compare(Clock(n), due) >= 0 THEN "late" ELSE "added"
  /\ UNCHANGED <<due, interval, start, periods>>

(* Mutant of Advance: the sum is made in a copy of the due time. *)
AdvanceCopy ==
  /\ pc = "late" /\ Compare(clock, due) >= 0
  /\ UNCHANGED <<clock, due, interval, start, periods, pc>>

Advance ==
  /\ pc = "late" /\ Compare(clock, due) >= 0
  /\ AddInterval(due)
  /\ UNCHANGED <<clock, interval, start, pc>>

Served ==
  /\ pc = "late" /\ Compare(clock, due) < 0
  /\ pc' = "added"
  /\ UNCHANGED <<clock, due, interval, start, periods>>

Next == Add \/ Update \/ Advance \/ Served

Spec == Init /\ [][Next]_vars

FairSpec == Spec /\ WF_vars(Advance) /\ WF_vars(Served)

-----------------------------------------------------------------------------
TypeOK ==
  /\ clock \in Timespecs /\ due \in Timespecs /\ start \in Timespecs
  /\ interval \in Intervals
  /\ periods \in Nat
  /\ pc \in {"none", "added", "late"}

(* The times that occur are times that time_t holds. *)
Fits == \A q \in Intervals : MaxClock \div Second + WholeSeconds(q) + 1 <= TimeMax

(* An interval in nanoseconds. *)
Period(q) == q \div Grain + RoundedUp(q)

(* If the times fit, the due time is, to the nanosecond, the sum of the    *)
(* clock at timer_add and of as many periods, all of the same length       *)
(* (timer.c:31-50, 208 and 336-338).                                       *)
OnTheNanosecond ==
  Fits => Value(due) = Value(start) + periods * Period(interval)

(* What is cut off adds up: a timer runs ahead of its interval, by less    *)
(* than one nanosecond per period; it falls behind by no more than one     *)
(* product of doubles is rounded by, per period (timer.c:34-38).           *)
DriftBounded ==
  Fits =>
    LET ahead == Value(start) * Grain + periods * interval - Value(due) * Grain
    IN  0 - periods * Rounding <= ahead /\ ahead <= periods * (Grain - 1)

Sign(n) == IF n > 0 THEN 1 ELSE IF n < 0 THEN -1 ELSE 0

(* The comparison, which looks at the seconds first, is the order of the   *)
(* moments (timer.c:57-63): it needs both sides below a second of          *)
(* nanoseconds.                                                            *)
ComparesMoments ==
  Compare(clock, due) = Sign(Value(clock) - Value(due))

(* TimerManager may count time in integers: sums and comparisons of struct *)
(* timespec are theirs (timer.c:31-63).                                    *)
IntegerTime == OnTheNanosecond /\ ComparesMoments

(* The loop of timer_update ends if a period is a nanosecond or more, and  *)
(* then the timer is due later (timer.c:336-338).                          *)
LoopEnds == Fits /\ Period(interval) > 0 => (pc = "late" ~> pc = "added")

(* "Phải lớn hơn 0" (timer.h:75) is all that is asked of an interval; but  *)
(* with one that time_t does not hold the timer is due before it starts    *)
(* (timer.c:41).                                                           *)
DueAfterStart == periods = 1 => Value(due) >= Value(start)
=============================================================================
