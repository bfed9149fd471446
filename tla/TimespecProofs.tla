---------------------------- MODULE TimespecProofs ----------------------------
(***************************************************************************)
(* That the arithmetic of timer_lb on struct timespec is the arithmetic of *)
(* integers, for every length of a second, every time_t and every set of   *)
(* intervals, as long as the times fit.  The inductive invariant says, in  *)
(* addition to the type, where a due time can be: at most one interval     *)
(* after the clock, so that no sum overflows.                              *)
(***************************************************************************)
EXTENDS Timespec, TLAPS

-----------------------------------------------------------------------------
(* Division.                                                               *)

LEMMA DivMod ==
  ASSUME NEW a \in Int, NEW b \in Nat \ {0}
  PROVE  /\ a = b * (a \div b) + (a % b)
         /\ a % b \in 0..(b - 1)
         /\ a \div b \in Int
         /\ a \in Nat => a \div b \in Nat
OBVIOUS

LEMMA DivUnique ==
  ASSUME NEW b \in Nat \ {0}, NEW c \in Int, NEW d \in 0..(b - 1)
  PROVE  (b * c + d) \div b = c /\ (b * c + d) % b = d
OBVIOUS

LEMMA ProductMonotone ==
  ASSUME NEW a \in Int, NEW b \in Int, NEW c \in Nat, a <= b
  PROVE  c * a <= c * b
OBVIOUS

LEMMA ProductType ==
  ASSUME NEW a \in Nat \ {0}, NEW b \in Nat \ {0}
  PROVE  a * b \in Nat \ {0}
OBVIOUS

(* A fraction of a second is less than a second of nanoseconds. *)
LEMMA DivBelow ==
  ASSUME NEW s \in Nat \ {0}, NEW g \in Nat \ {0}, NEW r \in Nat, r < s * g
  PROVE  r \div g \in 0..(s - 1)
<1> DEFINE m == r \div g
<1>0. s * g \in Nat
  BY ProductType
<1>1. r = g * m + (r % g) /\ r % g \in 0..(g - 1) /\ m \in Nat
  OBVIOUS
<1> HIDE DEF m
<1>2. ASSUME m >= s PROVE FALSE
  <2>1. g * s <= g * m
    BY <1>1, <1>2, ProductMonotone
  <2>2. g * s = s * g
    OBVIOUS
  <2>3. g * m \in Int /\ g * m <= r
    BY <1>1
  <2> QED
    BY <1>0, <2>1, <2>2, <2>3
<1>3. m \in 0..(s - 1)
  BY <1>1, <1>2
<1> QED
  BY <1>3 DEF m

-----------------------------------------------------------------------------
(* The parts of an interval.                                               *)

LEMMA IntervalParts ==
  ASSUME NEW q \in Nat
  PROVE  /\ WholeSeconds(q) \in Nat
         /\ Nanoseconds(q) \in 0..Second
         /\ Period(q) \in Nat
         /\ Period(q) = Second * WholeSeconds(q) + Nanoseconds(q)
<1> DEFINE SG == Second * Grain
           w  == q \div SG
           r  == q % SG
           n  == r \div Grain
           m  == r % Grain
<1>1. Second \in Nat \ {0} /\ Grain \in Nat \ {0}
  BY TimespecAssumption
<1>2. SG \in Nat \ {0}
  BY <1>1, ProductType
<1> HIDE DEF SG
<1>3. q = SG * w + r /\ w \in Nat /\ r \in 0..(SG - 1)
  BY <1>2
<1> HIDE DEF w, r
<1>4. n \in 0..(Second - 1)
  <2>1. r \in Nat /\ r < SG
    BY <1>2, <1>3
  <2> QED
    BY <1>1, <2>1, DivBelow DEF SG
<1>5. r = Grain * n + m /\ m \in 0..(Grain - 1)
  BY <1>1, <1>2, <1>3, DivMod
<1> HIDE DEF n, m
<1>6. q = Grain * (Second * w + n) + m
  BY <1>1, <1>3, <1>4, <1>5 DEF SG
<1>7. Second * w + n \in Int
  BY <1>1, <1>3, <1>4
<1>8. q \div Grain = Second * w + n
  BY <1>1, <1>5, <1>6, <1>7, DivUnique
<1> DEFINE u == RoundedUp(q)
<1>9. u \in 0..1
  BY DEF RoundedUp
<1>10. /\ w = WholeSeconds(q) /\ n + u = Nanoseconds(q)
       /\ Period(q) = Second * w + n + u
  BY <1>8 DEF w, r, n, SG, WholeSeconds, Nanoseconds, Period
<1> HIDE DEF u
<1>11. n + u \in 0..Second
  BY <1>1, <1>4, <1>9
<1>12. Second * w \in Nat
  BY <1>1, <1>3
<1>13. Second * w + n + u = Second * w + (n + u) /\ Second * w + n + u \in Nat
  BY <1>4, <1>9, <1>12
<1> QED
  BY <1>3, <1>10, <1>11, <1>13

-----------------------------------------------------------------------------
(* Sums and comparisons.                                                   *)

LEMMA WrapType == ASSUME NEW n \in Int PROVE Wrap(n) \in TimeT
BY TimespecAssumption DEF Wrap, TimeT

LEMMA WrapFits == ASSUME NEW n \in TimeT PROVE Wrap(n) = n
BY TimespecAssumption DEF Wrap, TimeT

LEMMA CastType == ASSUME NEW n \in Nat PROVE Casts(n) \subseteq TimeT
BY TimespecAssumption DEF Casts, TimeT

(* At most one second is carried. *)
LEMMA CarryIs ==
  ASSUME NEW s \in Int, NEW n \in 0..(2 * Second - 1)
  PROVE  Carry([sec |-> s, nsec |-> n]) =
           IF n >= Second THEN [sec |-> Wrap(s + 1), nsec |-> n - Second]
           ELSE [sec |-> s, nsec |-> n]
<1>1. Second \in Nat \ {0}
  BY TimespecAssumption
<1>2. CASE n >= Second
  <2>1. n - Second \in 0..(Second - 1) /\ n = Second * 1 + (n - Second)
    BY <1>1, <1>2
  <2>2. n \div Second = 1 /\ n % Second = n - Second
    BY <1>1, <2>1, DivUnique
  <2> QED
    BY <1>2, <2>2 DEF Carry
<1>3. CASE ~ (n >= Second)
  BY <1>3 DEF Carry
<1> QED
  BY <1>2, <1>3

(* A sum is in normal form, whatever overflows. *)
LEMMA SumType ==
  ASSUME NEW ts \in Timespecs, NEW q \in Nat
  PROVE  Sums(ts, q) \subseteq Timespecs
<1>1. Second \in Nat \ {0} /\ TimeMax \in Nat
  BY TimespecAssumption
<1> SUFFICES ASSUME NEW w \in Casts(WholeSeconds(q))
             PROVE  Carry([sec |-> Wrap(ts.sec + w), nsec |-> ts.nsec + Nanoseconds(q)])
                      \in Timespecs
  BY DEF Sums
<1> DEFINE s == Wrap(ts.sec + w)
           n == ts.nsec + Nanoseconds(q)
<1>2. w \in TimeT /\ TimeT \subseteq Int
  BY <1>1, IntervalParts, CastType DEF TimeT
<1>3. ts.sec \in TimeT /\ ts.nsec \in 0..(Second - 1)
  BY DEF Timespecs
<1>4. s \in TimeT
  <2> DEFINE k == ts.sec + w
  <2>1. k \in Int
    <3>1. w \in Int /\ ts.sec \in Int
      BY <1>2, <1>3
    <3> QED
      BY <3>1
  <2> HIDE DEF k
  <2>2. Wrap(k) \in TimeT
    BY <2>1, WrapType
  <2> QED
    BY <2>2 DEF k
<1>5. n \in 0..(2 * Second - 1)
  BY <1>1, <1>3, IntervalParts
<1> HIDE DEF s, n
<1>6. CASE n >= Second
  <2>1. Wrap(s + 1) \in TimeT
    BY <1>2, <1>4, WrapType
  <2>2. n - Second \in 0..(Second - 1)
    BY <1>1, <1>5, <1>6
  <2>3. Carry([sec |-> s, nsec |-> n]) = [sec |-> Wrap(s + 1), nsec |-> n - Second]
    BY <1>2, <1>4, <1>5, <1>6, CarryIs
  <2>4. Carry([sec |-> s, nsec |-> n]) \in Timespecs
    BY <2>1, <2>2, <2>3 DEF Timespecs
  <2> QED
    BY <2>4 DEF s, n
<1>7. CASE ~ (n >= Second)
  <2>1. n \in 0..(Second - 1)
    BY <1>1, <1>5, <1>7
  <2>2. Carry([sec |-> s, nsec |-> n]) = [sec |-> s, nsec |-> n]
    BY <1>2, <1>4, <1>5, <1>7, CarryIs
  <2>3. Carry([sec |-> s, nsec |-> n]) \in Timespecs
    BY <1>4, <2>1, <2>2 DEF Timespecs
  <2> QED
    BY <2>3 DEF s, n
<1> QED
  BY <1>6, <1>7

(* A sum that fits is the sum of the moments. *)
LEMMA SumValue ==
  ASSUME NEW ts \in Timespecs, NEW q \in Nat, NEW x \in Sums(ts, q),
         0 <= ts.sec, ts.sec + WholeSeconds(q) + 1 <= TimeMax
  PROVE  0 <= x.sec /\ Value(x) = Value(ts) + Period(q)
<1>1. Second \in Nat \ {0} /\ TimeMax \in Nat
  BY TimespecAssumption
<1> DEFINE w == WholeSeconds(q)
           m == Nanoseconds(q)
           s == ts.sec + w
           n == ts.nsec + m
<1>2. /\ w \in Nat /\ m \in 0..Second
      /\ Period(q) = Second * w + m
  BY IntervalParts
<1>3. ts.sec \in Int /\ ts.nsec \in 0..(Second - 1)
  BY <1>1 DEF Timespecs, TimeT
<1>4. /\ s \in TimeT /\ s + 1 \in TimeT /\ s \in Nat /\ s = ts.sec + w
      /\ w <= TimeMax
  BY <1>1, <1>2, <1>3 DEF TimeT
<1>5. n \in 0..(2 * Second - 1) /\ n = ts.nsec + m
  BY <1>1, <1>2, <1>3
<1>6. x = Carry([sec |-> s, nsec |-> n])
  <2>1. Casts(w) = {w}
    BY <1>4 DEF Casts
  <2>2. x = Carry([sec |-> Wrap(s), nsec |-> n])
    BY <2>1 DEF Sums
  <2>3. Wrap(s) = s
    BY <1>4, WrapFits
  <2> QED
    BY <2>2, <2>3
<1>7. Value(ts) = Second * ts.sec + ts.nsec
  BY DEF Value
<1> HIDE DEF w, m, s, n
<1>8. CASE n >= Second
  <2>1. x = [sec |-> s + 1, nsec |-> n - Second]
    BY <1>4, <1>5, <1>6, <1>8, CarryIs, WrapFits
  <2>2. Value(x) = Second * (s + 1) + (n - Second)
    BY <2>1 DEF Value
  <2>3. Second * (s + 1) + (n - Second) = Second * ts.sec + ts.nsec + (Second * w + m)
    BY <1>1, <1>2, <1>3, <1>4, <1>5
  <2>4. x.sec = s + 1
    BY <2>1
  <2> QED
    BY <1>2, <1>4, <1>7, <2>2, <2>3, <2>4
<1>9. CASE ~ (n >= Second)
  <2>1. x = [sec |-> s, nsec |-> n]
    BY <1>6, <1>9 DEF Carry
  <2>2. Value(x) = Second * s + n
    BY <2>1 DEF Value
  <2>3. Second * s + n = Second * ts.sec + ts.nsec + (Second * w + m)
    BY <1>1, <1>2, <1>3, <1>4, <1>5
  <2>4. x.sec = s
    BY <2>1
  <2> QED
    BY <1>2, <1>4, <1>7, <2>2, <2>3, <2>4
<1> QED
  BY <1>8, <1>9

(* The seconds decide unless they are equal, as the nanoseconds of both    *)
(* are less than a second.                                                 *)
LEMMA CompareIsSign ==
  ASSUME NEW a \in Timespecs, NEW b \in Timespecs
  PROVE  /\ Compare(a, b) = Sign(Value(a) - Value(b))
         /\ Compare(a, b) >= 0 => b.sec <= a.sec
<1>1. Second \in Nat \ {0} /\ TimeMax \in Nat
  BY TimespecAssumption
<1>2. /\ a.sec \in Int /\ a.nsec \in 0..(Second - 1)
      /\ b.sec \in Int /\ b.nsec \in 0..(Second - 1)
  BY <1>1 DEF Timespecs, TimeT
<1> DEFINE va == Second * a.sec
           vb == Second * b.sec
<1>3. va \in Int /\ vb \in Int
  BY <1>1, <1>2
<1>4. Value(a) = va + a.nsec /\ Value(b) = vb + b.nsec
  BY DEF Value
<1>5. CASE a.sec > b.sec
  <2>1. va >= Second * (b.sec + 1) /\ Second * (b.sec + 1) = vb + Second
    BY <1>1, <1>2, <1>5, ProductMonotone
  <2> HIDE DEF va, vb
  <2>2. Value(a) - Value(b) > 0 /\ Value(a) - Value(b) \in Int
    BY <1>1, <1>2, <1>3, <1>4, <2>1
  <2> QED
    BY <1>2, <1>5, <2>2 DEF Compare, Sign
<1>6. CASE a.sec < b.sec
  <2>1. vb >= Second * (a.sec + 1) /\ Second * (a.sec + 1) = va + Second
    BY <1>1, <1>2, <1>6, ProductMonotone
  <2> HIDE DEF va, vb
  <2>2. Value(a) - Value(b) < 0 /\ Value(a) - Value(b) \in Int
    BY <1>1, <1>2, <1>3, <1>4, <2>1
  <2> QED
    BY <1>2, <1>6, <2>2 DEF Compare, Sign
<1>7. CASE a.sec = b.sec
  <2>1. va = vb
    BY <1>7
  <2> HIDE DEF va, vb
  <2>2. Value(a) - Value(b) = a.nsec - b.nsec
    BY <1>1, <1>2, <1>3, <1>4, <2>1
  <2> QED
    BY <1>1, <1>2, <1>7, <2>2 DEF Compare, Sign
<1> QED
  BY <1>2, <1>5, <1>6, <1>7

(* The clock gives a timespec, and no more seconds than at the last.       *)
LEMMA ClockType ==
  ASSUME NEW n \in 0..MaxClock
  PROVE  Clock(n) \in Timespecs /\ Clock(n).sec \in 0..(MaxClock \div Second)
<1>1. Second \in Nat \ {0} /\ TimeMax \in Nat /\ MaxClock \in Nat
  BY TimespecAssumption
<1> DEFINE d == n \div Second
           e == n % Second
           D == MaxClock \div Second
<1>2. /\ n = Second * d + e /\ d \in Nat /\ e \in 0..(Second - 1)
      /\ MaxClock = Second * D + (MaxClock % Second) /\ D \in Nat
      /\ MaxClock % Second \in 0..(Second - 1)
  BY <1>1
<1>3. D <= TimeMax
  BY TimespecAssumption
<1> HIDE DEF d, e, D
<1>4. d <= D
  <2> SUFFICES ASSUME d >= D + 1 PROVE FALSE
    BY <1>2
  <2>1. Second * (D + 1) <= Second * d /\ Second * (D + 1) = Second * D + Second
    BY <1>1, <1>2, ProductMonotone
  <2>2. Second * D \in Int /\ Second * d \in Int
    BY <1>1, <1>2
  <2> QED
    BY <1>1, <1>2, <2>1, <2>2
<1>5. d \in 0..D /\ d \in TimeT
  BY <1>1, <1>2, <1>3, <1>4 DEF TimeT
<1>6. Clock(n) = [sec |-> d, nsec |-> e]
  BY DEF Clock, d, e
<1> QED
  BY <1>2, <1>5, <1>6 DEF Timespecs, D

-----------------------------------------------------------------------------
(***************************************************************************)
(* The invariant.                                                          *)
(***************************************************************************)
ClockFits == clock.sec \in 0..(MaxClock \div Second)

(* The due time has overflowed neither way, and the intervals are counted. *)
DueFits ==
  /\ 0 <= due.sec
  /\ Value(due) = Value(start) + periods * Period(interval)

IInv ==
  /\ TypeOK
  /\ ClockFits
  /\ pc = "none" => periods = 0
  /\ Fits => DueFits

LEMMA InitEstablishes == Init => IInv
<1> SUFFICES ASSUME Init PROVE IInv
  OBVIOUS
<1>1. PICK n \in 0..MaxClock : clock = Clock(n)
  BY DEF Init
<1>2. clock \in Timespecs /\ ClockFits
  BY <1>1, ClockType DEF ClockFits
<1>3. TypeOK
  BY <1>2 DEF Init, TypeOK
<1>4. DueFits
  <2>1. 0 <= due.sec
    BY <1>2 DEF Init, ClockFits
  <2>2. Period(interval) \in Int /\ Value(due) \in Int
    <3>1. interval \in Nat /\ Grain \in Nat \ {0} /\ Second \in Nat \ {0} /\ TimeMax \in Nat
      BY TimespecAssumption DEF Init
    <3>2. due.sec \in Int /\ due.nsec \in Int
      BY <1>3, <3>1 DEF TypeOK, Timespecs, TimeT
    <3> QED
      BY <3>1, <3>2, IntervalParts DEF Value
  <2>3. Value(due) = Value(start) /\ periods = 0
    BY DEF Init
  <2> QED
    BY <2>1, <2>2, <2>3 DEF DueFits
<1> QED
  BY <1>2, <1>3, <1>4 DEF IInv, Init

(* The interval is added to a moment that the clock has reached.           *)
LEMMA AddIntervalStep ==
  ASSUME IInv, NEW ts \in Timespecs, ts.sec <= clock.sec, Fits => 0 <= ts.sec,
         AddInterval(ts), UNCHANGED interval
  PROVE  /\ due' \in Timespecs
         /\ periods' \in Nat /\ periods' = periods + 1
         /\ Fits => /\ 0 <= due'.sec
                    /\ Value(due)' = Value(ts) + Period(interval)
<1>1. interval \in Nat /\ periods \in Nat /\ interval \in Intervals
  BY TimespecAssumption DEF IInv, TypeOK
<1>2. due' \in Sums(ts, interval) /\ periods' = periods + 1
  BY DEF AddInterval
<1>3. due' \in Timespecs
  BY <1>1, <1>2, SumType
<1>4. ASSUME Fits
      PROVE  0 <= due'.sec /\ Value(due)' = Value(ts) + Period(interval)
  <2>1. ts.sec + WholeSeconds(interval) + 1 <= TimeMax
    <3>1. MaxClock \div Second + WholeSeconds(interval) + 1 <= TimeMax
      BY <1>1, <1>4 DEF Fits
    <3>2. clock.sec \in 0..(MaxClock \div Second)
      BY DEF IInv, ClockFits
    <3>3. ts.sec \in Int /\ WholeSeconds(interval) \in Nat /\ TimeMax \in Nat
          /\ MaxClock \div Second \in Int
      BY <1>1, IntervalParts, TimespecAssumption DEF Timespecs, TimeT
    <3> HIDE DEF WholeSeconds
    <3> QED
      BY <3>1, <3>2, <3>3
  <2>2. 0 <= due'.sec /\ Value(due') = Value(ts) + Period(interval)
    BY <1>1, <1>2, <1>4, <2>1, SumValue
  <2> QED
    BY <2>2 DEF Value
<1> QED
  BY <1>1, <1>2, <1>3, <1>4

LEMMA ValueType == ASSUME NEW ts \in Timespecs PROVE Value(ts) \in Int
<1>1. Second \in Nat \ {0} /\ TimeMax \in Nat
  BY TimespecAssumption
<1>2. ts.sec \in Int /\ ts.nsec \in Int
  BY <1>1 DEF Timespecs, TimeT
<1> QED
  BY <1>1, <1>2 DEF Value

LEMMA StepPreserves == IInv /\ [Next]_vars => IInv'
<1> SUFFICES ASSUME IInv, [Next]_vars PROVE IInv'
  OBVIOUS
<1>0. Period(interval) \in Int /\ Value(due) \in Int /\ Value(start) \in Int
      /\ periods \in Nat /\ clock.sec \in Int
  <2>1. interval \in Nat /\ Grain \in Nat \ {0}
    BY TimespecAssumption DEF IInv, TypeOK
  <2>2. Period(interval) \in Int
    BY <2>1, IntervalParts
  <2>3. clock.sec \in Int
    BY DEF IInv, ClockFits
  <2> QED
    BY <2>2, <2>3, ValueType DEF IInv, TypeOK
<1>1. CASE Add
  <2>1. /\ due' \in Timespecs /\ periods' = periods + 1
        /\ Fits => /\ 0 <= due'.sec
                   /\ Value(due)' = Value(clock) + Period(interval)
    <3>1. clock \in Timespecs /\ clock.sec <= clock.sec /\ 0 <= clock.sec
      BY <1>0 DEF IInv, TypeOK, ClockFits
    <3> QED
      BY <1>1, <3>1, AddIntervalStep DEF Add
  <2>2. periods' = 1 /\ start' = clock
    BY <1>1, <2>1 DEF Add, IInv
  <2>3. TypeOK' /\ ClockFits' /\ pc' = "added"
    BY <1>1, <2>1, <2>2 DEF Add, IInv, TypeOK, ClockFits
  <2>4. ASSUME Fits PROVE DueFits'
    <3>1. Value(start)' = Value(clock)
      BY <2>2 DEF Value
    <3>2. (periods * Period(interval))' = Period(interval)
      BY <1>0, <1>1, <2>2 DEF Add
    <3> QED
      BY <2>1, <2>4, <3>1, <3>2 DEF DueFits
  <2> QED
    BY <2>3, <2>4 DEF IInv, Fits
<1>2. CASE Update
  <2>1. PICK n \in Value(clock)..MaxClock : clock' = Clock(n)
    BY <1>2 DEF Update
  <2>2. n \in 0..MaxClock
    <3>1. Second \in Nat \ {0} /\ TimeMax \in Nat /\ MaxClock \in Nat
      BY TimespecAssumption
    <3>2. clock.sec \in Nat /\ clock.nsec \in Nat
      BY <3>1 DEF IInv, TypeOK, ClockFits, Timespecs, TimeT
    <3>3. Value(clock) \in Nat
      BY <3>1, <3>2 DEF Value
    <3> QED
      BY <3>1, <3>3
  <2>3. clock' \in Timespecs /\ ClockFits'
    BY <2>1, <2>2, ClockType DEF ClockFits
  <2>4. pc' \in {"late", "added"} /\ UNCHANGED <<due, interval, start, periods>>
    BY <1>2 DEF Update
  <2>5. TypeOK'
    BY <2>3, <2>4 DEF IInv, TypeOK
  <2>6. Fits => DueFits'
    BY <2>4 DEF IInv, DueFits, Value
  <2> QED
    BY <2>3, <2>4, <2>5, <2>6 DEF IInv, Fits
<1>3. CASE Advance
  <2>1. due.sec <= clock.sec
    BY <1>3, CompareIsSign DEF Advance, IInv, TypeOK
  <2>2. /\ due' \in Timespecs /\ periods' \in Nat /\ periods' = periods + 1
        /\ Fits => /\ 0 <= due'.sec
                   /\ Value(due)' = Value(due) + Period(interval)
    BY <1>3, <2>1, AddIntervalStep DEF Advance, IInv, TypeOK, DueFits
  <2>3. TypeOK' /\ ClockFits' /\ pc' = "late"
    BY <1>3, <2>2 DEF Advance, IInv, TypeOK, ClockFits
  <2>4. ASSUME Fits PROVE DueFits'
    <3>1. Value(start)' = Value(start) /\ interval' = interval
      BY <1>3 DEF Advance, Value
    <3>2. Value(due) = Value(start) + periods * Period(interval)
      BY <2>4 DEF IInv, DueFits
    <3>3. (periods + 1) * Period(interval)
            = periods * Period(interval) + Period(interval)
      BY <1>0
    <3> DEFINE d == Period(interval)
               p == periods * d
    <3>4. p \in Int /\ d \in Int
      BY <1>0
    <3> HIDE DEF p, d
    <3>5. Value(due) + d = Value(start) + (p + d)
      BY <1>0, <3>2, <3>4 DEF p, d
    <3> QED
      BY <2>2, <2>4, <3>1, <3>3, <3>5 DEF DueFits, p, d
  <2> QED
    BY <2>3, <2>4 DEF IInv, Fits
<1>4. CASE Served
  BY <1>4 DEF Served, IInv, TypeOK, ClockFits, DueFits, Value, Fits
<1>5. CASE UNCHANGED vars
  BY <1>5 DEF vars, IInv, TypeOK, ClockFits, DueFits, Value, Fits
<1> QED
  BY <1>1, <1>2, <1>3, <1>4, <1>5 DEF Next

(* The inductive invariant holds of every behaviour of a timer.            *)
THEOREM Invariance == Spec => []IInv
BY InitEstablishes, StepPreserves, PTL DEF Spec

(* Every timespec is in normal form, whatever the intervals are: the carry *)
(* of timer.c:45-48 is enough, and tv_sec is a time_t.                     *)
THEOREM TypeCorrect == Spec => []TypeOK
<1>1. IInv => TypeOK
  BY DEF IInv
<1> QED
  BY <1>1, Invariance, PTL

(* For times that fit, the due times are those of integer arithmetic, and  *)
(* timespec_compare is the order of moments, even of due times that wrapped *)
(* around (timer.c:31-63).                                                 *)
THEOREM TimeIsInteger == Spec => []IntegerTime
<1>1. IInv => OnTheNanosecond
  BY DEF IInv, DueFits, OnTheNanosecond
<1>2. IInv => ComparesMoments
  BY CompareIsSign DEF IInv, TypeOK, ComparesMoments
<1>3. IInv => IntegerTime
  BY <1>1, <1>2 DEF IntegerTime
<1> QED
  BY <1>3, Invariance, PTL

(* An interval and its period in nanoseconds differ by what the conversion *)
(* cuts off, or by what the product was rounded up by.                     *)
LEMMA PeriodIsNear ==
  ASSUME NEW q \in Intervals
  PROVE  q - Grain * Period(q) \in (0 - Rounding)..(Grain - 1)
<1> DEFINE d == q \div Grain
           r == q % Grain
<1>1. q \in Nat /\ Grain \in Nat \ {0} /\ Rounding \in Nat
  BY TimespecAssumption
<1>2. q = Grain * d + r /\ r \in 0..(Grain - 1) /\ d \in Int
  BY <1>1, DivMod
<1>3. q \in RoundsUp => r >= Grain - Rounding
  BY TimespecAssumption
<1>4. Period(q) = IF q \in RoundsUp THEN d + 1 ELSE d
  BY <1>2 DEF Period, RoundedUp
<1> HIDE DEF d, r
<1>5. Grain * (d + 1) = Grain * d + Grain /\ Grain * d \in Int
  BY <1>1, <1>2
<1>6. CASE q \in RoundsUp
  BY <1>1, <1>2, <1>3, <1>4, <1>5, <1>6
<1>7. CASE q \notin RoundsUp
  BY <1>1, <1>2, <1>4, <1>5, <1>7
<1> QED
  BY <1>6, <1>7

(* What a period differs by from its interval, cut off or rounded up, is   *)
(* all that a timer gains or loses in it (timer.c:34-38).                  *)
THEOREM DriftIsBounded == Spec => []DriftBounded
<1>1. IInv => DriftBounded
  <2> SUFFICES ASSUME IInv, Fits
               PROVE  LET ahead == Value(start) * Grain + periods * interval - Value(due) * Grain
                      IN  0 - periods * Rounding <= ahead /\ ahead <= periods * (Grain - 1)
    BY DEF DriftBounded
  <2> DEFINE d == Period(interval)
             r == interval - Grain * d
             s == Value(start)
  <2>1. /\ periods \in Nat /\ Grain \in Nat \ {0} /\ Rounding \in Nat /\ s \in Int
        /\ interval \in Nat /\ interval \in Intervals
    BY TimespecAssumption, ValueType DEF IInv, TypeOK
  <2>2. r \in (0 - Rounding)..(Grain - 1)
    BY <2>1, PeriodIsNear
  <2>3. d \in Int
    BY <2>1, IntervalParts
  <2>4. Value(due) = s + periods * d
    BY DEF IInv, DueFits
  <2> HIDE DEF d, s
  <2>5. s * Grain + periods * interval - (s + periods * d) * Grain = periods * r
    BY <2>1, <2>3
  <2>6. r \in Int /\ 0 - Rounding <= r /\ r <= Grain - 1
    BY <2>1, <2>2
  <2> HIDE DEF r
  <2>7. periods * (0 - Rounding) <= periods * r /\ periods * r <= periods * (Grain - 1)
    BY <2>1, <2>6, ProductMonotone
  <2>8. periods * (0 - Rounding) = 0 - periods * Rounding
    BY <2>1
  <2> QED
    BY <2>4, <2>5, <2>7, <2>8 DEF s
<1> QED
  BY <1>1, Invariance, PTL

-----------------------------------------------------------------------------
(* How far the due time is behind the clock of this timer_update; the loop *)
(* goes on as long as this is above 0.                                     *)
Behind == Value(clock) - Value(due) + 1

(* Each iteration of the loop brings the due time nearer, by a nanosecond  *)
(* at least, and the loop ends when it is there (timer.c:336-338): this is *)
(* what the loop ends by, whoever schedules it.                            *)
CatchUp ==
  Fits /\ Period(interval) > 0 /\ pc = "late" =>
    \/ pc' = "late" /\ Behind > 0 /\ Behind' < Behind
    \/ pc' = "added" /\ Behind <= 0

(* The catch-up loop makes way in every step, for all times that fit and   *)
(* all periods of a nanosecond or more.                                    *)
THEOREM LoopMakesWay == Spec => [][CatchUp]_vars
<1>1. ASSUME IInv, Next, Fits, Period(interval) > 0, pc = "late"
      PROVE  \/ pc' = "late" /\ Behind > 0 /\ Behind' < Behind
             \/ pc' = "added" /\ Behind <= 0
  <2> DEFINE d == Period(interval)
  <2>1. /\ Value(clock) \in Int /\ Value(due) \in Int
        /\ Compare(clock, due) = Sign(Value(clock) - Value(due))
    BY <1>1, ValueType, CompareIsSign DEF IInv, TypeOK
  <2>2. d \in Nat \ {0}
    <3>1. interval \in Nat
      BY <1>1, TimespecAssumption DEF IInv, TypeOK
    <3>2. d \in Nat
      BY <3>1, IntervalParts
    <3> QED
      BY <1>1, <3>2
  <2>3. CASE Advance
    <3>1. /\ clock' = clock /\ interval' = interval /\ start' = start /\ pc' = "late"
          /\ due' \in Sums(due, interval) /\ periods' = periods + 1
      BY <1>1, <2>3 DEF Advance, AddInterval
    <3>2. Compare(clock, due) >= 0
      BY <2>3 DEF Advance
    <3>3. Value(clock) >= Value(due)
      BY <2>1, <3>2 DEF Sign
    <3>4. due.sec <= clock.sec /\ 0 <= due.sec
      BY <1>1, <3>2, CompareIsSign DEF IInv, TypeOK, DueFits
    <3>5. Value(due') = Value(due) + d
      BY <1>1, <3>4, <2>3, AddIntervalStep DEF Advance, IInv, TypeOK
    <3> HIDE DEF d
    <3>6. Behind > 0
      BY <2>1, <3>3 DEF Behind
    <3>7. Value(clock') = Value(clock)
      BY <3>1
    <3>8. Value(clock') - Value(due') + 1 < Value(clock) - Value(due) + 1
      BY <2>1, <2>2, <3>5, <3>7
    <3>9. Behind' < Behind
      BY <3>8 DEF Behind, Value
    <3> QED
      BY <3>1, <3>6, <3>9
  <2>4. CASE Served
    <3>1. pc' = "added" /\ Compare(clock, due) < 0
      BY <2>4 DEF Served
    <3>2. Value(clock) < Value(due)
      BY <2>1, <3>1 DEF Sign
    <3> QED
      BY <2>1, <3>1, <3>2 DEF Behind
  <2>5. ~ Add /\ ~ Update
    BY <1>1 DEF Add, Update
  <2> QED
    BY <1>1, <2>3, <2>4, <2>5 DEF Next
<1>2. ASSUME IInv, [Next]_vars
      PROVE  [CatchUp]_vars
  BY <1>1, <1>2 DEF CatchUp
<1> QED
  BY <1>2, Invariance, PTL DEF Spec
=============================================================================
