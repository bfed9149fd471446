------------------------------ MODULE MCTimespec ------------------------------
EXTENDS Timespec

(* A second of four nanoseconds of four grains: intervals of part of a     *)
(* second, of a second, and of more, whole nanoseconds and not.            *)
MCIntervals == 3..37

(* Some of the intervals that lack one grain for a whole nanosecond; one   *)
(* of them is less than a nanosecond, one more than a second.              *)
MCRoundsUp == {3, 7, 23, 27}

(* Three seconds or more than a time_t of eight holds. *)
MCOverlong == {48, 132}
=============================================================================
