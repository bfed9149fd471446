----------------------------- MODULE Timetable -----------------------------
(***************************************************************************)
(* What the loop of timer_update computes.  The timetable of a timer is    *)
(* its first due time plus the multiples of its interval; a timer that was *)
(* served at the moment n is next due at the first time of its timetable   *)
(* that lies after n.                                                      *)
(***************************************************************************)
EXTENDS Integers

(* For due <= n and a positive interval. *)
NextDue(due, interval, n) == due + interval * ((n - due) \div interval + 1)
=============================================================================
