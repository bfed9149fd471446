---------------------------- MODULE MCCircularLog ----------------------------
(* CircularLog for TLC: positions have one to three digits of base 4, four *)
(* or five messages fill the file, and writing starts again twice; a line  *)
(* of ten bytes is longer than what fgets reads.                           *)
EXTENDS CircularLog

MCLengths == {8, 10}

MCLevelArgs == {-1, 0}

(* There is room for two kills, and none for a third. *)
ASSUME MCFewKills == FewKills <=> MaxCrashes <= 2
=============================================================================
