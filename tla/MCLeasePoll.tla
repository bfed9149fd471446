----------------------------- MODULE MCLeasePoll -----------------------------
(* LeasePoll for TLC.  An octet has the values 0..7, networks are 1 and 2: *)
(* the range 10..12 is inside its octet, 14.. leaves it.  The leases are   *)
(* one of the old network, the first and the last address of the range, an *)
(* expired one in it, the first one after it, and a line without address.  *)
EXTENDS LeasePoll

MCStarts     == {0, 10, 14}
MCLimits     == {0, 3}
MCLeaseTimes == {0, 60}
MCLeases     == {[ip |-> 5, expiry |-> 90], [ip |-> 10, expiry |-> 90],
                 [ip |-> 11, expiry |-> 0], [ip |-> 12, expiry |-> 90],
                 [ip |-> 13, expiry |-> 90], [ip |-> 0, expiry |-> 90]}
=============================================================================
