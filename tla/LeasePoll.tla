------------------------------ MODULE LeasePoll ------------------------------
(***************************************************************************)
(* check_dhcp_leases_with_validation of the LAN agent: for three minutes   *)
(* it looks at the lease file of dnsmasq every five seconds, until a lease *)
(* lies in the address range that was configured.  dnsmasq replaces the    *)
(* file at any time, and it may be absent.                                 *)
(*                                                                         *)
(* An address is the number ip_str_to_long makes of it: its network times  *)
(* OctetSize plus its last octet; 0 is what does not parse.  One look at   *)
(* the file is a step, and the time it takes passes before the clock is    *)
(* read again for the timeout; times are what time(NULL) gives, in whole   *)
(* seconds, and the clock of the device is not set back.  The table that   *)
(* is printed, with its remaining time and its "Lease hop le?" column, is  *)
(* left out: no decision uses it.                                          *)
(***************************************************************************)
EXTENDS Integers, FiniteSets

CONSTANTS
  OctetSize,   (* 256: values of the last octet.                           *)
  Starts,      (* First addresses the caller may configure.                *)
  Limits,      (* Numbers of addresses the caller may configure.           *)
  LeaseTimes,  (* Lease times the caller may configure.                    *)
  Leases,      (* Lines the lease file may hold: [ip, expiry].             *)
  Interval,    (* polling_interval: 5 seconds.                             *)
  Duration,    (* max_polling_duration: 180 seconds.                       *)
  Delays,      (* How long a look, and the excess of a sleep, may take.    *)
  MaxTime      (* Bound: the clock stops here.                             *)

ASSUME LeasePollAssumption ==
  /\ OctetSize \in Nat \ {0}
  /\ Starts \subseteq Nat
  /\ Limits \subseteq Int
  /\ LeaseTimes \subseteq Int
  /\ Leases \subseteq [ip: Nat, expiry: Int]
  /\ Interval \in Nat \ {0}
  /\ Duration \in Nat
  /\ Delays \subseteq Nat
  /\ MaxTime \in Nat /\ MaxTime >= Duration + Interval

VARIABLES
  start,      (* configured_start_ip_str.                                  *)
  limit,      (* configured_limit.                                         *)
  leasetime,  (* configured_leasetime_seconds.                             *)
  present,    (* Whether /tmp/dhcp.leases can be opened.                   *)
  elapsed,    (* The time since start_time_polling.                        *)
  found,      (* found_ip_in_new_range.                                    *)
  pc,         (* "check", "look", "judge", "sleep", "report", "done".      *)
  verdict,    (* What is printed at the end.                               *)
  seen,       (* History: the lines the last look read.                    *)
  lookedAt,   (* History: when that was.                                   *)
  sighted,    (* History: whether any look read a configured address.      *)
  looks,      (* History: looks so far.                                    *)
  misses      (* History: whether a look could not open the file.          *)

config  == <<start, limit, leasetime>>
history == <<seen, lookedAt, sighted, looks, misses>>
vars    == <<start, limit, leasetime, present, elapsed, found, pc,
             verdict, seen, lookedAt, sighted, looks, misses>>

Init ==
  /\ start \in Starts
  /\ limit \in Limits
  /\ leasetime \in LeaseTimes
  /\ present \in BOOLEAN
  /\ elapsed = 0
  /\ found = FALSE
  /\ pc = "check"
  /\ verdict = "none"
  /\ seen = {}
  /\ lookedAt = 0
  /\ sighted = FALSE
  /\ looks = 0
  /\ misses = FALSE

LastOctet(ip) == ip % OctetSize
Network(ip)   == ip \div OctetSize

(* Mutant of RangeEnd: the last address is start + limit. *)
RangeEndPastLimit(s, l) ==
  IF LastOctet(s) + l <= OctetSize - 1 THEN s + l ELSE 0

(* conf_end_ip_numeric: 0 when the range leaves the last octet. *)
RangeEnd(s, l) ==
  IF LastOctet(s) + l - 1 <= OctetSize - 1 THEN s + l - 1 ELSE 0

(* A lease that has expired counts like any other.                         *)
InNewRange(lease) ==
  /\ RangeEnd(start, limit) # 0
  /\ lease.ip # 0
  /\ start <= lease.ip /\ lease.ip <= RangeEnd(start, limit)

(* The addresses the caller configured: limit of them from start on, in    *)
(* the network of start.                                                   *)
Configured ==
  {Network(start) * OctetSize + o :
     o \in LastOctet(start)..(LastOctet(start) + limit - 1)}

(* Bound: the looks are counted up to one more than there may be. *)
MaxLooks == (Duration + Interval - 1) \div Interval + 2

-----------------------------------------------------------------------------
(* dnsmasq, or whoever else, creates or removes the lease file. *)
ChangeFile ==
  /\ pc # "done"
  /\ present' = ~ present
  /\ UNCHANGED <<config, elapsed, found, pc, verdict, history>>

CheckParameters ==
  /\ pc = "check"
  /\ IF limit <= 0 \/ leasetime <= 0 \/ start = 0
     THEN pc' = "done" /\ verdict' = "invalid"
     ELSE pc' = "look" /\ UNCHANGED verdict
  /\ UNCHANGED <<config, present, elapsed, found, history>>

(* Mutant of LookFails: the decision the unreachable lines 446-447 state. *)
LookFailsForGood ==
  /\ pc = "look"
  /\ ~ present
  /\ misses' = TRUE
  /\ pc' = "report"
  /\ UNCHANGED <<config, present, elapsed, found, verdict, seen, lookedAt,
                 sighted, looks>>

(* fopen fails: sleep, and look again without a look at the time.          *)
LookFails ==
  /\ pc = "look"
  /\ ~ present
  /\ misses' = TRUE
  /\ pc' = "sleep"
  /\ UNCHANGED <<config, present, elapsed, found, verdict, seen, lookedAt,
                 sighted, looks>>

(* The lines are whatever dnsmasq has written by now. *)
Look ==
  /\ pc = "look"
  /\ present
  /\ seen' \in SUBSET Leases
  /\ found' = (found \/ \E lease \in seen' : InNewRange(lease))
  /\ sighted' = (sighted \/ \E lease \in seen' : lease.ip # 0 /\ lease.ip \in Configured)
  /\ lookedAt' = elapsed
  /\ looks' = IF looks < MaxLooks THEN looks + 1 ELSE looks
  /\ pc' = "judge"
  /\ UNCHANGED <<config, present, elapsed, verdict, misses>>

(* Mutant of TimeIsUp: > instead of >=. *)
TimeIsUpLate == elapsed > Duration

TimeIsUp == elapsed >= Duration

(* The clock when d more has passed, up to its bound. *)
Later(d) == IF elapsed + d <= MaxTime THEN elapsed + d ELSE MaxTime

(* A find ends the loop at once; otherwise the clock is read again, when   *)
(* the look has taken its time.                                            *)
Judge ==
  /\ pc = "judge"
  /\ \/ found /\ pc' = "report" /\ UNCHANGED elapsed
     \/ /\ ~ found
        /\ \E d \in Delays : elapsed' = Later(d)
        /\ pc' = IF TimeIsUp' THEN "report" ELSE "sleep"
  /\ UNCHANGED <<config, present, found, verdict, history>>

(* Mutant of Sleep: it restarts the clock the timeout is measured with. *)
SleepRestartsClock ==
  /\ pc = "sleep"
  /\ elapsed' = 0
  /\ pc' = "look"
  /\ UNCHANGED <<config, present, found, verdict, history>>

Sleep ==
  /\ pc = "sleep"
  /\ \E d \in Delays : elapsed' = Later(Interval + d)
  /\ pc' = "look"
  /\ UNCHANGED <<config, present, found, verdict, history>>

Report ==
  /\ pc = "report"
  /\ verdict' = IF found THEN "updated" ELSE "not_found"
  /\ pc' = "done"
  /\ UNCHANGED <<config, present, elapsed, found, history>>

Done == pc = "done" /\ UNCHANGED vars

Step == CheckParameters \/ LookFails \/ Look \/ Judge \/ Sleep \/ Report

Next == Step \/ ChangeFile \/ Done

Spec == Init /\ [][Next]_vars

(* The process is scheduled and its sleeps end. *)
FairSpec == Spec /\ WF_vars(Step)

-----------------------------------------------------------------------------
TypeOK ==
  /\ start \in Starts /\ limit \in Limits /\ leasetime \in LeaseTimes
  /\ present \in BOOLEAN
  /\ elapsed \in 0..MaxTime
  /\ found \in BOOLEAN
  /\ pc \in {"check", "look", "judge", "sleep", "report", "done"}
  /\ verdict \in {"none", "invalid", "updated", "not_found"}
  /\ seen \subseteq Leases
  /\ lookedAt \in 0..elapsed
  /\ sighted \in BOOLEAN
  /\ looks \in 0..MaxLooks
  /\ misses \in BOOLEAN

(* "Updated" is only said when the last look read a lease of an address    *)
(* that was configured: none of the old range, of another network, or one  *)
(* past the limit (uci_handler.c:413-426 and 494-501).                     *)
UpdatedHasEvidence ==
  verdict = "updated" => \E lease \in seen : lease.ip \in Configured

(* "Not found" is the answer of the whole time: it is never said before    *)
(* the three minutes are over, the last look began no longer before it     *)
(* than a look takes, so that no sleep lies between them, and no look read *)
(* an address of a range that fits into its octet.  A lease that is        *)
(* written while the last look reads may still go unnoticed                *)
(* (uci_handler.c:523-533).                                                *)
NotFoundIsFinal ==
  verdict = "not_found" =>
    /\ elapsed >= Duration
    /\ \E d \in Delays : elapsed <= lookedAt + d
    /\ RangeEnd(start, limit) # 0 => ~ sighted

(* Looking does not outlast the time it was given: with a file that opens  *)
(* there is no look after the first one at which the time is up.           *)
LooksBounded == ~ misses => looks < MaxLooks

(* The polling ends, provided the file does not stay away for good.        *)
EndsIfReadable == <>[]present => <>(pc = "done")

(* The loop checks for three minutes (the comments of uci_handler.c:431    *)
(* and 435): it comes to an end.  It does not when the file is missing.    *)
PollingEnds == <>(pc = "done")

(* "Updated" confirms that an address of the new range is leased           *)
(* (uci_handler.h:47).  The code says it for an expired lease too.         *)
UpdatedByLiveLease ==
  verdict = "updated" =>
    \E lease \in seen : lease.ip \in Configured /\ lease.expiry > lookedAt
=============================================================================
