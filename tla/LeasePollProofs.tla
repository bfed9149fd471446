---------------------------- MODULE LeasePollProofs ----------------------------
(***************************************************************************)
(* What check_dhcp_leases_with_validation says at its end is right, for    *)
(* every range, every file and every duration.  The invariant follows the  *)
(* answer back to the look it rests on: "found" is what the last look saw  *)
(* and what no earlier one saw, the time is judged when a look is over,    *)
(* with no sleep between, and as long as the file opens there is a full    *)
(* interval between two looks.                                             *)
(***************************************************************************)
EXTENDS LeasePoll, TLAPS

(* found says what the last look saw; then no other look follows.          *)
FoundIsSeen ==
  /\ found <=> \E lease \in seen : InNewRange(lease)
  /\ found => pc \in {"judge", "report", "done"}
  /\ RangeEnd(start, limit) # 0 /\ sighted => found

(* The verdict comes when the last look is over, and not after a sleep.    *)
Recent == \E d \in Delays : elapsed <= lookedAt + d

(* The answer rests on a look that found something, or that was the last.  *)
AnswerIsJudged ==
  /\ pc = "judge" => lookedAt = elapsed
  /\ pc = "report" /\ ~ found => elapsed >= Duration /\ Recent
  /\ pc # "done" => verdict = "none"
  /\ verdict = "updated" => found
  /\ verdict = "not_found" => ~ found /\ elapsed >= Duration /\ Recent

(* The looks keep their distance, and a sleep only follows a look that was *)
(* made in time.                                                           *)
Paced ==
  ~ misses =>
    /\ pc = "check" => looks = 0
    /\ pc = "look" => /\ looks * Interval <= elapsed
                      /\ looks > 0 => (looks - 1) * Interval < Duration
    /\ pc \in {"judge", "sleep"} => looks > 0 /\ (looks - 1) * Interval <= elapsed
    /\ pc = "sleep" => elapsed < Duration

(* The inductive invariant. *)
IInv == TypeOK /\ FoundIsSeen /\ AnswerIsJudged /\ Paced /\ LooksBounded

-----------------------------------------------------------------------------
(***************************************************************************)
(* Addresses.                                                              *)
(***************************************************************************)
LEMMA DivMod ==
  ASSUME NEW n \in Nat, NEW d \in Nat \ {0}
  PROVE  /\ n = d * (n \div d) + (n % d)
         /\ n % d \in 0..(d - 1)
         /\ n \div d \in Nat
OBVIOUS

LEMMA Address ==
  ASSUME NEW s \in Nat
  PROVE  /\ LastOctet(s) \in Nat /\ Network(s) * OctetSize \in Nat
         /\ Network(s) * OctetSize + LastOctet(s) = s
<1> DEFINE q == s \div OctetSize
           r == s % OctetSize
<1>1. OctetSize \in Nat \ {0}
  BY LeasePollAssumption
<1>2. /\ s = OctetSize * q + r /\ r \in 0..(OctetSize - 1) /\ q \in Nat
  BY <1>1, DivMod
<1>3. LastOctet(s) = r /\ Network(s) = q
  BY DEF LastOctet, Network
<1> HIDE DEF q, r
<1>4. q * OctetSize \in Nat /\ OctetSize * q = q * OctetSize
  BY <1>1, <1>2
<1> QED
  BY <1>1, <1>2, <1>3, <1>4

(* The test of the code is membership in the range that was configured.    *)
LEMMA RangeIsConfigured ==
  ASSUME TypeOK, NEW lease \in Leases
  PROVE  /\ InNewRange(lease) => lease.ip \in Configured
         /\ RangeEnd(start, limit) # 0 /\ lease.ip # 0 /\ lease.ip \in Configured
              => InNewRange(lease)
<1>1. start \in Nat /\ limit \in Int /\ lease.ip \in Nat /\ OctetSize \in Nat
  BY LeasePollAssumption DEF TypeOK
<1> DEFINE b == Network(start) * OctetSize
           l == LastOctet(start)
<1>2. b \in Nat /\ l \in Nat /\ b + l = start
  BY <1>1, Address
<1>3. RangeEnd(start, limit) # 0 => RangeEnd(start, limit) = start + limit - 1
  BY <1>1 DEF RangeEnd
<1>4. lease.ip \in Configured <=> \E o \in l..(l + limit - 1) : lease.ip = b + o
  BY DEF Configured
<1> HIDE DEF b, l
<1>5. ASSUME InNewRange(lease) PROVE lease.ip \in Configured
  <2>1. start <= lease.ip /\ lease.ip <= start + limit - 1
    BY <1>3, <1>5 DEF InNewRange
  <2>2. lease.ip - b \in l..(l + limit - 1) /\ lease.ip = b + (lease.ip - b)
    BY <1>1, <1>2, <2>1
  <2> QED
    BY <1>4, <2>2
<1>6. ASSUME RangeEnd(start, limit) # 0, lease.ip # 0, lease.ip \in Configured
      PROVE  InNewRange(lease)
  <2>1. PICK o \in l..(l + limit - 1) : lease.ip = b + o
    BY <1>4, <1>6
  <2>2. start <= lease.ip /\ lease.ip <= start + limit - 1
    BY <1>1, <1>2, <2>1
  <2> QED
    BY <1>3, <1>6, <2>2 DEF InNewRange
<1> QED
  BY <1>5, <1>6

-----------------------------------------------------------------------------
(***************************************************************************)
(* Looks.                                                                  *)
(***************************************************************************)
LEMMA DivisionBound ==
  ASSUME NEW i \in Nat \ {0}, NEW n \in Nat, NEW k \in Nat, k * i <= n
  PROVE  k <= n \div i
<1>1. n \div i \in Nat /\ n < (n \div i + 1) * i
  OBVIOUS
<1> DEFINE q == n \div i
<1>2. q \in Nat /\ n < (q + 1) * i
  BY <1>1
<1> HIDE DEF q
<1>3. k * i < (q + 1) * i
  BY <1>2
<1>4. ~ (q + 1 <= k)
  <2> SUFFICES ASSUME q + 1 <= k PROVE FALSE
    OBVIOUS
  <2>1. (q + 1) * i <= k * i
    BY <1>2
  <2> QED
    BY <1>2, <1>3, <2>1
<1> QED
  BY <1>2, <1>4 DEF q

(* The numbers of the module. *)
LEMMA Numbers ==
  /\ Interval \in Nat \ {0} /\ Duration \in Nat
  /\ MaxTime \in Nat /\ MaxTime >= Duration + Interval
  /\ MaxLooks \in Nat /\ MaxLooks >= 2
  /\ \A k \in Nat : k > 0 /\ (k - 1) * Interval < Duration => k + 1 < MaxLooks
<1>1. /\ Interval \in Nat \ {0} /\ Duration \in Nat
      /\ MaxTime \in Nat /\ MaxTime >= Duration + Interval
  BY LeasePollAssumption
<1> DEFINE i == Interval
           n == Duration + Interval - 1
<1>2. i \in Nat \ {0} /\ n \in Nat /\ n = Duration + i - 1
  BY <1>1
<1>3. n \div i \in Nat /\ MaxLooks = n \div i + 2
  <2>1. n \div i \in Nat
    <3> HIDE DEF n, i
    <3> QED
      BY <1>2
  <2> QED
    BY <2>1 DEF MaxLooks
<1>4. ASSUME NEW k \in Nat, k > 0, (k - 1) * i < Duration
      PROVE  k + 1 < MaxLooks
  <2>1. k * i <= n
    <3> HIDE DEF n, i
    <3>1. (k - 1) * i = k * i - i /\ k * i \in Nat
      BY <1>2
    <3> QED
      BY <1>1, <1>2, <1>4, <3>1
  <2>2. k <= n \div i
    <3> HIDE DEF n, i
    <3> QED
      BY <1>2, <2>1, DivisionBound
  <2> HIDE DEF n, i
  <2> QED
    BY <1>3, <2>2
<1> QED
  BY <1>1, <1>3, <1>4

-----------------------------------------------------------------------------
(***************************************************************************)
(* One lemma per action.                                                   *)
(***************************************************************************)
(* What a lease is does not change. *)
LEMMA RangeStays ==
  ASSUME UNCHANGED config
  PROVE  /\ \A lease : InNewRange(lease)' = InNewRange(lease)
         /\ RangeEnd(start, limit)' = RangeEnd(start, limit)
         /\ Configured' = Configured
BY DEF config, InNewRange, Configured

LEMMA CheckStep == ASSUME IInv, CheckParameters PROVE IInv'
<1>1. /\ UNCHANGED <<start, limit, leasetime, present, elapsed, found, seen,
                     lookedAt, sighted, looks, misses>>
      /\ pc = "check" /\ pc' \in {"look", "done"}
      /\ verdict' = verdict \/ (verdict' = "invalid" /\ pc' = "done")
  BY DEF CheckParameters, config, history
<1>2. TypeOK'
  BY <1>1 DEF IInv, TypeOK
<1>3. FoundIsSeen'
  BY <1>1, RangeStays DEF IInv, FoundIsSeen, config
<1>4. AnswerIsJudged'
  BY <1>1 DEF IInv, AnswerIsJudged
<1>5. Paced' /\ LooksBounded'
  <2>1. ~ misses => looks = 0 /\ looks * Interval = 0
    BY <1>1, Numbers DEF IInv, Paced
  <2> QED
    BY <1>1, <2>1 DEF IInv, Paced, LooksBounded, TypeOK
<1> QED
  BY <1>2, <1>3, <1>4, <1>5 DEF IInv

LEMMA LookFailsStep == ASSUME IInv, LookFails PROVE IInv'
<1>1. /\ UNCHANGED <<start, limit, leasetime, present, elapsed, found, seen,
                     lookedAt, sighted, looks, verdict>>
      /\ pc = "look" /\ pc' = "sleep" /\ misses' = TRUE
  BY DEF LookFails, config
<1>2. TypeOK'
  BY <1>1 DEF IInv, TypeOK
<1>3. FoundIsSeen'
  BY <1>1, RangeStays DEF IInv, FoundIsSeen, config
<1>4. AnswerIsJudged' /\ Paced' /\ LooksBounded'
  BY <1>1 DEF IInv, AnswerIsJudged, Recent, Paced, LooksBounded
<1> QED
  BY <1>2, <1>3, <1>4 DEF IInv

LEMMA LookStep == ASSUME IInv, Look PROVE IInv'
<1>1. /\ UNCHANGED <<start, limit, leasetime, present, elapsed, verdict, misses>>
      /\ pc = "look" /\ pc' = "judge" /\ lookedAt' = elapsed /\ seen' \subseteq Leases
      /\ looks' = IF looks < MaxLooks THEN looks + 1 ELSE looks
      /\ found' = (found \/ \E lease \in seen' : InNewRange(lease))
      /\ sighted' = (sighted \/ \E lease \in seen' : lease.ip # 0 /\ lease.ip \in Configured)
      /\ ~ found
  BY DEF Look, config, IInv, FoundIsSeen
<1>2. looks \in 0..MaxLooks /\ looks' \in 0..MaxLooks /\ elapsed \in 0..MaxTime
  BY <1>1, Numbers DEF IInv, TypeOK
<1>3. TypeOK'
  <2>1. found' \in BOOLEAN /\ sighted' \in BOOLEAN
    BY <1>1, Zenon
  <2>2. lookedAt' \in 0..elapsed'
    BY <1>1, <1>2, Numbers
  <2> QED
    BY <1>1, <1>2, <2>1, <2>2 DEF IInv, TypeOK
<1>4. FoundIsSeen'
  <2>1. found' <=> \E lease \in seen' : InNewRange(lease)
    BY <1>1, Zenon
  <2>2. RangeEnd(start, limit) # 0 => ~ sighted
    BY <1>1 DEF IInv, FoundIsSeen
  <2>3. ASSUME RangeEnd(start, limit) # 0, sighted' PROVE found'
    <3>1. PICK lease \in seen' : lease.ip # 0 /\ lease.ip \in Configured
      BY <1>1, <2>2, <2>3
    <3>2. lease \in Leases
      BY <1>1
    <3>3. InNewRange(lease)
      BY <2>3, <3>1, <3>2, RangeIsConfigured DEF IInv
    <3> QED
      BY <2>1, <3>3
  <2> QED
    BY <1>1, <2>1, <2>3, RangeStays DEF FoundIsSeen, config
<1>5. AnswerIsJudged'
  BY <1>1 DEF IInv, AnswerIsJudged
<1>6. ASSUME ~ misses PROVE looks' = looks + 1 /\ looks + 1 < MaxLooks
                            /\ (looks' - 1) * Interval <= elapsed
  <2>1. looks * Interval <= elapsed /\ (looks > 0 => (looks - 1) * Interval < Duration)
    BY <1>1, <1>6 DEF IInv, Paced
  <2>2. looks + 1 < MaxLooks
    BY <1>2, <2>1, Numbers
  <2>3. looks' = looks + 1 /\ looks' - 1 = looks
    BY <1>1, <1>2, <2>2, Numbers
  <2> QED
    BY <2>1, <2>2, <2>3
<1>7. Paced' /\ LooksBounded'
  BY <1>1, <1>2, <1>6, Numbers DEF Paced, LooksBounded
<1> QED
  BY <1>3, <1>4, <1>5, <1>7 DEF IInv

LEMMA JudgeStep == ASSUME IInv, Judge PROVE IInv'
<1>1. /\ UNCHANGED <<start, limit, leasetime, present, found, verdict, seen,
                     lookedAt, sighted, looks, misses>>
      /\ pc = "judge"
      /\ \/ pc' = "report" /\ found /\ elapsed' = elapsed
         \/ /\ ~ found
            /\ \E d \in Delays : elapsed' = Later(d)
            /\ pc' = IF elapsed' >= Duration THEN "report" ELSE "sleep"
  BY DEF Judge, TimeIsUp, config, history
<1>2. elapsed \in 0..MaxTime /\ lookedAt = elapsed
  BY <1>1 DEF IInv, TypeOK, AnswerIsJudged
<1>3. /\ elapsed' \in elapsed..MaxTime
      /\ ~ found => \E d \in Delays : elapsed' <= lookedAt + d
  <2>1. CASE elapsed' = elapsed /\ found
    BY <1>2, <2>1, Numbers
  <2>2. CASE ~ found /\ \E d \in Delays : elapsed' = Later(d)
    <3> PICK d \in Delays : elapsed' = Later(d)
      BY <2>2
    <3>1. d \in Nat /\ MaxTime \in Nat
      BY Numbers, LeasePollAssumption
    <3>2. elapsed' \in elapsed..MaxTime /\ elapsed' <= lookedAt + d
      BY <1>2, <3>1 DEF Later
    <3> QED
      BY <3>2
  <2> QED
    BY <1>1, <2>1, <2>2
<1>4. TypeOK'
  <2>1. elapsed' \in 0..MaxTime /\ lookedAt' \in 0..elapsed'
    BY <1>1, <1>2, <1>3, Numbers
  <2> QED
    BY <1>1, <2>1 DEF IInv, TypeOK
<1>5. FoundIsSeen'
  BY <1>1, RangeStays DEF IInv, FoundIsSeen, config
<1>6. AnswerIsJudged'
  BY <1>1, <1>3 DEF IInv, AnswerIsJudged, Recent
<1>7. Paced' /\ LooksBounded'
  <2>1. ~ (elapsed' >= Duration) => elapsed' < Duration
    BY <1>2, <1>3, Numbers
  <2>2. MaxLooks' = MaxLooks
    BY DEF MaxLooks
  <2>3. ~ misses => looks > 0 /\ (looks - 1) * Interval <= elapsed'
    <3> SUFFICES ASSUME ~ misses PROVE looks > 0 /\ (looks - 1) * Interval <= elapsed'
      OBVIOUS
    <3>1. looks > 0 /\ (looks - 1) * Interval <= elapsed
      BY <1>1 DEF IInv, Paced
    <3>2. looks \in Nat /\ (looks - 1) * Interval \in Int
      BY Numbers DEF IInv, TypeOK
    <3> QED
      BY <1>2, <1>3, <3>1, <3>2, Numbers
  <2> QED
    BY <1>1, <2>1, <2>2, <2>3 DEF IInv, Paced, LooksBounded
<1> QED
  BY <1>4, <1>5, <1>6, <1>7 DEF IInv

LEMMA SleepStep == ASSUME IInv, Sleep PROVE IInv'
<1>1. /\ UNCHANGED <<start, limit, leasetime, present, found, verdict, seen,
                     lookedAt, sighted, looks, misses>>
      /\ pc = "sleep" /\ pc' = "look" /\ elapsed \in 0..MaxTime
      /\ looks \in 0..MaxLooks /\ ~ found
  BY DEF Sleep, config, history, IInv, TypeOK, FoundIsSeen
<1>2. PICK d \in Delays :
        elapsed' = IF elapsed + (Interval + d) <= MaxTime
                   THEN elapsed + (Interval + d) ELSE MaxTime
  BY DEF Sleep, Later
<1>3. elapsed' \in elapsed..MaxTime /\ (elapsed' = MaxTime \/ elapsed' >= elapsed + Interval)
  BY <1>1, <1>2, Numbers, LeasePollAssumption
<1>4. TypeOK'
  <2>1. elapsed' \in 0..MaxTime /\ lookedAt' \in 0..elapsed'
    BY <1>1, <1>3, Numbers DEF IInv, TypeOK
  <2> QED
    BY <1>1, <2>1 DEF IInv, TypeOK
<1>5. FoundIsSeen'
  BY <1>1, RangeStays DEF IInv, FoundIsSeen, config
<1>6. AnswerIsJudged' /\ LooksBounded'
  BY <1>1 DEF IInv, AnswerIsJudged, LooksBounded
<1>7. Paced'
  <2> SUFFICES ASSUME ~ misses
               PROVE  /\ looks * Interval <= elapsed'
                      /\ looks > 0 => (looks - 1) * Interval < Duration
    BY <1>1 DEF Paced
  <2>1. looks > 0 /\ (looks - 1) * Interval <= elapsed /\ elapsed < Duration
    BY <1>1 DEF IInv, Paced
  <2>2. (looks - 1) * Interval \in Int /\ looks * Interval = (looks - 1) * Interval + Interval
    BY <1>1, Numbers
  <2>3. elapsed' >= elapsed + Interval
    BY <1>1, <1>3, <2>1, Numbers
  <2> QED
    BY <1>1, <1>3, <2>1, <2>2, <2>3, Numbers
<1> QED
  BY <1>4, <1>5, <1>6, <1>7 DEF IInv

LEMMA ReportStep == ASSUME IInv, Report PROVE IInv'
<1>1. /\ UNCHANGED <<start, limit, leasetime, present, elapsed, found, seen,
                     lookedAt, sighted, looks, misses>>
      /\ pc = "report" /\ pc' = "done"
      /\ verdict' = IF found THEN "updated" ELSE "not_found"
  BY DEF Report, config, history
<1>2. TypeOK'
  BY <1>1 DEF IInv, TypeOK
<1>3. FoundIsSeen'
  BY <1>1, RangeStays DEF IInv, FoundIsSeen, config
<1>4. AnswerIsJudged' /\ Paced' /\ LooksBounded'
  BY <1>1 DEF IInv, AnswerIsJudged, Recent, Paced, LooksBounded
<1> QED
  BY <1>2, <1>3, <1>4 DEF IInv

(* The file comes or goes, or nothing happens. *)
LEMMA NothingStep ==
  ASSUME IInv, present' \in BOOLEAN,
         UNCHANGED <<config, elapsed, found, pc, verdict, history>>
  PROVE  IInv'
<1>1. UNCHANGED <<start, limit, leasetime, elapsed, found, pc, verdict, seen,
                  lookedAt, sighted, looks, misses>>
  BY DEF config, history
<1>2. TypeOK'
  BY <1>1 DEF IInv, TypeOK
<1>3. FoundIsSeen'
  BY <1>1, RangeStays DEF IInv, FoundIsSeen, config
<1>4. AnswerIsJudged' /\ Paced' /\ LooksBounded'
  BY <1>1 DEF IInv, AnswerIsJudged, Recent, Paced, LooksBounded
<1> QED
  BY <1>2, <1>3, <1>4 DEF IInv

-----------------------------------------------------------------------------
LEMMA InitEstablishes == Init => IInv
<1> SUFFICES ASSUME Init PROVE IInv
  OBVIOUS
<1>1. TypeOK
  <2>1. present \in BOOLEAN /\ found \in BOOLEAN /\ misses \in BOOLEAN /\ sighted \in BOOLEAN
    BY Zenon DEF Init
  <2>2. elapsed \in 0..MaxTime /\ lookedAt \in 0..elapsed /\ looks \in 0..MaxLooks
    BY Numbers DEF Init
  <2> QED
    BY <2>1, <2>2 DEF Init, TypeOK
<1>2. FoundIsSeen /\ AnswerIsJudged
  BY DEF Init, FoundIsSeen, AnswerIsJudged
<1>3. Paced /\ LooksBounded
  BY Numbers DEF Init, Paced, LooksBounded
<1> QED
  BY <1>1, <1>2, <1>3 DEF IInv

LEMMA StepPreserves == IInv /\ [Next]_vars => IInv'
<1> SUFFICES ASSUME IInv, [Next]_vars PROVE IInv'
  OBVIOUS
<1>1. CASE UNCHANGED vars
  <2>1. present' \in BOOLEAN /\ UNCHANGED <<config, elapsed, found, pc, verdict, history>>
    BY <1>1 DEF vars, config, history, IInv, TypeOK
  <2> QED
    BY <2>1, NothingStep
<1>2. CASE ChangeFile
  <2>1. present' \in BOOLEAN
    BY <1>2, Zenon DEF ChangeFile
  <2> QED
    BY <1>2, <2>1, NothingStep DEF ChangeFile
<1>3. CASE Done
  BY <1>1, <1>3 DEF Done
<1> QED
  BY <1>1, <1>2, <1>3, CheckStep, LookFailsStep, LookStep, JudgeStep, SleepStep,
     ReportStep DEF Next, Step

(* The inductive invariant holds of every polling.                         *)
THEOREM Invariance == Spec => []IInv
BY InitEstablishes, StepPreserves, PTL DEF Spec

(* Every variable keeps its type; the time of a look is never ahead of the *)
(* clock (uci_handler.c:431-540).                                          *)
THEOREM TypeCorrect == Spec => []TypeOK
<1>1. IInv => TypeOK
  BY DEF IInv
<1> QED
  BY <1>1, Invariance, PTL

(* "Updated" rests on a lease of a configured address, whatever the range  *)
(* and the network are (uci_handler.c:413-426 and 494-501).                *)
THEOREM UpdatedIsSeen == Spec => []UpdatedHasEvidence
<1>1. IInv => UpdatedHasEvidence
  <2> SUFFICES ASSUME IInv, verdict = "updated"
               PROVE  \E lease \in seen : lease.ip \in Configured
    BY DEF UpdatedHasEvidence
  <2>1. PICK lease \in seen : InNewRange(lease)
    BY DEF IInv, AnswerIsJudged, FoundIsSeen
  <2>2. lease \in Leases
    BY DEF IInv, TypeOK
  <2> QED
    BY <2>1, <2>2, RangeIsConfigured DEF IInv
<1> QED
  BY <1>1, Invariance, PTL

(* "Not found" is said when the whole time is over and no sleep lies after *)
(* the last look, and no look of the polling read a configured address,    *)
(* however long looks and sleeps take (uci_handler.c:435-533).             *)
THEOREM NotFoundIsTheLastWord == Spec => []NotFoundIsFinal
<1>1. IInv => NotFoundIsFinal
  BY DEF IInv, AnswerIsJudged, FoundIsSeen, Recent, NotFoundIsFinal
<1> QED
  BY <1>1, Invariance, PTL

(* With a file that opens there is no look after the first one at which    *)
(* the time is up, whatever the interval, the duration and the delays are  *)
(* (uci_handler.c:435-539).                                                *)
THEOREM LookingEnds == Spec => []LooksBounded
<1>1. IInv => LooksBounded
  BY DEF IInv
<1> QED
  BY <1>1, Invariance, PTL
=============================================================================
