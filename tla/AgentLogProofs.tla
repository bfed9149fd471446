---------------------------- MODULE AgentLogProofs ----------------------------
(***************************************************************************)
(* The logger for any number of threads, calls, names and messages, and a  *)
(* buffer of any size: proofs of the invariants of AgentLog.  The mutex    *)
(* makes opening and writing a critical section (Exclusive); the numbers   *)
(* of the calls tell the messages apart (Numbers), and what was finished   *)
(* when a call began is finished still (Pasts), so that a line appended    *)
(* at the end is older than none before it.                                *)
(***************************************************************************)
EXTENDS AgentLog, SequenceTheorems, TLAPS

InLock == {"locked", "opening", "write", "unlock"}

(* Where a message is on its way. *)
Flying == {"wait", "locked", "opening", "write"}

(* Who copies has what it copies, and who writes a file to write to. *)
Arguments ==
  \A t \in Threads : /\ pc[t] = "copy" => arg[t] \in Names
                     /\ pc[t] = "write" => target[t] \in Paths

(* At most one thread is between the lock and the unlock: the one that     *)
(* holds the mutex.                                                        *)
Exclusive == \A t \in Threads : pc[t] \in InLock <=> mutex = t

(* No message has the number of another one. *)
Numbers ==
  /\ \A i \in Finished : i <= calls
  /\ \A t \in Threads : line[t].id <= calls
  /\ \A t, u \in Threads :
       pc[t] \in Flying /\ pc[u] \in Flying /\ line[t].id = line[u].id => t = u

(* What was finished stays so. *)
Pasts ==
  /\ \A t \in Threads : line[t].after \subseteq Finished
  /\ \A s \in Places : \A i \in DOMAIN s : s[i].after \subseteq Finished

(* The texts on their way are those of whole lines. *)
Texts == \A t \in Threads : pc[t] \in Flying => WholeLine(line[t].text)

(* The inductive invariant. *)
IInv ==
  /\ TypeOK /\ Arguments
  /\ Exclusive
  /\ Numbers
  /\ EachLineOnce
  /\ Pasts /\ InRealTimeOrder
  /\ Texts /\ WholeLines

(* What it takes for a file that no call named, when one thread sets the   *)
(* file: the path is of two files only while that thread copies, and a     *)
(* fopen that did not see it copy has read the path as it still is.        *)
PathInv ==
  /\ \A t \in Threads : pc[t] = "copy" => t \in Setters /\ arg[t] = path[1]
  /\ path[1] # path[2] => \E t \in Threads : pc[t] = "copy"
  /\ \A t \in Threads : pc[t] = "opening" /\ ~ raced[t] =>
       half[t] = path[1] /\ path[1] = path[2]
  /\ \A t \in Threads : pc[t] = "write" /\ ~ raced[t] => target[t][1] = target[t][2]
  /\ TornOnlyInRace

-----------------------------------------------------------------------------
(* The beginning of a sequence is a prefix of it. *)
LEMMA BeginningIsPrefix ==
  ASSUME NEW S, NEW s \in Seq(S), NEW n \in 0..Len(s)
  PROVE  /\ SubSeq(s, 1, n) \in Seq(S) /\ Len(SubSeq(s, 1, n)) = n
         /\ IsPrefix(SubSeq(s, 1, n), s)
<1> DEFINE b == SubSeq(s, 1, n)
<1>1. Len(s) \in Nat /\ n \in Nat /\ n <= Len(s)
      /\ \A i \in 1..n : s[i] \in S
  BY LenProperties, ElementOfSeq
<1>2. b \in Seq(S) /\ Len(b) = n
  BY <1>1, SubSeqProperties
<1> HIDE DEF b
<1>3. SubSeq(b, 1, Len(b)) = b
  BY <1>2, SubSeqFull
<1>4. IsPrefix(b, s)
  BY <1>1, <1>2, <1>3 DEF IsPrefix, b
<1> QED
  BY <1>2, <1>4 DEF b

(* What Append puts at the end is the last element, the rest the front. *)
LEMMA FrontAndLast ==
  ASSUME NEW S, NEW s \in Seq(S), NEW e \in S
  PROVE  /\ Append(s, e) \in Seq(S) /\ Len(Append(s, e)) = Len(s) + 1
         /\ Last(Append(s, e)) = e /\ Front(Append(s, e)) = s
<1> DEFINE a == Append(s, e)
<1>1. Len(s) \in Nat
  BY LenProperties
<1>2. /\ a \in Seq(S) /\ Len(a) = Len(s) + 1 /\ a[Len(s) + 1] = e
      /\ \A i \in 1..Len(s) : a[i] = s[i]
  BY AppendProperties
<1> HIDE DEF a
<1>3. \A i \in 1..Len(s) : a[i] \in S
  BY <1>2, ElementOfSeq
<1>4. /\ SubSeq(a, 1, Len(s)) \in Seq(S)
      /\ Len(SubSeq(a, 1, Len(s))) = Len(s)
      /\ \A i \in 1..Len(s) : SubSeq(a, 1, Len(s))[i] = a[i]
  BY <1>1, <1>3, SubSeqProperties
<1>5. SubSeq(a, 1, Len(s)) = s
  <2> DEFINE f == SubSeq(a, 1, Len(s))
  <2>1. f \in Seq(S) /\ Len(f) = Len(s) /\ \A i \in 1..Len(f) : f[i] = s[i]
    BY <1>2, <1>4
  <2> HIDE DEF f
  <2>2. f = s
    BY <2>1, SeqEqual
  <2> QED
    BY <2>2 DEF f
<1>6. Len(a) - 1 = Len(s)
  BY <1>1, <1>2
<1>7. Last(a) = e /\ Front(a) = s
  BY <1>1, <1>2, <1>5, <1>6 DEF Last, Front
<1> QED
  BY <1>2, <1>7 DEF a

(* Whatever a message says, its line is whole. *)
LEMMA TerminatedWhole ==
  ASSUME NEW c \in Contents
  PROVE  /\ Terminated(Header \o c) \in Seq(Characters)
         /\ WholeLine(Terminated(Header \o c))
<1> DEFINE text == Header \o c
           n == LineSize - 2
<1>1. /\ Header \in Seq(Characters) /\ c \in Seq(Characters)
      /\ NewLine \in Characters /\ LineSize \in Nat
      /\ Header # << >> /\ Len(Header) < LineSize - 2
  BY LogAssumption
<1>2. Len(Header) \in Nat /\ Len(Header) > 0 /\ Len(c) \in Nat
  BY <1>1, EmptySeq, LenProperties
<1>3. text \in Seq(Characters) /\ Len(text) = Len(Header) + Len(c)
  BY <1>1, ConcatProperties
<1>4. Len(text) \in Nat /\ Len(text) > 0 /\ n \in Nat
  BY <1>1, <1>2, <1>3
<1> HIDE DEF text
<1>5. CASE Len(text) < n /\ Last(text) = NewLine
  <2>1. Terminated(text) = text
    BY <1>5 DEF Terminated
  <2>2. Len(text) - 1 \in 0..Len(text) /\ Len(text) <= LineSize - 1
    BY <1>1, <1>4, <1>5
  <2>3. IsPrefix(Front(text), text)
    BY <1>3, <2>2, BeginningIsPrefix DEF Front
  <2> QED
    BY <1>3, <1>5, <2>1, <2>2, <2>3 DEF WholeLine, text
<1>6. CASE Len(text) < n /\ Last(text) # NewLine
  <2>1. Terminated(text) = Append(text, NewLine)
    BY <1>6 DEF Terminated
  <2>2. /\ Append(text, NewLine) \in Seq(Characters)
        /\ Len(Append(text, NewLine)) = Len(text) + 1
        /\ Last(Append(text, NewLine)) = NewLine /\ Front(Append(text, NewLine)) = text
    BY <1>1, <1>3, FrontAndLast
  <2>3. Len(text) \in 0..Len(text) /\ Len(text) + 1 <= LineSize - 1
    BY <1>1, <1>4, <1>6
  <2>4. IsPrefix(text, text)
    BY <1>3, <2>3, BeginningIsPrefix, SubSeqFull
  <2> QED
    BY <2>1, <2>2, <2>3, <2>4 DEF WholeLine, text
<1>7. CASE ~ (Len(text) < n)
  <2> DEFINE b == SubSeq(text, 1, n)
  <2>1. Terminated(text) = Append(b, NewLine)
    BY <1>7 DEF Terminated
  <2>2. n \in 0..Len(text)
    BY <1>4, <1>7
  <2>3. b \in Seq(Characters) /\ Len(b) = n /\ IsPrefix(b, text)
    BY <1>3, <2>2, BeginningIsPrefix
  <2> HIDE DEF b
  <2>4. /\ Append(b, NewLine) \in Seq(Characters)
        /\ Len(Append(b, NewLine)) = Len(b) + 1
        /\ Last(Append(b, NewLine)) = NewLine /\ Front(Append(b, NewLine)) = b
    BY <1>1, <2>3, FrontAndLast
  <2>5. n + 1 <= LineSize - 1
    BY <1>1
  <2> QED
    BY <2>1, <2>3, <2>4, <2>5 DEF WholeLine, text
<1> QED
  BY <1>5, <1>6, <1>7 DEF text

-----------------------------------------------------------------------------
(* The line that a thread writes. *)
LEMMA HeldLine ==
  ASSUME TypeOK, NEW t \in Threads
  PROVE  /\ Holding(t) \in Line
         /\ Holding(t).id = line[t].id /\ Holding(t).after = line[t].after
         /\ Holding(t).text = line[t].text /\ Holding(t).raced = raced[t]
<1>1. line[t] \in Line /\ raced[t] \in BOOLEAN
  BY DEF TypeOK
<1> QED
  BY <1>1 DEF Holding, Line

LEMMA WhereFinished ==
  ASSUME NEW i
  PROVE  i \in Finished <=>
           i \in Ids(stderr) \/ i \in Ids(lost) \/ \E p \in Paths : i \in Ids(files[p])
BY DEF Finished

LEMMA FinishedIsNumbers ==
  ASSUME TypeOK
  PROVE  Finished \subseteq 0..MaxCalls
<1>1. ASSUME NEW s \in Seq(Line)
      PROVE  Ids(s) \subseteq 0..MaxCalls
  <2>1. \A i \in DOMAIN s : s[i] \in Line
    BY LenProperties, ElementOfSeq
  <2> QED
    BY <2>1 DEF Ids, Line
<1>2. /\ \A p \in Paths : files[p] \in Seq(Line)
      /\ stderr \in Seq(Line) /\ lost \in Seq(Line)
  BY DEF TypeOK
<1>3. /\ \A p \in Paths : Ids(files[p]) \subseteq 0..MaxCalls
      /\ Ids(stderr) \subseteq 0..MaxCalls /\ Ids(lost) \subseteq 0..MaxCalls
  BY <1>1, <1>2
<1> QED
  BY <1>3, WhereFinished

LEMMA NumbersAreNat ==
  ASSUME TypeOK
  PROVE  calls \in Nat /\ \A t \in Threads : line[t].id \in Nat
<1>1. MaxCalls \in Nat
  BY LogAssumption
<1>2. calls \in 0..MaxCalls /\ \A t \in Threads : line[t] \in Line
  BY DEF TypeOK
<1>3. \A t \in Threads : line[t].id \in 0..MaxCalls
  BY <1>2 DEF Line
<1> QED
  BY <1>1, <1>2, <1>3

LEMMA InitIInv == Init => IInv
<1> SUFFICES ASSUME Init
             PROVE  IInv
  OBVIOUS
<1>1. << >> \in Seq(Line) /\ << >> \in Seq(Characters) /\ DOMAIN << >> = {}
  BY EmptySeq, LenProperties
<1>2. NoLine \in Line
  BY <1>1, LogAssumption DEF NoLine, Line
<1>3. Whole(DefaultName) \in Paths /\ Whole(DefaultName) \in Names \X Names
  BY LogAssumption DEF Whole, Paths
<1>4. TypeOK
  BY <1>1, <1>2, <1>3, LogAssumption DEF Init, TypeOK, Levels
<1>5. /\ stderr = << >> /\ lost = << >> /\ \A p \in Paths : files[p] = << >>
      /\ \A t \in Threads : pc[t] = "idle" /\ line[t] = NoLine
      /\ mutex = NoName /\ calls = 0
  BY DEF Init
<1>6. Ids(<< >>) = {} /\ NoRepeat(<< >>)
  BY <1>1 DEF Ids, NoRepeat
<1>7. Finished = {} /\ InFlight = {}
  BY <1>5, <1>6 DEF Finished, InFlight
<1>8. EachLineOnce
  BY <1>5, <1>6, <1>7 DEF EachLineOnce, Apart, NoLine
<1>9. \A s \in Places : s = << >>
  BY <1>5 DEF Places
<1>10. Pasts /\ InRealTimeOrder /\ WholeLines
  BY <1>1, <1>5, <1>9 DEF Pasts, InRealTimeOrder, WholeLines, NoLine
<1>11. Arguments /\ Exclusive /\ Numbers /\ Texts
  BY <1>5, <1>7, LogAssumption
     DEF Arguments, Exclusive, Numbers, Texts, InLock, Flying, NoLine
<1> QED
  BY <1>4, <1>8, <1>10, <1>11 DEF IInv

-----------------------------------------------------------------------------
(* Type correctness, action by action. *)
LEMMA TypeStep ==
  ASSUME TypeOK, Arguments, [Next]_vars
  PROVE  TypeOK' /\ Arguments'
<1> DEFINE T == TypeOK' /\ Arguments'
<1>0. pc \in [Threads -> {"idle", "copy", "probe", "probing", "wait", "locked",
                           "opening", "write", "unlock"}]
  BY DEF TypeOK
<1>1. ASSUME UNCHANGED vars
      PROVE  T
  BY <1>1 DEF vars, TypeOK, Arguments
<1>2. ASSUME NEW t \in Threads, Calls(t)
      PROVE  calls' \in 0..MaxCalls
  BY <1>2, LogAssumption DEF TypeOK, Calls
<1>3. ASSUME NEW t \in Threads, SetLevel(t)
      PROVE  T
  <2>1. level' \in Levels
    BY <1>3 DEF SetLevel, TypeOK
  <2>2. calls' \in 0..MaxCalls
    BY <1>2, <1>3 DEF SetLevel
  <2> QED
    BY <1>3, <2>1, <2>2 DEF SetLevel, TypeOK, Arguments, output
<1>4. ASSUME NEW t \in Threads, SetFile(t)
      PROVE  T
  <2>1. calls' \in 0..MaxCalls
    BY <1>2, <1>4 DEF SetFile
  <2>2. PICK n \in Names : arg' = [arg EXCEPT ![t] = n] /\ path' = <<n, path[2]>>
    BY <1>4 DEF SetFile
  <2>3. /\ UNCHANGED <<level, mutex, openable, created, files, stderr, lost, half,
                       target, line>>
        /\ before' = path /\ promised' = NoName
        /\ pc' = [pc EXCEPT ![t] = "copy"]
        /\ raced' = [u \in Threads |-> raced[u] \/ pc[u] \in {"opening", "probing"}]
    BY <1>4 DEF SetFile, Goto, PathChanges, output
  <2>4. path' \in Paths /\ arg' \in [Threads -> Names \cup {NoName}]
    BY <2>2 DEF TypeOK, Paths
  <2>5. raced' \in [Threads -> BOOLEAN]
    BY <2>3, Zenon
  <2>6. TypeOK'
    BY <2>1, <2>3, <2>4, <2>5 DEF TypeOK
  <2>7. Arguments'
    BY <1>0, <2>2, <2>3 DEF TypeOK, Arguments
  <2> QED
    BY <2>6, <2>7
<1>5. ASSUME NEW t \in Threads, CopyRest(t)
      PROVE  T
  <2>1. arg[t] \in Names
    <3>1. pc[t] = "copy"
      BY <1>5 DEF CopyRest
    <3> QED
      BY <1>5, <3>1 DEF Arguments
  <2>2. path' \in Paths
    BY <1>5, <2>1 DEF CopyRest, TypeOK, Paths
  <2>3. /\ UNCHANGED <<level, before, promised, mutex, openable, created, files, stderr,
                       lost, arg, half, target, line, calls>>
        /\ pc' = [pc EXCEPT ![t] = "probe"]
        /\ raced' = [u \in Threads |-> raced[u] \/ pc[u] \in {"opening", "probing"}]
    BY <1>5 DEF CopyRest, Goto, PathChanges, output
  <2>4. raced' \in [Threads -> BOOLEAN]
    BY <2>3, Zenon
  <2>5. TypeOK'
    BY <2>2, <2>3, <2>4 DEF TypeOK
  <2> QED
    BY <1>0, <2>3, <2>5 DEF Arguments
<1>6. ASSUME NEW t \in Threads, InitLogger(t)
      PROVE  T
  <2>1. calls' \in 0..MaxCalls
    BY <1>2, <1>6 DEF InitLogger
  <2>2. /\ UNCHANGED <<shared, mutex, created, output, half, target, line, raced>>
        /\ pc' = [pc EXCEPT ![t] = "probe"]
        /\ arg' = [arg EXCEPT ![t] = NoName]
    BY <1>6 DEF InitLogger, Goto
  <2> QED
    BY <1>0, <2>1, <2>2 DEF TypeOK, Arguments, shared, output
<1>7. ASSUME NEW t \in Threads, ProbeHalf(t) \/ OpenHalf(t)
      PROVE  T
  <2>1. PICK to \in {"probing", "opening"} :
          /\ half' = [half EXCEPT ![t] = path[1]]
          /\ raced' = [raced EXCEPT ![t] = \E u \in Threads : pc[u] = "copy"]
          /\ pc' = [pc EXCEPT ![t] = to]
          /\ UNCHANGED <<shared, mutex, created, output, arg, target, line, calls>>
    BY <1>7 DEF ProbeHalf, OpenHalf, ReadHalf, Goto
  <2>2. half' \in [Threads -> Names \cup {NoName}]
    BY <2>1 DEF TypeOK, Paths
  <2>3. raced' \in [Threads -> BOOLEAN]
    <3>1. raced \in [Threads -> BOOLEAN]
      BY DEF TypeOK
    <3>2. (\E u \in Threads : pc[u] = "copy") \in BOOLEAN
      OBVIOUS
    <3> QED
      BY <2>1, <3>1, <3>2
  <2>4. pc' \in [Threads -> {"idle", "copy", "probe", "probing", "wait", "locked",
                             "opening", "write", "unlock"}]
    BY <1>0, <2>1
  <2>5. TypeOK'
    BY <2>1, <2>2, <2>3, <2>4 DEF TypeOK, shared, output
  <2>6. Arguments'
    BY <1>0, <2>1 DEF Arguments
  <2> QED
    BY <2>5, <2>6
<1>8. ASSUME NEW t \in Threads, Probe(t)
      PROVE  T
  <2>1. /\ UNCHANGED <<path, level, before, mutex, openable, output, arg, half, target,
                       line, raced, calls>>
        /\ pc' = [pc EXCEPT ![t] = "idle"]
        /\ created' \subseteq openable /\ promised' \in Paths \cup {NoName}
    BY <1>8 DEF Probe, Goto, TypeOK
  <2> QED
    BY <1>0, <2>1 DEF TypeOK, Arguments, output
<1>9. ASSUME NEW t \in Threads, Log(t)
      PROVE  T
  <2>1. /\ UNCHANGED <<shared, mutex, created, output, arg, half, target, raced>>
        /\ calls' \in 0..MaxCalls /\ calls' = calls + 1 /\ calls \in Nat
    BY <1>2, <1>9 DEF Log, Calls, TypeOK
  <2>2. CASE UNCHANGED <<pc, line>>
    BY <2>1, <2>2 DEF TypeOK, Arguments, shared, output
  <2>3. CASE ~ UNCHANGED <<pc, line>>
    <3>1. PICK c \in Contents :
            /\ line' = [line EXCEPT ![t] =
                          [id |-> calls', after |-> Finished,
                           text |-> Terminated(Header \o c), raced |-> FALSE]]
            /\ pc' = [pc EXCEPT ![t] = "wait"]
      BY <1>9, <2>3 DEF Log, Goto
    <3>2. line' \in [Threads -> Line]
      <4> DEFINE l == [id |-> calls', after |-> Finished,
                       text |-> Terminated(Header \o c), raced |-> FALSE]
      <4>1. l \in Line
        BY <2>1, FinishedIsNumbers, TerminatedWhole DEF Line
      <4>2. line' = [line EXCEPT ![t] = l] /\ line \in [Threads -> Line]
        BY <3>1 DEF TypeOK
      <4> HIDE DEF l
      <4> QED
        BY <4>1, <4>2
    <3>3. TypeOK'
      BY <2>1, <3>1, <3>2 DEF TypeOK, shared, output
    <3> QED
      BY <1>0, <2>1, <3>1, <3>3 DEF Arguments
  <2> QED
    BY <2>2, <2>3
<1>10. ASSUME NEW t \in Threads, Lock(t) \/ Unlock(t)
       PROVE  T
  <2>1. PICK to \in {"locked", "idle"} :
          /\ pc' = [pc EXCEPT ![t] = to] /\ mutex' \in Threads \cup {NoName}
          /\ UNCHANGED <<shared, created, output, arg, half, target, line, raced, calls>>
    BY <1>10 DEF Lock, Unlock, Goto
  <2> QED
    BY <1>0, <2>1 DEF TypeOK, Arguments, shared, output
<1>11. ASSUME NEW t \in Threads, Open(t)
       PROVE  T
  <2>1. PICK to \in {"write", "unlock"} :
          /\ pc' = [pc EXCEPT ![t] = to]
          /\ UNCHANGED <<shared, mutex, files, lost, arg, half, line, raced, calls>>
    BY <1>11 DEF Open, Goto
  <2>2. /\ created' \subseteq openable
        /\ target' \in [Threads -> Paths \cup {NoName}]
    BY <1>11 DEF Open, TypeOK
  <2>3. stderr' = stderr \/ stderr' = Append(stderr, Holding(t))
    BY <1>11 DEF Open
  <2>4. stderr' \in Seq(Line)
    <3>1. stderr \in Seq(Line) /\ Holding(t) \in Line
      BY HeldLine DEF TypeOK
    <3>2. Append(stderr, Holding(t)) \in Seq(Line)
      BY <3>1, AppendProperties
    <3> QED
      BY <2>3, <3>1, <3>2
  <2>5. TypeOK'
    BY <2>1, <2>2, <2>4 DEF TypeOK, shared
  <2>6. to = "write" => target'[t] \in Paths
    BY <1>0, <1>11, <2>1 DEF Open, Goto, TypeOK
  <2>7. \A u \in Threads \ {t} : target'[u] = target[u] /\ pc'[u] = pc[u]
    BY <1>0, <1>11, <2>1 DEF Open, TypeOK
  <2> QED
    BY <1>0, <2>1, <2>5, <2>6, <2>7 DEF Arguments
<1>12. ASSUME NEW t \in Threads, Write(t)
       PROVE  T
  <2>1. /\ pc' = [pc EXCEPT ![t] = "unlock"]
        /\ UNCHANGED <<shared, mutex, created, stderr, arg, half, target, line, raced, calls>>
    BY <1>12 DEF Write, Goto
  <2>2. /\ lost \in Seq(Line) /\ Holding(t) \in Line
        /\ files \in [Paths -> Seq(Line)]
    BY HeldLine DEF TypeOK
  <2>3. lost' \in Seq(Line)
    <3>1. Append(lost, Holding(t)) \in Seq(Line)
      BY <2>2, AppendProperties
    <3> QED
      BY <1>12, <2>2, <3>1 DEF Write
  <2>4. files' \in [Paths -> Seq(Line)]
    <3>1. \A p \in Paths : Append(files[p], Holding(t)) \in Seq(Line)
      BY <2>2, AppendProperties
    <3> QED
      BY <1>12, <2>2, <3>1 DEF Write
  <2>5. TypeOK'
    BY <2>1, <2>3, <2>4 DEF TypeOK, shared
  <2> QED
    BY <1>0, <2>1, <2>5 DEF Arguments
<1> QED
  BY <1>1, <1>3, <1>4, <1>5, <1>6, <1>7, <1>8, <1>9, <1>10, <1>11, <1>12 DEF Next, Step

-----------------------------------------------------------------------------
(* Mutual exclusion, action by action: only Lock enters, when the mutex is *)
(* free, and only Unlock leaves.                                           *)
LEMMA ExclusiveStep ==
  ASSUME TypeOK, Exclusive, [Next]_vars
  PROVE  Exclusive'
<1>0. /\ NoName \notin Threads
      /\ pc \in [Threads -> {"idle", "copy", "probe", "probing", "wait", "locked",
                              "opening", "write", "unlock"}]
  BY LogAssumption DEF TypeOK
<1>1. ASSUME UNCHANGED <<pc, mutex>>
      PROVE  Exclusive'
  BY <1>1 DEF Exclusive
<1>2. ASSUME NEW t \in Threads, NEW to, pc' = [pc EXCEPT ![t] = to], mutex' = mutex,
             pc[t] \in InLock <=> to \in InLock
      PROVE  Exclusive'
  BY <1>0, <1>2 DEF Exclusive
<1>3. ASSUME NEW t \in Threads,
             \/ SetFile(t) \/ CopyRest(t) \/ InitLogger(t) \/ ProbeHalf(t) \/ Probe(t)
      PROVE  Exclusive'
  <2>1. PICK to \in {"copy", "probe", "probing", "idle"} :
          /\ pc' = [pc EXCEPT ![t] = to] /\ mutex' = mutex
          /\ pc[t] \in {"idle", "copy", "probe", "probing"}
    BY <1>3 DEF SetFile, CopyRest, InitLogger, ProbeHalf, ReadHalf, Probe, Calls, Goto
  <2> QED
    BY <1>2, <2>1 DEF InLock
<1>4. ASSUME NEW t \in Threads, Log(t)
      PROVE  Exclusive'
  <2>1. /\ mutex' = mutex /\ pc[t] = "idle"
        /\ pc' = pc \/ pc' = [pc EXCEPT ![t] = "wait"]
    BY <1>4 DEF Log, Calls, Goto
  <2> QED
    BY <1>1, <1>2, <2>1 DEF InLock
<1>5. ASSUME NEW t \in Threads, OpenHalf(t) \/ Open(t) \/ Write(t)
      PROVE  Exclusive'
  <2>1. PICK to \in InLock :
          pc' = [pc EXCEPT ![t] = to] /\ mutex' = mutex /\ pc[t] \in InLock
    BY <1>5 DEF OpenHalf, ReadHalf, Open, Write, Goto, InLock
  <2> QED
    BY <1>2, <2>1
<1>6. ASSUME NEW t \in Threads, Lock(t)
      PROVE  Exclusive'
  BY <1>0, <1>6 DEF Lock, Goto, Exclusive, InLock
<1>7. ASSUME NEW t \in Threads, Unlock(t)
      PROVE  Exclusive'
  BY <1>0, <1>7 DEF Unlock, Goto, Exclusive, InLock
<1>8. ASSUME NEW t \in Threads, SetLevel(t)
      PROVE  Exclusive'
  BY <1>1, <1>8 DEF SetLevel
<1> QED
  BY <1>1, <1>3, <1>4, <1>5, <1>6, <1>7, <1>8 DEF Next, Step, vars

-----------------------------------------------------------------------------
(* What the invariant says of the messages. *)
Messages ==
  /\ Numbers
  /\ EachLineOnce
  /\ Pasts /\ InRealTimeOrder
  /\ Texts /\ WholeLines

LEMMA WhoFlies ==
  ASSUME NEW i
  PROVE  i \in InFlight <=> \E t \in Threads : pc[t] \in Flying /\ i = line[t].id
BY DEF InFlight, Flying

(* A step after which the same messages are on their way, and the same     *)
(* lines written.                                                          *)
LEMMA StillFlying ==
  ASSUME TypeOK, Messages, UNCHANGED <<output, line>>,
         calls' \in {calls, calls + 1},
         \A t \in Threads : pc'[t] \in Flying <=> pc[t] \in Flying
  PROVE  Messages'
<1>1. /\ files' = files /\ stderr' = stderr /\ lost' = lost /\ line' = line
      /\ Finished' = Finished /\ Places' = Places
  BY DEF output, Finished, Ids, Places
<1>2. InFlight' = InFlight
  <2>1. ASSUME NEW i  PROVE  i \in InFlight' <=> i \in InFlight
    BY <1>1, WhoFlies DEF InFlight, Flying
  <2> QED
    BY <2>1
<1>3. /\ Finished \subseteq 0..MaxCalls /\ calls \in Nat
      /\ \A t \in Threads : line[t].id \in Nat
  BY FinishedIsNumbers, NumbersAreNat
<1>4. calls' \in Nat /\ calls <= calls'
  BY <1>3
<1>5. Numbers'
  <2>1. \A i \in Finished : i <= calls'
    BY <1>3, <1>4 DEF Messages, Numbers
  <2>2. \A t \in Threads : line[t].id <= calls'
    BY <1>3, <1>4 DEF Messages, Numbers
  <2> QED
    BY <1>1, <2>1, <2>2 DEF Messages, Numbers
<1>6. EachLineOnce'
  BY <1>1, <1>2 DEF Messages, EachLineOnce
<1>7. Pasts' /\ InRealTimeOrder' /\ WholeLines'
  BY <1>1 DEF Messages, Pasts, InRealTimeOrder, WholeLines
<1>8. Texts'
  BY <1>1 DEF Messages, Texts
<1> QED
  BY <1>5, <1>6, <1>7, <1>8 DEF Messages

(* A message is let through. *)
LEMMA TakesOff ==
  ASSUME TypeOK, Messages, NEW t \in Threads, NEW c \in Contents,
         UNCHANGED output, pc[t] = "idle", pc' = [pc EXCEPT ![t] = "wait"],
         calls' = calls + 1,
         line' = [line EXCEPT ![t] = [id |-> calls', after |-> Finished,
                                      text |-> Terminated(Header \o c), raced |-> FALSE]]
  PROVE  Messages'
<1> DEFINE n == calls + 1
<1>1. /\ files' = files /\ stderr' = stderr /\ lost' = lost
      /\ Finished' = Finished /\ Places' = Places
  BY DEF output, Finished, Ids, Places
<1>2. /\ Finished \subseteq 0..MaxCalls /\ calls \in Nat
      /\ \A u \in Threads : line[u].id \in Nat
  BY FinishedIsNumbers, NumbersAreNat
<1>3. n \in Nat /\ calls < n /\ calls' = n
  BY <1>2
<1> HIDE DEF n
<1>4. /\ line'[t].id = n /\ line'[t].after = Finished
      /\ line'[t].text = Terminated(Header \o c)
      /\ \A u \in Threads \ {t} : line'[u] = line[u]
      /\ pc'[t] = "wait" /\ \A u \in Threads \ {t} : pc'[u] = pc[u]
      /\ pc[t] \notin Flying /\ pc'[t] \in Flying
  BY <1>3 DEF TypeOK, Flying
<1>5. n \notin Finished /\ \A u \in Threads : line[u].id # n
  <2>1. (\A i \in Finished : i <= calls) /\ \A u \in Threads : line[u].id <= calls
    BY DEF Messages, Numbers
  <2> QED
    BY <1>2, <1>3, <2>1
<1>6. InFlight' = InFlight \cup {n}
  <2>1. ASSUME NEW i  PROVE  i \in InFlight' <=> i \in InFlight \cup {n}
    <3>1. i \in InFlight' <=> \E u \in Threads : pc'[u] \in Flying /\ i = line'[u].id
      BY DEF InFlight, Flying
    <3> QED
      BY <1>4, <3>1, WhoFlies
  <2> QED
    BY <2>1
<1>7. Numbers'
  <2>1. \A i \in Finished : i <= n
    BY <1>2, <1>3 DEF Messages, Numbers
  <2>2. \A u \in Threads : line'[u].id <= n
    BY <1>2, <1>3, <1>4 DEF Messages, Numbers
  <2>3. ASSUME NEW u \in Threads, NEW v \in Threads,
               pc'[u] \in Flying, pc'[v] \in Flying, line'[u].id = line'[v].id
        PROVE  u = v
    BY <1>4, <1>5, <2>3 DEF Messages, Numbers
  <2> QED
    BY <1>1, <1>3, <2>1, <2>2, <2>3 DEF Numbers
<1>8. EachLineOnce'
  <2>1. Finished' \cap InFlight' = {}
    BY <1>1, <1>5, <1>6 DEF Messages, EachLineOnce
  <2>2. \A u \in Threads : line'[u].id \in Finished' \cup InFlight' \cup {0}
    BY <1>1, <1>4, <1>6 DEF Messages, EachLineOnce
  <2> QED
    BY <1>1, <2>1, <2>2 DEF Messages, EachLineOnce
<1>9. Pasts' /\ InRealTimeOrder' /\ WholeLines'
  BY <1>1, <1>4 DEF Messages, Pasts, InRealTimeOrder, WholeLines
<1>10. Texts'
  BY <1>4, TerminatedWhole DEF Messages, Texts
<1> QED
  BY <1>7, <1>8, <1>9, <1>10 DEF Messages

(* What appending a line does to the numbers in a sequence of lines. *)
LEMMA AppendLine ==
  ASSUME NEW s \in Seq(Line), NEW l \in Line, l.id \notin Ids(s), NoRepeat(s)
  PROVE  /\ Ids(Append(s, l)) = Ids(s) \cup {l.id}
         /\ NoRepeat(Append(s, l))
<1> DEFINE a == Append(s, l)
<1>1. /\ Len(s) \in Nat /\ DOMAIN s = 1..Len(s)
      /\ a \in Seq(Line) /\ Len(a) = Len(s) + 1 /\ a[Len(s) + 1] = l
      /\ \A i \in 1..Len(s) : a[i] = s[i]
  BY LenProperties, AppendProperties
<1> HIDE DEF a
<1>2. DOMAIN a = 1..(Len(s) + 1)
  BY <1>1, LenProperties
<1>3. \A i \in DOMAIN a : i \in DOMAIN s \/ i = Len(s) + 1
  BY <1>1, <1>2
<1>4. \A i \in DOMAIN s : i \in DOMAIN a
  BY <1>1, <1>2
<1>5. Len(s) + 1 \in DOMAIN a
  BY <1>1, <1>2
<1>6. Ids(a) = Ids(s) \cup {l.id}
  <2>1. ASSUME NEW n  PROVE  n \in Ids(a) <=> n \in Ids(s) \cup {l.id}
    <3>1. n \in Ids(a) <=> \E i \in DOMAIN a : n = a[i].id
      BY DEF Ids
    <3>2. n \in Ids(s) <=> \E i \in DOMAIN s : n = s[i].id
      BY DEF Ids
    <3> QED
      BY <1>1, <1>3, <1>4, <1>5, <3>1, <3>2
  <2> QED
    BY <2>1
<1>7. NoRepeat(a)
  <2> SUFFICES ASSUME NEW i \in DOMAIN a, NEW j \in DOMAIN a, a[i].id = a[j].id
               PROVE  i = j
    BY DEF NoRepeat
  <2>1. \A k \in DOMAIN s : a[k] = s[k] /\ a[k].id # l.id
    BY <1>1 DEF Ids
  <2>2. CASE i \in DOMAIN s /\ j \in DOMAIN s
    BY <2>1, <2>2 DEF NoRepeat
  <2> QED
    BY <1>1, <1>3, <2>1, <2>2
<1> QED
  BY <1>6, <1>7 DEF a

(* Appending a line keeps what is said of all lines, and the order. *)
LEMMA AppendInOrder ==
  ASSUME NEW s \in Seq(Line), NEW l \in Line, NEW old, NEW new,
         \A i \in DOMAIN s : s[i].after \subseteq old /\ WholeLine(s[i].text),
         \A i, j \in DOMAIN s : i < j => s[j].id \notin s[i].after,
         old \subseteq new, l.after \subseteq new, l.id \notin old, WholeLine(l.text)
  PROVE  /\ \A i \in DOMAIN Append(s, l) :
              Append(s, l)[i].after \subseteq new /\ WholeLine(Append(s, l)[i].text)
         /\ \A i, j \in DOMAIN Append(s, l) :
              i < j => Append(s, l)[j].id \notin Append(s, l)[i].after
<1> DEFINE a == Append(s, l)
<1>1. /\ Len(s) \in Nat /\ DOMAIN s = 1..Len(s)
      /\ a \in Seq(Line) /\ Len(a) = Len(s) + 1 /\ a[Len(s) + 1] = l
      /\ \A i \in 1..Len(s) : a[i] = s[i]
  BY LenProperties, AppendProperties
<1> HIDE DEF a
<1>2. DOMAIN a = 1..(Len(s) + 1)
  BY <1>1, LenProperties
<1>3. \A i \in DOMAIN a : (i \in DOMAIN s /\ a[i] = s[i]) \/ (i = Len(s) + 1 /\ a[i] = l)
  BY <1>1, <1>2
<1>4. \A i \in DOMAIN a : a[i].after \subseteq new /\ WholeLine(a[i].text)
  BY <1>3
<1>5. ASSUME NEW i \in DOMAIN a, NEW j \in DOMAIN a, i < j
      PROVE  a[j].id \notin a[i].after
  <2>1. i \in DOMAIN s /\ a[i] = s[i]
    BY <1>1, <1>2, <1>3, <1>5
  <2>2. CASE j \in DOMAIN s /\ a[j] = s[j]
    BY <1>5, <2>1, <2>2
  <2>3. CASE a[j] = l
    BY <2>1, <2>3
  <2> QED
    BY <1>3, <2>2, <2>3
<1> QED
  BY <1>4, <1>5 DEF a

(* A line is written: to one file, to stderr, or nowhere. *)
LEMMA Lands ==
  ASSUME TypeOK, Messages, NEW t \in Threads, pc[t] \in Flying,
         pc' = [pc EXCEPT ![t] = "unlock"], UNCHANGED <<line, calls>>,
         \/ stderr' = Append(stderr, Holding(t)) /\ UNCHANGED <<files, lost>>
         \/ lost' = Append(lost, Holding(t)) /\ UNCHANGED <<files, stderr>>
         \/ /\ \E p \in Paths : files' = [files EXCEPT ![p] = Append(@, Holding(t))]
            /\ UNCHANGED <<stderr, lost>>
  PROVE  Messages'
<1> DEFINE l == Holding(t)
           k == line[t].id
<1>1. /\ l \in Line /\ l.id = k /\ l.after = line[t].after /\ l.text = line[t].text
      /\ stderr \in Seq(Line) /\ lost \in Seq(Line)
      /\ files \in [Paths -> Seq(Line)] /\ \A p \in Paths : files[p] \in Seq(Line)
  BY HeldLine DEF TypeOK
<1> HIDE DEF l, k
<1>2. k \notin Finished
  BY WhoFlies DEF k, Messages, EachLineOnce
<1>3. /\ k \notin Ids(stderr) /\ k \notin Ids(lost)
      /\ \A p \in Paths : k \notin Ids(files[p])
  BY <1>2, WhereFinished
<1>4. /\ NoRepeat(stderr) /\ NoRepeat(lost) /\ \A p \in Paths : NoRepeat(files[p])
      /\ Apart(stderr, lost)
      /\ \A p \in Paths : /\ Apart(files[p], stderr) /\ Apart(files[p], lost)
                          /\ \A q \in Paths \ {p} : Apart(files[p], files[q])
  BY DEF Messages, EachLineOnce
<1>5. \A i : i \in Finished' <=>
        \/ i \in Ids(stderr') \/ i \in Ids(lost')
        \/ \E p \in Paths : i \in Ids(files'[p])
  BY DEF Finished
<1> DEFINE Sorted ==
      /\ NoRepeat(stderr') /\ NoRepeat(lost') /\ \A p \in Paths : NoRepeat(files'[p])
      /\ Apart(stderr', lost')
      /\ \A p \in Paths : /\ Apart(files'[p], stderr') /\ Apart(files'[p], lost')
                          /\ \A q \in Paths \ {p} : Apart(files'[p], files'[q])
           Added == \A i : i \in Finished' <=> i \in Finished \cup {k}
<1>6. ASSUME stderr' = Append(stderr, l), files' = files, lost' = lost
      PROVE  Sorted /\ Added /\ \A r \in Places' : r \in Places \/ \E q \in Places : r = Append(q, l)
  <2>1. Ids(stderr') = Ids(stderr) \cup {k} /\ NoRepeat(stderr')
    BY <1>1, <1>3, <1>4, <1>6, AppendLine
  <2>2. Sorted
    BY <1>3, <1>4, <1>6, <2>1 DEF Apart
  <2>4. Added
    BY <1>5, <1>6, <2>1, WhereFinished
  <2>3. \A r \in Places' : r \in Places \/ \E q \in Places : r = Append(q, l)
    BY <1>6 DEF Places
  <2> QED
    BY <2>2, <2>3, <2>4
<1>7. ASSUME lost' = Append(lost, l), files' = files, stderr' = stderr
      PROVE  Sorted /\ Added /\ \A r \in Places' : r \in Places \/ \E q \in Places : r = Append(q, l)
  <2>1. Ids(lost') = Ids(lost) \cup {k} /\ NoRepeat(lost')
    BY <1>1, <1>3, <1>4, <1>7, AppendLine
  <2>2. Sorted
    BY <1>3, <1>4, <1>7, <2>1 DEF Apart
  <2>4. Added
    BY <1>5, <1>7, <2>1, WhereFinished
  <2>3. \A r \in Places' : r \in Places
    BY <1>7 DEF Places
  <2> QED
    BY <2>2, <2>3, <2>4
<1>8. ASSUME NEW p \in Paths, files' = [files EXCEPT ![p] = Append(@, l)],
             stderr' = stderr, lost' = lost
      PROVE  Sorted /\ Added /\ \A r \in Places' : r \in Places \/ \E q \in Places : r = Append(q, l)
  <2>1. /\ files'[p] = Append(files[p], l)
        /\ \A q \in Paths \ {p} : files'[q] = files[q]
    BY <1>1, <1>8
  <2>2. Ids(files'[p]) = Ids(files[p]) \cup {k} /\ NoRepeat(files'[p])
    <3>1. files[p] \in Seq(Line) /\ l.id \notin Ids(files[p]) /\ NoRepeat(files[p])
      BY <1>1, <1>3, <1>4
    <3> QED
      BY <1>1, <2>1, <3>1, AppendLine
  <2>3. Sorted
    <3>1. \A q \in Paths : q = p \/ files'[q] = files[q]
      BY <2>1
    <3>2. \A q \in Paths : Ids(files'[q]) = Ids(files[q]) \/ Ids(files'[q]) = Ids(files[q]) \cup {k}
      BY <2>2, <3>1
    <3>3. \A q \in Paths : NoRepeat(files'[q])
      BY <1>4, <2>2, <3>1
    <3>4. \A q \in Paths : Apart(files'[q], stderr) /\ Apart(files'[q], lost)
      BY <1>3, <1>4, <3>2 DEF Apart
    <3>5. ASSUME NEW q \in Paths, NEW r \in Paths \ {q}
          PROVE  Apart(files'[q], files'[r])
      <4>1. Ids(files[q]) \cap Ids(files[r]) = {}
        BY <1>4, <3>5 DEF Apart
      <4>2. CASE q = p
        BY <1>3, <2>2, <3>1, <3>5, <4>1, <4>2 DEF Apart
      <4>3. CASE q # p
        BY <1>3, <3>1, <3>2, <3>5, <4>1, <4>3 DEF Apart
      <4> QED
        BY <4>2, <4>3
    <3> QED
      BY <1>4, <1>8, <3>3, <3>4, <3>5
  <2>5. Added
    BY <1>5, <1>8, <2>1, <2>2, WhereFinished
  <2>4. ASSUME NEW r \in Places'
        PROVE  r \in Places \/ \E q \in Places : r = Append(q, l)
    <3>1. r = stderr' \/ \E q \in Paths : r = files'[q]
      BY <2>4 DEF Places
    <3>2. stderr \in Places /\ \A q \in Paths : files[q] \in Places
      BY DEF Places
    <3> QED
      BY <1>8, <2>1, <3>1, <3>2
  <2> QED
    BY <2>3, <2>4, <2>5
<1>9. Sorted /\ Added /\ \A r \in Places' : r \in Places \/ \E q \in Places : r = Append(q, l)
  BY <1>6, <1>7, <1>8 DEF l
<1>10. Finished' = Finished \cup {k}
  BY <1>9
<1>11. /\ line' = line /\ calls' = calls /\ pc'[t] \notin Flying
       /\ \A u \in Threads \ {t} : pc'[u] = pc[u]
  BY DEF TypeOK, Flying
<1>12. \A u \in Threads : pc'[u] \in Flying => pc[u] \in Flying /\ u # t /\ line[u].id # k
  BY <1>11 DEF Messages, Numbers, k
<1>13. \A i : i \in InFlight' <=> \E u \in Threads : pc'[u] \in Flying /\ i = line[u].id
  BY <1>11 DEF InFlight, Flying
<1>14. Numbers'
  <2>1. \A i \in Finished' : i <= calls
    BY <1>10 DEF Messages, Numbers, k
  <2> QED
    BY <1>11, <1>12, <2>1 DEF Messages, Numbers
<1>15. EachLineOnce'
  <2>1. Finished' \cap InFlight' = {}
    <3> SUFFICES ASSUME NEW i \in Finished', i \in InFlight'
                 PROVE  FALSE
      OBVIOUS
    <3>1. i # k /\ i \in InFlight
      BY <1>12, <1>13, WhoFlies
    <3> QED
      BY <1>10, <3>1 DEF Messages, EachLineOnce
  <2>2. ASSUME NEW u \in Threads
        PROVE  line'[u].id \in Finished' \cup InFlight' \cup {0}
    <3>1. line[u].id \in Finished \cup InFlight \cup {0}
      BY DEF Messages, EachLineOnce
    <3>2. CASE line[u].id \in InFlight
      <4>1. PICK v \in Threads : pc[v] \in Flying /\ line[u].id = line[v].id
        BY <3>2, WhoFlies
      <4>2. CASE v = t
        BY <1>10, <1>11, <4>1, <4>2 DEF k
      <4>3. CASE v # t
        BY <1>11, <1>13, <4>1, <4>3
      <4> QED
        BY <4>2, <4>3
    <3> QED
      BY <1>10, <1>11, <3>1, <3>2
  <2> QED
    BY <1>9, <2>1, <2>2 DEF EachLineOnce
<1>16. Texts'
  BY <1>11, <1>12 DEF Messages, Texts
<1>17. /\ l.after \subseteq Finished' /\ WholeLine(l.text) /\ l.id \notin Finished
       /\ Finished \subseteq Finished'
  BY <1>1, <1>2, <1>10 DEF Messages, Pasts, Texts
<1>18. ASSUME NEW r \in Places'
       PROVE  /\ \A i \in DOMAIN r : r[i].after \subseteq Finished' /\ WholeLine(r[i].text)
              /\ \A i, j \in DOMAIN r : i < j => r[j].id \notin r[i].after
  <2>1. ASSUME NEW q \in Places
        PROVE  /\ q \in Seq(Line)
               /\ \A i \in DOMAIN q : q[i].after \subseteq Finished /\ WholeLine(q[i].text)
               /\ \A i, j \in DOMAIN q : i < j => q[j].id \notin q[i].after
    <3>1. q \in Seq(Line)
      BY <1>1, <2>1 DEF Places
    <3> QED
      BY <2>1, <3>1 DEF Messages, Pasts, InRealTimeOrder, WholeLines
  <2>2. CASE r \in Places
    BY <1>17, <2>1, <2>2
  <2>3. CASE \E q \in Places : r = Append(q, l)
    <3>1. PICK q \in Places : r = Append(q, l)
      BY <2>3
    <3> DEFINE old == Finished
               new == Finished'
    <3>2. /\ q \in Seq(Line)
          /\ \A i \in DOMAIN q : q[i].after \subseteq old /\ WholeLine(q[i].text)
          /\ \A i, j \in DOMAIN q : i < j => q[j].id \notin q[i].after
      BY <2>1
    <3>3. old \subseteq new /\ l.after \subseteq new /\ l.id \notin old /\ WholeLine(l.text)
      BY <1>17
    <3> HIDE DEF old, new
    <3>4. /\ \A i \in DOMAIN r : r[i].after \subseteq new /\ WholeLine(r[i].text)
          /\ \A i, j \in DOMAIN r : i < j => r[j].id \notin r[i].after
      BY <1>1, <3>1, <3>2, <3>3, AppendInOrder
    <3> QED
      BY <3>4 DEF new
  <2> QED
    BY <1>9, <2>2, <2>3
<1>19. Pasts'
  BY <1>10, <1>11, <1>18 DEF Messages, Pasts
<1>20. InRealTimeOrder' /\ WholeLines'
  BY <1>18 DEF InRealTimeOrder, WholeLines
<1> QED
  BY <1>14, <1>15, <1>16, <1>19, <1>20 DEF Messages

LEMMA MessagesStep ==
  ASSUME TypeOK, Arguments, Messages, [Next]_vars
  PROVE  Messages'
<1>0. pc \in [Threads -> {"idle", "copy", "probe", "probing", "wait", "locked",
                           "opening", "write", "unlock"}]
      /\ calls \in Nat
  BY NumbersAreNat DEF TypeOK
<1>1. ASSUME UNCHANGED vars
      PROVE  Messages'
  BY <1>1, StillFlying DEF vars, output
<1>2. ASSUME UNCHANGED <<output, line>>, calls' \in {calls, calls + 1},
             NEW t \in Threads, NEW to, pc' = [pc EXCEPT ![t] = to],
             pc[t] \in Flying <=> to \in Flying
      PROVE  Messages'
  <2>1. \A u \in Threads : pc'[u] \in Flying <=> pc[u] \in Flying
    BY <1>0, <1>2
  <2> QED
    BY <1>2, <2>1, StillFlying
<1>3. ASSUME NEW t \in Threads,
             \/ SetFile(t) \/ CopyRest(t) \/ InitLogger(t) \/ ProbeHalf(t) \/ Probe(t)
             \/ Unlock(t)
      PROVE  Messages'
  <2>1. PICK to \in {"copy", "probe", "probing", "idle"} :
          /\ pc' = [pc EXCEPT ![t] = to] /\ UNCHANGED <<output, line>>
          /\ calls' \in {calls, calls + 1}
          /\ pc[t] \in {"idle", "copy", "probe", "probing", "unlock"}
    BY <1>3 DEF SetFile, CopyRest, InitLogger, ProbeHalf, ReadHalf, Probe, Unlock, Calls, Goto
  <2> QED
    BY <1>2, <2>1 DEF Flying
<1>4. ASSUME NEW t \in Threads, Lock(t) \/ OpenHalf(t)
      PROVE  Messages'
  <2>1. PICK to \in {"locked", "opening"} :
          /\ pc' = [pc EXCEPT ![t] = to] /\ UNCHANGED <<output, line, calls>>
          /\ pc[t] \in {"wait", "locked"}
    BY <1>4 DEF Lock, OpenHalf, ReadHalf, Goto
  <2> QED
    BY <1>2, <2>1 DEF Flying
<1>5. ASSUME NEW t \in Threads, SetLevel(t)
      PROVE  Messages'
  BY <1>5, StillFlying DEF SetLevel, Calls
<1>6. ASSUME NEW t \in Threads, Log(t)
      PROVE  Messages'
  <2>1. UNCHANGED output /\ calls' = calls + 1 /\ pc[t] = "idle"
    BY <1>6 DEF Log, Calls
  <2>2. CASE UNCHANGED <<pc, line>>
    BY <2>1, <2>2, StillFlying
  <2>3. CASE ~ UNCHANGED <<pc, line>>
    <3>1. PICK c \in Contents :
            /\ line' = [line EXCEPT ![t] =
                          [id |-> calls', after |-> Finished,
                           text |-> Terminated(Header \o c), raced |-> FALSE]]
            /\ pc' = [pc EXCEPT ![t] = "wait"]
      BY <1>6, <2>3 DEF Log, Goto
    <3> QED
      BY <2>1, <3>1, TakesOff
  <2> QED
    BY <2>2, <2>3
<1>7. ASSUME NEW t \in Threads, Open(t)
      PROVE  Messages'
  <2>1. UNCHANGED <<files, lost, line, calls>> /\ pc[t] = "opening"
    BY <1>7 DEF Open
  <2>2. CASE pc' = [pc EXCEPT ![t] = "write"] /\ UNCHANGED stderr
    <3>1. UNCHANGED <<output, line>>
      BY <2>1, <2>2 DEF output
    <3> QED
      BY <1>2, <2>1, <2>2, <3>1 DEF Flying
  <2>3. CASE pc' = [pc EXCEPT ![t] = "unlock"] /\ stderr' = Append(stderr, Holding(t))
    BY <2>1, <2>3, Lands DEF Flying
  <2> QED
    BY <1>7, <2>2, <2>3 DEF Open, Goto
<1>8. ASSUME NEW t \in Threads, Write(t)
      PROVE  Messages'
  <2>1. /\ UNCHANGED <<stderr, line, calls>> /\ pc[t] \in Flying
        /\ pc' = [pc EXCEPT ![t] = "unlock"] /\ target[t] \in Paths
    BY <1>8 DEF Write, Goto, Flying, Arguments
  <2> QED
    BY <1>8, <2>1, Lands DEF Write
<1> QED
  BY <1>1, <1>3, <1>4, <1>5, <1>6, <1>7, <1>8 DEF Next, Step

(* The invariant is inductive. *)
LEMMA NextIInv == IInv /\ [Next]_vars => IInv'
<1> SUFFICES ASSUME IInv, [Next]_vars
             PROVE  IInv'
  OBVIOUS
<1>1. TypeOK /\ Arguments /\ Exclusive /\ Messages
  BY DEF IInv, Messages
<1>2. TypeOK' /\ Arguments'
  BY <1>1, TypeStep
<1>3. Exclusive'
  BY <1>1, ExclusiveStep
<1>4. Messages'
  BY <1>1, MessagesStep
<1> QED
  BY <1>2, <1>3, <1>4 DEF IInv, Messages

LEMMA Invariance == Spec => []IInv
BY InitIInv, NextIInv, PTL DEF Spec

(* Every variable keeps its type: level stays one of the four levels       *)
(* whatever set_log_level is given (log.c:56-60), and every line is made   *)
(* of characters and has the number of a call.                             *)
THEOREM TypeCorrect == Spec => []TypeOK
BY Invariance, PTL DEF IInv

(* One thread at a time opens the file, writes to it and closes it         *)
(* (log.c:124-135).                                                        *)
MutualExclusion ==
  \A t, u \in Threads : pc[t] \in InLock /\ pc[u] \in InLock => t = u

(* The mutex keeps two threads from being between the lock and the unlock  *)
(* at once (log.c:124-135).                                                *)
THEOREM OneWriter == Spec => []MutualExclusion
<1>1. IInv => MutualExclusion
  BY DEF IInv, Exclusive, MutualExclusion
<1> QED
  BY <1>1, Invariance, PTL

(* Each message that was let through is in one place, and written once     *)
(* (log.c:126-133).                                                        *)
THEOREM EachMessageOnce == Spec => []EachLineOnce
BY Invariance, PTL DEF IInv

(* Each line that is written ends in its only added newline and fits the   *)
(* buffer, whatever the messages and the size of the buffer are            *)
(* (log.c:111-122).                                                        *)
THEOREM LinesAreWhole == Spec => []WholeLines
BY Invariance, PTL DEF IInv

(* The lines of a file are in the real-time order of the calls that made   *)
(* them (log.c:124-135).                                                   *)
THEOREM LinesInOrder == Spec => []InRealTimeOrder
BY Invariance, PTL DEF IInv

-----------------------------------------------------------------------------
(* Nothing that was written is written over (log.c:127: the mode is "a").  *)
OnlyAppended ==
  /\ IsPrefix(stderr, stderr')
  /\ \A p \in Paths : IsPrefix(files[p], files'[p])

LEMMA AppendKeeps ==
  ASSUME NEW S, NEW s \in Seq(S)
  PROVE  IsPrefix(s, s) /\ \A e \in S : IsPrefix(s, Append(s, e))
<1>1. Len(s) \in Nat /\ SubSeq(s, 1, Len(s)) = s
  BY LenProperties, SubSeqFull
<1>2. ASSUME NEW e \in S
      PROVE  IsPrefix(s, Append(s, e))
  <2>1. /\ Append(s, e) \in Seq(S) /\ Len(Append(s, e)) = Len(s) + 1
        /\ Front(Append(s, e)) = s
    BY FrontAndLast
  <2>2. SubSeq(Append(s, e), 1, Len(s)) = s
    <3>1. Len(Append(s, e)) - 1 = Len(s)
      BY <1>1, <2>1
    <3> QED
      BY <2>1, <3>1 DEF Front
  <2>3. Len(s) <= Len(Append(s, e))
    BY <1>1, <2>1
  <2> QED
    BY <1>1, <2>2, <2>3 DEF IsPrefix
<1>3. IsPrefix(s, s)
  BY <1>1 DEF IsPrefix
<1> QED
  BY <1>2, <1>3

(* A step adds lines at the end of the files and of stderr, and does       *)
(* nothing else to them (log.c:127-133).                                   *)
THEOREM OutputOnlyGrows == Spec => [][OnlyAppended]_vars
<1>1. ASSUME IInv, [Next]_vars
      PROVE  OnlyAppended
  <2>1. /\ files \in [Paths -> Seq(Line)] /\ stderr \in Seq(Line)
        /\ \A t \in Threads : Holding(t) \in Line
    BY <1>1, HeldLine DEF IInv, TypeOK
  <2>2. \/ files' = files
        \/ \E p \in Paths, t \in Threads : files' = [files EXCEPT ![p] = Append(@, Holding(t))]
    <3>1. ASSUME NEW t \in Threads, Write(t)
          PROVE  \/ files' = files
                 \/ \E p \in Paths : files' = [files EXCEPT ![p] = Append(@, Holding(t))]
      <4>1. pc[t] = "write"
        BY <3>1 DEF Write
      <4>2. target[t] \in Paths
        BY <1>1, <3>1, <4>1 DEF IInv, Arguments
      <4> QED
        BY <3>1, <4>2 DEF Write
    <3>2. ASSUME NEW t \in Threads,
                 \/ SetLevel(t) \/ SetFile(t) \/ InitLogger(t) \/ Log(t)
                 \/ CopyRest(t) \/ ProbeHalf(t) \/ Probe(t)
                 \/ Lock(t) \/ OpenHalf(t) \/ Open(t) \/ Unlock(t)
          PROVE  files' = files
      BY <3>2 DEF SetLevel, SetFile, InitLogger, Log, CopyRest, ProbeHalf, Probe,
                  ReadHalf, Lock, OpenHalf, Open, Unlock, output
    <3> QED
      BY <1>1, <3>1, <3>2 DEF Next, Step, vars
  <2>3. \/ stderr' = stderr
        \/ \E t \in Threads : stderr' = Append(stderr, Holding(t))
    <3>1. ASSUME NEW t \in Threads, Open(t)
          PROVE  stderr' = stderr \/ stderr' = Append(stderr, Holding(t))
      BY <3>1 DEF Open
    <3>2. ASSUME NEW t \in Threads,
                 \/ SetLevel(t) \/ SetFile(t) \/ InitLogger(t) \/ Log(t)
                 \/ CopyRest(t) \/ ProbeHalf(t) \/ Probe(t)
                 \/ Lock(t) \/ OpenHalf(t) \/ Write(t) \/ Unlock(t)
          PROVE  stderr' = stderr
      BY <3>2 DEF SetLevel, SetFile, InitLogger, Log, CopyRest, ProbeHalf, Probe,
                  ReadHalf, Lock, OpenHalf, Write, Unlock, output
    <3> QED
      BY <1>1, <3>1, <3>2 DEF Next, Step, vars
  <2>4. IsPrefix(stderr, stderr')
    BY <2>1, <2>3, AppendKeeps
  <2>5. ASSUME NEW p \in Paths
        PROVE  IsPrefix(files[p], files'[p])
    <3>1. files[p] \in Seq(Line)
      BY <2>1, <2>5
    <3>2. files'[p] = files[p] \/ \E t \in Threads : files'[p] = Append(files[p], Holding(t))
      BY <2>1, <2>2, <2>5
    <3> QED
      BY <2>1, <3>1, <3>2, AppendKeeps
  <2> QED
    BY <2>4, <2>5 DEF OnlyAppended
<1> QED
  BY <1>1, Invariance, PTL DEF Spec

-----------------------------------------------------------------------------
(* One thread calls set_log_file. *)
OneSetter == \A t, u \in Setters : t = u

LEMMA InitPathInv == ASSUME Init PROVE PathInv
<1>1. /\ path = <<DefaultName, DefaultName>> /\ \A t \in Threads : pc[t] = "idle"
      /\ \A p \in Paths : files[p] = << >>
  BY DEF Init, Whole
<1>2. DOMAIN << >> = {}
  BY EmptySeq, LenProperties
<1>3. TornOnlyInRace
  BY <1>1, <1>2 DEF TornOnlyInRace
<1> QED
  BY <1>1, <1>3 DEF PathInv

LEMMA PathStep ==
  ASSUME OneSetter, TypeOK, Arguments, PathInv, [Next]_vars
  PROVE  PathInv'
<1>0. /\ pc \in [Threads -> {"idle", "copy", "probe", "probing", "wait", "locked",
                              "opening", "write", "unlock"}]
      /\ raced \in [Threads -> BOOLEAN]
      /\ path \in Names \X Names
      /\ half \in [Threads -> Names \cup {NoName}]
      /\ target \in [Threads -> Paths \cup {NoName}]
  BY DEF TypeOK, Paths
<1>1. ASSUME UNCHANGED <<path, pc, arg, half, target, raced, files>>
      PROVE  PathInv'
  BY <1>1 DEF PathInv, TornOnlyInRace
(* Nobody starts or ends copying, opening or writing. *)
<1>2. ASSUME UNCHANGED <<path, target, files>>,
             NEW t \in Threads, NEW to, pc' = [pc EXCEPT ![t] = to],
             pc[t] \notin {"copy", "opening", "write"}, to \notin {"copy", "opening", "write"},
             \A u \in Threads \ {t} :
               raced'[u] = raced[u] /\ arg'[u] = arg[u] /\ half'[u] = half[u]
      PROVE  PathInv'
  <2>1. \A u \in Threads : pc'[u] \in {"copy", "opening", "write"} =>
          /\ u # t /\ pc'[u] = pc[u]
          /\ raced'[u] = raced[u] /\ arg'[u] = arg[u] /\ half'[u] = half[u]
    BY <1>0, <1>2
  <2>2. \A u \in Threads : pc[u] = "copy" => pc'[u] = "copy"
    BY <1>0, <1>2
  <2>3. TornOnlyInRace'
    BY <1>2 DEF PathInv, TornOnlyInRace
  <2> QED
    BY <1>2, <2>1, <2>2, <2>3 DEF PathInv
<1>3. ASSUME NEW t \in Threads,
             InitLogger(t) \/ ProbeHalf(t) \/ Probe(t) \/ Lock(t) \/ Unlock(t)
      PROVE  PathInv'
  <2>1. PICK to \in {"probe", "probing", "idle", "locked"} :
          /\ pc' = [pc EXCEPT ![t] = to] /\ UNCHANGED <<path, target, files>>
          /\ pc[t] \in {"idle", "probe", "probing", "wait", "unlock"}
    BY <1>3 DEF InitLogger, ProbeHalf, ReadHalf, Probe, Lock, Unlock, Goto, Calls, shared, output
  <2>2. \A u \in Threads \ {t} :
          raced'[u] = raced[u] /\ arg'[u] = arg[u] /\ half'[u] = half[u]
    BY <1>0, <1>3 DEF InitLogger, ProbeHalf, ReadHalf, Probe, Lock, Unlock, TypeOK
  <2> QED
    BY <1>2, <2>1, <2>2
<1>4. ASSUME NEW t \in Threads, Log(t)
      PROVE  PathInv'
  <2>1. /\ UNCHANGED <<path, arg, half, target, raced, files>> /\ pc[t] = "idle"
        /\ pc' = pc \/ pc' = [pc EXCEPT ![t] = "wait"]
    BY <1>4 DEF Log, Calls, Goto, shared, output
  <2> QED
    BY <1>1, <1>2, <2>1
<1>5. ASSUME NEW t \in Threads, SetLevel(t)
      PROVE  PathInv'
  BY <1>1, <1>5 DEF SetLevel, output
<1>6. ASSUME NEW t \in Threads, SetFile(t)
      PROVE  PathInv'
  <2>1. PICK n \in Names : arg' = [arg EXCEPT ![t] = n] /\ path' = <<n, path[2]>>
    BY <1>6 DEF SetFile
  <2>2. /\ UNCHANGED <<half, target, files>> /\ pc[t] = "idle" /\ t \in Setters
        /\ pc' = [pc EXCEPT ![t] = "copy"]
        /\ \A u \in Threads : raced'[u] = (raced[u] \/ pc[u] \in {"opening", "probing"})
    BY <1>6 DEF SetFile, Calls, PathChanges, Goto, output
  <2>3. /\ pc'[t] = "copy" /\ \A u \in Threads \ {t} : pc'[u] = pc[u]
        /\ arg'[t] = n /\ path'[1] = n
    BY <1>0, <2>1, <2>2 DEF TypeOK
  <2>4. \A u \in Threads : pc[u] # "copy"
    BY <2>2 DEF OneSetter, PathInv
  <2>5. \A u \in Threads : pc'[u] = "copy" => u \in Setters /\ arg'[u] = path'[1]
    BY <2>2, <2>3, <2>4
  <2>6. \A u \in Threads : pc'[u] # "opening" \/ raced'[u]
    BY <2>2, <2>3
  <2>7. \A u \in Threads : pc'[u] = "write" => pc[u] = "write" /\ (raced'[u] <=> raced[u])
    BY <1>0, <2>2, <2>3
  <2>8. TornOnlyInRace'
    BY <2>2 DEF PathInv, TornOnlyInRace
  <2> QED
    BY <2>2, <2>3, <2>5, <2>6, <2>7, <2>8 DEF PathInv
<1>7. ASSUME NEW t \in Threads, CopyRest(t)
      PROVE  PathInv'
  <2>1. /\ UNCHANGED <<arg, half, target, files>> /\ pc[t] = "copy"
        /\ path' = <<path[1], arg[t]>>
        /\ pc' = [pc EXCEPT ![t] = "probe"]
        /\ \A u \in Threads : raced'[u] = (raced[u] \/ pc[u] \in {"opening", "probing"})
    BY <1>7 DEF CopyRest, PathChanges, Goto, output
  <2>2. path'[1] = path'[2]
    BY <2>1 DEF PathInv
  <2>3. pc'[t] = "probe" /\ \A u \in Threads \ {t} : pc'[u] = pc[u]
    BY <1>0, <2>1
  <2>4. \A u \in Threads : pc'[u] # "copy"
    BY <2>1, <2>3 DEF OneSetter, PathInv
  <2>5. \A u \in Threads : pc'[u] # "opening" \/ raced'[u]
    BY <2>1, <2>3
  <2>6. \A u \in Threads : pc'[u] = "write" => pc[u] = "write" /\ (raced'[u] <=> raced[u])
    BY <1>0, <2>1, <2>3
  <2>7. TornOnlyInRace'
    BY <2>1 DEF PathInv, TornOnlyInRace
  <2> QED
    BY <2>1, <2>2, <2>4, <2>5, <2>6, <2>7 DEF PathInv
<1>8. ASSUME NEW t \in Threads, OpenHalf(t)
      PROVE  PathInv'
  <2>1. /\ UNCHANGED <<path, arg, target, files>> /\ pc[t] = "locked"
        /\ pc' = [pc EXCEPT ![t] = "opening"]
        /\ half' = [half EXCEPT ![t] = path[1]]
        /\ raced' = [raced EXCEPT ![t] = \E u \in Threads : pc[u] = "copy"]
    BY <1>8 DEF OpenHalf, ReadHalf, Goto, shared, output
  <2>2. /\ pc'[t] = "opening" /\ half'[t] = path[1]
        /\ raced'[t] <=> \E u \in Threads : pc[u] = "copy"
        /\ \A u \in Threads \ {t} : pc'[u] = pc[u] /\ half'[u] = half[u] /\ raced'[u] = raced[u]
    BY <1>0, <2>1
  <2>3. \A u \in Threads : pc'[u] = "copy" <=> pc[u] = "copy"
    BY <2>1, <2>2
  <2>4. ASSUME NEW u \in Threads, pc'[u] = "opening", ~ raced'[u]
        PROVE  half'[u] = path[1] /\ path[1] = path[2]
    BY <2>2, <2>4 DEF PathInv
  <2>5. \A u \in Threads : pc'[u] = "write" => pc[u] = "write" /\ raced'[u] = raced[u]
    BY <2>2
  <2>6. TornOnlyInRace'
    BY <2>1 DEF PathInv, TornOnlyInRace
  <2> QED
    BY <2>1, <2>3, <2>4, <2>5, <2>6 DEF PathInv
<1>9. ASSUME NEW t \in Threads, Open(t)
      PROVE  PathInv'
  <2>1. PICK to \in {"write", "unlock"} :
          /\ UNCHANGED <<path, arg, half, raced, files>> /\ pc[t] = "opening"
          /\ pc' = [pc EXCEPT ![t] = to]
          /\ to = "write" => target' = [target EXCEPT ![t] = <<half[t], path[2]>>]
          /\ to # "write" => target' = target
    BY <1>9 DEF Open, Goto, shared
  <2>2. /\ pc'[t] = to
        /\ \A u \in Threads \ {t} : pc'[u] = pc[u] /\ target'[u] = target[u]
        /\ to = "write" => target'[t] = <<half[t], path[2]>>
    BY <1>0, <2>1
  <2>3. \A u \in Threads : pc'[u] = "copy" <=> pc[u] = "copy"
    BY <2>1, <2>2
  <2>4. \A u \in Threads : pc'[u] = "opening" => pc[u] = "opening"
    BY <2>1, <2>2
  <2>5. ASSUME NEW u \in Threads, pc'[u] = "write", ~ raced[u]
        PROVE  target'[u][1] = target'[u][2]
    BY <2>1, <2>2, <2>5 DEF PathInv
  <2>6. TornOnlyInRace'
    BY <2>1 DEF PathInv, TornOnlyInRace
  <2> QED
    BY <2>1, <2>3, <2>4, <2>5, <2>6 DEF PathInv
<1>10. ASSUME NEW t \in Threads, Write(t)
       PROVE  PathInv'
  <2>1. /\ UNCHANGED <<path, arg, half, target, raced>> /\ pc[t] = "write"
        /\ pc' = [pc EXCEPT ![t] = "unlock"]
        /\ files' = files \/ files' = [files EXCEPT ![target[t]] = Append(@, Holding(t))]
    BY <1>10 DEF Write, Goto, shared
  <2>2. \A u \in Threads : pc'[u] \in {"copy", "opening", "write"} <=>
                            u # t /\ pc[u] \in {"copy", "opening", "write"} /\ pc'[u] = pc[u]
    BY <1>0, <2>1
  <2>3. ASSUME NEW p \in Paths, p[1] # p[2], NEW i \in DOMAIN files'[p]
        PROVE  files'[p][i].raced
    <3>1. files \in [Paths -> Seq(Line)] /\ files[p] \in Seq(Line)
          /\ Holding(t) \in Line /\ Holding(t).raced = raced[t]
      BY <2>3, HeldLine DEF TypeOK
    <3>2. CASE files'[p] = files[p]
      BY <2>3, <3>2 DEF PathInv, TornOnlyInRace
    <3>3. CASE p = target[t] /\ files'[p] = Append(files[p], Holding(t))
      <4>1. Holding(t).raced
        BY <2>1, <2>3, <3>1, <3>3 DEF PathInv
      <4>2. /\ Len(files[p]) \in Nat /\ DOMAIN files[p] = 1..Len(files[p])
            /\ Len(files'[p]) = Len(files[p]) + 1 /\ files'[p][Len(files[p]) + 1] = Holding(t)
            /\ files'[p] \in Seq(Line)
            /\ \A j \in 1..Len(files[p]) : files'[p][j] = files[p][j]
        BY <3>1, <3>3, LenProperties, AppendProperties
      <4>3. i \in 1..(Len(files[p]) + 1)
        BY <2>3, <4>2, LenProperties
      <4>4. CASE i \in 1..Len(files[p])
        BY <2>3, <4>2, <4>4 DEF PathInv, TornOnlyInRace
      <4>5. CASE i = Len(files[p]) + 1
        BY <4>1, <4>2, <4>5
      <4> QED
        BY <4>2, <4>3, <4>4, <4>5
    <3> QED
      BY <2>1, <3>1, <3>2, <3>3
  <2>4. TornOnlyInRace'
    BY <2>3 DEF TornOnlyInRace
  <2>5. path[1] # path[2] => \E u \in Threads : pc'[u] = "copy"
    BY <2>1, <2>2 DEF PathInv
  <2> QED
    BY <2>1, <2>2, <2>4, <2>5 DEF PathInv
<1> QED
  BY <1>1, <1>3, <1>4, <1>5, <1>6, <1>7, <1>8, <1>9, <1>10 DEF Next, Step, vars

(* When one thread sets the file, a line goes to a file that no call named *)
(* only if the path was being written while fopen read it: a log_message   *)
(* that meets no set_log_file half way reads one of its paths whole        *)
(* (log.c:64 and 127).                                                     *)
THEOREM TornByRaceOnly ==
  ASSUME OneSetter
  PROVE  Spec => []TornOnlyInRace
<1>1. Init => IInv /\ PathInv
  BY InitIInv, InitPathInv
<1>2. IInv /\ PathInv /\ [Next]_vars => IInv' /\ PathInv'
  BY NextIInv, PathStep DEF IInv
<1>3. PathInv => TornOnlyInRace
  BY DEF PathInv
<1> QED
  BY <1>1, <1>2, <1>3, PTL DEF Spec
=============================================================================
