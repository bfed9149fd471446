-------------------------- MODULE CircularLogProofs --------------------------
(***************************************************************************)
(* The properties of CircularLog, for files, messages and numbers of any   *)
(* size, while the program is killed few enough times for the room there   *)
(* is behind the first line.                                               *)
(***************************************************************************)
EXTENDS CircularLog, SequenceTheorems, WellFoundedInduction, TLAPS

(***************************************************************************)
(* What a file f may look like.  ms are the lengths of the messages.       *)
(***************************************************************************)
(* Its first bytes are s. *)
Begins(f, s) == Len(s) <= Len(f) /\ \A i \in 1..Len(s) : f[i] = s[i]

(* The e-th message, of length m, and that it stands in f from s on. *)
Text(m, e) == [k \in 1..m |-> IF k = m THEN NewLine ELSE Char(e, k)]

Copy(f, m, e, s) == s + m <= Len(f) /\ \A k \in 1..m : f[s + k] = Text(m, e)[k]

(* A message can be written at p without cutting the one before it. *)
Border(f, p) == p = 0 \/ f[p] \in {NewLine, Blank}

(* Every line is a message, but for those that begin in X. *)
WholeBut(f, ms, X) ==
  \A s \in (MaxHeader + 1)..(Len(f) - 1) :
    f[s] = NewLine /\ s \notin X => \E e \in DOMAIN ms : Copy(f, ms[e], e, s)

(* Between z and end there are lines only, no blanks and no empty line, so *)
(* that fscanf stops in front of z + 1.                                    *)
Clean(f, end, z) ==
  /\ f[z + 1][1] = "char"
  /\ \A i \in (z + 1)..end :
       f[i][1] = "char" \/ (f[i] = NewLine /\ (i < end => f[i + 1][1] = "char"))

-----------------------------------------------------------------------------
(***************************************************************************)
(* The inductive invariant.                                                *)
(***************************************************************************)
(* A message is being written, at Start; and it is the one with which      *)
(* writing starts again behind the first line.                             *)
InHand == pc \in {"write", "header"}

Start == IF pc = "header" THEN position - messages[Message] ELSE position

Again == InHand /\ saved # 0 /\ Start # saved

(* What the steps of a call find. *)
Calls ==
  /\ Len(messages) <= MaxMessages
  /\ pc # "idle" => messages # << >>
  /\ pc = "create" => ~ exists /\ headerSize = 0
  /\ pc \in {"blank", "write", "header"} => exists
  /\ IF exists THEN file # << >> ELSE saved = 0 /\ file = << >>

(* Until the first call has ended, everything is written at 0. *)
First ==
  saved = 0 =>
    /\ lap = << >>
    /\ position = IF pc = "header" THEN messages[Message] ELSE 0
    /\ exists => Begins(file, HeaderText(0)) \/ file[1] # Prefix(1)

(* From then on the first line is there, and says where a message ended. *)
Kept ==
  saved # 0 =>
    /\ Begins(file, HeaderText(saved))
    /\ MaxHeader + 1 < saved /\ saved <= Len(file)
    /\ pc = "blank" => position = saved /\ headerSize = ReadSize(file)

(* The message in hand has room, and is written behind another one. *)
Hand ==
  InHand =>
    /\ Start \in 0..Len(file)
    /\ Start + messages[Message] < MaxLogSize
    /\ Border(file, Start)
    /\ saved = 0 => Start = 0
    /\ Again =>
         /\ lap = << >> /\ saved \in seams
         /\ MaxHeader <= Start /\ Start <= MaxHeader + crashes * Loss
         /\ saved + messages[Message] >= MaxLogSize
    /\ pc = "header" => Copy(file, messages[Message], Message, Start)

(* The messages of the lap stand, behind the first line and before saved. *)
LapKept ==
  \A i \in DOMAIN lap :
    /\ lap[i].id \in DOMAIN messages
    /\ lap[i].start + messages[lap[i].id] <= saved
    /\ lap[i].start # 0 =>
         /\ lap[i].start >= MaxHeader
         /\ Copy(file, messages[lap[i].id], lap[i].id, lap[i].start)

(* Lines are messages, but where writing was left off or goes on. *)
Lines ==
  WholeBut(file, messages, seams \cup {saved} \cup (IF InHand THEN {position} ELSE {}))

(* The front of the file, up to saved.  Each kill while writing starts     *)
(* again costs less than Loss cells of it.                                 *)
FrontIsClean ==
  saved # 0 /\ (Again => crashes < MaxCrashes) =>
    /\ file[saved] = NewLine
    /\ \E z \in MaxHeader..(saved - 1) :
         /\ Clean(file, saved, z)
         /\ IF Again
            THEN Start + Loss - 1 <= z /\ z <= MaxHeader + (crashes + 1) * Loss
            ELSE z <= MaxHeader + crashes * Loss

IInv ==
  TypeOK /\ Calls /\ First /\ Kept /\ Hand /\ LapKept /\ Lines /\ FrontIsClean

-----------------------------------------------------------------------------
(***************************************************************************)
(* Sets of numbers.                                                        *)
(***************************************************************************)
(* A set of numbers has a least element. *)
LEMMA LeastElement ==
  ASSUME NEW T \in SUBSET Nat, T # {}
  PROVE  \E n \in T : \A m \in T : n <= m
<1> DEFINE R == OpToRel(<, Nat)
<1>1. IsWellFoundedOn(R, Nat)
  BY NatLessThanWellFounded
<1>2. \A m, n \in Nat : <<m, n>> \in R <=> m < n
  BY DEF OpToRel
<1> HIDE DEF R
<1>3. PICK n \in T : \A m \in T : ~ (<<m, n>> \in R)
  BY <1>1, WFMin
<1>4. ASSUME NEW m \in T PROVE n <= m
  <2>1. ~ (<<m, n>> \in R)
    BY <1>3
  <2>2. n \in Nat /\ m \in Nat
    OBVIOUS
  <2>3. ~ (m < n)
    BY <1>2, <2>1, <2>2
  <2> QED
    BY <2>2, <2>3
<1> QED
  BY <1>4

(* Min finds it. *)
LEMMA MinOfSet ==
  ASSUME NEW T \in SUBSET Nat, T # {}
  PROVE  Min(T) \in T /\ \A n \in T : Min(T) <= n
<1>1. PICK n \in T : \A m \in T : n <= m
  BY LeastElement
<1> QED
  BY <1>1 DEF Min

(* Max finds the greatest element of a bounded set: the least of its       *)
(* bounds is in it.                                                        *)
LEMMA MaxOfSet ==
  ASSUME NEW T \in SUBSET Nat, T # {}, NEW b \in Nat, \A n \in T : n <= b
  PROVE  Max(T) \in T /\ \A n \in T : n <= Max(T)
<1> DEFINE Bounds == {c \in Nat : \A n \in T : n <= c}
<1>1. PICK c \in Bounds : \A d \in Bounds : c <= d
  <2>1. b \in Bounds
    OBVIOUS
  <2> HIDE DEF Bounds
  <2>2. Bounds \in SUBSET Nat
    BY DEF Bounds
  <2> QED
    BY <2>1, <2>2, LeastElement
<1>2. c \in T
  <2> SUFFICES ASSUME c \notin T PROVE FALSE
    OBVIOUS
  <2>1. \A n \in T : n \in Nat /\ n <= c /\ n # c
    BY <1>1
  <2>2. PICK k \in T : TRUE
    OBVIOUS
  <2>3. c \in Nat /\ c > 0
    BY <1>1, <2>1, <2>2
  <2>4. c - 1 \in Nat /\ \A n \in T : n <= c - 1
    BY <2>1, <2>3
  <2>5. c - 1 \in Bounds
    BY <2>4
  <2>6. c <= c - 1
    BY <1>1, <2>5
  <2> QED
    BY <2>3, <2>6
<1> QED
  BY <1>1, <1>2 DEF Max

(***************************************************************************)
(* Recursion.  A function on numbers is well defined by its value below c  *)
(* and a rule that takes it from pred[n] to n.                             *)
(***************************************************************************)
Recursive(Dom, S, c, base, pred, step) ==
  \E d \in [Dom -> S] :
    d = [n \in Dom |-> IF n < c THEN base[n] ELSE step[<<n, d[pred[n]]>>]]

LEMMA Recursion ==
  ASSUME NEW Dom \in SUBSET Nat, NEW S, NEW c \in Nat \ {0},
         NEW base \in [Dom -> S], NEW pred \in [Dom -> Nat], NEW step \in [Dom \X S -> S],
         \A n \in Dom : n >= c => pred[n] \in Dom /\ pred[n] < n
  PROVE  Recursive(Dom, S, c, base, pred, step)
<1> DEFINE Value(p, n) == IF n < c THEN base[n] ELSE step[<<n, p[pred[n]]>>]
           Part(p, n) == p \in [Dom -> S] /\ \A k \in Dom : k <= n => p[k] = Value(p, k)
           d == [n \in Dom |-> (CHOOSE p : Part(p, n))[n]]
<1>1. ASSUME NEW p \in [Dom -> S], NEW n \in Dom PROVE Value(p, n) \in S
  <2>1. CASE n < c
    BY <2>1
  <2>2. CASE n >= c
    <3>1. p[pred[n]] \in S
      BY <2>2
    <3> QED
      BY <2>2, <3>1
  <2> QED
    BY <2>1, <2>2
<1>2. ASSUME NEW p, NEW q, NEW n \in Nat, NEW m \in Nat, Part(p, n), Part(q, m),
             NEW k \in Dom, k <= n, k <= m
      PROVE  p[k] = q[k]
  <2> DEFINE Bad == {j \in Dom : j <= n /\ j <= m /\ p[j] # q[j]}
  <2>1. SUFFICES ASSUME Bad # {} PROVE FALSE
    BY <1>2
  <2>2. PICK j \in Bad : \A i \in Bad : j <= i
    <3>1. Bad \in SUBSET Nat
      OBVIOUS
    <3> HIDE DEF Bad
    <3> QED
      BY <2>1, <3>1, LeastElement
  <2>3. p[j] = Value(p, j) /\ q[j] = Value(q, j) /\ j \in Dom
    BY <1>2, <2>2
  <2>4. ASSUME j >= c PROVE p[pred[j]] = q[pred[j]]
    <3>1. /\ pred[j] \in Dom /\ pred[j] \in Nat /\ pred[j] < j
          /\ j \in Nat /\ j <= n /\ j <= m
      BY <2>2, <2>3, <2>4
    <3>2. pred[j] \notin Bad
      <4> HIDE DEF Bad
      <4>1. ~ (j <= pred[j])
        BY <3>1
      <4> QED
        BY <2>2, <4>1
    <3>3. pred[j] <= n /\ pred[j] <= m
      BY <3>1
    <3> QED
      BY <3>1, <3>2, <3>3
  <2>5. Value(p, j) = Value(q, j)
    BY <2>3, <2>4
  <2> QED
    BY <2>2, <2>3, <2>5
<1>3. \A n \in Nat : \E p : Part(p, n)
  <2> DEFINE Bad == {n \in Nat : \A p : ~ Part(p, n)}
  <2>1. SUFFICES ASSUME Bad # {} PROVE FALSE
    <3> HIDE DEF Part
    <3> QED
      OBVIOUS
  <2>2. PICK n \in Bad : \A i \in Bad : n <= i
    <3>1. Bad \in SUBSET Nat
      OBVIOUS
    <3> HIDE DEF Bad
    <3> QED
      BY <2>1, <3>1, LeastElement
  <2>3. n # 0
    <3>1. \A k \in Dom : k <= 0 => k < c
      OBVIOUS
    <3>2. Part(base, 0)
      BY <3>1
    <3> QED
      BY <2>2, <3>2
  <2>4. PICK p : Part(p, n - 1)
    <3>1. n \in Nat
      BY <2>2
    <3>2. n - 1 \in Nat /\ ~ (n <= n - 1)
      BY <2>3, <3>1
    <3>3. n - 1 \notin Bad
      <4> HIDE DEF Bad
      <4> QED
        BY <2>2, <3>2
    <3> HIDE DEF Part
    <3> QED
      BY <3>2, <3>3
  <2> DEFINE q == [k \in Dom |-> IF k = n THEN Value(p, k) ELSE p[k]]
  <2>5. q \in [Dom -> S]
    <3> HIDE DEF Value
    <3> QED
      BY <1>1, <2>4
  <2>6. ASSUME NEW k \in Dom, k <= n PROVE q[k] = Value(q, k)
    <3>1. k >= c => q[pred[k]] = p[pred[k]]
      BY <2>2, <2>6
    <3>2. Value(q, k) = Value(p, k)
      BY <3>1
    <3>3. k # n => p[k] = Value(p, k)
      BY <2>2, <2>4, <2>6
    <3> QED
      BY <3>2, <3>3
  <2>7. Part(q, n)
    BY <2>5, <2>6
  <2> QED
    BY <2>2, <2>7
<1>4. ASSUME NEW n \in Dom PROVE Part(CHOOSE p : Part(p, n), n)
  <2> HIDE DEF Part
  <2> QED
    BY <1>3
<1>5. d \in [Dom -> S]
  <2>1. ASSUME NEW n \in Dom PROVE d[n] \in S
    BY <1>4
  <2> QED
    BY <2>1
<1>6. ASSUME NEW n \in Dom PROVE d[n] = Value(d, n)
  <2> DEFINE p == CHOOSE p : Part(p, n)
  <2>1. Part(p, n) /\ d[n] = p[n] /\ n \in Nat
    <3> HIDE DEF Part
    <3> QED
      BY <1>4
  <2> HIDE DEF p
  <2>2. p[n] = Value(p, n)
    BY <2>1
  <2>3. ASSUME n >= c PROVE p[pred[n]] = d[pred[n]]
    <3>1. pred[n] \in Dom /\ pred[n] \in Nat /\ pred[n] <= n
      <4> HIDE DEF d, Part, Value
      <4>1. pred[n] \in Dom /\ pred[n] < n /\ n \in Nat
        BY <2>3
      <4> QED
        BY <4>1
    <3> DEFINE q == CHOOSE q : Part(q, pred[n])
    <3>2. Part(q, pred[n]) /\ d[pred[n]] = q[pred[n]]
      <4> HIDE DEF Part
      <4> QED
        BY <1>4, <3>1
    <3> HIDE DEF q, Part
    <3> QED
      BY <1>2, <2>1, <3>1, <3>2
  <2> HIDE DEF d
  <2> QED
    BY <2>1, <2>2, <2>3
<1>7. d = [n \in Dom |-> Value(d, n)]
  <2> HIDE DEF Value
  <2> QED
    BY <1>5, <1>6
<1> QED
  BY <1>5, <1>7 DEF Recursive

-----------------------------------------------------------------------------
(***************************************************************************)
(* Numbers, written and read (log.c:49 and 116).                           *)
(***************************************************************************)
LEMMA Division ==
  ASSUME NEW n \in Nat
  PROVE  /\ n \div Base \in Nat /\ n % Base \in 0..(Base - 1)
         /\ n = Base * (n \div Base) + (n % Base)
         /\ n >= Base => n \div Base < n
BY CircularLogAssumption

LEMMA DivisionMonotone ==
  ASSUME NEW m \in Nat, NEW n \in Nat, m <= n
  PROVE  m \div Base <= n \div Base
BY CircularLogAssumption

LEMMA DigitsRecursion ==
  /\ Digits \in [Nat -> Seq(0..(Base - 1))]
  /\ \A n \in Nat :
       Digits[n] = IF n < Base THEN <<n>> ELSE Append(Digits[n \div Base], n % Base)
<1> DEFINE S == Seq(0..(Base - 1))
           base == [n \in Nat |-> IF n < Base THEN <<n>> ELSE << >>]
           pred == [n \in Nat |-> n \div Base]
           step == [x \in Nat \X S |-> Append(x[2], x[1] % Base)]
<1>1. Base \in Nat \ {0, 1}
  BY CircularLogAssumption
<1>2. base \in [Nat -> S]
  <2>1. ASSUME NEW n \in Nat, n < Base PROVE <<n>> \in Seq(0..(Base - 1))
    <3>1. n \in 0..(Base - 1)
      BY <1>1, <2>1
    <3> QED
      BY <3>1
  <2>2. << >> \in Seq(0..(Base - 1))
    OBVIOUS
  <2> QED
    BY <2>1, <2>2
<1>3. pred \in [Nat -> Nat] /\ \A n \in Nat : n >= Base => pred[n] \in Nat /\ pred[n] < n
  BY Division
<1>4. step \in [Nat \X S -> S]
  <2>1. ASSUME NEW x \in Nat \X Seq(0..(Base - 1))
        PROVE  Append(x[2], x[1] % Base) \in Seq(0..(Base - 1))
    <3>1. x[1] % Base \in 0..(Base - 1) /\ x[2] \in Seq(0..(Base - 1))
      BY Division
    <3> QED
      BY <3>1, AppendProperties
  <2> QED
    BY <2>1
<1>5. PICK d \in [Nat -> S] :
        d = [n \in Nat |-> IF n < Base THEN base[n] ELSE step[<<n, d[pred[n]]>>]]
  <2>1. Base \in Nat \ {0} /\ Nat \in SUBSET Nat
    BY <1>1
  <2> HIDE DEF base, pred, step, S
  <2>2. Recursive(Nat, S, Base, base, pred, step)
    BY <1>2, <1>3, <1>4, <2>1, Recursion
  <2> QED
    BY <2>2 DEF Recursive
<1>6. d = [n \in Nat |-> IF n < Base THEN <<n>> ELSE Append(d[n \div Base], n % Base)]
  <2>1. ASSUME NEW n \in Nat
        PROVE  (IF n < Base THEN base[n] ELSE step[<<n, d[pred[n]]>>])
                 = IF n < Base THEN <<n>> ELSE Append(d[n \div Base], n % Base)
    <3>1. CASE n < Base
      BY <3>1
    <3>2. CASE ~ (n < Base)
      <4>1. n \div Base \in Nat
        BY Division
      <4>2. d[n \div Base] \in S /\ pred[n] = n \div Base
        BY <1>5, <4>1
      <4> DEFINE v == d[n \div Base]
      <4>3. step[<<n, v>>] = Append(v, n % Base)
        <5>1. <<n, v>> \in Nat \X S
          BY <4>2
        <5> HIDE DEF v, S
        <5> QED
          BY <5>1
      <4> HIDE DEF step, pred, base
      <4> QED
        BY <3>2, <4>2, <4>3
    <3> QED
      BY <3>1, <3>2
  <2> HIDE DEF base, pred, step
  <2> QED
    BY <1>5, <2>1
<1>7. Digits = [n \in Nat |->
                  IF n < Base THEN <<n>> ELSE Append(Digits[n \div Base], n % Base)]
  BY <1>6 DEF Digits
<1>8. \A n \in Nat :
        Digits[n] = IF n < Base THEN <<n>> ELSE Append(Digits[n \div Base], n % Base)
  BY <1>7
<1>9. ASSUME NEW e, e = [n \in Nat |-> IF n < Base THEN <<n>> ELSE Append(e[n \div Base], n % Base)]
      PROVE  e \in [Nat -> S]
  <2> DEFINE Bad == {n \in Nat : e[n] \notin S}
  <2>1. SUFFICES ASSUME Bad # {} PROVE FALSE
    BY <1>9
  <2>2. PICK n \in Bad : \A m \in Bad : n <= m
    <3>1. Bad \in SUBSET Nat
      OBVIOUS
    <3> HIDE DEF Bad
    <3> QED
      BY <2>1, <3>1, LeastElement
  <2>3. n \in Nat /\ e[n] = IF n < Base THEN <<n>> ELSE Append(e[n \div Base], n % Base)
    BY <1>9, <2>2
  <2>4. CASE n < Base
    <3>1. e[n] = <<n>> /\ base[n] = <<n>>
      BY <2>3, <2>4
    <3>2. e[n] \in S
      BY <1>2, <2>3, <3>1
    <3> QED
      BY <2>2, <3>2
  <2>5. CASE ~ (n < Base)
    <3>1. n \div Base \in Nat /\ n \div Base < n /\ n % Base \in 0..(Base - 1)
      <4>1. n \in Nat /\ n >= Base
        BY <1>1, <2>3, <2>5
      <4> HIDE DEF Bad, S, base, pred, step
      <4> QED
        BY <4>1, Division
    <3>2. ~ (n <= n \div Base)
      BY <2>3, <3>1
    <3>3. n \div Base \notin Bad
      <4> HIDE DEF Bad
      <4> QED
        BY <2>2, <3>2
    <3>4. e[n \div Base] \in Seq(0..(Base - 1))
      BY <3>1, <3>3
    <3>5. e[n] \in Seq(0..(Base - 1))
      BY <2>3, <2>5, <3>1, <3>4, AppendProperties
    <3> QED
      BY <2>2, <3>5
  <2> QED
    BY <2>4, <2>5
<1> QED
  BY <1>7, <1>8, <1>9

LEMMA NumDigitsType ==
  ASSUME NEW n \in Nat
  PROVE  /\ Digits[n] \in Seq(0..(Base - 1)) /\ NumDigits(n) \in Nat \ {0}
         /\ n >= Base => NumDigits(n) = NumDigits(n \div Base) + 1
<1>1. Digits[n] \in Seq(0..(Base - 1))
  BY DigitsRecursion
<1>2. CASE n < Base
  <2>1. Digits[n] = <<n>>
    BY <1>2, DigitsRecursion
  <2>2. ~ (n >= Base)
    BY <1>2, CircularLogAssumption
  <2> QED
    BY <1>1, <2>1, <2>2 DEF NumDigits
<1>3. CASE ~ (n < Base)
  <2>1. Digits[n] = Append(Digits[n \div Base], n % Base)
    BY <1>3, DigitsRecursion
  <2>2. Digits[n \div Base] \in Seq(0..(Base - 1)) /\ n % Base \in 0..(Base - 1)
    BY Division, DigitsRecursion
  <2>3. Len(Digits[n]) = Len(Digits[n \div Base]) + 1 /\ Len(Digits[n \div Base]) \in Nat
    BY <2>1, <2>2, AppendProperties
  <2> QED
    BY <1>1, <2>3 DEF NumDigits
<1> QED
  BY <1>2, <1>3

(* A greater number has no fewer digits: a line that says MAX_LOG_SIZE is  *)
(* the longest first line (log.c:116).                                     *)
LEMMA NumDigitsMonotone ==
  ASSUME NEW n \in Nat, NEW m \in 0..n
  PROVE  NumDigits(m) <= NumDigits(n)
<1> DEFINE Bad == {k \in Nat : \E j \in 0..k : ~ (NumDigits(j) <= NumDigits(k))}
<1>1. SUFFICES ASSUME Bad # {} PROVE FALSE
  OBVIOUS
<1>2. PICK k \in Bad : \A i \in Bad : k <= i
  <2>1. Bad \in SUBSET Nat
    OBVIOUS
  <2> HIDE DEF Bad
  <2> QED
    BY <1>1, <2>1, LeastElement
<1>3. k \in Nat
  BY <1>2
<1>4. PICK j \in 0..k : ~ (NumDigits(j) <= NumDigits(k))
  BY <1>2
<1>5. CASE k < Base
  <2>1. Digits[j] = <<j>> /\ Digits[k] = <<k>>
    <3>1. j \in Nat /\ j < Base
      BY <1>3, <1>5, CircularLogAssumption
    <3> QED
      BY <1>3, <1>5, <3>1, DigitsRecursion
  <2> QED
    BY <1>4, <2>1 DEF NumDigits
<1>6. CASE ~ (k < Base)
  <2>1. k >= Base /\ j \in Nat
    BY <1>3, <1>6, CircularLogAssumption
  <2>2. NumDigits(k) = NumDigits(k \div Base) + 1 /\ NumDigits(k \div Base) \in Nat \ {0}
    BY <1>3, <2>1, Division, NumDigitsType
  <2>3. k \div Base \notin Bad
    <3>1. k \div Base \in Nat /\ k \div Base < k
      BY <1>3, <2>1, Division
    <3>2. ~ (k <= k \div Base)
      BY <1>3, <3>1
    <3> HIDE DEF Bad
    <3> QED
      BY <1>2, <3>2
  <2>4. CASE j < Base
    <3>1. Digits[j] = <<j>>
      BY <2>1, <2>4, DigitsRecursion
    <3>2. NumDigits(j) = 1
      BY <3>1 DEF NumDigits
    <3> QED
      BY <1>4, <2>2, <3>2
  <2>5. CASE ~ (j < Base)
    <3>1. j >= Base
      BY <2>1, <2>5, CircularLogAssumption
    <3>2. NumDigits(j) = NumDigits(j \div Base) + 1 /\ NumDigits(j \div Base) \in Nat \ {0}
      BY <2>1, <3>1, Division, NumDigitsType
    <3>3. j \div Base \in 0..(k \div Base) /\ k \div Base \in Nat
      BY <1>3, <2>1, Division, DivisionMonotone
    <3>4. NumDigits(j \div Base) <= NumDigits(k \div Base)
      BY <2>3, <3>3
    <3> QED
      BY <1>4, <2>2, <3>2, <3>4
  <2> QED
    BY <2>4, <2>5
<1> QED
  BY <1>5, <1>6

LEMMA CellKinds ==
  ASSUME NEW x \in Cell
  PROVE  /\ x[2] \in Nat
         /\ x[1] = "newline" <=> x = NewLine
         /\ x[1] = "blank" <=> x = Blank
BY CircularLogAssumption DEF Cell, Prefix, Digit, Char, NewLine, Blank

LEMMA NumberRecursion ==
  ASSUME NEW f \in Seq(Cell), Len(f) > PrefixLength
  PROVE  \A i \in 0..(Len(f) - PrefixLength) :
           Number(f)[i] = IF i = 0 THEN 0
                          ELSE Base * Number(f)[i - 1] + f[PrefixLength + i][2]
<1> DEFINE Dom == 0..(Len(f) - PrefixLength)
           base == [i \in Dom |-> 0]
           pred == [i \in Dom |-> IF i = 0 THEN 0 ELSE i - 1]
           step == [x \in Dom \X Nat |-> Base * x[2] + f[PrefixLength + x[1]][2]]
<1>1. /\ Base \in Nat /\ 1 \in Nat \ {0} /\ PrefixLength \in Nat /\ PrefixLength > 0
      /\ Len(f) \in Nat
  BY CircularLogAssumption
<1>2. Dom \in SUBSET Nat /\ base \in [Dom -> Nat]
  BY <1>1
<1>3. pred \in [Dom -> Nat] /\ \A n \in Dom : n >= 1 => pred[n] \in Dom /\ pred[n] < n
  BY <1>1
<1>4. step \in [Dom \X Nat -> Nat]
  <2>1. ASSUME NEW x \in Dom \X Nat PROVE Base * x[2] + f[PrefixLength + x[1]][2] \in Nat
    <3>1. x[1] \in Dom /\ x[2] \in Nat
      OBVIOUS
    <3>2. PrefixLength + x[1] \in 1..Len(f)
      BY <1>1, <3>1
    <3>3. f[PrefixLength + x[1]] \in Cell
      BY <3>2
    <3>4. f[PrefixLength + x[1]][2] \in Nat
      BY <3>3, CellKinds
    <3>5. \A a, b, c \in Nat : a * b + c \in Nat
      OBVIOUS
    <3> QED
      BY ONLY <1>1, <3>1, <3>4, <3>5
  <2> QED
    BY <2>1
<1>5. PICK d \in [Dom -> Nat] :
        d = [n \in Dom |-> IF n < 1 THEN base[n] ELSE step[<<n, d[pred[n]]>>]]
  <2> HIDE DEF base, pred, step, Dom
  <2>1. Recursive(Dom, Nat, 1, base, pred, step)
    BY <1>1, <1>2, <1>3, <1>4, Recursion
  <2> QED
    BY <2>1 DEF Recursive
<1>6. d = [i \in Dom |-> IF i = 0 THEN 0 ELSE Base * d[i - 1] + f[PrefixLength + i][2]]
  <2>1. ASSUME NEW n \in Dom
        PROVE  (IF n < 1 THEN base[n] ELSE step[<<n, d[pred[n]]>>])
                 = IF n = 0 THEN 0 ELSE Base * d[n - 1] + f[PrefixLength + n][2]
    <3>1. CASE n = 0
      BY <3>1
    <3>2. CASE n # 0
      <4>1. n - 1 \in Dom /\ pred[n] = n - 1 /\ ~ (n < 1)
        BY <1>1, <3>2
      <4>2. <<n, d[n - 1]>> \in Dom \X Nat
        BY <1>5, <4>1
      <4> QED
        BY <3>2, <4>1, <4>2
    <3> QED
      BY <3>1, <3>2
  <2> HIDE DEF base, pred, step, Dom
  <2> QED
    BY <1>5, <2>1
<1>7. Number(f) = [i \in Dom |-> IF i = 0 THEN 0
                                 ELSE Base * Number(f)[i - 1] + f[PrefixLength + i][2]]
  BY <1>6 DEF Number
<1> QED
  BY <1>7

(* What was printed is read back. *)
LEMMA NumberReadBack ==
  ASSUME NEW n \in Nat, NEW f \in Seq(Cell), PrefixLength + NumDigits(n) <= Len(f),
         \A i \in 1..NumDigits(n) : f[PrefixLength + i] = Digit(Digits[n][i])
  PROVE  Number(f)[NumDigits(n)] = n
<1> DEFINE Says(k) == /\ PrefixLength + NumDigits(k) <= Len(f)
                      /\ \A i \in 1..NumDigits(k) : f[PrefixLength + i][2] = Digits[k][i]
           Bad == {k \in Nat : Says(k) /\ Number(f)[NumDigits(k)] # k}
<1>1. SUFFICES ASSUME Bad # {} PROVE FALSE
  <2>1. Says(n)
    BY DEF Digit
  <2> HIDE DEF Says
  <2> QED
    BY <2>1
<1>2. PICK k \in Bad : \A i \in Bad : k <= i
  <2>1. Bad \in SUBSET Nat
    OBVIOUS
  <2> HIDE DEF Bad
  <2> QED
    BY <1>1, <2>1, LeastElement
<1>3. k \in Nat /\ Says(k) /\ Number(f)[NumDigits(k)] # k
  <2> HIDE DEF Says
  <2> QED
    BY <1>2
<1>4. NumDigits(k) \in Nat /\ NumDigits(k) > 0 /\ PrefixLength \in Nat /\ Len(f) \in Nat
  <2> HIDE DEF Says, Bad
  <2>1. NumDigits(k) \in Nat \ {0}
    BY <1>3, NumDigitsType
  <2>2. PrefixLength \in Nat /\ Len(f) \in Nat
    BY CircularLogAssumption
  <2> QED
    BY <2>1, <2>2
<1>5. Number(f)[NumDigits(k)]
        = Base * Number(f)[NumDigits(k) - 1] + Digits[k][NumDigits(k)]
  <2>1. NumDigits(k) \in 0..(Len(f) - PrefixLength) /\ Len(f) > PrefixLength
    BY <1>3, <1>4
  <2>2. NumDigits(k) \in 1..NumDigits(k) /\ NumDigits(k) # 0
    BY <1>4
  <2>3. f[PrefixLength + NumDigits(k)][2] = Digits[k][NumDigits(k)]
    BY <1>3, <2>2
  <2> HIDE DEF Says, Bad
  <2> QED
    BY <2>1, <2>2, <2>3, NumberRecursion
<1>6. CASE k < Base
  <2>1. Digits[k] = <<k>>
    BY <1>3, <1>6, DigitsRecursion
  <2>2. NumDigits(k) = 1 /\ Digits[k][1] = k
    BY <2>1 DEF NumDigits
  <2>3. Number(f)[0] = 0
    <3>1. 0 \in 0..(Len(f) - PrefixLength) /\ Len(f) > PrefixLength
      BY <1>3, <1>4
    <3> QED
      BY <3>1, NumberRecursion
  <2>4. Number(f)[NumDigits(k)] = Base * 0 + k
    BY <1>5, <2>2, <2>3
  <2> QED
    BY <1>3, <2>4, CircularLogAssumption
<1>7. CASE ~ (k < Base)
  <2> DEFINE h == k \div Base
  <2>1. k >= Base
    BY <1>3, <1>7, CircularLogAssumption
  <2>2. h \in Nat /\ h < k /\ k = Base * h + (k % Base) /\ k % Base \in 0..(Base - 1)
    BY <1>3, <2>1, Division
  <2>3. NumDigits(k) = NumDigits(h) + 1
    BY <1>3, <2>1, NumDigitsType
  <2>4. Digits[k] = Append(Digits[h], k % Base)
    BY <1>3, <1>7, DigitsRecursion
  <2> HIDE DEF h
  <2>5. Digits[h] \in Seq(0..(Base - 1)) /\ NumDigits(h) \in Nat
    BY <2>2, NumDigitsType
  <2>6. /\ Digits[k][NumDigits(h) + 1] = k % Base
        /\ \A i \in 1..NumDigits(h) : Digits[k][i] = Digits[h][i]
    <3> HIDE DEF Says, Bad
    <3> QED
      BY <2>2, <2>4, <2>5, AppendProperties DEF NumDigits
  <2>7. Says(h)
    BY <1>3, <1>4, <2>3, <2>5, <2>6
  <2>8. ~ (k <= h)
    BY <1>3, <2>2
  <2>9. Number(f)[NumDigits(h)] = h
    <3>1. h \notin Bad
      <4> HIDE DEF Bad
      <4> QED
        BY <1>2, <2>8
    <3> HIDE DEF Says
    <3> QED
      BY <2>2, <2>7, <3>1
  <2>10. NumDigits(k) - 1 = NumDigits(h) /\ Digits[k][NumDigits(k)] = k % Base
    BY <2>3, <2>5, <2>6
  <2> QED
    BY <1>3, <1>5, <2>2, <2>9, <2>10
<1> QED
  BY <1>6, <1>7

-----------------------------------------------------------------------------
(***************************************************************************)
(* The first line (log.c:49-55, 82 and 115-117).                           *)
(***************************************************************************)
LEMMA HeaderTextFacts ==
  ASSUME NEW n \in Nat
  PROVE  /\ HeaderText(n) \in Seq(Cell)
         /\ Len(HeaderText(n)) = PrefixLength + NumDigits(n) + 1
         /\ \A i \in 1..PrefixLength : HeaderText(n)[i] = Prefix(i)
         /\ \A i \in 1..NumDigits(n) :
              HeaderText(n)[PrefixLength + i] = Digit(Digits[n][i])
         /\ HeaderText(n)[PrefixLength + NumDigits(n) + 1] = NewLine
<1> DEFINE a == [i \in 1..PrefixLength |-> Prefix(i)]
           b == [i \in 1..NumDigits(n) |-> Digit(Digits[n][i])]
<1>1. PrefixLength \in Nat /\ NumDigits(n) \in Nat /\ Digits[n] \in Seq(0..(Base - 1))
  BY NumDigitsType, CircularLogAssumption
<1>2. a \in Seq(Cell) /\ Len(a) = PrefixLength
  <2>1. \A i \in 1..PrefixLength : Prefix(i) \in Cell
    BY DEF Cell
  <2> QED
    BY <1>1, <2>1
<1>3. b \in Seq(Cell) /\ Len(b) = NumDigits(n)
  <2>1. ASSUME NEW i \in 1..NumDigits(n) PROVE Digit(Digits[n][i]) \in Cell
    <3>1. i \in 1..Len(Digits[n])
      BY DEF NumDigits
    <3>2. Digits[n][i] \in 0..(Base - 1)
      BY <1>1, <3>1, ElementOfSeq
    <3> QED
      BY <3>2 DEF Cell
  <2> QED
    BY <1>1, <2>1
<1>4. <<NewLine>> \in Seq(Cell) /\ Len(<<NewLine>>) = 1 /\ <<NewLine>>[1] = NewLine
  BY DEF Cell
<1>5. /\ \A i \in 1..PrefixLength : a[i] = Prefix(i)
      /\ \A i \in 1..NumDigits(n) : b[i] = Digit(Digits[n][i])
  OBVIOUS
<1>6. HeaderText(n) = (a \o b) \o <<NewLine>>
  BY DEF HeaderText
<1> HIDE DEF a, b
<1> DEFINE c == a \o b
<1>7. /\ c \in Seq(Cell) /\ Len(c) = PrefixLength + NumDigits(n)
      /\ \A i \in 1..PrefixLength : c[i] = Prefix(i)
      /\ \A i \in 1..NumDigits(n) : c[PrefixLength + i] = Digit(Digits[n][i])
  <2>1. c \in Seq(Cell) /\ Len(c) = Len(a) + Len(b)
    BY <1>2, <1>3, ConcatProperties
  <2>2. ASSUME NEW i \in 1..PrefixLength PROVE c[i] = Prefix(i)
    BY <1>1, <1>2, <1>3, <1>5
  <2>3. ASSUME NEW i \in 1..NumDigits(n) PROVE c[PrefixLength + i] = Digit(Digits[n][i])
    BY <1>1, <1>2, <1>3, <1>5
  <2> QED
    BY <1>2, <1>3, <2>1, <2>2, <2>3
<1> HIDE DEF c
<1>8. HeaderText(n) = c \o <<NewLine>>
  BY <1>6 DEF c
<1> DEFINE d == <<NewLine>>
<1>9. d \in Seq(Cell) /\ Len(d) = 1 /\ d[1] = NewLine
  BY <1>4
<1> HIDE DEF d
<1>10. c \o d \in Seq(Cell) /\ Len(c \o d) = Len(c) + Len(d)
  BY <1>7, <1>9, ConcatProperties
<1>11. \A i \in 1..(PrefixLength + NumDigits(n)) : (c \o d)[i] = c[i]
  BY <1>1, <1>7, <1>9, ConcatProperties
<1>12. (c \o d)[PrefixLength + NumDigits(n) + 1] = NewLine
  <2> DEFINE k == PrefixLength + NumDigits(n) + 1
  <2>1. k \in Nat /\ Len(c) \in Nat /\ k = Len(c) + 1
    BY <1>1, <1>7
  <2>2. Len(d) = 1 /\ d \in Seq(Cell) /\ c \in Seq(Cell)
    BY <1>7, <1>9
  <2>3. \A i \in 1..(Len(c) + Len(d)) :
          (c \o d)[i] = IF i <= Len(c) THEN c[i] ELSE d[i - Len(c)]
    BY <2>2, ConcatProperties
  <2> HIDE DEF k
  <2>4. k \in 1..(Len(c) + Len(d)) /\ ~ k <= Len(c) /\ k - Len(c) = 1
    BY <2>1, <2>2
  <2>5. (c \o d)[k] = d[k - Len(c)]
    BY <2>3, <2>4
  <2>6. (c \o d)[k] = NewLine
    BY <1>9, <2>4, <2>5
  <2> QED
    BY <2>6 DEF k
<1>13. /\ \A i \in 1..PrefixLength : i \in 1..(PrefixLength + NumDigits(n))
       /\ \A i \in 1..NumDigits(n) :
            PrefixLength + i \in 1..(PrefixLength + NumDigits(n))
  BY <1>1
<1>14. HeaderText(n) = c \o d
  BY <1>8 DEF d
<1> QED
  BY <1>7, <1>9, <1>10, <1>11, <1>12, <1>13, <1>14

LEMMA HeaderLength ==
  ASSUME NEW n \in 0..MaxLogSize
  PROVE  /\ MaxHeader \in Nat /\ PrefixLength + 2 <= MaxHeader
         /\ Len(HeaderText(n)) \in 1..MaxHeader
         /\ \A l \in Lengths : n + l >= MaxLogSize => Len(HeaderText(n)) = MaxHeader
<1>1. PrefixLength \in Nat /\ MaxLogSize \in Nat /\ n \in Nat
  BY CircularLogAssumption
<1>2. /\ NumDigits(n) \in Nat \ {0} /\ NumDigits(MaxLogSize) \in Nat \ {0}
      /\ NumDigits(n) <= NumDigits(MaxLogSize)
  BY <1>1, NumDigitsType, NumDigitsMonotone
<1>3. Len(HeaderText(n)) = PrefixLength + NumDigits(n) + 1
  BY <1>1, HeaderTextFacts
<1>4. ASSUME NEW l \in Lengths, n + l >= MaxLogSize
      PROVE  NumDigits(n) = NumDigits(MaxLogSize)
  <2>1. /\ l \in Nat /\ l < MaxLogSize
        /\ NumDigits(MaxLogSize - l) = NumDigits(MaxLogSize)
    BY CircularLogAssumption
  <2>2. MaxLogSize - l \in 0..n
    BY <1>1, <1>4, <2>1
  <2>3. NumDigits(MaxLogSize - l) <= NumDigits(n)
    BY <1>1, <2>2, NumDigitsMonotone
  <2> QED
    BY <1>2, <2>1, <2>3
<1> QED
  BY <1>1, <1>2, <1>3, <1>4 DEF MaxHeader

(* What fscanf makes of a file that begins with a first line: it finds the *)
(* number, and skips that line and blanks and newlines behind it.          *)
LEMMA HeaderRead ==
  ASSUME NEW f \in Seq(Cell), NEW n \in Nat, Begins(f, HeaderText(n))
  PROVE  /\ HasHeader(f) /\ ReadPosition(f) = n
         /\ ReadSize(f) \in Len(HeaderText(n))..Len(f)
         /\ \A i \in Len(HeaderText(n))..ReadSize(f) : f[i] \in {NewLine, Blank}
<1> DEFINE e == PrefixLength + NumDigits(n)
<1>1. /\ PrefixLength \in Nat /\ NumDigits(n) \in Nat \ {0} /\ Len(f) \in Nat
      /\ Len(HeaderText(n)) = e + 1 /\ e + 1 <= Len(f)
  <2>1. PrefixLength \in Nat /\ Len(f) \in Nat
    BY CircularLogAssumption
  <2>2. NumDigits(n) \in Nat \ {0} /\ Len(HeaderText(n)) = e + 1
    BY NumDigitsType, HeaderTextFacts
  <2>3. Len(HeaderText(n)) <= Len(f)
    BY DEF Begins
  <2> QED
    BY <2>1, <2>2, <2>3
<1>2. /\ \A i \in 1..PrefixLength : f[i] = Prefix(i)
      /\ \A i \in 1..NumDigits(n) : f[PrefixLength + i] = Digit(Digits[n][i])
      /\ f[e + 1] = NewLine
  <2>1. \A i \in 1..(e + 1) : f[i] = HeaderText(n)[i]
    BY <1>1 DEF Begins
  <2> DEFINE t == HeaderText(n)
  <2>2. /\ \A i \in 1..PrefixLength : t[i] = Prefix(i)
        /\ \A i \in 1..NumDigits(n) : t[PrefixLength + i] = Digit(Digits[n][i])
        /\ t[e + 1] = NewLine
    BY HeaderTextFacts
  <2> HIDE DEF t
  <2>3. \A i \in 1..(e + 1) : f[i] = t[i]
    BY <2>1 DEF t
  <2>4. /\ \A i \in 1..PrefixLength : i \in 1..(e + 1)
        /\ \A i \in 1..NumDigits(n) : PrefixLength + i \in 1..(e + 1)
        /\ e + 1 \in 1..(e + 1)
    BY <1>1
  <2> QED
    BY <2>2, <2>3, <2>4
<1>3. \A i \in (PrefixLength + 1)..e : f[i][1] = "digit"
  <2>1. ASSUME NEW i \in (PrefixLength + 1)..e PROVE f[i][1] = "digit"
    <3>1. i - PrefixLength \in 1..NumDigits(n) /\ i = PrefixLength + (i - PrefixLength)
      BY <1>1
    <3>2. f[i] = Digit(Digits[n][i - PrefixLength])
      BY <1>2, <3>1
    <3> QED
      BY <3>2 DEF Digit
  <2> QED
    BY <2>1
<1>4. f[e + 1][1] # "digit"
  BY <1>2 DEF NewLine
<1>5. HasHeader(f)
  BY <1>1, <1>2, <1>3 DEF HasHeader
<1>6. LastDigit(f) = e
  <2> DEFINE T == {x \in (PrefixLength + 1)..Len(f) :
                     \A i \in (PrefixLength + 1)..x : f[i][1] = "digit"}
  <2>1. e \in T
    BY <1>1, <1>3
  <2>2. ASSUME NEW x \in T PROVE x <= e
    <3>1. e + 1 \notin (PrefixLength + 1)..x
      BY <1>4
    <3> QED
      BY <1>1, <3>1
  <2>3. T \in SUBSET Nat
    BY <1>1
  <2> HIDE DEF T
  <2>4. Max(T) \in T /\ \A x \in T : x <= Max(T)
    BY <1>1, <2>1, <2>2, <2>3, MaxOfSet
  <2>5. Max(T) \in Nat /\ e \in Nat /\ e <= Max(T) /\ Max(T) <= e
    BY <1>1, <2>1, <2>2, <2>3, <2>4
  <2> QED
    BY <2>5 DEF T, LastDigit
<1>7. ReadPosition(f) = n
  <2>1. Number(f)[NumDigits(n)] = n
    BY <1>1, <1>2, NumberReadBack
  <2>2. LastDigit(f) - PrefixLength = NumDigits(n)
    BY <1>1, <1>6
  <2> QED
    BY <2>1, <2>2 DEF ReadPosition
<1>8. /\ ReadSize(f) \in (e + 1)..Len(f)
      /\ \A i \in (e + 1)..ReadSize(f) : f[i] \in {NewLine, Blank}
  <2> DEFINE T == {h \in e..Len(f) : \A i \in (e + 1)..h : f[i] \in {NewLine, Blank}}
  <2>1. e + 1 \in T
    BY <1>1, <1>2
  <2>2. T \in SUBSET Nat /\ \A h \in T : h <= Len(f)
    BY <1>1
  <2>3. ReadSize(f) = Max(T)
    BY <1>6 DEF ReadSize
  <2>4. Max(T) \in T /\ e + 1 <= Max(T)
    <3> HIDE DEF T
    <3> QED
      BY <1>1, <2>1, <2>2, MaxOfSet
  <2> QED
    BY <1>1, <2>3, <2>4
<1> QED
  BY <1>1, <1>5, <1>7, <1>8

-----------------------------------------------------------------------------
(***************************************************************************)
(* What the writes do to the file (log.c:98-117).                          *)
(***************************************************************************)
LEMMA OverwriteFacts ==
  ASSUME NEW f \in Seq(Cell), NEW at \in 0..Len(f), NEW s \in Seq(Cell)
  PROVE  /\ Overwrite(f, at, s) \in Seq(Cell)
         /\ Len(Overwrite(f, at, s))
              = IF Len(f) >= at + Len(s) THEN Len(f) ELSE at + Len(s)
         /\ \A i \in 1..Len(Overwrite(f, at, s)) :
              Overwrite(f, at, s)[i] = IF at < i /\ i <= at + Len(s) THEN s[i - at] ELSE f[i]
<1> DEFINE n == Max({Len(f), at + Len(s)})
           cell(i) == IF at < i /\ i <= at + Len(s) THEN s[i - at] ELSE f[i]
<1>1. Len(f) \in Nat /\ Len(s) \in Nat /\ at \in Nat /\ at <= Len(f)
  OBVIOUS
<1>2. n = IF Len(f) >= at + Len(s) THEN Len(f) ELSE at + Len(s)
  <2> DEFINE T == {Len(f), at + Len(s)}
  <2>1. T \in SUBSET Nat /\ T # {} /\ \A x \in T : x <= Len(f) + at + Len(s)
    BY <1>1
  <2>2. Len(f) + at + Len(s) \in Nat
    BY <1>1
  <2>3. Max(T) \in T /\ \A x \in T : x <= Max(T)
    <3> HIDE DEF T
    <3> QED
      BY <2>1, <2>2, MaxOfSet
  <2> QED
    BY <1>1, <2>3
<1> HIDE DEF n
<1>3. n \in Nat
  BY <1>1, <1>2
<1>4. ASSUME NEW i \in 1..n PROVE cell(i) \in Cell
  <2>1. CASE at < i /\ i <= at + Len(s)
    <3>1. i - at \in 1..Len(s)
      BY <1>1, <1>3, <2>1
    <3>2. s[i - at] \in Cell
      BY <3>1, ElementOfSeq
    <3> QED
      BY <2>1, <3>2
  <2>2. CASE ~ (at < i /\ i <= at + Len(s))
    <3>1. i \in 1..Len(f)
      BY <1>1, <1>2, <1>3, <2>2
    <3>2. f[i] \in Cell
      BY <3>1, ElementOfSeq
    <3> QED
      BY <2>2, <3>2
  <2> QED
    BY <2>1, <2>2
<1>5. Overwrite(f, at, s) = [i \in 1..n |-> cell(i)]
  BY DEF Overwrite, n
<1> HIDE DEF cell
<1>6. Overwrite(f, at, s) \in Seq(Cell) /\ Len(Overwrite(f, at, s)) = n
  BY <1>3, <1>4, <1>5
<1>7. \A i \in 1..n : Overwrite(f, at, s)[i] = cell(i)
  BY <1>5
<1> QED
  BY <1>2, <1>6, <1>7 DEF cell

(* What fgets reads ends with the first newline, if not before. *)
LEMMA ReadLengthFacts ==
  ASSUME NEW f \in Seq(Cell), NEW at \in 0..Len(f)
  PROVE  /\ ReadLength(f, at) \in 0..(Len(f) - at) /\ ReadLength(f, at) <= ReadMax
         /\ at < Len(f) => ReadLength(f, at) > 0
         /\ \A n \in 1..(ReadLength(f, at) - 1) : f[at + n] # NewLine
<1> DEFINE T == {n \in 0..(Len(f) - at) : n = Len(f) - at \/ (n > 0 /\ f[at + n] = NewLine)}
           k == LineLength(f, at)
           r == ReadLength(f, at)
<1>1. Len(f) \in Nat /\ at \in Nat /\ at <= Len(f) /\ ReadMax \in Nat /\ ReadMax > 0
  BY CircularLogAssumption
<1>2. k \in T /\ \A n \in T : k <= n
  <2>1. T \in SUBSET Nat /\ Len(f) - at \in T
    BY <1>1
  <2>2. k = Min(T)
    BY DEF LineLength
  <2> HIDE DEF T, k
  <2> QED
    BY <2>1, <2>2, MinOfSet
<1>3. k \in 0..(Len(f) - at) /\ (at < Len(f) => k > 0)
  <2> HIDE DEF k
  <2> QED
    BY <1>1, <1>2
<1>4. ASSUME NEW n \in 1..(k - 1) PROVE f[at + n] # NewLine
  <2> HIDE DEF k
  <2>1. n \in 0..(Len(f) - at) /\ n > 0 /\ ~ (k <= n)
    BY <1>1, <1>3
  <2>2. n \notin T
    <3> HIDE DEF T
    <3> QED
      BY <1>2, <2>1
  <2> QED
    BY <2>1, <2>2
<1>5. r \in {ReadMax, k} /\ r <= ReadMax /\ r <= k
  <2> DEFINE U == {ReadMax, k}
  <2> HIDE DEF k, T
  <2>1. U \in SUBSET Nat /\ U # {}
    BY <1>1, <1>3
  <2>2. Min(U) \in U /\ \A n \in U : Min(U) <= n
    <3> HIDE DEF U
    <3> QED
      BY <2>1, MinOfSet
  <2> QED
    BY <2>2 DEF ReadLength, k
<1> HIDE DEF k, r, T
<1>6. r \in 0..(Len(f) - at) /\ r <= ReadMax /\ (at < Len(f) => r > 0)
  BY <1>1, <1>3, <1>5
<1>7. \A n \in 1..(r - 1) : f[at + n] # NewLine
  <2>1. ASSUME NEW n \in 1..(r - 1) PROVE n \in 1..(k - 1)
    BY <1>1, <1>3, <1>5, <1>6
  <2> QED
    BY <1>4, <2>1
<1> QED
  BY <1>6, <1>7 DEF r

LEMMA TextFacts ==
  ASSUME NEW e \in 1..MaxMessages, NEW m \in Lengths
  PROVE  /\ m \in Nat /\ m > MaxHeader + 1 /\ m < MaxLogSize /\ MaxHeader \in Nat
         /\ Text(m, e) \in Seq(Cell) /\ Len(Text(m, e)) = m
         /\ \A k \in 1..m : Text(m, e)[k] = IF k = m THEN NewLine ELSE Char(e, k)
<1>1. m \in Nat /\ m > MaxHeader + 1 /\ m < MaxLogSize
  BY CircularLogAssumption
<1>2. 0 \in 0..MaxLogSize
  BY CircularLogAssumption
<1>3. MaxHeader \in Nat
  BY <1>2, HeaderLength
<1>4. ASSUME NEW k \in 1..m PROVE (IF k = m THEN NewLine ELSE Char(e, k)) \in Cell
  <2>1. k \in 1..MaxLogSize
    BY <1>1, CircularLogAssumption
  <2> QED
    BY <2>1 DEF Cell
<1> QED
  BY <1>1, <1>3, <1>4 DEF Text

(* Stands, byte for byte. *)
LEMMA CopyIsStands ==
  ASSUME NEW f \in Seq(Cell), NEW m \in Nat, NEW e, NEW s \in Nat
  PROVE  (s + m <= Len(f) /\ SubSeq(f, s + 1, s + m) = Text(m, e)) <=> Copy(f, m, e, s)
<1>1. CASE s + m <= Len(f)
  <2> DEFINE u == SubSeq(f, s + 1, s + m)
  <2>1. u = [k \in 1..m |-> f[s + k]]
    BY <1>1
  <2> HIDE DEF u
  <2>2. u = Text(m, e) <=> \A k \in 1..m : u[k] = Text(m, e)[k]
    BY <2>1 DEF Text
  <2>3. \A k \in 1..m : u[k] = f[s + k]
    BY <2>1
  <2> QED
    BY <1>1, <2>2, <2>3 DEF Copy, u
<1>2. CASE ~ (s + m <= Len(f))
  BY <1>2 DEF Copy
<1> QED
  BY <1>1, <1>2

LEMMA LossFacts ==
  /\ Loss \in Nat /\ ReadMax < Loss /\ \A l \in Lengths : l < Loss
<1> DEFINE T == Lengths \cup {ReadMax}
<1>1. T \in SUBSET Nat /\ T # {} /\ \A n \in T : n <= MaxLogSize + ReadMax
  <2>1. /\ MaxLogSize \in Nat /\ ReadMax \in Nat
        /\ \A l \in Lengths : l \in Nat /\ l < MaxLogSize
    BY CircularLogAssumption
  <2> QED
    BY <2>1
<1>2. MaxLogSize + ReadMax \in Nat
  BY CircularLogAssumption
<1>3. Max(T) \in T /\ \A n \in T : n <= Max(T)
  <2> HIDE DEF T
  <2> QED
    BY <1>1, <1>2, MaxOfSet
<1>4. Max(T) \in Nat /\ Loss = Max(T) + 1
  BY <1>1, <1>3 DEF Loss
<1>5. \A n \in T : n \in Nat /\ n < Loss
  <2> HIDE DEF T
  <2>1. \A n \in T : n \in Nat /\ n <= Max(T)
    BY <1>1, <1>3
  <2> QED
    BY <1>4, <2>1
<1> QED
  BY <1>4, <1>5

(* However often the program has been killed, a message still fits. *)
LEMMA KillRoom ==
  ASSUME FewKills, NEW c \in 0..MaxCrashes, NEW l \in Lengths
  PROVE  c * Loss \in Nat /\ MaxHeader + c * Loss + l < MaxLogSize
<1>1. /\ Loss \in Nat /\ MaxCrashes \in Nat /\ l \in Nat /\ MaxLogSize \in Nat
      /\ c \in Nat /\ c <= MaxCrashes
  BY LossFacts, CircularLogAssumption
<1>2. MaxHeader \in Nat
  <2>1. 0 \in 0..MaxLogSize
    BY <1>1
  <2> QED
    BY <2>1, HeaderLength
<1>3. c * Loss \in Nat /\ MaxCrashes * Loss \in Nat /\ c * Loss <= MaxCrashes * Loss
  BY <1>1
<1>4. MaxHeader + MaxCrashes * Loss + l < MaxLogSize
  BY DEF FewKills
<1> QED
  BY <1>1, <1>2, <1>3, <1>4

LEMMA CopyKept ==
  ASSUME NEW f \in Seq(Cell), NEW g \in Seq(Cell), NEW m \in Nat, NEW e, NEW s \in Nat,
         Copy(f, m, e, s), Len(f) <= Len(g),
         \A i \in (s + 1)..(s + m) : g[i] = f[i]
  PROVE  Copy(g, m, e, s)
<1>1. s + m <= Len(g)
  BY DEF Copy
<1>2. ASSUME NEW k \in 1..m PROVE g[s + k] = Text(m, e)[k]
  <2>1. s + k \in (s + 1)..(s + m)
    OBVIOUS
  <2> QED
    BY <2>1 DEF Copy
<1> QED
  BY <1>1, <1>2 DEF Copy

(* A message that begins before p ends there, or before. *)
LEMMA CopyBorder ==
  ASSUME NEW f \in Seq(Cell), NEW m \in Nat, NEW e, NEW s \in Nat, Copy(f, m, e, s),
         NEW p \in Nat, Border(f, p), s < p
  PROVE  s + m <= p
<1> SUFFICES ASSUME p < s + m PROVE FALSE
  OBVIOUS
<1>1. p - s \in 1..m /\ p - s # m /\ p = s + (p - s) /\ p # 0
  OBVIOUS
<1>2. f[p] = Char(e, p - s)
  BY <1>1 DEF Copy, Text
<1> QED
  BY <1>1, <1>2 DEF Border, Char, NewLine, Blank

(* Writing from p to q, behind a border, tears no line but those at p and  *)
(* at q.                                                                   *)
LEMMA LinesKept ==
  ASSUME NEW f \in Seq(Cell), NEW g \in Seq(Cell), NEW ms \in Seq(Lengths), NEW X,
         NEW p \in 0..Len(f), NEW q \in Nat, p <= q, Len(f) <= Len(g), Border(f, p),
         \A i \in 1..Len(g) : i <= p \/ i > q => i <= Len(f) /\ g[i] = f[i],
         \A s \in (p + 1)..(q - 1) : s > MaxHeader => g[s] # NewLine,
         WholeBut(f, ms, X)
  PROVE  WholeBut(g, ms, X \cup {p, q})
<1>1. 0 \in 0..MaxLogSize
  BY CircularLogAssumption
<1>2. MaxHeader \in Nat /\ Len(f) \in Nat /\ Len(g) \in Nat /\ p \in Nat /\ p <= Len(f)
  BY <1>1, HeaderLength
<1>3. SUFFICES ASSUME NEW s \in (MaxHeader + 1)..(Len(g) - 1), g[s] = NewLine,
                      s \notin X \cup {p, q}
               PROVE  \E e \in DOMAIN ms : Copy(g, ms[e], e, s)
  BY DEF WholeBut
<1>4. s \in Nat /\ s > MaxHeader /\ s < Len(g) /\ s # p /\ s # q
  BY <1>2, <1>3
<1>5. ASSUME s < p \/ s > q PROVE \E e \in DOMAIN ms : Copy(f, ms[e], e, s)
  <2>1. s \in 1..Len(g) /\ s + 1 \in 1..Len(g)
    BY <1>2, <1>4
  <2>2. f[s] = NewLine /\ s < Len(f)
    BY <1>2, <1>3, <1>4, <1>5, <2>1
  <2>3. s \in (MaxHeader + 1)..(Len(f) - 1)
    BY <1>2, <1>4, <2>2
  <2> QED
    BY <1>3, <2>2, <2>3 DEF WholeBut
<1>6. ASSUME NEW e \in DOMAIN ms PROVE ms[e] \in Nat
  <2>1. ms[e] \in Lengths
    OBVIOUS
  <2> QED
    BY <2>1, CircularLogAssumption
<1>7. CASE s < p
  <2>1. PICK e \in DOMAIN ms : Copy(f, ms[e], e, s)
    BY <1>5, <1>7
  <2>2. ms[e] \in Nat
    BY <1>6
  <2>3. s + ms[e] <= p
    BY <1>2, <1>4, <1>7, <2>1, <2>2, CopyBorder
  <2>4. ASSUME NEW i \in (s + 1)..(s + ms[e]) PROVE g[i] = f[i]
    <3>1. i \in 1..Len(g) /\ i <= p
      BY <1>2, <1>4, <2>2, <2>3
    <3> QED
      BY <3>1
  <2>5. Copy(g, ms[e], e, s)
    BY <1>4, <2>1, <2>2, <2>4, CopyKept
  <2> QED
    BY <2>5
<1>8. CASE s > q
  <2>1. PICK e \in DOMAIN ms : Copy(f, ms[e], e, s)
    BY <1>5, <1>8
  <2>2. ms[e] \in Nat
    BY <1>6
  <2>3. s + ms[e] <= Len(f)
    BY <2>1 DEF Copy
  <2>4. ASSUME NEW i \in (s + 1)..(s + ms[e]) PROVE g[i] = f[i]
    <3>1. i \in 1..Len(g) /\ i > q
      BY <1>2, <1>4, <1>8, <2>2, <2>3
    <3> QED
      BY <3>1
  <2>5. Copy(g, ms[e], e, s)
    BY <1>4, <2>1, <2>2, <2>4, CopyKept
  <2> QED
    BY <2>5
<1>9. CASE p < s /\ s < q
  <2>1. s \in (p + 1)..(q - 1)
    BY <1>2, <1>4, <1>9
  <2> QED
    BY <1>3, <1>4, <2>1
<1> QED
  BY <1>2, <1>4, <1>7, <1>8, <1>9

LEMMA CleanKept ==
  ASSUME NEW f \in Seq(Cell), NEW g \in Seq(Cell), NEW end \in Nat, NEW z \in Nat, z < end,
         Clean(f, end, z), \A i \in (z + 1)..end : g[i] = f[i]
  PROVE  Clean(g, end, z)
<1>1. z + 1 \in (z + 1)..end
  OBVIOUS
<1>2. ASSUME NEW i \in (z + 1)..end
      PROVE  g[i][1] = "char" \/ (g[i] = NewLine /\ (i < end => g[i + 1][1] = "char"))
  <2>1. i < end => i + 1 \in (z + 1)..end
    OBVIOUS
  <2> QED
    BY <2>1 DEF Clean
<1> QED
  BY <1>1, <1>2 DEF Clean

(* Blanks and newlines that begin at or before z + 1 end before it. *)
LEMMA CleanStops ==
  ASSUME NEW f \in Seq(Cell), NEW end \in Nat, NEW z \in Nat, Clean(f, end, z),
         NEW a \in Nat, a <= z + 1, NEW h \in Nat,
         \A i \in a..h : f[i] \in {NewLine, Blank}
  PROVE  h <= z
<1> SUFFICES ASSUME z < h PROVE FALSE
  OBVIOUS
<1>1. f[z + 1] \in {NewLine, Blank}
  OBVIOUS
<1> QED
  BY <1>1 DEF Clean, NewLine, Blank

LEMMA CleanLater ==
  ASSUME NEW f \in Seq(Cell), NEW end \in Nat, NEW z \in Nat, Clean(f, end, z),
         NEW w \in Nat, z <= w, w + 2 <= end
  PROVE  Clean(f, end, w) \/ Clean(f, end, w + 1)
<1>1. \A i \in (w + 1)..end :
        f[i][1] = "char" \/ (f[i] = NewLine /\ (i < end => f[i + 1][1] = "char"))
  BY DEF Clean
<1>2. f[w + 1][1] = "char" \/ f[w + 2][1] = "char"
  <2>1. w + 1 \in (w + 1)..end /\ w + 1 < end /\ w + 1 + 1 = w + 2
    OBVIOUS
  <2> QED
    BY <1>1, <2>1
<1>3. w + 1 + 1 = w + 2 /\ \A i \in (w + 2)..end : i \in (w + 1)..end
  OBVIOUS
<1> QED
  BY <1>1, <1>2, <1>3 DEF Clean

(* A message behind clean lines is clean, and a message alone too. *)
LEMMA CleanMessage ==
  ASSUME NEW f \in Seq(Cell), NEW end \in Nat, NEW e, NEW m \in Nat, m > 1,
         Copy(f, m, e, end)
  PROVE  /\ \A i \in (end + 1)..(end + m) :
              f[i][1] = "char" \/ (f[i] = NewLine /\ i = end + m)
         /\ \A z \in end..(end + m - 2) : Clean(f, end + m, z)
         /\ \A z \in 0..(end - 1) : Clean(f, end, z) => Clean(f, end + m, z)
<1>1. ASSUME NEW i \in (end + 1)..(end + m)
      PROVE  /\ f[i][1] = "char" \/ (f[i] = NewLine /\ i = end + m)
             /\ i < end + m => f[i][1] = "char"
  <2>1. i - end \in 1..m /\ i = end + (i - end)
    OBVIOUS
  <2>2. f[i] = IF i - end = m THEN NewLine ELSE Char(e, i - end)
    BY <2>1 DEF Copy, Text
  <2>3. i - end = m <=> i = end + m
    OBVIOUS
  <2> QED
    BY <2>2, <2>3 DEF Char
<1>2. ASSUME NEW z \in end..(end + m - 2) PROVE Clean(f, end + m, z)
  <2>1. z + 1 \in (end + 1)..(end + m) /\ z + 1 < end + m
    OBVIOUS
  <2>2. ASSUME NEW i \in (z + 1)..(end + m)
        PROVE  f[i][1] = "char" \/ (f[i] = NewLine /\ (i < end + m => f[i + 1][1] = "char"))
    <3>1. i \in (end + 1)..(end + m)
      OBVIOUS
    <3> QED
      BY <1>1, <3>1
  <2> QED
    BY <1>1, <2>1, <2>2 DEF Clean
<1>3. ASSUME NEW z \in 0..(end - 1), Clean(f, end, z) PROVE Clean(f, end + m, z)
  <2>1. ASSUME NEW i \in (z + 1)..(end + m)
        PROVE  f[i][1] = "char" \/ (f[i] = NewLine /\ (i < end + m => f[i + 1][1] = "char"))
    <3>1. CASE i > end
      <4>1. i \in (end + 1)..(end + m)
        BY <3>1
      <4> QED
        BY <1>1, <4>1
    <3>2. CASE i = end
      <4>1. end + 1 \in (end + 1)..(end + m) /\ end + 1 < end + m /\ i \in (z + 1)..end
        BY <3>2
      <4> QED
        BY <1>1, <1>3, <3>2, <4>1 DEF Clean
    <3>3. CASE i < end
      <4>1. i \in (z + 1)..end
        BY <3>3
      <4> QED
        BY <1>3, <3>3, <4>1 DEF Clean
    <3> QED
      BY <3>1, <3>2, <3>3
  <2> QED
    BY <1>3, <2>1 DEF Clean
<1> QED
  BY <1>1, <1>2, <1>3

-----------------------------------------------------------------------------
(***************************************************************************)
(* The steps.                                                              *)
(***************************************************************************)
LEMMA ConstantTypes ==
  /\ MaxLogSize \in Nat \ {0} /\ MaxHeader \in Nat /\ MaxMessages \in Nat
  /\ MaxCrashes \in Nat /\ ReadMax \in Nat \ {0} /\ PrefixLength \in Nat \ {0}
  /\ Lengths \subseteq Nat
<1>1. 0 \in 0..MaxLogSize
  BY CircularLogAssumption
<1> QED
  BY <1>1, HeaderLength, CircularLogAssumption

LEMMA MessageInHand ==
  ASSUME TypeOK, Calls, pc # "idle"
  PROVE  /\ Message \in DOMAIN messages /\ Message \in 1..MaxMessages
         /\ messages[Message] \in Lengths /\ messages[Message] \in Nat
         /\ messages[Message] > MaxHeader + 1 /\ messages[Message] < MaxLogSize
<1>1. messages \in Seq(Lengths) /\ messages # << >> /\ Len(messages) <= MaxMessages
  BY DEF TypeOK, Calls
<1>2. Message \in Nat /\ Message # 0 /\ DOMAIN messages = 1..Message
  BY <1>1 DEF Message
<1>3. Message \in DOMAIN messages /\ Message \in 1..MaxMessages
  BY <1>1, <1>2, ConstantTypes DEF Message
<1>4. messages[Message] \in Lengths
  BY <1>1, <1>3
<1> QED
  BY <1>3, <1>4, CircularLogAssumption

LEMMA InitInv == Init => IInv
<1> SUFFICES ASSUME Init PROVE IInv
  OBVIOUS
<1>1. /\ exists = FALSE /\ file = << >> /\ position = 0 /\ level = 0 /\ headerSize = 0
      /\ pc = "idle" /\ messages = << >> /\ lap = << >> /\ saved = 0 /\ seams = {}
      /\ crashes = 0
  BY DEF Init
<1>2. TypeOK
  <2>1. Len(file) < MaxLogSize
    BY <1>1, ConstantTypes
  <2>2. /\ file \in Seq(Cell) /\ messages \in Seq(Lengths)
        /\ lap \in Seq([id : 1..MaxMessages, start : 0..MaxLogSize])
    BY <1>1, EmptySeq
  <2>3. 0 \in 0..MaxLogSize /\ 0 \in 0..3 /\ 0 \in 0..MaxCrashes
    BY ConstantTypes
  <2> QED
    BY <1>1, <2>1, <2>2, <2>3 DEF TypeOK, BelowMaxSize
<1>3. Calls /\ First /\ Kept /\ Hand /\ LapKept /\ FrontIsClean
  BY <1>1, ConstantTypes DEF Calls, First, Kept, Hand, InHand, LapKept, FrontIsClean
<1>4. Lines
  BY <1>1, ConstantTypes DEF Lines, WholeBut
<1> QED
  BY <1>2, <1>3, <1>4 DEF IInv

LEMMA UnchangedStep ==
  ASSUME IInv, UNCHANGED <<exists, file, position, headerSize, pc, messages, lap, saved,
                           seams, crashes>>,
         level' \in 0..3
  PROVE  IInv'
<1>1. TypeOK'
  BY DEF IInv, TypeOK, BelowMaxSize
<1>2. Calls' /\ First' /\ Kept'
  BY DEF IInv, Calls, First, Kept, Message
<1>3. Hand'
  BY DEF IInv, Hand, InHand, Start, Again, Message
<1>4. LapKept'
  BY DEF IInv, LapKept
<1>5. Lines'
  BY DEF IInv, Lines, InHand
<1>6. FrontIsClean'
  BY DEF IInv, FrontIsClean, InHand, Start, Again, Message
<1> QED
  BY <1>1, <1>2, <1>3, <1>4, <1>5, <1>6 DEF IInv

LEMMA SetLevelStep ==
  ASSUME IInv, SetLevel
  PROVE  IInv'
<1>1. level' \in 0..3
  BY DEF SetLevel
<1> QED
  BY <1>1, UnchangedStep DEF SetLevel

LEMMA LogStep ==
  ASSUME IInv, Log
  PROVE  IInv'
<1>1. PICK l \in Lengths : messages' = Append(messages, l)
  BY DEF Log
<1>2. /\ pc = "idle" /\ Len(messages) < MaxMessages /\ headerSize' = 0 /\ pc' = "read"
      /\ UNCHANGED <<level, exists, file, position, lap, saved, seams, crashes>>
  BY DEF Log
<1>3. /\ messages \in Seq(Lengths) /\ messages' \in Seq(Lengths)
      /\ Len(messages') = Len(messages) + 1 /\ messages' # << >>
      /\ \A e \in DOMAIN messages : e \in DOMAIN messages' /\ messages'[e] = messages[e]
  <2>1. messages \in Seq(Lengths)
    BY DEF IInv, TypeOK
  <2> QED
    BY <1>1, <2>1, AppendProperties
<1>4. TypeOK'
  BY <1>2, <1>3, ConstantTypes DEF IInv, TypeOK, BelowMaxSize
<1>5. Calls'
  <2>1. Len(messages') <= MaxMessages
    BY <1>2, <1>3, ConstantTypes
  <2> QED
    BY <1>2, <1>3, <2>1 DEF IInv, Calls
<1>6. First' /\ Kept' /\ Hand'
  BY <1>2 DEF IInv, First, Kept, Hand, InHand
<1>7. LapKept'
  BY <1>2, <1>3 DEF IInv, LapKept
<1>8. Lines'
  <2>1. WholeBut(file, messages, seams \cup {saved} \cup {})
    BY <1>2 DEF IInv, Lines, InHand
  <2>2. WholeBut(file, messages', seams \cup {saved} \cup {})
    BY <1>3, <2>1 DEF WholeBut
  <2> QED
    BY <1>2, <2>2 DEF Lines, InHand
<1>9. FrontIsClean'
  BY <1>2 DEF IInv, FrontIsClean, Again, InHand
<1> QED
  BY <1>4, <1>5, <1>6, <1>7, <1>8, <1>9 DEF IInv

(* What fscanf finds, at every moment between two writes. *)
LEMMA HeaderFound ==
  ASSUME TypeOK, Calls, First, Kept, exists, HasHeader(file)
  PROVE  /\ Begins(file, HeaderText(saved)) /\ ReadPosition(file) = saved
         /\ ReadSize(file) \in 0..Len(file)
<1>1. saved \in Nat /\ file \in Seq(Cell)
  BY ConstantTypes DEF TypeOK
<1>2. file[1] = Prefix(1)
  BY ConstantTypes DEF HasHeader
<1>3. Begins(file, HeaderText(saved))
  BY <1>2 DEF First, Kept
<1>4. /\ ReadPosition(file) = saved /\ ReadSize(file) \in Len(HeaderText(saved))..Len(file)
      /\ Len(HeaderText(saved)) \in Nat
  BY <1>1, <1>3, HeaderRead, HeaderTextFacts
<1> QED
  BY <1>3, <1>4

LEMMA ReadStep ==
  ASSUME IInv, Read
  PROVE  IInv'
<1>1. /\ pc = "read" /\ pc' = IF exists THEN "blank" ELSE "create"
      /\ headerSize' = IF exists /\ HasHeader(file) THEN ReadSize(file) ELSE 0
      /\ position' = IF ~ exists THEN 0
                     ELSE IF Len(file) >= MaxLogSize THEN headerSize'
                     ELSE IF HasHeader(file) THEN ReadPosition(file)
                     ELSE position
      /\ UNCHANGED <<level, exists, file, messages, lap, saved, seams, crashes>>
  BY DEF Read
<1>2. /\ TypeOK /\ Calls /\ First /\ Kept /\ file \in Seq(Cell) /\ Len(file) \in Nat
      /\ Len(file) < MaxLogSize /\ saved \in 0..MaxLogSize /\ position \in 0..MaxLogSize
  BY DEF IInv, TypeOK, BelowMaxSize
<1>3. saved # 0 => exists /\ HasHeader(file)
  BY <1>2, HeaderRead DEF Calls, Kept
<1>4. /\ headerSize' \in 0..MaxLogSize
      /\ position' = IF exists /\ HasHeader(file) THEN saved
                     ELSE IF exists THEN position ELSE 0
  <2>1. ~ (Len(file) >= MaxLogSize)
    BY <1>2, ConstantTypes
  <2>2. CASE exists /\ HasHeader(file)
    <3>1. ReadPosition(file) = saved /\ ReadSize(file) \in 0..Len(file)
      BY <1>2, <2>2, HeaderFound
    <3>2. headerSize' = ReadSize(file) /\ position' = saved
      BY <1>1, <2>1, <2>2, <3>1
    <3>3. ReadSize(file) \in 0..MaxLogSize
      BY <1>2, <3>1, ConstantTypes
    <3> QED
      BY <2>2, <3>2, <3>3
  <2>3. CASE ~ (exists /\ HasHeader(file))
    <3>1. headerSize' = 0 /\ position' = IF exists THEN position ELSE 0
      BY <1>1, <2>1, <2>3
    <3> QED
      BY <2>3, <3>1, ConstantTypes
  <2> QED
    BY <2>2, <2>3
<1>5. TypeOK'
  <2>1. position' \in 0..MaxLogSize
    BY <1>2, <1>4, ConstantTypes
  <2> QED
    BY <1>1, <1>4, <2>1 DEF IInv, TypeOK, BelowMaxSize
<1>6. Calls'
  BY <1>1, <1>2 DEF Calls
<1>7. First'
  BY <1>1, <1>2, <1>4 DEF First
<1>8. Kept'
  BY <1>1, <1>2, <1>3, <1>4 DEF Kept
<1>9. Hand' /\ LapKept' /\ FrontIsClean'
  BY <1>1 DEF IInv, Hand, InHand, LapKept, FrontIsClean, Again
<1>10. Lines'
  BY <1>1 DEF IInv, Lines, InHand
<1> QED
  BY <1>5, <1>6, <1>7, <1>8, <1>9, <1>10 DEF IInv

LEMMA CreateStep ==
  ASSUME IInv, Create
  PROVE  IInv'
<1>1. /\ pc = "create" /\ exists' = TRUE /\ file' = HeaderText(headerSize)
      /\ position' = headerSize /\ pc' = "write"
      /\ UNCHANGED <<level, headerSize, messages, lap, saved, seams, crashes>>
  BY DEF Create
<1>2. /\ TypeOK /\ Calls /\ headerSize = 0 /\ saved = 0 /\ lap = << >>
      /\ messages # << >> /\ position' = 0
  BY <1>1 DEF IInv, Calls, First
<1>3. /\ file' \in Seq(Cell) /\ Len(file') \in 1..MaxHeader /\ file' = HeaderText(0)
  <2>1. 0 \in 0..MaxLogSize /\ 0 \in Nat
    BY ConstantTypes
  <2> QED
    BY <1>1, <1>2, <2>1, HeaderTextFacts, HeaderLength
<1>4. TypeOK'
  <2>1. MaxHeader < MaxLogSize
    BY <1>1, <1>2, MessageInHand, ConstantTypes
  <2>2. Len(file') < MaxLogSize
    BY <1>3, <2>1, ConstantTypes
  <2> QED
    BY <1>1, <1>2, <1>3, <2>2, ConstantTypes DEF TypeOK, BelowMaxSize
<1>5. Calls'
  BY <1>1, <1>2, <1>3 DEF Calls
<1>6. Begins(file', HeaderText(0))
  BY <1>3 DEF Begins
<1>7. First' /\ Kept' /\ LapKept' /\ FrontIsClean'
  BY <1>1, <1>2, <1>6 DEF First, Kept, LapKept, FrontIsClean
<1>9. Hand'
  <2>1. Start' = 0 /\ ~ Again'
    BY <1>1, <1>2 DEF Start, Again
  <2>2. messages'[Message'] \in Nat /\ messages'[Message'] < MaxLogSize
    BY <1>1, <1>2, MessageInHand, ConstantTypes DEF Message
  <2>3. 0 \in 0..Len(file') /\ Border(file', 0)
    BY <1>3 DEF Border
  <2> QED
    BY <1>1, <1>2, <2>1, <2>2, <2>3 DEF Hand
<1>8. Lines'
  BY <1>1, <1>3, ConstantTypes DEF Lines, WholeBut
<1> QED
  BY <1>4, <1>5, <1>7, <1>8, <1>9 DEF IInv

LEMMA CrashStep ==
  ASSUME IInv, Crash
  PROVE  IInv'
<1>1. /\ crashes < MaxCrashes /\ crashes' = crashes + 1
      /\ seams' = IF InHand THEN seams \cup {position} ELSE seams
      /\ position' = 0 /\ level' = 0 /\ headerSize' = 0 /\ pc' = "idle"
      /\ UNCHANGED <<exists, file, messages, lap, saved>>
  BY DEF Crash, InHand
<1>2. TypeOK /\ crashes \in 0..MaxCrashes /\ saved \in 0..MaxLogSize
  BY DEF IInv, TypeOK
<1>3. TypeOK'
  BY <1>1, <1>2, ConstantTypes DEF TypeOK, BelowMaxSize
<1>4. Calls' /\ First' /\ Kept' /\ Hand' /\ LapKept'
  BY <1>1 DEF IInv, Calls, First, Kept, Hand, InHand, LapKept
<1>5. Lines'
  <2>1. WholeBut(file, messages, seams' \cup {saved})
    BY <1>1 DEF IInv, Lines, WholeBut
  <2>2. seams' \cup {saved} \cup {} = seams' \cup {saved}
    OBVIOUS
  <2> QED
    BY <1>1, <2>1, <2>2 DEF Lines, InHand
<1>6. FrontIsClean'
  <2> SUFFICES ASSUME saved # 0
               PROVE  /\ file[saved] = NewLine
                      /\ \E z \in MaxHeader..(saved - 1) :
                           Clean(file, saved, z) /\ z <= MaxHeader + (crashes + 1) * Loss
    BY <1>1 DEF FrontIsClean, Again, InHand
  <2>1. file[saved] = NewLine
    BY <1>1 DEF IInv, FrontIsClean
  <2>2. PICK z \in MaxHeader..(saved - 1) :
          /\ Clean(file, saved, z)
          /\ z <= MaxHeader + (crashes + 1) * Loss \/ z <= MaxHeader + crashes * Loss
    BY <1>1 DEF IInv, FrontIsClean
  <2>3. crashes * Loss \in Nat /\ (crashes + 1) * Loss = crashes * Loss + Loss
    BY <1>2, LossFacts, ConstantTypes
  <2>4. z <= MaxHeader + (crashes + 1) * Loss
    BY <1>2, <2>2, <2>3, LossFacts, ConstantTypes
  <2> QED
    BY <2>1, <2>2, <2>4
<1> QED
  BY <1>3, <1>4, <1>5, <1>6 DEF IInv

(* Where the blanks begin: at the end of the last message, or behind what  *)
(* fscanf skipped, which is in front of the messages of the old lap.       *)
LEMMA Place ==
  ASSUME FewKills, IInv, pc = "blank",
         NEW p, p = IF Full THEN headerSize ELSE position,
         NEW m, m = messages[Message]
  PROVE  /\ p \in 0..Len(file) /\ Border(file, p) /\ p + m < MaxLogSize
         /\ saved = 0 => p = 0 /\ ~ Full
         /\ saved # 0 => /\ position = saved /\ MaxHeader <= p
                         /\ p = saved <=> ~ Full
         /\ Full => /\ saved # 0 /\ p < saved /\ saved + m >= MaxLogSize
                    /\ p <= MaxHeader + crashes * Loss
                    /\ \A z \in Nat : Clean(file, saved, z) /\ MaxHeader <= z => p <= z
<1>1. /\ m \in Lengths /\ m \in Nat /\ m > MaxHeader + 1 /\ m < MaxLogSize
      /\ MaxHeader \in Nat /\ MaxLogSize \in Nat
  BY MessageInHand, ConstantTypes DEF IInv
<1>2. /\ file \in Seq(Cell) /\ Len(file) \in Nat /\ Len(file) < MaxLogSize
      /\ saved \in 0..MaxLogSize /\ crashes \in 0..MaxCrashes
      /\ position \in 0..MaxLogSize
  BY DEF IInv, TypeOK, BelowMaxSize
<1>3. Full <=> position + m >= MaxLogSize
  BY DEF Full
<1>4. ~ Again
  BY DEF Again, InHand
<1>5. CASE saved = 0
  <2>1. position = 0
    BY <1>5 DEF IInv, First
  <2>2. ~ Full /\ p = 0
    BY <1>1, <1>3, <2>1
  <2> QED
    BY <1>1, <1>2, <1>5, <2>2 DEF Border
<1>6. CASE saved # 0
  <2>1. /\ position = saved /\ headerSize = ReadSize(file)
        /\ Begins(file, HeaderText(saved))
        /\ MaxHeader + 1 < saved /\ saved <= Len(file) /\ file[saved] = NewLine
    BY <1>4, <1>6 DEF IInv, Kept, FrontIsClean
  <2>2. CASE ~ Full
    <3>1. p = saved
      BY <2>1, <2>2
    <3> QED
      BY <1>1, <1>2, <1>3, <1>6, <2>1, <2>2, <3>1 DEF Border
  <2>3. CASE Full
    <3>1. p = ReadSize(file) /\ saved + m >= MaxLogSize
      BY <1>3, <2>1, <2>3
    <3>2. Len(HeaderText(saved)) = MaxHeader
      BY <1>1, <1>2, <3>1, HeaderLength
    <3>3. /\ p \in MaxHeader..Len(file)
          /\ \A i \in MaxHeader..p : file[i] \in {NewLine, Blank}
      <4>1. saved \in Nat
        BY <1>1, <1>2
      <4> QED
        BY <1>2, <2>1, <3>1, <3>2, <4>1, HeaderRead
    <3>4. p \in Nat /\ p <= Len(file) /\ MaxHeader <= p
      BY <1>1, <1>2, <3>3
    <3>5. Border(file, p)
      <4>1. p \in MaxHeader..p
        BY <1>1, <3>4
      <4> QED
        BY <3>3, <4>1 DEF Border
    <3>6. ASSUME NEW z \in Nat, Clean(file, saved, z), MaxHeader <= z PROVE p <= z
      <4>1. MaxHeader <= z + 1 /\ saved \in Nat
        BY <1>1, <1>2, <3>6
      <4> QED
        BY <1>1, <1>2, <3>3, <3>4, <3>6, <4>1, CleanStops
    <3>7. PICK z \in MaxHeader..(saved - 1) :
            Clean(file, saved, z) /\ z <= MaxHeader + crashes * Loss
      BY <1>4, <1>6 DEF IInv, FrontIsClean
    <3>8. p <= z /\ z \in Nat /\ z < saved /\ MaxHeader <= z
      BY <1>1, <1>2, <3>6, <3>7
    <3>9. crashes * Loss \in Nat /\ MaxHeader + crashes * Loss + m < MaxLogSize
      BY <1>1, <1>2, KillRoom
    <3>10. p <= MaxHeader + crashes * Loss /\ p < saved /\ p + m < MaxLogSize
      BY <1>1, <1>2, <3>4, <3>7, <3>8, <3>9
    <3>11. p # saved
      BY <1>2, <3>4, <3>10
    <3> QED
      BY <1>6, <2>1, <2>3, <3>1, <3>4, <3>5, <3>6, <3>10, <3>11
  <2> QED
    BY <2>2, <2>3
<1> QED
  BY <1>5, <1>6

LEMMA BeginsKept ==
  ASSUME NEW f, NEW g, NEW s, Len(s) \in Nat, Begins(f, s), Len(f) \in Nat, Len(g) \in Nat,
         Len(f) <= Len(g), NEW h \in Nat, Len(s) <= h, \A i \in 1..h : i <= Len(f) => g[i] = f[i]
  PROVE  Begins(g, s)
<1>1. Len(s) <= Len(f)
  BY DEF Begins
<1>2. ASSUME NEW i \in 1..Len(s) PROVE g[i] = s[i]
  <2>1. i \in 1..h /\ i <= Len(f)
    BY <1>1
  <2> QED
    BY <2>1 DEF Begins
<1> QED
  BY <1>1, <1>2 DEF Begins

(* Writes behind saved, or to the first line, leave the lap alone. *)
LEMMA LapMemberKept ==
  ASSUME TypeOK, LapKept, NEW i \in DOMAIN lap,
         NEW g \in Seq(Cell), Len(file) <= Len(g),
         \A k \in (MaxHeader + 1)..saved : k <= Len(file) => g[k] = file[k]
  PROVE  /\ lap[i].id \in DOMAIN messages
         /\ lap[i].start \in Nat /\ messages[lap[i].id] \in Nat
         /\ lap[i].start + messages[lap[i].id] <= saved
         /\ lap[i].start # 0 =>
              /\ lap[i].start >= MaxHeader
              /\ Copy(g, messages[lap[i].id], lap[i].id, lap[i].start)
<1> DEFINE e == lap[i].id
           s == lap[i].start
           m == messages[e]
<1>1. /\ lap \in Seq([id : 1..MaxMessages, start : 0..MaxLogSize])
      /\ messages \in Seq(Lengths) /\ file \in Seq(Cell) /\ saved \in Nat
  BY ConstantTypes DEF TypeOK
<1>2. /\ e \in DOMAIN messages /\ s + m <= saved
      /\ s # 0 => s >= MaxHeader /\ Copy(file, m, e, s)
  BY DEF LapKept
<1>3. lap[i] \in [id : 1..MaxMessages, start : 0..MaxLogSize]
  <2>1. i \in 1..Len(lap)
    BY <1>1
  <2> QED
    BY <1>1, <2>1, ElementOfSeq
<1>4. s \in 0..MaxLogSize
  BY <1>3
<1>5. m \in Lengths
  <2> HIDE DEF e
  <2> QED
    BY <1>1, <1>2
<1> HIDE DEF e, s, m
<1>6. s \in Nat /\ m \in Nat
  BY <1>4, <1>5, ConstantTypes
<1>7. ASSUME s # 0 PROVE Copy(g, m, e, s)
  <2>1. Copy(file, m, e, s) /\ s >= MaxHeader
    BY <1>2, <1>7
  <2>2. s + m <= Len(file)
    BY <2>1 DEF Copy
  <2>3. ASSUME NEW k \in (s + 1)..(s + m) PROVE g[k] = file[k]
    <3>1. k \in (MaxHeader + 1)..saved /\ k <= Len(file)
      BY <1>1, <1>2, <1>6, <2>1, <2>2, ConstantTypes
    <3> QED
      BY <3>1
  <2> QED
    BY <1>1, <1>6, <2>1, <2>3, CopyKept
<1> QED
  BY <1>2, <1>6, <1>7 DEF e, s, m

LEMMA BlankLineStep ==
  ASSUME FewKills, IInv, BlankLine
  PROVE  IInv'
<1> DEFINE p == position'
           m == messages[Message]
           r == ReadLength(file, p)
           b == [i \in 1..r |-> Blank]
           g == file'
<1>1. /\ pc = "blank" /\ p = IF Full THEN headerSize ELSE position
      /\ g = Overwrite(file, p, b)
      /\ lap' = IF Full THEN << >> ELSE lap
      /\ seams' = IF Full THEN seams \cup {position} ELSE seams
      /\ pc' = "write"
      /\ UNCHANGED <<level, exists, headerSize, messages, saved, crashes>>
  BY DEF BlankLine
<1>2. /\ m \in Lengths /\ m \in Nat /\ m > MaxHeader + 1 /\ m < MaxLogSize
      /\ MaxHeader \in Nat /\ MaxLogSize \in Nat
  BY <1>1, MessageInHand, ConstantTypes DEF IInv
<1>3. /\ file \in Seq(Cell) /\ Len(file) \in Nat /\ Len(file) < MaxLogSize
      /\ saved \in 0..MaxLogSize /\ saved \in Nat /\ crashes \in 0..MaxCrashes
      /\ position \in 0..MaxLogSize /\ messages \in Seq(Lengths) /\ exists
      /\ TypeOK /\ Calls /\ file # << >>
  <2>1. TypeOK /\ Calls
    BY DEF IInv
  <2>2. exists /\ file # << >>
    BY <1>1, <2>1 DEF Calls
  <2> QED
    BY <2>1, <2>2, ConstantTypes DEF TypeOK, BelowMaxSize
<1>4. /\ p \in 0..Len(file) /\ Border(file, p) /\ p + m < MaxLogSize
      /\ saved = 0 => p = 0 /\ ~ Full
      /\ saved # 0 => /\ position = saved /\ MaxHeader <= p
                      /\ p = saved <=> ~ Full
      /\ Full => /\ saved # 0 /\ p < saved /\ saved + m >= MaxLogSize
                 /\ p <= MaxHeader + crashes * Loss
                 /\ \A z \in Nat : Clean(file, saved, z) /\ MaxHeader <= z => p <= z
  <2> HIDE DEF p, m
  <2> QED
    BY <1>1, Place DEF m
<1> HIDE DEF p, m, r, g
<1>5. /\ r \in Nat /\ p \in Nat /\ p + r <= Len(file) /\ r <= ReadMax
      /\ p < Len(file) => r > 0
  <2>1. r \in 0..(Len(file) - p) /\ r <= ReadMax /\ (p < Len(file) => r > 0)
    BY <1>3, <1>4, ReadLengthFacts DEF r
  <2> QED
    BY <1>3, <1>4, <2>1
<1>6. b \in Seq(Cell) /\ Len(b) = r /\ \A i \in 1..r : b[i] = Blank
  <2>1. Blank \in Cell
    BY DEF Cell
  <2> QED
    BY <1>5, <2>1
<1> HIDE DEF b
<1>7. /\ g \in Seq(Cell) /\ Len(g) = Len(file)
      /\ \A i \in 1..Len(file) : g[i] = IF p < i /\ i <= p + r THEN Blank ELSE file[i]
  <2>1. /\ g \in Seq(Cell)
        /\ Len(g) = IF Len(file) >= p + r THEN Len(file) ELSE p + r
        /\ \A i \in 1..Len(g) : g[i] = IF p < i /\ i <= p + r THEN b[i - p] ELSE file[i]
    BY <1>1, <1>3, <1>4, <1>6, OverwriteFacts
  <2>2. Len(g) = Len(file)
    BY <1>3, <1>5, <2>1
  <2>3. ASSUME NEW i \in 1..Len(file), p < i, i <= p + r PROVE b[i - p] = Blank
    <3>1. i - p \in 1..r
      BY <1>3, <1>5, <2>3
    <3> QED
      BY <1>6, <3>1
  <2> QED
    BY <2>1, <2>2, <2>3
<1>8. /\ pc' = "write" /\ Start' = p /\ InHand' /\ messages'[Message'] = m /\ Message' = Message
      /\ p = position'
  BY <1>1 DEF Start, InHand, Message, p, m
<1>9. Again' <=> Full
  BY <1>1, <1>4, <1>8 DEF Again
<1>10. TypeOK'
  <2>1. position' \in 0..MaxLogSize /\ file' \in Seq(Cell) /\ Len(file') < MaxLogSize
    BY <1>2, <1>3, <1>4, <1>7, <1>8 DEF g
  <2>2. seams' \subseteq 0..MaxLogSize
        /\ lap' \in Seq([id : 1..MaxMessages, start : 0..MaxLogSize])
    BY <1>1, <1>3, EmptySeq DEF TypeOK
  <2> QED
    BY <1>1, <1>3, <2>1, <2>2 DEF TypeOK, BelowMaxSize
<1>11. Calls'
  <2>1. g # << >>
    BY <1>3, <1>7
  <2> QED
    BY <1>1, <1>3, <2>1 DEF Calls, g
<1>12. First'
  <2>1. ASSUME saved = 0 PROVE g[1] # Prefix(1) /\ p = 0 /\ lap' = << >>
    <3>1. p = 0 /\ ~ Full /\ 1 \in 1..Len(file) /\ r >= 1
      BY <1>3, <1>4, <1>5, <2>1
    <3>2. g[1] = Blank
      BY <1>5, <1>7, <3>1
    <3>3. lap' = << >>
      BY <1>1, <2>1, <3>1 DEF IInv, First
    <3> QED
      BY <3>1, <3>2, <3>3 DEF Blank, Prefix
  <2> QED
    BY <1>1, <1>8, <2>1 DEF First, g
<1>13. Kept'
  <2> SUFFICES ASSUME saved # 0
               PROVE  Begins(g, HeaderText(saved)) /\ MaxHeader + 1 < saved /\ saved <= Len(g)
    BY <1>1 DEF Kept, g
  <2>1. Begins(file, HeaderText(saved)) /\ MaxHeader + 1 < saved /\ saved <= Len(file)
    BY DEF IInv, Kept
  <2>2. Len(HeaderText(saved)) \in 1..MaxHeader
    BY <1>3, HeaderLength
  <2>3. Len(HeaderText(saved)) \in Nat /\ Len(HeaderText(saved)) <= MaxHeader
    BY <1>2, <2>2
  <2>4. \A i \in 1..MaxHeader : i <= Len(file) => g[i] = file[i]
    BY <1>2, <1>3, <1>4, <1>5, <1>7
  <2>5. Begins(g, HeaderText(saved))
    BY <1>2, <1>3, <1>7, <2>1, <2>3, <2>4, BeginsKept
  <2> QED
    BY <1>7, <2>1, <2>5
<1>14. Hand'
  <2>1. Border(g, p)
    <3>1. p # 0 => p \in 1..Len(file) /\ g[p] = file[p]
      BY <1>3, <1>4, <1>5, <1>7
    <3> QED
      BY <1>4, <3>1 DEF Border
  <2>2. p \in 0..Len(g)
    BY <1>4, <1>7
  <2>3. Full => lap' = << >> /\ saved \in seams' /\ MaxHeader <= p
    BY <1>1, <1>4
  <2> QED
    BY <1>1, <1>4, <1>8, <1>9, <2>1, <2>2, <2>3 DEF Hand, g
<1>15. LapKept'
  <2>1. CASE Full
    BY <1>1, <2>1 DEF LapKept
  <2>2. CASE ~ Full
    <3> SUFFICES ASSUME NEW i \in DOMAIN lap
                 PROVE  /\ lap[i].id \in DOMAIN messages
                        /\ lap[i].start + messages[lap[i].id] <= saved
                        /\ lap[i].start # 0 =>
                             /\ lap[i].start >= MaxHeader
                             /\ Copy(g, messages[lap[i].id], lap[i].id, lap[i].start)
      BY <1>1, <2>2 DEF LapKept, g
    <3>1. saved # 0
      <4>1. lap # << >>
        OBVIOUS
      <4> QED
        BY <4>1 DEF IInv, First
    <3>2. p = saved
      BY <1>4, <2>2, <3>1
    <3>3. \A k \in (MaxHeader + 1)..saved : k <= Len(file) => g[k] = file[k]
      BY <1>2, <1>3, <1>4, <1>5, <1>7, <3>2
    <3>4. Len(file) <= Len(g) /\ LapKept
      BY <1>3, <1>7 DEF IInv
    <3> QED
      BY <1>3, <1>7, <3>3, <3>4, LapMemberKept
  <2> QED
    BY <2>1, <2>2
<1>16. Lines'
  <2> DEFINE X == seams \cup {saved}
             q == p + r
  <2>1. WholeBut(file, messages, X)
    <3>1. X = seams \cup {saved} \cup (IF InHand THEN {position} ELSE {})
      BY <1>1 DEF InHand
    <3> QED
      BY <3>1 DEF IInv, Lines
  <2>2. q \in Nat /\ p <= q
    BY <1>5
  <2>3. \A i \in 1..Len(g) : i <= p \/ i > q => i <= Len(file) /\ g[i] = file[i]
    BY <1>3, <1>5, <1>7
  <2>4. \A s \in (p + 1)..(q - 1) : s > MaxHeader => g[s] # NewLine
    <3>1. ASSUME NEW s \in (p + 1)..(q - 1) PROVE g[s] = Blank
      <4>1. s \in 1..Len(file) /\ p < s /\ s <= p + r
        BY <1>3, <1>5
      <4> QED
        BY <1>7, <4>1
    <3> QED
      BY <3>1 DEF Blank, NewLine
  <2>5. WholeBut(g, messages, X \cup {p, q})
    <3> HIDE DEF X, q
    <3>1. Len(file) <= Len(g)
      BY <1>3, <1>7
    <3> QED
      BY <1>3, <1>4, <1>7, <2>1, <2>2, <2>3, <2>4, <3>1, LinesKept
  <2>6. q = p \/ (q \in 1..Len(file) => g[q] = Blank)
    BY <1>3, <1>5, <1>7
  <2>7. WholeBut(g, messages, X \cup {p})
    <3>1. ASSUME NEW s \in (MaxHeader + 1)..(Len(g) - 1), g[s] = NewLine, s \notin X \cup {p}
          PROVE  s \notin X \cup {p, q}
      <4>1. s \in 1..Len(file)
        BY <1>2, <1>3, <1>7
      <4>2. s # q
        BY <2>6, <3>1, <4>1 DEF Blank, NewLine
      <4> QED
        BY <3>1, <4>2
    <3> HIDE DEF X, q
    <3> QED
      BY <2>5, <3>1 DEF WholeBut
  <2>8. X \cup {p} \subseteq seams' \cup {saved} \cup {p}
    BY <1>1
  <2>9. WholeBut(g, messages, seams' \cup {saved} \cup {p})
    <3> HIDE DEF X, q
    <3> QED
      BY <2>7, <2>8 DEF WholeBut
  <2> QED
    BY <1>1, <1>8, <2>9 DEF Lines, g
<1>17. FrontIsClean'
  <2>1. CASE ~ Full
    <3> SUFFICES ASSUME saved # 0
                 PROVE  /\ g[saved] = NewLine
                        /\ \E z \in MaxHeader..(saved - 1) :
                             Clean(g, saved, z) /\ z <= MaxHeader + crashes * Loss
      BY <1>1, <1>9, <2>1 DEF FrontIsClean, g
    <3>1. ~ Again
      BY <1>1 DEF Again, InHand
    <3>2. PICK z \in MaxHeader..(saved - 1) :
            Clean(file, saved, z) /\ z <= MaxHeader + crashes * Loss
      BY <3>1 DEF IInv, FrontIsClean
    <3>3. file[saved] = NewLine /\ saved \in 1..Len(file)
      <4>1. saved <= Len(file) /\ file[saved] = NewLine
        BY <3>1 DEF IInv, FrontIsClean, Kept
      <4> QED
        BY <1>3, <4>1
    <3>4. \A i \in 1..saved : g[i] = file[i]
      BY <1>3, <1>4, <1>5, <1>7, <2>1, <3>3
    <3>5. g[saved] = NewLine
      BY <1>3, <3>3, <3>4
    <3>6. z \in Nat /\ z < saved /\ \A i \in (z + 1)..saved : g[i] = file[i]
      BY <1>2, <1>3, <3>4
    <3>7. Clean(g, saved, z)
      BY <1>3, <1>7, <3>2, <3>6, CleanKept
    <3> QED
      BY <3>2, <3>5, <3>7
  <2>2. CASE Full
    <3> SUFFICES ASSUME crashes < MaxCrashes
                 PROVE  /\ g[saved] = NewLine
                        /\ \E z \in MaxHeader..(saved - 1) :
                             /\ Clean(g, saved, z)
                             /\ p + Loss - 1 <= z /\ z <= MaxHeader + (crashes + 1) * Loss
      BY <1>1, <1>8, <1>9, <2>2 DEF FrontIsClean, g
    <3>1. ~ Again /\ saved # 0
      BY <1>1, <1>4, <2>2 DEF Again, InHand
    <3>2. PICK z \in MaxHeader..(saved - 1) :
            Clean(file, saved, z) /\ z <= MaxHeader + crashes * Loss
      BY <3>1 DEF IInv, FrontIsClean
    <3>3. file[saved] = NewLine /\ saved \in 1..Len(file)
      <4>1. saved <= Len(file) /\ file[saved] = NewLine
        BY <3>1 DEF IInv, FrontIsClean, Kept
      <4> QED
        BY <1>3, <3>1, <4>1
    <3>4. z \in Nat /\ MaxHeader <= z /\ z < saved /\ p <= z
      <4>1. z \in Nat /\ MaxHeader <= z /\ z < saved
        BY <1>2, <1>3
      <4> QED
        BY <1>4, <2>2, <3>2, <4>1
    <3>5. Loss \in Nat /\ r < Loss /\ Loss > 0
      BY <1>5, LossFacts, ConstantTypes
    <3>6. /\ crashes * Loss \in Nat /\ (crashes + 1) * Loss = crashes * Loss + Loss
          /\ MaxHeader + crashes * Loss + Loss + m < MaxLogSize
      <4>1. crashes + 1 \in 0..MaxCrashes
        BY <1>3, ConstantTypes
      <4>2. MaxHeader + (crashes + 1) * Loss + m < MaxLogSize
        BY <1>2, <4>1, KillRoom
      <4>3. crashes * Loss \in Nat /\ (crashes + 1) * Loss = crashes * Loss + Loss
        BY <1>3, <3>5
      <4> QED
        BY <1>2, <3>5, <4>2, <4>3
    <3> DEFINE w == z + Loss - 1
    <3>7. /\ w \in Nat /\ z <= w /\ w + 2 <= saved
          /\ w + 1 <= MaxHeader + crashes * Loss + Loss
      BY <1>2, <1>3, <1>4, <2>2, <3>2, <3>4, <3>5, <3>6
    <3> HIDE DEF w
    <3>8. PICK y \in {w, w + 1} : Clean(file, saved, y)
      BY <1>3, <3>2, <3>4, <3>7, CleanLater
    <3>9. y \in Nat /\ y < saved /\ w <= y /\ y <= w + 1
      BY <1>3, <3>7
    <3>10. p + Loss - 1 <= y /\ MaxHeader <= y /\ p + r <= y
      BY <1>2, <1>5, <3>4, <3>5, <3>9 DEF w
    <3>11. \A i \in (y + 1)..saved : g[i] = file[i]
      BY <1>3, <1>5, <1>7, <3>3, <3>9, <3>10
    <3>12. Clean(g, saved, y)
      BY <1>3, <1>7, <3>8, <3>9, <3>11, CleanKept
    <3>13. g[saved] = NewLine
      <4>1. saved \in (y + 1)..saved
        BY <1>3, <3>9
      <4> QED
        BY <3>3, <3>11, <4>1
    <3>14. y \in MaxHeader..(saved - 1) /\ y <= MaxHeader + (crashes + 1) * Loss
      BY <1>2, <1>3, <3>5, <3>6, <3>7, <3>9, <3>10
    <3> QED
      BY <3>10, <3>12, <3>13, <3>14
  <2> QED
    BY <2>1, <2>2
<1> QED
  BY <1>10, <1>11, <1>12, <1>13, <1>14, <1>15, <1>16, <1>17 DEF IInv

LEMMA WriteMessageStep ==
  ASSUME IInv, WriteMessage
  PROVE  IInv'
<1> DEFINE p == position
           m == messages[Message]
           t == Text(m, Message)
           g == file'
<1>1. /\ pc = "write" /\ g = Overwrite(file, p, t) /\ position' = p + m /\ pc' = "header"
      /\ UNCHANGED <<level, exists, headerSize, messages, lap, saved, seams, crashes>>
  BY DEF WriteMessage, MessageText, Text
<1>2. /\ m \in Lengths /\ m \in Nat /\ m > MaxHeader + 1 /\ m < MaxLogSize
      /\ MaxHeader \in Nat /\ MaxLogSize \in Nat /\ Message \in DOMAIN messages
      /\ t \in Seq(Cell) /\ Len(t) = m
      /\ \A k \in 1..m : t[k] = IF k = m THEN NewLine ELSE Char(Message, k)
  BY <1>1, MessageInHand, TextFacts, ConstantTypes DEF IInv
<1>3. /\ file \in Seq(Cell) /\ Len(file) \in Nat /\ Len(file) < MaxLogSize
      /\ saved \in 0..MaxLogSize /\ saved \in Nat /\ crashes \in 0..MaxCrashes
      /\ messages \in Seq(Lengths) /\ exists /\ TypeOK /\ Calls
  <2>1. TypeOK /\ Calls
    BY DEF IInv
  <2>2. exists
    BY <1>1, <2>1 DEF Calls
  <2> QED
    BY <2>1, <2>2, ConstantTypes DEF TypeOK, BelowMaxSize
<1>4. InHand /\ Start = p /\ InHand' /\ Start' = p /\ Message' = Message
      /\ messages'[Message'] = m /\ (Again' <=> Again)
  <2>1. InHand /\ Start = p /\ InHand' /\ Message' = Message /\ messages'[Message'] = m
    BY <1>1 DEF InHand, Start, Message
  <2>2. p \in Nat
    BY ConstantTypes DEF IInv, TypeOK
  <2>3. Start' = p
    <3>1. Start' = position' - messages'[Message']
      BY <1>1 DEF Start
    <3> HIDE DEF p, m
    <3> QED
      BY <1>1, <1>2, <2>1, <2>2, <3>1
  <2> QED
    BY <1>1, <2>1, <2>3 DEF Again
<1> HIDE DEF m, t, g
<1>5. /\ p \in 0..Len(file) /\ Border(file, p) /\ p + m < MaxLogSize
      /\ saved = 0 => p = 0
      /\ Again => /\ lap = << >> /\ saved \in seams
                  /\ MaxHeader <= p /\ p <= MaxHeader + crashes * Loss
                  /\ saved + m >= MaxLogSize
      /\ saved # 0 /\ ~ Again => p = saved
  BY <1>4 DEF IInv, Hand, Again, m
<1>6. p \in Nat /\ p <= Len(file)
  BY <1>3, <1>5
<1>7. /\ g \in Seq(Cell) /\ Len(g) \in Nat
      /\ Len(g) = IF Len(file) >= p + m THEN Len(file) ELSE p + m
      /\ Len(file) <= Len(g) /\ p + m <= Len(g) /\ Len(g) < MaxLogSize
      /\ \A i \in 1..Len(g) : g[i] = IF p < i /\ i <= p + m THEN t[i - p] ELSE file[i]
  <2>1. /\ g \in Seq(Cell)
        /\ Len(g) = IF Len(file) >= p + m THEN Len(file) ELSE p + m
        /\ \A i \in 1..Len(g) : g[i] = IF p < i /\ i <= p + m THEN t[i - p] ELSE file[i]
    BY <1>1, <1>2, <1>3, <1>5, OverwriteFacts
  <2> QED
    BY <1>2, <1>3, <1>5, <1>6, <2>1
<1>8. Copy(g, m, Message, p)
  <2>1. ASSUME NEW k \in 1..m PROVE g[p + k] = t[k]
    <3> DEFINE j == p + k
    <3>1. j \in 1..Len(g) /\ p < j /\ j <= p + m /\ j - p = k
      BY <1>2, <1>6, <1>7
    <3> HIDE DEF j
    <3>2. g[j] = t[k]
      BY <1>7, <3>1
    <3> QED
      BY <3>2 DEF j
  <2> QED
    BY <1>7, <2>1 DEF Copy, t
<1>9. TypeOK'
  <2>1. p + m \in 0..MaxLogSize
    BY <1>2, <1>5, <1>6
  <2> QED
    BY <1>1, <1>3, <1>7, <2>1 DEF TypeOK, BelowMaxSize, g
<1>10. Calls'
  <2>1. g # << >>
    BY <1>2, <1>6, <1>7
  <2> QED
    BY <1>1, <1>3, <2>1 DEF Calls, g
<1>11. First'
  <2>1. ASSUME saved = 0 PROVE g[1] # Prefix(1) /\ position' = m /\ lap = << >>
    <3>1. p = 0 /\ 1 \in 1..m /\ 1 # m
      BY <1>2, <1>5, <2>1
    <3>2. g[p + 1] = Char(Message, 1)
      BY <1>8, <3>1 DEF Copy, Text
    <3>3. lap = << >>
      BY <2>1 DEF IInv, First
    <3>4. g[1] = Char(Message, 1) /\ position' = m
      BY <1>1, <1>2, <3>1, <3>2
    <3> QED
      BY <3>3, <3>4 DEF Char, Prefix
  <2> QED
    BY <1>1, <1>4, <2>1 DEF First, g
<1>12. saved # 0 => MaxHeader <= p /\ MaxHeader + 1 < saved /\ saved <= Len(file)
  BY <1>2, <1>3, <1>5 DEF IInv, Kept
<1>13. Kept'
  <2> SUFFICES ASSUME saved # 0
               PROVE  Begins(g, HeaderText(saved)) /\ MaxHeader + 1 < saved /\ saved <= Len(g)
    BY <1>1 DEF Kept, g
  <2>1. Begins(file, HeaderText(saved))
    BY DEF IInv, Kept
  <2>2. Len(HeaderText(saved)) \in 1..MaxHeader
    BY <1>3, HeaderLength
  <2>3. Len(HeaderText(saved)) \in Nat /\ Len(HeaderText(saved)) <= MaxHeader
    BY <1>2, <2>2
  <2>4. \A i \in 1..MaxHeader : i <= Len(file) => g[i] = file[i]
    BY <1>2, <1>3, <1>6, <1>7, <1>12
  <2>5. /\ Len(file) \in Nat /\ Len(g) \in Nat /\ Len(file) <= Len(g)
        /\ MaxHeader \in Nat
    BY <1>2, <1>3, <1>7
  <2>6. Begins(g, HeaderText(saved))
    BY <2>1, <2>3, <2>4, <2>5, BeginsKept
  <2> QED
    BY <1>3, <1>7, <1>12, <2>6
<1>14. Border(g, p)
  <2>1. p # 0 => p \in 1..Len(g) /\ g[p] = file[p]
    BY <1>3, <1>6, <1>7
  <2> QED
    BY <1>5, <2>1 DEF Border
<1>15. Hand'
  <2>1. p \in 0..Len(g)
    BY <1>3, <1>6, <1>7
  <2> QED
    BY <1>1, <1>4, <1>5, <1>8, <1>14, <2>1 DEF Hand, g
<1>16. LapKept'
  <2> SUFFICES ASSUME NEW i \in DOMAIN lap
               PROVE  /\ lap[i].id \in DOMAIN messages
                      /\ lap[i].start + messages[lap[i].id] <= saved
                      /\ lap[i].start # 0 =>
                           /\ lap[i].start >= MaxHeader
                           /\ Copy(g, messages[lap[i].id], lap[i].id, lap[i].start)
    BY <1>1 DEF LapKept, g
  <2>1. saved # 0 /\ ~ Again
    <3>1. lap # << >>
      OBVIOUS
    <3> QED
      BY <1>5, <3>1 DEF IInv, First
  <2>2. p = saved
    BY <1>5, <2>1
  <2>3. \A k \in (MaxHeader + 1)..saved : k <= Len(file) => g[k] = file[k]
    BY <1>2, <1>3, <1>6, <1>7, <2>2
  <2>4. LapKept
    BY DEF IInv
  <2> QED
    BY <1>3, <1>7, <2>3, <2>4, LapMemberKept
<1>17. Lines'
  <2> DEFINE X == seams \cup {saved} \cup {p}
             q == p + m
  <2>1. WholeBut(file, messages, X)
    BY <1>4 DEF IInv, Lines
  <2>2. q \in Nat /\ p <= q
    BY <1>2, <1>6
  <2>3. \A i \in 1..Len(g) : i <= p \/ i > q => i <= Len(file) /\ g[i] = file[i]
    BY <1>2, <1>3, <1>6, <1>7
  <2>4. \A s \in (p + 1)..(q - 1) : s > MaxHeader => g[s] # NewLine
    <3>1. ASSUME NEW s \in (p + 1)..(q - 1) PROVE g[s] # NewLine
      <4>1. s - p \in 1..m /\ s - p # m /\ s = p + (s - p)
        BY <1>2, <1>6
      <4>2. g[s] = Char(Message, s - p)
        BY <1>8, <4>1 DEF Copy, Text
      <4> QED
        BY <4>2 DEF Char, NewLine
    <3> QED
      BY <3>1
  <2>5. WholeBut(g, messages, X \cup {p, q})
    <3> HIDE DEF X, q
    <3> QED
      BY <1>3, <1>5, <1>7, <2>1, <2>2, <2>3, <2>4, LinesKept
  <2>6. WholeBut(g, messages, seams \cup {saved} \cup {q})
    <3> SUFFICES ASSUME NEW s \in (MaxHeader + 1)..(Len(g) - 1), g[s] = NewLine,
                        s \notin seams \cup {saved} \cup {q}
                 PROVE  \E e \in DOMAIN messages : Copy(g, messages[e], e, s)
      BY DEF WholeBut
    <3>1. CASE s = p
      BY <1>2, <1>8, <3>1 DEF m
    <3>2. CASE s # p
      <4>1. s \notin X \cup {p, q}
        BY <3>2
      <4> HIDE DEF X, q
      <4> QED
        BY <2>5, <4>1 DEF WholeBut
    <3> QED
      BY <3>1, <3>2
  <2>7. position' = q
    BY <1>1
  <2> HIDE DEF q
  <2> QED
    BY <1>1, <1>4, <2>6, <2>7 DEF Lines, g
<1>18. FrontIsClean'
  <2> SUFFICES ASSUME saved # 0, Again => crashes < MaxCrashes
               PROVE  /\ g[saved] = NewLine
                      /\ \E z \in MaxHeader..(saved - 1) :
                           /\ Clean(g, saved, z)
                           /\ IF Again
                              THEN p + Loss - 1 <= z /\ z <= MaxHeader + (crashes + 1) * Loss
                              ELSE z <= MaxHeader + crashes * Loss
    BY <1>1, <1>4 DEF FrontIsClean, g
  <2>1. file[saved] = NewLine
    BY DEF IInv, FrontIsClean
  <2>2. PICK z \in MaxHeader..(saved - 1) :
          /\ Clean(file, saved, z)
          /\ IF Again
             THEN p + Loss - 1 <= z /\ z <= MaxHeader + (crashes + 1) * Loss
             ELSE z <= MaxHeader + crashes * Loss
    BY <1>4 DEF IInv, FrontIsClean
  <2>3. z \in Nat /\ z < saved /\ saved <= Len(file)
    BY <1>2, <1>3, <1>12
  <2>4. \A i \in (z + 1)..saved : g[i] = file[i]
    <3>1. CASE Again
      <4>1. p + m <= z
        <5>1. m < Loss /\ Loss \in Nat
          BY <1>2, LossFacts
        <5>2. p + Loss - 1 <= z
          BY <2>2, <3>1
        <5> QED
          BY <1>2, <1>6, <2>3, <5>1, <5>2
      <4>2. ASSUME NEW i \in (z + 1)..saved PROVE i \in 1..Len(g) /\ ~ (i <= p + m)
        BY <1>2, <1>3, <1>6, <1>7, <2>3, <4>1
      <4> QED
        BY <1>7, <4>2
    <3>2. CASE ~ Again
      BY <1>2, <1>3, <1>5, <1>6, <1>7, <2>3, <3>2
    <3> QED
      BY <3>1, <3>2
  <2>5. Clean(g, saved, z)
    BY <1>3, <1>7, <2>2, <2>3, <2>4, CleanKept
  <2>6. g[saved] = NewLine
    <3>1. saved \in (z + 1)..saved
      BY <1>3, <2>3
    <3> QED
      BY <2>1, <2>4, <3>1
  <2> QED
    BY <2>2, <2>5, <2>6
<1> QED
  BY <1>9, <1>10, <1>11, <1>13, <1>15, <1>16, <1>17, <1>18 DEF IInv

LEMMA WriteHeaderStep ==
  ASSUME IInv, WriteHeader
  PROVE  IInv'
<1> DEFINE m == messages[Message]
           s == Start
           h == HeaderText(position)
           g == file'
           entry == [id |-> Message, start |-> s]
<1>1. /\ pc = "header" /\ g = Overwrite(file, 0, h) /\ lap' = Append(lap, entry)
      /\ saved' = position /\ pc' = "idle"
      /\ UNCHANGED <<level, exists, position, headerSize, messages, seams, crashes>>
  BY DEF WriteHeader, Start
<1>2. /\ m \in Lengths /\ m \in Nat /\ m > MaxHeader + 1 /\ m < MaxLogSize
      /\ MaxHeader \in Nat /\ MaxLogSize \in Nat /\ Message \in DOMAIN messages
      /\ Message \in 1..MaxMessages
  BY <1>1, MessageInHand, ConstantTypes DEF IInv
<1>3. /\ file \in Seq(Cell) /\ Len(file) \in Nat /\ Len(file) < MaxLogSize
      /\ saved \in 0..MaxLogSize /\ saved \in Nat /\ crashes \in 0..MaxCrashes
      /\ position \in 0..MaxLogSize /\ position \in Nat
      /\ messages \in Seq(Lengths) /\ exists /\ TypeOK /\ Calls
      /\ lap \in Seq([id : 1..MaxMessages, start : 0..MaxLogSize])
  <2>1. TypeOK /\ Calls
    BY DEF IInv
  <2>2. exists
    BY <1>1, <2>1 DEF Calls
  <2> QED
    BY <2>1, <2>2, ConstantTypes DEF TypeOK, BelowMaxSize
<1>4. InHand /\ s = position - m
  BY <1>1 DEF InHand, Start
<1>5. /\ s \in 0..Len(file) /\ Copy(file, m, Message, s)
      /\ saved = 0 => s = 0
      /\ Again => /\ lap = << >> /\ saved \in seams
                  /\ MaxHeader <= s /\ s <= MaxHeader + crashes * Loss
      /\ saved # 0 /\ ~ Again => s = saved
      /\ saved # 0 => MaxHeader + 1 < saved
  BY <1>1, <1>4 DEF IInv, Hand, Again, Kept
<1> HIDE DEF m, s, h, g
<1>6. s \in Nat /\ position = s + m /\ s + m <= Len(file)
  BY <1>2, <1>3, <1>4, <1>5 DEF Copy
<1>7. h \in Seq(Cell) /\ Len(h) \in Nat /\ 1 <= Len(h) /\ Len(h) <= MaxHeader
  <2>1. h \in Seq(Cell) /\ Len(h) \in 1..MaxHeader
    BY <1>3, HeaderTextFacts, HeaderLength DEF h
  <2> QED
    BY <1>2, <2>1
<1>8. /\ g \in Seq(Cell) /\ Len(g) = Len(file)
      /\ \A i \in 1..Len(file) : g[i] = IF i <= Len(h) THEN h[i] ELSE file[i]
  <2>1. /\ g \in Seq(Cell)
        /\ Len(g) = IF Len(file) >= 0 + Len(h) THEN Len(file) ELSE 0 + Len(h)
        /\ \A i \in 1..Len(g) :
             g[i] = IF 0 < i /\ i <= 0 + Len(h) THEN h[i - 0] ELSE file[i]
    <3>1. 0 \in 0..Len(file)
      BY <1>3
    <3> QED
      BY <1>1, <1>3, <1>7, <3>1, OverwriteFacts
  <2>2. Len(h) <= Len(file)
    BY <1>2, <1>3, <1>6, <1>7
  <2>3. Len(g) = Len(file)
    BY <1>3, <1>7, <2>1, <2>2
  <2>4. \A i \in 1..Len(file) : i - 0 = i /\ 0 < i
    BY <1>3
  <2> QED
    BY <1>7, <2>1, <2>3, <2>4
<1>9. \A i \in (MaxHeader + 1)..Len(file) : g[i] = file[i]
  BY <1>2, <1>3, <1>7, <1>8
<1>10. s # 0 => s >= MaxHeader
  BY <1>2, <1>3, <1>5
<1>11. ASSUME s # 0 PROVE Copy(g, m, Message, s)
  <2>1. \A i \in (s + 1)..(s + m) : g[i] = file[i]
    BY <1>2, <1>3, <1>6, <1>9, <1>10, <1>11
  <2>2. Len(file) <= Len(g) /\ m \in Nat
    BY <1>2, <1>3, <1>8
  <2> QED
    BY <1>3, <1>5, <1>6, <1>8, <2>1, <2>2, CopyKept
<1>12. TypeOK'
  <2>1. entry \in [id : 1..MaxMessages, start : 0..MaxLogSize]
    <3>1. s \in 0..MaxLogSize
      BY <1>2, <1>3, <1>6
    <3> QED
      BY <1>2, <3>1
  <2>2. lap' \in Seq([id : 1..MaxMessages, start : 0..MaxLogSize])
    BY <1>1, <1>3, <2>1, AppendProperties
  <2> QED
    BY <1>1, <1>3, <1>8, <2>2 DEF TypeOK, BelowMaxSize, g
<1>13. position > MaxHeader + 1 /\ position <= Len(g)
  BY <1>2, <1>3, <1>6, <1>8
<1>14. Calls'
  <2>1. g # << >>
    BY <1>2, <1>3, <1>13
  <2> QED
    BY <1>1, <1>3, <2>1 DEF Calls, g
<1>15. First' /\ Hand'
  BY <1>1, <1>2, <1>13 DEF First, Hand, InHand
<1>16. Kept'
  <2>1. Begins(g, h)
    <3>1. Len(h) <= Len(file)
      BY <1>2, <1>3, <1>6, <1>7
    <3>2. \A i \in 1..Len(h) : i \in 1..Len(file) /\ i <= Len(h)
      BY <1>3, <1>7, <3>1
    <3> QED
      BY <1>8, <3>1, <3>2 DEF Begins
  <2> QED
    BY <1>1, <1>13, <2>1 DEF Kept, g, h
<1>17. LapKept'
  <2>1. lap = << >> \/ (saved # 0 /\ saved <= position)
    <3>1. saved = 0 => lap = << >>
      BY DEF IInv, First
    <3> QED
      BY <1>2, <1>3, <1>5, <1>6, <3>1
  <2>2. ASSUME NEW i \in DOMAIN lap
        PROVE  /\ lap[i].id \in DOMAIN messages
               /\ lap[i].start \in Nat /\ messages[lap[i].id] \in Nat
               /\ lap[i].start + messages[lap[i].id] <= saved
               /\ lap[i].start # 0 =>
                    /\ lap[i].start >= MaxHeader
                    /\ Copy(g, messages[lap[i].id], lap[i].id, lap[i].start)
    <3>1. \A k \in (MaxHeader + 1)..saved : k <= Len(file) => g[k] = file[k]
      <4>1. ASSUME NEW k \in (MaxHeader + 1)..saved, k <= Len(file) PROVE g[k] = file[k]
        <5>1. k \in (MaxHeader + 1)..Len(file)
          BY <1>2, <1>3, <4>1
        <5> QED
          BY <1>9, <5>1
      <4> QED
        BY <4>1
    <3>2. LapKept /\ Len(file) <= Len(g)
      BY <1>3, <1>8 DEF IInv
    <3> QED
      BY <1>3, <1>8, <3>1, <3>2, LapMemberKept
  <2>3. ASSUME NEW i \in DOMAIN lap PROVE lap[i].start + messages[lap[i].id] <= position
    <3> DEFINE a == lap[i].start
               b == messages[lap[i].id]
    <3>1. a \in Nat /\ b \in Nat /\ a + b <= saved
      BY <2>2
    <3>2. lap # << >>
      OBVIOUS
    <3> HIDE DEF a, b
    <3>3. a + b <= position
      BY <1>3, <2>1, <3>1, <3>2
    <3> QED
      BY <3>3 DEF a, b
  <2>4. /\ lap' \in Seq([id : 1..MaxMessages, start : 0..MaxLogSize])
        /\ Len(lap') = Len(lap) + 1 /\ lap'[Len(lap) + 1] = entry
        /\ \A i \in 1..Len(lap) : lap'[i] = lap[i]
    <3>1. entry \in [id : 1..MaxMessages, start : 0..MaxLogSize]
      <4>1. s \in 0..MaxLogSize
        BY <1>2, <1>3, <1>6
      <4> QED
        BY <1>2, <4>1
    <3> HIDE DEF entry
    <3> QED
      BY <1>1, <1>3, <3>1, AppendProperties
  <2> SUFFICES ASSUME NEW i \in DOMAIN lap'
               PROVE  /\ lap'[i].id \in DOMAIN messages
                      /\ lap'[i].start + messages[lap'[i].id] <= position
                      /\ lap'[i].start # 0 =>
                           /\ lap'[i].start >= MaxHeader
                           /\ Copy(g, messages[lap'[i].id], lap'[i].id, lap'[i].start)
    BY <1>1 DEF LapKept, g
  <2>5. i \in 1..Len(lap) \/ i = Len(lap) + 1
    <3>1. i \in 1..Len(lap') /\ Len(lap) \in Nat
      BY <1>3, <2>4
    <3> QED
      BY <2>4, <3>1
  <2>6. CASE i \in 1..Len(lap)
    <3>1. lap'[i] = lap[i]
      BY <2>4, <2>6
    <3>2. i \in DOMAIN lap
      BY <1>3, <2>6
    <3> QED
      BY <2>2, <2>3, <3>1, <3>2
  <2>7. CASE i = Len(lap) + 1
    <3>1. lap'[i].id = Message /\ lap'[i].start = s
      BY <2>4, <2>7
    <3>2. s + messages[Message] <= position
      BY <1>2, <1>3, <1>6 DEF m
    <3> QED
      BY <1>2, <1>10, <1>11, <3>1, <3>2 DEF m
  <2> QED
    BY <2>5, <2>6, <2>7
<1>18. Lines'
  <2> DEFINE X == seams \cup {saved} \cup {position}
             q == Len(h)
  <2>1. WholeBut(file, messages, X)
    BY <1>4 DEF IInv, Lines
  <2>2. 0 \in 0..Len(file) /\ q \in Nat /\ 0 <= q /\ Len(file) <= Len(g) /\ Border(file, 0)
    BY <1>3, <1>7, <1>8 DEF Border
  <2>3. \A i \in 1..Len(g) : i <= 0 \/ i > q => i <= Len(file) /\ g[i] = file[i]
    BY <1>3, <1>7, <1>8
  <2>4. \A i \in (0 + 1)..(q - 1) : i > MaxHeader => g[i] # NewLine
    BY <1>2, <1>7
  <2>5. WholeBut(g, messages, X \cup {0, q})
    <3> HIDE DEF X, q
    <3> QED
      BY <1>3, <1>8, <2>1, <2>2, <2>3, <2>4, LinesKept
  <2>6. WholeBut(g, messages, seams \cup {position})
    <3> SUFFICES ASSUME NEW k \in (MaxHeader + 1)..(Len(g) - 1), g[k] = NewLine,
                        k \notin seams \cup {position}
                 PROVE  \E e \in DOMAIN messages : Copy(g, messages[e], e, k)
      BY DEF WholeBut
    <3>1. k \in Nat /\ k > MaxHeader
      BY <1>2
    <3>2. CASE k = saved
      <4>1. s = saved /\ s # 0
        BY <1>2, <1>5, <3>1, <3>2
      <4> QED
        BY <1>2, <1>11, <3>2, <4>1 DEF m
    <3>3. CASE k # saved
      <4>1. k \notin X \cup {0, q}
        BY <1>2, <1>7, <3>1, <3>3
      <4> HIDE DEF X, q
      <4> QED
        BY <2>5, <4>1 DEF WholeBut
    <3> QED
      BY <3>2, <3>3
  <2>7. seams \cup {position} = seams' \cup {saved'} \cup {}
    BY <1>1
  <2> HIDE DEF X, q
  <2> QED
    BY <1>1, <2>6, <2>7 DEF Lines, InHand, g
<1>19. FrontIsClean'
  <2> SUFFICES /\ g[position] = NewLine
               /\ \E z \in MaxHeader..(position - 1) :
                    Clean(g, position, z) /\ z <= MaxHeader + crashes * Loss
    BY <1>1 DEF FrontIsClean, Again, InHand, g
  <2>1. g[position] = NewLine
    <3>1. m \in 1..m /\ position \in (MaxHeader + 1)..Len(file)
      BY <1>2, <1>3, <1>6, <1>13, <1>8
    <3>2. file[s + m] = NewLine
      BY <1>5, <3>1 DEF Copy, Text
    <3> QED
      BY <1>6, <1>9, <3>1, <3>2
  <2>2. \E z \in MaxHeader..(position - 1) :
          Clean(file, position, z) /\ z <= MaxHeader + crashes * Loss
    <3>1. /\ \A z \in s..(s + m - 2) : Clean(file, s + m, z)
          /\ \A z \in 0..(s - 1) : Clean(file, s, z) => Clean(file, s + m, z)
      <4>1. m > 1
        BY <1>2
      <4> QED
        BY <1>2, <1>3, <1>5, <1>6, <4>1, CleanMessage
    <3>2. crashes * Loss \in Nat
      BY <1>3, LossFacts, ConstantTypes
    <3>3. CASE saved = 0
      <4>1. s = 0 /\ MaxHeader \in s..(s + m - 2) /\ MaxHeader \in MaxHeader..(position - 1)
        BY <1>2, <1>3, <1>5, <1>6, <3>3
      <4>2. MaxHeader <= MaxHeader + crashes * Loss
        BY <1>2, <3>2
      <4> QED
        BY <1>6, <3>1, <4>1, <4>2
    <3>4. CASE Again
      <4>1. s \in s..(s + m - 2) /\ s \in MaxHeader..(position - 1)
        BY <1>2, <1>3, <1>5, <1>6, <3>4
      <4> QED
        BY <1>5, <1>6, <3>1, <3>4, <4>1
    <3>5. CASE saved # 0 /\ ~ Again
      <4>1. s = saved
        BY <1>5, <3>5
      <4>2. PICK z \in MaxHeader..(saved - 1) :
              Clean(file, saved, z) /\ z <= MaxHeader + crashes * Loss
        BY <3>5 DEF IInv, FrontIsClean
      <4>3. z \in 0..(s - 1) /\ z \in MaxHeader..(position - 1)
        BY <1>2, <1>3, <1>6, <4>1
      <4> QED
        BY <1>6, <3>1, <4>1, <4>2, <4>3
    <3> QED
      BY <3>3, <3>4, <3>5
  <2>3. PICK z \in MaxHeader..(position - 1) :
          Clean(file, position, z) /\ z <= MaxHeader + crashes * Loss
    BY <2>2
  <2>4. z \in Nat /\ z < position
    BY <1>2, <1>3
  <2>5. \A i \in (z + 1)..position : g[i] = file[i]
    <3>1. ASSUME NEW i \in (z + 1)..position PROVE i \in (MaxHeader + 1)..Len(file)
      BY <1>2, <1>3, <1>6, <2>4
    <3> QED
      BY <1>9, <3>1
  <2>6. Clean(g, position, z)
    BY <1>3, <1>8, <2>3, <2>4, <2>5, CleanKept
  <2> QED
    BY <2>1, <2>3, <2>6
<1> QED
  BY <1>12, <1>14, <1>15, <1>16, <1>17, <1>18, <1>19 DEF IInv

LEMMA NextStep ==
  ASSUME FewKills, IInv, [Next]_vars
  PROVE  IInv'
<1>1. CASE SetLevel
  BY <1>1, SetLevelStep
<1>2. CASE Log
  BY <1>2, LogStep
<1>3. CASE Read
  BY <1>3, ReadStep
<1>4. CASE Create
  BY <1>4, CreateStep
<1>5. CASE BlankLine
  BY <1>5, BlankLineStep
<1>6. CASE WriteMessage
  BY <1>6, WriteMessageStep
<1>7. CASE WriteHeader
  BY <1>7, WriteHeaderStep
<1>8. CASE Crash
  BY <1>8, CrashStep
<1>9. CASE UNCHANGED vars
  <2>1. level' \in 0..3
    BY <1>9 DEF vars, IInv, TypeOK
  <2> QED
    BY <1>9, <2>1, UnchangedStep DEF vars
<1> QED
  BY <1>1, <1>2, <1>3, <1>4, <1>5, <1>6, <1>7, <1>8, <1>9 DEF Next

-----------------------------------------------------------------------------
(***************************************************************************)
(* The theorems.                                                           *)
(***************************************************************************)
LEMMA Invariance ==
  ASSUME FewKills
  PROVE  Spec => []IInv
<1>1. IInv /\ [Next]_vars => IInv'
  BY NextStep
<1> QED
  BY <1>1, InitInv, PTL DEF Spec

(* Unless the program is killed too often, the file stays below            *)
(* MAX_LOG_SIZE, and so do the positions (log.c:59-62 and 93-96).          *)
THEOREM TypeCorrect ==
  ASSUME FewKills
  PROVE  Spec => []TypeOK
<1>1. IInv => TypeOK
  BY DEF IInv
<1> QED
  BY <1>1, Invariance, PTL

(* And the first line always says where the last finished call stopped     *)
(* (log.c:49-55 and 115-117).                                              *)
THEOREM FirstLineIsRight ==
  ASSUME FewKills
  PROVE  Spec => []ResumesAtEnd
<1>1. ASSUME IInv, saved # 0 PROVE HasHeader(file) /\ ReadPosition(file) = saved
  <2>1. saved \in Nat /\ file \in Seq(Cell) /\ Begins(file, HeaderText(saved))
    BY <1>1, ConstantTypes DEF IInv, TypeOK, Kept
  <2> QED
    BY <2>1, HeaderRead
<1>2. IInv => ResumesAtEnd
  BY <1>1 DEF ResumesAtEnd
<1> QED
  BY <1>2, Invariance, PTL

(* Stands and Copy are the same. *)
LEMMA StandsFromCopy ==
  ASSUME TypeOK, NEW e \in DOMAIN messages, NEW s \in Nat
  PROVE  Stands(e, s) <=> Copy(file, messages[e], e, s)
<1>1. file \in Seq(Cell) /\ messages \in Seq(Lengths)
  BY DEF TypeOK
<1>2. messages[e] \in Nat
  <2>1. messages[e] \in Lengths
    BY <1>1
  <2> QED
    BY <2>1, ConstantTypes
<1>3. MessageText(e) = Text(messages[e], e)
  BY DEF MessageText, Text
<1> QED
  BY <1>1, <1>2, <1>3, CopyIsStands DEF Stands

(* No message written since writing last started again is damaged, neither *)
(* by a later call nor by the first line (log.c:98-117).                   *)
THEOREM LapStands ==
  ASSUME FewKills
  PROVE  Spec => []LapIsIntact
<1>1. ASSUME IInv, NEW i \in DOMAIN lap, lap[i].start # 0
      PROVE  Stands(lap[i].id, lap[i].start)
  <2> DEFINE e == lap[i].id
             s == lap[i].start
  <2>1. TypeOK /\ LapKept /\ file \in Seq(Cell) /\ Len(file) <= Len(file)
    BY <1>1 DEF IInv, TypeOK
  <2>2. e \in DOMAIN messages /\ s \in Nat /\ Copy(file, messages[e], e, s)
    BY <1>1, <2>1, LapMemberKept
  <2> HIDE DEF e, s
  <2>3. Stands(e, s)
    BY <2>1, <2>2, StandsFromCopy
  <2> QED
    BY <2>3 DEF e, s
<1>2. IInv => LapIsIntact
  BY <1>1 DEF LapIsIntact
<1> QED
  BY <1>2, Invariance, PTL

(* Overwriting tears lines only where writing was left off (log.c:98-111). *)
THEOREM OthersAreWhole ==
  ASSUME FewKills
  PROVE  Spec => []TornAtSeamsOnly
<1>1. ASSUME IInv, pc = "idle", NEW s \in LineStarts \ (seams \cup {saved})
      PROVE  IsMessage(s)
  <2>1. s \in (MaxHeader + 1)..(Len(file) - 1) /\ file[s] = NewLine
    BY DEF LineStarts
  <2>2. TypeOK /\ WholeBut(file, messages, seams \cup {saved} \cup {})
    BY <1>1 DEF IInv, Lines, InHand
  <2>3. PICK e \in DOMAIN messages : Copy(file, messages[e], e, s)
    BY <2>1, <2>2 DEF WholeBut
  <2>4. s \in Nat
    <3>1. Len(file) \in Nat
      BY <2>2 DEF TypeOK
    <3> QED
      BY <2>1, <3>1, ConstantTypes
  <2>5. Stands(e, s)
    BY <2>2, <2>3, <2>4, StandsFromCopy
  <2> QED
    BY <2>5 DEF IsMessage
<1>2. IInv => TornAtSeamsOnly
  BY <1>1 DEF TornAtSeamsOnly
<1> QED
  BY <1>2, Invariance, PTL
=============================================================================
