----------------------------- MODULE CircularLog -----------------------------
(***************************************************************************)
(* LOG_printf_info of link_list: one file of bounded size.  Its first line *)
(* says where the next message goes; when a message would reach the bound  *)
(* writing starts again behind that line, over the oldest messages.  The   *)
(* program may be killed between any two writes and started again.         *)
(*                                                                         *)
(* The file is a sequence of cells, one per byte; an offset counts from 0, *)
(* as in fseek.  A cell is a piece of the text "current_position = ", a    *)
(* digit, a newline, a blank, or the k-th byte of the e-th message.        *)
(*                                                                         *)
(* Left out: a log directory that is missing (the program ends), and a     *)
(* file that can be statted but not read.                                  *)
(***************************************************************************)
EXTENDS Integers, Sequences, SequencesExt

CONSTANTS
  PrefixLength,  (* 19: the length of "current_position = ".               *)
  Base,          (* 10.                                                    *)
  MaxLogSize,    (* MAX_LOG_SIZE.                                          *)
  LevelArgs,     (* What LOG_set_level is called with.                     *)
  Lengths,       (* Lengths a message may have, its newline included.      *)
  ReadMax,       (* 999: what fgets reads into buffer_temp[1000] at most.  *)
  MaxMessages,   (* Bound: messages.                                       *)
  MaxCrashes     (* Bound: times the program is killed.                    *)

(* The digits of n, as printf writes them with %ld. *)
Digits[n \in Nat] ==
  IF n < Base THEN <<n>> ELSE Append(Digits[n \div Base], n % Base)

NumDigits(n) == Len(Digits[n])

MaxHeader == PrefixLength + NumDigits(MaxLogSize) + 1

(* A message is longer than the first line: its timestamp alone has 22     *)
(* bytes; and the positions at which writing starts again all have as many *)
(* digits as MAX_LOG_SIZE.                                                 *)
ASSUME CircularLogAssumption ==
  /\ PrefixLength \in Nat \ {0} /\ Base \in Nat \ {0, 1}
  /\ MaxLogSize \in Nat \ {0} /\ ReadMax \in Nat \ {0}
  /\ MaxMessages \in Nat /\ MaxCrashes \in Nat
  /\ Lengths \subseteq Nat
  /\ \A l \in Lengths :
       /\ l > MaxHeader + 1 /\ l < MaxLogSize
       /\ NumDigits(MaxLogSize - l) = NumDigits(MaxLogSize)

VARIABLES
  exists,      (* Whether stat finds the file.                             *)
  file,        (* Its bytes.                                               *)
  position,    (* current_position, which survives from call to call.      *)
  level,       (* log_run_level.                                           *)
  headerSize,  (* header_size.                                             *)
  pc,          (* "idle", "read", "create", "blank", "write", "header": *)
               (* what LOG_printf_info does next.                          *)
  messages,    (* History: the lengths of all messages so far.             *)
  lap,         (* History: the messages written since writing last started *)
               (* again: records [id, start].                              *)
  saved,       (* History: the end of the last message whose call ended.   *)
  seams,       (* History: offsets at which writing was left off, to start *)
               (* again at the front or because the program was killed.    *)
  crashes      (* Bounded counter of the kills.                            *)

vars == <<exists, file, position, level, headerSize, pc, messages, lap, saved,
          seams, crashes>>

-----------------------------------------------------------------------------
(***************************************************************************)
(* Bytes.                                                                  *)
(***************************************************************************)
Prefix(i)  == <<"prefix", i, 0>>
Digit(d)   == <<"digit", d, 0>>
Char(e, k) == <<"char", e, k>>
NewLine    == <<"newline", 0, 0>>
Blank      == <<"blank", 0, 0>>

Cell == {Prefix(i) : i \in 1..PrefixLength} \cup {Digit(d) : d \in 0..(Base - 1)}
        \cup {NewLine, Blank}
        \cup {Char(e, k) : e \in 1..MaxMessages, k \in 1..MaxLogSize}

(* "current_position = %ld\n" *)
HeaderText(n) ==
  [i \in 1..PrefixLength |-> Prefix(i)]
    \o [i \in 1..NumDigits(n) |-> Digit(Digits[n][i])]
    \o <<NewLine>>

MessageText(e) ==
  [k \in 1..messages[e] |-> IF k = messages[e] THEN NewLine ELSE Char(e, k)]

(* The file f after the bytes s were written at offset "at". *)
Overwrite(f, at, s) ==
  [i \in 1..Max({Len(f), at + Len(s)}) |->
     IF at < i /\ i <= at + Len(s) THEN s[i - at] ELSE f[i]]

(* The line at offset "at": up to the newline, or to the end. *)
LineLength(f, at) ==
  Min({n \in 0..(Len(f) - at) : n = Len(f) - at \/ (n > 0 /\ f[at + n] = NewLine)})

(* What fgets reads of it. *)
ReadLength(f, at) == Min({ReadMax, LineLength(f, at)})

(* fscanf with "current_position = %ld\n": whether it matches, the number, *)
(* and how far it reads.  The newline of the format skips every blank and  *)
(* newline.  What follows never starts with "c", so that the second fscanf *)
(* of the code reads nothing.                                              *)
HasHeader(f) ==
  /\ Len(f) > PrefixLength
  /\ \A i \in 1..PrefixLength : f[i] = Prefix(i)
  /\ f[PrefixLength + 1][1] = "digit"

LastDigit(f) ==
  Max({e \in (PrefixLength + 1)..Len(f) :
         \A i \in (PrefixLength + 1)..e : f[i][1] = "digit"})

(* The number that the first i digits behind the prefix make. *)
Number(f) ==
  LET n[i \in 0..(Len(f) - PrefixLength)] ==
        IF i = 0 THEN 0 ELSE Base * n[i - 1] + f[PrefixLength + i][2]
  IN  n

ReadPosition(f) == Number(f)[LastDigit(f) - PrefixLength]

(* Mutant of ReadSize: a format without the newline. *)
ReadSizeNoNewline(f) == LastDigit(f)

ReadSize(f) ==
  Max({h \in LastDigit(f)..Len(f) :
         \A i \in (LastDigit(f) + 1)..h : f[i] \in {NewLine, Blank}})

-----------------------------------------------------------------------------
Init ==
  /\ exists = FALSE
  /\ file = << >>
  /\ position = 0
  /\ level = 0
  /\ headerSize = 0
  /\ pc = "idle"
  /\ messages = << >>
  /\ lap = << >>
  /\ saved = 0
  /\ seams = {}
  /\ crashes = 0

Message == Len(messages)

(* LOG_set_level *)
SetLevel ==
  /\ pc = "idle"
  /\ \E l \in LevelArgs : level' = IF l \in 0..3 THEN l ELSE 1
  /\ UNCHANGED <<exists, file, position, headerSize, pc, messages, lap, saved,
                 seams, crashes>>

(* A message whose level is above log_run_level is dropped; one of level   *)
(* LOG_LVL_NONE never is.                                                  *)
Log ==
  /\ pc = "idle"
  /\ Len(messages) < MaxMessages
  /\ \E l \in 0..3 : l <= level
  /\ \E l \in Lengths : messages' = Append(messages, l)
  /\ headerSize' = 0
  /\ pc' = "read"
  /\ UNCHANGED <<level, exists, file, position, lap, saved, seams, crashes>>

(* stat and fscanf.  Without a match the position of the last call stays.  *)
Read ==
  /\ pc = "read"
  /\ headerSize' = IF exists /\ HasHeader(file) THEN ReadSize(file) ELSE 0
  /\ position' = IF ~ exists THEN 0
                 ELSE IF Len(file) >= MaxLogSize THEN headerSize'
                 ELSE IF HasHeader(file) THEN ReadPosition(file)
                 ELSE position
  /\ pc' = IF exists THEN "blank" ELSE "create"
  /\ UNCHANGED <<level, exists, file, messages, lap, saved, seams, crashes>>

(* A new file starts with a header that says header_size, which is 0: the  *)
(* header was not read.  The file is open for writing only, so that fgets  *)
(* finds no line to overwrite with blanks; and a message always fits.      *)
Create ==
  /\ pc = "create"
  /\ exists' = TRUE
  /\ file' = HeaderText(headerSize)
  /\ position' = headerSize
  /\ pc' = "write"
  /\ UNCHANGED <<level, headerSize, messages, lap, saved, seams, crashes>>

(* Mutant of Full: > instead of >=. *)
FullPastEnd == position + messages[Message] > MaxLogSize

Full == position + messages[Message] >= MaxLogSize

(* Start again at the front if the message does not fit, then overwrite    *)
(* the line that is there with blanks, its newline included.               *)
BlankLine ==
  /\ pc = "blank"
  /\ position' = IF Full THEN headerSize ELSE position
  /\ file' = Overwrite(file, position',
                       [i \in 1..ReadLength(file, position') |-> Blank])
  /\ lap' = IF Full THEN << >> ELSE lap
  /\ seams' = IF Full THEN seams \cup {position} ELSE seams
  /\ pc' = "write"
  /\ UNCHANGED <<level, exists, headerSize, messages, saved, crashes>>

(* Mutant of WriteMessage: the newline is not counted. *)
WriteMessageShort ==
  /\ pc = "write"
  /\ file' = Overwrite(file, position, MessageText(Message))
  /\ position' = position + messages[Message] - 1
  /\ pc' = "header"
  /\ UNCHANGED <<level, exists, headerSize, messages, lap, saved, seams, crashes>>

WriteMessage ==
  /\ pc = "write"
  /\ file' = Overwrite(file, position, MessageText(Message))
  /\ position' = position + messages[Message]
  /\ pc' = "header"
  /\ UNCHANGED <<level, exists, headerSize, messages, lap, saved, seams, crashes>>

(* Mutant of WriteHeader: it is the start of the message that is kept. *)
WriteHeaderStart ==
  /\ pc = "header"
  /\ file' = Overwrite(file, 0, HeaderText(position - messages[Message]))
  /\ lap' = Append(lap, [id |-> Message, start |-> position - messages[Message]])
  /\ saved' = position
  /\ pc' = "idle"
  /\ UNCHANGED <<level, exists, position, headerSize, messages, seams, crashes>>

WriteHeader ==
  /\ pc = "header"
  /\ file' = Overwrite(file, 0, HeaderText(position))
  /\ lap' = Append(lap, [id |-> Message, start |-> position - messages[Message]])
  /\ saved' = position
  /\ pc' = "idle"
  /\ UNCHANGED <<level, exists, position, headerSize, messages, seams, crashes>>

(* The program is killed, anywhere, and started again.  A message in hand  *)
(* leaves a torn line where it was to go, or one that nothing goes on from.*)
Crash ==
  /\ crashes < MaxCrashes
  /\ crashes' = crashes + 1
  /\ seams' = IF pc \in {"write", "header"} THEN seams \cup {position} ELSE seams
  /\ position' = 0 /\ level' = 0
  /\ headerSize' = 0
  /\ pc' = "idle"
  /\ UNCHANGED <<exists, file, messages, lap, saved>>

Next ==
  \/ SetLevel \/ Log \/ Read \/ Create \/ BlankLine \/ WriteMessage
  \/ WriteHeader \/ Crash

Spec == Init /\ [][Next]_vars

-----------------------------------------------------------------------------
(***************************************************************************)
(* How many kills there is room for.  Once writing has started again, and  *)
(* until the new first line is written, a kill leaves blanks behind the    *)
(* first line, which fscanf then skips together with it: the place where   *)
(* writing starts again moves on by less than Loss cells, for good.        *)
(***************************************************************************)
Loss == Max(Lengths \cup {ReadMax}) + 1

FewKills == \A l \in Lengths : MaxHeader + MaxCrashes * Loss + l < MaxLogSize

-----------------------------------------------------------------------------
(***************************************************************************)
(* Properties.                                                             *)
(***************************************************************************)
(* The file stays below MAX_LOG_SIZE, whatever is logged and, as long as   *)
(* FewKills leaves room, whenever the program dies: the wrap-around comes  *)
(* in time (log.c:59-62 and 93-96).                                        *)
BelowMaxSize == Len(file) < MaxLogSize

(* Types and bounds; the one of the file is what the wrap-around is for. *)
TypeOK ==
  /\ exists \in BOOLEAN
  /\ file \in Seq(Cell) /\ BelowMaxSize
  /\ position \in 0..MaxLogSize
  /\ level \in 0..3
  /\ headerSize \in 0..MaxLogSize
  /\ pc \in {"idle", "read", "create", "blank", "write", "header"}
  /\ messages \in Seq(Lengths)
  /\ lap \in Seq([id: 1..MaxMessages, start: 0..MaxLogSize])
  /\ saved \in 0..MaxLogSize
  /\ seams \subseteq 0..MaxLogSize
  /\ crashes \in 0..MaxCrashes

(* Whether message e stands in the file, from offset "start" on. *)
Stands(e, start) ==
  /\ start + messages[e] <= Len(file)
  /\ SubSeq(file, start + 1, start + messages[e]) = MessageText(e)

(* Once a call has ended the first line can be read and gives the end of   *)
(* the message it wrote, at every moment of the calls after it too: a new  *)
(* process goes on where the last one stopped.  Neither a message nor the  *)
(* blanks (log.c:98-111) ever reach into the first line.                   *)
ResumesAtEnd ==
  saved # 0 => HasHeader(file) /\ ReadPosition(file) = saved

(* What was written since writing last started again is all there: no call *)
(* damages a message of its own lap, and a kill loses the message in hand  *)
(* only.  The message at offset 0 is the one exception, see MessageWritten.*)
LapIsIntact ==
  \A i \in DOMAIN lap : lap[i].start # 0 => Stands(lap[i].id, lap[i].start)

LineStarts == {s \in (MaxHeader + 1)..(Len(file) - 1) : file[s] = NewLine}

IsMessage(s) == \E e \in DOMAIN messages : Stands(e, s)

(* A line is a whole message, unless it follows the first line or begins   *)
(* where writing goes on next or was once left off: overwriting tears no   *)
(* other line, although messages differ in length (log.c:98-111).          *)
TornAtSeamsOnly ==
  pc = "idle" => \A s \in LineStarts \ (seams \cup {saved}) : IsMessage(s)

(* The call writes its message to the log file (log.h:36-37): when it      *)
(* returns, the message is there.  It is not for the first message of a    *)
(* new file: it is written at 0, where the header then goes.               *)
MessageWritten ==
  \A i \in DOMAIN lap :
    (pc = "idle" /\ i = Len(lap)) => Stands(lap[i].id, lap[i].start)
=============================================================================
