------------------------------- MODULE AgentLog -------------------------------
(***************************************************************************)
(* The logger of the LAN agent (uselibuci/src/log.c).  Threads share a     *)
(* path and a level; a message that the level lets through is formatted    *)
(* into a line of bounded size and, under log_mutex, appended to the file  *)
(* the path names, or to stderr when that file cannot be opened.           *)
(*                                                                         *)
(* set_log_file writes the path without the mutex, while log_message reads *)
(* it under the mutex: a data race.  The path is two halves, written and   *)
(* read one after the other, and a path of different halves names a file   *)
(* nobody asked for.  A character is NewLine or another one; a line is     *)
(* appended at once, as stdio buffers more than LineSize characters.  Left *)
(* out: NULL and overlong paths, a failing vsnprintf, and cleanup_logger,  *)
(* which does nothing.                                                     *)
(***************************************************************************)
EXTENDS Integers, Sequences, SequencesExt

CONSTANTS
  Threads,      (* Threads that log.                                       *)
  Setters,      (* The threads among them that call set_log_file.          *)
  Names,        (* Paths of log files.                                     *)
  DefaultName,  (* "application.log".                                      *)
  Characters,   (* What lines are made of.                                 *)
  Header,       (* "[time] LEVEL: ".                                       *)
  Contents,     (* What the formats of the messages give.                  *)
  NewLine,
  LineSize,     (* MAX_LOG_LINE_SIZE.                                      *)
  NoName,
  MaxCalls      (* Bound: calls.                                           *)

ASSUME LogAssumption ==
  /\ Setters \subseteq Threads
  /\ DefaultName \in Names /\ NoName \notin Names \cup Threads
  /\ NewLine \in Characters
  /\ Header \in Seq(Characters) /\ Contents \subseteq Seq(Characters)
  /\ LineSize \in Nat /\ MaxCalls \in Nat
  /\ Header # << >> /\ Len(Header) < LineSize - 2

VARIABLES
  path,      (* logger_config.log_file_path, its two halves.               *)
  level,     (* logger_config.log_level.                                   *)
  mutex,     (* The thread that holds log_mutex, or NoName.                *)
  openable,  (* The paths that can be opened for appending.                *)
  created,   (* The files that were made.                                  *)
  files,     (* The lines of each file.                                    *)
  stderr,    (* The lines on stderr.                                       *)
  lost,      (* History: lines whose write failed; nothing looks at that.  *)
  pc,        (* Where each thread is.                                      *)
  arg,       (* The argument of a set_log_file that is under way.          *)
  half,      (* The half of the path that a fopen has read.                *)
  target,    (* The path of the file that is open.                         *)
  line,      (* log_buffer of each thread.                                 *)
  raced,     (* History: whether the path changed under the thread's fopen.*)
  before,    (* History: the path when set_log_file began.                 *)
  promised,  (* History: the previous path that a failing set_log_file     *)
             (* says is used, or NoName.                                   *)
  calls      (* Calls so far.                                              *)

vars == <<path, level, mutex, openable, created, files, stderr, lost, pc, arg,
          half, target, line, raced, before, promised, calls>>

shared == <<path, level, before, promised, openable>>
output == <<files, stderr, lost>>

Levels == 0..3     (* LOG_LVL_NONE, _ERROR, _WARN, _DEBUG *)

Paths == Names \X Names

Whole(n) == <<n, n>>

(* A line: its message by the number of the call, the messages that were   *)
(* finished when the call began, and whether it was written in a race.     *)
Line == [id : 0..MaxCalls, after : SUBSET (0..MaxCalls), text : Seq(Characters),
         raced : BOOLEAN]

NoLine == [id |-> 0, after |-> {}, text |-> << >>, raced |-> FALSE]

Ids(s) == {s[i].id : i \in DOMAIN s}

Init ==
  /\ path = Whole(DefaultName) /\ level = 3
  /\ mutex = NoName
  /\ openable \in {P \in SUBSET Paths : Paths \ P \subseteq {Whole(n) : n \in Names}}
  /\ created = {} /\ files = [p \in Paths |-> << >>] /\ stderr = << >> /\ lost = << >>
  /\ pc = [t \in Threads |-> "idle"]
  /\ arg = [t \in Threads |-> NoName] /\ half = [t \in Threads |-> NoName]
  /\ target = [t \in Threads |-> NoName]
  /\ line = [t \in Threads |-> NoLine]
  /\ raced = [t \in Threads |-> FALSE]
  /\ before = Whole(DefaultName) /\ promised = NoName /\ calls = 0

Goto(t, l) == pc' = [pc EXCEPT ![t] = l]

Calls(t) == pc[t] = "idle" /\ calls < MaxCalls /\ calls' = calls + 1

(* Mutant of SetLevel: any level is stored. *)
SetLevelUnchecked(t) ==
  /\ Calls(t)
  /\ \E l \in -1..4 : level' = l % 256
  /\ UNCHANGED <<path, before, promised, mutex, openable, created, output, pc, arg,
                 half, target, line, raced>>

SetLevel(t) ==
  /\ Calls(t)
  /\ \E l \in -1..4 : level' = IF l \in Levels THEN l ELSE level
  /\ UNCHANGED <<path, before, promised, mutex, openable, created, output, pc, arg,
                 half, target, line, raced>>

-----------------------------------------------------------------------------
(* set_log_file: strncpy, and a fopen that shows whether the path is good. *)

(* A fopen that is reading the path while it changes. *)
PathChanges == raced' = [t \in Threads |-> raced[t] \/ pc[t] \in {"opening", "probing"}]

SetFile(t) ==
  /\ t \in Setters /\ Calls(t)
  /\ \E n \in Names : /\ arg' = [arg EXCEPT ![t] = n]
                      /\ path' = <<n, path[2]>>
  /\ before' = path
  /\ promised' = NoName
  /\ PathChanges
  /\ Goto(t, "copy")
  /\ UNCHANGED <<level, mutex, openable, created, output, half, target, line>>

(* Mutant of CopyRest: the size of a pointer bounds the copy, not the size *)
(* of the array.                                                           *)
CopyNoMore(t) ==
  /\ pc[t] = "copy"
  /\ PathChanges
  /\ Goto(t, "probe")
  /\ UNCHANGED <<shared, mutex, created, output, arg, half, target, line, calls>>

CopyRest(t) ==
  /\ pc[t] = "copy"
  /\ path' = <<path[1], arg[t]>>
  /\ PathChanges
  /\ Goto(t, "probe")
  /\ UNCHANGED <<level, before, promised, mutex, openable, created, output, arg,
                 half, target, line, calls>>

(* init_logger is the same fopen, of the path as it is. *)
InitLogger(t) ==
  /\ Calls(t)
  /\ arg' = [arg EXCEPT ![t] = NoName]
  /\ Goto(t, "probe")
  /\ UNCHANGED <<shared, mutex, created, output, half, target, line, raced>>

(* fopen reads the first half of the path; the threads that are writing it *)
(* race with it.                                                           *)
ReadHalf(t, from, to) ==
  /\ pc[t] = from
  /\ half' = [half EXCEPT ![t] = path[1]]
  /\ raced' = [raced EXCEPT ![t] = \E u \in Threads : pc[u] = "copy"]
  /\ Goto(t, to)
  /\ UNCHANGED <<shared, mutex, created, output, arg, target, line, calls>>

ProbeHalf(t) == ReadHalf(t, "probe", "probing")

(* The file is made if need be; otherwise a failing set_log_file says that *)
(* the previous log file is used.                                          *)
Probe(t) ==
  /\ pc[t] = "probing"
  /\ LET p == <<half[t], path[2]>> IN
       IF p \in openable
       THEN created' = created \cup {p} /\ UNCHANGED promised
       ELSE /\ UNCHANGED created
            /\ promised' = IF arg[t] = NoName THEN promised ELSE before
  /\ Goto(t, "idle")
  /\ UNCHANGED <<path, level, before, mutex, openable, output, arg, half, target,
                 line, raced, calls>>

-----------------------------------------------------------------------------
(* log_message *)

(* Mutant of Terminated: the bound leaves no room for the newline. *)
TerminatedLate(text) ==
  IF Len(text) < LineSize
  THEN IF Last(text) = NewLine THEN text ELSE Append(text, NewLine)
  ELSE Append(SubSeq(text, 1, LineSize - 2), NewLine)

(* The line in the buffer for a text that vsnprintf cuts at the buffer's   *)
(* size: it ends in a newline.                                             *)
Terminated(text) ==
  IF Len(text) < LineSize - 2
  THEN IF Last(text) = NewLine THEN text ELSE Append(text, NewLine)
  ELSE Append(SubSeq(text, 1, LineSize - 2), NewLine)

(* The messages that were written, or whose write failed. *)
Finished == (UNION {Ids(files[p]) : p \in Paths}) \cup Ids(stderr) \cup Ids(lost)

Log(t) ==
  /\ Calls(t)
  /\ \E l \in 0..4, c \in Contents :
       IF l = 0 \/ l > 3 \/ l > level
       THEN UNCHANGED <<pc, line>>
       ELSE /\ line' = [line EXCEPT ![t] =
                          [id |-> calls', after |-> Finished,
                           text |-> Terminated(Header \o c), raced |-> FALSE]]
            /\ Goto(t, "wait")
  /\ UNCHANGED <<shared, mutex, created, output, arg, half, target, raced>>

Lock(t) ==
  /\ pc[t] = "wait" /\ mutex = NoName
  /\ mutex' = t
  /\ Goto(t, "locked")
  /\ UNCHANGED <<shared, created, output, arg, half, target, line, raced, calls>>

OpenHalf(t) == ReadHalf(t, "locked", "opening")

Holding(t) == [line[t] EXCEPT !.raced = raced[t]]

(* Mutant of Open: a file that cannot be opened leaves the mutex locked. *)
OpenReturns(t) ==
  /\ pc[t] = "opening"
  /\ LET p == <<half[t], path[2]>> IN
       IF p \in openable
       THEN /\ target' = [target EXCEPT ![t] = p] /\ created' = created \cup {p}
            /\ Goto(t, "write") /\ UNCHANGED stderr
       ELSE /\ stderr' = Append(stderr, Holding(t))
            /\ Goto(t, "idle") /\ UNCHANGED <<target, created>>
  /\ UNCHANGED <<shared, mutex, files, lost, arg, half, line, raced, calls>>

Open(t) ==
  /\ pc[t] = "opening"
  /\ LET p == <<half[t], path[2]>> IN
       IF p \in openable
       THEN /\ target' = [target EXCEPT ![t] = p] /\ created' = created \cup {p}
            /\ Goto(t, "write") /\ UNCHANGED stderr
       ELSE /\ stderr' = Append(stderr, Holding(t))
            /\ Goto(t, "unlock") /\ UNCHANGED <<target, created>>
  /\ UNCHANGED <<shared, mutex, files, lost, arg, half, line, raced, calls>>

(* Mutants of Write: fopen(path, "w") and fopen(path, "r+"). *)
WriteTruncates(t) ==
  /\ pc[t] = "write"
  /\ \/ files' = [files EXCEPT ![target[t]] = <<Holding(t)>>] /\ UNCHANGED lost
     \/ lost' = Append(lost, Holding(t)) /\ UNCHANGED files
  /\ Goto(t, "unlock")
  /\ UNCHANGED <<shared, mutex, created, stderr, arg, half, target, line,
                 raced, calls>>

WriteInFront(t) ==
  /\ pc[t] = "write"
  /\ \/ files' = [files EXCEPT ![target[t]] = <<Holding(t)>> \o @] /\ UNCHANGED lost
     \/ lost' = Append(lost, Holding(t)) /\ UNCHANGED files
  /\ Goto(t, "unlock")
  /\ UNCHANGED <<shared, mutex, created, stderr, arg, half, target, line,
                 raced, calls>>

(* fputs and fclose, whose results nobody looks at: a full disk loses the  *)
(* line.                                                                   *)
Write(t) ==
  /\ pc[t] = "write"
  /\ \/ files' = [files EXCEPT ![target[t]] = Append(@, Holding(t))] /\ UNCHANGED lost
     \/ lost' = Append(lost, Holding(t)) /\ UNCHANGED files
  /\ Goto(t, "unlock")
  /\ UNCHANGED <<shared, mutex, created, stderr, arg, half, target, line,
                 raced, calls>>

Unlock(t) ==
  /\ pc[t] = "unlock"
  /\ mutex' = NoName
  /\ Goto(t, "idle")
  /\ UNCHANGED <<shared, created, output, arg, half, target, line, raced, calls>>

-----------------------------------------------------------------------------
Step(t) ==
  \/ CopyRest(t) \/ ProbeHalf(t) \/ Probe(t)
  \/ Lock(t) \/ OpenHalf(t) \/ Open(t) \/ Write(t) \/ Unlock(t)

Next ==
  \E t \in Threads :
    SetLevel(t) \/ SetFile(t) \/ InitLogger(t) \/ Log(t) \/ Step(t)

Spec == Init /\ [][Next]_vars

(* A call that has begun goes on: nothing in it waits but for the mutex,   *)
(* and the calls are bounded, so that weak fairness gives the mutex to     *)
(* each thread.                                                            *)
FairSpec == Spec /\ \A t \in Threads : WF_vars(Step(t))

-----------------------------------------------------------------------------
TypeOK ==
  /\ path \in Paths /\ level \in Levels
  /\ mutex \in Threads \cup {NoName}
  /\ openable \subseteq Paths /\ created \subseteq openable
  /\ files \in [Paths -> Seq(Line)] /\ stderr \in Seq(Line) /\ lost \in Seq(Line)
  /\ pc \in [Threads -> {"idle", "copy", "probe", "probing", "wait", "locked",
                         "opening", "write", "unlock"}]
  /\ arg \in [Threads -> Names \cup {NoName}]
  /\ half \in [Threads -> Names \cup {NoName}]
  /\ target \in [Threads -> Paths \cup {NoName}]
  /\ line \in [Threads -> Line] /\ raced \in [Threads -> BOOLEAN]
  /\ before \in Paths /\ promised \in Paths \cup {NoName}
  /\ calls \in 0..MaxCalls

Places == {files[p] : p \in Paths} \cup {stderr}

InFlight == {line[t].id : t \in {u \in Threads : pc[u] \in {"wait", "locked", "opening", "write"}}}

NoRepeat(s) == \A i, j \in DOMAIN s : s[i].id = s[j].id => i = j

Apart(r, s) == Ids(r) \cap Ids(s) = {}

(* A message that was let through is in one place: in flight, in one file, *)
(* on stderr, or, when its write failed, nowhere (log.c:126-133).          *)
EachLineOnce ==
  /\ NoRepeat(stderr) /\ NoRepeat(lost) /\ Apart(stderr, lost)
  /\ \A p \in Paths :
       /\ NoRepeat(files[p]) /\ Apart(files[p], stderr) /\ Apart(files[p], lost)
       /\ \A q \in Paths \ {p} : Apart(files[p], files[q])
  /\ Finished \cap InFlight = {}
  /\ \A t \in Threads : line[t].id \in Finished \cup InFlight \cup {0}

WholeLine(text) ==
  /\ Last(text) = NewLine /\ Len(text) <= LineSize - 1
  /\ \E c \in Contents : IsPrefix(Front(text), Header \o c)

(* What is in the files are whole lines, none longer than the buffer, each *)
(* the beginning of its message with a newline behind (log.c:111-122).     *)
WholeLines == \A s \in Places : \A i \in DOMAIN s : WholeLine(s[i].text)

(* A message that was finished before another one began is before it in    *)
(* the file, whichever threads logged them (log.c:124-135).                *)
InRealTimeOrder ==
  \A s \in Places : \A i, j \in DOMAIN s : i < j => s[j].id \notin s[i].after

(* With one thread that sets the file, a line goes where no call named a   *)
(* file only if the path was being written while fopen read it (log.c:64   *)
(* and 127).                                                               *)
TornOnlyInRace ==
  \A p \in Paths : p[1] # p[2] =>
    \A i \in DOMAIN files[p] : files[p][i].raced

(* Each call ends: the mutex is always given back (log.c:124-135).         *)
CallsEnd == \A t \in Threads : pc[t] # "idle" ~> pc[t] = "idle"

(* "Cannot open new log file %s. Using previous log file." (log.c:71): but *)
(* the path has been overwritten by then (log.c:64).                       *)
PreviousKept == promised # NoName => path = promised

(* "Mutex for thread-safe logging" (log.c:30): but set_log_file does not   *)
(* take it, and log_message may read half of one path and half of another. *)
OnlyNamedFiles == \A p \in Paths : files[p] # << >> => p[1] = p[2]
=============================================================================
