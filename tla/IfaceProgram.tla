----------------------------- MODULE IfaceProgram -----------------------------
(***************************************************************************)
(* The program of link_list: main runs "ifconfig -a" into data.txt, reads  *)
(* that file, has the interface list (IfaceList) parse it, and writes the  *)
(* list to my_iface_list.txt.  Both files are truncated and then written   *)
(* bit by bit; any call that opens, reads or writes may fail, the program  *)
(* may be killed between two steps, and it is run again and again.         *)
(*                                                                         *)
(* The calls of list_search and everything printed are left out: they      *)
(* change nothing.                                                         *)
(***************************************************************************)
EXTENDS IfaceList

CONSTANT MaxRuns  (* Bound: runs of the program. *)

ASSUME ProgramAssumption == MaxRuns \in Nat

VARIABLES
  step,      (* Where main is; "down" when the program does not run.       *)
  code,      (* What main returned.                                        *)
  output,    (* The lines of ifconfig that are still in the pipe.          *)
  succeeds,  (* Whether ifconfig ends with exit status 0.                  *)
  dataFile,  (* data.txt.                                                  *)
  loaded,    (* The text in file_buffer.                                   *)
  fileBuffer,(* Blocks allocated for file_buffer and not yet freed.        *)
  listFile,  (* my_iface_list.txt.                                         *)
  unsaved,   (* The nodes save_list_to_file has still to write.            *)
  printed,   (* History: all that ifconfig printed in this run.            *)
  before,    (* History: my_iface_list.txt when this run started.          *)
  fault,     (* History: a failure of this run that main does not notice.  *)
  runs       (* Bounded counter.                                           *)

files == <<dataFile, listFile>>
locals == <<output, succeeds, loaded, fileBuffer, unsaved, printed>>
programVars == <<vars, step, code, files, locals, before, fault, runs>>

Running == step \notin {"down", "exited"}

(* The memory of a new process. *)
ProgramInit ==
  /\ Init
  /\ step = "down" /\ code = 0 /\ runs = 0
  /\ output = << >> /\ succeeds = TRUE /\ printed = << >>
  /\ dataFile = << >> /\ loaded = << >> /\ fileBuffer = 0
  /\ listFile = << >> /\ unsaved = << >> /\ before = << >>
  /\ fault = FALSE

Fresh ==
  /\ list' = << >> /\ origin' = << >> /\ allocated' = 0
  /\ pc' = "idle" /\ data' = << >> /\ line' = 0
  /\ buffers' = Empty /\ built' = 0 /\ header' = 0 /\ lost' = {}
  /\ calls' = 0

Start ==
  /\ ~ Running /\ runs < MaxRuns
  /\ runs' = runs + 1
  /\ Fresh
  /\ step' = "popen" /\ code' = 0
  /\ output' = << >> /\ succeeds' = TRUE /\ printed' = << >>
  /\ loaded' = << >> /\ fileBuffer' = 0 /\ unsaved' = << >>
  /\ before' = listFile /\ fault' = FALSE
  /\ UNCHANGED files

Exit(n) ==
  /\ step' = "exited"
  /\ code' = n

Goto(s) ==
  /\ step' = s
  /\ UNCHANGED code

(* run_command_and_save: whatever its argument, it runs PATH_CMD.          *)
Popen ==
  /\ step = "popen"
  /\ \/ \E d \in BoundedSeq(Lines, MaxLines), ok \in BOOLEAN :
          output' = d /\ printed' = d /\ succeeds' = ok /\ Goto("truncate")
     \/ Exit(1) /\ UNCHANGED <<output, printed, succeeds>>
  /\ UNCHANGED <<vars, files, loaded, fileBuffer, unsaved, before, fault, runs>>

(* Mutant of OpenData: data.txt is opened to append. *)
OpenDataAppend ==
  /\ step = "truncate"
  /\ (Goto("copy") \/ Exit(1)) /\ UNCHANGED dataFile
  /\ UNCHANGED <<vars, listFile, locals, before, fault, runs>>

OpenData ==
  /\ step = "truncate"
  /\ \/ dataFile' = << >> /\ Goto("copy")
     \/ UNCHANGED dataFile /\ Exit(1)
  /\ UNCHANGED <<vars, listFile, locals, before, fault, runs>>

CopyLine ==
  /\ step = "copy" /\ output # << >>
  /\ dataFile' = Append(dataFile, Head(output))
  /\ output' = Tail(output)
  /\ Goto("copy")
  /\ UNCHANGED <<vars, listFile, succeeds, loaded, fileBuffer, unsaved, printed, before,
                 fault, runs>>

(* An error of the pipe, of fputc or of fclose. *)
CopyFails ==
  /\ step = "copy"
  /\ Exit(1)
  /\ UNCHANGED <<vars, files, locals, before, fault, runs>>

(* The exit status of ifconfig is logged, and "true" is returned. *)
CopyDone ==
  /\ step = "copy" /\ output = << >>
  /\ Goto("load")
  /\ UNCHANGED <<vars, files, locals, before, fault, runs>>

(* Mutant of Load: without data the empty list is saved before main ends. *)
LoadSavesAnyway ==
  /\ step = "load"
  /\ \/ fileBuffer' = 1 /\ Goto("read") /\ UNCHANGED listFile
     \/ Exit(1) /\ UNCHANGED fileBuffer /\ listFile' = << >>
  /\ UNCHANGED <<vars, dataFile, output, succeeds, loaded, unsaved, printed, before,
                 fault, runs>>

(* load_data_from_file up to the allocation of the buffer, any call of     *)
(* which may fail.                                                         *)
Load ==
  /\ step = "load"
  /\ \/ fileBuffer' = 1 /\ Goto("read")
     \/ Exit(1) /\ UNCHANGED fileBuffer
  /\ UNCHANGED <<vars, files, output, succeeds, loaded, unsaved, printed, before,
                 fault, runs>>

(* free(file_buffer) *)
FreeBuffer == fileBuffer' = fileBuffer - 1

(* fread fills the buffer, or the buffer is freed again. *)
ReadData ==
  /\ step = "read"
  /\ \/ loaded' = dataFile /\ Goto("parse") /\ UNCHANGED fileBuffer
     \/ FreeBuffer /\ Exit(1) /\ UNCHANGED loaded
  /\ UNCHANGED <<vars, files, output, succeeds, unsaved, printed, before, fault, runs>>

(* parse_data_buffer returns nothing: main does not learn that it could    *)
(* not copy the buffer.                                                    *)
Parse ==
  /\ step = "parse"
  /\ \/ /\ ParseDataBuffer(loaded) /\ Goto("parsing")
        /\ UNCHANGED <<calls, fault, fileBuffer>>
     \/ UNCHANGED vars /\ FreeBuffer /\ Goto("open") /\ fault' = TRUE
  /\ UNCHANGED <<files, output, succeeds, loaded, unsaved, printed, before, runs>>

(* It does not learn either that a node could not be allocated. *)
Parsing ==
  /\ step = "parsing"
  /\ ParseStep
  /\ fault' = (fault \/ lost' # {})
  /\ UNCHANGED <<step, code, files, locals, before, runs>>

ParseReturns ==
  /\ step = "parsing" /\ pc = "idle"
  /\ FreeBuffer
  /\ Goto("open")
  /\ UNCHANGED <<vars, files, output, succeeds, loaded, unsaved, printed, before,
                 fault, runs>>

(* save_list_to_file returns nothing. *)
OpenList ==
  /\ step = "open"
  /\ \/ listFile' = << >> /\ unsaved' = list /\ Goto("save") /\ UNCHANGED fault
     \/ Goto("saved") /\ fault' = TRUE /\ UNCHANGED <<listFile, unsaved>>
  /\ UNCHANGED <<vars, dataFile, output, succeeds, loaded, fileBuffer, printed, before, runs>>

(* The result of fprintf is not looked at. *)
SaveNode ==
  /\ step = "save" /\ unsaved # << >>
  /\ \/ listFile' = Append(listFile, Head(unsaved)) /\ UNCHANGED fault
     \/ UNCHANGED listFile /\ fault' = TRUE
  /\ unsaved' = Tail(unsaved)
  /\ UNCHANGED <<vars, step, code, dataFile, output, succeeds, loaded, fileBuffer, printed,
                 before, runs>>

SaveDone ==
  /\ step = "save" /\ unsaved = << >>
  /\ Goto("saved")
  /\ UNCHANGED <<vars, files, locals, before, fault, runs>>

Finish ==
  /\ step = "saved"
  /\ DestroyList
  /\ Exit(0)
  /\ UNCHANGED <<calls, files, locals, before, fault, runs>>

Kill ==
  /\ Running
  /\ Goto("down")
  /\ UNCHANGED <<vars, files, locals, before, fault, runs>>

Work ==
  \/ Popen \/ OpenData \/ CopyLine \/ CopyFails \/ CopyDone \/ Load \/ ReadData
  \/ Parse \/ Parsing \/ ParseReturns \/ OpenList \/ SaveNode \/ SaveDone \/ Finish

ProgramNext == Start \/ Work \/ Kill

(* A program that is not killed keeps running. *)
ProgramSpec ==
  ProgramInit /\ [][ProgramNext]_programVars /\ WF_programVars(Work)

-----------------------------------------------------------------------------
ProgramTypeOK ==
  /\ TypeOK
  /\ step \in {"down", "popen", "truncate", "copy", "load", "read", "parse", "parsing",
               "open", "save", "saved", "exited"}
  /\ code \in {0, 1}
  /\ {output, dataFile, loaded, printed} \subseteq Seq(Lines)
  /\ {listFile, unsaved, before} \subseteq Seq(Node)
  /\ fileBuffer \in 0..1
  /\ succeeds \in BOOLEAN /\ fault \in BOOLEAN
  /\ runs \in 0..MaxRuns

(* Each node describes the first block of its name, and each name has one. *)
OneNodePerName(nodes) ==
  /\ \A i \in DOMAIN nodes :
       \E h \in DOMAIN data : \E e \in h..Len(data) :
         /\ IsBlock(h, e) /\ Describes(nodes[i], h, e)
         /\ \A g \in 1..(h - 1) :
              data[g].kind = "link" => data[g].name # data[h].name
  /\ \A h \in DOMAIN data : data[h].kind = "link" =>
       \E i \in DOMAIN nodes :
         /\ nodes[i].name = data[h].name
         /\ \A j \in DOMAIN nodes \ {i} : nodes[j].name # data[h].name

(* A run that ends well leaves in data.txt what ifconfig printed, and in   *)
(* my_iface_list.txt one node for each name, which describes the first     *)
(* block of that name, whatever was killed or went wrong in earlier runs.  *)
(* (main.c:28-55.  "fault" is what goes wrong without main's knowledge.)   *)
FilesAgree ==
  step = "exited" /\ code = 0 /\ ~ fault =>
    /\ data = printed /\ dataFile = printed
    /\ OneNodePerName(listFile)

(* A run that reports an error has not touched the saved list: the list of *)
(* the run before is still there (main.c:32-36 and 67-71).                 *)
OldListKept == step = "exited" /\ code = 1 => listFile = before

(* main returns with everything freed: the list, the copy that the parser  *)
(* works on, and file_buffer, whichever call failed (iface_list.c:293 and  *)
(* 434, main.c:49 and 64).                                                 *)
NothingLeft == step = "exited" => allocated + fileBuffer = 0 /\ list = << >>

(* Every run that is not killed ends. *)
RunEnds == Running ~> ~ Running

(* "@return true" if the command ran and the file was written              *)
(* successfully, "false if there is an error" (iface_list.h:104).  But the *)
(* exit status of ifconfig is only logged (iface_list.c:354-366).          *)
TrueMeansSuccess == step = "load" => succeeds

(* main says "Da luu danh sach.", the list is saved (main.c:55), when      *)
(* save_list_to_file has returned.  But that returns nothing, and the      *)
(* results of fopen, fprintf and fclose do not reach main                  *)
(* (iface_list.c:443-466).                                                 *)
SavedWhenSaid == step = "saved" => listFile = list
=============================================================================
