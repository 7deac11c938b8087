------------------------------ MODULE FileManager -----------------------------
(* The file manager of System Programming/HW1 (main.c): every command is a   *)
(* process of its own, several run at a time, and all of them share the      *)
(* directories, the files and log.txt.  An action is a system call.          *)
(*                                                                           *)
(* Names are those of one directory Dir and of a file in it.  A file is the  *)
(* sequence of cells written to it, and a time takes two cells, a content    *)
(* and a newline one.  A command that forks is one process here: the child   *)
(* does the work and the parent waits and exits with what wait reported.     *)
EXTENDS Integers, Sequences

CONSTANTS
  Procs,           (* processes that run at a time                            *)
  Dir, File,       (* the names                                               *)
  MaxCommands      (* bound: commands that are started                        *)

VARIABLES
  command,         (* what each process does                                  *)
  syscall,         (* the system call it makes next                           *)
  command_number,  (* and its number, counting from the first command         *)
  status,          (* the status it, or its child, ends with                  *)
  node,            (* the file it has open                                    *)
  commands_run,    (* commands started                                        *)
  entry,           (* what each name stands for: a file, DirNode or Nothing   *)
  files,           (* the cells of every file, numbered by its creator        *)
  flocks,          (* who has the write lock of each file, 0 for nobody       *)
  log_exists       (* log.txt exists                                          *)

process == <<command, syscall, command_number, status, node>>
fvars   == <<process, commands_run, entry, files, flocks, log_exists>>

Commands == {"createDir", "createFile", "listDir", "listFilesByExtension", "readFile",
             "appendToFile", "deleteFile", "deleteDir", "showLogs"}
Forking  == {"listDir", "listFilesByExtension", "deleteFile", "deleteDir"}
CommandNumbers == 1 .. MaxCommands
Nothing  == 0
DirNode  == MaxCommands + 1
Cell     == [by : CommandNumbers, kind : {"time", "content", "newline"}]

TypeOK ==
  /\ command \in [Procs -> Commands \cup {"none"}]
  /\ syscall \in [Procs -> {"none", "first", "time", "newline", "lock", "content", "newline2",
                            "unlock", "log", "exit"}]
  /\ command_number \in [Procs -> 0 .. MaxCommands]
  /\ status \in [Procs -> 0 .. 255] /\ node \in [Procs -> 0 .. MaxCommands]
  /\ commands_run \in 0 .. MaxCommands
  /\ entry \in [{Dir, File} -> 0 .. DirNode]
  /\ files \in [CommandNumbers -> Seq(Cell)] /\ flocks \in [CommandNumbers -> 0 .. MaxCommands]
  /\ log_exists \in BOOLEAN

(* The directory may be there from an earlier run. *)
Init ==
  /\ command = [p \in Procs |-> "none"] /\ syscall = [p \in Procs |-> "none"]
  /\ command_number = [p \in Procs |-> 0]
  /\ status = [p \in Procs |-> 0] /\ node = [p \in Procs |-> 0]
  /\ commands_run = 0
  /\ entry \in {[n \in {Dir, File} |-> IF n = Dir THEN d ELSE Nothing] : d \in {Nothing, DirNode}}
  /\ files = [n \in CommandNumbers |-> <<>>] /\ flocks = [n \in CommandNumbers |-> 0]
  /\ log_exists = FALSE
-----------------------------------------------------------------------------
Calls(p, from, to) == syscall[p] = from /\ syscall' = [syscall EXCEPT ![p] = to]
Ends(p, code)      == status' = [status EXCEPT ![p] = code]
Keeps(p)           == UNCHANGED <<command, command_number, commands_run, log_exists>>
Write(f, kinds, p) == files' = [files EXCEPT ![f] =
                        @ \o [k \in DOMAIN kinds |-> [by |-> command_number[p], kind |-> kinds[k]]]]

(* Every error is reported by the status 1, and some by a line in the log. *)
Fails(p, from, logged) ==
  /\ Calls(p, from, IF logged THEN "log" ELSE "exit")
  /\ Ends(p, 1)
  /\ UNCHANGED node
-----------------------------------------------------------------------------
(* main *)
Start(p) ==
  /\ commands_run < MaxCommands
  /\ Calls(p, "none", "first")
  /\ \E c \in Commands : command' = [command EXCEPT ![p] = c]
  /\ commands_run' = commands_run + 1
  /\ command_number' = [command_number EXCEPT ![p] = commands_run + 1]
  /\ Ends(p, 0)
  /\ UNCHANGED <<node, entry, files, flocks, log_exists>>

(* The fork or the first call fails, for want of resources or permission or  *)
(* because the name given is of the other kind.                              *)
Refused(p) ==
  /\ \/ Fails(p, "first", FALSE)
     \/ command[p] \in {"appendToFile", "deleteFile", "deleteDir"} /\ Fails(p, "first", TRUE)
  /\ Keeps(p)
  /\ UNCHANGED <<entry, files, flocks>>

(* createDir, deleteFile and deleteDir: the call may change the directory. *)
CreateDir(p) ==
  /\ command[p] = "createDir"
  /\ IF entry[Dir] = Nothing
     THEN /\ entry' = [entry EXCEPT ![Dir] = DirNode]
          /\ Calls(p, "first", "log") /\ Ends(p, 0) /\ UNCHANGED node
     ELSE Fails(p, "first", TRUE) /\ UNCHANGED entry
  /\ Keeps(p) /\ UNCHANGED <<files, flocks>>

DeleteFile(p) ==
  /\ command[p] = "deleteFile"
  /\ IF entry[File] # Nothing
     THEN /\ entry' = [entry EXCEPT ![File] = Nothing]
          /\ Calls(p, "first", "log") /\ Ends(p, 0) /\ UNCHANGED node
     ELSE Fails(p, "first", TRUE) /\ UNCHANGED entry
  /\ Keeps(p) /\ UNCHANGED <<files, flocks>>

DeleteDir(p) ==
  /\ command[p] = "deleteDir"
  /\ IF entry[Dir] # Nothing /\ entry[File] = Nothing
     THEN /\ entry' = [entry EXCEPT ![Dir] = Nothing]
          /\ Calls(p, "first", "log") /\ Ends(p, 0) /\ UNCHANGED node
     ELSE Fails(p, "first", TRUE) /\ UNCHANGED entry
  /\ Keeps(p) /\ UNCHANGED <<files, flocks>>

(* listDir and listFilesByExtension, which succeeds if it lists a file;      *)
(* readFile, and showLogs, which logs nothing itself.                        *)
List(p) ==
  /\ \/ command[p] = "listDir" /\ entry[Dir] # Nothing
     \/ command[p] = "listFilesByExtension" /\ entry[File] # Nothing
     \/ command[p] = "readFile" /\ entry[File] # Nothing
  /\ Calls(p, "first", "log") /\ Ends(p, 0) /\ UNCHANGED node
  /\ Keeps(p) /\ UNCHANGED <<entry, files, flocks>>

ListNothing(p) ==
  /\ \/ command[p] = "listDir" /\ entry[Dir] = Nothing
     \/ command[p] \in {"listFilesByExtension", "readFile", "appendToFile"} /\ entry[File] = Nothing
  /\ Fails(p, "first", TRUE)
  /\ Keeps(p) /\ UNCHANGED <<entry, files, flocks>>

ShowLogs(p) ==
  /\ command[p] = "showLogs"
  /\ Calls(p, "first", "exit")
  /\ Ends(p, IF log_exists THEN 0 ELSE 1)
  /\ Keeps(p) /\ UNCHANGED <<node, entry, files, flocks>>

(* createFile: the file is new; its creator writes a time and a newline at   *)
(* the place where it is, over what others have appended there.              *)
CreateFile(p) ==
  /\ command[p] = "createFile"
  /\ IF entry[Dir] # Nothing /\ entry[File] = Nothing
     THEN /\ entry' = [entry EXCEPT ![File] = command_number[p]]
          /\ Calls(p, "first", "time") /\ node' = [node EXCEPT ![p] = command_number[p]]
          /\ UNCHANGED status
     ELSE Fails(p, "first", entry[Dir] # Nothing) /\ UNCHANGED entry
  /\ Keeps(p) /\ UNCHANGED <<files, flocks>>

Over(cells, from, new) ==
  [k \in 1 .. (IF Len(cells) > from + Len(new) THEN Len(cells) ELSE from + Len(new)) |->
     IF k \in from + 1 .. from + Len(new) THEN new[k - from] ELSE cells[k]]

WriteTime(p) ==
  LET time == [by |-> command_number[p], kind |-> "time"] IN
  /\ Calls(p, "time", "newline")
  /\ files' = [files EXCEPT ![node[p]] = Over(@, 0, <<time, time>>)]
  /\ Keeps(p) /\ UNCHANGED <<status, node, entry, flocks>>

WriteNewline(p) ==
  /\ Calls(p, "newline", "log")
  /\ files' = [files EXCEPT ![node[p]] =
                 Over(@, 2, <<[by |-> command_number[p], kind |-> "newline"]>>)]
  /\ node' = [node EXCEPT ![p] = 0] /\ Ends(p, 0)
  /\ Keeps(p) /\ UNCHANGED <<entry, flocks>>
-----------------------------------------------------------------------------
(* appendToFile: it asks for the lock once and gives up if another has it. *)

OpenToAppend(p) ==
  /\ command[p] = "appendToFile" /\ entry[File] # Nothing
  /\ Calls(p, "first", "lock")
  /\ node' = [node EXCEPT ![p] = entry[File]]
  /\ Keeps(p) /\ UNCHANGED <<status, entry, files, flocks>>

(* Faulty variant of Lock, no part of the specification: the answer of the   *)
(* call is not looked at.                                                    *)
LockAnyway(p) ==
  /\ Calls(p, "lock", "content")
  /\ flocks' = [flocks EXCEPT ![node[p]] = IF @ = 0 THEN command_number[p] ELSE @]
  /\ Keeps(p) /\ UNCHANGED <<status, node, entry, files>>

Lock(p) ==
  /\ Calls(p, "lock", "content")
  /\ flocks[node[p]] = 0
  /\ flocks' = [flocks EXCEPT ![node[p]] = command_number[p]]
  /\ Keeps(p) /\ UNCHANGED <<status, node, entry, files>>

Locked(p) ==
  /\ Calls(p, "lock", "log") /\ Ends(p, 1)
  /\ flocks[node[p]] # 0
  /\ node' = [node EXCEPT ![p] = 0]
  /\ Keeps(p) /\ UNCHANGED <<entry, files, flocks>>

AppendContent(p) ==
  /\ Calls(p, "content", "newline2")
  /\ Write(node[p], <<"content">>, p)
  /\ Keeps(p) /\ UNCHANGED <<status, node, entry, flocks>>

AppendNewline(p) ==
  /\ Calls(p, "newline2", "unlock")
  /\ Write(node[p], <<"newline">>, p)
  /\ Keeps(p) /\ UNCHANGED <<status, node, entry, flocks>>

Unlock(p) ==
  /\ Calls(p, "unlock", "log") /\ Ends(p, 0)
  /\ flocks' = [flocks EXCEPT ![node[p]] = 0]
  /\ node' = [node EXCEPT ![p] = 0]
  /\ Keeps(p) /\ UNCHANGED <<entry, files>>
-----------------------------------------------------------------------------
(* operationLog: a line is appended by four writes, which nothing here tells *)
(* apart.                                                                    *)
WriteLog(p) ==
  /\ Calls(p, "log", "exit")
  /\ log_exists' = TRUE
  /\ UNCHANGED <<command, command_number, status, node, commands_run, entry, files, flocks>>

(* The log cannot be opened. *)
LogFails(p) ==
  /\ Calls(p, "log", "exit") /\ Ends(p, 1)
  /\ Keeps(p) /\ UNCHANGED <<node, entry, files, flocks>>

(* A parent passes the whole word that wait has filled on to exit, which     *)
(* keeps its low byte: of the child's status nothing is left.                *)
Exit(p) ==
  /\ Calls(p, "exit", "none")
  /\ status' = [status EXCEPT ![p] = IF command[p] \in Forking THEN (@ * 256) % 256 ELSE @]
  /\ command' = [command EXCEPT ![p] = "none"]
  /\ command_number' = [command_number EXCEPT ![p] = 0]
  /\ UNCHANGED <<node, commands_run, entry, files, flocks, log_exists>>
-----------------------------------------------------------------------------
Next ==
  \E p \in Procs :
    \/ Start(p) \/ Refused(p) \/ CreateDir(p) \/ DeleteFile(p) \/ DeleteDir(p) \/ List(p)
    \/ ListNothing(p) \/ ShowLogs(p) \/ CreateFile(p) \/ WriteTime(p) \/ WriteNewline(p)
    \/ OpenToAppend(p) \/ Lock(p) \/ Locked(p) \/ AppendContent(p) \/ AppendNewline(p)
    \/ Unlock(p) \/ WriteLog(p) \/ LogFails(p) \/ Exit(p)

Spec == Init /\ [][Next]_fvars
-----------------------------------------------------------------------------
(* Properties. *)

(* The lock of appendToFile keeps lines whole: what one command appends is   *)
(* followed by its own newline, or by nothing as long as it is about to      *)
(* write that; only the creator of the file, who takes no lock, may have     *)
(* written there instead (main.c:255-269, 91-92).                            *)
AppendsWhole ==
  \A f \in CommandNumbers : \A k \in DOMAIN files[f] :
    files[f][k].kind = "content" =>
      IF k = Len(files[f])
      THEN \E p \in Procs : command_number[p] = files[f][k].by /\ syscall[p] = "newline2"
      ELSE files[f][k + 1].by \in {files[f][k].by, f}
=============================================================================
