-------------------------------- MODULE Programs --------------------------------
(* The programs of the repository that have no run of their own.  They share *)
(* nothing: a behaviour is one of one program, chosen at the start, and the  *)
(* others rest in their initial states.                                      *)
EXTENDS Bank

CONSTANTS
  Sats, Engs, Ranks,                                        (* Satellites      *)
  Numbers,                                                  (* Daemon          *)
  Texts, MaxCycles,                                         (* OperatingSystem *)
  Procs, Dir, File, MaxCommands,                            (* FileManager     *)
  SIDs, Codes, MaxStudents, MaxCourses, MaxRegistered,      (* School          *)
  GSIZE, RobotIds, Nobot, TypeOf, HitpointsOf, DamagesOf,   (* Robots          *)
  FileNames, MaxReceived, MaxInbox, MaxCommandsSent,        (* ChatClient      *)
  Configs, MaxEntries,                                      (* Hardware        *)
  Keys, Values, HashOf, CAPACITY, MaxTable,                 (* HashMap         *)
  ConfigFiles, MaxTasks                                     (* TaskManager     *)

VARIABLES
  prog,            (* the program that runs *)
  satellite, engineer, rank, requestQueue, availableEngineers, newRequest, held,
  being_served, freed, raced, broken,
  daemon, child, numbers, fifos, pipe2, open2, zombies, sigchld, child_counter, larger,
  mem, kernelMode, halted, code, cycles,
  command, syscall, command_number, status, node, commands_run, entry, files, flocks, log_exists,
  students, courses, menu, selected,
  grid, position, hitpoints, moved, count, scan, mover, duel,
  main, receiver, running, stdout, client_socket, inbox, buffer, received_files,
  commands_sent, exit_sent,
  stage, ports, listed, powered, log_stacks, log_files,
  table, size, contents, overwritten,
  users, heap, taskId, executing, executed

Sat == INSTANCE Satellites
Dmn == INSTANCE Daemon
Sys == INSTANCE OperatingSystem
Mgr == INSTANCE FileManager
Sch == INSTANCE School
Rob == INSTANCE Robots
Cli == INSTANCE ChatClient
Hrd == INSTANCE Hardware
Map == INSTANCE HashMap
Tsk == INSTANCE TaskManager

Names == {"bank", "satellites", "daemon", "system", "files", "school", "robots", "client",
          "hardware", "hashmap", "tasks"}
satellites_vars == <<satellite, engineer, rank, requestQueue, availableEngineers, newRequest, held,
                     being_served, freed, raced, broken>>
daemon_vars == <<daemon, child, numbers, fifos, pipe2, open2, zombies, sigchld, child_counter, larger>>
system_vars == <<mem, kernelMode, halted, code, cycles>>
files_vars  == <<command, syscall, command_number, status, node, commands_run, entry, files, flocks,
                 log_exists>>
school_vars == <<students, courses, menu, selected>>
robots_vars == <<grid, position, hitpoints, moved, count, scan, mover, duel>>
client_vars == <<main, receiver, running, stdout, client_socket, inbox, buffer, received_files,
                 commands_sent, exit_sent>>
hardware_vars == <<stage, ports, listed, powered, log_stacks, log_files>>
hashmap_vars  == <<table, size, contents, overwritten>>
tasks_vars    == <<users, heap, taskId, executing, executed>>
allvars == <<prog, vars, satellites_vars, daemon_vars, system_vars, files_vars, school_vars,
             robots_vars, client_vars, hardware_vars, hashmap_vars, tasks_vars>>

AllInit ==
  /\ prog \in Names
  /\ Init /\ Sat!Init /\ Dmn!Init /\ Sys!Init /\ Mgr!Init /\ Sch!Init /\ Rob!Init /\ Cli!Init
  /\ Hrd!Init /\ Map!Init /\ Tsk!Init
  /\ prog # "files" => entry[Dir] = Mgr!Nothing
-----------------------------------------------------------------------------
(* Only the program p runs. *)
Only(p) ==
  /\ prog = p /\ prog' = p
  /\ IF p = "bank"      THEN TRUE ELSE UNCHANGED vars
  /\ IF p = "satellites" THEN TRUE ELSE UNCHANGED satellites_vars
  /\ IF p = "daemon"    THEN TRUE ELSE UNCHANGED daemon_vars
  /\ IF p = "system"    THEN TRUE ELSE UNCHANGED system_vars
  /\ IF p = "files"     THEN TRUE ELSE UNCHANGED files_vars
  /\ IF p = "school"    THEN TRUE ELSE UNCHANGED school_vars
  /\ IF p = "robots"    THEN TRUE ELSE UNCHANGED robots_vars
  /\ IF p = "client"    THEN TRUE ELSE UNCHANGED client_vars
  /\ IF p = "hardware"  THEN TRUE ELSE UNCHANGED hardware_vars
  /\ IF p = "hashmap"   THEN TRUE ELSE UNCHANGED hashmap_vars
  /\ IF p = "tasks"     THEN TRUE ELSE UNCHANGED tasks_vars

AllNext ==
  \/ Only("bank")       /\ Next
  \/ Only("satellites") /\ Sat!Next
  \/ Only("daemon")     /\ Dmn!Next
  \/ Only("system")     /\ Sys!Next
  \/ Only("files")      /\ Mgr!Next
  \/ Only("school")     /\ Sch!Next
  \/ Only("robots")     /\ Rob!Next
  \/ Only("client")     /\ Cli!Next
  \/ Only("hardware")   /\ Hrd!Next
  \/ Only("hashmap")    /\ Map!Next
  \/ Only("tasks")      /\ Tsk!Next

(* The bank's processes, the daemon and its children and the client's two    *)
(* threads keep running, and the chat server answers an /exit.  Signals and  *)
(* crashes need never come.                                                  *)
AllSpec ==
  /\ AllInit /\ [][AllNext]_allvars
  /\ WF_vars(prog = "bank" /\ ServerStep)
  /\ \A c \in Clients : WF_vars(prog = "bank" /\ TellerStep(c))
  /\ WF_daemon_vars(prog = "daemon" /\ Dmn!DaemonStep)
  /\ WF_daemon_vars(prog = "daemon" /\ Dmn!ChildStep)
  /\ WF_client_vars(prog = "client" /\ Cli!MainStep)
  /\ WF_client_vars(prog = "client" /\ Cli!ReceiverStep)
  /\ WF_client_vars(prog = "client" /\ Cli!ServerLogout)
-----------------------------------------------------------------------------
(* Properties: those of Bank and the following. *)

(* Every variable of every program keeps its type; in particular no bank     *)
(* balance becomes negative (Midterm server.c:193-198) and no child of the   *)
(* daemon is counted twice (HW2 main.c:49-60).                               *)
TypesOK ==
  /\ TypeOK /\ Sat!TypeOK /\ Dmn!TypeOK /\ Sys!TypeOK /\ Mgr!TypeOK /\ Sch!TypeOK /\ Rob!TypeOK
  /\ Cli!TypeOK /\ Hrd!TypeOK /\ Map!TypeOK /\ Tsk!TypeOK

(* A request of a satellite is in one place and is not used after it was     *)
(* freed, unless an engineer's unlocked pop was overlapped (HW3 main.c:97-178). *)
RequestsAccounted == Sat!RequestsAccounted

(* The daemon reports success only when the larger number has arrived        *)
(* (HW2 main.c:53-59, 331, 346).                                             *)
SuccessMeansDelivered == Dmn!SuccessMeansDelivered

(* The daemon ends and leaves no child behind (HW2 main.c:207, 335-343). *)
ChildrenEnd == prog = "daemon" => Dmn!ChildrenEnd

(* No instruction of a thread changes memory of the kernel, but for the      *)
(* count and the state of that thread (memory.cpp:21-27, cpu.cpp:65-68).   *)
KernelMemoryKept == Sys!KernelMemoryKept

(* The scheduler goes round and neither skips a ready thread nor runs one    *)
(* that has terminated or is still blocked (os.txt:310-369).                 *)
SchedulesNext == Sys!SchedulesNext

(* The machine is halted by the kernel only when every thread has terminated *)
(* (os.txt:274-280, 377).                                                    *)
KernelHaltsLast == Sys!KernelHaltsLast

(* What a command appends to a file is followed by its own newline           *)
(* (HW1 main.c:255-269).                                                     *)
AppendsWhole == Mgr!AppendsWhole

(* A course that a student takes exists and lists the student, whatever is   *)
(* deleted (SchoolManagementSystem.cpp:142-191, 285-311).                    *)
TakenAreRegistered == Sch!TakenAreRegistered

(* The count of robots is the number of them on the grid, each where it      *)
(* believes to be (PA4.cpp:127-186, 240-262, 344-349).                       *)
RobotsCounted == Rob!RobotsCounted

(* A chat client that is to stop does (client.c:138-143, 207-234, 379-407). *)
ClientEnds == prog = "client" => Cli!ClientEnds

(* The ports, the lists, the states and the logs agree about every device    *)
(* (HWSystem.java:78-264, SPI.java:48-81).                                   *)
DevicesAccounted == Hrd!PowerLogged /\ Hrd!DevicesListed

(* A key is found with its last value until it is removed, whatever has been *)
(* removed or moved in between (GTUHashMap.java:15-80, 104-116).             *)
LookupsRight == Map!LookupsRight

(* Every task is executed once, and before those of lower priority           *)
(* (MinHeap.java:22-87, MyTaskManager.java:66-71).                           *)
ExecutedInOrder == Tsk!ExecutedInOrder
=============================================================================
