----------------------------- MODULE ProcessProofs -----------------------------
(* The two programs that fork a process for a piece of their work.           *)
(*   The file manager of System Programming/HW1 (FileManager.tla), for any   *)
(* processes and any number of commands: the lock of appendToFile keeps the  *)
(* lines whole that commands append to one file at a time.                   *)
(*   The daemon of System Programming/HW2 (Daemon.tla), for any two numbers: *)
(* it counts every child that ends once, and reports success only when the   *)
(* larger number has arrived.                                                *)
(*   The module extends Programs, of which both are parts.                   *)
EXTENDS Programs, FiniteSetTheorems, TLAPS

(* A directory and the file in it have different names; the commands are     *)
(* bounded by any number.                                                    *)
FilesNamed == Dir # File /\ MaxCommands \in Nat

(* The system calls that use the file, and those made with its lock.         *)
Creating  == {"time", "newline"}
Appending == {"content", "newline2", "unlock"}

(* The name stands for a file that a command has made.                       *)
FileIsFile == entry[File] \in 0 .. MaxCommands

(* The commands that run have numbers of their own, none before it is given. *)
NumbersGiven ==
  /\ \A p \in Procs : syscall[p] # "none" => command_number[p] \in 1 .. commands_run
  /\ \A p, q \in Procs :
       p # q /\ syscall[p] # "none" /\ syscall[q] # "none" => command_number[p] # command_number[q]

(* A command that uses a file has it open; a creator its own, in which the   *)
(* time is before it writes the newline.                                     *)
HasOpen(p) ==
  /\ syscall[p] \in Creating \cup Appending \cup {"lock"} => node[p] \in Mgr!CommandNumbers
  /\ syscall[p] \in Creating => node[p] = command_number[p]
  /\ syscall[p] = "newline" => Len(files[node[p]]) >= 2
FileOpen == \A p \in Procs : HasOpen(p)

HasLock(p) == syscall[p] \in Appending => flocks[node[p]] = command_number[p]
LockHeld == \A p \in Procs : HasLock(p)

(* What AppendsWhole says of a cell; the command that has not written its    *)
(* newline yet has this file open, and so its lock.                          *)
FollowedBy(f, k) ==
  IF k = Len(files[f])
  THEN \E p \in Procs :
         command_number[p] = files[f][k].by /\ syscall[p] = "newline2" /\ node[p] = f
  ELSE files[f][k + 1].by \in {files[f][k].by, f}

LinesWhole ==
  \A f \in Mgr!CommandNumbers : \A k \in DOMAIN files[f] :
    files[f][k].kind = "content" => FollowedBy(f, k)

FileInv ==
  /\ Mgr!TypeOK /\ FileIsFile /\ NumbersGiven /\ FileOpen /\ LockHeld /\ LinesWhole
-----------------------------------------------------------------------------
(* The writes. *)

LEMMA LinesConcatenated ==
  ASSUME NEW S, NEW a \in Seq(S), NEW b \in Seq(S)
  PROVE  /\ a \o b \in Seq(S) /\ Len(a \o b) = Len(a) + Len(b)
         /\ DOMAIN (a \o b) = 1 .. Len(a) + Len(b)
         /\ \A i \in 1 .. Len(a) + Len(b) : (a \o b)[i] = IF i <= Len(a) THEN a[i] ELSE b[i - Len(a)]
OBVIOUS

(* A write at the end adds one cell. *)
LEMMA LineWritten ==
  ASSUME NEW S, NEW cells \in Seq(S), NEW n, NEW kind, [by |-> n, kind |-> kind] \in S
  PROVE  LET t == cells \o [k \in DOMAIN <<kind>> |-> [by |-> n, kind |-> <<kind>>[k]]] IN
         /\ t \in Seq(S) /\ Len(t) = Len(cells) + 1
         /\ \A k \in 1 .. Len(cells) : t[k] = cells[k]
         /\ t[Len(cells) + 1] = [by |-> n, kind |-> kind]
<1> DEFINE x == [by |-> n, kind |-> kind]
           e == [k \in DOMAIN <<kind>> |-> [by |-> n, kind |-> <<kind>>[k]]]
           t == cells \o e
<1>1. e \in Seq(S) /\ Len(e) = 1 /\ e[1] = x
  <2>1. DOMAIN <<kind>> = 1 .. 1 /\ \A k \in 1 .. 1 : e[k] = x
    OBVIOUS
  <2>2. e \in [1 .. 1 -> S]
    BY <2>1
  <2>3. QED BY <2>2
<1> HIDE DEF e
<1>2. /\ t \in Seq(S) /\ Len(t) = Len(cells) + Len(e)
      /\ \A i \in 1 .. Len(cells) + Len(e) :
           t[i] = IF i <= Len(cells) THEN cells[i] ELSE e[i - Len(cells)]
  BY <1>1, LinesConcatenated
<1>3. Len(cells) \in Nat
  OBVIOUS
<1> HIDE DEF t
<1>4. /\ t \in Seq(S) /\ Len(t) = Len(cells) + 1
      /\ \A k \in 1 .. Len(cells) : t[k] = cells[k]
      /\ t[Len(cells) + 1] = x
  BY <1>1, <1>2, <1>3
<1>5. QED BY <1>4 DEF t, e

(* A write in the middle covers what was there. *)
LEMMA Overwritten ==
  ASSUME NEW S, NEW cells \in Seq(S), NEW new \in Seq(S), NEW from \in 0 .. Len(cells)
  PROVE  LET t == Mgr!Over(cells, from, new) IN
         /\ t \in Seq(S) /\ Len(t) >= from + Len(new) /\ Len(t) >= Len(cells)
         /\ Len(t) = from + Len(new) \/ Len(t) = Len(cells)
         /\ \A k \in 1 .. Len(t) : t[k] = IF k \in from + 1 .. from + Len(new) THEN new[k - from] ELSE cells[k]
<1> DEFINE n == IF Len(cells) > from + Len(new) THEN Len(cells) ELSE from + Len(new)
           t == [k \in 1 .. n |->
                  IF k \in from + 1 .. from + Len(new) THEN new[k - from] ELSE cells[k]]
<1>1. /\ Len(cells) \in Nat /\ Len(new) \in Nat /\ from \in Nat /\ from <= Len(cells)
      /\ n \in Nat /\ n >= from + Len(new) /\ n >= Len(cells)
      /\ n = from + Len(new) \/ n = Len(cells)
  OBVIOUS
<1>2. ASSUME NEW k \in 1 .. n
      PROVE  (IF k \in from + 1 .. from + Len(new) THEN new[k - from] ELSE cells[k]) \in S
  <2>1. CASE k \in from + 1 .. from + Len(new)
    <3>1. k - from \in 1 .. Len(new)
      BY <1>1, <2>1
    <3>2. QED BY <2>1, <3>1
  <2>2. CASE k \notin from + 1 .. from + Len(new)
    <3>1. k \in 1 .. Len(cells)
      BY <1>1, <1>2, <2>2
    <3>2. QED BY <2>2, <3>1
  <2>3. QED BY <2>1, <2>2
<1> HIDE DEF n
<1>3. t \in [1 .. n -> S]
  BY <1>2
<1>4. t \in Seq(S) /\ Len(t) = n
  BY <1>1, <1>3
<1>5. \A k \in 1 .. n :
        t[k] = IF k \in from + 1 .. from + Len(new) THEN new[k - from] ELSE cells[k]
  OBVIOUS
<1>6. Mgr!Over(cells, from, new) = t
  BY DEF Mgr!Over, n
<1> HIDE DEF t
<1>7. QED BY <1>1, <1>4, <1>5, <1>6
-----------------------------------------------------------------------------
(* A step of one process. *)

LEMMA Updated ==
  ASSUME NEW S, NEW T, NEW f \in [S -> T], NEW x \in S, NEW y \in T
  PROVE  /\ [f EXCEPT ![x] = y] \in [S -> T] /\ [f EXCEPT ![x] = y][x] = y
         /\ \A z \in S \ {x} : [f EXCEPT ![x] = y][z] = f[z]
OBVIOUS

LEMMA PerhapsUpdated ==
  ASSUME NEW S, NEW T, NEW f \in [S -> T], NEW x \in S, NEW Y \in SUBSET T, NEW g,
         g = f \/ \E y \in Y : g = [f EXCEPT ![x] = y]
  PROVE  g \in [S -> T] /\ \A z \in S \ {x} : g[z] = f[z]
OBVIOUS

SysCalls == {"none", "first", "time", "newline", "lock", "content", "newline2", "unlock", "log", "exit"}

LEMMA Types ==
  Mgr!TypeOK <=>
    /\ command \in [Procs -> Mgr!Commands \cup {"none"}] /\ syscall \in [Procs -> SysCalls]
    /\ command_number \in [Procs -> 0 .. MaxCommands]
    /\ status \in [Procs -> 0 .. 255] /\ node \in [Procs -> 0 .. MaxCommands]
    /\ commands_run \in 0 .. MaxCommands
    /\ entry \in [{Dir, File} -> 0 .. Mgr!DirNode]
    /\ files \in [Mgr!CommandNumbers -> Seq(Mgr!Cell)]
    /\ flocks \in [Mgr!CommandNumbers -> 0 .. MaxCommands] /\ log_exists \in BOOLEAN
BY DEF Mgr!TypeOK, SysCalls

OthersRest(p) ==
  \A q \in Procs \ {p} :
    /\ syscall'[q] = syscall[q] /\ command_number'[q] = command_number[q] /\ node'[q] = node[q]

(* What a step of p need not care for. *)
LEMMA Kept ==
  ASSUME FileInv, NEW p \in Procs, OthersRest(p), HasOpen(p)', HasLock(p)',
         \A f \in Mgr!CommandNumbers :
           /\ Len(files'[f]) >= Len(files[f])
           /\ flocks'[f] = flocks[f] \/ flocks[f] = 0 \/ (syscall[p] # "none" /\ flocks[f] = command_number[p]),
         commands_run' \in Nat, commands_run' >= commands_run,
         syscall'[p] # "none" =>
           \/ syscall[p] # "none" /\ command_number'[p] = command_number[p]
           \/ command_number'[p] = commands_run + 1 /\ commands_run' = commands_run + 1
  PROVE  NumbersGiven' /\ FileOpen' /\ LockHeld'
<1>1. /\ command_number \in [Procs -> 0 .. MaxCommands] /\ commands_run \in Nat
      /\ files \in [Mgr!CommandNumbers -> Seq(Mgr!Cell)]
  BY Types DEF FileInv
<1>2. NumbersGiven /\ FileOpen /\ LockHeld
  BY DEF FileInv
<1>3. NumbersGiven'
  BY <1>1, <1>2 DEF NumbersGiven, OthersRest
<1>4. ASSUME NEW q \in Procs, q # p
      PROVE  HasOpen(q)' /\ HasLock(q)'
  <2>1. syscall'[q] = syscall[q] /\ command_number'[q] = command_number[q] /\ node'[q] = node[q]
    BY <1>4 DEF OthersRest
  <2>2. HasOpen(q) /\ HasLock(q)
    BY <1>2 DEF FileOpen, LockHeld
  <2>3. HasOpen(q)'
    <3>1. syscall[q] = "newline" => Len(files'[node[q]]) >= 2
      <4>1. SUFFICES ASSUME syscall[q] = "newline" PROVE Len(files'[node[q]]) >= 2
        OBVIOUS
      <4>2. node[q] \in Mgr!CommandNumbers /\ Len(files[node[q]]) >= 2
        BY <2>2, <4>1 DEF HasOpen, Creating
      <4>3. Len(files'[node[q]]) >= Len(files[node[q]]) /\ Len(files[node[q]]) \in Nat
        BY <1>1, <4>2
      <4>4. QED BY <4>2, <4>3
    <3>2. QED BY <2>1, <2>2, <3>1 DEF HasOpen
  <2>4. HasLock(q)'
    <3>1. SUFFICES ASSUME syscall[q] \in Appending PROVE flocks'[node[q]] = command_number[q]
      BY <2>1 DEF HasLock
    <3>2. node[q] \in Mgr!CommandNumbers /\ flocks[node[q]] = command_number[q] /\ syscall[q] # "none"
      BY <2>2, <3>1 DEF HasOpen, HasLock, Appending
    <3>3. command_number[q] # 0 /\ (syscall[p] # "none" => command_number[q] # command_number[p])
      BY <1>1, <1>2, <1>4, <3>2 DEF NumbersGiven
    <3>4. QED BY <3>2, <3>3
  <2>5. QED BY <2>3, <2>4
<1>5. QED BY <1>3, <1>4 DEF FileOpen, LockHeld

LEMMA LinesKept ==
  ASSUME FileInv, NEW p \in Procs, OthersRest(p), files' = files, syscall[p] # "newline2"
  PROVE  LinesWhole'
<1>1. ASSUME NEW f \in Mgr!CommandNumbers, NEW k \in DOMAIN files[f], files[f][k].kind = "content"
      PROVE  FollowedBy(f, k)'
  <2>1. FollowedBy(f, k)
    BY <1>1 DEF FileInv, LinesWhole
  <2>2. CASE k = Len(files[f])
    <3>1. PICK q \in Procs : command_number[q] = files[f][k].by /\ syscall[q] = "newline2" /\ node[q] = f
      BY <2>1, <2>2 DEF FollowedBy
    <3>2. command_number'[q] = files[f][k].by /\ syscall'[q] = "newline2" /\ node'[q] = f
      BY <3>1 DEF OthersRest
    <3>3. QED BY <2>2, <3>2 DEF FollowedBy
  <2>3. CASE k # Len(files[f])
    BY <2>1, <2>3 DEF FollowedBy
  <2>4. QED BY <2>2, <2>3
<1>2. QED BY <1>1 DEF LinesWhole

(* The calls that leave the files, their locks and what is open alone. *)
Quiet(p) ==
  \/ Mgr!Refused(p) \/ Mgr!CreateDir(p) \/ Mgr!DeleteFile(p) \/ Mgr!DeleteDir(p) \/ Mgr!List(p)
  \/ Mgr!ListNothing(p) \/ Mgr!ShowLogs(p) \/ Mgr!WriteLog(p) \/ Mgr!LogFails(p)
  \/ (Mgr!CreateFile(p) /\ ~(entry[Dir] # Mgr!Nothing /\ entry[File] = Mgr!Nothing))

LEMMA QuietKeeps ==
  ASSUME FilesNamed, FileInv, NEW p \in Procs, Quiet(p)
  PROVE  FileInv'
<1>1. /\ command \in [Procs -> Mgr!Commands \cup {"none"}] /\ syscall \in [Procs -> SysCalls]
      /\ command_number \in [Procs -> 0 .. MaxCommands]
      /\ status \in [Procs -> 0 .. 255] /\ node \in [Procs -> 0 .. MaxCommands]
      /\ commands_run \in 0 .. MaxCommands
      /\ entry \in [{Dir, File} -> 0 .. Mgr!DirNode]
      /\ files \in [Mgr!CommandNumbers -> Seq(Mgr!Cell)]
      /\ flocks \in [Mgr!CommandNumbers -> 0 .. MaxCommands] /\ log_exists \in BOOLEAN
  BY Types DEF FileInv
<1> USE DEF Mgr!Keeps, Mgr!Calls, Mgr!Fails, Mgr!Ends
<1>2. /\ command' = command /\ command_number' = command_number /\ commands_run' = commands_run
      /\ files' = files /\ flocks' = flocks /\ node' = node
  BY DEF Quiet, Mgr!Refused, Mgr!CreateDir, Mgr!DeleteFile, Mgr!DeleteDir, Mgr!List, Mgr!ListNothing,
         Mgr!ShowLogs, Mgr!WriteLog, Mgr!LogFails, Mgr!CreateFile
<1>3. syscall[p] \in {"first", "log"} /\ \E to \in {"log", "exit"} : syscall' = [syscall EXCEPT ![p] = to]
  BY DEF Quiet, Mgr!Refused, Mgr!CreateDir, Mgr!DeleteFile, Mgr!DeleteDir, Mgr!List, Mgr!ListNothing,
         Mgr!ShowLogs, Mgr!WriteLog, Mgr!LogFails, Mgr!CreateFile
<1>4. status' = status \/ \E s \in {0, 1} : status' = [status EXCEPT ![p] = s]
  BY DEF Quiet, Mgr!Refused, Mgr!CreateDir, Mgr!DeleteFile, Mgr!DeleteDir, Mgr!List, Mgr!ListNothing,
         Mgr!ShowLogs, Mgr!WriteLog, Mgr!LogFails, Mgr!CreateFile
<1>5. \/ entry' = entry
      \/ entry' = [entry EXCEPT ![Dir] = Mgr!DirNode] \/ entry' = [entry EXCEPT ![Dir] = Mgr!Nothing]
      \/ entry' = [entry EXCEPT ![File] = Mgr!Nothing]
  BY DEF Quiet, Mgr!Refused, Mgr!CreateDir, Mgr!DeleteFile, Mgr!DeleteDir, Mgr!List, Mgr!ListNothing,
         Mgr!ShowLogs, Mgr!WriteLog, Mgr!LogFails, Mgr!CreateFile
<1>6. log_exists' \in BOOLEAN
  BY <1>1 DEF Quiet, Mgr!Refused, Mgr!CreateDir, Mgr!DeleteFile, Mgr!DeleteDir, Mgr!List, Mgr!ListNothing,
         Mgr!ShowLogs, Mgr!WriteLog, Mgr!LogFails, Mgr!CreateFile
<1>7. /\ syscall' \in [Procs -> SysCalls] /\ syscall'[p] \in {"log", "exit"}
      /\ \A q \in Procs \ {p} : syscall'[q] = syscall[q]
  BY <1>1, <1>3, Updated DEF SysCalls
<1>8. status' \in [Procs -> 0 .. 255]
  <2>1. status' = status \/ status' = [status EXCEPT ![p] = 0] \/ status' = [status EXCEPT ![p] = 1]
    BY <1>4
  <2>2. 0 \in 0 .. 255 /\ 1 \in 0 .. 255
    OBVIOUS
  <2>3. CASE status' = status
    BY <1>1, <2>3
  <2>4. CASE status' = [status EXCEPT ![p] = 0]
    BY <1>1, <2>2, <2>4, Updated
  <2>5. CASE status' = [status EXCEPT ![p] = 1]
    BY <1>1, <2>2, <2>5, Updated
  <2>6. QED BY <2>1, <2>3, <2>4, <2>5
<1>9. entry' \in [{Dir, File} -> 0 .. Mgr!DirNode] /\ FileIsFile'
  <2>1. /\ Mgr!DirNode \in 0 .. Mgr!DirNode /\ Mgr!Nothing \in 0 .. Mgr!DirNode
        /\ Mgr!Nothing \in 0 .. MaxCommands
    BY DEF FilesNamed, Mgr!DirNode, Mgr!Nothing
  <2>2. entry' \in [{Dir, File} -> 0 .. Mgr!DirNode]
    <3>1. PICK n \in {Dir, File}, Y \in SUBSET (0 .. Mgr!DirNode) :
            entry' = entry \/ \E y \in Y : entry' = [entry EXCEPT ![n] = y]
      BY <1>5, <2>1
    <3>2. QED BY <1>1, <3>1, PerhapsUpdated
  <2>3. entry'[File] \in {entry[File], Mgr!Nothing}
    BY <1>1, <1>5 DEF FilesNamed
  <2>4. QED BY <2>1, <2>2, <2>3 DEF FileInv, FileIsFile
<1>10. Mgr!TypeOK'
  BY <1>1, <1>2, <1>6, <1>7, <1>8, <1>9 DEF Mgr!TypeOK, SysCalls
<1>11. OthersRest(p)
  BY <1>2, <1>7 DEF OthersRest
<1>12. NumbersGiven' /\ FileOpen' /\ LockHeld'
  <2>1. HasOpen(p)' /\ HasLock(p)'
    BY <1>7 DEF HasOpen, HasLock, Creating, Appending
  <2>2. commands_run \in Nat /\ syscall[p] # "none"
    BY <1>1, <1>3
  <2>3. \A f \in Mgr!CommandNumbers : Len(files[f]) \in Nat
    BY <1>1
  <2>4. QED BY <1>2, <1>11, <2>1, <2>2, <2>3, Kept
<1>13. LinesWhole'
  BY <1>2, <1>3, <1>11, LinesKept
<1>14. QED BY <1>9, <1>10, <1>12, <1>13 DEF FileInv

(* A process begins and ends. *)
LEMMA StartKeeps ==
  ASSUME FilesNamed, FileInv, NEW p \in Procs, Mgr!Start(p)
  PROVE  FileInv'
<1>1. /\ command \in [Procs -> Mgr!Commands \cup {"none"}] /\ syscall \in [Procs -> SysCalls]
      /\ command_number \in [Procs -> 0 .. MaxCommands]
      /\ status \in [Procs -> 0 .. 255] /\ node \in [Procs -> 0 .. MaxCommands]
      /\ commands_run \in 0 .. MaxCommands
      /\ entry \in [{Dir, File} -> 0 .. Mgr!DirNode]
      /\ files \in [Mgr!CommandNumbers -> Seq(Mgr!Cell)]
      /\ flocks \in [Mgr!CommandNumbers -> 0 .. MaxCommands] /\ log_exists \in BOOLEAN
  BY Types DEF FileInv
<1>2. /\ syscall[p] = "none" /\ syscall' = [syscall EXCEPT ![p] = "first"]
      /\ commands_run < MaxCommands /\ commands_run' = commands_run + 1
      /\ command_number' = [command_number EXCEPT ![p] = commands_run + 1]
      /\ status' = [status EXCEPT ![p] = 0]
      /\ node' = node /\ entry' = entry /\ files' = files /\ flocks' = flocks /\ log_exists' = log_exists
  BY DEF Mgr!Start, Mgr!Calls, Mgr!Ends
<1>3. PICK c \in Mgr!Commands : command' = [command EXCEPT ![p] = c]
  BY DEF Mgr!Start
<1>4. command' \in [Procs -> Mgr!Commands \cup {"none"}]
  BY <1>1, <1>3
<1>5. /\ syscall' \in [Procs -> SysCalls] /\ syscall'[p] = "first"
      /\ \A q \in Procs \ {p} : syscall'[q] = syscall[q]
  BY <1>1, <1>2, Updated DEF SysCalls
<1>6. commands_run + 1 \in 0 .. MaxCommands /\ 0 \in 0 .. 255 /\ commands_run \in Nat
  BY <1>1, <1>2 DEF FilesNamed
<1>7. /\ command_number' \in [Procs -> 0 .. MaxCommands] /\ command_number'[p] = commands_run + 1
      /\ \A q \in Procs \ {p} : command_number'[q] = command_number[q]
  BY <1>1, <1>2, <1>6
<1>8. status' \in [Procs -> 0 .. 255]
  BY <1>1, <1>2, <1>6, Updated
<1>9. Mgr!TypeOK'
  BY <1>1, <1>2, <1>4, <1>5, <1>6, <1>7, <1>8 DEF Mgr!TypeOK, SysCalls
<1>10. OthersRest(p)
  BY <1>2, <1>5, <1>7 DEF OthersRest
<1>11. NumbersGiven' /\ FileOpen' /\ LockHeld'
  <2>1. HasOpen(p)' /\ HasLock(p)'
    BY <1>5 DEF HasOpen, HasLock, Creating, Appending
  <2>2. \A f \in Mgr!CommandNumbers : Len(files[f]) \in Nat
    BY <1>1
  <2>3. commands_run' \in Nat /\ commands_run' >= commands_run
    BY <1>2, <1>6
  <2>4. QED BY <1>2, <1>7, <1>10, <2>1, <2>2, <2>3, Kept
<1>12. LinesWhole'
  BY <1>2, <1>10, LinesKept
<1>13. QED BY <1>2, <1>9, <1>11, <1>12 DEF FileInv, FileIsFile

LEMMA ExitKeeps ==
  ASSUME FilesNamed, FileInv, NEW p \in Procs, Mgr!Exit(p)
  PROVE  FileInv'
<1>1. /\ command \in [Procs -> Mgr!Commands \cup {"none"}] /\ syscall \in [Procs -> SysCalls]
      /\ command_number \in [Procs -> 0 .. MaxCommands]
      /\ status \in [Procs -> 0 .. 255] /\ node \in [Procs -> 0 .. MaxCommands]
      /\ commands_run \in 0 .. MaxCommands
      /\ entry \in [{Dir, File} -> 0 .. Mgr!DirNode]
      /\ files \in [Mgr!CommandNumbers -> Seq(Mgr!Cell)]
      /\ flocks \in [Mgr!CommandNumbers -> 0 .. MaxCommands] /\ log_exists \in BOOLEAN
  BY Types DEF FileInv
<1>2. /\ syscall[p] = "exit" /\ syscall' = [syscall EXCEPT ![p] = "none"]
      /\ command' = [command EXCEPT ![p] = "none"]
      /\ command_number' = [command_number EXCEPT ![p] = 0]
      /\ node' = node /\ commands_run' = commands_run /\ entry' = entry /\ files' = files
      /\ flocks' = flocks /\ log_exists' = log_exists
  BY DEF Mgr!Exit, Mgr!Calls
<1>3. status' \in [Procs -> 0 .. 255]
  <2>1. status[p] \in 0 .. 255
    BY <1>1
  <2>2. (status[p] * 256) % 256 \in 0 .. 255
    BY <2>1
  <2>3. PICK s \in 0 .. 255 : status' = [status EXCEPT ![p] = s]
    <3>1. \/ status' = [status EXCEPT ![p] = (status[p] * 256) % 256]
          \/ status' = [status EXCEPT ![p] = status[p]]
      BY DEF Mgr!Exit
    <3>2. QED BY <2>1, <2>2, <3>1
  <2>4. QED BY <1>1, <2>3, Updated
<1>4. command' \in [Procs -> Mgr!Commands \cup {"none"}]
  BY <1>1, <1>2, Updated
<1>5. /\ syscall' \in [Procs -> SysCalls] /\ syscall'[p] = "none"
      /\ \A q \in Procs \ {p} : syscall'[q] = syscall[q]
  BY <1>1, <1>2, Updated DEF SysCalls
<1>6. /\ command_number' \in [Procs -> 0 .. MaxCommands]
      /\ \A q \in Procs \ {p} : command_number'[q] = command_number[q]
  <2>1. 0 \in 0 .. MaxCommands
    BY DEF FilesNamed
  <2>2. QED BY <1>1, <1>2, <2>1, Updated
<1>7. Mgr!TypeOK'
  BY <1>1, <1>2, <1>3, <1>4, <1>5, <1>6 DEF Mgr!TypeOK, SysCalls
<1>8. OthersRest(p)
  BY <1>2, <1>5, <1>6 DEF OthersRest
<1>9. NumbersGiven' /\ FileOpen' /\ LockHeld'
  <2>1. HasOpen(p)' /\ HasLock(p)'
    BY <1>5 DEF HasOpen, HasLock, Creating, Appending
  <2>2. commands_run \in Nat /\ \A f \in Mgr!CommandNumbers : Len(files[f]) \in Nat
    BY <1>1
  <2>3. QED BY <1>2, <1>5, <1>8, <2>1, <2>2, Kept
<1>10. LinesWhole'
  BY <1>2, <1>8, LinesKept
<1>11. QED BY <1>2, <1>7, <1>9, <1>10 DEF FileInv, FileIsFile

(* The file is made or opened, and locked and unlocked. *)
LEMMA OpenKeeps ==
  ASSUME FilesNamed, FileInv, NEW p \in Procs,
         \/ Mgr!CreateFile(p) /\ entry[Dir] # Mgr!Nothing /\ entry[File] = Mgr!Nothing
         \/ Mgr!OpenToAppend(p)
  PROVE  FileInv'
<1>1. /\ command \in [Procs -> Mgr!Commands \cup {"none"}] /\ syscall \in [Procs -> SysCalls]
      /\ command_number \in [Procs -> 0 .. MaxCommands]
      /\ status \in [Procs -> 0 .. 255] /\ node \in [Procs -> 0 .. MaxCommands]
      /\ commands_run \in 0 .. MaxCommands
      /\ entry \in [{Dir, File} -> 0 .. Mgr!DirNode]
      /\ files \in [Mgr!CommandNumbers -> Seq(Mgr!Cell)]
      /\ flocks \in [Mgr!CommandNumbers -> 0 .. MaxCommands] /\ log_exists \in BOOLEAN
  BY Types DEF FileInv
<1>2. /\ syscall[p] = "first" /\ command' = command /\ command_number' = command_number
      /\ commands_run' = commands_run /\ files' = files /\ flocks' = flocks /\ status' = status
      /\ log_exists' = log_exists
  BY DEF Mgr!CreateFile, Mgr!OpenToAppend, Mgr!Calls, Mgr!Keeps
<1>3. command_number[p] \in Mgr!CommandNumbers
  BY <1>1, <1>2 DEF FileInv, NumbersGiven, Mgr!CommandNumbers
<1>4. PICK to \in {"time", "lock"}, f \in Mgr!CommandNumbers :
        /\ syscall' = [syscall EXCEPT ![p] = to] /\ node' = [node EXCEPT ![p] = f]
        /\ to = "time" => f = command_number[p]
        /\ entry' = entry \/ entry' = [entry EXCEPT ![File] = command_number[p]]
  <2>1. CASE Mgr!OpenToAppend(p)
    <3>1. entry[File] \in Mgr!CommandNumbers
      BY <2>1 DEF Mgr!OpenToAppend, FileInv, FileIsFile, Mgr!Nothing, Mgr!CommandNumbers, FilesNamed
    <3>2. QED BY <2>1, <3>1 DEF Mgr!OpenToAppend, Mgr!Calls
  <2>2. CASE Mgr!CreateFile(p) /\ entry[Dir] # Mgr!Nothing /\ entry[File] = Mgr!Nothing
    BY <1>3, <2>2 DEF Mgr!CreateFile, Mgr!Calls
  <2>3. QED BY <2>1, <2>2
<1>5. /\ syscall' \in [Procs -> SysCalls] /\ syscall'[p] = to
      /\ \A q \in Procs \ {p} : syscall'[q] = syscall[q]
  BY <1>1, <1>4, Updated DEF SysCalls
<1>6. /\ node' \in [Procs -> 0 .. MaxCommands] /\ node'[p] = f
      /\ \A q \in Procs \ {p} : node'[q] = node[q]
  <2>1. f \in 0 .. MaxCommands
    BY DEF Mgr!CommandNumbers, FilesNamed
  <2>2. QED BY <1>1, <1>4, <2>1, Updated
<1>7. entry' \in [{Dir, File} -> 0 .. Mgr!DirNode] /\ FileIsFile'
  <2>1. command_number[p] \in 0 .. Mgr!DirNode /\ command_number[p] \in 0 .. MaxCommands
    BY <1>3 DEF FilesNamed, Mgr!DirNode, Mgr!CommandNumbers
  <2>2. CASE entry' = entry
    BY <1>1, <2>2 DEF FileInv, FileIsFile
  <2>3. CASE entry' = [entry EXCEPT ![File] = command_number[p]]
    <3>1. /\ entry' \in [{Dir, File} -> 0 .. Mgr!DirNode]
          /\ entry'[File] = command_number[p]
      BY <1>1, <2>1, <2>3, Updated
    <3>2. QED BY <2>1, <3>1 DEF FileIsFile
  <2>4. QED BY <1>4, <2>2, <2>3
<1>8. Mgr!TypeOK'
  BY <1>1, <1>2, <1>5, <1>6, <1>7 DEF Mgr!TypeOK, SysCalls
<1>9. OthersRest(p)
  BY <1>2, <1>5, <1>6 DEF OthersRest
<1>10. NumbersGiven' /\ FileOpen' /\ LockHeld'
  <2>1. HasOpen(p)' /\ HasLock(p)'
    BY <1>2, <1>4, <1>5, <1>6 DEF HasOpen, HasLock, Creating, Appending
  <2>2. commands_run \in Nat /\ \A g \in Mgr!CommandNumbers : Len(files[g]) \in Nat
    BY <1>1
  <2>3. QED BY <1>2, <1>9, <2>1, <2>2, Kept
<1>11. LinesWhole'
  BY <1>2, <1>9, LinesKept
<1>12. QED BY <1>7, <1>8, <1>10, <1>11 DEF FileInv

LEMMA LockKeeps ==
  ASSUME FilesNamed, FileInv, NEW p \in Procs, Mgr!Lock(p) \/ Mgr!Locked(p) \/ Mgr!Unlock(p)
  PROVE  FileInv'
<1>1. /\ command \in [Procs -> Mgr!Commands \cup {"none"}] /\ syscall \in [Procs -> SysCalls]
      /\ command_number \in [Procs -> 0 .. MaxCommands]
      /\ status \in [Procs -> 0 .. 255] /\ node \in [Procs -> 0 .. MaxCommands]
      /\ commands_run \in 0 .. MaxCommands
      /\ entry \in [{Dir, File} -> 0 .. Mgr!DirNode]
      /\ files \in [Mgr!CommandNumbers -> Seq(Mgr!Cell)]
      /\ flocks \in [Mgr!CommandNumbers -> 0 .. MaxCommands] /\ log_exists \in BOOLEAN
  BY Types DEF FileInv
<1> USE DEF Mgr!Calls, Mgr!Keeps, Mgr!Ends
<1>2. /\ syscall[p] \in {"lock", "unlock"} /\ command' = command /\ command_number' = command_number
      /\ commands_run' = commands_run /\ files' = files /\ entry' = entry /\ log_exists' = log_exists
  BY DEF Mgr!Lock, Mgr!Locked, Mgr!Unlock
<1>3. /\ node[p] \in Mgr!CommandNumbers
      /\ command_number[p] \in 0 .. MaxCommands /\ 0 \in 0 .. MaxCommands
      /\ 0 \in 0 .. 255 /\ 1 \in 0 .. 255
  BY <1>1, <1>2 DEF FileInv, FileOpen, HasOpen, Appending, FilesNamed
<1>4. PICK to \in {"content", "log"} : syscall' = [syscall EXCEPT ![p] = to]
  BY DEF Mgr!Lock, Mgr!Locked, Mgr!Unlock
<1>5. /\ syscall' \in [Procs -> SysCalls] /\ syscall'[p] = to
      /\ \A q \in Procs \ {p} : syscall'[q] = syscall[q]
  BY <1>1, <1>4, Updated DEF SysCalls
<1>6. /\ node' \in [Procs -> 0 .. MaxCommands] /\ \A q \in Procs \ {p} : node'[q] = node[q]
  <2>1. CASE node' = node
    BY <1>1, <2>1
  <2>2. CASE node' = [node EXCEPT ![p] = 0]
    BY <1>1, <1>3, <2>2, Updated
  <2>3. QED BY <2>1, <2>2 DEF Mgr!Lock, Mgr!Locked, Mgr!Unlock
<1>7. status' \in [Procs -> 0 .. 255]
  <2>1. status' = status \/ status' = [status EXCEPT ![p] = 0] \/ status' = [status EXCEPT ![p] = 1]
    BY DEF Mgr!Lock, Mgr!Locked, Mgr!Unlock
  <2>2. 0 \in 0 .. 255 /\ 1 \in 0 .. 255
    OBVIOUS
  <2>3. CASE status' = status
    BY <1>1, <2>3
  <2>4. CASE status' = [status EXCEPT ![p] = 0]
    BY <1>1, <2>2, <2>4, Updated
  <2>5. CASE status' = [status EXCEPT ![p] = 1]
    BY <1>1, <2>2, <2>5, Updated
  <2>6. QED BY <2>1, <2>3, <2>4, <2>5
<1>8. /\ flocks' \in [Mgr!CommandNumbers -> 0 .. MaxCommands]
      /\ \A g \in Mgr!CommandNumbers : flocks'[g] = flocks[g] \/ flocks[g] = 0 \/ flocks[g] = command_number[p]
      /\ to = "content" => node' = node /\ flocks'[node[p]] = command_number[p]
  <2>1. CASE Mgr!Lock(p)
    <3>1. flocks[node[p]] = 0 /\ node' = node /\ flocks' = [flocks EXCEPT ![node[p]] = command_number[p]]
      BY <2>1 DEF Mgr!Lock
    <3>2. QED BY <1>1, <1>3, <3>1, Updated
  <2>2. CASE Mgr!Locked(p)
    <3>1. flocks' = flocks /\ to = "log"
      BY <1>1, <1>4, <2>2 DEF Mgr!Locked
    <3>2. QED BY <1>1, <3>1
  <2>3. CASE Mgr!Unlock(p)
    <3>1. flocks' = [flocks EXCEPT ![node[p]] = 0] /\ to = "log" /\ syscall[p] = "unlock"
      BY <1>1, <1>4, <2>3 DEF Mgr!Unlock
    <3>2. flocks[node[p]] = command_number[p]
      BY <3>1 DEF FileInv, LockHeld, HasLock, Appending
    <3>3. QED BY <1>1, <1>3, <3>1, <3>2, Updated
  <2>4. QED BY <2>1, <2>2, <2>3
<1>9. Mgr!TypeOK'
  BY <1>1, <1>2, <1>5, <1>6, <1>7, <1>8 DEF Mgr!TypeOK, SysCalls
<1>10. OthersRest(p)
  BY <1>2, <1>5, <1>6 DEF OthersRest
<1>11. NumbersGiven' /\ FileOpen' /\ LockHeld'
  <2>1. HasOpen(p)' /\ HasLock(p)'
    BY <1>2, <1>3, <1>5, <1>8 DEF HasOpen, HasLock, Creating, Appending
  <2>2. commands_run \in Nat /\ \A g \in Mgr!CommandNumbers : Len(files[g]) \in Nat
    BY <1>1
  <2>3. QED BY <1>2, <1>8, <1>10, <2>1, <2>2, Kept
<1>12. LinesWhole'
  BY <1>2, <1>10, LinesKept
<1>13. QED BY <1>2, <1>9, <1>11, <1>12 DEF FileInv, FileIsFile

(* Two processes that append to one file are one. *)
LEMMA OneAppends ==
  ASSUME FileInv, NEW p \in Procs, NEW q \in Procs, syscall[p] \in Appending, syscall[q] \in Appending,
         node[p] = node[q]
  PROVE  p = q
<1>1. HasLock(p) /\ HasLock(q)
  BY DEF FileInv, LockHeld
<1>2. command_number[p] = command_number[q]
  BY <1>1 DEF HasLock
<1>3. QED BY <1>2 DEF FileInv, NumbersGiven, Appending

(* appendToFile writes its line. *)
LEMMA AppendKeeps ==
  ASSUME FilesNamed, FileInv, NEW p \in Procs, Mgr!AppendContent(p) \/ Mgr!AppendNewline(p)
  PROVE  FileInv'
<1>1. /\ command \in [Procs -> Mgr!Commands \cup {"none"}] /\ syscall \in [Procs -> SysCalls]
      /\ command_number \in [Procs -> 0 .. MaxCommands]
      /\ status \in [Procs -> 0 .. 255] /\ node \in [Procs -> 0 .. MaxCommands]
      /\ commands_run \in 0 .. MaxCommands
      /\ entry \in [{Dir, File} -> 0 .. Mgr!DirNode]
      /\ files \in [Mgr!CommandNumbers -> Seq(Mgr!Cell)]
      /\ flocks \in [Mgr!CommandNumbers -> 0 .. MaxCommands] /\ log_exists \in BOOLEAN
  BY Types DEF FileInv
<1>2. /\ command' = command /\ command_number' = command_number /\ commands_run' = commands_run
      /\ flocks' = flocks /\ node' = node /\ entry' = entry /\ log_exists' = log_exists
      /\ status' = status
  BY DEF Mgr!AppendContent, Mgr!AppendNewline, Mgr!Keeps
<1>3. PICK kind \in {"content", "newline"} :
        /\ syscall[p] = (IF kind = "content" THEN "content" ELSE "newline2")
        /\ syscall' = [syscall EXCEPT ![p] = IF kind = "content" THEN "newline2" ELSE "unlock"]
        /\ Mgr!Write(node[p], <<kind>>, p)
  BY DEF Mgr!AppendContent, Mgr!AppendNewline, Mgr!Calls
<1>4. PICK f \in Mgr!CommandNumbers, n \in Mgr!CommandNumbers : f = node[p] /\ n = command_number[p]
  BY <1>1, <1>3 DEF FileInv, FileOpen, HasOpen, Appending, NumbersGiven, Mgr!CommandNumbers
<1> DEFINE t == files[f] \o [k \in DOMAIN <<kind>> |-> [by |-> n, kind |-> <<kind>>[k]]]
<1>5. files' = [files EXCEPT ![f] = t]
  BY <1>3, <1>4 DEF Mgr!Write
<1>6. files[f] \in Seq(Mgr!Cell) /\ Len(files[f]) \in Nat
  BY <1>1, <1>4
<1>7. /\ t \in Seq(Mgr!Cell) /\ Len(t) = Len(files[f]) + 1
      /\ \A k \in 1 .. Len(files[f]) : t[k] = files[f][k]
      /\ t[Len(files[f]) + 1] = [by |-> n, kind |-> kind]
  <2>1. [by |-> n, kind |-> kind] \in Mgr!Cell
    BY <1>4 DEF Mgr!Cell
  <2>2. QED BY <1>6, <2>1, LineWritten
<1> HIDE DEF t
<1>8. /\ files' \in [Mgr!CommandNumbers -> Seq(Mgr!Cell)] /\ files'[f] = t
      /\ \A g \in Mgr!CommandNumbers \ {f} : files'[g] = files[g]
  BY <1>1, <1>4, <1>5, <1>7, Updated
<1>9. /\ syscall' \in [Procs -> SysCalls]
      /\ syscall'[p] = (IF kind = "content" THEN "newline2" ELSE "unlock")
      /\ \A q \in Procs \ {p} : syscall'[q] = syscall[q]
  <2>1. (IF kind = "content" THEN "newline2" ELSE "unlock") \in SysCalls
    BY DEF SysCalls
  <2>2. QED BY <1>1, <1>3, <2>1, Updated
<1>10. Mgr!TypeOK'
  BY <1>1, <1>2, <1>8, <1>9 DEF Mgr!TypeOK, SysCalls
<1>11. OthersRest(p)
  BY <1>2, <1>9 DEF OthersRest
<1>12. syscall[p] \in Appending /\ syscall'[p] \in Appending \ {"content"}
  BY <1>3, <1>9 DEF Appending
<1>13. NumbersGiven' /\ FileOpen' /\ LockHeld'
  <2>1. HasOpen(p)' /\ HasLock(p)'
    <3>1. HasOpen(p) /\ HasLock(p)
      BY DEF FileInv, FileOpen, LockHeld
    <3>2. QED BY <1>2, <1>4, <1>12, <3>1 DEF HasOpen, HasLock, Creating, Appending
  <2>2. commands_run \in Nat /\ syscall[p] # "none"
    BY <1>1, <1>12 DEF Appending
  <2>3. \A g \in Mgr!CommandNumbers : Len(files'[g]) >= Len(files[g])
    <3>1. Len(files'[f]) >= Len(files[f])
      BY <1>6, <1>7, <1>8
    <3>2. \A g \in Mgr!CommandNumbers \ {f} : Len(files'[g]) = Len(files[g]) /\ Len(files[g]) \in Nat
      BY <1>1, <1>8
    <3>3. QED BY <3>1, <3>2
  <2>4. QED BY <1>2, <1>11, <2>1, <2>2, <2>3, Kept
<1>14. LinesWhole'
  <2>1. ASSUME NEW g \in Mgr!CommandNumbers, g # f, NEW k \in DOMAIN files'[g],
               files'[g][k].kind = "content"
        PROVE  FollowedBy(g, k)'
    <3>1. files'[g] = files[g]
      BY <1>8, <2>1
    <3>2. FollowedBy(g, k)
      BY <2>1, <3>1 DEF FileInv, LinesWhole
    <3>3. CASE k = Len(files[g])
      <4>1. PICK q \in Procs : command_number[q] = files[g][k].by /\ syscall[q] = "newline2" /\ node[q] = g
        BY <3>2, <3>3 DEF FollowedBy
      <4>2. q # p
        BY <1>4, <2>1, <4>1
      <4>3. command_number'[q] = files[g][k].by /\ syscall'[q] = "newline2" /\ node'[q] = g
        BY <4>1, <4>2, <1>11 DEF OthersRest
      <4>4. QED BY <3>1, <3>3, <4>3 DEF FollowedBy
    <3>4. CASE k # Len(files[g])
      BY <3>1, <3>2, <3>4 DEF FollowedBy
    <3>5. QED BY <3>3, <3>4
(* In the file itself the last cell was of this process, or no content. *)
  <2>2. ASSUME NEW k \in DOMAIN files'[f], files'[f][k].kind = "content"
        PROVE  FollowedBy(f, k)'
    <3>1. k \in 1 .. Len(files[f]) + 1 /\ Len(files'[f]) = Len(files[f]) + 1
      BY <1>6, <1>7, <1>8, <2>2
    <3>2. CASE k = Len(files[f]) + 1
      <4>1. files'[f][k] = [by |-> n, kind |-> kind]
        BY <1>7, <1>8, <3>2
      <4>2. kind = "content" /\ files'[f][k].by = n
        BY <2>2, <4>1
      <4>3. command_number'[p] = files'[f][k].by /\ syscall'[p] = "newline2" /\ node'[p] = f
        BY <1>2, <1>4, <1>9, <4>2
      <4>4. QED BY <3>1, <3>2, <4>3 DEF FollowedBy
    <3>3. CASE k \in 1 .. Len(files[f])
      <4>1. files'[f][k] = files[f][k] /\ k \in DOMAIN files[f] /\ k # Len(files'[f])
        BY <1>6, <1>7, <1>8, <3>1, <3>3
      <4>2. FollowedBy(f, k)
        BY <1>4, <2>2, <4>1 DEF FileInv, LinesWhole
      <4>3. CASE k = Len(files[f])
        <5>1. PICK q \in Procs : command_number[q] = files[f][k].by /\ syscall[q] = "newline2" /\ node[q] = f
          BY <4>2, <4>3 DEF FollowedBy
        <5>2. q = p
          BY <1>4, <1>12, <5>1, OneAppends DEF Appending
        <5>3. files'[f][k + 1] = [by |-> n, kind |-> kind]
          BY <1>7, <1>8, <4>3
        <5>4. files'[f][k + 1].by = files'[f][k].by
          BY <1>4, <4>1, <5>1, <5>2, <5>3
        <5>5. QED BY <4>1, <5>4 DEF FollowedBy
      <4>4. CASE k # Len(files[f])
        <5>1. k + 1 \in 1 .. Len(files[f])
          BY <1>6, <3>3, <4>4
        <5>2. files'[f][k + 1] = files[f][k + 1]
          BY <1>7, <1>8, <5>1
        <5>3. QED BY <4>1, <4>2, <4>4, <5>2 DEF FollowedBy
      <4>5. QED BY <4>3, <4>4
    <3>4. QED BY <1>6, <3>1, <3>2, <3>3
  <2>3. QED BY <1>4, <2>1, <2>2 DEF LinesWhole
<1>15. FileIsFile'
  BY <1>2 DEF FileInv, FileIsFile
<1>16. QED BY <1>10, <1>13, <1>14, <1>15 DEF FileInv

(* createFile writes the time, and the newline after it. *)
LEMMA CreateKeeps ==
  ASSUME FilesNamed, FileInv, NEW p \in Procs, Mgr!WriteTime(p) \/ Mgr!WriteNewline(p)
  PROVE  FileInv'
<1>1. /\ command \in [Procs -> Mgr!Commands \cup {"none"}] /\ syscall \in [Procs -> SysCalls]
      /\ command_number \in [Procs -> 0 .. MaxCommands]
      /\ status \in [Procs -> 0 .. 255] /\ node \in [Procs -> 0 .. MaxCommands]
      /\ commands_run \in 0 .. MaxCommands
      /\ entry \in [{Dir, File} -> 0 .. Mgr!DirNode]
      /\ files \in [Mgr!CommandNumbers -> Seq(Mgr!Cell)]
      /\ flocks \in [Mgr!CommandNumbers -> 0 .. MaxCommands] /\ log_exists \in BOOLEAN
  BY Types DEF FileInv
<1>2. /\ command' = command /\ command_number' = command_number /\ commands_run' = commands_run
      /\ flocks' = flocks /\ entry' = entry /\ log_exists' = log_exists
      /\ syscall[p] \in Creating
  BY DEF Mgr!WriteTime, Mgr!WriteNewline, Mgr!Keeps, Mgr!Calls, Creating
<1>3. PICK f \in Mgr!CommandNumbers : f = node[p] /\ f = command_number[p]
  BY <1>2 DEF FileInv, FileOpen, HasOpen
<1>4. files[f] \in Seq(Mgr!Cell) /\ Len(files[f]) \in Nat
  BY <1>1, <1>3
<1>5. PICK from \in 0 .. Len(files[f]), new \in Seq(Mgr!Cell) :
        /\ files' = [files EXCEPT ![f] = Mgr!Over(files[f], from, new)]
        /\ \A k \in 1 .. Len(new) : new[k].by = f /\ new[k].kind # "content"
        /\ syscall[p] = "time" => from = 0 /\ Len(new) = 2
  <2>1. CASE Mgr!WriteTime(p)
    <3> DEFINE x == [by |-> command_number[p], kind |-> "time"]
    <3>1. files' = [files EXCEPT ![f] = Mgr!Over(files[f], 0, <<x, x>>)] /\ syscall[p] = "time"
      BY <1>3, <2>1 DEF Mgr!WriteTime, Mgr!Calls
    <3>2. x \in Mgr!Cell /\ x.by = f /\ x.kind = "time"
      BY <1>3 DEF Mgr!Cell
    <3> HIDE DEF x
    <3>3. /\ <<x, x>> \in Seq(Mgr!Cell) /\ Len(<<x, x>>) = 2
          /\ \A k \in 1 .. 2 : <<x, x>>[k] = x
      BY <3>2
    <3>4. 0 \in 0 .. Len(files[f])
      BY <1>4
    <3>5. \A k \in 1 .. 2 : <<x, x>>[k].by = f /\ <<x, x>>[k].kind # "content"
      BY <3>2, <3>3
    <3>6. QED BY <3>1, <3>3, <3>4, <3>5
  <2>2. CASE Mgr!WriteNewline(p)
    <3> DEFINE x == [by |-> command_number[p], kind |-> "newline"]
    <3>1. files' = [files EXCEPT ![f] = Mgr!Over(files[f], 2, <<x>>)] /\ syscall[p] = "newline"
      BY <1>3, <2>2 DEF Mgr!WriteNewline, Mgr!Calls
    <3>2. x \in Mgr!Cell /\ x.by = f /\ x.kind = "newline"
      BY <1>3 DEF Mgr!Cell
    <3> HIDE DEF x
    <3>3. /\ <<x>> \in Seq(Mgr!Cell) /\ Len(<<x>>) = 1
          /\ \A k \in 1 .. 1 : <<x>>[k] = x
      BY <3>2
    <3>4. 2 \in 0 .. Len(files[f])
      <4>1. Len(files[f]) >= 2
        BY <1>3, <3>1 DEF FileInv, FileOpen, HasOpen
      <4>2. QED BY <1>4, <4>1
    <3>5. \A k \in 1 .. 1 : <<x>>[k].by = f /\ <<x>>[k].kind # "content"
      BY <3>2, <3>3
    <3>6. QED BY <3>1, <3>3, <3>4, <3>5
  <2>3. QED BY <2>1, <2>2
<1> DEFINE t == Mgr!Over(files[f], from, new)
<1>6. /\ t \in Seq(Mgr!Cell) /\ Len(t) >= from + Len(new) /\ Len(t) >= Len(files[f])
      /\ Len(t) = from + Len(new) \/ Len(t) = Len(files[f])
      /\ \A k \in 1 .. Len(t) :
           t[k] = IF k \in from + 1 .. from + Len(new) THEN new[k - from] ELSE files[f][k]
  BY <1>4, Overwritten
<1> HIDE DEF t
<1>7. /\ files' \in [Mgr!CommandNumbers -> Seq(Mgr!Cell)] /\ files'[f] = t
      /\ \A g \in Mgr!CommandNumbers \ {f} : files'[g] = files[g]
  BY <1>1, <1>3, <1>5, <1>6, Updated DEF t
<1>8. PICK to \in {"newline", "log"} :
        syscall' = [syscall EXCEPT ![p] = to] /\ (to = "newline" => syscall[p] = "time" /\ node' = node)
  BY DEF Mgr!WriteTime, Mgr!WriteNewline, Mgr!Calls, Mgr!Keeps
<1>9. /\ syscall' \in [Procs -> SysCalls] /\ syscall'[p] = to
      /\ \A q \in Procs \ {p} : syscall'[q] = syscall[q]
  BY <1>1, <1>8, Updated DEF SysCalls
<1>10. /\ node' \in [Procs -> 0 .. MaxCommands] /\ \A q \in Procs \ {p} : node'[q] = node[q]
  <2>1. CASE node' = node
    BY <1>1, <2>1
  <2>2. CASE node' = [node EXCEPT ![p] = 0]
    <3>1. 0 \in 0 .. MaxCommands
      BY DEF FilesNamed
    <3>2. QED BY <1>1, <2>2, <3>1, Updated
  <2>3. QED BY <2>1, <2>2 DEF Mgr!WriteTime, Mgr!WriteNewline
<1>11. status' \in [Procs -> 0 .. 255]
  <2>1. status' = status \/ status' = [status EXCEPT ![p] = 0] \/ status' = [status EXCEPT ![p] = 1]
    BY DEF Mgr!WriteTime, Mgr!WriteNewline, Mgr!Ends
  <2>2. 0 \in 0 .. 255 /\ 1 \in 0 .. 255
    OBVIOUS
  <2>3. CASE status' = status
    BY <1>1, <2>3
  <2>4. CASE status' = [status EXCEPT ![p] = 0]
    BY <1>1, <2>2, <2>4, Updated
  <2>5. CASE status' = [status EXCEPT ![p] = 1]
    BY <1>1, <2>2, <2>5, Updated
  <2>6. QED BY <2>1, <2>3, <2>4, <2>5
<1>12. Mgr!TypeOK'
  BY <1>1, <1>2, <1>7, <1>9, <1>10, <1>11 DEF Mgr!TypeOK, SysCalls
<1>13. OthersRest(p)
  BY <1>2, <1>9, <1>10 DEF OthersRest
<1>14. NumbersGiven' /\ FileOpen' /\ LockHeld'
  <2>1. HasOpen(p)'
    <3>1. CASE to = "newline"
      <4>1. Len(files'[node'[p]]) >= 2 /\ node'[p] = f
        <5>1. node'[p] = f /\ from = 0 /\ Len(new) = 2
          BY <1>3, <1>5, <1>8, <3>1
        <5>2. QED BY <1>6, <1>7, <5>1
      <4>2. QED BY <1>2, <1>3, <1>9, <3>1, <4>1 DEF HasOpen
    <3>2. CASE to = "log"
      BY <1>9, <3>2 DEF HasOpen, Creating, Appending
    <3>3. QED BY <3>1, <3>2
  <2>2. HasLock(p)'
    BY <1>9 DEF HasLock, Appending
  <2>3. commands_run \in Nat /\ syscall[p] # "none"
    BY <1>1, <1>2 DEF Creating
  <2>4. \A g \in Mgr!CommandNumbers : Len(files'[g]) >= Len(files[g])
    <3>1. Len(files'[f]) >= Len(files[f])
      BY <1>6, <1>7
    <3>2. \A g \in Mgr!CommandNumbers \ {f} : Len(files'[g]) = Len(files[g]) /\ Len(files[g]) \in Nat
      BY <1>1, <1>7
    <3>3. QED BY <3>1, <3>2
  <2>5. QED BY <1>2, <1>13, <2>1, <2>2, <2>3, <2>4, Kept
<1>15. LinesWhole'
  <2>1. \A q \in Procs : syscall[q] = "newline2" =>
          syscall'[q] = "newline2" /\ command_number'[q] = command_number[q] /\ node'[q] = node[q]
    BY <1>2, <1>13 DEF OthersRest, Creating
  <2>2. ASSUME NEW g \in Mgr!CommandNumbers, g # f, NEW k \in DOMAIN files'[g],
               files'[g][k].kind = "content"
        PROVE  FollowedBy(g, k)'
    <3>1. files'[g] = files[g]
      BY <1>7, <2>2
    <3>2. FollowedBy(g, k)
      BY <2>2, <3>1 DEF FileInv, LinesWhole
    <3>3. CASE k = Len(files[g])
      BY <2>1, <3>1, <3>2, <3>3 DEF FollowedBy
    <3>4. CASE k # Len(files[g])
      BY <3>1, <3>2, <3>4 DEF FollowedBy
    <3>5. QED BY <3>3, <3>4
(* A content that is not covered is followed by what followed it or by what  *)
(* the creator has written.                                                  *)
  <2>3. ASSUME NEW k \in DOMAIN files'[f], files'[f][k].kind = "content"
        PROVE  FollowedBy(f, k)'
    <3>1. k \in 1 .. Len(t) /\ Len(t) \in Nat /\ Len(new) \in Nat /\ from \in Nat
      BY <1>4, <1>6, <1>7, <2>3
    <3>2. ASSUME NEW j \in from + 1 .. from + Len(new)
          PROVE  j \in 1 .. Len(t) /\ t[j].by = f /\ t[j].kind # "content"
      <4>1. j \in 1 .. Len(t) /\ j - from \in 1 .. Len(new)
        BY <1>6, <3>1, <3>2
      <4>2. t[j] = new[j - from]
        BY <1>6, <3>2, <4>1
      <4>3. QED BY <1>5, <4>1, <4>2
    <3>3. k \notin from + 1 .. from + Len(new)
      BY <1>7, <2>3, <3>2
    <3>4. k \in 1 .. Len(files[f]) /\ t[k] = files[f][k]
      BY <1>4, <1>6, <3>1, <3>3
    <3>5. FollowedBy(f, k)
      <4>1. k \in DOMAIN files[f] /\ files[f][k].kind = "content"
        BY <1>4, <1>7, <2>3, <3>4
      <4>2. QED BY <1>3, <4>1 DEF FileInv, LinesWhole
    <3>6. CASE k = Len(t)
      <4>1. k = Len(files[f])
        BY <1>4, <1>6, <3>1, <3>4, <3>6
      <4>2. QED BY <1>7, <2>1, <3>4, <3>5, <3>6, <4>1 DEF FollowedBy
    <3>7. CASE k # Len(t)
      <4>1. k + 1 \in 1 .. Len(t)
        BY <3>1, <3>7
      <4>2. t[k + 1].by \in {files[f][k].by, f}
        <5>1. CASE k + 1 \in from + 1 .. from + Len(new)
          BY <3>2, <5>1
        <5>2. CASE k + 1 \notin from + 1 .. from + Len(new)
          <6>1. t[k + 1] = files[f][k + 1]
            BY <1>6, <4>1, <5>2
          <6>2. k # Len(files[f])
            BY <1>4, <1>6, <3>1, <3>3, <3>4, <3>7, <4>1, <5>2
          <6>3. QED BY <3>5, <6>1, <6>2 DEF FollowedBy
        <5>3. QED BY <5>1, <5>2
      <4>3. QED BY <1>7, <3>4, <3>7, <4>2 DEF FollowedBy
    <3>8. QED BY <3>6, <3>7
  <2>4. QED BY <1>3, <2>2, <2>3 DEF LinesWhole
<1>16. FileIsFile'
  BY <1>2 DEF FileInv, FileIsFile
<1>17. QED BY <1>12, <1>14, <1>15, <1>16 DEF FileInv
-----------------------------------------------------------------------------
LEMMA FileInitially == ASSUME FilesNamed PROVE Mgr!Init => FileInv
<1> SUFFICES ASSUME Mgr!Init PROVE FileInv
  OBVIOUS
<1>1. Mgr!TypeOK
  <2>1. 0 \in 0 .. MaxCommands /\ 0 \in 0 .. 255 /\ 0 \in 0 .. Mgr!DirNode /\ Mgr!DirNode \in 0 .. Mgr!DirNode
    BY DEF FilesNamed, Mgr!DirNode
  <2>2. command \in [Procs -> Mgr!Commands \cup {"none"}] /\ syscall \in [Procs -> SysCalls]
    BY DEF Mgr!Init, SysCalls
  <2>3. /\ command_number \in [Procs -> 0 .. MaxCommands] /\ status \in [Procs -> 0 .. 255]
        /\ node \in [Procs -> 0 .. MaxCommands] /\ commands_run \in 0 .. MaxCommands
    BY <2>1 DEF Mgr!Init
  <2>4. entry \in [{Dir, File} -> 0 .. Mgr!DirNode]
    BY <2>1 DEF Mgr!Init, Mgr!Nothing
  <2>5. flocks \in [Mgr!CommandNumbers -> 0 .. MaxCommands]
    BY <2>1 DEF Mgr!Init
  <2>6. files \in [Mgr!CommandNumbers -> Seq(Mgr!Cell)]
    <3>1. <<>> \in Seq(Mgr!Cell)
      OBVIOUS
    <3>2. QED BY <3>1 DEF Mgr!Init
  <2>7. log_exists \in BOOLEAN
    BY DEF Mgr!Init
  <2>8. QED BY <2>2, <2>3, <2>4, <2>5, <2>6, <2>7, Types
<1>2. FileIsFile
  BY DEF Mgr!Init, FileIsFile, FilesNamed, Mgr!Nothing
<1>3. NumbersGiven /\ FileOpen /\ LockHeld
  BY DEF Mgr!Init, NumbersGiven, FileOpen, LockHeld, HasOpen, HasLock, Creating, Appending
<1>4. LinesWhole
  BY DEF Mgr!Init, LinesWhole
<1>5. QED BY <1>1, <1>2, <1>3, <1>4 DEF FileInv

LEMMA FileSteps == [AllNext]_allvars => [Mgr!Next]_files_vars
BY DEF AllNext, Only, allvars

(* For any processes and any number of commands: HW1 (main.c) gives every    *)
(* command its file and, while it appends, the lock of that file.            *)
THEOREM FileInvariant == ASSUME FilesNamed PROVE AllSpec => []FileInv
<1>1. AllInit => FileInv
  BY FileInitially DEF AllInit
<1>2. FileInv /\ [AllNext]_allvars => FileInv'
  <2> SUFFICES ASSUME FileInv, [Mgr!Next]_files_vars PROVE FileInv'
    BY FileSteps
  <2>1. CASE Mgr!Next
    BY <2>1, QuietKeeps, StartKeeps, ExitKeeps, OpenKeeps, LockKeeps, AppendKeeps, CreateKeeps
       DEF Mgr!Next, Quiet
  <2>2. CASE UNCHANGED files_vars
    BY <2>2 DEF files_vars, FileInv, Mgr!TypeOK, FileIsFile, NumbersGiven, FileOpen, HasOpen,
                LockHeld, HasLock, LinesWhole, FollowedBy
  <2>3. QED BY <2>1, <2>2
<1>3. QED BY <1>1, <1>2, PTL DEF AllSpec

(* The property of the run: what a command appends to a file is followed by  *)
(* its own newline, or by what the creator of the file wrote over it         *)
(* (HW1 main.c:255-269, 91-92).                                              *)
THEOREM FileAppendsWhole == ASSUME FilesNamed PROVE AllSpec => []AppendsWhole
<1>1. FileInv => AppendsWhole
  BY DEF FileInv, LinesWhole, FollowedBy, Mgr!AppendsWhole, AppendsWhole
<1>2. QED BY <1>1, FileInvariant, PTL
-----------------------------------------------------------------------------
EndedChildren == {c \in Dmn!Children : child[c] = "ended"}

(* The children that were waited for are those that are counted. *)
EachCountedOnce ==
  zombies \subseteq EndedChildren /\ child_counter = Cardinality(EndedChildren \ zombies)

(* The FIFOs are there as long as a child may open one of them, unless the   *)
(* daemon has ended, and the children are forked in order.                   *)
ForkedInOrder ==
  /\ daemon \in {"new", "fifo1", "fifo2", "feed", "fork1"} => \A c \in Dmn!Children : child[c] = "none"
  /\ daemon = "fork2" => child[2] = "none"
  /\ daemon = "fifo2" => 1 \in fifos
  /\ daemon \in {"feed"} \cup Dmn!Living => fifos = {1, 2}

(* Only the larger number is ever in FIFO 2 or logged, and child 2 ends      *)
(* without it only if the daemon has ended before.                           *)
Larger == <<Dmn!LargerOf(numbers)>>
Delivery ==
  /\ (pipe2 = <<>> \/ pipe2 = Larger) /\ (larger = <<>> \/ larger = Larger)
  /\ child[1] \in {"none", "sleep", "open2", "write"} => pipe2 = <<>>
  /\ child[2] \in {"none", "sleep", "read"} => larger = <<>>
  /\ child[2] = "close" => larger = Larger
  /\ daemon \in Dmn!Living /\ child[2] = "ended" => larger = Larger
  /\ daemon = "success" => child[2] = "ended" /\ larger = Larger

DmnInv == Dmn!TypeOK /\ EachCountedOnce /\ ForkedInOrder /\ Delivery
-----------------------------------------------------------------------------
LEMMA ChildCardinality == \A S : Dmn!Cardinality(S) = Cardinality(S)
BY DEF Dmn!Cardinality, Cardinality

LEMMA PairCounted ==
  ASSUME NEW S \in SUBSET {1, 2}
  PROVE  Cardinality(S) = (IF 1 \in S THEN 1 ELSE 0) + (IF 2 \in S THEN 1 ELSE 0)
<1>1. /\ Cardinality({}) = 0 /\ IsFiniteSet({})
      /\ Cardinality({1}) = 1 /\ IsFiniteSet({1})
      /\ Cardinality({2}) = 1
  BY FS_EmptySet, FS_Singleton
<1>2. Cardinality({1} \cup {2}) = 2
  <2>1. 2 \notin {1}
    OBVIOUS
  <2>2. Cardinality({1} \cup {2}) = Cardinality({1}) + 1
    BY <1>1, <2>1, FS_AddElement, Zenon
  <2>3. QED BY <1>1, <2>2
<1>3. S \in {{}, {1}, {2}, {1} \cup {2}}
  OBVIOUS
<1>4. CASE S = {}
  BY <1>1, <1>4
<1>5. CASE S = {1}
  BY <1>1, <1>5
<1>6. CASE S = {2}
  BY <1>1, <1>6
<1>7. CASE S = {1} \cup {2}
  BY <1>2, <1>7
<1>8. QED BY <1>3, <1>4, <1>5, <1>6, <1>7

(* Children that end while others may run are not counted before the handler runs. *)
LEMMA EndUncounted ==
  ASSUME Dmn!TypeOK, EachCountedOnce, NEW cs \in SUBSET Dmn!Alive, Dmn!ChildrenGone(cs),
         child_counter' = child_counter
  PROVE  /\ child' \in [Dmn!Children -> {"none", "ended"} \cup Dmn!Running]
         /\ \A c \in Dmn!Children : child'[c] = IF c \in cs THEN "ended" ELSE child[c]
         /\ open2' \subseteq Dmn!Children /\ (pipe2' = <<>> \/ pipe2' = pipe2)
         /\ zombies' \subseteq Dmn!Children /\ sigchld' \in BOOLEAN
         /\ EachCountedOnce'
<1>1. cs \subseteq Dmn!Children /\ \A c \in cs : child[c] # "ended"
  BY DEF Dmn!Alive, Dmn!Running
<1>2. /\ child' \in [Dmn!Children -> {"none", "ended"} \cup Dmn!Running]
      /\ \A c \in Dmn!Children : child'[c] = IF c \in cs THEN "ended" ELSE child[c]
  BY <1>1 DEF Dmn!ChildrenGone, Dmn!TypeOK
<1>3. open2' \subseteq Dmn!Children /\ (pipe2' = <<>> \/ pipe2' = pipe2) /\ zombies' \subseteq Dmn!Children
  BY <1>1 DEF Dmn!ChildrenGone, Dmn!TypeOK
<1>4. sigchld' \in BOOLEAN
  BY DEF Dmn!ChildrenGone, Dmn!TypeOK
<1>5. EachCountedOnce'
  <2>1. zombies' = zombies \cup cs
    BY DEF Dmn!ChildrenGone
  <2>2. EndedChildren' = EndedChildren \cup cs
    BY <1>1, <1>2 DEF EndedChildren
  <2>3. EndedChildren \cap cs = {}
    BY <1>1 DEF EndedChildren
  <2>4. EndedChildren' \ zombies' = EndedChildren \ zombies
    BY <2>1, <2>2, <2>3
  <2>5. QED BY <2>1, <2>2, <2>4 DEF EachCountedOnce
<1>6. QED BY <1>2, <1>3, <1>4, <1>5

LEMMA DmnInitially == ASSUME Numbers # {} PROVE Dmn!Init => DmnInv
<1> SUFFICES ASSUME Dmn!Init PROVE DmnInv
  OBVIOUS
<1>1. numbers \in Numbers \X Numbers
  <2>1. PICK n \in Numbers : TRUE
    OBVIOUS
  <2>2. <<n, n>> \in Numbers \X Numbers
    OBVIOUS
  <2>3. QED BY <2>2 DEF Dmn!Init
<1>2. /\ child = [c \in Dmn!Children |-> "none"] /\ EndedChildren = {} /\ zombies = {}
      /\ child_counter = 0
  BY DEF Dmn!Init, EndedChildren
<1>3. EachCountedOnce
  BY <1>2, FS_EmptySet DEF EachCountedOnce
<1>4. Dmn!TypeOK
  <2>1. child \in [Dmn!Children -> {"none", "ended"} \cup Dmn!Running]
    BY <1>2
  <2>2. pipe2 \in Seq(Numbers) /\ larger \in Seq(Numbers) /\ child_counter \in 0 .. 2
    BY <1>2 DEF Dmn!Init
  <2>3. QED BY <1>1, <1>2, <2>1, <2>2 DEF Dmn!Init, Dmn!TypeOK
<1>5. ForkedInOrder
  BY <1>2 DEF Dmn!Init, ForkedInOrder, Dmn!Living, Dmn!Children
<1>6. Delivery
  BY <1>2 DEF Dmn!Init, Delivery, Dmn!Living, Dmn!Children
<1>7. QED BY <1>3, <1>4, <1>5, <1>6 DEF DmnInv

(* The daemon's own steps. *)
LEMMA DaemonKeeps ==
  ASSUME DmnInv, Dmn!DaemonStep \/ Dmn!Signal \/ Dmn!SignalEarly
  PROVE  DmnInv'
<1> USE DEF Dmn!DaemonMoves, Dmn!pipes, Dmn!waits
<1> DEFINE Places == {"new", "fifo1", "fifo2", "feed"} \cup Dmn!Living \cup Dmn!Ended
<1>1. /\ daemon \in Places /\ child \in [Dmn!Children -> {"none", "ended"} \cup Dmn!Running]
      /\ numbers \in Numbers \X Numbers
      /\ fifos \subseteq {1, 2} /\ pipe2 \in Seq(Numbers) /\ open2 \subseteq Dmn!Children
      /\ zombies \subseteq Dmn!Children /\ sigchld \in BOOLEAN /\ child_counter \in 0 .. 2
      /\ larger \in Seq(Numbers)
  BY DEF DmnInv, Dmn!TypeOK
<1>2. CASE \/ Dmn!Start \/ Dmn!MakeFifo1 \/ Dmn!MakeFifo2 \/ Dmn!Feed \/ Dmn!Abort
           \/ Dmn!InstallHandlers \/ Dmn!InstallSigchld \/ Dmn!Succeed \/ Dmn!SignalEarly
  <2> USE DEF Dmn!Start, Dmn!MakeFifo1, Dmn!MakeFifo2, Dmn!Feed, Dmn!Abort, Dmn!InstallHandlers,
              Dmn!InstallSigchld, Dmn!Succeed, Dmn!SignalEarly
  <2>1. /\ child' = child /\ zombies' = zombies /\ child_counter' = child_counter
        /\ pipe2' = pipe2 /\ open2' = open2 /\ sigchld' = sigchld /\ larger' = larger
    BY <1>2
  <2>2. /\ daemon' \in Places /\ fifos' \subseteq {1, 2} /\ numbers' \in Numbers \X Numbers
        /\ numbers' # numbers => daemon = "new"
        /\ daemon' \in {"fifo1", "fifo2", "feed", "fork1"} => daemon \in {"new", "fifo1", "fifo2", "feed"}
        /\ daemon' \notin {"new", "fork2"}
        /\ daemon' \in Dmn!Living => daemon \in {"feed"} \cup Dmn!Living
        /\ daemon' = "success" => child_counter >= 2 /\ daemon = "loop"
    BY <1>1, <1>2 DEF Dmn!Living, Dmn!Ended
  <2>3. Dmn!TypeOK'
    BY <1>1, <2>1, <2>2 DEF Dmn!TypeOK
  <2>4. EachCountedOnce'
    BY <2>1 DEF DmnInv, EachCountedOnce, EndedChildren
  <2>5. ForkedInOrder'
    <3>1. daemon' = "fifo2" => 1 \in fifos'
      BY <1>2 DEF Dmn!Ended, Dmn!Living
    <3>2. daemon' \in {"feed"} \cup Dmn!Living => fifos' = {1, 2}
      <4>1. CASE Dmn!MakeFifo2
        <5>1. 1 \in fifos
          BY <4>1 DEF DmnInv, ForkedInOrder
        <5>2. QED BY <1>1, <4>1, <5>1 DEF Dmn!Living
      <4>2. CASE ~Dmn!MakeFifo2
        BY <1>1, <1>2, <4>2 DEF DmnInv, ForkedInOrder, Dmn!Living
      <4>3. QED BY <4>1, <4>2
    <3>3. QED BY <2>1, <2>2, <3>1, <3>2 DEF DmnInv, ForkedInOrder
  <2>6. Delivery'
    <3>1. daemon = "new" => pipe2 = <<>> /\ larger = <<>>
                            /\ child[1] = "none" /\ child[2] = "none"
      BY DEF DmnInv, ForkedInOrder, Delivery, Dmn!Children
    <3>2. numbers' = numbers => Larger' = Larger
      BY DEF Larger, Dmn!LargerOf
    <3>3. daemon' = "success" => child[2] = "ended"
      <4>1. SUFFICES ASSUME child_counter >= 2 PROVE child[2] = "ended"
        BY <2>2
      <4>2. EndedChildren \ zombies \in SUBSET {1, 2}
        BY DEF EndedChildren, Dmn!Children
      <4>3. 2 \in EndedChildren \ zombies
        BY <1>1, <4>1, <4>2, PairCounted DEF DmnInv, EachCountedOnce
      <4>4. QED BY <4>3 DEF EndedChildren
    <3>4. CASE numbers' = numbers
      <4>1. daemon' \in Dmn!Living /\ child[2] = "ended" => daemon \in Dmn!Living
        BY <2>2 DEF DmnInv, ForkedInOrder, Dmn!Children
      <4>2. Larger' = Larger /\ (daemon' = "success" => daemon \in Dmn!Living)
        BY <2>2, <3>2, <3>4 DEF Dmn!Living
      <4>3. Delivery
        BY DEF DmnInv
      <4>4. QED BY ONLY <2>1, <3>3, <4>1, <4>2, <4>3 DEF Delivery
    <3>5. CASE numbers' # numbers
      <4>1. daemon' = "fifo1"
        BY <1>2, <3>5
      <4>2. QED BY <2>1, <2>2, <3>1, <3>5, <4>1 DEF Delivery, Dmn!Living
    <3>6. QED BY <3>4, <3>5
  <2>7. QED BY <2>3, <2>4, <2>5, <2>6 DEF DmnInv
<1>3. ASSUME NEW c \in Dmn!Children, Dmn!Fork(c)
      PROVE  DmnInv'
  <2>1. /\ numbers' = numbers /\ fifos' = fifos /\ pipe2' = pipe2 /\ open2' = open2
        /\ zombies' = zombies /\ sigchld' = sigchld /\ child_counter' = child_counter
        /\ larger' = larger
    BY <1>3 DEF Dmn!Fork
  <2>2. /\ child' \in [Dmn!Children -> {"none", "ended"} \cup Dmn!Running]
        /\ child'[c] = "sleep" /\ \A d \in Dmn!Children \ {c} : child'[d] = child[d]
    BY <1>1, <1>3 DEF Dmn!Fork, Dmn!Running
  <2>3. /\ child[c] = "none"
        /\ \/ c = 1 /\ daemon = "fork1" /\ daemon' = "fork2"
           \/ c = 2 /\ daemon = "fork2" /\ daemon' = "handlers"
    <3>1. CASE c = 1
      BY <1>3, <3>1 DEF Dmn!Fork, DmnInv, ForkedInOrder, Dmn!Children
    <3>2. CASE c = 2
      BY <1>3, <3>2 DEF Dmn!Fork, DmnInv, ForkedInOrder
    <3>3. QED BY <3>1, <3>2 DEF Dmn!Children
  <2>4. Dmn!TypeOK'
    BY <1>1, <2>1, <2>2, <2>3 DEF Dmn!TypeOK, Dmn!Living
  <2>5. EachCountedOnce'
    <3>1. EndedChildren' = EndedChildren
      BY <2>2, <2>3 DEF EndedChildren
    <3>2. QED BY <2>1, <3>1 DEF DmnInv, EachCountedOnce
  <2>6. ForkedInOrder'
    BY <2>1, <2>2, <2>3 DEF DmnInv, ForkedInOrder, Dmn!Living, Dmn!Children
  <2>7. Delivery'
    BY <2>1, <2>2, <2>3 DEF DmnInv, Delivery, Larger, Dmn!LargerOf, Dmn!Living, Dmn!Children
  <2>8. QED BY <2>4, <2>5, <2>6, <2>7 DEF DmnInv
<1>4. CASE Dmn!Reap
  <2>1. /\ daemon' = daemon /\ child' = child /\ numbers' = numbers /\ fifos' = fifos /\ pipe2' = pipe2
        /\ open2' = open2 /\ larger' = larger /\ zombies' = {} /\ sigchld' = FALSE
        /\ child_counter' = child_counter + Cardinality(zombies)
    BY <1>4, ChildCardinality DEF Dmn!Reap
  <2>2. EachCountedOnce' /\ child_counter' \in 0 .. 2
    <3>1. EndedChildren' = EndedChildren
      BY <2>1 DEF EndedChildren
    <3>2. EndedChildren \in SUBSET {1, 2} /\ zombies \subseteq EndedChildren
      BY DEF EndedChildren, Dmn!Children, DmnInv, EachCountedOnce
    <3>3. /\ Cardinality(EndedChildren) =
               (IF 1 \in EndedChildren THEN 1 ELSE 0) + (IF 2 \in EndedChildren THEN 1 ELSE 0)
          /\ Cardinality(zombies) = (IF 1 \in zombies THEN 1 ELSE 0) + (IF 2 \in zombies THEN 1 ELSE 0)
          /\ Cardinality(EndedChildren \ zombies) =
               (IF 1 \in EndedChildren \ zombies THEN 1 ELSE 0) + (IF 2 \in EndedChildren \ zombies THEN 1 ELSE 0)
      <4>1. zombies \in SUBSET {1, 2} /\ EndedChildren \ zombies \in SUBSET {1, 2}
        BY <3>2
      <4>2. QED BY <3>2, <4>1, PairCounted
    <3>4. child_counter = Cardinality(EndedChildren \ zombies)
      BY DEF DmnInv, EachCountedOnce
    <3>5. child_counter' = Cardinality(EndedChildren) /\ child_counter' \in 0 .. 2
      BY <2>1, <3>2, <3>3, <3>4
    <3>6. EndedChildren' \ zombies' = EndedChildren
      BY <2>1, <3>1
    <3>7. QED BY <2>1, <3>5, <3>6 DEF EachCountedOnce
  <2>3. Dmn!TypeOK'
    BY <1>1, <2>1, <2>2 DEF Dmn!TypeOK
  <2>4. ForkedInOrder'
    BY <2>1 DEF DmnInv, ForkedInOrder
  <2>5. Delivery'
    BY <2>1 DEF DmnInv, Delivery, Larger, Dmn!LargerOf
  <2>6. QED BY <2>2, <2>3, <2>4, <2>5 DEF DmnInv
<1>5. CASE Dmn!TimeOut \/ Dmn!Signal
  <2>1. /\ daemon' \in {"failed", "stopped"} /\ fifos' = {} /\ numbers' = numbers /\ larger' = larger
        /\ child_counter' = child_counter /\ Dmn!ChildrenGone(Dmn!Alive)
    BY <1>5 DEF Dmn!TimeOut, Dmn!Signal
  <2>2. /\ child' \in [Dmn!Children -> {"none", "ended"} \cup Dmn!Running]
        /\ \A c \in Dmn!Children : child'[c] = IF c \in Dmn!Alive THEN "ended" ELSE child[c]
        /\ open2' \subseteq Dmn!Children /\ (pipe2' = <<>> \/ pipe2' = pipe2)
        /\ zombies' \subseteq Dmn!Children /\ sigchld' \in BOOLEAN
        /\ EachCountedOnce'
    <3>1. Dmn!Alive \in SUBSET Dmn!Alive
      OBVIOUS
    <3>2. QED BY <2>1, <3>1, EndUncounted DEF DmnInv
  <2>3. Dmn!TypeOK'
    <3>1. pipe2' \in Seq(Numbers)
      <4>1. pipe2' = <<>> \/ pipe2' = pipe2
        BY <2>2
      <4>2. <<>> \in Seq(Numbers) /\ pipe2 \in Seq(Numbers)
        BY <1>1
      <4>3. QED BY ONLY <4>1, <4>2
    <3>2. QED BY <1>1, <2>1, <2>2, <3>1 DEF Dmn!TypeOK, Dmn!Ended
  <2>4. ForkedInOrder'
    BY <2>1 DEF ForkedInOrder, Dmn!Living
  <2>5. Delivery'
    <3>1. \A c \in Dmn!Children : child'[c] # "ended" => child'[c] = child[c]
      BY <2>2
    <3>2. QED BY <2>1, <2>2, <3>1 DEF DmnInv, Delivery, Larger, Dmn!LargerOf, Dmn!Living, Dmn!Children
  <2>6. QED BY <2>2, <2>3, <2>4, <2>5 DEF DmnInv
<1>6. QED BY <1>2, <1>3, <1>4, <1>5 DEF Dmn!DaemonStep

(* The children's steps. *)
LEMMA ChildrenKeep ==
  ASSUME DmnInv, Dmn!ChildStep
  PROVE  DmnInv'
<1> USE DEF Dmn!ChildMoves, Dmn!waits
<1> DEFINE Places == {"new", "fifo1", "fifo2", "feed"} \cup Dmn!Living \cup Dmn!Ended
<1>1. /\ daemon \in Places /\ child \in [Dmn!Children -> {"none", "ended"} \cup Dmn!Running]
      /\ numbers \in Numbers \X Numbers
      /\ fifos \subseteq {1, 2} /\ pipe2 \in Seq(Numbers) /\ open2 \subseteq Dmn!Children
      /\ zombies \subseteq Dmn!Children /\ sigchld \in BOOLEAN /\ child_counter \in 0 .. 2
      /\ larger \in Seq(Numbers)
  BY DEF DmnInv, Dmn!TypeOK
<1>2. /\ daemon' = daemon /\ numbers' = numbers /\ fifos' = fifos /\ child_counter' = child_counter
      /\ Larger' = Larger
  BY DEF Dmn!ChildStep, Dmn!Open1, Dmn!Open2, Dmn!Close, Dmn!Write, Dmn!Read, Larger, Dmn!LargerOf
<1>3. ForkedInOrder' \/ \E c \in Dmn!Children : child'[c] # child[c] /\ child[c] = "none"
  BY <1>1, <1>2 DEF DmnInv, ForkedInOrder, Dmn!Children
(* A child that ends early does so after the daemon; child 2 then leaves nothing behind. *)
<1>4. ASSUME NEW c \in Dmn!Children, Dmn!ChildrenGone({c}), larger' = larger,
             child[c] \in Dmn!Running,
             daemon \notin Dmn!Living \/ child[c] = "close"
      PROVE  DmnInv'
  <2>1. /\ child' \in [Dmn!Children -> {"none", "ended"} \cup Dmn!Running]
        /\ \A d \in Dmn!Children : child'[d] = IF d \in {c} THEN "ended" ELSE child[d]
        /\ open2' \subseteq Dmn!Children /\ (pipe2' = <<>> \/ pipe2' = pipe2)
        /\ zombies' \subseteq Dmn!Children /\ sigchld' \in BOOLEAN
        /\ EachCountedOnce'
    <3>1. {c} \in SUBSET Dmn!Alive
      BY <1>4 DEF Dmn!Alive
    <3>2. QED BY <1>2, <1>4, <3>1, EndUncounted DEF DmnInv
  <2>2. Dmn!TypeOK'
    <3>1. pipe2' \in Seq(Numbers) /\ larger' \in Seq(Numbers)
      <4>1. pipe2' = <<>> \/ pipe2' = pipe2
        BY <2>1
      <4>2. <<>> \in Seq(Numbers) /\ pipe2 \in Seq(Numbers) /\ larger' \in Seq(Numbers)
        BY <1>1, <1>4
      <4>3. QED BY ONLY <4>1, <4>2
    <3>2. QED BY <1>1, <1>2, <2>1, <3>1 DEF Dmn!TypeOK
  <2>3. ForkedInOrder'
    BY <1>2, <1>3, <1>4, <2>1 DEF Dmn!Running
  <2>4. Delivery'
    <3>1. child[c] \notin {"none", "ended"}
      BY <1>4 DEF Dmn!Running
    <3>2. \A d \in Dmn!Children : d # c => child'[d] = child[d]
      BY <2>1
    <3>3. child'[c] = "ended"
      BY <2>1
    <3>4. CASE c = 1
      BY <1>2, <1>4, <2>1, <3>1, <3>2, <3>3, <3>4 DEF DmnInv, Delivery, Dmn!Children
    <3>5. CASE c = 2
      BY <1>2, <1>4, <2>1, <3>1, <3>2, <3>3, <3>5 DEF DmnInv, Delivery, Dmn!Children, Dmn!Living
    <3>6. QED BY <3>4, <3>5 DEF Dmn!Children
  <2>5. QED BY <2>1, <2>2, <2>3, <2>4 DEF DmnInv
(* While the daemon lives, the FIFOs are there. *)
<1>5. daemon \in Dmn!Living => fifos = {1, 2}
  BY DEF DmnInv, ForkedInOrder
(* A child goes on. *)
<1>6. ASSUME NEW c \in Dmn!Children, NEW to \in Dmn!Running, child[c] \in Dmn!Running,
             child' = [child EXCEPT ![c] = to], zombies' = zombies
      PROVE  /\ child' \in [Dmn!Children -> {"none", "ended"} \cup Dmn!Running]
             /\ child'[c] = to /\ \A d \in Dmn!Children : d # c => child'[d] = child[d]
             /\ EachCountedOnce' /\ ForkedInOrder'
  <2>1. /\ child' \in [Dmn!Children -> {"none", "ended"} \cup Dmn!Running]
        /\ child'[c] = to /\ \A d \in Dmn!Children : d # c => child'[d] = child[d]
    BY <1>1, <1>6
  <2>2. EndedChildren' = EndedChildren
    BY <1>6, <2>1 DEF EndedChildren, Dmn!Running
  <2>3. EachCountedOnce'
    BY <1>2, <1>6, <2>2 DEF DmnInv, EachCountedOnce
  <2>4. ForkedInOrder'
    BY <1>3, <1>6, <2>1 DEF Dmn!Running
  <2>5. QED BY <2>1, <2>3, <2>4
<1>7. ASSUME Dmn!Open1 PROVE DmnInv'
  <2>1. CASE 1 \in fifos
    <3>1. /\ child' = [child EXCEPT ![1] = "open2"] /\ pipe2' = pipe2 /\ open2' = open2
          /\ zombies' = zombies /\ sigchld' = sigchld /\ larger' = larger /\ child[1] = "sleep"
      BY <1>7, <2>1 DEF Dmn!Open1
    <3>2. /\ child' \in [Dmn!Children -> {"none", "ended"} \cup Dmn!Running]
          /\ child'[1] = "open2" /\ \A d \in Dmn!Children : d # 1 => child'[d] = child[d]
          /\ EachCountedOnce' /\ ForkedInOrder'
      <4>1. 1 \in Dmn!Children /\ "open2" \in Dmn!Running /\ child[1] \in Dmn!Running
        BY <3>1 DEF Dmn!Children, Dmn!Running
      <4>2. QED BY <1>6, <3>1, <4>1
    <3>3. Dmn!TypeOK'
      BY <1>1, <1>2, <3>1, <3>2 DEF Dmn!TypeOK
    <3>4. Delivery'
      BY <1>2, <3>1, <3>2 DEF DmnInv, Delivery, Dmn!Children
    <3>5. QED BY <3>2, <3>3, <3>4 DEF DmnInv
  <2>2. CASE 1 \notin fifos
    BY <1>4, <1>5, <1>7, <2>2 DEF Dmn!Open1, Dmn!Children, Dmn!Running
  <2>3. QED BY <2>1, <2>2
<1>8. ASSUME NEW c \in Dmn!Children, Dmn!Open2(c) PROVE DmnInv'
  <2>1. /\ (c = 1 /\ child[c] = "open2") \/ (c = 2 /\ child[c] = "sleep")
        /\ larger' = larger
    <3>1. CASE c = 1
      BY <1>8, <3>1 DEF Dmn!Open2
    <3>2. CASE c = 2
      BY <1>8, <3>2 DEF Dmn!Open2
    <3>3. QED BY <3>1, <3>2 DEF Dmn!Children
  <2>2. CASE 2 \in fifos
    <3>1. PICK to \in {"write", "read"} :
            child' = [child EXCEPT ![c] = to] /\ (c = 1 <=> to = "write")
      BY <1>8, <2>2 DEF Dmn!Open2
    <3>2. /\ pipe2' = pipe2 /\ open2' = open2 \cup {c} /\ zombies' = zombies /\ sigchld' = sigchld
      BY <1>8, <2>2 DEF Dmn!Open2
    <3>3. /\ child' \in [Dmn!Children -> {"none", "ended"} \cup Dmn!Running]
          /\ child'[c] = to /\ \A d \in Dmn!Children : d # c => child'[d] = child[d]
          /\ EachCountedOnce' /\ ForkedInOrder'
      <4>1. to \in Dmn!Running /\ child[c] \in Dmn!Running
        BY <2>1 DEF Dmn!Running
      <4>2. QED BY <1>6, <3>1, <3>2, <4>1
    <3>4. Dmn!TypeOK'
      BY <1>1, <1>2, <2>1, <3>2, <3>3 DEF Dmn!TypeOK
    <3>5. Delivery'
      BY <1>2, <2>1, <3>1, <3>2, <3>3 DEF DmnInv, Delivery, Dmn!Children
    <3>6. QED BY <3>3, <3>4, <3>5 DEF DmnInv
  <2>3. CASE 2 \notin fifos
    <3>1. Dmn!ChildrenGone({c}) /\ child[c] \in Dmn!Running /\ daemon \notin Dmn!Living
      BY <1>5, <1>8, <2>1, <2>3 DEF Dmn!Open2, Dmn!Running
    <3>2. QED BY <1>4, <2>1, <3>1
  <2>4. QED BY <2>2, <2>3
<1>9. ASSUME NEW c \in Dmn!Children, Dmn!Close(c) PROVE DmnInv'
  BY <1>4, <1>9 DEF Dmn!Close, Dmn!Running
<1>10. ASSUME Dmn!Write PROVE DmnInv'
  <2>1. /\ child[1] = "write" /\ child' = [child EXCEPT ![1] = "close"]
        /\ pipe2' = Append(pipe2, Dmn!LargerOf(numbers))
        /\ open2' = open2 /\ zombies' = zombies /\ sigchld' = sigchld /\ larger' = larger
    BY <1>10 DEF Dmn!Write
  <2>2. pipe2 = <<>>
    BY <2>1 DEF DmnInv, Delivery
  <2>3. Dmn!LargerOf(numbers) \in Numbers
    BY <1>1 DEF Dmn!LargerOf
  <2>4. pipe2' = Larger /\ pipe2' \in Seq(Numbers)
    BY <2>1, <2>2, <2>3 DEF Larger
  <2>5. /\ child' \in [Dmn!Children -> {"none", "ended"} \cup Dmn!Running]
        /\ child'[1] = "close" /\ \A d \in Dmn!Children : d # 1 => child'[d] = child[d]
        /\ EachCountedOnce' /\ ForkedInOrder'
    <3>1. 1 \in Dmn!Children /\ "close" \in Dmn!Running /\ child[1] \in Dmn!Running
      BY <2>1 DEF Dmn!Children, Dmn!Running
    <3>2. QED BY <1>6, <2>1, <3>1
  <2>6. Dmn!TypeOK'
    BY <1>1, <1>2, <2>1, <2>4, <2>5 DEF Dmn!TypeOK
  <2>7. Delivery'
    BY <1>2, <2>1, <2>4, <2>5 DEF DmnInv, Delivery, Dmn!Children
  <2>8. QED BY <2>5, <2>6, <2>7 DEF DmnInv
<1>11. ASSUME Dmn!Read PROVE DmnInv'
  <2>1. /\ child[2] = "read" /\ child' = [child EXCEPT ![2] = "close"]
        /\ pipe2 # <<>> /\ pipe2' = Tail(pipe2) /\ larger' = <<Head(pipe2)>>
        /\ open2' = open2 /\ zombies' = zombies /\ sigchld' = sigchld
    BY <1>11 DEF Dmn!Read
  <2>2. pipe2 = Larger
    BY <2>1 DEF DmnInv, Delivery
  <2>3. pipe2' = <<>> /\ larger' = Larger
    BY <2>1, <2>2 DEF Larger
  <2>4. pipe2' \in Seq(Numbers) /\ larger' \in Seq(Numbers)
    BY <1>1, <2>2, <2>3
  <2>5. /\ child' \in [Dmn!Children -> {"none", "ended"} \cup Dmn!Running]
        /\ child'[2] = "close" /\ \A d \in Dmn!Children : d # 2 => child'[d] = child[d]
        /\ EachCountedOnce' /\ ForkedInOrder'
    <3>1. 2 \in Dmn!Children /\ "close" \in Dmn!Running /\ child[2] \in Dmn!Running
      BY <2>1 DEF Dmn!Children, Dmn!Running
    <3>2. QED BY <1>6, <2>1, <3>1
  <2>6. Dmn!TypeOK'
    BY <1>1, <1>2, <2>1, <2>4, <2>5 DEF Dmn!TypeOK
  <2>7. Delivery'
    BY <1>2, <2>1, <2>3, <2>5 DEF DmnInv, Delivery, Dmn!Children
  <2>8. QED BY <2>5, <2>6, <2>7 DEF DmnInv
<1>12. QED BY <1>7, <1>8, <1>9, <1>10, <1>11 DEF Dmn!ChildStep
-----------------------------------------------------------------------------
LEMMA DaemonSteps == [AllNext]_allvars => [Dmn!Next]_daemon_vars
BY DEF AllNext, Only, allvars

(* For any two numbers, every signal, time-out, failing fork or fifo and     *)
(* order of the children: HW2 (main.c:49-60, 271-346) counts each child      *)
(* that ended once, and only the larger number is delivered.                 *)
THEOREM DaemonInvariant == ASSUME Numbers # {} PROVE AllSpec => []DmnInv
<1>1. AllInit => DmnInv
  BY DmnInitially DEF AllInit
<1>2. DmnInv /\ [AllNext]_allvars => DmnInv'
  <2> SUFFICES ASSUME DmnInv, [Dmn!Next]_daemon_vars PROVE DmnInv'
    BY DaemonSteps
  <2>1. CASE Dmn!Next
    BY <2>1, DaemonKeeps, ChildrenKeep DEF Dmn!Next
  <2>2. CASE UNCHANGED daemon_vars
    BY <2>2 DEF daemon_vars, DmnInv, Dmn!TypeOK, EachCountedOnce, EndedChildren, ForkedInOrder,
                Delivery, Larger, Dmn!LargerOf
  <2>3. QED BY <2>1, <2>2
<1>3. QED BY <1>1, <1>2, PTL DEF AllSpec

(* The property of the run: success is only reported when child 2 has read   *)
(* the larger number, although the daemon only counts children that ended    *)
(* (HW2 main.c:53-59, 331, 346).                                             *)
THEOREM DaemonSuccessMeansDelivered ==
  ASSUME Numbers # {} PROVE AllSpec => []SuccessMeansDelivered
<1>1. DmnInv => SuccessMeansDelivered
  BY DEF DmnInv, Delivery, Larger, Dmn!SuccessMeansDelivered, SuccessMeansDelivered
<1>2. QED BY <1>1, DaemonInvariant, PTL
===============================================================================
