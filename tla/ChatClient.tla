------------------------------- MODULE ChatClient -----------------------------
(* The client of the chat (System Programming/Final Project, client.c): the  *)
(* main thread that logs in and reads commands, the thread that receives     *)
(* what the server sends, and a signal that interrupts the main thread.      *)
(*                                                                           *)
(* Of the server there is what the client can see: replies, messages and the *)
(* end of the connection.  stdout is locked while a thread prints; a signal  *)
(* handler may print inside a printf of the thread it interrupts.            *)
EXTENDS Integers, Sequences

CONSTANTS
  FileNames,       (* files that others send                                  *)
  MaxReceived,     (* files that are remembered (MAX_RECEIVED_FILES)          *)
  MaxInbox,        (* bound: messages on their way to the client              *)
  MaxCommandsSent  (* bound: commands sent                                    *)

VARIABLES
  main,            (* where the main thread is                                *)
  receiver,        (* where the receive thread is                             *)
  running,
  stdout,          (* who prints: "main", "receiver" or "nobody"              *)
  client_socket,   (* the connection: "none", "up", "closed" by the server or *)
                   (* "shut" by the client                                    *)
  inbox,           (* messages on their way from the server                   *)
  buffer,          (* the message that is being handled                       *)
  received_files,
  commands_sent, exit_sent

kvars == <<main, receiver, running, stdout, client_socket, inbox, buffer, received_files,
           commands_sent, exit_sent>>

Message == [kind : {"LOGOUT", "SERVER_SHUTDOWN", "OTHER"}, file : {"none"}]
             \cup [kind : {"FILE_RECEIVED"}, file : FileNames]
Nothing == [kind |-> "none", file |-> "none"]

TypeOK ==
  /\ main \in {"connect", "login", "await", "create", "loop", "print", "printing", "bye",
               "goodbye", "join", "handler", "cleanup", "exited"}
  /\ receiver \in {"none", "test", "recv", "show", "showing", "done"}
  /\ running \in BOOLEAN /\ exit_sent \in BOOLEAN
  /\ stdout \in {"main", "receiver", "nobody"}
  /\ client_socket \in {"none", "up", "closed", "shut"}
  /\ inbox \in Seq(Message) /\ Len(inbox) <= MaxInbox + 1
  /\ buffer \in Message \cup {Nothing, [kind |-> "lost", file |-> "none"]}
  /\ received_files \in Seq(FileNames) /\ Len(received_files) <= MaxReceived
  /\ commands_sent \in 0 .. MaxCommandsSent

Init ==
  /\ main = "connect" /\ receiver = "none" /\ running = TRUE /\ stdout = "nobody"
  /\ client_socket = "none" /\ inbox = <<>> /\ buffer = Nothing /\ received_files = <<>>
  /\ commands_sent = 0 /\ exit_sent = FALSE
-----------------------------------------------------------------------------
MainMoves(from, to) == main = from /\ main' = to
MainOnly     == UNCHANGED <<receiver, running, stdout, client_socket, inbox, buffer,
                            received_files, commands_sent, exit_sent>>
ReceiverOnly == UNCHANGED <<main, client_socket, commands_sent, exit_sent>>

(* Logging in; until then there is no other thread. *)
Connect ==
  /\ \/ MainMoves("connect", "login") /\ client_socket' = "up"
     \/ MainMoves("connect", "exited") /\ UNCHANGED client_socket
  /\ UNCHANGED <<receiver, running, stdout, inbox, buffer, received_files, commands_sent,
                 exit_sent>>

SendName == MainMoves("login", "await") /\ MainOnly

EndOfInput ==
  /\ MainMoves("login", "cleanup")
  /\ running' = FALSE
  /\ client_socket' = IF client_socket = "up" THEN "shut" ELSE client_socket
  /\ UNCHANGED <<receiver, stdout, inbox, buffer, received_files, commands_sent, exit_sent>>

(* The server takes the name, asks for another one or turns the user away,   *)
(* or the connection is lost.                                                *)
LoginReply ==
  /\ \/ MainMoves("await", "create") /\ client_socket = "up"
     \/ MainMoves("await", "login") /\ client_socket = "up"
     \/ MainMoves("await", "exited")
  /\ MainOnly

CreateThread ==
  /\ \/ MainMoves("create", "print") /\ receiver' = "test"
        /\ UNCHANGED <<running, client_socket>>
     \/ MainMoves("create", "cleanup") /\ UNCHANGED receiver
        /\ running' = FALSE
        /\ client_socket' = IF client_socket = "up" THEN "shut" ELSE client_socket
  /\ UNCHANGED <<stdout, inbox, buffer, received_files, commands_sent, exit_sent>>
-----------------------------------------------------------------------------
(* The loop over the user's lines.  Every line leads to something printed,   *)
(* some after a command has been sent; to send after the connection has been *)
(* closed may kill the process (SIGPIPE).                                    *)
Line == running /\ MainMoves("loop", "print") /\ MainOnly

Command ==
  /\ running /\ commands_sent < MaxCommandsSent
  /\ \/ MainMoves("loop", "print")
     \/ client_socket = "closed" /\ MainMoves("loop", "exited")
  /\ commands_sent' = commands_sent + 1
  /\ UNCHANGED <<receiver, running, stdout, client_socket, inbox, buffer, received_files,
                 exit_sent>>

ExitCommand == running /\ MainMoves("loop", "bye") /\ MainOnly

(* printf, with the lock of stdout; a handler may interrupt it. *)
BeginPrint ==
  /\ stdout = "nobody"
  /\ MainMoves("print", "printing") \/ MainMoves("bye", "goodbye")
  /\ stdout' = "main"
  /\ UNCHANGED <<receiver, running, client_socket, inbox, buffer, received_files, commands_sent,
                 exit_sent>>

Printed ==
  /\ MainMoves("printing", "loop")
  /\ stdout' = "nobody"
  /\ UNCHANGED <<receiver, running, client_socket, inbox, buffer, received_files, commands_sent,
                 exit_sent>>

SendExit ==
  /\ \/ MainMoves("goodbye", "join") /\ exit_sent' = TRUE
     \/ client_socket = "closed" /\ MainMoves("goodbye", "exited") /\ UNCHANGED exit_sent
  /\ running' = FALSE /\ stdout' = "nobody"
  /\ UNCHANGED <<receiver, client_socket, inbox, buffer, received_files, commands_sent>>

LeaveLoop == ~running /\ MainMoves("loop", "join") /\ MainOnly

Join == receiver = "done" /\ MainMoves("join", "exited") /\ MainOnly
-----------------------------------------------------------------------------
(* A signal is handled by the main thread, wherever it is: the handler       *)
(* prints, then cleanup_and_exit shuts the connection down, which wakes the  *)
(* other thread, and joins it; if main was joining it already, the second    *)
(* join fails at once.                                                       *)
Signal ==
  /\ main \notin {"connect", "handler", "cleanup", "exited"}
  /\ main' = IF main = "join" THEN "exited" ELSE "handler"
  /\ running' = FALSE
  /\ UNCHANGED <<receiver, stdout, client_socket, inbox, buffer, received_files, commands_sent,
                 exit_sent>>

(* Faulty variant of Handle, no part of the specification: the connection    *)
(* stays up.                                                                 *)
HandleKeeping ==
  /\ stdout \in {"nobody", "main"}
  /\ MainMoves("handler", "cleanup")
  /\ running' = FALSE
  /\ UNCHANGED <<receiver, stdout, client_socket, inbox, buffer, received_files, commands_sent,
                 exit_sent>>

Handle ==
  /\ stdout \in {"nobody", "main"}
  /\ MainMoves("handler", "cleanup")
  /\ running' = FALSE
  /\ client_socket' = IF client_socket = "up" THEN "shut" ELSE client_socket
  /\ UNCHANGED <<receiver, stdout, inbox, buffer, received_files, commands_sent, exit_sent>>

CleanUp == receiver \in {"none", "done"} /\ MainMoves("cleanup", "exited") /\ MainOnly
-----------------------------------------------------------------------------
(* The receive thread. *)

TestRunning ==
  /\ receiver = "test"
  /\ receiver' = IF running THEN "recv" ELSE "done"
  /\ UNCHANGED <<main, client_socket, commands_sent, exit_sent>>
  /\ UNCHANGED <<running, stdout, inbox, buffer, received_files>>

(* recv takes what has arrived, one message or several together.  The kind   *)
(* of the first decides; those that must match as a whole are lost when more *)
(* follows them.                                                             *)
Receive ==
  /\ receiver = "recv" /\ inbox # <<>>
  /\ \E n \in 1 .. Len(inbox) :
       /\ inbox' = SubSeq(inbox, n + 1, Len(inbox))
       /\ buffer' = IF n > 1 /\ inbox[1].kind \in {"LOGOUT", "SERVER_SHUTDOWN"}
                    THEN [kind |-> "lost", file |-> "none"] ELSE inbox[1]
  /\ receiver' = "show"
  /\ ReceiverOnly /\ UNCHANGED <<running, stdout, received_files>>

(* It prints, remembers a file, and stops when the server says so. *)
Show ==
  /\ receiver = "show" /\ stdout = "nobody"
  /\ stdout' = "receiver"
  /\ receiver' = "showing"
  /\ ReceiverOnly /\ UNCHANGED <<running, inbox, buffer, received_files>>

Shown ==
  /\ receiver = "showing"
  /\ stdout' = "nobody"
  /\ received_files' =
       IF /\ buffer.kind = "FILE_RECEIVED" /\ Len(received_files) < MaxReceived
          /\ \A i \in DOMAIN received_files : received_files[i] # buffer.file
       THEN Append(received_files, buffer.file) ELSE received_files
  /\ IF buffer.kind \in {"LOGOUT", "SERVER_SHUTDOWN"}
     THEN receiver' = "done" /\ running' = FALSE
     ELSE receiver' = "test" /\ UNCHANGED running
  /\ buffer' = Nothing
  /\ ReceiverOnly /\ UNCHANGED inbox

(* recv reports the end of the connection. *)
Disconnected ==
  /\ receiver = "recv" /\ inbox = <<>> /\ client_socket \in {"closed", "shut"}
  /\ running => stdout = "nobody"
  /\ receiver' = "done" /\ running' = FALSE
  /\ ReceiverOnly /\ UNCHANGED <<stdout, inbox, buffer, received_files>>
-----------------------------------------------------------------------------
(* The server: it answers /exit and closes, sends messages, or goes away. *)

ServerSends ==
  /\ main \notin {"connect", "login", "await"} /\ client_socket = "up" /\ Len(inbox) < MaxInbox
  /\ \E m \in Message : m.kind # "LOGOUT" /\ inbox' = Append(inbox, m)
  /\ UNCHANGED <<main, receiver, running, stdout, client_socket, buffer, received_files,
                 commands_sent, exit_sent>>

ServerLogout ==
  /\ exit_sent /\ client_socket = "up"
  /\ inbox' = Append(inbox, [kind |-> "LOGOUT", file |-> "none"])
  /\ client_socket' = "closed"
  /\ UNCHANGED <<main, receiver, running, stdout, buffer, received_files, commands_sent,
                 exit_sent>>

ServerGone ==
  /\ client_socket = "up"
  /\ client_socket' = "closed"
  /\ UNCHANGED <<main, receiver, running, stdout, inbox, buffer, received_files, commands_sent,
                 exit_sent>>
-----------------------------------------------------------------------------
MainStep ==
  \/ Connect \/ SendName \/ EndOfInput \/ LoginReply \/ CreateThread \/ Line \/ Command
  \/ ExitCommand \/ BeginPrint \/ Printed \/ SendExit \/ LeaveLoop \/ Join \/ Handle \/ CleanUp
ReceiverStep == TestRunning \/ Receive \/ Show \/ Shown \/ Disconnected

Next == MainStep \/ Signal \/ ReceiverStep \/ ServerSends \/ ServerLogout \/ ServerGone
Spec == Init /\ [][Next]_kvars
-----------------------------------------------------------------------------
(* Properties. *)

(* The handler waits for a thread that waits for the stdout of the printf    *)
(* which the handler has interrupted.                                        *)
Interlocked == main = "cleanup" /\ receiver = "show" /\ stdout = "main"

(* A client that is to stop does, whoever decided it, the user, the server   *)
(* or a signal, and whatever is still on its way, if the handler has not     *)
(* interrupted a printf that the receive thread needs                        *)
(* (client.c:138-143, 207-215, 228-234, 379-407).                            *)
ClientEnds == ~running ~> (main = "exited" \/ Interlocked)
=============================================================================
