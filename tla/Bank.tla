--------------------------------- MODULE Bank ---------------------------------
(* The bank of System Programming/Midterm (Midterm Project/server.c): the    *)
(* server reads a batch of requests, forks a teller process for each, waits  *)
(* for all of them and writes the accounts to its log, from which the next   *)
(* server loads them.                                                        *)
(*                                                                           *)
(* Accounts, active and b_id are in shared memory; the semaphores are not:   *)
(* sh_lock is a global, so every teller locks its own copy and excludes      *)
(* nobody.  A step of a teller is therefore one access to shared memory.     *)
(* Of an account the model keeps the balance; the totals paid in and out are *)
(* only printed.                                                             *)
EXTENDS Integers, Sequences

CONSTANTS
  MaxClients,      (* bound: requests one server reads in its life (MAX_REQ)  *)
  MaxBatch,        (* bound: requests in one batch                            *)
  MaxStarts,       (* bound: times the server is started                      *)
  Named,           (* account numbers that requests may name                  *)
  Credits,         (* amounts that requests may name                          *)
  SigintAt,        (* where SIGINT may interrupt the server                   *)
  CrashAt          (* where the machine may stop                              *)

ASSUME BankBounds ==
  /\ MaxClients \in Nat \ {0} /\ MaxBatch \in Nat \ {0} /\ MaxStarts \in Nat
  /\ Named \subseteq Nat /\ Credits \subseteq Nat
  /\ "stopped" \notin SigintAt

New     == -1               (* the id "N" of a request for a new account      *)
Nobody  == -2               (* no account                                     *)
Clients == 1 .. MaxClients
Ids     == 0 .. MaxClients * MaxStarts

(* A request that verify refuses: a word missing or of the wrong kind. *)
Invalid == [op |-> "invalid", id |-> New, credit |-> 0]
Request == [op : {"deposit", "withdraw"}, id : Named \cup {New}, credit : Credits]
             \cup {Invalid}

VARIABLES
  accounts, active, b_id, requests,    (* the shared memory                   *)
  log,                                 (* the balances in the log file        *)
  server,                              (* where the server is                 *)
  client_count,                        (* requests read                       *)
  batch,                               (* clients of the batch being served   *)
  acc_lock,                            (* who has the server's acc_lock       *)
  handling,                            (* whether sig_handler runs            *)
  starts,                              (* times started                       *)
  teller,                              (* where each teller is                *)
  assigned, id, reg,                   (* its locals: the account assigned to *)
                                       (* it, the one it serves, a value read *)
  reply                                (* what each client was told           *)

memory  == <<accounts, active, b_id, requests>>
control == <<server, client_count, batch, acc_lock, handling, starts>>
locals  == <<assigned, id, reg>>
vars    == <<memory, log, control, teller, locals, reply>>

ServerPlaces == {"stopped", "read", "fork", "wait", "open", "lock", "write", "close"}
TellerPlaces == {"none", "verify", "assign", "increment", "publish", "clear", "begin",
                 "test", "load", "store", "reply", "done"}

TypeOK ==
  /\ accounts \in [Ids -> Nat] /\ active \in Ids /\ b_id \in Ids
  /\ requests \in [Clients -> Request]
  /\ log \in Seq(Nat) /\ Len(log) \in Ids
  /\ server \in ServerPlaces
  /\ client_count \in 0 .. MaxClients
  /\ batch \subseteq Clients
  /\ acc_lock \in BOOLEAN /\ handling \in BOOLEAN
  /\ starts \in 0 .. MaxStarts
  /\ teller \in [Clients -> TellerPlaces]
  /\ assigned \in [Clients -> Ids \cup {Nobody}]
  /\ id \in [Clients -> Ids \cup {Nobody}]
  /\ reg \in [Clients -> Nat]
  /\ reply \in [Clients -> {"none", "served", "refused"}]

Init ==
  /\ accounts = [i \in Ids |-> 0] /\ active = 0 /\ b_id = 0
  /\ requests = [c \in Clients |-> Invalid]
  /\ log = <<>>
  /\ server = "stopped" /\ client_count = 0 /\ batch = {}
  /\ acc_lock = FALSE /\ handling = FALSE /\ starts = 0
  /\ teller = [c \in Clients |-> "none"]
  /\ assigned = [c \in Clients |-> Nobody] /\ id = [c \in Clients |-> Nobody]
  /\ reg = [c \in Clients |-> 0]
  /\ reply = [c \in Clients |-> "none"]
-----------------------------------------------------------------------------
At(c, l)     == teller[c] = l
Goto(c, l)   == teller' = [teller EXCEPT ![c] = l]
Answer(c, r) == Goto(c, "done") /\ reply' = [reply EXCEPT ![c] = r]
-----------------------------------------------------------------------------
(* Faulty variants of the operations below, one for each property that the   *)
(* passing run checks; none of them is part of the specification.            *)

(* Test that lets every withdrawal through. *)
TestNothing(c) ==
  /\ At(c, "test")
  /\ Goto(c, "load")
  /\ UNCHANGED <<memory, log, control, locals, reply>>

(* CloseLog after a loop that stops before account active. *)
CloseLogEarly ==
  /\ server = "write" /\ Len(log) >= active - 1
  /\ acc_lock' = FALSE
  /\ server' = IF handling THEN "close" ELSE "read"
  /\ UNCHANGED <<memory, log, client_count, batch, handling, starts, teller, locals, reply>>

(* CloseLog that keeps acc_lock. *)
CloseLogLocked ==
  /\ server = "write" /\ Len(log) >= active
  /\ server' = IF handling THEN "close" ELSE "read"
  /\ UNCHANGED <<memory, log, client_count, batch, acc_lock, handling, starts, teller, locals,
                 reply>>

(* Assign that also accepts the number after the last account. *)
AssignNext(c) ==
  /\ At(c, "assign")
  /\ LET i == requests[c].id IN
     IF i = New
     THEN Goto(c, "increment") /\ reg' = [reg EXCEPT ![c] = active] /\ UNCHANGED <<assigned, reply>>
     ELSE IF i > active + 1 THEN Answer(c, "refused") /\ UNCHANGED <<assigned, reg>>
     ELSE /\ assigned' = [assigned EXCEPT ![c] = i]
          /\ Goto(c, "publish")
          /\ UNCHANGED <<reg, reply>>
  /\ UNCHANGED <<memory, log, control, id>>
-----------------------------------------------------------------------------
(* The server. *)

(* load_db: a new server, in new shared memory, loads the accounts. *)
Start ==
  /\ server = "stopped" /\ starts < MaxStarts
  /\ starts' = starts + 1
  /\ accounts' = [i \in Ids |-> IF i \in DOMAIN log THEN log[i] ELSE 0]
  /\ active' = Len(log)
  /\ server' = "read"
  /\ reply' = [c \in Clients |-> "none"]
  /\ UNCHANGED <<b_id, requests, log, client_count, batch, acc_lock, handling, teller, locals>>

(* A client process sends its batch; each request is put into shared memory. *)
ReadBatch ==
  /\ server = "read"
  /\ \E n \in 1 .. MaxBatch :
       /\ client_count + n <= MaxClients
       /\ client_count' = client_count + n
       /\ batch' = client_count + 1 .. client_count + n
       /\ \E r \in [batch' -> Request] :
            requests' = [c \in Clients |-> IF c \in batch' THEN r[c] ELSE requests[c]]
  /\ server' = "fork"
  /\ UNCHANGED <<accounts, active, b_id, log, acc_lock, handling, starts, teller,
                 locals, reply>>

(* Tellers are forked in the order of the batch. *)
Fork ==
  /\ server = "fork"
  /\ \E c \in batch :
       /\ teller[c] = "none" /\ \A d \in batch : d < c => teller[d] # "none"
       /\ teller' = [teller EXCEPT ![c] = "verify"]
       /\ server' = IF c + 1 \in batch THEN "fork" ELSE "wait"
  /\ UNCHANGED <<memory, log, client_count, batch, acc_lock, handling, starts, locals,
                 reply>>

WaitTellers ==
  /\ server = "wait"
  /\ \A c \in batch : teller[c] = "done"
  /\ server' = "open"
  /\ UNCHANGED <<memory, log, client_count, batch, acc_lock, handling, starts, teller,
                 locals, reply>>

(* write_log empties the log file, *)
OpenLog ==
  /\ server = "open"
  /\ log' = <<>>
  /\ server' = "lock"
  /\ UNCHANGED <<memory, client_count, batch, acc_lock, handling, starts, teller, locals,
                 reply>>

LockLog ==
  /\ server = "lock" /\ ~acc_lock
  /\ acc_lock' = TRUE
  /\ server' = "write"
  /\ UNCHANGED <<memory, log, client_count, batch, handling, starts, teller, locals, reply>>

(* writes one line for each account, *)
WriteLine ==
  /\ server = "write" /\ Len(log) < active
  /\ log' = Append(log, accounts[Len(log) + 1])
  /\ UNCHANGED <<memory, control, teller, locals, reply>>

(* and returns to bank_loop or to sig_handler. *)
CloseLog ==
  /\ server = "write" /\ Len(log) >= active
  /\ acc_lock' = FALSE
  /\ server' = IF handling THEN "close" ELSE "read"
  /\ UNCHANGED <<memory, log, client_count, batch, handling, starts, teller, locals, reply>>

(* SIGINT: sig_handler begins with write_log, whatever it interrupts. *)
Sigint ==
  /\ server \in SigintAt /\ ~handling
  /\ handling' = TRUE
  /\ server' = "open"
  /\ UNCHANGED <<memory, log, client_count, batch, acc_lock, starts, teller, locals, reply>>

(* The processes and the shared memory are gone. *)
Gone ==
  /\ accounts' = [i \in Ids |-> 0] /\ active' = 0 /\ b_id' = 0
  /\ requests' = [c \in Clients |-> Invalid]
  /\ server' = "stopped" /\ client_count' = 0 /\ batch' = {}
  /\ acc_lock' = FALSE /\ handling' = FALSE
  /\ teller' = [c \in Clients |-> "none"]
  /\ assigned' = [c \in Clients |-> Nobody] /\ id' = [c \in Clients |-> Nobody]
  /\ reg' = [c \in Clients |-> 0]
  /\ UNCHANGED <<log, starts>>

(* cleanup_all removes the shared memory and the server ends.  A teller that *)
(* still runs keeps its mapping, so its reply still comes, but what it does  *)
(* to the accounts is lost.                                                  *)
Stop ==
  /\ server = "close"
  /\ Gone
  /\ \E r \in {"served", "refused"} :
       reply' = [c \in Clients |-> IF teller[c] \notin {"none", "done"} THEN r ELSE reply[c]]

(* The machine stops: of everything only the log file is left. *)
Crash ==
  /\ server \in CrashAt
  /\ Gone
  /\ UNCHANGED reply
-----------------------------------------------------------------------------
(* A teller, in a process of its own. *)

Verify(c) ==
  /\ At(c, "verify")
  /\ IF requests[c] = Invalid THEN Answer(c, "refused")
     ELSE Goto(c, "assign") /\ UNCHANGED reply
  /\ UNCHANGED <<memory, log, control, locals>>

(* assign_bankid: a new account reads active to increment it; a named one is *)
(* refused if it is not in use.                                              *)
Assign(c) ==
  /\ At(c, "assign")
  /\ LET i == requests[c].id IN
     IF i = New
     THEN /\ Goto(c, "increment")
          /\ reg' = [reg EXCEPT ![c] = active]
          /\ UNCHANGED <<assigned, reply>>
     ELSE IF i > active THEN Answer(c, "refused") /\ UNCHANGED <<assigned, reg>>
     ELSE /\ assigned' = [assigned EXCEPT ![c] = i]
          /\ Goto(c, "publish")
          /\ UNCHANGED <<reg, reply>>
  /\ UNCHANGED <<memory, log, control, id>>

Increment(c) ==
  /\ At(c, "increment")
  /\ active' = reg[c] + 1
  /\ assigned' = [assigned EXCEPT ![c] = reg[c] + 1]
  /\ Goto(c, "publish")
  /\ UNCHANGED <<accounts, b_id, requests, log, control, id, reg, reply>>

(* The account is handed to process_transaction through b_id, *)
Publish(c) ==
  /\ At(c, "publish")
  /\ b_id' = assigned[c]
  /\ Goto(c, IF requests[c].id = New THEN "clear" ELSE "begin")
  /\ UNCHANGED <<accounts, active, requests, log, control, locals, reply>>

Clear(c) ==
  /\ At(c, "clear")
  /\ accounts' = [accounts EXCEPT ![assigned[c]] = 0]
  /\ Goto(c, "begin")
  /\ UNCHANGED <<active, b_id, requests, log, control, locals, reply>>

(* which reads it there. *)
Begin(c) ==
  /\ At(c, "begin")
  /\ id' = [id EXCEPT ![c] = b_id]
  /\ Goto(c, IF requests[c].op = "withdraw" THEN "test" ELSE "load")
  /\ UNCHANGED <<memory, log, control, assigned, reg, reply>>

(* A withdrawal is refused unless the balance covers it. *)
Test(c) ==
  /\ At(c, "test")
  /\ IF accounts[id[c]] >= requests[c].credit THEN Goto(c, "load") /\ UNCHANGED reply
     ELSE Answer(c, "refused")
  /\ UNCHANGED <<memory, log, control, locals>>

(* The balance is read *)
Load(c) ==
  /\ At(c, "load")
  /\ reg' = [reg EXCEPT ![c] = accounts[id[c]]]
  /\ Goto(c, "store")
  /\ UNCHANGED <<memory, log, control, assigned, id, reply>>

(* and written. *)
Store(c) ==
  /\ At(c, "store")
  /\ accounts' = [accounts EXCEPT ![id[c]] =
                    IF requests[c].op = "deposit" THEN reg[c] + requests[c].credit
                    ELSE reg[c] - requests[c].credit]
  /\ Goto(c, "reply")
  /\ UNCHANGED <<active, b_id, requests, log, control, locals, reply>>

Reply(c) ==
  /\ At(c, "reply")
  /\ Answer(c, "served")
  /\ UNCHANGED <<memory, log, control, locals>>
-----------------------------------------------------------------------------
ServerStep ==
  \/ Fork \/ WaitTellers \/ OpenLog \/ LockLog \/ WriteLine \/ CloseLog \/ Stop

TellerStep(c) ==
  \/ Verify(c) \/ Assign(c) \/ Increment(c) \/ Publish(c) \/ Clear(c) \/ Begin(c)
  \/ Test(c) \/ Load(c) \/ Store(c) \/ Reply(c)

(* Nothing is left to do, within the bounds. *)
Idle ==
  /\ \/ server = "stopped" /\ starts = MaxStarts
     \/ server = "read" /\ client_count = MaxClients
  /\ UNCHANGED vars

Next ==
  \/ ServerStep \/ Start \/ ReadBatch \/ Sigint \/ Crash
  \/ \E c \in Clients : TellerStep(c)
  \/ Idle

Spec == Init /\ [][Next]_vars

(* The processes keep running; nobody need start the server, send a request, *)
(* interrupt it or crash it.                                                 *)
FairSpec ==
  /\ Spec
  /\ WF_vars(ServerStep)
  /\ \A c \in Clients : WF_vars(TellerStep(c))
-----------------------------------------------------------------------------
(* Properties. *)

(* A transaction is made on the account that was assigned to the client      *)
(* (server.c:163, 169, 188): b_id is not overwritten in between.             *)
ServesOwnAccount ==
  \A c \in Clients :
    teller[c] \in {"test", "load", "store", "reply"} => id[c] = assigned[c]

(* When the server waits for requests, the log holds every account as it is, *)
(* so a restart brings all of them back (server.c:126-161, 293).             *)
LogIsCurrent ==
  server = "read" => log = [i \in 1 .. active |-> accounts[i]]

(* Every batch is served and logged unless SIGINT or a crash comes           *)
(* (server.c:263-293).                                                       *)
BatchEnds == server = "fork" ~> server = "read" \/ handling \/ server = "stopped"

(* The accounts as the tellers see them; after the server stopped, as the    *)
(* next one will load them.                                                  *)
Balances ==
  IF server = "stopped" THEN log ELSE [i \in 1 .. active |-> accounts[i]]

(* The accounts as a restart would find them: while the log is written, the  *)
(* lines to come are those of the accounts.                                  *)
Saved ==
  IF server \in {"lock", "write"}
  THEN log \o SubSeq(Balances, Len(log) + 1, active) ELSE log

(* One request at a time, the bank implements the ledger (server.c:163-218,  *)
(* 250-295, 72-95, 126-161).                                                 *)
Promise == INSTANCE Ledger WITH balances <- Balances, saved <- Saved
ImplementsLedger == Promise!Spec
=============================================================================
