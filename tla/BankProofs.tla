------------------------------ MODULE BankProofs ------------------------------
(* What Bank promises whatever the numbers of requests, starts and accounts. *)
(*                                                                           *)
(* First for any batches, with tellers that race for active, b_id and the    *)
(* balances: the log is right whenever the server waits for requests.  Then  *)
(* for batches of one request: no balance becomes negative, a teller serves  *)
(* the account that it assigned, and the bank implements Ledger.             *)
EXTENDS Bank, FiniteSetTheorems, TLAPS

(* A teller that runs. *)
Busy(c) == teller[c] \notin {"none", "done"}

(* The places of a teller before and after it has assigned an account. *)
Unassigned == {"none", "verify", "assign", "increment"}
Assigned   == {"publish", "clear", "begin", "test", "load", "store", "reply"}

(* The clients that may still open an account. *)
MayOpen == {c \in Clients : teller[c] \in Unassigned}
-----------------------------------------------------------------------------
(* The inductive invariant for any batches.                                  *)

(* TypeOK, but for the balances: tellers that race may overdraw an account.  *)
RacyTypeOK ==
  /\ accounts \in [Ids -> Int] /\ active \in Nat /\ b_id \in Ids
  /\ requests \in [Clients -> Request]
  /\ log \in Seq(Int)
  /\ server \in ServerPlaces
  /\ client_count \in 0 .. MaxClients
  /\ batch \subseteq Clients
  /\ acc_lock \in BOOLEAN /\ handling \in BOOLEAN
  /\ starts \in 0 .. MaxStarts
  /\ teller \in [Clients -> TellerPlaces]
  /\ assigned \in [Clients -> Ids \cup {Nobody}]
  /\ id \in [Clients -> Ids \cup {Nobody}]
  /\ reg \in [Clients -> Int]
  /\ reply \in [Clients -> {"none", "served", "refused"}]

(* The account that a teller uses is one of those that there may be. *)
AccountsExist ==
  \A c \in Clients :
    /\ teller[c] \in Assigned => assigned[c] \in Ids
    /\ teller[c] \in {"test", "load", "store", "reply"} => id[c] \in Ids

(* Every request opens at most one account, also if it overwrites active     *)
(* with a value that is too low.                                             *)
AccountsBounded ==
  /\ Len(log) <= starts * MaxClients
  /\ server # "stopped" => active + Cardinality(MayOpen) <= starts * MaxClients
  /\ server = "stopped" => active = 0
  /\ \A c \in Clients : At(c, "increment") =>
       reg[c] \in Nat /\ reg[c] + Cardinality(MayOpen) <= starts * MaxClients

(* Tellers run for the current batch only, and not while the server reads    *)
(* requests or writes the log, unless it writes it in sig_handler.           *)
TellersWaitedFor ==
  /\ handling => server \in {"open", "lock", "write", "close"}
  /\ server = "close" => handling
  /\ \A c \in Clients : Busy(c) =>
       c \in batch /\ (handling \/ server \notin {"stopped", "read", "open", "lock", "write"})

LogGrows ==
  /\ server = "lock" => log = <<>>
  /\ server = "write" /\ ~handling =>
       Len(log) <= active /\ \A i \in 1 .. Len(log) : log[i] = accounts[i]

BankInv ==
  /\ RacyTypeOK /\ AccountsExist /\ AccountsBounded /\ TellersWaitedFor /\ LogGrows
  /\ LogIsCurrent
-----------------------------------------------------------------------------
(* The inductive invariant for batches of one. *)

(* One request at a time, and no signal or crash while the log is written.   *)
OneByOne ==
  /\ MaxBatch = 1
  /\ SigintAt \cap {"lock", "write"} = {} /\ CrashAt \cap {"lock", "write"} = {}

OneInBatch == \A c, d \in batch : c = d

NoDebts ==
  /\ accounts \in [Ids -> Nat] /\ log \in Seq(Nat) /\ reg \in [Clients -> Nat]
  /\ \A i \in Ids : i > active => accounts[i] = 0

(* What the one teller that runs knows at each place. *)
TellerKnows(c) ==
  /\ teller[c] \in Assigned => requests[c] # Invalid /\ assigned[c] \in 0 .. active
  /\ teller[c] \in {"assign", "increment"} => requests[c] # Invalid
  /\ At(c, "increment") => reg[c] = active
  /\ At(c, "clear") => requests[c].id = New
  /\ teller[c] \in {"publish", "clear"} /\ requests[c].id = New => accounts[assigned[c]] = 0
  /\ teller[c] \in {"clear", "begin"} => b_id = assigned[c]
  /\ teller[c] \in {"test", "load", "store", "reply"} => id[c] = assigned[c]
  /\ teller[c] \in {"load", "store"} /\ requests[c].op = "withdraw" =>
       accounts[id[c]] >= requests[c].credit
  /\ At(c, "store") => reg[c] = accounts[id[c]]

(* A teller that has not written the balance yet, which sig_handler did not  *)
(* wait for, finds the lines of the log as the accounts are.                 *)
LogFollows ==
  server \in {"lock", "write"} =>
    /\ Len(log) <= active
    /\ \A c \in Clients : Busy(c) /\ ~At(c, "reply") =>
         \A i \in 1 .. Len(log) : log[i] = accounts[i]

OneByOneInv == OneInBatch /\ NoDebts /\ (\A c \in Clients : TellerKnows(c)) /\ LogFollows
-----------------------------------------------------------------------------
(* Lemmas about numbers and sets. *)

LEMMA ProductBound ==
  ASSUME NEW m \in Nat, NEW j \in Nat, NEW k \in Nat, j <= k
  PROVE  j * m \in Nat /\ j * m <= k * m
OBVIOUS

LEMMA NextProduct ==
  ASSUME NEW m \in Nat, NEW j \in Nat
  PROVE  (j + 1) * m = j * m + m
OBVIOUS

(* All the accounts there may be. *)
LEMMA IdsRange == MaxClients * MaxStarts \in Nat /\ MaxStarts * MaxClients = MaxClients * MaxStarts
BY BankBounds

LEMMA EmptySequence == <<>> \in Seq(Int) /\ Len(<<>>) = 0
OBVIOUS

LEMMA UpdateTyped ==
  ASSUME NEW D, NEW S, NEW f \in [D -> S], NEW x, NEW v \in S
  PROVE  [f EXCEPT ![x] = v] \in [D -> S]
OBVIOUS

LEMMA RequestFields ==
  ASSUME NEW r \in Request
  PROVE  r.id \in Named \cup {New} /\ r.id \in Int /\ r.credit \in Nat
<1>1. CASE r = Invalid
  BY <1>1 DEF Invalid, New
<1>2. CASE r \in [op : {"deposit", "withdraw"}, id : Named \cup {New}, credit : Credits]
  <2>1. r.id \in Named \cup {New} /\ r.credit \in Credits
    BY <1>2
  <2>2. \A n \in Named \cup {New} : n \in Int
    BY BankBounds DEF New
  <2>3. \A n \in Credits : n \in Nat
    BY BankBounds
  <2>4. QED BY <2>1, <2>2, <2>3
<1>3. QED BY <1>1, <1>2 DEF Request

LEMMA ClientsFinite ==
  ASSUME NEW S \in SUBSET Clients
  PROVE  IsFiniteSet(S) /\ Cardinality(S) \in Nat /\ Cardinality(S) <= MaxClients
<1>1. IsFiniteSet(Clients) /\ Cardinality(Clients) = MaxClients
  BY BankBounds, FS_Interval, 1 \in Int, MaxClients \in Int DEF Clients
<1>2. QED BY <1>1, FS_Subset, FS_CardinalityType

(* A teller that moves may still open an account or no longer. *)
LEMMA MayOpenAfterMove ==
  ASSUME teller \in [Clients -> TellerPlaces], NEW c \in Clients, NEW l, Goto(c, l)
  PROVE  /\ Cardinality(MayOpen) \in Nat /\ Cardinality(MayOpen') \in Nat
         /\ teller[c] \in Unassigned /\ l \in Unassigned => MayOpen' = MayOpen
         /\ teller[c] \notin Unassigned /\ l \notin Unassigned => MayOpen' = MayOpen
         /\ teller[c] \in Unassigned /\ l \notin Unassigned =>
              Cardinality(MayOpen') = Cardinality(MayOpen) - 1
<1>1. MayOpen \subseteq Clients /\ MayOpen' \subseteq Clients
  BY DEF MayOpen
<1>2. Cardinality(MayOpen) \in Nat /\ Cardinality(MayOpen') \in Nat /\ IsFiniteSet(MayOpen)
  BY <1>1, ClientsFinite
<1>3. teller' = [teller EXCEPT ![c] = l]
  BY DEF Goto
<1>4. (teller[c] \in Unassigned <=> l \in Unassigned) => MayOpen' = MayOpen
  BY <1>3 DEF MayOpen
<1>5. teller[c] \in Unassigned /\ l \notin Unassigned => c \in MayOpen /\ MayOpen' = MayOpen \ {c}
  BY <1>3 DEF MayOpen
<1>6. QED BY <1>2, <1>4, <1>5, FS_RemoveElement
-----------------------------------------------------------------------------
(* The inductive invariant for any batches: its proof. *)

LEMMA TypesInitially == Init => BankInv
<1>1. 0 \in Nat /\ 0 \in Ids
  BY IdsRange DEF Ids
<1>2. Init => RacyTypeOK
  <2>1. Invalid \in Request
    BY DEF Request
  <2>2. Init => accounts \in [Ids -> Int] /\ requests \in [Clients -> Request] /\ reg \in [Clients -> Int]
    BY <2>1 DEF Init
  <2>3. Init => teller \in [Clients -> TellerPlaces] /\ assigned \in [Clients -> Ids \cup {Nobody}]
                  /\ id \in [Clients -> Ids \cup {Nobody}]
    BY DEF Init, TellerPlaces
  <2>4. QED
    BY <1>1, <2>2, <2>3, BankBounds, EmptySequence DEF Init, RacyTypeOK, ServerPlaces
<1>3. Init => AccountsExist /\ AccountsBounded /\ TellersWaitedFor /\ LogGrows /\ LogIsCurrent
  BY BankBounds
  DEF Init, AccountsExist, AccountsBounded, TellersWaitedFor, LogGrows, LogIsCurrent, Busy, At, Assigned
<1>4. QED BY <1>2, <1>3 DEF BankInv

(* The number of accounts is a number of an account. *)
LEMMA ActiveInRange ==
  ASSUME RacyTypeOK, AccountsBounded
  PROVE  /\ server # "stopped" => active \in Ids
         /\ Len(log) \in Ids
         /\ \A c \in Clients : At(c, "increment") /\ server # "stopped" => reg[c] + 1 \in Ids
<1>1. starts * MaxClients \in Nat /\ starts * MaxClients <= MaxClients * MaxStarts
  BY BankBounds, ProductBound, IdsRange DEF RacyTypeOK
<1>2. Cardinality(MayOpen) \in Nat
  BY ClientsFinite DEF MayOpen
<1>3. ASSUME NEW c \in Clients, At(c, "increment")
      PROVE  Cardinality(MayOpen) >= 1
  <2>1. c \in MayOpen
    BY <1>3 DEF MayOpen, At, Unassigned
  <2>2. IsFiniteSet(MayOpen)
    BY ClientsFinite DEF MayOpen
  <2>3. QED BY <2>1, <2>2, <1>2, FS_EmptySet
<1>4. Len(log) \in Nat
  BY DEF RacyTypeOK
<1>5. ASSUME NEW n \in Nat, n <= starts * MaxClients
      PROVE  n \in Ids
  BY <1>1, <1>5, IdsRange DEF Ids
<1>6. Len(log) \in Ids
  BY <1>4, <1>5 DEF AccountsBounded
<1>7. ASSUME server # "stopped"
      PROVE  active \in Ids
  <2>1. active \in Nat /\ active + Cardinality(MayOpen) <= starts * MaxClients
    BY <1>7 DEF AccountsBounded, RacyTypeOK
  <2>2. QED BY <1>1, <1>2, <1>5, <2>1
<1>8. ASSUME NEW c \in Clients, At(c, "increment")
      PROVE  reg[c] + 1 \in Ids
  <2>1. reg[c] \in Nat /\ reg[c] + Cardinality(MayOpen) <= starts * MaxClients
    BY <1>8 DEF AccountsBounded
  <2>2. reg[c] + 1 <= starts * MaxClients
    BY <1>1, <1>2, <1>3, <1>8, <2>1
  <2>3. QED BY <1>5, <2>1, <2>2
<1>9. QED BY <1>6, <1>7, <1>8

LEMMA TypesKept ==
  ASSUME RacyTypeOK, AccountsExist, AccountsBounded, TellersWaitedFor, [Next]_vars
  PROVE  RacyTypeOK'
<1> USE DEF RacyTypeOK, memory, control, locals
<1>1. CASE Start
  <2>1. DOMAIN log = 1 .. Len(log) /\ \A i \in DOMAIN log : log[i] \in Int
    OBVIOUS
  <2>2. accounts' \in [Ids -> Int] /\ active' \in Nat
    BY <1>1, <2>1 DEF Start
  <2>3. QED BY <1>1, <2>2, BankBounds DEF Start, ServerPlaces
<1>2. CASE ReadBatch
  <2>1. PICK n \in 1 .. MaxBatch :
          /\ client_count + n <= MaxClients
          /\ client_count' = client_count + n
          /\ batch' = client_count + 1 .. client_count + n
          /\ \E r \in [batch' -> Request] :
               requests' = [c \in Clients |-> IF c \in batch' THEN r[c] ELSE requests[c]]
    BY <1>2 DEF ReadBatch
  <2>2. client_count' \in 0 .. MaxClients /\ batch' \subseteq Clients
    BY <2>1, BankBounds DEF Clients
  <2>3. requests' \in [Clients -> Request]
    BY <2>1
  <2>4. QED BY <1>2, <2>2, <2>3 DEF ReadBatch, ServerPlaces
<1>3. CASE Fork
  BY <1>3 DEF Fork, ServerPlaces, TellerPlaces
<1>4. CASE WaitTellers \/ LockLog \/ CloseLog \/ Sigint
  BY <1>4 DEF WaitTellers, LockLog, CloseLog, Sigint, ServerPlaces
<1>12. CASE OpenLog
  BY <1>12 DEF OpenLog, ServerPlaces
<1>5. CASE WriteLine
  <2>1. accounts[Len(log) + 1] \in Int
    <3>1. server # "stopped" /\ Len(log) < active /\ Len(log) \in Nat
      BY <1>5 DEF WriteLine
    <3>2. Len(log) + 1 \in Ids
      BY <3>1, ActiveInRange, IdsRange DEF Ids
    <3>3. QED BY <3>2
  <2>2. QED BY <1>5, <2>1 DEF WriteLine
<1>6. CASE Gone /\ reply' \in [Clients -> {"none", "served", "refused"}]
  <2>1. 0 \in Ids
    BY IdsRange DEF Ids
  <2>2. Invalid \in Request
    BY DEF Request
  <2>3. /\ accounts' \in [Ids -> Int] /\ active' \in Nat /\ b_id' \in Ids
        /\ requests' \in [Clients -> Request]
        /\ reg' \in [Clients -> Int]
    BY <1>6, <2>1, <2>2 DEF Gone
  <2>4. /\ teller' \in [Clients -> TellerPlaces]
        /\ assigned' \in [Clients -> Ids \cup {Nobody}]
        /\ id' \in [Clients -> Ids \cup {Nobody}]
    BY <1>6 DEF Gone, TellerPlaces
  <2>5. server' \in ServerPlaces /\ client_count' \in 0 .. MaxClients /\ batch' \subseteq Clients
    BY <1>6, BankBounds DEF Gone, ServerPlaces
  <2>6. QED BY <1>6, <2>3, <2>4, <2>5 DEF Gone
<1>7. CASE Stop
  <2>1. reply' \in [Clients -> {"none", "served", "refused"}]
    BY <1>7 DEF Stop
  <2>2. QED BY <1>6, <1>7, <2>1 DEF Stop
<1>8. CASE Crash
  BY <1>6, <1>8 DEF Crash
<1>9. ASSUME NEW c \in Clients, TellerStep(c)
      PROVE  RacyTypeOK'
  <2> USE DEF At, Goto, Answer, TellerPlaces
  <2>1. server # "stopped"
    BY <1>9 DEF TellersWaitedFor, TellerStep, Busy, Verify, Assign, Increment, Publish, Clear, Begin,
                Test, Load, Store, Reply
  <2>2. requests[c].id \in Named \cup {New} /\ requests[c].credit \in Nat
    BY RequestFields
  <2>3. CASE Verify(c)
    BY <2>3 DEF Verify
  <2>4. CASE Assign(c)
    <3>1. CASE requests[c].id = New
      <4>1. reg' \in [Clients -> Int]
        BY <2>4, <3>1 DEF Assign
      <4>2. QED BY <2>4, <3>1, <4>1 DEF Assign
    <3>2. CASE requests[c].id # New /\ requests[c].id > active
      BY <2>4, <3>2 DEF Assign
    <3>3. CASE requests[c].id # New /\ ~(requests[c].id > active)
      <4>1. requests[c].id \in Nat
        BY <3>3, <2>2, BankBounds
      <4>2. active \in Ids
        BY <2>1, ActiveInRange
      <4>3. requests[c].id \in Ids
        BY <3>3, <4>1, <4>2, IdsRange DEF Ids
      <4>4. QED BY <2>4, <3>3, <4>3 DEF Assign
    <3>4. QED BY <3>1, <3>2, <3>3
  <2>5. CASE Increment(c)
    <3>1. reg[c] + 1 \in Ids /\ reg[c] \in Nat
      BY <2>1, <2>5, ActiveInRange DEF Increment, AccountsBounded
    <3>2. QED BY <2>5, <3>1 DEF Increment
  <2>6. CASE Publish(c)
    <3>1. assigned[c] \in Ids
      BY <2>6 DEF Publish, AccountsExist, Assigned
    <3>2. QED BY <2>6, <3>1 DEF Publish
  <2>7. CASE Clear(c)
    <3>1. accounts' = [accounts EXCEPT ![assigned[c]] = 0] /\ teller' = [teller EXCEPT ![c] = "begin"]
      BY <2>7 DEF Clear
    <3>2. accounts' \in [Ids -> Int]
      BY <3>1, UpdateTyped, 0 \in Int
    <3>3. teller' \in [Clients -> TellerPlaces]
      BY <3>1
    <3>4. QED BY <2>7, <3>2, <3>3 DEF Clear
  <2>8. CASE Begin(c)
    BY <2>8 DEF Begin
  <2>9. CASE Test(c)
    BY <2>9 DEF Test
  <2>10. CASE Load(c)
    <3>1. accounts[id[c]] \in Int
      BY <2>10 DEF Load, AccountsExist
    <3>2. QED BY <2>10, <3>1 DEF Load
  <2>11. CASE Store(c)
    <3>1. reg[c] + requests[c].credit \in Int /\ reg[c] - requests[c].credit \in Int
      BY <2>2
    <3>2. QED BY <2>11, <3>1 DEF Store
  <2>12. CASE Reply(c)
    BY <2>12 DEF Reply
  <2>13. QED
    BY <1>9, <2>3, <2>4, <2>5, <2>6, <2>7, <2>8, <2>9, <2>10, <2>11, <2>12 DEF TellerStep
<1>10. CASE UNCHANGED vars
  BY <1>10 DEF vars
<1>11. QED
  BY <1>1, <1>2, <1>3, <1>4, <1>5, <1>7, <1>8, <1>9, <1>10, <1>12 DEF Next, ServerStep, Idle

LEMMA TellersKept ==
  ASSUME RacyTypeOK, TellersWaitedFor, [Next]_vars
  PROVE  TellersWaitedFor'
<1> USE DEF TellersWaitedFor, Busy, memory, control, locals
<1>1. CASE Start
  BY <1>1 DEF Start
<1>2. CASE ReadBatch
  <2>1. \A c \in Clients : ~Busy(c)
    BY <1>2 DEF ReadBatch
  <2>2. QED BY <1>2, <2>1 DEF ReadBatch
<1>3. CASE Fork
  <2>1. PICK d \in batch : teller' = [teller EXCEPT ![d] = "verify"] /\ server' \in {"fork", "wait"}
    BY <1>3 DEF Fork
  <2>2. QED BY <1>3, <2>1 DEF Fork, RacyTypeOK
<1>4. CASE WaitTellers
  BY <1>4 DEF WaitTellers
<1>5. CASE OpenLog
  BY <1>5 DEF OpenLog
<1>6. CASE LockLog
  BY <1>6 DEF LockLog
<1>7. CASE WriteLine
  BY <1>7 DEF WriteLine
<1>8. CASE CloseLog
  BY <1>8 DEF CloseLog
<1>9. CASE Sigint
  BY <1>9 DEF Sigint
<1>10. CASE Stop \/ Crash
  BY <1>10 DEF Stop, Crash, Gone
<1>11. ASSUME NEW c \in Clients, TellerStep(c)
       PROVE  TellersWaitedFor'
  <2>1. Busy(c) /\ UNCHANGED <<server, batch, handling>>
    BY <1>11 DEF TellerStep, At, Verify, Assign, Increment, Publish, Clear, Begin, Test, Load, Store,
                 Reply
  <2>2. \A d \in Clients \ {c} : teller'[d] = teller[d]
    BY <1>11
    DEF TellerStep, Goto, Answer, RacyTypeOK, Verify, Assign, Increment, Publish, Clear, Begin, Test,
        Load, Store, Reply
  <2>3. QED BY <2>1, <2>2
<1>12. CASE UNCHANGED vars
  BY <1>12 DEF vars
<1>13. QED
  BY <1>1, <1>2, <1>3, <1>4, <1>5, <1>6, <1>7, <1>8, <1>9, <1>10, <1>11, <1>12
  DEF Next, ServerStep, Idle

LEMMA ExistingKept ==
  ASSUME RacyTypeOK, RacyTypeOK', AccountsExist, [Next]_vars
  PROVE  AccountsExist'
<1> USE DEF AccountsExist, Assigned, memory, control, locals
<1>1. CASE Start \/ ReadBatch \/ WaitTellers \/ OpenLog \/ LockLog \/ WriteLine \/ CloseLog \/ Sigint
  <2>1. UNCHANGED <<teller, assigned, id>>
    BY <1>1 DEF Start, ReadBatch, WaitTellers, OpenLog, LockLog, WriteLine, CloseLog, Sigint
  <2>2. QED BY <2>1
<1>2. CASE Fork
  BY <1>2 DEF Fork, RacyTypeOK
<1>3. CASE Stop \/ Crash
  BY <1>3 DEF Stop, Crash, Gone
<1>4. ASSUME NEW c \in Clients, TellerStep(c)
      PROVE  AccountsExist'
  <2> USE DEF At, Goto, Answer, RacyTypeOK
  <2>1. CASE Verify(c) \/ Test(c) \/ Load(c) \/ Store(c) \/ Reply(c) \/ Clear(c)
    BY SMTT(30), <2>1 DEF Verify, Test, Load, Store, Reply, Clear
  <2>2. CASE Assign(c)
    <3>1. assigned' = assigned \/ assigned' = [assigned EXCEPT ![c] = requests[c].id]
      BY <2>2 DEF Assign
    <3>2. teller'[c] = "publish" => requests[c].id # New /\ assigned'[c] = requests[c].id
      BY <2>2 DEF Assign
    <3>3. teller'[c] = "publish" => assigned'[c] \in Ids
      <4>1. requests[c].id \in Named \cup {New} /\ assigned'[c] \in Ids \cup {Nobody}
        BY RequestFields
      <4>2. requests[c].id # New => requests[c].id \in Nat
        BY <4>1, BankBounds
      <4>3. QED BY <3>2, <4>1, <4>2 DEF Nobody
    <3>4. teller'[c] \in {"publish", "increment", "done"} /\ \A d \in Clients \ {c} : teller'[d] = teller[d]
      BY <2>2 DEF Assign
    <3>5. id' = id /\ \A d \in Clients \ {c} : assigned'[d] = assigned[d]
      BY <2>2, <3>1 DEF Assign
    <3>6. QED BY <3>3, <3>4, <3>5
  <2>3. CASE Increment(c)
    <3>1. active' = reg[c] + 1 /\ assigned'[c] = reg[c] + 1 /\ reg[c] + 1 \in Nat
      BY <2>3 DEF Increment
    <3>2. assigned'[c] \in Ids
      <4>1. assigned'[c] \in Ids \cup {Nobody}
        OBVIOUS
      <4>2. QED BY <3>1, <4>1 DEF Nobody
    <3>3. QED BY <2>3, <3>2 DEF Increment
  <2>4. CASE Publish(c)
    <3>1. /\ \A d \in Clients \ {c} : teller'[d] = teller[d]
          /\ teller[c] = "publish" /\ teller'[c] \in {"clear", "begin"}
          /\ assigned' = assigned /\ id' = id
      BY <2>4 DEF Publish
    <3>2. QED BY <3>1
  <2>5. CASE Begin(c)
    BY <2>5 DEF Begin
  <2>6. QED BY <1>4, <2>1, <2>2, <2>3, <2>4, <2>5 DEF TellerStep
<1>5. CASE UNCHANGED vars
  BY <1>5 DEF vars
<1>6. QED
  BY <1>1, <1>2, <1>3, <1>4, <1>5 DEF Next, ServerStep, Idle

(* No step but those of tellers, Start and the end of the server changes the *)
(* bound or what it bounds, but for the lines of the log.                    *)
LEMMA BoundsKept ==
  ASSUME RacyTypeOK, RacyTypeOK', AccountsBounded, TellersWaitedFor, [Next]_vars
  PROVE  AccountsBounded'
<1> USE DEF memory, control, locals
<1>0. /\ MaxClients \in Nat /\ starts \in Nat /\ starts * MaxClients \in Nat
      /\ Cardinality(MayOpen) \in Nat /\ Cardinality(MayOpen) <= MaxClients
      /\ Cardinality(MayOpen') \in Nat /\ Cardinality(MayOpen') <= MaxClients
  <2>1. MayOpen \subseteq Clients /\ MayOpen' \subseteq Clients
    BY DEF MayOpen
  <2>2. MaxClients \in Nat /\ starts \in Nat
    BY BankBounds DEF RacyTypeOK
  <2>3. QED BY <2>1, <2>2, ClientsFinite, ProductBound
<1>1. CASE Start
  <2>1. (starts + 1) * MaxClients = starts * MaxClients + MaxClients
    BY <1>0, NextProduct
  <2>2. \A c \in Clients : teller[c] \in {"none", "done"} /\ teller' = teller
    BY <1>1 DEF Start, TellersWaitedFor, Busy
  <2>3. active' = Len(log) /\ log' = log /\ starts' = starts + 1 /\ server' = "read"
    BY <1>1 DEF Start
  <2>4. Len(log) \in Nat
    BY DEF RacyTypeOK
  <2>5. starts' * MaxClients = starts * MaxClients + MaxClients
    BY <2>1, <2>3
  <2>6. Len(log') <= starts' * MaxClients
    BY <1>0, <2>3, <2>4, <2>5 DEF AccountsBounded
  <2>7. active' + Cardinality(MayOpen') <= starts' * MaxClients
    BY <1>0, <2>3, <2>4, <2>5 DEF AccountsBounded
  <2>8. \A c \in Clients : ~At(c, "increment")'
    BY <2>2 DEF At
  <2>9. QED BY <2>3, <2>6, <2>7, <2>8 DEF AccountsBounded
<1>2. CASE Stop \/ Crash
  <2>1. /\ log' = log /\ starts' = starts /\ server' = "stopped" /\ active' = 0
        /\ teller' = [c \in Clients |-> "none"]
    BY <1>2 DEF Stop, Crash, Gone
  <2>2. QED BY <2>1 DEF AccountsBounded, At
<1>3. CASE WriteLine
  <2>1. Len(log') = Len(log) + 1 /\ Len(log) < active /\ server = "write" /\ Len(log) \in Nat
    BY <1>3 DEF WriteLine, RacyTypeOK
  <2>2. UNCHANGED <<active, starts, server, teller, reg>>
    BY <1>3 DEF WriteLine
  <2>3. MayOpen' = MayOpen
    BY <2>2 DEF MayOpen
  <2>4. active \in Nat
    BY DEF RacyTypeOK
  <2>5. QED BY <1>0, <2>1, <2>2, <2>3, <2>4 DEF AccountsBounded, At
<1>4. CASE ReadBatch \/ WaitTellers \/ OpenLog \/ LockLog \/ CloseLog \/ Sigint \/ UNCHANGED vars
  <2>1. UNCHANGED <<active, starts, teller, reg>>
    BY <1>4 DEF ReadBatch, WaitTellers, OpenLog, LockLog, CloseLog, Sigint, vars
  <2>2. Len(log') <= Len(log) /\ (server = "stopped" <=> server' = "stopped")
    <3>1. Len(log) \in Nat /\ (log' = log \/ log' = <<>>)
      BY <1>4 DEF ReadBatch, WaitTellers, OpenLog, LockLog, CloseLog, Sigint, vars, RacyTypeOK
    <3>2. server = "stopped" <=> server' = "stopped"
      BY <1>4, BankBounds DEF ReadBatch, WaitTellers, OpenLog, LockLog, CloseLog, Sigint, vars
    <3>3. QED BY <3>1, <3>2, EmptySequence
  <2>3. MayOpen' = MayOpen
    BY <2>1 DEF MayOpen
  <2>4. Len(log) \in Nat /\ Len(log') \in Nat
    BY DEF RacyTypeOK
  <2>5. QED BY <1>0, <2>1, <2>2, <2>3, <2>4 DEF AccountsBounded, At
<1>5. CASE Fork
  <2>1. PICK d \in batch : teller[d] = "none" /\ teller' = [teller EXCEPT ![d] = "verify"]
    BY <1>5 DEF Fork
  <2>2. UNCHANGED <<active, starts, log, reg>> /\ server # "stopped" /\ server' # "stopped"
    BY <1>5 DEF Fork
  <2>3. MayOpen' = MayOpen
    BY <2>1 DEF MayOpen, Unassigned, RacyTypeOK
  <2>4. \A c \in Clients : At(c, "increment")' => At(c, "increment")
    BY <2>1 DEF At, RacyTypeOK
  <2>5. QED BY <2>2, <2>3, <2>4 DEF AccountsBounded
<1>6. ASSUME NEW c \in Clients, TellerStep(c)
      PROVE  AccountsBounded'
  <2> DEFINE N == Cardinality(MayOpen)
  <2>1. server # "stopped" /\ UNCHANGED <<server, log, starts>>
    BY <1>6 DEF TellersWaitedFor, TellerStep, Busy, At, Verify, Assign, Increment, Publish, Clear,
                Begin, Test, Load, Store, Reply
  <2>2. active + N <= starts * MaxClients /\ active \in Nat
    BY <2>1 DEF AccountsBounded, RacyTypeOK
  <2>3. PICK l \in TellerPlaces : Goto(c, l) /\ (l \in Unassigned => teller[c] \in Unassigned)
    BY <1>6 DEF TellerStep, Answer, At, Verify, Assign, Increment, Publish, Clear, Begin, Test, Load,
                Store, Reply, TellerPlaces, Unassigned
  <2>4. N' \in Nat /\ N' <= N
    <3>1. teller \in [Clients -> TellerPlaces]
      BY DEF RacyTypeOK
    <3>2. MayOpen' = MayOpen \/ N' = N - 1
      BY <2>3, <3>1, MayOpenAfterMove
    <3>3. QED BY <1>0, <3>2
  <2>5. \A d \in Clients \ {c} : At(d, "increment")' => At(d, "increment")
    BY <2>3 DEF Goto, At, RacyTypeOK
  <2>6. CASE Assign(c) /\ requests[c].id = New
    <3>1. active' = active /\ reg' = [reg EXCEPT ![c] = active]
      BY <2>6 DEF Assign
    <3>2. \A d \in Clients : reg'[d] = IF d = c THEN active ELSE reg[d]
      BY <3>1 DEF RacyTypeOK
    <3>3. \A d \in Clients : At(d, "increment")' =>
            reg'[d] \in Nat /\ reg'[d] + N' <= starts * MaxClients
      <4>1. ASSUME NEW d \in Clients, At(d, "increment")', d # c
            PROVE  reg[d] \in Nat /\ reg[d] + N <= starts * MaxClients
        BY <2>5, <4>1 DEF AccountsBounded
      <4>2. QED BY <1>0, <2>2, <2>4, <3>2, <4>1
    <3>4. active' + N' <= starts * MaxClients
      BY <1>0, <2>2, <2>4, <3>1
    <3>5. QED BY <2>1, <3>3, <3>4 DEF AccountsBounded
  <2>7. CASE Increment(c)
    <3>1. active' = reg[c] + 1 /\ reg' = reg /\ At(c, "increment") /\ Goto(c, "publish")
      BY <2>7 DEF Increment
    <3>2. N' = N - 1
      <4>1. teller \in [Clients -> TellerPlaces] /\ Goto(c, "publish")
        BY <3>1 DEF RacyTypeOK
      <4>2. teller[c] \in Unassigned /\ "publish" \notin Unassigned
        BY <3>1 DEF At, Unassigned
      <4>3. QED BY <4>1, <4>2, MayOpenAfterMove
    <3>3. reg[c] \in Nat /\ reg[c] + N <= starts * MaxClients
      BY <3>1 DEF AccountsBounded
    <3>4. active' + N' <= starts * MaxClients
      BY <1>0, <3>1, <3>2, <3>3
    <3>5. ~At(c, "increment")'
      BY <3>1 DEF Goto, At, RacyTypeOK
    <3>6. \A d \in Clients : At(d, "increment")' =>
            reg'[d] \in Nat /\ reg'[d] + N' <= starts * MaxClients
      <4>1. ASSUME NEW d \in Clients, At(d, "increment")'
            PROVE  reg[d] \in Nat /\ reg[d] + N <= starts * MaxClients
        BY <2>5, <3>5, <4>1 DEF AccountsBounded
      <4>2. QED BY <1>0, <2>4, <3>1, <4>1
    <3>7. QED BY <2>1, <3>4, <3>6 DEF AccountsBounded
  <2>8. CASE ~(Assign(c) /\ requests[c].id = New) /\ ~Increment(c)
    <3>1. active' = active /\ (At(c, "increment")' => FALSE)
      BY <1>6, <2>8
      DEF TellerStep, At, Goto, Answer, RacyTypeOK, Verify, Assign, Publish, Clear, Begin, Test, Load,
          Store, Reply
    <3>2. \A d \in Clients \ {c} : reg'[d] = reg[d]
      BY <1>6, <2>8
      DEF TellerStep, RacyTypeOK, Verify, Assign, Publish, Clear, Begin, Test, Load, Store, Reply
    <3>3. \A d \in Clients : At(d, "increment")' =>
            reg'[d] \in Nat /\ reg'[d] + N' <= starts * MaxClients
      <4>1. ASSUME NEW d \in Clients, At(d, "increment")'
            PROVE  d # c /\ reg[d] \in Nat /\ reg[d] + N <= starts * MaxClients
        BY <2>5, <3>1, <4>1 DEF AccountsBounded
      <4>2. QED BY <1>0, <2>4, <3>2, <4>1
    <3>4. active' + N' <= starts * MaxClients
      BY <1>0, <2>2, <2>4, <3>1
    <3>5. QED BY <2>1, <3>3, <3>4 DEF AccountsBounded
  <2>9. QED BY <2>6, <2>7, <2>8
<1>7. QED
  BY <1>1, <1>2, <1>3, <1>4, <1>5, <1>6 DEF Next, ServerStep, Idle

LEMMA LogKept ==
  ASSUME RacyTypeOK, RacyTypeOK', AccountsBounded, TellersWaitedFor, LogGrows, LogIsCurrent,
         [Next]_vars
  PROVE  LogGrows' /\ LogIsCurrent'
<1> USE DEF LogGrows, LogIsCurrent, memory, control, locals
<1>1. CASE Start
  <2>1. Len(log) \in Ids /\ Len(log) \in Nat
    BY ActiveInRange DEF RacyTypeOK
  <2>2. log = [i \in 1 .. Len(log) |-> log[i]]
    BY DEF RacyTypeOK
  <2>3. \A i \in 1 .. Len(log) : accounts'[i] = log[i]
    <3>1. DOMAIN log = 1 .. Len(log) /\ Len(log) \in Nat /\ Len(log) <= MaxClients * MaxStarts
      BY <2>1, IdsRange DEF Ids, RacyTypeOK
    <3>2. \A i \in 1 .. Len(log) : i \in Ids /\ i \in DOMAIN log
      BY <3>1, IdsRange DEF Ids
    <3>3. QED BY <1>1, <3>2 DEF Start
  <2>4. [i \in 1 .. Len(log) |-> log[i]] = [i \in 1 .. active' |-> accounts'[i]]
    BY <1>1, <2>1, <2>3 DEF Start
  <2>5. QED BY <1>1, <2>2, <2>4 DEF Start
<1>2. CASE ReadBatch \/ Fork \/ WaitTellers \/ Sigint \/ Stop \/ Crash
  <2>1. server' \notin {"read", "lock", "write"}
    BY <1>2 DEF ReadBatch, Fork, WaitTellers, Sigint, Stop, Crash, Gone
  <2>2. QED BY <2>1
<1>3. CASE OpenLog
  BY <1>3 DEF OpenLog
<1>4. CASE LockLog
  BY <1>4, EmptySequence DEF LockLog, RacyTypeOK
<1>5. CASE WriteLine
  <2>1. UNCHANGED <<server, handling, accounts, active>> /\ server = "write"
    BY <1>5 DEF WriteLine
  <2>2. /\ Len(log) \in Nat /\ Len(log) < active
        /\ log' = Append(log, accounts[Len(log) + 1])
    BY <1>5 DEF WriteLine, RacyTypeOK
  <2>3. /\ Len(log') = Len(log) + 1
        /\ \A i \in 1 .. Len(log) : log'[i] = log[i]
        /\ log'[Len(log) + 1] = accounts[Len(log) + 1]
    BY <2>2 DEF RacyTypeOK
  <2>4. active \in Nat
    BY DEF RacyTypeOK
  <2>5. QED BY <2>1, <2>2, <2>3, <2>4
<1>6. CASE CloseLog
  <2>1. server = "write" /\ active <= Len(log) /\ UNCHANGED <<log, accounts, active, handling>>
    BY <1>6 DEF CloseLog
  <2>2. server' = IF handling THEN "close" ELSE "read"
    BY <1>6 DEF CloseLog
  <2>3. ASSUME ~handling
        PROVE  log = [i \in 1 .. active |-> accounts[i]]
    <3>1. Len(log) = active /\ \A i \in 1 .. Len(log) : log[i] = accounts[i]
      BY <2>1, <2>3 DEF RacyTypeOK
    <3>2. log = [i \in 1 .. Len(log) |-> log[i]]
      BY DEF RacyTypeOK
    <3>3. QED BY <3>1, <3>2
  <2>4. QED BY <2>1, <2>2, <2>3
<1>7. ASSUME NEW c \in Clients, TellerStep(c)
      PROVE  LogGrows' /\ LogIsCurrent'
  <2>1. Busy(c) /\ UNCHANGED <<server, log, handling>>
    BY <1>7 DEF TellerStep, Busy, At, Verify, Assign, Increment, Publish, Clear, Begin, Test, Load,
                Store, Reply
  <2>2. handling \/ server \notin {"read", "lock", "write"}
    BY <2>1 DEF TellersWaitedFor
  <2>3. server # "read"
    BY <2>2 DEF TellersWaitedFor
  <2>4. QED BY <2>1, <2>2, <2>3
<1>8. CASE UNCHANGED vars
  BY <1>8 DEF vars
<1>9. QED
  BY <1>1, <1>2, <1>3, <1>4, <1>5, <1>6, <1>7, <1>8 DEF Next, ServerStep, Idle

(* However many tellers run at once and overwrite each other's writes, there *)
(* are no more accounts than requests, a teller uses one that exists, and    *)
(* the server writes the log while none of its tellers runs, but for SIGINT  *)
(* (Midterm/server.c:72-95, 163-240, 283-293).                               *)
THEOREM BankInvariant == Spec => []BankInv
<1>1. Init => BankInv
  BY TypesInitially
<1>2. BankInv /\ [Next]_vars => BankInv'
  <2> SUFFICES ASSUME BankInv, [Next]_vars PROVE BankInv'
    OBVIOUS
  <2>1. RacyTypeOK'
    BY TypesKept DEF BankInv
  <2>2. TellersWaitedFor' /\ AccountsExist' /\ AccountsBounded' /\ LogGrows' /\ LogIsCurrent'
    BY <2>1, TellersKept, ExistingKept, BoundsKept, LogKept DEF BankInv
  <2>3. QED BY <2>1, <2>2 DEF BankInv
<1>3. QED BY <1>1, <1>2, PTL DEF Spec

(* Whenever the server waits for requests, its log holds every account as it *)
(* is, however the tellers of a batch raced and wherever a signal came       *)
(* (server.c:126-161, 293).                                                  *)
THEOREM BankLogIsCurrent == Spec => []LogIsCurrent
<1>1. BankInv => LogIsCurrent
  BY DEF BankInv
<1>2. QED BY <1>1, BankInvariant, PTL
-----------------------------------------------------------------------------
(* The inductive invariant for batches of one: its proof. *)

LEMMA OneByOneInitially == Init => OneByOneInv
<1>1. 0 \in Nat
  OBVIOUS
<1>2. Init => OneInBatch
  BY DEF Init, OneInBatch
<1>3. Init => accounts \in [Ids -> Nat] /\ reg \in [Clients -> Nat] /\ \A i \in Ids : accounts[i] = 0
  BY <1>1 DEF Init
<1>4. Init => log \in Seq(Nat)
  BY DEF Init
<1>5. Init => \A c \in Clients : TellerKnows(c)
  BY DEF Init, TellerKnows, At, Assigned
<1>6. QED BY <1>2, <1>3, <1>4, <1>5 DEF OneByOneInv, NoDebts, LogFollows, Init

(* What is known of a teller only tells something while it runs. *)
LEMMA NothingToKnow ==
  ASSUME NEW c \in Clients, ~Busy(c)
  PROVE  TellerKnows(c)
BY DEF Busy, TellerKnows, At, Assigned

LEMMA OneBusy ==
  ASSUME TellersWaitedFor, OneInBatch, NEW c \in Clients, NEW d \in Clients, Busy(c), Busy(d)
  PROVE  c = d
BY DEF TellersWaitedFor, OneInBatch

(* A step of a teller finds all others at rest, and is not taken while the   *)
(* server is stopped or waits for requests.                                  *)
LEMMA TellerMoves ==
  ASSUME RacyTypeOK, TellersWaitedFor, OneInBatch, NEW c \in Clients, TellerStep(c)
  PROVE  /\ Busy(c) /\ server \notin {"stopped", "read"}
         /\ UNCHANGED <<requests, log, server, batch, handling, starts>>
         /\ \A d \in Clients \ {c} : ~Busy(d) /\ ~Busy(d)'
<1>1. Busy(c) /\ UNCHANGED <<requests, log, server, batch, handling, starts>>
  BY DEF TellerStep, Busy, At, Verify, Assign, Increment, Publish, Clear, Begin, Test, Load, Store, Reply,
         memory, control
<1>2. \A d \in Clients \ {c} : teller'[d] = teller[d]
  BY DEF TellerStep, Goto, Answer, RacyTypeOK, Verify, Assign, Increment, Publish, Clear, Begin, Test,
         Load, Store, Reply
<1>3. \A d \in Clients \ {c} : ~Busy(d)
  BY <1>1, OneBusy
<1>4. server \notin {"stopped", "read"}
  BY <1>1 DEF TellersWaitedFor
<1>5. QED BY <1>1, <1>2, <1>3, <1>4 DEF Busy

LEMMA OneInBatchKept ==
  ASSUME OneByOne, RacyTypeOK, OneInBatch, [Next]_vars
  PROVE  OneInBatch'
<1>1. CASE ReadBatch
  <2>1. PICK n \in 1 .. MaxBatch : batch' = client_count + 1 .. client_count + n
    BY <1>1 DEF ReadBatch
  <2>2. n = 1 /\ client_count \in Int
    BY <2>1 DEF OneByOne, RacyTypeOK
  <2>3. \A c \in batch' : c = client_count + 1
    BY <2>1, <2>2
  <2>4. QED BY <2>3 DEF OneInBatch
<1>2. CASE Stop \/ Crash
  BY <1>2 DEF Stop, Crash, Gone, OneInBatch
<1>3. CASE ~ReadBatch /\ ~Stop /\ ~Crash
  <2>1. batch' = batch
    BY <1>3 DEF Next, ServerStep, Idle, vars, control, Start, Fork, WaitTellers, OpenLog, LockLog,
                WriteLine, CloseLog, Sigint, TellerStep, Verify, Assign, Increment, Publish, Clear,
                Begin, Test, Load, Store, Reply
  <2>2. QED BY <2>1 DEF OneInBatch
<1>4. QED BY <1>1, <1>2, <1>3

LEMMA NoDebtsKept ==
  ASSUME OneByOne, BankInv, OneByOneInv, [Next]_vars
  PROVE  NoDebts'
<1> USE DEF memory, control, locals
<1>0. /\ RacyTypeOK /\ AccountsExist /\ AccountsBounded /\ TellersWaitedFor
      /\ OneInBatch /\ NoDebts /\ \A c \in Clients : TellerKnows(c)
  BY DEF BankInv, OneByOneInv
<1>1. accounts \in [Ids -> Nat] /\ log \in Seq(Nat) /\ reg \in [Clients -> Nat] /\ active \in Nat
  BY <1>0 DEF NoDebts, RacyTypeOK
<1>2. CASE Start
  <2>1. \A i \in DOMAIN log : log[i] \in Nat
    BY <1>1
  <2>2. DOMAIN log = 1 .. Len(log) /\ Len(log) \in Nat
    BY <1>1
  <2>3. accounts' = [i \in Ids |-> IF i \in DOMAIN log THEN log[i] ELSE 0] /\ active' = Len(log)
    BY <1>2 DEF Start
  <2>4. accounts' \in [Ids -> Nat]
    BY <2>1, <2>3, 0 \in Nat
  <2>5. \A i \in Ids : i > active' => accounts'[i] = 0
    BY <2>2, <2>3 DEF Ids
  <2>6. QED BY <1>1, <1>2, <2>4, <2>5 DEF Start, NoDebts
<1>3. CASE WriteLine
  <2>1. server # "stopped" /\ Len(log) < active /\ Len(log) \in Nat
    BY <1>1, <1>3 DEF WriteLine
  <2>2. Len(log) + 1 \in Ids
    BY <1>0, <1>1, <2>1, ActiveInRange, IdsRange DEF Ids
  <2>3. accounts[Len(log) + 1] \in Nat
    BY <1>1, <2>2
  <2>4. log' \in Seq(Nat)
    BY <1>1, <1>3, <2>3 DEF WriteLine
  <2>5. QED BY <1>0, <1>3, <2>4 DEF WriteLine, NoDebts
<1>4. CASE OpenLog
  <2>1. log' \in Seq(Nat)
    BY <1>4 DEF OpenLog
  <2>2. QED BY <1>0, <1>4, <2>1 DEF OpenLog, NoDebts
<1>5. CASE Stop \/ Crash
  <2>1. /\ accounts' = [i \in Ids |-> 0] /\ reg' = [c \in Clients |-> 0] /\ log' = log
    BY <1>5 DEF Stop, Crash, Gone
  <2>2. accounts' \in [Ids -> Nat] /\ reg' \in [Clients -> Nat] /\ \A i \in Ids : accounts'[i] = 0
    BY <2>1, 0 \in Nat
  <2>3. QED BY <1>1, <2>1, <2>2 DEF NoDebts
<1>6. CASE ReadBatch \/ Fork \/ WaitTellers \/ LockLog \/ CloseLog \/ Sigint \/ UNCHANGED vars
  <2>1. UNCHANGED <<accounts, active, log, reg>>
    BY <1>6 DEF ReadBatch, Fork, WaitTellers, LockLog, CloseLog, Sigint, vars
  <2>2. QED BY <1>0, <2>1 DEF NoDebts
<1>7. ASSUME NEW c \in Clients, TellerStep(c)
      PROVE  NoDebts'
  <2>1. log' = log
    BY <1>0, <1>7, TellerMoves
  <2>2. CASE Assign(c)
    <3>1. reg' = reg \/ reg' = [reg EXCEPT ![c] = active]
      BY <2>2 DEF Assign
    <3>2. reg' \in [Clients -> Nat]
      BY <1>1, <3>1
    <3>3. QED BY <1>0, <2>1, <2>2, <3>2 DEF Assign, NoDebts
  <2>3. CASE Increment(c)
    <3>1. active' = active + 1
      BY <1>0, <2>3 DEF Increment, TellerKnows
    <3>2. \A i \in Ids : i > active' => i > active
      BY <1>1, <3>1 DEF Ids
    <3>3. QED BY <1>0, <2>1, <2>3, <3>2 DEF Increment, NoDebts
  <2>4. CASE Clear(c)
    <3>1. accounts' = [accounts EXCEPT ![assigned[c]] = 0]
      BY <2>4 DEF Clear
    <3>2. accounts' \in [Ids -> Nat]
      BY <1>1, <3>1, UpdateTyped, 0 \in Nat
    <3>3. \A i \in Ids : accounts'[i] = accounts[i] \/ accounts'[i] = 0
      BY <1>1, <3>1
    <3>4. QED BY <1>0, <2>1, <2>4, <3>2, <3>3 DEF Clear, NoDebts
  <2>5. CASE Load(c)
    <3>1. accounts[id[c]] \in Nat
      BY <1>0, <1>1, <2>5 DEF Load, At, AccountsExist
    <3>2. reg' = [reg EXCEPT ![c] = accounts[id[c]]]
      BY <2>5 DEF Load
    <3>3. reg' \in [Clients -> Nat]
      BY <1>1, <3>1, <3>2, UpdateTyped
    <3>4. QED BY <1>0, <2>1, <2>5, <3>3 DEF Load, NoDebts
  <2>6. CASE Store(c)
    <3> DEFINE v == IF requests[c].op = "deposit" THEN reg[c] + requests[c].credit
                    ELSE reg[c] - requests[c].credit
    <3>1. At(c, "store") /\ accounts' = [accounts EXCEPT ![id[c]] = v] /\ UNCHANGED <<active, reg>>
      BY <2>6 DEF Store
    <3>2. /\ requests[c] # Invalid /\ id[c] \in 0 .. active
          /\ requests[c].op = "withdraw" => reg[c] >= requests[c].credit
      BY <1>0, <3>1 DEF TellerKnows, At, Assigned
    <3>3. requests[c].op \in {"deposit", "withdraw"} /\ requests[c].credit \in Nat /\ reg[c] \in Nat
      <4>1. requests[c] \in Request
        BY <1>0 DEF RacyTypeOK
      <4>2. requests[c].op \in {"deposit", "withdraw"}
        BY <3>2, <4>1 DEF Request
      <4>3. QED BY <1>1, <4>1, <4>2, RequestFields
    <3>4. v \in Nat
      BY <3>2, <3>3
    <3>5. accounts' \in [Ids -> Nat]
      BY <1>1, <3>1, <3>4, UpdateTyped
    <3>6. \A i \in Ids : i > active => i # id[c]
      BY <1>1, <3>2 DEF Ids
    <3>7. \A i \in Ids : i > active' => accounts'[i] = accounts[i]
      BY <1>1, <3>1, <3>6
    <3>8. QED BY <1>0, <1>1, <2>1, <3>1, <3>5, <3>7 DEF NoDebts
  <2>7. CASE Verify(c) \/ Publish(c) \/ Begin(c) \/ Test(c) \/ Reply(c)
    <3>1. UNCHANGED <<accounts, active, reg>>
      BY <2>7 DEF Verify, Publish, Begin, Test, Reply
    <3>2. QED BY <1>0, <2>1, <3>1 DEF NoDebts
  <2>8. QED BY <1>7, <2>2, <2>3, <2>4, <2>5, <2>6, <2>7 DEF TellerStep
<1>8. QED
  BY <1>2, <1>3, <1>4, <1>5, <1>6, <1>7 DEF Next, ServerStep, Idle

LEMMA KnowledgeKept ==
  ASSUME OneByOne, BankInv, OneByOneInv, [Next]_vars, NEW d \in Clients
  PROVE  TellerKnows(d)'
<1> USE DEF memory, control, locals
<1>0. /\ RacyTypeOK /\ AccountsExist /\ AccountsBounded /\ TellersWaitedFor
      /\ OneInBatch /\ NoDebts /\ \A c \in Clients : TellerKnows(c)
  BY DEF BankInv, OneByOneInv
<1>1. CASE Start \/ ReadBatch
  <2>1. ~Busy(d) /\ teller' = teller
    BY <1>0, <1>1 DEF Start, ReadBatch, TellersWaitedFor
  <2>2. teller'[d] \in {"none", "done"}
    BY <2>1 DEF Busy
  <2>3. QED BY <2>2 DEF TellerKnows, At, Assigned
<1>2. CASE Fork
  <2>1. PICK e \in batch : teller' = [teller EXCEPT ![e] = "verify"]
    BY <1>2 DEF Fork
  <2>2. UNCHANGED <<accounts, active, b_id, requests, assigned, id, reg>>
    BY <1>2 DEF Fork
  <2>3. teller'[d] = teller[d] \/ teller'[d] = "verify"
    BY <1>0, <2>1 DEF RacyTypeOK
  <2>4. QED BY <1>0, <2>2, <2>3 DEF TellerKnows, At, Assigned
<1>3. CASE Stop \/ Crash
  <2>1. teller'[d] = "none"
    BY <1>3 DEF Stop, Crash, Gone
  <2>2. QED BY <2>1 DEF TellerKnows, At, Assigned
<1>4. CASE \/ WaitTellers \/ OpenLog \/ LockLog \/ WriteLine \/ CloseLog \/ Sigint \/ UNCHANGED vars
  <2>1. UNCHANGED <<accounts, active, b_id, requests, teller, assigned, id, reg>>
    BY <1>4 DEF WaitTellers, OpenLog, LockLog, WriteLine, CloseLog, Sigint, vars
  <2>2. QED BY <1>0, <2>1 DEF TellerKnows, At, Assigned
<1>5. ASSUME NEW c \in Clients, TellerStep(c), c # d
      PROVE  TellerKnows(d)'
  <2>1. teller'[d] \in {"none", "done"}
    BY <1>0, <1>5, TellerMoves DEF Busy
  <2>2. QED BY <2>1 DEF TellerKnows, At, Assigned
<1>6. CASE TellerStep(d)
  <2> USE DEF At, Goto, Answer
  <2>0. /\ teller \in [Clients -> TellerPlaces]
        /\ accounts \in [Ids -> Nat] /\ active \in Nat /\ reg \in [Clients -> Nat]
        /\ assigned \in [Clients -> Ids \cup {Nobody}] /\ id \in [Clients -> Ids \cup {Nobody}]
        /\ requests' = requests /\ TellerKnows(d)
    BY <1>0, <1>6, TellerMoves DEF RacyTypeOK, NoDebts
  <2>1. CASE Verify(d)
    <3>1. teller'[d] = "done" \/ (teller'[d] = "assign" /\ requests[d] # Invalid)
      BY <2>0, <2>1 DEF Verify
    <3>2. QED BY <2>0, <3>1 DEF TellerKnows, Assigned
  <2>2. CASE Assign(d)
    <3>1. requests[d] # Invalid
      BY <2>0, <2>2 DEF Assign, TellerKnows
    <3>2. CASE requests[d].id = New
      <4>1. teller'[d] = "increment" /\ reg'[d] = active /\ active' = active
        BY <2>0, <2>2, <3>2 DEF Assign
      <4>2. QED BY <2>0, <3>1, <4>1 DEF TellerKnows, Assigned
    <3>3. CASE requests[d].id # New /\ requests[d].id > active
      <4>1. teller'[d] = "done"
        BY <2>0, <2>2, <3>3 DEF Assign
      <4>2. QED BY <4>1 DEF TellerKnows, Assigned
    <3>4. CASE requests[d].id # New /\ ~(requests[d].id > active)
      <4>1. teller'[d] = "publish" /\ assigned'[d] = requests[d].id /\ active' = active
        BY <2>0, <2>2, <3>4 DEF Assign
      <4>2. requests[d].id \in Nat
        <5>1. requests[d] \in Request
          BY <1>0 DEF RacyTypeOK
        <5>2. QED BY <3>4, <5>1, RequestFields, BankBounds
      <4>3. assigned'[d] \in 0 .. active'
        BY <2>0, <3>4, <4>1, <4>2
      <4>4. QED BY <2>0, <3>1, <3>4, <4>1, <4>3 DEF TellerKnows, Assigned
    <3>5. QED BY <3>2, <3>3, <3>4
  <2>3. CASE Increment(d)
    <3>1. reg[d] = active /\ requests[d] # Invalid
      BY <2>0, <2>3 DEF Increment, TellerKnows
    <3>2. /\ teller'[d] = "publish" /\ active' = active + 1 /\ assigned'[d] = active + 1
          /\ accounts' = accounts
      BY <2>0, <2>3, <3>1 DEF Increment
    <3>3. active + 1 \in Ids
      <4>1. server # "stopped"
        BY <1>0, <1>6, TellerMoves
      <4>2. QED BY <1>0, <2>3, <3>1, <4>1, ActiveInRange DEF Increment
    <3>4. accounts[active + 1] = 0
      <4>1. active + 1 > active
        BY <2>0
      <4>2. QED BY <1>0, <3>3, <4>1 DEF NoDebts
    <3>5. assigned'[d] \in 0 .. active'
      BY <2>0, <3>2
    <3>6. QED BY <2>0, <3>1, <3>2, <3>4, <3>5 DEF TellerKnows, Assigned
  <2>4. CASE Publish(d)
    <3>1. /\ b_id' = assigned[d] /\ UNCHANGED <<accounts, active, assigned>>
          /\ teller'[d] \in {"clear", "begin"} /\ (teller'[d] = "clear" => requests[d].id = New)
      BY <2>0, <2>4 DEF Publish
    <3>2. /\ requests[d] # Invalid /\ assigned[d] \in 0 .. active
          /\ requests[d].id = New => accounts[assigned[d]] = 0
      BY <2>0, <2>4 DEF Publish, TellerKnows, Assigned
    <3>3. QED BY <2>0, <3>1, <3>2 DEF TellerKnows, Assigned
  <2>5. CASE Clear(d)
    <3>1. teller'[d] = "begin" /\ UNCHANGED <<active, b_id, assigned>>
      BY <2>0, <2>5 DEF Clear
    <3>2. requests[d] # Invalid /\ assigned[d] \in 0 .. active /\ b_id = assigned[d]
      BY <2>0, <2>5 DEF Clear, TellerKnows, Assigned
    <3>3. QED BY <2>0, <3>1, <3>2 DEF TellerKnows, Assigned
  <2>6. CASE Begin(d)
    <3>1. /\ id'[d] = b_id /\ UNCHANGED <<accounts, active, assigned>>
          /\ teller'[d] \in {"test", "load"} /\ (teller'[d] = "load" => requests[d].op # "withdraw")
      BY <2>0, <2>6 DEF Begin
    <3>2. requests[d] # Invalid /\ assigned[d] \in 0 .. active /\ b_id = assigned[d]
      BY <2>0, <2>6 DEF Begin, TellerKnows, Assigned
    <3>3. QED BY <2>0, <3>1, <3>2 DEF TellerKnows, Assigned
  <2>7. CASE Test(d)
    <3>1. /\ UNCHANGED <<accounts, active, assigned, id>>
          /\ \/ teller'[d] = "done"
             \/ teller'[d] = "load" /\ accounts[id[d]] >= requests[d].credit
      BY <2>0, <2>7 DEF Test
    <3>2. requests[d] # Invalid /\ assigned[d] \in 0 .. active /\ id[d] = assigned[d]
      BY <2>0, <2>7 DEF Test, TellerKnows, Assigned
    <3>3. QED BY <2>0, <3>1, <3>2 DEF TellerKnows, Assigned
  <2>8. CASE Load(d)
    <3>1. UNCHANGED <<accounts, active, assigned, id>> /\ teller'[d] = "store" /\ reg'[d] = accounts[id[d]]
      BY <2>0, <2>8 DEF Load
    <3>2. /\ requests[d] # Invalid /\ assigned[d] \in 0 .. active /\ id[d] = assigned[d]
          /\ requests[d].op = "withdraw" => accounts[id[d]] >= requests[d].credit
      BY <2>0, <2>8 DEF Load, TellerKnows, Assigned
    <3>3. QED BY <2>0, <3>1, <3>2 DEF TellerKnows, Assigned
  <2>9. CASE Store(d)
    <3>1. UNCHANGED <<active, assigned, id>> /\ teller'[d] = "reply"
      BY <2>0, <2>9 DEF Store
    <3>2. requests[d] # Invalid /\ assigned[d] \in 0 .. active /\ id[d] = assigned[d]
      BY <2>0, <2>9 DEF Store, TellerKnows, Assigned
    <3>3. QED BY <2>0, <3>1, <3>2 DEF TellerKnows, Assigned
  <2>10. CASE Reply(d)
    <3>1. teller'[d] = "done"
      BY <2>0, <2>10 DEF Reply
    <3>2. QED BY <3>1 DEF TellerKnows, Assigned
  <2>11. QED
    BY <1>6, <2>1, <2>2, <2>3, <2>4, <2>5, <2>6, <2>7, <2>8, <2>9, <2>10 DEF TellerStep
<1>7. QED
  BY <1>1, <1>2, <1>3, <1>4, <1>5, <1>6 DEF Next, ServerStep, Idle

LEMMA LogFollowed ==
  ASSUME OneByOne, BankInv, OneByOneInv, [Next]_vars
  PROVE  LogFollows'
<1> USE DEF memory, control, locals
<1>0. /\ RacyTypeOK /\ AccountsExist /\ TellersWaitedFor
      /\ OneInBatch /\ NoDebts /\ LogFollows /\ \A c \in Clients : TellerKnows(c)
  BY DEF BankInv, OneByOneInv
<1>1. CASE Start \/ ReadBatch \/ Fork \/ WaitTellers \/ CloseLog \/ Sigint \/ Stop \/ Crash
  <2>1. server' \notin {"lock", "write"}
    BY <1>1 DEF Start, ReadBatch, Fork, WaitTellers, CloseLog, Sigint, Stop, Crash, Gone
  <2>2. QED BY <2>1 DEF LogFollows
<1>2. CASE OpenLog
  <2>1. log' = <<>> /\ active' \in Nat
    BY <1>0, <1>2 DEF OpenLog, RacyTypeOK
  <2>2. QED BY <2>1 DEF LogFollows
<1>3. CASE LockLog \/ UNCHANGED vars
  <2>1. UNCHANGED <<log, active, accounts, teller>> /\ (server' \in {"lock", "write"} => server \in {"lock", "write"})
    BY <1>3 DEF LockLog, vars
  <2>2. QED BY <1>0, <2>1 DEF LogFollows, Busy, At
<1>4. CASE WriteLine
  <2>1. /\ server = "write" /\ Len(log) < active /\ UNCHANGED <<active, accounts, teller>>
        /\ log' = Append(log, accounts[Len(log) + 1])
    BY <1>4 DEF WriteLine
  <2>2. /\ Len(log') = Len(log) + 1 /\ Len(log) \in Nat
        /\ \A i \in 1 .. Len(log) : log'[i] = log[i]
        /\ log'[Len(log) + 1] = accounts[Len(log) + 1]
    BY <1>0, <2>1 DEF RacyTypeOK
  <2>3. active \in Nat
    BY <1>0 DEF RacyTypeOK
  <2>4. Len(log') <= active'
    BY <2>1, <2>2, <2>3
  <2>5. ASSUME NEW c \in Clients, Busy(c)', ~At(c, "reply")', NEW i \in 1 .. Len(log')
        PROVE  log'[i] = accounts'[i]
    <3>1. \A j \in 1 .. Len(log) : log[j] = accounts[j]
      BY <1>0, <2>1, <2>5 DEF LogFollows, Busy, At
    <3>2. QED BY <2>1, <2>2, <2>5, <3>1
  <2>6. QED BY <2>4, <2>5 DEF LogFollows
<1>5. ASSUME NEW c \in Clients, TellerStep(c), server' \in {"lock", "write"}
      PROVE  LogFollows'
  <2>1. server \in {"lock", "write"} /\ log' = log /\ Busy(c) /\ \A d \in Clients \ {c} : ~Busy(d)'
    BY <1>0, <1>5, TellerMoves
  <2>2. Len(log) <= active /\ Len(log) \in Nat /\ active \in Nat
    BY <1>0, <2>1 DEF LogFollows, RacyTypeOK
  <2>3. active <= active' /\ active' \in Nat
    <3>1. CASE Increment(c)
      BY <1>0, <2>2, <3>1 DEF Increment, TellerKnows
    <3>2. CASE ~Increment(c)
      <4>1. active' = active
        BY <1>5, <3>2 DEF TellerStep, Verify, Assign, Publish, Clear, Begin, Test, Load, Store, Reply
      <4>2. QED BY <2>2, <4>1
    <3>3. QED BY <3>1, <3>2
  <2>4. ASSUME Busy(c)', ~At(c, "reply")', NEW i \in 1 .. Len(log)
        PROVE  log[i] = accounts'[i]
    <3>1. ~Reply(c) /\ ~Store(c)
      BY <1>0, <2>4 DEF Reply, Store, Answer, Goto, Busy, At, RacyTypeOK
    <3>2. ~At(c, "reply")
      BY <1>5, <3>1 DEF TellerStep, At, Verify, Assign, Increment, Publish, Clear, Begin, Test, Load
    <3>3. log[i] = accounts[i]
      BY <1>0, <2>1, <3>2 DEF LogFollows
    <3>4. accounts' = accounts
      <4>1. CASE Clear(c)
        <5>1. accounts[assigned[c]] = 0 /\ assigned[c] \in Ids /\ accounts \in [Ids -> Int]
          BY <1>0, <4>1 DEF Clear, At, TellerKnows, AccountsExist, RacyTypeOK, Assigned
        <5>2. accounts' = [accounts EXCEPT ![assigned[c]] = 0]
          BY <4>1 DEF Clear
        <5>3. QED BY <5>1, <5>2
      <4>2. CASE ~Clear(c)
        BY <1>5, <3>1, <4>2 DEF TellerStep, Verify, Assign, Increment, Publish, Begin, Test, Load
      <4>3. QED BY <4>1, <4>2
    <3>5. QED BY <3>3, <3>4
  <2>5. Len(log) <= active'
    BY <2>2, <2>3
  <2>6. QED BY <2>1, <2>4, <2>5 DEF LogFollows
<1>6. QED
  BY <1>1, <1>2, <1>3, <1>4, <1>5 DEF Next, ServerStep, Idle, LogFollows

(* One request at a time, every teller knows what it does. *)
THEOREM OneByOneInvariant ==
  ASSUME OneByOne
  PROVE  Spec => [](BankInv /\ OneByOneInv)
<1>1. Init => BankInv /\ OneByOneInv
  BY TypesInitially, OneByOneInitially
<1>2. BankInv /\ BankInv' /\ OneByOneInv /\ [Next]_vars => OneByOneInv'
  <2> SUFFICES ASSUME BankInv, OneByOneInv, [Next]_vars PROVE OneByOneInv'
    OBVIOUS
  <2>1. OneInBatch' /\ NoDebts' /\ LogFollows'
    BY OneInBatchKept, NoDebtsKept, LogFollowed DEF BankInv, OneByOneInv
  <2>2. \A c \in Clients : TellerKnows(c)'
    BY KnowledgeKept
  <2>3. QED BY <2>1, <2>2 DEF OneByOneInv
<1>3. QED BY <1>1, <1>2, BankInvariant, PTL DEF Spec
-----------------------------------------------------------------------------
(* What the invariants give. *)

(* With batches of one no balance becomes negative, however often and        *)
(* wherever the server is interrupted (server.c:193-218).                    *)
THEOREM BankTypes ==
  ASSUME OneByOne
  PROVE  Spec => []TypeOK
<1>1. BankInv /\ OneByOneInv => TypeOK
  <2> SUFFICES ASSUME BankInv, OneByOneInv PROVE TypeOK
    OBVIOUS
  <2>1. RacyTypeOK /\ AccountsBounded /\ NoDebts
    BY DEF BankInv, OneByOneInv
  <2>2. active \in Ids /\ Len(log) \in Ids
    BY <2>1, ActiveInRange, IdsRange DEF AccountsBounded, Ids
  <2>3. QED BY <2>1, <2>2 DEF TypeOK, RacyTypeOK, NoDebts
<1>2. QED BY <1>1, OneByOneInvariant, PTL

(* With batches of one b_id still names the account that was assigned when   *)
(* process_transaction reads it (server.c:163-218).                          *)
THEOREM BankServesOwnAccount ==
  ASSUME OneByOne
  PROVE  Spec => []ServesOwnAccount
<1>1. OneByOneInv => ServesOwnAccount
  BY DEF OneByOneInv, TellerKnows, ServesOwnAccount
<1>2. QED BY <1>1, OneByOneInvariant, PTL
-----------------------------------------------------------------------------
(* With batches of one the bank implements Ledger. *)

LEMMA LogOverwritten ==
  ASSUME NEW s \in Seq(Nat), NEW t \in Seq(Nat), Len(s) <= Len(t)
  PROVE  s \o SubSeq(t, Len(s) + 1, Len(t)) = [i \in 1 .. Len(t) |-> IF i <= Len(s) THEN s[i] ELSE t[i]]
OBVIOUS

(* The refinement mapping, without sequence operators. *)
BalancesShape ==
  server # "stopped" =>
    /\ Balances = [i \in 1 .. active |-> accounts[i]]
    /\ Balances \in Seq(Nat) /\ Len(Balances) = active /\ active \in Nat
    /\ \A i \in 1 .. active : i \in Ids /\ accounts[i] \in Nat

SavedShape ==
  /\ server \notin {"lock", "write"} => Saved = log
  /\ server \in {"lock", "write"} =>
       Saved = [i \in 1 .. active |-> IF i <= Len(log) THEN log[i] ELSE accounts[i]]

LEMMA BalancesShaped == BankInv /\ OneByOneInv => BalancesShape
<1> SUFFICES ASSUME BankInv, OneByOneInv, server # "stopped" PROVE BalancesShape
  BY DEF BalancesShape
<1>1. RacyTypeOK /\ AccountsBounded /\ NoDebts
  BY DEF BankInv, OneByOneInv
<1>2. active \in Ids /\ active \in Nat
  BY <1>1, ActiveInRange DEF RacyTypeOK
<1>3. \A i \in 1 .. active : i \in Ids /\ accounts[i] \in Nat
  BY <1>1, <1>2, IdsRange DEF Ids, NoDebts
<1>4. QED BY <1>2, <1>3 DEF Balances, BalancesShape

LEMMA SavedShaped == BankInv /\ OneByOneInv => SavedShape
<1> SUFFICES ASSUME BankInv, OneByOneInv PROVE SavedShape
  OBVIOUS
<1>1. ASSUME server \in {"lock", "write"}
      PROVE  Saved = [i \in 1 .. active |-> IF i <= Len(log) THEN log[i] ELSE accounts[i]]
  <2>1. Len(log) <= active /\ log \in Seq(Nat)
    BY <1>1 DEF OneByOneInv, LogFollows, NoDebts
  <2>2. /\ Balances = [i \in 1 .. active |-> accounts[i]]
        /\ Balances \in Seq(Nat) /\ Len(Balances) = active /\ active \in Nat
    BY <1>1, BalancesShaped DEF BalancesShape
  <2>3. Saved = log \o SubSeq(Balances, Len(log) + 1, Len(Balances))
    BY <1>1, <2>2 DEF Saved
  <2>4. Saved = [i \in 1 .. active |-> IF i <= Len(log) THEN log[i] ELSE Balances[i]]
    BY <2>1, <2>2, <2>3, LogOverwritten
  <2>5. QED BY <2>2, <2>4
<1>2. QED BY <1>1 DEF Saved, SavedShape

LEMMA Shaped ==
  /\ BankInv /\ OneByOneInv => BalancesShape /\ SavedShape
  /\ (BankInv /\ OneByOneInv)' => (BalancesShape /\ SavedShape)'
BY BalancesShaped, SavedShaped, PTL

LEMMA ServerImplements ==
  ASSUME OneByOne, BankInv, OneByOneInv, BankInv', OneByOneInv',
         ServerStep \/ Start \/ ReadBatch \/ Sigint \/ Crash
  PROVE  [Promise!Next]_<<Balances, Saved>>
<1> USE DEF memory, control, locals
<1>1. RacyTypeOK /\ log \in Seq(Nat) /\ active \in Nat
  BY DEF BankInv, OneByOneInv, NoDebts, RacyTypeOK
<1>2. CASE Start
  <2>1. Balances' = log' /\ Balances = log /\ log' = log
    BY <1>2 DEF Start, Balances, BankInv, LogIsCurrent
  <2>2. Saved' = log' /\ Saved = log
    BY <1>2 DEF Start, Saved
  <2>3. QED BY <2>1, <2>2
<1>3. CASE ReadBatch \/ Fork \/ WaitTellers \/ Sigint \/ LockLog
  <2>1. UNCHANGED <<accounts, active, log>> /\ server # "stopped" /\ server' # "stopped"
    BY <1>3, BankBounds DEF ReadBatch, Fork, WaitTellers, Sigint, LockLog
  <2>2. server \in {"lock", "write"} <=> server' \in {"lock", "write"}
    BY <1>3 DEF ReadBatch, Fork, WaitTellers, Sigint, LockLog, OneByOne
  <2>3. Balances' = Balances
    BY <2>1 DEF Balances
  <2>4. Saved' = Saved
    BY <2>1, <2>2, <2>3 DEF Saved
  <2>5. QED BY <2>3, <2>4
<1>4. CASE OpenLog
  <2>1. log' = <<>> /\ UNCHANGED <<accounts, active>> /\ server = "open" /\ server' = "lock"
    BY <1>4 DEF OpenLog
  <2>2. Saved' = [i \in 1 .. active' |-> IF i <= Len(log') THEN log'[i] ELSE accounts'[i]]
    BY <2>1, Shaped DEF SavedShape
  <2>3. Saved' = [i \in 1 .. active |-> accounts[i]]
    BY <1>1, <2>1, <2>2
  <2>4. Balances' = Balances /\ Balances = [i \in 1 .. active |-> accounts[i]]
    BY <2>1 DEF Balances
  <2>5. Promise!Save
    BY <2>3, <2>4 DEF Promise!Save
  <2>6. QED BY <2>5 DEF Promise!Next
<1>5. CASE WriteLine
  <2>1. /\ server = "write" /\ Len(log) < active /\ UNCHANGED <<accounts, active, server>>
        /\ log' = Append(log, accounts[Len(log) + 1])
    BY <1>5 DEF WriteLine
  <2>2. /\ Saved = [i \in 1 .. active |-> IF i <= Len(log) THEN log[i] ELSE accounts[i]]
        /\ Saved' = [i \in 1 .. active |-> IF i <= Len(log') THEN log'[i] ELSE accounts[i]]
    BY <2>1, Shaped DEF SavedShape
  <2>3. /\ Len(log') = Len(log) + 1 /\ Len(log) \in Nat
        /\ \A i \in 1 .. Len(log) : log'[i] = log[i]
        /\ log'[Len(log) + 1] = accounts[Len(log) + 1]
    BY <1>1, <2>1
  <2>4. ASSUME NEW i \in 1 .. active
        PROVE  (IF i <= Len(log') THEN log'[i] ELSE accounts[i]) = IF i <= Len(log) THEN log[i] ELSE accounts[i]
    BY <1>1, <2>3, <2>4
  <2>5. Saved' = Saved
    BY <2>2, <2>4
  <2>6. Balances' = Balances
    BY <2>1 DEF Balances
  <2>7. QED BY <2>5, <2>6
<1>6. CASE CloseLog
  <2>1. /\ server = "write" /\ Len(log) >= active /\ UNCHANGED <<accounts, active, log>>
        /\ server' \in {"read", "close"}
    BY <1>6 DEF CloseLog
  <2>2. Len(log) = active /\ Len(log) \in Nat
    BY <1>1, <2>1 DEF OneByOneInv, LogFollows
  <2>3. Saved = [i \in 1 .. Len(log) |-> log[i]]
    BY <2>1, <2>2, Shaped DEF SavedShape
  <2>4. Saved' = log
    BY <2>1 DEF Saved
  <2>5. Saved = log
    BY <1>1, <2>3
  <2>6. Balances' = Balances
    BY <2>1 DEF Balances
  <2>7. QED BY <2>4, <2>5, <2>6
<1>7. CASE Stop \/ Crash
  <2>1. server \notin {"lock", "write"} /\ server' = "stopped" /\ log' = log
    BY <1>7 DEF Stop, Crash, Gone, OneByOne
  <2>2. Saved = log /\ Saved' = log /\ Balances' = log
    BY <2>1 DEF Saved, Balances
  <2>3. QED BY <2>2 DEF Promise!Next, Promise!Restart
<1>8. QED BY <1>2, <1>3, <1>4, <1>5, <1>6, <1>7 DEF ServerStep

LEMMA TellerImplements ==
  ASSUME OneByOne, BankInv, OneByOneInv, BankInv', OneByOneInv',
         NEW c \in Clients, TellerStep(c)
  PROVE  [Promise!Next]_<<Balances, Saved>>
<1> USE DEF memory, control, locals
<1>1. /\ RacyTypeOK /\ AccountsExist /\ TellersWaitedFor /\ OneInBatch /\ LogFollows /\ TellerKnows(c)
      /\ log \in Seq(Nat)
  BY DEF BankInv, OneByOneInv, NoDebts
<1>2. Busy(c) /\ server # "stopped" /\ UNCHANGED <<log, server>>
  BY <1>1, TellerMoves
<1>3. /\ Balances = [i \in 1 .. active |-> accounts[i]]
      /\ Balances' = [i \in 1 .. active' |-> accounts'[i]]
      /\ Balances \in Seq(Nat) /\ Len(Balances) = active /\ active \in Nat /\ active' \in Nat
      /\ DOMAIN Balances = 1 .. active
  BY <1>2, Shaped DEF BalancesShape
(* What was not written yet is written as the teller leaves it. *)
<1>4. ASSUME ~At(c, "reply"), NEW j \in 1 .. active', Len(log) \in Nat,
             \A i \in 1 .. active' : i # j => i <= active /\ accounts'[i] = accounts[i],
             active <= active'
      PROVE  Saved' \in {Saved, Balances'}
  <2>1. CASE server \notin {"lock", "write"}
    BY <1>2, <2>1 DEF Saved
  <2>2. CASE server \in {"lock", "write"}
    <3>1. \A i \in 1 .. Len(log) : log[i] = accounts[i]
      BY <1>1, <1>2, <1>4, <2>2 DEF LogFollows
    <3>2. Len(log) <= active
      BY <1>1, <2>2 DEF LogFollows
    <3>3. /\ Saved = [i \in 1 .. active |-> IF i <= Len(log) THEN log[i] ELSE accounts[i]]
          /\ Saved' = [i \in 1 .. active' |-> IF i <= Len(log) THEN log[i] ELSE accounts'[i]]
      BY <1>2, <2>2, Shaped DEF SavedShape
    <3>4. CASE j <= Len(log)
      <4>1. active' = active
        BY <1>3, <1>4, <3>2, <3>4
      <4>2. \A i \in 1 .. active : (IF i <= Len(log) THEN log[i] ELSE accounts'[i])
                                 = (IF i <= Len(log) THEN log[i] ELSE accounts[i])
        BY <1>3, <1>4, <3>4, <4>1
      <4>3. Saved' = Saved
        BY <3>3, <4>1, <4>2
      <4>4. QED BY <4>3
    <3>5. CASE ~(j <= Len(log))
      <4>1. \A i \in 1 .. active' : (IF i <= Len(log) THEN log[i] ELSE accounts'[i]) = accounts'[i]
        BY <1>3, <1>4, <3>1, <3>5
      <4>2. Saved' = Balances'
        BY <1>3, <3>3, <4>1
      <4>3. QED BY <4>2
    <3>6. QED BY <3>4, <3>5
  <2>3. QED BY <2>1, <2>2
<1>5. CASE Increment(c)
  <2>1. active' = active + 1 /\ accounts' = accounts /\ ~At(c, "reply")
    BY <1>1, <1>5 DEF Increment, TellerKnows, At
  <2>2. accounts[active + 1] = 0
    <3>1. active + 1 \in Ids
      <4>1. active' \in 1 .. active'
        BY <1>3, <2>1
      <4>2. QED BY <1>2, <2>1, <4>1, Shaped DEF BalancesShape
    <3>2. active + 1 > active
      BY <1>3
    <3>3. QED BY <3>1, <3>2 DEF OneByOneInv, NoDebts
  <2>3. Balances' = Append(Balances, 0)
    BY <1>3, <2>1, <2>2
  <2>4. Saved' \in {Saved, Balances'}
    <3>1. Len(log) \in Nat /\ active' \in 1 .. active' /\ active <= active'
      BY <1>1, <1>3, <2>1
    <3>2. \A i \in 1 .. active' : i # active' => i <= active /\ accounts'[i] = accounts[i]
      BY <1>3, <2>1
    <3>3. QED BY <1>4, <2>1, <3>1, <3>2
  <2>5. QED BY <2>3, <2>4 DEF Promise!Next, Promise!Operation, Promise!Open
<1>6. CASE Store(c)
  <2> DEFINE n == requests[c].credit
             v == IF requests[c].op = "deposit" THEN accounts[id[c]] + n ELSE accounts[id[c]] - n
  <2>1. /\ At(c, "store") /\ active' = active
        /\ reg[c] = accounts[id[c]] /\ id[c] \in 0 .. active /\ id[c] \in Ids /\ requests[c] # Invalid
        /\ requests[c].op = "withdraw" => accounts[id[c]] >= n
        /\ accounts \in [Ids -> Int]
    BY <1>1, <1>6 DEF Store, TellerKnows, AccountsExist, At, Assigned, RacyTypeOK
  <2>2. accounts' = [accounts EXCEPT ![id[c]] = v]
    BY <1>6, <2>1 DEF Store
  <2>3. requests[c].op \in {"deposit", "withdraw"} /\ n \in Credits
    <3>1. requests[c] \in Request
      BY <1>1 DEF RacyTypeOK
    <3>2. QED BY <2>1, <3>1 DEF Request
  <2>4. CASE id[c] = 0
    <3>1. \A i \in 1 .. active : accounts'[i] = accounts[i]
      BY <1>3, <2>1, <2>2, <2>4
    <3>2. Balances' = Balances
      BY <1>3, <2>1, <3>1
    <3>3. Saved' = Saved
      BY <1>2, <2>1, <3>2 DEF Saved
    <3>4. QED BY <3>2, <3>3
  <2>5. CASE id[c] # 0
    <3>1. id[c] \in 1 .. active
      BY <1>3, <2>1, <2>5
    <3>2. /\ accounts'[id[c]] = v
          /\ \A i \in 1 .. active : i # id[c] => accounts'[i] = accounts[i]
      <4>1. \A i \in 1 .. active : i \in Ids
        BY <1>2, Shaped DEF BalancesShape
      <4>2. QED BY <2>1, <2>2, <4>1
    <3>3. Balances' = [Balances EXCEPT ![id[c]] = v] /\ Balances[id[c]] = accounts[id[c]]
      BY <1>3, <2>1, <3>1, <3>2
    <3>4. Promise!Deposit(id[c], n) \/ Promise!Withdraw(id[c], n)
      BY <2>1, <2>3, <3>1, <3>3 DEF Promise!Deposit, Promise!Withdraw
    <3>5. Saved' \in {Saved, Balances'}
      <4>1. ~At(c, "reply") /\ Len(log) \in Nat
        BY <1>1, <2>1 DEF At
      <4>2. \A i \in 1 .. active' : i # id[c] => i <= active /\ accounts'[i] = accounts[i]
        BY <1>3, <2>1, <3>2
      <4>3. id[c] \in 1 .. active' /\ active <= active'
        BY <1>3, <2>1, <3>1
      <4>4. QED BY <1>4, <4>1, <4>2, <4>3
    <3>6. Promise!Operation
      BY <1>3, <2>3, <3>1, <3>4, <3>5 DEF Promise!Operation
    <3>7. QED BY <3>6 DEF Promise!Next
  <2>6. QED BY <2>4, <2>5
<1>7. CASE ~Increment(c) /\ ~Store(c)
  <2>1. accounts' = accounts /\ active' = active
    <3>1. CASE Clear(c)
      <4>1. accounts[assigned[c]] = 0 /\ assigned[c] \in Ids /\ accounts \in [Ids -> Int]
        BY <1>1, <3>1 DEF Clear, At, TellerKnows, AccountsExist, RacyTypeOK, Assigned
      <4>2. accounts' = [accounts EXCEPT ![assigned[c]] = 0] /\ active' = active
        BY <3>1 DEF Clear
      <4>3. QED BY <4>1, <4>2
    <3>2. CASE ~Clear(c)
      BY <1>7, <3>2 DEF TellerStep, Verify, Assign, Publish, Begin, Test, Load, Reply
    <3>3. QED BY <3>1, <3>2
  <2>2. Balances' = Balances
    BY <1>3, <2>1
  <2>3. Saved' = Saved
    BY <1>2, <2>1, <2>2 DEF Saved
  <2>4. QED BY <2>2, <2>3
<1>8. QED BY <1>5, <1>6, <1>7

(* One request at a time, the bank is a ledger: no update is lost, nothing   *)
(* is overdrawn, and every start brings back what was saved (server.c:72-95, *)
(* 126-161, 163-218, 250-295).                                               *)
THEOREM BankImplementsLedger ==
  ASSUME OneByOne
  PROVE  Spec => ImplementsLedger
<1>1. Init => Promise!Init
  BY DEF Init, Promise!Init, Balances, Saved
<1>2. /\ BankInv /\ OneByOneInv /\ (BankInv /\ OneByOneInv)' /\ [Next]_vars
      => [Promise!Next]_<<Balances, Saved>>
  <2> SUFFICES ASSUME BankInv, OneByOneInv, BankInv', OneByOneInv', [Next]_vars
               PROVE  [Promise!Next]_<<Balances, Saved>>
    OBVIOUS
  <2>1. CASE ServerStep \/ Start \/ ReadBatch \/ Sigint \/ Crash
    BY <2>1, ServerImplements
  <2>2. CASE \E c \in Clients : TellerStep(c)
    BY <2>2, TellerImplements
  <2>3. CASE UNCHANGED vars
    BY <2>3 DEF vars, memory, control, Balances, Saved
  <2>4. QED BY <2>1, <2>2, <2>3 DEF Next, Idle
<1>3. QED BY <1>1, <1>2, OneByOneInvariant, PTL DEF Spec, ImplementsLedger, Promise!Spec
=============================================================================
