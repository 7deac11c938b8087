--------------------------- MODULE FileQueueProofs ---------------------------
(* Proofs about the file transfer queue, for any number of clients, any     *)
(* MAX_FILE_QUEUE and any number of requests.                               *)
EXTENDS FileQueue, FiniteSetTheorems, SequenceTheorems, TLAPS

-----------------------------------------------------------------------------
(* Remainders, for the indexes of the ring buffer. *)
LEMMA ModSmall ==
  ASSUME NEW n \in Nat \ {0}, NEW a \in Int, 0 <= a, a < n
  PROVE  a % n = a
  BY Z3

LEMMA ModWrap ==
  ASSUME NEW n \in Nat \ {0}, NEW a \in Int, n <= a, a < 2 * n
  PROVE  a % n = a - n
  BY Z3

LEMMA ModNegative ==
  ASSUME NEW n \in Nat \ {0}, NEW a \in Int, -n <= a, a < 0
  PROVE  a % n = a + n
  BY Z3

(* The successor of an index of the ring. *)
LEMMA NextIndex ==
  ASSUME NEW i \in Index
  PROVE  /\ (i + 1) % MaxFileQueue \in Index
         /\ (i + 1) % MaxFileQueue = IF i + 1 = MaxFileQueue THEN 0 ELSE i + 1
  <1>1. CASE i + 1 = MaxFileQueue
    BY <1>1, QueueBounds, ModWrap DEF Index
  <1>2. CASE i + 1 < MaxFileQueue
    BY <1>2, QueueBounds, ModSmall DEF Index
  <1>3. QED
    BY <1>1, <1>2, QueueBounds DEF Index

(* The distance of an entry from the head, going round the ring. *)
LEMMA Distance ==
  ASSUME NEW i \in Index, NEW h \in Index
  PROVE  (i - h) % MaxFileQueue = IF h <= i THEN i - h ELSE i - h + MaxFileQueue
  <1>1. CASE h <= i
    BY <1>1, QueueBounds, ModSmall DEF Index
  <1>2. CASE i < h
    BY <1>2, QueueBounds, ModNegative DEF Index
  <1>3. QED
    BY <1>1, <1>2 DEF Index

(* The entry k places behind the head, for k up to the size of the ring. *)
LEMMA Place ==
  ASSUME NEW h \in Index, NEW k \in 0 .. MaxFileQueue
  PROVE  /\ (h + k) % MaxFileQueue \in Index
         /\ (h + k) % MaxFileQueue =
              IF h + k < MaxFileQueue THEN h + k ELSE h + k - MaxFileQueue
  <1>1. CASE h + k < MaxFileQueue
    BY <1>1, QueueBounds, ModSmall DEF Index
  <1>2. CASE ~(h + k < MaxFileQueue)
    <2>1. /\ MaxFileQueue \in Nat \ {0} /\ h + k \in Int
          /\ MaxFileQueue <= h + k /\ h + k < 2 * MaxFileQueue
      BY <1>2, QueueBounds DEF Index
    <2> DEFINE a == h + k
    <2> HIDE DEF a
    <2>2. a \in Int /\ MaxFileQueue <= a /\ a < 2 * MaxFileQueue
      BY <2>1 DEF a
    <2>3. a % MaxFileQueue = a - MaxFileQueue
      BY <2>1, <2>2, ModWrap
    <2>4. QED
      BY <1>2, <2>1, <2>3, QueueBounds DEF Index, a
  <1>3. QED
    BY <1>1, <1>2

-----------------------------------------------------------------------------
Places == {"offline", "loop", "trywait", "timedwait", "enqueue", "post"}

(* How many threads are at a place, when one of them moves. *)
LEMMA CountMove ==
  ASSUME NEW f \in [Slots -> Places], NEW g \in [Slots -> Places], NEW s \in Slots,
         NEW b \in Places, f[s] # b, g = [f EXCEPT ![s] = b],
         NEW l \in Places
  PROVE  /\ Cardinality({x \in Slots : f[x] = l}) \in Nat
         /\ Cardinality({x \in Slots : g[x] = l}) \in Nat
         /\ Cardinality({x \in Slots : g[x] = l}) =
              IF l = b THEN Cardinality({x \in Slots : f[x] = l}) + 1
              ELSE IF l = f[s] THEN Cardinality({x \in Slots : f[x] = l}) - 1
              ELSE Cardinality({x \in Slots : f[x] = l})
  <1> DEFINE F == {x \in Slots : f[x] = l}
             G == {x \in Slots : g[x] = l}
  <1>1. IsFiniteSet(F) /\ IsFiniteSet(G)
    BY FS_Subset, QueueBounds
  <1>2. Cardinality(F) \in Nat /\ Cardinality(G) \in Nat
    BY <1>1, FS_CardinalityType
  <1>3. CASE l = b
    <2>1. G = F \cup {s} /\ s \notin F
      BY <1>3
    <2>2. QED
      BY <1>1, <1>2, <1>3, <2>1, FS_AddElement
  <1>4. CASE l # b /\ l = f[s]
    <2>1. G = F \ {s} /\ s \in F
      BY <1>4
    <2>2. Cardinality(G) = Cardinality(F) - 1
      BY SMTT(30), <1>1, <2>1, FS_RemoveElement
    <2>3. QED
      BY <1>2, <1>4, <2>2
  <1>5. CASE l # b /\ l # f[s]
    <2>1. G = F
      BY <1>5
    <2>2. QED
      BY <1>2, <1>5, <2>1
  <1>6. QED
    BY <1>3, <1>4, <1>5

(* CountMove for the two places the permits are counted at. *)
LEMMA SendersMove ==
  ASSUME TypeOK, NEW s \in Slots, NEW b \in Places, pc[s] # b, Goto(s, b),
         NEW l \in {"enqueue", "post"}
  PROVE  /\ Cardinality(Senders(l)) \in Nat
         /\ Cardinality(Senders(l))' \in Nat
         /\ Cardinality(Senders(l))' =
              IF l = b THEN Cardinality(Senders(l)) + 1
              ELSE IF l = pc[s] THEN Cardinality(Senders(l)) - 1
              ELSE Cardinality(Senders(l))
  <1>1. pc \in [Slots -> Places] /\ l \in Places
    BY DEF TypeOK, Places
  <1>2. pc' = [pc EXCEPT ![s] = b] /\ pc' \in [Slots -> Places]
    BY <1>1 DEF Goto
  <1>3. \A f, g \in [Slots -> Places] :
          f[s] # b /\ g = [f EXCEPT ![s] = b] =>
            /\ Cardinality({x \in Slots : f[x] = l}) \in Nat
            /\ Cardinality({x \in Slots : g[x] = l}) \in Nat
            /\ Cardinality({x \in Slots : g[x] = l}) =
                 IF l = b THEN Cardinality({x \in Slots : f[x] = l}) + 1
                 ELSE IF l = f[s] THEN Cardinality({x \in Slots : f[x] = l}) - 1
                 ELSE Cardinality({x \in Slots : f[x] = l})
    BY <1>1, CountMove
  <1>4. QED
    BY <1>1, <1>2, <1>3 DEF Senders

(* A place some thread is at counts at least one. *)
LEMMA SendersNat ==
  ASSUME NEW l
  PROVE  /\ Cardinality(Senders(l)) \in Nat
         /\ \A s \in Slots : pc[s] = l => Cardinality(Senders(l)) > 0
  <1>1. IsFiniteSet(Senders(l))
    BY FS_Subset, QueueBounds DEF Senders
  <1>2. Cardinality(Senders(l)) \in Nat
    BY <1>1, FS_CardinalityType
  <1>3. ASSUME NEW s \in Slots, pc[s] = l PROVE Cardinality(Senders(l)) > 0
    BY <1>1, <1>2, <1>3, FS_EmptySet DEF Senders
  <1>4. QED
    BY <1>2, <1>3
-----------------------------------------------------------------------------
(* The tuples the actions leave unchanged. *)
USE DEF sessions, ring, semaphores, handlers, processor

(* The inductive invariant holds at the start. *)
LEMMA QueueInvInit == Init => QueueInv
  <1> SUFFICES ASSUME Init PROVE QueueInv
    OBVIOUS
  <1> USE DEF Init
  <1>1. TypeOK
    BY QueueBounds DEF TypeOK, Index, Entry
  <1>2. \A l \in {"enqueue", "post"} : Cardinality(Senders(l)) = 0
    <2>1. \A l \in {"enqueue", "post"} : Senders(l) = {}
      BY DEF Senders
    <2>2. QED
      BY <2>1, FS_EmptySet
  <1>3. PermitsConserved
    BY <1>2, QueueBounds DEF PermitsConserved, One
  <1>4. RingConsistent
    <2>1. ASSUME NEW i \in Index
          PROVE  file_queue[i].active <=> (i - queue_head) % MaxFileQueue < queue_size
      BY Distance, QueueBounds DEF Index
    <2>2. queue_tail = (queue_head + queue_size) % MaxFileQueue
      BY Place, QueueBounds DEF Index
    <2>3. QED
      BY <2>1, <2>2 DEF RingConsistent
  <1>5. RequestsPresent /\ PermitIsRequest
    BY DEF RequestsPresent, PermitIsRequest
  <1>6. QED
    BY <1>1, <1>3, <1>4, <1>5 DEF QueueInv

(* A connection changes neither the ring nor the semaphores. *)
LEMMA ConnectInv ==
  ASSUME QueueInv, NEW s \in Slots, Connect(s)
  PROVE  QueueInv'
  <1> USE DEF Connect, At
  <1>1. TypeOK'
    BY QueueBounds DEF QueueInv, TypeOK, Goto, Sessions
  <1>2. \A l \in {"enqueue", "post"} :
          Cardinality(Senders(l))' =
            IF l = "loop" THEN Cardinality(Senders(l)) + 1
            ELSE IF l = pc[s] THEN Cardinality(Senders(l)) - 1
            ELSE Cardinality(Senders(l))
    BY SendersMove DEF QueueInv, Places
  <1>3. PermitsConserved'
    BY <1>2, SendersNat DEF QueueInv, TypeOK, PermitsConserved, One
  <1>4. RingConsistent'
    BY DEF QueueInv, RingConsistent
  <1>5. RequestsPresent' /\ PermitIsRequest'
    BY DEF QueueInv, TypeOK, RequestsPresent, PermitIsRequest, Goto, Request
  <1>6. QED
    BY <1>1, <1>3, <1>4, <1>5 DEF QueueInv

(* Nor does the end of a connection. *)
LEMMA DisconnectInv ==
  ASSUME QueueInv, NEW s \in Slots, Disconnect(s)
  PROVE  QueueInv'
  <1> USE DEF Disconnect, At
  <1>1. TypeOK'
    BY QueueBounds, SendersNat DEF QueueInv, TypeOK, Goto, Request, PermitsConserved
  <1>2. \A l \in {"enqueue", "post"} :
          Cardinality(Senders(l))' =
            IF l = "offline" THEN Cardinality(Senders(l)) + 1
            ELSE IF l = pc[s] THEN Cardinality(Senders(l)) - 1
            ELSE Cardinality(Senders(l))
    BY SendersMove DEF QueueInv, Places
  <1>3. PermitsConserved'
    BY <1>2, SendersNat DEF QueueInv, TypeOK, PermitsConserved, One
  <1>4. RingConsistent'
    BY DEF QueueInv, RingConsistent
  <1>5. RequestsPresent' /\ PermitIsRequest'
    BY DEF QueueInv, TypeOK, RequestsPresent, PermitIsRequest, Goto, Request
  <1>6. QED
    BY <1>1, <1>3, <1>4, <1>5 DEF QueueInv

(* The entry waited for moves from the semaphore to the sender. *)
LEMMA TimedWaitInv ==
  ASSUME QueueInv, NEW s \in Slots, TimedWait(s)
  PROVE  QueueInv'
  <1> USE DEF TimedWait, At
  <1>1. TypeOK'
    BY QueueBounds, SendersNat DEF QueueInv, TypeOK, Goto, Request, PermitsConserved
  <1>2. \A l \in {"enqueue", "post"} :
          Cardinality(Senders(l))' =
            IF l = "enqueue" THEN Cardinality(Senders(l)) + 1
            ELSE IF l = pc[s] THEN Cardinality(Senders(l)) - 1
            ELSE Cardinality(Senders(l))
    BY SendersMove DEF QueueInv, Places
  <1>3. PermitsConserved'
    BY <1>2, SendersNat DEF QueueInv, TypeOK, PermitsConserved, One
  <1>4. RingConsistent'
    BY DEF QueueInv, RingConsistent
  <1>5. RequestsPresent' /\ PermitIsRequest'
    BY DEF QueueInv, TypeOK, RequestsPresent, PermitIsRequest, Goto, Request
  <1>6. QED
    BY <1>1, <1>3, <1>4, <1>5 DEF QueueInv

(* A sender that times out held no entry. *)
LEMMA TimedOutInv ==
  ASSUME QueueInv, NEW s \in Slots, TimedOut(s)
  PROVE  QueueInv'
  <1> USE DEF TimedOut, At
  <1>1. TypeOK'
    BY QueueBounds, SendersNat DEF QueueInv, TypeOK, Goto, Request, PermitsConserved
  <1>2. \A l \in {"enqueue", "post"} :
          Cardinality(Senders(l))' =
            IF l = "loop" THEN Cardinality(Senders(l)) + 1
            ELSE IF l = pc[s] THEN Cardinality(Senders(l)) - 1
            ELSE Cardinality(Senders(l))
    BY SendersMove DEF QueueInv, Places
  <1>3. PermitsConserved'
    BY <1>2, SendersNat DEF QueueInv, TypeOK, PermitsConserved, One
  <1>4. RingConsistent'
    BY DEF QueueInv, RingConsistent
  <1>5. RequestsPresent' /\ PermitIsRequest'
    BY DEF QueueInv, TypeOK, RequestsPresent, PermitIsRequest, Goto, Request
  <1>6. QED
    BY <1>1, <1>3, <1>4, <1>5 DEF QueueInv

(* The sender hands its used entry over to the semaphore. *)
LEMMA PostFilledInv ==
  ASSUME QueueInv, NEW s \in Slots, PostFilled(s)
  PROVE  QueueInv'
  <1> USE DEF PostFilled, At
  <1>1. TypeOK'
    BY QueueBounds, SendersNat DEF QueueInv, TypeOK, Goto, Request, PermitsConserved
  <1>2. \A l \in {"enqueue", "post"} :
          Cardinality(Senders(l))' =
            IF l = "loop" THEN Cardinality(Senders(l)) + 1
            ELSE IF l = pc[s] THEN Cardinality(Senders(l)) - 1
            ELSE Cardinality(Senders(l))
    BY SendersMove DEF QueueInv, Places
  <1>3. PermitsConserved'
    BY <1>2, SendersNat DEF QueueInv, TypeOK, PermitsConserved, One
  <1>4. RingConsistent'
    BY DEF QueueInv, RingConsistent
  <1>5. RequestsPresent' /\ PermitIsRequest'
    BY DEF QueueInv, TypeOK, RequestsPresent, PermitIsRequest, Goto, Request
  <1>6. QED
    BY <1>1, <1>3, <1>4, <1>5 DEF QueueInv

(* A new request is complete before the sender asks for an entry. *)
LEMMA HandleFileTransferInv ==
  ASSUME QueueInv, NEW s \in Slots, NEW r \in Slots, NEW f \in Files,
         HandleFileTransfer(s, r, f)
  PROVE  QueueInv'
  <1> USE DEF HandleFileTransfer, At
  <1>1. TypeOK'
    BY QueueBounds, SendersNat DEF QueueInv, TypeOK, Goto, Request, PermitsConserved
  <1>2. \A l \in {"enqueue", "post"} :
          Cardinality(Senders(l))' =
            IF l = "trywait" THEN Cardinality(Senders(l)) + 1
            ELSE IF l = pc[s] THEN Cardinality(Senders(l)) - 1
            ELSE Cardinality(Senders(l))
    BY SendersMove DEF QueueInv, Places
  <1>3. PermitsConserved'
    BY <1>2, SendersNat DEF QueueInv, TypeOK, PermitsConserved, One
  <1>4. RingConsistent'
    BY DEF QueueInv, RingConsistent
  <1>5. RequestsPresent' /\ PermitIsRequest'
    BY DEF QueueInv, TypeOK, RequestsPresent, PermitIsRequest, Goto, Request
  <1>6. QED
    BY <1>1, <1>3, <1>4, <1>5 DEF QueueInv

(* The processor tests server_running. *)
LEMMA ProcLoopInv ==
  ASSUME QueueInv, ProcLoop
  PROVE  QueueInv'
  <1> USE DEF ProcLoop, ProcAt
  <1>1. TypeOK'
    BY QueueBounds, SendersNat DEF QueueInv, TypeOK, PermitsConserved, One
  <1>2. \A l : Senders(l)' = Senders(l)
    BY DEF Senders
  <1>3. PermitsConserved'
    BY <1>2, SendersNat DEF QueueInv, TypeOK, PermitsConserved, PermitIsRequest, One
  <1>4. RingConsistent'
    BY DEF QueueInv, RingConsistent
  <1>5. RequestsPresent' /\ PermitIsRequest'
    BY <1>2, SendersNat DEF QueueInv, TypeOK, RequestsPresent, PermitIsRequest, PermitsConserved, One
  <1>6. QED
    BY <1>1, <1>3, <1>4, <1>5 DEF QueueInv

(* The processor takes a permit. *)
LEMMA WaitFilledInv ==
  ASSUME QueueInv, WaitFilled
  PROVE  QueueInv'
  <1> USE DEF WaitFilled, ProcAt
  <1>1. TypeOK'
    BY QueueBounds, SendersNat DEF QueueInv, TypeOK, PermitsConserved, One
  <1>2. \A l : Senders(l)' = Senders(l)
    BY DEF Senders
  <1>3. PermitsConserved'
    BY <1>2, SendersNat DEF QueueInv, TypeOK, PermitsConserved, PermitIsRequest, One
  <1>4. RingConsistent'
    BY DEF QueueInv, RingConsistent
  <1>5. RequestsPresent' /\ PermitIsRequest'
    BY <1>2, SendersNat DEF QueueInv, TypeOK, RequestsPresent, PermitIsRequest, PermitsConserved, One
  <1>6. QED
    BY <1>1, <1>3, <1>4, <1>5 DEF QueueInv

(* A permit taken while the server runs stands for a request. *)
LEMMA CheckRunningInv ==
  ASSUME QueueInv, CheckRunning
  PROVE  QueueInv'
  <1> USE DEF CheckRunning, ProcAt
  <1>1. TypeOK'
    BY QueueBounds, SendersNat DEF QueueInv, TypeOK, PermitsConserved, One
  <1>2. \A l : Senders(l)' = Senders(l)
    BY DEF Senders
  <1>3. PermitsConserved'
    BY <1>2, SendersNat DEF QueueInv, TypeOK, PermitsConserved, PermitIsRequest, One
  <1>4. RingConsistent'
    BY DEF QueueInv, RingConsistent
  <1>5. RequestsPresent' /\ PermitIsRequest'
    BY <1>2, SendersNat DEF QueueInv, TypeOK, RequestsPresent, PermitIsRequest, PermitsConserved, One
  <1>6. QED
    BY <1>1, <1>3, <1>4, <1>5 DEF QueueInv

(* The released entry goes back to the semaphore. *)
LEMMA PostEmptyInv ==
  ASSUME QueueInv, PostEmpty
  PROVE  QueueInv'
  <1> USE DEF PostEmpty, ProcAt
  <1>1. TypeOK'
    BY QueueBounds, SendersNat DEF QueueInv, TypeOK, PermitsConserved, One
  <1>2. \A l : Senders(l)' = Senders(l)
    BY DEF Senders
  <1>3. PermitsConserved'
    BY <1>2, SendersNat DEF QueueInv, TypeOK, PermitsConserved, PermitIsRequest, One
  <1>4. RingConsistent'
    BY DEF QueueInv, RingConsistent
  <1>5. RequestsPresent' /\ PermitIsRequest'
    BY <1>2, SendersNat DEF QueueInv, TypeOK, RequestsPresent, PermitIsRequest, PermitsConserved, One
  <1>6. QED
    BY <1>1, <1>3, <1>4, <1>5 DEF QueueInv

(* A transfer starts. *)
LEMMA StartTransferInv ==
  ASSUME QueueInv, StartTransfer
  PROVE  QueueInv'
  <1> USE DEF StartTransfer, ProcAt
  <1>1. TypeOK'
    BY QueueBounds, SendersNat DEF QueueInv, TypeOK, PermitsConserved, One
  <1>2. \A l : Senders(l)' = Senders(l)
    BY DEF Senders
  <1>3. PermitsConserved'
    BY <1>2, SendersNat DEF QueueInv, TypeOK, PermitsConserved, PermitIsRequest, One
  <1>4. RingConsistent'
    BY DEF QueueInv, RingConsistent
  <1>5. RequestsPresent' /\ PermitIsRequest'
    BY <1>2, SendersNat DEF QueueInv, TypeOK, RequestsPresent, PermitIsRequest, PermitsConserved, One
  <1>6. QED
    BY <1>1, <1>3, <1>4, <1>5 DEF QueueInv

(* A transfer ends; only the receiver entry changes. *)
LEMMA DeliverInv ==
  ASSUME QueueInv, Deliver
  PROVE  QueueInv'
  <1> USE DEF Deliver, ProcAt
  <1>1. TypeOK'
    BY QueueBounds, SendersNat DEF QueueInv, TypeOK, PermitsConserved, One, RequestsPresent, Request
  <1>2. \A l : Senders(l)' = Senders(l)
    BY DEF Senders
  <1>3. PermitsConserved'
    BY <1>2, SendersNat DEF QueueInv, TypeOK, PermitsConserved, PermitIsRequest, One
  <1>4. RingConsistent'
    BY DEF QueueInv, RingConsistent
  <1>5. RequestsPresent' /\ PermitIsRequest'
    BY <1>2, SendersNat DEF QueueInv, TypeOK, RequestsPresent, PermitIsRequest, PermitsConserved, One
  <1>6. QED
    BY <1>1, <1>3, <1>4, <1>5 DEF QueueInv

(* SIGINT clears server_running before any extra post. *)
LEMMA HandleSigintInv ==
  ASSUME QueueInv, HandleSigint
  PROVE  QueueInv'
  <1> USE DEF HandleSigint, ProcAt
  <1>1. TypeOK'
    BY QueueBounds, SendersNat DEF QueueInv, TypeOK, PermitsConserved, One
  <1>2. \A l : Senders(l)' = Senders(l)
    BY DEF Senders
  <1>3. PermitsConserved'
    BY <1>2, SendersNat DEF QueueInv, TypeOK, PermitsConserved, PermitIsRequest, One
  <1>4. RingConsistent'
    BY DEF QueueInv, RingConsistent
  <1>5. RequestsPresent' /\ PermitIsRequest'
    BY <1>2, SendersNat DEF QueueInv, TypeOK, RequestsPresent, PermitIsRequest, PermitsConserved, One
  <1>6. QED
    BY <1>1, <1>3, <1>4, <1>5 DEF QueueInv

(* The extra post of shutdown_server is accounted for. *)
LEMMA WakeProcessorInv ==
  ASSUME QueueInv, WakeProcessor
  PROVE  QueueInv'
  <1> USE DEF WakeProcessor, ProcAt
  <1>1. TypeOK'
    BY QueueBounds, SendersNat DEF QueueInv, TypeOK, PermitsConserved, One
  <1>2. \A l : Senders(l)' = Senders(l)
    BY DEF Senders
  <1>3. PermitsConserved'
    BY <1>2, SendersNat DEF QueueInv, TypeOK, PermitsConserved, PermitIsRequest, One
  <1>4. RingConsistent'
    BY DEF QueueInv, RingConsistent
  <1>5. RequestsPresent' /\ PermitIsRequest'
    BY <1>2, SendersNat DEF QueueInv, TypeOK, RequestsPresent, PermitIsRequest, PermitsConserved, One
  <1>6. QED
    BY <1>1, <1>3, <1>4, <1>5 DEF QueueInv

(* The processor has ended. *)
LEMMA JoinProcessorInv ==
  ASSUME QueueInv, JoinProcessor
  PROVE  QueueInv'
  <1> USE DEF JoinProcessor, ProcAt
  <1>1. TypeOK'
    BY QueueBounds, SendersNat DEF QueueInv, TypeOK, PermitsConserved, One
  <1>2. \A l : Senders(l)' = Senders(l)
    BY DEF Senders
  <1>3. PermitsConserved'
    BY <1>2, SendersNat DEF QueueInv, TypeOK, PermitsConserved, PermitIsRequest, One
  <1>4. RingConsistent'
    BY DEF QueueInv, RingConsistent
  <1>5. RequestsPresent' /\ PermitIsRequest'
    BY <1>2, SendersNat DEF QueueInv, TypeOK, RequestsPresent, PermitIsRequest, PermitsConserved, One
  <1>6. QED
    BY <1>1, <1>3, <1>4, <1>5 DEF QueueInv

(* Every client is closed. *)
LEMMA DeactivateClientsInv ==
  ASSUME QueueInv, DeactivateClients
  PROVE  QueueInv'
  <1> USE DEF DeactivateClients, ProcAt
  <1>1. TypeOK'
    BY QueueBounds, SendersNat DEF QueueInv, TypeOK, PermitsConserved, One
  <1>2. \A l : Senders(l)' = Senders(l)
    BY DEF Senders
  <1>3. PermitsConserved'
    BY <1>2, SendersNat DEF QueueInv, TypeOK, PermitsConserved, PermitIsRequest, One
  <1>4. RingConsistent'
    BY DEF QueueInv, RingConsistent
  <1>5. RequestsPresent' /\ PermitIsRequest'
    BY <1>2, SendersNat DEF QueueInv, TypeOK, RequestsPresent, PermitIsRequest, PermitsConserved, One
  <1>6. QED
    BY <1>1, <1>3, <1>4, <1>5 DEF QueueInv

(* An entry is taken at once or the sender waits. *)
LEMMA TryWaitInv ==
  ASSUME QueueInv, NEW s \in Slots, TryWait(s)
  PROVE  QueueInv'
  <1> USE DEF TryWait, At
  <1>1. CASE empty_slots > 0
    <2>1. TypeOK'
      BY <1>1, QueueBounds, SendersNat DEF QueueInv, TypeOK, Goto, Request, PermitsConserved
    <2>2. \A l \in {"enqueue", "post"} :
            Cardinality(Senders(l))' =
              IF l = "enqueue" THEN Cardinality(Senders(l)) + 1
              ELSE IF l = pc[s] THEN Cardinality(Senders(l)) - 1
              ELSE Cardinality(Senders(l))
      BY <1>1, SendersMove DEF QueueInv, Places
    <2>3. PermitsConserved'
      BY <1>1, <2>2, SendersNat DEF QueueInv, TypeOK, PermitsConserved, One
    <2>4. RingConsistent'
      BY <1>1 DEF QueueInv, RingConsistent
    <2>5. RequestsPresent' /\ PermitIsRequest'
      BY <1>1 DEF QueueInv, TypeOK, RequestsPresent, PermitIsRequest, Goto, Request
    <2>6. QED
      BY <1>1, <2>1, <2>3, <2>4, <2>5 DEF QueueInv
  <1>2. CASE ~(empty_slots > 0)
    <2>1. TypeOK'
      BY <1>2, QueueBounds, SendersNat DEF QueueInv, TypeOK, Goto, Request, PermitsConserved
    <2>2. \A l \in {"enqueue", "post"} :
            Cardinality(Senders(l))' =
              IF l = "timedwait" THEN Cardinality(Senders(l)) + 1
              ELSE IF l = pc[s] THEN Cardinality(Senders(l)) - 1
              ELSE Cardinality(Senders(l))
      BY <1>2, SendersMove DEF QueueInv, Places
    <2>3. PermitsConserved'
      BY <1>2, <2>2, SendersNat DEF QueueInv, TypeOK, PermitsConserved, One
    <2>4. RingConsistent'
      BY <1>2 DEF QueueInv, RingConsistent
    <2>5. RequestsPresent' /\ PermitIsRequest'
      BY <1>2 DEF QueueInv, TypeOK, RequestsPresent, PermitIsRequest, Goto, Request
    <2>6. QED
      BY <1>2, <2>1, <2>3, <2>4, <2>5 DEF QueueInv
  <1>3. QED
    BY <1>1, <1>2

(* The request is written behind the used entries, into a free one: an entry *)
(* that is held by the sender cannot be among the queue_size used ones.      *)
LEMMA EnqueueInv ==
  ASSUME QueueInv, NEW s \in Slots, Enqueue(s)
  PROVE  QueueInv'
  <1> USE DEF Enqueue, At
  <1>1. queue_size < MaxFileQueue
    BY SendersNat DEF QueueInv, TypeOK, PermitsConserved, One
  <1>2. TypeOK'
    <2>1. queue_tail' \in Index
      BY NextIndex DEF QueueInv, TypeOK
    <2>2. queue_size' \in 0 .. MaxFileQueue
      BY <1>1, QueueBounds DEF QueueInv, TypeOK
    <2>3. file_queue' \in [Index -> Entry]
      BY DEF QueueInv, TypeOK, RequestsPresent, Entry
    <2>4. pc' \in [Slots -> {"offline", "loop", "trywait", "timedwait", "enqueue", "post"}]
          /\ req' \in [Slots -> Request \cup {NoRequest}]
      BY DEF QueueInv, TypeOK, Goto
    <2>5. QED
      BY <2>1, <2>2, <2>3, <2>4 DEF QueueInv, TypeOK
  <1>3. \A l \in {"enqueue", "post"} :
          Cardinality(Senders(l))' =
            IF l = "post" THEN Cardinality(Senders(l)) + 1
            ELSE IF l = pc[s] THEN Cardinality(Senders(l)) - 1
            ELSE Cardinality(Senders(l))
    BY SendersMove DEF QueueInv, Places
  <1>4. PermitsConserved'
    <2>1. /\ Cardinality(Senders("enqueue"))' = Cardinality(Senders("enqueue")) - 1
          /\ Cardinality(Senders("post"))' = Cardinality(Senders("post")) + 1
      BY <1>3
    <2>2. Cardinality(Senders("enqueue")) \in Nat /\ Cardinality(Senders("post")) \in Nat
      BY SendersNat
    <2>3. /\ empty_slots \in Int /\ filled_slots \in Int /\ queue_size \in Int
          /\ MaxFileQueue \in Int
      BY QueueBounds DEF QueueInv, TypeOK
    <2>4. /\ queue_size' = queue_size + 1
          /\ UNCHANGED <<empty_slots, filled_slots, proc, main>>
      OBVIOUS
    <2>5. QED
      BY <2>1, <2>2, <2>3, <2>4 DEF QueueInv, PermitsConserved, One
  <1>5. RingConsistent'
    <2>1. queue_head \in Index /\ queue_tail \in Index /\ queue_size \in 0 .. MaxFileQueue
      BY DEF QueueInv, TypeOK
    <2>2. queue_tail = IF queue_head + queue_size < MaxFileQueue
                       THEN queue_head + queue_size
                       ELSE queue_head + queue_size - MaxFileQueue
      BY <2>1, Place DEF QueueInv, RingConsistent
    <2>3. queue_tail' = (queue_head + (queue_size + 1)) % MaxFileQueue
      <3>1. queue_size + 1 \in 0 .. MaxFileQueue
        BY <1>1, <2>1, QueueBounds
      <3>2. (queue_head + (queue_size + 1)) % MaxFileQueue =
              IF queue_head + (queue_size + 1) < MaxFileQueue
              THEN queue_head + (queue_size + 1)
              ELSE queue_head + (queue_size + 1) - MaxFileQueue
        BY <2>1, <3>1, Place
      <3>3. queue_tail' = IF queue_tail + 1 = MaxFileQueue THEN 0 ELSE queue_tail + 1
        BY <2>1, NextIndex
      <3>4. QED
        BY <1>1, <2>1, <2>2, <3>2, <3>3, QueueBounds DEF Index
    <2>4. ASSUME NEW i \in Index
          PROVE  file_queue'[i].active <=> (i - queue_head) % MaxFileQueue < queue_size + 1
      <3>1. (i - queue_head) % MaxFileQueue =
              IF queue_head <= i THEN i - queue_head ELSE i - queue_head + MaxFileQueue
        BY <2>1, Distance
      <3>2. CASE i = queue_tail
        <4>1. file_queue'[i].active
          BY <2>1, <3>2 DEF QueueInv, TypeOK
        <4>2. (i - queue_head) % MaxFileQueue = queue_size
          BY <1>1, <2>1, <2>2, <3>1, <3>2, QueueBounds DEF Index
        <4>3. QED
          BY <2>1, <4>1, <4>2
      <3>3. CASE i # queue_tail
        <4>1. file_queue'[i] = file_queue[i]
          BY <3>3 DEF QueueInv, TypeOK
        <4>2. file_queue[i].active <=> (i - queue_head) % MaxFileQueue < queue_size
          BY DEF QueueInv, RingConsistent
        <4>3. (i - queue_head) % MaxFileQueue # queue_size
          BY <1>1, <2>1, <2>2, <3>1, <3>3, QueueBounds DEF Index
        <4>4. (i - queue_head) % MaxFileQueue \in Int
          BY <2>1, <3>1, QueueBounds DEF Index
        <4>5. QED
          BY <2>1, <4>1, <4>2, <4>3, <4>4
      <3>4. QED
        BY <3>2, <3>3
    <2>5. QED
      BY <2>1, <2>3, <2>4 DEF RingConsistent
  <1>6. RequestsPresent'
    BY DEF QueueInv, TypeOK, RequestsPresent, Goto
  <1>7. PermitIsRequest'
    BY DEF QueueInv, TypeOK, PermitIsRequest
  <1>8. QED
    BY <1>2, <1>4, <1>5, <1>6, <1>7 DEF QueueInv

(* The entry at the head is used, so a request is taken and the entry freed. *)
LEMMA DequeueInv ==
  ASSUME QueueInv, Dequeue
  PROVE  QueueInv'
  <1> USE DEF Dequeue, ProcAt
  <1>1. /\ queue_head \in Index /\ queue_size \in 0 .. MaxFileQueue /\ queue_size > 0
        /\ file_queue \in [Index -> Entry]
    BY DEF QueueInv, TypeOK, PermitIsRequest
  <1>2. file_queue[queue_head].active
    <2>1. (queue_head - queue_head) % MaxFileQueue = 0
      BY <1>1, Distance DEF Index
    <2>2. QED
      BY <1>1, <2>1 DEF QueueInv, RingConsistent
  <1>3. request' \in Request
    BY <1>1, <1>2 DEF QueueInv, RequestsPresent
  <1>4. queue_head' \in Index
        /\ queue_head' = IF queue_head + 1 = MaxFileQueue THEN 0 ELSE queue_head + 1
    BY <1>1, NextIndex
  <1>5. TypeOK'
    <2>1. queue_size' \in 0 .. MaxFileQueue
      BY <1>1, QueueBounds
    <2>2. file_queue' \in [Index -> Entry]
      BY <1>1 DEF Entry
    <2>3. QED
      BY <1>3, <1>4, <2>1, <2>2 DEF QueueInv, TypeOK
  <1>6. PermitsConserved'
    <2>1. \A l : Senders(l)' = Senders(l)
      BY DEF Senders
    <2>2. QED
      BY <1>1, <2>1, SendersNat DEF QueueInv, TypeOK, PermitsConserved, One
  <1>7. RingConsistent'
    <2>1. queue_tail' = (queue_head' + queue_size') % MaxFileQueue
      <3>1. queue_tail = IF queue_head + queue_size < MaxFileQueue
                         THEN queue_head + queue_size
                         ELSE queue_head + queue_size - MaxFileQueue
        BY <1>1, Place DEF QueueInv, RingConsistent
      <3>2. queue_size' \in 0 .. MaxFileQueue
        BY <1>1, QueueBounds
      <3>3. (queue_head' + queue_size') % MaxFileQueue =
              IF queue_head' + queue_size' < MaxFileQueue
              THEN queue_head' + queue_size'
              ELSE queue_head' + queue_size' - MaxFileQueue
        BY <1>4, <3>2, Place
      <3>4. QED
        <4>1. queue_tail' = queue_tail /\ queue_size' = queue_size - 1
          OBVIOUS
        <4>2. queue_head \in Int /\ queue_size \in Int /\ MaxFileQueue \in Nat \ {0}
              /\ 0 <= queue_head /\ queue_head < MaxFileQueue
              /\ 0 < queue_size /\ queue_size <= MaxFileQueue
          BY <1>1, QueueBounds DEF Index
        <4>3. CASE queue_head + 1 = MaxFileQueue
          BY <1>4, <3>1, <3>3, <4>1, <4>2, <4>3
        <4>4. CASE queue_head + 1 # MaxFileQueue
          BY <1>4, <3>1, <3>3, <4>1, <4>2, <4>4
        <4>5. QED
          BY <4>3, <4>4
    <2>2. ASSUME NEW i \in Index
          PROVE  file_queue'[i].active <=> (i - queue_head') % MaxFileQueue < queue_size'
      <3>1. (i - queue_head) % MaxFileQueue =
              IF queue_head <= i THEN i - queue_head ELSE i - queue_head + MaxFileQueue
        BY <1>1, Distance
      <3>2. (i - queue_head') % MaxFileQueue =
              IF queue_head' <= i THEN i - queue_head' ELSE i - queue_head' + MaxFileQueue
        BY <1>4, Distance
      <3>3. CASE i = queue_head
        <4>1. ~file_queue'[i].active
          BY <1>1, <3>3 DEF Entry
        <4>2. (i - queue_head') % MaxFileQueue = MaxFileQueue - 1
          BY SMTT(30), <1>1, <1>4, <3>2, <3>3, QueueBounds DEF Index
        <4>3. QED
          BY <1>1, <4>1, <4>2, QueueBounds
      <3>4. CASE i # queue_head
        <4>1. file_queue'[i] = file_queue[i]
          BY <1>1, <3>4
        <4>2. file_queue[i].active <=> (i - queue_head) % MaxFileQueue < queue_size
          BY DEF QueueInv, RingConsistent
        <4>3. (i - queue_head) % MaxFileQueue < queue_size
                <=> (i - queue_head') % MaxFileQueue < queue_size - 1
          <5>1. i \in Int /\ queue_head \in Int /\ queue_size \in Int
                /\ MaxFileQueue \in Nat \ {0}
                /\ 0 <= i /\ i < MaxFileQueue /\ 0 <= queue_head /\ queue_head < MaxFileQueue
            BY <1>1, QueueBounds DEF Index
          <5>2. CASE queue_head + 1 = MaxFileQueue
            <6>1. (i - queue_head) % MaxFileQueue = i + 1
              BY <3>1, <3>4, <5>1, <5>2
            <6>2. (i - queue_head') % MaxFileQueue = i
              BY <1>4, <3>2, <5>1, <5>2
            <6>3. QED
              BY <5>1, <6>1, <6>2
          <5>3. CASE queue_head + 1 # MaxFileQueue
            BY <1>4, <3>1, <3>2, <3>4, <5>1, <5>3
          <5>4. QED
            BY <5>2, <5>3
        <4>4. QED
          BY <4>1, <4>2, <4>3
      <3>5. QED
        BY <3>3, <3>4
    <2>3. QED
      BY <2>1, <2>2 DEF RingConsistent
  <1>8. RequestsPresent'
    BY <1>1, <1>3 DEF QueueInv, RequestsPresent, Entry
  <1>9. PermitIsRequest'
    BY DEF QueueInv, PermitIsRequest
  <1>10. QED
    BY <1>5, <1>6, <1>7, <1>8, <1>9 DEF QueueInv

-----------------------------------------------------------------------------
(* Every step of the queue keeps the inductive invariant. *)
LEMMA QueueInvNext == QueueInv /\ [Next]_vars => QueueInv'
  <1> SUFFICES ASSUME QueueInv, [Next]_vars PROVE QueueInv'
    OBVIOUS
  <1>1. CASE \E s \in Slots : Connect(s) \/ Disconnect(s) \/ SenderStep(s)
    BY <1>1, ConnectInv, DisconnectInv, TryWaitInv, TimedWaitInv, TimedOutInv,
       EnqueueInv, PostFilledInv DEF SenderStep
  <1>2. CASE \E s, r \in Slots, f \in Files : HandleFileTransfer(s, r, f)
    BY <1>2, HandleFileTransferInv
  <1>3. CASE ProcessorStep
    BY <1>3, ProcLoopInv, WaitFilledInv, CheckRunningInv, DequeueInv, PostEmptyInv,
       StartTransferInv, DeliverInv DEF ProcessorStep
  <1>4. CASE HandleSigint \/ ShutdownStep
    BY <1>4, HandleSigintInv, WakeProcessorInv, JoinProcessorInv, DeactivateClientsInv
    DEF ShutdownStep
  <1>5. CASE UNCHANGED vars
    <2> USE <1>5 DEF vars
    <2>1. TypeOK'
      BY DEF QueueInv, TypeOK
    <2>2. \A l : Senders(l)' = Senders(l)
      BY DEF Senders
    <2>3. PermitsConserved' /\ RingConsistent'
      BY <2>2 DEF QueueInv, PermitsConserved, RingConsistent
    <2>4. RequestsPresent' /\ PermitIsRequest'
      BY DEF QueueInv, RequestsPresent, PermitIsRequest
    <2>5. QED
      BY <2>1, <2>3, <2>4 DEF QueueInv
  <1>6. QED
    BY <1>1, <1>2, <1>3, <1>4, <1>5 DEF Next, Quiet

(* The queue is typed, its semaphores and its ring agree and its requests   *)
(* are where the threads expect them, in every reachable state              *)
(* (server.c:779-865).                                                      *)
THEOREM QueueInvariant == Spec => []QueueInv
  BY QueueInvInit, QueueInvNext, PTL DEF Spec

(* Types, with queue_size and empty_slots within MAX_FILE_QUEUE. *)
THEOREM QueueTyped == Spec => []TypeOK
  <1>1. QueueInv => TypeOK
    BY DEF QueueInv
  <1>2. QED
    BY <1>1, QueueInvariant, PTL

(* The semaphores account for every entry of the ring (server.c:779-865). *)
THEOREM QueuePermits == Spec => []PermitsConserved
  <1>1. QueueInv => PermitsConserved
    BY DEF QueueInv
  <1>2. QED
    BY <1>1, QueueInvariant, PTL

(* The active entries are those between the indexes (server.c:793-849). *)
THEOREM QueueRing == Spec => []RingConsistent
  <1>1. QueueInv => RingConsistent
    BY DEF QueueInv
  <1>2. QED
    BY <1>1, QueueInvariant, PTL

(* No waiting request is overwritten and no empty entry is taken, whatever  *)
(* the number of senders and whenever SIGINT comes (server.c:784-798,       *)
(* 838-845).                                                                *)
THEOREM QueueLosesNothing == Spec => []NothingLost
  <1>1. QueueInv => NothingLost
    <2> SUFFICES ASSUME QueueInv PROVE NothingLost
      OBVIOUS
    <2>1. queue_head \in Index /\ queue_tail \in Index /\ queue_size \in 0 .. MaxFileQueue
      BY DEF QueueInv, TypeOK
    <2>2. ASSUME Senders("enqueue") # {} PROVE ~file_queue[queue_tail].active
      <3>1. queue_size < MaxFileQueue
        <4>1. PICK s \in Slots : pc[s] = "enqueue"
          BY <2>2 DEF Senders
        <4>2. Cardinality(Senders("enqueue")) \in Nat \ {0}
          BY <4>1, SendersNat
        <4>3. empty_slots \in Nat /\ queue_size \in Nat /\ MaxFileQueue \in Nat
          BY QueueBounds DEF QueueInv, TypeOK
        <4>4. One(proc = "post") \in Nat
          BY DEF One
        <4>5. empty_slots + queue_size + Cardinality(Senders("enqueue")) + One(proc = "post")
                = MaxFileQueue
          BY DEF QueueInv, PermitsConserved
        <4>6. QED
          BY <4>2, <4>3, <4>4, <4>5
      <3>2. queue_tail = IF queue_head + queue_size < MaxFileQueue
                         THEN queue_head + queue_size
                         ELSE queue_head + queue_size - MaxFileQueue
        BY <2>1, Place DEF QueueInv, RingConsistent
      <3>3. (queue_tail - queue_head) % MaxFileQueue = queue_size
        BY <2>1, <3>1, <3>2, Distance, QueueBounds DEF Index
      <3>4. QED
        BY <2>1, <3>3 DEF QueueInv, RingConsistent
    <2>3. ASSUME proc = "dequeue" PROVE file_queue[queue_head].active
      <3>1. (queue_head - queue_head) % MaxFileQueue = 0
        BY <2>1, Distance DEF Index
      <3>2. QED
        BY <2>1, <2>3, <3>1 DEF QueueInv, RingConsistent, PermitIsRequest
    <2>4. QED
      BY <2>2, <2>3 DEF NothingLost
  <1>2. QED
    BY <1>1, QueueInvariant, PTL
-----------------------------------------------------------------------------
(* The k-th entry behind the head; different places are different entries. *)
LEMMA PlacesDiffer ==
  ASSUME NEW h \in Index, NEW j \in 0 .. MaxFileQueue - 1, NEW k \in 0 .. MaxFileQueue - 1,
         j # k
  PROVE  (h + j) % MaxFileQueue # (h + k) % MaxFileQueue
  <1>1. /\ MaxFileQueue \in Nat \ {0} /\ j \in 0 .. MaxFileQueue /\ k \in 0 .. MaxFileQueue
        /\ h \in Int /\ 0 <= h /\ h < MaxFileQueue
    BY QueueBounds DEF Index
  <1>2. (h + j) % MaxFileQueue = IF h + j < MaxFileQueue THEN h + j ELSE h + j - MaxFileQueue
    BY <1>1, Place
  <1>3. (h + k) % MaxFileQueue = IF h + k < MaxFileQueue THEN h + k ELSE h + k - MaxFileQueue
    BY <1>1, Place
  <1>4. QED
    BY <1>1, <1>2, <1>3

(* The waiting requests are a sequence of queue_size requests. *)
LEMMA WaitingIsSeq ==
  ASSUME QueueInv
  PROVE  /\ Waiting \in Seq(Request \cup {NoRequest}) /\ Len(Waiting) = queue_size
         /\ \A i \in 1 .. queue_size :
              Waiting[i] = file_queue[(queue_head + (i - 1)) % MaxFileQueue].r
  <1>1. queue_size \in Nat /\ queue_size <= MaxFileQueue /\ queue_head \in Index
        /\ MaxFileQueue \in Nat
    BY QueueBounds DEF QueueInv, TypeOK
  <1>2. ASSUME NEW i \in 1 .. queue_size
        PROVE  /\ file_queue[(queue_head + i - 1) % MaxFileQueue].r \in Request \cup {NoRequest}
               /\ queue_head + i - 1 = queue_head + (i - 1)
    <2>1. i - 1 \in 0 .. MaxFileQueue
      BY <1>1
    <2>2. (queue_head + (i - 1)) % MaxFileQueue \in Index
      BY <1>1, <2>1, Place
    <2>3. queue_head + (i - 1) = queue_head + i - 1
      BY <1>1, <2>1, QueueBounds DEF Index
    <2>4. file_queue[(queue_head + i - 1) % MaxFileQueue] \in Entry
      BY <2>2, <2>3 DEF QueueInv, TypeOK
    <2>5. QED
      BY <2>3, <2>4 DEF Entry
  <1>3. QED
    BY <1>1, <1>2 DEF Waiting

LEMMA WaitingIsSeqNext ==
  (QueueInv => /\ Waiting \in Seq(Request \cup {NoRequest}) /\ Len(Waiting) = queue_size
               /\ \A i \in 1 .. queue_size :
                    Waiting[i] = file_queue[(queue_head + (i - 1)) % MaxFileQueue].r)'
  <1>1. QueueInv => /\ Waiting \in Seq(Request \cup {NoRequest}) /\ Len(Waiting) = queue_size
                    /\ \A i \in 1 .. queue_size :
                         Waiting[i] = file_queue[(queue_head + (i - 1)) % MaxFileQueue].r
    BY WaitingIsSeq
  <1>2. QED
    BY <1>1, PTL

(* Enqueue appends its request to the waiting ones: the entry it writes is  *)
(* behind all of theirs.                                                    *)
LEMMA EnqueuePuts ==
  ASSUME QueueInv, QueueInv', NEW s \in Slots, Enqueue(s)
  PROVE  Fifo!Put(req[s]) /\ req[s] \in Request
  <1>1. queue_size < MaxFileQueue /\ queue_size \in Nat /\ queue_head \in Index
    BY SendersNat DEF QueueInv, TypeOK, PermitsConserved, One, Enqueue, At
  <1>2. req[s] \in Request
    BY DEF QueueInv, RequestsPresent, Enqueue, At
  <1> DEFINE W == Append(Waiting, req[s])
  <1>3. /\ W \in Seq(Request \cup {NoRequest}) /\ Len(W) = queue_size + 1
        /\ \A i \in 1 .. queue_size : W[i] = Waiting[i]
        /\ W[queue_size + 1] = req[s]
    BY <1>2, WaitingIsSeq, AppendProperties
  <1>4. /\ queue_size' = queue_size + 1 /\ queue_head' = queue_head
        /\ file_queue' = [file_queue EXCEPT ![queue_tail] = [active |-> TRUE, r |-> req[s]]]
    BY DEF Enqueue
  <1>5. /\ Waiting' \in Seq(Request \cup {NoRequest}) /\ Len(Waiting') = queue_size + 1
        /\ \A i \in 1 .. queue_size + 1 :
             Waiting'[i] = file_queue'[(queue_head + (i - 1)) % MaxFileQueue].r
    BY <1>4, WaitingIsSeqNext
  <1>6. ASSUME NEW i \in 1 .. queue_size + 1 PROVE Waiting'[i] = W[i]
    <2>1. queue_tail = (queue_head + queue_size) % MaxFileQueue /\ queue_tail \in Index
      BY DEF QueueInv, RingConsistent, TypeOK
    <2>2. CASE i = queue_size + 1
      BY SMTT(30), <1>1, <1>3, <1>4, <1>5, <2>1, <2>2 DEF QueueInv, TypeOK
    <2>3. CASE i # queue_size + 1
      <3>1. i \in 1 .. queue_size /\ i - 1 \in 0 .. MaxFileQueue - 1
            /\ queue_size \in 0 .. MaxFileQueue - 1 /\ i - 1 # queue_size
        BY <1>1, <2>3, QueueBounds
      <3>2. (queue_head + (i - 1)) % MaxFileQueue # queue_tail
        BY <1>1, <2>1, <3>1, PlacesDiffer
      <3>3. i - 1 \in 0 .. MaxFileQueue
        BY <3>1, QueueBounds
      <3>4. (queue_head + (i - 1)) % MaxFileQueue \in Index
        BY <1>1, <3>3, Place
      <3>5. file_queue'[(queue_head + (i - 1)) % MaxFileQueue]
              = file_queue[(queue_head + (i - 1)) % MaxFileQueue]
        BY <1>4, <3>2, <3>4 DEF QueueInv, TypeOK
      <3>6. QED
        BY <1>3, <1>5, <3>1, <3>5, WaitingIsSeq
    <2>4. QED
      BY <2>2, <2>3
  <1>7. Waiting' = W
    BY <1>3, <1>5, <1>6, SeqEqual
  <1>8. Len(Waiting) < MaxFileQueue
    BY <1>1, WaitingIsSeq
  <1>9. QED
    BY <1>2, <1>7, <1>8 DEF Fifo!Put, Enqueue

(* Dequeue takes the oldest of them. *)
LEMMA DequeueTakes ==
  ASSUME QueueInv, QueueInv', Dequeue
  PROVE  Fifo!Take
  <1>1. /\ queue_size > 0 /\ queue_size \in 0 .. MaxFileQueue /\ queue_head \in Index
        /\ request = NoRequest
    BY DEF QueueInv, TypeOK, PermitIsRequest, RequestsPresent, Dequeue, ProcAt
  <1>2. Waiting # <<>>
    BY <1>1, WaitingIsSeq, QueueBounds
  <1>3. /\ Tail(Waiting) \in Seq(Request \cup {NoRequest})
        /\ Len(Tail(Waiting)) = queue_size - 1
        /\ \A i \in 1 .. queue_size - 1 : Tail(Waiting)[i] = Waiting[i + 1]
    BY <1>2, WaitingIsSeq, HeadTailProperties
  <1>4. /\ queue_size' = queue_size - 1
        /\ queue_head' = (queue_head + 1) % MaxFileQueue
        /\ file_queue' = [file_queue EXCEPT ![queue_head].active = FALSE]
        /\ request' = file_queue[queue_head].r
    BY DEF Dequeue
  <1>5. /\ Waiting' \in Seq(Request \cup {NoRequest}) /\ Len(Waiting') = queue_size - 1
        /\ \A i \in 1 .. queue_size - 1 :
             Waiting'[i] = file_queue'[(queue_head' + (i - 1)) % MaxFileQueue].r
    BY <1>4, WaitingIsSeqNext
  <1>6. ASSUME NEW i \in 1 .. queue_size - 1 PROVE Waiting'[i] = Tail(Waiting)[i]
    <2>1. /\ i \in Nat /\ i >= 1 /\ i < MaxFileQueue /\ i + 1 \in 1 .. queue_size
          /\ i \in 0 .. MaxFileQueue /\ i - 1 \in 0 .. MaxFileQueue
          /\ MaxFileQueue \in Nat \ {0}
          /\ queue_head \in Int /\ 0 <= queue_head /\ queue_head < MaxFileQueue
      BY <1>1, QueueBounds DEF Index
    <2>2. queue_head' \in Index
          /\ queue_head' = IF queue_head + 1 = MaxFileQueue THEN 0 ELSE queue_head + 1
      BY <1>1, <1>4, NextIndex
    <2> DEFINE h == queue_head'
    <2> HIDE DEF h
    <2>3. (h + (i - 1)) % MaxFileQueue =
            IF h + (i - 1) < MaxFileQueue THEN h + (i - 1) ELSE h + (i - 1) - MaxFileQueue
      BY <2>1, <2>2, Place DEF h
    <2>4. (queue_head + i) % MaxFileQueue \in Index
          /\ (queue_head + i) % MaxFileQueue =
               IF queue_head + i < MaxFileQueue THEN queue_head + i
               ELSE queue_head + i - MaxFileQueue
      BY <1>1, <2>1, Place
    <2>5. (h + (i - 1)) % MaxFileQueue = (queue_head + i) % MaxFileQueue
      <3>1. h \in Int /\ h = IF queue_head + 1 = MaxFileQueue THEN 0 ELSE queue_head + 1
        BY <2>1, <2>2 DEF h, Index
      <3>2. QED
        BY <2>1, <2>3, <2>4, <3>1
    <2>6. (queue_head + i) % MaxFileQueue # queue_head
      BY <2>1, <2>4
    <2>7. file_queue'[(queue_head + i) % MaxFileQueue] = file_queue[(queue_head + i) % MaxFileQueue]
      BY <1>4, <2>4, <2>6 DEF QueueInv, TypeOK
    <2>8. Waiting[i + 1] = file_queue[(queue_head + i) % MaxFileQueue].r
      <3>1. (i + 1) - 1 = i
        BY <2>1
      <3>2. QED
        BY <2>1, <3>1, WaitingIsSeq
    <2>9. QED
      BY <1>3, <1>5, <2>5, <2>7, <2>8 DEF h
  <1>7. Waiting' = Tail(Waiting)
    BY <1>3, <1>5, <1>6, SeqEqual
  <1>8. request' = Head(Waiting)
    <2>1. Waiting[1] = file_queue[(queue_head + 0) % MaxFileQueue].r
      BY <1>1, WaitingIsSeq, QueueBounds
    <2>2. (queue_head + 0) % MaxFileQueue = queue_head
      BY <1>1, ModSmall, QueueBounds DEF Index
    <2>3. Head(Waiting) = Waiting[1]
      BY <1>2, WaitingIsSeq
    <2>4. QED
      BY <1>4, <2>1, <2>2, <2>3
  <1>9. QED
    BY <1>1, <1>2, <1>7, <1>8 DEF Fifo!Take

(* The steps that the abstract queue does not see. *)
LEMMA OtherStepsStutter ==
  ASSUME [Next]_vars, ~Dequeue, ~Deliver, \A s \in Slots : ~Enqueue(s)
  PROVE  UNCHANGED <<Waiting, request>>
  <1>1. UNCHANGED <<file_queue, queue_head, queue_size, request>>
    BY DEF Next, Quiet, vars, SenderStep, ProcessorStep, ShutdownStep, Connect, Disconnect,
           HandleFileTransfer, TryWait, TimedWait, TimedOut, PostFilled, ProcLoop,
           WaitFilled, CheckRunning, PostEmpty, StartTransfer, HandleSigint,
           WakeProcessor, JoinProcessor, DeactivateClients
  <1>2. QED
    BY <1>1 DEF Waiting

(* The queue of semaphores, indexes and flags is a bounded first-in         *)
(* first-out queue that is served one request at a time                     *)
(* (server.c:779-865).                                                      *)
THEOREM QueueIsFifo == Spec => ImplementsFifo
  <1>1. Init => Fifo!Init
    BY DEF Init, Fifo!Init, Waiting
  <1>2. QueueInv /\ QueueInv' /\ [Next]_vars => [Fifo!Next]_<<Waiting, request>>
    <2> SUFFICES ASSUME QueueInv, QueueInv', [Next]_vars
                 PROVE  [Fifo!Next]_<<Waiting, request>>
      OBVIOUS
    <2>1. ASSUME NEW s \in Slots, Enqueue(s) PROVE Fifo!Next
      BY <2>1, EnqueuePuts DEF Fifo!Next
    <2>2. CASE Dequeue
      BY <2>2, DequeueTakes DEF Fifo!Next
    <2>3. CASE Deliver
      <3>1. request \in Request /\ request' = NoRequest
        BY <2>3 DEF Deliver, ProcAt, QueueInv, RequestsPresent
      <3>2. Waiting' = Waiting
        BY <2>3 DEF Deliver, Waiting
      <3>3. QED
        BY <3>1, <3>2, NoRequestIsNone DEF Fifo!Next, Fifo!Finish
    <2>4. QED
      BY <2>1, <2>2, <2>3, OtherStepsStutter
  <1>3. QED
    BY <1>1, <1>2, QueueInvariant, PTL DEF Spec, ImplementsFifo, Fifo!Spec
=============================================================================
