--------------------------- MODULE LogSearchProofs ---------------------------
(* Proofs about the bounded buffer of the log search, for any capacity, any  *)
(* number of workers and any log file, with SIGINT and spurious wake-ups.    *)
EXTENDS LogSearch, FiniteSetTheorems, WellFoundedInduction, TLAPS

-----------------------------------------------------------------------------
(* Remainders, for the indexes of the buffer. *)
LEMMA ModSmall ==
  ASSUME NEW n \in Nat \ {0}, NEW a \in Int, 0 <= a, a < n
  PROVE  a % n = a
  BY Z3

LEMMA ModWrap ==
  ASSUME NEW n \in Nat \ {0}, NEW a \in Int, n <= a, a < 2 * n
  PROVE  a % n = a - n
  BY Z3

(* The place k steps behind h, for k up to the capacity. *)
LEMMA Place ==
  ASSUME NEW h \in Index, NEW k \in 0 .. Capacity
  PROVE  /\ (h + k) % Capacity \in Index
         /\ (h + k) % Capacity = IF h + k < Capacity THEN h + k ELSE h + k - Capacity
  <1>1. CASE h + k < Capacity
    <2> DEFINE a == h + k
    <2>1. a \in Int /\ 0 <= a /\ a < Capacity
      BY <1>1, SearchBounds DEF Index
    <2> HIDE DEF a
    <2>2. a % Capacity = a
      BY <2>1, SearchBounds, ModSmall
    <2>3. QED
      BY <1>1, <2>1, <2>2, SearchBounds DEF Index, a
  <1>2. CASE ~(h + k < Capacity)
    <2> DEFINE a == h + k
    <2>1. a \in Int /\ Capacity <= a /\ a < 2 * Capacity
      BY <1>2, SearchBounds DEF Index
    <2> HIDE DEF a
    <2>2. a % Capacity = a - Capacity
      BY <2>1, SearchBounds, ModWrap
    <2>3. QED
      BY <1>2, <2>1, <2>2, SearchBounds DEF Index, a
  <1>3. QED
    BY <1>1, <1>2

LEMMA IndexNat ==
  /\ Capacity \in Nat /\ Capacity > 0
  /\ \A i \in Index : i \in Nat /\ i < Capacity
  BY SearchBounds DEF Index

(* Different threads have different names. *)
LEMMA Names ==
  /\ Main \in Threads /\ Manager \in Threads /\ Main # Manager
  /\ Workers \subseteq Threads /\ Main \notin Workers /\ Manager \notin Workers
  BY DEF Main, Manager, Workers, Threads

(* The workers about to take a line are counted. *)
LEMMA AboutFinite ==
  IsFiniteSet(AboutToGet) /\ Cardinality(AboutToGet) \in Nat
  <1>1. IsFiniteSet(Workers)
    BY SearchBounds, FS_Interval DEF Workers
  <1>2. IsFiniteSet(AboutToGet)
    BY <1>1, FS_Subset DEF AboutToGet
  <1>3. QED
    BY <1>2, FS_CardinalityType

(* They become no fewer when none of them leaves, *)
LEMMA AboutKept ==
  ASSUME AboutToGet \subseteq AboutToGet'
  PROVE  Cardinality(AboutToGet) <= Cardinality(AboutToGet)'
  <1>1. IsFiniteSet(AboutToGet)'
    <2>1. IsFiniteSet(Workers)
      BY SearchBounds, FS_Interval DEF Workers
    <2>2. QED
      BY <2>1, FS_Subset DEF AboutToGet
  <1>2. QED
    BY <1>1, FS_Subset

(* one more when one more comes, *)
LEMMA AboutGrows ==
  ASSUME NEW w \in Workers, w \notin AboutToGet, w \in AboutToGet',
         AboutToGet \subseteq AboutToGet'
  PROVE  Cardinality(AboutToGet) + 1 <= Cardinality(AboutToGet)'
  <1>1. IsFiniteSet(AboutToGet)'
    <2>1. IsFiniteSet(Workers)
      BY SearchBounds, FS_Interval DEF Workers
    <2>2. QED
      BY <2>1, FS_Subset DEF AboutToGet
  <1>2. Cardinality(AboutToGet \cup {w}) = Cardinality(AboutToGet) + 1
    BY AboutFinite, FS_AddElement
  <1>3. AboutToGet \cup {w} \subseteq AboutToGet'
    OBVIOUS
  <1>4. Cardinality(AboutToGet \cup {w}) <= Cardinality(AboutToGet)'
    BY <1>1, <1>3, FS_Subset
  <1>5. QED
    BY <1>2, <1>4

(* and one fewer at most when only one leaves. *)
LEMMA AboutShrinks ==
  ASSUME NEW w \in Workers, w \in AboutToGet, AboutToGet' = AboutToGet \ {w}
  PROVE  Cardinality(AboutToGet)' = Cardinality(AboutToGet) - 1
  BY AboutFinite, FS_RemoveElement
-----------------------------------------------------------------------------
(* The tuples the actions leave unchanged. *)
USE DEF ring, waits, flag, signal, counts

LEMMA BufferInvInit == Init => BufferInv
  <1> SUFFICES ASSUME Init PROVE BufferInv
    OBVIOUS
  <1> USE DEF Init
  <1>1. TypeOK
    <2>1. pc \in [Threads -> Places] /\ pc[Main] = "manager"
          /\ \A t \in Threads : t # Main => pc[t] = "none"
      BY Names DEF Places, MainPlaces, ManagerPlaces
    <2>2. pc[Main] \in MainPlaces /\ pc[Manager] \in ManagerPlaces
          /\ \A w \in Workers : pc[w] \in WorkerPlaces
      BY <2>1, Names DEF MainPlaces, ManagerPlaces, WorkerPlaces
    <2>3. lines \in [Index -> 0 .. NumLines] /\ head \in Index /\ tail \in Index
          /\ size \in 0 .. Capacity /\ next \in 0 .. NumLines
      BY SearchBounds DEF Index
    <2>4. eof \in BOOLEAN /\ running \in BOOLEAN
          /\ running_mutex \in Threads \cup {Nobody}
          /\ interrupted \in Threads \cup {Nobody}
          /\ still_running \in [Threads -> BOOLEAN]
      BY Zenon
    <2>5. local_matches \in [Workers -> Nat] /\ matches \in [Workers -> Nat]
      OBVIOUS
    <2>6. signals \in 0 .. 1 /\ not_full \subseteq {Manager} /\ not_empty \subseteq Workers
      OBVIOUS
    <2>7. QED
      BY <2>1, <2>2, <2>3, <2>4, <2>5, <2>6, Zenon DEF TypeOK
  <1>2. RingHoldsLines
    <2>1. PutSoFar = 0
      BY Names DEF PutSoFar
    <2>2. (head + size) % Capacity = 0
      BY SearchBounds, Place DEF Index
    <2>3. QED
      BY <2>1, <2>2 DEF RingHoldsLines, Index
  <1>3. NoLostWakeup /\ WaitersWait
    <2>1. pc[Manager] = "none"
      BY Names
    <2>2. QED
      BY <2>1 DEF NoLostWakeup, WaitersWait
  <1>4. QED
    BY <1>1, <1>2, <1>3 DEF BufferInv

(* A step that touches neither the buffer nor the waiting threads, and takes *)
(* no worker that is about to take a line elsewhere, preserves the invariant. *)
LEMMA Elsewhere ==
  ASSUME BufferInv, TypeOK', UNCHANGED <<ring, waits>>,
         PutSoFar' = PutSoFar,
         not_empty # {} => \A w \in Workers : pc[w] = "get" => pc'[w] = "get",
         not_full # {} => pc'[Manager] = "put",
         pc'[Manager] = "put" => next' > 0,
         pc'[Manager] = "done" <=> pc[Manager] = "done",
         pc'[Main] = "manager" => pc'[Manager] = "none"
  PROVE  BufferInv'
  <1>1. RingHoldsLines'
    BY DEF BufferInv, RingHoldsLines
  <1>2. not_empty # {} => Cardinality(AboutToGet) <= Cardinality(AboutToGet)'
    <2> SUFFICES ASSUME not_empty # {}
                 PROVE  Cardinality(AboutToGet) <= Cardinality(AboutToGet)'
      OBVIOUS
    <2>1. AboutToGet \subseteq AboutToGet'
      BY DEF AboutToGet
    <2>2. QED
      BY <2>1, AboutKept
  <1>3. Cardinality(AboutToGet) \in Nat /\ Cardinality(AboutToGet)' \in Nat
    <2>1. IsFiniteSet(Workers)
      BY SearchBounds, FS_Interval DEF Workers
    <2>2. IsFiniteSet(AboutToGet)'
      BY <2>1, FS_Subset DEF AboutToGet
    <2>3. QED
      BY <2>2, AboutFinite, FS_CardinalityType
  <1>4. NoLostWakeup'
    BY <1>2, <1>3 DEF BufferInv, NoLostWakeup, TypeOK
  <1>5. WaitersWait'
    BY DEF BufferInv, WaitersWait, TypeOK
  <1>6. QED
    BY <1>1, <1>4, <1>5 DEF BufferInv

-----------------------------------------------------------------------------
(* Every thread is at a place of its own program. *)
PcTyped ==
  /\ pc \in [Threads -> Places]
  /\ pc[Main] \in MainPlaces /\ pc[Manager] \in ManagerPlaces
  /\ \A w \in Workers : pc[w] \in WorkerPlaces

LEMMA GotoTyped ==
  ASSUME PcTyped, NEW t \in Threads, NEW l \in Places, Goto(t, l),
         t = Main => l \in MainPlaces, t = Manager => l \in ManagerPlaces,
         t \in Workers => l \in WorkerPlaces
  PROVE  PcTyped' /\ pc'[t] = l /\ \A u \in Threads : u # t => pc'[u] = pc[u]
  BY Names DEF PcTyped, Goto

(* The running flag is read. *)
LEMMA CheckLockInv ==
  ASSUME BufferInv, NEW t \in Threads, t # Main, CheckLock(t)
  PROVE  BufferInv'
  <1> USE DEF CheckLock, At
  <1>1. PcTyped' /\ pc'[t] = "checked" /\ \A u \in Threads : u # t => pc'[u] = pc[u]
    BY GotoTyped, Names
       DEF BufferInv, TypeOK, PcTyped, Places, MainPlaces, ManagerPlaces, WorkerPlaces, Threads
  <1>2. TypeOK'
    <2>1. still_running' \in [Threads -> BOOLEAN]
      BY Zenon DEF BufferInv, TypeOK
    <2>2. QED
      BY <1>1, <2>1 DEF BufferInv, TypeOK, PcTyped
  <1>3. PutSoFar' = PutSoFar
    BY <1>1, Names DEF PutSoFar
  <1>4. QED
    BY <1>1, <1>2, <1>3, Names, Elsewhere DEF BufferInv, WaitersWait

LEMMA CheckUnlockInv ==
  ASSUME BufferInv, NEW t \in Threads, t # Main, CheckUnlock(t)
  PROVE  BufferInv'
  <1> USE DEF CheckUnlock, At
  <1>1. PICK l \in {"read", "eof", "get", "barrier"} :
          /\ Goto(t, l)
          /\ t = Manager => l \in {"read", "eof"}
          /\ t # Manager => l \in {"get", "barrier"}
    OBVIOUS
  <1>2. PcTyped' /\ pc'[t] = l /\ \A u \in Threads : u # t => pc'[u] = pc[u]
    BY <1>1, GotoTyped, Names
       DEF BufferInv, TypeOK, PcTyped, Places, MainPlaces, ManagerPlaces, WorkerPlaces, Threads
  <1>3. TypeOK'
    <2>1. matches' \in [Workers -> Nat]
      BY Names DEF BufferInv, TypeOK, Threads
    <2>2. QED
      BY <1>2, <2>1 DEF BufferInv, TypeOK, PcTyped
  <1>4. PutSoFar' = PutSoFar
    BY <1>1, <1>2, Names DEF PutSoFar
  <1>5. QED
    BY <1>1, <1>2, <1>3, <1>4, Names, Elsewhere DEF BufferInv, WaitersWait

(* The log file is opened, or not. *)
LEMMA OpenInv ==
  ASSUME BufferInv, Open
  PROVE  BufferInv'
  <1> USE DEF Open, At
  <1>1. PICK l \in {"check", "eof"} : Goto(Manager, l)
    OBVIOUS
  <1>2. PcTyped' /\ pc'[Manager] = l /\ \A u \in Threads : u # Manager => pc'[u] = pc[u]
    BY <1>1, GotoTyped, Names DEF BufferInv, TypeOK, PcTyped, Places, ManagerPlaces
  <1>3. TypeOK'
    BY <1>2 DEF BufferInv, TypeOK, PcTyped
  <1>4. PutSoFar' = PutSoFar
    BY <1>1, <1>2, Names DEF PutSoFar
  <1>5. QED
    BY <1>1, <1>2, <1>3, <1>4, Names, Elsewhere DEF BufferInv, WaitersWait

(* A line read is not yet a line put. *)
LEMMA ReadLineInv ==
  ASSUME BufferInv, ReadLine
  PROVE  BufferInv'
  <1> USE DEF ReadLine, At
  <1>1. PICK l \in {"put", "eof"} :
          Goto(Manager, l) /\ next' = IF l = "put" THEN next + 1 ELSE next
    OBVIOUS
  <1>2. PcTyped' /\ pc'[Manager] = l /\ \A u \in Threads : u # Manager => pc'[u] = pc[u]
    BY <1>1, GotoTyped, Names DEF BufferInv, TypeOK, PcTyped, Places, ManagerPlaces
  <1>3. next' \in 0 .. NumLines
    BY SearchBounds DEF BufferInv, TypeOK
  <1>4. TypeOK'
    BY <1>2, <1>3 DEF BufferInv, TypeOK, PcTyped
  <1>5. PutSoFar' = PutSoFar
    BY <1>1, <1>2 DEF PutSoFar, BufferInv, TypeOK
  <1>6. pc'[Manager] = "put" => next' > 0
    BY <1>1, <1>2 DEF BufferInv, TypeOK
  <1>7. QED
    BY <1>1, <1>2, <1>4, <1>5, <1>6, Names, Elsewhere DEF BufferInv, WaitersWait

(* A worker leaves an empty buffer after end of file, when nobody waits. *)
LEMMA GetEndInv ==
  ASSUME BufferInv, NEW w \in Workers, GetEnd(w)
  PROVE  BufferInv'
  <1> USE DEF GetEnd, At
  <1>1. PcTyped' /\ pc'[w] = "barrier" /\ \A u \in Threads : u # w => pc'[u] = pc[u]
    BY GotoTyped, Names DEF BufferInv, TypeOK, PcTyped, Places, WorkerPlaces
  <1>2. TypeOK'
    <2>1. matches' \in [Workers -> Nat]
      BY DEF BufferInv, TypeOK
    <2>2. QED
      BY <1>1, <2>1 DEF BufferInv, TypeOK, PcTyped
  <1>3. PutSoFar' = PutSoFar
    BY <1>1, Names DEF PutSoFar
  <1>4. not_empty = {}
    BY DEF BufferInv, NoLostWakeup
  <1>5. QED
    BY <1>1, <1>2, <1>3, <1>4, Names, Elsewhere DEF BufferInv, WaitersWait

(* The barriers and the total are for workers that no longer take lines. *)
LEMMA BarrierInv ==
  ASSUME BufferInv, Barrier
  PROVE  BufferInv'
  <1> USE DEF Barrier, At
  <1>1. /\ pc' \in [Threads -> Places]
        /\ pc'[Main] = pc[Main] /\ pc'[Manager] = pc[Manager]
        /\ \A w \in Workers : pc'[w] = "report" /\ pc[w] = "barrier"
    BY Names DEF BufferInv, TypeOK, Places, WorkerPlaces
  <1>2. TypeOK'
    BY <1>1 DEF BufferInv, TypeOK, WorkerPlaces
  <1>3. PutSoFar' = PutSoFar
    BY <1>1 DEF PutSoFar
  <1>4. QED
    BY <1>1, <1>2, <1>3, Names, Elsewhere DEF BufferInv, WaitersWait

LEMMA Barrier2Inv ==
  ASSUME BufferInv, NEW w \in Workers, Barrier2(w)
  PROVE  BufferInv'
  <1> USE DEF Barrier2, At
  <1>1. /\ pc' \in [Threads -> Places]
        /\ pc'[Main] = pc[Main] /\ pc'[Manager] = pc[Manager]
        /\ \A v \in Workers : pc'[v] \in {"total", "done"} /\ pc[v] = "report"
    BY Names DEF BufferInv, TypeOK, Places, WorkerPlaces
  <1>2. TypeOK'
    BY <1>1 DEF BufferInv, TypeOK, WorkerPlaces
  <1>3. PutSoFar' = PutSoFar
    BY <1>1 DEF PutSoFar
  <1>4. QED
    BY <1>1, <1>2, <1>3, Names, Elsewhere DEF BufferInv, WaitersWait

LEMMA TotalInv ==
  ASSUME BufferInv, NEW w \in Workers, Total(w)
  PROVE  BufferInv'
  <1> USE DEF Total, At
  <1>1. PcTyped' /\ pc'[w] = "done" /\ \A u \in Threads : u # w => pc'[u] = pc[u]
    BY GotoTyped, Names DEF BufferInv, TypeOK, PcTyped, Places, WorkerPlaces
  <1>2. TypeOK'
    BY <1>1 DEF BufferInv, TypeOK, PcTyped
  <1>3. PutSoFar' = PutSoFar
    BY <1>1, Names DEF PutSoFar
  <1>4. QED
    BY <1>1, <1>2, <1>3, Names, Elsewhere DEF BufferInv, WaitersWait

(* main starts threads and waits for them. *)
LEMMA StartManagerInv ==
  ASSUME BufferInv, StartManager
  PROVE  BufferInv'
  <1> USE DEF StartManager, At
  <1>1. /\ pc' \in [Threads -> Places]
        /\ pc'[Main] = "spawn" /\ pc'[Manager] = "open"
        /\ \A w \in Workers : pc'[w] = pc[w]
    BY Names DEF BufferInv, TypeOK, Places, MainPlaces, ManagerPlaces
  <1>2. TypeOK'
    BY <1>1 DEF BufferInv, TypeOK, MainPlaces, ManagerPlaces
  <1>3. PutSoFar' = PutSoFar
    BY <1>1 DEF PutSoFar, BufferInv, WaitersWait
  <1>4. QED
    BY <1>1, <1>2, <1>3, Names, Elsewhere DEF BufferInv, WaitersWait

LEMMA StartWorkerInv ==
  ASSUME BufferInv, NEW w \in Workers, StartWorker(w)
  PROVE  BufferInv'
  <1> USE DEF StartWorker, At, NextWorker
  <1>1. /\ pc' \in [Threads -> Places]
        /\ pc'[Main] \in {"joinmanager", "spawn"} /\ pc'[Manager] = pc[Manager]
        /\ pc'[w] = "check" /\ \A v \in Workers : v # w => pc'[v] = pc[v]
    BY Names DEF BufferInv, TypeOK, Places, MainPlaces, WorkerPlaces
  <1>2. TypeOK'
    BY <1>1 DEF BufferInv, TypeOK, MainPlaces, WorkerPlaces
  <1>3. PutSoFar' = PutSoFar
    BY <1>1 DEF PutSoFar
  <1>4. QED
    BY <1>1, <1>2, <1>3, Names, Elsewhere DEF BufferInv, WaitersWait

LEMMA MainMovesInv ==
  ASSUME BufferInv, SpawnFails \/ StopSpawning \/ JoinManager \/ JoinWorkers
  PROVE  BufferInv'
  <1> USE DEF SpawnFails, StopSpawning, JoinManager, JoinWorkers, At
  <1>1. PICK l \in {"stop", "joinmanager", "joinworkers", "exited"} : Goto(Main, l)
    OBVIOUS
  <1>2. PcTyped' /\ pc'[Main] = l /\ \A u \in Threads : u # Main => pc'[u] = pc[u]
    BY <1>1, GotoTyped, Names DEF BufferInv, TypeOK, PcTyped, Places, MainPlaces
  <1>3. TypeOK'
    BY <1>2, Names DEF BufferInv, TypeOK, PcTyped
  <1>4. PutSoFar' = PutSoFar
    BY <1>2, Names DEF PutSoFar
  <1>5. QED
    BY <1>2, <1>3, <1>4, Names, Elsewhere DEF BufferInv, WaitersWait

(* A signal moves no thread. *)
LEMMA SignalInv ==
  ASSUME BufferInv, HandleSigint \/ \E t \in Threads : Interrupt(t)
  PROVE  BufferInv'
  <1> USE DEF HandleSigint, Interrupt
  <1>1. TypeOK'
    <2>1. running' \in BOOLEAN /\ interrupted' \in Threads \cup {Nobody}
      BY Zenon DEF BufferInv, TypeOK
    <2>2. signals' \in 0 .. 1
      BY DEF BufferInv, TypeOK
    <2>3. UNCHANGED <<ring, waits, pc, next, running_mutex, still_running,
                      local_matches, matches>>
      OBVIOUS
    <2>4. QED
      BY <2>2, <2>1, <2>3, Zenon DEF BufferInv, TypeOK
  <1>2. PutSoFar' = PutSoFar
    BY DEF PutSoFar
  <1>3. QED
    BY <1>1, <1>2, Names, Elsewhere DEF BufferInv, WaitersWait

-----------------------------------------------------------------------------
(* The steps on the buffer. *)

(* The number of waiting lines that a worker is ready for, once a thread has *)
(* been woken or moved. *)
LEMMA AboutNat ==
  Cardinality(AboutToGet)' \in Nat
  <1>1. IsFiniteSet(Workers)
    BY SearchBounds, FS_Interval DEF Workers
  <1>2. IsFiniteSet(AboutToGet)'
    BY <1>1, FS_Subset DEF AboutToGet
  <1>3. QED
    BY <1>2, FS_CardinalityType

(* The manager waits on a full buffer. *)
LEMMA PutWaitInv ==
  ASSUME BufferInv, PutWait
  PROVE  BufferInv'
  <1> USE DEF PutWait, At
  <1>1. TypeOK'
    BY DEF BufferInv, TypeOK
  <1>2. RingHoldsLines'
    BY DEF BufferInv, RingHoldsLines, PutSoFar
  <1>3. NoLostWakeup'
    <2>1. AboutToGet' = AboutToGet
      BY DEF AboutToGet
    <2>2. QED
      BY <2>1 DEF BufferInv, NoLostWakeup
  <1>4. WaitersWait'
    BY DEF BufferInv, WaitersWait
  <1>5. QED
    BY <1>1, <1>2, <1>3, <1>4 DEF BufferInv

(* End of file: everybody is woken. *)
LEMMA SetEofInv ==
  ASSUME BufferInv, SetEof
  PROVE  BufferInv'
  <1> USE DEF SetEof, At
  <1>1. PcTyped' /\ pc'[Manager] = "done" /\ \A u \in Threads : u # Manager => pc'[u] = pc[u]
    BY GotoTyped, Names DEF BufferInv, TypeOK, PcTyped, Places, ManagerPlaces
  <1>2. TypeOK'
    BY <1>1 DEF BufferInv, TypeOK, PcTyped
  <1>3. RingHoldsLines'
    BY <1>1 DEF BufferInv, RingHoldsLines, PutSoFar
  <1>4. NoLostWakeup'
    BY DEF NoLostWakeup
  <1>5. WaitersWait'
    BY <1>1, Names DEF BufferInv, WaitersWait
  <1>6. QED
    BY <1>2, <1>3, <1>4, <1>5 DEF BufferInv

(* A worker waits on an empty buffer. *)
LEMMA GetWaitInv ==
  ASSUME BufferInv, NEW w \in Workers, GetWait(w)
  PROVE  BufferInv'
  <1> USE DEF GetWait, At
  <1>1. TypeOK'
    BY DEF BufferInv, TypeOK
  <1>2. RingHoldsLines'
    BY DEF BufferInv, RingHoldsLines, PutSoFar
  <1>3. NoLostWakeup'
    BY AboutNat DEF BufferInv, NoLostWakeup
  <1>4. WaitersWait'
    BY DEF BufferInv, WaitersWait
  <1>5. QED
    BY <1>1, <1>2, <1>3, <1>4 DEF BufferInv

(* A spurious wake-up only adds to the workers about to take a line. *)
LEMMA SpuriousWakeupInv ==
  ASSUME BufferInv, NEW t \in Threads, SpuriousWakeup(t)
  PROVE  BufferInv'
  <1> USE DEF SpuriousWakeup
  <1>1. TypeOK'
    BY DEF BufferInv, TypeOK
  <1>2. RingHoldsLines'
    BY DEF BufferInv, RingHoldsLines, PutSoFar
  <1>3. NoLostWakeup'
    <2>1. AboutToGet \subseteq AboutToGet'
      BY DEF AboutToGet
    <2>2. Cardinality(AboutToGet) <= Cardinality(AboutToGet)'
      BY <2>1, AboutKept
    <2>3. QED
      BY <2>2, AboutNat, AboutFinite DEF BufferInv, NoLostWakeup, TypeOK
  <1>4. WaitersWait'
    BY DEF BufferInv, WaitersWait
  <1>5. QED
    BY <1>1, <1>2, <1>3, <1>4 DEF BufferInv

(* A line is put behind the others, and a waiting worker is woken for it. *)
LEMMA PutInv ==
  ASSUME BufferInv, Put
  PROVE  BufferInv'
  <1> USE DEF Put, At
  <1>1. PcTyped' /\ pc'[Manager] = "check" /\ \A u \in Threads : u # Manager => pc'[u] = pc[u]
    BY GotoTyped, Names DEF BufferInv, TypeOK, PcTyped, Places, ManagerPlaces
  <1>2. ~eof /\ size < Capacity /\ not_full = {}
    BY DEF BufferInv, WaitersWait, TypeOK
  <1>3. /\ lines' = [lines EXCEPT ![tail] = next]
        /\ tail' = (tail + 1) % Capacity
        /\ size' = size + 1 /\ UNCHANGED <<head, eof, not_full, next>>
        /\ Wakes(not_empty, not_empty')
    BY <1>2
  <1>4. not_empty' \subseteq not_empty
    BY <1>3 DEF Wakes
  <1>5. TypeOK'
    <2>1. tail' \in Index
      BY <1>3, Place, SearchBounds DEF BufferInv, TypeOK, Index
    <2>2. size' \in 0 .. Capacity
      BY <1>2, <1>3, SearchBounds DEF BufferInv, TypeOK
    <2>3. lines' \in [Index -> 0 .. NumLines]
      BY <1>3 DEF BufferInv, TypeOK
    <2>4. QED
      BY <1>1, <1>3, <1>4, <2>1, <2>2, <2>3 DEF BufferInv, TypeOK, PcTyped
  <1>6. PutSoFar = next - 1 /\ PutSoFar' = next
    BY <1>1, <1>3 DEF PutSoFar
  <1>7. RingHoldsLines'
    <2>1. size' <= PutSoFar'
      BY <1>3, <1>6 DEF BufferInv, RingHoldsLines, TypeOK
    <2>2. tail' = (head' + size') % Capacity
      <3>1. tail = IF head + size < Capacity THEN head + size ELSE head + size - Capacity
        BY Place DEF BufferInv, TypeOK, RingHoldsLines
      <3>2. tail' = IF tail + 1 < Capacity THEN tail + 1 ELSE tail + 1 - Capacity
        BY <1>3, Place, SearchBounds DEF BufferInv, TypeOK, Index
      <3>3. (head' + size') % Capacity =
              IF head + size + 1 < Capacity THEN head + size + 1
              ELSE head + size + 1 - Capacity
        <4>1. head \in Index /\ size \in Nat /\ size + 1 \in 0 .. Capacity
              /\ head' = head /\ size' = size + 1
          BY <1>2, <1>3, SearchBounds DEF BufferInv, TypeOK
        <4>2. (head + (size + 1)) % Capacity =
                IF head + (size + 1) < Capacity THEN head + (size + 1)
                ELSE head + (size + 1) - Capacity
          BY <4>1, Place
        <4>3. head + (size + 1) = head + size + 1
          BY <4>1, IndexNat
        <4>4. QED
          BY <4>1, <4>2, <4>3, IndexNat
      <3>4. QED
        BY <1>2, <3>1, <3>2, <3>3, SearchBounds DEF BufferInv, TypeOK, Index
    <2>3. ASSUME NEW i \in Index, i < size'
          PROVE  lines'[(head' + i) % Capacity] = PutSoFar' - size' + i + 1
      <3>1. CASE i = size
        BY <1>3, <1>6, <3>1 DEF BufferInv, TypeOK, RingHoldsLines
      <3>2. CASE i < size
        <4> head \in Index /\ size \in 0 .. Capacity /\ i \in 0 .. Capacity
          BY SearchBounds DEF BufferInv, TypeOK, Index
        <4>1. (head + i) % Capacity = IF head + i < Capacity THEN head + i
                                      ELSE head + i - Capacity
          BY Place
        <4>2. tail = IF head + size < Capacity THEN head + size ELSE head + size - Capacity
          BY Place DEF BufferInv, RingHoldsLines
        <4>3. (head + i) % Capacity # tail
          BY <1>2, <3>2, <4>1, <4>2, IndexNat
        <4>4. (head + i) % Capacity \in Index
          BY Place
        <4>5. lines[(head + i) % Capacity] = PutSoFar - size + i + 1
          BY <3>2 DEF BufferInv, RingHoldsLines
        <4>6. lines'[(head' + i) % Capacity] = lines[(head + i) % Capacity]
          BY <1>3, <4>3, <4>4 DEF BufferInv, TypeOK
        <4>7. QED
          BY <1>3, <1>6, <4>5, <4>6 DEF BufferInv, TypeOK, Index
      <3>3. QED
        BY <1>3, <2>3, <3>1, <3>2 DEF BufferInv, TypeOK, Index
    <2>4. QED
      BY <2>1, <2>2, <2>3 DEF RingHoldsLines
  <1>8. NoLostWakeup'
    <2>1. not_empty' # {} => size' <= Cardinality(AboutToGet)'
      <3> SUFFICES ASSUME not_empty' # {}
                   PROVE  size' <= Cardinality(AboutToGet)'
        OBVIOUS
      <3>1. not_empty # {}
        BY <1>4
      <3>2. PICK w \in not_empty : not_empty' = not_empty \ {w}
        BY <1>3, <3>1 DEF Wakes
      <3>3. w \in Workers /\ w \notin AboutToGet /\ w \in AboutToGet'
        BY <1>1, <3>2, Names DEF BufferInv, TypeOK, WaitersWait, AboutToGet
      <3>4. AboutToGet \subseteq AboutToGet'
        BY <1>1, <3>2, Names DEF AboutToGet
      <3>5. Cardinality(AboutToGet) + 1 <= Cardinality(AboutToGet)'
        BY <3>3, <3>4, AboutGrows
      <3>6. QED
        BY <1>3, <3>1, <3>5, AboutFinite, AboutNat DEF BufferInv, NoLostWakeup, TypeOK
    <2>2. QED
      BY <1>2, <1>3, <2>1 DEF NoLostWakeup
  <1>9. WaitersWait'
    BY <1>1, <1>2, <1>3, <1>4, Names DEF BufferInv, WaitersWait, TypeOK
  <1>10. QED
    BY <1>5, <1>7, <1>8, <1>9 DEF BufferInv

(* The first line is taken, and the manager is woken if it waits. *)
LEMMA GetLineInv ==
  ASSUME BufferInv, NEW w \in Workers, GetLine(w)
  PROVE  BufferInv'
  <1> USE DEF GetLine, At
  <1>1. PcTyped' /\ pc'[w] = "check" /\ \A u \in Threads : u # w => pc'[u] = pc[u]
    BY GotoTyped, Names DEF BufferInv, TypeOK, PcTyped, Places, WorkerPlaces
  <1>2. not_full' = {}
    BY DEF BufferInv, TypeOK, Wakes
  <1>3. PutSoFar' = PutSoFar /\ PutSoFar \in Int /\ PutSoFar <= NumLines
    BY <1>1, Names, SearchBounds DEF PutSoFar, BufferInv, TypeOK
  <1>4. lines[head] \in 1 .. NumLines
    <2>1. 0 \in Index /\ head \in Index /\ 0 < size
      BY SearchBounds DEF BufferInv, TypeOK, Index
    <2>2. (head + 0) % Capacity = head
      BY <2>1, SearchBounds, ModSmall DEF Index
    <2>3. lines[(head + 0) % Capacity] = PutSoFar - size + 0 + 1
      BY <2>1 DEF BufferInv, RingHoldsLines
    <2>4. lines[head] = PutSoFar - size + 1
      BY <1>3, <2>2, <2>3 DEF BufferInv, TypeOK
    <2>5. QED
      BY <1>3, <2>4, SearchBounds DEF BufferInv, TypeOK, RingHoldsLines
  <1>5. TypeOK'
    <2>1. head' \in Index
      BY Place, SearchBounds DEF BufferInv, TypeOK, Index
    <2>2. size' \in 0 .. Capacity
      BY SearchBounds DEF BufferInv, TypeOK
    <2>3. local_matches' \in [Workers -> Nat]
      <3>1. Matches[lines[head]] \in Nat
        BY <1>4, SearchBounds
      <3>2. QED
        BY <3>1 DEF BufferInv, TypeOK
    <2>4. QED
      BY <1>1, <1>2, <2>1, <2>2, <2>3 DEF BufferInv, TypeOK, PcTyped
  <1>6. RingHoldsLines'
    <2>1. head' = IF head + 1 < Capacity THEN head + 1 ELSE head + 1 - Capacity
      BY Place, SearchBounds DEF BufferInv, TypeOK, Index
    <2>2. ASSUME NEW i \in 0 .. Capacity, i + 1 <= Capacity
          PROVE  (head' + i) % Capacity = (head + (i + 1)) % Capacity
      <3>1. (head' + i) % Capacity = IF head' + i < Capacity THEN head' + i
                                     ELSE head' + i - Capacity
        BY <1>5, Place DEF TypeOK
      <3>2. (head + (i + 1)) % Capacity = IF head + (i + 1) < Capacity THEN head + (i + 1)
                                          ELSE head + (i + 1) - Capacity
        BY <2>2, Place, SearchBounds DEF BufferInv, TypeOK
      <3>3. head \in 0 .. Capacity - 1 /\ Capacity \in Nat
        BY SearchBounds DEF BufferInv, TypeOK, Index
      <3>4. CASE head + 1 < Capacity
        BY <2>1, <2>2, <3>1, <3>2, <3>3, <3>4
      <3>5. CASE ~(head + 1 < Capacity)
        <4>1. head' = 0 /\ head = Capacity - 1
          BY <2>1, <3>3, <3>5
        <4>2. (head' + i) % Capacity = IF i < Capacity THEN i ELSE i - Capacity
          BY <3>1, <3>3, <4>1
        <4>3. (head + (i + 1)) % Capacity = i
          BY <3>2, <3>3, <4>1
        <4>4. QED
          BY <2>2, <3>3, <4>2, <4>3
      <3>6. QED
        BY <3>4, <3>5
    <2>3. tail' = (head' + size') % Capacity
      <3>1. size' \in 0 .. Capacity /\ size' + 1 = size /\ size' + 1 <= Capacity
        BY SearchBounds DEF BufferInv, TypeOK
      <3>2. (head' + size') % Capacity = (head + (size' + 1)) % Capacity
        BY <2>2, <3>1
      <3>3. QED
        BY <3>1, <3>2 DEF BufferInv, RingHoldsLines
    <2>4. ASSUME NEW i \in Index, i < size'
          PROVE  lines'[(head' + i) % Capacity] = PutSoFar' - size' + i + 1
      <3>1. i + 1 \in Index /\ i + 1 < size /\ i \in 0 .. Capacity
        BY <2>4, SearchBounds DEF BufferInv, TypeOK, Index
      <3>2. lines[(head + (i + 1)) % Capacity] = PutSoFar - size + (i + 1) + 1
        BY <3>1 DEF BufferInv, RingHoldsLines
      <3>3. (head' + i) % Capacity = (head + (i + 1)) % Capacity
        BY <2>2, <3>1, SearchBounds DEF Index
      <3>4. QED
        BY <1>3, <3>2, <3>3 DEF BufferInv, TypeOK, Index
    <2>5. size' <= PutSoFar'
      BY <1>3 DEF BufferInv, TypeOK, RingHoldsLines
    <2>6. QED
      BY <2>3, <2>4, <2>5 DEF RingHoldsLines
  <1>7. NoLostWakeup'
    <2>1. w \in AboutToGet /\ AboutToGet' = AboutToGet \ {w}
      BY <1>1, Names DEF AboutToGet
    <2>2. Cardinality(AboutToGet)' = Cardinality(AboutToGet) - 1
      BY <2>1, AboutShrinks
    <2>3. QED
      BY <1>2, <2>2, AboutFinite DEF BufferInv, NoLostWakeup, TypeOK
  <1>8. WaitersWait'
    BY <1>1, <1>2, Names DEF BufferInv, WaitersWait, TypeOK
  <1>9. QED
    BY <1>5, <1>6, <1>7, <1>8 DEF BufferInv

-----------------------------------------------------------------------------
(* Every step preserves the invariant. *)
LEMMA BufferInvStep == BufferInv /\ [Next]_vars => BufferInv'
  <1> SUFFICES ASSUME BufferInv, [Next]_vars PROVE BufferInv'
    OBVIOUS
  <1>1. CASE ManagerStep
    BY <1>1, Names, CheckLockInv, CheckUnlockInv, OpenInv, ReadLineInv, PutWaitInv,
       PutInv, SetEofInv DEF ManagerStep
  <1>2. ASSUME NEW w \in Workers, WorkerStep(w) PROVE BufferInv'
    <2>1. w \in Threads /\ w # Main
      BY Names
    <2>2. QED
      BY <1>2, <2>1, CheckLockInv, CheckUnlockInv, GetWaitInv, GetLineInv, GetEndInv,
         BarrierInv, Barrier2Inv, TotalInv DEF WorkerStep
  <1>3. CASE MainStep \/ SpawnFails
    BY <1>3, StartManagerInv, StartWorkerInv, MainMovesInv DEF MainStep
  <1>4. CASE HandleSigint \/ \E t \in Threads : Interrupt(t)
    BY <1>4, SignalInv
  <1>5. ASSUME NEW t \in Threads, SpuriousWakeup(t) PROVE BufferInv'
    BY <1>5, SpuriousWakeupInv
  <1>6. CASE UNCHANGED vars
    BY <1>6 DEF vars, BufferInv, TypeOK, RingHoldsLines, PutSoFar, NoLostWakeup,
               AboutToGet, WaitersWait
  <1>7. QED
    BY <1>1, <1>2, <1>3, <1>4, <1>5, <1>6 DEF Next

(* The buffer's invariant holds in every reachable state (buffer.c:25-92). *)
THEOREM BufferInvariant == Spec => []BufferInv
  BY BufferInvInit, BufferInvStep, PTL DEF Spec

(* Every variable keeps its type; size stays within the capacity             *)
(* (buffer.c:39, 60).                                                        *)
THEOREM SearchTyped == Spec => []TypeOK
  <1>1. BufferInv => TypeOK
    BY DEF BufferInv
  <1>2. QED
    BY <1>1, BufferInvariant, PTL

(* The buffer holds the last lines put, in order (buffer.c:37-39, 58-60).    *)
THEOREM SearchRing == Spec => []RingHoldsLines
  <1>1. BufferInv => RingHoldsLines
    BY DEF BufferInv
  <1>2. QED
    BY <1>1, BufferInvariant, PTL

(* No wake-up is lost, with any number of workers, SIGINT in any of them and *)
(* spurious wake-ups (buffer.c:28-29, 41, 48-49, 62, 88-90).                 *)
THEOREM SearchWakeups == Spec => []NoLostWakeup
  <1>1. BufferInv => NoLostWakeup
    BY DEF BufferInv
  <1>2. QED
    BY <1>1, BufferInvariant, PTL
-----------------------------------------------------------------------------
(* Sums of counts.  Partial sums are a function defined by recursion on the  *)
(* number of summands; that there is one is shown by its least exception.    *)

(* Every nonempty set of numbers has a least one. *)
Below == {ss \in Nat \X Nat : ss[1] < ss[2]}

LEMMA Least ==
  ASSUME NEW I \in SUBSET Nat, I # {}
  PROVE  \E x \in I : \A y \in I : x <= y
  <1>1. IsWellFoundedOn(Below, Nat)
    BY NatLessThanWellFounded, Zenon DEF OpToRel, Below
  <1>2. PICK x \in I : \A y \in I : <<y, x>> \notin Below
    BY <1>1, WFMin
  <1>3. ASSUME NEW y \in I PROVE x <= y
    <2>1. <<y, x>> \notin Below
      BY <1>2
    <2>2. QED
      BY <2>1 DEF Below
  <1>4. QED
    BY <1>3

(* The partial sums of a list of numbers exist, *)
IsSum(s, f, n) == s = [i \in 0 .. n |-> IF i = 0 THEN 0 ELSE s[i - 1] + f[i]]
Summable(f, n) == \E s \in [0 .. n -> Nat] : IsSum(s, f, n)

LEMMA SumExists ==
  ASSUME NEW m \in Nat, NEW f \in [1 .. m -> Nat], NEW n \in 0 .. m
  PROVE  Summable(f, n)
  <1> DEFINE Fails == {k \in 0 .. m : ~Summable(f, k)}
  <1>1. SUFFICES ASSUME Fails # {} PROVE FALSE
    OBVIOUS
  <1>2. PICK k \in Fails : \A j \in Fails : k <= j
    <2>1. Fails \in SUBSET Nat
      OBVIOUS
    <2>2. QED
      BY <1>1, <2>1, Least
  <1>3. k \in Nat /\ k <= m /\ ~Summable(f, k)
    OBVIOUS
  <1>4. CASE k = 0
    <2> DEFINE s == [i \in 0 .. 0 |-> 0]
    <2>1. s \in [0 .. 0 -> Nat] /\ IsSum(s, f, 0)
      BY DEF IsSum
    <2>2. QED
      BY <1>3, <1>4, <2>1 DEF Summable
  <1>5. CASE k # 0
    <2>1. k - 1 \in 0 .. m /\ k - 1 < k
      BY <1>3, <1>5
    <2>2. Summable(f, k - 1)
      BY <1>2, <2>1
    <2>3. PICK s \in [0 .. k - 1 -> Nat] : IsSum(s, f, k - 1)
      BY <2>2 DEF Summable
    <2> DEFINE t == [i \in 0 .. k |-> IF i = k THEN s[k - 1] + f[k] ELSE s[i]]
    <2>4. t \in [0 .. k -> Nat]
      BY <1>3, <1>5, <2>3 DEF IsSum
    <2>5. ASSUME NEW i \in 0 .. k
          PROVE  t[i] = IF i = 0 THEN 0 ELSE t[i - 1] + f[i]
      <3>1. CASE i = k
        BY <1>3, <1>5, <3>1
      <3>2. CASE i # k
        <4>1. i \in 0 .. k - 1 /\ t[i] = s[i] /\ (i # 0 => t[i - 1] = s[i - 1])
          BY <1>3, <3>2
        <4>2. s[i] = IF i = 0 THEN 0 ELSE s[i - 1] + f[i]
          BY <2>3, <4>1 DEF IsSum
        <4>3. QED
          BY <4>1, <4>2
      <3>3. QED
        BY <3>1, <3>2
    <2>6. IsSum(t, f, k)
      <3> HIDE DEF t
      <3>1. QED
        BY <2>4, <2>5 DEF IsSum
    <2>7. QED
      BY <1>3, <2>4, <2>6 DEF Summable
  <1>6. QED
    BY <1>4, <1>5

(* two of them agree, *)
LEMMA SumUnique ==
  ASSUME NEW f, NEW n \in Nat, NEW k \in 0 .. n,
         NEW s, IsSum(s, f, k), NEW t, IsSum(t, f, n)
  PROVE  \A i \in 0 .. k : s[i] = t[i]
  <1> DEFINE Differ == {i \in 0 .. k : s[i] # t[i]}
  <1>1. SUFFICES ASSUME Differ # {} PROVE FALSE
    OBVIOUS
  <1>2. PICK i \in Differ : \A j \in Differ : i <= j
    <2>1. Differ \in SUBSET Nat
      OBVIOUS
    <2>2. QED
      BY <1>1, <2>1, Least
  <1>3. i \in 0 .. k /\ i \in 0 .. n /\ s[i] # t[i]
    OBVIOUS
  <1>4. s[i] = IF i = 0 THEN 0 ELSE s[i - 1] + f[i]
    BY <1>3, Zenon DEF IsSum
  <1>5. t[i] = IF i = 0 THEN 0 ELSE t[i - 1] + f[i]
    BY <1>3, Zenon DEF IsSum
  <1>6. i # 0
    BY <1>3, <1>4, <1>5, Zenon
  <1>7. i - 1 \in 0 .. k /\ i - 1 < i /\ i \in Int
    BY <1>3, <1>6
  <1>8. s[i - 1] = t[i - 1]
    <2>1. i - 1 \notin Differ
      <3> HIDE DEF Differ
      <3>1. QED
        BY <1>2, <1>7
    <2>2. QED
      BY <1>7, <2>1
  <1>9. QED
    BY <1>3, <1>4, <1>5, <1>6, <1>8, Zenon

LEMMA SumIsLast ==
  ASSUME NEW m \in Nat, NEW f \in [1 .. m -> Nat], NEW n \in 0 .. m
  PROVE  \E s \in [0 .. n -> Nat] : IsSum(s, f, n) /\ SumTo(f, n) = s[n]
  <1> DEFINE e == CHOOSE s : s = [i \in 0 .. n |-> IF i = 0 THEN 0 ELSE s[i - 1] + f[i]]
  <1>1. PICK s \in [0 .. n -> Nat] : IsSum(s, f, n)
    BY SumExists DEF Summable
  <1>2. IsSum(e, f, n)
    BY <1>1 DEF IsSum
  <1>3. SumTo(f, n) = e[n]
    BY DEF SumTo
  <1> HIDE DEF e
  <1>4. \A i \in 0 .. n : e[i] = s[i]
    BY <1>1, <1>2, SumUnique
  <1>5. SumTo(f, n) = s[n]
    BY <1>3, <1>4
  <1>6. QED
    BY <1>1, <1>5

(* so a sum has one summand after the other. *)
LEMMA SumFacts ==
  ASSUME NEW m \in Nat, NEW f \in [1 .. m -> Nat]
  PROVE  /\ SumTo(f, 0) = 0
         /\ \A n \in 1 .. m : SumTo(f, n) = SumTo(f, n - 1) + f[n]
         /\ \A n \in 0 .. m : SumTo(f, n) \in Nat
  <1>1. SumTo(f, 0) = 0
    BY SumIsLast DEF IsSum
  <1>2. ASSUME NEW n \in 1 .. m
        PROVE  SumTo(f, n) = SumTo(f, n - 1) + f[n]
    <2> n \in 0 .. m /\ n \in Nat
      OBVIOUS
    <2>1. PICK s \in [0 .. n -> Nat] : IsSum(s, f, n) /\ SumTo(f, n) = s[n]
      BY SumIsLast
    <2>2. PICK k \in 0 .. n : k = n - 1 /\ k \in 0 .. m
      OBVIOUS
    <2>3. PICK t \in [0 .. k -> Nat] : IsSum(t, f, k) /\ SumTo(f, k) = t[k]
      BY <2>2, SumIsLast
    <2>4. \A i \in 0 .. k : t[i] = s[i]
      <3>1. IsSum(s, f, n) /\ IsSum(t, f, k) /\ n \in Nat
        BY <2>1, <2>3
      <3>2. QED
        <4>1. \A ff, ss : IsSum(ss, ff, k) => \A tt : IsSum(tt, ff, n) => \A i \in 0 .. k : ss[i] = tt[i]
          BY SumUnique, <3>1
        <4>2. QED
          BY <3>1, <4>1, Zenon
    <2>5. s[n] = s[n - 1] + f[n]
      BY <2>1 DEF IsSum
    <2>6. QED
      BY <2>1, <2>2, <2>3, <2>4, <2>5
  <1>3. ASSUME NEW n \in 0 .. m PROVE SumTo(f, n) \in Nat
    BY SumIsLast
  <1>4. QED
    BY <1>1, <1>2, <1>3

(* and it grows by what one of its summands does. *)
LEMMA SumGrows ==
  ASSUME NEW m \in Nat, NEW f \in [1 .. m -> Nat], NEW w \in 1 .. m, NEW d \in Nat
  PROVE  SumTo([f EXCEPT ![w] = @ + d], m) = SumTo(f, m) + d
  <1> DEFINE g == [f EXCEPT ![w] = @ + d]
             Differ == {k \in 0 .. m :
                          SumTo(g, k) # SumTo(f, k) + (IF w <= k THEN d ELSE 0)}
  <1>0. g \in [1 .. m -> Nat] /\ \A k \in 1 .. m : g[k] = f[k] + (IF w = k THEN d ELSE 0)
    OBVIOUS
  <1> HIDE DEF g
  <1>1. SUFFICES ASSUME Differ # {} PROVE FALSE
    <2>1. Differ = {} => m \notin Differ
      OBVIOUS
    <2>2. m \in 0 .. m /\ w <= m
      OBVIOUS
    <2>3. Differ = {} => SumTo(g, m) = SumTo(f, m) + d
      BY <2>1, <2>2
    <2>4. QED
      BY <2>3 DEF g
  <1>2. PICK k \in Differ : \A j \in Differ : k <= j
    <2>1. Differ \in SUBSET Nat
      OBVIOUS
    <2>2. QED
      BY <1>1, <2>1, Least
  <1>3. g \in [1 .. m -> Nat]
    BY <1>0
  <1>4. k \in Nat /\ k <= m /\ SumTo(g, k) # SumTo(f, k) + (IF w <= k THEN d ELSE 0)
    OBVIOUS
  <1>5. k # 0
    <2>1. SumTo(g, 0) = 0 /\ SumTo(f, 0) = 0
      BY <1>3, SumFacts
    <2>2. QED
      BY <1>4, <2>1
  <1>6. k - 1 \in 0 .. m /\ k \in 1 .. m
    BY <1>4, <1>5
  <1>7. SumTo(g, k - 1) = SumTo(f, k - 1) + (IF w <= k - 1 THEN d ELSE 0)
    <2>1. k - 1 \notin Differ
      <3> HIDE DEF Differ
      <3>1. QED
        BY <1>2, <1>4, <1>6
    <2>2. QED
      BY <1>6, <2>1
  <1>8. /\ SumTo(g, k) = SumTo(g, k - 1) + g[k] /\ SumTo(f, k) = SumTo(f, k - 1) + f[k]
        /\ SumTo(f, k - 1) \in Nat
    BY <1>3, <1>6, SumFacts
  <1>9. g[k] = f[k] + (IF w = k THEN d ELSE 0)
    BY <1>0, <1>6
  <1>10. QED
    BY <1>4, <1>6, <1>7, <1>8, <1>9

(* The sum of no things is none. *)
LEMMA SumOfZeros ==
  ASSUME NEW m \in Nat, NEW n \in 0 .. m
  PROVE  SumTo([i \in 1 .. m |-> 0], n) = 0
  <1> DEFINE f == [i \in 1 .. m |-> 0]
             Differ == {k \in 0 .. m : SumTo(f, k) # 0}
  <1>1. SUFFICES ASSUME Differ # {} PROVE FALSE
    OBVIOUS
  <1>2. PICK k \in Differ : \A j \in Differ : k <= j
    <2>1. Differ \in SUBSET Nat
      OBVIOUS
    <2>2. QED
      BY <1>1, <2>1, Least
  <1>3. k \in Nat /\ k <= m /\ SumTo(f, k) # 0
    OBVIOUS
  <1>4. f \in [1 .. m -> Nat] /\ \A i \in 1 .. m : f[i] = 0
    OBVIOUS
  <1> HIDE DEF f
  <1>5. k # 0
    BY <1>3, <1>4, SumFacts
  <1>6. k - 1 \in 0 .. m /\ k \in 1 .. m
    BY <1>3, <1>5
  <1>7. SumTo(f, k - 1) = 0
    BY <1>2, <1>6
  <1>8. SumTo(f, k) = SumTo(f, k - 1) + f[k]
    BY <1>4, <1>6, SumFacts
  <1>9. QED
    BY <1>3, <1>4, <1>6, <1>7, <1>8
-----------------------------------------------------------------------------
(* Counting.  Most steps count nothing, stop nothing and bring no worker     *)
(* past its loop. *)
LeftPlaces == {"barrier", "report", "total", "done"}

LEMMA QuietStep ==
  ASSUME CountInv, BufferInv', UNCHANGED <<size, next, local_matches, matches, total>>,
         PutSoFar' = PutSoFar, eof => eof', running' => running,
         \A w \in Workers : \/ pc'[w] = pc[w]
                            \/ pc[w] \notin LeftPlaces /\ pc'[w] \notin LeftPlaces,
         \A t \in Threads : pc'[t] = "checked" =>
           /\ pc[t] = "checked" /\ still_running'[t] = still_running[t],
         pc'[Manager] \in {"none", "open"} => pc[Manager] \in {"none", "open"},
         pc'[Manager] \in {"eof", "done"} => pc[Manager] \in {"eof", "done"}
  PROVE  CountInv'
  <1>1. MatchesConserved'
    BY DEF CountInv, MatchesConserved
  <1>2. CountsStored'
    BY DEF CountInv, CountsStored, LeftLoop, LeftPlaces
  <1>3. StoppedOrRead'
    BY DEF CountInv, StoppedOrRead
  <1>4. OneTotal'
    <2>1. \A w \in Workers : (pc'[w] = "total" => pc[w] = "total")
                             /\ (pc[w] = "done" <=> pc'[w] = "done")
                             /\ (pc[w] = "total" => pc'[w] = "total")
      BY DEF LeftPlaces
    <2>2. QED
      BY <2>1 DEF CountInv, OneTotal
  <1>5. QED
    BY <1>1, <1>2, <1>3, <1>4 DEF CountInv

LEMMA CountInvInit == Init => CountInv
  <1> SUFFICES ASSUME Init PROVE CountInv
    OBVIOUS
  <1>1. BufferInv
    BY BufferInvInit
  <1>2. pc[Manager] = "none" /\ \A w \in Workers : pc[w] = "none"
    BY Names DEF Init
  <1>3. MatchesConserved
    <2>1. SumTo(local_matches, NumWorkers) = 0
      BY SumOfZeros, SearchBounds DEF Init, Workers
    <2>2. PutSoFar - size = 0
      BY <1>2 DEF PutSoFar, Init
    <2>3. SumTo(Matches, 0) = 0
      BY SumFacts, SearchBounds
    <2>4. QED
      BY <2>1, <2>2, <2>3 DEF MatchesConserved
  <1>4. CountsStored /\ OneTotal
    BY <1>2 DEF CountsStored, LeftLoop, OneTotal, Init
  <1>5. StoppedOrRead
    BY <1>2 DEF StoppedOrRead, Init
  <1>6. QED
    BY <1>1, <1>3, <1>4, <1>5 DEF CountInv

(* The steps that count nothing. *)
LEMMA QuietSteps ==
  ASSUME CountInv, BufferInv',
         \/ PutWait \/ SetEof \/ MainStep \/ SpawnFails \/ HandleSigint
         \/ \E w \in Workers : GetWait(w)
         \/ \E t \in Threads : Interrupt(t) \/ SpuriousWakeup(t)
         \/ UNCHANGED vars
  PROVE  CountInv'
  <1> USE DEF LeftPlaces, At, Goto
  <1>p. PcTyped
    BY DEF CountInv, BufferInv, TypeOK, PcTyped
  <1>1. CASE \/ PutWait \/ HandleSigint \/ \E w \in Workers : GetWait(w)
             \/ \E t \in Threads : Interrupt(t) \/ SpuriousWakeup(t)
             \/ UNCHANGED vars
    <2>1. /\ UNCHANGED <<pc, size, eof, next, local_matches, matches, total, still_running>>
          /\ running' => running
      BY <1>1 DEF PutWait, HandleSigint, GetWait, Interrupt, SpuriousWakeup, vars
    <2>2. PutSoFar' = PutSoFar
      BY <2>1 DEF PutSoFar
    <2>3. QED
      BY <2>1, <2>2, QuietStep
  <1>2. CASE SetEof
    <2>1. /\ UNCHANGED <<size, next, local_matches, matches, total, running, still_running>>
          /\ eof' = TRUE /\ pc[Manager] = "eof" /\ pc'[Manager] = "done"
          /\ \A t \in Threads : t # Manager => pc'[t] = pc[t]
      BY <1>2, <1>p, Names DEF SetEof, PcTyped
    <2>2. PutSoFar' = PutSoFar
      BY <2>1 DEF PutSoFar
    <2>3. \A w \in Workers : pc'[w] = pc[w]
      BY <2>1, Names
    <2>4. \A t \in Threads : pc'[t] = "checked" => pc[t] = "checked"
      BY <2>1
    <2>5. QED
      BY <2>1, <2>2, <2>3, <2>4, QuietStep
  <1>3. CASE SpawnFails \/ StopSpawning \/ JoinManager \/ JoinWorkers
    <2>1. /\ UNCHANGED <<size, eof, next, local_matches, matches, total, still_running>>
          /\ running' => running
          /\ pc'[Main] # "checked" /\ \A t \in Threads : t # Main => pc'[t] = pc[t]
      BY <1>3, <1>p, Names DEF SpawnFails, StopSpawning, JoinManager, JoinWorkers, PcTyped
    <2>2. \A w \in Workers : pc'[w] = pc[w]
      BY <2>1, Names
    <2>3. pc'[Manager] = pc[Manager]
      BY <2>1, Names
    <2>4. PutSoFar' = PutSoFar
      BY <2>1, <2>3 DEF PutSoFar
    <2>5. \A t \in Threads : pc'[t] = "checked" => pc[t] = "checked"
      BY <2>1
    <2>6. QED
      BY <2>1, <2>2, <2>3, <2>4, <2>5, QuietStep
  <1>4. CASE StartManager
    <2>1. /\ UNCHANGED <<size, eof, next, local_matches, matches, total, running, still_running>>
          /\ pc[Main] = "manager" /\ pc'[Main] = "spawn" /\ pc'[Manager] = "open"
          /\ \A t \in Threads : t \notin {Main, Manager} => pc'[t] = pc[t]
      BY <1>4, <1>p, Names DEF StartManager, PcTyped
    <2>2. pc[Manager] = "none"
      BY <2>1 DEF CountInv, BufferInv, WaitersWait
    <2>3. \A w \in Workers : pc'[w] = pc[w]
      BY <2>1, Names
    <2>4. PutSoFar' = PutSoFar
      BY <2>1, <2>2 DEF PutSoFar
    <2>5. \A t \in Threads : pc'[t] = "checked" => pc[t] = "checked"
      BY <2>1
    <2>6. QED
      BY <2>1, <2>2, <2>3, <2>4, <2>5, QuietStep
  <1>5. ASSUME NEW w \in Workers, StartWorker(w) PROVE CountInv'
    <2>1. /\ UNCHANGED <<size, eof, next, local_matches, matches, total, running, still_running>>
          /\ pc[w] = "none" /\ pc'[w] = "check" /\ pc'[Main] # "checked"
          /\ \A t \in Threads : t \notin {Main, w} => pc'[t] = pc[t]
      BY <1>5, <1>p, Names DEF StartWorker, NextWorker, PcTyped
    <2>2. pc'[Manager] = pc[Manager]
      BY <2>1, Names
    <2>3. \A v \in Workers : v # w => pc'[v] = pc[v]
      BY <2>1, Names
    <2>4. PutSoFar' = PutSoFar
      BY <2>1, <2>2 DEF PutSoFar
    <2>5. \A t \in Threads : pc'[t] = "checked" => pc[t] = "checked"
      BY <2>1
    <2>6. QED
      BY <2>1, <2>2, <2>3, <2>4, <2>5, QuietStep
  <1>6. QED
    BY <1>1, <1>2, <1>3, <1>4, <1>5 DEF MainStep

(* A thread finds the flag as it is. *)
LEMMA CheckLockCounts ==
  ASSUME CountInv, BufferInv', NEW t \in Threads, t # Main, CheckLock(t)
  PROVE  CountInv'
  <1> USE DEF CheckLock, At, Goto
  <1>1. /\ UNCHANGED <<size, eof, next, local_matches, matches, total, running>>
        /\ pc[t] = "check" /\ pc'[t] = "checked" /\ still_running'[t] = running
        /\ \A u \in Threads : u # t => pc'[u] = pc[u] /\ still_running'[u] = still_running[u]
    BY DEF CountInv, BufferInv, TypeOK
  <1>2. PutSoFar' = PutSoFar
    BY <1>1, Names DEF PutSoFar
  <1>3. MatchesConserved'
    BY <1>1, <1>2 DEF CountInv, MatchesConserved
  <1>4. CountsStored'
    BY <1>1, Names DEF CountInv, CountsStored, LeftLoop
  <1>5. StoppedOrRead'
    BY <1>1, Names DEF CountInv, StoppedOrRead
  <1>6. OneTotal'
    <2>1. \A w \in Workers : w # t => pc'[w] = pc[w]
      BY <1>1, Names
    <2>2. QED
      BY <1>1, <2>1 DEF CountInv, OneTotal
  <1>7. QED
    BY <1>3, <1>4, <1>5, <1>6 DEF CountInv

(* The loop goes on, or is left once and for all. *)
LEMMA CheckUnlockCounts ==
  ASSUME CountInv, BufferInv', NEW t \in Threads, t # Main, CheckUnlock(t)
  PROVE  CountInv'
  <1> USE DEF CheckUnlock, At, Goto
  <1>1. /\ UNCHANGED <<size, eof, next, local_matches, total, running, still_running>>
        /\ pc[t] = "checked"
        /\ \A u \in Threads : u # t => pc'[u] = pc[u]
        /\ t = Manager => /\ pc'[t] \in {"read", "eof"}
                          /\ pc'[t] = "eof" => ~still_running[t]
                          /\ matches' = matches
        /\ t # Manager => /\ pc'[t] \in {"get", "barrier"}
                          /\ pc'[t] = "get" => matches' = matches
                          /\ pc'[t] = "barrier" => /\ ~still_running[t]
                               /\ matches' = [matches EXCEPT ![t] = local_matches[t]]
    <2>1. pc \in [Threads -> Places]
      BY DEF CountInv, BufferInv, TypeOK
    <2>2. CASE t = Manager
      <3>1. Goto(t, IF still_running[t] THEN "read" ELSE "eof") /\ matches' = matches
        BY <2>2
      <3>2. pc'[t] = IF still_running[t] THEN "read" ELSE "eof"
        BY <2>1, <3>1
      <3>3. QED
        BY <2>1, <2>2, <3>1, <3>2
    <2>3. CASE t # Manager
      <3>1. CASE still_running[t]
        BY <2>1, <2>3, <3>1
      <3>2. CASE ~still_running[t]
        BY <2>1, <2>3, <3>2
      <3>3. QED
        BY <3>1, <3>2
    <2>4. QED
      BY <2>2, <2>3
  <1>2. PutSoFar' = PutSoFar
    BY <1>1, Names DEF PutSoFar
  <1>3. MatchesConserved'
    BY <1>1, <1>2 DEF CountInv, MatchesConserved
  <1>4. ~still_running[t] => ~running
    BY <1>1 DEF CountInv, StoppedOrRead
  <1>5. CountsStored'
    <2>1. \A w \in Workers : w # t => pc'[w] = pc[w] /\ matches'[w] = matches[w]
      BY <1>1, Names DEF CountInv, BufferInv, TypeOK
    <2>2. t \in Workers /\ pc'[t] = "barrier" => (matches'[t] = local_matches[t] /\ ~running)
      BY <1>1, <1>4, Names DEF CountInv, BufferInv, TypeOK
    <2>3. t \in Workers /\ pc'[t] # "barrier" => pc'[t] = "get"
      BY <1>1, Names
    <2>4. QED
      BY <1>1, <2>1, <2>2, <2>3 DEF CountInv, CountsStored, LeftLoop
  <1>6. StoppedOrRead'
    <2>1. \A u \in Threads : pc'[u] = "checked" => pc[u] = "checked"
      BY <1>1
    <2>2. pc'[Manager] # pc[Manager] =>
            pc'[Manager] = "read" \/ (pc'[Manager] = "eof" /\ ~running)
      <3>1. CASE t = Manager
        BY <1>1, <1>4, <3>1
      <3>2. CASE t # Manager
        BY <1>1, <3>2, Names
      <3>3. QED
        BY <3>1, <3>2
    <2>3. QED
      BY <1>1, <2>1, <2>2 DEF CountInv, StoppedOrRead
  <1>7. OneTotal'
    <2>1. \A w \in Workers : w # t => pc'[w] = pc[w]
      BY <1>1, Names
    <2>2. t \in Workers => pc[t] = "checked" /\ pc'[t] \in {"get", "barrier"}
      BY <1>1, Names
    <2>3. QED
      BY <1>1, <2>1, <2>2 DEF CountInv, OneTotal
  <1>8. QED
    BY <1>3, <1>5, <1>6, <1>7 DEF CountInv

(* The manager opens the file, reads a line and puts it. *)
LEMMA ManagerCounts ==
  ASSUME CountInv, BufferInv', Open \/ ReadLine \/ Put
  PROVE  CountInv'
  <1> USE DEF Open, ReadLine, Put, At, Goto
  <1>1. /\ UNCHANGED <<local_matches, matches, total, running, still_running>>
        /\ pc[Manager] \in {"open", "read", "put"}
        /\ pc'[Manager] \in {"check", "put", "eof"}
        /\ \A u \in Threads : u # Manager => pc'[u] = pc[u]
        /\ pc'[Manager] = "eof" => next' = next /\ (pc[Manager] = "open" \/ ~(next < NumLines))
        /\ next' \in {next, next + 1}
    BY Names DEF CountInv, BufferInv, TypeOK
  <1>2. ~eof /\ eof' = eof
    BY <1>1 DEF CountInv, BufferInv, WaitersWait, TypeOK
  <1>3. \A w \in Workers : pc'[w] = pc[w]
    BY <1>1, Names
  <1>4. PutSoFar' - size' = PutSoFar - size
    <2>1. CASE Open
      BY <2>1, <1>1, Names DEF PutSoFar, CountInv, BufferInv, TypeOK
    <2>3. CASE ReadLine
      <3>1. pc[Manager] = "read" /\ size' = size
            /\ (\/ pc'[Manager] = "put" /\ next' = next + 1
                \/ pc'[Manager] = "eof" /\ next' = next)
        BY <2>3, Names DEF CountInv, BufferInv, TypeOK
      <3>2. PutSoFar = next
        BY <3>1 DEF PutSoFar
      <3>3. next \in Int /\ size \in Int
        BY DEF CountInv, BufferInv, TypeOK
      <3>5. PutSoFar' = next
        BY <3>1, <3>3 DEF PutSoFar
      <3>4. QED
        BY <3>1, <3>2, <3>3, <3>5
    <2>2. CASE Put
      <3>1. pc[Manager] = "put" /\ pc'[Manager] = "check" /\ next' = next /\ size' = size + 1
        BY <1>2, <2>2, Names DEF CountInv, BufferInv, TypeOK
      <3>2. QED
        BY <3>1 DEF PutSoFar, CountInv, BufferInv, TypeOK
    <2>4. QED
      BY <2>1, <2>2, <2>3
  <1>5. MatchesConserved'
    BY <1>1, <1>4 DEF CountInv, MatchesConserved
  <1>6. CountsStored'
    BY <1>1, <1>2, <1>3 DEF CountInv, CountsStored, LeftLoop
  <1>7. StoppedOrRead'
    <2>1. \A t \in Threads : pc'[t] = "checked" => pc[t] = "checked"
      BY <1>1
    <2>2. pc'[Manager] = "eof" => next' \in {0, NumLines}
      BY <1>1, SearchBounds DEF CountInv, StoppedOrRead, BufferInv, TypeOK
    <2>3. QED
      BY <1>1, <2>1, <2>2 DEF CountInv, StoppedOrRead
  <1>8. OneTotal'
    BY <1>1, <1>3 DEF CountInv, OneTotal
  <1>9. QED
    BY <1>5, <1>6, <1>7, <1>8 DEF CountInv

(* A worker counts the line it has taken, which is the first in the buffer. *)
LEMMA GetLineCounts ==
  ASSUME CountInv, BufferInv', NEW w \in Workers, GetLine(w)
  PROVE  CountInv'
  <1> USE DEF GetLine, At, Goto
  <1>1. /\ UNCHANGED <<eof, next, matches, total, running, still_running>>
        /\ pc[w] = "get" /\ pc'[w] = "check" /\ size > 0 /\ size' = size - 1
        /\ \A u \in Threads : u # w => pc'[u] = pc[u]
        /\ local_matches' = [local_matches EXCEPT ![w] = @ + Matches[lines[head]]]
    BY DEF CountInv, BufferInv, TypeOK
  <1>2. PutSoFar' = PutSoFar /\ PutSoFar \in 0 .. NumLines
    BY <1>1, Names, SearchBounds DEF PutSoFar, CountInv, BufferInv, TypeOK, WaitersWait
  <1>3. lines[head] = PutSoFar - size + 1
    <2>1. 0 \in Index /\ head \in Index /\ 0 < size
      BY <1>1, SearchBounds DEF CountInv, BufferInv, TypeOK, Index
    <2>2. (head + 0) % Capacity = head
      <3>1. head + 0 \in Int /\ 0 <= head + 0 /\ head + 0 < Capacity /\ head + 0 = head
        BY <2>1, SearchBounds DEF Index
      <3>2. QED
        BY <3>1, SearchBounds, ModSmall
    <2>3. lines[(head + 0) % Capacity] = PutSoFar - size + 0 + 1
      BY <2>1 DEF CountInv, BufferInv, RingHoldsLines
    <2>4. QED
      BY <1>2, <2>2, <2>3 DEF CountInv, BufferInv, TypeOK
  <1> DEFINE k == PutSoFar - size + 1
  <1>4. k \in 1 .. NumLines /\ k - 1 \in 0 .. NumLines
    BY <1>1, <1>2, SearchBounds DEF CountInv, BufferInv, TypeOK, RingHoldsLines
  <1>5. MatchesConserved'
    <2>1. SumTo(Matches, k) = SumTo(Matches, k - 1) + Matches[k] /\ Matches[k] \in Nat
      <3> HIDE DEF k
      <3>1. QED
        BY <1>4, SumFacts, SearchBounds
    <2>2. SumTo(local_matches', NumWorkers) = SumTo(local_matches, NumWorkers) + Matches[k]
      <3>1. local_matches' = [local_matches EXCEPT ![w] = @ + Matches[k]]
        BY <1>1, <1>3
      <3> HIDE DEF k
      <3>2. /\ NumWorkers \in Nat /\ NumWorkers \in 0 .. NumWorkers /\ w \in 1 .. NumWorkers
            /\ w <= NumWorkers /\ local_matches \in [1 .. NumWorkers -> Nat]
        BY SearchBounds DEF Workers, CountInv, BufferInv, TypeOK
      <3>3. SumTo(local_matches', NumWorkers)
              = SumTo(local_matches, NumWorkers) + Matches[k]
        <4>1. PICK d \in Nat : d = Matches[k]
          BY <2>1
        <4>2. local_matches' = [local_matches EXCEPT ![w] = @ + d]
          BY <3>1, <4>1
        <4>3. SumTo([local_matches EXCEPT ![w] = @ + d], NumWorkers)
                = SumTo(local_matches, NumWorkers) + d
          BY <3>2, SumGrows
        <4>4. QED
          BY <4>1, <4>2, <4>3
      <3>4. QED
        BY <3>3
    <2>3. SumTo(local_matches, NumWorkers) = SumTo(Matches, k - 1)
      <3>1. k - 1 = PutSoFar - size
        BY <1>2 DEF CountInv, BufferInv, TypeOK
      <3>2. QED
        BY <3>1 DEF CountInv, MatchesConserved
    <2>4. PutSoFar' - size' = k
      BY <1>1, <1>2 DEF CountInv, BufferInv, TypeOK
    <2> HIDE DEF k
    <2>5. QED
      BY <2>1, <2>2, <2>3, <2>4 DEF MatchesConserved
  <1>6. \A v \in Workers : v # w => pc'[v] = pc[v] /\ local_matches'[v] = local_matches[v]
    BY <1>1, Names DEF CountInv, BufferInv, TypeOK
  <1>7. CountsStored'
    <2>1. ASSUME NEW v \in Workers, v # w, v \in LeftLoop
          PROVE  ~running
      BY <1>1, <2>1 DEF CountInv, CountsStored
    <2>2. QED
      BY <1>1, <1>6, <2>1 DEF CountInv, CountsStored, LeftLoop
  <1>8. StoppedOrRead'
    <2>1. \A t \in Threads : pc'[t] = "checked" => pc[t] = "checked"
      BY <1>1
    <2>2. pc'[Manager] = pc[Manager]
      BY <1>1, Names
    <2>3. QED
      BY <1>1, <2>1, <2>2 DEF CountInv, StoppedOrRead
  <1>9. OneTotal'
    BY <1>1, <1>6 DEF CountInv, OneTotal
  <1>10. QED
    BY <1>5, <1>7, <1>8, <1>9 DEF CountInv

(* A worker finds the buffer empty for good. *)
LEMMA GetEndCounts ==
  ASSUME CountInv, BufferInv', NEW w \in Workers, GetEnd(w)
  PROVE  CountInv'
  <1> USE DEF GetEnd, At, Goto
  <1>1. /\ UNCHANGED <<size, eof, next, local_matches, total, running, still_running>>
        /\ size = 0 /\ eof /\ pc[w] = "get" /\ pc'[w] = "barrier"
        /\ \A u \in Threads : u # w => pc'[u] = pc[u]
        /\ matches' = [matches EXCEPT ![w] = local_matches[w]]
    BY DEF CountInv, BufferInv, TypeOK
  <1>2. pc'[Manager] = pc[Manager]
    BY <1>1, Names
  <1>3. PutSoFar' = PutSoFar
    BY <1>1, <1>2 DEF PutSoFar
  <1>4. \A v \in Workers : v # w => pc'[v] = pc[v] /\ matches'[v] = matches[v]
    BY <1>1, Names DEF CountInv, BufferInv, TypeOK
  <1>5. matches'[w] = local_matches[w]
    BY <1>1 DEF CountInv, BufferInv, TypeOK
  <1>6. MatchesConserved'
    BY <1>1, <1>3 DEF CountInv, MatchesConserved
  <1>7. CountsStored'
    BY <1>1, <1>4, <1>5 DEF CountInv, CountsStored, LeftLoop
  <1>8. StoppedOrRead'
    <2>1. \A t \in Threads : pc'[t] = "checked" => pc[t] = "checked"
      BY <1>1
    <2>2. QED
      BY <1>1, <1>2, <2>1 DEF CountInv, StoppedOrRead
  <1>9. OneTotal'
    BY <1>1, <1>4 DEF CountInv, OneTotal
  <1>10. QED
    BY <1>6, <1>7, <1>8, <1>9 DEF CountInv

(* The barriers let all workers through at once. *)
LEMMA BarrierCounts ==
  ASSUME CountInv, BufferInv', NEW w \in Workers, Barrier \/ Barrier2(w)
  PROVE  CountInv'
  <1> USE DEF Barrier, Barrier2, At
  <1>1. /\ UNCHANGED <<size, eof, next, local_matches, matches, total, running, still_running>>
        /\ \/ \A v \in Workers : pc[v] = "barrier" /\ pc'[v] = "report"
           \/ \A v \in Workers : pc[v] = "report"
                                 /\ pc'[v] = IF v = w THEN "total" ELSE "done"
        /\ \A t \in Threads : t \notin Workers => pc'[t] = pc[t]
    BY Names
  <1>2. pc'[Manager] = pc[Manager]
    BY <1>1, Names
  <1>3. PutSoFar' = PutSoFar
    BY <1>1, <1>2 DEF PutSoFar
  <1>4. \A v \in Workers : v \in LeftLoop
    BY <1>1 DEF LeftLoop
  <1>5. MatchesConserved'
    BY <1>1, <1>3 DEF CountInv, MatchesConserved
  <1>6. CountsStored'
    BY <1>1, <1>4 DEF CountInv, CountsStored, LeftLoop
  <1>7. StoppedOrRead'
    <2>1. \A t \in Threads : pc'[t] = "checked" => pc[t] = "checked"
      BY <1>1
    <2>2. QED
      BY <1>1, <1>2, <2>1 DEF CountInv, StoppedOrRead
  <1>8. OneTotal'
    <2>1. total = -1
      BY <1>1 DEF CountInv, OneTotal
    <2>2. QED
      BY <1>1, <2>1 DEF OneTotal
  <1>9. QED
    BY <1>5, <1>6, <1>7, <1>8 DEF CountInv

(* The serial thread adds up what everybody has stored. *)
LEMMA TotalCounts ==
  ASSUME CountInv, BufferInv', NEW w \in Workers, Total(w)
  PROVE  CountInv'
  <1> USE DEF Total, At, Goto
  <1>1. /\ UNCHANGED <<size, eof, next, local_matches, matches, running, still_running>>
        /\ pc[w] = "total" /\ pc'[w] = "done" /\ total' = SumTo(matches, NumWorkers)
        /\ \A u \in Threads : u # w => pc'[u] = pc[u]
    BY DEF CountInv, BufferInv, TypeOK
  <1>2. pc'[Manager] = pc[Manager]
    BY <1>1, Names
  <1>3. PutSoFar' = PutSoFar
    BY <1>1, <1>2 DEF PutSoFar
  <1>4. \A v \in Workers : pc'[v] = "done" /\ v \in LeftLoop
    BY <1>1, Names DEF CountInv, OneTotal, LeftLoop
  <1>5. matches = local_matches
    <2>1. \A v \in Workers : matches[v] = local_matches[v]
      BY <1>4 DEF CountInv, CountsStored
    <2>2. QED
      BY <2>1 DEF CountInv, BufferInv, TypeOK
  <1>6. MatchesConserved'
    BY <1>1, <1>3 DEF CountInv, MatchesConserved
  <1>7. CountsStored'
    BY <1>1, <1>4 DEF CountInv, CountsStored, LeftLoop
  <1>8. StoppedOrRead'
    <2>1. \A t \in Threads : pc'[t] = "checked" => pc[t] = "checked"
      BY <1>1
    <2>2. QED
      BY <1>1, <1>2, <2>1 DEF CountInv, StoppedOrRead
  <1>9. OneTotal'
    BY <1>1, <1>4, <1>5 DEF OneTotal
  <1>10. QED
    BY <1>6, <1>7, <1>8, <1>9 DEF CountInv

LEMMA CountInvStep == CountInv /\ [Next]_vars => CountInv'
  <1> SUFFICES ASSUME CountInv, [Next]_vars PROVE CountInv'
    OBVIOUS
  <1>1. BufferInv'
    BY BufferInvStep DEF CountInv
  <1>2. CASE ManagerStep
    BY <1>1, <1>2, Names, CheckLockCounts, CheckUnlockCounts, ManagerCounts, QuietSteps
       DEF ManagerStep
  <1>3. ASSUME NEW w \in Workers, WorkerStep(w) PROVE CountInv'
    <2>1. w \in Threads /\ w # Main
      BY Names
    <2>2. QED
      BY <1>1, <1>3, <2>1, CheckLockCounts, CheckUnlockCounts, GetLineCounts, GetEndCounts,
         BarrierCounts, TotalCounts, QuietSteps DEF WorkerStep
  <1>4. CASE \/ MainStep \/ SpawnFails \/ HandleSigint
             \/ \E t \in Threads : Interrupt(t) \/ SpuriousWakeup(t)
             \/ UNCHANGED vars
    BY <1>1, <1>4, QuietSteps
  <1>5. QED
    BY <1>2, <1>3, <1>4 DEF Next

(* What has been counted, stored and added up in every reachable state       *)
(* (main.c:53-97).                                                           *)
THEOREM CountInvariant == Spec => []CountInv
  BY CountInvInit, CountInvStep, PTL DEF Spec

(* Every line put and taken is counted exactly once, whatever the            *)
(* interleaving of any number of workers (main.c:66-78, buffer.c:45-66).     *)
THEOREM SearchCounts == Spec => []MatchesConserved
  <1>1. CountInv => MatchesConserved
    BY DEF CountInv
  <1>2. QED
    BY <1>1, CountInvariant, PTL

(* The total printed is everybody's, and the whole file's when the search    *)
(* has not been stopped (main.c:80-93).                                      *)
THEOREM SearchTotal == Spec => []TotalComplete
  <1>1. CountInv => TotalComplete
    <2> SUFFICES ASSUME CountInv, total # -1
                 PROVE  /\ total = SumTo(local_matches, NumWorkers)
                        /\ running /\ next > 0 => total = SumTo(Matches, NumLines)
      BY DEF TotalComplete
    <2>1. total = SumTo(local_matches, NumWorkers) /\ \A w \in Workers : pc[w] = "done"
      BY DEF CountInv, OneTotal
    <2>2. ASSUME running, next > 0 PROVE total = SumTo(Matches, NumLines)
      <3>1. 1 \in Workers
        BY SearchBounds DEF Workers
      <3>2. eof /\ size = 0
        BY <2>1, <2>2, <3>1 DEF CountInv, CountsStored, LeftLoop
      <3>3. pc[Manager] = "done"
        BY <3>2 DEF CountInv, BufferInv, WaitersWait
      <3>4. next = NumLines
        BY <2>2, <3>3 DEF CountInv, StoppedOrRead, BufferInv, TypeOK
      <3>5. PutSoFar - size = NumLines
        BY <3>2, <3>3, <3>4, SearchBounds DEF PutSoFar
      <3>6. QED
        BY <2>1, <3>5 DEF CountInv, MatchesConserved
    <2>3. QED
      BY <2>1, <2>2
  <1>2. QED
    BY <1>1, CountInvariant, PTL
=============================================================================
