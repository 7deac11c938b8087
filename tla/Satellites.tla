------------------------------ MODULE Satellites ------------------------------
(* Satellites and engineers of System Programming/HW3 (main.c): satellite    *)
(* threads put requests into a sorted queue and wait, each with a time-out;  *)
(* engineer threads, woken through a semaphore, take the most urgent one.    *)
(*                                                                           *)
(* Satellites change the queue under engineerMutex, engineers do not         *)
(* (142-143, 166, 177): their test of the queue and the two halves of        *)
(* pop_from_queue are steps of their own.  A request that is used after it   *)
(* was freed by its engineer, or is NULL, breaks the program, and the model  *)
(* says nothing of what a broken program does.                               *)
EXTENDS Integers, Sequences, SequencesExt

CONSTANTS
  Sats,            (* satellite threads (SATELLITES of them)                  *)
  Engs,            (* engineer threads (ENGINEERS)                            *)
  Ranks            (* ranks of urgency: priority, then arrival_time           *)

VARIABLES
  satellite,       (* where each satellite is                                 *)
  engineer,        (* where each engineer is                                  *)
  rank,            (* the urgency of each satellite's request, 0 before it is made *)
  requestQueue, availableEngineers,
  newRequest,      (* the value of the semaphore                              *)
  held,            (* the request each engineer has taken                     *)
  being_served,    (* requests marked being_served                            *)
  freed,           (* requests whose memory is free                           *)
  raced,           (* history: a pop overlapped with another change or pop     *)
  broken           (* freed or NULL memory was used                           *)

svars == <<satellite, engineer, rank, requestQueue, availableEngineers, newRequest, held,
           being_served, freed, raced, broken>>

NoRequest == "none"

TypeOK ==
  /\ satellite \in [Sats -> {"start", "post", "poll", "late", "end"}]
  /\ engineer \in [Engs -> {"wait", "test", "take", "shift", "retest", "mark", "serve",
                            "free", "leave", "end"}]
  /\ rank \in [Sats -> Ranks \cup {0}]
  /\ requestQueue \in Seq(Sats)
  /\ availableEngineers \in Int /\ newRequest \in Nat
  /\ held \in [Engs -> Sats \cup {NoRequest}]
  /\ being_served \subseteq Sats /\ freed \subseteq Sats
  /\ raced \in BOOLEAN /\ broken \in BOOLEAN

Init ==
  /\ satellite = [s \in Sats |-> "start"] /\ engineer = [e \in Engs |-> "wait"]
  /\ rank = [s \in Sats |-> 0]
  /\ requestQueue = <<>> /\ availableEngineers = Cardinality(Engs) /\ newRequest = 0
  /\ held = [e \in Engs |-> NoRequest]
  /\ being_served = {} /\ freed = {} /\ raced = FALSE /\ broken = FALSE
-----------------------------------------------------------------------------
SatMoves(s, from, to) ==
  ~broken /\ satellite[s] = from /\ satellite' = [satellite EXCEPT ![s] = to]
EngMoves(e, from, to) ==
  ~broken /\ engineer[e] = from /\ engineer' = [engineer EXCEPT ![e] = to]

(* Who changes or pops the queue races with the engineers that are between   *)
(* their test and the end of their pop.                                      *)
Disturbs(others) ==
  raced' = (raced \/ \E e \in others : engineer[e] \in {"take", "shift"})

(* add_to_queue: behind every request that is as urgent, before the rest. *)
AddToQueue(q, s, r) ==
  LET ahead == Cardinality({i \in DOMAIN q : \A j \in i .. Len(q) : rank[q[j]] > r})
  IN  InsertAt(q, Len(q) - ahead + 1, s)
-----------------------------------------------------------------------------
(* Faulty variant of GiveUp, no part of the specification: the request is    *)
(* freed and left in the queue.                                              *)
GiveUpInQueue(s) ==
  /\ SatMoves(s, "late", "end")
  /\ IF s \in ToSet(requestQueue) /\ s \notin being_served
     THEN freed' = freed \cup {s} /\ Disturbs(Engs)
     ELSE UNCHANGED <<freed, raced>>
  /\ UNCHANGED <<engineer, rank, requestQueue, availableEngineers, newRequest, held,
                 being_served, broken>>

-----------------------------------------------------------------------------
(* A satellite. *)

Request(s) ==
  /\ SatMoves(s, "start", "post")
  /\ \E r \in Ranks :
       /\ rank' = [rank EXCEPT ![s] = r]
       /\ requestQueue' = AddToQueue(requestQueue, s, r)
  /\ Disturbs(Engs)
  /\ UNCHANGED <<engineer, availableEngineers, newRequest, held, being_served, freed, broken>>

Post(s) ==
  /\ SatMoves(s, "post", "poll")
  /\ newRequest' = newRequest + 1
  /\ UNCHANGED <<engineer, rank, requestQueue, availableEngineers, held, being_served, freed,
                 raced, broken>>

(* The satellite sees that it is served.  The engineer may have freed the    *)
(* request by then: it reads what happens to be there.                       *)
Connect(s) ==
  /\ s \in being_served \cup freed
  /\ SatMoves(s, "poll", "end")
  /\ UNCHANGED <<engineer, rank, requestQueue, availableEngineers, newRequest, held,
                 being_served, freed, raced, broken>>

(* It sees that it is not, and its time is over. *)
Late(s) ==
  /\ s \notin being_served \/ s \in freed
  /\ SatMoves(s, "poll", "late")
  /\ UNCHANGED <<engineer, rank, requestQueue, availableEngineers, newRequest, held,
                 being_served, freed, raced, broken>>

(* Then it takes its request back, if no engineer has it: it looks through   *)
(* the queue up to the first place of a request that is not served.          *)
GiveUp(s) ==
  /\ SatMoves(s, "late", "end")
  /\ IF s \in ToSet(requestQueue) /\ s \notin being_served
     THEN /\ \E i \in DOMAIN requestQueue :
               /\ requestQueue[i] = s /\ \A j \in 1 .. i - 1 : requestQueue[j] # s
               /\ requestQueue' = RemoveAt(requestQueue, i)
          /\ freed' = freed \cup {s}
          /\ Disturbs(Engs)
     ELSE UNCHANGED <<requestQueue, freed, raced>>
  /\ broken' = \E i \in DOMAIN requestQueue :
                  /\ requestQueue[i] \in freed
                  /\ s \in being_served \/ \A j \in 1 .. i - 1 : requestQueue[j] # s
  /\ UNCHANGED <<engineer, rank, availableEngineers, newRequest, held, being_served>>
-----------------------------------------------------------------------------
(* An engineer. *)

Wake(e) ==
  /\ newRequest > 0
  /\ EngMoves(e, "wait", "test")
  /\ newRequest' = newRequest - 1
  /\ UNCHANGED <<satellite, rank, requestQueue, availableEngineers, held, being_served, freed,
                 raced, broken>>

(* The test reads the queue and the counter without the mutex. *)
Test(e) ==
  /\ EngMoves(e, "test",
       IF requestQueue # <<>> /\ availableEngineers > 0 THEN "take" ELSE "retest")
  /\ UNCHANGED <<satellite, rank, requestQueue, availableEngineers, newRequest, held,
                 being_served, freed, raced, broken>>

Retest(e) ==
  /\ EngMoves(e, "retest", IF requestQueue = <<>> THEN "end" ELSE "wait")
  /\ UNCHANGED <<satellite, rank, requestQueue, availableEngineers, newRequest, held,
                 being_served, freed, raced, broken>>

(* pop_from_queue reads the first request; it is NULL if the queue is empty, *)
Take(e) ==
  /\ EngMoves(e, "take", "shift")
  /\ broken' = (requestQueue = <<>>)
  /\ held' = [held EXCEPT ![e] = IF requestQueue = <<>> THEN NoRequest ELSE requestQueue[1]]
  /\ Disturbs(Engs \ {e})
  /\ UNCHANGED <<satellite, rank, requestQueue, availableEngineers, newRequest, being_served,
                 freed>>

(* and moves the others up; the queue size of an empty queue becomes -1. *)
Shift(e) ==
  /\ EngMoves(e, "shift", "mark")
  /\ broken' = (requestQueue = <<>>)
  /\ requestQueue' = IF requestQueue = <<>> THEN <<>> ELSE Tail(requestQueue)
  /\ Disturbs(Engs \ {e})
  /\ UNCHANGED <<satellite, rank, availableEngineers, newRequest, held, being_served, freed>>

Mark(e) ==
  /\ EngMoves(e, "mark", "serve")
  /\ availableEngineers' = availableEngineers - 1
  /\ being_served' = being_served \cup {held[e]}
  /\ broken' = (held[e] \in freed)
  /\ UNCHANGED <<satellite, rank, requestQueue, newRequest, held, freed, raced>>

Finish(e) ==
  /\ EngMoves(e, "serve", "free")
  /\ availableEngineers' = availableEngineers + 1
  /\ UNCHANGED <<satellite, rank, requestQueue, newRequest, held, being_served, freed, raced,
                 broken>>

Free(e) ==
  /\ EngMoves(e, "free", "leave")
  /\ broken' = (held[e] \in freed)
  /\ freed' = freed \cup {held[e]}
  /\ held' = [held EXCEPT ![e] = NoRequest]
  /\ UNCHANGED <<satellite, rank, requestQueue, availableEngineers, newRequest, being_served,
                 raced>>

(* With nothing left in the queue it wakes the others and ends. *)
Leave(e) ==
  /\ EngMoves(e, "leave", IF requestQueue = <<>> THEN "end" ELSE "wait")
  /\ newRequest' = newRequest + IF requestQueue = <<>> THEN Cardinality(Engs) - 1 ELSE 0
  /\ UNCHANGED <<satellite, rank, requestQueue, availableEngineers, held, being_served, freed,
                 raced, broken>>
-----------------------------------------------------------------------------
SatStep(s) == Request(s) \/ Post(s) \/ Connect(s) \/ Late(s) \/ GiveUp(s)
EngStep(e) ==
  \/ Wake(e) \/ Test(e) \/ Retest(e) \/ Take(e) \/ Shift(e) \/ Mark(e) \/ Finish(e)
  \/ Free(e) \/ Leave(e)

Next == (\E s \in Sats : SatStep(s)) \/ (\E e \in Engs : EngStep(e))
Spec == Init /\ [][Next]_svars
-----------------------------------------------------------------------------
(* Properties. *)

(* Unless an engineer's test and pop overlap with another change of the      *)
(* queue, as the missing lock of main.c:142-143 allows, a request is in one place: *)
(* queued once, or held by one engineer, or freed; it is not freed twice nor *)
(* used after it, whoever gives up and whoever serves when.                  *)
RequestsAccounted ==
  ~raced =>
    /\ ~broken
    /\ IsInjective(requestQueue)
    /\ \A e \in Engs : held[e] # NoRequest =>
         /\ held[e] \notin freed
         /\ \A f \in Engs \ {e} : held[f] # held[e]
         /\ held[e] \in ToSet(requestQueue) => engineer[e] = "shift"
    /\ ToSet(requestQueue) \cap freed = {}
=============================================================================
