--------------------------- MODULE SatellitesProofs ---------------------------
(* The requests of Satellites, for any threads and ranks of urgency: the     *)
(* queue's operations keep every request once, and the requests are          *)
(* accounted for as long as no engineer's pop was overlapped.                *)
(* The module extends Programs, of which Satellites is a part.               *)
EXTENDS Programs, FiniteSetTheorems, TLAPS

(* Engineers are finitely many threads, and no thread is NULL. *)
SatThreads == IsFiniteSet(Engs) /\ Sat!NoRequest \notin Sats

(* An engineer that has a request. *)
Holding(e) == engineer[e] \in {"shift", "mark", "serve", "free"}

(* Only a satellite that has made its request has one anywhere. *)
RequestsMade ==
  /\ \A s \in Sat!ToSet(requestQueue) \cup freed : satellite[s] # "start"
  /\ \A e \in Engs : held[e] # Sat!NoRequest => satellite[held[e]] # "start"

HeldWhileHolding ==
  \A e \in Engs : held[e] # Sat!NoRequest <=> Holding(e)

(* What an engineer saw in its unlocked test and pop is still so.            *)
PopsAlone ==
  \A e \in Engs :
    /\ engineer[e] = "take" => requestQueue # <<>>
    /\ engineer[e] = "shift" => requestQueue # <<>> /\ held[e] = requestQueue[1]

(* An engineer never goes on with NULL. *)
HoldersHold == ~broken => \A e \in Engs : Holding(e) => held[e] \in Sats

Accounts == RequestsMade /\ HeldWhileHolding /\ PopsAlone /\ Sat!RequestsAccounted

SatInv == Sat!TypeOK /\ HoldersHold /\ (~raced => Accounts)
-----------------------------------------------------------------------------
(* The operations on the queue. *)

LEMMA SatCardinality == \A S : Sat!Cardinality(S) = Cardinality(S)
BY DEF Sat!Cardinality, Cardinality

LEMMA QueueConcatenated ==
  ASSUME NEW S, NEW a \in Seq(S), NEW b \in Seq(S)
  PROVE  /\ a \o b \in Seq(S) /\ Len(a \o b) = Len(a) + Len(b)
         /\ DOMAIN (a \o b) = 1 .. Len(a) + Len(b)
         /\ \A i \in 1 .. Len(a) + Len(b) : (a \o b)[i] = IF i <= Len(a) THEN a[i] ELSE b[i - Len(a)]
OBVIOUS

LEMMA RequestInserted ==
  ASSUME NEW S, NEW q \in Seq(S), NEW s \in S, NEW k \in 1 .. Len(q) + 1
  PROVE  /\ Sat!InsertAt(q, k, s) \in Seq(S)
         /\ Sat!ToSet(Sat!InsertAt(q, k, s)) = Sat!ToSet(q) \cup {s}
         /\ s \notin Sat!ToSet(q) /\ Sat!IsInjective(q) => Sat!IsInjective(Sat!InsertAt(q, k, s))
<1> DEFINE u == SubSeq(q, 1, k - 1)
           v == SubSeq(q, k, Len(q))
           t == Sat!InsertAt(q, k, s)
<1>1. t = u \o <<s>> \o v
  BY DEF Sat!InsertAt
<1>2. /\ u \in Seq(S) /\ Len(u) = k - 1 /\ \A i \in 1 .. k - 1 : u[i] = q[i]
      /\ v \in Seq(S) /\ Len(v) = Len(q) - k + 1 /\ \A i \in 1 .. Len(q) - k + 1 : v[i] = q[i + k - 1]
      /\ Len(q) \in Nat /\ DOMAIN q = 1 .. Len(q) /\ k \in Int
  OBVIOUS
<1>3. /\ t \in Seq(S) /\ Len(t) = Len(q) + 1 /\ DOMAIN t = 1 .. Len(q) + 1
      /\ \A i \in 1 .. Len(q) + 1 : t[i] = IF i < k THEN q[i] ELSE IF i = k THEN s ELSE q[i - 1]
  <2> HIDE DEF u, v, t
  <2> DEFINE w == u \o <<s>>
  <2>1. <<s>> \in Seq(S) /\ Len(<<s>>) = 1 /\ <<s>>[1] = s
    OBVIOUS
  <2>2. /\ w \in Seq(S) /\ Len(w) = k
        /\ \A i \in 1 .. k : w[i] = IF i < k THEN q[i] ELSE s
    <3>1. /\ w \in Seq(S) /\ Len(w) = Len(u) + Len(<<s>>)
          /\ \A i \in 1 .. Len(u) + Len(<<s>>) : w[i] = IF i <= Len(u) THEN u[i] ELSE <<s>>[i - Len(u)]
      BY <1>2, <2>1, QueueConcatenated
    <3>2. QED BY SMTT(30), <1>2, <2>1, <3>1
  <2> HIDE DEF w
  <2>3. /\ t \in Seq(S) /\ Len(t) = Len(w) + Len(v) /\ DOMAIN t = 1 .. Len(w) + Len(v)
        /\ \A i \in 1 .. Len(w) + Len(v) : t[i] = IF i <= Len(w) THEN w[i] ELSE v[i - Len(w)]
    <3>1. t = w \o v
      BY <1>1 DEF w
    <3>2. QED BY <1>2, <2>2, <3>1, QueueConcatenated
  <2>4. ASSUME NEW i \in 1 .. Len(q) + 1, i > k
        PROVE  v[i - k] = q[i - 1]
    <3>1. i - k \in 1 .. Len(q) - k + 1 /\ (i - k) + k - 1 = i - 1
      BY <1>2, <2>4
    <3>2. QED BY <1>2, <3>1
  <2>5. Len(w) + Len(v) = Len(q) + 1
    BY <1>2, <2>2
  <2>6. ASSUME NEW i \in 1 .. Len(q) + 1
        PROVE  t[i] = IF i < k THEN q[i] ELSE IF i = k THEN s ELSE q[i - 1]
    <3>1. CASE i > k
      <4>1. i \in 1 .. Len(w) + Len(v) /\ ~(i <= Len(w))
        BY <1>2, <2>2, <2>5, <2>6, <3>1
      <4>2. t[i] = v[i - k]
        BY <2>2, <2>3, <4>1
      <4>3. t[i] = q[i - 1] /\ ~(i < k) /\ i # k
        BY <1>2, <2>4, <2>6, <3>1, <4>2
      <4>4. QED BY <4>3
    <3>2. CASE i <= k
      BY <1>2, <2>2, <2>3, <2>5, <2>6, <3>2
    <3>3. QED BY <1>2, <3>1, <3>2
  <2>7. QED BY <2>3, <2>5, <2>6
<1> HIDE DEF u, v, t
<1>4. Sat!ToSet(t) = Sat!ToSet(q) \cup {s}
  <2>1. ASSUME NEW i \in 1 .. Len(q)
        PROVE  q[i] \in Sat!ToSet(t)
    <3>1. CASE i < k
      <4>1. t[i] = q[i] /\ i \in DOMAIN t
        BY <1>2, <1>3, <2>1, <3>1
      <4>2. QED BY <4>1 DEF Sat!ToSet
    <3>2. CASE i >= k
      <4>1. t[i + 1] = q[i] /\ i + 1 \in DOMAIN t
        BY <1>2, <1>3, <2>1, <3>2
      <4>2. QED BY <4>1 DEF Sat!ToSet
    <3>3. QED BY <1>2, <2>1, <3>1, <3>2
  <2>2. s \in Sat!ToSet(t)
    <3>1. t[k] = s /\ k \in DOMAIN t
      BY <1>2, <1>3
    <3>2. QED BY <3>1 DEF Sat!ToSet
  <2>3. ASSUME NEW i \in 1 .. Len(q) + 1
        PROVE  t[i] \in Sat!ToSet(q) \cup {s}
    <3>1. i < k => i \in DOMAIN q /\ t[i] = q[i]
      BY <1>2, <1>3, <2>3
    <3>2. i > k => i - 1 \in DOMAIN q /\ t[i] = q[i - 1]
      BY <1>2, <1>3, <2>3
    <3>3. i = k => t[i] = s
      BY <1>2, <1>3, <2>3
    <3>4. CASE i < k
      BY <3>1, <3>4 DEF Sat!ToSet
    <3>5. CASE i > k
      BY <3>2, <3>5 DEF Sat!ToSet
    <3>6. QED BY <1>2, <3>3, <3>4, <3>5
  <2>4. \A x \in Sat!ToSet(t) : x \in Sat!ToSet(q) \cup {s}
    BY <1>3, <2>3 DEF Sat!ToSet
  <2>5. \A x \in Sat!ToSet(q) : x \in Sat!ToSet(t)
    BY <1>2, <2>1 DEF Sat!ToSet
  <2>6. QED BY <2>2, <2>4, <2>5
<1>5. ASSUME s \notin Sat!ToSet(q), Sat!IsInjective(q)
      PROVE  Sat!IsInjective(t)
  <2>1. \A i, j \in 1 .. Len(q) : q[i] = q[j] => i = j
    BY <1>5 DEF Sat!IsInjective
  <2>2. \A i \in 1 .. Len(q) : q[i] # s
    BY <1>5 DEF Sat!ToSet
  <2>3. ASSUME NEW i \in 1 .. Len(q) + 1, NEW j \in 1 .. Len(q) + 1, t[i] = t[j]
        PROVE  i = j
    BY <1>2, <1>3, <2>1, <2>2, <2>3
  <2>4. QED BY <1>3, <2>3 DEF Sat!IsInjective
<1>6. QED BY <1>3, <1>4, <1>5 DEF t

LEMMA Removed ==
  ASSUME NEW S, NEW q \in Seq(S), NEW k \in 1 .. Len(q)
  PROVE  /\ Sat!RemoveAt(q, k) \in Seq(S)
         /\ Sat!ToSet(Sat!RemoveAt(q, k)) \subseteq Sat!ToSet(q)
         /\ Sat!IsInjective(q) =>
              Sat!IsInjective(Sat!RemoveAt(q, k)) /\ q[k] \notin Sat!ToSet(Sat!RemoveAt(q, k))
<1> DEFINE u == SubSeq(q, 1, k - 1)
           v == SubSeq(q, k + 1, Len(q))
           t == Sat!RemoveAt(q, k)
<1>1. t = u \o v
  BY DEF Sat!RemoveAt
<1>2. /\ u \in Seq(S) /\ Len(u) = k - 1 /\ \A i \in 1 .. k - 1 : u[i] = q[i]
      /\ v \in Seq(S) /\ Len(v) = Len(q) - k /\ \A i \in 1 .. Len(q) - k : v[i] = q[i + k]
      /\ Len(q) \in Nat /\ DOMAIN q = 1 .. Len(q) /\ k \in Int
  OBVIOUS
<1>3. /\ t \in Seq(S) /\ Len(t) = Len(q) - 1 /\ DOMAIN t = 1 .. Len(q) - 1
      /\ \A i \in 1 .. Len(q) - 1 : t[i] = IF i < k THEN q[i] ELSE q[i + 1]
  <2> HIDE DEF u, v, t
  <2>1. /\ t \in Seq(S) /\ Len(t) = Len(u) + Len(v) /\ DOMAIN t = 1 .. Len(u) + Len(v)
        /\ \A i \in 1 .. Len(u) + Len(v) : t[i] = IF i <= Len(u) THEN u[i] ELSE v[i - Len(u)]
    <3>1. u \in Seq(S) /\ v \in Seq(S)
      BY <1>2
    <3>2. /\ u \o v \in Seq(S) /\ Len(u \o v) = Len(u) + Len(v)
          /\ DOMAIN (u \o v) = 1 .. Len(u) + Len(v)
          /\ \A i \in 1 .. Len(u) + Len(v) : (u \o v)[i] = IF i <= Len(u) THEN u[i] ELSE v[i - Len(u)]
      BY <3>1, QueueConcatenated
    <3>3. QED BY <1>1, <3>2
  <2>2. Len(u) + Len(v) = Len(q) - 1
    BY <1>2
  <2>3. ASSUME NEW i \in 1 .. Len(q) - 1, i >= k
        PROVE  v[i - (k - 1)] = q[i + 1]
    <3>1. i - (k - 1) \in 1 .. Len(q) - k /\ (i - (k - 1)) + k = i + 1
      BY <1>2, <2>3
    <3>2. QED BY <1>2, <3>1
  <2>4. ASSUME NEW i \in 1 .. Len(q) - 1
        PROVE  t[i] = IF i < k THEN q[i] ELSE q[i + 1]
    <3>1. CASE i >= k
      <4>1. i \in 1 .. Len(u) + Len(v) /\ ~(i <= Len(u))
        BY <1>2, <2>2, <2>4, <3>1
      <4>2. t[i] = v[i - (k - 1)]
        BY <1>2, <2>1, <4>1
      <4>3. t[i] = q[i + 1] /\ ~(i < k)
        BY SMTT(30), <1>2, <2>3, <2>4, <3>1, <4>2
      <4>4. QED BY <4>3
    <3>2. CASE i < k
      BY SMTT(30), <1>2, <2>1, <2>2, <2>4, <3>2
    <3>3. QED BY <1>2, <3>1, <3>2
  <2>5. QED BY <2>1, <2>2, <2>4
<1> HIDE DEF u, v, t
<1>4. Sat!ToSet(t) \subseteq Sat!ToSet(q)
  <2>1. ASSUME NEW i \in 1 .. Len(q) - 1
        PROVE  \E j \in 1 .. Len(q) : t[i] = q[j]
    <3>1. i \in 1 .. Len(q) /\ i + 1 \in 1 .. Len(q)
      BY <1>2, <2>1
    <3>2. t[i] = q[i] \/ t[i] = q[i + 1]
      BY <1>3, <2>1
    <3>3. QED BY <3>1, <3>2
  <2>2. ASSUME NEW i \in DOMAIN t
        PROVE  t[i] \in Sat!ToSet(q)
    BY <1>2, <1>3, <2>1, <2>2 DEF Sat!ToSet
  <2>3. QED BY <2>2 DEF Sat!ToSet
<1>5. ASSUME Sat!IsInjective(q)
      PROVE  Sat!IsInjective(t) /\ q[k] \notin Sat!ToSet(t)
  <2>1. \A i, j \in 1 .. Len(q) : q[i] = q[j] => i = j
    BY <1>5 DEF Sat!IsInjective
  <2>2. ASSUME NEW i \in 1 .. Len(q) - 1, NEW j \in 1 .. Len(q) - 1, t[i] = t[j]
        PROVE  i = j
    BY <1>2, <1>3, <2>1, <2>2
  <2>3. \A i \in 1 .. Len(q) - 1 : t[i] # q[k]
    BY <1>2, <1>3, <2>1
  <2>4. QED BY <1>3, <2>2, <2>3 DEF Sat!IsInjective, Sat!ToSet
<1>6. QED BY <1>3, <1>4, <1>5 DEF t

LEMMA FirstGone ==
  ASSUME NEW S, NEW q \in Seq(S), q # <<>>
  PROVE  /\ Tail(q) \in Seq(S) /\ q[1] \in S
         /\ Sat!ToSet(Tail(q)) \subseteq Sat!ToSet(q) /\ q[1] \in Sat!ToSet(q)
         /\ Sat!IsInjective(q) => Sat!IsInjective(Tail(q)) /\ q[1] \notin Sat!ToSet(Tail(q))
<1>1. /\ Tail(q) \in Seq(S) /\ Len(q) \in Nat \ {0} /\ Len(Tail(q)) = Len(q) - 1
      /\ \A i \in 1 .. Len(q) - 1 : Tail(q)[i] = q[i + 1]
      /\ DOMAIN Tail(q) = 1 .. Len(q) - 1 /\ DOMAIN q = 1 .. Len(q)
  OBVIOUS
<1>2. q[1] \in S /\ q[1] \in Sat!ToSet(q)
  BY <1>1 DEF Sat!ToSet
<1>3. Sat!ToSet(Tail(q)) \subseteq Sat!ToSet(q)
  BY <1>1 DEF Sat!ToSet
<1>4. ASSUME Sat!IsInjective(q)
      PROVE  Sat!IsInjective(Tail(q)) /\ q[1] \notin Sat!ToSet(Tail(q))
  <2>1. \A i, j \in 1 .. Len(q) : q[i] = q[j] => i = j
    BY <1>1, <1>4 DEF Sat!IsInjective
  <2>2. QED BY <1>1, <2>1 DEF Sat!IsInjective, Sat!ToSet
<1>5. QED BY <1>1, <1>2, <1>3, <1>4

(* A request gets into the queue somewhere behind those as urgent. *)
LEMMA Queued ==
  ASSUME NEW q \in Seq(Sats), NEW s \in Sats, NEW r
  PROVE  \E k \in 1 .. Len(q) + 1 : Sat!AddToQueue(q, s, r) = Sat!InsertAt(q, k, s)
<1> DEFINE A == {i \in DOMAIN q : \A j \in i .. Len(q) : rank[q[j]] > r}
<1>1. IsFiniteSet(1 .. Len(q)) /\ Cardinality(1 .. Len(q)) = Len(q)
  <2>1. Len(q) \in Nat
    OBVIOUS
  <2>2. QED BY SMTT(30), <2>1, FS_Interval
<1>2. A \in SUBSET (1 .. Len(q))
  OBVIOUS
<1>3. Cardinality(A) \in Nat /\ Cardinality(A) <= Len(q)
  BY <1>1, <1>2, FS_Subset, FS_CardinalityType
<1>4. Sat!AddToQueue(q, s, r) = Sat!InsertAt(q, Len(q) - Cardinality(A) + 1, s)
  BY SatCardinality DEF Sat!AddToQueue
<1>5. Len(q) - Cardinality(A) + 1 \in 1 .. Len(q) + 1
  BY <1>3
<1>6. QED BY <1>4, <1>5
-----------------------------------------------------------------------------
(* The invariant. *)

LEMMA SatInitially == ASSUME SatThreads PROVE Sat!Init => SatInv
<1> SUFFICES ASSUME Sat!Init PROVE SatInv
  OBVIOUS
<1>1. Sat!TypeOK
  <2>1. requestQueue \in Seq(Sats) /\ newRequest \in Nat
    BY DEF Sat!Init
  <2>2. Cardinality(Engs) \in Nat
    BY FS_CardinalityType DEF SatThreads
  <2>3. availableEngineers \in Int
    BY <2>2, SatCardinality DEF Sat!Init
  <2>4. /\ satellite \in [Sats -> {"start", "post", "poll", "late", "end"}]
        /\ engineer \in [Engs -> {"wait", "test", "take", "shift", "retest", "mark", "serve",
                                  "free", "leave", "end"}]
        /\ held \in [Engs -> Sats \cup {Sat!NoRequest}]
    BY DEF Sat!Init
  <2>5. rank \in [Sats -> Ranks \cup {0}]
    BY DEF Sat!Init
  <2>6. QED BY <2>1, <2>3, <2>4, <2>5 DEF Sat!Init, Sat!TypeOK
<1>2. requestQueue = <<>> /\ freed = {} /\ ~broken /\ \A e \in Engs : held[e] = Sat!NoRequest /\ engineer[e] = "wait"
  BY DEF Sat!Init
<1>3. Sat!ToSet(requestQueue) = {} /\ Sat!IsInjective(requestQueue)
  BY <1>2 DEF Sat!ToSet, Sat!IsInjective
<1>4. RequestsMade /\ HeldWhileHolding /\ PopsAlone
  BY <1>2, <1>3 DEF RequestsMade, HeldWhileHolding, PopsAlone, Holding
<1>5. Sat!RequestsAccounted
  BY <1>2, <1>3 DEF Sat!RequestsAccounted
<1>6. HoldersHold
  BY <1>2 DEF HoldersHold, Holding
<1>7. QED BY <1>1, <1>4, <1>5, <1>6 DEF SatInv, Accounts

LEMMA SatTypesKept ==
  ASSUME SatThreads, Sat!TypeOK, HoldersHold, Sat!Next
  PROVE  Sat!TypeOK'
<1> USE DEF Sat!SatMoves, Sat!EngMoves
<1> DEFINE SatPlaces == {"start", "post", "poll", "late", "end"}
           EngPlaces == {"wait", "test", "take", "shift", "retest", "mark", "serve", "free",
                         "leave", "end"}
<1>1. /\ satellite \in [Sats -> SatPlaces] /\ engineer \in [Engs -> EngPlaces]
      /\ rank \in [Sats -> Ranks \cup {0}] /\ requestQueue \in Seq(Sats)
      /\ availableEngineers \in Int /\ newRequest \in Nat
      /\ held \in [Engs -> Sats \cup {Sat!NoRequest}]
      /\ being_served \subseteq Sats /\ freed \subseteq Sats /\ raced \in BOOLEAN /\ broken \in BOOLEAN
  BY DEF Sat!TypeOK
<1>2. ASSUME NEW s \in Sats, Sat!Request(s)
      PROVE  Sat!TypeOK'
  <2>1. PICK r \in Ranks : /\ rank' = [rank EXCEPT ![s] = r]
                           /\ requestQueue' = Sat!AddToQueue(requestQueue, s, r)
    BY <1>2 DEF Sat!Request
  <2>2. requestQueue' \in Seq(Sats)
    BY <1>1, <2>1, Queued, RequestInserted
  <2>3. satellite' \in [Sats -> SatPlaces]
    BY <1>1, <1>2 DEF Sat!Request
  <2>4. rank' \in [Sats -> Ranks \cup {0}]
    BY <1>1, <2>1
  <2>5. raced' \in BOOLEAN
    BY <1>1, <1>2 DEF Sat!Request, Sat!Disturbs
  <2>6. QED BY <1>1, <1>2, <2>2, <2>3, <2>4, <2>5 DEF Sat!Request, Sat!TypeOK
<1>3. ASSUME NEW s \in Sats, Sat!Post(s) \/ Sat!Connect(s) \/ Sat!Late(s)
      PROVE  Sat!TypeOK'
  <2>1. satellite' \in [Sats -> SatPlaces]
    BY <1>1, <1>3 DEF Sat!Post, Sat!Connect, Sat!Late
  <2>2. newRequest' \in Nat
    BY <1>1, <1>3 DEF Sat!Post, Sat!Connect, Sat!Late
  <2>3. QED BY <1>1, <1>3, <2>1, <2>2 DEF Sat!Post, Sat!Connect, Sat!Late, Sat!TypeOK
<1>4. ASSUME NEW s \in Sats, Sat!GiveUp(s)
      PROVE  Sat!TypeOK'
  <2>1. requestQueue' \in Seq(Sats)
    BY <1>1, <1>4, Removed DEF Sat!GiveUp
  <2>2. satellite' \in [Sats -> SatPlaces]
    BY <1>1, <1>4 DEF Sat!GiveUp
  <2>3. freed' \subseteq Sats
    BY <1>1, <1>4 DEF Sat!GiveUp
  <2>4. raced' \in BOOLEAN /\ broken' \in BOOLEAN
    BY <1>1, <1>4 DEF Sat!GiveUp, Sat!Disturbs
  <2>5. QED BY <1>1, <1>4, <2>1, <2>2, <2>3, <2>4 DEF Sat!GiveUp, Sat!TypeOK
<1>5. ASSUME NEW e \in Engs, Sat!Wake(e) \/ Sat!Test(e) \/ Sat!Retest(e) \/ Sat!Finish(e) \/ Sat!Leave(e)
      PROVE  Sat!TypeOK'
  <2>1. engineer' \in [Engs -> EngPlaces]
    BY <1>1, <1>5 DEF Sat!Wake, Sat!Test, Sat!Retest, Sat!Finish, Sat!Leave
  <2>2. availableEngineers' \in Int
    BY <1>1, <1>5 DEF Sat!Wake, Sat!Test, Sat!Retest, Sat!Finish, Sat!Leave
  <2>3. Sat!Cardinality(Engs) \in Nat \ {0}
    <3>1. Cardinality(Engs) \in Nat /\ (Cardinality(Engs) = 0 => Engs = {})
      BY FS_CardinalityType, FS_EmptySet DEF SatThreads
    <3>2. QED BY <3>1, SatCardinality
  <2>4. newRequest' \in Nat
    BY <1>1, <1>5, <2>3 DEF Sat!Wake, Sat!Test, Sat!Retest, Sat!Finish, Sat!Leave
  <2>5. QED BY <1>1, <1>5, <2>1, <2>2, <2>4 DEF Sat!Wake, Sat!Test, Sat!Retest, Sat!Finish, Sat!Leave, Sat!TypeOK
<1>6. ASSUME NEW e \in Engs, Sat!Take(e) \/ Sat!Shift(e)
      PROVE  Sat!TypeOK'
  <2>1. engineer' \in [Engs -> EngPlaces]
    BY <1>1, <1>6 DEF Sat!Take, Sat!Shift
  <2>2. requestQueue' \in Seq(Sats) /\ (requestQueue # <<>> => requestQueue[1] \in Sats)
    <3>1. requestQueue # <<>> => Tail(requestQueue) \in Seq(Sats) /\ requestQueue[1] \in Sats
      BY <1>1, FirstGone
    <3>2. \/ requestQueue' = requestQueue
          \/ requestQueue # <<>> /\ requestQueue' = Tail(requestQueue)
      BY <1>6 DEF Sat!Take, Sat!Shift
    <3>3. QED BY <1>1, <3>1, <3>2
  <2>3. held' \in [Engs -> Sats \cup {Sat!NoRequest}]
    BY <1>1, <1>6, <2>2 DEF Sat!Take, Sat!Shift
  <2>4. raced' \in BOOLEAN /\ broken' \in BOOLEAN
    BY <1>1, <1>6 DEF Sat!Take, Sat!Shift, Sat!Disturbs
  <2>5. QED BY <1>1, <1>6, <2>1, <2>2, <2>3, <2>4 DEF Sat!Take, Sat!Shift, Sat!TypeOK
<1>7. ASSUME NEW e \in Engs, Sat!Mark(e) \/ Sat!Free(e)
      PROVE  Sat!TypeOK'
  <2>1. engineer' \in [Engs -> EngPlaces]
    BY <1>1, <1>7 DEF Sat!Mark, Sat!Free
  <2>2. held[e] \in Sats
    BY <1>7 DEF HoldersHold, Holding, Sat!Mark, Sat!Free
  <2>3. held' \in [Engs -> Sats \cup {Sat!NoRequest}] /\ availableEngineers' \in Int
    BY <1>1, <1>7 DEF Sat!Mark, Sat!Free
  <2>4. being_served' \subseteq Sats /\ freed' \subseteq Sats /\ broken' \in BOOLEAN
    <3>1. being_served' \subseteq Sats
      BY <1>1, <1>7, <2>2 DEF Sat!Mark, Sat!Free
    <3>2. freed' \subseteq Sats
      BY <1>1, <1>7, <2>2 DEF Sat!Mark, Sat!Free
    <3>3. broken' \in BOOLEAN
      <4>1. broken' = (held[e] \in freed)
        BY <1>7 DEF Sat!Mark, Sat!Free
      <4>2. QED BY <4>1
    <3>4. QED BY <3>1, <3>2, <3>3
  <2>5. QED BY <1>1, <1>7, <2>1, <2>3, <2>4 DEF Sat!Mark, Sat!Free, Sat!TypeOK
<1>8. QED BY <1>2, <1>3, <1>4, <1>5, <1>6, <1>7 DEF Sat!Next, Sat!SatStep, Sat!EngStep

LEMMA SatHoldersHold ==
  ASSUME Sat!TypeOK, HoldersHold, Sat!Next
  PROVE  HoldersHold'
<1> USE DEF Sat!SatMoves, Sat!EngMoves
<1>1. /\ engineer \in [Engs -> {"wait", "test", "take", "shift", "retest", "mark", "serve", "free",
                                "leave", "end"}]
      /\ held \in [Engs -> Sats \cup {Sat!NoRequest}] /\ requestQueue \in Seq(Sats)
  BY DEF Sat!TypeOK
<1>2. ASSUME NEW s \in Sats, Sat!SatStep(s)
      PROVE  HoldersHold'
  <2>1. ~broken /\ engineer' = engineer /\ held' = held
    BY <1>2 DEF Sat!SatStep, Sat!Request, Sat!Post, Sat!Connect, Sat!Late, Sat!GiveUp
  <2>2. QED BY <2>1 DEF HoldersHold, Holding
<1>3. ASSUME NEW e \in Engs, Sat!Wake(e) \/ Sat!Test(e) \/ Sat!Retest(e) \/ Sat!Leave(e)
      PROVE  HoldersHold'
  <2>1. /\ ~broken /\ held' = held /\ \A f \in Engs \ {e} : engineer'[f] = engineer[f]
        /\ engineer'[e] \in {"wait", "test", "take", "retest", "end"}
    BY <1>1, <1>3 DEF Sat!Wake, Sat!Test, Sat!Retest, Sat!Leave
  <2>2. QED BY <2>1 DEF HoldersHold, Holding
<1>4. ASSUME NEW e \in Engs, Sat!Shift(e) \/ Sat!Mark(e) \/ Sat!Finish(e)
      PROVE  HoldersHold'
  <2>1. ~broken /\ held' = held /\ Holding(e) /\ \A f \in Engs \ {e} : engineer'[f] = engineer[f]
    BY <1>1, <1>4 DEF Sat!Shift, Sat!Mark, Sat!Finish, Holding
  <2>2. QED BY <2>1 DEF HoldersHold, Holding
<1>5. ASSUME NEW e \in Engs, Sat!Take(e) \/ Sat!Free(e)
      PROVE  HoldersHold'
  <2>1. /\ ~broken /\ \A f \in Engs \ {e} : engineer'[f] = engineer[f] /\ held'[f] = held[f]
    BY <1>1, <1>5 DEF Sat!Take, Sat!Free
  <2>2. ~broken' => engineer'[e] = "leave" \/ held'[e] \in Sats
    BY <1>1, <1>5, FirstGone DEF Sat!Take, Sat!Free
  <2>3. QED BY <2>1, <2>2 DEF HoldersHold, Holding
<1>6. QED BY <1>2, <1>3, <1>4, <1>5 DEF Sat!Next, Sat!EngStep

(* What a step keeps in every state, before its effect on the requests. *)
LEMMA SatCalm ==
  ASSUME SatInv, Sat!Next, ~raced'
  PROVE  /\ ~raced /\ ~broken /\ Accounts
         /\ Sat!IsInjective(requestQueue) /\ Sat!ToSet(requestQueue) \cap freed = {}
         /\ \A e \in Engs : held[e] # Sat!NoRequest =>
              /\ held[e] \notin freed
              /\ \A f \in Engs \ {e} : held[f] # held[e]
              /\ held[e] \in Sat!ToSet(requestQueue) => engineer[e] = "shift"
<1>1. ~raced
  BY DEF Sat!Next, Sat!SatStep, Sat!EngStep, Sat!Request, Sat!Post, Sat!Connect, Sat!Late,
         Sat!GiveUp, Sat!Wake, Sat!Test, Sat!Retest, Sat!Take, Sat!Shift, Sat!Mark, Sat!Finish,
         Sat!Free, Sat!Leave, Sat!Disturbs
<1>2. QED BY <1>1 DEF SatInv, Accounts, Sat!RequestsAccounted

(* The satellites' steps keep the requests accounted for. *)
LEMMA SatelliteKeepsAccounts ==
  ASSUME SatThreads, SatInv, NEW s \in Sats, Sat!SatStep(s), ~raced'
  PROVE  Accounts'
<1> USE DEF Sat!SatMoves
<1>1. /\ satellite \in [Sats -> {"start", "post", "poll", "late", "end"}]
      /\ engineer \in [Engs -> {"wait", "test", "take", "shift", "retest", "mark", "serve", "free",
                                "leave", "end"}]
      /\ held \in [Engs -> Sats \cup {Sat!NoRequest}] /\ requestQueue \in Seq(Sats)
      /\ freed \subseteq Sats
  BY DEF Sat!TypeOK, SatInv
<1>2. /\ ~raced /\ ~broken /\ Accounts
      /\ Sat!IsInjective(requestQueue) /\ Sat!ToSet(requestQueue) \cap freed = {}
      /\ \A e \in Engs : held[e] # Sat!NoRequest =>
           /\ held[e] \notin freed
           /\ \A f \in Engs \ {e} : held[f] # held[e]
           /\ held[e] \in Sat!ToSet(requestQueue) => engineer[e] = "shift"
  BY SatCalm DEF Sat!Next
<1>3. engineer' = engineer /\ held' = held
  BY DEF Sat!SatStep, Sat!Request, Sat!Post, Sat!Connect, Sat!Late, Sat!GiveUp
<1>4. HeldWhileHolding'
  BY <1>2, <1>3 DEF Accounts, HeldWhileHolding, Holding
<1>5. \A t \in Sats : satellite'[t] = "start" => satellite[t] = "start" /\ t # s
  BY <1>1 DEF Sat!SatStep, Sat!Request, Sat!Post, Sat!Connect, Sat!Late, Sat!GiveUp
<1>6. CASE requestQueue' = requestQueue /\ freed' = freed /\ ~broken'
  <2>1. RequestsMade'
    BY <1>1, <1>2, <1>3, <1>5, <1>6 DEF Accounts, RequestsMade, Sat!ToSet
  <2>2. PopsAlone'
    BY <1>2, <1>3, <1>6 DEF Accounts, PopsAlone
  <2>3. Sat!RequestsAccounted'
    BY <1>2, <1>3, <1>6 DEF Sat!RequestsAccounted, Sat!ToSet, Sat!IsInjective
  <2>4. QED BY <1>4, <2>1, <2>2, <2>3 DEF Accounts
<1>7. CASE Sat!Request(s)
  <2>1. \A e \in Engs : engineer[e] \notin {"take", "shift"}
    BY <1>7 DEF Sat!Request, Sat!Disturbs
  <2>2. PICK r \in Ranks : requestQueue' = Sat!AddToQueue(requestQueue, s, r)
    BY <1>7 DEF Sat!Request
  <2>3. satellite[s] = "start" /\ satellite'[s] = "post" /\ freed' = freed /\ ~broken'
    BY <1>1, <1>2, <1>7 DEF Sat!Request
  <2>4. s \notin Sat!ToSet(requestQueue) \cup freed /\ \A e \in Engs : held[e] # s
    BY <1>1, <1>2, <2>3 DEF Accounts, RequestsMade, SatThreads
  <2>5. Sat!ToSet(requestQueue') = Sat!ToSet(requestQueue) \cup {s} /\ Sat!IsInjective(requestQueue')
    BY <1>1, <1>2, <2>2, <2>4, Queued, RequestInserted
  <2>6. RequestsMade'
    <3>1. \A t \in Sat!ToSet(requestQueue) \cup freed : satellite'[t] # "start"
      BY <1>1, <1>2, <1>5 DEF Accounts, RequestsMade, Sat!ToSet
    <3>2. \A e \in Engs : held[e] # Sat!NoRequest => satellite'[held[e]] # "start"
      BY <1>1, <1>2, <1>5 DEF Accounts, RequestsMade
    <3>3. \A t \in Sat!ToSet(requestQueue') \cup freed' : satellite'[t] # "start"
      BY <2>3, <2>5, <3>1
    <3>4. QED BY <1>3, <3>2, <3>3 DEF RequestsMade, Sat!ToSet
  <2>7. PopsAlone'
    BY <1>3, <2>1 DEF PopsAlone
  <2>8. Sat!RequestsAccounted'
    <3>1. Sat!ToSet(requestQueue') \cap freed' = {}
      BY <1>2, <2>3, <2>4, <2>5
    <3>2. \A e \in Engs : held'[e] # Sat!NoRequest =>
            /\ held'[e] \notin freed'
            /\ \A f \in Engs \ {e} : held'[f] # held'[e]
            /\ held'[e] \in Sat!ToSet(requestQueue') => engineer'[e] = "shift"
      BY <1>2, <1>3, <2>3, <2>4, <2>5
    <3>3. QED BY <2>3, <2>5, <3>1, <3>2 DEF Sat!RequestsAccounted, Sat!ToSet, Sat!IsInjective
  <2>9. QED BY <1>4, <2>6, <2>7, <2>8 DEF Accounts
<1>8. CASE Sat!GiveUp(s) /\ s \in Sat!ToSet(requestQueue) /\ s \notin being_served
  <2>1. \A e \in Engs : engineer[e] \notin {"take", "shift"}
    BY <1>8 DEF Sat!GiveUp, Sat!Disturbs
  <2>2. PICK i \in DOMAIN requestQueue :
          requestQueue[i] = s /\ requestQueue' = Sat!RemoveAt(requestQueue, i)
    BY <1>8 DEF Sat!GiveUp
  <2>3. freed' = freed \cup {s} /\ satellite[s] = "late"
    BY <1>8 DEF Sat!GiveUp
  <2>4. \A e \in Engs : held[e] # s
    BY <1>2, <1>8, <2>1 DEF SatThreads
  <2>5. /\ Sat!ToSet(requestQueue') \subseteq Sat!ToSet(requestQueue)
        /\ Sat!IsInjective(requestQueue') /\ s \notin Sat!ToSet(requestQueue')
    <3>1. DOMAIN requestQueue = 1 .. Len(requestQueue)
      BY <1>1
    <3>2. QED BY <1>1, <1>2, <2>2, <3>1, Removed
  <2>6. ~broken'
    <3>1. \A j \in DOMAIN requestQueue : requestQueue[j] \notin freed
      BY <1>2 DEF Sat!ToSet
    <3>2. QED BY <1>8, <3>1 DEF Sat!GiveUp
  <2>7. RequestsMade'
    <3>1. \A t \in Sat!ToSet(requestQueue) \cup freed : satellite'[t] # "start"
      BY <1>1, <1>2, <1>5 DEF Accounts, RequestsMade, Sat!ToSet
    <3>2. \A e \in Engs : held[e] # Sat!NoRequest => satellite'[held[e]] # "start"
      BY <1>1, <1>2, <1>5 DEF Accounts, RequestsMade
    <3>3. satellite'[s] # "start"
      BY <1>5
    <3>4. \A t \in Sat!ToSet(requestQueue') \cup freed' : satellite'[t] # "start"
      BY <2>3, <2>5, <3>1, <3>3
    <3>5. QED BY <1>3, <3>2, <3>4 DEF RequestsMade, Sat!ToSet
  <2>8. PopsAlone'
    BY <1>3, <2>1 DEF PopsAlone
  <2>9. Sat!RequestsAccounted'
    <3>1. Sat!ToSet(requestQueue') \cap freed' = {}
      BY <1>2, <2>3, <2>5
    <3>2. \A e \in Engs : held'[e] # Sat!NoRequest =>
            /\ held'[e] \notin freed'
            /\ \A f \in Engs \ {e} : held'[f] # held'[e]
            /\ held'[e] \in Sat!ToSet(requestQueue') => engineer'[e] = "shift"
      BY <1>2, <1>3, <2>3, <2>4, <2>5
    <3>3. QED BY <2>5, <2>6, <3>1, <3>2 DEF Sat!RequestsAccounted, Sat!ToSet, Sat!IsInjective
  <2>10. QED BY <1>4, <2>7, <2>8, <2>9 DEF Accounts
<1>9. CASE Sat!GiveUp(s) /\ ~(s \in Sat!ToSet(requestQueue) /\ s \notin being_served)
  <2>1. \A j \in DOMAIN requestQueue : requestQueue[j] \notin freed
    BY <1>2 DEF Sat!ToSet
  <2>2. requestQueue' = requestQueue /\ freed' = freed /\ ~broken'
    BY <1>9, <2>1 DEF Sat!GiveUp
  <2>3. QED BY <1>2, <1>6, <2>2
<1>10. CASE Sat!Post(s) \/ Sat!Connect(s) \/ Sat!Late(s)
  BY <1>2, <1>6, <1>10 DEF Sat!Post, Sat!Connect, Sat!Late
<1>11. QED BY <1>7, <1>8, <1>9, <1>10 DEF Sat!SatStep

(* So do the engineers' steps. *)
LEMMA EngineerKeepsAccounts ==
  ASSUME SatThreads, SatInv, NEW e \in Engs, Sat!EngStep(e), ~raced'
  PROVE  Accounts'
<1> USE DEF Sat!EngMoves
<1>1. /\ satellite \in [Sats -> {"start", "post", "poll", "late", "end"}]
      /\ engineer \in [Engs -> {"wait", "test", "take", "shift", "retest", "mark", "serve", "free",
                                "leave", "end"}]
      /\ held \in [Engs -> Sats \cup {Sat!NoRequest}] /\ requestQueue \in Seq(Sats)
      /\ freed \subseteq Sats
  BY DEF Sat!TypeOK, SatInv
<1>2. /\ ~raced /\ ~broken /\ Accounts
      /\ Sat!IsInjective(requestQueue) /\ Sat!ToSet(requestQueue) \cap freed = {}
      /\ \A f \in Engs : held[f] # Sat!NoRequest =>
           /\ held[f] \notin freed
           /\ \A g \in Engs \ {f} : held[g] # held[f]
           /\ held[f] \in Sat!ToSet(requestQueue) => engineer[f] = "shift"
  BY SatCalm DEF Sat!Next
<1>3. satellite' = satellite /\ \A f \in Engs \ {e} : engineer'[f] = engineer[f]
  BY <1>1 DEF Sat!EngStep, Sat!Wake, Sat!Test, Sat!Retest, Sat!Take, Sat!Shift, Sat!Mark,
              Sat!Finish, Sat!Free, Sat!Leave
<1>4. ASSUME requestQueue' = requestQueue, freed' = freed, held' = held, ~broken',
             Holding(e)' <=> Holding(e), engineer[e] # "shift", engineer'[e] # "shift",
             engineer'[e] = "take" => requestQueue # <<>>
      PROVE  Accounts'
  <2>1. RequestsMade'
    BY <1>2, <1>3, <1>4 DEF Accounts, RequestsMade, Sat!ToSet
  <2>2. HeldWhileHolding'
    BY <1>2, <1>3, <1>4 DEF Accounts, HeldWhileHolding, Holding
  <2>3. PopsAlone'
    BY <1>2, <1>3, <1>4 DEF Accounts, PopsAlone
  <2>4. Sat!RequestsAccounted'
    <3>1. \A f \in Engs : held'[f] # Sat!NoRequest =>
            /\ held'[f] \notin freed'
            /\ \A g \in Engs \ {f} : held'[g] # held'[f]
            /\ held'[f] \in Sat!ToSet(requestQueue') => engineer'[f] = "shift"
      BY <1>2, <1>3, <1>4
    <3>2. QED BY <1>2, <1>4, <3>1 DEF Sat!RequestsAccounted, Sat!ToSet, Sat!IsInjective
  <2>5. QED BY <2>1, <2>2, <2>3, <2>4 DEF Accounts
<1>5. CASE Sat!Wake(e) \/ Sat!Test(e) \/ Sat!Retest(e) \/ Sat!Finish(e) \/ Sat!Leave(e)
  <2>1. /\ requestQueue' = requestQueue /\ freed' = freed /\ held' = held /\ ~broken'
        /\ engineer[e] # "shift" /\ engineer'[e] # "shift"
        /\ engineer'[e] = "take" => requestQueue # <<>>
    BY <1>1, <1>2, <1>5 DEF Sat!Wake, Sat!Test, Sat!Retest, Sat!Finish, Sat!Leave
  <2>2. Holding(e)' <=> Holding(e)
    BY <1>1, <1>5 DEF Sat!Wake, Sat!Test, Sat!Retest, Sat!Finish, Sat!Leave, Holding
  <2>3. QED BY <1>4, <2>1, <2>2
<1>6. CASE Sat!Mark(e)
  <2>1. Holding(e) /\ held[e] # Sat!NoRequest
    BY <1>2, <1>6 DEF Sat!Mark, Holding, Accounts, HeldWhileHolding
  <2>2. /\ requestQueue' = requestQueue /\ freed' = freed /\ held' = held
        /\ engineer[e] # "shift" /\ engineer'[e] = "serve"
    BY <1>1, <1>6 DEF Sat!Mark
  <2>3. ~broken'
    BY <1>2, <1>6, <2>1 DEF Sat!Mark
  <2>4. Holding(e)' <=> Holding(e)
    BY <2>1, <2>2 DEF Holding
  <2>5. QED BY <1>4, <2>2, <2>3, <2>4
<1>7. CASE Sat!Take(e)
  <2>1. \A f \in Engs \ {e} : engineer[f] \notin {"take", "shift"}
    BY <1>7 DEF Sat!Take, Sat!Disturbs
  <2>2. requestQueue # <<>> /\ engineer[e] = "take" /\ engineer'[e] = "shift"
    BY <1>1, <1>2, <1>7 DEF Sat!Take, Accounts, PopsAlone
  <2>3. requestQueue[1] \in Sats /\ requestQueue[1] \in Sat!ToSet(requestQueue)
    BY <1>1, <2>2, FirstGone
  <2>4. /\ requestQueue' = requestQueue /\ freed' = freed /\ ~broken'
        /\ held'[e] = requestQueue[1] /\ \A f \in Engs \ {e} : held'[f] = held[f]
    BY <1>1, <1>7, <2>2 DEF Sat!Take
  <2>5. /\ requestQueue[1] # Sat!NoRequest /\ requestQueue[1] \notin freed
        /\ \A f \in Engs \ {e} : held[f] # requestQueue[1]
    BY <1>2, <2>1, <2>3 DEF SatThreads
  <2>6. RequestsMade'
    <3>1. \A t \in Sat!ToSet(requestQueue) \cup freed : satellite[t] # "start"
      BY <1>2 DEF Accounts, RequestsMade
    <3>2. \A f \in Engs : held[f] # Sat!NoRequest => satellite[held[f]] # "start"
      BY <1>2 DEF Accounts, RequestsMade
    <3>3. \A f \in Engs : held'[f] # Sat!NoRequest => satellite[held'[f]] # "start"
      BY <2>3, <2>4, <3>1, <3>2
    <3>4. QED BY <1>3, <2>4, <3>1, <3>3 DEF RequestsMade, Sat!ToSet
  <2>7. HeldWhileHolding'
    BY <1>2, <1>3, <2>2, <2>4, <2>5 DEF Accounts, HeldWhileHolding, Holding
  <2>8. PopsAlone'
    BY <1>3, <2>1, <2>2, <2>4 DEF PopsAlone
  <2>9. Sat!RequestsAccounted'
    <3>1. \A f \in Engs : held'[f] # Sat!NoRequest =>
            /\ held'[f] \notin freed'
            /\ \A g \in Engs \ {f} : held'[g] # held'[f]
            /\ held'[f] \in Sat!ToSet(requestQueue') => engineer'[f] = "shift"
      BY <1>2, <1>3, <2>2, <2>4, <2>5
    <3>2. QED BY <1>2, <2>4, <3>1 DEF Sat!RequestsAccounted, Sat!ToSet, Sat!IsInjective
  <2>10. QED BY <2>6, <2>7, <2>8, <2>9 DEF Accounts
<1>8. CASE Sat!Shift(e)
  <2>1. \A f \in Engs \ {e} : engineer[f] \notin {"take", "shift"}
    BY <1>8 DEF Sat!Shift, Sat!Disturbs
  <2>2. /\ requestQueue # <<>> /\ held[e] = requestQueue[1]
        /\ engineer[e] = "shift" /\ engineer'[e] = "mark"
    BY <1>1, <1>2, <1>8 DEF Sat!Shift, Accounts, PopsAlone
  <2>3. requestQueue' = Tail(requestQueue) /\ freed' = freed /\ held' = held /\ ~broken'
    BY <1>8, <2>2 DEF Sat!Shift
  <2>4. /\ Sat!ToSet(requestQueue') \subseteq Sat!ToSet(requestQueue)
        /\ Sat!IsInjective(requestQueue') /\ held[e] \notin Sat!ToSet(requestQueue')
    BY <1>1, <1>2, <2>2, <2>3, FirstGone
  <2>5. RequestsMade'
    <3>1. \A t \in Sat!ToSet(requestQueue') \cup freed : satellite[t] # "start"
      BY <1>2, <2>4 DEF Accounts, RequestsMade
    <3>2. \A f \in Engs : held[f] # Sat!NoRequest => satellite[held[f]] # "start"
      BY <1>2 DEF Accounts, RequestsMade
    <3>3. QED BY <1>3, <2>3, <3>1, <3>2 DEF RequestsMade, Sat!ToSet
  <2>6. HeldWhileHolding'
    BY <1>2, <1>3, <2>2, <2>3 DEF Accounts, HeldWhileHolding, Holding
  <2>7. PopsAlone'
    BY <1>3, <2>1, <2>2 DEF PopsAlone
  <2>8. Sat!RequestsAccounted'
    <3>1. \A f \in Engs : held'[f] # Sat!NoRequest =>
            /\ held'[f] \notin freed'
            /\ \A g \in Engs \ {f} : held'[g] # held'[f]
            /\ held'[f] \in Sat!ToSet(requestQueue') => engineer'[f] = "shift"
      BY <1>2, <1>3, <2>1, <2>3, <2>4
    <3>2. Sat!ToSet(requestQueue') \cap freed' = {}
      BY <1>2, <2>3, <2>4
    <3>3. QED BY <2>3, <2>4, <3>1, <3>2 DEF Sat!RequestsAccounted, Sat!ToSet, Sat!IsInjective
  <2>9. QED BY <2>5, <2>6, <2>7, <2>8 DEF Accounts
<1>9. CASE Sat!Free(e)
  <2>1. engineer[e] = "free" /\ engineer'[e] = "leave" /\ held[e] # Sat!NoRequest
    BY <1>1, <1>2, <1>9 DEF Sat!Free, Holding, Accounts, HeldWhileHolding
  <2>2. held[e] \notin freed /\ held[e] \notin Sat!ToSet(requestQueue)
    BY <1>2, <2>1
  <2>3. /\ requestQueue' = requestQueue /\ freed' = freed \cup {held[e]} /\ ~broken'
        /\ held'[e] = Sat!NoRequest /\ \A f \in Engs \ {e} : held'[f] = held[f]
    BY <1>1, <1>9, <2>2 DEF Sat!Free
  <2>4. RequestsMade'
    <3>1. \A t \in Sat!ToSet(requestQueue) \cup freed : satellite[t] # "start"
      BY <1>2 DEF Accounts, RequestsMade
    <3>2. \A f \in Engs : held[f] # Sat!NoRequest => satellite[held[f]] # "start"
      BY <1>2 DEF Accounts, RequestsMade
    <3>3. \A f \in Engs : held'[f] # Sat!NoRequest => satellite[held'[f]] # "start"
      BY <2>3, <3>2
    <3>4. \A t \in Sat!ToSet(requestQueue) \cup freed' : satellite[t] # "start"
      BY <2>1, <2>3, <3>1, <3>2
    <3>5. QED BY <1>3, <2>3, <3>3, <3>4 DEF RequestsMade, Sat!ToSet
  <2>5. HeldWhileHolding'
    BY <1>2, <1>3, <2>1, <2>3 DEF Accounts, HeldWhileHolding, Holding
  <2>6. PopsAlone'
    BY <1>2, <1>3, <2>1, <2>3 DEF Accounts, PopsAlone
  <2>7. Sat!RequestsAccounted'
    <3>1. \A f \in Engs : held'[f] # Sat!NoRequest =>
            /\ held'[f] \notin freed'
            /\ \A g \in Engs \ {f} : held'[g] # held'[f]
            /\ held'[f] \in Sat!ToSet(requestQueue') => engineer'[f] = "shift"
      BY <1>2, <1>3, <2>1, <2>3
    <3>2. Sat!ToSet(requestQueue) \cap freed' = {}
      BY <1>2, <2>2, <2>3
    <3>3. QED BY <1>2, <2>3, <3>1, <3>2 DEF Sat!RequestsAccounted, Sat!ToSet, Sat!IsInjective
  <2>8. QED BY <2>4, <2>5, <2>6, <2>7 DEF Accounts
<1>10. QED BY <1>5, <1>6, <1>7, <1>8, <1>9 DEF Sat!EngStep

(* A step of Programs is one of its satellites or leaves them alone. *)
LEMMA SatSteps == [AllNext]_allvars => [Sat!Next]_satellites_vars
BY DEF AllNext, Only, allvars

(* For any satellites, any finite number of engineers and any urgencies:     *)
(* the requests of HW3 (main.c:97-178) have their types, every engineer that *)
(* goes on has a request, and they are accounted for unless a pop was overlapped. *)
THEOREM SatInvariant == ASSUME SatThreads PROVE AllSpec => []SatInv
<1>1. AllInit => SatInv
  BY SatInitially DEF AllInit
<1>2. SatInv /\ [AllNext]_allvars => SatInv'
  <2> SUFFICES ASSUME SatInv, [Sat!Next]_satellites_vars PROVE SatInv'
    BY SatSteps
  <2>1. CASE Sat!Next
    <3>1. Sat!TypeOK' /\ HoldersHold'
      BY <2>1, SatTypesKept, SatHoldersHold DEF SatInv
    <3>2. ASSUME ~raced' PROVE Accounts'
      BY <2>1, <3>2, SatelliteKeepsAccounts, EngineerKeepsAccounts DEF Sat!Next
    <3>3. QED BY <3>1, <3>2 DEF SatInv
  <2>2. CASE UNCHANGED satellites_vars
    <3>1. Sat!TypeOK' /\ HoldersHold'
      BY <2>2 DEF SatInv, satellites_vars, Sat!TypeOK, HoldersHold, Holding
    <3>2. Sat!RequestsAccounted <=> Sat!RequestsAccounted'
      BY <2>2 DEF satellites_vars, Sat!RequestsAccounted, Sat!ToSet, Sat!IsInjective
    <3>3. ~raced' => Accounts'
      BY <2>2, <3>2 DEF SatInv, satellites_vars, Accounts, RequestsMade, HeldWhileHolding,
                        Holding, PopsAlone, Sat!ToSet
    <3>4. QED BY <3>1, <3>3 DEF SatInv
  <2>3. QED BY <2>1, <2>2
<1>3. QED BY <1>1, <1>2, PTL DEF AllSpec

(* The property of the run: a request is queued once, or held by one         *)
(* engineer, or freed, and is not used after that, unless a pop was overlapped *)
(* (HW3 main.c:142-178).                                                     *)
THEOREM SatRequestsAccounted == ASSUME SatThreads PROVE AllSpec => []RequestsAccounted
<1>1. SatInv => RequestsAccounted
  BY DEF SatInv, Accounts, Sat!RequestsAccounted, RequestsAccounted
<1>2. QED BY <1>1, SatInvariant, PTL
=============================================================================
