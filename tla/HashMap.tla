-------------------------------- MODULE HashMap -------------------------------
(* GTUHashMap of Data Structures And Algorithms, HW6: open addressing with   *)
(* quadratic probing, entries that are only marked when they are removed,    *)
(* and a table that doubles to the next prime.  A step is one call.          *)
(*                                                                           *)
(* A key is its position: HashOf is what getIndex makes of its hash code     *)
(* before it takes the remainder by the length of the table.                 *)
EXTENDS Integers, FiniteSetsExt

CONSTANTS
  Keys, Values,
  HashOf,          (* the hash of each key, not negative                      *)
  CAPACITY,        (* the length wanted at first (16)                         *)
  MaxTable         (* bound: entries the table may hold, removed ones included *)

VARIABLES
  table,           (* the entries, from index 0 on                            *)
  size,
  contents,        (* history: what the calls so far have put and not removed *)
  overwritten      (* history: a put has replaced another key                 *)

mvars == <<table, size, contents, overwritten>>

Free == [free |-> TRUE]
Entry(key, value) == [free |-> FALSE, key |-> key, value |-> value, isDeleted |-> FALSE]

TypeOK ==
  /\ size \in Nat
  /\ \A i \in DOMAIN table : table[i] # Free => table[i].key \in Keys /\ table[i].value \in Values
  /\ DOMAIN contents \subseteq Keys /\ overwritten \in BOOLEAN
-----------------------------------------------------------------------------
(* isPrime tries 2 and 3 and what is next to a multiple of 6; it is asked of *)
(* odd numbers only.                                                         *)
IsPrime(n) ==
  /\ n > 1
  /\ n > 3 => n % 3 # 0
  /\ \A i \in {6 * j - 1 : j \in 1 .. n} : i * i <= n => n % i # 0 /\ n % (i + 2) # 0
NextPrime(n) == IF n <= 2 THEN 2 ELSE Min({m \in n .. 2 * n : m % 2 = 1 /\ IsPrime(m)})

Length(t) == Cardinality(DOMAIN t)
EmptyTable(length) == [i \in 0 .. length - 1 |-> Free]

(* The i-th place to look for a key. *)
Probe(t, key, i) == ((HashOf[key] % Length(t)) + i * i) % Length(t)

Holds(e, key) == e # Free /\ ~e.isDeleted /\ e.key = key

(* Faulty variant of Place (below), no part of the specification: a removed  *)
(* entry ends the search too.                                                *)
PlaceReusing(t, key) ==
  Probe(t, key, Min({i \in 0 .. Length(t) :
    LET p == Probe(t, key, i) IN
    t[p] = Free \/ t[p].isDeleted \/ Holds(t[p], key) \/ (i > 0 /\ p = Probe(t, key, 0))}))

(* Where the search ends: at the key, at a free place, or back at the place  *)
(* where it began.                                                           *)
Place(t, key) ==
  Probe(t, key, Min({i \in 0 .. Length(t) :
    LET p == Probe(t, key, i) IN t[p] = Free \/ Holds(t[p], key) \/ (i > 0 /\ p = Probe(t, key, 0))}))

Found(t, key) == Holds(t[Place(t, key)], key)

(* The entry goes to that place, whatever is there. *)
Insert(t, key, value) == [t EXCEPT ![Place(t, key)] = Entry(key, value)]

Live(t) == {i \in DOMAIN t : t[i] # Free /\ ~t[i].isDeleted}

(* The entries that are not removed move to a new table, in their order.     *)
Resize(t) ==
  LET moved[n \in 0 .. Length(t)] ==
        IF n = 0 THEN EmptyTable(NextPrime(2 * Length(t)))
        ELSE IF n - 1 \in Live(t)
             THEN Insert(moved[n - 1], t[n - 1].key, t[n - 1].value)
             ELSE moved[n - 1]
  IN  moved[Length(t)]
-----------------------------------------------------------------------------
Init ==
  /\ table = EmptyTable(NextPrime(CAPACITY)) /\ size = 0
  /\ contents = [k \in {} |-> k] /\ overwritten = FALSE

(* put, with the load factor 0.75 *)
put ==
  \E key \in Keys, value \in Values :
    LET grows == 4 * size >= 3 * Length(table)
        t     == IF grows THEN Resize(table) ELSE table
        count == IF grows THEN Cardinality(Live(table)) ELSE size
        old   == t[Place(t, key)]
    IN  /\ Cardinality({i \in DOMAIN t : t[i] # Free}) < MaxTable
        /\ table' = Insert(t, key, value)
        /\ size' = IF Found(t, key) THEN count ELSE count + 1
        /\ contents' = [k \in DOMAIN contents \cup {key} |->
                          IF k = key THEN value ELSE contents[k]]
        /\ overwritten' = (overwritten \/ (old # Free /\ ~old.isDeleted /\ old.key # key))

get(key) == IF Found(table, key) THEN {table[Place(table, key)].value} ELSE {}

remove ==
  \E key \in Keys :
    /\ IF Found(table, key)
       THEN table' = [table EXCEPT ![Place(table, key)].isDeleted = TRUE] /\ size' = size - 1
       ELSE UNCHANGED <<table, size>>
    /\ contents' = [k \in DOMAIN contents \ {key} |-> contents[k]]
    /\ UNCHANGED overwritten

Next == put \/ remove
Spec == Init /\ [][Next]_mvars
-----------------------------------------------------------------------------
(* Properties. *)

(* get returns for every key what was put last and not removed since, and    *)
(* size is the number of keys, through removals, removed entries in the way  *)
(* and resizing, until a put finds no free place where it looks, comes back  *)
(* to its first one and replaces the other key there                         *)
(* (GTUHashMap.java:15-80, 104-116).                                         *)
LookupsRight ==
  ~overwritten =>
    /\ \A key \in Keys : get(key) = IF key \in DOMAIN contents THEN {contents[key]} ELSE {}
    /\ size = Cardinality(DOMAIN contents)
=============================================================================
